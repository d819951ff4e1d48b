-------------------------- MODULE ChangeLifecycle --------------------------
(***************************************************************************)
(* What the change executor promises about one change, whatever happens to *)
(* the process that carries it out: a change runs at most once, gets at    *)
(* most one outcome, leaves "applied" only by a rollback, and is moved     *)
(* only by the operation that holds the executor.  A change that lost its  *)
(* operation is declared interrupted, and only while nobody holds it.      *)
(* ChangeExecutor implements this specification.                           *)
(***************************************************************************)
CONSTANTS
  Changes,   \* identities of the directories under changes/
  Nobody     \* the executor is free

VARIABLES
  status,    \* what the record of each change says
  holder     \* the change whose apply or rollback is in progress

Outcome == {"applied", "failed", "auto_rolled_back"}
Status  == {"none", "running", "interrupted", "rolled_back", "torn"} \cup Outcome

Init ==
  /\ status = [c \in Changes |-> "none"]
  /\ holder = Nobody

Acquire(c) ==
  /\ holder = Nobody
  /\ status[c] \in {"none", "applied"}
  /\ holder' = c
  /\ UNCHANGED status

Begin(c) ==
  /\ holder = c
  /\ status[c] = "none"
  /\ status' = [status EXCEPT ![c] = "running"]
  /\ UNCHANGED holder

Finish(c) ==
  /\ holder = c
  /\ status[c] = "running"
  /\ \E s \in Outcome : status' = [status EXCEPT ![c] = s]
  /\ UNCHANGED holder

Undo(c) ==
  /\ holder = c
  /\ status[c] = "applied"
  /\ status' = [status EXCEPT ![c] = "rolled_back"]
  /\ UNCHANGED holder

(* The operation ends or dies.  Old changes may be forgotten as it ends,   *)
(* but never the one still running in the operation's hands.               *)
Release ==
  /\ holder' = Nobody
  /\ \E old \in SUBSET {c \in Changes : ~(c = holder /\ status[c] = "running")} :
       status' = [c \in Changes |-> IF c \in old THEN "none" ELSE status[c]]

(* The process dies, or the disk fills up, while the record is rewritten.  *)
Tear(c) ==
  /\ \/ holder = c
     \/ holder = Nobody /\ status[c] = "running"
  /\ status' = [status EXCEPT ![c] = "torn"]
  /\ holder' = Nobody

Interrupt(c) ==
  /\ holder = Nobody
  /\ status[c] = "running"
  /\ status' = [status EXCEPT ![c] = "interrupted"]
  /\ UNCHANGED holder

Next ==
  \/ \E c \in Changes :
       Acquire(c) \/ Begin(c) \/ Finish(c) \/ Undo(c) \/ Tear(c) \/ Interrupt(c)
  \/ Release

Spec == Init /\ [][Next]_<<status, holder>>
=============================================================================
