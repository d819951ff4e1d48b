--------------------------- MODULE ChangeExecutor ---------------------------
(***************************************************************************)
(* The change executor of the root broker (src/changes/executor.js): one   *)
(* apply or rollback at a time, a directory per change with its record and *)
(* its snapshot, a journal line around every operation, and recovery of    *)
(* what a dead broker left behind.                                         *)
(*                                                                         *)
(* An action is one synchronous stretch of the code, cut where a crash     *)
(* leaves something different on disk.  Scripts and git are external: they *)
(* succeed or fail.  Every proposal edits the same file, which other       *)
(* people may edit or delete at any moment.                                *)
(***************************************************************************)
EXTENDS Naturals, Sequences, FiniteSets

CONSTANTS
  Proposals,   \* approved proposals; an apply of one may be repeated
  Kind,        \* [Proposals -> {"file", "patch", "command"}]
  Base,        \* what a patch expects in its hunk; "none": it creates the file
  HashOrder,   \* order of the hashes that end directory names
  Nobody,      \* no change
  Keep,        \* KEEP, the number of change directories prune() leaves
  SameSecond,  \* may one proposal be applied twice within a second?
  MaxSecond, MaxOps, MaxEdits, MaxCrashes, MaxFaults   \* bounds of a run

Mark == Proposals \cup {"orig", "alien", "none"}

ASSUME ExecutorAssumption ==
  /\ IsFiniteSet(Proposals)
  /\ Kind \in [Proposals -> {"file", "patch", "command"}]
  /\ Base \in [Proposals -> Mark]
  /\ HashOrder \in [Proposals -> Nat]
  /\ \A p, q \in Proposals : HashOrder[p] = HashOrder[q] => p = q
  /\ Proposals \cap {"orig", "alien", "none"} = {}
  /\ Keep \in Nat \ {0}
  /\ SameSecond \in BOOLEAN
  /\ {MaxSecond, MaxOps, MaxEdits, MaxCrashes, MaxFaults} \subseteq Nat

(* changeId: a second and the hash of the proposal.                        *)
Change == [at : 0..MaxSecond, of : Proposals]

ASSUME NobodyAssumption == Nobody \notin Change

(* A file: the hunk a patch touches and the rest of it, each marked with   *)
(* whoever wrote it last.                                                  *)
Content == [hunk : Mark, rest : Mark]
Absent   == [hunk |-> "none", rest |-> "none"]
Original == [hunk |-> "orig", rest |-> "orig"]
Written(p) == [hunk |-> p, rest |-> p]

(* result.json; `after` and `existed` are its rollbackData.                *)
Status == {"none", "running", "applied", "failed", "auto_rolled_back",
           "interrupted", "rolled_back", "torn"}
Record == [status : Status, existed : BOOLEAN, after : Content]
NoRecord == [status |-> "none", existed |-> FALSE, after |-> Absent]
Torn     == [NoRecord EXCEPT !.status = "torn"]

Event == [event : {"apply_start", "apply_done", "apply_interrupted",
                   "rollback_start", "rollback_done"},
          change : Change, note : Status]

(* Without a process, recovering, idle, an apply under way, reverting in   *)
(* either task, ending either.                                             *)
Phase == {"down", "recover", "report", "idle",
          "start", "begin", "patch", "git_apply", "hash", "file", "validate",
          "command", "post", "health",
          "revert", "reverse", "restore", "repost",
          "finish", "journal"}

VARIABLES
  phase,     \* where the broker stands; "down" without a process
  task,      \* what holds `busy`: an apply, a rollback or nothing
  current,   \* the change of that task, or the one recovery is reporting
  force,     \* whether reverting may overwrite what others wrote
  memo,      \* the record in memory
  record,    \* result.json of each change
  snapshot,  \* its before/ copy
  journal,   \* the executor's lines of journal.jsonl
  content,   \* the live file
  second,    \* the wall clock
  before,    \* history: the file each change found and set out to replace
  touched,   \* history: others wrote the file since the task began
  used       \* how much of each bound is spent

opVars    == <<phase, task, current, force, memo>>
diskVars  == <<record, snapshot, journal>>
ghostVars == <<before, touched>>
vars == <<opVars, diskVars, content, second, ghostVars, used>>

Init ==
  /\ phase = "idle" /\ task = "none" /\ current = Nobody
  /\ force = FALSE /\ memo = NoRecord
  /\ record = [c \in Change |-> NoRecord]
  /\ snapshot = [c \in Change |-> Absent]
  /\ journal = <<>>
  /\ content \in {Original, Absent}
  /\ second = 0
  /\ before = [c \in Change |-> Absent] /\ touched = FALSE
  /\ used = [ops |-> 0, edits |-> 0, crashes |-> 0, faults |-> 0]

-----------------------------------------------------------------------------
(* Helpers.                                                                *)

KindOf(c) == Kind[c.of]

(* `busy = null` and everything the task held in memory is gone.           *)
Drop(next) ==
  /\ phase' = next /\ task' = "none" /\ current' = Nobody
  /\ force' = FALSE /\ memo' = NoRecord
  /\ touched' = FALSE

Log(event, c, note) ==
  journal' = Append(journal, [event |-> event, change |-> c, note |-> note])

About(c) == {i \in DOMAIN journal : journal[i].change = c}

(* A directory name nobody used yet.                                       *)
Fresh(c) == record[c].status = "none" /\ About(c) = {}

Spend(what, bound) ==
  /\ used[what] < bound
  /\ used' = [used EXCEPT ![what] = @ + 1]

(* The task goes on in memory only.                                        *)
Continue(next) ==
  /\ phase' = next
  /\ UNCHANGED <<task, current, force, memo, diskVars, content, second, ghostVars, used>>

(* The task reaches its end with a status, and only has to record it.      *)
Conclude(status) ==
  /\ phase' = "finish"
  /\ memo' = [memo EXCEPT !.status = status]
  /\ UNCHANGED <<task, current, force, diskVars, second, ghostVars, used>>

(* A stage or an undo that did not work: an apply fails, a rollback leaves *)
(* the change applied.                                                     *)
GiveUp ==
  /\ Conclude(IF task = "apply" THEN "failed" ELSE "applied")
  /\ UNCHANGED content

(* git apply and git apply -R on the hunk of a patch.                      *)
Applies(p, c) ==
  IF Base[p] = "none" THEN c = Absent ELSE c # Absent /\ c.hunk = Base[p]
Patched(p, c) ==
  IF Base[p] = "none" THEN Written(p) ELSE [c EXCEPT !.hunk = p]
Reverses(p, c) ==
  IF Base[p] = "none" THEN c = Written(p) ELSE c # Absent /\ c.hunk = p
Unpatched(p, c) ==
  IF Base[p] = "none" THEN Absent ELSE [c EXCEPT !.hunk = Base[p]]

(* What the change replaced, from its directory.                           *)
Saved(c) == IF memo.existed THEN snapshot[c] ELSE Absent

(* Directories sort by time, then by hash; the newest Keep survive.        *)
Newer(c, d) ==
  c.at > d.at \/ (c.at = d.at /\ HashOrder[c.of] > HashOrder[d.of])
Directories == {c \in Change : record[c].status # "none" \/ snapshot[c] # Absent}
NewerThan(c) == {d \in Directories : Newer(d, c)}
Kept == {c \in Directories : Cardinality(NewerThan(c)) < Keep}
(* Mutant: one directory too many is pruned, and its record stays behind.  *)
prune_OneTooMany ==
  /\ record' = [c \in Change |-> IF c \in Kept THEN record[c] ELSE NoRecord]
  /\ snapshot' = [c \in Change |-> IF Cardinality(NewerThan(c)) + 1 < Keep THEN snapshot[c] ELSE Absent]

prune ==
  /\ record' = [c \in Change |-> IF c \in Kept THEN record[c] ELSE NoRecord]
  /\ snapshot' = [c \in Change |-> IF c \in Kept THEN snapshot[c] ELSE Absent]

(* prune() is best effort and removes file after file, the oldest directory*)
(* first: an error or a crash leaves part of one directory, and all newer  *)
(* ones.  (Without its proposal.json, which is left out here, no rollback  *)
(* of a change begins; nobody has to ask for one.)                         *)
PruneHalf(c) ==
  LET older(d) == d \notin Kept /\ Newer(c, d) IN
  /\ c \in Directories \ Kept
  /\ \E r \in {record[c], NoRecord}, copy \in {snapshot[c], Absent} :
       /\ record' = [d \in Change |->
            IF older(d) THEN NoRecord ELSE IF d = c THEN r ELSE record[d]]
       /\ snapshot' = [d \in Change |->
            IF older(d) THEN Absent ELSE IF d = c THEN copy ELSE snapshot[d]]

-----------------------------------------------------------------------------
(* apply(): up to its first journal line.  A failure before that line      *)
(* escapes the try block, so the record is left as it is.                  *)

StartApply(p) ==
  LET c == [at |-> second, of |-> p] IN
  /\ phase = "idle"
  /\ SameSecond \/ Fresh(c)
  /\ Spend("ops", MaxOps)
  /\ phase' = "start" /\ task' = "apply" /\ current' = c /\ force' = FALSE
  /\ memo' = [NoRecord EXCEPT !.status = "running"]
  /\ touched' = FALSE
  /\ UNCHANGED <<diskVars, content, second, before>>

WriteRunning ==
  /\ phase = "start"
  /\ record' = [record EXCEPT ![current] = memo]
  /\ before' = [before EXCEPT ![current] = content]
  /\ phase' = "begin"
  /\ UNCHANGED <<task, current, force, memo, snapshot, journal, content,
                 second, touched, used>>

(* Mutant: the start is not journaled.                                     *)
JournalStart_Silent ==
  /\ phase = "begin"
  /\ phase' = KindOf(current)
  /\ UNCHANGED <<task, current, force, memo, diskVars, content, second, ghostVars, used>>

JournalStart ==
  /\ phase = "begin"
  /\ Log("apply_start", current, "running")
  /\ phase' = KindOf(current)
  /\ UNCHANGED <<task, current, force, memo, record, snapshot, content,
                 second, ghostVars, used>>

-----------------------------------------------------------------------------
(* The stage of each kind.                                                 *)

(* The checks of patchApply, git apply --check, and the copy of the file   *)
(* made in the same stretch once the check has answered.                   *)
PatchSnapshot ==
  /\ phase = "patch"
  /\ Applies(current.of, content)
  /\ snapshot' = [snapshot EXCEPT ![current] = IF content = Absent THEN @ ELSE content]
  /\ memo' = [memo EXCEPT !.existed = (content # Absent)]
  /\ before' = [before EXCEPT ![current] = content]
  /\ phase' = "git_apply"
  /\ UNCHANGED <<task, current, force, record, journal, content, second,
                 touched, used>>

PatchApply ==
  /\ phase = "git_apply"
  /\ Applies(current.of, content)
  /\ content' = Patched(current.of, content)
  /\ phase' = "hash"
  /\ UNCHANGED <<task, current, force, memo, diskVars, second, ghostVars, used>>

(* `after` is read from the tree once git has exited.                      *)
PatchHash ==
  /\ phase = "hash"
  /\ memo' = [memo EXCEPT !.after = content]
  /\ phase' = "post"
  /\ UNCHANGED <<task, current, force, diskVars, content, second, ghostVars, used>>

(* Mutant: the copy is made after the rename.                              *)
FileWrite_LateCopy ==
  /\ phase = "file"
  /\ snapshot' = [snapshot EXCEPT ![current] = Written(current.of)]
  /\ content' = Written(current.of)
  /\ memo' = [memo EXCEPT !.existed = (content # Absent), !.after = Written(current.of)]
  /\ before' = [before EXCEPT ![current] = content]
  /\ phase' = "validate"
  /\ UNCHANGED <<task, current, force, record, journal, second, touched, used>>

(* fileApply up to its rename.                                             *)
FileWrite ==
  /\ phase = "file"
  /\ snapshot' = [snapshot EXCEPT ![current] = IF content = Absent THEN @ ELSE content]
  /\ content' = Written(current.of)
  /\ memo' = [memo EXCEPT !.existed = (content # Absent), !.after = Written(current.of)]
  /\ before' = [before EXCEPT ![current] = content]
  /\ phase' = "validate"
  /\ UNCHANGED <<task, current, force, record, journal, second, touched, used>>

Validated ==
  /\ phase = "validate"
  /\ Continue("post")

(* The copy may be missing from a directory that was pruned half way.      *)
HasCopy == memo.existed => snapshot[current] # Absent

(* fileRestore throws without its copy, and when the file it should replace*)
(* has vanished.                                                           *)
CanRestore == HasCopy /\ (memo.existed => content # Absent)

(* Mutant: a failed validation does not restore the file.                  *)
ValidationFailed_Kept ==
  /\ phase = "validate"
  /\ Conclude("failed")
  /\ UNCHANGED content

ValidationFailed ==
  /\ phase = "validate"
  /\ CanRestore
  /\ content' = Saved(current)
  /\ Conclude("failed")

RestoreThrows ==
  /\ phase = "validate"
  /\ ~CanRestore
  /\ GiveUp

CommandRan ==
  /\ phase = "command"
  /\ Continue("post")

(* A check, a validation before anything is written, git apply or the      *)
(* command itself fails.                                                   *)
StageFails ==
  /\ phase \in {"patch", "git_apply", "file", "command"}
  /\ GiveUp

-----------------------------------------------------------------------------
(* Post steps and health check, then the automatic rollback, forced.       *)

PostPassed ==
  /\ phase = "post"
  /\ Continue("health")

Healthy ==
  /\ phase = "health"
  /\ Conclude("applied")
  /\ UNCHANGED content

AutoRollback ==
  /\ phase \in {"post", "health"}
  /\ phase' = "revert" /\ force' = TRUE
  /\ UNCHANGED <<task, current, memo, diskVars, content, second, ghostVars, used>>

(* Mutants: rollback_start is not journaled; any finished apply qualifies. *)
StartRollback_Silent(c, f) ==
  /\ phase = "idle"
  /\ record[c].status = "applied"
  /\ Spend("ops", MaxOps)
  /\ phase' = "revert" /\ task' = "rollback" /\ current' = c /\ force' = f
  /\ memo' = record[c]
  /\ touched' = FALSE
  /\ UNCHANGED <<diskVars, content, second, before>>

StartRollback_AnyOutcome(c, f) ==
  /\ phase = "idle"
  /\ record[c].status \in {"applied", "failed"}
  /\ Spend("ops", MaxOps)
  /\ Log("rollback_start", c, "applied")
  /\ phase' = "revert" /\ task' = "rollback" /\ current' = c /\ force' = f
  /\ memo' = record[c]
  /\ touched' = FALSE
  /\ UNCHANGED <<record, snapshot, content, second, before>>

(* rollback(): the record must say applied; it is read before `busy` is    *)
(* taken, in the same stretch.                                             *)
StartRollback(c, f) ==
  /\ phase = "idle"
  /\ record[c].status = "applied"
  /\ Spend("ops", MaxOps)
  /\ Log("rollback_start", c, "applied")
  /\ phase' = "revert" /\ task' = "rollback" /\ current' = c /\ force' = f
  /\ memo' = record[c]
  /\ touched' = FALSE
  /\ UNCHANGED <<record, snapshot, content, second, before>>

-----------------------------------------------------------------------------
(* revert(), shared by the two.                                            *)

Drifted == content # memo.after

Reverted(to) ==
  /\ content' = to
  /\ phase' = "repost"
  /\ UNCHANGED <<task, current, force, memo, diskVars, second, ghostVars, used>>

(* Mutant: the drift check is missing.                                     *)
FileRevert_NoDriftCheck ==
  /\ phase = "revert" /\ KindOf(current) = "file"
  /\ CanRestore
  /\ Reverted(Saved(current))

(* fileRevert compares, copies and renames in one stretch.                 *)
FileRevert ==
  /\ phase = "revert" /\ KindOf(current) = "file"
  /\ Drifted => force
  /\ CanRestore
  /\ Reverted(Saved(current))

(* Files changed since the apply, or the restore throws.                   *)
FileRevertFails ==
  /\ phase = "revert" /\ KindOf(current) = "file"
  /\ (Drifted /\ ~force) \/ ~CanRestore
  /\ GiveUp

PatchDriftCheck ==
  /\ phase = "revert" /\ KindOf(current) = "patch"
  /\ Drifted => force
  /\ Continue("reverse")

PatchDrifted ==
  /\ phase = "revert" /\ KindOf(current) = "patch"
  /\ Drifted /\ ~force
  /\ GiveUp

PatchReverse ==
  /\ phase = "reverse"
  /\ Reverses(current.of, content)
  /\ Reverted(Unpatched(current.of, content))

PatchReverseConflict ==
  /\ phase = "reverse" /\ ~force
  /\ GiveUp

(* A forced revert falls back to the snapshot.                             *)
PatchReverseForced ==
  /\ phase = "reverse" /\ force
  /\ Continue("restore")

SnapshotRestore ==
  /\ phase = "restore"
  /\ HasCopy
  /\ Reverted(Saved(current))

SnapshotMissing ==
  /\ phase = "restore"
  /\ ~HasCopy
  /\ GiveUp

CommandUndone ==
  /\ phase = "revert" /\ KindOf(current) = "command"
  /\ Continue("repost")

(* No undo was declared, or it failed.                                     *)
CommandNotUndone ==
  /\ phase = "revert" /\ KindOf(current) = "command"
  /\ GiveUp

(* Mutant: only the automatic rollback goes on after the post steps.       *)
PostAgain_ApplyOnly ==
  /\ phase = "repost" /\ task = "apply"
  /\ Conclude("auto_rolled_back")
  /\ UNCHANGED content

(* The post steps run once more; their result changes no status.           *)
PostAgain ==
  /\ phase = "repost"
  /\ Conclude(IF task = "apply" THEN "auto_rolled_back" ELSE "rolled_back")
  /\ UNCHANGED content

-----------------------------------------------------------------------------
(* The end of both tasks: the record, the journal, then `busy` is free.    *)

(* Mutant: the final record is never saved.                                *)
WriteResult_Unsaved ==
  /\ phase = "finish"
  /\ phase' = "journal"
  /\ UNCHANGED <<task, current, force, memo, diskVars, content, second, ghostVars, used>>

WriteResult ==
  /\ phase = "finish"
  /\ record' = [record EXCEPT ![current] = memo]
  /\ phase' = "journal"
  /\ UNCHANGED <<task, current, force, memo, snapshot, journal, content,
                 second, ghostVars, used>>

ApplyDone ==
  /\ phase = "journal" /\ task = "apply"
  /\ Log("apply_done", current, memo.status)
  /\ prune
  /\ Drop("idle")
  /\ UNCHANGED <<content, second, used, before>>

RollbackDone ==
  /\ phase = "journal" /\ task = "rollback"
  /\ Log("rollback_done", current, memo.status)
  /\ Drop("idle")
  /\ UNCHANGED <<record, snapshot, content, second, used, before>>

PruneStops ==
  /\ phase = "journal" /\ task = "apply"
  /\ Log("apply_done", current, memo.status)
  /\ \E c \in Change : PruneHalf(c)
  /\ \/ Spend("faults", MaxFaults) /\ Drop("idle")
     \/ Spend("crashes", MaxCrashes) /\ Drop("down")
  /\ UNCHANGED <<content, second, before>>

(* journal.append throws: nothing written, the request fails, the task is  *)
(* over.  (Before rollback_start this leaves no trace at all.)             *)
AppendFails ==
  /\ phase \in {"begin", "journal"}
  /\ Spend("faults", MaxFaults)
  /\ Drop("idle")
  /\ UNCHANGED <<diskVars, content, second, before>>

(* writeFileSync throws, before or after it truncated the record.          *)
WriteFails ==
  /\ phase \in {"start", "finish"}
  /\ Spend("faults", MaxFaults)
  /\ record' \in {record, [record EXCEPT ![current] = Torn]}
  /\ Drop("idle")
  /\ UNCHANGED <<snapshot, journal, content, second, before>>

-----------------------------------------------------------------------------
(* The process dies, mid-write perhaps; systemd starts it again and the    *)
(* executor is built anew before the sockets listen.                       *)

Unfinished == {c \in Change : record[c].status = "running"}

BeingWritten ==
  CASE phase \in {"start", "finish"} -> {current}
    [] phase = "recover"             -> Unfinished
    [] OTHER                         -> {}

Crash ==
  /\ phase # "down"
  /\ Spend("crashes", MaxCrashes)
  /\ \/ UNCHANGED record
     \/ \E c \in BeingWritten : record' = [record EXCEPT ![c] = Torn]
  /\ Drop("down")
  /\ UNCHANGED <<snapshot, journal, content, second, before>>

Restart ==
  /\ phase = "down"
  /\ phase' = "recover"
  /\ UNCHANGED <<task, current, force, memo, diskVars, content, second, ghostVars, used>>

(* Mutants: the reason written as the status; applied changes included.    *)
RecoverRecord_ReasonAsStatus(c) ==
  /\ phase = "recover"
  /\ c \in Unfinished
  /\ record' = [record EXCEPT ![c].status = "broker_stopped_mid_change"]
  /\ phase' = "report" /\ current' = c
  /\ UNCHANGED <<task, force, memo, snapshot, journal, content, second, ghostVars, used>>

RecoverRecord_Any(c) ==
  /\ phase = "recover"
  /\ record[c].status \in {"running", "applied"}
  /\ record' = [record EXCEPT ![c].status = "interrupted"]
  /\ phase' = "report" /\ current' = c
  /\ UNCHANGED <<task, force, memo, snapshot, journal, content, second, ghostVars, used>>

(* recoverInterrupted: one directory after the other.                      *)
RecoverRecord(c) ==
  /\ phase = "recover"
  /\ c \in Unfinished
  /\ record' = [record EXCEPT ![c].status = "interrupted"]
  /\ phase' = "report" /\ current' = c
  /\ UNCHANGED <<task, force, memo, snapshot, journal, content, second, ghostVars, used>>

RecoverJournal ==
  /\ phase = "report"
  /\ Log("apply_interrupted", current, "interrupted")
  /\ phase' = "recover" /\ current' = Nobody
  /\ UNCHANGED <<task, force, memo, record, snapshot, content, second, ghostVars, used>>

Recovered ==
  /\ phase = "recover"
  /\ Unfinished = {}
  /\ Continue("idle")

-----------------------------------------------------------------------------
(* Everyone else.                                                          *)

(* Someone edits either part of the file, deletes it or creates it.        *)
Edit ==
  /\ Spend("edits", MaxEdits)
  /\ content' \in IF content = Absent
                   THEN {[hunk |-> "alien", rest |-> "alien"]}
                   ELSE {[content EXCEPT !.hunk = "alien"],
                         [content EXCEPT !.rest = "alien"], Absent}
  /\ touched' = (task # "none")
  /\ UNCHANGED <<opVars, diskVars, second, before>>

(* Only apply() reads the clock, so a second that passes during a task may *)
(* as well pass after it.                                                  *)
Tick ==
  /\ phase = "idle"
  /\ second < MaxSecond
  /\ second' = second + 1
  /\ UNCHANGED <<opVars, diskVars, content, ghostVars, used>>

Stage ==
  PatchSnapshot \/ PatchApply \/ PatchHash \/ FileWrite \/ Validated
  \/ ValidationFailed \/ RestoreThrows \/ CommandRan \/ StageFails

Revert ==
  FileRevert \/ FileRevertFails \/ PatchDriftCheck \/ PatchDrifted
  \/ PatchReverse \/ PatchReverseConflict \/ PatchReverseForced
  \/ SnapshotRestore \/ SnapshotMissing \/ CommandUndone \/ CommandNotUndone \/ PostAgain

(* What the broker does by itself once a task has begun or after a start.  *)
BrokerStep ==
  \/ WriteRunning \/ JournalStart
  \/ Stage
  \/ PostPassed \/ Healthy \/ AutoRollback
  \/ Revert
  \/ WriteResult \/ ApplyDone \/ RollbackDone
  \/ (\E c \in Change : RecoverRecord(c))
  \/ RecoverJournal \/ Recovered

Next ==
  \/ \E p \in Proposals : StartApply(p)
  \/ \E c \in Change, f \in BOOLEAN : StartRollback(c, f)
  \/ BrokerStep
  \/ PruneStops \/ AppendFails \/ WriteFails \/ Crash \/ Restart
  \/ Edit \/ Tick

Spec == Init /\ [][Next]_vars

(* Every script has a timeout, the health check a number of retries and    *)
(* git a minute, so a task always goes on; systemd restarts a broker that  *)
(* died (one stopped on purpose counts as started again later).            *)
FairSpec == Spec /\ WF_vars(BrokerStep) /\ WF_vars(Restart)

-----------------------------------------------------------------------------
(* Properties.                                                             *)

TypeOK ==
  /\ phase \in Phase
  /\ task \in {"none", "apply", "rollback"}
  /\ current \in Change \cup {Nobody}
  /\ force \in BOOLEAN
  /\ memo \in Record
  /\ record \in [Change -> Record]
  /\ snapshot \in [Change -> Content]
  /\ journal \in Seq(Event)
  /\ content \in Content
  /\ second \in 0..MaxSecond
  /\ before \in [Change -> Content]
  /\ touched \in BOOLEAN
  /\ used \in [{"ops", "edits", "crashes", "faults"} -> Nat]

(* A change that did not end "applied" leaves the file as the apply found  *)
(* it, unless someone else wrote the file meanwhile: validation failures,  *)
(* failed stages and the automatic rollback really put everything back.    *)
UndoneIsUndone ==
  phase = "finish" /\ task = "apply" /\ KindOf(current) # "command"
  /\ memo.status # "applied" /\ ~touched
    => content = before[current]

(* A rollback that reports success has brought back what the change        *)
(* replaced.  Reversing a patch may leave the rest of the file to others,  *)
(* never to the change itself; and to other changes only if it was forced. *)
RollbackExact ==
  phase = "finish" /\ task = "rollback" /\ KindOf(current) # "command"
  /\ memo.status = "rolled_back" /\ ~touched
    => LET was == before[current] IN
       \/ content = was
       \/ /\ content.hunk = was.hunk
          /\ content.rest # current.of
          /\ force \/ content.rest = "alien"

(* What the dashboard offers to roll back can be: the snapshot of every    *)
(* applied change that replaced a file is still there, if the change is one*)
(* of the Keep newest.  An older one that pruning has not finished with may*)
(* be offered without it; its rollback then fails.                         *)
SnapshotKept ==
  \A c \in Kept :
    record[c].status = "applied" /\ record[c].existed => snapshot[c] # Absent

(* While the broker serves requests and its disk writes succeed, a record  *)
(* says "running" only for the apply in progress: recovery misses nothing. *)
NoOrphanRunning ==
  phase \notin {"down", "recover", "report"} /\ used.faults = 0 =>
    \A c \in Unfinished : current = c /\ task = "apply"

(* The journal never claims an outcome the record does not have, whatever  *)
(* crash or full disk comes between the two writes.                        *)
JournalNeverAhead ==
  \A i \in DOMAIN journal :
    LET e == journal[i]
        last == \A j \in About(e.change) : j <= i
    IN  e.event \in {"apply_done", "rollback_done"} /\ last
          => record[e.change].status \in {e.note, "none"}

(* Tasks never overlap: a line that ends one follows, among the executor's *)
(* own lines, the line that began the same one.                            *)
JournalBrackets ==
  \A i \in DOMAIN journal :
    LET opened(by) == i > 1 /\ journal[i - 1].event = by
                      /\ journal[i - 1].change = journal[i].change IN
    /\ journal[i].event = "apply_done"    => opened("apply_start")
    /\ journal[i].event = "rollback_done" => opened("rollback_start")

(* One task at a time, in the records and in the journal.                  *)
OneTaskAtATime == NoOrphanRunning /\ JournalBrackets

(* The executor changes the file only after the journal says which task    *)
(* does it: no crash can leave an effect nobody announced.                 *)
Opening == IF task = "apply" THEN "apply_start" ELSE "rollback_start"
Announced ==
  /\ journal # <<>>
  /\ journal[Len(journal)].change = current
  /\ journal[Len(journal)].event = Opening
WriteAheadJournal == [][used'.edits = used.edits => Announced]_content

(* A rollback the operator did not force removes nothing that somebody     *)
(* else wrote, and brings back no file somebody else deleted.              *)
AlienParts(c) == {part \in {"hunk", "rest"} : c[part] = "alien"}
ForeignEditsSurvive ==
  [][task = "rollback" /\ ~force /\ used'.edits = used.edits =>
       /\ AlienParts(content) \subseteq AlienParts(content')
       /\ content # Absent]_content

(* An applied change stays applied, and with that can be rolled back,      *)
(* until it is: nothing but a rollback, or the pruning of old changes,     *)
(* takes that away.  A failing disk may tear the record being rewritten.   *)
AppliedStays ==
  [][\A c \in Change :
       record[c].status = "applied" /\ record'[c].status # "applied" =>
         \/ task = "rollback" /\ current = c /\ record'[c].status \in {"rolled_back", "torn"}
         \/ record'[c].status = "none"]_record

(* Stated by the comment on recovery (executor.js:85-86): what a dead      *)
(* broker left unfinished is said to be interrupted.  A rollback cut short *)
(* is not: the change goes on saying "applied", over a file already        *)
(* restored perhaps, and no line ever ends its rollback_start.             *)
CutShortIsReported ==
  \A c \in Change : \A i \in About(c) :
    phase = "idle" /\ record[c].status = "applied"
    /\ journal[i].event = "rollback_start"
      => \E j \in About(c) : j > i

(* The executor as an implementation of its promise.                       *)
Lifecycle == INSTANCE ChangeLifecycle WITH
  Changes <- Change,
  status  <- [c \in Change |-> record[c].status],
  holder  <- IF task = "none" THEN Nobody ELSE current
ImplementsLifecycle == Lifecycle!Spec

(* The executor is always free again, and a change reported as running is  *)
(* not running forever (if its record could be written).                   *)
TaskEnds ==
  /\ phase # "idle" ~> phase = "idle"
  /\ \A c \in Change :
       record[c].status = "running" ~> record[c].status # "running" \/ used.faults > 0
=============================================================================
