------------------------ MODULE ChangeExecutorProofs ------------------------
(***************************************************************************)
(* What holds of the change executor for any proposals, any number of      *)
(* tasks, crashes, failing writes and edits, and any KEEP.                 *)
(***************************************************************************)
EXTENDS ChangeExecutor, FiniteSetTheorems, TLAPS

-----------------------------------------------------------------------------
(* Data.                                                                   *)

LEMMA ContentTyped ==
  /\ Absent \in Content
  /\ Original \in Content
  /\ \A p \in Proposals : Written(p) \in Content
  BY DEF Absent, Original, Written, Content, Mark

LEMMA PatchTyped ==
  \A p \in Proposals, c \in Content : Patched(p, c) \in Content /\ Unpatched(p, c) \in Content
  BY ExecutorAssumption, ContentTyped DEF Patched, Unpatched, Content, Mark

LEMMA RecordTyped ==
  /\ NoRecord \in Record /\ Torn \in Record
  /\ \A r \in Record : /\ \A s \in Status : [r EXCEPT !.status = s] \in Record
                       /\ \A b \in BOOLEAN : [r EXCEPT !.existed = b] \in Record
                       /\ \A c \in Content : [r EXCEPT !.after = c] \in Record
<1>1. NoRecord \in Record
  BY ContentTyped DEF NoRecord, Record, Status
<1>2. \A r \in Record, s \in Status : [r EXCEPT !.status = s] \in Record
  BY DEF Record
<1>3. \A r \in Record, b \in BOOLEAN : [r EXCEPT !.existed = b] \in Record
  BY DEF Record
<1>4. \A r \in Record, c \in Content : [r EXCEPT !.after = c] \in Record
  BY DEF Record
<1>5. Torn \in Record
  BY <1>1, <1>2 DEF Torn, Status
<1>6. QED
  BY <1>1, <1>2, <1>3, <1>4, <1>5

(* What a change replaced is a file again.                                 *)
LEMMA SavedTyped ==
  ASSUME TypeOK, current \in Change
  PROVE  Saved(current) \in Content
  BY ContentTyped DEF TypeOK, Saved

(* A journal line.                                                         *)
LEMMA LogTyped ==
  ASSUME TypeOK, NEW c \in Change, NEW note \in Status,
         NEW event \in {"apply_start", "apply_done", "apply_interrupted",
                        "rollback_start", "rollback_done"},
         Log(event, c, note)
  PROVE  journal' \in Seq(Event)
<1>1. [event |-> event, change |-> c, note |-> note] \in Event
  BY DEF Event
<1>2. QED
  BY <1>1 DEF Log, TypeOK

(* Spending a bound of the model.                                          *)
LEMMA SpendTyped ==
  ASSUME TypeOK, NEW what \in {"ops", "edits", "crashes", "faults"}, NEW bound,
         Spend(what, bound)
  PROVE  /\ used' \in [{"ops", "edits", "crashes", "faults"} -> Nat]
         /\ used'[what] = used[what] + 1
         /\ \A other \in {"ops", "edits", "crashes", "faults"} \ {what} : used'[other] = used[other]
<1>1. used \in [{"ops", "edits", "crashes", "faults"} -> Nat]
  BY DEF TypeOK
<1>2. used' = [used EXCEPT ![what] = used[what] + 1]
  BY DEF Spend
<1>3. QED
  BY <1>1, <1>2

-----------------------------------------------------------------------------
(* Types, with what each phase says about the rest of the memory: outside  *)
(* a task there is no current change, and a task that is about to report   *)
(* has an outcome.                                                         *)

Resting   == {"down", "recover", "idle"}
Applying  == {"start", "begin", "patch", "git_apply", "hash", "file", "validate",
              "command", "post", "health"}
Reverting == {"revert", "reverse", "restore", "repost"}
Ending    == {"finish", "journal"}
Final     == {"applied", "failed", "auto_rolled_back", "rolled_back"}

PhaseInv ==
  /\ phase \in Resting => current = Nobody
  /\ phase \notin Resting => current \in Change
  /\ phase \in Resting \cup {"report"} <=> task = "none"
  /\ phase \in Applying => task = "apply"
  /\ phase \in Ending => memo.status \in Final
  /\ phase = "journal" => record[current] = memo

TypeInv == TypeOK /\ PhaseInv

LEMMA ChangeCurrent ==
  ASSUME TypeInv, phase \notin Resting
  PROVE  /\ current \in Change /\ KindOf(current) \in {"file", "patch", "command"}
         /\ current.of \in Proposals
         /\ snapshot[current] \in Content
<1>1. current \in Change
  BY DEF TypeInv, PhaseInv
<1>2. current.of \in Proposals
  BY <1>1 DEF Change
<1>3. QED
  BY <1>1, <1>2, ExecutorAssumption DEF KindOf, TypeInv, TypeOK

(* A task that goes on.                                                    *)
LEMMA ContinueTyped ==
  ASSUME TypeInv, NEW next, Continue(next),
         \/ phase \in Applying /\ next \in Applying
         \/ phase \in Reverting /\ next \in Reverting
         \/ phase = "recover" /\ next = "idle"
  PROVE  TypeInv'
<1>1. TypeOK'
  BY DEF TypeInv, TypeOK, Continue, diskVars, ghostVars, Applying, Reverting, Phase
<1>2. PhaseInv'
  BY DEF TypeInv, PhaseInv, Continue, diskVars, Applying, Reverting, Resting, Ending
<1>3. QED
  BY <1>1, <1>2 DEF TypeInv

(* A task that reaches its outcome.                                        *)
LEMMA ConcludeTyped ==
  ASSUME TypeInv, phase \in Applying \cup Reverting, NEW status \in Final, Conclude(status),
         content' \in Content
  PROVE  TypeInv'
<1>1. memo' \in Record /\ memo'.status \in Final
  <2>1. memo \in Record /\ memo' = [memo EXCEPT !.status = status] /\ status \in Status
    BY DEF TypeInv, TypeOK, Conclude, Final, Status
  <2>2. memo' \in Record
    BY <2>1, RecordTyped
  <2>3. memo'.status = status
    BY <2>1 DEF Record
  <2>4. QED
    BY <2>2, <2>3
<1>2. TypeOK'
  BY <1>1 DEF TypeInv, TypeOK, Conclude, diskVars, ghostVars, Phase
<1>3. PhaseInv'
  BY <1>1 DEF TypeInv, PhaseInv, Conclude, Applying, Reverting, Resting, Ending
<1>4. QED
  BY <1>2, <1>3 DEF TypeInv

LEMMA GiveUpTyped ==
  ASSUME TypeInv, phase \in Applying \cup Reverting, GiveUp
  PROVE  TypeInv'
<1>1. content' \in Content
  BY DEF TypeInv, TypeOK, GiveUp
<1>2. QED
  BY <1>1, ConcludeTyped DEF GiveUp, Final

(* A revert that has put the file back.                                    *)
LEMMA RevertedTyped ==
  ASSUME TypeInv, phase \in Reverting, NEW to \in Content, Reverted(to)
  PROVE  TypeInv'
<1>1. TypeOK'
  BY DEF TypeInv, TypeOK, Reverted, diskVars, ghostVars, Phase
<1>2. PhaseInv'
  BY DEF TypeInv, PhaseInv, Reverted, Reverting, Applying, Resting, Ending
<1>3. QED
  BY <1>1, <1>2 DEF TypeInv

(* A task that is over, or was cut off.                                    *)
LEMMA DropTyped ==
  ASSUME TypeInv, NEW next \in {"idle", "down"}, Drop(next),
         record' \in [Change -> Record], snapshot' \in [Change -> Content],
         journal' \in Seq(Event), used' \in [{"ops", "edits", "crashes", "faults"} -> Nat],
         UNCHANGED <<content, second, before>>
  PROVE  TypeInv'
<1>1. TypeOK'
  BY RecordTyped DEF TypeInv, TypeOK, Drop, Phase
<1>2. PhaseInv'
  BY DEF TypeInv, PhaseInv, Drop, Applying, Resting, Ending
<1>3. QED
  BY <1>1, <1>2 DEF TypeInv

(* Both ends of an apply, with a whole pruning and with one cut short.     *)
Pruning == ApplyDone \/ PruneStops

LEMMA PruningSteps ==
  ASSUME TypeInv, Pruning
  PROVE  /\ phase = "journal" /\ task = "apply" /\ task' = "none"
         /\ \E next \in {"idle", "down"} : Drop(next)
         /\ \A c \in Change : /\ record'[c] \in {record[c], NoRecord}
                              /\ snapshot'[c] \in {snapshot[c], Absent}
         /\ record' \in [Change -> Record] /\ snapshot' \in [Change -> Content]
         /\ used' \in [{"ops", "edits", "crashes", "faults"} -> Nat]
         /\ Log("apply_done", current, memo.status)
         /\ UNCHANGED <<content, second, before>>
<1>t. TypeOK
  BY DEF TypeInv
<1>1. /\ \A c \in Change : /\ record'[c] \in {record[c], NoRecord}
                           /\ snapshot'[c] \in {snapshot[c], Absent}
      /\ record' \in [Change -> Record] /\ snapshot' \in [Change -> Content]
  <2>1. CASE ApplyDone
    BY <1>t, <2>1, RecordTyped, ContentTyped DEF ApplyDone, prune, TypeOK
  <2>2. CASE PruneStops
    <3>1. PICK c \in Change : PruneHalf(c)
      BY <2>2 DEF PruneStops
    <3>2. PICK r \in {record[c], NoRecord}, copy \in {snapshot[c], Absent} :
            /\ record' = [d \in Change |-> IF d \notin Kept /\ Newer(c, d) THEN NoRecord
                                         ELSE IF d = c THEN r ELSE record[d]]
            /\ snapshot' = [d \in Change |-> IF d \notin Kept /\ Newer(c, d) THEN Absent
                                           ELSE IF d = c THEN copy ELSE snapshot[d]]
      BY <3>1 DEF PruneHalf
    <3>3. r \in Record /\ copy \in Content
      BY <1>t, RecordTyped, ContentTyped DEF TypeOK
    <3>4. \A d \in Change : /\ record'[d] \in {record[d], NoRecord}
                           /\ snapshot'[d] \in {snapshot[d], Absent}
      BY <3>2
    <3>5. record' \in [Change -> Record] /\ snapshot' \in [Change -> Content]
      BY <1>t, <3>2, <3>3, RecordTyped, ContentTyped DEF TypeOK
    <3>6. QED
      BY <3>4, <3>5
  <2>3. QED
    BY <2>1, <2>2 DEF Pruning
<1>2. used' \in [{"ops", "edits", "crashes", "faults"} -> Nat]
  <2>1. used' = used \/ Spend("faults", MaxFaults) \/ Spend("crashes", MaxCrashes)
    BY DEF Pruning, ApplyDone, PruneStops
  <2>2. QED
    BY <1>t, <2>1, SpendTyped DEF TypeOK
<1>3. \E next \in {"idle", "down"} : Drop(next)
  BY DEF Pruning, ApplyDone, PruneStops
<1>4. QED
  BY <1>1, <1>2, <1>3 DEF Pruning, ApplyDone, PruneStops, Drop

LEMMA InitTyped == Init => TypeInv
<1> SUFFICES ASSUME Init PROVE TypeInv
  OBVIOUS
<1>1. used \in [{"ops", "edits", "crashes", "faults"} -> Nat]
  BY DEF Init
<1>2. TypeOK
  <2>1. content \in Content /\ second \in 0..MaxSecond
    BY ContentTyped, ExecutorAssumption DEF Init
  <2>2. /\ record \in [Change -> Record] /\ memo \in Record
        /\ snapshot \in [Change -> Content] /\ before \in [Change -> Content]
    BY ContentTyped, RecordTyped DEF Init
  <2>3. journal \in Seq(Event)
    BY DEF Init
  <2>4. QED
    BY <1>1, <2>1, <2>2, <2>3 DEF Init, TypeOK, Phase
<1>3. PhaseInv
  BY DEF Init, PhaseInv, Resting, Applying, Ending
<1>4. QED
  BY <1>2, <1>3 DEF TypeInv

LEMMA NextTyped == TypeInv /\ [Next]_vars => TypeInv'
<1> SUFFICES ASSUME TypeInv, [Next]_vars PROVE TypeInv'
  OBVIOUS
<1>t. TypeOK /\ PhaseInv
  BY DEF TypeInv
<1>1. ASSUME NEW p \in Proposals, StartApply(p) PROVE TypeInv'
  <2> DEFINE c == [at |-> second, of |-> p]
  <2>1. c \in Change
    BY <1>t DEF TypeOK, Change
  <2>2. /\ phase' = "start" /\ task' = "apply" /\ current' = c /\ force' = FALSE
        /\ memo' = [NoRecord EXCEPT !.status = "running"]
        /\ touched' = FALSE
        /\ UNCHANGED <<diskVars, content, second, before>>
    BY <1>1 DEF StartApply
  <2>3. used' \in [{"ops", "edits", "crashes", "faults"} -> Nat]
    BY <1>t, <1>1, SpendTyped DEF StartApply
  <2>4. memo' \in Record
    BY <2>2, RecordTyped DEF Status
  <2> HIDE DEF c
  <2>5. TypeOK'
    BY <1>t, <2>1, <2>2, <2>3, <2>4 DEF TypeOK, diskVars, Phase
  <2>6. PhaseInv'
    BY <2>1, <2>2 DEF PhaseInv, Resting, Applying, Ending
  <2>7. QED
    BY <2>5, <2>6 DEF TypeInv
<1>2. ASSUME WriteRunning PROVE TypeInv'
  <2>1. TypeOK'
    BY <1>t, <1>2 DEF TypeOK, WriteRunning, Phase
  <2>2. PhaseInv'
    BY <1>t, <1>2 DEF PhaseInv, WriteRunning, Resting, Applying, Ending
  <2>3. QED
    BY <2>1, <2>2 DEF TypeInv
<1>3. ASSUME JournalStart PROVE TypeInv'
  <2>1. current \in Change /\ KindOf(current) \in {"file", "patch", "command"}
    BY <1>3, ChangeCurrent DEF JournalStart, Resting
  <2>2. journal' \in Seq(Event)
    BY <1>t, <1>3, <2>1, LogTyped DEF JournalStart, Status
  <2>3. TypeOK'
    BY <1>t, <1>3, <2>1, <2>2 DEF TypeOK, JournalStart, ghostVars, Phase
  <2>4. PhaseInv'
    BY <1>t, <1>3, <2>1 DEF PhaseInv, JournalStart, Resting, Applying, Ending
  <2>5. QED
    BY <2>3, <2>4 DEF TypeInv
<1>4. ASSUME PatchSnapshot \/ FileWrite PROVE TypeInv'
  <2>1. phase \notin Resting
    BY <1>4 DEF PatchSnapshot, FileWrite, Resting
  <2>2. current \in Change /\ Written(current.of) \in Content
    BY <2>1, ChangeCurrent, ContentTyped
  <2>3. /\ content' \in Content /\ before' \in [Change -> Content]
        /\ snapshot' \in [Change -> Content]
    BY <1>t, <1>4, <2>2 DEF TypeOK, PatchSnapshot, FileWrite
  <2>4. memo' \in Record
    <3>1. memo \in Record /\ (content # Absent) \in BOOLEAN
      BY <1>t DEF TypeOK
    <3>2. CASE PatchSnapshot
      BY <3>1, <3>2, RecordTyped DEF PatchSnapshot
    <3>3. CASE FileWrite
      BY <2>2, <3>1, <3>3 DEF FileWrite, Record
    <3>4. QED
      BY <1>4, <3>2, <3>3
  <2>5. TypeOK'
    BY <1>t, <1>4, <2>3, <2>4 DEF TypeOK, PatchSnapshot, FileWrite, Phase
  <2>6. PhaseInv'
    BY <1>t, <1>4 DEF PhaseInv, PatchSnapshot, FileWrite, Resting, Applying, Ending
  <2>7. QED
    BY <2>5, <2>6 DEF TypeInv
<1>5. ASSUME PatchApply PROVE TypeInv'
  <2>1. content' \in Content
    BY <1>t, <1>5, ChangeCurrent, PatchTyped DEF PatchApply, TypeOK, Resting
  <2>2. TypeOK'
    BY <1>t, <1>5, <2>1 DEF TypeOK, PatchApply, diskVars, ghostVars, Phase
  <2>3. PhaseInv'
    BY <1>t, <1>5 DEF PhaseInv, PatchApply, Resting, Applying, Ending
  <2>4. QED
    BY <2>2, <2>3 DEF TypeInv
<1>6. ASSUME PatchHash PROVE TypeInv'
  <2>1. memo' \in Record
    BY <1>t, <1>6, RecordTyped DEF PatchHash, TypeOK
  <2>2. TypeOK'
    BY <1>t, <1>6, <2>1 DEF TypeOK, PatchHash, diskVars, ghostVars, Phase
  <2>3. PhaseInv'
    BY <1>t, <1>6 DEF PhaseInv, PatchHash, Resting, Applying, Ending
  <2>4. QED
    BY <2>2, <2>3 DEF TypeInv
<1>7. ASSUME Validated \/ CommandRan \/ PostPassed PROVE TypeInv'
  <2>1. \E next \in Applying : phase \in Applying /\ Continue(next)
    BY <1>7 DEF Validated, CommandRan, PostPassed, Applying
  <2>2. QED
    BY <2>1, ContinueTyped
<1>8. ASSUME ValidationFailed \/ Healthy PROVE TypeInv'
  <2>1. phase \in Applying /\ \E status \in Final : Conclude(status)
    BY <1>8 DEF ValidationFailed, Healthy, Applying, Final
  <2>2. current \in Change
    BY <2>1, ChangeCurrent DEF Applying, Resting
  <2>3. content' \in Content
    BY <1>t, <1>8, <2>2, SavedTyped DEF ValidationFailed, Healthy, TypeOK
  <2>4. QED
    BY <2>1, <2>3, ConcludeTyped
<1>9. ASSUME RestoreThrows \/ StageFails \/ FileRevertFails \/ PatchDrifted
             \/ PatchReverseConflict \/ SnapshotMissing \/ CommandNotUndone
      PROVE  TypeInv'
  BY <1>9, GiveUpTyped DEF RestoreThrows, StageFails, FileRevertFails, PatchDrifted,
     PatchReverseConflict, SnapshotMissing, CommandNotUndone, Applying, Reverting
<1>10. ASSUME AutoRollback PROVE TypeInv'
  <2>1. TypeOK'
    BY <1>t, <1>10 DEF TypeOK, AutoRollback, diskVars, ghostVars, Phase
  <2>2. PhaseInv'
    BY <1>t, <1>10 DEF PhaseInv, AutoRollback, Resting, Applying, Ending
  <2>3. QED
    BY <2>1, <2>2 DEF TypeInv
<1>11. ASSUME NEW c \in Change, NEW f \in BOOLEAN, StartRollback(c, f) PROVE TypeInv'
  <2>1. journal' \in Seq(Event)
    BY <1>t, <1>11, LogTyped DEF StartRollback, Status
  <2>2. used' \in [{"ops", "edits", "crashes", "faults"} -> Nat]
    BY <1>t, <1>11, SpendTyped DEF StartRollback
  <2>3. TypeOK'
    BY <1>t, <1>11, <2>1, <2>2 DEF TypeOK, StartRollback, Phase
  <2>4. PhaseInv'
    BY <1>11 DEF PhaseInv, StartRollback, Resting, Applying, Ending
  <2>5. QED
    BY <2>3, <2>4 DEF TypeInv
<1>12. ASSUME FileRevert \/ PatchReverse \/ SnapshotRestore PROVE TypeInv'
  <2>1. phase \in Reverting /\ phase \notin Resting
    BY <1>12 DEF FileRevert, PatchReverse, SnapshotRestore, Reverting, Resting
  <2>2. /\ Saved(current) \in Content
        /\ Unpatched(current.of, content) \in Content
    BY <1>t, <2>1, ChangeCurrent, SavedTyped, PatchTyped DEF TypeOK
  <2>3. QED
    BY <1>12, <2>1, <2>2, RevertedTyped DEF FileRevert, PatchReverse, SnapshotRestore
<1>13. ASSUME PatchDriftCheck \/ PatchReverseForced \/ CommandUndone PROVE TypeInv'
  <2>1. \E next \in Reverting : phase \in Reverting /\ Continue(next)
    BY <1>13 DEF PatchDriftCheck, PatchReverseForced, CommandUndone, Reverting
  <2>2. QED
    BY <2>1, ContinueTyped
<1>14. ASSUME PostAgain PROVE TypeInv'
  <2>1. phase \in Reverting /\ content' = content /\ \E status \in Final : Conclude(status)
    BY <1>14 DEF PostAgain, Reverting, Final
  <2>2. QED
    BY <1>t, <2>1, ConcludeTyped DEF TypeOK
<1>15. ASSUME WriteResult PROVE TypeInv'
  <2>1. current \in Change
    BY <1>15, ChangeCurrent DEF WriteResult, Resting
  <2>2. TypeOK'
    BY <1>t, <1>15 DEF TypeOK, WriteResult, ghostVars, Phase
  <2>3. PhaseInv'
    BY <1>t, <1>15, <2>1 DEF TypeOK, PhaseInv, WriteResult, Resting, Applying, Ending
  <2>4. QED
    BY <2>2, <2>3 DEF TypeInv
<1>16. ASSUME Pruning PROVE TypeInv'
  <2>1. /\ current \in Change /\ memo.status \in Status
    BY <1>t, <1>16, PruningSteps, ChangeCurrent DEF Resting, TypeOK, Record
  <2>2. journal' \in Seq(Event)
    BY <1>t, <1>16, <2>1, PruningSteps, LogTyped
  <2>3. PICK next \in {"idle", "down"} : Drop(next)
    BY <1>16, PruningSteps
  <2>4. QED
    BY <1>16, <2>2, <2>3, PruningSteps, DropTyped
<1>16a. ASSUME RollbackDone PROVE TypeInv'
  <2>1. /\ current \in Change /\ memo.status \in Status
    BY <1>t, <1>16a, ChangeCurrent DEF RollbackDone, Resting, TypeOK, Record
  <2>2. journal' \in Seq(Event)
    BY <1>t, <1>16a, <2>1, LogTyped DEF RollbackDone
  <2>3. QED
    BY <1>t, <1>16a, <2>2, DropTyped DEF RollbackDone, TypeOK
<1>17. ASSUME AppendFails PROVE TypeInv'
  <2>1. used' \in [{"ops", "edits", "crashes", "faults"} -> Nat]
    BY <1>t, <1>17, SpendTyped DEF AppendFails
  <2>2. QED
    BY <1>t, <1>17, <2>1, DropTyped DEF AppendFails, TypeOK, diskVars
<1>18. ASSUME WriteFails PROVE TypeInv'
  <2>1. used' \in [{"ops", "edits", "crashes", "faults"} -> Nat]
    BY <1>t, <1>18, SpendTyped DEF WriteFails
  <2>2. record' \in [Change -> Record]
    BY <1>t, <1>18, RecordTyped DEF WriteFails, TypeOK
  <2>3. QED
    BY <1>t, <1>18, <2>1, <2>2, DropTyped DEF WriteFails, TypeOK
<1>19. ASSUME Crash PROVE TypeInv'
  <2>1. used' \in [{"ops", "edits", "crashes", "faults"} -> Nat]
    BY <1>t, <1>19, SpendTyped DEF Crash
  <2>2. record' \in [Change -> Record]
    BY <1>t, <1>19, RecordTyped DEF Crash, TypeOK
  <2>3. QED
    BY <1>t, <1>19, <2>1, <2>2, DropTyped DEF Crash, TypeOK
<1>20. ASSUME Restart PROVE TypeInv'
  <2>1. TypeOK'
    BY <1>t, <1>20 DEF TypeOK, Restart, diskVars, ghostVars, Phase
  <2>2. PhaseInv'
    BY <1>t, <1>20 DEF PhaseInv, Restart, Resting, Applying, Ending
  <2>3. QED
    BY <2>1, <2>2 DEF TypeInv
<1>21. ASSUME NEW c \in Change, RecoverRecord(c) PROVE TypeInv'
  <2>1. record' \in [Change -> Record]
    BY <1>t, <1>21, RecordTyped DEF RecoverRecord, TypeOK, Status
  <2>2. TypeOK'
    BY <1>t, <1>21, <2>1 DEF TypeOK, RecoverRecord, ghostVars, Phase
  <2>3. PhaseInv'
    BY <1>t, <1>21 DEF PhaseInv, RecoverRecord, Resting, Applying, Ending
  <2>4. QED
    BY <2>2, <2>3 DEF TypeInv
<1>22. ASSUME RecoverJournal PROVE TypeInv'
  <2>1. current \in Change
    BY <1>22, ChangeCurrent DEF RecoverJournal, Resting
  <2>2. journal' \in Seq(Event)
    BY <1>t, <1>22, <2>1, LogTyped DEF RecoverJournal, Status
  <2>3. TypeOK'
    BY <1>t, <1>22, <2>2 DEF TypeOK, RecoverJournal, ghostVars, Phase
  <2>4. PhaseInv'
    BY <1>t, <1>22 DEF PhaseInv, RecoverJournal, Resting, Applying, Ending
  <2>5. QED
    BY <2>3, <2>4 DEF TypeInv
<1>23. ASSUME Recovered PROVE TypeInv'
  BY <1>23, ContinueTyped DEF Recovered
<1>24. ASSUME Edit PROVE TypeInv'
  <2>1. used' \in [{"ops", "edits", "crashes", "faults"} -> Nat]
    BY <1>t, <1>24, SpendTyped DEF Edit
  <2>2. content' \in Content
    <3>1. \A c \in Content : /\ [c EXCEPT !.hunk = "alien"] \in Content
                             /\ [c EXCEPT !.rest = "alien"] \in Content
      BY DEF Content, Mark
    <3>2. [hunk |-> "alien", rest |-> "alien"] \in Content
      BY DEF Content, Mark
    <3>3. \/ content' = [hunk |-> "alien", rest |-> "alien"]
          \/ content' \in {[content EXCEPT !.hunk = "alien"],
                           [content EXCEPT !.rest = "alien"], Absent}
      BY <1>24 DEF Edit
    <3>4. content \in Content
      BY <1>t DEF TypeOK
    <3>5. QED
      BY <3>1, <3>2, <3>3, <3>4, ContentTyped
  <2>3. touched' \in BOOLEAN
    BY <1>24 DEF Edit
  <2>4. TypeOK'
    BY <1>t, <1>24, <2>1, <2>2, <2>3 DEF TypeOK, Edit, opVars, diskVars
  <2>5. PhaseInv'
    BY <1>t, <1>24 DEF PhaseInv, Edit, opVars, diskVars
  <2>6. QED
    BY <2>4, <2>5 DEF TypeInv
<1>25. ASSUME Tick PROVE TypeInv'
  <2>1. second' \in 0..MaxSecond
    BY <1>t, <1>25, ExecutorAssumption DEF Tick, TypeOK
  <2>2. TypeOK'
    BY <1>t, <1>25, <2>1 DEF TypeOK, Tick, opVars, diskVars, ghostVars
  <2>3. PhaseInv'
    BY <1>t, <1>25 DEF PhaseInv, Tick, opVars, diskVars
  <2>4. QED
    BY <2>2, <2>3 DEF TypeInv
<1>26. ASSUME UNCHANGED vars PROVE TypeInv'
  BY <1>t, <1>26 DEF TypeInv, TypeOK, PhaseInv, vars, opVars, diskVars, ghostVars
<1>27. QED
  BY <1>1, <1>2, <1>3, <1>4, <1>5, <1>6, <1>7, <1>8, <1>9, <1>10, <1>11, <1>12, <1>13,
     <1>14, <1>15, <1>16, <1>16a, <1>17, <1>18, <1>19, <1>20, <1>21, <1>22, <1>23, <1>24,
     <1>25, <1>26 DEF Next, BrokerStep, Stage, Revert, Pruning

LEMMA Typed == Spec => []TypeInv
  BY InitTyped, NextTyped, PTL DEF Spec

(* Whatever is proposed, and however often tasks are interrupted, the      *)
(* executor's records, snapshots and journal are of their types: recovery, *)
(* pruning, torn writes and edits included.                                *)
THEOREM TypeCorrect == Spec => []TypeOK
<1>1. TypeInv => TypeOK
  BY DEF TypeInv
<1>2. QED
  BY <1>1, Typed, PTL

-----------------------------------------------------------------------------
(* The journal.  While a task is past its first line, that line is the     *)
(* last of the executor's: nothing else is written in between.             *)

Quiet == Resting \cup {"report", "start", "begin"}
AnnouncedInv == phase \notin Quiet => Announced
JournalInv == AnnouncedInv /\ JournalBrackets

(* The last line after one is appended.                                    *)
LEMMA LogAppends ==
  ASSUME TypeOK, NEW c, NEW note, NEW event, Log(event, c, note)
  PROVE  /\ journal' # <<>> /\ Len(journal') = Len(journal) + 1 /\ Len(journal) \in Nat
         /\ DOMAIN journal' = 1..(Len(journal) + 1) /\ DOMAIN journal = 1..Len(journal)
         /\ \A i \in DOMAIN journal : journal'[i] = journal[i]
         /\ journal'[Len(journal) + 1].event = event
         /\ journal'[Len(journal) + 1].change = c
  BY DEF TypeOK, Log

(* A line that ends no task needs no line before it.                       *)
LEMMA OtherLine ==
  ASSUME TypeOK, JournalBrackets, NEW c, NEW note,
         NEW event \in {"apply_start", "rollback_start", "apply_interrupted"},
         Log(event, c, note)
  PROVE  JournalBrackets'
<1> SUFFICES ASSUME NEW i \in DOMAIN journal',
                    journal'[i].event \in {"apply_done", "rollback_done"}
             PROVE  i \in DOMAIN journal /\ (i > 1 => journal'[i - 1] = journal[i - 1])
  <2>1. ASSUME NEW i \in DOMAIN journal',
               journal'[i].event \in {"apply_done", "rollback_done"} =>
                 i \in DOMAIN journal /\ (i > 1 => journal'[i - 1] = journal[i - 1])
        PROVE  LET opened(by) == i > 1 /\ journal'[i - 1].event = by
                                 /\ journal'[i - 1].change = journal'[i].change IN
               /\ journal'[i].event = "apply_done"    => opened("apply_start")
               /\ journal'[i].event = "rollback_done" => opened("rollback_start")
    BY <2>1, LogAppends DEF JournalBrackets
  <2>2. QED
    BY <2>1 DEF JournalBrackets
<1>1. /\ journal'[Len(journal) + 1].event = event
      /\ DOMAIN journal' = 1..(Len(journal) + 1) /\ DOMAIN journal = 1..Len(journal)
      /\ \A j \in DOMAIN journal : journal'[j] = journal[j]
      /\ Len(journal) \in Nat
  BY LogAppends
<1>2. i # Len(journal) + 1
  BY <1>1
<1>3. i \in 1..Len(journal)
  BY <1>1, <1>2
<1>4. i > 1 => i - 1 \in 1..Len(journal)
  BY <1>1, <1>3
<1>5. QED
  BY <1>1, <1>3, <1>4

(* A line that ends a task follows the line that began it.                 *)
LEMMA ClosingLine ==
  ASSUME TypeOK, JournalBrackets, Announced, NEW note,
         \/ task = "apply"    /\ Log("apply_done", current, note)
         \/ task = "rollback" /\ Log("rollback_done", current, note)
  PROVE  JournalBrackets'
<1> DEFINE n == Len(journal)
           closing == IF task = "apply" THEN "apply_done" ELSE "rollback_done"
<1>1. Log(closing, current, note)
  BY DEF TypeOK
<1>2. n \in Nat /\ n > 0 /\ journal[n].change = current /\ journal[n].event = Opening
  BY DEF Announced, TypeOK
<1>3. /\ journal'[n + 1].event = closing /\ journal'[n + 1].change = current
      /\ DOMAIN journal' = 1..(n + 1) /\ DOMAIN journal = 1..n
      /\ \A j \in DOMAIN journal : journal'[j] = journal[j]
  BY <1>1, LogAppends
<1>4. journal'[n] = journal[n]
  BY <1>2, <1>3
<1>5. ASSUME NEW i \in DOMAIN journal'
      PROVE  LET opened(by) == i > 1 /\ journal'[i - 1].event = by
                               /\ journal'[i - 1].change = journal'[i].change IN
             /\ journal'[i].event = "apply_done"    => opened("apply_start")
             /\ journal'[i].event = "rollback_done" => opened("rollback_start")
  <2>1. CASE i \in 1..n
    <3>1. journal'[i] = journal[i] /\ (i > 1 => journal'[i - 1] = journal[i - 1])
      BY <1>2, <1>3, <2>1
    <3>2. QED
      BY <1>3, <2>1, <3>1 DEF JournalBrackets
  <2>2. CASE i = n + 1
    <3>1. i > 1 /\ i - 1 = n
      BY <1>2, <2>2
    <3>2. QED
      BY <1>2, <1>3, <1>4, <2>2, <3>1 DEF Opening
  <2>3. QED
    BY <1>2, <1>3, <2>1, <2>2
<1>6. QED
  BY <1>5 DEF JournalBrackets

LEMMA InitJournalInv == Init => JournalInv
  BY DEF Init, JournalInv, AnnouncedInv, Quiet, Resting, JournalBrackets

LEMMA NextJournalInv == TypeInv /\ JournalInv /\ [Next]_vars => JournalInv'
<1> SUFFICES ASSUME TypeInv, JournalInv, [Next]_vars PROVE JournalInv'
  OBVIOUS
<1>t. TypeOK /\ JournalBrackets
  BY DEF TypeInv, JournalInv
<1>1. CASE JournalStart
  <2>1. Log("apply_start", current, "running") /\ task = "apply" /\ UNCHANGED <<task, current>>
    BY <1>1 DEF JournalStart, TypeInv, PhaseInv, Applying
  <2>2. Announced'
    <3>1. /\ journal' # <<>> /\ Len(journal') = Len(journal) + 1
          /\ journal'[Len(journal) + 1].event = "apply_start"
          /\ journal'[Len(journal) + 1].change = current
      BY <1>t, <2>1, LogAppends
    <3>2. QED
      BY <2>1, <3>1 DEF Announced, Opening
  <2>3. QED
    BY <1>t, <2>1, <2>2, OtherLine DEF JournalInv, AnnouncedInv
<1>2. CASE \E c \in Change, f \in BOOLEAN : StartRollback(c, f)
  <2>1. PICK c \in Change, f \in BOOLEAN : StartRollback(c, f)
    BY <1>2
  <2>2. Log("rollback_start", c, "applied") /\ task' = "rollback" /\ current' = c
    BY <2>1 DEF StartRollback
  <2>3. Announced'
    <3>1. /\ journal' # <<>> /\ Len(journal') = Len(journal) + 1
          /\ journal'[Len(journal) + 1].event = "rollback_start"
          /\ journal'[Len(journal) + 1].change = c
      BY <1>t, <2>2, LogAppends
    <3>2. QED
      BY <2>2, <3>1 DEF Announced, Opening
  <2>4. QED
    BY <1>t, <2>2, <2>3, OtherLine DEF JournalInv, AnnouncedInv
<1>3. CASE RecoverJournal
  <2>1. Log("apply_interrupted", current, "interrupted") /\ phase' \in Quiet
    BY <1>3 DEF RecoverJournal, Quiet, Resting
  <2>2. QED
    BY <1>t, <2>1, OtherLine DEF JournalInv, AnnouncedInv
<1>4. CASE Pruning \/ RollbackDone
  <2>1. phase' \in Quiet /\ phase \notin Quiet
    BY <1>4, PruningSteps DEF RollbackDone, Drop, Quiet, Resting
  <2>2. \/ task = "apply"    /\ Log("apply_done", current, memo.status)
        \/ task = "rollback" /\ Log("rollback_done", current, memo.status)
    BY <1>4, PruningSteps DEF RollbackDone
  <2>3. Announced
    BY <2>1 DEF JournalInv, AnnouncedInv
  <2>4. QED
    BY <1>t, <2>1, <2>2, <2>3, ClosingLine DEF JournalInv, AnnouncedInv
<1>5. CASE /\ UNCHANGED journal
           /\ \/ phase' \in Quiet
              \/ phase \notin Quiet /\ UNCHANGED <<task, current>>
  <2>1. JournalBrackets'
    BY <1>t, <1>5 DEF JournalBrackets
  <2>2. AnnouncedInv'
    BY <1>5 DEF JournalInv, AnnouncedInv, Announced, Opening
  <2>3. QED
    BY <2>1, <2>2 DEF JournalInv
<1>6. ASSUME BrokerStep PROVE JournalInv'
  <2>1. CASE Stage \/ PostPassed \/ Healthy \/ AutoRollback
    BY <1>5, <2>1 DEF Stage, PatchSnapshot, PatchApply, PatchHash, FileWrite, Validated,
       ValidationFailed, RestoreThrows, CommandRan, StageFails, PostPassed, Healthy,
       AutoRollback, Continue, Conclude, GiveUp, diskVars, Quiet, Resting
  <2>2. CASE Revert
    BY <1>5, <2>2 DEF Revert, FileRevert, FileRevertFails, PatchDriftCheck, PatchDrifted,
       PatchReverse, PatchReverseConflict, SnapshotMissing, PatchReverseForced, SnapshotRestore,
       CommandUndone, CommandNotUndone, PostAgain, Reverted, Continue, Conclude, GiveUp,
       diskVars, Quiet, Resting
  <2>3. CASE WriteRunning \/ WriteResult \/ (\E c \in Change : RecoverRecord(c)) \/ Recovered
    BY <1>5, <2>3 DEF WriteRunning, WriteResult, RecoverRecord, Recovered, Continue,
       diskVars, Quiet, Resting
  <2>4. QED
    BY <1>1, <1>3, <1>4, <1>6, <2>1, <2>2, <2>3 DEF BrokerStep, Pruning
<1>7. CASE \E p \in Proposals : StartApply(p)
  BY <1>5, <1>7 DEF StartApply, diskVars, Quiet
<1>8. CASE AppendFails \/ WriteFails \/ Crash \/ Restart
  BY <1>5, <1>8 DEF AppendFails, WriteFails, Crash, Restart, Drop, diskVars, Quiet, Resting
<1>9. CASE Edit \/ Tick \/ UNCHANGED vars
  BY <1>5, <1>9 DEF Edit, Tick, vars, opVars, diskVars
<1>10. QED
  BY <1>2, <1>4, <1>6, <1>7, <1>8, <1>9 DEF Next, Pruning

LEMMA Journaled == Spec => []JournalInv
  BY InitJournalInv, NextJournalInv, Typed, PTL DEF Spec

(* Tasks never overlap in the journal, however many crashes, full disks    *)
(* and recoveries there are: a line that ends a task directly follows the  *)
(* line that began it.                                                     *)
THEOREM Brackets == Spec => []JournalBrackets
<1>1. JournalInv => JournalBrackets
  BY DEF JournalInv
<1>2. QED
  BY <1>1, Journaled, PTL

(* The executor never changes the file before the journal says which task  *)
(* is about to.                                                            *)
THEOREM WriteAhead == Spec => WriteAheadJournal
<1>1. ASSUME TypeOK, JournalInv, [Next]_vars, content' # content, used'.edits = used.edits
      PROVE  Announced
  <2>1. ~Edit
    <3>1. ASSUME Edit PROVE FALSE
      <4>1. used'["edits"] = used["edits"] + 1 /\ used["edits"] \in Nat
        BY <1>1, <3>1, SpendTyped DEF Edit, TypeOK
      <4>2. QED
        BY <1>1, <4>1
    <3>2. QED
      BY <3>1
  <2>2. phase \in {"git_apply", "file", "validate", "revert", "reverse", "restore"}
    BY <1>1, <2>1 DEF Next, StartApply, StartRollback, BrokerStep, WriteRunning,
       JournalStart, Stage, PatchSnapshot, PatchApply, PatchHash, FileWrite, Validated,
       ValidationFailed, RestoreThrows, CommandRan, StageFails, PostPassed, Healthy,
       AutoRollback, Revert, FileRevert, FileRevertFails, PatchDriftCheck, PatchDrifted,
       PatchReverse, PatchReverseConflict, SnapshotMissing, PatchReverseForced, SnapshotRestore,
       CommandUndone, CommandNotUndone, PostAgain, WriteResult, ApplyDone, PruneStops, RollbackDone,
       RecoverRecord, RecoverJournal, Recovered, AppendFails, WriteFails, Crash, Restart,
       Tick, Reverted, Continue, GiveUp, vars
  <2>3. QED
    BY <1>1, <2>2 DEF JournalInv, AnnouncedInv, Quiet, Resting
<1>2. TypeInv /\ JournalInv /\ [Next]_vars => [used'.edits = used.edits => Announced]_content
  BY <1>1 DEF TypeInv
<1>3. QED
  BY <1>2, Typed, Journaled, PTL DEF Spec, WriteAheadJournal

-----------------------------------------------------------------------------
(* Recovery.                                                               *)

(* Failing writes are never forgotten.                                     *)
LEMMA FaultsStay ==
  ASSUME TypeOK, [Next]_vars
  PROVE  used'.faults = 0 => used.faults = 0
<1>1. used.faults \in Nat
  BY DEF TypeOK
<1>2. \/ used' = used
      \/ \E what \in {"ops", "edits", "crashes"} : \E bound : Spend(what, bound)
      \/ \E bound : Spend("faults", bound)
  BY DEF Next, StartApply, StartRollback, BrokerStep, WriteRunning,
     JournalStart, Stage, PatchSnapshot, PatchApply, PatchHash, FileWrite, Validated,
     ValidationFailed, RestoreThrows, CommandRan, StageFails, PostPassed, Healthy,
     AutoRollback, Revert, FileRevert, FileRevertFails, PatchDriftCheck, PatchDrifted,
     PatchReverse, PatchReverseConflict, SnapshotMissing, PatchReverseForced, SnapshotRestore,
     CommandUndone, CommandNotUndone, PostAgain, WriteResult, ApplyDone, PruneStops, RollbackDone,
     RecoverRecord, RecoverJournal, Recovered, AppendFails, WriteFails, Crash, Restart,
     Edit, Tick, Reverted, Continue, Conclude, GiveUp, vars
<1>3. ASSUME NEW what \in {"ops", "edits", "crashes"}, NEW bound, Spend(what, bound)
      PROVE  used'.faults = used.faults
  BY <1>3, SpendTyped
<1>4. ASSUME NEW bound, Spend("faults", bound) PROVE used'.faults = used.faults + 1
  BY <1>4, SpendTyped
<1>5. QED
  BY <1>1, <1>2, <1>3, <1>4

LEMMA NextNoOrphan == TypeInv /\ NoOrphanRunning /\ [Next]_vars => NoOrphanRunning'
<1> SUFFICES ASSUME TypeInv, NoOrphanRunning, [Next]_vars, used'.faults = 0,
                    phase' \notin {"down", "recover", "report"}
             PROVE  \A c \in Unfinished' : current' = c /\ task' = "apply"
  BY DEF NoOrphanRunning
<1>t. TypeOK /\ PhaseInv /\ used.faults = 0
  BY FaultsStay DEF TypeInv
<1>a. phase \notin {"down", "recover", "report"} =>
        \A c \in Unfinished : current = c /\ task = "apply"
  BY <1>t DEF NoOrphanRunning
<1>b. phase = "idle" => Unfinished = {}
  BY <1>t, <1>a, NobodyAssumption DEF PhaseInv, Resting, Unfinished
<1>1. CASE /\ UNCHANGED <<record, task, current>>
           /\ phase \notin {"down", "recover", "report"}
  BY <1>a, <1>1 DEF Unfinished
<1>2. CASE UNCHANGED record /\ Unfinished = {}
  BY <1>2 DEF Unfinished
<1>3. CASE WriteRunning
  <2>1. task = "apply" /\ phase \notin {"down", "recover", "report"}
    BY <1>t, <1>3 DEF WriteRunning, PhaseInv, Applying
  <2>2. \A c \in Change : c # current => record'[c] = record[c]
    BY <1>t, <1>3 DEF WriteRunning, TypeOK
  <2>3. \A c \in Unfinished' : c = current
    BY <1>a, <2>1, <2>2 DEF Unfinished
  <2>4. QED
    BY <1>3, <2>1, <2>3 DEF WriteRunning
<1>4. CASE WriteResult
  <2>1. /\ phase \notin {"down", "recover", "report"} /\ memo.status # "running"
        /\ current \in Change
    BY <1>t, <1>4 DEF WriteResult, PhaseInv, Resting, Ending, Final
  <2>2. /\ \A c \in Change : c # current => record'[c] = record[c]
        /\ record'[current].status # "running"
    BY <1>t, <1>4, <2>1 DEF WriteResult, TypeOK
  <2>3. QED
    BY <1>a, <2>1, <2>2 DEF Unfinished
<1>5. CASE Pruning \/ RollbackDone
  <2>1. phase = "journal" /\ record[current].status # "running"
    BY <1>t, <1>5, PruningSteps DEF RollbackDone, PhaseInv, Ending, Final
  <2>2. Unfinished = {}
    BY <1>a, <2>1 DEF Unfinished
  <2>3. \A c \in Change : record'[c] \in {record[c], NoRecord}
    BY <1>t, <1>5, PruningSteps DEF RollbackDone
  <2>4. QED
    BY <2>2, <2>3 DEF Unfinished, NoRecord
<1>6. ASSUME BrokerStep
      PROVE  \A c \in Unfinished' : current' = c /\ task' = "apply"
  <2>1. CASE Stage \/ PostPassed \/ Healthy \/ AutoRollback \/ JournalStart
    BY <1>1, <2>1 DEF Stage, PatchSnapshot, PatchApply, PatchHash, FileWrite, Validated,
       ValidationFailed, RestoreThrows, CommandRan, StageFails, PostPassed, Healthy,
       AutoRollback, JournalStart, Continue, Conclude, GiveUp, diskVars
  <2>2. CASE Revert
    BY <1>1, <2>2 DEF Revert, FileRevert, FileRevertFails, PatchDriftCheck, PatchDrifted,
       PatchReverse, PatchReverseConflict, SnapshotMissing, PatchReverseForced, SnapshotRestore,
       CommandUndone, CommandNotUndone, PostAgain, Reverted, Continue, Conclude, GiveUp,
       diskVars
  <2>3. CASE (\E c \in Change : RecoverRecord(c)) \/ RecoverJournal
    BY <2>3 DEF RecoverRecord, RecoverJournal
  <2>4. CASE Recovered
    BY <1>2, <2>4 DEF Recovered, Continue, diskVars
  <2>5. QED
    BY <1>3, <1>4, <1>5, <1>6, <2>1, <2>2, <2>3, <2>4 DEF BrokerStep, Pruning
<1>7. CASE (\E p \in Proposals : StartApply(p))
           \/ (\E c \in Change, f \in BOOLEAN : StartRollback(c, f))
  BY <1>b, <1>2, <1>7 DEF StartApply, StartRollback, diskVars
<1>8. CASE AppendFails \/ WriteFails
  <2>1. \E bound : Spend("faults", bound)
    BY <1>8 DEF AppendFails, WriteFails
  <2>2. used'["faults"] = used["faults"] + 1
    BY <1>t, <2>1, SpendTyped
  <2>3. QED
    BY <1>t, <2>2
<1>9. CASE Crash \/ Restart
  BY <1>9 DEF Crash, Restart, Drop
<1>10. CASE Edit \/ Tick \/ UNCHANGED vars
  BY <1>1, <1>10 DEF Edit, Tick, vars, opVars, diskVars
<1>11. QED
  BY <1>5, <1>6, <1>7, <1>8, <1>9, <1>10 DEF Next, Pruning

(* Once the broker serves requests no record says "running" but that of    *)
(* the apply in progress, whatever it was doing when it last died, unless  *)
(* writes to its disk fail.                                                *)
THEOREM NothingLeftRunning == Spec => []NoOrphanRunning
<1>1. Init => NoOrphanRunning
  BY DEF Init, NoOrphanRunning, Unfinished, NoRecord
<1>2. QED
  BY <1>1, NextNoOrphan, Typed, PTL DEF Spec

(* Tasks never overlap, neither in what the records say nor in the journal.*)
THEOREM TasksNeverOverlap == Spec => []OneTaskAtATime
<1>1. NoOrphanRunning /\ JournalBrackets => OneTaskAtATime
  BY DEF OneTaskAtATime
<1>2. QED
  BY <1>1, NothingLeftRunning, Brackets, PTL

-----------------------------------------------------------------------------
(* The record of an apply says so while it runs.                           *)

RunningInv ==
  /\ phase = "start" => memo.status = "running"
  /\ task = "apply" /\ phase \notin {"start", "journal"} => record[current].status = "running"

LEMMA NextRunningInv == TypeInv /\ RunningInv /\ [Next]_vars => RunningInv'
<1> SUFFICES ASSUME TypeInv, RunningInv, [Next]_vars PROVE RunningInv'
  OBVIOUS
<1>t. TypeOK /\ PhaseInv
  BY DEF TypeInv
<1>1. CASE task' = "none"
  <2>1. PhaseInv'
    BY NextTyped DEF TypeInv
  <2>2. QED
    BY <1>1, <2>1 DEF RunningInv, PhaseInv, Applying
<1>2. CASE \E p \in Proposals : StartApply(p)
  BY <1>2 DEF StartApply, RunningInv, NoRecord
<1>3. CASE WriteRunning
  <2>1. current \in Change /\ memo.status = "running"
    BY <1>3, ChangeCurrent DEF WriteRunning, Resting, RunningInv
  <2>2. QED
    BY <1>t, <1>3, <2>1 DEF WriteRunning, RunningInv, TypeOK
<1>4. CASE WriteResult \/ \E c \in Change, f \in BOOLEAN : StartRollback(c, f)
  BY <1>4 DEF WriteResult, StartRollback, RunningInv
<1>5. CASE /\ UNCHANGED <<task, current, record>>
           /\ phase \notin {"start", "journal"} /\ phase' # "start"
  BY <1>5 DEF RunningInv
<1>6. CASE Stage \/ PostPassed \/ Healthy \/ AutoRollback \/ JournalStart
  <2>1. KindOf(current) # "start"
    BY <1>6, ChangeCurrent DEF KindOf, Resting, JournalStart,
       Stage, PatchSnapshot, PatchApply, PatchHash, FileWrite, Validated,
       ValidationFailed, RestoreThrows, CommandRan, StageFails, PostPassed, Healthy, AutoRollback
  <2>2. QED
    BY <1>5, <1>6, <2>1 DEF Stage, PatchSnapshot, PatchApply, PatchHash, FileWrite, Validated,
       ValidationFailed, RestoreThrows, CommandRan, StageFails, PostPassed, Healthy,
       AutoRollback, JournalStart, Continue, Conclude, GiveUp, diskVars
<1>7. CASE Revert
  BY <1>5, <1>7 DEF Revert, FileRevert, FileRevertFails, PatchDriftCheck, PatchDrifted,
     PatchReverse, PatchReverseConflict, SnapshotMissing, PatchReverseForced, SnapshotRestore,
     CommandUndone, CommandNotUndone, PostAgain, Reverted, Continue, Conclude, GiveUp, diskVars
<1>8. CASE ApplyDone \/ PruneStops \/ RollbackDone \/ AppendFails \/ WriteFails \/ Crash
  BY <1>1, <1>8 DEF ApplyDone, PruneStops, RollbackDone, AppendFails, WriteFails, Crash, Drop
<1>9. CASE Restart \/ (\E c \in Change : RecoverRecord(c)) \/ RecoverJournal \/ Recovered
  BY <1>1, <1>t, <1>9 DEF Restart, RecoverRecord, RecoverJournal, Recovered, Continue, PhaseInv, Resting
<1>10. CASE Edit \/ Tick \/ UNCHANGED vars
  BY <1>10 DEF Edit, Tick, vars, opVars, diskVars, RunningInv
<1>11. QED
  BY <1>2, <1>3, <1>4, <1>6, <1>7, <1>8, <1>9, <1>10 DEF Next, BrokerStep

LEMMA RunningAlways == Spec => []RunningInv
<1>1. Init => RunningInv
  BY DEF Init, RunningInv
<1>2. QED
  BY <1>1, NextRunningInv, Typed, PTL DEF Spec

-----------------------------------------------------------------------------
(* Snapshots.  The record in memory claims one only once it is on disk,    *)
(* and a rollback starts from a record that has one.                       *)

(* Directories sort strictly.                                              *)
LEMMA NewerOrder ==
  /\ \A c \in Change : ~Newer(c, c)
  /\ \A c, d, e \in Change : Newer(c, d) /\ Newer(d, e) => Newer(c, e)
<1>1. \A c \in Change : c.at \in Nat /\ HashOrder[c.of] \in Nat
  BY ExecutorAssumption DEF Change
<1>2. QED
  BY <1>1 DEF Newer

LEMMA ChangesFinite == IsFiniteSet(Change)
<1> DEFINE S == (0..MaxSecond) \X Proposals
           f == [x \in S |-> [at |-> x[1], of |-> x[2]]]
<1>1. IsFiniteSet(S)
  <2>1. 0 \in Int /\ MaxSecond \in Int
    BY ExecutorAssumption
  <2>2. IsFiniteSet(0..MaxSecond)
    BY <2>1, FS_Interval
  <2>3. QED
    BY <2>2, ExecutorAssumption, FS_Product
<1>2. f \in Surjection(S, Change)
  <2>1. f \in [S -> Change]
    BY DEF Change
  <2>2. ASSUME NEW c \in Change PROVE \E x \in S : f[x] = c
    <3>1. <<c.at, c.of>> \in S /\ f[<<c.at, c.of>>] = c
      BY DEF Change
    <3>2. QED
      BY <3>1
  <2>3. QED
    BY <2>1, <2>2 DEF Surjection
<1>3. QED
  BY <1>1, <1>2, FS_Surjection

(* A directory stays among the newest Keep as long as none newer comes.    *)
LEMMA KeptBefore ==
  ASSUME NEW c \in Directories, c \in Kept', NewerThan(c) \subseteq NewerThan(c)'
  PROVE  c \in Kept
<1>1. NewerThan(c)' \in SUBSET Change /\ Cardinality(NewerThan(c)') < Keep
  BY DEF Kept, NewerThan, Directories
<1>2. IsFiniteSet(NewerThan(c)')
  BY <1>1, ChangesFinite, FS_Subset
<1>3. Cardinality(NewerThan(c)) <= Cardinality(NewerThan(c)') /\ IsFiniteSet(NewerThan(c))
  BY <1>2, FS_Subset
<1>4. Cardinality(NewerThan(c)) \in Nat /\ Cardinality(NewerThan(c)') \in Nat /\ Keep \in Nat
  BY <1>2, <1>3, FS_CardinalityType, ExecutorAssumption
<1>5. Cardinality(NewerThan(c)) < Keep
  BY <1>1, <1>3, <1>4
<1>6. QED
  BY <1>5 DEF Kept

LEMMA KeptIfNoneGoes ==
  ASSUME Directories \subseteq Directories', NEW c \in Directories, c \in Kept'
  PROVE  c \in Kept
<1>1. NewerThan(c) \subseteq NewerThan(c)'
  BY DEF NewerThan
<1>2. QED
  BY <1>1, KeptBefore

(* Pruning, stopped wherever it is, takes nothing from a directory that is *)
(* one of the newest: all that are newer than one it leaves stay as well.  *)
LEMMA KeptIsUntouched ==
  ASSUME TypeOK, Pruning, NEW c \in Kept'
  PROVE  c \in Kept /\ record'[c] = record[c] /\ snapshot'[c] = snapshot[c]
<1>c. c \in Change /\ c \in Directories'
  BY DEF Kept, Directories
<1>1. CASE ApplyDone
  <2>1. /\ record'[c] = IF c \in Kept THEN record[c] ELSE NoRecord
        /\ snapshot'[c] = IF c \in Kept THEN snapshot[c] ELSE Absent
    BY <1>1, <1>c DEF ApplyDone, prune
  <2>2. record'[c].status # "none" \/ snapshot'[c] # Absent
    BY <1>c DEF Directories
  <2>3. QED
    BY <2>1, <2>2 DEF NoRecord
<1>2. CASE PruneStops
  <2>1. PICK x \in Change : PruneHalf(x)
    BY <1>2 DEF PruneStops
  <2>2. PICK r \in {record[x], NoRecord}, copy \in {snapshot[x], Absent} :
          /\ record' = [d \in Change |-> IF d \notin Kept /\ Newer(x, d) THEN NoRecord
                                       ELSE IF d = x THEN r ELSE record[d]]
          /\ snapshot' = [d \in Change |-> IF d \notin Kept /\ Newer(x, d) THEN Absent
                                         ELSE IF d = x THEN copy ELSE snapshot[d]]
    BY <2>1 DEF PruneHalf
  <2>3. x \in Directories \ Kept
    BY <2>1 DEF PruneHalf
  <2>4. c \in Kept
    <3>1. ASSUME c \notin Kept PROVE FALSE
      <4>1. ~Newer(x, c)
        <5>1. ASSUME Newer(x, c) PROVE FALSE
          <6>1. record'[c] = NoRecord /\ snapshot'[c] = Absent
            BY <1>c, <2>2, <3>1, <5>1
          <6>2. QED
            BY <1>c, <6>1 DEF Directories, NoRecord
        <5>2. QED
          BY <5>1
      <4>2. c \in Directories
        <5>1. CASE c = x
          BY <2>3, <5>1
        <5>2. CASE c # x
          <6>1. record'[c] = record[c] /\ snapshot'[c] = snapshot[c]
            BY <1>c, <2>2, <4>1, <5>2
          <6>2. QED
            BY <1>c, <6>1 DEF Directories
        <5>3. QED
          BY <5>1, <5>2
      <4>3. ASSUME NEW d \in NewerThan(c) PROVE d \in NewerThan(c)'
        <5>1. d \in Directories /\ d \in Change /\ Newer(d, c)
          BY <4>3 DEF NewerThan, Directories
        <5>2. ~Newer(x, d) /\ d # x
          BY <1>c, <4>1, <5>1, NewerOrder
        <5>3. record'[d] = record[d] /\ snapshot'[d] = snapshot[d]
          BY <2>2, <5>1, <5>2
        <5>4. d \in Directories'
          BY <5>1, <5>3 DEF Directories
        <5>5. QED
          BY <5>1, <5>4 DEF NewerThan
      <4>4. QED
        BY <3>1, <4>2, <4>3, KeptBefore
    <3>2. QED
      BY <3>1
  <2>5. record'[c] = record[c] /\ snapshot'[c] = snapshot[c]
    BY <1>c, <2>2, <2>3, <2>4
  <2>6. QED
    BY <2>4, <2>5
<1>3. QED
  BY <1>1, <1>2 DEF Pruning

(* An apply has its own copy; a rollback has one if its change is among    *)
(* the newest.                                                             *)
SnapshotInv ==
  /\ SnapshotKept
  /\ task = "apply" /\ memo.existed => snapshot[current] # Absent
  /\ task = "rollback" =>
       /\ record[current].status # "none"
       /\ current \in Kept /\ memo.existed => snapshot[current] # Absent

LEMMA NextSnapshotInv == TypeInv /\ RunningInv /\ SnapshotInv /\ [Next]_vars => SnapshotInv'
<1> SUFFICES ASSUME TypeInv, RunningInv, SnapshotInv, [Next]_vars PROVE SnapshotInv'
  OBVIOUS
<1>t. TypeOK /\ PhaseInv /\ SnapshotKept
  BY DEF TypeInv, SnapshotInv
<1>u. UNCHANGED <<record, snapshot>> => Kept' = Kept
  BY DEF Kept, NewerThan, Directories
<1>1. CASE /\ UNCHANGED <<record, snapshot>>
           /\ \/ task' = "none"
              \/ UNCHANGED <<task, current>> /\ memo'.existed = memo.existed
  BY <1>1, <1>u DEF SnapshotInv, SnapshotKept
<1>2. CASE PatchSnapshot \/ FileWrite
  <2>1. current \in Change /\ task = "apply" /\ UNCHANGED <<task, record, current>>
    BY <1>t, <1>2, ChangeCurrent DEF PatchSnapshot, FileWrite, Resting, PhaseInv, Applying
  <2>2. memo'.existed = (content # Absent)
    BY <1>t, <1>2 DEF PatchSnapshot, FileWrite, TypeOK, Record
  <2>3. snapshot' = [snapshot EXCEPT ![current] = IF content = Absent THEN @ ELSE content]
    BY <1>2 DEF PatchSnapshot, FileWrite
  <2>4. \A c \in Change : snapshot[c] # Absent => snapshot'[c] # Absent
    BY <1>t, <2>3 DEF TypeOK
  <2>5. content # Absent => snapshot'[current] # Absent
    BY <1>t, <2>1, <2>3 DEF TypeOK
  <2>6. Directories \subseteq Directories'
    BY <2>1, <2>4 DEF Directories
  <2>7. ASSUME NEW c \in Kept', record'[c].status = "applied", record'[c].existed
        PROVE  snapshot'[c] # Absent
    <3>1. c \in Directories
      BY <2>1, <2>7 DEF Kept, Directories
    <3>2. c \in Kept
      BY <2>6, <2>7, <3>1, KeptIfNoneGoes
    <3>3. QED
      BY <1>t, <2>1, <2>4, <2>7, <3>2 DEF SnapshotKept, Kept, Directories
  <2>8. QED
    BY <2>1, <2>2, <2>5, <2>7 DEF SnapshotInv, SnapshotKept
<1>3. CASE PatchHash
  <2>1. memo'.existed = memo.existed
    BY <1>t, <1>3 DEF PatchHash, TypeOK, Record
  <2>2. QED
    BY <1>1, <1>3, <2>1 DEF PatchHash, diskVars
<1>4. ASSUME NEW status, Conclude(status) PROVE SnapshotInv'
  <2>1. memo'.existed = memo.existed
    BY <1>t, <1>4 DEF Conclude, TypeOK, Record
  <2>2. QED
    BY <1>1, <1>4, <2>1 DEF Conclude, diskVars
<1>5. CASE WriteRunning \/ WriteResult
  <2>1. /\ record' = [record EXCEPT ![current] = memo] /\ memo.status # "none" /\ task # "none"
        /\ task = "rollback" => memo.status # "running" /\ phase = "finish"
        /\ WriteRunning => memo.status = "running" /\ task = "apply"
        /\ UNCHANGED <<task, current, memo, snapshot>>
    BY <1>t, <1>5 DEF WriteRunning, WriteResult, RunningInv, PhaseInv, Resting, Applying,
       Ending, Final
  <2>c. current \in Change /\ task \in {"apply", "rollback"}
    BY <1>t, <1>5, <2>1, ChangeCurrent DEF WriteRunning, WriteResult, Resting, TypeOK
  <2>2. \A c \in Change : record'[c] = IF c = current THEN memo ELSE record[c]
    BY <1>t, <2>1 DEF TypeOK
  <2>3. Directories \subseteq Directories'
    BY <2>1, <2>2 DEF Directories
  <2>4. ASSUME NEW c \in Kept', c \in Directories PROVE c \in Kept
    BY <2>3, <2>4, KeptIfNoneGoes
  <2>5. ASSUME NEW c \in Kept', record'[c].status = "applied", record'[c].existed
        PROVE  snapshot'[c] # Absent
    <3>1. CASE c # current
      <4>1. c \in Change /\ record'[c] = record[c]
        BY <2>2, <3>1 DEF Kept, Directories
      <4>2. c \in Kept
        BY <2>4, <2>5, <4>1 DEF Directories
      <4>3. QED
        BY <1>t, <2>1, <2>5, <4>1, <4>2 DEF SnapshotKept
    <3>2. CASE c = current
      <4>1. memo.existed
        BY <2>2, <2>5, <2>c, <3>2
      <4>2. CASE task = "apply"
        BY <2>1, <3>2, <4>1, <4>2 DEF SnapshotInv
      <4>3. CASE task = "rollback"
        <5>1. c \in Directories
          BY <2>c, <3>2, <4>3 DEF SnapshotInv, Directories
        <5>2. QED
          BY <2>1, <2>4, <3>2, <4>1, <4>3, <5>1 DEF SnapshotInv
      <4>4. QED
        BY <2>c, <4>2, <4>3
    <3>3. QED
      BY <3>1, <3>2
  <2>6. task' = "rollback" => /\ record'[current'].status # "none"
                              /\ current' \in Kept' /\ memo'.existed => snapshot'[current'] # Absent
    <3>1. ASSUME task = "rollback"
          PROVE  current \in Directories
      BY <2>c, <3>1 DEF SnapshotInv, Directories
    <3>2. QED
      BY <2>1, <2>2, <2>c, <2>4, <3>1 DEF SnapshotInv
  <2>7. QED
    BY <2>1, <2>5, <2>6 DEF SnapshotInv, SnapshotKept
<1>7. CASE Pruning
  <2>1. ASSUME NEW c \in Kept', record'[c].status = "applied", record'[c].existed
        PROVE  snapshot'[c] # Absent
    BY <1>t, <1>7, <2>1, KeptIsUntouched DEF SnapshotKept
  <2>2. task' = "none"
    BY <1>7, PruningSteps
  <2>3. QED
    BY <2>1, <2>2 DEF SnapshotInv, SnapshotKept
<1>8. CASE \E p \in Proposals : StartApply(p)
  <2>1. memo'.existed = FALSE /\ task' = "apply" /\ UNCHANGED <<record, snapshot>>
    BY <1>8 DEF StartApply, NoRecord, diskVars
  <2>2. QED
    BY <1>t, <1>u, <2>1 DEF SnapshotInv, SnapshotKept
<1>9. CASE \E c \in Change, f \in BOOLEAN : StartRollback(c, f)
  <2>1. /\ current' \in Change /\ memo' = record[current'] /\ memo'.status = "applied"
        /\ task' = "rollback" /\ UNCHANGED <<record, snapshot>>
    BY <1>9 DEF StartRollback
  <2>2. QED
    BY <1>t, <1>u, <2>1 DEF SnapshotInv, SnapshotKept
<1>10. ASSUME task' = "none", UNCHANGED snapshot, NEW d \in Change,
              \A c \in Change : c # d => record'[c] = record[c],
              record'[d] = record[d] \/ record'[d].status \notin {"none", "applied"}
       PROVE  SnapshotInv'
  <2>1. Directories \subseteq Directories'
    BY <1>10 DEF Directories
  <2>2. ASSUME NEW c \in Kept', record'[c].status = "applied", record'[c].existed
        PROVE  snapshot'[c] # Absent
    <3>1. c \in Change /\ record'[c] = record[c]
      BY <1>10, <2>2 DEF Kept, Directories
    <3>2. c \in Kept
      BY <2>1, <2>2, <3>1, KeptIfNoneGoes DEF Directories
    <3>3. QED
      BY <1>t, <1>10, <2>2, <3>1, <3>2 DEF SnapshotKept
  <2>3. QED
    BY <1>10, <2>2 DEF SnapshotInv, SnapshotKept
<1>11. CASE WriteFails \/ Crash
  <2>1. task' = "none" /\ snapshot' = snapshot
    BY <1>11 DEF WriteFails, Crash, Drop
  <2>2. CASE UNCHANGED record
    BY <1>1, <2>1, <2>2
  <2>3. ASSUME NEW d \in Change, record' = [record EXCEPT ![d] = Torn] PROVE SnapshotInv'
    <3>1. Torn.status = "torn"
      BY DEF Torn, NoRecord
    <3>2. (\A c \in Change : c # d => record'[c] = record[c]) /\ record'[d].status = "torn"
      BY <1>t, <2>3, <3>1 DEF TypeOK
    <3>3. QED
      BY <1>10, <2>1, <3>2
  <2>4. CASE WriteFails
    <3>1. current \in Change
      BY <2>4, ChangeCurrent DEF WriteFails, Resting
    <3>2. QED
      BY <2>2, <2>3, <2>4, <3>1 DEF WriteFails
  <2>5. CASE Crash
    <3>1. ASSUME NEW d \in BeingWritten PROVE d \in Change
      <4>1. CASE phase \in {"start", "finish"}
        BY <3>1, <4>1, ChangeCurrent DEF BeingWritten, Resting
      <4>2. CASE phase \notin {"start", "finish"}
        BY <3>1, <4>2 DEF BeingWritten, Unfinished
      <4>3. QED
        BY <4>1, <4>2
    <3>2. UNCHANGED record \/ \E d \in BeingWritten : record' = [record EXCEPT ![d] = Torn]
      BY <2>5 DEF Crash
    <3>3. QED
      BY <2>2, <2>3, <3>1, <3>2
  <2>6. QED
    BY <1>11, <2>4, <2>5
<1>12. CASE \E c \in Change : RecoverRecord(c)
  <2>1. PICK d \in Change : RecoverRecord(d)
    BY <1>12
  <2>2. /\ \A c \in Change : c # d => record'[c] = record[c]
        /\ record'[d].status = "interrupted"
    BY <1>t, <2>1 DEF RecoverRecord, TypeOK, Record
  <2>3. task' = "none" /\ snapshot' = snapshot
    BY <1>t, <2>1 DEF RecoverRecord, PhaseInv, Resting
  <2>4. QED
    BY <1>10, <2>2, <2>3
<1>13. CASE \/ PatchApply \/ Validated \/ CommandRan \/ PostPassed \/ AutoRollback \/ JournalStart
            \/ FileRevert \/ PatchDriftCheck \/ PatchReverse \/ PatchReverseForced
            \/ SnapshotRestore \/ CommandUndone \/ Recovered \/ Restart
            \/ Edit \/ Tick \/ UNCHANGED vars
  <2>1. UNCHANGED <<record, snapshot, task, current, memo>>
    BY <1>13 DEF PatchApply, Validated, CommandRan, PostPassed, AutoRollback, JournalStart,
       FileRevert, PatchDriftCheck, PatchReverse, PatchReverseForced, SnapshotRestore,
       CommandUndone, Recovered, Restart, Edit, Tick, Reverted, Continue, vars, opVars,
       diskVars
  <2>2. QED
    BY <1>1, <2>1
<1>14. CASE \/ ValidationFailed \/ RestoreThrows \/ StageFails \/ Healthy
            \/ FileRevertFails \/ PatchDrifted \/ PatchReverseConflict \/ SnapshotMissing
            \/ CommandNotUndone \/ PostAgain
  BY <1>4, <1>14 DEF ValidationFailed, RestoreThrows, StageFails, Healthy,
     FileRevertFails, PatchDrifted, PatchReverseConflict, SnapshotMissing, CommandNotUndone,
     PostAgain, GiveUp
<1>15. CASE RollbackDone \/ AppendFails \/ RecoverJournal
  <2>1. UNCHANGED <<record, snapshot>> /\ task' = "none"
    BY <1>t, <1>15 DEF RollbackDone, AppendFails, RecoverJournal, Drop, diskVars, PhaseInv, Resting
  <2>2. QED
    BY <1>1, <2>1
<1>16. CASE BrokerStep
  <2>1. CASE Stage
    BY <1>2, <1>3, <1>13, <1>14, <2>1 DEF Stage
  <2>2. CASE Revert
    BY <1>13, <1>14, <2>2 DEF Revert
  <2>3. QED
    BY <1>5, <1>7, <1>12, <1>13, <1>14, <1>15, <1>16, <2>1, <2>2 DEF BrokerStep, Pruning
<1>17. QED
  BY <1>7, <1>8, <1>9, <1>11, <1>13, <1>15, <1>16 DEF Next, Pruning

LEMMA SnapshotAlways == Spec => []SnapshotInv
<1>1. Init => SnapshotInv
  BY DEF Init, SnapshotInv, SnapshotKept, NoRecord, Kept, Directories
<1>2. QED
  BY <1>1, NextSnapshotInv, Typed, RunningAlways, PTL DEF Spec

(* What is offered for rollback can be rolled back: an applied change that *)
(* replaced a file, and is not one of those to be pruned, keeps its        *)
(* snapshot through pruning that runs to its end or stops half way,        *)
(* crashes and applies that share a directory.                             *)
THEOREM SnapshotsKept == Spec => []SnapshotKept
<1>1. SnapshotInv => SnapshotKept
  BY DEF SnapshotInv
<1>2. QED
  BY <1>1, SnapshotAlways, PTL

=============================================================================
