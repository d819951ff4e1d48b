--------------------- MODULE ChangeExecutorOutcomeProofs ---------------------
(***************************************************************************)
(* What the change executor's outcomes mean, for any proposals, tasks,     *)
(* crashes, failing writes and edits: a failed apply and a rollback put    *)
(* back what was there, an unforced rollback takes nothing from anybody    *)
(* else, and records and journal follow the lifecycle of a change.         *)
(***************************************************************************)
EXTENDS ChangeExecutorProofs

-----------------------------------------------------------------------------
(* Which actions touch what.                                               *)

LEMMA ContentSteps ==
  ASSUME [Next]_vars, content' # content
  PROVE  \/ PatchApply \/ FileWrite \/ ValidationFailed
         \/ FileRevert \/ PatchReverse \/ SnapshotRestore \/ Edit
  BY DEF Next, StartApply, StartRollback, BrokerStep, WriteRunning,
     JournalStart, Stage, PatchSnapshot, PatchHash, Validated,
     RestoreThrows, CommandRan, StageFails, PostPassed, Healthy,
     AutoRollback, Revert, FileRevertFails, PatchDriftCheck, PatchDrifted,
     PatchReverseConflict, SnapshotMissing, PatchReverseForced,
     CommandUndone, CommandNotUndone, PostAgain, WriteResult, ApplyDone, PruneStops, RollbackDone,
     RecoverRecord, RecoverJournal, Recovered, AppendFails, WriteFails, Crash, Restart,
     Tick, Continue, GiveUp, vars

LEMMA SnapshotSteps ==
  ASSUME [Next]_vars, snapshot' # snapshot
  PROVE  PatchSnapshot \/ FileWrite \/ Pruning
  BY DEF Next, StartApply, StartRollback, BrokerStep, WriteRunning,
     JournalStart, Stage, PatchApply, PatchHash, Validated,
     ValidationFailed, RestoreThrows, CommandRan, StageFails, PostPassed, Healthy,
     AutoRollback, Revert, FileRevert, FileRevertFails, PatchDriftCheck, PatchDrifted,
     PatchReverse, PatchReverseConflict, SnapshotMissing, PatchReverseForced, SnapshotRestore,
     CommandUndone, CommandNotUndone, PostAgain, WriteResult, RollbackDone,
     RecoverRecord, RecoverJournal, Recovered, AppendFails, WriteFails, Crash, Restart,
     Edit, Tick, Reverted, Continue, Conclude, GiveUp, vars, diskVars, Pruning

LEMMA BeforeSteps ==
  ASSUME [Next]_vars, before' # before
  PROVE  WriteRunning \/ PatchSnapshot \/ FileWrite
  BY DEF Next, StartApply, StartRollback, BrokerStep,
     JournalStart, Stage, PatchApply, PatchHash, Validated,
     ValidationFailed, RestoreThrows, CommandRan, StageFails, PostPassed, Healthy,
     AutoRollback, Revert, FileRevert, FileRevertFails, PatchDriftCheck, PatchDrifted,
     PatchReverse, PatchReverseConflict, SnapshotMissing, PatchReverseForced, SnapshotRestore,
     CommandUndone, CommandNotUndone, PostAgain, WriteResult, ApplyDone, PruneStops, RollbackDone,
     RecoverRecord, RecoverJournal, Recovered, AppendFails, WriteFails, Crash, Restart,
     Edit, Tick, Reverted, Continue, Conclude, GiveUp, vars, ghostVars

(* A record that is torn is that of the task, or one under recovery.       *)
LEMMA RecordSteps ==
  ASSUME TypeInv, [Next]_vars, record' # record
  PROVE  \/ WriteRunning \/ WriteResult \/ Pruning
         \/ \E c \in Change : RecoverRecord(c)
         \/ /\ WriteFails \/ Crash
            /\ \E c \in Change :
                 /\ record' = [record EXCEPT ![c] = Torn]
                 /\ (phase \in {"start", "finish"} /\ c = current) \/ c \in Unfinished
<1>1. \/ WriteRunning \/ WriteResult \/ Pruning \/ WriteFails \/ Crash
      \/ \E c \in Change : RecoverRecord(c)
  BY DEF Next, StartApply, StartRollback, BrokerStep,
     JournalStart, Stage, PatchSnapshot, FileWrite, PatchApply, PatchHash, Validated,
     ValidationFailed, RestoreThrows, CommandRan, StageFails, PostPassed, Healthy,
     AutoRollback, Revert, FileRevert, FileRevertFails, PatchDriftCheck, PatchDrifted,
     PatchReverse, PatchReverseConflict, SnapshotMissing, PatchReverseForced, SnapshotRestore,
     CommandUndone, CommandNotUndone, PostAgain, RollbackDone,
     RecoverJournal, Recovered, AppendFails, Restart,
     Edit, Tick, Reverted, Continue, Conclude, GiveUp, vars, diskVars, Pruning
<1>2. CASE WriteFails
  BY <1>2, ChangeCurrent DEF WriteFails, Resting
<1>3. CASE Crash
  <2>1. PICK c \in BeingWritten : record' = [record EXCEPT ![c] = Torn]
    BY <1>3 DEF Crash
  <2>2. \/ phase \in {"start", "finish"} /\ c = current
        \/ phase \notin {"start", "finish"} /\ c \in Unfinished
    BY <2>1 DEF BeingWritten
  <2>3. c \in Change
    BY <2>2, ChangeCurrent DEF Unfinished, Resting
  <2>4. QED
    BY <1>3, <2>1, <2>2, <2>3
<1>4. QED
  BY <1>1, <1>2, <1>3

-----------------------------------------------------------------------------
(* Each stage belongs to one kind, and reverting in an apply is forced.    *)

KindInv ==
  /\ phase \in {"patch", "git_apply", "hash", "reverse", "restore"} => KindOf(current) = "patch"
  /\ phase \in {"file", "validate"} => KindOf(current) = "file"
  /\ phase = "command" => KindOf(current) = "command"
  /\ phase = "restore" => force
  /\ task = "apply" /\ phase \in Reverting => force

LEMMA NextKindInv == TypeInv /\ KindInv /\ [Next]_vars => KindInv'
<1> SUFFICES ASSUME TypeInv, KindInv, [Next]_vars PROVE KindInv'
  OBVIOUS
<1>1. CASE phase' \in Resting \cup Ending \cup {"report", "start", "begin", "post", "health"}
  BY <1>1 DEF KindInv, Resting, Ending, Reverting
<1>2. CASE JournalStart
  <2>1. KindOf(current) \in {"file", "patch", "command"}
    BY <1>2, ChangeCurrent DEF JournalStart, Resting
  <2>2. phase' = KindOf(current) /\ current' = current
    BY <1>2 DEF JournalStart
  <2>3. QED
    BY <2>1, <2>2 DEF KindInv, KindOf, Reverting
<1>3. CASE Stage \/ PostPassed \/ Healthy \/ AutoRollback
  BY <1>3 DEF Stage, PatchSnapshot, PatchApply, PatchHash, FileWrite, Validated,
     ValidationFailed, RestoreThrows, CommandRan, StageFails, PostPassed, Healthy,
     AutoRollback, Continue, Conclude, GiveUp, KindInv, KindOf, Reverting
<1>4. CASE Revert
  BY <1>4 DEF Revert, FileRevert, FileRevertFails, PatchDriftCheck, PatchDrifted,
     PatchReverse, PatchReverseConflict, SnapshotMissing, PatchReverseForced, SnapshotRestore,
     CommandUndone, CommandNotUndone, PostAgain, Reverted, Continue, Conclude, GiveUp,
     KindInv, KindOf, Reverting
<1>5. CASE \E c \in Change, f \in BOOLEAN : StartRollback(c, f)
  BY <1>5 DEF StartRollback, KindInv, Reverting
<1>6. CASE Edit \/ Tick \/ UNCHANGED vars
  BY <1>6 DEF Edit, Tick, vars, opVars, KindInv, KindOf
<1>7. CASE (\E p \in Proposals : StartApply(p)) \/ WriteRunning \/ WriteResult \/ ApplyDone
           \/ PruneStops \/ RollbackDone \/ (\E c \in Change : RecoverRecord(c)) \/ RecoverJournal
           \/ Recovered \/ AppendFails \/ WriteFails \/ Crash \/ Restart
  <2>1. phase' \in Resting \cup Ending \cup {"report", "start", "begin", "post", "health"}
    BY <1>7 DEF StartApply, WriteRunning, WriteResult, ApplyDone, PruneStops, RollbackDone, RecoverRecord,
       RecoverJournal, Recovered, AppendFails, WriteFails, Crash, Restart, Drop, Continue,
       Resting, Ending
  <2>2. QED
    BY <1>1, <2>1
<1>8. QED
  BY <1>2, <1>3, <1>4, <1>5, <1>6, <1>7 DEF Next, BrokerStep

LEMMA Kinds == Spec => []KindInv
<1>1. Init => KindInv
  BY DEF Init, KindInv, Reverting
<1>2. QED
  BY <1>1, NextKindInv, Typed, PTL DEF Spec

-----------------------------------------------------------------------------
(* Files.  One that is there has both parts, and only a change that writes *)
(* the whole file writes the rest of it.                                   *)

Sound(c) ==
  /\ c.hunk = "none" <=> c.rest = "none"
  /\ c.rest \in Proposals => Kind[c.rest] = "file" \/ Base[c.rest] = "none"
SoundInv == Sound(content) /\ \A c \in Change : Sound(snapshot[c])

LEMMA NotMarks ==
  \A p \in Proposals : p \notin {"orig", "alien", "none"}
  BY ExecutorAssumption

LEMMA SoundFiles ==
  /\ Sound(Absent) /\ Sound(Original) /\ Sound([hunk |-> "alien", rest |-> "alien"])
  /\ \A p \in Proposals : Kind[p] = "file" \/ Base[p] = "none" => Sound(Written(p))
  /\ \A c \in Content : Sound(c) /\ c # Absent =>
       /\ Sound([c EXCEPT !.hunk = "alien"]) /\ Sound([c EXCEPT !.rest = "alien"])
       /\ \A p \in Proposals :
            /\ Sound(Patched(p, c))
            /\ Base[p] # "none" => Sound(Unpatched(p, c))
<1>1. Sound(Absent) /\ Sound(Original) /\ Sound([hunk |-> "alien", rest |-> "alien"])
  BY NotMarks DEF Sound, Absent, Original
<1>2. \A p \in Proposals : Kind[p] = "file" \/ Base[p] = "none" => Sound(Written(p))
  BY NotMarks DEF Sound, Written
<1>3. ASSUME NEW c \in Content, Sound(c), c # Absent
      PROVE  c.rest # "none" /\ c.hunk # "none"
  BY <1>3 DEF Sound, Content, Absent
<1>4. ASSUME NEW c \in Content, Sound(c), c # Absent
      PROVE  Sound([c EXCEPT !.hunk = "alien"]) /\ Sound([c EXCEPT !.rest = "alien"])
  BY <1>3, <1>4, NotMarks DEF Sound, Content
<1>5. ASSUME NEW c \in Content, Sound(c), c # Absent, NEW p \in Proposals
      PROVE  Sound(Patched(p, c)) /\ (Base[p] # "none" => Sound(Unpatched(p, c)))
  <2>1. p # "none" /\ c.rest # "none"
    BY <1>3, <1>5, NotMarks
  <2>2. CASE Base[p] = "none"
    BY <1>2, <2>2 DEF Patched
  <2>3. CASE Base[p] # "none"
    BY <1>5, <2>1, <2>3 DEF Patched, Unpatched, Sound, Content
  <2>4. QED
    BY <2>2, <2>3
<1>6. QED
  BY <1>1, <1>2, <1>4, <1>5

LEMMA NextSoundInv == TypeInv /\ KindInv /\ SoundInv /\ [Next]_vars => SoundInv'
<1> SUFFICES ASSUME TypeInv, KindInv, SoundInv, [Next]_vars PROVE SoundInv'
  OBVIOUS
<1>t. TypeOK /\ Sound(content) /\ content \in Content
  BY DEF TypeInv, TypeOK, SoundInv
<1>1. Sound(content')
  <2>1. CASE content' = content
    BY <1>t, <2>1
  <2>2. CASE ValidationFailed \/ FileRevert \/ SnapshotRestore
    <3>1. content' = Saved(current) /\ current \in Change
      BY <2>2, ChangeCurrent DEF ValidationFailed, FileRevert, SnapshotRestore, Reverted, Resting
    <3>2. QED
      BY <3>1, SoundFiles DEF Saved, SoundInv
  <2>3. CASE FileWrite
    <3>1. content' = Written(current.of) /\ current.of \in Proposals /\ Kind[current.of] = "file"
      BY <2>3, ChangeCurrent DEF FileWrite, KindInv, KindOf, Resting
    <3>2. QED
      BY <3>1, SoundFiles
  <2>4. CASE PatchApply
    <3>1. /\ current.of \in Proposals /\ content' = Patched(current.of, content)
          /\ Applies(current.of, content)
      BY <2>4, ChangeCurrent DEF PatchApply, Resting
    <3>2. CASE content # Absent
      BY <1>t, <3>1, <3>2, SoundFiles
    <3>3. CASE content = Absent
      BY <3>1, <3>3, SoundFiles DEF Applies, Patched
    <3>4. QED
      BY <3>2, <3>3
  <2>5. CASE PatchReverse
    <3>1. /\ current.of \in Proposals /\ content' = Unpatched(current.of, content)
          /\ Reverses(current.of, content)
      BY <2>5, ChangeCurrent DEF PatchReverse, Reverted, Resting
    <3>2. CASE Base[current.of] = "none"
      BY <3>1, <3>2, SoundFiles DEF Unpatched
    <3>3. CASE Base[current.of] # "none"
      BY <1>t, <3>1, <3>3, SoundFiles DEF Reverses
    <3>4. QED
      BY <3>2, <3>3
  <2>6. CASE Edit
    <3>1. \/ content' = [hunk |-> "alien", rest |-> "alien"]
          \/ content # Absent /\ content' \in {[content EXCEPT !.hunk = "alien"],
                                               [content EXCEPT !.rest = "alien"], Absent}
      BY <2>6 DEF Edit
    <3>2. QED
      BY <1>t, <3>1, SoundFiles
  <2>7. QED
    BY <2>1, <2>2, <2>3, <2>4, <2>5, <2>6, ContentSteps
<1>2. \A c \in Change : Sound(snapshot'[c])
  <2>1. CASE snapshot' = snapshot
    BY <2>1 DEF SoundInv
  <2>2. CASE PatchSnapshot \/ FileWrite
    <3>1. snapshot' = [snapshot EXCEPT ![current] = IF content = Absent THEN @ ELSE content]
      BY <2>2 DEF PatchSnapshot, FileWrite
    <3>2. \A c \in Change : snapshot'[c] \in {snapshot[c], content}
      BY <1>t, <3>1 DEF TypeOK
    <3>3. QED
      BY <3>2 DEF SoundInv
  <2>3. CASE Pruning
    <3>1. \A c \in Change : snapshot'[c] \in {snapshot[c], Absent}
      BY <2>3, PruningSteps
    <3>2. QED
      BY <3>1, SoundFiles DEF SoundInv
  <2>4. QED
    BY <2>1, <2>2, <2>3, SnapshotSteps
<1>3. QED
  BY <1>1, <1>2 DEF SoundInv

LEMMA SoundAlways == Spec => []SoundInv
<1>1. Init => SoundInv
  BY SoundFiles DEF Init, SoundInv
<1>2. QED
  BY <1>1, NextSoundInv, Typed, Kinds, PTL DEF Spec

-----------------------------------------------------------------------------
(* What a task knows of the file it replaced.  The copy is that file, as   *)
(* long as pruning has left it there; for a patch, the file was one it     *)
(* applies to, and the rest of what the apply left is either as it was or  *)
(* somebody else's.                                                        *)

Undoable(r, copy, was) ==
  /\ r.existed = (was # Absent)
  /\ r.existed => copy \in {was, Absent}

Left(c, x, was) ==
  /\ Applies(c.of, was)
  /\ Base[c.of] # "none" => x.rest \in {was.rest, "alien", "none"}

Faithful(c, r, copy, was) ==
  /\ KindOf(c) # "command" => Undoable(r, copy, was)
  /\ KindOf(c) = "file" => r.after = Written(c.of)
  /\ KindOf(c) = "patch" => Left(c, r.after, was)

Holding == Reverting \cup {"post", "health"}
Held == Faithful(current, memo, snapshot[current], before[current])
TaskInv ==
  /\ phase \in {"git_apply", "hash", "validate"} =>
       Undoable(memo, snapshot[current], before[current])
  /\ phase \in {"git_apply", "hash"} => Left(current, content, before[current])
  /\ phase = "validate" => memo.after = Written(current.of)
  /\ phase \in Holding => Held
  /\ phase \in Ending /\ memo.status = "applied" => Held
FaithfulRecords ==
  \A c \in Change : record[c].status = "applied" => Faithful(c, record[c], snapshot[c], before[c])
FaithfulInv == TaskInv /\ FaithfulRecords

(* Only what the record says of the file matters.                          *)
LEMMA SameFaithful ==
  ASSUME NEW c, NEW r, NEW s, NEW copy, NEW was, Faithful(c, r, copy, was),
         s.existed = r.existed, s.after = r.after
  PROVE  Faithful(c, s, copy, was)
  BY DEF Faithful, Undoable

LEMMA Concluding ==
  ASSUME TypeOK, NEW status, Conclude(status)
  PROVE  /\ memo'.existed = memo.existed /\ memo'.after = memo.after
         /\ memo'.status = status /\ phase' = "finish"
         /\ UNCHANGED <<task, current, force, record, snapshot, before, touched>>
  BY DEF TypeOK, Record, Conclude, diskVars, ghostVars

LEMMA Giving ==
  ASSUME TypeOK, GiveUp
  PROVE  \E status : /\ Conclude(status) /\ content' = content
                     /\ status = IF task = "apply" THEN "failed" ELSE "applied"
  BY DEF GiveUp

(* A copy that pruning took makes no record wrong.                         *)
LEMMA FadingFaithful ==
  ASSUME NEW c, NEW r, NEW copy, NEW was, Faithful(c, r, copy, was)
  PROVE  Faithful(c, r, Absent, was)
  BY DEF Faithful, Undoable

(* Records: the one an apply is about to write over is not applied.        *)
LEMMA NextFaithfulRecords ==
  ASSUME TypeInv, KindInv, RunningInv, FaithfulInv, [Next]_vars
  PROVE  FaithfulRecords'
<1> SUFFICES ASSUME NEW c \in Change, record'[c].status = "applied"
             PROVE  Faithful(c, record'[c], snapshot'[c], before'[c])
  BY DEF FaithfulRecords
<1>t. TypeOK /\ PhaseInv /\ FaithfulRecords /\ TaskInv
  BY DEF TypeInv, FaithfulInv
<1>1. CASE WriteRunning
  <2>1. /\ record' = [record EXCEPT ![current] = memo] /\ memo.status = "running"
        /\ before' = [before EXCEPT ![current] = content] /\ snapshot' = snapshot
    BY <1>1 DEF WriteRunning, RunningInv
  <2>2. c # current
    BY <1>t, <2>1 DEF TypeOK
  <2>3. record'[c] = record[c] /\ before'[c] = before[c]
    BY <1>t, <2>1, <2>2 DEF TypeOK
  <2>4. QED
    BY <1>t, <2>1, <2>3 DEF FaithfulRecords
<1>2. CASE PatchSnapshot \/ FileWrite
  <2>1. /\ record' = record /\ before' = [before EXCEPT ![current] = content]
        /\ snapshot' = [snapshot EXCEPT ![current] = IF content = Absent THEN @ ELSE content]
    BY <1>2 DEF PatchSnapshot, FileWrite
  <2>2. record[current].status = "running"
    BY <1>t, <1>2 DEF PatchSnapshot, FileWrite, RunningInv, PhaseInv, Applying
  <2>3. c # current
    BY <2>1, <2>2
  <2>4. before'[c] = before[c] /\ snapshot'[c] = snapshot[c]
    BY <1>t, <2>1, <2>3 DEF TypeOK
  <2>5. QED
    BY <1>t, <2>1, <2>4 DEF FaithfulRecords
<1>3. CASE Pruning
  <2>1. record'[c] = record[c] /\ snapshot'[c] \in {snapshot[c], Absent} /\ before' = before
    BY <1>3, PruningSteps DEF NoRecord
  <2>2. QED
    BY <1>t, <2>1, FadingFaithful DEF FaithfulRecords
<1>4. CASE before' = before /\ snapshot' = snapshot
  <2>1. CASE record'[c] = record[c]
    BY <1>t, <1>4, <2>1 DEF FaithfulRecords
  <2>2. CASE WriteResult
    <3>1. record' = [record EXCEPT ![current] = memo] /\ phase = "finish"
      BY <2>2 DEF WriteResult
    <3>2. CASE c = current
      <4>1. record'[c] = memo
        BY <1>t, <3>1, <3>2 DEF TypeOK
      <4>2. QED
        BY <1>t, <1>4, <3>1, <3>2, <4>1 DEF TaskInv, Held, Ending
    <3>3. QED
      BY <1>t, <2>1, <3>1, <3>2 DEF TypeOK
  <2>3. CASE \E d \in Change : RecoverRecord(d)
    <3>1. PICK d \in Change : record' = [record EXCEPT ![d].status = "interrupted"]
      BY <2>3 DEF RecoverRecord
    <3>2. record'[d].status = "interrupted"
      BY <1>t, <3>1 DEF TypeOK, Record
    <3>3. c # d
      BY <3>2
    <3>4. QED
      BY <1>t, <2>1, <3>1, <3>3 DEF TypeOK
  <2>4. CASE \E d \in Change : record' = [record EXCEPT ![d] = Torn]
    <3>1. PICK d \in Change : record' = [record EXCEPT ![d] = Torn]
      BY <2>4
    <3>2. record'[d].status = "torn"
      BY <1>t, <3>1 DEF TypeOK, Torn, NoRecord
    <3>3. c # d
      BY <3>2
    <3>4. QED
      BY <1>t, <2>1, <3>1, <3>3 DEF TypeOK
  <2>5. QED
    BY <1>1, <1>3, <2>1, <2>2, <2>3, <2>4, RecordSteps
<1>5. QED
  BY <1>1, <1>2, <1>3, <1>4, SnapshotSteps, BeforeSteps

LEMMA NextTaskInv ==
  ASSUME TypeInv, KindInv, RunningInv, FaithfulInv, [Next]_vars
  PROVE  TaskInv'
<1>t. TypeOK /\ PhaseInv /\ FaithfulRecords /\ TaskInv
  BY DEF TypeInv, FaithfulInv
<1>1. CASE /\ phase' \notin Holding \cup {"git_apply", "hash", "validate"}
           /\ phase' \in Ending => memo'.status # "applied"
  BY <1>1 DEF TaskInv
<1>2. CASE /\ Held /\ memo'.existed = memo.existed /\ memo'.after = memo.after
           /\ UNCHANGED <<current, snapshot, before>>
           /\ phase' \notin {"git_apply", "hash", "validate"}
  <2>1. Held'
    BY <1>2, SameFaithful DEF Held
  <2>2. QED
    BY <1>2, <2>1 DEF TaskInv
<1>3. CASE PatchSnapshot
  <2>1. /\ current \in Change /\ Applies(current.of, content)
        /\ snapshot' = [snapshot EXCEPT ![current] = IF content = Absent THEN @ ELSE content]
        /\ memo' = [memo EXCEPT !.existed = (content # Absent)]
        /\ before' = [before EXCEPT ![current] = content]
        /\ phase' = "git_apply" /\ UNCHANGED <<content, current>>
    BY <1>3, ChangeCurrent DEF PatchSnapshot, Resting
  <2>2. memo'.existed = (content # Absent) /\ before'[current] = content
    BY <1>t, <2>1 DEF TypeOK, Record
  <2>3. content # Absent => snapshot'[current] = content
    BY <1>t, <2>1 DEF TypeOK
  <2>4. Undoable(memo', snapshot'[current], before'[current])
    BY <2>2, <2>3 DEF Undoable
  <2>5. Left(current, content, before'[current])
    BY <2>1, <2>2 DEF Left
  <2>6. QED
    BY <2>1, <2>4, <2>5 DEF TaskInv, Holding, Reverting, Ending
<1>4. CASE FileWrite
  <2>1. /\ current \in Change
        /\ snapshot' = [snapshot EXCEPT ![current] = IF content = Absent THEN @ ELSE content]
        /\ memo' = [memo EXCEPT !.existed = (content # Absent), !.after = Written(current.of)]
        /\ before' = [before EXCEPT ![current] = content]
        /\ phase' = "validate" /\ UNCHANGED current
    BY <1>4, ChangeCurrent DEF FileWrite, Resting
  <2>2. /\ memo'.existed = (content # Absent) /\ memo'.after = Written(current.of)
        /\ before'[current] = content
    BY <1>t, <2>1 DEF TypeOK, Record
  <2>3. content # Absent => snapshot'[current] = content
    BY <1>t, <2>1 DEF TypeOK
  <2>4. Undoable(memo', snapshot'[current], before'[current])
    BY <2>2, <2>3 DEF Undoable
  <2>5. QED
    BY <2>1, <2>2, <2>4 DEF TaskInv, Holding, Reverting, Ending
<1>5. CASE PatchApply
  <2>1. /\ current.of \in Proposals /\ Applies(current.of, content)
        /\ content' = Patched(current.of, content) /\ phase = "git_apply" /\ phase' = "hash"
        /\ UNCHANGED <<current, memo, snapshot, before>>
    BY <1>5, ChangeCurrent DEF PatchApply, Resting, diskVars, ghostVars
  <2>2. Base[current.of] # "none" => content'.rest = content.rest
    BY <1>t, <2>1 DEF Patched, TypeOK, Content
  <2>3. Left(current, content', before[current]) /\ Undoable(memo, snapshot[current], before[current])
    BY <1>t, <2>1, <2>2 DEF TaskInv, Left
  <2>4. QED
    BY <2>1, <2>3 DEF TaskInv, Holding, Reverting, Ending
<1>6. CASE PatchHash
  <2>1. /\ memo' = [memo EXCEPT !.after = content] /\ phase = "hash" /\ phase' = "post"
        /\ UNCHANGED <<current, snapshot, before>>
    BY <1>6 DEF PatchHash, diskVars, ghostVars
  <2>2. memo'.after = content /\ memo'.existed = memo.existed
    BY <1>t, <2>1 DEF TypeOK, Record
  <2>3. Held'
    BY <1>t, <2>1, <2>2 DEF TaskInv, KindInv, Held, Faithful, Undoable, KindOf
  <2>4. QED
    BY <2>1, <2>3 DEF TaskInv, Ending
<1>7. CASE Validated
  <2>1. phase = "validate" /\ phase' = "post" /\ UNCHANGED <<memo, current, snapshot, before>>
    BY <1>7 DEF Validated, Continue, diskVars, ghostVars
  <2>2. Held
    BY <1>t, <2>1 DEF TaskInv, KindInv, Held, Faithful
  <2>3. QED
    BY <1>2, <2>1, <2>2
<1>8. CASE CommandRan
  <2>1. phase = "command" /\ phase' = "post" /\ UNCHANGED <<memo, current, snapshot, before>>
    BY <1>8 DEF CommandRan, Continue, diskVars, ghostVars
  <2>2. Held
    BY <2>1 DEF KindInv, Held, Faithful
  <2>3. QED
    BY <1>2, <2>1, <2>2
<1>9. CASE PostPassed \/ AutoRollback \/ FileRevert \/ PatchDriftCheck \/ PatchReverse
           \/ PatchReverseForced \/ SnapshotRestore \/ CommandUndone
  <2>1. /\ phase \in Holding /\ phase' \in Holding
        /\ UNCHANGED <<memo, current, snapshot, before>>
    BY <1>9 DEF PostPassed, AutoRollback, FileRevert, PatchDriftCheck, PatchReverse,
       PatchReverseForced, SnapshotRestore, CommandUndone, Continue, Reverted, diskVars,
       ghostVars, Holding, Reverting
  <2>2. Held
    BY <1>t, <2>1 DEF TaskInv
  <2>3. QED
    BY <1>2, <2>1, <2>2 DEF Holding, Reverting
<1>10. CASE Healthy
  <2>1. phase \in Holding /\ Conclude("applied")
    BY <1>10 DEF Healthy, Holding
  <2>2. Held
    BY <1>t, <2>1 DEF TaskInv
  <2>3. QED
    BY <1>2, <1>t, <2>1, <2>2, Concluding
<1>11. CASE RestoreThrows \/ StageFails
  <2>1. GiveUp /\ task = "apply"
    BY <1>t, <1>11 DEF RestoreThrows, StageFails, PhaseInv, Applying
  <2>2. phase' = "finish" /\ memo'.status = "failed"
    BY <1>t, <2>1, Concluding, Giving
  <2>3. QED
    BY <1>1, <2>2 DEF Holding, Reverting, Ending
<1>12. CASE ValidationFailed
  <2>1. Conclude("failed")
    BY <1>12 DEF ValidationFailed
  <2>2. phase' = "finish" /\ memo'.status = "failed"
    BY <1>t, <2>1, Concluding
  <2>3. QED
    BY <1>1, <2>2 DEF Holding, Reverting, Ending
<1>13. CASE FileRevertFails \/ PatchDrifted \/ PatchReverseConflict \/ SnapshotMissing \/ CommandNotUndone
  <2>1. phase \in Holding /\ GiveUp
    BY <1>13 DEF FileRevertFails, PatchDrifted, PatchReverseConflict, SnapshotMissing, CommandNotUndone,
       Holding, Reverting
  <2>2. Held
    BY <1>t, <2>1 DEF TaskInv
  <2>3. PICK status : Conclude(status)
    BY <1>t, <2>1, Giving
  <2>4. QED
    BY <1>2, <1>t, <2>2, <2>3, Concluding
<1>14. CASE PostAgain
  <2>1. PICK status : Conclude(status) /\ status \in {"auto_rolled_back", "rolled_back"}
    BY <1>14 DEF PostAgain
  <2>2. phase' = "finish" /\ memo'.status # "applied"
    BY <1>t, <2>1, Concluding
  <2>3. QED
    BY <1>1, <2>2 DEF Holding, Reverting, Ending
<1>15. CASE WriteResult
  <2>1. /\ phase = "finish" /\ phase' = "journal"
        /\ UNCHANGED <<current, memo, snapshot, before>>
    BY <1>15 DEF WriteResult, ghostVars
  <2>2. QED
    BY <1>t, <1>1, <1>2, <2>1 DEF TaskInv, Ending, Holding, Reverting
<1>16. CASE \E c \in Change, f \in BOOLEAN : StartRollback(c, f)
  <2>1. PICK c \in Change : /\ record[c].status = "applied" /\ current' = c /\ memo' = record[c]
                            /\ phase' = "revert" /\ UNCHANGED <<snapshot, before>>
    BY <1>16 DEF StartRollback
  <2>2. Held'
    BY <1>t, <2>1 DEF FaithfulRecords, Held
  <2>3. QED
    BY <2>1, <2>2 DEF TaskInv, Ending
<1>17. CASE \/ (\E p \in Proposals : StartApply(p)) \/ WriteRunning \/ ApplyDone \/ PruneStops \/ RollbackDone
            \/ AppendFails \/ WriteFails \/ Crash \/ Restart \/ RecoverJournal \/ Recovered
            \/ (\E c \in Change : RecoverRecord(c))
  <2>1. phase' \in Resting \cup {"start", "begin", "report"}
    BY <1>17 DEF StartApply, WriteRunning, ApplyDone, PruneStops, RollbackDone, AppendFails, WriteFails,
       Crash, Restart, RecoverJournal, Recovered, RecoverRecord, Drop, Continue, Resting
  <2>2. QED
    BY <1>1, <2>1 DEF Resting, Holding, Reverting, Ending
<1>18. CASE JournalStart
  <2>1. phase' \in {"file", "patch", "command"}
    BY <1>18, ChangeCurrent DEF JournalStart, Resting
  <2>2. QED
    BY <1>1, <2>1 DEF Holding, Reverting, Ending
<1>19. CASE Tick \/ UNCHANGED vars
  BY <1>t, <1>19 DEF Tick, vars, opVars, diskVars, ghostVars, TaskInv, Held
<1>20. CASE Edit
  <2>1. UNCHANGED <<phase, current, memo, snapshot, before>>
    BY <1>20 DEF Edit, opVars, diskVars
  <2>2. content'.rest \in {content.rest, "alien", "none"}
    BY <1>t, <1>20 DEF Edit, TypeOK, Content, Absent
  <2>3. Left(current, content, before[current]) => Left(current, content', before[current])
    BY <2>2 DEF Left
  <2>4. QED
    BY <1>t, <2>1, <2>3 DEF TaskInv, Held
<1>21. QED
  BY <1>3, <1>4, <1>5, <1>6, <1>7, <1>8, <1>9, <1>10, <1>11, <1>12, <1>13, <1>14, <1>15,
     <1>16, <1>17, <1>18, <1>19, <1>20 DEF Next, BrokerStep, Stage, Revert

LEMMA FaithfulAlways == Spec => []FaithfulInv
<1>1. Init => FaithfulInv
  BY DEF Init, FaithfulInv, TaskInv, FaithfulRecords, Holding, Reverting, Ending, NoRecord
<1>2. TypeInv /\ KindInv /\ RunningInv /\ FaithfulInv /\ [Next]_vars => FaithfulInv'
  BY NextTaskInv, NextFaithfulRecords DEF FaithfulInv
<1>3. QED
  BY <1>1, <1>2, Typed, Kinds, RunningAlways, PTL DEF Spec

-----------------------------------------------------------------------------
(* Putting back.                                                           *)

LEMMA SavedIsBefore ==
  ASSUME Undoable(memo, snapshot[current], before[current]), HasCopy
  PROVE  Saved(current) = before[current]
  BY DEF Undoable, Saved, HasCopy

LEMMA Unpatching ==
  ASSUME NEW p \in Proposals, NEW c \in Content, Applies(p, c)
  PROVE  Unpatched(p, Patched(p, c)) = c
  BY DEF Applies, Patched, Unpatched, Content

LEMMA WrittenIsThere == \A p \in Proposals : Written(p) # Absent
  BY NotMarks DEF Written, Absent

Restorable == Held /\ HasCopy /\ KindOf(current) # "command"

LEMMA RestorableSaved == Restorable => Saved(current) = before[current]
  BY SavedIsBefore DEF Restorable, Held, Faithful

-----------------------------------------------------------------------------
(* An apply nobody interferes with: up to its stage the file is as it was  *)
(* found, then as the change makes it, and after a revert as found again.  *)

Did == IF KindOf(current) = "file" THEN Written(current.of)
       ELSE Patched(current.of, before[current])
Untouched == {"begin", "file", "patch", "git_apply", "repost"}
Changed   == {"validate", "hash", "post", "health", "revert", "reverse", "restore"}
Alone(t) == task = t /\ ~touched /\ KindOf(current) # "command"

ApplyInv ==
  Alone("apply") =>
    /\ phase \in Untouched => content = before[current]
    /\ phase \in Changed => content = Did
    /\ phase = "finish" /\ memo.status # "applied" => content = before[current]

(* Nothing in it can fail to restore the file, nor find it drifted.        *)
LEMMA NothingInTheWay ==
  ASSUME TypeInv, SnapshotInv, ApplyInv, Alone("apply"), KindOf(current) = "file",
         phase \in Changed
  PROVE  CanRestore
<1>1. current.of \in Proposals
  BY ChangeCurrent DEF Changed, Resting
<1>2. QED
  BY <1>1, WrittenIsThere DEF ApplyInv, Did, CanRestore, HasCopy, SnapshotInv, Alone

LEMMA NextApplyInv ==
  ASSUME TypeInv, KindInv, RunningInv, SnapshotInv, FaithfulInv, ApplyInv, [Next]_vars
  PROVE  ApplyInv'
<1> SUFFICES ASSUME Alone("apply")'
             PROVE  /\ phase' \in Untouched => content' = before'[current']
                    /\ phase' \in Changed => content' = Did'
                    /\ phase' = "finish" /\ memo'.status # "applied" => content' = before'[current']
  BY DEF ApplyInv
<1>t. TypeOK /\ PhaseInv /\ TaskInv
  BY DEF TypeInv, FaithfulInv
<1>a. task' = "apply" /\ ~touched' /\ KindOf(current)' # "command"
  BY DEF Alone
<1>1. CASE UNCHANGED <<task, current, touched, content, before>>
           /\ \/ phase \in Untouched /\ phase' \in Untouched
              \/ phase \in Changed /\ phase' \in Changed
              \/ phase \in Untouched /\ phase' = "finish"
  BY <1>1 DEF ApplyInv, Alone, Untouched, Changed, Did, KindOf
<1>2. CASE WriteRunning
  <2>1. /\ current \in Change /\ before' = [before EXCEPT ![current] = content]
        /\ phase' = "begin" /\ UNCHANGED <<content, current>>
    BY <1>2, ChangeCurrent DEF WriteRunning, Resting
  <2>2. before'[current] = content
    BY <1>t, <2>1 DEF TypeOK
  <2>3. QED
    BY <2>1, <2>2 DEF Changed
<1>3. CASE JournalStart
  <2>1. phase' \in {"file", "patch", "command"} /\ phase' = KindOf(current)
    BY <1>3, ChangeCurrent DEF JournalStart, Resting
  <2>2. phase = "begin" /\ UNCHANGED <<task, current, touched, content, before>>
    BY <1>3 DEF JournalStart, ghostVars
  <2>3. QED
    BY <1>1, <1>a, <2>1, <2>2 DEF Untouched, KindOf
<1>4. CASE PatchSnapshot
  <2>1. /\ current \in Change /\ before' = [before EXCEPT ![current] = content]
        /\ phase' = "git_apply" /\ UNCHANGED <<content, current>>
    BY <1>4, ChangeCurrent DEF PatchSnapshot, Resting
  <2>2. before'[current] = content
    BY <1>t, <2>1 DEF TypeOK
  <2>3. QED
    BY <2>1, <2>2 DEF Changed
<1>5. CASE PatchApply
  <2>1. /\ content' = Patched(current.of, content) /\ phase = "git_apply" /\ phase' = "hash"
        /\ UNCHANGED <<task, current, touched, before>>
    BY <1>5 DEF PatchApply, ghostVars
  <2>2. content = before[current] /\ KindOf(current) = "patch"
    BY <1>a, <2>1 DEF ApplyInv, Alone, Untouched, KindInv, KindOf
  <2>3. content' = Did'
    BY <2>1, <2>2 DEF Did, KindOf
  <2>4. QED
    BY <2>1, <2>3 DEF Untouched
<1>6. CASE FileWrite
  <2>1. content' = Written(current.of) /\ phase' = "validate" /\ current' = current
    BY <1>6 DEF FileWrite
  <2>2. KindOf(current)' = "file"
    BY <1>6, <2>1 DEF FileWrite, KindInv, KindOf
  <2>3. QED
    BY <2>1, <2>2 DEF Untouched, Did
<1>7. CASE PatchHash \/ Validated \/ PostPassed \/ AutoRollback \/ PatchDriftCheck
           \/ PatchReverseForced
  BY <1>1, <1>7 DEF PatchHash, Validated, PostPassed, AutoRollback, PatchDriftCheck,
     PatchReverseForced, Continue, diskVars, ghostVars, Changed
<1>8. CASE ValidationFailed
  <2>1. /\ content' = Saved(current) /\ phase = "validate" /\ phase' = "finish"
        /\ HasCopy /\ UNCHANGED <<current, before>>
    BY <1>8, <1>t, Concluding DEF ValidationFailed, CanRestore
  <2>2. QED
    BY <1>t, <2>1, SavedIsBefore DEF TaskInv, Untouched, Changed
<1>9. CASE RestoreThrows
  <2>1. phase = "validate" /\ UNCHANGED <<task, touched, current>> /\ ~CanRestore
    BY <1>9, <1>t, Giving, Concluding DEF RestoreThrows
  <2>2. Alone("apply") /\ KindOf(current) = "file"
    BY <1>a, <2>1 DEF Alone, KindInv, KindOf
  <2>3. QED
    BY <2>1, <2>2, NothingInTheWay DEF Changed
<1>10. CASE CommandRan \/ CommandUndone \/ CommandNotUndone
  <2>1. KindOf(current) = "command" /\ current' = current
    BY <1>10, <1>t, Giving, Concluding DEF CommandRan, CommandUndone, CommandNotUndone, Continue, KindInv
  <2>2. QED
    BY <1>a, <2>1 DEF KindOf
<1>11. CASE StageFails
  <2>1. UNCHANGED <<task, current, touched, content, before>> /\ phase' = "finish"
    BY <1>11, <1>t, Giving, Concluding DEF StageFails
  <2>2. phase \in {"patch", "git_apply", "file", "command"} /\ phase # "command"
    BY <1>11, <1>a, <2>1 DEF StageFails, KindInv, KindOf
  <2>3. QED
    BY <1>1, <2>1, <2>2 DEF Untouched
<1>12. CASE Healthy
  <2>1. phase' = "finish" /\ memo'.status = "applied"
    BY <1>12, <1>t, Concluding DEF Healthy
  <2>2. QED
    BY <2>1 DEF Untouched, Changed
<1>13. CASE FileRevert \/ SnapshotRestore
  <2>1. /\ content' = Saved(current) /\ phase \in Reverting /\ phase' = "repost"
        /\ HasCopy /\ UNCHANGED <<current, before>>
    BY <1>13 DEF FileRevert, SnapshotRestore, CanRestore, Reverted, Reverting, ghostVars
  <2>2. Restorable
    BY <1>t, <1>a, <2>1 DEF TaskInv, Holding, Restorable, KindOf
  <2>3. QED
    BY <2>1, <2>2, RestorableSaved DEF Changed
<1>14. CASE FileRevertFails
  <2>1. phase = "revert" /\ KindOf(current) = "file" /\ UNCHANGED <<task, touched, current>>
    BY <1>14, <1>t, Giving, Concluding DEF FileRevertFails
  <2>2. ~CanRestore /\ Alone("apply")
    BY <1>14, <1>a, <2>1 DEF FileRevertFails, KindInv, Reverting, Alone
  <2>3. QED
    BY <2>1, <2>2, NothingInTheWay DEF Changed
<1>15. CASE PatchDrifted \/ PatchReverseConflict
  <2>1. phase \in Reverting /\ ~force /\ task' = task
    BY <1>15, <1>t, Giving, Concluding DEF PatchDrifted, PatchReverseConflict, Reverting
  <2>2. QED
    BY <1>a, <2>1 DEF KindInv
<1>15a. CASE SnapshotMissing
  <2>1. ~HasCopy /\ task' = task
    BY <1>15a, <1>t, Giving, Concluding DEF SnapshotMissing
  <2>2. QED
    BY <1>a, <2>1 DEF SnapshotInv, HasCopy
<1>16. CASE PatchReverse
  <2>1. /\ phase = "reverse" /\ phase' = "repost" /\ current.of \in Proposals /\ current \in Change
        /\ content' = Unpatched(current.of, content) /\ UNCHANGED <<task, touched, current, before>>
    BY <1>16, ChangeCurrent DEF PatchReverse, Reverted, ghostVars, Resting
  <2>2. KindOf(current) = "patch" /\ Held
    BY <1>t, <2>1 DEF KindInv, TaskInv, Holding, Reverting
  <2>3. content = Patched(current.of, before[current])
    BY <1>a, <2>1, <2>2 DEF ApplyInv, Alone, Changed, Did, KindOf
  <2>4. Applies(current.of, before[current]) /\ before[current] \in Content
    BY <1>t, <2>1, <2>2 DEF Held, Faithful, Left, TypeOK
  <2>5. content' = before[current]
    BY <2>1, <2>3, <2>4, Unpatching
  <2>6. QED
    BY <2>1, <2>5 DEF Changed
<1>17. CASE PostAgain
  <2>1. phase = "repost" /\ phase' = "finish" /\ UNCHANGED <<task, current, touched, content, before>>
    BY <1>17, <1>t, Concluding DEF PostAgain
  <2>2. QED
    BY <1>1, <2>1 DEF Untouched
<1>18. CASE WriteResult \/ (\E p \in Proposals : StartApply(p))
  BY <1>18 DEF WriteResult, StartApply, Untouched, Changed
<1>19. CASE (\E c \in Change, f \in BOOLEAN : StartRollback(c, f)) \/ ApplyDone \/ PruneStops \/ RollbackDone
            \/ AppendFails \/ WriteFails \/ Crash
  BY <1>a, <1>19 DEF StartRollback, ApplyDone, PruneStops, RollbackDone, AppendFails, WriteFails, Crash, Drop
<1>20. CASE Restart \/ (\E c \in Change : RecoverRecord(c)) \/ RecoverJournal \/ Recovered \/ Tick
  <2>1. task' = "none"
    BY <1>t, <1>20 DEF Restart, RecoverRecord, RecoverJournal, Recovered, Tick, Continue,
       PhaseInv, Resting, opVars
  <2>2. QED
    BY <1>a, <2>1
<1>21. CASE Edit
  BY <1>a, <1>21 DEF Edit, opVars
<1>22. CASE UNCHANGED vars
  BY <1>22 DEF vars, opVars, diskVars, ghostVars, ApplyInv, Alone, Did, KindOf
<1>23. QED
  BY <1>2, <1>3, <1>4, <1>5, <1>6, <1>7, <1>8, <1>9, <1>10, <1>11, <1>12, <1>13, <1>14, <1>15, <1>15a,
     <1>16, <1>17, <1>18, <1>19, <1>20, <1>21, <1>22 DEF Next, BrokerStep, Stage, Revert

(* A failed apply leaves nothing behind: whatever stage or check failed,   *)
(* the file is as the apply found it unless somebody else wrote it         *)
(* meanwhile, for changes of every kind that replace a file.               *)
THEOREM FailedAppliesAreUndone == Spec => []UndoneIsUndone
<1>1. Init => ApplyInv
  BY DEF Init, ApplyInv, Alone
<1>2. ApplyInv => UndoneIsUndone
  BY DEF ApplyInv, Alone, UndoneIsUndone
<1>3. QED
  BY <1>1, <1>2, NextApplyInv, Typed, Kinds, RunningAlways, SnapshotAlways, FaithfulAlways, PTL DEF Spec

-----------------------------------------------------------------------------
(* A rollback.  One that was not forced finds the file as the apply left   *)
(* it, and reversing a patch takes out its hunk and nothing else.          *)

Exact ==
  LET was == before[current] IN
  \/ content = was
  \/ /\ content.hunk = was.hunk
     /\ content.rest # current.of
     /\ force \/ content.rest = "alien"

RollbackInv ==
  Alone("rollback") =>
    /\ phase = "reverse" /\ ~force => content = memo.after
    /\ phase = "repost" => Exact
    /\ phase = "finish" /\ memo.status = "rolled_back" => Exact

(* What git apply -R leaves of a file that the patch was applied to.       *)
LEMMA ReverseIsExact ==
  ASSUME TypeInv, KindInv, SoundInv, FaithfulInv, PatchReverse,
         force \/ content = memo.after
  PROVE  Exact'
<1>t. TypeOK /\ TaskInv
  BY DEF TypeInv, FaithfulInv
<1> DEFINE p == current.of  was == before[current]
<1>1. /\ phase = "reverse" /\ current \in Change /\ p \in Proposals
      /\ content' = Unpatched(p, content) /\ Reverses(p, content)
      /\ UNCHANGED <<current, before, force>>
  BY ChangeCurrent DEF PatchReverse, Reverted, ghostVars, Resting
<1>2. Kind[p] = "patch" /\ Left(current, memo.after, was)
  BY <1>t, <1>1 DEF KindInv, KindOf, TaskInv, Holding, Reverting, Held, Faithful
<1>3. content \in Content /\ was \in Content
  BY <1>t, <1>1 DEF TypeOK
<1>4. CASE Base[p] = "none"
  <2>1. content' = was
    BY <1>1, <1>2, <1>4 DEF Left, Applies, Unpatched
  <2>2. QED
    BY <1>1, <2>1 DEF Exact
<1>5. CASE Base[p] # "none"
  <2>1. content.hunk = p /\ was # Absent /\ was.hunk = Base[p]
    BY <1>1, <1>2, <1>5 DEF Reverses, Left, Applies
  <2>2. content' = [content EXCEPT !.hunk = Base[p]]
    BY <1>1, <1>5 DEF Unpatched
  <2>3. content'.hunk = was.hunk /\ content'.rest = content.rest
    BY <1>3, <2>1, <2>2 DEF Content
  <2>4. content.rest # "none" /\ content.rest # p
    BY <1>1, <1>2, <1>5, <2>1, NotMarks DEF SoundInv, Sound
  <2>5. CASE force
    BY <1>1, <2>3, <2>4, <2>5 DEF Exact
  <2>6. CASE content = memo.after
    <3>1. content.rest \in {was.rest, "alien"}
      BY <1>2, <1>5, <2>4, <2>6 DEF Left
    <3>2. content.rest = was.rest => content' = was
      BY <1>3, <2>1, <2>2 DEF Content
    <3>3. QED
      BY <1>1, <2>3, <2>4, <3>1, <3>2 DEF Exact
  <2>7. QED
    BY <2>5, <2>6
<1>6. QED
  BY <1>4, <1>5

LEMMA NextRollbackInv ==
  ASSUME TypeInv, KindInv, SoundInv, FaithfulInv, RollbackInv, [Next]_vars
  PROVE  RollbackInv'
<1> SUFFICES ASSUME Alone("rollback")'
             PROVE  /\ phase' = "reverse" /\ ~force' => content' = memo'.after
                    /\ phase' = "repost" => Exact'
                    /\ phase' = "finish" /\ memo'.status = "rolled_back" => Exact'
  BY DEF RollbackInv
<1>t. TypeOK /\ PhaseInv /\ TaskInv
  BY DEF TypeInv, FaithfulInv
<1>a. task' = "rollback" /\ ~touched' /\ KindOf(current)' # "command"
  BY DEF Alone
<1>1. CASE FileRevert \/ SnapshotRestore
  <2>1. /\ content' = Saved(current) /\ phase \in Reverting /\ phase' = "repost"
        /\ HasCopy /\ UNCHANGED <<current, before>>
    BY <1>1 DEF FileRevert, SnapshotRestore, CanRestore, Reverted, Reverting, ghostVars
  <2>2. Restorable
    BY <1>t, <1>a, <2>1 DEF TaskInv, Holding, Restorable, KindOf
  <2>3. QED
    BY <2>1, <2>2, RestorableSaved DEF Exact
<1>2. CASE PatchDriftCheck
  BY <1>2 DEF PatchDriftCheck, Drifted, Continue
<1>3. CASE PatchReverse
  <2>1. phase = "reverse" /\ phase' = "repost" /\ UNCHANGED <<task, current, touched>>
    BY <1>3 DEF PatchReverse, Reverted, ghostVars
  <2>2. force \/ content = memo.after
    BY <1>a, <2>1 DEF RollbackInv, Alone, KindOf
  <2>3. QED
    BY <1>3, <2>1, <2>2, ReverseIsExact
<1>4. CASE CommandUndone
  BY <1>a, <1>4 DEF CommandUndone, Continue, KindOf
<1>5. CASE PostAgain
  <2>1. /\ phase = "repost" /\ phase' = "finish"
        /\ UNCHANGED <<task, current, touched, content, before, force>>
    BY <1>5, <1>t, Concluding DEF PostAgain
  <2>2. QED
    BY <1>a, <2>1 DEF RollbackInv, Alone, Exact, KindOf
<1>6. CASE FileRevertFails \/ PatchDrifted \/ PatchReverseConflict \/ SnapshotMissing \/ CommandNotUndone
           \/ RestoreThrows \/ StageFails
  <2>1. GiveUp
    BY <1>6 DEF FileRevertFails, PatchDrifted, PatchReverseConflict, SnapshotMissing, CommandNotUndone,
       RestoreThrows, StageFails
  <2>2. phase' = "finish" /\ memo'.status # "rolled_back"
    BY <1>t, <2>1, Giving, Concluding
  <2>3. QED
    BY <2>2
<1>7. CASE \/ (\E p \in Proposals : StartApply(p)) \/ ApplyDone \/ PruneStops \/ RollbackDone
           \/ AppendFails \/ WriteFails \/ Crash
  BY <1>a, <1>7 DEF StartApply, ApplyDone, PruneStops, RollbackDone, AppendFails, WriteFails, Crash, Drop
<1>8. CASE Restart \/ (\E c \in Change : RecoverRecord(c)) \/ RecoverJournal \/ Recovered \/ Tick
  <2>1. task' = "none"
    BY <1>t, <1>8 DEF Restart, RecoverRecord, RecoverJournal, Recovered, Tick, Continue,
       PhaseInv, Resting, opVars
  <2>2. QED
    BY <1>a, <2>1
<1>9. CASE WriteRunning \/ JournalStart \/ PatchSnapshot \/ PatchApply \/ PatchHash \/ FileWrite
           \/ Validated \/ ValidationFailed \/ CommandRan \/ PostPassed \/ Healthy \/ AutoRollback
  <2>1. phase \in Applying /\ task' = task
    BY <1>t, <1>9, Concluding DEF WriteRunning, JournalStart, PatchSnapshot, PatchApply, PatchHash,
       FileWrite, Validated, ValidationFailed, CommandRan, PostPassed, Healthy, AutoRollback,
       Continue, Applying
  <2>2. QED
    BY <1>t, <1>a, <2>1 DEF PhaseInv
<1>10. CASE PatchReverseForced \/ WriteResult \/ \E c \in Change, f \in BOOLEAN : StartRollback(c, f)
  BY <1>10 DEF PatchReverseForced, Continue, WriteResult, StartRollback
<1>11. CASE Edit
  BY <1>a, <1>11 DEF Edit, opVars
<1>12. CASE UNCHANGED vars
  BY <1>12 DEF vars, opVars, diskVars, ghostVars, RollbackInv, Alone, Exact, KindOf
<1>13. QED
  BY <1>1, <1>2, <1>3, <1>4, <1>5, <1>6, <1>7, <1>8, <1>9, <1>10, <1>11, <1>12
     DEF Next, BrokerStep, Stage, Revert

(* A rollback that reports success has brought the file back: exactly, or  *)
(* with nothing of the change in it and the rest somebody else's, another  *)
(* change's only if the operator forced it; through stacked changes,       *)
(* pruning, crashes and whatever edits came before.                        *)
THEOREM RollbacksAreExact == Spec => []RollbackExact
<1>1. Init => RollbackInv
  BY DEF Init, RollbackInv, Alone
<1>2. RollbackInv => RollbackExact
  BY DEF RollbackInv, Alone, RollbackExact, Exact
<1>3. QED
  BY <1>1, <1>2, NextRollbackInv, Typed, Kinds, SoundAlways, FaithfulAlways, PTL DEF Spec

-----------------------------------------------------------------------------
(* What a rollback may take away.                                          *)

LEMMA NothingForeign ==
  \A p \in Proposals : AlienParts(Written(p)) = {} /\ Written(p) # Absent
  BY NotMarks, WrittenIsThere DEF AlienParts, Written

LEMMA SurvivesStep ==
  ASSUME TypeInv, KindInv, FaithfulInv, [Next]_vars, content' # content,
         task = "rollback", ~force, used'.edits = used.edits
  PROVE  AlienParts(content) \subseteq AlienParts(content') /\ content # Absent
<1>t. TypeOK /\ PhaseInv /\ TaskInv
  BY DEF TypeInv, FaithfulInv
<1>1. ~Edit
  <2>1. ASSUME Edit PROVE FALSE
    <3>1. used'["edits"] = used["edits"] + 1 /\ used["edits"] \in Nat
      BY <1>t, <2>1, SpendTyped DEF Edit, TypeOK
    <3>2. QED
      BY <3>1
  <2>2. QED
    BY <2>1
<1>2. CASE PatchApply \/ FileWrite \/ ValidationFailed
  BY <1>t, <1>2 DEF PatchApply, FileWrite, ValidationFailed, PhaseInv, Applying
<1>3. CASE FileRevert
  <2>1. /\ content = memo.after /\ phase = "revert" /\ KindOf(current) = "file"
        /\ current.of \in Proposals
    BY <1>3, ChangeCurrent DEF FileRevert, Drifted, Resting
  <2>2. memo.after = Written(current.of)
    BY <1>t, <2>1 DEF TaskInv, Holding, Reverting, Held, Faithful
  <2>3. QED
    BY <2>1, <2>2, NothingForeign
<1>4. CASE PatchReverse
  <2>1. /\ current.of \in Proposals /\ content' = Unpatched(current.of, content)
        /\ Reverses(current.of, content) /\ content \in Content
    BY <1>t, <1>4, ChangeCurrent DEF PatchReverse, Reverted, TypeOK, Resting
  <2>2. CASE Base[current.of] = "none"
    BY <2>1, <2>2, NothingForeign DEF Reverses
  <2>3. CASE Base[current.of] # "none"
    <3>1. content # Absent /\ content.hunk = current.of /\ content.hunk # "alien"
      BY <2>1, <2>3, NotMarks DEF Reverses
    <3>2. content'.rest = content.rest
      BY <2>1, <2>3 DEF Unpatched, Content
    <3>3. QED
      BY <3>1, <3>2 DEF AlienParts
  <2>4. QED
    BY <2>2, <2>3
<1>5. CASE SnapshotRestore
  BY <1>5 DEF SnapshotRestore, KindInv
<1>6. QED
  BY <1>1, <1>2, <1>3, <1>4, <1>5, ContentSteps

(* No rollback the operator did not force takes away what somebody else    *)
(* wrote into the file, nor brings back a file somebody deleted, whenever  *)
(* they did it.                                                            *)
THEOREM ForeignEditsKept == Spec => ForeignEditsSurvive
<1>1. TypeInv /\ KindInv /\ FaithfulInv /\ [Next]_vars =>
        [task = "rollback" /\ ~force /\ used'.edits = used.edits =>
           /\ AlienParts(content) \subseteq AlienParts(content')
           /\ content # Absent]_content
  BY SurvivesStep
<1>2. QED
  BY <1>1, Typed, Kinds, FaithfulAlways, PTL DEF Spec, ForeignEditsSurvive

-----------------------------------------------------------------------------
(* Outcomes.  What a task may end with, and what its record says until     *)
(* then.                                                                   *)

Outcome == {"applied", "failed", "auto_rolled_back"}
OutcomeInv ==
  /\ task = "apply" /\ phase \in Ending => memo.status \in Outcome
  /\ task = "rollback" /\ phase \in Ending => memo.status \in {"applied", "rolled_back"}
  /\ task = "rollback" /\ phase # "journal" => record[current].status = "applied"

LEMMA NextOutcomeInv == TypeInv /\ OutcomeInv /\ [Next]_vars => OutcomeInv'
<1> SUFFICES ASSUME TypeInv, OutcomeInv, [Next]_vars PROVE OutcomeInv'
  OBVIOUS
<1>t. TypeOK /\ PhaseInv
  BY DEF TypeInv
<1>1. CASE UNCHANGED <<task, current, record>> /\ phase # "journal" /\ phase' \notin Ending
  BY <1>1 DEF OutcomeInv
<1>2. ASSUME NEW status, Conclude(status), phase # "journal",
             task = "apply" => status \in Outcome,
             task = "rollback" => status \in {"applied", "rolled_back"}
      PROVE  OutcomeInv'
  <2>1. memo'.status = status /\ phase' = "finish" /\ UNCHANGED <<task, current, record>>
    BY <1>t, <1>2, Concluding
  <2>2. QED
    BY <1>2, <2>1 DEF OutcomeInv
<1>3. CASE GiveUp /\ phase # "journal"
  BY <1>t, <1>2, <1>3, Giving DEF Outcome
<1>4. CASE ValidationFailed \/ Healthy
  <2>1. task = "apply"
    BY <1>t, <1>4 DEF ValidationFailed, Healthy, PhaseInv, Applying
  <2>2. QED
    BY <1>2, <1>4, <2>1 DEF ValidationFailed, Healthy, Outcome
<1>5. CASE PostAgain
  BY <1>2, <1>5 DEF PostAgain, Outcome
<1>6. CASE WriteResult
  BY <1>6 DEF WriteResult, OutcomeInv, Ending
<1>7. CASE \/ PatchSnapshot \/ PatchApply \/ PatchHash \/ FileWrite \/ Validated \/ CommandRan
           \/ PostPassed \/ AutoRollback \/ FileRevert \/ PatchDriftCheck \/ PatchReverse
           \/ PatchReverseForced \/ SnapshotRestore \/ CommandUndone
  BY <1>1, <1>7 DEF PatchSnapshot, PatchApply, PatchHash, FileWrite, Validated, CommandRan,
     PostPassed, AutoRollback, FileRevert, PatchDriftCheck, PatchReverse, PatchReverseForced,
     SnapshotRestore, CommandUndone, Reverted, Continue, diskVars, Ending
<1>8. CASE RestoreThrows \/ StageFails \/ FileRevertFails \/ PatchDrifted
           \/ PatchReverseConflict \/ SnapshotMissing \/ CommandNotUndone
  BY <1>3, <1>8 DEF RestoreThrows, StageFails, FileRevertFails, PatchDrifted,
     PatchReverseConflict, SnapshotMissing, CommandNotUndone
<1>9. CASE JournalStart \/ WriteRunning
  <2>1. phase' \notin Ending /\ task' = "apply"
    BY <1>t, <1>9, ChangeCurrent DEF JournalStart, WriteRunning, PhaseInv, Applying, Ending, Resting
  <2>2. QED
    BY <2>1 DEF OutcomeInv
<1>10. CASE (\E p \in Proposals : StartApply(p)) \/ \E c \in Change, f \in BOOLEAN : StartRollback(c, f)
  BY <1>10 DEF StartApply, StartRollback, OutcomeInv, Ending
<1>11. CASE ApplyDone \/ PruneStops \/ RollbackDone \/ AppendFails \/ WriteFails \/ Crash
  BY <1>11 DEF ApplyDone, PruneStops, RollbackDone, AppendFails, WriteFails, Crash, Drop, OutcomeInv
<1>12. CASE Restart \/ (\E c \in Change : RecoverRecord(c)) \/ RecoverJournal \/ Recovered
  <2>1. task' = "none"
    BY <1>t, <1>12 DEF Restart, RecoverRecord, RecoverJournal, Recovered, Continue, PhaseInv, Resting
  <2>2. QED
    BY <2>1 DEF OutcomeInv
<1>13. CASE Edit \/ Tick \/ UNCHANGED vars
  BY <1>13 DEF Edit, Tick, vars, opVars, diskVars, OutcomeInv
<1>14. QED
  BY <1>4, <1>5, <1>6, <1>7, <1>8, <1>9, <1>10, <1>11, <1>12, <1>13
     DEF Next, BrokerStep, Stage, Revert

LEMMA OutcomesAlways == Spec => []OutcomeInv
<1>1. Init => OutcomeInv
  BY DEF Init, OutcomeInv
<1>2. QED
  BY <1>1, NextOutcomeInv, Typed, PTL DEF Spec

-----------------------------------------------------------------------------
(* From here on no proposal is applied twice within a second, so that a    *)
(* change id names one apply: nothing is known of it when it starts.       *)

FreshInv ==
  /\ phase = "start" => record[current].status = "none"
  /\ phase \in {"start", "begin"} => About(current) = {}

LEMMA NextFreshInv ==
  ASSUME ~SameSecond, TypeInv, FreshInv, [Next]_vars
  PROVE  FreshInv'
<1>t. TypeOK /\ PhaseInv
  BY DEF TypeInv
<1>1. CASE phase' \notin {"start", "begin"}
  BY <1>1 DEF FreshInv
<1>2. CASE \E p \in Proposals : StartApply(p)
  <2>1. PICK p \in Proposals : StartApply(p)
    BY <1>2
  <2>2. Fresh(current') /\ UNCHANGED <<record, journal>>
    BY <2>1 DEF StartApply, diskVars
  <2>3. QED
    BY <2>2 DEF Fresh, About, FreshInv
<1>3. CASE WriteRunning
  BY <1>3 DEF WriteRunning, FreshInv, About
<1>4. CASE Edit \/ UNCHANGED vars
  BY <1>4 DEF Edit, vars, opVars, diskVars, FreshInv, About
<1>5. CASE \/ (\E c \in Change, f \in BOOLEAN : StartRollback(c, f)) \/ JournalStart \/ Stage
           \/ PostPassed \/ Healthy \/ AutoRollback \/ Revert \/ WriteResult \/ ApplyDone \/ PruneStops
           \/ RollbackDone \/ (\E c \in Change : RecoverRecord(c)) \/ RecoverJournal
           \/ Recovered \/ AppendFails \/ WriteFails \/ Crash \/ Restart \/ Tick
  <2>1. JournalStart => KindOf(current) \notin {"start", "begin"}
    BY ChangeCurrent DEF JournalStart, Resting
  <2>2. phase' \notin {"start", "begin"}
    BY <1>5, <2>1 DEF StartRollback, JournalStart, Stage, PatchSnapshot, PatchApply, PatchHash,
       FileWrite, Validated, ValidationFailed, RestoreThrows, CommandRan, StageFails,
       PostPassed, Healthy, AutoRollback, Revert, FileRevert, FileRevertFails,
       PatchDriftCheck, PatchDrifted, PatchReverse, PatchReverseConflict, SnapshotMissing,
       PatchReverseForced, SnapshotRestore, CommandUndone, CommandNotUndone, PostAgain,
       WriteResult, ApplyDone, PruneStops, RollbackDone, RecoverRecord, RecoverJournal, Recovered,
       AppendFails, WriteFails, Crash, Restart, Tick, Reverted, Continue, Conclude, GiveUp,
       Drop, opVars
  <2>3. QED
    BY <1>1, <2>2
<1>6. QED
  BY <1>2, <1>3, <1>4, <1>5 DEF Next, BrokerStep

LEMMA FreshAlways == ASSUME ~SameSecond PROVE Spec => []FreshInv
<1>1. Init => FreshInv
  BY DEF Init, FreshInv
<1>2. TypeInv /\ FreshInv /\ [Next]_vars => FreshInv'
  BY NextFreshInv
<1>3. QED
  BY <1>1, <1>2, Typed, PTL DEF Spec

-----------------------------------------------------------------------------
(* The journal against the records.  A line that ends a task has the       *)
(* outcome of one, and while a task or recovery has a record to change,    *)
(* no such line is the last about that change.                             *)

Done == {"apply_done", "rollback_done"}
LastAbout(i) == i \in DOMAIN journal /\ \A j \in About(journal[i].change) : j <= i
AheadInv ==
  \A i \in DOMAIN journal :
    journal[i].event \in Done =>
      /\ journal[i].note \in Final
      /\ LastAbout(i) => record[journal[i].change].status \in {journal[i].note, "none"}

LEMMA LastIsSettled ==
  ASSUME TypeInv, JournalInv, FreshInv, AheadInv,
         NEW i \in DOMAIN journal, LastAbout(i), journal[i].event \in Done
  PROVE  /\ phase \in {"start", "finish"} => journal[i].change # current
         /\ journal[i].change \notin Unfinished
<1>t. TypeOK
  BY DEF TypeInv
<1>1. CASE phase = "finish" /\ journal[i].change = current
  <2>1. Announced
    BY <1>1 DEF JournalInv, AnnouncedInv, Quiet, Resting
  <2>2. /\ Len(journal) \in DOMAIN journal /\ DOMAIN journal = 1..Len(journal)
        /\ Len(journal) \in Nat
    BY <1>t, <2>1 DEF Announced, TypeOK
  <2>3. Len(journal) \in About(current)
    BY <2>1, <2>2 DEF Announced, About
  <2>4. i = Len(journal)
    BY <1>1, <2>2, <2>3 DEF LastAbout
  <2>5. QED
    BY <2>1, <2>4 DEF Announced, Opening, Done
<1>2. CASE phase = "start" /\ journal[i].change = current
  BY <1>2 DEF FreshInv, About
<1>3. journal[i].change \notin Unfinished
  BY DEF AheadInv, Unfinished, Final
<1>4. QED
  BY <1>1, <1>2, <1>3

LEMMA RecordSettled ==
  ASSUME TypeInv, JournalInv, FreshInv, AheadInv, [Next]_vars,
         NEW i \in DOMAIN journal, LastAbout(i), journal[i].event \in Done
  PROVE  record'[journal[i].change] \in {record[journal[i].change], NoRecord}
<1> SUFFICES ASSUME NEW c, c = journal[i].change PROVE record'[c] \in {record[c], NoRecord}
  OBVIOUS
<1>t. TypeOK /\ c \in Change
  <2>1. TypeOK /\ journal \in Seq(Event)
    BY DEF TypeInv, TypeOK
  <2>2. journal[i] \in Event
    BY <2>1
  <2>3. QED
    BY <2>1, <2>2 DEF Event
<1>1. (phase \in {"start", "finish"} => c # current) /\ c \notin Unfinished
  BY LastIsSettled
<1>2. CASE record' = record
  BY <1>2
<1>3. CASE WriteRunning \/ WriteResult
  BY <1>t, <1>1, <1>3 DEF WriteRunning, WriteResult, TypeOK
<1>4. CASE Pruning
  BY <1>t, <1>4, PruningSteps
<1>5. CASE \E d \in Change : RecoverRecord(d)
  BY <1>t, <1>1, <1>5 DEF RecoverRecord, TypeOK
<1>6. CASE \E d \in Change : /\ record' = [record EXCEPT ![d] = Torn]
                             /\ (phase \in {"start", "finish"} /\ d = current) \/ d \in Unfinished
  <2>1. PICK d \in Change : /\ record' = [record EXCEPT ![d] = Torn]
                            /\ (phase \in {"start", "finish"} /\ d = current) \/ d \in Unfinished
    BY <1>6
  <2>2. c # d
    BY <1>1, <2>1
  <2>3. QED
    BY <1>t, <2>1, <2>2 DEF TypeOK
<1>7. QED
  BY <1>2, <1>3, <1>4, <1>5, <1>6, RecordSteps

(* A step writes at most one line; one that ends a task has the status     *)
(* the record was given before.                                            *)
LEMMA JournalSteps ==
  ASSUME TypeInv, [Next]_vars, journal' # journal
  PROVE  \E event, c, note :
           /\ Log(event, c, note)
           /\ event \in Done => /\ note \in Final
                                /\ record'[c].status \in {note, "none"}
<1>t. TypeOK /\ PhaseInv
  BY DEF TypeInv
<1>1. \/ JournalStart \/ Pruning \/ RollbackDone \/ RecoverJournal
      \/ \E c \in Change, f \in BOOLEAN : StartRollback(c, f)
  BY DEF Next, StartApply, BrokerStep, WriteRunning,
     Stage, PatchSnapshot, FileWrite, PatchApply, PatchHash, Validated,
     ValidationFailed, RestoreThrows, CommandRan, StageFails, PostPassed, Healthy,
     AutoRollback, Revert, FileRevert, FileRevertFails, PatchDriftCheck, PatchDrifted,
     PatchReverse, PatchReverseConflict, SnapshotMissing, PatchReverseForced, SnapshotRestore,
     CommandUndone, CommandNotUndone, PostAgain, WriteResult,
     RecoverRecord, Recovered, AppendFails, WriteFails, Crash, Restart,
     Edit, Tick, Reverted, Continue, Conclude, GiveUp, vars, diskVars, Pruning
<1>2. CASE Pruning \/ RollbackDone
  <2>1. phase = "journal" /\ record[current] = memo /\ memo.status \in Final /\ current \in Change
    BY <1>t, <1>2, PruningSteps, ChangeCurrent DEF RollbackDone, PhaseInv, Ending, Resting
  <2>2. record'[current] \in {record[current], NoRecord}
    BY <1>2, <2>1, PruningSteps DEF RollbackDone
  <2>3. record'[current].status \in {memo.status, "none"}
    BY <2>1, <2>2 DEF NoRecord
  <2>4. \E event : Log(event, current, memo.status)
    BY <1>2, PruningSteps DEF RollbackDone
  <2>5. QED
    BY <2>1, <2>3, <2>4
<1>3. CASE JournalStart
  <2>1. Log("apply_start", current, "running") /\ "apply_start" \notin Done
    BY <1>3 DEF JournalStart, Done
  <2>2. QED
    BY <2>1
<1>4. CASE RecoverJournal
  <2>1. Log("apply_interrupted", current, "interrupted") /\ "apply_interrupted" \notin Done
    BY <1>4 DEF RecoverJournal, Done
  <2>2. QED
    BY <2>1
<1>5. CASE \E c \in Change, f \in BOOLEAN : StartRollback(c, f)
  <2>1. \E c \in Change : Log("rollback_start", c, "applied") /\ "rollback_start" \notin Done
    BY <1>5 DEF StartRollback, Done
  <2>2. QED
    BY <2>1
<1>6. QED
  BY <1>1, <1>2, <1>3, <1>4, <1>5

LEMMA NextAheadInv ==
  ASSUME TypeInv, JournalInv, FreshInv, AheadInv, [Next]_vars
  PROVE  AheadInv'
<1>t. TypeOK
  BY DEF TypeInv
<1>a. ASSUME NEW i \in DOMAIN journal, journal[i].event \in Done
      PROVE  /\ journal[i].note \in Final
             /\ LastAbout(i) => record'[journal[i].change].status \in {journal[i].note, "none"}
  <2>1. journal[i].note \in Final
    BY <1>a DEF AheadInv
  <2>2. ASSUME LastAbout(i) PROVE record'[journal[i].change].status \in {journal[i].note, "none"}
    <3>1. record'[journal[i].change] \in {record[journal[i].change], NoRecord}
      BY <1>a, <2>2, RecordSettled
    <3>2. record[journal[i].change].status \in {journal[i].note, "none"}
      BY <1>a, <2>2 DEF AheadInv
    <3>3. NoRecord.status = "none"
      BY DEF NoRecord
    <3>4. QED
      BY <3>1, <3>2, <3>3
  <2>3. QED
    BY <2>1, <2>2
<1>1. CASE journal' = journal
  BY <1>a, <1>1 DEF AheadInv, LastAbout, About
<1>2. CASE journal' # journal
  <2>1. PICK event, c, note :
          /\ Log(event, c, note)
          /\ event \in Done => note \in Final /\ record'[c].status \in {note, "none"}
    BY <1>2, JournalSteps
  <2> DEFINE n == Len(journal)
  <2>2. /\ DOMAIN journal' = 1..(n + 1) /\ DOMAIN journal = 1..n /\ n \in Nat
        /\ \A j \in DOMAIN journal : journal'[j] = journal[j]
        /\ journal'[n + 1] = [event |-> event, change |-> c, note |-> note]
    BY <1>t, <2>1 DEF Log, TypeOK
  <2> HIDE DEF n
  <2>3. ASSUME NEW i \in DOMAIN journal', journal'[i].event \in Done
        PROVE  /\ journal'[i].note \in Final
               /\ LastAbout(i)' => record'[journal'[i].change].status \in {journal'[i].note, "none"}
    <3>1. CASE i = n + 1
      BY <2>1, <2>2, <2>3, <3>1
    <3>2. CASE i # n + 1
      <4>1. i \in DOMAIN journal /\ journal'[i] = journal[i]
        BY <2>2, <3>2
      <4>2. LastAbout(i)' => LastAbout(i)
        BY <2>2, <4>1 DEF LastAbout, About
      <4>3. QED
        BY <1>a, <2>3, <4>1, <4>2
    <3>3. QED
      BY <3>1, <3>2
  <2>4. QED
    BY <2>3 DEF AheadInv
<1>3. QED
  BY <1>1, <1>2

(* Where change ids are used once, the journal never claims an outcome     *)
(* that the record does not have, whichever of the two writes of a task    *)
(* fails, is torn or is cut off, and whatever recovery and pruning do.     *)
THEOREM JournalNotAhead == ASSUME ~SameSecond PROVE Spec => []JournalNeverAhead
<1>1. Init => AheadInv
  BY DEF Init, AheadInv
<1>2. AheadInv => JournalNeverAhead
  BY DEF AheadInv, JournalNeverAhead, LastAbout, Done
<1>3. Spec => []FreshInv
  BY FreshAlways
<1>4. QED
  BY <1>1, <1>2, <1>3, NextAheadInv, Typed, Journaled, PTL DEF Spec

-----------------------------------------------------------------------------
(* Statuses.                                                               *)

LEMMA StaysStep ==
  ASSUME TypeInv, RunningInv, OutcomeInv, FreshInv, [Next]_vars, NEW c \in Change,
         record[c].status = "applied", record'[c].status # "applied"
  PROVE  \/ task = "rollback" /\ current = c /\ record'[c].status \in {"rolled_back", "torn"}
         \/ record'[c].status = "none"
<1>t. TypeOK /\ PhaseInv
  BY DEF TypeInv
<1>1. record' # record
  OBVIOUS
<1>2. ASSUME phase = "finish", c = current PROVE task = "rollback"
  BY <1>t, <1>2 DEF PhaseInv, Resting, RunningInv, TypeOK
<1>3. CASE WriteRunning
  BY <1>t, <1>3 DEF WriteRunning, FreshInv, TypeOK
<1>4. CASE WriteResult
  <2>1. c = current /\ record'[c] = memo /\ phase = "finish"
    BY <1>t, <1>4 DEF WriteResult, TypeOK
  <2>2. task = "rollback" /\ memo.status \in {"applied", "rolled_back"}
    BY <1>2, <2>1 DEF OutcomeInv, Ending
  <2>3. QED
    BY <2>1, <2>2
<1>5. CASE Pruning
  BY <1>5, PruningSteps DEF NoRecord
<1>6. CASE \E d \in Change : RecoverRecord(d)
  BY <1>t, <1>6 DEF RecoverRecord, Unfinished, TypeOK
<1>7. CASE \E d \in Change : /\ record' = [record EXCEPT ![d] = Torn]
                             /\ (phase \in {"start", "finish"} /\ d = current) \/ d \in Unfinished
  <2>1. PICK d \in Change : /\ record' = [record EXCEPT ![d] = Torn]
                            /\ (phase \in {"start", "finish"} /\ d = current) \/ d \in Unfinished
    BY <1>7
  <2>2. c = d /\ record'[c].status = "torn"
    BY <1>t, <2>1 DEF TypeOK, Torn, NoRecord
  <2>3. phase = "finish" /\ c = current
    BY <2>1, <2>2 DEF Unfinished, FreshInv
  <2>4. QED
    BY <1>2, <2>2, <2>3
<1>8. QED
  BY <1>1, <1>3, <1>4, <1>5, <1>6, <1>7, RecordSteps

(* Where change ids are used once, a change that is applied stays applied  *)
(* until it is rolled back or pruned, through failing writes, crashes and  *)
(* recovery.                                                               *)
THEOREM AppliedForGood == ASSUME ~SameSecond PROVE Spec => AppliedStays
<1>1. TypeInv /\ RunningInv /\ OutcomeInv /\ FreshInv /\ [Next]_vars =>
        [\A c \in Change :
           record[c].status = "applied" /\ record'[c].status # "applied" =>
             \/ task = "rollback" /\ current = c /\ record'[c].status \in {"rolled_back", "torn"}
             \/ record'[c].status = "none"]_record
  BY StaysStep
<1>2. Spec => []FreshInv
  BY FreshAlways
<1>3. QED
  BY <1>1, <1>2, Typed, RunningAlways, OutcomesAlways, PTL DEF Spec, AppliedStays

-----------------------------------------------------------------------------
(* The executor implements its lifecycle: a step of the executor is one of *)
(* the lifecycle or changes neither a status nor the holder.               *)

Holder == IF task = "none" THEN Nobody ELSE current
Statuses == [c \in Change |-> record[c].status]

LEMMA HolderIsCurrent ==
  ASSUME TypeInv
  PROVE  /\ task # "none" => Holder = current /\ current \in Change
         /\ task = "none" => Holder = Nobody
  BY DEF TypeInv, PhaseInv, Resting, Holder

(* One record written changes one status.                                  *)
LEMMA OneStatus ==
  ASSUME TypeOK, NEW c \in Change, NEW r,
         record' = [record EXCEPT ![c] = r]
  PROVE  Statuses' = [Statuses EXCEPT ![c] = r.status]
<1>1. \A d \in Change : record'[d] = IF d = c THEN r ELSE record[d]
  BY DEF TypeOK
<1>2. /\ Statuses' = [d \in Change |-> record'[d].status]
      /\ DOMAIN Statuses = Change /\ \A d \in Change : Statuses[d] = record[d].status
  BY DEF Statuses
<1>3. [Statuses EXCEPT ![c] = r.status]
        = [d \in Change |-> IF d = c THEN r.status ELSE record[d].status]
  BY <1>2
<1>4. QED
  BY <1>1, <1>2, <1>3

(* The task lets go; whatever pruning forgets is not running in its hands. *)
LEMMA LettingGo ==
  ASSUME TypeInv, task' = "none",
         \A c \in Change : \/ record'[c].status = record[c].status
                           \/ /\ record'[c].status = "none"
                              /\ ~(c = Holder /\ record[c].status = "running")
  PROVE  Lifecycle!Release
<1> DEFINE old == {c \in Change : record'[c].status # record[c].status}
<1>1. old \in SUBSET {c \in Change : ~(c = Holder /\ Statuses[c] = "running")}
  BY DEF Statuses
<1>2. Statuses' = [c \in Change |-> IF c \in old THEN "none" ELSE Statuses[c]]
  BY DEF Statuses
<1>3. Holder' = Nobody
  BY DEF Holder
<1>4. QED
  BY <1>1, <1>2, <1>3 DEF Lifecycle!Release, Statuses, Holder

LEMMA TearingOne ==
  ASSUME TypeInv, task' = "none", NEW c \in Change, record' = [record EXCEPT ![c] = Torn],
         \/ phase \in {"start", "finish"} /\ c = current
         \/ task = "none" /\ c \in Unfinished
  PROVE  Lifecycle!Tear(c)
<1>1. Statuses' = [Statuses EXCEPT ![c] = "torn"]
  <2>1. Statuses' = [Statuses EXCEPT ![c] = Torn.status]
    BY OneStatus DEF TypeInv
  <2>2. QED
    BY <2>1 DEF Torn, NoRecord
<1>2. Holder = c \/ (Holder = Nobody /\ Statuses[c] = "running")
  BY HolderIsCurrent DEF TypeInv, PhaseInv, Resting, Unfinished, Statuses
<1>3. Holder' = Nobody
  BY DEF Holder
<1>4. QED
  BY <1>1, <1>2, <1>3 DEF Lifecycle!Tear, Statuses, Holder

LEMMA LifecycleStep ==
  ASSUME ~SameSecond, TypeInv, RunningInv, OutcomeInv, FreshInv, [Next]_vars
  PROVE  [Lifecycle!Next]_<<Statuses, Holder>>
<1>t. TypeOK /\ PhaseInv
  BY DEF TypeInv
<1>1. CASE UNCHANGED <<record, task, current>>
  BY <1>1 DEF Statuses, Holder
<1>2. CASE \E p \in Proposals : StartApply(p)
  <2>1. PICK p \in Proposals : StartApply(p)
    BY <1>2
  <2>2. /\ task = "none" /\ task' = "apply" /\ record' = record /\ record[current'].status = "none"
        /\ current' = [at |-> second, of |-> p]
    BY <1>t, <2>1 DEF StartApply, PhaseInv, Resting, Fresh, diskVars
  <2>3. current' \in Change
    BY <1>t, <2>2 DEF TypeOK, Change
  <2>4. Holder = Nobody /\ Holder' = current' /\ Statuses' = Statuses /\ Statuses[current'] = "none"
    BY <2>2, <2>3 DEF Holder, Statuses
  <2>5. \E c \in Change : Lifecycle!Acquire(c)
    BY <2>3, <2>4 DEF Lifecycle!Acquire, Statuses, Holder
  <2>6. QED
    BY <2>5 DEF Lifecycle!Next
<1>3. CASE \E c \in Change, f \in BOOLEAN : StartRollback(c, f)
  <2>1. PICK c \in Change, f \in BOOLEAN : StartRollback(c, f)
    BY <1>3
  <2>2. /\ task = "none" /\ task' = "rollback" /\ record' = record
        /\ record[c].status = "applied" /\ current' = c
    BY <1>t, <2>1 DEF StartRollback, PhaseInv, Resting
  <2>3. Holder = Nobody /\ Holder' = c /\ Statuses' = Statuses /\ Statuses[c] = "applied"
    BY <2>2 DEF Holder, Statuses
  <2>4. Lifecycle!Acquire(c)
    BY <2>3 DEF Lifecycle!Acquire, Statuses, Holder
  <2>5. QED
    BY <2>4 DEF Lifecycle!Next
<1>4. CASE WriteRunning
  <2>0. PICK c \in Change : c = current
    BY <1>4, ChangeCurrent DEF WriteRunning, Resting
  <2>1. /\ task = "apply" /\ UNCHANGED <<task, current>>
        /\ record' = [record EXCEPT ![c] = memo]
        /\ memo.status = "running" /\ record[c].status = "none"
    BY <1>t, <1>4, <2>0 DEF WriteRunning, PhaseInv, Applying, RunningInv, FreshInv
  <2>2. Statuses' = [Statuses EXCEPT ![c] = "running"] /\ Statuses[c] = "none"
    BY <1>t, <2>1, OneStatus DEF Statuses
  <2>3. Holder = c /\ Holder' = Holder
    BY <2>0, <2>1 DEF Holder
  <2>4. Lifecycle!Begin(c)
    BY <2>2, <2>3 DEF Lifecycle!Begin, Statuses, Holder
  <2>5. QED
    BY <2>4 DEF Lifecycle!Next
<1>5. CASE WriteResult
  <2>0. PICK c \in Change : c = current
    BY <1>5, ChangeCurrent DEF WriteResult, Resting
  <2>1. /\ phase = "finish" /\ task # "none" /\ UNCHANGED <<task, current>>
        /\ record' = [record EXCEPT ![c] = memo]
    BY <1>t, <1>5, <2>0 DEF WriteResult, PhaseInv, Resting
  <2>2. Statuses' = [Statuses EXCEPT ![c] = memo.status]
    BY <1>t, <2>1, OneStatus
  <2>3. Holder = c /\ Holder' = Holder
    BY <2>0, <2>1 DEF Holder
  <2>4. CASE task = "apply"
    <3>1. Statuses[c] = "running" /\ memo.status \in Outcome
      BY <2>0, <2>1, <2>4 DEF RunningInv, OutcomeInv, Ending, Statuses
    <3>2. Lifecycle!Finish(c)
      BY <2>2, <2>3, <3>1 DEF Lifecycle!Finish, Lifecycle!Outcome, Outcome, Statuses, Holder
    <3>3. QED
      BY <3>2 DEF Lifecycle!Next
  <2>5. CASE task = "rollback"
    <3>1. Statuses[c] = "applied" /\ memo.status \in {"applied", "rolled_back"}
      BY <2>0, <2>1, <2>5 DEF OutcomeInv, Ending, Statuses
    <3>2. CASE memo.status = "applied"
      <4>1. Statuses' = Statuses
        BY <2>2, <3>1, <3>2 DEF Statuses
      <4>2. QED
        BY <2>3, <4>1
    <3>3. CASE memo.status = "rolled_back"
      <4>1. Lifecycle!Undo(c)
        BY <2>2, <2>3, <3>1, <3>3 DEF Lifecycle!Undo, Statuses, Holder
      <4>2. QED
        BY <4>1 DEF Lifecycle!Next
    <3>4. QED
      BY <3>1, <3>2, <3>3
  <2>6. QED
    BY <1>t, <2>1, <2>4, <2>5 DEF TypeOK
<1>6. CASE Pruning
  <2>1. /\ task' = "none" /\ record[current] = memo /\ memo.status \in Final
        /\ \A c \in Change : record'[c] \in {record[c], NoRecord}
        /\ Holder = current
    BY <1>t, <1>6, PruningSteps DEF PhaseInv, Ending, Holder
  <2>2. record[current].status # "running" /\ NoRecord.status = "none"
    BY <2>1 DEF Final, NoRecord
  <2>3. Lifecycle!Release
    BY <2>1, <2>2, LettingGo
  <2>4. QED
    BY <2>3 DEF Lifecycle!Next
<1>7. CASE task' = "none" /\ record' = record
  BY <1>7, LettingGo DEF Lifecycle!Next
<1>8. CASE RollbackDone \/ AppendFails
  BY <1>7, <1>8 DEF RollbackDone, AppendFails, Drop, diskVars
<1>9. CASE WriteFails \/ Crash
  <2>1. task' = "none"
    BY <1>9 DEF WriteFails, Crash, Drop
  <2>2. CASE record' # record
    <3>1. PICK c \in Change : /\ record' = [record EXCEPT ![c] = Torn]
                              /\ \/ phase \in {"start", "finish"} /\ c = current
                                 \/ phase = "recover" /\ c \in Unfinished
      <4>1. CASE WriteFails
        BY <2>2, <4>1, ChangeCurrent DEF WriteFails, Resting
      <4>2. CASE Crash
        <5>1. PICK c \in BeingWritten : record' = [record EXCEPT ![c] = Torn]
          BY <2>2, <4>2 DEF Crash
        <5>2. \/ phase \in {"start", "finish"} /\ c = current
              \/ phase = "recover" /\ c \in Unfinished
          BY <5>1 DEF BeingWritten
        <5>3. c \in Change
          BY <5>2, ChangeCurrent DEF Unfinished, Resting
        <5>4. QED
          BY <5>1, <5>2, <5>3
      <4>3. QED
        BY <1>9, <4>1, <4>2
    <3>2. Lifecycle!Tear(c)
      BY <1>t, <2>1, <3>1, TearingOne DEF PhaseInv, Resting
    <3>3. QED
      BY <3>2 DEF Lifecycle!Next
  <2>3. QED
    BY <1>7, <2>1, <2>2
<1>10. CASE \E c \in Change : RecoverRecord(c)
  <2>1. PICK c \in Change : RecoverRecord(c)
    BY <1>10
  <2>2. /\ task = "none" /\ task' = task /\ record[c].status = "running"
        /\ record' = [record EXCEPT ![c].status = "interrupted"]
    BY <1>t, <2>1 DEF RecoverRecord, PhaseInv, Resting, Unfinished
  <2>3. \A d \in Change : record'[d].status = IF d = c THEN "interrupted" ELSE record[d].status
    BY <1>t, <2>2 DEF TypeOK, Record
  <2>4. Statuses' = [Statuses EXCEPT ![c] = "interrupted"] /\ Statuses[c] = "running"
    BY <2>2, <2>3 DEF Statuses
  <2>5. Lifecycle!Interrupt(c)
    BY <2>2, <2>4 DEF Lifecycle!Interrupt, Statuses, Holder
  <2>6. QED
    BY <2>5 DEF Lifecycle!Next
<1>11. CASE Restart \/ RecoverJournal \/ Recovered
  <2>1. record' = record /\ task = "none" /\ task' = task
    BY <1>t, <1>11 DEF Restart, RecoverJournal, Recovered, Continue, diskVars, PhaseInv, Resting
  <2>2. QED
    BY <2>1 DEF Statuses, Holder
<1>12. CASE Edit \/ Tick \/ JournalStart \/ PostPassed \/ Healthy \/ AutoRollback \/ UNCHANGED vars
  BY <1>1, <1>12 DEF Edit, Tick, JournalStart, PostPassed, Healthy, AutoRollback, Continue,
     Conclude, vars, opVars, diskVars
<1>13. CASE Stage
  BY <1>1, <1>13 DEF Stage, PatchSnapshot, PatchApply, PatchHash, FileWrite, Validated,
     ValidationFailed, RestoreThrows, CommandRan, StageFails, Continue, Conclude, GiveUp, diskVars
<1>14. CASE Revert
  BY <1>1, <1>14 DEF Revert, FileRevert, FileRevertFails, PatchDriftCheck, PatchDrifted,
     PatchReverse, PatchReverseConflict, SnapshotMissing, PatchReverseForced, SnapshotRestore,
     CommandUndone, CommandNotUndone, PostAgain, Reverted, Continue, Conclude, GiveUp, diskVars
<1>15. QED
  BY <1>2, <1>3, <1>4, <1>5, <1>6, <1>8, <1>9, <1>10, <1>11, <1>12, <1>13, <1>14
     DEF Next, BrokerStep, Pruning

(* Where change ids are used once, every behaviour of the executor, with   *)
(* its crashes, torn and failing writes and its recovery, is one of the    *)
(* lifecycle of changes: a change runs at most once, has at most one       *)
(* outcome, and is moved only by the task that holds the executor.         *)
THEOREM LifecycleImplemented == ASSUME ~SameSecond PROVE Spec => ImplementsLifecycle
<1>1. Init => Lifecycle!Init
  BY DEF Init, Lifecycle!Init, NoRecord
<1>2. TypeInv /\ RunningInv /\ OutcomeInv /\ FreshInv /\ [Next]_vars =>
        [Lifecycle!Next]_<<Statuses, Holder>>
  BY LifecycleStep
<1>3. Spec => []FreshInv
  BY FreshAlways
<1>4. QED
  BY <1>1, <1>2, <1>3, Typed, RunningAlways, OutcomesAlways, PTL
     DEF Spec, ImplementsLifecycle, Lifecycle!Spec, Statuses, Holder
=============================================================================
