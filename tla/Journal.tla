------------------------------- MODULE Journal -------------------------------
(***************************************************************************)
(* The change broker's journal, src/changes/journal.js: one line per event,*)
(* each with the hash of the line before it, and verify(), which walks the *)
(* chain.  A write may stop short (a crash, a full disk), and somebody may *)
(* lose, change or move lines of the file.                                 *)
(*                                                                         *)
(* Hashes do not collide, so a hash is what went into it: the bodies of    *)
(* all the lines it covers.                                                *)
(***************************************************************************)
EXTENDS Naturals, SequencesExt

CONSTANTS
  Entries,                          \* what there is to record
  MaxAppends, MaxTears, MaxDamage   \* bounds of a run

JournalAssumption == {MaxAppends, MaxTears, MaxDamage} \subseteq Nat

VARIABLES
  lines,       \* the rows read() returns
  terminated,  \* whether the file ends with a newline
  past,        \* history: the bodies each row written so far stands for
  used         \* how much of each bound is spent

vars == <<lines, terminated, past, used>>

GENESIS == <<>>

lineHash(prev, body) == Append(prev, body)

Body == [seq : Nat, entry : Entries]
Row  == [corrupt : BOOLEAN, seq : Nat, entry : Entries, prev : Seq(Body), hash : Seq(Body)]

(* A line that is not JSON: no seq, no hash.                               *)
Corrupt == [corrupt |-> TRUE, seq |-> 0, entry |-> CHOOSE e \in Entries : TRUE,
            prev |-> GENESIS, hash |-> GENESIS]

Init ==
  /\ lines = <<>> /\ terminated = TRUE
  /\ past = {<<>>}
  /\ used = [appends |-> 0, tears |-> 0, damage |-> 0]

Spend(what, bound) ==
  /\ used[what] < bound
  /\ used' = [used EXCEPT ![what] = @ + 1]

-----------------------------------------------------------------------------
(* append()                                                                *)

(* Mutant: the chain is not continued.                                     *)
NewRow_Unchained(e) ==
  [corrupt |-> FALSE, seq |-> Len(lines) + 1, entry |-> e, prev |-> GENESIS,
   hash |-> lineHash(GENESIS, [seq |-> Len(lines) + 1, entry |-> e])]

(* The next row continues whatever the last line says, or starts over.     *)
NewRow(e) ==
  LET last == IF lines = <<>> THEN Corrupt ELSE Last(lines)
      body == [seq |-> last.seq + 1, entry |-> e]
  IN  [corrupt |-> FALSE, seq |-> body.seq, entry |-> e,
       prev |-> last.hash, hash |-> lineHash(last.hash, body)]

(* Bytes written where the file ends: without a newline there, they run    *)
(* into the line before, which nobody can read any more.                   *)
Written(row) ==
  IF terminated THEN Append(lines, row) ELSE Append(Front(lines), Corrupt)

append(e) ==
  /\ Spend("appends", MaxAppends)
  /\ lines' = Written(NewRow(e))
  /\ terminated' = TRUE
  /\ past' = past \cup {NewRow(e).hash}

(* The write stops somewhere in the row, or right before its newline.      *)
Tear(e) ==
  /\ Spend("tears", MaxTears)
  /\ \E row \in {Corrupt, NewRow(e)} : lines' = Written(row)
  /\ terminated' = FALSE
  /\ past' = past \cup {NewRow(e).hash}

-----------------------------------------------------------------------------
(* Somebody else.                                                          *)

Damage(to) ==
  /\ Spend("damage", MaxDamage)
  /\ lines' = to
  /\ terminated' = TRUE
  /\ UNCHANGED past

ChangeLine(i, e) == Damage([lines EXCEPT ![i].entry = e])
LoseLine(i)      == Damage(RemoveAt(lines, i))
MoveLine(i)      == Damage([lines EXCEPT ![i] = lines[i + 1], ![i + 1] = lines[i]])

-----------------------------------------------------------------------------
(* verify()                                                                *)

Linked(i) ==
  LET row  == lines[i]
      prev == IF i = 1 THEN GENESIS ELSE lines[i - 1].hash
  IN  /\ ~row.corrupt
      /\ row.prev = prev
      /\ row.hash = lineHash(prev, [seq |-> row.seq, entry |-> row.entry])
      /\ row.seq = i

(* The lines before the one verify() stops at.                             *)
Broken == {i \in DOMAIN lines : ~Linked(i)}
Verified == SubSeq(lines, 1, IF Broken = {} THEN Len(lines) ELSE Min(Broken) - 1)

ok == Broken = {}

-----------------------------------------------------------------------------
Next ==
  \/ \E e \in Entries : append(e) \/ Tear(e)
  \/ \E i \in DOMAIN lines, e \in Entries : ChangeLine(i, e)
  \/ \E i \in DOMAIN lines : LoseLine(i)
  \/ \E i \in 1..(Len(lines) - 1) : MoveLine(i)

Spec == Init /\ [][Next]_vars

-----------------------------------------------------------------------------
(* Properties.                                                             *)

TypeOK ==
  /\ lines \in Seq(Row)
  /\ terminated \in BOOLEAN
  /\ past \subseteq Seq(Body)
  /\ used \in [{"appends", "tears", "damage"} -> Nat]

(* Lines that verify() accepts, all of them or those before the break it   *)
(* reports, were written one after the other just like that: none was      *)
(* edited, lost or moved.  What may be missing is the end, and whatever    *)
(* came before an unreadable line, where the chain starts over.            *)
VerifiedIsHistory ==
  [i \in DOMAIN Verified |-> [seq |-> Verified[i].seq, entry |-> Verified[i].entry]] \in past

(* Appending to a journal that verifies keeps it verifiable, one entry     *)
(* longer, as long as the file ends with a newline.                        *)
Appended == used'.appends > used.appends
AppendKeepsChain ==
  [][Appended /\ ok /\ terminated => ok' /\ Len(lines') = Len(lines) + 1]_vars

(* Appending never covers up a break: what did not verify still does not.  *)
BreakStays == [][Appended /\ ~ok => ~ok']_vars
=============================================================================
