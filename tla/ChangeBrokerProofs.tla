-------------------------- MODULE ChangeBrokerProofs --------------------------
(***************************************************************************)
(* What holds of the change broker's control side for any number of        *)
(* connections, any limits and any clock.                                  *)
(***************************************************************************)
EXTENDS ChangeBroker, FiniteSetTheorems, TLAPS

-----------------------------------------------------------------------------
(* Types.  A rejection may come of a signature that is still being         *)
(* verified, so the bound on rejections is only kept because every request *)
(* under verification has its place reserved.                              *)

Reserved == used.failed + Cardinality(Verifying) <= MaxFailed
TypeInv == TypeOK /\ Reserved

(* An idle connection is a connection.                                     *)
LEMMA NoConnTyped == NoConn \in Conn /\ NoConn.pc = "idle"
  BY BrokerAssumption DEF NoConn, Conn, Purpose, Nonce, NoSignature

(* The requests under verification can be counted.                         *)
LEMMA VerifyingFinite == IsFiniteSet(Verifying) /\ Cardinality(Verifying) \in Nat
                         /\ IsFiniteSet(Verifying') /\ Cardinality(Verifying') \in Nat
  BY BrokerAssumption, FS_Subset, FS_CardinalityType DEF Verifying

(* The count of rejections is a number.                                    *)
LEMMA FailedTyped == TypeOK => used.failed \in Nat /\ used.failed <= MaxFailed /\ MaxFailed \in Nat
  BY BrokerAssumption DEF TypeOK

(* Spending a bound of the model leaves the count of rejections alone.     *)
LEMMA SpentTyped ==
  ASSUME TypeOK, NEW what \in {"restarts", "toggles"}, used' = [used EXCEPT ![what] = @ + 1]
  PROVE  /\ used' \in [{"failed", "restarts", "toggles"} -> Nat]
         /\ used'.failed = used.failed
<1>1. used \in [{"failed", "restarts", "toggles"} -> Nat]
  BY DEF TypeOK
<1>2. QED
  BY <1>1

(* Presenting a nonce keeps what the gate remembers typed.                 *)
LEMMA PresentTyped ==
  ASSUME TypeOK, NEW n \in 0..Len(issued), Present(n)
  PROVE  pending' \subseteq DOMAIN issued /\ presented' \subseteq Nonce
<1>1. DOMAIN issued = 1..Len(issued) /\ Len(issued) \in Nat /\ Len(issued) <= MaxNonces
  BY DEF TypeOK
<1>2. MaxNonces \in Nat
  BY BrokerAssumption
<1>3. {n} \cap DOMAIN issued \subseteq Nonce
  BY <1>1, <1>2 DEF Nonce
<1>4. QED
  BY <1>3 DEF Present, TypeOK

(* Answering a request takes it out of verification.                       *)
LEMMA AnswerReserves ==
  ASSUME TypeOK, NEW c \in Conns, Answer(c)
  PROVE  /\ conn' \in [Conns -> Conn]
         /\ Verifying' = Verifying \ {c}
         /\ Cardinality(Verifying') =
              IF c \in Verifying THEN Cardinality(Verifying) - 1 ELSE Cardinality(Verifying)
<1>1. conn' \in [Conns -> Conn]
  BY NoConnTyped DEF TypeOK, Answer
<1>2. Verifying' = Verifying \ {c}
  BY NoConnTyped DEF TypeOK, Answer, Verifying
<1>3. QED
  BY <1>1, <1>2, VerifyingFinite, FS_RemoveElement

(* Steps that leave the set of requests under verification alone.          *)
LEMMA SameReserves ==
  ASSUME Reserved, used' = used, Verifying' = Verifying
  PROVE  Reserved'
  BY DEF Reserved

(* A rejection that has a place reserved, or takes the last free one.      *)
LEMMA RecordedTyped ==
  ASSUME TypeOK, NEW kept \in SUBSET failures, recordFailure(kept),
         used.failed < MaxFailed
  PROVE  /\ failures' \subseteq rejections' /\ rejections' \subseteq Failure
         /\ used' \in [{"failed", "restarts", "toggles"} -> Nat]
         /\ used'.failed = used.failed + 1
<1>1. [at |-> now, nth |-> used.failed, run |-> used.restarts] \in Failure
  BY BrokerAssumption DEF TypeOK, Failure
<1>2. QED
  BY <1>1 DEF recordFailure, TypeOK

(* A step that leaves the challenges alone keeps the types, if it keeps    *)
(* those of what it does change.                                           *)
LEMMA StillTyped ==
  ASSUME TypeOK, UNCHANGED <<world, busy>>,
         conn' \in [Conns -> Conn],
         failures' \subseteq rejections', rejections' \subseteq Failure,
         pending' \subseteq DOMAIN issued, presented' \subseteq Nonce,
         used' \in [{"failed", "restarts", "toggles"} -> Nat], used'.failed <= MaxFailed
  PROVE  TypeOK'
  BY DEF TypeOK, world

LEMMA InitTypeInv == Init => TypeInv
<1> SUFFICES ASSUME Init PROVE TypeInv
  OBVIOUS
<1>1. TypeOK
  BY BrokerAssumption, NoConnTyped DEF Init, TypeOK
<1>2. Verifying = {}
  BY NoConnTyped DEF Init, Verifying
<1>3. Reserved
  BY <1>2, FS_EmptySet, BrokerAssumption DEF Reserved, Init
<1>4. QED
  BY <1>1, <1>3 DEF TypeInv

LEMMA NextTypeInv == TypeInv /\ [Next]_vars => TypeInv'
<1> SUFFICES ASSUME TypeInv, [Next]_vars PROVE TypeInv'
  OBVIOUS
<1> USE BrokerAssumption DEF TypeInv
<1>1. ASSUME NEW c \in Conns, Arrive(c) PROVE TypeInv'
  <2>1. Verifying' = Verifying
    BY <1>1 DEF Arrive, Verifying, TypeOK
  <2>2. conn' \in [Conns -> Conn]
    BY <1>1 DEF Arrive, TypeOK, Conn
  <2>3. QED
    BY <1>1, <2>1, <2>2, SameReserves DEF Arrive, TypeOK, world
<1>2. ASSUME NEW c \in Conns, LockedOut(c) PROVE TypeInv'
  <2>1. Verifying' = Verifying
    BY <1>2, AnswerReserves DEF LockedOut, Verifying
  <2>2. QED
    BY <1>2, <2>1, AnswerReserves, SameReserves DEF LockedOut, TypeOK, world, Recent
<1>3. ASSUME NEW c \in Conns, BadRequest(c) PROVE TypeInv'
  <2>1. Verifying' = Verifying
    BY <1>3, AnswerReserves DEF BadRequest, Verifying
  <2>2. QED
    BY <1>3, <2>1, AnswerReserves, SameReserves DEF BadRequest, TypeOK, world
<1>4. ASSUME NEW c \in Conns, NEW purpose \in Purpose, NEW h \in Hashes,
             PostChallenge(c, purpose, h)
      PROVE  TypeInv'
  <2>1. Verifying' = Verifying
    BY <1>4, AnswerReserves DEF PostChallenge, Verifying
  <2>2. [hash |-> h, purpose |-> purpose, expiresAt |-> now + Ttl] \in Challenge
    BY DEF Challenge, TypeOK
  <2>3. /\ issued' \in Seq(Challenge) /\ Len(issued') = Len(issued) + 1
        /\ DOMAIN issued' = DOMAIN issued \cup {Len(issued) + 1}
    <3>1. issued' = Append(issued, [hash |-> h, purpose |-> purpose, expiresAt |-> now + Ttl])
      BY <1>4 DEF PostChallenge, issue
    <3>2. issued \in Seq(Challenge)
      BY DEF TypeOK
    <3>3. QED
      BY ONLY <2>2, <3>1, <3>2
  <2>4. /\ Len(issued') <= MaxNonces
        /\ pending' \subseteq DOMAIN issued' /\ signed' \subseteq DOMAIN issued'
    <3>1. Len(issued) < MaxNonces /\ pending' = Swept \cup {Len(issued) + 1} /\ signed' = signed
      BY <1>4 DEF PostChallenge, issue
    <3>2. Len(issued) \in Nat /\ MaxNonces \in Nat
      BY DEF TypeOK
    <3>3. Swept \subseteq pending
      BY DEF Swept, Live
    <3>4. pending \subseteq DOMAIN issued /\ signed \subseteq DOMAIN issued
      BY DEF TypeOK
    <3>5. pending' \subseteq DOMAIN issued' /\ signed' \subseteq DOMAIN issued'
      BY ONLY <2>3, <3>1, <3>3, <3>4
    <3>6. QED
      BY ONLY <2>3, <3>1, <3>2, <3>5
  <2>5. TypeOK'
    BY <1>4, <2>3, <2>4, AnswerReserves DEF PostChallenge, TypeOK, Recent
  <2>6. QED
    BY <1>4, <2>1, <2>5, SameReserves DEF PostChallenge
<1>5. ASSUME NEW c \in Conns, NEW purpose \in Purpose, NEW h \in Hashes,
             NEW n \in 0..Len(issued), NEW s \in signed \cup {NoSignature},
             PostRejected(c, purpose, h, n, s)
      PROVE  TypeInv'
  <2>1. Verifying' = Verifying
    BY <1>5, AnswerReserves DEF PostRejected, Verifying
  <2>2. used.failed + Cardinality(Verifying) < MaxFailed /\ used.failed < MaxFailed
    BY <1>5, VerifyingFinite DEF PostRejected, RoomToFail, TypeOK
  <2>3. Recent \in SUBSET failures
    BY DEF Recent
  <2>4. /\ failures' \subseteq rejections' /\ rejections' \subseteq Failure
        /\ used' \in [{"failed", "restarts", "toggles"} -> Nat]
        /\ used'.failed = used.failed + 1
    BY <1>5, <2>2, <2>3, RecordedTyped DEF PostRejected
  <2>5. pending' \subseteq DOMAIN issued /\ presented' \subseteq Nonce
    BY <1>5, PresentTyped DEF PostRejected
  <2>6. TypeOK'
    <3>1. conn' \in [Conns -> Conn] /\ UNCHANGED <<world, busy>>
      BY <1>5, AnswerReserves DEF PostRejected
    <3>2. used'.failed <= MaxFailed
      BY <2>2, <2>4, FailedTyped
    <3>3. QED
      BY <2>4, <2>5, <3>1, <3>2, StillTyped
  <2>7. Reserved'
    <3>1. Cardinality(Verifying') = Cardinality(Verifying)
      BY <2>1
    <3>2. used.failed + 1 + Cardinality(Verifying) <= MaxFailed
      BY <2>2, VerifyingFinite, FailedTyped
    <3>3. used'.failed = used.failed + 1
      BY <2>4
    <3>4. QED
      BY <3>1, <3>2, <3>3 DEF Reserved
  <2>8. QED
    BY <2>6, <2>7
<1>6. ASSUME NEW c \in Conns, NEW purpose \in Purpose, NEW h \in Hashes,
             NEW n \in 0..Len(issued), NEW s \in signed \cup {NoSignature},
             PostVerifying(c, purpose, h, n, s)
      PROVE  TypeInv'
  <2>1. n \in Nonce /\ s \in Nonce
    <3>1. /\ Len(issued) \in Nat /\ Len(issued) <= MaxNonces /\ DOMAIN issued = 1..Len(issued)
          /\ MaxNonces \in Nat /\ signed \subseteq DOMAIN issued
      BY DEF TypeOK
    <3>2. n \in 0..MaxNonces
      BY <3>1
    <3>3. s \in 0..MaxNonces
      BY <3>1 DEF NoSignature
    <3>4. QED
      BY <3>2, <3>3 DEF Nonce
  <2>2. conn' \in [Conns -> Conn] /\ Verifying' = Verifying \cup {c}
    BY <1>6, <2>1 DEF PostVerifying, TypeOK, Conn, Verifying
  <2>3. Cardinality(Verifying') <= Cardinality(Verifying) + 1
    BY <2>2, VerifyingFinite, FS_AddElement
  <2>4. Reserved'
    <3>1. used.failed + Cardinality(Verifying) < MaxFailed /\ used' = used
      BY <1>6 DEF PostVerifying, RoomToFail
    <3>2. used.failed \in Nat /\ MaxFailed \in Nat
      BY FailedTyped
    <3>3. used.failed + Cardinality(Verifying') <= MaxFailed
      BY ONLY <2>3, <3>1, <3>2, VerifyingFinite
    <3>4. QED
      BY <3>1, <3>3 DEF Reserved
  <2>5. pending' \subseteq DOMAIN issued /\ presented' \subseteq Nonce
    BY <1>6, PresentTyped DEF PostVerifying
  <2>6. TypeOK'
    <3>1. UNCHANGED <<world, busy, used>> /\ failures' \subseteq rejections' /\ rejections' \subseteq Failure
      BY <1>6 DEF PostVerifying, Recent, TypeOK
    <3>2. used' \in [{"failed", "restarts", "toggles"} -> Nat] /\ used'.failed <= MaxFailed
      BY <3>1 DEF TypeOK
    <3>3. QED
      BY <2>2, <2>5, <3>1, <3>2, StillTyped
  <2>7. QED
    BY <2>4, <2>6
<1>7. ASSUME NEW c \in Conns, SignatureInvalid(c) PROVE TypeInv'
  <2>1. c \in Verifying /\ Cardinality(Verifying) # 0
    BY <1>7, VerifyingFinite, FS_EmptySet DEF SignatureInvalid, Verifying
  <2>2. used.failed < MaxFailed
    BY <2>1, VerifyingFinite DEF Reserved, TypeOK
  <2>3. /\ failures' \subseteq rejections' /\ rejections' \subseteq Failure
        /\ used' \in [{"failed", "restarts", "toggles"} -> Nat]
        /\ used'.failed = used.failed + 1
    BY <1>7, <2>2, RecordedTyped DEF SignatureInvalid
  <2>4. TypeOK'
    <3>1. /\ conn' \in [Conns -> Conn] /\ UNCHANGED <<world, busy>>
          /\ pending' = pending /\ presented' = presented
      BY <1>7, AnswerReserves DEF SignatureInvalid
    <3>2. used'.failed <= MaxFailed /\ pending \subseteq DOMAIN issued /\ presented \subseteq Nonce
      BY <2>2, <2>3, FailedTyped DEF TypeOK
    <3>3. QED
      BY <2>3, <3>1, <3>2, StillTyped
  <2>5. Cardinality(Verifying') = Cardinality(Verifying) - 1
    BY <1>7, <2>1, AnswerReserves DEF SignatureInvalid
  <2>6. Reserved'
    BY <2>3, <2>5, VerifyingFinite DEF Reserved, TypeOK
  <2>7. QED
    BY <2>4, <2>6
<1>8. ASSUME NEW c \in Conns, TaskStarts(c) PROVE TypeInv'
  <2>1. conn' \in [Conns -> Conn] /\ Verifying' = Verifying \ {c}
    BY <1>8 DEF TaskStarts, TypeOK, Conn, Verifying
  <2>2. Cardinality(Verifying') <= Cardinality(Verifying)
    BY <2>1, VerifyingFinite, FS_RemoveElement
  <2>3. Reserved'
    BY <1>8, <2>2, VerifyingFinite DEF TaskStarts, Reserved, TypeOK
  <2>4. QED
    BY <1>8, <2>1, <2>3 DEF TaskStarts, TypeOK, world
<1>9. ASSUME NEW c \in Conns, TaskRefused(c) \/ TaskEnds(c) PROVE TypeInv'
  <2>1. /\ Answer(c)
        /\ used' = used /\ busy' \in {busy, Nobody}
        /\ UNCHANGED <<enabled, now, issued, signed, pending, failures, presented, rejections>>
    BY <1>9 DEF TaskRefused, TaskEnds, world
  <2>2. Cardinality(Verifying') <= Cardinality(Verifying)
    BY <2>1, AnswerReserves, VerifyingFinite
  <2>3. Reserved'
    BY <2>1, <2>2, VerifyingFinite, FailedTyped DEF Reserved
  <2>4. QED
    BY <2>1, <2>3, AnswerReserves DEF TypeOK
<1>10. ASSUME NEW n \in 1..MaxNonces, Sign(n) PROVE TypeInv'
  <2>1. Verifying' = Verifying
    BY <1>10 DEF Sign, Verifying
  <2>2. QED
    BY <1>10, <2>1, SameReserves DEF Sign, TypeOK
<1>11. ASSUME Toggle PROVE TypeInv'
  <2>1. Verifying' = Verifying
    BY <1>11 DEF Toggle, Verifying
  <2>2. /\ used' \in [{"failed", "restarts", "toggles"} -> Nat]
        /\ used'.failed = used.failed
    BY <1>11, SpentTyped DEF Toggle
  <2>3. enabled' \in BOOLEAN
    BY <1>11 DEF Toggle
  <2>4. TypeOK'
    BY <1>11, <2>2, <2>3 DEF Toggle, TypeOK
  <2>5. QED
    BY <2>1, <2>2, <2>4 DEF Reserved
<1>12. ASSUME Tick PROVE TypeInv'
  <2>1. Verifying' = Verifying
    BY <1>12 DEF Tick, Verifying
  <2>2. QED
    BY <1>12, <2>1, SameReserves DEF Tick, TypeOK
<1>13. ASSUME Restart PROVE TypeInv'
  <2>1. Verifying' = {}
    BY <1>13, NoConnTyped DEF Restart, Verifying
  <2>2. /\ used' \in [{"failed", "restarts", "toggles"} -> Nat]
        /\ used'.failed = used.failed
    BY <1>13, SpentTyped DEF Restart
  <2>3. Reserved'
    BY <2>1, <2>2, FS_EmptySet, FailedTyped DEF Reserved
  <2>4. TypeOK'
    BY <1>13, <2>2, NoConnTyped DEF Restart, TypeOK, world
  <2>5. QED
    BY <2>3, <2>4
<1>14. ASSUME UNCHANGED vars PROVE TypeInv'
  <2>1. Verifying' = Verifying
    BY <1>14 DEF vars, Verifying
  <2>2. QED
    BY <1>14, <2>1, SameReserves DEF vars, TypeOK
<1>15. QED
  BY <1>1, <1>2, <1>3, <1>4, <1>5, <1>6, <1>7, <1>8, <1>9, <1>10, <1>11, <1>12,
     <1>13, <1>14 DEF Next, Serve

(* Whatever the limits and however many connections, the broker's state is *)
(* of its type; the counters of the model stay within their bounds, so the *)
(* bounds never hide a step of SignatureInvalid.                           *)
THEOREM TypeCorrect == Spec => []TypeOK
<1>1. TypeInv => TypeOK
  BY DEF TypeInv
<1>2. QED
  BY <1>1, InitTypeInv, NextTypeInv, PTL DEF Spec

-----------------------------------------------------------------------------
(* Approvals.  A request past the gate holds a nonce of the challenge it   *)
(* names; what the gate still knows, nobody has presented.                 *)

PastGate == {"verify", "running"}
Bound(c) ==
  conn[c].pc \in PastGate =>
    /\ conn[c].nonce \in DOMAIN issued
    /\ issued[conn[c].nonce].hash = conn[c].hash
    /\ issued[conn[c].nonce].purpose = conn[c].purpose
    /\ conn[c].presentedAt <= issued[conn[c].nonce].expiresAt
    /\ conn[c].first
Authorised(c) == conn[c].pc = "running" => conn[c].nonce \in signed

ApprovalInv ==
  /\ presented \subseteq DOMAIN issued
  /\ pending \cap presented = {}
  /\ \A c \in Conns : Bound(c) /\ Authorised(c)

(* A step that lets nobody past the gate and hands out no challenge.       *)
LEMMA NobodyPasses ==
  ASSUME ApprovalInv, issued' = issued, signed \subseteq signed',
         presented' \subseteq DOMAIN issued, pending' \cap presented' = {},
         \A c \in Conns : conn'[c] = conn[c] \/ conn'[c].pc \notin PastGate
  PROVE  ApprovalInv'
<1>1. \A c \in Conns : Bound(c)' /\ Authorised(c)'
  BY DEF ApprovalInv, Bound, Authorised, PastGate
<1>2. QED
  BY <1>1 DEF ApprovalInv

(* Neither does answering a request.                                       *)
LEMMA AnswerPasses ==
  ASSUME TypeOK, NEW c \in Conns, Answer(c)
  PROVE  \A d \in Conns : conn'[d] = conn[d] \/ conn'[d].pc \notin PastGate
  BY NoConnTyped DEF TypeOK, Answer, PastGate

(* Presenting a nonce moves it from the pending to the presented ones.     *)
LEMMA PresentSpends ==
  ASSUME TypeOK, ApprovalInv, NEW n, Present(n)
  PROVE  presented' \subseteq DOMAIN issued /\ pending' \cap presented' = {}
  BY DEF TypeOK, ApprovalInv, Present

LEMMA InitApprovalInv == Init => ApprovalInv
  BY NoConnTyped DEF Init, ApprovalInv, Bound, Authorised, PastGate

LEMMA NextApprovalInv == TypeOK /\ ApprovalInv /\ [Next]_vars => ApprovalInv'
<1> SUFFICES ASSUME TypeOK, ApprovalInv, [Next]_vars PROVE ApprovalInv'
  OBVIOUS
<1>a. presented \subseteq DOMAIN issued /\ pending \cap presented = {}
  BY DEF ApprovalInv
<1>1. ASSUME NEW c \in Conns, Arrive(c) PROVE ApprovalInv'
  <2>1. \A d \in Conns : conn'[d] = conn[d] \/ conn'[d].pc \notin PastGate
    BY <1>1 DEF Arrive, TypeOK, Conn, PastGate
  <2>2. QED
    BY <1>1, <1>a, <2>1, NobodyPasses DEF Arrive, world
<1>2. ASSUME NEW c \in Conns,
             LockedOut(c) \/ BadRequest(c) \/ SignatureInvalid(c) \/ TaskRefused(c) \/ TaskEnds(c)
      PROVE  ApprovalInv'
  <2>1. Answer(c) /\ UNCHANGED <<issued, signed, pending, presented>>
    BY <1>2 DEF LockedOut, BadRequest, SignatureInvalid, TaskRefused, TaskEnds, world
  <2>2. QED
    BY <1>a, <2>1, AnswerPasses, NobodyPasses
<1>3. ASSUME NEW c \in Conns, NEW purpose \in Purpose, NEW h \in Hashes,
             PostChallenge(c, purpose, h)
      PROVE  ApprovalInv'
  <2> DEFINE new == [hash |-> h, purpose |-> purpose, expiresAt |-> now + Ttl]
  <2>1. Answer(c) /\ issued' = Append(issued, new) /\ pending' = Swept \cup {Len(issued) + 1}
        /\ UNCHANGED <<signed, presented>>
    BY <1>3 DEF PostChallenge, issue
  <2>2. /\ DOMAIN issued' = DOMAIN issued \cup {Len(issued) + 1}
        /\ Len(issued) + 1 \notin DOMAIN issued
        /\ \A n \in DOMAIN issued : issued'[n] = issued[n]
    BY <2>1 DEF TypeOK
  <2>3. presented' \subseteq DOMAIN issued' /\ pending' \cap presented' = {}
    BY <1>a, <2>1, <2>2 DEF Swept, Live
  <2>4. ASSUME NEW d \in Conns PROVE Bound(d)' /\ Authorised(d)'
    <3>1. conn'[d] = conn[d] \/ conn'[d].pc \notin PastGate
      BY <2>1, AnswerPasses
    <3>2. Bound(d) /\ Authorised(d)
      BY DEF ApprovalInv
    <3>3. QED
      BY <2>1, <2>2, <3>1, <3>2 DEF Bound, Authorised, PastGate
  <2>5. QED
    BY <2>3, <2>4 DEF ApprovalInv
<1>4. ASSUME NEW c \in Conns, NEW purpose \in Purpose, NEW h \in Hashes,
             NEW n \in 0..Len(issued), NEW s \in signed \cup {NoSignature},
             PostRejected(c, purpose, h, n, s)
      PROVE  ApprovalInv'
  <2>1. Answer(c) /\ Present(n) /\ UNCHANGED <<issued, signed>>
    BY <1>4 DEF PostRejected, world
  <2>2. QED
    BY <2>1, AnswerPasses, PresentSpends, NobodyPasses
<1>5. ASSUME NEW c \in Conns, NEW purpose \in Purpose, NEW h \in Hashes,
             NEW n \in 0..Len(issued), NEW s \in signed \cup {NoSignature},
             PostVerifying(c, purpose, h, n, s)
      PROVE  ApprovalInv'
  <2>1. /\ Present(n) /\ UNCHANGED <<issued, signed>>
        /\ n \in pending /\ issued[n].hash = h /\ issued[n].purpose = purpose
        /\ ~Expired(n)
        /\ conn' = [conn EXCEPT ![c] =
             [pc |-> "verify", purpose |-> purpose, hash |-> h, nonce |-> n, signature |-> s,
              first |-> n \notin presented, presentedAt |-> now]]
    BY <1>5 DEF PostVerifying, Acceptable, world
  <2>2. n \in DOMAIN issued /\ n \notin presented
    BY <1>a, <2>1 DEF TypeOK
  <2>3. issued[n] \in Challenge
    BY <2>2 DEF TypeOK
  <2>4. now <= issued[n].expiresAt
    BY <2>1, <2>3, BrokerAssumption DEF Expired, Challenge, TypeOK
  <2>5. conn \in [Conns -> Conn]
    BY DEF TypeOK
  <2>6. Bound(c)' /\ Authorised(c)'
    BY <2>1, <2>2, <2>4, <2>5 DEF Bound, Authorised
  <2>7. ASSUME NEW d \in Conns, d # c PROVE Bound(d)' /\ Authorised(d)'
    <3>1. conn'[d] = conn[d]
      BY <2>1, <2>5, <2>7
    <3>2. Bound(d) /\ Authorised(d)
      BY DEF ApprovalInv
    <3>3. QED
      BY <2>1, <3>1, <3>2 DEF Bound, Authorised
  <2>8. QED
    BY <2>1, <2>6, <2>7, PresentSpends DEF ApprovalInv
<1>6. ASSUME NEW c \in Conns, TaskStarts(c) PROVE ApprovalInv'
  <2>1. /\ conn[c].pc = "verify" /\ conn[c].nonce \in signed
        /\ conn' = [conn EXCEPT ![c].pc = "running"]
        /\ UNCHANGED <<issued, signed, pending, presented>>
    BY <1>6 DEF TaskStarts, SignatureValid, world
  <2>2. conn \in [Conns -> Conn] /\ conn[c] \in Conn
    BY DEF TypeOK
  <2>3. /\ conn'[c].pc = "running"
        /\ \A f \in {"purpose", "hash", "nonce", "first", "presentedAt"} : conn'[c][f] = conn[c][f]
    BY <2>1, <2>2 DEF Conn
  <2>4. Bound(c) /\ conn[c].pc \in PastGate
    BY <2>1 DEF ApprovalInv, PastGate
  <2>5. Bound(c)' /\ Authorised(c)'
    BY <2>1, <2>3, <2>4 DEF Bound, Authorised
  <2>6. ASSUME NEW d \in Conns, d # c PROVE Bound(d)' /\ Authorised(d)'
    <3>1. conn'[d] = conn[d]
      BY <2>1, <2>2, <2>6
    <3>2. Bound(d) /\ Authorised(d)
      BY DEF ApprovalInv
    <3>3. issued' = issued /\ signed' = signed
      BY <2>1
    <3>4. QED
      BY <3>1, <3>2, <3>3 DEF Bound, Authorised
  <2>7. QED
    BY <1>a, <2>1, <2>5, <2>6 DEF ApprovalInv
<1>7. ASSUME NEW n \in 1..MaxNonces, Sign(n) PROVE ApprovalInv'
  BY <1>7, <1>a, NobodyPasses DEF Sign
<1>8. ASSUME Toggle \/ Tick \/ UNCHANGED vars PROVE ApprovalInv'
  BY <1>8, <1>a, NobodyPasses DEF Toggle, Tick, vars
<1>9. ASSUME Restart PROVE ApprovalInv'
  <2>1. \A d \in Conns : conn'[d].pc \notin PastGate
    BY <1>9, NoConnTyped DEF Restart, PastGate
  <2>2. QED
    BY <1>9, <1>a, <2>1, NobodyPasses DEF Restart, world
<1>10. QED
  BY <1>1, <1>2, <1>3, <1>4, <1>5, <1>6, <1>7, <1>8, <1>9 DEF Next, Serve

LEMMA Approvals == Spec => []ApprovalInv
  BY InitApprovalInv, NextApprovalInv, TypeCorrect, PTL DEF Spec

(* The executor only ever runs what the operator signed: that action on    *)
(* that hash, whatever requests overlap, expire, fail or are cut short.    *)
THEOREM RunsSigned == Spec => []RunsAreSigned
<1>1. ApprovalInv => RunsAreSigned
  BY DEF ApprovalInv, Bound, Authorised, PastGate, RunsAreSigned, Running
<1>2. QED
  BY <1>1, Approvals, PTL

(* No approval works twice, and none that a failed attempt has used up.    *)
THEOREM UsedOnce == Spec => []FirstUseOnly
<1>1. ApprovalInv => FirstUseOnly
  BY DEF ApprovalInv, Bound, PastGate, FirstUseOnly, Running
<1>2. QED
  BY <1>1, Approvals, PTL

(* No approval is presented after its lifetime and still works.            *)
THEOREM FreshOnly == Spec => []ApprovalsAreFresh
<1>1. ApprovalInv => ApprovalsAreFresh
  BY DEF ApprovalInv, Bound, PastGate, ApprovalsAreFresh, Running
<1>2. QED
  BY <1>1, Approvals, PTL

(* All three: whatever runs was approved, for just that, once and lately.  *)
THEOREM RunsApproved == Spec => []RunsAreApproved
<1>1. RunsAreSigned /\ FirstUseOnly /\ ApprovalsAreFresh => RunsAreApproved
  BY DEF RunsAreApproved
<1>2. QED
  BY <1>1, RunsSigned, UsedOnce, FreshOnly, PTL

-----------------------------------------------------------------------------
(* Guessing.  Whoever is verified now may fail next, so it is the recent   *)
(* rejections and the requests under verification together that stay       *)
(* bounded: a request is only let in while rejections are below the limit. *)

GuessInv ==
  /\ IsFiniteSet(failures)
  /\ Cardinality(Recent) + Cardinality(Verifying) <= FAILURE_LIMIT - 1 + Cardinality(Conns)

(* Everything counted here is finite.                                      *)
LEMMA GuessTyped ==
  ASSUME IsFiniteSet(failures)
  PROVE  /\ IsFiniteSet(Recent) /\ Cardinality(Recent) \in Nat
         /\ Cardinality(Conns) \in Nat /\ FAILURE_LIMIT \in Nat /\ FAILURE_LIMIT >= 1
<1>1. IsFiniteSet(Recent)
  BY FS_Subset DEF Recent
<1>2. QED
  BY <1>1, FS_CardinalityType, BrokerAssumption

(* Never more requests under verification than connections.                *)
LEMMA VerifyingBounded ==
  /\ Cardinality(Verifying) <= Cardinality(Conns)
  /\ Cardinality(Verifying') <= Cardinality(Conns)
  /\ \A c \in Conns : c \notin Verifying => Cardinality(Verifying) <= Cardinality(Conns) - 1
<1>1. Verifying \in SUBSET Conns /\ Verifying' \in SUBSET Conns
  BY DEF Verifying
<1>2. ASSUME NEW c \in Conns, c \notin Verifying
      PROVE  Cardinality(Verifying) <= Cardinality(Conns) - 1
  <2>1. Verifying \in SUBSET (Conns \ {c}) /\ IsFiniteSet(Conns \ {c})
    BY <1>1, <1>2, BrokerAssumption, FS_RemoveElement
  <2>2. Cardinality(Verifying) <= Cardinality(Conns \ {c})
    BY <2>1, FS_Subset
  <2>3. Cardinality(Conns \ {c}) = Cardinality(Conns) - 1
    BY BrokerAssumption, FS_RemoveElement
  <2>4. QED
    BY <2>2, <2>3
<1>3. QED
  BY <1>1, <1>2, FS_Subset, BrokerAssumption

(* Steps after which nothing more counts than before.                      *)
LEMMA NothingCounts ==
  ASSUME GuessInv, failures' \in SUBSET failures, Recent' \in SUBSET Recent,
         Verifying' \in SUBSET Verifying
  PROVE  GuessInv'
<1>1. IsFiniteSet(failures') /\ Cardinality(Recent') \in Nat
  BY FS_Subset, FS_CardinalityType, GuessTyped DEF GuessInv
<1>2. Cardinality(Recent') <= Cardinality(Recent)
  BY FS_Subset, GuessTyped DEF GuessInv
<1>3. Cardinality(Verifying') <= Cardinality(Verifying)
  BY FS_Subset, VerifyingFinite
<1>4. QED
  BY <1>1, <1>2, <1>3, VerifyingFinite, GuessTyped DEF GuessInv

(* One more element counts for at most one.                                *)
LEMMA AddOne ==
  ASSUME NEW S, NEW x, IsFiniteSet(S)
  PROVE  IsFiniteSet(S \cup {x}) /\ Cardinality(S \cup {x}) <= Cardinality(S) + 1
<1>1. IsFiniteSet(S \cup {x}) /\ Cardinality(S) \in Nat
  BY FS_AddElement, FS_CardinalityType
<1>2. Cardinality(S \cup {x}) = IF x \in S THEN Cardinality(S) ELSE Cardinality(S) + 1
  BY FS_AddElement
<1>3. QED
  BY <1>1, <1>2

(* A rejection counts for one.                                             *)
LEMMA RejectionCounts ==
  ASSUME IsFiniteSet(failures), NEW kept \in SUBSET failures, recordFailure(kept), now' = now
  PROVE  /\ IsFiniteSet(failures')
         /\ Cardinality(Recent') \in Nat
         /\ Cardinality(Recent') <= Cardinality(Recent) + 1
<1> DEFINE f == [at |-> now, nth |-> used.failed, run |-> used.restarts]
<1>1. failures' = kept \cup {f}
  BY DEF recordFailure
<1>2. IsFiniteSet(failures')
  BY <1>1, FS_Subset, FS_AddElement
<1>3. Recent' \in SUBSET (Recent \cup {f})
  BY <1>1 DEF Recent
<1>4. /\ IsFiniteSet(Recent \cup {f})
      /\ Cardinality(Recent \cup {f}) <= Cardinality(Recent) + 1
  BY GuessTyped, AddOne
<1>5. /\ IsFiniteSet(Recent')
      /\ Cardinality(Recent') <= Cardinality(Recent \cup {f})
  BY <1>3, <1>4, FS_Subset
<1>6. Cardinality(Recent') \in Nat /\ Cardinality(Recent \cup {f}) \in Nat
  BY <1>4, <1>5, FS_CardinalityType
<1>7. QED
  BY <1>2, <1>4, <1>5, <1>6, GuessTyped

LEMMA InitGuessInv == Init => GuessInv
<1> SUFFICES ASSUME Init PROVE GuessInv
  OBVIOUS
<1>1. failures = {} /\ Recent = {} /\ Verifying = {}
  BY NoConnTyped DEF Init, Recent, Verifying
<1>2. IsFiniteSet(failures) /\ Cardinality(Recent) = 0 /\ Cardinality(Verifying) = 0
  BY <1>1, FS_EmptySet
<1>3. QED
  BY <1>2, GuessTyped DEF GuessInv

LEMMA NextGuessInv == TypeOK /\ GuessInv /\ [Next]_vars => GuessInv'
<1> SUFFICES ASSUME TypeOK, GuessInv, [Next]_vars PROVE GuessInv'
  OBVIOUS
<1>a. IsFiniteSet(failures)
  BY DEF GuessInv
<1>1. ASSUME NEW c \in Conns,
             LockedOut(c) \/ BadRequest(c) \/ TaskRefused(c) \/ TaskEnds(c)
             \/ \E purpose \in Purpose, h \in Hashes : PostChallenge(c, purpose, h)
      PROVE  GuessInv'
  <2>1. Answer(c) /\ failures' \in {failures, Recent} /\ now' = now
    BY <1>1 DEF LockedOut, BadRequest, TaskRefused, TaskEnds, PostChallenge, world
  <2>2. failures' \in SUBSET failures /\ Recent' \in SUBSET Recent
    BY <2>1 DEF Recent
  <2>3. QED
    BY <2>1, <2>2, AnswerReserves, NothingCounts
<1>2. ASSUME NEW c \in Conns, Arrive(c) \/ TaskStarts(c) PROVE GuessInv'
  <2>1. failures' = failures /\ now' = now
    BY <1>2 DEF Arrive, TaskStarts, world
  <2>2. Recent' = Recent
    BY <2>1 DEF Recent
  <2>3. conn \in [Conns -> Conn]
    BY DEF TypeOK
  <2>4. \A d \in Conns : conn'[d].pc = "verify" => conn[d].pc = "verify"
    BY <1>2, <2>3 DEF Arrive, TaskStarts, Conn
  <2>5. Verifying' \in SUBSET Verifying
    BY <2>4 DEF Verifying
  <2>6. QED
    BY <2>1, <2>2, <2>5, NothingCounts
<1>3. ASSUME NEW c \in Conns, NEW purpose \in Purpose, NEW h \in Hashes,
             NEW n \in 0..Len(issued), NEW s \in signed \cup {NoSignature},
             PostRejected(c, purpose, h, n, s)
      PROVE  GuessInv'
  <2>1. /\ c \notin Verifying /\ Answer(c) /\ ~locked /\ now' = now
        /\ recordFailure(Recent)
    BY <1>3 DEF PostRejected, Verifying, world
  <2>2. Recent \in SUBSET failures
    BY DEF Recent
  <2>3. Cardinality(Recent) <= FAILURE_LIMIT - 1
    BY <1>a, <2>1, GuessTyped DEF locked
  <2>4. /\ IsFiniteSet(failures') /\ Cardinality(Recent') \in Nat
        /\ Cardinality(Recent') <= Cardinality(Recent) + 1
    BY <1>a, <2>1, <2>2, RejectionCounts
  <2>5. Cardinality(Verifying') <= Cardinality(Conns) - 1
    BY <2>1, AnswerReserves, VerifyingBounded
  <2>6. QED
    BY <1>a, <2>3, <2>4, <2>5, GuessTyped, VerifyingFinite DEF GuessInv
<1>4. ASSUME NEW c \in Conns, NEW purpose \in Purpose, NEW h \in Hashes,
             NEW n \in 0..Len(issued), NEW s \in signed \cup {NoSignature},
             PostVerifying(c, purpose, h, n, s)
      PROVE  GuessInv'
  <2>1. ~locked /\ failures' = Recent /\ now' = now
    BY <1>4 DEF PostVerifying, world
  <2>2. Recent' = Recent
    BY <2>1 DEF Recent
  <2>3. Cardinality(Recent) <= FAILURE_LIMIT - 1
    BY <1>a, <2>1, GuessTyped DEF locked
  <2>4. QED
    BY <1>a, <2>1, <2>2, <2>3, GuessTyped, VerifyingFinite, VerifyingBounded DEF GuessInv
<1>5. ASSUME NEW c \in Conns, SignatureInvalid(c) PROVE GuessInv'
  <2>1. c \in Verifying /\ Answer(c) /\ now' = now /\ recordFailure(failures)
    BY <1>5 DEF SignatureInvalid, Verifying, world
  <2>2. failures \in SUBSET failures
    OBVIOUS
  <2>3. /\ IsFiniteSet(failures') /\ Cardinality(Recent') \in Nat
        /\ Cardinality(Recent') <= Cardinality(Recent) + 1
    BY <1>a, <2>1, <2>2, RejectionCounts
  <2>4. Cardinality(Verifying') = Cardinality(Verifying) - 1
    BY <2>1, AnswerReserves
  <2>5. QED
    BY <1>a, <2>3, <2>4, GuessTyped, VerifyingFinite DEF GuessInv
<1>6. ASSUME Restart PROVE GuessInv'
  <2>1. failures' = {} /\ Verifying' = {}
    BY <1>6, NoConnTyped DEF Restart, Verifying
  <2>2. Recent' = {}
    BY <2>1 DEF Recent
  <2>3. QED
    BY <2>1, <2>2, NothingCounts
<1>7. ASSUME Tick PROVE GuessInv'
  <2>1. failures' = failures /\ conn' = conn /\ now' = now + 1
    BY <1>7 DEF Tick
  <2>2. \A f \in failures : f.at \in Nat
    BY BrokerAssumption DEF TypeOK, Failure
  <2>3. Recent' \in SUBSET Recent
    <3>1. Recent' = {f \in failures : now + 1 <= f.at + FAILURE_WINDOW}
      BY <2>1 DEF Recent
    <3>2. now \in Nat /\ FAILURE_WINDOW \in Nat
      BY BrokerAssumption DEF TypeOK
    <3>3. \A f \in failures : now + 1 <= f.at + FAILURE_WINDOW => now <= f.at + FAILURE_WINDOW
      BY ONLY <2>2, <3>2
    <3>4. QED
      BY ONLY <3>1, <3>3 DEF Recent
  <2>4. Verifying' = Verifying
    BY <2>1 DEF Verifying
  <2>5. QED
    BY <2>1, <2>3, <2>4, NothingCounts
<1>8. ASSUME (\E n \in 1..MaxNonces : Sign(n)) \/ Toggle \/ UNCHANGED vars PROVE GuessInv'
  <2>1. failures' = failures /\ conn' = conn /\ now' = now
    BY <1>8 DEF Sign, Toggle, vars
  <2>2. Recent' = Recent /\ Verifying' = Verifying
    BY <2>1 DEF Recent, Verifying
  <2>3. QED
    BY <2>1, <2>2, NothingCounts
<1>9. QED
  BY <1>1, <1>2, <1>3, <1>4, <1>5, <1>6, <1>7, <1>8 DEF Next, Serve

(* The broker still counts every rejection of its run that may fall into a *)
(* window with one to come, and no window had more than it counted when the*)
(* last one in it came.                                                    *)
HistoryInv ==
  /\ IsFiniteSet(rejections)
  /\ \A r \in rejections : r.at <= now /\ r.run <= used.restarts
  /\ \A r \in rejections : r.run = used.restarts /\ now <= r.at + FAILURE_WINDOW => r \in failures
  /\ GuessesBounded

LEMMA HistoryTyped ==
  ASSUME TypeOK
  PROVE  /\ now \in Nat /\ used.restarts \in Nat /\ FAILURE_WINDOW \in Nat
         /\ \A r \in rejections : r.at \in Nat /\ r.run \in Nat
  BY BrokerAssumption DEF TypeOK, Failure

LEMMA InitHistoryInv == Init => HistoryInv
<1> SUFFICES ASSUME Init PROVE HistoryInv
  OBVIOUS
<1>1. rejections = {} /\ \A run, from : Within(run, from) = {}
  BY DEF Init, Within
<1>2. Cardinality({}) = 0 /\ IsFiniteSet({})
  BY FS_EmptySet
<1>3. Cardinality(Conns) \in Nat /\ FAILURE_LIMIT \in Nat /\ FAILURE_LIMIT >= 1
  BY GuessTyped, <1>2, FS_CardinalityType, BrokerAssumption
<1>4. GuessesBounded
  BY <1>1, <1>2, <1>3 DEF GuessesBounded
<1>5. QED
  BY <1>1, <1>2, <1>4 DEF HistoryInv

\* What is rejected now falls into windows whose rejections are all recent.
LEMMA RejectionWithin ==
  ASSUME TypeOK, TypeOK', HistoryInv, GuessInv', now' = now,
         NEW kept \in {failures, Recent}, recordFailure(kept)
  PROVE  HistoryInv'
<1> DEFINE f == [at |-> now, nth |-> used.failed, run |-> used.restarts]
<1>1. /\ rejections' = rejections \cup {f} /\ failures' = kept \cup {f}
      /\ used'.restarts = used.restarts /\ f.at = now /\ f.run = used.restarts
  BY DEF recordFailure, TypeOK
<1> HIDE DEF f
<1>2. IsFiniteSet(rejections')
  BY <1>1, FS_AddElement DEF HistoryInv
<1>3. \A r \in rejections' : r.at <= now' /\ r.run <= used'.restarts
  BY <1>1, HistoryTyped DEF HistoryInv
<1>4. \A r \in rejections' : r.run = used'.restarts /\ now' <= r.at + FAILURE_WINDOW => r \in failures'
  BY <1>1 DEF HistoryInv, Recent
<1>5. Cardinality(Recent') <= FAILURE_LIMIT - 1 + Cardinality(Conns) /\ IsFiniteSet(Recent')
  <2>1. IsFiniteSet(Recent')
    BY FS_Subset DEF GuessInv, Recent
  <2>2. Cardinality(Recent') \in Nat /\ Cardinality(Conns) \in Nat /\ FAILURE_LIMIT \in Nat
    BY <2>1, FS_CardinalityType, BrokerAssumption
  <2>3. QED
    BY <2>1, <2>2, VerifyingFinite DEF GuessInv
<1>6. ASSUME NEW run \in 0..used.restarts, NEW from \in 0..now
      PROVE  Cardinality(Within(run, from)') <= FAILURE_LIMIT - 1 + Cardinality(Conns)
  <2>1. CASE f \notin Within(run, from)'
    <3>1. Within(run, from)' = Within(run, from)
      BY <1>1, <2>1 DEF Within
    <3>2. QED
      BY <1>6, <3>1 DEF HistoryInv, GuessesBounded
  <2>2. CASE f \in Within(run, from)'
    <3>1. run = used.restarts /\ from \in Nat /\ now <= from + FAILURE_WINDOW
      BY <1>1, <1>6, <2>2, HistoryTyped DEF Within
    <3>2. \A r \in Within(run, from)' : r \in rejections' /\ r.at \in Nat /\ from <= r.at /\ r.run = run
      BY <3>1, HistoryTyped, <1>1 DEF Within
    <3>3. \A r \in Within(run, from)' : now <= r.at + FAILURE_WINDOW
      BY <3>1, <3>2, HistoryTyped
    <3>4. Within(run, from)' \in SUBSET Recent'
      BY <1>1, <1>4, <3>1, <3>2, <3>3 DEF Recent
    <3>5. Cardinality(Within(run, from)') <= Cardinality(Recent') /\ IsFiniteSet(Within(run, from)')
      BY <1>5, <3>4, FS_Subset
    <3>6. /\ Cardinality(Within(run, from)') \in Nat /\ Cardinality(Recent') \in Nat
          /\ Cardinality(Conns) \in Nat /\ FAILURE_LIMIT \in Nat
      BY <1>5, <3>5, FS_CardinalityType, BrokerAssumption
    <3>7. QED
      BY <1>5, <3>5, <3>6
  <2>3. QED
    BY <2>1, <2>2
<1>7. GuessesBounded'
  BY <1>1, <1>6 DEF GuessesBounded
<1>8. QED
  BY <1>2, <1>3, <1>4, <1>7 DEF HistoryInv

LEMMA NextHistoryInv ==
  TypeOK /\ TypeOK' /\ GuessInv' /\ HistoryInv /\ [Next]_vars => HistoryInv'
<1> SUFFICES ASSUME TypeOK, TypeOK', GuessInv', HistoryInv, [Next]_vars PROVE HistoryInv'
  OBVIOUS
<1>1. CASE /\ rejections' = rejections /\ now' = now /\ used'.restarts = used.restarts
           /\ failures' \in {failures, Recent}
  <2>1. \A run, from : Within(run, from)' = Within(run, from)
    BY <1>1 DEF Within
  <2>2. GuessesBounded'
    BY <1>1, <2>1 DEF HistoryInv, GuessesBounded
  <2>3. QED
    BY <1>1, <2>2 DEF HistoryInv, Recent
<1>2. CASE now' = now /\ \E kept \in {failures, Recent} : recordFailure(kept)
  BY <1>2, RejectionWithin
\* Of no window that begins later, or in a new run, has anything been seen yet.
<1>3. Cardinality({}) = 0 /\ 0 <= FAILURE_LIMIT - 1 + Cardinality(Conns)
  BY FS_EmptySet, FS_CardinalityType, BrokerAssumption
<1>4. CASE Tick
  <2>1. /\ rejections' = rejections /\ failures' = failures /\ used' = used /\ now' = now + 1
    BY <1>4 DEF Tick
  <2>2. \A r \in rejections : r.at <= now /\ r.at \in Nat
    BY HistoryTyped DEF HistoryInv
  <2>3. \A run, from : Within(run, from)' = Within(run, from)
    BY <2>1 DEF Within
  <2>4. \A run : Within(run, now + 1) = {}
    <3>1. \A r \in rejections : r.at \notin (now + 1)..(now + 1 + FAILURE_WINDOW)
      BY <2>2, HistoryTyped
    <3>2. QED
      BY <3>1 DEF Within
  <2>5. \A from \in 0..(now + 1) : from \in 0..now \/ from = now + 1
    BY HistoryTyped
  <2>6. GuessesBounded'
    BY <1>3, <2>1, <2>3, <2>4, <2>5 DEF HistoryInv, GuessesBounded
  <2>7. \A r \in rejections : now + 1 <= r.at + FAILURE_WINDOW => now <= r.at + FAILURE_WINDOW
    BY ONLY <2>2, HistoryTyped, TypeOK
  <2>8. \A r \in rejections : r.at <= now + 1
    BY <2>2, HistoryTyped
  <2>9. QED
    BY <2>1, <2>6, <2>7, <2>8 DEF HistoryInv
<1>5. CASE Restart
  <2>1. rejections' = rejections /\ now' = now /\ used'.restarts = used.restarts + 1
    BY <1>5 DEF Restart, world, TypeOK
  <2>2. \A r \in rejections : r.run <= used.restarts /\ r.run \in Nat
    BY HistoryTyped DEF HistoryInv
  <2>3. \A run, from : Within(run, from)' = Within(run, from)
    BY <2>1 DEF Within
  <2>4. \A r \in rejections : r.run # used.restarts + 1 /\ r.run <= used.restarts + 1
    BY <2>2, HistoryTyped
  <2>5. \A from : Within(used.restarts + 1, from) = {}
    BY <2>4 DEF Within
  <2>6. \A run \in 0..(used.restarts + 1) : run \in 0..used.restarts \/ run = used.restarts + 1
    BY HistoryTyped
  <2>7. GuessesBounded'
    BY <1>3, <2>1, <2>3, <2>5, <2>6 DEF HistoryInv, GuessesBounded
  <2>8. QED
    BY <2>1, <2>4, <2>7 DEF HistoryInv
<1>6. ASSUME NEW c \in Conns, Arrive(c) \/ Serve(c)
      PROVE  /\ now' = now
             /\ \/ rejections' = rejections /\ used' = used /\ failures' \in {failures, Recent}
                \/ \E kept \in {failures, Recent} : recordFailure(kept)
  BY <1>6 DEF Arrive, Serve, LockedOut, BadRequest, PostChallenge, PostRejected, PostVerifying,
     SignatureInvalid, TaskStarts, TaskRefused, TaskEnds, world
<1>7. ASSUME (\E n \in 1..MaxNonces : Sign(n)) \/ Toggle \/ UNCHANGED vars
      PROVE  rejections' = rejections /\ now' = now /\ used'.restarts = used.restarts /\ failures' = failures
  BY <1>7 DEF Sign, Toggle, vars, TypeOK
<1>8. QED
  BY <1>1, <1>2, <1>4, <1>5, <1>6, <1>7 DEF Next

LEMMA GuessBounds == HistoryInv => GuessesBounded
  BY DEF HistoryInv

(* Guessing approvals stays bounded within any window of a run of the      *)
(* broker, counted over all rejections there were, although the lock is    *)
(* looked at before the signature is verified and never again, and the     *)
(* broker drops what is older than the window.                             *)
THEOREM GuessingBounded == Spec => []GuessesBounded
<1> DEFINE Inv == TypeInv /\ GuessInv /\ HistoryInv
<1>1. Init => Inv
  BY InitTypeInv, InitGuessInv, InitHistoryInv
<1>2. Inv /\ [Next]_vars => Inv'
  <2>1. TypeInv => TypeOK
    BY DEF TypeInv
  <2>2. TypeInv' => TypeOK'
    BY DEF TypeInv
  <2>3. QED
    BY <2>1, <2>2, NextTypeInv, NextGuessInv, NextHistoryInv
<1>3. Inv => GuessesBounded
  BY GuessBounds
<1>4. QED
  BY <1>1, <1>2, <1>3, PTL DEF Spec

-----------------------------------------------------------------------------
(* The gate's memory.                                                      *)

(* Sweeping leaves at most MAX_PENDING challenges: how many newer ones     *)
(* each of them has tells them apart, and is below the limit.              *)
LEMMA SweptBounded ==
  ASSUME TypeOK
  PROVE  IsFiniteSet(Swept) /\ Cardinality(Swept) <= MAX_PENDING
<1> DEFINE newer(n) == {m \in Live : m > n}
           rank == [n \in Swept |-> Cardinality(newer(n))]
<1>1. IsFiniteSet(Live) /\ Live \in SUBSET Nat /\ Swept \in SUBSET Live
  <2>1. DOMAIN issued = 1..Len(issued) /\ Len(issued) \in Nat
    BY DEF TypeOK
  <2>2. Live \in SUBSET (1..Len(issued))
    BY <2>1 DEF TypeOK, Live
  <2>3. IsFiniteSet(1..Len(issued))
    BY <2>1, FS_Interval
  <2>4. IsFiniteSet(Live)
    BY <2>2, <2>3, FS_Subset
  <2>5. Live \in SUBSET Nat
    BY <2>1, <2>2
  <2>6. QED
    BY <2>4, <2>5 DEF Swept
<1>2. ASSUME NEW n \in Live
      PROVE  newer(n) \in SUBSET Live /\ IsFiniteSet(newer(n)) /\ Cardinality(newer(n)) \in Nat
  <2>1. newer(n) \in SUBSET Live
    OBVIOUS
  <2>2. QED
    BY <1>1, <2>1, FS_Subset, FS_CardinalityType
<1>3. ASSUME NEW m \in Live, NEW n \in Live, m > n
      PROVE  Cardinality(newer(m)) < Cardinality(newer(n))
  <2>1. newer(m) \cup {m} \in SUBSET newer(n) /\ m \notin newer(m)
    <3>1. m \in Nat /\ n \in Nat /\ \A k \in newer(m) : k \in Live /\ k \in Nat /\ k > m
      BY <1>1
    <3>2. \A k \in newer(m) : k > n
      BY <1>3, <3>1
    <3>3. m \in newer(n) /\ newer(m) \in SUBSET newer(n)
      BY <1>3, <3>1, <3>2
    <3>4. m \notin newer(m)
      BY <3>1
    <3>5. QED
      BY <3>3, <3>4
  <2>2. Cardinality(newer(m) \cup {m}) = Cardinality(newer(m)) + 1
    BY <1>2, <2>1, FS_AddElement
  <2>3. Cardinality(newer(m) \cup {m}) <= Cardinality(newer(n))
    BY <1>2, <2>1, FS_Subset
  <2>4. Cardinality(newer(m)) \in Nat /\ Cardinality(newer(n)) \in Nat
    BY <1>2
  <2> HIDE DEF newer
  <2>5. QED
    BY <2>2, <2>3, <2>4
<1>4. MAX_PENDING \in Nat /\ IsFiniteSet(0..(MAX_PENDING - 1))
      /\ Cardinality(0..(MAX_PENDING - 1)) = MAX_PENDING
  <2>1. MAX_PENDING \in Nat /\ MAX_PENDING >= 1 /\ 0 \in Int /\ MAX_PENDING - 1 \in Int
    BY BrokerAssumption
  <2>2. /\ IsFiniteSet(0..(MAX_PENDING - 1))
        /\ Cardinality(0..(MAX_PENDING - 1)) =
             IF 0 > MAX_PENDING - 1 THEN 0 ELSE MAX_PENDING - 1 - 0 + 1
    BY <2>1, FS_Interval
  <2>3. QED
    BY <2>1, <2>2
<1>5. rank \in Injection(Swept, 0..(MAX_PENDING - 1))
  <2>1. \A n \in Swept : Cardinality(newer(n)) \in 0..(MAX_PENDING - 1)
    <3>1. \A n \in Swept : Cardinality(newer(n)) < MAX_PENDING
      BY DEF Swept
    <3>2. QED
      BY <1>1, <1>2, <1>4, <3>1
  <2>2. ASSUME NEW m \in Swept, NEW n \in Swept, m # n
        PROVE  Cardinality(newer(m)) # Cardinality(newer(n))
    <3>1. m \in Live /\ n \in Live /\ (m > n \/ n > m)
      BY <1>1, <2>2
    <3>2. QED
      BY <1>2, <1>3, <3>1
  <2>3. QED
    BY <2>1, <2>2 DEF Injection, IsInjective
<1>6. QED
  BY <1>4, <1>5, FS_Injection

PendingInv == IsFiniteSet(pending) /\ PendingBounded

LEMMA NextPendingInv == TypeOK /\ PendingInv /\ [Next]_vars => PendingInv'
<1> SUFFICES ASSUME TypeOK, PendingInv, [Next]_vars PROVE PendingInv'
  OBVIOUS
<1>1. ASSUME pending' \in SUBSET pending PROVE PendingInv'
  <2>1. /\ IsFiniteSet(pending') /\ Cardinality(pending') \in Nat
        /\ Cardinality(pending) \in Nat /\ Cardinality(pending') <= Cardinality(pending)
    BY <1>1, FS_Subset, FS_CardinalityType DEF PendingInv
  <2>2. QED
    BY <2>1, BrokerAssumption DEF PendingInv, PendingBounded
<1>2. ASSUME pending' = Swept \cup {Len(issued) + 1} PROVE PendingInv'
  <2>1. IsFiniteSet(pending') /\ Cardinality(pending') <= Cardinality(Swept) + 1
    BY <1>2, SweptBounded, AddOne
  <2>2. Cardinality(pending') \in Nat /\ Cardinality(Swept) \in Nat
    BY <2>1, SweptBounded, FS_CardinalityType
  <2>3. QED
    BY <2>1, <2>2, SweptBounded, BrokerAssumption DEF PendingInv, PendingBounded
<1>3. CASE \E c \in Conns, purpose \in Purpose, h \in Hashes : PostChallenge(c, purpose, h)
  BY <1>2, <1>3 DEF PostChallenge, issue
<1>4. CASE \E n : Present(n)
  BY <1>1, <1>4 DEF Present
<1>5. CASE pending' \in {pending, {}}
  BY <1>1, <1>5
<1>6. QED
  BY <1>3, <1>4, <1>5 DEF Next, Serve, Arrive, LockedOut, BadRequest,
     PostRejected, PostVerifying, SignatureInvalid, TaskStarts, TaskRefused, TaskEnds,
     Sign, Toggle, Tick, Restart, vars

(* The gate never keeps more than one challenge above its limit.           *)
THEOREM MemoryBounded == Spec => []PendingBounded
<1>1. Init => PendingInv
  BY FS_EmptySet, BrokerAssumption DEF Init, PendingInv, PendingBounded
<1>2. PendingInv => PendingBounded
  BY DEF PendingInv
<1>3. QED
  BY <1>1, <1>2, NextPendingInv, TypeCorrect, PTL DEF Spec

(* Nothing but being presented, expiry, a restart or MAX_PENDING newer     *)
(* challenges takes a challenge away from the operator who is signing it.  *)
THEOREM ChallengesSurvive == Spec => ChallengeSurvives
<1> DEFINE Survives(n) ==
      \/ n \in presented'
      \/ Expired(n)
      \/ Cardinality({m \in pending : m > n}) >= MAX_PENDING
      \/ used'.restarts # used.restarts
<1>1. ASSUME TypeOK, IsFiniteSet(pending), [Next]_vars, NEW n \in pending \ pending'
      PROVE  Survives(n)
  <2>1. CASE \E c \in Conns, purpose \in Purpose, h \in Hashes : PostChallenge(c, purpose, h)
    <3>1. n \notin Swept
      BY <1>1, <2>1 DEF PostChallenge, issue
    <3>2. CASE n \notin Live
      BY <1>1, <3>2 DEF Live
    <3>3. CASE n \in Live
      <4>1. ~(Cardinality({m \in Live : m > n}) < MAX_PENDING)
        BY <3>1, <3>3 DEF Swept
      <4>2. {m \in Live : m > n} \in SUBSET {m \in pending : m > n}
        BY DEF Live
      <4>3. IsFiniteSet({m \in pending : m > n})
        BY <1>1, FS_Subset
      <4>4. /\ IsFiniteSet({m \in Live : m > n})
            /\ Cardinality({m \in Live : m > n}) <= Cardinality({m \in pending : m > n})
        BY <4>2, <4>3, FS_Subset
      <4>5. Cardinality({m \in Live : m > n}) \in Nat /\ Cardinality({m \in pending : m > n}) \in Nat
        BY <4>3, <4>4, FS_CardinalityType
      <4>6. Cardinality({m \in pending : m > n}) >= MAX_PENDING
        BY <4>1, <4>4, <4>5, BrokerAssumption
      <4>7. QED
        BY <4>6
    <3>4. QED
      BY <3>2, <3>3
  <2>2. CASE Restart
    <3>1. used \in [{"failed", "restarts", "toggles"} -> Nat]
      BY <1>1 DEF TypeOK
    <3>2. used' = [used EXCEPT !.restarts = @ + 1]
      BY <2>2 DEF Restart
    <3>3. used'.restarts = used.restarts + 1 /\ used.restarts \in Nat
      BY <3>1, <3>2
    <3>4. QED
      BY <3>3
  <2>3. CASE \E k : Present(k)
    BY <1>1, <2>3 DEF Present, TypeOK
  <2>4. CASE pending' = pending
    BY <1>1, <2>4
  <2>5. QED
    BY <1>1, <2>1, <2>2, <2>3, <2>4 DEF Next, Serve, Arrive, LockedOut, BadRequest,
       PostRejected, PostVerifying, SignatureInvalid, TaskStarts, TaskRefused, TaskEnds,
       Sign, Toggle, Tick, vars
<1>2. TypeOK /\ PendingInv /\ [Next]_vars => [\A n \in pending \ pending' : Survives(n)]_pending
  BY <1>1 DEF PendingInv
<1>3. Init => PendingInv
  BY FS_EmptySet, BrokerAssumption DEF Init, PendingInv, PendingBounded
<1>4. QED
  BY <1>2, <1>3, NextPendingInv, TypeCorrect, PTL DEF Spec, ChallengeSurvives

=============================================================================
