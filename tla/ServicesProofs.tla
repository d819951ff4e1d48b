--------------------------- MODULE ServicesProofs ---------------------------
(***************************************************************************)
(* What holds of the parts that share no state, for every value of their   *)
(* constants.                                                              *)
(***************************************************************************)
EXTENDS Services, WellFoundedInduction, SequenceTheorems, FiniteSetTheorems, TLAPS

-----------------------------------------------------------------------------
(* Fleet ingest.                                                           *)

FleetTyped ==
  /\ hubTime \in Nat /\ skew \in Int
  /\ sent \in Seq(Int)
  /\ pushes \subseteq 1..Len(sent)
  /\ nonces \subseteq [push : 1..Len(sent), at : Nat]
  /\ row \in [push : 0..Len(sent), lastSeen : Nat]
  /\ stored \subseteq [push : 1..Len(sent), ts : Nat]
  /\ restarts \subseteq Nat

(* What the hub stored it took in time, and it still knows the nonce, would*)
(* take it for too old or was started again since: it only forgets a nonce *)
(* when the window has passed on both sides of the time the node wrote, or *)
(* with all the others.  Every time at which something was stored has a row*)
(* that was.                                                               *)
Remembered(m) ==
  \/ \E k \in nonces : k.push = m.push
  \/ sent[m.push] + OfFleet.WINDOW < hubTime
  \/ \E r \in restarts : m.ts <= r

FleetInv ==
  /\ FleetTyped
  /\ \A k \in nonces : k.at <= hubTime /\ sent[k.push] - k.at \in -OfFleet.WINDOW..OfFleet.WINDOW
  /\ \A m \in stored :
       /\ m.ts <= hubTime /\ sent[m.push] - m.ts \in -OfFleet.WINDOW..OfFleet.WINDOW
       /\ Remembered(m)
  /\ \A r \in restarts : r <= hubTime
  /\ \A m \in stored : \E e \in metrics : e.ts = m.ts /\ e \in stored
  /\ row.push # 0 => sent[row.push] >= row.lastSeen - OfFleet.WINDOW
  /\ \A r \in replies : r.ok => \E m \in stored : m.push = r.push
  /\ lastPush.ok => \E m \in stored : m.push = lastPush.push
  /\ F!StoredOnce

LEMMA FleetNat ==
  /\ OfFleet.WINDOW \in Nat /\ OfFleet.NONCE_AGE \in Nat
  /\ OfFleet.NONCE_AGE >= 2 * OfFleet.WINDOW /\ OfFleet.OFFLINE \in Nat
  /\ OfFleet.Skews \subseteq Int
  BY ServicesAssumption DEF F!FleetIngestAssumption

LEMMA FleetInit == F!Init => FleetInv
  BY FleetNat DEF F!Init, FleetInv, FleetTyped, F!StoredOnce

LEMMA FleetPush == FleetInv /\ F!push => FleetInv'
<1> SUFFICES ASSUME FleetInv, F!push PROVE FleetInv'
  OBVIOUS
<1>1. /\ hubTime \in Nat /\ skew \in Int /\ sent \in Seq(Int) /\ sent' = Append(sent, hubTime + skew)
      /\ pushes' = pushes \cup {Len(sent')}
      /\ UNCHANGED <<hubTime, skew, lastPush, replies, nonces, row, metrics, stored, restarts>>
  BY DEF F!push, F!hubVars, FleetInv, FleetTyped
<1>2. /\ sent' \in Seq(Int) /\ Len(sent') = Len(sent) + 1
      /\ \A n \in 1..Len(sent) : sent'[n] = sent[n]
  BY <1>1
<1>3. /\ Len(sent) \in Nat /\ 0..Len(sent) \subseteq 0..Len(sent')
      /\ 1..Len(sent) \subseteq 1..Len(sent') /\ Len(sent') \in 1..Len(sent')
  BY <1>1, <1>2
<1>4. FleetTyped'
  <2>1. nonces' \subseteq [push : 1..Len(sent'), at : Nat]
    BY <1>1, <1>3 DEF FleetInv, FleetTyped
  <2>2. stored' \subseteq [push : 1..Len(sent'), ts : Nat]
    BY <1>1, <1>3 DEF FleetInv, FleetTyped
  <2>3. row' \in [push : 0..Len(sent'), lastSeen : Nat]
    BY <1>1, <1>3 DEF FleetInv, FleetTyped
  <2>4. pushes' \subseteq 1..Len(sent')
    BY <1>1, <1>3 DEF FleetInv, FleetTyped
  <2>5. QED
    BY <1>1, <1>2, <2>1, <2>2, <2>3, <2>4 DEF FleetInv, FleetTyped
<1>5. /\ \A k \in nonces : k.push \in 1..Len(sent)
      /\ \A m \in stored : m.push \in 1..Len(sent)
      /\ row.push # 0 => row.push \in 1..Len(sent)
  BY DEF FleetInv, FleetTyped
<1>6. \A m \in stored : Remembered(m)'
  BY <1>1, <1>2, <1>5 DEF FleetInv, Remembered
<1>7. QED
  BY <1>1, <1>2, <1>4, <1>5, <1>6 DEF FleetInv, F!StoredOnce

LEMMA FleetTick == FleetInv /\ F!Tick => FleetInv'
<1> SUFFICES ASSUME FleetInv, F!Tick PROVE FleetInv'
  OBVIOUS
<1>1. /\ hubTime \in Nat /\ hubTime' = hubTime + 1
      /\ UNCHANGED <<skew, sent, lastPush, pushes, replies, nonces, row, metrics, stored, restarts>>
  BY DEF F!Tick, F!nodeVars, F!netVars, F!hubVars, FleetInv, FleetTyped
<1>2. FleetTyped'
  BY <1>1 DEF FleetInv, FleetTyped
<1>3. /\ \A k \in nonces : k.at \in Nat
      /\ \A m \in stored : sent[m.push] \in Int /\ m.ts \in Nat
      /\ \A r \in restarts : r \in Nat
  BY DEF FleetInv, FleetTyped
<1>4. \A m \in stored : Remembered(m)'
  BY <1>1, <1>3, FleetNat DEF FleetInv, Remembered
<1>5. QED
  BY <1>1, <1>2, <1>3, <1>4, FleetNat DEF FleetInv, F!StoredOnce

LEMMA FleetPushEnds == ASSUME FleetInv, NEW n, F!PushEnds(n) PROVE FleetInv'
<1>1. /\ UNCHANGED <<hubTime, skew, sent, pushes, nonces, row, metrics, stored, restarts>>
      /\ \/ lastPush' \in replies /\ replies' \subseteq replies
         \/ lastPush' = [push |-> n, ok |-> FALSE] /\ replies' = replies
  BY DEF F!PushEnds, F!hubVars
<1>2. lastPush'.ok => \E m \in stored : m.push = lastPush'.push
  BY <1>1 DEF FleetInv
<1>3. FleetTyped'
  BY <1>1 DEF FleetInv, FleetTyped
<1>4. \A r \in replies' : r.ok => \E m \in stored' : m.push = r.push
  BY <1>1 DEF FleetInv
<1>5. QED
  BY <1>1, <1>2, <1>3, <1>4 DEF FleetInv, F!StoredOnce, Remembered

LEMMA FleetNetwork == ASSUME FleetInv, NEW n, F!Network(n) PROVE FleetInv'
<1>1. /\ UNCHANGED <<hubTime, skew, sent, lastPush, replies, nonces, row, metrics, stored, restarts>>
      /\ pushes' \subseteq 1..Len(sent)
  BY DEF F!Network, F!nodeVars, F!hubVars, FleetInv, FleetTyped
<1>2. FleetTyped'
  BY <1>1 DEF FleetInv, FleetTyped
<1>3. QED
  BY <1>1, <1>2 DEF FleetInv, F!StoredOnce, Remembered

\* What the hub forgets when it is started again it has been started again since.
LEMMA FleetRestart == FleetInv /\ F!Restart => FleetInv'
<1> SUFFICES ASSUME FleetInv, F!Restart PROVE FleetInv'
  OBVIOUS
<1>1. /\ nonces' = {} /\ restarts' = restarts \cup {hubTime} /\ hubTime \in Nat
      /\ UNCHANGED <<hubTime, skew, sent, lastPush, pushes, replies, row, metrics, stored>>
  BY DEF F!Restart, F!nodeVars, F!netVars, FleetInv, FleetTyped
<1>2. FleetTyped'
  BY <1>1 DEF FleetInv, FleetTyped
<1>3. \A m \in stored : Remembered(m)'
  BY <1>1 DEF FleetInv, Remembered
<1>4. F!StoredOnce'
  BY <1>1 DEF FleetInv, F!StoredOnce
<1>5. \A r \in restarts' : r <= hubTime
  BY <1>1 DEF FleetInv
<1>6. QED
  BY <1>1, <1>2, <1>3, <1>4, <1>5 DEF FleetInv

\* A nonce outlives the window in which its request would be taken once more.
LEMMA FleetWindow ==
  ASSUME NEW w \in Nat, NEW age \in Nat, age >= 2 * w, NEW taken \in Nat, NEW t \in Nat, NEW s \in Int,
         s - taken \in -w..w, ~(s + w < t)
  PROVE  taken >= t - age
  OBVIOUS

LEMMA FleetIngest == ASSUME FleetInv, NEW n, F!Ingest(n) PROVE FleetInv'
<1> DEFINE known == F!cleanupNonces(nonces)
           k == [push |-> n, at |-> hubTime]
           m == [push |-> n, ts |-> hubTime]
<1>1. /\ n \in pushes /\ pushes' \subseteq pushes
      /\ UNCHANGED <<hubTime, skew, sent, waiting, lastPush, restarts>>
  BY DEF F!Ingest, F!nodeVars
<1>2. /\ hubTime \in Nat /\ sent \in Seq(Int) /\ n \in 1..Len(sent) /\ sent[n] \in Int
  BY <1>1 DEF FleetInv, FleetTyped
<1>3. known = {j \in nonces : j.at >= hubTime - OfFleet.NONCE_AGE}
  BY DEF F!cleanupNonces
<1> HIDE DEF known
<1>4. /\ \A j \in nonces : /\ j.push \in 1..Len(sent) /\ j.at \in Nat /\ j.at <= hubTime
                          /\ sent[j.push] \in Int
                          /\ sent[j.push] - j.at \in -OfFleet.WINDOW..OfFleet.WINDOW
      /\ \A e \in stored : e.push \in 1..Len(sent) /\ sent[e.push] \in Int /\ e.ts \in Nat
  BY DEF FleetInv, FleetTyped
\* What is still known, too old to be taken again or from before a restart stays so.
<1>5. \A e \in stored : \/ \E j \in known : j.push = e.push
                        \/ sent[e.push] + OfFleet.WINDOW < hubTime
                        \/ \E r \in restarts : e.ts <= r
  <2> SUFFICES ASSUME NEW e \in stored, ~(sent[e.push] + OfFleet.WINDOW < hubTime),
                      ~\E r \in restarts : e.ts <= r
               PROVE  \E j \in known : j.push = e.push
    OBVIOUS
  <2>1. PICK j \in nonces : j.push = e.push
    BY DEF FleetInv, Remembered
  <2>2. /\ sent[e.push] \in Int /\ j.at \in Nat /\ sent[e.push] - j.at \in -OfFleet.WINDOW..OfFleet.WINDOW
        /\ ~(sent[e.push] + OfFleet.WINDOW < hubTime)
    BY <1>4, <2>1
  <2>3. j.at >= hubTime - OfFleet.NONCE_AGE
    BY <1>2, <2>2, FleetNat, FleetWindow
  <2>4. j \in known
    BY <1>3, <2>1, <2>3
  <2>5. QED
    BY <2>1, <2>4
<1>6. CASE /\ nonces' = known /\ F!Answered(n, FALSE) /\ UNCHANGED <<row, metrics, stored>>
  <2>1. \A r \in replies' : r.ok => r \in replies
    BY <1>6 DEF F!Answered
  <2>2. FleetTyped'
    BY <1>1, <1>3, <1>6 DEF FleetInv, FleetTyped
  <2>3. nonces' \subseteq nonces
    BY <1>3, <1>6
  <2>4. \A e \in stored' : Remembered(e)'
    BY <1>1, <1>5, <1>6 DEF Remembered
  <2>5. F!StoredOnce'
    BY <1>1, <1>6 DEF FleetInv, F!StoredOnce
  <2>6. \A r \in replies' : r.ok => \E e \in stored' : e.push = r.push
    BY <1>6, <2>1 DEF FleetInv
  <2>7. QED
    BY <1>1, <1>6, <2>2, <2>3, <2>4, <2>5, <2>6 DEF FleetInv
<1>7. CASE /\ F!Timely(n) /\ nonces' = known \cup {k}
           /\ ~\E j \in known : j.push = n
           /\ \/ F!Stored(n) /\ F!Answered(n, TRUE)
              \/ F!Answered(n, FALSE) /\ UNCHANGED <<row, metrics, stored>>
  <2>1. sent[n] - hubTime \in -OfFleet.WINDOW..OfFleet.WINDOW
    BY <1>7 DEF F!Timely
  <2>2. k \in [push : 1..Len(sent), at : Nat] /\ k.push = n /\ k.at = hubTime
    BY <1>2
  <2>3. m \in [push : 1..Len(sent), ts : Nat] /\ m.push = n /\ m.ts = hubTime
    BY <1>2
  <2> HIDE DEF k, m
  <2>4. nonces' = known \cup {k} /\ ~\E j \in known : j.push = n
    BY <1>7
  <2>5. /\ nonces' \subseteq [push : 1..Len(sent), at : Nat]
        /\ \A j \in nonces' : j.at <= hubTime /\ sent[j.push] - j.at \in -OfFleet.WINDOW..OfFleet.WINDOW
    <3>1. known \subseteq nonces /\ nonces \subseteq [push : 1..Len(sent), at : Nat]
      BY <1>3 DEF FleetInv, FleetTyped
    <3>2. nonces' \subseteq [push : 1..Len(sent), at : Nat]
      BY <2>2, <2>4, <3>1
    <3>3. ASSUME NEW j \in nonces'
          PROVE  j.at <= hubTime /\ sent[j.push] - j.at \in -OfFleet.WINDOW..OfFleet.WINDOW
      <4>1. CASE j \in nonces
        BY <1>4, <4>1
      <4>2. CASE j = k
        BY <1>2, <2>1, <2>2, <4>2
      <4>3. QED
        BY <2>4, <3>1, <3>3, <4>1, <4>2
    <3>4. QED
      BY <3>2, <3>3
  <2>6. CASE F!Stored(n) /\ F!Answered(n, TRUE)
    <3>1. /\ row' = [push |-> n, lastSeen |-> hubTime] /\ stored' = stored \cup {m}
          /\ metrics' = {e \in metrics : e.ts # hubTime} \cup {m}
      BY <2>6 DEF F!Stored, m
    \* A push that is stored again was forgotten in a restart, and is in time both times.
    <3>2. ASSUME NEW e \in stored, e.push = n
          PROVE  (\E r \in restarts : r \in e.ts..hubTime) /\ hubTime <= e.ts + 2 * OfFleet.WINDOW
      <4>1. ~(sent[n] + OfFleet.WINDOW < hubTime)
        BY <1>2, <2>1, FleetNat, SMTT(30)
      <4>2. PICK r \in restarts : e.ts <= r
        BY <1>5, <2>4, <3>2, <4>1
      <4>3. e.ts \in Nat /\ r \in Nat /\ r <= hubTime
        BY <1>4 DEF FleetInv, FleetTyped
      <4>4. r \in e.ts..hubTime
        BY <1>2, <4>2, <4>3
      <4>5. sent[n] - e.ts \in -OfFleet.WINDOW..OfFleet.WINDOW
        BY <3>2 DEF FleetInv
      <4>6. hubTime <= e.ts + 2 * OfFleet.WINDOW
        BY <1>2, <2>1, <4>3, <4>5, FleetNat, SMTT(30)
      <4>7. QED
        BY <4>4, <4>6
    <3>3. F!StoredOnce'
      <4> SUFFICES ASSUME NEW a \in stored', NEW b \in stored', a.push = b.push, a.ts < b.ts
                   PROVE  (\E r \in restarts : r \in a.ts..b.ts) /\ b.ts <= a.ts + 2 * OfFleet.WINDOW
        BY <1>1 DEF F!StoredOnce
      <4>1. CASE a \in stored /\ b \in stored
        BY <4>1 DEF FleetInv, F!StoredOnce
      <4>2. CASE a = m
        <5>1. b.ts \in Nat /\ b.ts <= hubTime
          BY <1>2, <1>4, <2>3, <3>1 DEF FleetInv
        <5>2. QED
          BY <1>2, <2>3, <4>2, <5>1
      <4>3. CASE a \in stored /\ b = m
        BY <2>3, <3>2, <4>3
      <4>4. QED
        BY <3>1, <4>1, <4>2, <4>3
    <3>4. \A r \in replies' : r \in replies \/ r.push = n
      BY <2>6 DEF F!Answered
    <3>5. \A r \in replies' : r.ok => \E e \in stored' : e.push = r.push
      BY <2>3, <3>1, <3>4 DEF FleetInv
    <3>6. lastPush'.ok => \E e \in stored' : e.push = lastPush'.push
      BY <1>1, <3>1 DEF FleetInv
    <3>7. row' \in [push : 0..Len(sent), lastSeen : Nat] /\ row'.push = n /\ row'.lastSeen = hubTime
      BY <1>2, <3>1
    <3>8. sent[row'.push] >= row'.lastSeen - OfFleet.WINDOW
      BY <1>2, <2>1, <3>7, FleetNat, SMTT(30)
    <3>9. \A e \in stored' : Remembered(e)'
      BY <1>1, <1>5, <2>2, <2>3, <2>4, <3>1 DEF Remembered
    <3>10. FleetTyped'
      BY <1>1, <2>3, <2>5, <3>1, <3>7 DEF FleetInv, FleetTyped
    <3>11. \A e \in stored' : \E d \in metrics' : d.ts = e.ts /\ d \in stored'
      <4> SUFFICES ASSUME NEW e \in stored' PROVE \E d \in metrics' : d.ts = e.ts /\ d \in stored'
        OBVIOUS
      <4>1. CASE e.ts = hubTime
        BY <2>3, <3>1, <4>1
      <4>2. CASE e.ts # hubTime
        <5>1. PICK d \in metrics : d.ts = e.ts /\ d \in stored
          BY <2>3, <3>1, <4>2 DEF FleetInv
        <5>2. QED
          BY <3>1, <4>2, <5>1
      <4>3. QED
        BY <4>1, <4>2
    <3>12. \A e \in stored' : e.ts <= hubTime /\ sent[e.push] - e.ts \in -OfFleet.WINDOW..OfFleet.WINDOW
      <4>1. \A e \in stored : e.ts <= hubTime /\ sent[e.push] - e.ts \in -OfFleet.WINDOW..OfFleet.WINDOW
        BY DEF FleetInv
      <4>2. m.ts <= hubTime /\ sent[m.push] - m.ts \in -OfFleet.WINDOW..OfFleet.WINDOW
        BY <1>2, <2>1, <2>3
      <4>3. QED
        BY <3>1, <4>1, <4>2
    <3>13. QED
      BY <1>1, <2>5, <3>3, <3>5, <3>6, <3>8, <3>9, <3>10, <3>11, <3>12 DEF FleetInv
  <2>7. CASE F!Answered(n, FALSE) /\ UNCHANGED <<row, metrics, stored>>
    <3>1. \A r \in replies' : r.ok => r \in replies
      BY <2>7 DEF F!Answered
    <3>2. FleetTyped'
      BY <1>1, <2>5, <2>7 DEF FleetInv, FleetTyped
    <3>3. \A e \in stored' : Remembered(e)'
      BY <1>1, <1>5, <2>4, <2>7 DEF Remembered
    <3>4. QED
      BY <1>1, <2>5, <2>7, <3>1, <3>2, <3>3 DEF FleetInv, F!StoredOnce
  <2>8. QED
    BY <1>7, <2>6, <2>7
<1>8. QED
  BY <1>6, <1>7 DEF F!Ingest, known

LEMMA FleetStep == FleetInv /\ F!Next => FleetInv'
  BY FleetTick, FleetPush, FleetPushEnds, FleetNetwork, FleetIngest, FleetRestart DEF F!Next

LEMMA FleetImplies == FleetInv => F!OnlineMeansRecent /\ F!StoredOnce /\ F!PushIsStored
<1>1. ASSUME FleetInv, F!Online
      PROVE  hubTime - (sent[row.push] - skew) <= OfFleet.OFFLINE + OfFleet.WINDOW + skew
  <2>1. /\ hubTime \in Nat /\ skew \in Int /\ row.lastSeen \in Nat /\ sent[row.push] \in Int
        /\ sent[row.push] >= row.lastSeen - OfFleet.WINDOW /\ hubTime - row.lastSeen <= OfFleet.OFFLINE
    BY <1>1 DEF FleetInv, FleetTyped, F!Online
  <2>2. QED
    BY <2>1, FleetNat
<1>2. FleetInv => F!PushIsStored
  BY DEF FleetInv, F!PushIsStored
<1>3. QED
  BY <1>1, <1>2 DEF FleetInv, F!OnlineMeansRecent

-----------------------------------------------------------------------------
(* Discovery.                                                              *)

DiscoverySettings == [on : SUBSET OfDiscovery.Targets, off : SUBSET OfDiscovery.Targets,
                      roots : SUBSET OfDiscovery.Targets]
DiscoverySnapshot == [items : SUBSET OfDiscovery.Targets, roots : SUBSET OfDiscovery.Targets,
                      generatedAt : Nat]
SetupPage == [at : {"closed", "open", "asking", "waiting"}, began : SUBSET OfDiscovery.Targets,
              selected : SUBSET OfDiscovery.Targets, disabled : SUBSET OfDiscovery.Targets,
              snapshot : DiscoverySnapshot, settings : DiscoverySettings]

DiscoveryTyped ==
  /\ host \subseteq OfDiscovery.Targets
  /\ snapshot \in DiscoverySnapshot /\ settings \in DiscoverySettings /\ setupPage \in SetupPage
  /\ discoveryScan \in [at : {"idle", "begun", "reading"}, roots : SUBSET OfDiscovery.Targets]

(* What is switched off and was not thrown away is in the settings, and the*)
(* page that was opened over it has it as selected or as switched off: none*)
(* of the two ever has a target both on and off.                           *)
DiscoveryInv ==
  /\ DiscoveryTyped
  /\ settings.on \cap settings.off = {} /\ setupPage.selected \cap setupPage.disabled = {}
  /\ setupPage.settings.on \cap setupPage.settings.off = {}
  /\ excluded \ dropped \subseteq settings.off
  /\ (excluded \ dropped) \cap setupPage.began \subseteq setupPage.selected \cup setupPage.disabled
  /\ D!RescansAreKept

LEMMA DiscoverySets ==
  OfDiscovery.Automatic \subseteq OfDiscovery.Targets /\ OfDiscovery.Narrow \subseteq OfDiscovery.Targets
  BY ServicesAssumption DEF D!DiscoveryAssumption

LEMMA DiscoveryInit == D!Init => DiscoveryInv
<1> SUFFICES ASSUME D!Init PROVE DiscoveryInv
  OBVIOUS
<1>1. /\ host = OfDiscovery.Targets /\ snapshot \in DiscoverySnapshot /\ settings \in DiscoverySettings
      /\ settings.on = {} /\ settings.off = {}
      /\ discoveryScan \in [at : {"idle", "begun", "reading"}, roots : SUBSET OfDiscovery.Targets]
  BY DEF D!Init, D!First, D!Unset, D!Idle, DiscoverySnapshot, DiscoverySettings
<1>2. /\ setupPage \in SetupPage /\ setupPage.settings.on = {} /\ setupPage.selected = {}
      /\ setupPage.began = {}
  BY DEF D!Init, D!Closed, D!First, D!Unset, SetupPage, DiscoverySnapshot, DiscoverySettings
<1>3. excluded = {} /\ owed = FALSE
  BY DEF D!Init
<1>4. QED
  BY <1>1, <1>2, <1>3 DEF DiscoveryInv, DiscoveryTyped, D!RescansAreKept

(* The host and the collector leave the settings and the page alone.       *)
LEMMA DiscoveryCollector ==
  ASSUME DiscoveryInv,
         \/ \E t \in OfDiscovery.Targets : D!Changes(t)
         \/ D!discoveryTick \/ D!tick \/ D!ReadsSettings \/ D!Scanned \/ D!CollectorRestart
  PROVE  DiscoveryInv'
<1>1. /\ host \subseteq OfDiscovery.Targets /\ snapshot \in DiscoverySnapshot
      /\ settings \in DiscoverySettings
      /\ discoveryScan \in [at : {"idle", "begun", "reading"}, roots : SUBSET OfDiscovery.Targets]
      /\ D!RescansAreKept
  BY DEF DiscoveryInv, DiscoveryTyped
<1>2. UNCHANGED <<settings, setupPage, excluded, dropped>>
  BY DEF D!Changes, D!discoveryTick, D!tick, D!ReadsSettings, D!Scanned, D!CollectorRestart, D!files,
         D!history
<1>3. /\ host' \subseteq OfDiscovery.Targets /\ snapshot' \in DiscoverySnapshot
      /\ discoveryScan' \in [at : {"idle", "begun", "reading"}, roots : SUBSET OfDiscovery.Targets]
      /\ D!RescansAreKept'
  <2>1. CASE \E t \in OfDiscovery.Targets : D!Changes(t)
    BY <1>1, <2>1 DEF D!Changes, D!files, D!history, D!RescansAreKept
  <2>2. CASE D!discoveryTick
    BY <1>1, <2>2 DEF D!discoveryTick, D!files, D!history, D!RescansAreKept, D!Idle
  <2>3. CASE D!tick
    BY <1>1, <2>3 DEF D!tick, D!history, D!RescansAreKept, D!Idle
  <2>4. CASE D!ReadsSettings
    BY <1>1, <2>4 DEF D!ReadsSettings, D!files, D!RescansAreKept, DiscoverySettings
  <2>5. CASE D!Scanned
    <3>1. host' = host /\ discoveryScan' = D!Idle /\ discoveryScan.at = "reading"
          /\ UNCHANGED <<marker, owed>> /\ (D!Found \/ snapshot' = snapshot)
      BY <2>5 DEF D!Scanned, D!history
    <3>2. snapshot' \in DiscoverySnapshot
      BY <1>1, <3>1 DEF D!Found, DiscoverySnapshot
    <3>3. QED
      BY <1>1, <3>1, <3>2 DEF D!Idle, D!RescansAreKept
  <2>6. CASE D!CollectorRestart
    BY <1>1, <2>6 DEF D!CollectorRestart, D!files, D!history, D!RescansAreKept, D!Idle
  <2>7. QED
    BY <2>1, <2>2, <2>3, <2>4, <2>5, <2>6
<1>4. QED
  BY <1>2, <1>3 DEF DiscoveryInv, DiscoveryTyped

(* So does the page, as long as it saves nothing.                          *)
LEMMA DiscoveryPage ==
  ASSUME DiscoveryInv,
         \/ \E t \in OfDiscovery.Targets : D!Choose(t)
         \/ D!Open \/ D!Close \/ D!RescanPosted \/ D!RescanAnswered
  PROVE  DiscoveryInv'
<1>1. /\ snapshot \in DiscoverySnapshot /\ settings \in DiscoverySettings /\ setupPage \in SetupPage
      /\ settings.on \cap settings.off = {} /\ setupPage.selected \cap setupPage.disabled = {}
      /\ setupPage.settings.on \cap setupPage.settings.off = {}
      /\ excluded \ dropped \subseteq settings.off
      /\ (excluded \ dropped) \cap setupPage.began \subseteq setupPage.selected \cup setupPage.disabled
      /\ D!RescansAreKept
  BY DEF DiscoveryInv, DiscoveryTyped
<1>2. UNCHANGED <<host, snapshot, settings, discoveryScan, excluded, dropped>>
  BY DEF D!Choose, D!Open, D!Close, D!RescanPosted, D!RescanAnswered, D!files, D!history
<1>3. D!RescansAreKept'
  BY <1>1 DEF D!Choose, D!Open, D!Close, D!RescanPosted, D!RescanAnswered, D!files, D!history,
              D!RescansAreKept
<1>4. /\ setupPage' \in SetupPage /\ setupPage'.selected \cap setupPage'.disabled = {}
      /\ setupPage'.settings.on \cap setupPage'.settings.off = {}
      /\ (excluded \ dropped) \cap setupPage'.began \subseteq setupPage'.selected \cup setupPage'.disabled
  <2>1. ASSUME NEW t \in OfDiscovery.Targets, D!Choose(t)
        PROVE  /\ setupPage' \in SetupPage /\ setupPage'.selected \cap setupPage'.disabled = {}
               /\ setupPage'.settings = setupPage.settings /\ setupPage'.began = setupPage.began
               /\ setupPage'.selected \cup setupPage'.disabled = setupPage.selected \cup setupPage.disabled \cup {t}
    <3>1. CASE t \in setupPage.selected
      <4>1. setupPage' = [setupPage EXCEPT !.selected = @ \ {t}, !.disabled = @ \cup {t}]
        BY <2>1, <3>1 DEF D!Choose
      <4>2. QED
        BY <1>1, <3>1, <4>1 DEF SetupPage
    <3>2. CASE t \notin setupPage.selected
      <4>1. setupPage' = [setupPage EXCEPT !.selected = @ \cup {t}, !.disabled = @ \ {t}]
        BY <2>1, <3>2 DEF D!Choose
      <4>2. QED
        BY <1>1, <3>2, <4>1 DEF SetupPage
    <3>3. QED
      BY <3>1, <3>2
  <2>2. CASE D!Open
    <3>1. D!Enabled \subseteq snapshot.items /\ D!Enabled \cap settings.off = {}
      BY <1>1 DEF D!Enabled
    <3>2. setupPage' = [[setupPage EXCEPT !.at = "open", !.snapshot = snapshot, !.settings = settings]
                          EXCEPT !.began = snapshot.items, !.selected = D!Enabled,
                                 !.disabled = settings.off \cap snapshot.items]
      BY <2>2 DEF D!Open, D!Load
    <3>3. /\ setupPage' \in SetupPage /\ setupPage'.settings = settings
          /\ setupPage'.began = snapshot.items /\ setupPage'.selected = D!Enabled
          /\ setupPage'.disabled = settings.off \cap snapshot.items
      BY <1>1, <3>1, <3>2 DEF SetupPage, DiscoverySnapshot, DiscoverySettings
    <3>4. QED
      BY <1>1, <3>1, <3>3
  <2>3. CASE D!Close
    <3>1. setupPage' = D!Closed
      BY <2>3 DEF D!Close
    <3>2. QED
      BY <3>1 DEF D!Closed, D!First, D!Unset, SetupPage, DiscoverySnapshot, DiscoverySettings
  <2>4. CASE D!RescanPosted
    BY <1>1, <2>4 DEF D!RescanPosted, SetupPage
  <2>5. CASE D!RescanAnswered
    <3>1. setupPage' = [setupPage EXCEPT !.at = "open", !.snapshot = snapshot, !.settings = settings]
      BY <2>5 DEF D!RescanAnswered, D!Load
    <3>2. QED
      BY <1>1, <3>1 DEF SetupPage
  <2>6. QED
    BY <1>1, <2>1, <2>2, <2>3, <2>4, <2>5
<1>5. QED
  BY <1>1, <1>2, <1>3, <1>4 DEF DiscoveryInv, DiscoveryTyped

(* Both ways of saving keep only targets that the snapshot has, and say of *)
(* an exclusion that they do not keep that it was thrown away.             *)
LEMMA DiscoverySave == ASSUME DiscoveryInv, D!persist \/ D!rescan PROVE DiscoveryInv'
<1>1. /\ snapshot \in DiscoverySnapshot /\ settings \in DiscoverySettings /\ setupPage \in SetupPage
      /\ settings.on \cap settings.off = {} /\ setupPage.selected \cap setupPage.disabled = {}
      /\ setupPage.settings.on \cap setupPage.settings.off = {}
      /\ (excluded \ dropped) \cap setupPage.began \subseteq setupPage.selected \cup setupPage.disabled
      /\ D!RescansAreKept
  BY DEF DiscoveryInv, DiscoveryTyped
<1>2. UNCHANGED <<host, snapshot, marker, discoveryScan, owed>>
  BY DEF D!persist, D!rescan
<1>3. CASE D!persist
  <2>1. /\ settings' = [on |-> setupPage.selected \cap snapshot.items,
                        off |-> setupPage.disabled \cap snapshot.items,
                        roots |-> setupPage.snapshot.roots]
        /\ excluded' = (excluded \cup setupPage.disabled) \ setupPage.selected
        /\ dropped' = (dropped \cup (excluded' \ (setupPage.began \cap snapshot.items))) \ setupPage.selected
        /\ setupPage' = setupPage
    BY <1>3 DEF D!persist, D!writeDiscoverySettings
  <2>2. settings' \in DiscoverySettings /\ settings'.on \cap settings'.off = {}
    BY <1>1, <2>1 DEF DiscoverySettings, SetupPage, DiscoverySnapshot
  <2>3. excluded' \ dropped' \subseteq setupPage.disabled \cap snapshot.items
    BY <1>1, <2>1
  <2>4. QED
    BY <1>1, <1>2, <2>1, <2>2, <2>3 DEF DiscoveryInv, DiscoveryTyped, D!RescansAreKept
<1>4. CASE D!rescan
  <2>1. PICK chosen \in {setupPage.snapshot.roots, OfDiscovery.Narrow, OfDiscovery.Targets} :
          settings' = [on |-> [setupPage.settings EXCEPT !.roots = chosen].on \cap snapshot.items,
                       off |-> [setupPage.settings EXCEPT !.roots = chosen].off \cap snapshot.items,
                       roots |-> [setupPage.settings EXCEPT !.roots = chosen].roots]
    BY <1>4 DEF D!rescan, D!writeDiscoverySettings
  <2>2. setupPage.settings \in DiscoverySettings /\ chosen \subseteq OfDiscovery.Targets
    BY <1>1, DiscoverySets DEF SetupPage, DiscoverySnapshot
  <2>3. settings' \in DiscoverySettings /\ settings'.on \cap settings'.off = {}
    BY <1>1, <2>1, <2>2 DEF DiscoverySettings
  <2>4. /\ excluded' = excluded /\ dropped' = dropped \cup (excluded \ settings'.off)
        /\ setupPage' = [setupPage EXCEPT !.at = "asking"]
    BY <1>4 DEF D!rescan
  <2>5. /\ setupPage' \in SetupPage /\ setupPage'.selected = setupPage.selected
        /\ setupPage'.disabled = setupPage.disabled /\ setupPage'.began = setupPage.began
        /\ setupPage'.settings = setupPage.settings
    BY <1>1, <2>4 DEF SetupPage
  <2>6. QED
    BY <1>1, <1>2, <2>3, <2>4, <2>5 DEF DiscoveryInv, DiscoveryTyped, D!RescansAreKept
<1>5. QED
  BY <1>3, <1>4

LEMMA DiscoveryStep == DiscoveryInv /\ D!Next => DiscoveryInv'
  BY DiscoveryCollector, DiscoveryPage, DiscoverySave DEF D!Next

LEMMA DiscoveryImplies == DiscoveryInv => D!RescansAreKept /\ D!ExclusionsLast
  BY DEF DiscoveryInv, D!ExclusionsLast, D!Enabled

-----------------------------------------------------------------------------
(* The dashboard's page.                                                   *)

(* A selection that is under way is never of the hub itself.               *)
PageInv ==
  /\ L!FiguresOfTheNode
  /\ \A s \in opening : s.node # L!Local

LEMMA PageNames ==
  /\ L!Local \notin OfPage.Nodes
  /\ "down" \notin OfPage.Nodes /\ "live" \notin OfPage.Nodes
  /\ "polling" \notin OfPage.Nodes /\ "loading" \notin OfPage.Nodes
  BY ServicesAssumption DEF L!LivePageAssumption, L!Local

LEMMA PageInit == L!Init => PageInv
  BY PageNames DEF L!Init, PageInv, L!FiguresOfTheNode

(* A snapshot of the hub is shown only where the hub is.                   *)
LEMMA PageShow ==
  ASSUME PageInv, NEW v, NEW how, how \notin OfPage.Nodes \/ how = conn, L!Show(v, how),
         activeFleetNode' = activeFleetNode, activeFleetSafe' = activeFleetSafe
  PROVE  L!FiguresOfTheNode'
  BY PageNames DEF PageInv, L!FiguresOfTheNode, L!Show, L!Hub

(* A node's figures are shown only where the node is.                      *)
LEMMA PageRefresh ==
  ASSUME PageInv, NEW node, node # L!Local, NEW arrives \in BOOLEAN, L!refreshFleetNode(node, arrives),
         activeFleetNode' = activeFleetNode, localLatest' = localLatest
  PROVE  L!FiguresOfTheNode'
<1>1. CASE node # activeFleetNode
  BY <1>1 DEF PageInv, L!FiguresOfTheNode, L!refreshFleetNode, L!Hub
<1>2. CASE node = activeFleetNode /\ arrives
  <2>1. latest' = [node |-> node, version |-> 0] /\ conn' = node /\ activeFleetSafe' = node
    BY <1>2 DEF L!refreshFleetNode
  <2>2. QED
    BY <1>2, <2>1 DEF L!FiguresOfTheNode
<1>3. CASE node = activeFleetNode /\ ~arrives
  <2>1. latest' = latest /\ conn' = "down"
    BY <1>3 DEF L!refreshFleetNode
  <2>2. QED
    BY <1>3, <2>1, PageNames DEF PageInv, L!FiguresOfTheNode, L!Hub
<1>4. QED
  BY <1>1, <1>2, <1>3

LEMMA PageToLogin == ASSUME PageInv, L!ToLogin PROVE PageInv'
  BY DEF PageInv, L!ToLogin, L!viewVars, L!FiguresOfTheNode, L!Hub

LEMMA PageLink ==
  ASSUME PageInv,
         \/ L!Tick \/ L!Expires \/ L!Opens \/ L!Breaks \/ L!Refused \/ L!Reconnect \/ L!Poll
         \/ \E v \in 0..OfPage.MaxVersion : L!PollFails(v)
  PROVE  PageInv'
<1>1. UNCHANGED <<activeFleetNode, localLatest, latest, opening, activeFleetSafe>>
  BY DEF L!Tick, L!Expires, L!Opens, L!Breaks, L!Refused, L!Reconnect, L!Poll, L!PollFails, L!onclose,
         L!nodeVars, L!viewVars, L!scopeVars
<1>2. conn' \in {conn, "live", "down", "polling"}
  BY DEF L!Tick, L!Expires, L!Opens, L!Breaks, L!Refused, L!Reconnect, L!Poll, L!PollFails, L!onclose,
         L!viewVars
<1>3. QED
  BY <1>1, <1>2, PageNames DEF PageInv, L!FiguresOfTheNode, L!Hub

LEMMA PageStep == PageInv /\ L!Next => PageInv'
<1> SUFFICES ASSUME PageInv, L!Next PROVE PageInv'
  OBVIOUS
<1>1. CASE L!onmessage
  <2>1. CASE Head(wire) = 0
    BY <1>1, <2>1, PageToLogin DEF L!onmessage
  <2>2. CASE Head(wire) # 0
    <3>1. L!Show(Head(wire), conn) /\ UNCHANGED <<activeFleetNode, opening, activeFleetSafe>>
      BY <1>1, <2>2 DEF L!onmessage, L!nodeVars, L!scopeVars
    <3>2. QED
      BY <3>1, PageShow DEF PageInv
  <2>3. QED
    BY <2>1, <2>2
<1>2. CASE L!Answers
  <2>1. PICK v \in 0..OfPage.MaxVersion : L!PollAnswers(v)
    BY <1>2 DEF L!Answers
  <2>2. CASE v = 0
    BY <2>1, <2>2, PageToLogin DEF L!PollAnswers
  <2>3. CASE v # 0
    <3>1. L!Show(v, "polling") /\ UNCHANGED <<activeFleetNode, opening, activeFleetSafe>>
      BY <2>1, <2>3 DEF L!PollAnswers, L!nodeVars, L!scopeVars
    <3>2. QED
      BY <3>1, PageShow, PageNames DEF PageInv
  <2>4. QED
    BY <2>2, <2>3
<1>3. CASE L!OfNodes
  <2>1. ASSUME NEW s \in opening, L!Loaded(s) PROVE PageInv'
    <3>1. /\ activeFleetNode' = activeFleetNode /\ localLatest' = localLatest
          /\ opening' = (opening \ {s}) \cup {[s EXCEPT !.step = "loaded"]}
          /\ \E arrives \in BOOLEAN : L!refreshFleetNode(s.node, arrives)
      BY <2>1 DEF L!Loaded, L!Left
    <3>2. L!FiguresOfTheNode'
      BY <3>1, PageRefresh DEF PageInv
    <3>3. [s EXCEPT !.step = "loaded"].node = s.node
      OBVIOUS
    <3>4. QED
      BY <3>1, <3>2, <3>3 DEF PageInv
  <2>2. ASSUME NEW s \in opening, L!Opened(s) PROVE PageInv'
    BY <2>2 DEF L!Opened, L!Left, PageInv, L!FiguresOfTheNode, L!Hub
  <2>3. ASSUME NEW i \in intervals, L!Asked(i) PROVE PageInv'
    BY <2>3 DEF L!Asked, L!Left, L!nodeVars, PageInv, L!FiguresOfTheNode, L!Hub
  <2>4. ASSUME NEW node \in OfPage.Nodes, L!Refreshed(node) PROVE PageInv'
    <3>1. /\ UNCHANGED <<activeFleetNode, localLatest, opening>>
          /\ \E arrives \in BOOLEAN : L!refreshFleetNode(node, arrives)
      BY <2>4 DEF L!Refreshed, L!Left, L!nodeVars
    <3>2. QED
      BY <3>1, PageRefresh, PageNames DEF PageInv
  <2>5. QED
    BY <1>3, <2>1, <2>2, <2>3, <2>4 DEF L!OfNodes
<1>4. CASE L!Unauthorized
  BY <1>4, PageToLogin DEF L!Unauthorized
<1>5. ASSUME NEW node \in OfPage.Nodes \cup {L!Local}, L!selectFleetNode(node) PROVE PageInv'
  BY <1>5, PageNames DEF L!selectFleetNode, L!Left, PageInv, L!FiguresOfTheNode, L!Hub
<1>6. CASE L!HubAsked \/ L!HubDrawn \/ \E i \in intervals : L!Abandoned(i)
  <2>1. UNCHANGED <<activeFleetNode, localLatest, latest, conn, opening, activeFleetSafe>>
    BY <1>6 DEF L!HubAsked, L!HubDrawn, L!Abandoned, L!viewVars, L!nodeVars, L!Left
  <2>2. QED
    BY <2>1 DEF PageInv, L!FiguresOfTheNode, L!Hub
<1>7. QED
  BY <1>1, <1>2, <1>3, <1>4, <1>5, <1>6, PageLink DEF L!Next

-----------------------------------------------------------------------------
(* The security scan.                                                      *)

(* The marker is only there for a request of which no scan has come yet; a *)
(* script that says it runs says nothing else, and ends with its report.   *)
ScanInv ==
  /\ S!TypeOK /\ S!ScanStatusIsTrue
  /\ force => asked
  /\ securityScan \in {"untrapped", "scanning", "reported"} => status.is = "running"
  /\ securityScan = "reported" => report # S!Never
  /\ securityScan = "finished" => ~unclean

LEMMA ScanNat ==
  OfScans.Week \in Nat /\ OfScans.MaxDay \in Nat /\ OfScans.MaxRequests \in Nat /\ OfScans.MaxFaults \in Nat
  BY ServicesAssumption DEF S!SecurityScanAssumption

ScanStatuses ==
  [is : {"never", "running", "cancelled", "clean", "warnings", "unavailable", "threats"},
   running : BOOLEAN, finishedAt : 0..S!Never]

LEMMA ScanInit == S!Init => ScanInv
<1> SUFFICES ASSUME S!Init PROVE ScanInv
  OBVIOUS
<1>1. /\ S!Never \in 0..S!Never /\ 0 \in 0..OfScans.MaxDay
      /\ 0 \in 0..OfScans.MaxRequests /\ 0 \in 0..OfScans.MaxFaults
  BY ScanNat DEF S!Never
<1>2. status \in ScanStatuses /\ status.is = "never" /\ ~status.running
  BY <1>1 DEF S!Init, ScanStatuses
<1>3. /\ day \in 0..OfScans.MaxDay /\ policy \in S!Policy /\ timer \in BOOLEAN /\ fired \in BOOLEAN
      /\ force = FALSE /\ asked = FALSE /\ unclean = FALSE /\ securityScan = "none"
      /\ report \in 0..S!Never
      /\ scanRequests \in 0..OfScans.MaxRequests /\ scanFaults \in 0..OfScans.MaxFaults
  BY <1>1, Zenon DEF S!Init, S!Policy
<1>4. S!TypeOK
  BY <1>2, <1>3 DEF S!TypeOK, ScanStatuses
<1>5. QED
  BY <1>2, <1>3, <1>4 DEF ScanInv, S!ScanStatusIsTrue

(* What the dashboard does, and the timer.                                 *)
LEMMA ScanAsked ==
  ASSUME ScanInv,
         \/ S!startScan \/ S!cancelScan \/ S!TimerFires \/ S!NextDay
         \/ \E p \in S!Policy : S!configureScan(p)
  PROVE  ScanInv'
<1>1. /\ S!TypeOK /\ S!ScanStatusIsTrue /\ (force => asked)
      /\ securityScan \in {"untrapped", "scanning", "reported"} => status.is = "running"
      /\ securityScan = "reported" => report # S!Never
      /\ securityScan = "finished" => ~unclean
  BY DEF ScanInv
<1>2. status \in ScanStatuses
  BY <1>1 DEF S!TypeOK, ScanStatuses
<1>3. CASE S!startScan
  BY <1>1, <1>3, ScanNat DEF S!startScan, S!Request, S!Started, ScanInv, S!TypeOK, S!ScanStatusIsTrue, S!Never
<1>4. CASE S!cancelScan
  <2>1. /\ UNCHANGED <<day, policy, force, report, timer, fired, asked, scanFaults>>
        /\ scanRequests' \in 0..OfScans.MaxRequests /\ securityScan' = "none"
    BY <1>1, <1>4, ScanNat DEF S!cancelScan, S!Request, S!Stopped, S!TypeOK
  <2>2. CASE securityScan \in {"scanning", "reported", "finished"}
    <3>1. status' = [status EXCEPT !.is = "cancelled", !.running = FALSE] /\ unclean' = FALSE
      BY <1>1, <1>4, <2>2 DEF S!cancelScan, S!Stopped, S!TypeOK, S!ScanStatusIsTrue
    <3>2. status' \in ScanStatuses /\ ~status'.running /\ status'.is = "cancelled"
      BY <1>2, <3>1 DEF ScanStatuses
    <3>3. QED
      BY <1>1, <2>1, <3>1, <3>2 DEF ScanInv, S!TypeOK, S!ScanStatusIsTrue, ScanStatuses, S!Never
  <2>3. CASE securityScan \notin {"scanning", "reported", "finished"}
    <3>1. status' = status /\ unclean' = (unclean \/ securityScan = "untrapped")
      BY <1>4, <2>3 DEF S!cancelScan, S!Stopped
    <3>2. status.running => unclean'
      BY <1>1, <2>3, <3>1 DEF S!ScanStatusIsTrue
    <3>3. QED
      BY <1>1, <2>1, <3>1, <3>2 DEF ScanInv, S!TypeOK, S!ScanStatusIsTrue, S!Never
  <2>4. QED
    BY <2>2, <2>3
<1>5. CASE S!TimerFires
  <2>1. /\ UNCHANGED <<day, policy, force, status, report, timer, asked, unclean, scanRequests, scanFaults>>
        /\ fired' = TRUE
        /\ securityScan' = IF securityScan = "none" THEN "starting" ELSE securityScan
    BY <1>5 DEF S!TimerFires, S!Started, S!files
  <2>2. S!TypeOK'
    BY <1>1, <2>1 DEF S!TypeOK, S!Never
  <2>3. QED
    BY <1>1, <2>1, <2>2 DEF ScanInv, S!ScanStatusIsTrue, S!Never
<1>6. CASE S!NextDay
  <2>1. /\ UNCHANGED <<policy, force, status, report, timer, securityScan, asked, unclean, scanRequests,
                        scanFaults>>
        /\ fired' = FALSE /\ day' \in 0..OfScans.MaxDay
    BY <1>1, <1>6, ScanNat DEF S!NextDay, S!files, S!TypeOK
  <2>2. S!TypeOK'
    BY <1>1, <2>1 DEF S!TypeOK, S!Never
  <2>3. QED
    BY <1>1, <2>1, <2>2 DEF ScanInv, S!ScanStatusIsTrue, S!Never
<1>7. ASSUME NEW p \in S!Policy, S!configureScan(p) PROVE ScanInv'
  <2>1. /\ UNCHANGED <<day, force, status, report, fired, securityScan, asked, unclean>>
        /\ policy' \in S!Policy
        /\ scanRequests' \in 0..OfScans.MaxRequests /\ scanFaults' \in 0..OfScans.MaxFaults
    BY <1>1, <1>7, ScanNat DEF S!configureScan, S!Request, S!Fault, S!TypeOK
  <2>2. timer' \in BOOLEAN
    BY <1>1, <1>7 DEF S!configureScan, S!TypeOK
  <2>3. S!TypeOK'
    BY <1>1, <2>1, <2>2 DEF S!TypeOK, S!Never
  <2>4. QED
    BY <1>1, <2>1, <2>3 DEF ScanInv, S!ScanStatusIsTrue, S!Never
<1>8. QED
  BY <1>3, <1>4, <1>5, <1>6, <1>7

(* The script.                                                             *)
LEMMA ScanScript ==
  ASSUME ScanInv,
         S!Decide \/ S!MarkRunning \/ S!SetTrap \/ S!Report \/ S!Conclude \/ S!Exit \/ S!Abort
  PROVE  ScanInv'
<1>1. /\ S!TypeOK /\ S!ScanStatusIsTrue /\ (force => asked)
      /\ securityScan \in {"untrapped", "scanning", "reported"} => status.is = "running"
      /\ securityScan = "reported" => report # S!Never
      /\ securityScan = "finished" => ~unclean
  BY DEF ScanInv
<1>2. status \in ScanStatuses
  BY <1>1 DEF S!TypeOK, ScanStatuses
<1>3. CASE S!Decide
  BY <1>1, <1>3 DEF S!Decide, ScanInv, S!TypeOK, S!ScanStatusIsTrue, S!Never
<1>4. CASE S!MarkRunning
  <2>1. status' = [status EXCEPT !.is = "running", !.running = TRUE]
    BY <1>4 DEF S!MarkRunning
  <2>2. status' \in ScanStatuses /\ status'.running /\ status'.is = "running"
    BY <1>2, <2>1 DEF ScanStatuses
  <2>3. QED
    BY <1>1, <1>4, <2>2 DEF S!MarkRunning, ScanInv, S!TypeOK, S!ScanStatusIsTrue, ScanStatuses, S!Never
<1>5. CASE S!SetTrap
  BY <1>1, <1>5 DEF S!SetTrap, S!files, ScanInv, S!TypeOK, S!ScanStatusIsTrue, S!Never
<1>6. CASE S!Report
  <2>1. /\ UNCHANGED <<day, policy, force, status, timer, fired, asked, unclean, scanRequests, scanFaults>>
        /\ securityScan = "scanning" /\ securityScan' = "reported" /\ report' = day
    BY <1>6 DEF S!Report
  <2>2. day \in 0..S!Never /\ status.running
    BY <1>1, <2>1, ScanNat DEF S!TypeOK, S!Never, S!ScanStatusIsTrue
  <2>3. day # S!Never
    BY <1>1, ScanNat DEF S!TypeOK, S!Never
  <2>4. QED
    BY <1>1, <2>1, <2>2, <2>3 DEF ScanInv, S!TypeOK, S!ScanStatusIsTrue, S!Never
<1>7. CASE S!Conclude
  <2>1. PICK r \in {"clean", "warnings", "unavailable", "threats"} :
          status' = [is |-> r, running |-> FALSE, finishedAt |-> report]
    BY <1>7 DEF S!Conclude
  <2>2. status' \in ScanStatuses /\ ~status'.running /\ status'.finishedAt = report
    BY <1>1, <2>1 DEF ScanStatuses, S!TypeOK
  <2>3. QED
    BY <1>1, <1>7, <2>2 DEF S!Conclude, ScanInv, S!TypeOK, S!ScanStatusIsTrue, ScanStatuses, S!Never
<1>8. CASE S!Exit
  BY <1>1, <1>8 DEF S!Exit, S!files, ScanInv, S!TypeOK, S!ScanStatusIsTrue, S!Never
<1>9. CASE S!Abort
  BY <1>1, <1>9, ScanNat DEF S!Abort, S!Fault, S!files, ScanInv, S!TypeOK, S!ScanStatusIsTrue, S!Never
<1>10. QED
  BY <1>3, <1>4, <1>5, <1>6, <1>7, <1>8, <1>9

LEMMA ScanStep == ScanInv /\ S!Next => ScanInv'
  BY ScanAsked, ScanScript DEF S!Next

-----------------------------------------------------------------------------
(* An update of the installation.                                          *)

\* No two units got to work, and nothing broke that an update cannot undo.
OneUnit == seen \cap {"late", "torn"} = {}
Undoable == seen \cap {"disk", "registry", "restart"} = {} /\ found # "none"

Unit == [unit : 1..OfUpdates.MaxUnits, at : U!At, backup : U!Release]

(* What is installed while a unit is at work on it: before the services are*)
(* stopped, and once it failed, the release that it found if all could be  *)
(* undone; from the health check on, the new one.  Its archive holds what  *)
(* it found.                                                               *)
UnitWorks(u) ==
  /\ u.at \in {"starting", "download", "backup", "stop", "failed", "writing_failed"} /\ Undoable =>
       U!Installed(found)
  /\ u.at \notin {"starting", "download", "backup", "failed", "writing_failed"} /\ Undoable =>
       u.backup = found \/ u.at \in {"stalled", "completed", "writing_completed"}
  /\ u.at = "stage" => app = "new"
  /\ u.at \in {"restart", "health"} => app = "new" /\ deps = "new"
  /\ u.at = "undo" => ~Undoable
  /\ u.at = "restart_old" => app = u.backup /\ deps = u.backup
  /\ u.at \in {"completed", "writing_completed"} => U!Installed("new")

(* No unit is at work: the job says what is installed.                     *)
JobSettled ==
  /\ job = "failed" /\ Undoable => U!Installed(found)
  /\ job = "completed" => U!Installed("new")

UpdateInv ==
  /\ U!TypeOK
  /\ late => "late" \in seen
  /\ ~registry => "registry" \in seen
  /\ OneUnit => \/ units = {} /\ JobSettled
                \/ \E u : /\ units = {u} /\ UnitWorks(u)
                          /\ job \notin {"none", "completed", "failed"}

LEMMA UpdateNat == OfUpdates.MaxUnits \in Nat /\ OfUpdates.MaxFaults \in Nat
  BY ServicesAssumption DEF U!HostUpdateAssumption

LEMMA UpdateInit == U!Init => UpdateInv
<1> SUFFICES ASSUME U!Init PROVE UpdateInv
  OBVIOUS
<1>1. started \in 0..OfUpdates.MaxUnits /\ updateFaults \in 0..OfUpdates.MaxFaults
  BY UpdateNat DEF U!Init
<1>2. U!TypeOK
  BY <1>1 DEF U!Init, U!TypeOK, U!Release, U!Job, U!Pages
<1>3. QED
  BY <1>2 DEF U!Init, UpdateInv, JobSettled

\* A fault stays in the history of the update.
LEMMA UpdateFault ==
  ASSUME UpdateInv, NEW failing, U!Fault(failing)
  PROVE  /\ seen' = seen \cup {failing} /\ failing \in OfUpdates.Faults /\ found' = found
         /\ seen \subseteq seen' /\ seen' \subseteq OfUpdates.Faults
         /\ updateFaults' \in 0..OfUpdates.MaxFaults
         /\ OneUnit' => OneUnit /\ failing \notin {"late", "torn"}
         /\ Undoable' => Undoable /\ failing \notin {"disk", "registry", "restart"}
<1>1. updateFaults \in 0..OfUpdates.MaxFaults /\ seen \subseteq OfUpdates.Faults
  BY DEF UpdateInv, U!TypeOK
<1>2. updateFaults' \in 0..OfUpdates.MaxFaults
  BY <1>1, UpdateNat DEF U!Fault
<1>3. QED
  BY <1>1, <1>2 DEF U!Fault, OneUnit, Undoable

\* What keeps the history or adds a fault to it.
LEMMA UpdateHistory ==
  ASSUME UpdateInv, UNCHANGED <<updateFaults, seen, found>> \/ \E failing : U!Fault(failing)
  PROVE  /\ seen \subseteq seen' /\ seen' \subseteq OfUpdates.Faults /\ found' = found
         /\ updateFaults' \in 0..OfUpdates.MaxFaults
         /\ (OneUnit' => OneUnit) /\ (Undoable' => Undoable)
<1>1. CASE UNCHANGED <<updateFaults, seen, found>>
  BY <1>1 DEF UpdateInv, U!TypeOK, OneUnit, Undoable
<1>2. CASE \E failing : U!Fault(failing)
  BY <1>2, UpdateFault
<1>3. QED
  BY <1>1, <1>2

(* The dashboard.                                                          *)
LEMMA UpdateDashboard == ASSUME UpdateInv, U!checkForUpdates \/ U!pollUntilReady PROVE UpdateInv'
<1>1. UNCHANGED <<app, deps, services, job, units, started, late, registry, updateFaults, seen, found>>
  BY DEF U!checkForUpdates, U!pollUntilReady, U!machine, U!history
<1>2. U!TypeOK'
  <2>1. CASE U!checkForUpdates
    BY <1>1, <2>1 DEF U!checkForUpdates, U!TypeOK, UpdateInv
  <2>2. CASE U!pollUntilReady
    <3>1. updatesPage' \in {"gave_up", "polling", "completed", "failed"} /\ available' = available
      BY <2>2 DEF U!pollUntilReady
    <3>2. QED
      BY <1>1, <3>1 DEF U!Pages, U!TypeOK, UpdateInv
  <2>3. QED
    BY <2>1, <2>2
<1>3. (OneUnit' <=> OneUnit) /\ (JobSettled' <=> JobSettled) /\ \A u : UnitWorks(u)' <=> UnitWorks(u)
  BY <1>1 DEF OneUnit, JobSettled, U!Installed, Undoable, UnitWorks
<1>4. QED
  BY <1>1, <1>2, <1>3 DEF UpdateInv

LEMMA UpdateGoes ==
  ASSUME UpdateInv, NEW u \in units, NEW to \in U!At, U!Goes(u, to)
  PROVE  /\ units' \subseteq Unit
         /\ units = {u} => \E v : units' = {v} /\ v.at = to /\ v.backup = u.backup
<1>1. u \in Unit /\ units \subseteq Unit
  BY DEF UpdateInv, U!TypeOK, Unit
<1> DEFINE v == [u EXCEPT !.at = to]
<1>2. v \in Unit /\ v.at = to /\ v.backup = u.backup
  BY <1>1 DEF Unit
<1>3. units' = (units \ {u}) \cup {v}
  BY DEF U!Goes
<1> HIDE DEF v
<1>4. QED
  BY <1>1, <1>2, <1>3

\* The archive holds what is in the directory when it is written.
LEMMA UpdateArchived ==
  ASSUME UpdateInv, NEW u \in units,
         units' = (units \ {u}) \cup {[u EXCEPT !.at = "stop", !.backup = app]}
  PROVE  /\ units' \subseteq Unit
         /\ units = {u} => \E v : units' = {v} /\ v.at = "stop" /\ v.backup = app
<1>1. u \in Unit /\ units \subseteq Unit /\ app \in U!Release
  BY DEF UpdateInv, U!TypeOK, Unit
<1> DEFINE v == [u EXCEPT !.at = "stop", !.backup = app]
<1>2. v \in Unit /\ v.at = "stop" /\ v.backup = app
  BY <1>1 DEF Unit, U!At
<1>3. units' = (units \ {u}) \cup {v}
  OBVIOUS
<1> HIDE DEF v
<1>4. QED
  BY <1>1, <1>2, <1>3

UnitActs(u) ==
  \/ U!Start(u) \/ U!Prepare(u) \/ U!Stop(u) \/ U!Sync(u) \/ U!Stage(u) \/ U!Undo(u)
  \/ U!RestartOld(u) \/ U!RestartNew(u) \/ U!Health(u) \/ U!Finish(u)

LEMMA UpdateUnitSeen ==
  ASSUME UpdateInv, NEW u \in units, UnitActs(u)
  PROVE  /\ UNCHANGED <<updateFaults, seen, found>> \/ \E failing : U!Fault(failing)
         /\ registry' = registry /\ started' = started /\ updatesPage' = updatesPage
<1>1. UNCHANGED <<updateFaults, seen, found>> \/ \E failing : U!Fault(failing)
  BY DEF UnitActs, U!Start, U!Prepare, U!Stop, U!Sync, U!Stage, U!npm_ci, U!Undo, U!RestartOld, U!RestartNew,
         U!Health, U!Finish, U!history
<1>2. registry' = registry /\ started' = started /\ updatesPage' = updatesPage
  BY DEF UnitActs, U!Start, U!Prepare, U!Stop, U!Sync, U!Stage, U!Undo, U!RestartOld, U!RestartNew, U!Health,
         U!Finish, U!Quiet, U!WithServices
<1>3. QED
  BY <1>1, <1>2

LEMMA UpdateUnitTypes ==
  ASSUME UpdateInv, NEW u \in units, UnitActs(u)
  PROVE  U!TypeOK' /\ (late' => "late" \in seen')
<1>1. /\ {app, deps, services, found} \subseteq U!Release /\ job \in U!Job /\ updatesPage \in U!Pages
      /\ {late, available, registry} \subseteq BOOLEAN /\ started \in 0..OfUpdates.MaxUnits
      /\ units \subseteq Unit /\ u.backup \in U!Release
      /\ late => "late" \in seen
  BY DEF UpdateInv, U!TypeOK, Unit
<1>2. /\ started' = started /\ updatesPage' = updatesPage /\ registry' = registry /\ found' = found
      /\ seen \subseteq seen' /\ seen' \subseteq OfUpdates.Faults
      /\ updateFaults' \in 0..OfUpdates.MaxFaults
  BY UpdateUnitSeen, UpdateHistory
<1>3. {app', deps', services'} \subseteq U!Release
  BY <1>1 DEF UnitActs, U!Start, U!Prepare, U!Stop, U!Sync, U!Stage, U!Undo, U!RestartOld, U!RestartNew,
         U!Health, U!Finish, U!machine, U!npm_ci, U!Release
<1>4. job' \in {job, "failed", "working", "torn", "completed"}
  BY <1>1 DEF UnitActs, U!Start, U!Prepare, U!Stop, U!Sync, U!Stage, U!Undo, U!RestartOld, U!RestartNew,
         U!Health, U!Finish, U!update_progress
<1>5. {late', available'} \subseteq BOOLEAN /\ (late' => "late" \in seen')
  <2>1. CASE U!Start(u)
    <3>1. available' = available
      BY <2>1 DEF U!Start
    <3>2. late' = late \/ (late' = TRUE /\ "late" \in seen')
      BY <2>1 DEF U!Start, U!Fault
    <3>3. CASE late' = late
      BY <1>1, <1>2, <3>1, <3>3
    <3>4. CASE late' = TRUE /\ "late" \in seen'
      BY <1>1, <3>1, <3>4
    <3>5. QED
      BY <3>2, <3>3, <3>4
  <2>2. CASE ~U!Start(u)
    <3>1. (late' = late \/ late' = FALSE) /\ (available' = available \/ available' = FALSE)
      BY <2>2 DEF UnitActs, U!Prepare, U!Stop, U!Sync, U!Stage, U!Undo, U!RestartOld, U!RestartNew,
                  U!Health, U!Finish, U!Quiet, U!WithServices
    <3>2. late' \in BOOLEAN /\ (late' => "late" \in seen')
      <4>1. CASE late' = late
        BY <1>1, <1>2, <4>1
      <4>2. CASE late' = FALSE
        BY <4>2
      <4>3. QED
        BY <3>1, <4>1, <4>2
    <3>3. available' \in BOOLEAN
      BY <1>1, <3>1
    <3>4. QED
      BY <3>2, <3>3
  <2>3. QED
    BY <2>1, <2>2
<1>6. \/ \E to \in U!At : U!Goes(u, to)
      \/ units' = units \ {u}
      \/ units' = (units \ {u}) \cup {[u EXCEPT !.at = "stop", !.backup = app]}
  BY DEF UnitActs, U!Start, U!Prepare, U!Stop, U!Sync, U!Stage, U!npm_ci, U!Undo, U!RestartOld, U!RestartNew,
         U!Health, U!Finish, U!At
<1>7. units' \subseteq Unit
  <2>1. CASE \E to \in U!At : U!Goes(u, to)
    BY <2>1, UpdateGoes
  <2>2. CASE units' = units \ {u}
    BY <1>1, <2>2
  <2>3. CASE units' = (units \ {u}) \cup {[u EXCEPT !.at = "stop", !.backup = app]}
    <3>1. u \in Unit /\ units \subseteq Unit /\ app \in U!Release
      BY <1>1 DEF UpdateInv, U!TypeOK, Unit
    <3>2. [u EXCEPT !.at = "stop", !.backup = app] \in Unit
      BY <3>1 DEF Unit, U!At
    <3>3. QED
      BY <2>3, <3>1, <3>2
  <2>4. QED
    BY <1>6, <2>1, <2>2, <2>3
<1>8. job' \in U!Job
  BY <1>1, <1>4 DEF U!Job
<1>9. QED
  BY <1>1, <1>2, <1>3, <1>5, <1>7, <1>8 DEF U!TypeOK, Unit

(* What is left when the only unit has taken a step.                       *)
LEMMA UpdateUnitWorks ==
  ASSUME UpdateInv, NEW u \in units, UnitActs(u), OneUnit'
  PROVE  \/ units' = {} /\ JobSettled'
         \/ \E v : /\ units' = {v} /\ UnitWorks(v)'
                   /\ job' \notin {"none", "completed", "failed"}
<1>1. /\ OneUnit /\ (Undoable' => Undoable) /\ found' = found
      /\ units = {u} /\ UnitWorks(u) /\ job \notin {"none", "completed", "failed"}
      /\ ~registry => ~Undoable
  <2>1. OneUnit /\ (Undoable' => Undoable) /\ found' = found
    BY UpdateUnitSeen, UpdateHistory
  <2>2. ~registry => ~Undoable
    BY DEF UpdateInv, Undoable
  <2>3. QED
    BY <2>1, <2>2 DEF UpdateInv
<1> DEFINE Works(to) == \E v : units' = {v} /\ UnitWorks(v)' /\ v.at = to
\* A step that keeps the job under way goes on to another place.
<1>2. ASSUME NEW to \in U!At, U!Goes(u, to),
             /\ to \in {"starting", "download", "backup", "stop", "failed", "writing_failed"} /\ Undoable' =>
                  U!Installed(found)'
             /\ to \notin {"starting", "download", "backup", "failed", "writing_failed"} /\ Undoable' =>
                  u.backup = found \/ to \in {"stalled", "completed", "writing_completed"}
             /\ to = "stage" => app' = "new"
             /\ to \in {"restart", "health"} => app' = "new" /\ deps' = "new"
             /\ to = "undo" => ~Undoable'
             /\ to = "restart_old" => app' = u.backup /\ deps' = u.backup
             /\ to \in {"completed", "writing_completed"} => U!Installed("new")'
      PROVE  Works(to)
  <2>1. PICK v : units' = {v} /\ v.at = to /\ v.backup = u.backup
    BY <1>1, <1>2, UpdateGoes
  <2>2. UnitWorks(v)'
    BY <1>1, <1>2, <2>1 DEF UnitWorks
  <2>3. QED
    BY <2>1, <2>2
\* A unit that stalls promises nothing.
<1>14. ASSUME U!Goes(u, "stalled"), job' \notin {"none", "completed", "failed"}
       PROVE  \E v : units' = {v} /\ UnitWorks(v)' /\ job' \notin {"none", "completed", "failed"}
  <2>1. Works("stalled")
    BY <1>2, <1>14 DEF U!At
  <2>2. QED
    BY <1>14, <2>1
<1>3. CASE U!Start(u)
  <2>1. services' = services /\ app' = app /\ deps' = deps
    BY <1>3 DEF U!Start, U!machine
  <2>2. U!Installed(found)' <=> U!Installed(found)
    BY <1>1, <2>1 DEF U!Installed
  <2>3. ~U!Fault("late")
    BY UpdateFault
  <2>4. CASE U!Goes(u, "download") /\ job' = job
    <3>1. Works("download")
      BY <1>1, <1>2, <1>3, <2>1, <2>2, <2>4 DEF U!At, U!Start, UnitWorks
    <3>2. QED
      BY <1>1, <2>4, <3>1
  <2>5. CASE U!Fault("refused") /\ units' = units \ {u} /\ job' = "failed"
    BY <1>1, <1>3, <2>1, <2>2, <2>5 DEF U!Start, UnitWorks, JobSettled
  <2>6. QED
    BY <1>3, <2>3, <2>4, <2>5 DEF U!Start
<1>4. CASE U!Prepare(u)
  <2>1. /\ UNCHANGED <<services, app, deps>> /\ job' = "working"
        /\ u.at \in {"download", "backup"}
    BY <1>4 DEF U!Prepare, U!machine, U!update_progress
  <2>2. U!Installed(found)' <=> U!Installed(found)
    BY <1>1, <2>1 DEF U!Installed
  <2>3. Undoable' => U!Installed(found)'
    BY <1>1, <2>1, <2>2 DEF UnitWorks
  <2>4. CASE \E to \in {"backup", "failed"} : U!Goes(u, to)
    <3>1. PICK to \in {"backup", "failed"} : U!Goes(u, to)
      BY <2>4
    <3>2. Works(to)
      BY <1>2, <2>3, <3>1 DEF U!At
    <3>3. QED
      BY <2>1, <3>2
  <2>5. CASE units' = (units \ {u}) \cup {[u EXCEPT !.at = "stop", !.backup = app]}
    <3>1. PICK v : units' = {v} /\ v.at = "stop" /\ v.backup = app
      BY <1>1, <2>5, UpdateArchived
    <3>2. Undoable' => v.backup = found'
      BY <2>1, <2>3, <3>1 DEF U!Installed
    <3>3. UnitWorks(v)'
      BY <2>3, <3>1, <3>2 DEF UnitWorks
    <3>4. QED
      BY <2>1, <3>1, <3>3
  <2>6. CASE U!Goes(u, "stalled")
    BY <1>14, <2>1, <2>6
  <2>7. QED
    BY <1>4, <2>4, <2>5, <2>6 DEF U!Prepare
<1>5. CASE U!Stop(u)
  <2>1. job' = "working" /\ u.at = "stop" /\ U!Goes(u, "sync")
    BY <1>5 DEF U!Stop, U!update_progress
  <2>2. Works("sync")
    BY <1>1, <1>2, <2>1 DEF U!At, UnitWorks
  <2>3. QED
    BY <2>1, <2>2
<1>6. CASE U!Sync(u)
  <2>1. job' = job /\ u.at = "sync"
    BY <1>6 DEF U!Sync
  <2>2. CASE app' = "new" /\ U!Goes(u, "stage")
    <3>1. Works("stage")
      BY <1>1, <1>2, <2>1, <2>2 DEF U!At, UnitWorks
    <3>2. QED
      BY <1>1, <2>1, <3>1
  <2>3. CASE app' = "none" /\ U!Goes(u, "failed") /\ U!Fault("disk")
    <3>1. Works("failed")
      BY <1>1, <1>2, <2>1, <2>3, UpdateFault DEF U!At
    <3>2. QED
      BY <1>1, <2>1, <3>1
  <2>4. QED
    BY <1>6, <2>2, <2>3 DEF U!Sync
<1>7. CASE U!Stage(u)
  <2>1. app' = app /\ job' = job /\ u.at = "stage" /\ app = "new"
    BY <1>1, <1>7 DEF U!Stage, UnitWorks
  <2>2. CASE U!Goes(u, "stalled")
    BY <1>1, <1>14, <2>1, <2>2
  <2>3. CASE registry /\ ~U!Goes(u, "stalled")
    <3>1. deps' = "new" /\ U!Goes(u, "restart")
      BY <1>7, <2>1, <2>3 DEF U!Stage, U!npm_ci
    <3>2. Works("restart")
      BY <1>1, <1>2, <2>1, <3>1 DEF U!At, UnitWorks
    <3>3. QED
      BY <1>1, <2>1, <3>2
  <2>4. CASE ~registry /\ ~U!Goes(u, "stalled")
    <3>1. U!Goes(u, "undo")
      BY <1>7, <2>4 DEF U!Stage, U!npm_ci
    <3>2. Works("undo")
      BY <1>1, <1>2, <2>1, <2>4, <3>1 DEF U!At
    <3>3. QED
      BY <1>1, <2>1, <3>2
  <2>5. QED
    BY <2>2, <2>3, <2>4
<1>8. CASE U!Undo(u)
  <2>1. app' = u.backup /\ job' = "working" /\ u.at \in {"undo", "revert"}
        /\ U!npm_ci(u, "restart_old", "failed")
    BY <1>8 DEF U!Undo, U!update_progress
  <2>2. CASE U!Goes(u, "stalled")
    BY <1>14, <2>1, <2>2
  <2>3. CASE deps' # "none" /\ ~U!Goes(u, "stalled")
    <3>1. deps' = u.backup /\ U!Goes(u, "restart_old")
      BY <2>1, <2>3 DEF U!npm_ci
    <3>2. Works("restart_old")
      BY <1>1, <1>2, <2>1, <3>1 DEF U!At, UnitWorks
    <3>3. QED
      BY <2>1, <3>2
  <2>4. CASE deps' = "none" /\ ~U!Goes(u, "stalled")
    <3>1. U!Goes(u, "failed") /\ (registry => u.backup = "none")
      BY <2>1, <2>4 DEF U!npm_ci
    <3>2. ~Undoable'
      BY <1>1, <2>1, <3>1 DEF UnitWorks, Undoable
    <3>3. Works("failed")
      BY <1>2, <3>1, <3>2 DEF U!At
    <3>4. QED
      BY <2>1, <3>3
  <2>5. QED
    BY <2>2, <2>3, <2>4
<1>9. CASE U!RestartOld(u)
  <2>1. /\ UNCHANGED <<app, deps, job>> /\ U!Goes(u, "failed")
        /\ app = u.backup /\ deps = u.backup /\ u.at = "restart_old"
    BY <1>1, <1>9 DEF U!RestartOld, UnitWorks
  <2>2. CASE services' = app
    <3>1. Undoable' => U!Installed(found)'
      BY <1>1, <2>1, <2>2 DEF UnitWorks, U!Installed
    <3>2. Works("failed")
      BY <1>2, <2>1, <3>1 DEF U!At
    <3>3. QED
      BY <1>1, <2>1, <3>2
  <2>3. CASE services' = "none" /\ U!Fault("restart")
    <3>1. Works("failed")
      BY <1>1, <1>2, <2>1, <2>3, UpdateFault DEF U!At
    <3>2. QED
      BY <1>1, <2>1, <3>1
  <2>4. QED
    BY <1>9, <2>2, <2>3 DEF U!RestartOld
<1>10. CASE U!RestartNew(u)
  <2>1. /\ UNCHANGED <<app, deps>> /\ job' = "working" /\ app = "new" /\ deps = "new"
        /\ u.at = "restart"
    BY <1>1, <1>10 DEF U!RestartNew, U!update_progress, UnitWorks
  <2>2. CASE U!Goes(u, "health")
    <3>1. Works("health")
      BY <1>1, <1>2, <2>1, <2>2 DEF U!At, UnitWorks
    <3>2. QED
      BY <2>1, <3>1
  <2>3. CASE U!Goes(u, "failed") /\ U!Fault("restart")
    <3>1. Works("failed")
      BY <1>1, <1>2, <2>1, <2>3, UpdateFault DEF U!At
    <3>2. QED
      BY <2>1, <3>1
  <2>4. QED
    BY <1>10, <2>2, <2>3 DEF U!RestartNew
<1>11. CASE U!Health(u)
  <2>1. /\ UNCHANGED <<app, deps, services>> /\ job' = "working"
        /\ app = "new" /\ deps = "new" /\ u.at = "health"
    BY <1>1, <1>11 DEF U!Health, U!machine, U!update_progress, UnitWorks
  <2>2. CASE services = app /\ U!Goes(u, "completed")
    <3>1. Works("completed")
      BY <1>1, <1>2, <2>1, <2>2 DEF U!At, U!Installed
    <3>2. QED
      BY <2>1, <3>1
  <2>3. CASE U!Goes(u, "revert")
    <3>1. Works("revert")
      BY <1>1, <1>2, <2>1, <2>3 DEF U!At, UnitWorks
    <3>2. QED
      BY <2>1, <3>1
  <2>4. QED
    BY <1>11, <2>2, <2>3 DEF U!Health
<1>12. CASE U!Finish(u)
  <2>1. UNCHANGED <<app, deps, services>>
    BY <1>12 DEF U!Finish, U!machine
  <2>2. /\ U!Installed(found)' <=> U!Installed(found)
        /\ U!Installed("new")' <=> U!Installed("new")
    BY <1>1, <2>1 DEF U!Installed
  <2>3. CASE u.at = "completed" /\ job' = "torn" /\ U!Goes(u, "writing_completed")
    <3>1. Works("writing_completed")
      BY <1>1, <1>2, <2>1, <2>2, <2>3 DEF U!At, UnitWorks
    <3>2. QED
      BY <2>3, <3>1
  <2>4. CASE u.at = "failed" /\ job' = "torn" /\ U!Goes(u, "writing_failed")
    <3>1. Works("writing_failed")
      BY <1>1, <1>2, <2>1, <2>2, <2>4 DEF U!At, UnitWorks
    <3>2. QED
      BY <2>4, <3>1
  <2>5. CASE u.at = "writing_completed" /\ job' = "completed" /\ units' = units \ {u}
    BY <1>1, <2>1, <2>2, <2>5 DEF UnitWorks, JobSettled
  <2>6. CASE u.at = "writing_failed" /\ job' = "failed" /\ units' = units \ {u}
    BY <1>1, <2>1, <2>2, <2>6 DEF UnitWorks, JobSettled
  <2>7. QED
    BY <1>12, <2>3, <2>4, <2>5, <2>6 DEF U!Finish
<1>13. QED
  BY <1>3, <1>4, <1>5, <1>6, <1>7, <1>8, <1>9, <1>10, <1>11, <1>12 DEF UnitActs

(* What is asked for: a unit is started when the job says that none runs.  *)
LEMMA UpdateInstall == ASSUME UpdateInv, U!Install PROVE UpdateInv'
<1>1. /\ U!TypeOK /\ UNCHANGED <<app, deps, services, late, available, registry>>
      /\ updatesPage' = "polling"
  BY DEF UpdateInv, U!Install, U!machine
<1>2. CASE job \in U!Running
  <2>1. UNCHANGED <<job, units, started, updateFaults, seen, found>>
    BY <1>2 DEF U!Install, U!startUpdateJob, U!history
  <2>2. U!TypeOK' /\ (OneUnit' <=> OneUnit) /\ (JobSettled' <=> JobSettled)
    BY <1>1, <2>1 DEF U!TypeOK, U!Pages, OneUnit, Undoable, JobSettled, U!Installed
  <2>3. \A u : UnitWorks(u)' <=> UnitWorks(u)
    BY <1>1, <2>1 DEF UnitWorks, U!Installed, Undoable
  <2>4. QED
    BY <1>1, <2>1, <2>2, <2>3 DEF UpdateInv
<1>3. CASE job \notin U!Running
  <2> PICK v : v = [unit |-> started + 1, at |-> "starting", backup |-> "none"]
    OBVIOUS
  <2>1. /\ started < OfUpdates.MaxUnits /\ job' = "queued" /\ started' = started + 1
        /\ units' = units \cup {v} /\ U!Begins
    BY <1>3 DEF U!Install, U!startUpdateJob
  <2>2. v \in Unit /\ v.at = "starting" /\ started' \in 0..OfUpdates.MaxUnits
    BY <1>1, <2>1, UpdateNat DEF U!TypeOK, Unit, U!At, U!Release
  <2>3. ASSUME {found'} \subseteq U!Release, seen' \subseteq OfUpdates.Faults,
               updateFaults' \in 0..OfUpdates.MaxFaults
        PROVE  U!TypeOK'
    BY <1>1, <2>1, <2>2, <2>3 DEF U!TypeOK, U!Pages, U!Job, Unit
  <2>4. CASE units = {} /\ ~late
    <3>1. /\ found' = IF app = deps /\ deps = services THEN app ELSE "none"
          /\ seen' = (IF registry THEN {} ELSE {"registry"}) /\ updateFaults' = updateFaults
      BY <2>1, <2>4 DEF U!Begins
    <3>2. seen' \subseteq seen /\ (~registry => "registry" \in seen')
      BY <3>1 DEF UpdateInv
    <3>3. U!TypeOK'
      BY <1>1, <2>3, <3>1, <3>2 DEF U!TypeOK, U!Release
    <3>4. Undoable' => U!Installed(found)'
      BY <1>1, <3>1 DEF Undoable, U!Installed
    <3>5. units' = {v} /\ UnitWorks(v)'
      BY <2>1, <2>2, <2>4, <3>4 DEF UnitWorks
    <3>6. QED
      BY <1>1, <2>1, <2>4, <3>2, <3>3, <3>5 DEF UpdateInv
  <2>5. CASE ~(units = {} /\ ~late)
    <3>1. \/ UNCHANGED <<updateFaults, seen, found>>
          \/ job = "torn" /\ U!Fault("torn")
      BY <2>1, <2>5 DEF U!Begins, U!history
    <3>2. /\ seen \subseteq seen' /\ seen' \subseteq OfUpdates.Faults /\ found' = found
          /\ updateFaults' \in 0..OfUpdates.MaxFaults
      BY <3>1, UpdateHistory
    <3>3. ~OneUnit'
      <4>1. CASE job = "torn" /\ U!Fault("torn")
        BY <4>1, UpdateFault
      <4>2. CASE UNCHANGED <<updateFaults, seen, found>> /\ late
        BY <4>2 DEF UpdateInv, OneUnit
      <4>3. CASE UNCHANGED <<updateFaults, seen, found>> /\ ~late
        <5>1. job # "torn" /\ units # {}
          <6>1. units # {}
            BY <2>5, <4>3
          <6>2. CASE job = "torn"
            BY <2>1, <2>5, <6>1, <6>2, <4>3, UpdateFault DEF U!Begins, U!Fault, UpdateInv, U!TypeOK
          <6>3. QED
            BY <6>1, <6>2
        <5>2. job \in {"none", "completed", "failed"}
          BY <1>1, <1>3, <5>1 DEF U!TypeOK, U!Job, U!Running
        <5>3. QED
          BY <4>3, <5>1, <5>2 DEF UpdateInv, OneUnit
      <4>4. QED
        BY <3>1, <4>1, <4>2, <4>3
    <3>4. U!TypeOK'
      BY <1>1, <2>3, <3>2 DEF U!TypeOK
    <3>5. QED
      BY <1>1, <3>2, <3>3, <3>4 DEF UpdateInv
  <2>6. QED
    BY <2>4, <2>5
<1>4. QED
  BY <1>2, <1>3

(* What happens to the host.                                               *)
LEMMA UpdateHost == ASSUME UpdateInv, U!LateReport \/ U!Outage PROVE UpdateInv'
<1>1. CASE U!LateReport
  <2>1. "late" \in seen' /\ U!TypeOK' /\ (~registry' => "registry" \in seen')
    BY <1>1 DEF U!LateReport, U!machine, U!history, UpdateInv, U!TypeOK, U!Job
  <2>2. ~OneUnit'
    BY <2>1 DEF OneUnit
  <2>3. QED
    BY <2>1, <2>2 DEF UpdateInv
<1>2. CASE U!Outage
  <2>1. /\ UNCHANGED <<app, deps, services, job, units, started, late, available, updatesPage>>
        /\ registry' = ~registry
        /\ UNCHANGED <<updateFaults, seen, found>> \/ U!Fault("registry")
        /\ registry => U!Fault("registry")
    BY <1>2 DEF U!Outage, U!machine, U!history
  <2>2. /\ seen \subseteq seen' /\ seen' \subseteq OfUpdates.Faults /\ found' = found
        /\ updateFaults' \in 0..OfUpdates.MaxFaults
        /\ (OneUnit' => OneUnit) /\ (Undoable' => Undoable)
    BY <2>1, UpdateHistory
  <2>3. ~registry' => "registry" \in seen'
    <3>1. CASE registry
      BY <2>1, <3>1, UpdateFault
    <3>2. CASE ~registry
      BY <2>1, <3>2
    <3>3. QED
      BY <3>1, <3>2
  <2>4. U!TypeOK'
    BY <2>1, <2>2 DEF U!TypeOK, UpdateInv
  <2>5. JobSettled => JobSettled'
    BY <2>1, <2>2 DEF JobSettled, U!Installed
  <2>6. \A u : UnitWorks(u) => UnitWorks(u)'
    BY <2>1, <2>2 DEF UnitWorks, U!Installed
  <2>7. QED
    BY <2>1, <2>2, <2>3, <2>4, <2>5, <2>6 DEF UpdateInv
<1>3. QED
  BY <1>1, <1>2

(* A unit that ends where it does not write how leaves a job that says     *)
(* nothing of the installation.                                            *)
LEMMA UpdateEnds ==
  ASSUME UpdateInv, U!Killed \/ U!Crash \/ \E u \in units : U!Dies(u)
  PROVE  UpdateInv'
<1>1. \E failing : U!Fault(failing)
  BY DEF U!Killed, U!Crash, U!Dies
<1>2. /\ seen \subseteq seen' /\ seen' \subseteq OfUpdates.Faults /\ found' = found
      /\ updateFaults' \in 0..OfUpdates.MaxFaults
      /\ (OneUnit' => OneUnit) /\ (Undoable' => Undoable)
  BY <1>1, UpdateHistory
<1>3. UNCHANGED <<job, started, registry, updatesPage>>
  BY DEF U!Killed, U!Crash, U!Dies, U!machine
<1>4. /\ {app', deps', services'} \subseteq U!Release /\ {late', available'} \subseteq BOOLEAN
      /\ units' \subseteq units /\ (late' => late)
  <2>1. /\ {app, deps, services} \subseteq U!Release /\ {late, available} \subseteq BOOLEAN
    BY DEF UpdateInv, U!TypeOK
  <2>2. CASE U!Killed
    BY <2>1, <2>2 DEF U!Killed, U!CutShort, U!Release
  <2>3. CASE U!Crash
    BY <2>1, <2>3 DEF U!Crash, U!CutShort, U!Release
  <2>4. CASE \E u \in units : U!Dies(u)
    BY <2>1, <2>4 DEF U!Dies, U!machine
  <2>5. QED
    BY <2>2, <2>3, <2>4
<1>5. U!TypeOK'
  <2>1. /\ {app', deps', services', found'} \subseteq U!Release
        /\ job' \in U!Job /\ updatesPage' \in U!Pages /\ registry' \in BOOLEAN
        /\ units' \subseteq Unit /\ started' \in 0..OfUpdates.MaxUnits
    BY <1>2, <1>3, <1>4 DEF UpdateInv, U!TypeOK, Unit
  <2>2. QED
    BY <1>2, <1>4, <2>1 DEF U!TypeOK, Unit
<1>6. ASSUME OneUnit' PROVE units' = {} /\ JobSettled'
  <2>1. CASE units = {}
    <3>1. U!Crash
      BY <2>1 DEF U!Killed
    <3>2. /\ units' = {} /\ app' = app /\ deps' = deps
          /\ services' = IF app' = deps' THEN app' ELSE "none"
      BY <2>1, <3>1 DEF U!Crash, U!CutShort
    <3>3. JobSettled
      BY <1>2, <1>6, <2>1 DEF UpdateInv
    <3>4. QED
      BY <1>2, <1>3, <3>2, <3>3 DEF JobSettled, U!Installed
  <2>2. CASE units # {}
    <3>1. PICK u : units = {u} /\ job \notin {"none", "completed", "failed"}
      BY <1>2, <1>6, <2>2 DEF UpdateInv
    <3>2. units' = {}
      BY <3>1 DEF U!Killed, U!Crash, U!Dies
    <3>3. QED
      BY <1>3, <3>1, <3>2 DEF JobSettled
  <2>3. QED
    BY <2>1, <2>2
<1>7. (late' => "late" \in seen') /\ (~registry' => "registry" \in seen')
  BY <1>2, <1>3, <1>4 DEF UpdateInv
<1>8. QED
  BY <1>5, <1>6, <1>7 DEF UpdateInv

LEMMA UpdateStep == UpdateInv /\ U!Next => UpdateInv'
<1> SUFFICES ASSUME UpdateInv, U!Next PROVE UpdateInv'
  OBVIOUS
<1>1. ASSUME NEW u \in units, UnitActs(u) PROVE UpdateInv'
  <2>1. U!TypeOK' /\ (late' => "late" \in seen')
    BY <1>1, UpdateUnitTypes
  <2>2. ~registry' => "registry" \in seen'
    BY <1>1, UpdateUnitSeen, UpdateHistory DEF UpdateInv
  <2>3. QED
    BY <1>1, <2>1, <2>2, UpdateUnitWorks DEF UpdateInv
<1>2. QED
  BY <1>1, UpdateDashboard, UpdateInstall, UpdateHost, UpdateEnds DEF U!Next, U!UnitStep, UnitActs

LEMMA UpdateCount == \A Q : U!Cardinality(Q) = Cardinality(Q)
  BY DEF U!Cardinality, Cardinality

LEMMA UpdateImplies == UpdateInv => U!TypeOK /\ U!UpdateIsTrue /\ U!OneUpdateAtATime
<1> SUFFICES ASSUME UpdateInv PROVE U!UpdateIsTrue /\ U!OneUpdateAtATime
  BY DEF UpdateInv
<1>1. U!UpdateIsTrue
  BY DEF UpdateInv, U!UpdateIsTrue, OneUnit, Undoable, JobSettled
<1>2. ASSUME OneUnit PROVE Cardinality(units) <= 1
  <2>1. units = {} \/ \E u : units = {u}
    BY <1>2 DEF UpdateInv
  <2>2. QED
    <3>1. CASE units = {}
      BY <3>1, FS_EmptySet
    <3>2. CASE \E u : units = {u}
      <4>1. PICK u : units = {u}
        BY <3>2
      <4>2. Cardinality({u}) = 1
        BY FS_Singleton
      <4>3. QED
        BY <4>1, <4>2
    <3>3. QED
      BY <2>1, <3>1, <3>2
<1>3. QED
  BY <1>1, <1>2, UpdateCount DEF U!OneUpdateAtATime, OneUnit

-----------------------------------------------------------------------------
(* The fast collector.                                                     *)

RatesTyped ==
  /\ reads \in Seq([by : OfRates.Ticks, value : Int])
  /\ counter \in Int /\ counter >= -1 /\ prev \in Int
  /\ passed \in Nat /\ counted \in Nat

\* What was looked at last, and then what was read, in the order of reading.
Figure(rs, looked, i) == IF i = 0 THEN looked ELSE rs[i].value
NoMore(a, b, k) == a >= 0 /\ b >= 0 => b - a <= k

(* How much had passed when each of them was read, at the most: between two*)
(* figures, and since the last of them, no counter gained more than passed.*)
PassedAt(f) ==
  /\ f \in [0..Len(reads) -> Nat]
  /\ counted <= f[0] /\ f[Len(reads)] <= passed
  /\ \A i, j \in 0..Len(reads) : i <= j => f[i] <= f[j]
  /\ \A i \in 0..(Len(reads) - 1) :
       NoMore(Figure(reads, prev, i), Figure(reads, prev, i + 1), f[i + 1] - f[i])
  /\ NoMore(Figure(reads, prev, Len(reads)), counter, passed - f[Len(reads)])

RatesInv == RatesTyped /\ (~overtaken => \E f : PassedAt(f))

LEMMA RatesNat == OfRates.MaxTraffic \in Nat
  BY ServicesAssumption DEF C!HostRatesAssumption

LEMMA RatesFigures ==
  ASSUME RatesTyped, NEW i \in 0..Len(reads)
  PROVE  /\ Figure(reads, prev, i) \in Int
         /\ i # 0 => reads[i] \in [by : OfRates.Ticks, value : Int]
<1>1. prev \in Int /\ reads \in Seq([by : OfRates.Ticks, value : Int])
  BY DEF RatesTyped
<1>2. ASSUME i # 0 PROVE reads[i] \in [by : OfRates.Ticks, value : Int]
  <2>1. i \in 1..Len(reads)
    BY <1>1, <1>2
  <2>2. QED
    BY <1>1, <2>1, ElementOfSeq
<1>3. QED
  BY <1>1, <1>2 DEF Figure

LEMMA RatesInit == C!Init => RatesInv
<1> SUFFICES ASSUME C!Init PROVE RatesInv
  OBVIOUS
<1>1. /\ reads = <<>> /\ counter = 0 /\ passed = 0 /\ counted = 0 /\ prev = -2
  BY DEF C!Init, C!Never
<1>2. Len(reads) = 0 /\ Figure(reads, prev, 0) = -2
  BY <1>1 DEF Figure
<1>3. [i \in 0..0 |-> 0] \in [0..Len(reads) -> Nat]
  BY <1>2
<1>4. PassedAt([i \in 0..0 |-> 0])
  BY <1>1, <1>2, <1>3 DEF PassedAt, NoMore
<1>5. QED
  BY <1>1, <1>4 DEF RatesInv, RatesTyped

(* What neither reads the device nor looks at what was read.               *)
LEMMA RatesAround ==
  ASSUME RatesInv,
         \/ C!Time \/ C!Passes \/ C!Replugged
         \/ \E t \in OfRates.Ticks : C!fastTick(t) \/ C!cpu(t) \/ C!Published(t)
  PROVE  RatesInv'
<1>1. UNCHANGED <<reads, prev, counted, overtaken>>
  BY DEF C!Time, C!Passes, C!Replugged, C!fastTick, C!cpu, C!Published, C!history
<1>2. RatesTyped
  BY DEF RatesInv
<1>3. \/ counter' = counter /\ passed' = passed
      \/ counter >= 0 /\ counter' = counter + 1 /\ passed' = passed + 1
      \/ counter' = 0 /\ counter = -1 /\ passed' = passed
      \/ counter' = -1 /\ passed' = passed
  BY <1>2 DEF RatesTyped, C!Time, C!Passes, C!Replugged, C!fastTick, C!cpu, C!Published, C!kernelVars, C!Absent
<1>4. RatesTyped'
  BY <1>1, <1>2, <1>3 DEF RatesTyped
<1>5. ASSUME NEW f, PassedAt(f) PROVE PassedAt(f)'
  <2>1. Len(reads) \in Nat /\ f[Len(reads)] \in Nat
    BY <1>2, <1>5 DEF RatesTyped, PassedAt
  <2>2. \A i \in 0..Len(reads) : Figure(reads', prev', i) = Figure(reads, prev, i) /\ Figure(reads, prev, i) \in Int
    BY <1>1, <1>2, RatesFigures
  <2>3. f[Len(reads)] <= passed'
    BY <1>2, <1>3, <1>5, <2>1 DEF RatesTyped, PassedAt
  <2>4. NoMore(Figure(reads, prev, Len(reads)), counter', passed' - f[Len(reads)])
    <3>1. /\ Figure(reads, prev, Len(reads)) \in Int /\ passed \in Nat /\ counter \in Int
          /\ f[Len(reads)] <= passed
          /\ NoMore(Figure(reads, prev, Len(reads)), counter, passed - f[Len(reads)])
      BY <1>2, <1>5, <2>1, <2>2 DEF RatesTyped, PassedAt
    <3>2. QED
      BY <1>3, <2>1, <3>1 DEF NoMore
  <2>5. /\ \A i \in 0..(Len(reads) - 1) :
             NoMore(Figure(reads', prev', i), Figure(reads', prev', i + 1), f[i + 1] - f[i])
        /\ Figure(reads', prev', Len(reads)) = Figure(reads, prev, Len(reads))
    <3>1. \A i \in 0..(Len(reads) - 1) : i \in 0..Len(reads) /\ i + 1 \in 0..Len(reads)
      BY <2>1
    <3>2. QED
      BY <1>5, <2>1, <2>2, <3>1 DEF PassedAt, NoMore
  <2>6. /\ f \in [0..Len(reads) -> Nat] /\ counted <= f[0]
        /\ \A i, j \in 0..Len(reads) : i <= j => f[i] <= f[j]
    BY <1>5 DEF PassedAt, NoMore
  <2>7. QED
    BY <1>1, <2>3, <2>4, <2>5, <2>6 DEF PassedAt, NoMore
<1>6. QED
  BY <1>1, <1>4, <1>5 DEF RatesInv

(* A figure is read: as much has passed as has passed.                     *)
LEMMA RatesRead == ASSUME RatesInv, NEW t \in OfRates.Ticks, C!read(t) PROVE RatesInv'
<1>1. PICK value \in {counter, -1} :
        /\ reads' = Append(reads, [by |-> t, value |-> value])
        /\ UNCHANGED <<counter, passed, prev, counted, overtaken>>
  BY DEF C!read, C!kernelVars, C!history, C!Absent
<1>2. RatesTyped /\ value \in Int
  BY <1>1 DEF RatesInv, RatesTyped
<1> PICK n : n = Len(reads)
  OBVIOUS
<1>3. /\ reads' \in Seq([by : OfRates.Ticks, value : Int]) /\ n \in Nat
      /\ Len(reads') = n + 1 /\ reads'[n + 1].value = value
      /\ \A i \in 1..n : reads'[i] = reads[i] /\ reads[i].value \in Int
  <2>1. [by |-> t, value |-> value] \in [by : OfRates.Ticks, value : Int]
    BY <1>2
  <2>2. reads \in Seq([by : OfRates.Ticks, value : Int]) /\ n \in Nat
    BY <1>2 DEF RatesTyped
  <2>3. \A i \in 1..n : reads[i] \in [by : OfRates.Ticks, value : Int]
    BY <2>2, ElementOfSeq
  <2>4. /\ reads' \in Seq([by : OfRates.Ticks, value : Int]) /\ n \in Nat
        /\ Len(reads') = n + 1 /\ reads'[n + 1] = [by |-> t, value |-> value]
        /\ \A i \in 1..n : reads'[i] = reads[i]
    BY <1>1, <2>1, <2>2
  <2>5. QED
    BY <2>3, <2>4
<1>4. RatesTyped'
  BY <1>1, <1>2, <1>3 DEF RatesTyped
<1>5. /\ \A i \in 0..n : Figure(reads', prev', i) = Figure(reads, prev, i) /\ Figure(reads, prev, i) \in Int
      /\ Figure(reads', prev', n + 1) = value
  BY <1>1, <1>2, <1>3 DEF Figure, RatesTyped
<1>6. ASSUME NEW f, PassedAt(f) PROVE \E g : PassedAt(g)'
  <2> PICK g : g = [i \in 0..(n + 1) |-> IF i <= n THEN f[i] ELSE passed]
    OBVIOUS
  <2>1. /\ g \in [0..(n + 1) -> Nat]
        /\ \A i \in 0..n : g[i] = f[i] /\ f[i] \in Nat
        /\ g[n + 1] = passed /\ passed \in Nat
    <3>1. f \in [0..n -> Nat] /\ passed \in Nat /\ n \in Nat
      BY <1>2, <1>3, <1>6 DEF PassedAt, RatesTyped
    <3>2. \A i \in 0..(n + 1) : (i <= n => i \in 0..n) /\ (i \in 0..n => i <= n)
      BY <3>1
    <3>3. \A i \in 0..n : i \in 0..(n + 1) /\ i <= n
      BY <3>1
    <3>4. n + 1 \in 0..(n + 1) /\ ~(n + 1 <= n)
      BY <3>1
    <3>5. QED
      BY <3>1, <3>2, <3>3, <3>4
  <2>2. \A i, j \in 0..(n + 1) : i <= j => g[i] <= g[j]
    <3>1. \A i \in 0..n : f[i] <= passed
      <4>1. /\ f[n] <= passed /\ \A i, j \in 0..n : i <= j => f[i] <= f[j]
            /\ n \in Nat /\ f[n] \in Nat
        BY <1>3, <1>6, <2>1 DEF PassedAt
      <4>2. \A i \in 0..n : f[i] \in Nat /\ i <= n /\ f[i] <= f[n]
        BY <2>1, <4>1
      <4>3. QED
        BY <2>1, <4>1, <4>2
    <3>2. \A i, j \in 0..n : i <= j => f[i] <= f[j]
      BY <1>6 DEF PassedAt, NoMore
    <3>3. \A i \in 0..(n + 1) : i \in 0..n \/ i = n + 1
      BY <1>3
    <3>4. QED
      BY <1>3, <2>1, <3>1, <3>2, <3>3
  <2>3. \A i \in 0..n :
          NoMore(Figure(reads', prev', i), Figure(reads', prev', i + 1), g[i + 1] - g[i])
    <3>1. ASSUME NEW i \in 0..(n - 1)
          PROVE  NoMore(Figure(reads', prev', i), Figure(reads', prev', i + 1), g[i + 1] - g[i])
      <4>1. i \in 0..n /\ i + 1 \in 0..n
        BY <1>3
      <4>2. QED
        BY <1>5, <1>6, <2>1, <4>1 DEF PassedAt
    <3>2. NoMore(Figure(reads', prev', n), Figure(reads', prev', n + 1), g[n + 1] - g[n])
      <4>1. n \in 0..n
        BY <1>3
      <4>2. Figure(reads', prev', n) = Figure(reads, prev, n) /\ Figure(reads', prev', n + 1) = value
        BY <1>5, <4>1
      <4>3. NoMore(Figure(reads, prev, n), counter, passed - f[n])
        BY <1>6 DEF PassedAt
      <4>4. QED
        BY <1>1, <2>1, <4>1, <4>2, <4>3 DEF NoMore
    <3>3. \A i \in 0..n : i \in 0..(n - 1) \/ i = n
      BY <1>3
    <3>4. QED
      BY <3>1, <3>2, <3>3
  <2>4. counted' <= g[0]
    BY <1>1, <1>3, <1>6, <2>1 DEF PassedAt, NoMore
  <2>5. NoMore(Figure(reads', prev', n + 1), counter', passed' - g[n + 1])
    BY <1>1, <1>2, <1>5, <2>1 DEF RatesTyped, NoMore
  <2>6. Len(reads') = n + 1 /\ Len(reads') - 1 = n
    BY <1>3
  <2>7. PassedAt(g)'
    <3>1. g[Len(reads')] <= passed'
      BY <1>1, <1>2, <2>1, <2>6 DEF RatesTyped
    <3>2. /\ g \in [0..Len(reads') -> Nat] /\ counted' <= g[0]
          /\ \A i, j \in 0..Len(reads') : i <= j => g[i] <= g[j]
          /\ \A i \in 0..(Len(reads') - 1) :
               NoMore(Figure(reads', prev', i), Figure(reads', prev', i + 1), g[i + 1] - g[i])
          /\ NoMore(Figure(reads', prev', Len(reads')), counter', passed' - g[Len(reads')])
      BY <2>1, <2>2, <2>3, <2>4, <2>5, <2>6
    <3>3. QED
      BY <3>1, <3>2 DEF PassedAt, NoMore
  <2>8. QED
    BY <2>7
<1>7. QED
  BY <1>1, <1>4, <1>6 DEF RatesInv

LEMMA RatesRemoved ==
  ASSUME RatesTyped, NEW n \in 1..Len(reads)
  PROVE  /\ C!RemoveAt(reads, n) \in Seq([by : OfRates.Ticks, value : Int])
         /\ n = 1 => /\ Len(C!RemoveAt(reads, n)) = Len(reads) - 1
                     /\ \A i \in 1..(Len(reads) - 1) : C!RemoveAt(reads, n)[i] = reads[i + 1]
<1> DEFINE Reading == [by : OfRates.Ticks, value : Int]
           before == SubSeq(reads, 1, n - 1)
           after == SubSeq(reads, n + 1, Len(reads))
<1>1. reads \in Seq(Reading) /\ Len(reads) \in Nat /\ n \in Nat
  BY DEF RatesTyped
<1>2. \A i \in 1..Len(reads) : reads[i] \in Reading
  BY <1>1, ElementOfSeq
<1> HIDE DEF Reading
<1>3. \A i \in 1..(n - 1) : reads[i] \in Reading
  BY <1>1, <1>2
<1>4. \A i \in (n + 1)..Len(reads) : reads[i] \in Reading
  BY <1>1, <1>2
<1>5. before \in Seq(Reading) /\ (n = 1 => before = <<>>)
  BY <1>1, <1>3, SubSeqProperties, SubSeqEmpty
<1>6. /\ after \in Seq(Reading)
      /\ n = 1 => /\ Len(after) = Len(reads) - 1
                  /\ \A i \in 1..(Len(reads) - 1) : after[i] = reads[i + 1]
  <2> HIDE DEF after
  <2> PICK m \in Int : m = n + 1
    BY <1>1
  <2> PICK k \in Int : k = Len(reads)
    BY <1>1
  <2>1. /\ after \in Seq(Reading)
        /\ Len(after) = IF m <= k THEN k - m + 1 ELSE 0
        /\ \A i \in 1..(k - m + 1) : after[i] = reads[m + i - 1]
    <3>1. \A i \in m..k : reads[i] \in Reading
      BY <1>4
    <3>2. after = SubSeq(reads, m, k)
      BY DEF after
    <3>3. QED
      BY <3>1, <3>2, SubSeqProperties
  <2>2. QED
    BY <1>1, <2>1
<1>7. C!RemoveAt(reads, n) = before \o after
  BY DEF C!RemoveAt
<1> HIDE DEF before, after
<1>8. before \o after \in Seq(Reading) /\ (n = 1 => before \o after = after)
  BY <1>5, <1>6, ConcatProperties, ConcatEmptySeq
<1>9. QED
  BY <1>6, <1>7, <1>8 DEF Reading

(* What was read first is looked at first: what it gained has passed.      *)
LEMMA RatesRated == ASSUME RatesInv, NEW n \in 1..Len(reads), C!Rated(n) PROVE RatesInv'
<1> DEFINE gained == C!Gained(reads[n].value)
<1>1. /\ reads' = C!RemoveAt(reads, n) /\ prev' = reads[n].value
      /\ counted' = C!Most(counted + gained) /\ (overtaken' <=> overtaken \/ n > 1)
      /\ counter' = counter /\ passed' = passed
  BY DEF C!Rated
<1>2. RatesTyped /\ reads[n].value \in Int /\ Len(reads) \in Nat
  BY RatesFigures DEF RatesInv, RatesTyped
<1>3. /\ gained \in Nat
      /\ gained > 0 => reads[n].value >= 0 /\ prev >= 0 /\ gained = reads[n].value - prev
  BY <1>2, SMTT(30) DEF RatesTyped, C!Gained, C!Absent
<1> HIDE DEF gained
<1>4. counted' \in Nat /\ counted' <= counted + gained
  BY <1>1, <1>2, <1>3, RatesNat DEF RatesTyped, C!Most
<1>5. RatesTyped'
  BY <1>1, <1>2, <1>4, RatesRemoved DEF RatesTyped
<1>6. ASSUME n = 1, NEW f, PassedAt(f) PROVE \E g : PassedAt(g)'
  <2> PICK last : last = Len(reads) - 1
    OBVIOUS
  <2> PICK g : g = [i \in 0..last |-> f[i + 1]]
    OBVIOUS
  <2>1. /\ last \in Nat /\ Len(reads') = last /\ Len(reads) = last + 1
        /\ \A i \in 1..last : reads'[i] = reads[i + 1]
    BY <1>1, <1>2, <1>6, RatesRemoved
  <2>2. /\ f \in [0..(last + 1) -> Nat] /\ counted <= f[0] /\ f[last + 1] <= passed
        /\ \A i, j \in 0..(last + 1) : i <= j => f[i] <= f[j]
        /\ \A i \in 0..last :
             NoMore(Figure(reads, prev, i), Figure(reads, prev, i + 1), f[i + 1] - f[i])
        /\ NoMore(Figure(reads, prev, last + 1), counter, passed - f[last + 1])
    BY <1>6, <2>1 DEF PassedAt
  <2>3. /\ g \in [0..last -> Nat]
        /\ \A i \in 0..last : g[i] = f[i + 1]
    BY <2>1, <2>2
  <2>4. \A i \in 0..last : Figure(reads', prev', i) = Figure(reads, prev, i + 1)
    BY <1>1, <1>6, <2>1 DEF Figure
  <2>5. counted' <= g[0]
    <3>1. 0 \in 0..last /\ f[0] \in Nat /\ f[1] \in Nat /\ f[0] <= f[1] /\ g[0] = f[1]
      BY <2>1, <2>2, <2>3
    <3>2. NoMore(prev, reads[n].value, f[1] - f[0])
      BY <1>6, <2>2, <3>1 DEF Figure
    <3>3. QED
      BY <1>2, <1>3, <1>4, <2>2, <3>1, <3>2, SMTT(30) DEF NoMore, RatesTyped
  <2>6. g[last] <= passed' /\ NoMore(Figure(reads', prev', last), counter', passed' - g[last])
    <3>1. last \in 0..last
      BY <2>1
    <3>2. QED
      BY <1>1, <2>2, <2>3, <2>4, <3>1
  <2>7. \A i, j \in 0..last : i <= j => g[i] <= g[j]
    <3>1. \A i \in 0..last : i + 1 \in 0..(last + 1)
      BY <2>1
    <3>2. \A i, j \in 0..last : i <= j => i + 1 <= j + 1
      BY <2>1
    <3>3. QED
      BY <2>2, <2>3, <3>1, <3>2
  <2>8. \A i \in 0..(last - 1) :
          NoMore(Figure(reads', prev', i), Figure(reads', prev', i + 1), g[i + 1] - g[i])
    <3>1. \A i \in 0..(last - 1) : i \in 0..last /\ i + 1 \in 0..last
      BY <2>1
    <3>2. QED
      BY <2>2, <2>3, <2>4, <3>1
  <2>9. PassedAt(g)'
    BY <2>1, <2>3, <2>5, <2>6, <2>7, <2>8 DEF PassedAt
  <2>10. QED
    BY <2>9
<1>7. ASSUME ~overtaken' PROVE ~overtaken /\ n = 1
  BY <1>1, <1>2, <1>7
<1>8. QED
  BY <1>5, <1>6, <1>7 DEF RatesInv

LEMMA RatesStep == RatesInv /\ C!Next => RatesInv'
<1> SUFFICES ASSUME RatesInv, C!Next PROVE RatesInv'
  OBVIOUS
<1>1. ASSUME NEW n \in DOMAIN reads, C!network(n) \/ C!diskIo(n) PROVE RatesInv'
  <2>1. n \in 1..Len(reads)
    BY DEF RatesInv, RatesTyped
  <2>2. QED
    BY <1>1, <2>1, RatesRated DEF C!network, C!diskIo
<1>2. QED
  BY <1>1, RatesAround, RatesRead DEF C!Next, C!Collect

LEMMA RatesImply == RatesInv => C!NothingCountedTwice
<1> SUFFICES ASSUME RatesInv, ~overtaken PROVE counted <= passed
  BY DEF C!NothingCountedTwice
<1>1. PICK f : PassedAt(f)
  BY DEF RatesInv
<1>2. /\ Len(reads) \in Nat /\ counted \in Nat /\ passed \in Nat
      /\ f \in [0..Len(reads) -> Nat] /\ counted <= f[0] /\ f[Len(reads)] <= passed
      /\ \A i, j \in 0..Len(reads) : i <= j => f[i] <= f[j]
  BY <1>1 DEF PassedAt, RatesInv, RatesTyped
<1>3. f[0] <= f[Len(reads)] /\ f[0] \in Nat /\ f[Len(reads)] \in Nat
  BY <1>2
<1>4. QED
  BY <1>2, <1>3

-----------------------------------------------------------------------------
(* The journal.                                                            *)

(* What a line says it comes after was written: a hash that is in the file *)
(* stands for rows that were.                                              *)
JournalInv ==
  /\ J!TypeOK
  /\ J!GENESIS \in past
  /\ \A i \in 1..Len(lines) : lines[i].hash \in past

LEMMA JournalLines ==
  ASSUME J!TypeOK
  PROVE  /\ lines \in Seq(J!Row) /\ Len(lines) \in Nat
         /\ \A i \in 1..Len(lines) :
              /\ lines[i] \in J!Row /\ lines[i].seq \in Nat /\ lines[i].entry \in OfJournal.Entries
              /\ lines[i].hash \in Seq(J!Body)
<1>1. lines \in Seq(J!Row) /\ Len(lines) \in Nat
  BY DEF J!TypeOK
<1>2. \A i \in 1..Len(lines) : lines[i] \in J!Row
  BY <1>1, ElementOfSeq
<1>3. QED
  BY <1>1, <1>2 DEF J!Row

LEMMA JournalInit == J!Init => JournalInv
  BY DEF J!Init, JournalInv, J!TypeOK, J!GENESIS

\* A set of numbers has a least one: what would be the first to fail.
LEMMA LeastNumber ==
  ASSUME NEW T, T \subseteq Nat, T # {}
  PROVE  \E m \in T : \A k \in T : m <= k
<1> DEFINE less == {p \in Nat \X Nat : p[1] < p[2]}
<1>1. \A j, k \in Nat : j < k => <<j, k>> \in less
  OBVIOUS
<1>2. IsWellFoundedOn(less, Nat)
  BY NatLessThanWellFounded DEF OpToRel
<1> HIDE DEF less
<1>3. PICK m \in T : \A k \in T : <<k, m>> \notin less
  BY <1>2, WFMin
<1>4. ASSUME NEW k \in T PROVE m <= k
  <2>1. k \in Nat /\ m \in Nat /\ ~(k < m)
    BY <1>1, <1>3, Zenon
  <2>2. QED
    BY <2>1
<1>5. QED
  BY <1>4

LEMMA JournalCorrupt ==
  ASSUME NEW e \in OfJournal.Entries
  PROVE  J!Corrupt \in J!Row /\ J!Corrupt.hash = J!GENESIS /\ J!Corrupt.seq = 0 /\ J!Corrupt.corrupt
<1>1. (CHOOSE d \in OfJournal.Entries : TRUE) \in OfJournal.Entries
  OBVIOUS
<1>2. QED
  BY <1>1 DEF J!Corrupt, J!Row, J!GENESIS, J!Body

(* The row that comes next.                                                *)
LEMMA JournalNewRow ==
  ASSUME J!TypeOK, NEW e \in OfJournal.Entries
  PROVE  LET last == IF lines = <<>> THEN J!Corrupt ELSE lines[Len(lines)]
             line == J!NewRow(e)
         IN  /\ line \in J!Row /\ ~line.corrupt
             /\ line.seq = last.seq + 1 /\ line.entry = e /\ line.prev = last.hash
             /\ line.hash = J!lineHash(last.hash, [seq |-> line.seq, entry |-> line.entry])
<1> DEFINE last == IF lines = <<>> THEN J!Corrupt ELSE lines[Len(lines)]
           line == J!NewRow(e)
<1>0. (lines = <<>> => last = J!Corrupt) /\ (lines # <<>> => last = lines[Len(lines)])
  OBVIOUS
<1> HIDE DEF last
<1>1. last.seq \in Nat /\ last.hash \in Seq(J!Body)
  <2>1. CASE lines = <<>>
    <3>1. last = J!Corrupt /\ <<>> \in Seq(J!Body)
      BY <1>0, <2>1
    <3>2. last.seq = 0 /\ last.hash = <<>>
      BY <3>1, JournalCorrupt DEF J!GENESIS
    <3>3. QED
      BY <3>1, <3>2
  <2>2. CASE lines # <<>>
    <3>1. Len(lines) \in 1..Len(lines)
      BY <2>2 DEF J!TypeOK
    <3>2. QED
      BY <1>0, <2>2, <3>1, JournalLines
  <2>3. QED
    BY <2>1, <2>2
<1>2. line = [corrupt |-> FALSE, seq |-> last.seq + 1, entry |-> e, prev |-> last.hash,
             hash |-> J!lineHash(last.hash, [seq |-> last.seq + 1, entry |-> e])]
  BY DEF J!NewRow, J!Last, last
<1> HIDE DEF line
<1>3. [seq |-> last.seq + 1, entry |-> e] \in J!Body
  BY <1>1 DEF J!Body
<1>4. J!lineHash(last.hash, [seq |-> last.seq + 1, entry |-> e]) \in Seq(J!Body)
  BY <1>1, <1>3 DEF J!lineHash
<1>5. line \in J!Row
  BY <1>1, <1>2, <1>4 DEF J!Row
<1>6. QED
  BY <1>2, <1>5 DEF last, line

(* A write that keeps what comes before, or loses the last line to it.     *)
LEMMA JournalWritten ==
  ASSUME J!TypeOK, NEW line \in J!Row
  PROVE  LET to == J!Written(line) IN
         /\ terminated => /\ to \in Seq(J!Row) /\ Len(to) = Len(lines) + 1
                          /\ \A i \in 1..Len(lines) : to[i] = lines[i]
                          /\ to[Len(to)] = line
         /\ ~terminated => /\ to \in Seq(J!Row) /\ to[Len(to)] = J!Corrupt
                           /\ lines # <<>> => Len(to) = Len(lines)
                           /\ \A i \in 1..(Len(to) - 1) : i \in 1..Len(lines) /\ to[i] = lines[i]
<1>1. lines \in Seq(J!Row) /\ Len(lines) \in Nat /\ \A i \in 1..Len(lines) : lines[i] \in J!Row
  BY JournalLines
<1>2. CASE terminated
  BY <1>1, <1>2 DEF J!Written
<1>3. CASE ~terminated
  <2> PICK n \in Int : n = Len(lines) - 1
    BY <1>1
  <2> DEFINE front == SubSeq(lines, 1, n)
  <2>1. \A i \in 1..n : lines[i] \in J!Row
    BY <1>1
  <2>2. /\ front \in Seq(J!Row) /\ Len(front) = IF 1 <= n THEN n - 1 + 1 ELSE 0
        /\ \A i \in 1..(n - 1 + 1) : front[i] = lines[1 + i - 1]
    BY <2>1, SubSeqProperties
  <2>3. J!Written(line) = Append(front, J!Corrupt)
    BY <1>3 DEF J!Written, J!Front
  <2>4. J!Corrupt \in J!Row
    BY JournalCorrupt DEF J!Row
  <2> HIDE DEF front
  <2>5. /\ Append(front, J!Corrupt) \in Seq(J!Row) /\ Len(Append(front, J!Corrupt)) = Len(front) + 1
        /\ Append(front, J!Corrupt)[Len(front) + 1] = J!Corrupt
        /\ \A i \in 1..Len(front) : Append(front, J!Corrupt)[i] = front[i]
    BY <2>2, <2>4
  <2>6. /\ Len(front) \in Nat /\ (lines # <<>> => Len(front) = Len(lines) - 1)
        /\ \A i \in 1..Len(front) : i \in 1..Len(lines) /\ front[i] = lines[i]
    BY <1>1, <2>2
  <2>7. QED
    BY <1>3, <2>3, <2>5, <2>6
<1>4. QED
  BY <1>2, <1>3

LEMMA JournalSpend ==
  ASSUME J!TypeOK, NEW what \in {"appends", "tears", "damage"}, NEW bound, J!Spend(what, bound)
  PROVE  /\ used' \in [{"appends", "tears", "damage"} -> Nat]
         /\ used'["appends"] > used["appends"] => what = "appends"
  BY DEF J!Spend, J!TypeOK

LEMMA JournalWrites ==
  ASSUME JournalInv, NEW e \in OfJournal.Entries, J!append(e) \/ J!Tear(e)
  PROVE  JournalInv'
<1>1. /\ J!TypeOK /\ J!GENESIS \in past /\ \A i \in 1..Len(lines) : lines[i].hash \in past
  BY DEF JournalInv
<1>2. /\ J!NewRow(e) \in J!Row /\ J!Corrupt \in J!Row /\ J!Corrupt.hash = J!GENESIS
  BY <1>1, JournalNewRow, JournalCorrupt
<1>3. PICK line \in {J!Corrupt, J!NewRow(e)} :
        /\ lines' = J!Written(line) /\ past' = past \cup {J!NewRow(e).hash} /\ terminated' \in BOOLEAN
  BY DEF J!append, J!Tear
<1>4. used' \in [{"appends", "tears", "damage"} -> Nat]
  BY <1>1, JournalSpend DEF J!append, J!Tear
<1>5. line \in J!Row /\ line.hash \in past' /\ J!Corrupt.hash \in past' /\ past' \subseteq Seq(J!Body)
  BY <1>1, <1>2, <1>3 DEF J!Row, J!TypeOK
<1>6. lines' \in Seq(J!Row) /\ \A i \in 1..Len(lines') : lines'[i].hash \in past'
  <2>1. CASE terminated
    <3>1. /\ lines' \in Seq(J!Row) /\ Len(lines') = Len(lines) + 1 /\ Len(lines) \in Nat
          /\ \A i \in 1..Len(lines) : lines'[i] = lines[i]
          /\ lines'[Len(lines')] = line
      BY <1>1, <1>3, <1>5, <2>1, JournalWritten, JournalLines
    <3>2. \A i \in 1..Len(lines') : i \in 1..Len(lines) \/ i = Len(lines')
      BY <3>1
    <3>3. QED
      BY <1>1, <1>3, <1>5, <3>1, <3>2
  <2>2. CASE ~terminated
    <3>1. /\ lines' \in Seq(J!Row) /\ lines'[Len(lines')] = J!Corrupt
          /\ \A i \in 1..(Len(lines') - 1) : i \in 1..Len(lines) /\ lines'[i] = lines[i]
      BY <1>1, <1>3, <1>5, <2>2, JournalWritten
    <3>2. \A i \in 1..Len(lines') : i \in 1..(Len(lines') - 1) \/ i = Len(lines')
      BY <3>1
    <3>3. QED
      BY <1>1, <1>3, <1>5, <3>1, <3>2
  <2>3. QED
    BY <2>1, <2>2
<1>7. QED
  BY <1>1, <1>3, <1>4, <1>5, <1>6 DEF JournalInv, J!TypeOK

(* Whatever somebody does to the file, its hashes stay those it had.       *)
LEMMA JournalDamage ==
  ASSUME JournalInv, NEW to \in Seq(J!Row), J!Damage(to),
         \A i \in 1..Len(to) : \E j \in 1..Len(lines) : to[i].hash = lines[j].hash
  PROVE  JournalInv'
  BY JournalSpend DEF JournalInv, J!Damage, J!TypeOK

LEMMA JournalRemoved ==
  ASSUME J!TypeOK, NEW n \in 1..Len(lines)
  PROVE  LET to == J!RemoveAt(lines, n) IN
         to \in Seq(J!Row) /\ \A i \in 1..Len(to) : \E j \in 1..Len(lines) : to[i] = lines[j]
<1>1. lines \in Seq(J!Row) /\ Len(lines) \in Nat /\ \A i \in 1..Len(lines) : lines[i] \in J!Row
  BY JournalLines
<1> DEFINE Line == {lines[j] : j \in 1..Len(lines)}
<1>2. Line \subseteq J!Row /\ \A i \in 1..Len(lines) : lines[i] \in Line
  BY <1>1
<1> HIDE DEF Line
<1>3. SubSeq(lines, 1, n - 1) \in Seq(Line)
  BY <1>1, <1>2, SubSeqProperties
<1>4. SubSeq(lines, n + 1, Len(lines)) \in Seq(Line)
  BY <1>1, <1>2, SubSeqProperties
<1>5. J!RemoveAt(lines, n) \in Seq(Line)
  BY <1>3, <1>4, ConcatProperties DEF J!RemoveAt
<1>6. \A i \in 1..Len(J!RemoveAt(lines, n)) : J!RemoveAt(lines, n)[i] \in Line
  BY <1>5, ElementOfSeq
<1>7. J!RemoveAt(lines, n) \in Seq(J!Row)
  BY <1>2, <1>5
<1>8. QED
  BY <1>6, <1>7 DEF Line

LEMMA JournalStep == JournalInv /\ J!Next => JournalInv'
<1> SUFFICES ASSUME JournalInv, J!Next PROVE JournalInv'
  OBVIOUS
<1>1. J!TypeOK
  BY DEF JournalInv
<1>2. /\ lines \in Seq(J!Row) /\ Len(lines) \in Nat /\ DOMAIN lines = 1..Len(lines)
      /\ \A i \in 1..Len(lines) : lines[i] \in J!Row
  BY <1>1, JournalLines
<1>3. ASSUME NEW i \in 1..Len(lines), NEW e \in OfJournal.Entries, J!ChangeLine(i, e) PROVE JournalInv'
  <2> PICK to : to = [lines EXCEPT ![i].entry = e]
    OBVIOUS
  <2>1. [lines[i] EXCEPT !.entry = e] \in J!Row /\ [lines[i] EXCEPT !.entry = e].hash = lines[i].hash
    BY <1>2 DEF J!Row
  <2>2. /\ to \in Seq(J!Row) /\ Len(to) = Len(lines)
        /\ \A j \in 1..Len(lines) : to[j].hash = lines[j].hash
    BY <1>2, <2>1
  <2>3. QED
    BY <1>3, <2>2, JournalDamage DEF J!ChangeLine
<1>4. ASSUME NEW i \in 1..Len(lines), J!LoseLine(i) PROVE JournalInv'
  BY <1>1, <1>4, JournalRemoved, JournalDamage DEF J!LoseLine
<1>5. ASSUME NEW i \in 1..(Len(lines) - 1), J!MoveLine(i) PROVE JournalInv'
  <2> PICK to : to = [lines EXCEPT ![i] = lines[i + 1], ![i + 1] = lines[i]]
    OBVIOUS
  <2>1. i \in 1..Len(lines) /\ i + 1 \in 1..Len(lines)
    BY <1>2
  <2>2. /\ to \in Seq(J!Row) /\ Len(to) = Len(lines)
        /\ \A j \in 1..Len(lines) : to[j] \in {lines[j], lines[i], lines[i + 1]}
    BY <1>2, <2>1
  <2>3. QED
    BY <1>5, <2>1, <2>2, JournalDamage DEF J!MoveLine
<1>6. QED
  BY <1>2, <1>3, <1>4, <1>5, JournalWrites DEF J!Next

Bodies(ls, n) == [i \in 1..n |-> [seq |-> ls[i].seq, entry |-> ls[i].entry]]

(* As far as every line is linked, the last hash stands for all the bodies.*)
LEMMA JournalPrefix ==
  ASSUME JournalInv, NEW n \in 0..Len(lines), \A i \in 1..n : J!Linked(i)
  PROVE  Bodies(lines, n) \in past
<1>1. Len(lines) \in Nat /\ n \in Nat /\ n <= Len(lines)
  BY JournalLines DEF JournalInv
<1> DEFINE hash(k) == IF k = 0 THEN J!GENESIS ELSE lines[k].hash
           wrong == {k \in 0..n : hash(k) # Bodies(lines, k)}
<1>2. hash(0) = Bodies(lines, 0)
  BY DEF Bodies, J!GENESIS
<1>3. ASSUME NEW k \in 1..n, hash(k - 1) = Bodies(lines, k - 1) PROVE hash(k) = Bodies(lines, k)
  <2> DEFINE body == [seq |-> lines[k].seq, entry |-> lines[k].entry]
  <2>1. /\ k \in Nat /\ k # 0 /\ k - 1 \in Nat /\ (k = 1 <=> k - 1 = 0)
        /\ \A i \in 1..k : i \in 1..Len(lines)
    BY <1>1
  <2>2. lines[k].hash = Append(hash(k - 1), body)
    BY <2>1 DEF J!Linked, J!lineHash
  <2>3. hash(k) = Append(Bodies(lines, k - 1), body)
    BY <1>3, <2>1, <2>2
  <2>4. \A i \in 1..k : [seq |-> lines[i].seq, entry |-> lines[i].entry] \in J!Body
    BY <2>1, JournalLines DEF JournalInv, J!Body
  <2>5. Bodies(lines, k - 1) \in Seq(J!Body) /\ Len(Bodies(lines, k - 1)) = k - 1
    BY <2>1, <2>4 DEF Bodies
  <2>6. /\ Append(Bodies(lines, k - 1), body) \in Seq(J!Body)
        /\ Len(Append(Bodies(lines, k - 1), body)) = k
        /\ \A i \in 1..k : Append(Bodies(lines, k - 1), body)[i] = Bodies(lines, k)[i]
    BY <2>1, <2>4, <2>5 DEF Bodies
  <2>7. Bodies(lines, k) \in Seq(J!Body) /\ Len(Bodies(lines, k)) = k
    BY <2>1, <2>4 DEF Bodies
  <2>8. Append(Bodies(lines, k - 1), body) = Bodies(lines, k)
    BY <2>6, <2>7, SeqEqual
  <2>9. QED
    BY <2>3, <2>8
<1> HIDE DEF hash
<1>4. wrong = {}
  <2> SUFFICES ASSUME wrong # {} PROVE FALSE
    OBVIOUS
  <2>1. wrong \subseteq Nat
    BY <1>1
  <2>2. PICK m \in wrong : \A k \in wrong : m <= k
    BY <2>1, LeastNumber
  <2>3. m \in 1..n /\ m - 1 \in 0..n /\ ~(m <= m - 1)
    BY <1>1, <1>2, <2>2
  <2>4. hash(m - 1) = Bodies(lines, m - 1)
    BY <2>2, <2>3
  <2>5. QED
    BY <1>3, <2>2, <2>3, <2>4
<1>5. hash(n) = Bodies(lines, n)
  BY <1>1, <1>4
<1>6. hash(n) \in past
  BY <1>1 DEF JournalInv, hash
<1>7. QED
  BY <1>5, <1>6

LEMMA JournalImplies == JournalInv => J!TypeOK /\ J!VerifiedIsHistory
<1> SUFFICES ASSUME JournalInv PROVE J!VerifiedIsHistory
  BY DEF JournalInv
<1>1. /\ J!TypeOK /\ Len(lines) \in Nat /\ DOMAIN lines = 1..Len(lines)
      /\ \A i \in 1..Len(lines) : lines[i] \in J!Row
  BY JournalLines, ElementOfSeq DEF JournalInv
<1>0. PICK n : n = IF J!Broken = {} THEN Len(lines) ELSE J!Min(J!Broken) - 1
  OBVIOUS
<1>2. n \in 0..Len(lines) /\ \A i \in 1..n : J!Linked(i)
  <2>1. J!Broken \subseteq 1..Len(lines) /\ \A i \in 1..Len(lines) : i \notin J!Broken => J!Linked(i)
    BY <1>1 DEF J!Broken
  <2>2. CASE J!Broken = {}
    BY <1>0, <1>1, <2>1, <2>2
  <2>3. CASE J!Broken # {}
    <3>0. J!Broken \subseteq Nat
      BY <1>1, <2>1
    <3>1. \E m \in J!Broken : \A k \in J!Broken : m <= k
      BY <2>3, <3>0, LeastNumber
    <3>2. PICK m : m = J!Min(J!Broken)
      OBVIOUS
    <3>3. m \in J!Broken /\ \A k \in J!Broken : m <= k
      BY <3>1, <3>2 DEF J!Min
    <3>4. m \in 1..Len(lines) /\ n = m - 1
      BY <1>0, <2>1, <2>3, <3>2, <3>3
    <3>5. n \in 0..Len(lines) /\ \A i \in 1..n : i \in 1..Len(lines) /\ ~(m <= i)
      BY <1>1, <3>4
    <3>6. \A i \in 1..n : i \notin J!Broken
      BY <3>3, <3>5
    <3>7. QED
      BY <2>1, <3>5, <3>6
  <2>4. QED
    BY <2>2, <2>3
<1>3. Bodies(lines, n) \in past
  BY <1>2, JournalPrefix
<1>4. /\ J!Verified = SubSeq(lines, 1, n)
      /\ J!Verified \in Seq(J!Row) /\ Len(J!Verified) = n
      /\ \A i \in 1..n : J!Verified[i] = lines[i]
  <2>1. J!Verified = SubSeq(lines, 1, n)
    <3>1. J!Verified = SubSeq(lines, 1, IF J!Broken = {} THEN Len(lines) ELSE J!Min(J!Broken) - 1)
      BY Zenon DEF J!Verified
    <3>2. QED
      BY <1>0, <3>1, Zenon
  <2>2. n \in Int /\ \A i \in 1..n : lines[i] \in J!Row
    BY <1>1, <1>2
  <2>3. /\ SubSeq(lines, 1, n) \in Seq(J!Row) /\ Len(SubSeq(lines, 1, n)) = IF 1 <= n THEN n - 1 + 1 ELSE 0
        /\ \A i \in 1..(n - 1 + 1) : SubSeq(lines, 1, n)[i] = lines[1 + i - 1]
    BY <2>2, SubSeqProperties
  <2>4. QED
    BY <1>2, <2>1, <2>3
<1>5. DOMAIN J!Verified = 1..n
  BY <1>4
<1>6. [i \in DOMAIN J!Verified |-> [seq |-> J!Verified[i].seq, entry |-> J!Verified[i].entry]] = Bodies(lines, n)
  BY <1>4, <1>5 DEF Bodies
<1>7. QED
  BY <1>3, <1>6 DEF J!VerifiedIsHistory

(* Only append() appends.                                                  *)
LEMMA JournalAppended ==
  ASSUME JournalInv, J!Next, J!Appended
  PROVE  \E e \in OfJournal.Entries : J!append(e)
<1>1. J!TypeOK
  BY DEF JournalInv
<1>2. ASSUME NEW e, J!Tear(e) PROVE FALSE
  BY <1>1, <1>2, JournalSpend DEF J!Tear, J!Appended
<1>3. ASSUME NEW to, J!Damage(to) PROVE FALSE
  BY <1>1, <1>3, JournalSpend DEF J!Damage, J!Appended
<1>4. QED
  BY <1>2, <1>3 DEF J!Next, J!ChangeLine, J!LoseLine, J!MoveLine

LEMMA JournalAppends ==
  ASSUME JournalInv, NEW e \in OfJournal.Entries, J!append(e)
  PROVE  /\ J!ok /\ terminated => J!ok' /\ Len(lines') = Len(lines) + 1
         /\ ~J!ok => ~J!ok'
<1>1. /\ J!TypeOK /\ lines \in Seq(J!Row) /\ Len(lines) \in Nat /\ DOMAIN lines = 1..Len(lines)
      /\ lines' \in Seq(J!Row) /\ DOMAIN lines' = 1..Len(lines')
  BY JournalLines, JournalWrites DEF JournalInv, J!TypeOK
<1> PICK line : line = J!NewRow(e)
  OBVIOUS
<1>2. line \in J!Row /\ ~line.corrupt
  BY <1>1, JournalNewRow
<1>3. lines' = J!Written(line)
  BY DEF J!append
<1>4. /\ J!ok <=> \A i \in 1..Len(lines) : J!Linked(i)
      /\ J!ok' <=> \A i \in 1..Len(lines') : J!Linked(i)'
  BY <1>1 DEF J!ok, J!Broken
<1>5. CASE terminated
  <2>1. /\ Len(lines') = Len(lines) + 1 /\ lines'[Len(lines) + 1] = line
        /\ \A i \in 1..Len(lines) : lines'[i] = lines[i]
    BY <1>1, <1>2, <1>3, <1>5, JournalWritten
  <2>2. \A i \in 1..Len(lines) : J!Linked(i)' <=> J!Linked(i)
    <3> SUFFICES ASSUME NEW i \in 1..Len(lines) PROVE J!Linked(i)' <=> J!Linked(i)
      OBVIOUS
    <3>1. lines'[i] = lines[i] /\ (i # 1 => lines'[i - 1] = lines[i - 1])
      BY <1>1, <2>1
    <3>2. QED
      BY <3>1 DEF J!Linked
  <2>3. ASSUME J!ok PROVE \A i \in 1..Len(lines') : J!Linked(i)'
    <3> PICK n : n = Len(lines)
      OBVIOUS
    <3>1. J!Linked(n + 1)'
      <4>1. CASE n = 0
        <5>1. lines = <<>>
          BY <1>1, <4>1
        <5>2. /\ line.seq = 0 + 1 /\ line.prev = J!GENESIS
              /\ line.hash = J!lineHash(J!GENESIS, [seq |-> line.seq, entry |-> line.entry])
          BY <1>1, <5>1, JournalNewRow, JournalCorrupt
        <5>3. QED
          BY <1>2, <2>1, <4>1, <5>2 DEF J!Linked
      <4>2. CASE n # 0
        <5>1. lines # <<>> /\ n \in 1..n /\ n + 1 # 1 /\ n + 1 - 1 = n
          BY <1>1, <4>2
        <5>2. /\ line.seq = lines[n].seq + 1 /\ line.prev = lines[n].hash
              /\ line.hash = J!lineHash(lines[n].hash, [seq |-> line.seq, entry |-> line.entry])
          BY <1>1, <5>1, JournalNewRow
        <5>3. lines[n].seq = n
          BY <1>4, <2>3, <5>1 DEF J!Linked
        <5>4. lines'[n + 1] = line /\ lines'[n + 1 - 1] = lines[n]
          BY <2>1, <5>1
        <5>5. QED
          BY <1>2, <5>1, <5>2, <5>3, <5>4 DEF J!Linked
      <4>3. QED
        BY <4>1, <4>2
    <3>2. \A i \in 1..Len(lines') : i \in 1..n \/ i = n + 1
      BY <1>1, <2>1
    <3>3. QED
      BY <1>4, <2>2, <2>3, <3>1, <3>2
  <2>4. \A i \in 1..Len(lines) : i \in 1..Len(lines')
    BY <1>1, <2>1
  <2>5. QED
    BY <1>4, <2>1, <2>2, <2>3, <2>4
<1>6. CASE ~terminated
  <2> SUFFICES ASSUME ~J!ok PROVE ~J!ok'
    BY <1>6
  <2>1. lines # <<>>
    BY <1>1, <1>4
  <2> PICK k : k = Len(lines')
    OBVIOUS
  <2>2. k \in 1..Len(lines') /\ lines'[k] = J!Corrupt
    <3>1. Len(lines') = Len(lines) /\ lines'[Len(lines')] = J!Corrupt
      BY <1>1, <1>2, <1>3, <1>6, <2>1, JournalWritten
    <3>2. QED
      BY <1>1, <2>1, <3>1
  <2>3. ~J!Linked(k)'
    <3>1. J!Corrupt.corrupt
      BY JournalCorrupt
    <3>2. QED
      BY <2>2, <3>1 DEF J!Linked
  <2>4. QED
    BY <1>4, <2>2, <2>3
<1>7. QED
  BY <1>5, <1>6

-----------------------------------------------------------------------------
(* Probes.                                                                 *)

Probe == [n : Nat, c : OfProbes.Commands, at : Nat]

ProbesTyped ==
  /\ probeTime \in Nat /\ probeRequests \in Nat
  /\ relayed \subseteq [n : Nat, c : OfProbes.Commands]
  /\ spent \in [P!Hosts -> SUBSET Probe]
  /\ recent \in [P!Hosts -> [OfProbes.Commands -> SUBSET Probe]]
  /\ ran \in [P!Hosts -> SUBSET Probe]

(* What a host ran lately it has not forgotten to count, in either memory: *)
(* so whatever it runs next is counted with all of that.                   *)
ProbesInv ==
  /\ ProbesTyped
  /\ \A h \in P!Hosts : IsFiniteSet(spent[h]) /\ IsFiniteSet(ran[h])
  /\ \A h \in P!Hosts, c \in OfProbes.Commands : IsFiniteSet(recent[h][c])
  /\ \A h \in P!Hosts : \A p \in ran[h] :
       /\ p.at <= probeTime
       /\ probeTime - p.at <= OfProbes.BUDGET_WINDOW => p \in spent[h]
       /\ probeTime - p.at < OfProbes.REPEAT_WINDOW => p \in recent[h][p.c]
  /\ P!ProbesAreLimited

LEMMA ProbesNat ==
  /\ OfProbes.BUDGET_WINDOW \in Nat /\ OfProbes.BUDGET_LIMIT \in Nat
  /\ OfProbes.REPEAT_WINDOW \in Nat /\ OfProbes.REPEAT_LIMIT \in Nat /\ OfProbes.MaxTime \in Nat
  BY ServicesAssumption DEF P!ProbesAssumption

LEMMA ProbesCount == \A Q : P!Cardinality(Q) = Cardinality(Q)
  BY DEF P!Cardinality, Cardinality

\* What is run in the stretches of time that begin at t.
Limited(Q, t) ==
  /\ Cardinality({p \in Q : p.at \in t..(t + OfProbes.BUDGET_WINDOW)}) <= OfProbes.BUDGET_LIMIT
  /\ \A c \in OfProbes.Commands :
       Cardinality({p \in Q : p.c = c /\ p.at >= t /\ p.at < t + OfProbes.REPEAT_WINDOW})
         <= OfProbes.REPEAT_LIMIT

LEMMA ProbesLimited ==
  P!ProbesAreLimited <=> \A h \in P!Hosts, t \in 0..OfProbes.MaxTime : Limited(ran[h], t)
  BY ProbesCount DEF P!ProbesAreLimited, Limited

LEMMA ProbesNone == \A t : Limited({}, t)
<1>1. SUFFICES ASSUME NEW t PROVE Limited({}, t)
  OBVIOUS
<1>2. /\ {p \in {} : p.at \in t..(t + OfProbes.BUDGET_WINDOW)} = {}
      /\ \A c : {p \in {} : p.c = c /\ p.at >= t /\ p.at < t + OfProbes.REPEAT_WINDOW} = {}
  OBVIOUS
<1>3. Cardinality({}) = 0 /\ 0 <= OfProbes.BUDGET_LIMIT /\ 0 <= OfProbes.REPEAT_LIMIT
  BY FS_EmptySet, ProbesNat
<1>4. QED
  BY <1>2, <1>3, Zenon DEF Limited

LEMMA ProbesInit == P!Init => ProbesInv
<1> SUFFICES ASSUME P!Init PROVE ProbesInv
  OBVIOUS
<1>1. /\ probeTime = 0 /\ probeRequests = 0 /\ relayed = {}
      /\ spent = [h \in P!Hosts |-> {}] /\ ran = [h \in P!Hosts |-> {}]
      /\ recent = [h \in P!Hosts |-> [c \in OfProbes.Commands |-> {}]]
  BY DEF P!Init, P!NoneRecent
<1>2. ProbesTyped
  BY <1>1 DEF ProbesTyped
<1>3. P!ProbesAreLimited
  BY <1>1, ProbesNone, ProbesLimited
<1>4. IsFiniteSet({})
  BY FS_EmptySet
<1>5. QED
  BY <1>1, <1>2, <1>3, <1>4 DEF ProbesInv

\* What a broker remembers after it has looked at a request.
Remembers(h, n, c) ==
  /\ spent' \in [P!Hosts -> SUBSET Probe]
  /\ recent' \in [P!Hosts -> [OfProbes.Commands -> SUBSET Probe]]
  /\ \A k \in P!Hosts :
       /\ IsFiniteSet(spent'[k])
       /\ \A d \in OfProbes.Commands : IsFiniteSet(recent'[k][d])
       /\ \A p \in spent[k] : probeTime - p.at <= OfProbes.BUDGET_WINDOW => p \in spent'[k]
       /\ \A d \in OfProbes.Commands : \A p \in recent[k][d] :
            probeTime - p.at < OfProbes.REPEAT_WINDOW => p \in recent'[k][d]
  /\ P!Passes(h, n, c) =>
       /\ P!Now(n, c) \in spent'[h]
       /\ 0 < OfProbes.REPEAT_WINDOW => P!Now(n, c) \in recent'[h][c]

LEMMA ProbesStamps ==
  ASSUME ProbesInv, NEW h \in P!Hosts, NEW n \in Nat, NEW c \in OfProbes.Commands
  PROVE  /\ P!Now(n, c) \in Probe /\ P!Now(n, c) \in P!Stamps(h, n, c)
         /\ P!Stamps(h, n, c) \subseteq Probe /\ IsFiniteSet(P!Stamps(h, n, c))
         /\ P!Counting(h) \subseteq Probe /\ IsFiniteSet(P!Counting(h))
<1>1. P!Now(n, c) \in Probe
  BY DEF ProbesInv, ProbesTyped, Probe, P!Now
<1>2. spent[h] \subseteq Probe /\ recent[h][c] \subseteq Probe
  BY DEF ProbesInv, ProbesTyped
<1>3. IsFiniteSet(spent[h]) /\ IsFiniteSet(recent[h][c])
  BY DEF ProbesInv
<1>4. P!Counting(h) \subseteq spent[h]
  BY DEF P!Counting
<1> DEFINE lately == {p \in recent[h][c] : probeTime - p.at < OfProbes.REPEAT_WINDOW}
<1>5. P!Stamps(h, n, c) = lately \union {P!Now(n, c)} /\ lately \subseteq recent[h][c]
  BY DEF P!Stamps
<1>6. IsFiniteSet(P!Counting(h)) /\ IsFiniteSet(lately)
  BY <1>3, <1>4, <1>5, FS_Subset
<1>7. IsFiniteSet(lately \union {P!Now(n, c)})
  BY <1>6, FS_AddElement
<1>8. QED
  BY <1>1, <1>2, <1>4, <1>5, <1>6, <1>7

LEMMA ProbesCheck ==
  ASSUME ProbesInv, NEW h \in P!Hosts, NEW n \in Nat, NEW c \in OfProbes.Commands, P!Check(h, n, c)
  PROVE  Remembers(h, n, c)
<1>1. /\ P!Now(n, c) \in Probe /\ P!Now(n, c) \in P!Stamps(h, n, c)
      /\ P!Stamps(h, n, c) \subseteq Probe /\ IsFiniteSet(P!Stamps(h, n, c))
      /\ P!Counting(h) \subseteq Probe /\ IsFiniteSet(P!Counting(h))
  BY ProbesStamps
<1>2. /\ spent \in [P!Hosts -> SUBSET Probe]
      /\ recent \in [P!Hosts -> [OfProbes.Commands -> SUBSET Probe]]
      /\ probeTime \in Nat
      /\ \A k \in P!Hosts : IsFiniteSet(spent[k])
      /\ \A k \in P!Hosts, d \in OfProbes.Commands : IsFiniteSet(recent[k][d])
  BY DEF ProbesInv, ProbesTyped
<1>3. PICK new : /\ new = P!Counting(h) \union (IF P!Passes(h, n, c) THEN {P!Now(n, c)} ELSE {})
                 /\ spent' = [spent EXCEPT ![h] = new]
  BY DEF P!Check
<1>4. new \subseteq Probe /\ IsFiniteSet(new) /\ (P!Passes(h, n, c) => P!Now(n, c) \in new)
  <2>1. IsFiniteSet(P!Counting(h) \union {P!Now(n, c)})
    BY <1>1, FS_AddElement
  <2>2. CASE P!Passes(h, n, c)
    BY <2>1, <2>2, <1>1, <1>3
  <2>3. CASE ~P!Passes(h, n, c)
    <3>1. new = P!Counting(h)
      BY <2>3, <1>3
    <3>2. QED
      BY <3>1, <2>3, <1>1
  <2>4. QED
    BY <2>2, <2>3
<1>5. \A p \in spent[h] : probeTime - p.at <= OfProbes.BUDGET_WINDOW => p \in new
  BY <1>3 DEF P!Counting
<1>6. /\ spent' \in [P!Hosts -> SUBSET Probe]
      /\ \A k \in P!Hosts :
           /\ IsFiniteSet(spent'[k])
           /\ \A p \in spent[k] : probeTime - p.at <= OfProbes.BUDGET_WINDOW => p \in spent'[k]
      /\ P!Passes(h, n, c) => P!Now(n, c) \in spent'[h]
  BY <1>2, <1>3, <1>4, <1>5
<1>7. PICK kept : /\ kept = P!Remember(h, n, c)
                  /\ recent' = IF P!budgetExhausted(h) THEN recent ELSE [recent EXCEPT ![h] = kept]
  BY DEF P!Check
<1>8. PICK r : r = [recent[h] EXCEPT ![c] = P!Stamps(h, n, c)]
  OBVIOUS
<1>9. /\ r \in [OfProbes.Commands -> SUBSET Probe]
      /\ \A d \in OfProbes.Commands :
           /\ IsFiniteSet(r[d])
           /\ \A p \in recent[h][d] : probeTime - p.at < OfProbes.REPEAT_WINDOW => p \in r[d]
      /\ P!Now(n, c) \in r[c]
  <2>1. \A p \in recent[h][c] : probeTime - p.at < OfProbes.REPEAT_WINDOW => p \in P!Stamps(h, n, c)
    BY DEF P!Stamps
  <2>2. recent[h] \in [OfProbes.Commands -> SUBSET Probe]
    BY <1>2
  <2>3. QED
    BY <2>1, <2>2, <1>1, <1>2, <1>8
<1>10. kept = r \/ kept = [k \in OfProbes.Commands |-> IF P!Kept(r[k]) THEN r[k] ELSE {}]
  BY <1>7, <1>8 DEF P!Remember
<1>11. /\ kept \in [OfProbes.Commands -> SUBSET Probe]
       /\ \A d \in OfProbes.Commands :
            /\ IsFiniteSet(kept[d])
            /\ \A p \in r[d] : probeTime - p.at < OfProbes.REPEAT_WINDOW => p \in kept[d]
  <2>1. CASE kept = r
    BY <2>1, <1>9
  <2>2. CASE kept = [k \in OfProbes.Commands |-> IF P!Kept(r[k]) THEN r[k] ELSE {}]
    <3>1. \A d \in OfProbes.Commands : kept[d] = r[d] \/ (kept[d] = {} /\ ~P!Kept(r[d]))
      BY <2>2
    <3>2. IsFiniteSet({})
      BY FS_EmptySet
    <3>3. \A d \in OfProbes.Commands : IsFiniteSet(kept[d])
      BY <3>1, <3>2, <1>9
    <3>4. \A d \in OfProbes.Commands : \A p \in r[d] :
            probeTime - p.at < OfProbes.REPEAT_WINDOW => p \in kept[d]
      BY <3>1 DEF P!Kept
    <3>5. kept \in [OfProbes.Commands -> SUBSET Probe]
      BY <2>2, <1>9
    <3>6. QED
      BY <3>3, <3>4, <3>5
  <2>3. QED
    BY <2>1, <2>2, <1>10
<1>12. 0 < OfProbes.REPEAT_WINDOW => P!Now(n, c) \in kept[c]
  <2>1. probeTime - P!Now(n, c).at = 0
    BY <1>2 DEF P!Now
  <2>2. QED
    BY <2>1, <1>9, <1>11
<1>13. CASE P!budgetExhausted(h)
  <2>1. recent' = recent /\ ~P!Passes(h, n, c)
    BY <1>7, <1>13 DEF P!Passes
  <2>2. QED
    BY <2>1, <1>2, <1>6 DEF Remembers
<1>14. CASE ~P!budgetExhausted(h)
  <2>1. recent' = [recent EXCEPT ![h] = kept]
    BY <1>7, <1>14
  <2>2. \A d \in OfProbes.Commands : \A p \in recent[h][d] :
          probeTime - p.at < OfProbes.REPEAT_WINDOW => p \in kept[d]
    BY <1>9, <1>11
  <2>3. /\ recent' \in [P!Hosts -> [OfProbes.Commands -> SUBSET Probe]]
        /\ recent'[h] = kept /\ \A k \in P!Hosts : k # h => recent'[k] = recent[k]
    BY <2>1, <1>2, <1>11
  <2>4. \A k \in P!Hosts, d \in OfProbes.Commands :
          /\ IsFiniteSet(recent'[k][d])
          /\ \A p \in recent[k][d] : probeTime - p.at < OfProbes.REPEAT_WINDOW => p \in recent'[k][d]
    BY <2>2, <2>3, <1>2, <1>11
  <2>5. QED
    BY <2>3, <2>4, <1>6, <1>12 DEF Remembers
<1>15. QED
  BY <1>13, <1>14

LEMMA ProbesMemory ==
  ASSUME ProbesInv, NEW h \in P!Hosts, NEW n \in Nat, NEW c \in OfProbes.Commands, P!Check(h, n, c),
         UNCHANGED <<probeTime, ran>>, probeRequests' \in Nat,
         relayed' \subseteq [n : Nat, c : OfProbes.Commands]
  PROVE  ProbesInv'
<1>1. Remembers(h, n, c)
  BY ProbesCheck
<1>2. ProbesTyped'
  BY <1>1 DEF ProbesInv, ProbesTyped, Remembers
<1>3. P!ProbesAreLimited'
  BY ZenonT(40) DEF ProbesInv, P!ProbesAreLimited
<1>4. \A k \in P!Hosts : IsFiniteSet(spent'[k]) /\ IsFiniteSet(ran'[k])
  BY <1>1 DEF ProbesInv, Remembers
<1>5. \A k \in P!Hosts, d \in OfProbes.Commands : IsFiniteSet(recent'[k][d])
  BY <1>1 DEF Remembers
<1>6. ASSUME NEW k \in P!Hosts, NEW p \in ran[k]
      PROVE  /\ p.at <= probeTime
             /\ probeTime - p.at <= OfProbes.BUDGET_WINDOW => p \in spent'[k]
             /\ probeTime - p.at < OfProbes.REPEAT_WINDOW => p \in recent'[k][p.c]
  <2>1. p.c \in OfProbes.Commands
    BY DEF ProbesInv, ProbesTyped, Probe
  <2>2. QED
    BY <2>1, <1>1 DEF ProbesInv, Remembers
<1>7. QED
  BY <1>2, <1>3, <1>4, <1>5, <1>6 DEF ProbesInv

(* What passes is within both limits, together with all that was run in    *)
(* any stretch of time that it falls into.                                 *)
LEMMA ProbesLimit ==
  ASSUME ProbesInv, NEW h \in P!Hosts, NEW n \in Nat, NEW c \in OfProbes.Commands, P!Passes(h, n, c),
         NEW t \in 0..OfProbes.MaxTime
  PROVE  Limited(ran[h] \union {P!Now(n, c)}, t)
<1>0. PICK new : new = ran[h] \union {P!Now(n, c)}
  OBVIOUS
<1>1. PICK this : this = P!Now(n, c)
  OBVIOUS
<1>2. this \in Probe /\ this.at = probeTime /\ this.c = c
  BY <1>1, ProbesStamps DEF P!Now
<1>3. /\ IsFiniteSet(P!Counting(h)) /\ IsFiniteSet(P!Stamps(h, n, c))
      /\ this \in P!Stamps(h, n, c)
  BY <1>1, ProbesStamps
<1>4. /\ probeTime \in Nat /\ ran[h] \subseteq Probe
      /\ \A p \in ran[h] :
           /\ p.at <= probeTime
           /\ probeTime - p.at <= OfProbes.BUDGET_WINDOW => p \in spent[h]
           /\ probeTime - p.at < OfProbes.REPEAT_WINDOW => p \in recent[h][p.c]
  BY DEF ProbesInv, ProbesTyped
<1>5. /\ Cardinality({p \in ran[h] : p.at \in t..(t + OfProbes.BUDGET_WINDOW)}) <= OfProbes.BUDGET_LIMIT
      /\ \A d \in OfProbes.Commands :
           Cardinality({p \in ran[h] : p.c = d /\ p.at >= t /\ p.at < t + OfProbes.REPEAT_WINDOW})
             <= OfProbes.REPEAT_LIMIT
  <2>1. Limited(ran[h], t)
    BY ProbesLimited DEF ProbesInv
  <2>2. QED
    BY <2>1 DEF Limited
<1>6. Cardinality({p \in new : p.at \in t..(t + OfProbes.BUDGET_WINDOW)}) <= OfProbes.BUDGET_LIMIT
  <2>1. CASE this.at \notin t..(t + OfProbes.BUDGET_WINDOW)
    <3>1. {p \in new : p.at \in t..(t + OfProbes.BUDGET_WINDOW)}
            = {p \in ran[h] : p.at \in t..(t + OfProbes.BUDGET_WINDOW)}
      BY <2>1, <1>0, <1>1
    <3>2. QED
      BY <3>1, <1>5
  <2>2. CASE this.at \in t..(t + OfProbes.BUDGET_WINDOW)
    <3>1. {p \in new : p.at \in t..(t + OfProbes.BUDGET_WINDOW)} \subseteq P!Counting(h) \union {this}
      BY <2>2, <1>0, <1>1, <1>2, <1>4, ProbesNat DEF P!Counting, Probe
    <3>2. /\ IsFiniteSet(P!Counting(h) \union {this})
          /\ Cardinality(P!Counting(h) \union {this}) = Cardinality(P!Counting(h))
               \/ Cardinality(P!Counting(h) \union {this}) = Cardinality(P!Counting(h)) + 1
      BY <1>3, FS_AddElement
    <3>3. Cardinality(P!Counting(h)) < OfProbes.BUDGET_LIMIT /\ Cardinality(P!Counting(h)) \in Nat
      <4>1. Cardinality(P!Counting(h)) \in Nat
        BY <1>3, FS_CardinalityType
      <4>2. ~(Cardinality(P!Counting(h)) >= OfProbes.BUDGET_LIMIT)
        BY ProbesCount DEF P!Passes, P!budgetExhausted
      <4>3. QED
        BY <4>1, <4>2, ProbesNat
    <3>4. PICK Q : Q = {p \in new : p.at \in t..(t + OfProbes.BUDGET_WINDOW)}
      OBVIOUS
    <3>5. /\ Cardinality(Q) \in Nat
          /\ Cardinality(Q) <= Cardinality(P!Counting(h) \union {this})
      BY <3>1, <3>2, <3>4, FS_Subset, FS_CardinalityType
    <3>6. QED
      BY <3>2, <3>3, <3>4, <3>5, ProbesNat
  <2>3. QED
    BY <2>1, <2>2
<1>7. ASSUME NEW d \in OfProbes.Commands
      PROVE  Cardinality({p \in new : p.c = d /\ p.at >= t /\ p.at < t + OfProbes.REPEAT_WINDOW})
                <= OfProbes.REPEAT_LIMIT
  <2>1. CASE ~(this.c = d /\ this.at >= t /\ this.at < t + OfProbes.REPEAT_WINDOW)
    <3>1. {p \in new : p.c = d /\ p.at >= t /\ p.at < t + OfProbes.REPEAT_WINDOW}
            = {p \in ran[h] : p.c = d /\ p.at >= t /\ p.at < t + OfProbes.REPEAT_WINDOW}
      BY <2>1, <1>0, <1>1
    <3>2. QED
      BY <3>1, <1>5
  <2>2. CASE this.c = d /\ this.at >= t /\ this.at < t + OfProbes.REPEAT_WINDOW
    <3>1. PICK Q : Q = {p \in new : p.c = d /\ p.at >= t /\ p.at < t + OfProbes.REPEAT_WINDOW}
      OBVIOUS
    <3>2. Q \subseteq P!Stamps(h, n, c)
      <4>1. ASSUME NEW p \in ran[h], p.c = d, p.at >= t PROVE p \in P!Stamps(h, n, c)
        <5>1. p.at \in Nat /\ p.at <= probeTime
          BY <1>4 DEF Probe
        <5>2. probeTime - p.at < OfProbes.REPEAT_WINDOW
          BY <5>1, <4>1, <2>2, <1>2, <1>4, ProbesNat
        <5>3. p \in recent[h][c]
          BY <5>2, <4>1, <2>2, <1>2, <1>4
        <5>4. QED
          BY <5>2, <5>3 DEF P!Stamps
      <4>2. QED
        BY <4>1, <3>1, <1>0, <1>1, <1>3
    <3>3. Cardinality(P!Stamps(h, n, c)) \in Nat
          /\ ~(Cardinality(P!Stamps(h, n, c)) > OfProbes.REPEAT_LIMIT)
      BY <1>3, FS_CardinalityType, ProbesCount DEF P!Passes, P!repeatedTooOften
    <3>4. Cardinality(Q) \in Nat /\ Cardinality(Q) <= Cardinality(P!Stamps(h, n, c))
      BY <3>2, <1>3, FS_Subset, FS_CardinalityType
    <3>5. QED
      BY <3>1, <3>3, <3>4, ProbesNat
  <2>3. QED
    BY <2>1, <2>2
<1>8. QED
  <2>1. Limited(new, t)
    BY <1>6, <1>7 DEF Limited
  <2>2. QED
    BY <2>1, <1>0

LEMMA ProbesRun ==
  ASSUME ProbesInv, NEW h \in P!Hosts, NEW n \in Nat, NEW c \in OfProbes.Commands, P!Check(h, n, c),
         P!Run(h, n, c), UNCHANGED probeTime, probeRequests' \in Nat,
         relayed' \subseteq [n : Nat, c : OfProbes.Commands]
  PROVE  ProbesInv'
<1>1. CASE ~P!Passes(h, n, c)
  <2>1. ran' = ran
    BY <1>1 DEF P!Run
  <2>2. QED
    BY <2>1, ProbesMemory
<1>2. CASE P!Passes(h, n, c)
  <2>1. PICK new : new = ran[h] \union {P!Now(n, c)} /\ ran' = [ran EXCEPT ![h] = new]
    BY <1>2 DEF P!Run
  <2>2. Remembers(h, n, c)
    BY ProbesCheck
  <2>3. PICK this : this = P!Now(n, c)
    OBVIOUS
  <2>4. this \in Probe /\ this.at = probeTime /\ this.c = c
    BY <2>3, ProbesStamps DEF P!Now
  <2>5. /\ ran \in [P!Hosts -> SUBSET Probe] /\ probeTime \in Nat
        /\ \A k \in P!Hosts : IsFiniteSet(ran[k])
    BY DEF ProbesInv, ProbesTyped
  <2>6. /\ ran' \in [P!Hosts -> SUBSET Probe] /\ ran'[h] = new
        /\ \A k \in P!Hosts : k # h => ran'[k] = ran[k]
    BY <2>1, <2>3, <2>4, <2>5
  <2>7. ProbesTyped'
    BY <2>2, <2>6 DEF ProbesInv, ProbesTyped, Remembers
  <2>8. \A k \in P!Hosts : IsFiniteSet(spent'[k]) /\ IsFiniteSet(ran'[k])
    <3>1. IsFiniteSet(new)
      BY <2>1, <2>5, FS_AddElement
    <3>2. QED
      BY <3>1, <2>2, <2>5, <2>6 DEF Remembers
  <2>9. \A k \in P!Hosts, d \in OfProbes.Commands : IsFiniteSet(recent'[k][d])
    BY <2>2 DEF Remembers
  <2>10. ASSUME NEW k \in P!Hosts, NEW p \in ran'[k]
         PROVE  /\ p.at <= probeTime
                /\ probeTime - p.at <= OfProbes.BUDGET_WINDOW => p \in spent'[k]
                /\ probeTime - p.at < OfProbes.REPEAT_WINDOW => p \in recent'[k][p.c]
    <3>1. CASE p \in ran[k]
      <4>1. p.c \in OfProbes.Commands
        BY <3>1, <2>5 DEF Probe
      <4>2. QED
        BY <3>1, <4>1, <2>2 DEF ProbesInv, Remembers
    <3>2. CASE p \notin ran[k]
      <4>1. k = h /\ p = this
        BY <3>2, <2>1, <2>3, <2>6
      <4>2. /\ this \in spent'[h]
            /\ 0 < OfProbes.REPEAT_WINDOW => this \in recent'[h][c]
        BY <2>2, <2>3, <1>2 DEF Remembers
      <4>3. probeTime - this.at = 0
        BY <2>4, <2>5
      <4>4. QED
        BY <4>1, <4>2, <4>3, <2>4, <2>5
    <3>3. QED
      BY <3>1, <3>2
  <2>11. P!ProbesAreLimited'
    <3>1. \A t \in 0..OfProbes.MaxTime : Limited(new, t)
      BY <2>1, <1>2, ProbesLimit
    <3>2. \A k \in P!Hosts, t \in 0..OfProbes.MaxTime : Limited(ran[k], t)
      BY ProbesLimited DEF ProbesInv
    <3>3. \A k \in P!Hosts, t \in 0..OfProbes.MaxTime : Limited(ran'[k], t)
      BY <3>1, <3>2, <2>6
    <3>4. QED
      BY <3>3, ProbesCount DEF P!ProbesAreLimited, Limited
  <2>12. QED
    BY <2>7, <2>8, <2>9, <2>10, <2>11 DEF ProbesInv
<1>3. QED
  BY <1>1, <1>2

LEMMA ProbesRestart == ASSUME ProbesInv, NEW h \in P!Hosts, P!Restart(h) PROVE ProbesInv'
<1>1. /\ spent' = [spent EXCEPT ![h] = {}]
      /\ recent' = [recent EXCEPT ![h] = [c \in OfProbes.Commands |-> {}]]
      /\ ran' = [ran EXCEPT ![h] = {}]
      /\ UNCHANGED <<probeTime, relayed, probeRequests>>
  BY DEF P!Restart, P!NoneRecent
<1>2. ProbesTyped'
  BY <1>1 DEF ProbesInv, ProbesTyped
<1>3. /\ spent'[h] = {} /\ recent'[h] = [c \in OfProbes.Commands |-> {}] /\ ran'[h] = {}
      /\ \A k \in P!Hosts : k # h => spent'[k] = spent[k] /\ recent'[k] = recent[k] /\ ran'[k] = ran[k]
  BY <1>1 DEF ProbesInv, ProbesTyped
<1>4. IsFiniteSet({}) /\ Cardinality({}) = 0
  BY FS_EmptySet
<1>5. P!ProbesAreLimited'
  <2>1. \A k \in P!Hosts, t \in 0..OfProbes.MaxTime : Limited(ran[k], t)
    BY ProbesLimited DEF ProbesInv
  <2>2. \A k \in P!Hosts, t \in 0..OfProbes.MaxTime : Limited(ran'[k], t)
    BY <2>1, <1>3, ProbesNone
  <2>3. QED
    BY <2>2, ProbesCount DEF P!ProbesAreLimited, Limited
<1>6. \A k \in P!Hosts : IsFiniteSet(spent'[k]) /\ IsFiniteSet(ran'[k])
  BY <1>3, <1>4, ZenonT(40) DEF ProbesInv
<1>7. \A k \in P!Hosts, d \in OfProbes.Commands : IsFiniteSet(recent'[k][d])
  BY <1>3, <1>4, ZenonT(40) DEF ProbesInv
<1>8. \A k \in P!Hosts : \A p \in ran'[k] :
        /\ p.at <= probeTime'
        /\ probeTime' - p.at <= OfProbes.BUDGET_WINDOW => p \in spent'[k]
        /\ probeTime' - p.at < OfProbes.REPEAT_WINDOW => p \in recent'[k][p.c]
  BY <1>1, <1>3 DEF ProbesInv
<1>9. QED
  BY <1>2, <1>5, <1>6, <1>7, <1>8 DEF ProbesInv

LEMMA ProbesTick == ASSUME ProbesInv, P!Tick PROVE ProbesInv'
<1>1. /\ probeTime' = probeTime + 1 /\ UNCHANGED <<spent, recent, relayed, ran, probeRequests>>
  BY DEF P!Tick
<1>2. ProbesTyped'
  BY <1>1 DEF ProbesInv, ProbesTyped
<1>3. P!ProbesAreLimited'
  BY <1>1 DEF ProbesInv, P!ProbesAreLimited
<1>4. ASSUME NEW k \in P!Hosts, NEW p \in ran[k]
      PROVE  /\ p.at <= probeTime'
             /\ probeTime' - p.at <= OfProbes.BUDGET_WINDOW => p \in spent[k]
             /\ probeTime' - p.at < OfProbes.REPEAT_WINDOW => p \in recent[k][p.c]
  <2>1. p.at \in Nat /\ probeTime \in Nat
    BY DEF ProbesInv, ProbesTyped, Probe
  <2>2. /\ p.at <= probeTime
        /\ probeTime - p.at <= OfProbes.BUDGET_WINDOW => p \in spent[k]
        /\ probeTime - p.at < OfProbes.REPEAT_WINDOW => p \in recent[k][p.c]
    BY DEF ProbesInv
  <2>3. QED
    BY <2>1, <2>2, <1>1, ProbesNat
<1>5. QED
  BY <1>1, <1>2, <1>3, <1>4 DEF ProbesInv

LEMMA ProbesStep == ProbesInv /\ P!Next => ProbesInv'
<1> SUFFICES ASSUME ProbesInv, P!Next PROVE ProbesInv'
  OBVIOUS
<1>1. probeRequests \in Nat /\ relayed \subseteq [n : Nat, c : OfProbes.Commands]
  BY DEF ProbesInv, ProbesTyped
<1>2. "hub" \in P!Hosts /\ "node" \in P!Hosts
  BY DEF P!Hosts
<1>3. ASSUME NEW c \in OfProbes.Commands, P!relayProbe(c) PROVE ProbesInv'
  <2>1. PICK n \in Nat : n = probeRequests + 1
    BY <1>1
  <2>2. /\ P!Check("hub", n, c) /\ UNCHANGED <<probeTime, ran>> /\ probeRequests' = n
        /\ relayed' \subseteq relayed \union {[n |-> n, c |-> c]}
    BY <1>3, <2>1 DEF P!relayProbe, P!Request
  <2>3. relayed' \subseteq [n : Nat, c : OfProbes.Commands]
    BY <2>2, <1>1
  <2>4. QED
    BY <2>2, <2>3, <1>2, ProbesMemory
<1>4. ASSUME NEW c \in OfProbes.Commands, NEW h \in P!Hosts, P!probe(h, c) PROVE ProbesInv'
  <2>1. PICK n \in Nat : n = probeRequests + 1
    BY <1>1
  <2>2. /\ P!Check(h, n, c) /\ P!Run(h, n, c) /\ UNCHANGED <<probeTime, relayed>> /\ probeRequests' = n
    BY <1>4, <2>1 DEF P!probe, P!Request
  <2>3. relayed' \subseteq [n : Nat, c : OfProbes.Commands]
    BY <2>2, <1>1
  <2>4. QED
    BY <2>2, <2>3, ProbesRun
<1>5. ASSUME NEW r \in relayed, P!Relayed(r) PROVE ProbesInv'
  <2>1. r.n \in Nat /\ r.c \in OfProbes.Commands
    BY <1>1
  <2>2. /\ P!Check("node", r.n, r.c) /\ P!Run("node", r.n, r.c) /\ UNCHANGED <<probeTime, probeRequests>>
        /\ relayed' \subseteq [n : Nat, c : OfProbes.Commands]
    BY <1>1, <1>5 DEF P!Relayed
  <2>3. QED
    BY <2>1, <2>2, <1>1, <1>2, ProbesRun
<1>6. ASSUME NEW r \in relayed, P!Lost(r) PROVE ProbesInv'
  <2>1. /\ UNCHANGED <<probeTime, spent, recent, ran, probeRequests>>
        /\ relayed' \subseteq [n : Nat, c : OfProbes.Commands]
    BY <1>1, <1>6 DEF P!Lost
  <2>2. ProbesTyped'
    BY <2>1 DEF ProbesInv, ProbesTyped
  <2>3. P!ProbesAreLimited'
    BY <2>1 DEF ProbesInv, P!ProbesAreLimited
  <2>4. QED
    BY <2>1, <2>2, <2>3 DEF ProbesInv
<1>7. QED
  BY <1>3, <1>4, <1>5, <1>6, ProbesTick, ProbesRestart DEF P!Next

-----------------------------------------------------------------------------
(* The agent.                                                              *)

AgentModels == B!Range(OfAgent.models)
AgentKeys   == B!Range(OfAgent.keys)

LEMMA AgentSeqs ==
  /\ OfAgent.MaxQuestions \in Nat /\ OfAgent.MaxChats \in Nat /\ OfAgent.MAX_CHATS \in Nat
  /\ OfAgent.MaxFaults \in Nat /\ OfAgent.WINDOW \in Nat /\ OfAgent.WINDOW > 1
  /\ OfAgent.models \in Seq(AgentModels) /\ Len(OfAgent.models) \in Nat \ {0}
  /\ OfAgent.keys \in Seq(AgentKeys) /\ Len(OfAgent.keys) \in Nat
  /\ \A i, j \in 1..Len(OfAgent.models) : OfAgent.models[i] = OfAgent.models[j] => i = j
  /\ \A i, j \in 1..Len(OfAgent.keys) : OfAgent.keys[i] = OfAgent.keys[j] => i = j
  /\ \A m \in AgentModels : \E i \in 1..Len(OfAgent.models) : OfAgent.models[i] = m
  /\ \A k \in AgentKeys : \E i \in 1..Len(OfAgent.keys) : OfAgent.keys[i] = k
<1>1. B!AgentBridgeAssumption
  BY ServicesAssumption
<1>2. /\ OfAgent.models \in Seq(AgentModels) /\ OfAgent.keys \in Seq(AgentKeys)
      /\ Len(OfAgent.models) > 0 /\ OfAgent.WINDOW > 1
  BY <1>1 DEF B!AgentBridgeAssumption, AgentModels, AgentKeys
<1>3. /\ DOMAIN OfAgent.models = 1..Len(OfAgent.models) /\ Len(OfAgent.models) \in Nat
      /\ DOMAIN OfAgent.keys = 1..Len(OfAgent.keys) /\ Len(OfAgent.keys) \in Nat
  BY <1>2, LenProperties
<1>4. B!IsInjective(OfAgent.models) /\ B!IsInjective(OfAgent.keys)
  BY <1>1 DEF B!AgentBridgeAssumption
<1>5. /\ \A i, j \in 1..Len(OfAgent.models) : OfAgent.models[i] = OfAgent.models[j] => i = j
      /\ \A i, j \in 1..Len(OfAgent.keys) : OfAgent.keys[i] = OfAgent.keys[j] => i = j
  BY <1>3, <1>4 DEF B!IsInjective
<1>6. /\ \A m \in AgentModels : \E i \in 1..Len(OfAgent.models) : OfAgent.models[i] = m
      /\ \A k \in AgentKeys : \E i \in 1..Len(OfAgent.keys) : OfAgent.keys[i] = k
  BY <1>3 DEF AgentModels, AgentKeys, B!Range
<1>7. {OfAgent.WINDOW, OfAgent.MAX_CHATS, OfAgent.MaxQuestions, OfAgent.MaxChats, OfAgent.MaxFaults} \subseteq Nat
  BY <1>1 DEF B!AgentBridgeAssumption
<1>8. /\ OfAgent.MaxQuestions \in Nat /\ OfAgent.MaxChats \in Nat /\ OfAgent.MAX_CHATS \in Nat
      /\ OfAgent.MaxFaults \in Nat /\ OfAgent.WINDOW \in Nat
  BY <1>7
<1>9. Len(OfAgent.models) \in Nat \ {0}
  BY <1>2, <1>3
<1>10. QED
  BY <1>2, <1>3, <1>5, <1>6, <1>8, <1>9

\* What is left of a sequence without one of its elements.
LEMMA WithoutOne ==
  ASSUME NEW A, NEW s \in Seq(A), NEW place \in 1..Len(s)
  PROVE  /\ B!RemoveAt(s, place) \in Seq(A) /\ Len(B!RemoveAt(s, place)) = Len(s) - 1
         /\ \A n \in 1..(Len(s) - 1) : B!RemoveAt(s, place)[n] = s[IF n < place THEN n ELSE n + 1]
<1> DEFINE l == SubSeq(s, 1, place - 1)  r == SubSeq(s, place + 1, Len(s))
<1>1. Len(s) \in Nat /\ \A n \in 1..Len(s) : s[n] \in A
  BY LenProperties
<1>2. /\ l \in Seq(A) /\ Len(l) = place - 1 /\ \A n \in 1..(place - 1) : l[n] = s[n]
  <2>1. /\ l \in Seq(A) /\ Len(l) = IF 1 <= place - 1 THEN (place - 1) - 1 + 1 ELSE 0
        /\ \A n \in 1..((place - 1) - 1 + 1) : l[n] = s[1 + n - 1]
    BY <1>1, SubSeqProperties, place - 1 \in Int, 1 \in Int, \A i \in 1..(place - 1) : s[i] \in A
  <2>2. QED
    BY <1>1, <2>1
<1>3. /\ r \in Seq(A) /\ Len(r) = Len(s) - place /\ \A n \in 1..(Len(s) - place) : r[n] = s[place + n]
  <2>1. /\ r \in Seq(A) /\ Len(r) = IF place + 1 <= Len(s) THEN Len(s) - (place + 1) + 1 ELSE 0
        /\ \A n \in 1..(Len(s) - (place + 1) + 1) : r[n] = s[(place + 1) + n - 1]
    BY <1>1, SubSeqProperties, place + 1 \in Int, Len(s) \in Int, \A i \in (place + 1)..Len(s) : s[i] \in A
  <2>2. QED
    BY <1>1, <2>1
<1>4. B!RemoveAt(s, place) = l \o r
  BY DEF B!RemoveAt
<1> HIDE DEF l, r
<1>5. /\ l \o r \in Seq(A) /\ Len(l \o r) = Len(l) + Len(r)
      /\ \A n \in 1..(Len(l) + Len(r)) : (l \o r)[n] = IF n <= Len(l) THEN l[n] ELSE r[n - Len(l)]
  BY <1>2, <1>3, ConcatProperties
<1>6. QED
  BY <1>1, <1>2, <1>3, <1>4, <1>5

(* The candidates are all the models, each of them once.                   *)
LEMMA AgentCandidates ==
  ASSUME NEW model \in AgentModels
  PROVE  LET c == B!Candidates(model) IN
         /\ c \in Seq(AgentModels) /\ Len(c) = Len(OfAgent.models) /\ c[1] = model
         /\ \A i, j \in 1..Len(c) : c[i] = c[j] => i = j
         /\ \A m \in AgentModels : \E i \in 1..Len(c) : c[i] = m
<1> DEFINE s == OfAgent.models
           place == CHOOSE n \in DOMAIN s : s[n] = model
           rest == B!RemoveAt(s, place)
           c == B!Candidates(model)
<1>1. /\ s \in Seq(AgentModels) /\ Len(s) \in Nat \ {0} /\ DOMAIN s = 1..Len(s)
      /\ \A i, j \in 1..Len(s) : s[i] = s[j] => i = j
      /\ \A m \in AgentModels : \E i \in 1..Len(s) : s[i] = m
  BY AgentSeqs, LenProperties
<1>2. place \in 1..Len(s) /\ s[place] = model
  BY <1>1
<1>3. c = <<model>> \o rest
  BY DEF B!Candidates
<1> HIDE DEF s, place, c
<1>4. /\ rest \in Seq(AgentModels) /\ Len(rest) = Len(s) - 1
      /\ \A n \in 1..(Len(s) - 1) : rest[n] = s[IF n < place THEN n ELSE n + 1]
  <2>1. s \in Seq(AgentModels) /\ place \in 1..Len(s)
    BY <1>1, <1>2
  <2>2. QED
    BY <2>1, WithoutOne
<1> HIDE DEF rest
<1>5. /\ c \in Seq(AgentModels) /\ Len(c) = Len(s) /\ c[1] = model
      /\ \A n \in 2..Len(s) : c[n] = rest[n - 1]
  <2>1. <<model>> \in Seq(AgentModels) /\ Len(<<model>>) = 1 /\ <<model>>[1] = model
    OBVIOUS
  <2>2. /\ c \in Seq(AgentModels) /\ Len(c) = 1 + Len(rest)
        /\ \A n \in 1..(1 + Len(rest)) : c[n] = IF n <= 1 THEN <<model>>[n] ELSE rest[n - 1]
    BY <1>3, <1>4, <2>1, ConcatProperties
  <2>3. 1 + Len(rest) = Len(s)
    BY <1>1, <1>4
  <2>4. c[1] = model
    BY <1>1, <2>1, <2>2, <2>3
  <2>5. \A n \in 2..Len(s) : c[n] = rest[n - 1]
    BY <1>1, <2>2, <2>3
  <2>6. QED
    BY <2>2, <2>3, <2>4, <2>5
<1>6. ASSUME NEW n \in 1..Len(s)
      PROVE  c[n] = s[IF n = 1 THEN place ELSE IF n <= place THEN n - 1 ELSE n]
  <2>1. CASE n = 1
    BY <1>2, <1>5, <2>1
  <2>2. CASE n # 1
    <3>1. n \in 2..Len(s) /\ n - 1 \in 1..(Len(s) - 1) /\ place \in Nat
      BY <1>1, <1>2, <2>2
    <3>2. c[n] = s[IF n - 1 < place THEN n - 1 ELSE (n - 1) + 1]
      BY <1>4, <1>5, <3>1
    <3>3. QED
      BY <2>2, <3>1, <3>2
  <2>3. QED
    BY <2>1, <2>2
<1>7. ASSUME NEW i \in 1..Len(s), NEW j \in 1..Len(s), c[i] = c[j] PROVE i = j
  <2> DEFINE source(n) == IF n = 1 THEN place ELSE IF n <= place THEN n - 1 ELSE n
  <2>1. /\ source(i) \in 1..Len(s) /\ source(j) \in 1..Len(s)
        /\ source(i) = source(j) => i = j
    BY <1>1, <1>2
  <2>2. c[i] = s[source(i)] /\ c[j] = s[source(j)]
    BY <1>6
  <2> HIDE DEF source
  <2>3. QED
    BY <1>1, <1>7, <2>1, <2>2
<1>8. ASSUME NEW m \in AgentModels PROVE \E i \in 1..Len(s) : c[i] = m
  <2>1. PICK i \in 1..Len(s) : s[i] = m
    BY <1>1
  <2>2. CASE i = place
    BY <1>1, <1>2, <1>6, <2>1, <2>2
  <2>3. CASE i < place
    <3>1. i + 1 \in 1..Len(s) /\ i + 1 # 1 /\ i + 1 <= place /\ (i + 1) - 1 = i
      BY <1>1, <1>2, <2>1, <2>3
    <3>2. c[i + 1] = s[i]
      BY <1>6, <3>1
    <3>3. QED
      BY <2>1, <3>1, <3>2
  <2>4. CASE i > place
    BY <1>1, <1>2, <1>6, <2>1, <2>4
  <2>5. QED
    BY <1>2, <2>2, <2>3, <2>4
<1>9. QED
  BY <1>5, <1>7, <1>8 DEF c, s

(* Chats in which answers follow their questions.                          *)
AgentTexts == {s \in Seq(B!Message) : B!Follows(s)}
AgentChats == [id : 1..OfAgent.MaxChats, messages : AgentTexts]

LEMMA AgentWindow ==
  ASSUME NEW s \in AgentTexts
  PROVE  B!LastOf(s, OfAgent.WINDOW) \in AgentTexts
<1> DEFINE from == IF Len(s) > OfAgent.WINDOW THEN Len(s) - OfAgent.WINDOW + 1 ELSE 1
           w == SubSeq(s, from, Len(s))
<1>1. /\ s \in Seq(B!Message) /\ Len(s) \in Nat /\ DOMAIN s = 1..Len(s)
      /\ \A n \in 1..Len(s) : s[n] \in B!Message
      /\ OfAgent.WINDOW \in Nat /\ OfAgent.WINDOW > 1
  BY AgentSeqs, LenProperties DEF AgentTexts
<1>2. from \in 1..(Len(s) + 1)
  BY <1>1
<1> HIDE DEF from
<1>3. /\ w \in Seq(B!Message) /\ Len(w) = Len(s) - from + 1
      /\ \A n \in 1..(Len(s) - from + 1) : w[n] = s[from + n - 1]
  <2>1. /\ w \in Seq(B!Message) /\ Len(w) = IF from <= Len(s) THEN Len(s) - from + 1 ELSE 0
        /\ \A n \in 1..(Len(s) - from + 1) : w[n] = s[from + n - 1]
    BY <1>1, <1>2, SubSeqProperties, from \in Int, Len(s) \in Int, \A i \in from..Len(s) : s[i] \in B!Message
  <2>2. QED
    BY <1>1, <1>2, <2>1
<1> HIDE DEF w
<1>4. ASSUME NEW n \in DOMAIN w, w[n].by = "assistant", n > 1
      PROVE  w[n - 1] = [by |-> "user", q |-> w[n].q]
  <2>1. DOMAIN w = 1..(Len(s) - from + 1)
    BY <1>3, LenProperties
  <2>2. n - 1 \in 1..(Len(s) - from + 1) /\ n \in 1..(Len(s) - from + 1)
    BY <1>1, <1>2, <1>4, <2>1
  <2>3. w[n] = s[from + n - 1] /\ w[n - 1] = s[from + (n - 1) - 1]
    BY <1>3, <2>2
  <2>4. from + n - 1 \in DOMAIN s /\ from + n - 1 > 1 /\ from + (n - 1) - 1 = (from + n - 1) - 1
    BY <1>1, <1>2, <2>2
  <2>5. QED
    BY <1>4, <2>3, <2>4 DEF AgentTexts, B!Follows
<1>5. QED
  BY <1>3, <1>4 DEF B!LastOf, AgentTexts, B!Follows, w, from

LEMMA AgentAppend ==
  ASSUME NEW s \in AgentTexts, NEW m \in B!Message,
         m.by = "assistant" => s # <<>> /\ s[Len(s)] = [by |-> "user", q |-> m.q]
  PROVE  /\ Append(s, m) \in AgentTexts /\ Append(s, m) # <<>>
         /\ Append(s, m)[Len(Append(s, m))] = m
<1> DEFINE t == Append(s, m)
<1>1. s \in Seq(B!Message) /\ Len(s) \in Nat /\ DOMAIN s = 1..Len(s) /\ B!Follows(s)
  BY LenProperties DEF AgentTexts
<1>2. /\ t \in Seq(B!Message) /\ Len(t) = Len(s) + 1 /\ DOMAIN t = 1..(Len(s) + 1) /\ t # <<>>
      /\ \A n \in 1..Len(s) : t[n] = s[n]
      /\ t[Len(s) + 1] = m
  BY <1>1
<1> HIDE DEF t
<1>3. ASSUME NEW n \in DOMAIN t, t[n].by = "assistant", n > 1
      PROVE  t[n - 1] = [by |-> "user", q |-> t[n].q]
  <2>1. n - 1 \in 1..Len(s)
    BY <1>1, <1>2, <1>3
  <2>2. CASE n = Len(s) + 1
    <3>1. n - 1 = Len(s) /\ s # <<>> /\ t[n] = m
      BY <1>1, <1>2, <1>3, <2>1, <2>2
    <3>2. QED
      BY <1>2, <1>3, <2>1, <3>1
  <2>3. CASE n \in 1..Len(s)
    BY <1>1, <1>2, <1>3, <2>1, <2>3 DEF B!Follows
  <2>4. QED
    BY <1>1, <1>2, <2>2, <2>3
<1>4. t \in AgentTexts
  BY <1>2, <1>3 DEF AgentTexts, B!Follows
<1>5. QED
  BY <1>2, <1>4 DEF t

LEMMA AgentSave ==
  ASSUME chats \in Seq(AgentChats), NEW p \in OfAgent.Pages, chat[p] \in 1..OfAgent.MaxChats,
         NEW all \in AgentTexts
  PROVE  B!saveForgeChat(p, all) \in Seq(AgentChats)
<1> DEFINE R == {i \in 1..Len(chats) : chats[i].id = chat[p]}
           others == B!RemoveFirstMatch(chats, LAMBDA c : c.id = chat[p])
           new == [id |-> chat[p], messages |-> B!LastOf(all, OfAgent.WINDOW)]
           kept == <<new>> \o others
           to == IF Len(kept) < OfAgent.MAX_CHATS THEN Len(kept) ELSE OfAgent.MAX_CHATS
<1>1. Len(chats) \in Nat
  BY LenProperties
<1>2. others \in Seq(AgentChats)
  <2>1. CASE R = {}
    BY <2>1 DEF B!RemoveFirstMatch
  <2>2. CASE R # {}
    <3>1. R \subseteq Nat
      BY <1>1
    <3>2. \E m \in R : \A k \in R : m <= k
      <4> HIDE DEF R
      <4>1. QED
        BY <2>2, <3>1, LeastNumber
    <3>3. B!Min(R) \in R
      BY <3>2 DEF B!Min
    <3>4. others = B!RemoveAt(chats, B!Min(R))
      BY <2>2 DEF B!RemoveFirstMatch, B!SelectInSeq
    <3>5. QED
      BY <3>3, <3>4, WithoutOne
  <2>3. QED
    BY <2>1, <2>2
<1>3. new \in AgentChats
  BY AgentWindow DEF AgentChats
<1> HIDE DEF others, new
<1>4. kept \in Seq(AgentChats) /\ Len(kept) \in Nat
  <2>1. <<new>> \in Seq(AgentChats)
    BY <1>3
  <2>2. QED
    BY <1>2, <2>1, ConcatProperties, LenProperties
<1>5. to \in Nat /\ to <= Len(kept)
  BY <1>4, AgentSeqs, SMTT(30)
<1>6. SubSeq(kept, 1, to) \in Seq(AgentChats)
  <2>1. \A i \in 1..to : kept[i] \in AgentChats
    BY <1>4, <1>5, ElementOfSeq
  <2>2. QED
    BY <1>5, <2>1, SubSeqProperties, 1 \in Int, to \in Int
<1>7. B!saveForgeChat(p, all) = IF all = <<>> THEN chats ELSE SubSeq(kept, 1, to)
  BY DEF B!saveForgeChat, others, new
<1>8. QED
  BY <1>6, <1>7

(* The attempts at a question, in order, and the pairs of a model and a    *)
(* key they went through.                                                  *)
AgentAttempts ==
  Seq([asked : AgentModels, of : [model : AgentModels, key : AgentKeys]])
AgentTasks == [q : B!Questions, model : AgentModels, candidate : Nat, key : Nat]

Attempted(done, pair) == \E n \in DOMAIN done : done[n].of = pair
PairOf(model, i, j) == [model |-> B!Candidates(model)[i], key |-> OfAgent.keys[j]]
Earlier(t, i, j) == i < t.candidate \/ (i = t.candidate /\ j < t.key)

(* No pair twice, and first the model that was asked for.                  *)
AttemptsDiffer(done) ==
  /\ \A m, n \in DOMAIN done : done[m].of = done[n].of => m = n
  /\ done # <<>> => done[1].of.model = done[1].asked
AllAttempted(done) == \A m \in AgentModels, k \in AgentKeys : Attempted(done, [model |-> m, key |-> k])

(* What a task has gone through are the pairs before the one it is at.     *)
TaskSound(t, done) ==
  /\ t.candidate \in 1..Len(OfAgent.models)
  /\ done = <<>> => t.candidate = 1
  /\ IF OfAgent.keys = <<>> THEN done = <<>>
     ELSE /\ t.key \in 1..Len(OfAgent.keys)
          /\ \A i \in 1..Len(OfAgent.models), j \in 1..Len(OfAgent.keys) :
               Earlier(t, i, j) <=> Attempted(done, PairOf(t.model, i, j))

LEMMA PairsDiffer ==
  ASSUME NEW m \in AgentModels
  PROVE  /\ \A i, k \in 1..Len(OfAgent.models), j, l \in 1..Len(OfAgent.keys) :
              PairOf(m, i, j) = PairOf(m, k, l) => i = k /\ j = l
         /\ \A x \in AgentModels, y \in AgentKeys :
              \E i \in 1..Len(OfAgent.models), j \in 1..Len(OfAgent.keys) :
                PairOf(m, i, j) = [model |-> x, key |-> y]
         /\ \A i \in 1..Len(OfAgent.models), j \in 1..Len(OfAgent.keys) :
              PairOf(m, i, j) \in [model : AgentModels, key : AgentKeys]
<1> DEFINE c == B!Candidates(m)
<1>1. /\ c \in Seq(AgentModels) /\ Len(c) = Len(OfAgent.models)
      /\ \A i, j \in 1..Len(c) : c[i] = c[j] => i = j
      /\ \A x \in AgentModels : \E i \in 1..Len(c) : c[i] = x
  BY AgentCandidates
<1>2. /\ OfAgent.keys \in Seq(AgentKeys)
      /\ \A i, j \in 1..Len(OfAgent.keys) : OfAgent.keys[i] = OfAgent.keys[j] => i = j
      /\ \A k \in AgentKeys : \E i \in 1..Len(OfAgent.keys) : OfAgent.keys[i] = k
  BY AgentSeqs
<1>3. /\ \A i \in 1..Len(OfAgent.models) : c[i] \in AgentModels
      /\ \A j \in 1..Len(OfAgent.keys) : OfAgent.keys[j] \in AgentKeys
  BY <1>1, <1>2, ElementOfSeq
<1> HIDE DEF c
<1>4. \A i, j : PairOf(m, i, j) = [model |-> c[i], key |-> OfAgent.keys[j]]
  BY DEF PairOf, c
<1>5. ASSUME NEW i \in 1..Len(OfAgent.models), NEW k \in 1..Len(OfAgent.models),
             NEW j \in 1..Len(OfAgent.keys), NEW l \in 1..Len(OfAgent.keys),
             PairOf(m, i, j) = PairOf(m, k, l)
      PROVE  i = k /\ j = l
  <2>1. c[i] = c[k] /\ OfAgent.keys[j] = OfAgent.keys[l]
    BY <1>4, <1>5
  <2>2. QED
    BY <1>1, <1>2, <2>1
<1>6. ASSUME NEW x \in AgentModels, NEW y \in AgentKeys
      PROVE  \E i \in 1..Len(OfAgent.models), j \in 1..Len(OfAgent.keys) :
               PairOf(m, i, j) = [model |-> x, key |-> y]
  <2>1. PICK i \in 1..Len(OfAgent.models) : c[i] = x
    BY <1>1
  <2>2. PICK j \in 1..Len(OfAgent.keys) : OfAgent.keys[j] = y
    BY <1>2
  <2>3. PairOf(m, i, j) = [model |-> x, key |-> y]
    BY <1>4, <2>1, <2>2
  <2>4. QED
    BY <2>3
<1>7. \A i \in 1..Len(OfAgent.models), j \in 1..Len(OfAgent.keys) :
        PairOf(m, i, j) \in [model : AgentModels, key : AgentKeys]
  BY <1>3, <1>4
<1>8. QED
  BY <1>5, <1>6, <1>7

\* One element more.
LEMMA OneMore ==
  ASSUME NEW A, NEW s \in Seq(A), NEW x \in A
  PROVE  LET t == Append(s, x) IN
         /\ t \in Seq(A) /\ Len(s) \in Nat /\ DOMAIN s = 1..Len(s) /\ t # <<>>
         /\ \A n \in 1..Len(s) : t[n] = s[n]
         /\ t[Len(s) + 1] = x
         /\ \A n \in DOMAIN t : n \in DOMAIN s \/ n = Len(s) + 1
         /\ \A n \in DOMAIN s : n \in DOMAIN t
         /\ Len(s) + 1 \in DOMAIN t
         /\ s # <<>> => 1 \in DOMAIN s
<1> DEFINE t == Append(s, x)
<1>1. /\ t \in Seq(A) /\ t # <<>> /\ Len(t) = Len(s) + 1
      /\ \A n \in 1..Len(s) : t[n] = s[n]
      /\ t[Len(s) + 1] = x
  BY AppendProperties
<1> HIDE DEF t
<1>2. Len(s) \in Nat /\ DOMAIN s = 1..Len(s) /\ DOMAIN t = 1..Len(t)
  BY <1>1, LenProperties
<1>3. s # <<>> => Len(s) \in Nat \ {0}
  BY EmptySeq
<1>4. QED
  BY <1>1, <1>2, <1>3 DEF t

(* One attempt more.                                                       *)
LEMMA AgentAttempt ==
  ASSUME NEW t \in AgentTasks, NEW done \in AgentAttempts, AttemptsDiffer(done), TaskSound(t, done),
         OfAgent.keys # <<>>
  PROVE  LET bs == Append(done, [asked |-> t.model, of |-> B!attempt(t)]) IN
         /\ bs \in AgentAttempts /\ AttemptsDiffer(bs)
         /\ B!AtLast(t) => AllAttempted(bs)
         /\ ~B!AtLast(t) => /\ B!Further(t) \in AgentTasks /\ B!Further(t).q = t.q
                            /\ TaskSound(B!Further(t), bs)
<1> DEFINE pair == B!attempt(t)
           x == [asked |-> t.model, of |-> pair]
           bs == Append(done, x)
           M == 1..Len(OfAgent.models)
           K == 1..Len(OfAgent.keys)
<1>1. /\ t.model \in AgentModels /\ t.candidate \in M /\ t.key \in K
      /\ \A i \in M, j \in K : Earlier(t, i, j) <=> Attempted(done, PairOf(t.model, i, j))
      /\ done = <<>> => t.candidate = 1
  BY DEF AgentTasks, TaskSound
<1>2. /\ pair = PairOf(t.model, t.candidate, t.key)
      /\ pair \in [model : AgentModels, key : AgentKeys]
  BY <1>1, PairsDiffer DEF B!attempt, PairOf
<1>3. ~Attempted(done, pair)
  <2>1. ~Earlier(t, t.candidate, t.key)
    BY <1>1 DEF Earlier
  <2>2. QED
    BY <1>1, <1>2, <2>1
<1>4. Len(OfAgent.models) \in Nat \ {0} /\ Len(OfAgent.keys) \in Nat
  BY AgentSeqs
<1>5. Len(B!Candidates(t.model)) = Len(OfAgent.models) /\ B!Candidates(t.model)[1] = t.model
  BY <1>1, AgentCandidates
<1>6. x \in [asked : AgentModels, of : [model : AgentModels, key : AgentKeys]]
      /\ x.of = pair /\ x.asked = t.model
  BY <1>1, <1>2
<1>p. /\ \A i, k \in M, j, l \in K : PairOf(t.model, i, j) = PairOf(t.model, k, l) => i = k /\ j = l
      /\ \A m \in AgentModels, y \in AgentKeys :
           \E i \in M, j \in K : PairOf(t.model, i, j) = [model |-> m, key |-> y]
  BY <1>1, PairsDiffer
<1> HIDE DEF x, pair, M, K
<1>7. /\ bs \in AgentAttempts /\ Len(done) \in Nat /\ DOMAIN done = 1..Len(done)
      /\ bs # <<>>
      /\ \A n \in 1..Len(done) : bs[n] = done[n]
      /\ bs[Len(done) + 1] = x
  BY <1>6, OneMore DEF AgentAttempts
<1>d. /\ \A n \in DOMAIN bs : n \in DOMAIN done \/ n = Len(done) + 1
      /\ \A n \in DOMAIN done : n \in DOMAIN bs
      /\ Len(done) + 1 \in DOMAIN bs
      /\ done # <<>> => 1 \in DOMAIN done
  BY <1>6, OneMore DEF AgentAttempts
<1> HIDE DEF bs
<1>8. \A y : Attempted(bs, y) <=> Attempted(done, y) \/ y = pair
  BY <1>6, <1>7, <1>d DEF Attempted
<1>9. AttemptsDiffer(bs)
  <2>1. ASSUME NEW m \in DOMAIN bs, NEW n \in DOMAIN bs, bs[m].of = bs[n].of PROVE m = n
    <3>1. CASE m \in DOMAIN done /\ n \in DOMAIN done
      BY <1>7, <2>1, <3>1 DEF AttemptsDiffer
    <3>2. CASE m \in DOMAIN done /\ n \notin DOMAIN done
      <4>1. n = Len(done) + 1
        BY <1>d, <3>2
      <4>2. done[m].of = pair
        BY <1>6, <1>7, <2>1, <3>2, <4>1
      <4>3. QED
        BY <1>3, <3>2, <4>2 DEF Attempted
    <3>3. CASE m \notin DOMAIN done /\ n \in DOMAIN done
      <4>1. m = Len(done) + 1
        BY <1>d, <3>3
      <4>2. done[n].of = pair
        BY <1>6, <1>7, <2>1, <3>3, <4>1
      <4>3. QED
        BY <1>3, <3>3, <4>2 DEF Attempted
    <3>4. CASE m \notin DOMAIN done /\ n \notin DOMAIN done
      BY <1>d, <3>4
    <3>5. QED
      BY <3>1, <3>2, <3>3, <3>4
  <2>2. bs[1].of.model = bs[1].asked
    <3>1. CASE done = <<>>
      <4>1. bs[1] = x
        BY <1>7, <3>1
      <4>2. pair.model = t.model
        BY <1>1, <1>2, <1>5, <3>1 DEF PairOf
      <4>3. QED
        BY <1>6, <4>1, <4>2
    <3>2. CASE done # <<>>
      BY <1>7, <1>d, <3>2 DEF AttemptsDiffer
    <3>3. QED
      BY <3>1, <3>2
  <2>3. QED
    BY <2>1, <2>2 DEF AttemptsDiffer
<1>10. ASSUME B!AtLast(t) PROVE AllAttempted(bs)
  <2>1. t.candidate = Len(OfAgent.models) /\ t.key = Len(OfAgent.keys)
    BY <1>5, <1>10 DEF B!AtLast
  <2>2. ASSUME NEW m \in AgentModels, NEW k \in AgentKeys
        PROVE  Attempted(bs, [model |-> m, key |-> k])
    <3>1. PICK i \in M, j \in K : PairOf(t.model, i, j) = [model |-> m, key |-> k]
      BY <1>p
    <3>2. CASE Earlier(t, i, j)
      BY <1>1, <1>8, <3>1, <3>2
    <3>3. CASE i = t.candidate /\ j = t.key
      BY <1>2, <1>8, <3>1, <3>3
    <3>4. QED
      BY <1>4, <2>1, <3>2, <3>3 DEF Earlier, M, K
  <2>3. QED
    BY <2>2 DEF AllAttempted
<1>11. ASSUME ~B!AtLast(t)
       PROVE  /\ B!Further(t) \in AgentTasks /\ B!Further(t).q = t.q
              /\ TaskSound(B!Further(t), bs)
  <2> DEFINE f == B!Further(t)
  <2>1. t.candidate # Len(OfAgent.models) \/ t.key # Len(OfAgent.keys)
    BY <1>5, <1>11 DEF B!AtLast
  <2>2. /\ f \in AgentTasks /\ f.q = t.q /\ f.model = t.model
        /\ IF t.key < Len(OfAgent.keys) THEN f.candidate = t.candidate /\ f.key = t.key + 1
           ELSE f.candidate = t.candidate + 1 /\ f.key = 1
    <3>1. t.q \in B!Questions /\ t.candidate \in Nat /\ t.key \in Nat
      BY DEF AgentTasks
    <3>2. CASE t.key < Len(OfAgent.keys)
      <4>1. f = [t EXCEPT !.key = t.key + 1]
        BY <3>2 DEF B!Further
      <4>2. QED
        BY <3>1, <3>2, <4>1 DEF AgentTasks
    <3>3. CASE ~(t.key < Len(OfAgent.keys))
      <4>1. f = [t EXCEPT !.candidate = t.candidate + 1, !.key = 1]
        BY <3>3 DEF B!Further
      <4> DEFINE u == [t EXCEPT !.candidate = t.candidate + 1]
      <4>2. u \in AgentTasks /\ u.q = t.q /\ u.model = t.model /\ u.candidate = t.candidate + 1
        BY <3>1 DEF AgentTasks
      <4>3. f = [u EXCEPT !.key = 1]
        BY <4>1
      <4> HIDE DEF u
      <4>4. f \in AgentTasks /\ f.q = u.q /\ f.model = u.model /\ f.candidate = u.candidate /\ f.key = 1
        BY <4>2, <4>3 DEF AgentTasks
      <4>5. QED
        BY <3>3, <4>2, <4>4
    <3>4. QED
      BY <3>2, <3>3
  <2> HIDE DEF f
  <2>3. f.candidate \in M /\ f.key \in K
    BY <1>1, <1>4, <2>1, <2>2 DEF M, K
  <2>4. ASSUME NEW i \in M, NEW j \in K
        PROVE  Earlier(f, i, j) <=> Earlier(t, i, j) \/ (i = t.candidate /\ j = t.key)
    BY <1>1, <1>4, <2>2 DEF Earlier, M, K
  <2>5. ASSUME NEW i \in M, NEW j \in K
        PROVE  Earlier(f, i, j) <=> Attempted(bs, PairOf(f.model, i, j))
    <3>1. PairOf(t.model, i, j) = pair <=> i = t.candidate /\ j = t.key
      BY <1>1, <1>2, <1>p
    <3>2. QED
      BY <1>1, <1>8, <2>2, <2>4, <3>1
  <2>6. TaskSound(f, bs)
    BY <1>7, <2>3, <2>5 DEF TaskSound, M, K
  <2>7. QED
    BY <2>2, <2>6 DEF f
<1>12. QED
  BY <1>7, <1>9, <1>10, <1>11 DEF bs, x, pair

(* The page: what it waits for is its last message.                        *)
AgentPageInv ==
  /\ messages \in [OfAgent.Pages -> AgentTexts] /\ chats \in Seq(AgentChats)
  /\ chat \in [OfAgent.Pages -> 0..OfAgent.MaxChats] /\ busy \in [OfAgent.Pages -> {0} \cup B!Questions]
  /\ begun \in 0..OfAgent.MaxChats /\ chatFaults \in 0..OfAgent.MaxFaults
  /\ jobs \in Seq({"running", "done", "error", "gone"}) /\ Len(jobs) <= OfAgent.MaxQuestions
  /\ calls \subseteq 1..Len(jobs)
  /\ \A p \in OfAgent.Pages : busy[p] # 0 =>
       /\ chat[p] # 0 /\ messages[p] # <<>>
       /\ messages[p][Len(messages[p])] = [by |-> "user", q |-> busy[p]]

AgentReplied == {a.q : a \in answers}

(* The bridge: a question is in the queue, or replied to, or not begun.    *)
AgentBridgeInv ==
  /\ queue \in Seq(AgentTasks) /\ attempts \in [B!Questions -> AgentAttempts]
  /\ answers \subseteq [q : B!Questions, is : B!Outcome]
  /\ \A a, b \in answers : a.q = b.q => a = b
  /\ \A q \in B!Questions :
       /\ AttemptsDiffer(attempts[q])
       /\ attempts[q] # <<>> => q \in AgentReplied \/ (queue # <<>> /\ queue[1].q = q)
       /\ [q |-> q, is |-> "all_models_failed"] \in answers => AllAttempted(attempts[q])
  /\ \A m, n \in 1..Len(queue) : queue[m].q = queue[n].q => m = n
  /\ \A n \in 1..Len(queue) : queue[n].q \notin AgentReplied /\ TaskSound(queue[n], attempts[queue[n].q])

AgentInv == AgentPageInv /\ AgentBridgeInv

LEMMA AgentInit == B!Init => AgentInv
<1> SUFFICES ASSUME B!Init PROVE AgentInv
  OBVIOUS
<1>1. <<>> \in AgentTexts
  BY DEF AgentTexts, B!Follows
<1>2. 0 \in 0..OfAgent.MaxChats /\ 0 \in 0..OfAgent.MaxFaults /\ 0 <= OfAgent.MaxQuestions
  BY AgentSeqs
<1>3. AgentPageInv
  BY <1>1, <1>2 DEF B!Init, AgentPageInv
<1>4. <<>> \in AgentAttempts /\ AttemptsDiffer(<<>>)
  BY DEF AgentAttempts, AttemptsDiffer
<1>5. AgentBridgeInv
  BY <1>4 DEF B!Init, AgentBridgeInv, AgentReplied
<1>6. QED
  BY <1>3, <1>5 DEF AgentInv

LEMMA AgentImplies ==
  AgentInv => B!TypeOK /\ B!OneQuestionAtATime /\ B!AnswersFollowQuestions
<1> SUFFICES ASSUME AgentPageInv, AgentBridgeInv
             PROVE  B!TypeOK /\ B!OneQuestionAtATime /\ B!AnswersFollowQuestions
  BY DEF AgentInv
<1>1. B!TypeOK
  <2>1. messages \in [OfAgent.Pages -> Seq(B!Message)]
    BY DEF AgentPageInv, AgentTexts
  <2>2. chats \in Seq([id : 1..OfAgent.MaxChats, messages : Seq(B!Message)])
    <3>1. AgentChats \subseteq [id : 1..OfAgent.MaxChats, messages : Seq(B!Message)]
      BY DEF AgentChats, AgentTexts
    <3>2. QED
      BY <3>1, SeqMonotonic DEF AgentPageInv
  <2>3. calls \subseteq B!Questions
    <3>1. Len(jobs) \in Nat
      BY LenProperties DEF AgentPageInv
    <3>2. QED
      BY <3>1, AgentSeqs, SMTT(30) DEF AgentPageInv, B!Questions
  <2>4. QED
    BY <2>1, <2>2, <2>3
       DEF AgentPageInv, AgentBridgeInv, B!TypeOK, AgentTasks, AgentAttempts, AgentModels, AgentKeys
<1>2. B!OneQuestionAtATime
  <2>1. ASSUME NEW q \in B!Questions, NEW r \in B!Questions, q # r,
               attempts[q] # <<>>, attempts[r] # <<>>
        PROVE  B!Replied(q) \/ B!Replied(r)
    BY <2>1, ZenonT(40) DEF AgentBridgeInv, AgentReplied, B!Replied
  <2>2. ASSUME NEW q \in B!Questions
        PROVE  LET tried == [n \in DOMAIN attempts[q] |-> attempts[q][n].of] IN
               /\ B!IsInjective(tried)
               /\ tried # <<>> => tried[1].model = attempts[q][1].asked
               /\ [q |-> q, is |-> "all_models_failed"] \in answers =>
                    B!Range(tried) = [model : B!Range(OfAgent.models), key : B!Range(OfAgent.keys)]
    <3> DEFINE s == attempts[q]
               tried == [n \in DOMAIN s |-> s[n].of]
    <3>1. /\ s \in AgentAttempts /\ AttemptsDiffer(s)
          /\ [q |-> q, is |-> "all_models_failed"] \in answers => AllAttempted(s)
      BY DEF AgentBridgeInv
    <3> HIDE DEF s
    <3>2. /\ \A n \in DOMAIN s : s[n].of \in [model : AgentModels, key : AgentKeys]
          /\ s # <<>> => 1 \in DOMAIN s
      <4> DEFINE A == [asked : AgentModels, of : [model : AgentModels, key : AgentKeys]]
      <4>1. s \in Seq(A)
        BY <3>1 DEF AgentAttempts
      <4>2. DOMAIN s = 1..Len(s) /\ \A n \in 1..Len(s) : s[n] \in A
        BY <4>1, LenProperties, ElementOfSeq
      <4>3. s # <<>> => Len(s) \in Nat \ {0}
        BY <4>1, EmptySeq
      <4>4. QED
        BY <4>2, <4>3
    <3>3. B!IsInjective(tried)
      BY <3>1 DEF AttemptsDiffer, B!IsInjective
    <3>4. tried # <<>> => tried[1].model = s[1].asked
      <4>1. s = <<>> => tried = <<>>
        OBVIOUS
      <4>2. QED
        BY <3>1, <3>2, <4>1 DEF AttemptsDiffer
    <3>5. ASSUME AllAttempted(s) PROVE B!Range(tried) = [model : AgentModels, key : AgentKeys]
      <4>1. B!Range(tried) = {s[n].of : n \in DOMAIN s}
        BY DEF B!Range
      <4>2. ASSUME NEW y \in [model : AgentModels, key : AgentKeys] PROVE y \in B!Range(tried)
        <5>1. y = [model |-> y.model, key |-> y.key] /\ y.model \in AgentModels /\ y.key \in AgentKeys
          OBVIOUS
        <5>2. Attempted(s, y)
          BY <3>5, <5>1 DEF AllAttempted
        <5>3. QED
          BY <4>1, <5>2 DEF Attempted
      <4>3. QED
        BY <3>2, <4>1, <4>2
    <3>6. QED
      BY <3>1, <3>3, <3>4, <3>5 DEF s, AgentModels, AgentKeys
  <2>3. QED
    BY <2>1, <2>2 DEF B!OneQuestionAtATime
<1>3. B!AnswersFollowQuestions
  <2>1. DOMAIN chats = 1..Len(chats) /\ \A n \in 1..Len(chats) : chats[n] \in AgentChats
    BY LenProperties, ElementOfSeq DEF AgentPageInv
  <2>2. QED
    BY <2>1 DEF AgentPageInv, AgentTexts, AgentChats, B!AnswersFollowQuestions, B!Range
<1>4. QED
  BY <1>1, <1>2, <1>3

LEMMA AgentQueue ==
  ASSUME AgentBridgeInv
  PROVE  /\ Len(queue) \in Nat
         /\ \A n \in 1..Len(queue) : queue[n] \in AgentTasks /\ queue[n].q \in B!Questions
         /\ queue # <<>> =>
              /\ 1 \in 1..Len(queue) /\ Head(queue) = queue[1]
              /\ Tail(queue) \in Seq(AgentTasks) /\ Len(Tail(queue)) = Len(queue) - 1
              /\ \A n \in 1..Len(Tail(queue)) : n + 1 \in 1..Len(queue) /\ Tail(queue)[n] = queue[n + 1]
<1>1. queue \in Seq(AgentTasks)
  BY DEF AgentBridgeInv
<1>2. Len(queue) \in Nat /\ \A n \in 1..Len(queue) : queue[n] \in AgentTasks
  BY <1>1, LenProperties, ElementOfSeq
<1>3. \A t \in AgentTasks : t.q \in B!Questions
  BY DEF AgentTasks
<1>4. ASSUME queue # <<>>
      PROVE  /\ 1 \in 1..Len(queue) /\ Head(queue) = queue[1]
             /\ Tail(queue) \in Seq(AgentTasks) /\ Len(Tail(queue)) = Len(queue) - 1
             /\ \A n \in 1..Len(Tail(queue)) : n + 1 \in 1..Len(queue) /\ Tail(queue)[n] = queue[n + 1]
  <2>1. Len(queue) \in Nat \ {0}
    BY <1>1, <1>4, EmptySeq
  <2>2. /\ Tail(queue) \in Seq(AgentTasks) /\ Len(Tail(queue)) = Len(queue) - 1
        /\ \A n \in 1..Len(Tail(queue)) : Tail(queue)[n] = queue[n + 1]
    BY <1>1, <1>4, HeadTailProperties
  <2>3. Head(queue) = queue[1]
    BY <1>1, <1>4, <2>1
  <2>4. QED
    BY <2>1, <2>2, <2>3
<1>5. QED
  BY <1>2, <1>3, <1>4

(* The task that is first is over, and is replied to.                      *)
LEMMA AgentReply ==
  ASSUME AgentBridgeInv, queue # <<>>, NEW outcome \in B!Outcome, B!Reply(queue[1].q, outcome),
         NEW bs \in AgentAttempts, attempts' = [attempts EXCEPT ![queue[1].q] = bs],
         AttemptsDiffer(bs), outcome = "all_models_failed" => AllAttempted(bs)
  PROVE  AgentBridgeInv'
<1> DEFINE q == queue[1].q
           new == [q |-> q, is |-> outcome]
<1>1. /\ Len(queue) \in Nat /\ 1 \in 1..Len(queue) /\ q \in B!Questions
      /\ \A n \in 1..Len(queue) : queue[n].q \in B!Questions
      /\ Tail(queue) \in Seq(AgentTasks)
      /\ \A n \in 1..Len(Tail(queue)) : n + 1 \in 1..Len(queue) /\ Tail(queue)[n] = queue[n + 1]
  BY AgentQueue
<1>2. queue' = Tail(queue) /\ answers' = answers \cup {new} /\ new \in [q : B!Questions, is : B!Outcome]
  BY <1>1 DEF B!Reply
<1>3. /\ AgentReplied' = AgentReplied \cup {q}
      /\ q \notin AgentReplied /\ \A a \in answers : a.q # q
  <2>1. q \notin AgentReplied
    BY <1>1 DEF AgentBridgeInv
  <2>2. AgentReplied' = {a.q : a \in answers'} /\ new.q = q
    BY DEF AgentReplied
  <2> HIDE DEF new
  <2>3. QED
    BY <1>2, <2>1, <2>2 DEF AgentReplied
<1>4. /\ attempts' \in [B!Questions -> AgentAttempts] /\ attempts'[q] = bs
      /\ \A r \in B!Questions : r # q => attempts'[r] = attempts[r]
  BY <1>1 DEF AgentBridgeInv
<1>5. new.q = q /\ new.is = outcome
  OBVIOUS
<1>6. \A n \in 1..Len(queue) : n # 1 => queue[n].q # q
  BY <1>1 DEF AgentBridgeInv
<1> HIDE DEF new, q
<1>7. ASSUME NEW r \in B!Questions
      PROVE  /\ AttemptsDiffer(attempts'[r])
             /\ attempts'[r] # <<>> => r \in AgentReplied'
             /\ [q |-> r, is |-> "all_models_failed"] \in answers' => AllAttempted(attempts'[r])
  <2>1. CASE r = q
    <3>1. [q |-> r, is |-> "all_models_failed"] \notin answers
      BY <1>3, <2>1
    <3>2. [q |-> r, is |-> "all_models_failed"] = new => outcome = "all_models_failed"
      BY <1>5
    <3>3. QED
      BY <1>2, <1>3, <1>4, <2>1, <3>1, <3>2
  <2>2. CASE r # q
    <3>1. [q |-> r, is |-> "all_models_failed"] # new
      BY <1>5, <2>2
    <3>2. QED
      BY <1>2, <1>3, <1>4, <2>2, <3>1 DEF AgentBridgeInv, q
  <2>3. QED
    BY <2>1, <2>2
<1>8. ASSUME NEW n \in 1..Len(queue')
      PROVE  queue'[n].q \notin AgentReplied' /\ TaskSound(queue'[n], attempts'[queue'[n].q])
  <2>1. n + 1 \in 1..Len(queue) /\ queue'[n] = queue[n + 1] /\ n + 1 # 1
    BY <1>1, <1>2
  <2>2. queue[n + 1].q # q /\ queue[n + 1].q \in B!Questions
    BY <1>1, <1>6, <2>1
  <2>3. QED
    BY <1>3, <1>4, <2>1, <2>2 DEF AgentBridgeInv
<1>9. \A m, n \in 1..Len(queue') : queue'[m].q = queue'[n].q => m = n
  <2>1. ASSUME NEW m \in 1..Len(queue'), NEW n \in 1..Len(queue'), queue'[m].q = queue'[n].q PROVE m = n
    <3>1. m + 1 = n + 1
      BY <1>1, <1>2, <2>1 DEF AgentBridgeInv
    <3>2. m \in Int /\ n \in Int
      OBVIOUS
    <3>3. QED
      BY <3>1, <3>2
  <2>2. QED
    BY <2>1
<1>10. \A a, b \in answers' : a.q = b.q => a = b
  BY <1>2, <1>3, <1>5 DEF AgentBridgeInv
<1>11. answers' \subseteq [q : B!Questions, is : B!Outcome]
  BY <1>2 DEF AgentBridgeInv
<1>12. QED
  BY <1>1, <1>2, <1>4, <1>7, <1>8, <1>9, <1>10, <1>11 DEF AgentBridgeInv

(* It has failed, and is tried further.                                    *)
LEMMA AgentFurther ==
  ASSUME AgentBridgeInv, queue # <<>>, NEW f \in AgentTasks, f.q = queue[1].q,
         queue' = <<f>> \o Tail(queue), answers' = answers,
         NEW bs \in AgentAttempts, attempts' = [attempts EXCEPT ![queue[1].q] = bs],
         AttemptsDiffer(bs), TaskSound(f, bs)
  PROVE  AgentBridgeInv'
<1> DEFINE q == queue[1].q
<1>1. /\ Len(queue) \in Nat /\ 1 \in 1..Len(queue) /\ q \in B!Questions
      /\ \A n \in 1..Len(queue) : queue[n].q \in B!Questions
      /\ Tail(queue) \in Seq(AgentTasks) /\ Len(Tail(queue)) = Len(queue) - 1
      /\ \A n \in 1..Len(Tail(queue)) : Tail(queue)[n] = queue[n + 1]
  BY AgentQueue
<1>2. /\ queue' \in Seq(AgentTasks) /\ Len(queue') = Len(queue) /\ queue'[1] = f /\ queue' # <<>>
      /\ \A n \in 2..Len(queue) : queue'[n] = queue[n]
  <2>1. <<f>> \in Seq(AgentTasks) /\ Len(<<f>>) = 1 /\ <<f>>[1] = f
    OBVIOUS
  <2>2. /\ queue' \in Seq(AgentTasks) /\ Len(queue') = 1 + Len(Tail(queue))
        /\ \A n \in 1..(1 + Len(Tail(queue))) :
             queue'[n] = IF n <= 1 THEN <<f>>[n] ELSE Tail(queue)[n - 1]
    BY <1>1, <2>1, ConcatProperties
  <2>3. 1 + Len(Tail(queue)) = Len(queue)
    BY <1>1
  <2>4. queue'[1] = f
    BY <1>1, <2>1, <2>2, <2>3
  <2>5. ASSUME NEW n \in 2..Len(queue) PROVE queue'[n] = queue[n]
    <3>1. n - 1 \in 1..Len(Tail(queue)) /\ (n - 1) + 1 = n
      BY <1>1
    <3>2. QED
      BY <1>1, <2>2, <2>3, <3>1
  <2>6. queue' # <<>>
    BY <1>1, <2>2, <2>3, EmptySeq
  <2>7. QED
    BY <2>2, <2>3, <2>4, <2>5, <2>6
<1>3. \A n \in 1..Len(queue) : queue'[n].q = queue[n].q
  BY <1>1, <1>2
<1>4. /\ attempts' \in [B!Questions -> AgentAttempts] /\ attempts'[q] = bs
      /\ \A r \in B!Questions : r # q => attempts'[r] = attempts[r]
  BY <1>1 DEF AgentBridgeInv
<1>5. AgentReplied' = AgentReplied
  BY DEF AgentReplied
<1>6. ASSUME NEW r \in B!Questions
      PROVE  /\ AttemptsDiffer(attempts'[r])
             /\ attempts'[r] # <<>> => r \in AgentReplied' \/ (queue' # <<>> /\ queue'[1].q = r)
             /\ [q |-> r, is |-> "all_models_failed"] \in answers' => AllAttempted(attempts'[r])
  <2>1. CASE r = q
    <3>1. [q |-> r, is |-> "all_models_failed"] \notin answers
      <4>1. q \notin AgentReplied
        BY <1>1 DEF AgentBridgeInv
      <4>2. QED
        BY <2>1, <4>1 DEF AgentReplied
    <3>2. QED
      BY <1>2, <1>4, <2>1, <3>1
  <2>2. CASE r # q
    BY <1>4, <1>5, <2>2 DEF AgentBridgeInv
  <2>3. QED
    BY <2>1, <2>2
<1>7. ASSUME NEW n \in 1..Len(queue')
      PROVE  queue'[n].q \notin AgentReplied' /\ TaskSound(queue'[n], attempts'[queue'[n].q])
  <2>1. CASE n = 1
    BY <1>1, <1>2, <1>4, <1>5, <2>1 DEF AgentBridgeInv
  <2>2. CASE n # 1
    <3>1. n \in 2..Len(queue) /\ n \in 1..Len(queue)
      BY <1>1, <1>2, <2>2
    <3>2. queue'[n] = queue[n] /\ queue[n].q # q /\ queue[n].q \in B!Questions
      BY <1>1, <1>2, <2>2, <3>1 DEF AgentBridgeInv
    <3>3. QED
      BY <1>4, <1>5, <3>1, <3>2 DEF AgentBridgeInv
  <2>3. QED
    BY <2>1, <2>2
<1>8. \A m, n \in 1..Len(queue') : queue'[m].q = queue'[n].q => m = n
  BY <1>2, <1>3 DEF AgentBridgeInv
<1>9. QED
  BY <1>2, <1>4, <1>6, <1>7, <1>8 DEF AgentBridgeInv

LEMMA AgentExecute == AgentInv /\ B!execute => AgentInv'
<1> SUFFICES ASSUME AgentInv, B!execute PROVE AgentInv'
  OBVIOUS
<1>1. AgentPageInv /\ AgentBridgeInv /\ queue # <<>>
  BY DEF AgentInv, B!execute
<1>2. AgentPageInv'
  BY <1>1 DEF B!execute, B!pageVars, B!hubVars, AgentPageInv
<1> DEFINE t == queue[1]
           s == attempts[t.q]
           bs == Append(s, [asked |-> t.model, of |-> B!attempt(t)])
<1>3. Head(queue) = t /\ t \in AgentTasks /\ t.q \in B!Questions /\ 1 \in 1..Len(queue)
  BY <1>1, AgentQueue
<1>4. s \in AgentAttempts /\ AttemptsDiffer(s) /\ TaskSound(t, s)
  BY <1>1, <1>3 DEF AgentBridgeInv
<1>5. CASE OfAgent.keys = <<>>
  <2>1. s = <<>>
    BY <1>4, <1>5 DEF TaskSound
  <2>2. AllAttempted(<<>>)
    <3>1. Len(OfAgent.keys) = 0
      BY <1>5
    <3>2. AgentKeys = {}
      BY <3>1, AgentSeqs
    <3>3. QED
      BY <3>2 DEF AllAttempted
  <2>3. B!Reply(t.q, "all_models_failed") /\ attempts' = attempts
    BY <1>3, <1>5 DEF B!execute
  <2>4. attempts' = [attempts EXCEPT ![t.q] = s]
    BY <1>1, <1>3, <2>3 DEF AgentBridgeInv
  <2>5. "all_models_failed" \in B!Outcome
    BY DEF B!Outcome
  <2> HIDE DEF t, s
  <2>6. AgentBridgeInv'
    BY <1>1, <1>4, <2>1, <2>2, <2>3, <2>4, <2>5, AgentReply DEF t
  <2>7. QED
    BY <1>2, <2>6 DEF AgentInv
<1>6. CASE OfAgent.keys # <<>>
  <2>1. /\ bs \in AgentAttempts /\ AttemptsDiffer(bs)
        /\ B!AtLast(t) => AllAttempted(bs)
        /\ ~B!AtLast(t) => B!Further(t) \in AgentTasks /\ B!Further(t).q = t.q /\ TaskSound(B!Further(t), bs)
    <3> HIDE DEF t, s
    <3>1. QED
      BY <1>3, <1>4, <1>6, AgentAttempt
  <2>2. /\ attempts' = [attempts EXCEPT ![t.q] = bs]
        /\ \/ B!Reply(t.q, "answer")
           \/ B!Reply(t.q, "agent_timeout")
           \/ B!AtLast(t) /\ B!Reply(t.q, "all_models_failed")
           \/ ~B!AtLast(t) /\ queue' = <<B!Further(t)>> \o Tail(queue) /\ answers' = answers
    BY <1>3, <1>6 DEF B!execute
  <2>3. "answer" \in B!Outcome /\ "agent_timeout" \in B!Outcome /\ "all_models_failed" \in B!Outcome
    BY DEF B!Outcome
  <2> HIDE DEF bs, s
  <2>4. /\ bs \in AgentAttempts /\ AttemptsDiffer(bs)
        /\ attempts' = [attempts EXCEPT ![queue[1].q] = bs]
    BY <2>1, <2>2
  <2>5. AgentBridgeInv'
    <3>1. CASE B!Reply(t.q, "answer")
      BY <1>1, <2>4, <2>3, <3>1, AgentReply
    <3>2. CASE B!Reply(t.q, "agent_timeout")
      BY <1>1, <2>4, <2>3, <3>2, AgentReply
    <3>3. CASE B!AtLast(t) /\ B!Reply(t.q, "all_models_failed")
      <4>1. AllAttempted(bs)
        BY <2>1, <3>3
      <4>2. QED
        BY <1>1, <2>4, <2>3, <3>3, <4>1, AgentReply
    <3>4. CASE ~B!AtLast(t) /\ queue' = <<B!Further(t)>> \o Tail(queue) /\ answers' = answers
      <4> DEFINE f == B!Further(t)
      <4>1. /\ f \in AgentTasks /\ f.q = queue[1].q /\ TaskSound(f, bs)
            /\ queue' = <<f>> \o Tail(queue) /\ answers' = answers
        BY <2>1, <3>4
      <4> HIDE DEF f, t
      <4>2. QED
        BY <1>1, <2>4, <4>1, AgentFurther
    <3>5. QED
      BY <2>2, <3>1, <3>2, <3>3, <3>4
  <2>6. QED
    BY <1>2, <2>5 DEF AgentInv
<1>7. QED
  BY <1>5, <1>6

LEMMA AgentChat == ASSUME AgentInv, NEW q \in calls, B!Chat(q) PROVE AgentInv'
<1>1. AgentPageInv /\ AgentBridgeInv
  BY DEF AgentInv
<1>2. AgentPageInv'
  BY <1>1 DEF B!Chat, B!pageVars, B!hubVars, AgentPageInv
<1>3. q \in B!Questions
  <2>1. Len(jobs) \in Nat /\ calls \subseteq 1..Len(jobs) /\ Len(jobs) <= OfAgent.MaxQuestions
    BY <1>1, LenProperties DEF AgentPageInv
  <2>2. QED
    BY <2>1, AgentSeqs DEF B!Questions
<1>4. /\ q \notin AgentReplied /\ attempts' = attempts
      /\ Len(queue) \in Nat /\ \A n \in 1..Len(queue) : queue[n].q # q
      /\ attempts[q] = <<>>
  <2>1. DOMAIN queue = 1..Len(queue) /\ Len(queue) \in Nat
    BY <1>1, LenProperties DEF AgentBridgeInv
  <2>2. \A n \in 1..Len(queue) : queue[n].q # q
    BY <2>1 DEF B!Chat, B!Range
  <2>3. q \notin AgentReplied /\ attempts' = attempts
    BY DEF B!Chat, AgentReplied
  <2>4. queue # <<>> => 1 \in 1..Len(queue)
    BY <1>1, AgentQueue
  <2>5. QED
    BY <1>1, <1>3, <2>1, <2>2, <2>3, <2>4 DEF AgentBridgeInv
<1>5. CASE \E m \in B!Range(OfAgent.models) : B!enqueue(B!First(q, m)) /\ answers' = answers
  <2>1. PICK m \in AgentModels : queue' = Append(queue, B!First(q, m)) /\ answers' = answers
    BY <1>5 DEF AgentModels, B!enqueue
  <2> DEFINE t == B!First(q, m)
  <2>2. t \in AgentTasks /\ t.q = q /\ t.model = m /\ t.candidate = 1 /\ t.key = 1
    BY <1>3 DEF B!First, AgentTasks
  <2> HIDE DEF t
  <2>3. /\ queue' \in Seq(AgentTasks) /\ queue' # <<>> /\ Len(queue') = Len(queue) + 1
        /\ \A n \in 1..Len(queue) : queue'[n] = queue[n]
        /\ queue'[Len(queue) + 1] = t
    BY <1>1, <2>1, <2>2, AppendProperties DEF AgentBridgeInv, t
  <2>4. \A n \in 1..Len(queue') : n \in 1..Len(queue) \/ n = Len(queue) + 1
    BY <1>4, <2>3
  <2>5. TaskSound(t, attempts[q])
    <3>1. /\ Len(OfAgent.models) \in Nat \ {0} /\ Len(OfAgent.keys) \in Nat
          /\ OfAgent.keys \in Seq(AgentKeys)
      BY AgentSeqs
    <3>2. OfAgent.keys # <<>> => 1 \in 1..Len(OfAgent.keys)
      BY <3>1, EmptySeq
    <3>3. \A y : ~Attempted(<<>>, y)
      BY DEF Attempted
    <3>4. \A i \in 1..Len(OfAgent.models), j \in 1..Len(OfAgent.keys) : ~Earlier(t, i, j)
      BY <2>2, <3>1 DEF Earlier
    <3>5. QED
      BY <1>4, <2>2, <3>1, <3>2, <3>3, <3>4 DEF TaskSound
  <2>6. AgentReplied' = AgentReplied
    BY <2>1 DEF AgentReplied
  <2>7. ASSUME NEW n \in 1..Len(queue')
        PROVE  queue'[n].q \notin AgentReplied' /\ TaskSound(queue'[n], attempts'[queue'[n].q])
    BY <1>1, <1>4, <2>2, <2>3, <2>4, <2>5, <2>6 DEF AgentBridgeInv
  <2>8. ASSUME NEW k \in 1..Len(queue'), NEW n \in 1..Len(queue'), queue'[k].q = queue'[n].q PROVE k = n
    BY <1>1, <1>4, <2>2, <2>3, <2>4, <2>8 DEF AgentBridgeInv
  <2>9. queue # <<>> => queue'[1] = queue[1]
    BY <1>1, <2>3, AgentQueue
  <2>10. AgentBridgeInv'
    BY <1>1, <1>4, <2>1, <2>3, <2>6, <2>7, <2>8, <2>9 DEF AgentBridgeInv
  <2>11. QED
    BY <1>2, <2>10 DEF AgentInv
<1>6. CASE answers' = answers \cup {[q |-> q, is |-> "bad_request"]} /\ queue' = queue
  <2> DEFINE new == [q |-> q, is |-> "bad_request"]
  <2>1. /\ new \in [q : B!Questions, is : B!Outcome] /\ new.q = q /\ new.is = "bad_request"
        /\ \A r : new # [q |-> r, is |-> "all_models_failed"]
    BY <1>3 DEF B!Outcome
  <2> HIDE DEF new
  <2>2. answers' = answers \cup {new} /\ queue' = queue
    BY <1>6 DEF new
  <2>3. AgentReplied' = AgentReplied \cup {q}
    <3>1. AgentReplied' = {a.q : a \in answers'}
      BY DEF AgentReplied
    <3>2. QED
      BY <2>1, <2>2, <3>1 DEF AgentReplied
  <2>4. \A a \in answers : a.q # q
    BY <1>4 DEF AgentReplied
  <2>5. \A a, b \in answers' : a.q = b.q => a = b
    BY <1>1, <2>1, <2>2, <2>4 DEF AgentBridgeInv
  <2>6. ASSUME NEW n \in 1..Len(queue')
        PROVE  queue'[n].q \notin AgentReplied' /\ TaskSound(queue'[n], attempts'[queue'[n].q])
    BY <1>1, <1>4, <2>2, <2>3 DEF AgentBridgeInv
  <2>7. AgentBridgeInv'
    BY <1>1, <1>4, <2>1, <2>2, <2>3, <2>5, <2>6 DEF AgentBridgeInv
  <2>8. QED
    BY <1>2, <2>7 DEF AgentInv
<1>7. QED
  BY <1>5, <1>6 DEF B!Chat

LEMMA AgentNothing == <<>> \in AgentAttempts /\ AttemptsDiffer(<<>>)
  BY DEF AgentAttempts, AttemptsDiffer

LEMMA AgentFault == B!Fault /\ AgentPageInv => chatFaults' \in 0..OfAgent.MaxFaults
  BY AgentSeqs DEF B!Fault, AgentPageInv

LEMMA AgentRestarts == AgentInv /\ (B!BridgeRestart \/ B!HubRestart) => AgentInv'
<1> SUFFICES ASSUME AgentPageInv, AgentBridgeInv, B!BridgeRestart \/ B!HubRestart PROVE AgentInv'
  BY DEF AgentInv
<1>1. chatFaults' \in 0..OfAgent.MaxFaults
  BY AgentFault DEF B!BridgeRestart, B!HubRestart
<1>2. CASE B!BridgeRestart
  <2>1. AgentPageInv'
    BY <1>1, <1>2 DEF B!BridgeRestart, B!pageVars, B!hubVars, AgentPageInv
  <2>2. calls \subseteq B!Questions
    <3>1. Len(jobs) \in Nat /\ calls \subseteq 1..Len(jobs) /\ Len(jobs) <= OfAgent.MaxQuestions
      BY LenProperties DEF AgentPageInv
    <3>2. QED
      BY <3>1, AgentSeqs DEF B!Questions
  <2>3. /\ queue' = <<>> /\ attempts' = [q \in B!Questions |-> <<>>]
        /\ answers' = {[q |-> q, is |-> "lost"] : q \in calls}
    BY <1>2 DEF B!BridgeRestart
  <2>4. /\ answers' \subseteq [q : B!Questions, is : B!Outcome]
        /\ \A a, b \in answers' : a.q = b.q => a = b
        /\ \A q : [q |-> q, is |-> "all_models_failed"] \notin answers'
    <3>1. "lost" \in B!Outcome
      BY DEF B!Outcome
    <3>2. answers' \subseteq [q : B!Questions, is : B!Outcome]
      BY <2>2, <2>3, <3>1
    <3>3. \A a \in answers' : a.is = "lost" /\ a = [q |-> a.q, is |-> "lost"]
      BY <2>3
    <3>4. \A a, b \in answers' : a.q = b.q => a = b
      BY <3>3
    <3>5. \A q : [q |-> q, is |-> "all_models_failed"].is = "all_models_failed"
      OBVIOUS
    <3>6. \A q : [q |-> q, is |-> "all_models_failed"] \notin answers'
      BY <3>3, <3>5
    <3>7. QED
      BY <3>2, <3>4, <3>6
  <2>5. queue' \in Seq(AgentTasks) /\ Len(queue') = 0
    BY <2>3
  <2>6. AgentBridgeInv'
    BY <2>3, <2>4, <2>5, AgentNothing DEF AgentBridgeInv
  <2>7. QED
    BY <2>1, <2>6 DEF AgentInv
<1>3. CASE B!HubRestart
  <2>1. AgentBridgeInv'
    BY <1>3 DEF B!HubRestart, B!bridgeVars, AgentBridgeInv, AgentReplied
  <2>2. /\ jobs' \in Seq({"running", "done", "error", "gone"}) /\ Len(jobs') = Len(jobs)
    <3>1. Len(jobs) \in Nat /\ DOMAIN jobs = 1..Len(jobs)
      BY LenProperties DEF AgentPageInv
    <3>2. jobs' = [q \in 1..Len(jobs) |-> "gone"]
      BY <1>3, <3>1 DEF B!HubRestart
    <3>3. QED
      BY <3>1, <3>2
  <2>3. AgentPageInv'
    BY <1>1, <1>3, <2>2 DEF B!HubRestart, B!pageVars, AgentPageInv
  <2>4. QED
    BY <2>1, <2>3 DEF AgentInv
<1>4. QED
  BY <1>2, <1>3

LEMMA AgentSettle ==
  ASSUME AgentPageInv, NEW q \in calls, NEW state \in {"done", "error"}, B!Settle(q, state)
  PROVE  jobs' \in Seq({"running", "done", "error", "gone"}) /\ Len(jobs') = Len(jobs)
<1>1. jobs \in Seq({"running", "done", "error", "gone"}) /\ q \in 1..Len(jobs)
  BY DEF AgentPageInv
<1>2. CASE jobs[q] = "running"
  <2>1. jobs' = [jobs EXCEPT ![q] = state]
    BY <1>2 DEF B!Settle
  <2>2. QED
    BY <1>1, <2>1, ExceptSeq
<1>3. CASE jobs[q] # "running"
  BY <1>1, <1>3 DEF B!Settle
<1>4. QED
  BY <1>2, <1>3

LEMMA AgentAnswered == ASSUME AgentInv, NEW a, B!Answered(a) PROVE AgentInv'
<1>1. AgentPageInv /\ AgentBridgeInv /\ a \in answers /\ a.q \in B!Questions
  BY DEF AgentInv, B!Answered, AgentBridgeInv
<1>2. AgentPageInv'
  <2>1. jobs' \in Seq({"running", "done", "error", "gone"}) /\ Len(jobs') = Len(jobs)
    <3>1. CASE a.q \in calls
      <4>1. \E state \in {"done", "error"} : B!Settle(a.q, state)
        BY <3>1 DEF B!Answered
      <4>2. QED
        BY <1>1, <3>1, <4>1, AgentSettle
    <3>2. CASE a.q \notin calls
      BY <1>1, <3>2 DEF B!Answered, AgentPageInv
    <3>3. QED
      BY <3>1, <3>2
  <2>2. calls' \subseteq calls /\ UNCHANGED <<messages, chat, busy, chats, begun, chatFaults>>
    BY DEF B!Answered, B!pageVars
  <2>3. QED
    BY <1>1, <2>1, <2>2 DEF AgentPageInv
<1>3. AgentBridgeInv'
  <2>1. /\ queue' = queue /\ answers' = answers \ {a} /\ attempts' = [attempts EXCEPT ![a.q] = <<>>]
    BY DEF B!Answered
  <2>2. \A b \in answers : b.q = a.q => b = a
    BY <1>1 DEF AgentBridgeInv
  <2>3. AgentReplied' = AgentReplied \ {a.q} /\ a.q \in AgentReplied
    <3>1. AgentReplied' = {b.q : b \in answers'}
      BY DEF AgentReplied
    <3>2. QED
      BY <1>1, <2>1, <2>2, <3>1 DEF AgentReplied
  <2>4. /\ attempts' \in [B!Questions -> AgentAttempts] /\ attempts'[a.q] = <<>>
        /\ \A q \in B!Questions : q # a.q => attempts'[q] = attempts[q]
    BY <1>1, <2>1, AgentNothing DEF AgentBridgeInv
  <2>5. ASSUME NEW q \in B!Questions
        PROVE  /\ AttemptsDiffer(attempts'[q])
               /\ attempts'[q] # <<>> => q \in AgentReplied' \/ (queue' # <<>> /\ queue'[1].q = q)
               /\ [q |-> q, is |-> "all_models_failed"] \in answers' => AllAttempted(attempts'[q])
    <3>1. CASE q = a.q
      <4>1. [q |-> q, is |-> "all_models_failed"].q = q
        OBVIOUS
      <4>2. [q |-> q, is |-> "all_models_failed"] \notin answers'
        BY <2>1, <2>2, <3>1, <4>1
      <4>3. QED
        BY <2>4, <3>1, <4>2, AgentNothing
    <3>2. CASE q # a.q
      BY <1>1, <2>1, <2>3, <2>4, <3>2 DEF AgentBridgeInv
    <3>3. QED
      BY <3>1, <3>2
  <2>6. ASSUME NEW n \in 1..Len(queue)
        PROVE  queue[n].q \notin AgentReplied' /\ TaskSound(queue[n], attempts'[queue[n].q])
    <3>1. queue[n].q # a.q /\ queue[n].q \in B!Questions
      BY <1>1, <2>3, AgentQueue DEF AgentBridgeInv
    <3>2. QED
      BY <1>1, <2>3, <2>4, <3>1 DEF AgentBridgeInv
  <2>7. QED
    BY <1>1, <2>1, <2>4, <2>5, <2>6 DEF AgentBridgeInv
<1>4. QED
  BY <1>2, <1>3 DEF AgentInv

LEMMA AgentGivesUp == ASSUME AgentInv, NEW q \in calls, B!GivesUp(q) PROVE AgentInv'
<1>1. AgentPageInv /\ AgentBridgeInv
  BY DEF AgentInv
<1>2. chatFaults' \in 0..OfAgent.MaxFaults
  BY <1>1, AgentFault DEF B!GivesUp
<1>3. jobs' \in Seq({"running", "done", "error", "gone"}) /\ Len(jobs') = Len(jobs)
  BY <1>1, AgentSettle DEF B!GivesUp
<1>4. AgentPageInv'
  BY <1>1, <1>2, <1>3 DEF B!GivesUp, B!pageVars, AgentPageInv
<1>5. AgentBridgeInv'
  BY <1>1 DEF B!GivesUp, B!bridgeVars, AgentBridgeInv, AgentReplied
<1>6. QED
  BY <1>4, <1>5 DEF AgentInv

(* The steps of a page.                                                    *)
LEMMA AgentBridgeStays ==
  ASSUME AgentBridgeInv, UNCHANGED B!bridgeVars
  PROVE  AgentBridgeInv'
  BY DEF B!bridgeVars, AgentBridgeInv, AgentReplied

LEMMA AgentEmpty == <<>> \in AgentTexts
  BY DEF AgentTexts, B!Follows

LEMMA AgentOpen ==
  ASSUME AgentPageInv, NEW p \in OfAgent.Pages, B!Open(p)
  PROVE  /\ messages' \in [OfAgent.Pages -> AgentTexts]
         /\ chat' \in [OfAgent.Pages -> 0..OfAgent.MaxChats] /\ begun' \in 0..OfAgent.MaxChats
         /\ \A o \in OfAgent.Pages : o # p => messages'[o] = messages[o] /\ chat'[o] = chat[o]
<1>1. begun' \in 0..OfAgent.MaxChats
  BY AgentSeqs, SMTT(30) DEF AgentPageInv, B!Open
<1>2. QED
  BY <1>1, AgentEmpty DEF AgentPageInv, B!Open

LEMMA AgentReload == ASSUME AgentInv, NEW p \in OfAgent.Pages, B!Reload(p) PROVE AgentInv'
<1>1. AgentPageInv /\ AgentBridgeInv
  BY DEF AgentInv
<1>2. B!Open(p) /\ busy' = [busy EXCEPT ![p] = 0]
      /\ UNCHANGED <<chats, jobs, calls, chatFaults>> /\ UNCHANGED B!bridgeVars
  BY DEF B!Reload, B!hubVars
<1>3. /\ messages' \in [OfAgent.Pages -> AgentTexts]
      /\ chat' \in [OfAgent.Pages -> 0..OfAgent.MaxChats] /\ begun' \in 0..OfAgent.MaxChats
      /\ \A o \in OfAgent.Pages : o # p => messages'[o] = messages[o] /\ chat'[o] = chat[o]
  BY <1>1, <1>2, AgentOpen
<1>4. /\ busy' \in [OfAgent.Pages -> {0} \cup B!Questions] /\ busy'[p] = 0
      /\ \A o \in OfAgent.Pages : o # p => busy'[o] = busy[o]
  BY <1>1, <1>2 DEF AgentPageInv
<1>5. AgentPageInv'
  BY <1>1, <1>2, <1>3, <1>4 DEF AgentPageInv
<1>6. QED
  BY <1>1, <1>2, <1>5, AgentBridgeStays DEF AgentInv

(* The chat of a page that waits for nothing is saved, and another one is  *)
(* shown.                                                                  *)
LEMMA AgentTurns ==
  ASSUME AgentInv, NEW p \in OfAgent.Pages, B!resetForge(p) \/ B!loadForgeChat(p)
  PROVE  AgentInv'
<1>1. AgentPageInv /\ AgentBridgeInv /\ busy[p] = 0 /\ chat[p] \in 1..OfAgent.MaxChats
      /\ messages[p] \in AgentTexts
  BY DEF AgentInv, AgentPageInv, B!resetForge, B!loadForgeChat
<1>2. chats' \in Seq(AgentChats)
  <2>1. chats' = B!saveForgeChat(p, messages[p])
    BY DEF B!resetForge, B!loadForgeChat
  <2>2. QED
    BY <1>1, <2>1, AgentSave DEF AgentPageInv
<1>3. UNCHANGED <<busy, jobs, calls, chatFaults>> /\ UNCHANGED B!bridgeVars
  BY DEF B!resetForge, B!loadForgeChat, B!hubVars
<1>4. /\ messages' \in [OfAgent.Pages -> AgentTexts]
      /\ chat' \in [OfAgent.Pages -> 0..OfAgent.MaxChats] /\ begun' \in 0..OfAgent.MaxChats
      /\ \A o \in OfAgent.Pages : o # p => messages'[o] = messages[o] /\ chat'[o] = chat[o]
  <2>1. CASE B!resetForge(p)
    BY <1>1, <2>1, AgentOpen DEF B!resetForge
  <2>2. CASE B!loadForgeChat(p)
    <3>1. PICK c \in B!Range(chats) : /\ chat' = [chat EXCEPT ![p] = c.id]
                                      /\ messages' = [messages EXCEPT ![p] = c.messages]
                                      /\ begun' = begun
      BY <2>2 DEF B!loadForgeChat
    <3>2. c \in AgentChats
      <4>1. DOMAIN chats = 1..Len(chats) /\ \A n \in 1..Len(chats) : chats[n] \in AgentChats
        BY <1>1, LenProperties, ElementOfSeq DEF AgentPageInv
      <4>2. QED
        BY <4>1 DEF B!Range
    <3>3. c.id \in 0..OfAgent.MaxChats /\ c.messages \in AgentTexts
      BY <3>2, AgentSeqs DEF AgentChats
    <3>4. QED
      BY <1>1, <3>1, <3>3 DEF AgentPageInv
  <2>3. QED
    BY <2>1, <2>2
<1>5. AgentPageInv'
  BY <1>1, <1>2, <1>3, <1>4 DEF AgentPageInv
<1>6. QED
  BY <1>1, <1>3, <1>5, AgentBridgeStays DEF AgentInv

LEMMA AgentSends == ASSUME AgentInv, NEW p \in OfAgent.Pages, B!sendForge(p) PROVE AgentInv'
<1> DEFINE q == Len(jobs) + 1
           m == [by |-> "user", q |-> q]
           s == messages[p]
<1>1. /\ AgentPageInv /\ AgentBridgeInv /\ chat[p] # 0 /\ Len(jobs) < OfAgent.MaxQuestions
      /\ messages' = [messages EXCEPT ![p] = Append(s, m)]
      /\ busy' = [busy EXCEPT ![p] = q]
      /\ jobs' = Append(jobs, "running") /\ calls' = calls \cup {q}
      /\ UNCHANGED <<chat, chats, begun, chatFaults>> /\ UNCHANGED B!bridgeVars
  BY DEF AgentInv, B!sendForge
<1>2. jobs \in Seq({"running", "done", "error", "gone"}) /\ Len(jobs) \in Nat
  BY <1>1, LenProperties DEF AgentPageInv
<1>3. q \in B!Questions /\ q \in 1..OfAgent.MaxQuestions /\ q # 0
  BY <1>1, <1>2, AgentSeqs DEF B!Questions
<1>4. m \in B!Message /\ m.by = "user" /\ s \in AgentTexts
  BY <1>1, <1>3 DEF B!Message, AgentPageInv
<1>5. /\ Append(s, m) \in AgentTexts /\ Append(s, m) # <<>>
      /\ Append(s, m)[Len(Append(s, m))] = m
  BY <1>4, AgentAppend
<1>6. jobs' \in Seq({"running", "done", "error", "gone"}) /\ Len(jobs') = q
  BY <1>1, <1>2
<1>7. calls' \subseteq 1..q
  <2>1. calls \subseteq 1..Len(jobs)
    BY <1>1 DEF AgentPageInv
  <2>2. q \in 1..q /\ 1..Len(jobs) \subseteq 1..q
    BY <1>2
  <2>3. calls' = calls \cup {q}
    BY <1>1
  <2>4. QED
    BY <2>1, <2>2, <2>3
<1> DEFINE t == Append(s, m)
<1>8. m = [by |-> "user", q |-> q]
  OBVIOUS
<1> HIDE DEF q, m, t
<1>9. /\ messages' \in [OfAgent.Pages -> AgentTexts] /\ messages'[p] = t
      /\ \A o \in OfAgent.Pages : o # p => messages'[o] = messages[o]
      /\ busy' \in [OfAgent.Pages -> {0} \cup B!Questions] /\ busy'[p] = q
      /\ \A o \in OfAgent.Pages : o # p => busy'[o] = busy[o]
  BY <1>1, <1>3, <1>5 DEF AgentPageInv, t
<1>10. t # <<>> /\ t[Len(t)] = m
  BY <1>5 DEF t
<1>11. ASSUME NEW o \in OfAgent.Pages, busy'[o] # 0
       PROVE  /\ chat'[o] # 0 /\ messages'[o] # <<>>
              /\ messages'[o][Len(messages'[o])] = [by |-> "user", q |-> busy'[o]]
  BY <1>1, <1>8, <1>9, <1>10, <1>11 DEF AgentPageInv
<1>12. Len(jobs') <= OfAgent.MaxQuestions /\ calls' \subseteq 1..Len(jobs')
  BY <1>3, <1>6, <1>7, AgentSeqs
<1>13. AgentPageInv'
  BY <1>1, <1>6, <1>9, <1>11, <1>12 DEF AgentPageInv
<1>14. QED
  BY <1>1, <1>13, AgentBridgeStays DEF AgentInv

LEMMA AgentPolled == ASSUME AgentInv, NEW p \in OfAgent.Pages, B!Polled(p) PROVE AgentInv'
<1>1. /\ AgentPageInv /\ AgentBridgeInv /\ busy[p] # 0 /\ busy' = [busy EXCEPT ![p] = 0]
      /\ UNCHANGED <<chat, begun, jobs, calls>> /\ UNCHANGED B!bridgeVars
  BY DEF AgentInv, B!Polled, B!hubVars
<1>2. /\ busy' \in [OfAgent.Pages -> {0} \cup B!Questions] /\ busy'[p] = 0
      /\ \A o \in OfAgent.Pages : o # p => busy'[o] = busy[o]
  BY <1>1 DEF AgentPageInv
<1>3. /\ messages' \in [OfAgent.Pages -> AgentTexts] /\ chats' \in Seq(AgentChats)
      /\ \A o \in OfAgent.Pages : o # p => messages'[o] = messages[o]
      /\ chatFaults' \in 0..OfAgent.MaxFaults
  <2>1. CASE UNCHANGED <<messages, chats, chatFaults>>
    BY <1>1, <2>1 DEF AgentPageInv
  <2>2. CASE B!Fault /\ UNCHANGED <<messages, chats>>
    BY <1>1, <2>2, AgentFault DEF AgentPageInv
  <2> DEFINE s == messages[p]
             m == [by |-> "assistant", q |-> busy[p]]
             w == B!LastOf(Append(s, m), OfAgent.WINDOW)
  <2>3. CASE messages' = [messages EXCEPT ![p] = w]
             /\ chats' = B!saveForgeChat(p, messages'[p]) /\ UNCHANGED chatFaults
    <3>1. m \in B!Message /\ m.q = busy[p] /\ s \in AgentTexts /\ chat[p] \in 1..OfAgent.MaxChats
          /\ s # <<>> /\ s[Len(s)] = [by |-> "user", q |-> busy[p]]
      BY <1>1 DEF AgentPageInv, B!Message
    <3>2. Append(s, m) \in AgentTexts
      BY <3>1, AgentAppend
    <3>3. w \in AgentTexts
      BY <3>2, AgentWindow
    <3> HIDE DEF w
    <3>4. /\ messages' \in [OfAgent.Pages -> AgentTexts] /\ messages'[p] = w
          /\ \A o \in OfAgent.Pages : o # p => messages'[o] = messages[o]
      BY <1>1, <2>3, <3>3 DEF AgentPageInv
    <3>5. chats' \in Seq(AgentChats)
      BY <1>1, <2>3, <3>1, <3>3, <3>4, AgentSave DEF AgentPageInv
    <3>6. QED
      BY <1>1, <2>3, <3>4, <3>5 DEF AgentPageInv
  <2>4. QED
    BY <2>1, <2>2, <2>3 DEF B!Polled
<1>4. AgentPageInv'
  BY <1>1, <1>2, <1>3 DEF AgentPageInv
<1>5. QED
  BY <1>1, <1>4, AgentBridgeStays DEF AgentInv

LEMMA AgentStep == AgentInv /\ B!Next => AgentInv'
  BY AgentExecute, AgentChat, AgentRestarts, AgentAnswered, AgentGivesUp, AgentReload, AgentTurns,
     AgentSends, AgentPolled
     DEF B!Next, B!Bridge

-----------------------------------------------------------------------------
(* The index of the file system.                                           *)

(* One path is at or below another; two paths part at some name, where the *)
(* first is the earlier in the alphabet.                                   *)
Below(p, q) == Len(p) <= Len(q) /\ \A i \in 1..Len(p) : p[i] = q[i]
PartAt(p, q, i) == i \in 1..Len(p) /\ i \in 1..Len(q) /\ p[i] < q[i] /\ \A j \in 1..(i - 1) : p[j] = q[j]
Differ(p, q) == \E i \in Nat : PartAt(p, q, i)

LEMMA IndexPaths ==
  /\ I!IsFiniteSet(OfIndex.Paths) /\ OfIndex.roots \in Seq(OfIndex.Paths)
  /\ OfIndex.FS_MAX_ENTRIES \in Nat /\ OfIndex.DEPTH \in Nat \ {0}
  /\ DOMAIN OfIndex.roots = 1..Len(OfIndex.roots) /\ Len(OfIndex.roots) \in Nat
  /\ \A n \in 1..Len(OfIndex.roots) : OfIndex.roots[n] \in OfIndex.Paths
  /\ \A p \in OfIndex.Paths : /\ p \in Seq(Nat) /\ Len(p) \in Nat \ {0}
                              /\ \A i \in 1..Len(p) : p[i] \in Nat
<1>1. I!FileIndexAssumption
  BY ServicesAssumption
<1>2. /\ I!IsFiniteSet(OfIndex.Paths) /\ OfIndex.roots \in Seq(OfIndex.Paths)
      /\ OfIndex.FS_MAX_ENTRIES \in Nat /\ OfIndex.DEPTH \in Nat \ {0}
  BY <1>1 DEF I!FileIndexAssumption
<1>3. /\ DOMAIN OfIndex.roots = 1..Len(OfIndex.roots) /\ Len(OfIndex.roots) \in Nat
      /\ \A n \in 1..Len(OfIndex.roots) : OfIndex.roots[n] \in OfIndex.Paths
  BY <1>2, LenProperties
<1>4. ASSUME NEW p \in OfIndex.Paths
      PROVE  p \in Seq(Nat) /\ Len(p) \in Nat \ {0} /\ \A i \in 1..Len(p) : p[i] \in Nat
  <2>1. p \in Seq(Nat) /\ p # <<>>
    BY <1>1 DEF I!FileIndexAssumption
  <2>2. QED
    BY <2>1, EmptySeq, LenProperties
<1>5. QED
  BY <1>2, <1>3, <1>4

\* The beginning of a sequence.
LEMMA SubSeqTo ==
  ASSUME NEW A, NEW s, NEW n \in Nat, \A i \in 1..n : s[i] \in A
  PROVE  /\ SubSeq(s, 1, n) \in Seq(A) /\ Len(SubSeq(s, 1, n)) = n
         /\ \A i \in 1..n : SubSeq(s, 1, n)[i] = s[i]
<1>1. /\ SubSeq(s, 1, n) \in Seq(A) /\ Len(SubSeq(s, 1, n)) = IF 1 <= n THEN n - 1 + 1 ELSE 0
      /\ \A i \in 1..(n - 1 + 1) : SubSeq(s, 1, n)[i] = s[1 + i - 1]
  BY SubSeqProperties
<1>2. QED
  BY <1>1

LEMMA PrefixIsBelow ==
  ASSUME NEW p \in Seq(Nat), NEW q \in Seq(Nat)
  PROVE  I!IsPrefix(p, q) <=> Below(p, q)
<1>1. Len(p) \in Nat /\ Len(q) \in Nat /\ \A i \in 1..Len(q) : q[i] \in Nat
  BY LenProperties
<1>2. SubSeq(p, 1, Len(p)) = p
  BY SubSeqFull
<1>3. CASE Len(p) <= Len(q)
  <2>1. \A i \in 1..Len(p) : q[i] \in Nat
    BY <1>1, <1>3
  <2> DEFINE cut == SubSeq(q, 1, Len(p))
  <2>3. cut \in Seq(Nat) /\ Len(cut) = Len(p) /\ \A i \in 1..Len(p) : cut[i] = q[i]
    BY <1>1, <2>1, SubSeqTo
  <2> HIDE DEF cut
  <2>4. p = cut <=> \A i \in 1..Len(p) : p[i] = q[i]
    BY <2>3, SeqEqual
  <2>5. QED
    BY <1>2, <1>3, <2>4 DEF I!IsPrefix, Below, cut
<1>4. CASE ~(Len(p) <= Len(q))
  BY <1>4 DEF I!IsPrefix, Below
<1>5. QED
  BY <1>3, <1>4

LEMMA BeforeAs ==
  ASSUME NEW p \in Seq(Nat), NEW q \in Seq(Nat)
  PROVE  I!Before(p, q) <=> (Below(p, q) /\ p # q) \/ Differ(p, q)
<1>1. Len(p) \in Nat /\ Len(q) \in Nat /\ DOMAIN p = 1..Len(p) /\ DOMAIN q = 1..Len(q)
  BY LenProperties
<1>2. I!IsStrictPrefix(p, q) <=> Below(p, q) /\ p # q
  BY PrefixIsBelow DEF I!IsStrictPrefix
<1>3. (\E i \in DOMAIN p \cap DOMAIN q : p[i] < q[i] /\ \A j \in 1..(i - 1) : p[j] = q[j]) <=> Differ(p, q)
  <2>1. ASSUME NEW i \in DOMAIN p \cap DOMAIN q, p[i] < q[i], \A j \in 1..(i - 1) : p[j] = q[j]
        PROVE  Differ(p, q)
    <3>1. i \in Nat /\ PartAt(p, q, i)
      BY <1>1, <2>1 DEF PartAt
    <3>2. QED
      BY <3>1 DEF Differ
  <2>2. ASSUME NEW i \in Nat, PartAt(p, q, i)
        PROVE  \E m \in DOMAIN p \cap DOMAIN q : p[m] < q[m] /\ \A j \in 1..(m - 1) : p[j] = q[j]
    BY <1>1, <2>2 DEF PartAt
  <2>3. QED
    BY <2>1, <2>2 DEF Differ
<1>4. QED
  BY <1>2, <1>3 DEF I!Before

\* What comes before a path comes before what is below that path.
LEMMA BeforeBelow ==
  ASSUME NEW p \in Seq(Nat), NEW q \in Seq(Nat), NEW r \in Seq(Nat), I!Before(p, q), Below(q, r)
  PROVE  I!Before(p, r)
<1>1. Len(p) \in Nat /\ Len(q) \in Nat /\ Len(r) \in Nat
  BY LenProperties
<1>2. CASE Below(p, q) /\ p # q
  <2>1. Below(p, r)
    BY <1>1, <1>2 DEF Below
  <2>2. p # r
    <3>1. SUFFICES ASSUME p = r PROVE FALSE
      OBVIOUS
    <3>2. Len(p) = Len(q) /\ \A i \in 1..Len(p) : p[i] = q[i]
      BY <1>1, <1>2, <3>1 DEF Below
    <3>3. QED
      BY <1>2, <3>2, SeqEqual
  <2>3. QED
    BY <2>1, <2>2, BeforeAs
<1>3. CASE Differ(p, q)
  <2>1. PICK i \in Nat : PartAt(p, q, i)
    BY <1>3 DEF Differ
  <2>2. i \in 1..Len(r) /\ q[i] = r[i] /\ \A j \in 1..(i - 1) : q[j] = r[j]
    BY <1>1, <2>1 DEF Below, PartAt
  <2>3. PartAt(p, r, i)
    BY <1>1, <2>1, <2>2 DEF PartAt
  <2>4. QED
    BY <2>3, BeforeAs DEF Differ
<1>4. QED
  BY <1>2, <1>3, BeforeAs

\* What parts from a path parts from everything below it.
LEMMA DifferBelow ==
  ASSUME NEW p \in Seq(Nat), NEW q \in Seq(Nat), NEW r \in Seq(Nat), Differ(p, q), Below(p, r)
  PROVE  Differ(r, q)
<1>1. Len(p) \in Nat /\ Len(q) \in Nat /\ Len(r) \in Nat
  BY LenProperties
<1>2. PICK i \in Nat : PartAt(p, q, i)
  BY DEF Differ
<1>3. i \in 1..Len(r) /\ p[i] = r[i] /\ \A j \in 1..(i - 1) : p[j] = r[j]
  BY <1>1, <1>2 DEF Below, PartAt
<1>4. PartAt(r, q, i)
  BY <1>1, <1>2, <1>3 DEF PartAt
<1>5. QED
  BY <1>4 DEF Differ

\* No two paths come each before the other, and none before itself.
LEMMA BeforeOnce ==
  ASSUME NEW p \in Seq(Nat), NEW q \in Seq(Nat), I!Before(p, q)
  PROVE  ~I!Before(q, p) /\ p # q
<1>1. Len(p) \in Nat /\ Len(q) \in Nat
  BY LenProperties
<1>2. \A i \in 1..Len(p) : p[i] \in Nat
  BY LenProperties
<1>3. \A i \in 1..Len(q) : q[i] \in Nat
  BY LenProperties
<1>4. ~(Below(p, q) /\ p # q /\ Below(q, p) /\ q # p)
  <2>1. Below(p, q) /\ Below(q, p) => Len(p) = Len(q) /\ \A i \in 1..Len(p) : p[i] = q[i]
    BY <1>1 DEF Below
  <2>2. QED
    BY <2>1, SeqEqual
<1>5. ~(Below(p, q) /\ Differ(q, p)) /\ ~(Below(q, p) /\ Differ(p, q))
  BY <1>1, <1>2, <1>3 DEF Below, Differ, PartAt
<1>6. ~(Differ(p, q) /\ Differ(q, p))
  <2>1. SUFFICES ASSUME NEW i \in Nat, NEW j \in Nat, PartAt(p, q, i), PartAt(q, p, j) PROVE FALSE
    BY DEF Differ
  <2>2. p[i] \in Nat /\ q[i] \in Nat /\ p[j] \in Nat /\ q[j] \in Nat
    BY <1>2, <1>3, <2>1 DEF PartAt
  <2>3. CASE i < j
    BY <2>1, <2>2, <2>3 DEF PartAt
  <2>4. CASE j < i
    BY <2>1, <2>2, <2>4 DEF PartAt
  <2>5. CASE i = j
    BY <2>1, <2>2, <2>5 DEF PartAt
  <2>6. QED
    BY <2>3, <2>4, <2>5
<1>7. ~I!Before(q, p)
  BY <1>4, <1>5, <1>6, BeforeAs
<1>8. QED
  BY <1>7


\* A finite set whose elements have different numbers can be gone through
\* from the highest number down.
LEMMA DecreasingOrder ==
  ASSUME NEW A, IsFiniteSet(A), NEW key \in [A -> Nat], \A x, y \in A : key[x] = key[y] => x = y
  PROVE  \E o \in [1..Cardinality(A) -> A] :
           \A i, j \in 1..Cardinality(A) : i < j => key[o[i]] > key[o[j]]
<1> DEFINE Falls(T, o) == \A i, j \in 1..Cardinality(T) : i < j => key[o[i]] > key[o[j]]
           Ordered(T) == \E o \in [1..Cardinality(T) -> T] : Falls(T, o)
           bad == {n \in Nat : \E T \in SUBSET A : Cardinality(T) = n /\ ~Ordered(T)}
<1>1. \A T \in SUBSET A : IsFiniteSet(T) /\ Cardinality(T) \in Nat
  BY FS_Subset, FS_CardinalityType
<1>2. ASSUME bad # {} PROVE FALSE
  <2>1. PICK n \in bad : \A k \in bad : n <= k
    <3>1. bad \subseteq Nat
      OBVIOUS
    <3> HIDE DEF bad
    <3>2. QED
      BY <1>2, <3>1, LeastNumber
  <2>2. PICK T \in SUBSET A : Cardinality(T) = n /\ ~Ordered(T)
    BY <2>1
  <2>3. n \in Nat /\ n # 0
    <3>1. n \in Nat
      BY <2>1
    <3>2. ASSUME n = 0 PROVE FALSE
      <4>1. T = {}
        BY <1>1, <2>2, <3>2, FS_EmptySet
      <4>2. [i \in 1..0 |-> i] \in [1..Cardinality(T) -> T] /\ Falls(T, [i \in 1..0 |-> i])
        BY <2>2, <3>2, <4>1
      <4>3. QED
        BY <2>2, <4>2
    <3>3. QED
      BY <3>1, <3>2
  <2>4. PICK x \in T : \A y \in T : key[x] <= key[y]
    <3> DEFINE keys == {key[y] : y \in T}
    <3>1. keys \subseteq Nat
      OBVIOUS
    <3>2. keys # {}
      <4>1. Cardinality({}) = 0
        BY FS_EmptySet
      <4>2. T # {}
        BY <2>2, <2>3, <4>1
      <4>3. PICK y \in T : TRUE
        BY <4>2
      <4>4. key[y] \in keys
        OBVIOUS
      <4>5. QED
        BY <4>4
    <3> HIDE DEF keys
    <3>3. PICK m \in keys : \A k \in keys : m <= k
      BY <3>1, <3>2, LeastNumber
    <3>4. QED
      BY <3>3 DEF keys
  <2>5. T \ {x} \in SUBSET A /\ Cardinality(T \ {x}) = n - 1 /\ n - 1 \in Nat
    <3>1. IsFiniteSet(T) /\ x \in T
      BY <1>1, <2>2, <2>4
    <3>2. Cardinality(T \ {x}) = Cardinality(T) - 1
      BY <3>1, FS_RemoveElement, Zenon
    <3>3. QED
      BY <2>2, <2>3, <3>2
  <2>6. Ordered(T \ {x})
    <3>1. n - 1 \notin bad
      BY <2>1, <2>3
    <3>2. QED
      BY <2>5, <3>1
  <2>7. PICK o \in [1..(n - 1) -> T \ {x}] : \A i, j \in 1..(n - 1) : i < j => key[o[i]] > key[o[j]]
    BY <2>5, <2>6
  <2> DEFINE all == [i \in 1..n |-> IF i = n THEN x ELSE o[i]]
  <2>8. all \in [1..n -> T]
    BY <2>3, <2>4, <2>7
  <2>9. ASSUME NEW i \in 1..n, NEW j \in 1..n, i < j PROVE key[all[i]] > key[all[j]]
    <3>1. i \in 1..(n - 1) /\ all[i] = o[i]
      BY <2>3, <2>9
    <3>2. CASE j = n
      <4>1. all[j] = x /\ o[i] \in T /\ o[i] # x
        BY <2>7, <3>1, <3>2
      <4>2. key[o[i]] # key[x] /\ key[x] <= key[o[i]] /\ key[x] \in Nat /\ key[o[i]] \in Nat
        BY <2>2, <2>4, <4>1
      <4>3. QED
        BY <3>1, <4>1, <4>2
    <3>3. CASE j # n
      <4>1. j \in 1..(n - 1) /\ all[j] = o[j]
        BY <2>3, <3>3
      <4>2. QED
        BY <2>7, <2>9, <3>1, <4>1
    <3>4. QED
      BY <3>2, <3>3
  <2>10. Falls(T, all)
    BY <2>2, <2>9
  <2>11. QED
    BY <2>2, <2>8, <2>10
<1>3. A \in SUBSET A /\ Cardinality(A) \in Nat
  BY <1>1
<1>4. Ordered(A)
  BY <1>2, <1>3
<1>5. QED
  BY <1>4

-----------------------------------------------------------------------------
\* What a path is when its last name is taken away.
LEMMA FrontOf ==
  ASSUME NEW q \in OfIndex.Paths, NEW p \in Seq(Nat)
  PROVE  I!Front(q) = p <=> Len(q) = Len(p) + 1 /\ Below(p, q)
<1>1. /\ q \in Seq(Nat) /\ Len(q) \in Nat \ {0} /\ Len(p) \in Nat
      /\ \A i \in 1..Len(q) : q[i] \in Nat
  BY IndexPaths, LenProperties
<1> DEFINE f == SubSeq(q, 1, Len(q) - 1)
<1>2. /\ f \in Seq(Nat) /\ Len(f) = Len(q) - 1 /\ \A i \in 1..(Len(q) - 1) : f[i] = q[i]
  <2> DEFINE n == Len(q) - 1
  <2>1. n \in Nat /\ \A i \in 1..n : q[i] \in Nat
    BY <1>1
  <2> HIDE DEF n
  <2>2. /\ SubSeq(q, 1, n) \in Seq(Nat) /\ Len(SubSeq(q, 1, n)) = n
        /\ \A i \in 1..n : SubSeq(q, 1, n)[i] = q[i]
    BY <2>1, SubSeqTo
  <2>3. QED
    BY <2>2 DEF n
<1>3. I!Front(q) = f
  BY DEF I!Front
<1> HIDE DEF f
<1>4. ASSUME f = p PROVE Len(q) = Len(p) + 1 /\ Below(p, q)
  BY <1>1, <1>2, <1>4 DEF Below
<1>5. ASSUME Len(q) = Len(p) + 1, Below(p, q) PROVE f = p
  <2>1. Len(f) = Len(p) /\ \A i \in 1..Len(f) : f[i] = p[i]
    BY <1>1, <1>2, <1>5 DEF Below
  <2>2. QED
    BY <1>2, <2>1, SeqEqual
<1>6. QED
  BY <1>3, <1>4, <1>5

LEMMA ChildrenOf ==
  ASSUME NEW p \in OfIndex.Paths
  PROVE  I!Children(p) = {q \in OfIndex.Paths : kind[q] # "none" /\ Len(q) = Len(p) + 1 /\ Below(p, q)}
<1>1. p \in Seq(Nat)
  BY IndexPaths
<1>2. \A q \in OfIndex.Paths : I!Parent(q) = p <=> Len(q) = Len(p) + 1 /\ Below(p, q)
  BY <1>1, FrontOf DEF I!Parent
<1>3. QED
  BY <1>2 DEF I!Children

\* The children of a directory, from the last in the alphabet to the first.
LEMMA PushedOf ==
  ASSUME NEW c, c.full \in OfIndex.Paths
  PROVE  \E o : /\ I!Pushed(c) = [n \in DOMAIN o |->
                       [c EXCEPT !.full = o[n], !.parent = c.full, !.depth = @ + 1]]
                /\ o \in Seq(I!Children(c.full))
                /\ \A i, j \in 1..Len(o) : i < j => I!Last(o[i]) > I!Last(o[j])
                /\ \A q \in I!Children(c.full) : \E i \in 1..Len(o) : o[i] = q
<1> DEFINE H == I!Children(c.full)
           nr == I!Cardinality(H)
           key == [q \in H |-> I!Last(q)]
           Falls(o) == \A i, j \in DOMAIN o : i < j => I!Last(o[i]) > I!Last(o[j])
           o == CHOOSE o \in [1..nr -> H] : Falls(o)
<1>1. \A X : I!Cardinality(X) = Cardinality(X) /\ (I!IsFiniteSet(X) <=> IsFiniteSet(X))
  BY DEF I!Cardinality, Cardinality, I!IsFiniteSet, IsFiniteSet
<1>2. H \subseteq OfIndex.Paths /\ IsFiniteSet(H) /\ nr \in Nat /\ nr = Cardinality(H)
  <2>1. H \subseteq OfIndex.Paths
    BY DEF I!Children
  <2>2. QED
    BY <1>1, <2>1, IndexPaths, FS_Subset, FS_CardinalityType
<1>3. \A q \in H : Len(q) = Len(c.full) + 1 /\ Below(c.full, q) /\ q \in Seq(Nat) /\ q[Len(q)] \in Nat
  BY <1>2, ChildrenOf, IndexPaths
<1>4. key \in [H -> Nat]
  BY <1>3 DEF I!Last
<1>5. ASSUME NEW x \in H, NEW y \in H, key[x] = key[y] PROVE x = y
  <2>1. Len(x) = Len(y) /\ Len(c.full) \in Nat
    BY <1>3, IndexPaths
  <2>2. ASSUME NEW i \in 1..Len(x) PROVE x[i] = y[i]
    <3>1. Len(x) = Len(c.full) + 1 /\ Below(c.full, x) /\ Below(c.full, y)
      BY <1>3
    <3>2. x[Len(x)] = y[Len(y)]
      BY <1>5 DEF I!Last
    <3>3. CASE i = Len(x)
      BY <2>1, <3>2, <3>3
    <3>4. CASE i # Len(x)
      <4>1. i \in 1..Len(c.full)
        BY <2>1, <3>1, <3>4
      <4>2. QED
        BY <3>1, <4>1 DEF Below
    <3>5. QED
      BY <3>3, <3>4
  <2>3. QED
    BY <1>3, <2>1, <2>2, SeqEqual
<1>6. \E u \in [1..nr -> H] : \A i, j \in 1..nr : i < j => key[u[i]] > key[u[j]]
  <2> HIDE DEF key, H
  <2>1. QED
    BY <1>2, <1>4, <1>5, DecreasingOrder
<1>7. \E u \in [1..nr -> H] : Falls(u)
  BY <1>6
<1>8. o \in [1..nr -> H] /\ Falls(o)
  BY <1>7
<1>9. I!Pushed(c) = [n \in DOMAIN o |-> [c EXCEPT !.full = o[n], !.parent = c.full, !.depth = @ + 1]]
  BY Zenon DEF I!Pushed
<1> HIDE DEF o, H
<1>10. o \in Seq(H) /\ Len(o) = nr /\ DOMAIN o = 1..nr
  BY <1>2, <1>8
<1>11. \A i, j \in 1..Len(o) : i < j => I!Last(o[i]) > I!Last(o[j])
  BY <1>8, <1>10
<1>12. o \in Injection(1..nr, H)
  <2>1. \A q \in H : I!Last(q) \in Nat
    BY <1>3 DEF I!Last
  <2>2. ASSUME NEW i \in 1..nr, NEW j \in 1..nr, o[i] = o[j] PROVE i = j
    <3>1. I!Last(o[i]) \in Nat /\ I!Last(o[i]) = I!Last(o[j])
      BY <1>8, <2>1, <2>2
    <3>2. ~(i < j) /\ ~(j < i)
      BY <1>10, <1>11, <3>1, <2>2
    <3>3. QED
      BY <1>2, <3>2
  <2>3. QED
    BY <1>8, <2>2 DEF Injection, IsInjective
<1>13. o \in Surjection(1..nr, H)
  <2>1. IsFiniteSet(1..nr) /\ Cardinality(1..nr) = nr
    BY <1>2, FS_Interval
  <2>2. QED
    BY <1>2, <1>12, <2>1, FS_Injection
<1>14. \A q \in H : \E i \in 1..Len(o) : o[i] = q
  BY <1>10, <1>13 DEF Surjection
<1>15. QED
  BY <1>9, <1>10, <1>11, <1>14, Zenon DEF H


IndexRoots == 1..Len(OfIndex.roots)
IndexRow == [full : OfIndex.Paths, parent : OfIndex.Paths \cup {I!Top}, depth : Nat, root : IndexRoots]

(* Everything above a path, from the root on, is a directory that is read. *)
Open(k, n, p) ==
  \A q \in OfIndex.Paths : Below(OfIndex.roots[n], q) /\ Below(q, p) /\ q # p => k[q] = "directory"

OnTheWay(k, c) ==
  /\ Below(OfIndex.roots[c.root], c.full) /\ Open(k, c.root, c.full)
  /\ c.depth = (Len(c.full) - Len(OfIndex.roots[c.root])) + 1 /\ c.depth <= OfIndex.DEPTH
  /\ k[c.full] # "none"

ToFind(k, n, p) ==
  /\ Below(OfIndex.roots[n], p) /\ Open(k, n, p)
  /\ Len(p) - Len(OfIndex.roots[n]) < OfIndex.DEPTH
  /\ k[p] \notin {"none", "gone"}

Apart(x, y) == x.root > y.root \/ (x.root = y.root /\ Differ(x.full, y.full))

Indexed(e, n, p) == \E i \in 1..Len(e) : e[i].full = p /\ e[i].root = n
Hangs(e, x) == x.parent = I!Top \/ Indexed(e, x.root, x.parent)

(* The stack goes down in the alphabet, and all of it comes after what is  *)
(* indexed.  What is to be found is indexed, or below something on the     *)
(* stack.                                                                  *)
IndexState(k, s, e) ==
  /\ k \in [OfIndex.Paths -> I!Kinds] /\ s \in Seq(IndexRow) /\ e \in Seq(IndexRow)
  /\ Len(e) <= OfIndex.FS_MAX_ENTRIES
  /\ \A i \in 1..Len(s) : OnTheWay(k, s[i]) /\ Hangs(e, s[i])
  /\ \A i \in 1..Len(e) : OnTheWay(k, e[i]) /\ Hangs(e, e[i]) /\ k[e[i].full] # "gone"
  /\ \A i, j \in 1..Len(s) : i < j => Apart(s[j], s[i])
  /\ \A i, j \in 1..Len(e) : i < j => I!Precedes(e[i], e[j])
  /\ \A i \in 1..Len(e), j \in 1..Len(s) : I!Precedes(e[i], s[j])
  /\ \A n \in IndexRoots, p \in OfIndex.Paths :
       ToFind(k, n, p) => Indexed(e, n, p) \/ \E i \in 1..Len(s) : s[i].root = n /\ Below(s[i].full, p)

IndexInv == part = "index" => IndexState(kind, stack, entries)

LEMMA IndexInit == Init => IndexInv
<1> SUFFICES ASSUME Init, part = "index" PROVE IndexState(kind, stack, entries)
  BY DEF IndexInv
<1>1. I!Init
  BY DEF Init
<1>2. /\ kind \in [OfIndex.Paths -> I!Kinds] /\ entries = <<>>
      /\ \A p \in OfIndex.Paths : p \in I!Range(OfIndex.roots) => kind[p] \in {"directory", "excluded"}
      /\ stack = [n \in IndexRoots |-> [full |-> OfIndex.roots[n], parent |-> I!Top, depth |-> 1, root |-> n]]
  BY <1>1, IndexPaths DEF I!Init, IndexRoots
<1>3. \A n \in IndexRoots : /\ OfIndex.roots[n] \in OfIndex.Paths /\ OfIndex.roots[n] \in Seq(Nat)
                            /\ Len(OfIndex.roots[n]) \in Nat
  BY IndexPaths DEF IndexRoots
<1>4. \A n \in IndexRoots : kind[OfIndex.roots[n]] # "none"
  BY <1>2, <1>3, IndexPaths DEF I!Range, IndexRoots
<1>5. \A n \in IndexRoots : stack[n] \in IndexRow
  BY <1>2, <1>3 DEF IndexRow
<1>6. stack \in Seq(IndexRow) /\ Len(stack) = Len(OfIndex.roots)
  <2>1. stack \in [1..Len(OfIndex.roots) -> IndexRow]
    BY <1>2, <1>5 DEF IndexRoots
  <2>2. Len(OfIndex.roots) \in Nat
    BY IndexPaths
  <2>3. stack \in Seq(IndexRow) /\ DOMAIN stack = 1..Len(OfIndex.roots)
    BY <2>1, <2>2, SeqDef
  <2>4. QED
    BY <2>2, <2>3, LenProperties
<1>13. \A n \in IndexRoots : /\ stack[n].full = OfIndex.roots[n] /\ stack[n].root = n
                            /\ stack[n].depth = 1 /\ stack[n].parent = I!Top
  BY <1>2
<1>7. \A n \in IndexRoots : Below(OfIndex.roots[n], OfIndex.roots[n]) /\ Open(kind, n, OfIndex.roots[n])
  <2>1. ASSUME NEW n \in IndexRoots, NEW q \in OfIndex.Paths, Below(OfIndex.roots[n], q),
               Below(q, OfIndex.roots[n])
        PROVE  q = OfIndex.roots[n]
    <3>1. q \in Seq(Nat) /\ Len(q) \in Nat
      BY IndexPaths
    <3>2. Len(q) = Len(OfIndex.roots[n]) /\ \A i \in 1..Len(q) : q[i] = OfIndex.roots[n][i]
      BY <1>3, <2>1, <3>1 DEF Below
    <3>3. QED
      BY <1>3, <3>1, <3>2, SeqEqual
  <2>2. QED
    BY <1>3, <2>1 DEF Below, Open
<1>8. \A n \in IndexRoots : OnTheWay(kind, stack[n]) /\ Hangs(entries, stack[n])
  <2> SUFFICES ASSUME NEW n \in IndexRoots PROVE OnTheWay(kind, stack[n]) /\ Hangs(entries, stack[n])
    OBVIOUS
  <2>1. /\ Below(OfIndex.roots[stack[n].root], stack[n].full) /\ Open(kind, stack[n].root, stack[n].full)
        /\ kind[stack[n].full] # "none" /\ stack[n].parent = I!Top
    BY <1>13, <1>4, <1>7
  <2>2. /\ stack[n].depth = (Len(stack[n].full) - Len(OfIndex.roots[stack[n].root])) + 1
        /\ stack[n].depth <= OfIndex.DEPTH
    <3>1. stack[n].full = OfIndex.roots[n] /\ stack[n].root = n /\ stack[n].depth = 1
      BY <1>13
    <3>2. Len(OfIndex.roots[n]) \in Nat /\ OfIndex.DEPTH \in Nat \ {0}
      BY <1>3, IndexPaths
    <3>3. QED
      BY <3>1, <3>2
  <2>3. QED
    BY <2>1, <2>2 DEF OnTheWay, Hangs
<1>9. \A i, j \in 1..Len(stack) : i < j => Apart(stack[j], stack[i])
  BY <1>2, <1>6 DEF Apart, IndexRoots
<1>10. ASSUME NEW n \in IndexRoots, NEW p \in OfIndex.Paths, ToFind(kind, n, p)
       PROVE  \E i \in 1..Len(stack) : stack[i].root = n /\ Below(stack[i].full, p)
  BY <1>2, <1>6, <1>10 DEF ToFind, IndexRoots
<1>11. entries \in Seq(IndexRow) /\ Len(entries) = 0
  BY <1>2, EmptySeq
<1>12. QED
  <2>1. \A i \in 1..Len(stack) : OnTheWay(kind, stack[i]) /\ Hangs(entries, stack[i])
    BY <1>6, <1>8 DEF IndexRoots
  <2>2. kind \in [OfIndex.Paths -> I!Kinds] /\ Len(entries) <= OfIndex.FS_MAX_ENTRIES /\ 1..Len(entries) = {}
    BY <1>2, <1>11, IndexPaths
  <2>3. QED
    BY <1>6, <1>9, <1>10, <1>11, <2>1, <2>2 DEF IndexState

\* What is put on the stack for a path.
Expands(k, c, w) ==
  /\ w \in Seq(IndexRow)
  /\ \A i \in 1..Len(w) :
       /\ w[i].root = c.root /\ w[i].parent = c.full /\ w[i].depth = c.depth + 1
       /\ Len(w[i].full) = Len(c.full) + 1 /\ Below(c.full, w[i].full) /\ k[w[i].full] # "none"
       /\ k[c.full] = "directory" /\ c.depth < OfIndex.DEPTH
  /\ \A i, j \in 1..Len(w) : i < j => Differ(w[j].full, w[i].full)
  /\ k[c.full] = "directory" /\ c.depth < OfIndex.DEPTH =>
       \A q \in OfIndex.Paths : k[q] # "none" /\ Len(q) = Len(c.full) + 1 /\ Below(c.full, q) =>
         \E i \in 1..Len(w) : w[i].full = q

LEMMA PushedExpands ==
  ASSUME NEW c \in IndexRow
  PROVE  Expands(kind, c,
           IF kind[c.full] = "directory" /\ c.depth < OfIndex.DEPTH THEN I!Pushed(c) ELSE <<>>)
<1>1. CASE ~(kind[c.full] = "directory" /\ c.depth < OfIndex.DEPTH)
  <2>1. <<>> \in Seq(IndexRow) /\ Len(<<>>) = 0
    BY EmptySeq
  <2>2. QED
    BY <1>1, <2>1 DEF Expands
<1>2. CASE kind[c.full] = "directory" /\ c.depth < OfIndex.DEPTH
  <2>1. c.full \in OfIndex.Paths /\ c.depth \in Nat /\ c.root \in IndexRoots
    BY DEF IndexRow
  <2>2. PICK o : /\ I!Pushed(c) = [n \in DOMAIN o |-> [c EXCEPT !.full = o[n], !.parent = c.full, !.depth = @ + 1]]
                 /\ o \in Seq(I!Children(c.full))
                 /\ \A i, j \in 1..Len(o) : i < j => I!Last(o[i]) > I!Last(o[j])
                 /\ \A q \in I!Children(c.full) : \E i \in 1..Len(o) : o[i] = q
    BY <2>1, PushedOf
  <2> DEFINE H == I!Children(c.full)
             w == I!Pushed(c)
  <2>3. Len(o) \in Nat /\ DOMAIN o = 1..Len(o) /\ \A i \in 1..Len(o) : o[i] \in H
    <3>1. o \in Seq(H)
      BY <2>2
    <3> HIDE DEF H
    <3>2. QED
      BY <3>1, LenProperties
  <2>4. \A q : q \in H <=>
          q \in OfIndex.Paths /\ kind[q] # "none" /\ Len(q) = Len(c.full) + 1 /\ Below(c.full, q)
    BY <2>1, ChildrenOf
  <2>12. /\ \A i, j \in 1..Len(o) : i < j => I!Last(o[i]) > I!Last(o[j])
        /\ \A q \in H : \E i \in 1..Len(o) : o[i] = q
    BY <2>2
  <2>13. DOMAIN w = 1..Len(o) /\ \A i \in 1..Len(o) :
          w[i] = [c EXCEPT !.full = o[i], !.parent = c.full, !.depth = c.depth + 1]
    BY <2>2, <2>3
  <2> HIDE DEF H
  <2>5. \A i \in 1..Len(o) : /\ w[i] \in IndexRow /\ w[i].full = o[i] /\ w[i].root = c.root
                             /\ w[i].parent = c.full /\ w[i].depth = c.depth + 1
    <3> HIDE DEF w
    <3>1. c \in [full : OfIndex.Paths, parent : OfIndex.Paths \cup {I!Top}, depth : Nat, root : IndexRoots]
      BY DEF IndexRow
    <3> SUFFICES ASSUME NEW i \in 1..Len(o)
                 PROVE  /\ w[i] \in IndexRow /\ w[i].full = o[i] /\ w[i].root = c.root
                        /\ w[i].parent = c.full /\ w[i].depth = c.depth + 1
      OBVIOUS
    <3>2. o[i] \in OfIndex.Paths /\ c.depth + 1 \in Nat
      BY <2>1, <2>3, <2>4
    <3>3. w[i] = [full |-> o[i], parent |-> c.full, depth |-> c.depth + 1, root |-> c.root]
      BY <2>13, <3>1
    <3>4. QED
      BY <2>1, <3>2, <3>3 DEF IndexRow
  <2>6. w \in Seq(IndexRow) /\ Len(w) = Len(o)
    <3>1. w = [i \in 1..Len(o) |-> w[i]]
      BY <2>2, <2>3
    <3> HIDE DEF w
    <3>2. w \in [1..Len(o) -> IndexRow]
      BY <2>5, <3>1
    <3>3. w \in Seq(IndexRow) /\ DOMAIN w = 1..Len(o)
      BY <2>3, <3>2, SeqDef
    <3>4. QED
      BY <2>3, <3>3, LenProperties
  <2> HIDE DEF w
  <2>7. ASSUME NEW i \in 1..Len(w), NEW j \in 1..Len(w), i < j PROVE Differ(w[j].full, w[i].full)
    <3> DEFINE m == Len(c.full) + 1
    <3>0. i \in 1..Len(o) /\ j \in 1..Len(o) /\ Len(c.full) \in Nat
      BY <2>1, <2>6, IndexPaths
    <3>5. PICK x, y : x = o[j] /\ y = o[i]
      OBVIOUS
    <3>1. /\ x \in Seq(Nat) /\ y \in Seq(Nat) /\ Len(x) = m /\ Len(y) = m /\ m \in Nat
          /\ Below(c.full, x) /\ Below(c.full, y) /\ w[j].full = x /\ w[i].full = y
      <4>1. w[j].full = x /\ w[i].full = y /\ x \in H /\ y \in H
        BY <2>3, <2>5, <3>0, <3>5
      <4>2. /\ x \in OfIndex.Paths /\ y \in OfIndex.Paths /\ Len(x) = Len(c.full) + 1
            /\ Len(y) = Len(c.full) + 1 /\ Below(c.full, x) /\ Below(c.full, y)
        BY <2>4, <4>1
      <4>3. x \in Seq(Nat) /\ y \in Seq(Nat)
        BY <4>2, IndexPaths
      <4>4. QED
        BY <3>0, <4>1, <4>2, <4>3
    <3>2. x[m] < y[m]
      <4>1. I!Last(y) > I!Last(x)
        BY <2>12, <2>7, <3>0, <3>5
      <4>2. I!Last(y) = y[m] /\ I!Last(x) = x[m]
        BY <3>1 DEF I!Last
      <4>3. x[m] \in Nat /\ y[m] \in Nat
        BY <3>0, <3>1, ElementOfSeq
      <4> HIDE DEF m
      <4>4. QED
        BY <4>1, <4>2, <4>3
    <3>3. PartAt(x, y, m)
      <4>1. \A k \in 1..(m - 1) : x[k] = y[k]
        BY <3>0, <3>1 DEF Below
      <4>2. m \in 1..Len(x) /\ m \in 1..Len(y)
        BY <3>0, <3>1
      <4>3. QED
        BY <3>2, <4>1, <4>2 DEF PartAt
    <3>4. QED
      BY <3>1, <3>3 DEF Differ
  <2>8. \A i \in 1..Len(w) :
          /\ w[i].root = c.root /\ w[i].parent = c.full /\ w[i].depth = c.depth + 1
          /\ Len(w[i].full) = Len(c.full) + 1 /\ Below(c.full, w[i].full) /\ kind[w[i].full] # "none"
    BY <2>3, <2>4, <2>5, <2>6
  <2>9. \A q \in OfIndex.Paths : kind[q] # "none" /\ Len(q) = Len(c.full) + 1 /\ Below(c.full, q) =>
          \E i \in 1..Len(w) : w[i].full = q
    BY <2>4, <2>5, <2>6, <2>12
  <2>10. Expands(kind, c, w)
    BY <1>2, <2>6, <2>7, <2>8, <2>9 DEF Expands
  <2>11. QED
    BY <1>2, <2>10 DEF w
<1>3. QED
  BY <1>1, <1>2

LEMMA BelowAgain ==
  ASSUME NEW p \in Seq(Nat), NEW q \in Seq(Nat), NEW r \in Seq(Nat), Below(p, q), Below(q, r)
  PROVE  Below(p, r)
<1>1. Len(p) \in Nat /\ Len(q) \in Nat /\ Len(r) \in Nat
  BY LenProperties
<1>2. Len(p) <= Len(q) /\ Len(q) <= Len(r)
  BY DEF Below
<1>3. ASSUME NEW i \in 1..Len(p) PROVE p[i] = r[i]
  <2>1. i \in 1..Len(q)
    BY <1>1, <1>2
  <2>2. QED
    BY <2>1 DEF Below
<1>4. QED
  BY <1>1, <1>2, <1>3 DEF Below

\* What is at or below a path is that path, or longer.
LEMMA BelowLonger ==
  ASSUME NEW p \in Seq(Nat), NEW q \in Seq(Nat), Below(p, q), p # q
  PROVE  Len(p) < Len(q)
<1>1. Len(p) \in Nat /\ Len(q) \in Nat /\ Len(p) <= Len(q)
  BY LenProperties DEF Below
<1>2. Len(p) # Len(q)
  BY SeqEqual DEF Below
<1>3. QED
  BY <1>1, <1>2

LEMMA BelowBoth ==
  ASSUME NEW p \in Seq(Nat), NEW q \in Seq(Nat), NEW r \in Seq(Nat), Below(p, r), Below(q, r), Len(p) <= Len(q)
  PROVE  Below(p, q)
<1>1. Len(p) \in Nat /\ Len(q) \in Nat /\ Len(r) \in Nat
  BY LenProperties
<1>2. ASSUME NEW i \in 1..Len(p) PROVE p[i] = q[i]
  <2>1. i \in 1..Len(q)
    BY <1>1
  <2>2. QED
    BY <2>1 DEF Below
<1>3. QED
  BY <1>2 DEF Below

\* Of the order of the index.
LEMMA RowsInOrder ==
  ASSUME NEW x, NEW y, x.full \in OfIndex.Paths, y.full \in OfIndex.Paths, x.root \in Nat, y.root \in Nat
  PROVE  /\ Apart(x, y) => I!Precedes(x, y)
         /\ x.root = y.root /\ Below(x.full, y.full) /\ x.full # y.full => I!Precedes(x, y)
         /\ I!Precedes(x, y) => ~I!Precedes(y, x) /\ ~(x.root = y.root /\ x.full = y.full)
<1>1. x.full \in Seq(Nat) /\ y.full \in Seq(Nat)
  BY IndexPaths
<1>3. Apart(x, y) => I!Precedes(x, y)
  BY <1>1, BeforeAs DEF Apart, I!Precedes
<1>4. x.root = y.root /\ Below(x.full, y.full) /\ x.full # y.full => I!Precedes(x, y)
  BY <1>1, BeforeAs DEF I!Precedes
<1>5. I!Precedes(x, y) => ~I!Precedes(y, x) /\ ~(x.root = y.root /\ x.full = y.full)
  BY <1>1, BeforeOnce DEF I!Precedes
<1>6. QED
  BY <1>3, <1>4, <1>5

LEMMA PrecedesBelow ==
  ASSUME NEW x, NEW y, NEW z, x.full \in OfIndex.Paths, y.full \in OfIndex.Paths,
         z.full \in OfIndex.Paths, z.root = y.root, Below(y.full, z.full), I!Precedes(x, y)
  PROVE  I!Precedes(x, z)
<1>1. x.full \in Seq(Nat) /\ y.full \in Seq(Nat) /\ z.full \in Seq(Nat)
  BY IndexPaths
<1>2. QED
  BY <1>1, BeforeBelow DEF I!Precedes

LEMMA ApartBelow ==
  ASSUME NEW x, NEW y, NEW z, x.full \in OfIndex.Paths, y.full \in OfIndex.Paths,
         z.full \in OfIndex.Paths, z.root = x.root, Below(x.full, z.full), Apart(x, y)
  PROVE  Apart(z, y)
<1>1. x.full \in Seq(Nat) /\ y.full \in Seq(Nat) /\ z.full \in Seq(Nat)
  BY IndexPaths
<1>2. QED
  BY <1>1, DifferBelow DEF Apart

\* On the way from a path to one below it there is a child of the first.
LEMMA ChildOnTheWay ==
  ASSUME NEW n \in IndexRoots, NEW p \in OfIndex.Paths, NEW r \in OfIndex.Paths,
         Below(OfIndex.roots[n], r), Below(r, p), r # p
  PROVE  \E q \in OfIndex.Paths : Len(q) = Len(r) + 1 /\ Below(r, q) /\ Below(q, p)
<1> DEFINE long == {m \in Nat : m > Len(r) /\ \E q \in OfIndex.Paths : Len(q) = m /\ Below(q, p)}
<1>1. /\ p \in Seq(Nat) /\ r \in Seq(Nat) /\ OfIndex.roots[n] \in Seq(Nat) /\ Len(r) \in Nat /\ Len(p) \in Nat
      /\ \A q \in OfIndex.Paths : q \in Seq(Nat) /\ Len(q) \in Nat
  BY IndexPaths DEF IndexRoots
<1>2. long # {}
  <2>1. Len(r) < Len(p) /\ Below(p, p)
    BY <1>1, BelowLonger DEF Below
  <2>2. QED
    BY <1>1, <2>1
<1>3. PICK m \in long : \A k \in long : m <= k
  <2>1. long \subseteq Nat
    OBVIOUS
  <2> HIDE DEF long
  <2>2. QED
    BY <1>2, <2>1, LeastNumber
<1>4. PICK q \in OfIndex.Paths : Len(q) = m /\ Below(q, p)
  BY <1>3
<1>5. Below(r, q) /\ q # r /\ m \in Nat /\ m > Len(r)
  <2>1. m \in Nat /\ m > Len(r)
    BY <1>3
  <2>2. QED
    BY <1>1, <1>4, <2>1, BelowBoth
<1>6. ASSUME m # Len(r) + 1 PROVE FALSE
  <2>1. Below(OfIndex.roots[n], q) /\ OfIndex.roots[n] # q
    <3>1. Below(OfIndex.roots[n], q)
      BY <1>1, <1>5, BelowAgain
    <3>2. Len(OfIndex.roots[n]) <= Len(r)
      BY DEF Below
    <3>3. QED
      BY <1>1, <1>4, <1>5, <3>1, <3>2
  <2>2. I!Front(q) \in OfIndex.Paths
    <3>1. I!IsStrictPrefix(OfIndex.roots[n], q)
      BY <1>1, <2>1, PrefixIsBelow DEF I!IsStrictPrefix
    <3>2. I!FileIndexAssumption /\ n \in DOMAIN OfIndex.roots
      BY ServicesAssumption, IndexPaths DEF IndexRoots
    <3>3. QED
      BY <3>1, <3>2 DEF I!FileIndexAssumption
  <2>3. Len(q) = Len(I!Front(q)) + 1 /\ Below(I!Front(q), q)
    BY <1>1, <2>2, FrontOf
  <2>4. Below(I!Front(q), p)
    BY <1>1, <1>4, <2>2, <2>3, BelowAgain
  <2>5. m - 1 \in long
    <3>1. Len(I!Front(q)) \in Nat
      BY <1>1, <2>2
    <3>2. Len(I!Front(q)) = m - 1 /\ m - 1 \in Nat /\ m - 1 > Len(r)
      BY <1>1, <1>4, <1>5, <1>6, <2>3, <3>1
    <3>3. QED
      BY <2>2, <2>4, <3>2
  <2>6. QED
    BY <1>3, <1>5, <2>5
<1>7. QED
  BY <1>4, <1>5, <1>6

\* The lists after a step.
LEMMA WalkLists ==
  ASSUME NEW s \in Seq(IndexRow), NEW e \in Seq(IndexRow), NEW w \in Seq(IndexRow), s # <<>>
  PROVE  LET c  == s[Len(s)]
             s2 == SubSeq(s, 1, Len(s) - 1) \o w
             e2 == Append(e, c)
         IN  /\ c \in IndexRow /\ Len(s) \in Nat \ {0} /\ Len(e) \in Nat /\ Len(w) \in Nat
             /\ s2 \in Seq(IndexRow) /\ Len(s2) = (Len(s) - 1) + Len(w)
             /\ \A i \in 1..Len(s2) : i < Len(s) => i \in 1..Len(s) /\ s2[i] = s[i]
             /\ \A i \in 1..Len(s2) : ~(i < Len(s)) =>
                  i - (Len(s) - 1) \in 1..Len(w) /\ s2[i] = w[i - (Len(s) - 1)]
             /\ e2 \in Seq(IndexRow) /\ Len(e2) = Len(e) + 1 /\ e2[Len(e) + 1] = c
             /\ \A i \in 1..Len(e) : e2[i] = e[i]
<1>1. Len(s) \in Nat \ {0} /\ Len(e) \in Nat /\ Len(w) \in Nat /\ \A i \in 1..Len(s) : s[i] \in IndexRow
  BY EmptySeq, LenProperties
<1> DEFINE c == s[Len(s)]
           f == SubSeq(s, 1, Len(s) - 1)
<1>2. c \in IndexRow
  BY <1>1
<1>3. f \in Seq(IndexRow) /\ Len(f) = Len(s) - 1 /\ \A i \in 1..(Len(s) - 1) : f[i] = s[i]
  <2> DEFINE n == Len(s) - 1
  <2>1. n \in Nat /\ \A i \in 1..n : s[i] \in IndexRow
    BY <1>1
  <2> HIDE DEF n
  <2>2. /\ SubSeq(s, 1, n) \in Seq(IndexRow) /\ Len(SubSeq(s, 1, n)) = n
        /\ \A i \in 1..n : SubSeq(s, 1, n)[i] = s[i]
    BY <2>1, SubSeqTo
  <2>3. QED
    BY <2>2 DEF n
<1> HIDE DEF f, c
<1>4. /\ f \o w \in Seq(IndexRow) /\ Len(f \o w) = Len(f) + Len(w)
      /\ \A i \in 1..(Len(f) + Len(w)) : (f \o w)[i] = IF i <= Len(f) THEN f[i] ELSE w[i - Len(f)]
  BY <1>3, ConcatProperties
<1>5. ASSUME NEW i \in 1..Len(f \o w), i < Len(s) PROVE i \in 1..Len(s) /\ (f \o w)[i] = s[i]
  BY <1>1, <1>3, <1>4, <1>5
<1>8. ASSUME NEW i \in 1..Len(f \o w), ~(i < Len(s))
       PROVE  i - (Len(s) - 1) \in 1..Len(w) /\ (f \o w)[i] = w[i - (Len(s) - 1)]
  BY <1>1, <1>3, <1>4, <1>8
<1>6. /\ Append(e, c) \in Seq(IndexRow) /\ Len(Append(e, c)) = Len(e) + 1
      /\ Append(e, c)[Len(e) + 1] = c /\ \A i \in 1..Len(e) : Append(e, c)[i] = e[i]
  BY <1>2, AppendProperties
<1>7. QED
  BY <1>1, <1>2, <1>3, <1>4, <1>5, <1>8, <1>6 DEF f, c


LEMMA Depths ==
  /\ \A a, b, n, d \in Nat : a < b /\ b - n < d => (a - n) + 1 < d
  /\ \A a, n, d \in Nat : (a - n) + 1 <= d => a - n < d
  /\ \A a, b, n, x, y, d \in Nat :
       x = (a - n) + 1 /\ y = x + 1 /\ b = a + 1 /\ x < d => y = (b - n) + 1 /\ y <= d
  /\ \A a, b, n, x, d \in Nat : x = (a - n) + 1 /\ a < b /\ b - n < d => x < d
  OBVIOUS

(* A step of the walk: the last of the stack is indexed unless it is gone, *)
(* and makes room for what it holds.                                       *)
LEMMA WalkKeeps ==
  ASSUME NEW k, NEW s, NEW e, NEW w, NEW s2, NEW e2, IndexState(k, s, e), s # <<>>,
         Len(e) < OfIndex.FS_MAX_ENTRIES, Expands(k, s[Len(s)], w),
         s2 = SubSeq(s, 1, Len(s) - 1) \o w,
         e2 = IF k[s[Len(s)].full] = "gone" THEN e ELSE Append(e, s[Len(s)])
  PROVE  IndexState(k, s2, e2)
<1> DEFINE c == s[Len(s)]
           gone == k[c.full] = "gone"
<1>1. /\ k \in [OfIndex.Paths -> I!Kinds] /\ s \in Seq(IndexRow) /\ e \in Seq(IndexRow)
      /\ w \in Seq(IndexRow)
  BY DEF IndexState, Expands
<1>2. /\ c \in IndexRow /\ Len(s) \in Nat \ {0} /\ Len(e) \in Nat /\ Len(w) \in Nat
      /\ s2 \in Seq(IndexRow) /\ Len(s2) = (Len(s) - 1) + Len(w)
      /\ \A i \in 1..Len(s2) :
           /\ i < Len(s) => i \in 1..Len(s) /\ s2[i] = s[i]
           /\ ~(i < Len(s)) => i - (Len(s) - 1) \in 1..Len(w) /\ s2[i] = w[i - (Len(s) - 1)]
      /\ Append(e, c) \in Seq(IndexRow) /\ Len(Append(e, c)) = Len(e) + 1 /\ Append(e, c)[Len(e) + 1] = c
      /\ \A i \in 1..Len(e) : Append(e, c)[i] = e[i]
  BY <1>1, WalkLists
<1>3. /\ e2 \in Seq(IndexRow) /\ Len(e2) = (IF gone THEN Len(e) ELSE Len(e) + 1)
      /\ \A i \in 1..Len(e) : i \in 1..Len(e2) /\ e2[i] = e[i]
      /\ \A i \in 1..Len(e2) : i \in 1..Len(e) \/ (i = Len(e) + 1 /\ ~gone /\ e2[i] = c)
      /\ ~gone => Len(e) + 1 \in 1..Len(e2) /\ e2[Len(e) + 1] = c
  <2>1. CASE gone
    BY <1>1, <1>2, <2>1
  <2>2. CASE ~gone
    BY <1>1, <1>2, <2>2
  <2>3. QED
    BY <2>1, <2>2
<1>4. \A i \in 1..Len(s) : s[i] \in IndexRow
  BY <1>1, LenProperties
<1>5. \A i \in 1..Len(e) : e[i] \in IndexRow
  BY <1>1, LenProperties
<1>6. \A i \in 1..Len(w) : w[i] \in IndexRow
  BY <1>1, LenProperties
<1>7. \A x \in IndexRow : /\ x.full \in OfIndex.Paths /\ x.full \in Seq(Nat) /\ Len(x.full) \in Nat
                          /\ x.root \in IndexRoots /\ x.root \in Nat /\ x.depth \in Nat
  BY IndexPaths DEF IndexRow, IndexRoots
<1>8. \A n \in IndexRoots : OfIndex.roots[n] \in Seq(Nat) /\ Len(OfIndex.roots[n]) \in Nat
  BY IndexPaths DEF IndexRoots
<1>9. OnTheWay(k, c) /\ Hangs(e, c) /\ Len(s) \in 1..Len(s)
  BY <1>2 DEF IndexState
<1>10. \A i \in 1..Len(w) :
         /\ w[i].root = c.root /\ w[i].parent = c.full /\ w[i].depth = c.depth + 1
         /\ Len(w[i].full) = Len(c.full) + 1 /\ Below(c.full, w[i].full) /\ k[w[i].full] # "none"
         /\ k[c.full] = "directory" /\ c.depth < OfIndex.DEPTH /\ ~gone
  BY DEF Expands
<1> HIDE DEF c, gone
<1>11. \A x : Hangs(e, x) => Hangs(e2, x)
  BY <1>3 DEF Hangs, Indexed
<1>12. ASSUME NEW i \in 1..Len(w) PROVE OnTheWay(k, w[i]) /\ Hangs(e2, w[i])
  <2> DEFINE r == OfIndex.roots[c.root]
             p == w[i].full
  <2>1. /\ p \in Seq(Nat) /\ r \in Seq(Nat) /\ c.full \in Seq(Nat) /\ Len(p) = Len(c.full) + 1
        /\ Len(r) \in Nat /\ Len(c.full) \in Nat /\ c.depth \in Nat /\ OfIndex.DEPTH \in Nat
        /\ Below(c.full, p) /\ Below(r, c.full) /\ w[i].root = c.root
    BY <1>2, <1>6, <1>7, <1>8, <1>9, <1>10, IndexPaths DEF OnTheWay
  <2>2. Below(r, p)
    BY <2>1, BelowAgain
  <2>3. ASSUME NEW q \in OfIndex.Paths, Below(r, q), Below(q, p), q # p PROVE k[q] = "directory"
    <3>1. q \in Seq(Nat) /\ Len(q) \in Nat
      BY IndexPaths
    <3>2. Len(q) < Len(p)
      BY <2>1, <2>3, <3>1, BelowLonger
    <3>3. Below(q, c.full)
      BY <2>1, <2>3, <3>1, <3>2, BelowBoth
    <3>4. CASE q = c.full
      BY <1>10, <3>4
    <3>5. CASE q # c.full
      BY <1>9, <2>3, <3>3, <3>5 DEF OnTheWay, Open
    <3>6. QED
      BY <3>4, <3>5
  <2>4. w[i].depth = (Len(p) - Len(r)) + 1 /\ w[i].depth <= OfIndex.DEPTH
    <3>1. c.depth = (Len(c.full) - Len(r)) + 1 /\ w[i].depth = c.depth + 1 /\ c.depth < OfIndex.DEPTH
      BY <1>9, <1>10 DEF OnTheWay
    <3>2. QED
      <4>2. PICK a \in Nat : a = Len(c.full)
        BY <2>1, Zenon
      <4>3. PICK m \in Nat : m = Len(r)
        BY <2>1, Zenon
      <4>4. PICK d \in Nat : d = OfIndex.DEPTH
        BY <2>1, Zenon
      <4>5. PICK x \in Nat : x = c.depth
        BY <2>1, Zenon
      <4>6. x = (a - m) + 1 /\ x < d
        BY <3>1, <4>2, <4>3, <4>4, <4>5, Zenon
      <4>7. x + 1 = ((a + 1) - m) + 1 /\ x + 1 <= d
        BY <4>6
      <4>8. Len(p) = a + 1 /\ w[i].depth = x + 1
        BY <2>1, <3>1, <4>2, <4>5, Zenon
      <4>9. QED
        BY <4>3, <4>4, <4>7, <4>8, Zenon
  <2>5. OnTheWay(k, w[i])
    BY <1>10, <2>1, <2>2, <2>3, <2>4 DEF OnTheWay, Open
  <2>6. Hangs(e2, w[i])
    BY <1>3, <1>10 DEF Hangs, Indexed
  <2>7. QED
    BY <2>5, <2>6
<1>13. ASSUME NEW i \in 1..Len(s2) PROVE OnTheWay(k, s2[i]) /\ Hangs(e2, s2[i])
  <2>1. CASE i < Len(s)
    BY <1>2, <1>11, <2>1 DEF IndexState
  <2>2. CASE ~(i < Len(s))
    BY <1>2, <1>12, <2>2
  <2>3. QED
    BY <2>1, <2>2
<1>14. ASSUME NEW i \in 1..Len(e2) PROVE OnTheWay(k, e2[i]) /\ Hangs(e2, e2[i]) /\ k[e2[i].full] # "gone"
  <2>1. CASE i \in 1..Len(e)
    BY <1>3, <1>11, <2>1 DEF IndexState
  <2>2. CASE i \notin 1..Len(e)
    BY <1>3, <1>9, <1>11, <2>2 DEF gone
  <2>3. QED
    BY <2>1, <2>2
<1>15. ASSUME NEW i \in 1..Len(s2), NEW j \in 1..Len(s2), i < j PROVE Apart(s2[j], s2[i])
  <2>1. CASE j < Len(s)
    <3>1. i < Len(s)
      BY <1>2, <1>15, <2>1
    <3>2. s2[j] = s[j] /\ s2[i] = s[i] /\ i \in 1..Len(s) /\ j \in 1..Len(s)
      BY <1>2, <2>1, <3>1
    <3>3. QED
      BY <1>15, <3>2 DEF IndexState
  <2>2. CASE ~(j < Len(s)) /\ i < Len(s)
    <3>1. Apart(c, s[i]) /\ i \in 1..Len(s)
      BY <1>2, <1>9, <2>2 DEF IndexState, c
    <3>2. j - (Len(s) - 1) \in 1..Len(w) /\ s2[j] = w[j - (Len(s) - 1)] /\ s2[i] = s[i]
      BY <1>2, <2>2
    <3>3. QED
      BY <1>2, <1>4, <1>6, <1>7, <1>10, <3>1, <3>2, ApartBelow
  <2>3. CASE ~(j < Len(s)) /\ ~(i < Len(s))
    <3>1. /\ j - (Len(s) - 1) \in 1..Len(w) /\ s2[j] = w[j - (Len(s) - 1)] /\ i - (Len(s) - 1) \in 1..Len(w) /\ s2[i] = w[i - (Len(s) - 1)]
      BY <1>2, <2>3
    <3>2. i - (Len(s) - 1) < j - (Len(s) - 1)
      BY <1>2, <1>15
    <3>3. QED
      <4>1. w[j - (Len(s) - 1)].root = w[i - (Len(s) - 1)].root
        BY <1>10, <3>1
      <4>2. Differ(w[j - (Len(s) - 1)].full, w[i - (Len(s) - 1)].full)
        BY <3>1, <3>2 DEF Expands
      <4>3. QED
        BY <3>1, <4>1, <4>2 DEF Apart
  <2>4. QED
    BY <1>2, <1>15, <2>1, <2>2, <2>3
<1>16. ASSUME NEW i \in 1..Len(e2), NEW j \in 1..Len(e2), i < j PROVE I!Precedes(e2[i], e2[j])
  <2>1. i \in 1..Len(e)
    BY <1>2, <1>3, <1>16
  <2>2. CASE j \in 1..Len(e)
    BY <1>3, <1>16, <2>1, <2>2 DEF IndexState
  <2>3. CASE j \notin 1..Len(e)
    <3>1. I!Precedes(e[i], c)
      BY <1>9, <2>1 DEF IndexState, c
    <3>2. QED
      BY <1>3, <2>1, <2>3, <3>1
  <2>4. QED
    BY <2>2, <2>3
<1>17. ASSUME NEW i \in 1..Len(e2), NEW j \in 1..Len(s2) PROVE I!Precedes(e2[i], s2[j])
  <2>1. CASE i \in 1..Len(e) /\ j < Len(s)
    BY <1>2, <1>3, <2>1 DEF IndexState
  <2>2. CASE i \in 1..Len(e) /\ ~(j < Len(s))
    <3>1. I!Precedes(e[i], c)
      BY <1>9, <2>2 DEF IndexState, c
    <3>2. j - (Len(s) - 1) \in 1..Len(w) /\ s2[j] = w[j - (Len(s) - 1)] /\ e2[i] = e[i]
      BY <1>2, <1>3, <2>2
    <3>3. PICK v \in IndexRow : v = w[j - (Len(s) - 1)]
      BY <1>6, <3>2
    <3>4. e[i] \in IndexRow /\ v.root = c.root /\ Below(c.full, v.full)
      BY <1>5, <1>10, <2>2, <3>2, <3>3
    <3>5. I!Precedes(e[i], v)
      <4>1. e[i].full \in OfIndex.Paths /\ c.full \in OfIndex.Paths /\ v.full \in OfIndex.Paths
        BY <1>2, <1>7, <3>4
      <4>2. QED
        BY <3>1, <3>4, <4>1, PrecedesBelow, ZenonT(30)
    <3>6. QED
      BY <3>2, <3>3, <3>5
  <2>3. CASE i \notin 1..Len(e) /\ j < Len(s)
    <3>1. Apart(c, s[j]) /\ j \in 1..Len(s)
      BY <1>2, <1>9, <2>3 DEF IndexState, c
    <3>2. QED
      BY <1>2, <1>3, <1>4, <1>7, <2>3, <3>1, RowsInOrder
  <2>4. CASE i \notin 1..Len(e) /\ ~(j < Len(s))
    <3>1. j - (Len(s) - 1) \in 1..Len(w) /\ s2[j] = w[j - (Len(s) - 1)] /\ e2[i] = c
      BY <1>2, <1>3, <2>4
    <3>2. c.full # w[j - (Len(s) - 1)].full
      BY <1>2, <1>7, <1>10, <3>1
    <3>3. QED
      BY <1>2, <1>6, <1>7, <1>10, <3>1, <3>2, RowsInOrder
  <2>5. QED
    BY <2>1, <2>2, <2>3, <2>4
<1>18. ASSUME NEW n \in IndexRoots, NEW p \in OfIndex.Paths, ToFind(k, n, p)
       PROVE  Indexed(e2, n, p) \/ \E i \in 1..Len(s2) : s2[i].root = n /\ Below(s2[i].full, p)
  <2>1. CASE Indexed(e, n, p)
    BY <1>3, <2>1 DEF Indexed
  <2>2. CASE \E i \in 1..Len(s) : i # Len(s) /\ s[i].root = n /\ Below(s[i].full, p)
    <3>1. PICK i \in 1..Len(s) : i # Len(s) /\ s[i].root = n /\ Below(s[i].full, p)
      BY <2>2
    <3>2. i \in 1..Len(s2) /\ i < Len(s)
      BY <1>2, <3>1
    <3>3. QED
      BY <1>2, <3>1, <3>2
  <2>3. CASE c.root = n /\ Below(c.full, p)
    <3>1. CASE p = c.full
      <4>1. ~gone
        BY <1>18, <3>1 DEF ToFind, gone
      <4>2. QED
        BY <1>3, <2>3, <3>1, <4>1 DEF Indexed
    <3>2. CASE p # c.full
      <4>1. /\ p \in Seq(Nat) /\ Len(p) \in Nat /\ c.full \in Seq(Nat) /\ Len(c.full) \in Nat
            /\ c.full \in OfIndex.Paths /\ Len(OfIndex.roots[n]) \in Nat /\ OfIndex.DEPTH \in Nat
        BY <1>2, <1>7, <1>8, IndexPaths
      <4>2. Below(OfIndex.roots[n], c.full) /\ c.depth = (Len(c.full) - Len(OfIndex.roots[n])) + 1
        BY <1>9, <2>3 DEF OnTheWay
      <4>3. k[c.full] = "directory"
        BY <1>18, <2>3, <3>2, <4>1, <4>2 DEF ToFind, Open
      <4>4. c.depth < OfIndex.DEPTH
        <5>1. Len(c.full) < Len(p)
          BY <2>3, <3>2, <4>1, BelowLonger
        <5>2. Len(p) - Len(OfIndex.roots[n]) < OfIndex.DEPTH
          BY <1>18 DEF ToFind
        <5>3. QED
          <6>2. PICK a \in Nat : a = Len(c.full)
            BY <4>1, Zenon
          <6>3. PICK b \in Nat : b = Len(p)
            BY <4>1, Zenon
          <6>4. PICK m \in Nat : m = Len(OfIndex.roots[n])
            BY <4>1, Zenon
          <6>5. PICK d \in Nat : d = OfIndex.DEPTH
            BY <4>1, Zenon
          <6>6. a < b /\ b - m < d /\ c.depth = (a - m) + 1
            BY <4>2, <5>1, <5>2, <6>2, <6>3, <6>4, <6>5, Zenon
          <6>7. (a - m) + 1 < d
            BY <6>6
          <6>8. QED
            BY <6>5, <6>6, <6>7, Zenon
      <4>5. PICK q \in OfIndex.Paths : Len(q) = Len(c.full) + 1 /\ Below(c.full, q) /\ Below(q, p)
        BY <2>3, <3>2, <4>1, <4>2, ChildOnTheWay
      <4>6. k[q] # "none"
        <5>1. q \in Seq(Nat) /\ OfIndex.roots[n] \in Seq(Nat)
          BY <1>8, IndexPaths
        <5>2. Below(OfIndex.roots[n], q)
          BY <4>1, <4>2, <4>5, <5>1, BelowAgain
        <5>3. CASE q = p
          BY <1>18, <5>3 DEF ToFind
        <5>4. CASE q # p
          <6>1. k[q] = "directory"
            BY <1>18, <4>5, <5>2, <5>4 DEF ToFind, Open
          <6>2. QED
            BY <6>1
        <5>5. QED
          BY <5>3, <5>4
      <4>7. PICK i \in 1..Len(w) : w[i].full = q
        BY <4>3, <4>4, <4>5, <4>6 DEF Expands, c
      <4>8. (Len(s) - 1) + i \in 1..Len(s2) /\ s2[(Len(s) - 1) + i] = w[i]
        <5>1. (Len(s) - 1) + i \in 1..Len(s2) /\ ~((Len(s) - 1) + i < Len(s)) /\ ((Len(s) - 1) + i) - (Len(s) - 1) = i
          BY <1>2
        <5>2. QED
          BY <1>2, <5>1
      <4>9. w[i].root = n /\ Below(w[i].full, p)
        BY <1>10, <2>3, <4>5, <4>7
      <4>10. QED
        BY <4>8, <4>9
    <3>3. QED
      BY <3>1, <3>2
  <2>4. QED
    BY <1>18, <2>1, <2>2, <2>3 DEF IndexState, c
<1>19. Len(e2) <= OfIndex.FS_MAX_ENTRIES
  BY <1>2, <1>3, IndexPaths
<1>20. QED
  BY <1>1, <1>2, <1>3, <1>13, <1>14, <1>15, <1>16, <1>17, <1>18, <1>19 DEF IndexState

LEMMA IndexKeeps == ASSUME IndexInv, [I!Next]_indexVars, UNCHANGED part PROVE IndexInv'
<1>1. CASE UNCHANGED indexVars
  BY <1>1 DEF IndexInv, indexVars
<1>2. CASE I!Next /\ part = "index"
  <2> DEFINE c == I!Last(stack)
             w == IF kind[c.full] = "directory" /\ c.depth < OfIndex.DEPTH THEN I!Pushed(c) ELSE <<>>
  <2>1. /\ stack # <<>> /\ Len(entries) < OfIndex.FS_MAX_ENTRIES /\ kind' = kind
        /\ entries' = (IF kind[c.full] = "gone" THEN entries ELSE Append(entries, c))
        /\ stack' = I!Front(stack) \o w
    BY <1>2 DEF I!Next, I!indexFilesystem, I!Running
  <2>2. IndexState(kind, stack, entries) /\ stack \in Seq(IndexRow)
    BY <1>2 DEF IndexInv, IndexState
  <2>3. c = stack[Len(stack)] /\ I!Front(stack) = SubSeq(stack, 1, Len(stack) - 1) /\ c \in IndexRow
    BY <2>1, <2>2, EmptySeq, LenProperties DEF I!Last, I!Front
  <2>4. Expands(kind, c, w)
    BY <2>3, PushedExpands
  <2> HIDE DEF c, w
  <2>5. IndexState(kind, stack', entries')
    BY <2>1, <2>2, <2>3, <2>4, WalkKeeps
  <2>6. QED
    BY <2>1, <2>5 DEF IndexInv
<1>3. CASE part # "index"
  BY <1>3 DEF IndexInv
<1>4. QED
  BY <1>1, <1>2, <1>3


\* What the walk is meant to find.
LEMMA MeantIsToFind ==
  ASSUME NEW n \in IndexRoots, NEW p \in OfIndex.Paths
  PROVE  p \in I!Meant(n) <=> ToFind(kind, n, p)
<1>1. /\ p \in Seq(Nat) /\ OfIndex.roots[n] \in Seq(Nat)
      /\ \A q \in OfIndex.Paths : q \in Seq(Nat)
  BY IndexPaths DEF IndexRoots
<1>2. I!IsPrefix(OfIndex.roots[n], p) <=> Below(OfIndex.roots[n], p)
  BY <1>1, PrefixIsBelow
<1>3. \A q \in OfIndex.Paths : /\ I!IsPrefix(OfIndex.roots[n], q) <=> Below(OfIndex.roots[n], q)
                               /\ I!IsStrictPrefix(q, p) <=> Below(q, p) /\ q # p
  BY <1>1, PrefixIsBelow DEF I!IsStrictPrefix
<1>4. QED
  BY <1>2, <1>3 DEF I!Meant, ToFind, Open

LEMMA IndexImplies == ASSUME IndexInv, part = "index" PROVE I!IndexIsComplete /\ I!BrowsingReachesAll
<1>1. IndexState(kind, stack, entries)
  BY DEF IndexInv
<1>2. /\ DOMAIN entries = 1..Len(entries) /\ Len(entries) \in Nat /\ \A i \in 1..Len(entries) : entries[i] \in IndexRow
      /\ Len(stack) \in Nat /\ \A i \in 1..Len(stack) : stack[i] \in IndexRow
      /\ stack # <<>> => Len(stack) \in 1..Len(stack)
      /\ stack = <<>> => Len(stack) = 0
      /\ I!Range(entries) = {entries[i] : i \in 1..Len(entries)}
  BY <1>1, EmptySeq, LenProperties DEF IndexState, I!Range
<1>3. \A x \in IndexRow : x.full \in OfIndex.Paths /\ x.root \in IndexRoots /\ x.root \in Nat
  BY IndexPaths DEF IndexRow, IndexRoots
<1>4. \A x : x \in I!Missing <=>
        /\ x \in [full : OfIndex.Paths, root : IndexRoots]
        /\ ToFind(kind, x.root, x.full) /\ ~Indexed(entries, x.root, x.full)
  BY <1>2, MeantIsToFind, IndexPaths DEF I!Missing, Indexed, IndexRoots
<1>5. \A c \in IndexRow : OnTheWay(kind, c) /\ kind[c.full] # "gone" => ToFind(kind, c.root, c.full)
  <2> SUFFICES ASSUME NEW c \in IndexRow, OnTheWay(kind, c), kind[c.full] # "gone"
               PROVE  ToFind(kind, c.root, c.full)
    OBVIOUS
  <2>1. /\ Len(c.full) \in Nat /\ Len(OfIndex.roots[c.root]) \in Nat /\ OfIndex.DEPTH \in Nat
    BY <1>3, IndexPaths DEF IndexRoots
  <2>2. (Len(c.full) - Len(OfIndex.roots[c.root])) + 1 <= OfIndex.DEPTH
    BY DEF OnTheWay
  <2>3. Len(c.full) - Len(OfIndex.roots[c.root]) < OfIndex.DEPTH
    BY <2>1, <2>2, Depths, Zenon
  <2>4. QED
    BY <2>3 DEF OnTheWay, ToFind
<1>6. \A i, j \in DOMAIN entries : i < j => I!Precedes(entries[i], entries[j])
  BY <1>1, <1>2 DEF IndexState
<1>7. ASSUME NEW e \in I!Range(entries) PROVE e.full \in I!Meant(e.root)
  <2>1. PICK i \in 1..Len(entries) : e = entries[i]
    BY <1>2
  <2>2. ToFind(kind, e.root, e.full)
    BY <1>1, <1>2, <1>5, <2>1 DEF IndexState
  <2>3. QED
    BY <1>2, <1>3, <2>1, <2>2, MeantIsToFind
<1>8. ASSUME NEW e \in I!Range(entries), NEW x \in I!Missing, I!Precedes(x, e) PROVE FALSE
  <2>1. PICK i \in 1..Len(entries) : e = entries[i]
    BY <1>2
  <2>2. x.full \in OfIndex.Paths /\ x.root \in IndexRoots /\ x.root \in Nat
    BY <1>4, IndexPaths DEF IndexRoots
  <2>3. PICK j \in 1..Len(stack) : stack[j].root = x.root /\ Below(stack[j].full, x.full)
    BY <1>1, <1>4, <2>2 DEF IndexState
  <2>4. I!Precedes(e, stack[j])
    BY <1>1, <2>1, <2>3 DEF IndexState
  <2>5. I!Precedes(e, x)
    BY <1>2, <1>3, <2>1, <2>2, <2>3, <2>4, PrecedesBelow
  <2>6. QED
    BY <1>2, <1>3, <1>8, <2>1, <2>2, <2>5, RowsInOrder
<1>9. stack = <<>> => I!Missing = {}
  <2> SUFFICES ASSUME stack = <<>>, NEW x \in I!Missing PROVE FALSE
    OBVIOUS
  <2>1. x.full \in OfIndex.Paths /\ x.root \in IndexRoots
    BY <1>4
  <2>2. QED
    BY <1>1, <1>2, <1>4, <2>1 DEF IndexState
<1>10. stack # <<>> => I!Missing # {} \/ \E p \in OfIndex.Paths : kind[p] = "gone"
  <2> SUFFICES ASSUME stack # <<>>, \A p \in OfIndex.Paths : kind[p] # "gone" PROVE I!Missing # {}
    OBVIOUS
  <2> DEFINE c == stack[Len(stack)]
             x == [full |-> c.full, root |-> c.root]
  <2>1. c \in IndexRow /\ c.full \in OfIndex.Paths /\ c.root \in IndexRoots /\ c.root \in Nat
    BY <1>2, <1>3
  <2>2. ToFind(kind, c.root, c.full)
    BY <1>1, <1>2, <1>5, <2>1 DEF IndexState
  <2>3. ASSUME NEW i \in 1..Len(entries), entries[i].full = c.full, entries[i].root = c.root PROVE FALSE
    <3>1. I!Precedes(entries[i], c)
      BY <1>1, <1>2 DEF IndexState
    <3>2. QED
      BY <1>2, <1>3, <2>1, <2>3, <3>1, RowsInOrder
  <2>4. x \in I!Missing
    BY <1>4, <2>1, <2>2, <2>3 DEF Indexed
  <2>5. QED
    BY <2>4
<1>11. ~I!Running => stack = <<>> \/ Len(entries) = OfIndex.FS_MAX_ENTRIES
  BY <1>1, <1>2, IndexPaths DEF I!Running, IndexState
<1>12. I!IndexIsComplete
  BY <1>6, <1>7, <1>8, <1>9, <1>10, <1>11 DEF I!IndexIsComplete, I!truncated
<1>13. ASSUME NEW e \in I!Range(entries)
       PROVE  e \in I!Browse(I!Top) \/ \E d \in I!Range(entries) : d.root = e.root /\ e \in I!Browse(d.full)
  <2>1. PICK i \in 1..Len(entries) : e = entries[i]
    BY <1>2
  <2>2. Hangs(entries, e)
    BY <1>1, <2>1 DEF IndexState
  <2>3. QED
    BY <1>2, <2>2 DEF Hangs, Indexed, I!Browse
<1>14. QED
  BY <1>12, <1>13 DEF I!BrowsingReachesAll

-----------------------------------------------------------------------------
(* The broker: what is proved of it by itself holds of it here.            *)

GP == INSTANCE ChangeBrokerProofs WITH
  conn <- requestsOpen, busy <- executing, used <- spentOnGuesses, Conns <- OfBroker.Conns,
  Hashes <- OfBroker.Hashes, Nobody <- OfBroker.Nobody, MAX_PENDING <- OfBroker.MAX_PENDING,
  Ttl <- OfBroker.Ttl, FAILURE_WINDOW <- OfBroker.FAILURE_WINDOW,
  FAILURE_LIMIT <- OfBroker.FAILURE_LIMIT, MaxTime <- OfBroker.MaxTime,
  MaxNonces <- OfBroker.MaxNonces, MaxFailed <- OfBroker.MaxFailed,
  MaxRestarts <- OfBroker.MaxRestarts, MaxToggles <- OfBroker.MaxToggles

BrokerInv == GP!TypeInv /\ GP!GuessInv /\ GP!HistoryInv

LEMMA BrokerConstants == GP!BrokerAssumption
<1>1. GP!IsFiniteSet(OfBroker.Conns) <=> G!IsFiniteSet(OfBroker.Conns)
  BY DEF GP!IsFiniteSet, G!IsFiniteSet
<1>2. QED
  BY <1>1, ServicesAssumption DEF GP!BrokerAssumption, G!BrokerAssumption

LEMMA BrokerInit == G!Init => BrokerInv
<1>1. G!Init => GP!Init
  BY DEF G!Init, GP!Init, G!NoConn, GP!NoConn, G!NoSignature, GP!NoSignature, G!world, GP!world
<1>2. QED
  BY <1>1, BrokerConstants, GP!InitTypeInv, GP!InitGuessInv, GP!InitHistoryInv
     DEF BrokerInv, GP!BrokerAssumption

LEMMA BrokerKeeps == BrokerInv /\ [G!Next]_brokerVars => BrokerInv'
<1>1. G!Next => GP!Next
  BY Zenon DEF
    G!Next, GP!Next, G!Serve, GP!Serve, G!Restart, GP!Restart, G!Tick, GP!Tick, G!Toggle, GP!Toggle,
    G!Sign, GP!Sign, G!TaskEnds, GP!TaskEnds, G!TaskRefused, GP!TaskRefused, G!TaskStarts, GP!TaskStarts,
    G!SignatureValid, GP!SignatureValid, G!SignatureInvalid, GP!SignatureInvalid,
    G!PostVerifying, GP!PostVerifying, G!PostRejected, GP!PostRejected, G!RoomToFail, GP!RoomToFail,
    G!Verifying, GP!Verifying, G!PostChallenge, GP!PostChallenge, G!BadRequest, GP!BadRequest,
    G!LockedOut, GP!LockedOut, G!Arrive, GP!Arrive, G!Acceptable, GP!Acceptable, G!Present, GP!Present,
    G!issue, GP!issue, G!Swept, GP!Swept, G!Live, GP!Live, G!Expired, GP!Expired, G!Answer, GP!Answer,
    G!recordFailure, GP!recordFailure, G!locked, GP!locked, G!Recent, GP!Recent, G!NoConn, GP!NoConn,
    G!NoSignature, GP!NoSignature, G!Purpose, GP!Purpose, G!world, GP!world, G!Cardinality, GP!Cardinality
<1>2. UNCHANGED brokerVars => UNCHANGED GP!vars
  BY DEF brokerVars, GP!vars
<1>3. [G!Next]_brokerVars => [GP!Next]_(GP!vars)
  BY <1>1, <1>2
<1>4. QED
  BY <1>3, BrokerConstants, GP!NextTypeInv, GP!NextGuessInv, GP!NextHistoryInv
     DEF BrokerInv, GP!TypeInv, GP!BrokerAssumption

LEMMA BrokerImplies == BrokerInv => G!GuessesBounded
<1>1. G!GuessesBounded <=> GP!GuessesBounded
  BY Zenon DEF G!GuessesBounded, GP!GuessesBounded, G!Within, GP!Within, G!Cardinality, GP!Cardinality
<1>2. QED
  BY <1>1, BrokerConstants, GP!GuessBounds DEF BrokerInv, GP!HistoryInv, GP!BrokerAssumption

-----------------------------------------------------------------------------
(* All the parts: each makes its own steps, or does not move.              *)

ServicesInv ==
  /\ UpdateInv /\ ScanInv /\ FleetInv /\ PageInv /\ ProbesInv /\ DiscoveryInv /\ RatesInv
  /\ JournalInv /\ BrokerInv /\ AgentInv /\ IndexInv

LEMMA ServicesInit == Init => ServicesInv
  BY UpdateInit, ScanInit, FleetInit, PageInit, ProbesInit, DiscoveryInit, RatesInit, JournalInit, BrokerInit,
     AgentInit, IndexInit
     DEF Init, ServicesInv

LEMMA ServicesParts ==
  ASSUME [Next]_vars
  PROVE  /\ [U!Next]_updateVars /\ [S!Next]_scanVars /\ [F!Next]_fleetVars /\ [L!Next]_pageVars
         /\ [P!Next]_probeVars /\ [D!Next]_discoveryVars /\ [C!Next]_rateVars /\ [J!Next]_journalVars
         /\ [G!Next]_brokerVars /\ [B!Next]_agentVars /\ [I!Next]_indexVars /\ UNCHANGED part
<1>1. CASE UNCHANGED vars
  BY <1>1 DEF vars
<1>2. CASE Next
  <2>1. Alone
    BY <1>2 DEF Next
  <2>2. /\ part # "update" => UNCHANGED updateVars
        /\ part # "scan" => UNCHANGED scanVars
        /\ part # "fleet" => UNCHANGED fleetVars
        /\ part # "page" => UNCHANGED pageVars
        /\ part # "probes" => UNCHANGED probeVars
        /\ part # "discovery" => UNCHANGED discoveryVars
        /\ part # "rates" => UNCHANGED rateVars
        /\ part # "journal" => UNCHANGED journalVars
        /\ part # "broker" => UNCHANGED brokerVars
        /\ part # "agent" => UNCHANGED agentVars
        /\ part # "index" => UNCHANGED indexVars
        /\ UNCHANGED part
    BY <2>1 DEF Alone, Keep
  <2>3. /\ part = "update" => U!Next
        /\ part = "scan" => S!Next
        /\ part = "fleet" => F!Next
        /\ part = "page" => L!Next
        /\ part = "probes" => P!Next
        /\ part = "discovery" => D!Next
        /\ part = "rates" => C!Next
        /\ part = "journal" => J!Next
        /\ part = "broker" => G!Next
        /\ part = "agent" => B!Next
        /\ part = "index" => I!Next
    BY <1>2 DEF Next
  <2>4. QED
    BY <2>2, <2>3
<1>3. QED
  BY <1>1, <1>2

LEMMA UpdateKeeps == UpdateInv /\ [U!Next]_updateVars => UpdateInv'
<1>1. UpdateInv /\ UNCHANGED updateVars => UpdateInv'
  BY DEF UpdateInv, updateVars, U!TypeOK, OneUnit, JobSettled, UnitWorks, Undoable, U!Installed
<1>2. QED
  BY <1>1, UpdateStep

LEMMA ScanKeeps == ScanInv /\ [S!Next]_scanVars => ScanInv'
<1>1. ScanInv /\ UNCHANGED scanVars => ScanInv'
  BY DEF ScanInv, scanVars, S!TypeOK, S!ScanStatusIsTrue
<1>2. QED
  BY <1>1, ScanStep

LEMMA FleetKeeps == FleetInv /\ [F!Next]_fleetVars => FleetInv'
<1>1. FleetInv /\ UNCHANGED fleetVars => FleetInv'
  BY DEF FleetInv, FleetTyped, fleetVars, F!StoredOnce, Remembered
<1>2. QED
  BY <1>1, FleetStep

LEMMA PageKeeps == PageInv /\ [L!Next]_pageVars => PageInv'
<1>1. PageInv /\ UNCHANGED pageVars => PageInv'
  BY DEF PageInv, pageVars, L!FiguresOfTheNode, L!Hub
<1>2. QED
  BY <1>1, PageStep

LEMMA ProbesKeep == ProbesInv /\ [P!Next]_probeVars => ProbesInv'
<1>1. ProbesInv /\ UNCHANGED probeVars => ProbesInv'
  BY DEF ProbesInv, ProbesTyped, probeVars, P!ProbesAreLimited
<1>2. QED
  BY <1>1, ProbesStep

LEMMA DiscoveryKeeps == DiscoveryInv /\ [D!Next]_discoveryVars => DiscoveryInv'
<1>1. DiscoveryInv /\ UNCHANGED discoveryVars => DiscoveryInv'
  BY DEF DiscoveryInv, DiscoveryTyped, discoveryVars, D!RescansAreKept
<1>2. QED
  BY <1>1, DiscoveryStep

LEMMA RatesKeep == RatesInv /\ [C!Next]_rateVars => RatesInv'
<1>1. RatesInv /\ UNCHANGED rateVars => RatesInv'
  BY DEF RatesInv, RatesTyped, rateVars, PassedAt
<1>2. QED
  BY <1>1, RatesStep

LEMMA JournalKeeps == JournalInv /\ [J!Next]_journalVars => JournalInv'
<1>1. JournalInv /\ UNCHANGED journalVars => JournalInv'
  BY DEF JournalInv, journalVars, J!TypeOK
<1>2. QED
  BY <1>1, JournalStep

LEMMA AgentKeeps == AgentInv /\ [B!Next]_agentVars => AgentInv'
<1>1. AgentInv /\ UNCHANGED agentVars => AgentInv'
  BY DEF AgentInv, AgentPageInv, AgentBridgeInv, AgentReplied, agentVars
<1>2. QED
  BY <1>1, AgentStep

LEMMA ServicesStep == ServicesInv /\ [Next]_vars => ServicesInv'
  BY ServicesParts, UpdateKeeps, ScanKeeps, FleetKeeps, PageKeeps, ProbesKeep, DiscoveryKeeps, RatesKeep,
     JournalKeeps, BrokerKeeps, AgentKeeps, IndexKeeps
     DEF ServicesInv

LEMMA ServicesKeep == Spec => []ServicesInv
  BY ServicesInit, ServicesStep, PTL DEF Spec

(* A job that is shown as completed or failed is right about the           *)
(* installation, one update at a time, and the status of the scan is that  *)
(* of the scan, for any number of updates, requests, days and faults.      *)
THEOREM StatusStaysTrue == Spec => []StatusIsTrue
<1>1. ServicesInv => StatusIsTrue
  BY UpdateImplies DEF ServicesInv, ScanInv, StatusIsTrue
<1>2. QED
  BY <1>1, ServicesKeep, PTL

(* A node shown as online was heard of lately, a push is stored again only *)
(* across a restart of the hub and within the window, and none is confirmed*)
(* that was not stored: whatever the network does, however far the node's  *)
(* clock is off and whenever the hub is started again.                     *)
THEOREM PushesStayTrue == Spec => []PushesAreTrue
<1>1. ServicesInv => PushesAreTrue
  BY FleetImplies DEF ServicesInv, PushesAreTrue
<1>2. QED
  BY <1>1, ServicesKeep, PTL

(* The page shows the figures of the node it names, and no rate counts     *)
(* anything twice, with any number of nodes and of ticks at once.          *)
THEOREM FiguresStayTrue == Spec => []FiguresAreTrue
<1>1. ServicesInv => FiguresAreTrue
  BY RatesImply DEF ServicesInv, PageInv, FiguresAreTrue
<1>2. QED
  BY <1>1, ServicesKeep, PTL

(* No host runs more probes than both limits allow, whatever the limits are*)
(* and however relayed probes and its own are mixed.                       *)
THEOREM ProbesStayLimited == Spec => []ProbesAreLimited
<1>1. ServicesInv => ProbesAreLimited
  BY DEF ServicesInv, ProbesInv, ProbesAreLimited
<1>2. QED
  BY <1>1, ServicesKeep, PTL

(* A rescan that was asked for waits on the disk until a scan has begun    *)
(* after it, and what was switched off stays off unless a save has thrown  *)
(* that away, for any set of targets.                                      *)
THEOREM WishesAreKept == Spec => []DiscoveryKeepsWishes
<1>1. ServicesInv => DiscoveryKeepsWishes
  BY DiscoveryImplies DEF ServicesInv, DiscoveryKeepsWishes
<1>2. QED
  BY <1>1, ServicesKeep, PTL

(* An answer follows its own question in every page and in every chat that *)
(* is kept, and the agent works on one question at a time, trying no model *)
(* with a key twice and giving up only after all of them: for any number   *)
(* of pages, chats, models and keys, whatever is started again between.    *)
THEOREM AnswersStayInPlace == Spec => []AnswersFollowQuestions
<1>1. ServicesInv => AnswersFollowQuestions
  BY AgentImplies DEF ServicesInv, AnswersFollowQuestions
<1>2. QED
  BY <1>1, ServicesKeep, PTL

(* The index of the file system is in order, holds only what is there and  *)
(* misses nothing before its end; it says whether something is missing, and*)
(* all of it can be reached by browsing: for any file system and any limit *)
(* on its size and depth.                                                  *)
THEOREM IndexStaysComplete == Spec => []IndexIsComplete
<1>1. ServicesInv => IndexIsComplete
  BY IndexImplies DEF ServicesInv, IndexIsComplete
<1>2. QED
  BY <1>1, ServicesKeep, PTL

(* What bounds the guessing of approvals in one run of the broker by itself*)
(* bounds it here, over all rejections there ever were.                    *)
THEOREM GuessesStayBounded == Spec => []GuessesBounded
<1>1. ServicesInv => GuessesBounded
  BY BrokerImplies DEF ServicesInv, GuessesBounded
<1>2. QED
  BY <1>1, ServicesKeep, PTL

(* A scan only begins because it was asked for, or because its time has    *)
(* come, with any number of days and requests.                             *)
THEOREM ScansHaveTheirCause == Spec => ScansHaveACause
<1>1. ScanInv /\ S!Next /\ securityScan = "starting" /\ securityScan' = "begun" =>
        asked \/ (policy # "off" /\ (policy = "weekly" /\ status.finishedAt # S!Never =>
                                       day - status.finishedAt >= OfScans.Week))
  <2> SUFFICES ASSUME ScanInv, S!Next, securityScan = "starting", securityScan' = "begun"
               PROVE  asked \/ (policy # "off" /\ (policy = "weekly" /\ status.finishedAt # S!Never =>
                                                      day - status.finishedAt >= OfScans.Week))
    OBVIOUS
  <2>1. S!Decide
    BY DEF S!Next, S!startScan, S!Started, S!configureScan, S!cancelScan, S!Stopped, S!TimerFires,
           S!MarkRunning, S!SetTrap, S!Report, S!Conclude, S!Exit, S!Abort, S!NextDay
  <2>2. force \/ S!Due
    BY <2>1 DEF S!Decide
  <2>3. QED
    BY <2>2 DEF S!Due, ScanInv
<1>2. ServicesInv /\ [Next]_vars =>
        [securityScan = "starting" /\ securityScan' = "begun" =>
           asked \/ (policy # "off" /\ (policy = "weekly" /\ status.finishedAt # S!Never =>
                                          day - status.finishedAt >= OfScans.Week))]_(S!vars)
  BY <1>1, ServicesParts DEF ServicesInv, scanVars
<1>3. QED
  BY <1>2, ServicesKeep, PTL DEF Spec, ScansHaveACause, S!ScansHaveACause

(* What the journal verifies was written just like that, and appending     *)
(* keeps a whole chain whole and covers up no break, for any entries and   *)
(* any damage.                                                             *)
THEOREM JournalStaysTrue == Spec => JournalHolds
<1>1. ServicesInv => (part = "journal" => J!TypeOK /\ J!VerifiedIsHistory)
  BY JournalImplies DEF ServicesInv
<1>2. ServicesInv /\ [Next]_vars /\ J!Appended =>
        /\ J!ok /\ terminated => J!ok' /\ Len(lines') = Len(lines) + 1
        /\ ~J!ok => ~J!ok'
  <2> SUFFICES ASSUME ServicesInv, [Next]_vars, J!Appended
               PROVE  /\ J!ok /\ terminated => J!ok' /\ Len(lines') = Len(lines) + 1
                      /\ ~J!ok => ~J!ok'
    OBVIOUS
  <2>1. JournalInv
    BY DEF ServicesInv
  <2>2. ~UNCHANGED journalVars
    BY <2>1 DEF JournalInv, J!TypeOK, J!Appended, journalVars
  <2>3. J!Next
    BY <2>2, ServicesParts
  <2>4. QED
    BY <2>1, <2>3, JournalAppended, JournalAppends
<1>3. ServicesInv /\ [Next]_vars =>
        /\ [J!Appended /\ J!ok /\ terminated => J!ok' /\ Len(lines') = Len(lines) + 1]_(J!vars)
        /\ [J!Appended /\ ~J!ok => ~J!ok']_(J!vars)
  BY <1>2
<1>4. QED
  BY <1>1, <1>3, ServicesKeep, PTL DEF Spec, JournalHolds, J!AppendKeepsChain, J!BreakStays
=============================================================================
