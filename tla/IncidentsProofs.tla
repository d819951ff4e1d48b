--------------------------- MODULE IncidentsProofs ---------------------------
(***************************************************************************)
(* What holds of incidents and of what is told of them, for any set of     *)
(* causes, collectors, times and bounds.                                   *)
(***************************************************************************)
EXTENDS Incidents, SequenceTheorems, FiniteSetTheorems, WellFoundedInduction, TLAPS

(* Of the incidents of one cause only the latest is open, unless an older  *)
(* one was reopened: also when the latest is closed.  Otherwise reopening  *)
(* that one would leave two.                                               *)
IncidentInv ==
  \A i, j \in DOMAIN rows :
    i < j /\ rows[i].key = rows[j].key /\ rows[i].status # "resolved" => rows[i].reopened

ToldMessage == [message : Message, nth : Nat, at : Nat, confirmed : BOOLEAN]

LEMMA IncidentsNat ==
  /\ Keys \subseteq Nat /\ IsFiniteSet(Keys)
  /\ GRACE \in Nat /\ COOLDOWN \in Nat /\ MaxTime \in Nat
  /\ source \in [Keys -> Collectors]
  BY IncidentsAssumption

LEMMA Spent == ASSUME TypeOK, NEW what \in DOMAIN Limit, Spend(what) PROVE used' \in [DOMAIN Limit -> Nat]
  BY DEF TypeOK, Spend

LEMMA Bounds == "changes" \in DOMAIN Limit /\ "manual" \in DOMAIN Limit /\ "faults" \in DOMAIN Limit
  BY DEF Limit

(* A set of numbers up to some number has a greatest one.                  *)
LEMMA GreatestNumber ==
  ASSUME NEW n \in Nat, NEW S, S \subseteq 1..n, S # {}
  PROVE  Max(S) \in S
<1> DEFINE less == {p \in Nat \X Nat : p[1] < p[2]}
<1> DEFINE above == {m \in Nat : \A x \in S : x <= m}
<1>1. \A j, k \in Nat : j < k => <<j, k>> \in less
  OBVIOUS
<1>2. IsWellFoundedOn(less, Nat)
  BY NatLessThanWellFounded DEF OpToRel
<1>3. above # {} /\ above \subseteq Nat
  OBVIOUS
<1> HIDE DEF less, above
<1>4. PICK m \in above : \A k \in above : <<k, m>> \notin less
  BY <1>2, <1>3, WFMin
<1>5. m \in Nat /\ \A x \in S : x <= m
  BY <1>4 DEF above
<1>6. m \in S
  <2> SUFFICES ASSUME m \notin S PROVE FALSE
    OBVIOUS
  <2>1. \A x \in S : x \in Nat /\ x >= 1 /\ x <= m - 1
    BY <1>5
  <2>2. m - 1 \in Nat
    <3>1. PICK x \in S : TRUE
      OBVIOUS
    <3>2. x \in Nat /\ x >= 1 /\ x <= m - 1
      BY <2>1, <3>1
    <3>3. QED
      BY <1>5, <3>2
  <2>3. m - 1 \in above
    BY <2>1, <2>2 DEF above
  <2>4. <<m - 1, m>> \in less
    BY <1>1, <1>5, <2>2
  <2>5. QED
    BY <1>4, <2>3, <2>4
<1>7. \E x \in S : \A y \in S : x >= y
  BY <1>5, <1>6
<1>8. QED
  BY <1>7 DEF Max

LEMMA LatestOne ==
  ASSUME TypeOK, NEW k, Unresolved(k) # {}
  PROVE  Latest(k) \in Unresolved(k) /\ Latest(k) \in Nat
<1>1. Len(rows) \in Nat /\ DOMAIN rows = 1..Len(rows)
  BY DEF TypeOK
<1>2. Unresolved(k) \subseteq 1..Len(rows)
  BY <1>1 DEF Unresolved
<1>3. QED
  BY <1>1, <1>2, GreatestNumber DEF Latest

(* Alerts in their order are a sequence without repetitions.               *)
LEMMA Ordered ==
  ASSUME NEW a, NEW S \in SUBSET Keys, NEW s \in InOrder(a, S)
  PROVE  /\ s \in Seq(S) /\ Len(s) \in Nat /\ DOMAIN s = 1..Len(s)
         /\ \A n \in 1..Len(s) : s[n] \in S
         /\ \A m, n \in 1..Len(s) : s[m] = s[n] => m = n
         /\ \A k \in S : \E n \in 1..Len(s) : s[n] = k
<1>1. IsFiniteSet(S)
  BY IncidentsNat, FS_Subset
<1>2. Cardinality(S) \in Nat
  BY <1>1, FS_CardinalityType
<1>3. PICK c \in Nat : c = Cardinality(S)
  BY <1>2
<1>4. s \in [1..c -> S] /\ \A m, n \in 1..c : m < n => Before(a, s[m], s[n])
  BY <1>3 DEF InOrder
<1>5. s \in Seq(S) /\ Len(s) = c
  BY <1>4
<1>6. \A k \in S : ~Before(a, k, k)
  BY IncidentsNat DEF Before
<1>7. \A m, n \in 1..c : s[m] = s[n] => m = n
  BY <1>4, <1>6
<1>8. s \in Injection(1..c, S)
  BY <1>4, <1>7 DEF Injection, IsInjective
<1>9. s \in Surjection(1..c, S)
  BY <1>1, <1>3, <1>8, FS_Interval, FS_Injection
<1>10. QED
  BY <1>3, <1>4, <1>5, <1>7, <1>9 DEF Surjection

LEMMA OrderedOver ==
  ASSUME TypeOK, NEW a, NEW s \in Ascending(Over(a))
  PROVE  s \in Seq(DOMAIN rows) /\ Len(s) \in Nat /\ DOMAIN s = 1..Len(s)
         /\ \A n \in 1..Len(s) : s[n] \in DOMAIN rows
<1>1. Len(rows) \in Nat /\ DOMAIN rows = 1..Len(rows)
  BY DEF TypeOK
<1>2. Over(a) \subseteq 1..Len(rows) /\ IsFiniteSet(1..Len(rows))
  BY <1>1, FS_Interval DEF Over
<1>3. Cardinality(Over(a)) \in Nat
  BY <1>2, FS_Subset, FS_CardinalityType
<1>4. PICK c \in Nat : c = Cardinality(Over(a))
  BY <1>3
<1>5. s \in [1..c -> Over(a)]
  BY <1>4 DEF Ascending
<1>6. s \in [1..c -> 1..Len(rows)]
  BY <1>2, <1>5
<1>7. QED
  BY <1>1, <1>4, <1>6

-----------------------------------------------------------------------------
(* A pass over the table.                                                  *)

LEMMA RowTyped == ASSUME TypeOK, NEW i \in DOMAIN rows PROVE rows[i] \in Row
  BY ElementOfSeq DEF TypeOK

LEMMA SeqOf ==
  ASSUME NEW n \in Nat, NEW S, NEW s \in [1..n -> S]
  PROVE  s \in Seq(S) /\ Len(s) = n /\ DOMAIN s = 1..n
  OBVIOUS

LEMMA UpdatedRow ==
  ASSUME TypeOK, NEW a \in [Keys -> Level], NEW i \in DOMAIN rows
  PROVE  /\ Updated(a, i) \in Row
         /\ Updated(a, i).key = rows[i].key /\ Updated(a, i).reopened = rows[i].reopened
         /\ Updated(a, i).status # "resolved" => rows[i].status # "resolved"
<1>1. rows[i] \in Row /\ now \in Nat /\ a[rows[i].key] \in Level
  BY RowTyped DEF TypeOK, Row
<1>2. CASE rows[i].key \in Heard(a) /\ i \in Unresolved(rows[i].key) /\ i = Latest(rows[i].key)
  <2>1. Updated(a, i) = [rows[i] EXCEPT !.severity = a[rows[i].key], !.last_seen = now]
    <3>1. ~Quiet(a, i)
      BY <1>2 DEF Heard, Quiet
    <3>2. QED
      BY <3>1, <1>2 DEF Updated
  <2>2. a[rows[i].key] \in Severity
    BY <1>1, <1>2 DEF Heard, Level, Severity
  <2>3. QED
    BY <1>1, <2>1, <2>2 DEF Row
<1>3. CASE ~(rows[i].key \in Heard(a) /\ i \in Unresolved(rows[i].key) /\ i = Latest(rows[i].key))
  <2>1. Updated(a, i) = [rows[i] EXCEPT !.status = "resolved"] \/ Updated(a, i) = rows[i]
    BY <1>3 DEF Updated
  <2>2. "resolved" \in Status
    BY DEF Status
  <2>3. QED
    BY <1>1, <2>1, <2>2 DEF Row
<1>4. QED
  BY <1>2, <1>3

LEMMA OpenedRow ==
  ASSUME TypeOK, NEW a \in [Keys -> Level], NEW k \in New(a)
  PROVE  Opened(a, k) \in Row /\ Opened(a, k).key = k /\ k \in Keys /\ Unresolved(k) = {}
  BY DEF TypeOK, New, Heard, Opened, Row, Level, Severity, Status

LEMMA NewOrdered ==
  ASSUME NEW a, NEW new \in InOrder(a, New(a))
  PROVE  /\ new \in Seq(New(a)) /\ Len(new) \in Nat /\ DOMAIN new = 1..Len(new)
         /\ \A n \in 1..Len(new) : new[n] \in New(a)
         /\ \A m, n \in 1..Len(new) : new[m] = new[n] => m = n
<1> PICK S : S = New(a)
  OBVIOUS
<1>1. S \in SUBSET Keys /\ new \in InOrder(a, S)
  BY DEF New, Heard
<1>2. new \in Seq(S) /\ Len(new) \in Nat /\ DOMAIN new = 1..Len(new)
  BY <1>1, Ordered
<1>3. \A n \in 1..Len(new) : new[n] \in S
  BY <1>1, Ordered
<1>4. \A m, n \in 1..Len(new) : new[m] = new[n] => m = n
  BY <1>1, Ordered
<1>5. QED
  BY <1>2, <1>3, <1>4

\* The table and the events of a pass, one after the other.
LEMMA SyncTable ==
  ASSUME TypeOK, NEW a \in [Keys -> Level], NEW new \in InOrder(a, New(a)),
         rows' = [i \in DOMAIN rows |-> Updated(a, i)] \o [n \in DOMAIN new |-> Opened(a, new[n])]
  PROVE  /\ rows' \in Seq(Row) /\ Len(rows') = Len(rows) + Len(new) /\ Len(new) \in Nat
         /\ \A i \in 1..Len(rows) : rows'[i] = Updated(a, i)
         /\ \A i \in (Len(rows) + 1)..Len(rows') :
              rows'[i] = Opened(a, new[i - Len(rows)]) /\ new[i - Len(rows)] \in New(a)
         /\ \A i, j \in (Len(rows) + 1)..Len(rows') : i # j => rows'[i].key # rows'[j].key
<1>1. Len(rows) \in Nat /\ DOMAIN rows = 1..Len(rows)
  BY DEF TypeOK
<1>2. New(a) \subseteq Keys
  BY DEF New, Heard
<1>3. /\ new \in Seq(New(a)) /\ Len(new) \in Nat /\ DOMAIN new = 1..Len(new)
      /\ \A n \in 1..Len(new) : new[n] \in New(a)
      /\ \A m, n \in 1..Len(new) : new[m] = new[n] => m = n
  BY NewOrdered
<1>4. PICK s : s = [i \in 1..Len(rows) |-> Updated(a, i)]
  OBVIOUS
<1>5. PICK t : t = [n \in 1..Len(new) |-> Opened(a, new[n])]
  OBVIOUS
<1>6. s \in [1..Len(rows) -> Row] /\ t \in [1..Len(new) -> Row]
  BY <1>1, <1>3, <1>4, <1>5, UpdatedRow, OpenedRow
<1>7. s \in Seq(Row) /\ Len(s) = Len(rows) /\ t \in Seq(Row) /\ Len(t) = Len(new)
  BY <1>1, <1>3, <1>6, SeqOf
<1>8. rows' = s \o t
  BY <1>1, <1>3, <1>4, <1>5
<1>9. /\ rows' \in Seq(Row) /\ Len(rows') = Len(rows) + Len(new)
      /\ \A i \in 1..Len(rows) + Len(new) : rows'[i] = IF i <= Len(rows) THEN s[i] ELSE t[i - Len(rows)]
  <2>1. /\ s \o t \in Seq(Row) /\ Len(s \o t) = Len(s) + Len(t)
        /\ \A i \in 1..Len(s) + Len(t) : (s \o t)[i] = IF i <= Len(s) THEN s[i] ELSE t[i - Len(s)]
    BY <1>7, ConcatProperties
  <2>2. QED
    BY <2>1, <1>7, <1>8
<1>10. \A i \in 1..Len(rows) : rows'[i] = Updated(a, i)
  BY <1>1, <1>3, <1>4, <1>9
<1>11. ASSUME NEW i \in (Len(rows) + 1)..Len(rows')
       PROVE  /\ i - Len(rows) \in 1..Len(new)
              /\ rows'[i] = Opened(a, new[i - Len(rows)]) /\ new[i - Len(rows)] \in New(a)
  BY <1>1, <1>3, <1>5, <1>9
<1>12. ASSUME NEW i \in (Len(rows) + 1)..Len(rows'), NEW j \in (Len(rows) + 1)..Len(rows'), i # j
       PROVE  rows'[i].key # rows'[j].key
  <2>1. new[i - Len(rows)] # new[j - Len(rows)]
    BY <1>1, <1>3, <1>9, <1>11, <1>12
  <2>2. rows'[i].key = new[i - Len(rows)] /\ rows'[j].key = new[j - Len(rows)]
    <3>1. \A k \in New(a) : Opened(a, k).key = k
      BY <1>2, OpenedRow
    <3>2. QED
      BY <3>1, <1>11
  <2>3. QED
    BY <2>1, <2>2
<1>13. QED
  BY <1>3, <1>9, <1>10, <1>11, <1>12

LEMMA SyncRows ==
  ASSUME TypeOK, IncidentInv, NEW a \in [Keys -> Level], NEW new \in InOrder(a, New(a)),
         rows' = [i \in DOMAIN rows |-> Updated(a, i)] \o [n \in DOMAIN new |-> Opened(a, new[n])]
  PROVE  IncidentInv'
<1>1. Len(rows) \in Nat /\ DOMAIN rows = 1..Len(rows)
  BY DEF TypeOK
<1>2. /\ rows' \in Seq(Row) /\ Len(rows') = Len(rows) + Len(new) /\ Len(new) \in Nat
      /\ \A i \in 1..Len(rows) : rows'[i] = Updated(a, i)
      /\ \A i \in (Len(rows) + 1)..Len(rows') :
           rows'[i] = Opened(a, new[i - Len(rows)]) /\ new[i - Len(rows)] \in New(a)
      /\ \A i, j \in (Len(rows) + 1)..Len(rows') : i # j => rows'[i].key # rows'[j].key
  BY SyncTable
<1>3. SUFFICES ASSUME NEW i \in 1..Len(rows'), NEW j \in 1..Len(rows'), i < j,
                      rows'[i].key = rows'[j].key, rows'[i].status # "resolved"
               PROVE  rows'[i].reopened
  <2>1. DOMAIN rows' = 1..Len(rows')
    BY <1>2
  <2>2. QED
    BY <2>1 DEF IncidentInv
<1>4. i \in 1..Len(rows)
  BY <1>1, <1>2, <1>3
<1>5. /\ rows'[i].key = rows[i].key /\ rows'[i].reopened = rows[i].reopened
      /\ rows[i].status # "resolved"
  <2>1. i \in DOMAIN rows /\ rows'[i] = Updated(a, i)
    BY <1>1, <1>2, <1>4
  <2>2. QED
    BY <2>1, <1>3, UpdatedRow
<1>6. CASE j \in 1..Len(rows)
  <2>1. rows'[j].key = rows[j].key
    <3>1. j \in DOMAIN rows /\ rows'[j] = Updated(a, j)
      BY <1>1, <1>2, <1>6
    <3>2. QED
      BY <3>1, UpdatedRow
  <2>2. QED
    BY <2>1, <1>1, <1>3, <1>4, <1>5, <1>6 DEF IncidentInv
<1>7. CASE j \notin 1..Len(rows)
  <2>1. j \in (Len(rows) + 1)..Len(rows')
    BY <1>1, <1>2, <1>7
  <2>2. PICK k \in New(a) : rows'[j] = Opened(a, k)
    BY <1>2, <2>1
  <2>3. rows'[j].key = k /\ Unresolved(k) = {}
    BY <2>2, OpenedRow
  <2>4. i \in Unresolved(k)
    BY <2>3, <1>1, <1>3, <1>4, <1>5 DEF Unresolved
  <2>5. QED
    BY <2>3, <2>4
<1>8. QED
  BY <1>6, <1>7

(* Events as a pass tells them: in order, none looked at before its turn.  *)
Telling(p, from, to) ==
  /\ p \in Seq(Event)
  /\ \A n \in 1..Len(p) : from < p[n].nth /\ p[n].nth <= to
  /\ \A m, n \in 1..Len(p) : m < n => p[m].nth < p[n].nth
  /\ \A n \in 2..Len(p) : p[n].at = "new"

LEMMA HappenedEvent ==
  ASSUME TypeOK, NEW type \in Type, NEW id \in Nat, NEW severity \in Severity, NEW n \in Nat
  PROVE  /\ Happened(type, id, severity, n) \in Event
         /\ Happened(type, id, severity, n).nth = happened + n
         /\ Happened(type, id, severity, n).at = "new"
  BY DEF TypeOK, Happened, Event

LEMMA WorsenedEvent ==
  ASSUME TypeOK, NEW a \in [Keys -> Level], NEW new \in InOrder(a, New(a)), NEW k \in Worse(a), NEW n \in Nat
  PROVE  /\ Worsened(a, new, k, n) \in Event
         /\ Worsened(a, new, k, n).nth = happened + n
         /\ Worsened(a, new, k, n).at = "new"
<1>1. k \in Keys /\ a[k] \in Severity
  BY DEF Worse, New, Heard, Level, Severity
<1>2. Len(rows) \in Nat
  BY DEF TypeOK
<1>3. "opened" \in Type /\ "escalated" \in Type
  BY DEF Type
<1>4. CASE k \in New(a)
  <2>1. New(a) \in SUBSET Keys
    BY DEF New, Heard
  <2>2. DOMAIN new = 1..Len(new) /\ Len(new) \in Nat /\ \E m \in 1..Len(new) : new[m] = k
    BY <2>1, <1>4, Ordered
  <2>3. PICK m : m = CHOOSE o \in DOMAIN new : new[o] = k
    OBVIOUS
  <2>4. m \in Nat
    BY <2>2, <2>3
  <2>5. Worsened(a, new, k, n) = Happened("opened", Len(rows) + m, a[k], n)
    BY <2>3, <1>4 DEF Worsened
  <2>6. Len(rows) + m \in Nat
    BY <2>4, <1>2
  <2>7. QED
    BY <2>5, <2>6, <1>1, <1>3, HappenedEvent
<1>5. CASE k \notin New(a)
  <2>1. Unresolved(k) # {}
    BY <1>5 DEF Worse, New
  <2>2. Latest(k) \in Nat
    BY <2>1, LatestOne
  <2>3. Worsened(a, new, k, n) = Happened("escalated", Latest(k), a[k], n)
    BY <1>5 DEF Worsened
  <2>4. QED
    BY <2>2, <2>3, <1>1, <1>3, HappenedEvent
<1>6. QED
  BY <1>4, <1>5

LEMMA SyncEvents ==
  ASSUME TypeOK, NEW a \in [Keys -> Level], NEW new \in InOrder(a, New(a)), NEW worse \in InOrder(a, Worse(a)),
         NEW over \in Ascending(Over(a)), NEW events,
         events = [n \in DOMAIN worse |-> Worsened(a, new, worse[n], n)]
                  \o [n \in DOMAIN over |-> Happened("resolved", over[n], rows[over[n]].severity, Len(worse) + n)]
  PROVE  Len(events) \in Nat /\ Telling(events, happened, happened + Len(events))
         /\ (events # <<>> => events[1].at = "new")
<1>1. /\ DOMAIN worse = 1..Len(worse) /\ Len(worse) \in Nat
      /\ \A n \in 1..Len(worse) : worse[n] \in Worse(a)
  <2>1. Worse(a) \in SUBSET Keys
    BY DEF Worse, New, Heard
  <2>2. QED
    BY <2>1, Ordered
<1>2. /\ DOMAIN over = 1..Len(over) /\ Len(over) \in Nat
      /\ \A n \in 1..Len(over) : over[n] \in DOMAIN rows
  BY OrderedOver
<1>3. PICK s : s = [n \in 1..Len(worse) |-> Worsened(a, new, worse[n], n)]
  OBVIOUS
<1>4. PICK t : t = [n \in 1..Len(over) |-> Happened("resolved", over[n], rows[over[n]].severity, Len(worse) + n)]
  OBVIOUS
<1>5. \A n \in 1..Len(worse) : s[n] \in Event /\ s[n].nth = happened + n /\ s[n].at = "new"
  BY <1>1, <1>3, WorsenedEvent
<1>6. ASSUME NEW n \in 1..Len(over)
      PROVE  t[n] \in Event /\ t[n].nth = happened + (Len(worse) + n) /\ t[n].at = "new"
  <2>1. over[n] \in DOMAIN rows /\ DOMAIN rows = 1..Len(rows) /\ Len(rows) \in Nat
    BY <1>2 DEF TypeOK
  <2>2. over[n] \in Nat /\ rows[over[n]].severity \in Severity
    BY <2>1, RowTyped DEF Row
  <2>3. Len(worse) + n \in Nat /\ "resolved" \in Type
    BY <1>1, <1>2 DEF Type
  <2>4. QED
    BY <2>2, <2>3, <1>4, HappenedEvent
<1>7. s \in [1..Len(worse) -> Event] /\ t \in [1..Len(over) -> Event]
  BY <1>3, <1>4, <1>5, <1>6
<1>8. s \in Seq(Event) /\ Len(s) = Len(worse) /\ t \in Seq(Event) /\ Len(t) = Len(over)
  BY <1>1, <1>2, <1>7, SeqOf
<1>9. events = s \o t
  BY <1>1, <1>2, <1>3, <1>4
<1>10. /\ events \in Seq(Event) /\ Len(events) = Len(worse) + Len(over)
       /\ \A n \in 1..Len(worse) + Len(over) : events[n] = IF n <= Len(worse) THEN s[n] ELSE t[n - Len(worse)]
  <2>1. /\ s \o t \in Seq(Event) /\ Len(s \o t) = Len(s) + Len(t)
        /\ \A n \in 1..Len(s) + Len(t) : (s \o t)[n] = IF n <= Len(s) THEN s[n] ELSE t[n - Len(s)]
    BY <1>8, ConcatProperties
  <2>2. QED
    BY <2>1, <1>8, <1>9
<1>11. happened \in Nat
  BY DEF TypeOK
<1>12. ASSUME NEW n \in 1..Len(events)
       PROVE  events[n].nth = happened + n /\ events[n].at = "new"
  <2>1. CASE n <= Len(worse)
    <3>1. n \in 1..Len(worse) /\ events[n] = s[n]
      <4>1. n \in Nat /\ n >= 1 /\ n <= Len(worse) + Len(over)
        BY <1>1, <1>2, <1>10
      <4>2. QED
        BY ONLY <4>1, <2>1, <1>1, <1>2, <1>10
    <3>2. QED
      BY <3>1, <1>5
  <2>2. CASE ~(n <= Len(worse))
    <3>1. n - Len(worse) \in 1..Len(over) /\ events[n] = t[n - Len(worse)]
      BY <2>2, <1>1, <1>2, <1>10, <1>12
    <3>2. QED
      BY <3>1, <1>1, <1>6
  <2>3. QED
    BY <2>1, <2>2
<1>13. Len(events) \in Nat
  BY <1>1, <1>2, <1>10
<1>14. events # <<>> => 1 \in 1..Len(events)
  BY <1>10, <1>13, EmptySeq
<1>15. /\ \A n \in 1..Len(events) : happened < events[n].nth /\ events[n].nth <= happened + Len(events)
       /\ \A m, n \in 1..Len(events) : m < n => events[m].nth < events[n].nth
       /\ \A n \in 2..Len(events) : events[n].at = "new"
  <2>1. \A n \in 1..Len(events) : events[n].nth = happened + n /\ events[n].at = "new"
    BY <1>12
  <2>2. PICK c \in Nat : c = Len(events)
    BY <1>13
  <2>3. /\ \A n \in 1..c : happened < happened + n /\ happened + n <= happened + c
        /\ \A m, n \in 1..c : m < n => happened + m < happened + n
        /\ 2..c \subseteq 1..c
    BY <1>11
  <2>4. QED
    BY ONLY <2>1, <2>2, <2>3
<1>16. QED
  BY <1>10, <1>12, <1>13, <1>14, <1>15 DEF Telling

-----------------------------------------------------------------------------
(* Telling.                                                                *)

\* A pass that may go on: nothing later was told, and nothing that is being sent was sent lately.
PassOK(p, h, messages, remembered, t) ==
  /\ p # <<>> /\ Telling(p, 0, h)
  /\ \A n \in DOMAIN messages : messages[n].nth <= p[1].nth
  /\ p[1].at = "sending" =>
       \A s \in remembered : s.message = MessageOf(p[1]) => s.at + COOLDOWN <= t

(* One pass tells at a time; what was confirmed is remembered with the time*)
(* of the last time it was.                                                *)
MessageInv ==
  /\ \A p, q \in passes : p = q
  /\ \A p \in passes : PassOK(p, happened, told, recent, now)
  /\ \A n \in DOMAIN told : told[n].nth <= happened /\ told[n].at <= now
  /\ \A n \in DOMAIN told : told[n].confirmed =>
       \E s \in recent : s.message = told[n].message /\ told[n].at <= s.at
  /\ ToldInOrder /\ NoRepeats

LEMMA EventTyped == ASSUME NEW q \in Seq(Event), NEW n \in 1..Len(q) PROVE q[n] \in Event /\ q[n].nth \in Nat
<1>1. q[n] \in Event
  BY ElementOfSeq
<1>2. QED
  BY <1>1 DEF Event

LEMMA ToldTyped ==
  ASSUME TypeOK
  PROVE  \A n \in DOMAIN told : told[n] \in ToldMessage /\ told[n].nth \in Nat
<1>1. told \in Seq(ToldMessage)
  BY DEF TypeOK, ToldMessage
<1>2. \A n \in DOMAIN told : told[n] \in ToldMessage
  BY <1>1, ElementOfSeq
<1>3. QED
  BY <1>2 DEF ToldMessage

LEMMA PassTyped ==
  ASSUME TypeOK, MessageInv, NEW p \in passes
  PROVE  /\ p \in Seq(Event) /\ p # <<>> /\ Len(p) \in Nat /\ Len(p) >= 1 /\ DOMAIN p = 1..Len(p)
         /\ Head(p) = p[1] /\ p[1] \in Event /\ passes = {p}
         /\ Telling(p, 0, happened) /\ PassOK(p, happened, told, recent, now)
<1>1. p \in Seq(Event) /\ p # <<>>
  BY DEF TypeOK
<1>2. Len(p) \in Nat \ {0} /\ DOMAIN p = 1..Len(p)
  BY <1>1, EmptySeq
<1>3. p[1] \in Event
  BY <1>1, <1>2, ElementOfSeq
<1>4. passes = {p} /\ PassOK(p, happened, told, recent, now)
  BY DEF MessageInv
<1>5. Telling(p, 0, happened)
  BY <1>4 DEF PassOK
<1>6. QED
  BY <1>1, <1>2, <1>3, <1>4, <1>5

LEMMA NextOf ==
  ASSUME TypeOK, MessageInv, NEW p \in passes, NextEvent(p)
  PROVE  /\ \A q, r \in passes' : q = r
         /\ \A q \in passes' : /\ q # <<>> /\ Telling(q, 0, happened)
                               /\ q[1].at = "new" /\ p[1].nth < q[1].nth
<1>1. /\ p \in Seq(Event) /\ p # <<>> /\ Len(p) \in Nat /\ Len(p) >= 1 /\ DOMAIN p = 1..Len(p)
      /\ passes = {p} /\ Telling(p, 0, happened)
  BY PassTyped
<1>2. PICK t : t = Tail(p)
  OBVIOUS
<1>3. t \in Seq(Event) /\ Len(t) = Len(p) - 1 /\ \A n \in 1..Len(t) : t[n] = p[n + 1]
  BY <1>1, <1>2
<1>4. passes' = {t} \ {<<>>}
  BY <1>1, <1>2 DEF NextEvent
<1>5. Telling(t, 0, happened)
  <2>1. \A n \in 1..Len(t) : n + 1 \in 1..Len(p) /\ n + 1 \in 2..Len(p) /\ t[n] = p[n + 1]
    BY <1>1, <1>3
  <2>2. \A n \in 1..Len(t) : 0 < t[n].nth /\ t[n].nth <= happened /\ t[n].at = "new"
    BY <2>1, <1>1 DEF Telling
  <2>3. ASSUME NEW m \in 1..Len(t), NEW n \in 1..Len(t), m < n PROVE t[m].nth < t[n].nth
    <3>1. m + 1 < n + 1
      BY <2>3, <1>1, <1>3
    <3>2. QED
      BY <3>1, <2>1, <1>1 DEF Telling
  <2>4. 2..Len(t) \subseteq 1..Len(t)
    BY <1>1, <1>3
  <2>5. QED
    BY <1>3, <2>2, <2>3, <2>4 DEF Telling
<1>6. ASSUME t # <<>> PROVE t[1].at = "new" /\ p[1].nth < t[1].nth
  <2>1. Len(t) >= 1 /\ Len(p) >= 2
    BY <1>1, <1>3, <1>6, EmptySeq
  <2>2. t[1] = p[2] /\ 1 \in 1..Len(p) /\ 2 \in 1..Len(p) /\ 2 \in 2..Len(p)
    BY <2>1, <1>1, <1>3
  <2>3. QED
    BY <2>2, <1>1 DEF Telling
<1>7. QED
  BY <1>4, <1>5, <1>6

LEMMA MoveOf ==
  ASSUME TypeOK, MessageInv, NEW p \in passes, NEW to \in {"ready", "sending"}, MoveTo(p, to)
  PROVE  /\ \A q, r \in passes' : q = r
         /\ \A q \in passes' : /\ q # <<>> /\ Telling(q, 0, happened)
                               /\ q[1].at = to /\ q[1].nth = p[1].nth /\ MessageOf(q[1]) = MessageOf(p[1])
<1>1. /\ p \in Seq(Event) /\ p # <<>> /\ Len(p) \in Nat /\ Len(p) >= 1 /\ DOMAIN p = 1..Len(p)
      /\ passes = {p} /\ Telling(p, 0, happened) /\ p[1] \in Event
  BY PassTyped
<1>2. PICK e : e = [p[1] EXCEPT !.at = to]
  OBVIOUS
<1>3. /\ e \in Event /\ e.at = to /\ e.nth = p[1].nth /\ e.type = p[1].type /\ e.id = p[1].id
      /\ e.severity = p[1].severity
  BY <1>1, <1>2 DEF Event
<1>4. PICK q : q = [p EXCEPT ![1] = e]
  OBVIOUS
<1>5. q \in Seq(Event) /\ Len(q) = Len(p) /\ q[1] = e /\ \A n \in 2..Len(p) : q[n] = p[n]
  BY <1>1, <1>3, <1>4
<1>6. passes' = {q}
  BY <1>1, <1>2, <1>4 DEF MoveTo
<1>7. \A n \in 1..Len(p) : q[n].nth = p[n].nth
  BY <1>1, <1>3, <1>5
<1>8. Telling(q, 0, happened)
  BY <1>1, <1>5, <1>7 DEF Telling
<1>9. q # <<>>
  BY <1>1, <1>5, EmptySeq
<1>10. QED
  BY <1>3, <1>5, <1>6, <1>8, <1>9 DEF MessageOf

LEMMA ToldStays ==
  ASSUME TypeOK, MessageInv, UNCHANGED <<recent, told>>, now' \in Nat, now <= now',
         happened' \in Nat, happened <= happened',
         \A p, q \in passes' : p = q,
         \A p \in passes' : PassOK(p, happened', told, recent, now')
  PROVE  MessageInv'
<1>1. \A p \in passes' : PassOK(p, happened', told', recent', now')
  OBVIOUS
<1>2. Len(told) \in Nat /\ DOMAIN told = 1..Len(told) /\ \A n \in DOMAIN told : told[n] \in ToldMessage
  <2>1. told \in Seq(ToldMessage)
    BY DEF TypeOK, ToldMessage
  <2>2. QED
    BY <2>1, ElementOfSeq
<1>3. \A n \in DOMAIN told : told[n].nth <= happened' /\ told[n].at <= now'
  BY <1>2 DEF MessageInv, TypeOK, ToldMessage
<1>4. QED
  BY <1>1, <1>3 DEF MessageInv, PassOK, ToldInOrder, NoRepeats

LEMMA ToldMore ==
  ASSUME TypeOK, MessageInv, NEW p \in passes, Head(p).at = "sending",
         NEW confirmed \in BOOLEAN, Delivered(p, confirmed), UNCHANGED <<now, happened>>,
         \A n \in DOMAIN told : told[n].confirmed =>
           \E s \in recent' : s.message = told[n].message /\ told[n].at <= s.at,
         confirmed => \E s \in recent' : s.message = MessageOf(p[1]) /\ now <= s.at,
         \A q, r \in passes' : q = r,
         \A q \in passes' :
           /\ q # <<>> /\ Telling(q, 0, happened) /\ p[1].nth <= q[1].nth
           /\ q[1].at = "sending" => q = p /\ recent' = recent
  PROVE  MessageInv' /\ told' \in Seq(ToldMessage)
<1>1. /\ p \in Seq(Event) /\ p # <<>> /\ p[1] \in Event /\ Head(p) = p[1]
      /\ PassOK(p, happened, told, recent, now) /\ 1 \in 1..Len(p)
      /\ Telling(p, 0, happened)
  BY PassTyped
<1>2. PICK m : m = [message |-> MessageOf(p[1]), nth |-> p[1].nth, at |-> now, confirmed |-> confirmed]
  OBVIOUS
<1>3. told' = Append(told, m)
  BY <1>1, <1>2 DEF Delivered
<1>4. m \in ToldMessage /\ told \in Seq(ToldMessage) /\ now \in Nat /\ happened \in Nat
  BY <1>1, <1>2 DEF ToldMessage, TypeOK, Event, Message, MessageOf
<1>5. /\ told' \in Seq(ToldMessage) /\ Len(told) \in Nat /\ Len(told') = Len(told) + 1
      /\ DOMAIN told = 1..Len(told) /\ DOMAIN told' = 1..Len(told')
      /\ told'[Len(told')] = m /\ \A n \in 1..Len(told) : told'[n] = told[n]
  BY <1>3, <1>4
<1>6. \A n \in 1..Len(told) : told[n] \in ToldMessage
  BY <1>4, ElementOfSeq
<1>7. \A n \in DOMAIN told' : n = Len(told') \/ n \in 1..Len(told)
  BY <1>5
<1>8. m.nth <= happened /\ m.at <= now
  BY <1>1, <1>2, <1>4 DEF Telling
<1>9. \A n \in 1..Len(told) : told[n].nth <= m.nth
  BY <1>1, <1>2, <1>5 DEF PassOK
<1>10. ASSUME NEW q \in passes' PROVE PassOK(q, happened', told', recent', now')
  <2>1. q[1].nth \in Nat /\ m.nth \in Nat /\ m.nth <= q[1].nth
    <3>1. q \in Seq(Event) /\ q # <<>>
      BY DEF Telling
    <3>2. 1 \in 1..Len(q)
      BY <3>1, EmptySeq
    <3>3. q[1] \in Event
      BY <3>1, <3>2, ElementOfSeq
    <3>4. QED
      BY <3>3, <1>2, <1>4 DEF Event, ToldMessage
  <2>2. \A n \in DOMAIN told' : told'[n].nth <= q[1].nth
    <3>1. \A n \in 1..Len(told) : told[n].nth \in Nat /\ told[n].nth <= m.nth
      BY <1>6, <1>9 DEF ToldMessage
    <3>2. \A n \in 1..Len(told) : told[n].nth <= q[1].nth
      BY <2>1, <3>1
    <3>3. ASSUME NEW n \in DOMAIN told' PROVE told'[n].nth <= q[1].nth
      BY <3>2, <2>1, <1>5, <1>7
    <3>4. QED
      BY <3>3
  <2>3. q[1].at = "sending" =>
          \A s \in recent' : s.message = MessageOf(q[1]) => s.at + COOLDOWN <= now'
    BY <1>1 DEF PassOK
  <2>4. QED
    BY <2>2, <2>3 DEF PassOK
<1>11. ToldInOrder'
  <2> SUFFICES ASSUME NEW i \in DOMAIN told', NEW j \in DOMAIN told', i < j
               PROVE  told'[i].nth <= told'[j].nth
    BY DEF ToldInOrder
  <2>1. i \in 1..Len(told)
    BY <1>5
  <2>2. CASE j = Len(told')
    BY <2>1, <2>2, <1>5, <1>9
  <2>3. CASE j \in 1..Len(told)
    BY <2>1, <2>3, <1>5 DEF MessageInv, ToldInOrder
  <2>4. QED
    BY <2>2, <2>3, <1>7
<1>12. NoRepeats'
  <2> SUFFICES ASSUME NEW i \in DOMAIN told', NEW j \in DOMAIN told', i < j,
                      told'[i].confirmed, told'[i].message = told'[j].message
               PROVE  told'[j].at >= told'[i].at + COOLDOWN
    BY DEF NoRepeats
  <2>1. i \in 1..Len(told) /\ told'[i] = told[i]
    BY <1>5
  <2>2. CASE j = Len(told')
    <3>1. told[i].message = MessageOf(p[1]) /\ told'[j].at = now
      BY <2>1, <2>2, <1>2, <1>5
    <3>2. PICK s \in recent : s.message = told[i].message /\ told[i].at <= s.at
      BY <2>1, <1>5 DEF MessageInv
    <3>3. s.at + COOLDOWN <= now
      BY <3>1, <3>2, <1>1 DEF PassOK
    <3>4. s.at \in Nat /\ told[i].at \in Nat
      BY <2>1, <1>6 DEF TypeOK, ToldMessage
    <3>5. QED
      BY <2>1, <3>1, <3>2, <3>3, <3>4, <1>4, IncidentsNat
  <2>3. CASE j \in 1..Len(told)
    BY <2>1, <2>3, <1>5 DEF MessageInv, NoRepeats
  <2>4. QED
    BY <2>2, <2>3, <1>7
<1>13. \A n \in DOMAIN told' : told'[n].nth <= happened' /\ told'[n].at <= now'
  BY <1>5, <1>7, <1>8 DEF MessageInv
<1>14. \A n \in DOMAIN told' : told'[n].confirmed =>
         \E s \in recent' : s.message = told'[n].message /\ told'[n].at <= s.at
  BY <1>2, <1>5, <1>7
<1>15. QED
  BY <1>5, <1>10, <1>11, <1>12, <1>13, <1>14 DEF MessageInv

-----------------------------------------------------------------------------
(* Every step.                                                             *)

IncidentsInv == TypeOK /\ IncidentInv /\ MessageInv

LEMMA IncidentsInit == Init => IncidentsInv
<1> SUFFICES ASSUME Init PROVE IncidentsInv
  OBVIOUS
<1>1. /\ now = 0 /\ alerts = [k \in Keys |-> "none"] /\ rows = <<>> /\ passes = {} /\ recent = {}
      /\ happened = 0 /\ told = <<>>
      /\ used = [changes |-> 0, manual |-> 0, faults |-> 0]
  BY DEF Init, Silence
<1>2. alerts \in [Keys -> Level] /\ used \in [DOMAIN Limit -> Nat]
  BY <1>1 DEF Level, Limit
<1>3. TypeOK
  BY <1>1, <1>2 DEF TypeOK
<1>4. IncidentInv /\ MessageInv
  BY <1>1 DEF IncidentInv, MessageInv, ToldInOrder, NoRepeats
<1>5. QED
  BY <1>3, <1>4 DEF IncidentsInv

\* The types of what a step of telling may change.
LEMMA TellTyped ==
  ASSUME TypeOK, UNCHANGED <<now, alerts, rows, happened>>, MessageInv',
         recent' \subseteq [message : Message, at : Nat], told' \in Seq(ToldMessage),
         used' \in [DOMAIN Limit -> Nat]
  PROVE  TypeOK'
<1>1. \A p \in passes' : p \in Seq(Event) /\ p # <<>>
  BY DEF MessageInv, PassOK, Telling
<1>2. QED
  BY <1>1 DEF TypeOK, ToldMessage

LEMMA RowsStay == ASSUME IncidentInv, UNCHANGED rows PROVE IncidentInv'
  BY DEF IncidentInv

LEMMA IncidentsTick == ASSUME IncidentsInv, Tick PROVE IncidentsInv'
<1>1. /\ now' = now + 1 /\ UNCHANGED <<alerts, rows, passes, recent, happened, told, used>>
      /\ now \in Nat /\ happened \in Nat /\ TypeOK /\ MessageInv /\ IncidentInv
  BY DEF Tick, IncidentsInv, TypeOK
<1>2. TypeOK'
  BY <1>1 DEF TypeOK
<1>3. ASSUME NEW p \in passes PROVE PassOK(p, happened, told, recent, now')
  <2>1. PassOK(p, happened, told, recent, now)
    BY <1>1 DEF MessageInv
  <2>2. \A s \in recent : s.at + COOLDOWN <= now => s.at + COOLDOWN <= now'
    BY <1>1, IncidentsNat DEF TypeOK
  <2>3. QED
    BY <2>1, <2>2 DEF PassOK
<1>4. now' \in Nat /\ now <= now' /\ happened <= happened' /\ happened' \in Nat
  BY <1>1
<1>5. MessageInv'
  BY <1>1, <1>3, <1>4, ToldStays DEF MessageInv
<1>6. QED
  BY <1>1, <1>2, <1>5, RowsStay DEF IncidentsInv

LEMMA FindingsTyped == ASSUME TypeOK, NEW c, NEW a \in Findings(c) PROVE a \in [Keys -> Level]
<1>1. PICK m \in [{k \in Keys : source[k] = c} -> Level] :
        a = [k \in Keys |-> IF source[k] = c THEN m[k] ELSE alerts[k]]
  BY DEF Findings
<1>2. \A k \in Keys : (IF source[k] = c THEN m[k] ELSE alerts[k]) \in Level
  BY DEF TypeOK
<1>3. QED
  BY <1>1, <1>2

LEMMA EvaluateTyped ==
  ASSUME TypeOK, NEW a, Evaluate(a) PROVE used' \in [DOMAIN Limit -> Nat]
  BY Spent, Bounds DEF Evaluate, TypeOK

LEMMA IncidentsFast == ASSUME IncidentsInv, fastTick PROVE IncidentsInv'
<1>1. PICK a \in Findings("fast") : Evaluate(a) /\ UNCHANGED <<rows, happened, passes>>
  BY DEF fastTick
<1>2. a \in [Keys -> Level] /\ used' \in [DOMAIN Limit -> Nat]
  BY <1>1, FindingsTyped, EvaluateTyped DEF IncidentsInv
<1>3. alerts' = a /\ UNCHANGED <<now, recent, told, rows, happened, passes>>
  BY <1>1 DEF Evaluate
<1>4. TypeOK'
  BY <1>2, <1>3 DEF IncidentsInv, TypeOK
<1>5. MessageInv'
  BY <1>3 DEF IncidentsInv, MessageInv, ToldInOrder, NoRepeats
<1>6. QED
  BY <1>3, <1>4, <1>5, RowsStay DEF IncidentsInv

LEMMA IncidentsSync ==
  ASSUME IncidentsInv, NEW a \in [Keys -> Level], Evaluate(a), passes = {}, syncIncidents(a)
  PROVE  IncidentsInv'
<1>1. TypeOK /\ IncidentInv /\ MessageInv
  BY DEF IncidentsInv
<1>2. PICK new \in InOrder(a, New(a)), worse \in InOrder(a, Worse(a)), over \in Ascending(Over(a)) :
        LET events == [n \in DOMAIN worse |-> Worsened(a, new, worse[n], n)]
                      \o [n \in DOMAIN over |-> Happened("resolved", over[n], rows[over[n]].severity,
                                                          Len(worse) + n)]
        IN  /\ rows' = [i \in DOMAIN rows |-> Updated(a, i)] \o [n \in DOMAIN new |-> Opened(a, new[n])]
            /\ happened' = happened + Len(events)
            /\ passes' = {events} \ {<<>>}
  BY DEF syncIncidents
<1>3. PICK events :
        events = [n \in DOMAIN worse |-> Worsened(a, new, worse[n], n)]
                 \o [n \in DOMAIN over |-> Happened("resolved", over[n], rows[over[n]].severity, Len(worse) + n)]
  OBVIOUS
<1>4. happened' = happened + Len(events) /\ passes' = {events} \ {<<>>}
  BY <1>2, <1>3
<1>5. IncidentInv' /\ rows' \in Seq(Row)
  BY <1>1, <1>2, SyncRows, SyncTable
<1>6. /\ Len(events) \in Nat /\ Telling(events, happened, happened + Len(events))
      /\ events # <<>> => events[1].at = "new"
  BY <1>1, <1>3, SyncEvents
<1>7. alerts' = a /\ UNCHANGED <<now, recent, told>> /\ used' \in [DOMAIN Limit -> Nat]
  BY <1>1, EvaluateTyped DEF Evaluate
<1>8. happened \in Nat /\ happened' \in Nat /\ happened <= happened' /\ now \in Nat
  BY <1>1, <1>4, <1>6 DEF TypeOK
<1>9. ASSUME events # <<>> PROVE PassOK(events, happened', told, recent, now')
  <2>1. events \in Seq(Event) /\ 1 \in 1..Len(events)
    BY <1>6, <1>9, EmptySeq DEF Telling
  <2>2. \A n \in 1..Len(events) : events[n] \in Event /\ events[n].nth \in Nat
    BY <2>1, EventTyped
  <2>3. Telling(events, 0, happened')
    <3>1. happened' = happened + Len(events)
      BY <1>4
    <3>2. \A n \in 1..Len(events) : 0 < events[n].nth /\ events[n].nth <= happened'
      BY ONLY <3>1, <2>2, <1>6, <1>8 DEF Telling
    <3>3. QED
      BY ONLY <3>2, <1>6 DEF Telling
  <2>4. \A n \in DOMAIN told : told[n].nth <= events[1].nth
    <3>1. happened < events[1].nth /\ events[1].nth \in Nat
      BY ONLY <2>1, <2>2, <1>6 DEF Telling
    <3>2. \A n \in DOMAIN told : told[n].nth \in Nat /\ told[n].nth <= happened
      BY <1>1, ToldTyped DEF MessageInv
    <3>3. QED
      BY ONLY <3>1, <3>2, <1>8
  <2>5. QED
    BY <2>3, <2>4, <1>6, <1>9 DEF PassOK
<1>10. (\A p, q \in passes' : p = q) /\ \A p \in passes' : PassOK(p, happened', told, recent, now')
  BY <1>4, <1>9
<1>11. now' \in Nat /\ now <= now'
  BY <1>7, <1>8
<1>12. MessageInv'
  BY <1>1, <1>7, <1>8, <1>10, <1>11, ToldStays
<1>13. \A p \in passes' : p \in Seq(Event) /\ p # <<>>
  BY <1>12 DEF MessageInv, PassOK, Telling
<1>14. TypeOK'
  BY <1>1, <1>5, <1>7, <1>8, <1>13 DEF TypeOK
<1>15. QED
  BY <1>5, <1>12, <1>14 DEF IncidentsInv

LEMMA IncidentsSlow == ASSUME IncidentsInv, slowTick PROVE IncidentsInv'
<1>0. PICK c \in Collectors \ {"fast"} : \E a \in Findings(c) : Evaluate(a) /\ reconcileIncidents(a)
  BY DEF slowTick
<1>1. PICK a \in Findings(c) : Evaluate(a) /\ reconcileIncidents(a)
  BY <1>0
<1>2. a \in [Keys -> Level] /\ used' \in [DOMAIN Limit -> Nat]
  BY <1>1, FindingsTyped, EvaluateTyped DEF IncidentsInv
<1>3. CASE passes # {}
  <2>1. alerts' = a /\ UNCHANGED <<now, recent, told, rows, happened, passes>>
    BY <1>1, <1>3 DEF Evaluate, reconcileIncidents, incidentSyncing
  <2>2. TypeOK'
    BY <2>1, <1>2 DEF IncidentsInv, TypeOK
  <2>3. MessageInv'
    BY <2>1 DEF IncidentsInv, MessageInv, ToldInOrder, NoRepeats
  <2>4. QED
    BY <2>1, <2>2, <2>3, RowsStay DEF IncidentsInv
<1>4. CASE passes = {}
  BY <1>1, <1>2, <1>4, IncidentsSync DEF reconcileIncidents, incidentSyncing
<1>5. QED
  BY <1>3, <1>4

\* A step of telling that delivers nothing.
LEMMA IncidentsSilent ==
  ASSUME IncidentsInv, UNCHANGED <<now, alerts, rows, recent, happened, told>>,
         used' \in [DOMAIN Limit -> Nat],
         \A p, q \in passes' : p = q,
         \A p \in passes' : PassOK(p, happened, told, recent, now)
  PROVE  IncidentsInv'
<1>1. TypeOK /\ IncidentInv /\ MessageInv
  BY DEF IncidentsInv
<1>2. /\ now' \in Nat /\ now <= now' /\ happened' \in Nat /\ happened <= happened'
      /\ told \in Seq(ToldMessage) /\ recent \subseteq [message : Message, at : Nat]
  BY <1>1 DEF TypeOK, ToldMessage
<1>3. MessageInv'
  BY <1>1, <1>2, ToldStays
<1>4. TypeOK'
  BY <1>1, <1>2, <1>3, TellTyped
<1>5. QED
  BY <1>1, <1>3, <1>4, RowsStay DEF IncidentsInv

\* What was in order for the head of a pass is for what comes after it.
LEMMA PassGoesOn ==
  ASSUME TypeOK, MessageInv, NEW p \in passes, NEW q, q # <<>>, Telling(q, 0, happened), p[1].nth <= q[1].nth,
         q[1].at = "sending" => \A s \in recent : s.message = MessageOf(q[1]) => s.at + COOLDOWN <= now
  PROVE  PassOK(q, happened, told, recent, now)
<1>1. p[1].nth \in Nat /\ PassOK(p, happened, told, recent, now)
  BY PassTyped DEF Event
<1>2. q[1].nth \in Nat
  <2>1. q \in Seq(Event) /\ 1 \in 1..Len(q)
    BY EmptySeq DEF Telling
  <2>2. QED
    BY <2>1, EventTyped
<1>3. \A n \in DOMAIN told : told[n].nth \in Nat /\ told[n].nth <= p[1].nth
  BY <1>1, ToldTyped DEF PassOK
<1>4. \A n \in DOMAIN told : told[n].nth <= q[1].nth
  BY <1>1, <1>2, <1>3
<1>5. QED
  BY <1>4 DEF PassOK

LEMMA IncidentsSkip ==
  ASSUME IncidentsInv, NEW p \in passes, NextEvent(p), used' \in [DOMAIN Limit -> Nat],
         UNCHANGED <<now, alerts, rows, recent, happened, told>>
  PROVE  IncidentsInv'
<1>1. TypeOK /\ MessageInv
  BY DEF IncidentsInv
<1>2. /\ \A q, r \in passes' : q = r
      /\ \A q \in passes' : q # <<>> /\ Telling(q, 0, happened) /\ q[1].at = "new" /\ p[1].nth < q[1].nth
  BY <1>1, NextOf
<1>3. ASSUME NEW q \in passes' PROVE PassOK(q, happened, told, recent, now)
  <2>1. q \in Seq(Event) /\ q # <<>>
    BY <1>2 DEF Telling
  <2>2. 1 \in 1..Len(q)
    BY <2>1, EmptySeq
  <2>3. q[1] \in Event /\ p[1] \in Event
    BY <2>1, <2>2, <1>1, ElementOfSeq, PassTyped
  <2>4. p[1].nth <= q[1].nth
    BY <2>3, <1>2 DEF Event
  <2>5. QED
    BY <2>4, <1>1, <1>2, PassGoesOn
<1>4. QED
  BY <1>2, <1>3, IncidentsSilent

LEMMA IncidentsMove ==
  ASSUME IncidentsInv, NEW p \in passes, NEW to \in {"ready", "sending"}, MoveTo(p, to),
         to = "sending" => ~Deduplicated(Head(p)),
         UNCHANGED <<now, alerts, rows, recent, happened, told, used>>
  PROVE  IncidentsInv'
<1>1. TypeOK /\ MessageInv /\ used' \in [DOMAIN Limit -> Nat]
  BY DEF IncidentsInv, TypeOK
<1>2. /\ \A q, r \in passes' : q = r
      /\ \A q \in passes' : /\ q # <<>> /\ Telling(q, 0, happened)
                            /\ q[1].at = to /\ q[1].nth = p[1].nth /\ MessageOf(q[1]) = MessageOf(p[1])
  BY <1>1, MoveOf
<1>3. Head(p) = p[1] /\ p[1].nth \in Nat
  BY <1>1, PassTyped DEF Event
<1>4. to = "sending" => \A s \in recent : s.message = MessageOf(p[1]) => s.at + COOLDOWN <= now
  BY <1>1, <1>3, IncidentsNat DEF Deduplicated, TypeOK
<1>5. \A q \in passes' : PassOK(q, happened, told, recent, now)
  BY <1>1, <1>2, <1>3, <1>4, PassGoesOn
<1>6. QED
  BY <1>1, <1>2, <1>5, IncidentsSilent

LEMMA IncidentsSent == ASSUME IncidentsInv, NEW p \in passes, Sent(p) PROVE IncidentsInv'
<1>1. TypeOK /\ MessageInv /\ IncidentInv
  BY DEF IncidentsInv
<1>2. PICK this : this = MessageOf(p[1])
  OBVIOUS
<1>3. /\ Head(p).at = "sending" /\ Delivered(p, TRUE) /\ NextEvent(p)
      /\ recent' = {s \in recent : s.message # this} \cup {[message |-> this, at |-> now]}
      /\ UNCHANGED <<now, alerts, rows, happened, used>>
  BY <1>1, <1>2, PassTyped DEF Sent
<1>4. this \in Message /\ now \in Nat
  BY <1>1, <1>2, PassTyped DEF Event, Message, MessageOf, TypeOK
<1>5. recent' \subseteq [message : Message, at : Nat]
  BY <1>1, <1>3, <1>4 DEF TypeOK
<1>6. ASSUME NEW n \in DOMAIN told, told[n].confirmed
      PROVE  \E s \in recent' : s.message = told[n].message /\ told[n].at <= s.at
  <2>1. CASE told[n].message = this
    <3>1. told[n].at <= now
      BY <1>1 DEF MessageInv
    <3>2. [message |-> this, at |-> now] \in recent'
      BY <1>3
    <3>3. QED
      BY <2>1, <3>1, <3>2
  <2>2. CASE told[n].message # this
    <3>1. PICK s \in recent : s.message = told[n].message /\ told[n].at <= s.at
      BY <1>1, <1>6 DEF MessageInv
    <3>2. QED
      BY <2>2, <3>1, <1>3
  <2>3. QED
    BY <2>1, <2>2
<1>7. \E s \in recent' : s.message = MessageOf(p[1]) /\ now <= s.at
  <2>1. [message |-> this, at |-> now] \in recent'
    BY <1>3
  <2>2. QED
    BY <2>1, <1>2, <1>4
<1>8. /\ \A q, r \in passes' : q = r
      /\ \A q \in passes' : q # <<>> /\ Telling(q, 0, happened) /\ q[1].at = "new" /\ p[1].nth < q[1].nth
  BY <1>1, <1>3, NextOf
<1>9. ASSUME NEW q \in passes' PROVE p[1].nth <= q[1].nth
  <2>1. q \in Seq(Event) /\ q # <<>>
    BY <1>8 DEF Telling
  <2>2. 1 \in 1..Len(q)
    BY <2>1, EmptySeq
  <2>3. q[1] \in Event /\ p[1] \in Event
    BY <2>1, <2>2, <1>1, ElementOfSeq, PassTyped
  <2>4. QED
    BY <2>3, <1>8 DEF Event
<1>10. MessageInv' /\ told' \in Seq(ToldMessage)
  BY <1>1, <1>3, <1>6, <1>7, <1>8, <1>9, ToldMore
<1>11. used' \in [DOMAIN Limit -> Nat]
  BY <1>1, <1>3 DEF TypeOK
<1>12. TypeOK'
  BY <1>1, <1>3, <1>5, <1>10, <1>11, TellTyped
<1>13. QED
  BY <1>1, <1>3, <1>10, <1>12, RowsStay DEF IncidentsInv

LEMMA IncidentsUnconfirmed == ASSUME IncidentsInv, NEW p \in passes, Unconfirmed(p) PROVE IncidentsInv'
<1>1. TypeOK /\ MessageInv /\ IncidentInv
  BY DEF IncidentsInv
<1>2. /\ Head(p).at = "sending" /\ Delivered(p, FALSE) /\ (NextEvent(p) \/ UNCHANGED passes)
      /\ UNCHANGED <<now, alerts, rows, recent, happened>> /\ used' \in [DOMAIN Limit -> Nat]
  BY <1>1, Spent, Bounds DEF Unconfirmed
<1>3. /\ \A q, r \in passes' : q = r
      /\ \A q \in passes' :
           /\ q # <<>> /\ Telling(q, 0, happened) /\ p[1].nth <= q[1].nth
           /\ q[1].at = "sending" => q = p /\ recent' = recent
  <2>1. CASE NextEvent(p)
    <3>1. /\ \A q, r \in passes' : q = r
          /\ \A q \in passes' : q # <<>> /\ Telling(q, 0, happened) /\ q[1].at = "new" /\ p[1].nth < q[1].nth
      BY <2>1, <1>1, NextOf
    <3>2. ASSUME NEW q \in passes' PROVE p[1].nth <= q[1].nth
      <4>1. q \in Seq(Event) /\ q # <<>>
        BY <3>1 DEF Telling
      <4>2. 1 \in 1..Len(q)
        BY <4>1, EmptySeq
      <4>3. q[1] \in Event /\ p[1] \in Event
        BY <4>1, <4>2, <1>1, ElementOfSeq, PassTyped
      <4>4. QED
        BY <4>3, <3>1 DEF Event
    <3>3. QED
      BY <3>1, <3>2
  <2>2. CASE UNCHANGED passes
    <3>1. passes' = {p} /\ p # <<>> /\ Telling(p, 0, happened) /\ p[1].nth \in Nat
      BY <2>2, <1>1, PassTyped DEF Event
    <3>2. QED
      BY <3>1, <1>2
  <2>3. QED
    BY <2>1, <2>2, <1>2
<1>4. \A n \in DOMAIN told : told[n].confirmed =>
        \E s \in recent' : s.message = told[n].message /\ told[n].at <= s.at
  BY <1>1, <1>2 DEF MessageInv
<1>5. MessageInv' /\ told' \in Seq(ToldMessage)
  BY <1>1, <1>2, <1>3, <1>4, ToldMore
<1>6. TypeOK'
  BY <1>1, <1>2, <1>5, TellTyped DEF TypeOK
<1>7. QED
  BY <1>1, <1>2, <1>5, <1>6, RowsStay DEF IncidentsInv

LEMMA IncidentsTold == ASSUME IncidentsInv, NotifyStep PROVE IncidentsInv'
<1>1. PICK p \in passes : notifyEvents(p)
  BY DEF NotifyStep
<1>2. TypeOK
  BY DEF IncidentsInv
<1>3. CASE Investigated(p)
  BY <1>3, IncidentsMove DEF Investigated
<1>4. CASE Skipped(p)
  <2>1. used' \in [DOMAIN Limit -> Nat]
    BY <1>2, <1>4, Spent, Bounds DEF Skipped, TypeOK
  <2>2. QED
    BY <2>1, <1>4, IncidentsSkip DEF Skipped
<1>5. CASE StartSending(p)
  BY <1>5, IncidentsMove DEF StartSending
<1>6. CASE SendFails(p)
  <2>1. used' \in [DOMAIN Limit -> Nat]
    BY <1>2, <1>6, Spent, Bounds DEF SendFails
  <2>2. QED
    BY <2>1, <1>6, IncidentsSkip DEF SendFails
<1>7. QED
  BY <1>1, <1>3, <1>4, <1>5, <1>6, IncidentsSent, IncidentsUnconfirmed DEF notifyEvents

LEMMA IncidentsPassFails == ASSUME IncidentsInv, NEW p \in passes, PassFails(p) PROVE IncidentsInv'
<1>1. passes' \subseteq passes /\ UNCHANGED <<now, alerts, rows, recent, happened, told>>
  BY DEF PassFails
<1>2. used' \in [DOMAIN Limit -> Nat]
  BY Spent, Bounds DEF PassFails, IncidentsInv
<1>3. (\A q, r \in passes : q = r) /\ \A q \in passes : PassOK(q, happened, told, recent, now)
  BY DEF IncidentsInv, MessageInv
<1>4. (\A q, r \in passes' : q = r) /\ \A q \in passes' : PassOK(q, happened, told, recent, now)
  BY <1>1, <1>3
<1>5. QED
  BY <1>1, <1>2, <1>4, IncidentsSilent

LEMMA IncidentsManual ==
  ASSUME IncidentsInv, NEW i \in DOMAIN rows, NEW s \in Status, SetStatus(i, s) PROVE IncidentsInv'
<1>1. TypeOK /\ IncidentInv /\ MessageInv
  BY DEF IncidentsInv
<1>2. /\ UNCHANGED <<now, alerts, passes, recent, happened, told>> /\ used' \in [DOMAIN Limit -> Nat]
  BY <1>1, Spent, Bounds DEF SetStatus
<1>3. rows \in Seq(Row) /\ Len(rows) \in Nat /\ DOMAIN rows = 1..Len(rows) /\ rows[i] \in Row
  BY <1>1, RowTyped DEF TypeOK
<1>4. PICK row : row = [rows[i] EXCEPT !.status = s,
                                       !.reopened = @ \/ (rows[i].status = "resolved" /\ s # "resolved")]
  OBVIOUS
<1>5. /\ row \in Row /\ row.key = rows[i].key /\ row.status = s
      /\ row.reopened = (rows[i].reopened \/ (rows[i].status = "resolved" /\ s # "resolved"))
  BY <1>3, <1>4 DEF Row
<1>6. rows' = [rows EXCEPT ![i] = row]
  BY <1>3, <1>4 DEF SetStatus
<1>7. /\ rows' \in Seq(Row) /\ DOMAIN rows' = DOMAIN rows /\ rows'[i] = row
      /\ \A j \in DOMAIN rows : j # i => rows'[j] = rows[j]
  BY <1>3, <1>5, <1>6
<1>8. TypeOK'
  BY <1>1, <1>2, <1>7 DEF TypeOK
<1>9. IncidentInv'
  <2> SUFFICES ASSUME NEW j \in DOMAIN rows, NEW k \in DOMAIN rows, j < k, rows'[j].key = rows'[k].key,
                      rows'[j].status # "resolved"
               PROVE  rows'[j].reopened
    BY <1>7 DEF IncidentInv
  <2>1. rows[j].key = rows[k].key
    BY <1>5, <1>7
  <2>2. rows[j].status # "resolved" => rows[j].reopened
    BY <2>1, <1>1 DEF IncidentInv
  <2>3. CASE j = i
    BY <2>2, <2>3, <1>5, <1>7
  <2>4. CASE j # i
    BY <2>2, <2>4, <1>7
  <2>5. QED
    BY <2>3, <2>4
<1>10. MessageInv'
  BY <1>1, <1>2 DEF MessageInv, ToldInOrder, NoRepeats
<1>11. QED
  BY <1>8, <1>9, <1>10 DEF IncidentsInv

LEMMA IncidentsCrash == ASSUME IncidentsInv, Crash PROVE IncidentsInv'
<1>1. /\ alerts' = [k \in Keys |-> "none"] /\ passes' = {} /\ recent' = {} /\ happened' = 0 /\ told' = <<>>
      /\ UNCHANGED <<now, rows>> /\ used' \in [DOMAIN Limit -> Nat]
  BY Spent, Bounds DEF Crash, Silence, IncidentsInv
<1>2. TypeOK'
  BY <1>1 DEF IncidentsInv, TypeOK, Level
<1>3. MessageInv'
  BY <1>1 DEF MessageInv, ToldInOrder, NoRepeats
<1>4. QED
  BY <1>1, <1>2, <1>3, RowsStay DEF IncidentsInv

LEMMA IncidentsStep == IncidentsInv /\ [Next]_vars => IncidentsInv'
<1> SUFFICES ASSUME IncidentsInv, [Next]_vars PROVE IncidentsInv'
  OBVIOUS
<1>1. CASE UNCHANGED vars
  BY <1>1 DEF vars, IncidentsInv, TypeOK, IncidentInv, MessageInv, ToldInOrder, NoRepeats
<1>2. ASSUME NEW i \in DOMAIN rows, acknowledgeIncident(i) \/ resolveIncident(i) PROVE IncidentsInv'
  BY <1>2, IncidentsManual DEF acknowledgeIncident, resolveIncident, Status
<1>3. ASSUME NEW i \in DOMAIN rows, NEW s \in Status, setIncidentStatus(i, s) PROVE IncidentsInv'
  BY <1>3, IncidentsManual DEF setIncidentStatus
<1>4. QED
  BY <1>1, <1>2, <1>3, IncidentsTick, IncidentsFast, IncidentsSlow, IncidentsTold, IncidentsCrash,
     IncidentsPassFails DEF Next

LEMMA IncidentsKeep == Spec => []IncidentsInv
  BY IncidentsInit, IncidentsStep, PTL DEF Spec

(* A cause never has two incidents that are not resolved, unless an older  *)
(* one was reopened by hand, whatever is measured and closed meanwhile.    *)
THEOREM OneIncident == Spec => []IncidentsHold
<1>1. IncidentsInv => IncidentsHold
  BY DEF IncidentsInv, IncidentInv, IncidentsHold, OneIncidentPerCause
<1>2. QED
  BY <1>1, IncidentsKeep, PTL

(* The operator hears of events in the order they happened, and of none    *)
(* again within the cooldown that was confirmed, however long telling takes*)
(* and whatever fails.                                                     *)
THEOREM MessagesInOrder == Spec => []MessagesHold
<1>1. IncidentsInv => MessagesHold
  BY DEF IncidentsInv, MessageInv, MessagesHold
<1>2. QED
  BY <1>1, IncidentsKeep, PTL
=============================================================================
