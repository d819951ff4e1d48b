------------------------------ MODULE Incidents ------------------------------
(***************************************************************************)
(* From alerts to incidents to messages.  Collectors measure and evaluate  *)
(* (src/metrics/index.js, src/metrics/alerts.js); a pass brings the table  *)
(* of incidents in line with the alerts (src/db/incidents.js) and then     *)
(* tells the operator, event by event, after an agent has looked into what *)
(* is critical (src/notifier.js, src/investigator.js).  Telling takes up to*)
(* minutes, during which other passes are dropped.                         *)
(***************************************************************************)
EXTENDS Naturals, Sequences, FiniteSetsExt

CONSTANTS
  Keys,        \* what can be wrong: alerts have the key of their cause
  Collectors,  \* "fast", which only measures, and others, which start passes
  source,      \* the collector that measures a cause
  GRACE,       \* how long an alert is away before its incident is closed
  COOLDOWN,    \* how long a message is not repeated
  MaxTime, MaxChanges, MaxManual, MaxFaults

ASSUME IncidentsAssumption ==
  /\ Keys \subseteq Nat /\ IsFiniteSet(Keys)
  /\ source \in [Keys -> Collectors]
  /\ {GRACE, COOLDOWN, MaxTime, MaxChanges, MaxManual, MaxFaults} \subseteq Nat

VARIABLES
  now,       \* the clock
  alerts,    \* snapshot.alerts: the level of each cause, as evaluated last
  rows,      \* the table of incidents; an id is a position
  passes,    \* passes under way, each the events it has yet to tell
  recent,    \* recentlySent
  happened,  \* history: how many events there were since the last start
  told,      \* history: the messages that were delivered since then
  used       \* how much of each bound is spent

vars == <<now, alerts, rows, passes, recent, happened, told, used>>

Level    == {"none", "warning", "critical"}
Severity == {"warning", "critical"}
Status   == {"open", "acknowledged", "resolved"}
Type     == {"opened", "escalated", "resolved"}

(* reopened is history.                                                    *)
Row == [key : Keys, severity : Severity, status : Status, last_seen : Nat, reopened : BOOLEAN]

(* An event with its place among all events, and how far telling it is.    *)
Event == [type : Type, id : Nat, severity : Severity, nth : Nat,
          at : {"new", "ready", "sending"}]
Message == [type : Type, id : Nat, severity : Severity]

Silence == [k \in Keys |-> "none"]

Init ==
  /\ now = 0
  /\ alerts = Silence
  /\ rows = <<>>
  /\ passes = {} /\ recent = {}
  /\ happened = 0 /\ told = <<>>
  /\ used = [changes |-> 0, manual |-> 0, faults |-> 0]

Limit == [changes |-> MaxChanges, manual |-> MaxManual, faults |-> MaxFaults]
Spend(what) ==
  /\ used[what] < Limit[what]
  /\ used' = [used EXCEPT ![what] = @ + 1]

Tick ==
  /\ now < MaxTime
  /\ now' = now + 1
  /\ UNCHANGED <<alerts, rows, passes, recent, happened, told, used>>

-----------------------------------------------------------------------------
(* syncIncidents(a)                                                        *)

(* Mutant: an incident that was acknowledged is taken for closed.          *)
Unresolved_Open(k) == {i \in DOMAIN rows : rows[i].key = k /\ rows[i].status = "open"}

Unresolved(k) == {i \in DOMAIN rows : rows[i].key = k /\ rows[i].status # "resolved"}

(* An alert belongs to the latest incident of its cause that is not        *)
(* resolved, or to a new one.                                              *)
Latest(k) == Max(Unresolved(k))

Heard(a) == {k \in Keys : a[k] # "none"}
New(a)   == {k \in Heard(a) : Unresolved(k) = {}}
Worse(a) == New(a) \cup {k \in Heard(a) \ New(a) : a[k] = "critical" /\ rows[Latest(k)].severity # "critical"}

Quiet(a, i) == rows[i].status # "resolved" /\ a[rows[i].key] = "none"
               /\ now >= rows[i].last_seen + GRACE
Over(a) == {i \in DOMAIN rows : Quiet(a, i)}

(* The critical alerts are looked at first.                                *)
Before(a, j, k) == \/ a[j] = "critical" /\ a[k] # "critical"
                   \/ a[j] = a[k] /\ j < k
InOrder(a, S)   == {s \in [1..Cardinality(S) -> S] : \A m, n \in DOMAIN s : m < n => Before(a, s[m], s[n])}
Ascending(S)    == {s \in [1..Cardinality(S) -> S] : \A m, n \in DOMAIN s : m < n => s[m] < s[n]}

(* What becomes of incident i, and a new one.                              *)
Updated(a, i) ==
  LET k == rows[i].key
  IN  CASE k \in Heard(a) /\ i \in Unresolved(k) /\ i = Latest(k) ->
             [rows[i] EXCEPT !.severity = a[k], !.last_seen = now]
        [] Quiet(a, i) -> [rows[i] EXCEPT !.status = "resolved"]
        [] OTHER       -> rows[i]

Opened(a, k) == [key |-> k, severity |-> a[k], status |-> "open", last_seen |-> now,
                 reopened |-> FALSE]

Happened(type, id, severity, n) ==
  [type |-> type, id |-> id, severity |-> severity, nth |-> happened + n, at |-> "new"]

Worsened(a, new, k, n) ==
  IF k \in New(a) THEN Happened("opened", Len(rows) + (CHOOSE m \in DOMAIN new : new[m] = k), a[k], n)
  ELSE Happened("escalated", Latest(k), a[k], n)

(* The table, and the events of a pass, in their order: what opened or got *)
(* worse, then what recovered.  A pass without events ends at once.        *)
syncIncidents(a) ==
  \E new \in InOrder(a, New(a)), worse \in InOrder(a, Worse(a)), over \in Ascending(Over(a)) :
    LET events == [n \in DOMAIN worse |-> Worsened(a, new, worse[n], n)]
                  \o [n \in DOMAIN over |-> Happened("resolved", over[n], rows[over[n]].severity,
                                                      Len(worse) + n)]
    IN  /\ rows' = [i \in DOMAIN rows |-> Updated(a, i)] \o [n \in DOMAIN new |-> Opened(a, new[n])]
        /\ happened' = happened + Len(events)
        /\ passes' = {events} \ {<<>>}

-----------------------------------------------------------------------------
(* Collectors.                                                             *)

incidentSyncing == passes # {}

reconcileIncidents(a) ==
  IF incidentSyncing THEN UNCHANGED <<rows, happened, passes>> ELSE syncIncidents(a)

(* What collector c can find: the rest of the snapshot is as it was.       *)
Findings(c) == {[k \in Keys |-> IF source[k] = c THEN m[k] ELSE alerts[k]] :
                  m \in [{k \in Keys : source[k] = c} -> Level]}

Evaluate(a) ==
  /\ alerts' = a
  /\ IF a = alerts THEN UNCHANGED used ELSE Spend("changes")
  /\ UNCHANGED <<now, recent, told>>

fastTick == \E a \in Findings("fast") : Evaluate(a) /\ UNCHANGED <<rows, happened, passes>>

(* slowTick, rareTick, certTick.                                           *)
slowTick == \E c \in Collectors \ {"fast"} : \E a \in Findings(c) :
  Evaluate(a) /\ reconcileIncidents(a)

-----------------------------------------------------------------------------
(* notifyEvents(): p is a pass, its head the event being told.             *)

(* The pass goes on to its next event, or ends.                            *)
NextEvent(p) == passes' = (passes \ {p}) \cup ({Tail(p)} \ {<<>>})
MoveTo(p, at) == passes' = (passes \ {p}) \cup {[p EXCEPT ![1].at = at]}

ToInvestigate(e) == e.at = "new" /\ e.severity = "critical" /\ e.type # "resolved"

(* The agent has reported, or failed to.                                   *)
Investigated(p) ==
  /\ ToInvestigate(Head(p))
  /\ MoveTo(p, "ready")
  /\ UNCHANGED <<now, alerts, rows, recent, happened, told, used>>

MessageOf(e) == [type |-> e.type, id |-> e.id, severity |-> e.severity]
Deduplicated(e) == \E s \in recent : s.message = MessageOf(e) /\ now < s.at + COOLDOWN

(* Mutant: the event is tried again until it may be sent.                  *)
Skipped_Retried(p) ==
  /\ Head(p).at # "sending" /\ ~ToInvestigate(Head(p))
  /\ IF Deduplicated(Head(p)) THEN UNCHANGED used ELSE Spend("manual")
  /\ MoveTo(p, "ready")
  /\ UNCHANGED <<now, alerts, rows, recent, happened, told>>

(* Sent not long ago, or filtered: the operator's settings, quiet hours.   *)
Skipped(p) ==
  /\ Head(p).at # "sending" /\ ~ToInvestigate(Head(p))
  /\ IF Deduplicated(Head(p)) THEN UNCHANGED used ELSE Spend("manual")
  /\ NextEvent(p)
  /\ UNCHANGED <<now, alerts, rows, recent, happened, told>>

StartSending(p) ==
  /\ Head(p).at # "sending" /\ ~ToInvestigate(Head(p))
  /\ ~Deduplicated(Head(p))
  /\ MoveTo(p, "sending")
  /\ UNCHANGED <<now, alerts, rows, recent, happened, told, used>>

Delivered(p, confirmed) ==
  told' = Append(told, [message |-> MessageOf(Head(p)), nth |-> Head(p).nth, at |-> now,
                        confirmed |-> confirmed])

(* Mutant: only what failed is remembered.                                 *)
Sent_Forgotten(p) ==
  /\ Head(p).at = "sending"
  /\ Delivered(p, TRUE)
  /\ NextEvent(p)
  /\ UNCHANGED <<now, alerts, rows, recent, happened, used>>

Sent(p) ==
  /\ Head(p).at = "sending"
  /\ recent' = {s \in recent : s.message # MessageOf(Head(p))}
               \cup {[message |-> MessageOf(Head(p)), at |-> now]}
  /\ Delivered(p, TRUE)
  /\ NextEvent(p)
  /\ UNCHANGED <<now, alerts, rows, happened, used>>

(* It was delivered, but the answer or the record of it was lost: it is    *)
(* sent again, unless that was the third attempt.                          *)
Unconfirmed(p) ==
  /\ Head(p).at = "sending"
  /\ Spend("faults")
  /\ Delivered(p, FALSE)
  /\ NextEvent(p) \/ UNCHANGED passes
  /\ UNCHANGED <<now, alerts, rows, recent, happened>>

(* Three attempts failed.                                                  *)
SendFails(p) ==
  /\ Head(p).at = "sending"
  /\ Spend("faults")
  /\ NextEvent(p)
  /\ UNCHANGED <<now, alerts, rows, recent, happened, told>>

(* The database throws: what is not told yet never will be.                *)
PassFails(p) ==
  /\ Spend("faults")
  /\ passes' = passes \ {p}
  /\ UNCHANGED <<now, alerts, rows, recent, happened, told>>

-----------------------------------------------------------------------------
(* The operator.                                                           *)

SetStatus(i, s) ==
  /\ Spend("manual")
  /\ rows' = [rows EXCEPT ![i].status = s,
                          ![i].reopened = @ \/ (rows[i].status = "resolved" /\ s # "resolved")]
  /\ UNCHANGED <<now, alerts, passes, recent, happened, told>>

setIncidentStatus(i, s) == SetStatus(i, s)
acknowledgeIncident(i)  == rows[i].status # "resolved" /\ SetStatus(i, "acknowledged")
resolveIncident(i)      == SetStatus(i, "resolved")

(* The table survives; what was measured and what was sent does not.       *)
Crash ==
  /\ Spend("faults")
  /\ alerts' = Silence
  /\ passes' = {} /\ recent' = {}
  /\ happened' = 0 /\ told' = <<>>
  /\ UNCHANGED <<now, rows>>

-----------------------------------------------------------------------------
notifyEvents(p) ==
  Investigated(p) \/ Skipped(p) \/ StartSending(p) \/ Sent(p) \/ Unconfirmed(p) \/ SendFails(p)
NotifyStep == \E p \in passes : notifyEvents(p)

Next ==
  \/ Tick \/ fastTick \/ slowTick \/ NotifyStep \/ Crash
  \/ \E p \in passes : PassFails(p)
  \/ \E i \in DOMAIN rows :
       \/ \E s \in Status : setIncidentStatus(i, s)
       \/ acknowledgeIncident(i) \/ resolveIncident(i)

Spec == Init /\ [][Next]_vars

(* Collectors run on timers; the agent and Telegram answer or are given up.*)
FairSpec == Spec /\ WF_vars(slowTick) /\ WF_vars(NotifyStep)

-----------------------------------------------------------------------------
(* Properties.                                                             *)

(* Every variable keeps its shape.                                         *)
TypeOK ==
  /\ now \in Nat /\ happened \in Nat
  /\ alerts \in [Keys -> Level]
  /\ rows \in Seq(Row)
  /\ \A p \in passes : p \in Seq(Event) /\ p # <<>>
  /\ recent \subseteq [message : Message, at : Nat]
  /\ told \in Seq([message : Message, nth : Nat, at : Nat, confirmed : BOOLEAN])
  /\ used \in [DOMAIN Limit -> Nat]

(* A cause has one incident that is not resolved, unless somebody reopened *)
(* an older one.                                                           *)
OneIncidentPerCause ==
  \A i, j \in DOMAIN rows :
    /\ i < j /\ rows[i].key = rows[j].key
    /\ rows[i].status # "resolved" /\ rows[j].status # "resolved"
    => rows[i].reopened

(* The operator hears of events in the order they happened, however long   *)
(* one of them was looked into: never that an incident is over and then    *)
(* that it began.                                                          *)
ToldInOrder ==
  \A m, n \in DOMAIN told : m < n => told[m].nth <= told[n].nth

(* As long as the service runs, no message whose delivery was confirmed is *)
(* repeated within the cooldown, for a cause that comes and goes or an     *)
(* incident opened and closed by hand meanwhile.                           *)
NoRepeats ==
  \A m, n \in DOMAIN told :
    m < n /\ told[m].confirmed /\ told[m].message = told[n].message
    => told[n].at >= told[m].at + COOLDOWN

(* Every variable keeps its shape, and a cause has one incident that is not*)
(* resolved, unless an older one was reopened (src/db/incidents.js).       *)
IncidentsHold == TypeOK /\ OneIncidentPerCause

(* Events are told in order, and no confirmed message is repeated within   *)
(* the cooldown (src/metrics/index.js, src/notifier.js).                   *)
MessagesHold == ToldInOrder /\ NoRepeats

(* Again and again every alert has an incident, although passes are dropped*)
(* while another one tells, and passes may fail.                           *)
AlertsHeard == []<>(\A k \in Keys : alerts[k] # "none" => Unresolved(k) # {})
=============================================================================
