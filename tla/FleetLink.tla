------------------------------ MODULE FleetLink ------------------------------
(***************************************************************************)
(* An approved change on its way to a node of the fleet.  The dashboard    *)
(* starts a job (src/routes/api/changes.js), which calls the node and polls*)
(* it; the node checks the call, starts a job of its own and asks its      *)
(* broker (src/changes/fleet-link.js, src/changes/client.js).  The broker  *)
(* is the one of ChangeBroker, of which this module keeps what the callers *)
(* see: an approval is good once, one task runs at a time.                 *)
(*                                                                         *)
(* Calls may be delayed or repeated on the way, answers may be lost, time  *)
(* limits may pass, and each of the three services may be started again.   *)
(***************************************************************************)
EXTENDS Naturals, FiniteSets

CONSTANTS
  Approvals,    \* what the operator signed
  MaxCalls, MaxTime, MaxFaults, MaxRestarts,
  SKEW_MS,      \* how far the clocks of hub and node may be apart
  Timestamps    \* what the hub's clock may show

ASSUME LinkAssumption ==
  {MaxCalls, MaxTime, MaxFaults, MaxRestarts, SKEW_MS} \cup Timestamps \subseteq Nat

VARIABLES
  now,       \* the clock of the node
  hub,       \* the jobs of the dashboard, by call
  sent,      \* every call that ever left the hub
  delivered, \* the calls that reached the node on the connection of the hub
  seen,      \* the nonces the node remembers, with the time of arrival
  life,      \* how often the node's service was started again
  accepted,  \* history: how often the node accepted each call in this life
  jobs,      \* the node's jobs
  requests,  \* what the node asked the broker and the broker did not take up
  fresh,     \* approvals whose challenge the broker still knows
  running,   \* what the broker's executor runs
  began,     \* history: tasks that began
  ended,     \* the broker's records
  used       \* how much of each bound is spent

vars == <<now, hub, sent, delivered, seen, life, accepted, jobs, requests, fresh,
          running, began, ended, used>>
hubVars    == <<hub, sent>>
nodeVars   == <<delivered, seen, life, accepted, jobs>>
brokerVars == <<fresh, running, began, ended>>

Calls == 1..MaxCalls

(* Each call has a nonce of its own, so a call stands for its nonce.       *)
Message == [call : Calls, approval : Approvals, timestamp : Nat]

(* A node accepts a call at most once in a life, so that names the job.    *)
JobId   == [call : Calls, life : Nat]
Result  == {"none", "applied", "failed", "interrupted", "refused", "turned_away",
            "node_unreachable", "node_timeout", "job_not_found", "broker_timeout",
            "broker_error", "cut_off"}
HubJob  == [at : {"unused", "calling", "polling", "astray", "done", "error", "gone"},
            life : Nat, result : Result]
NodeJob == [id : JobId, approval : Approvals, at : {"running", "done", "error"},
            result : Result]
Task    == [id : JobId, approval : Approvals]
Nobody  == [id |-> 0]

Init ==
  /\ now = 0
  /\ hub = [c \in Calls |-> [at |-> "unused", life |-> 0, result |-> "none"]]
  /\ sent = {} /\ delivered = {}
  /\ seen = {} /\ life = 0
  /\ accepted = [c \in Calls |-> 0]
  /\ jobs = {} /\ requests = {}
  /\ fresh = Approvals
  /\ running = Nobody
  /\ began = {} /\ ended = {}
  /\ used = [faults |-> 0, restarts |-> 0]

Fault ==
  /\ used.faults < MaxFaults
  /\ used' = [used EXCEPT !.faults = @ + 1]
RestartOne ==
  /\ used.restarts < MaxRestarts
  /\ used' = [used EXCEPT !.restarts = @ + 1]

Tick ==
  /\ now < MaxTime
  /\ now' = now + 1
  /\ UNCHANGED <<hubVars, nodeVars, requests, brokerVars, used>>

-----------------------------------------------------------------------------
(* The hub: startJob() of the dashboard around callAndWait().              *)

(* POST .../apply: the call is signed with the hub's clock.              *)
StartJob(a) ==
  \E c \in Calls, ts \in Timestamps :
    /\ hub[c].at = "unused" /\ \A b \in 1..(c - 1) : hub[b].at # "unused"
    /\ hub' = [hub EXCEPT ![c].at = "calling"]
    /\ sent' = sent \cup {[call |-> c, approval |-> a, timestamp |-> ts]}
    /\ UNCHANGED <<now, nodeVars, requests, brokerVars, used>>

HubEnds(c, at, result) ==
  hub' = [hub EXCEPT ![c].at = at, ![c].result = result]

(* No answer within 25 seconds.                                            *)
CallTimesOut(c) ==
  /\ hub[c].at = "calling"
  /\ Fault
  /\ HubEnds(c, "error", "node_unreachable")
  /\ UNCHANGED <<now, sent, nodeVars, requests, brokerVars>>

(* call() takes a body that does not parse for {}.  When it is the answer  *)
(* to the first call, the hub goes astray: it polls for a job "undefined". *)
JobOf(c) == {j \in jobs : hub[c].at = "polling" /\ j.id = [call |-> c, life |-> hub[c].life]}
Polls(c) == hub[c].at \in {"polling", "astray"}

(* Mutant: a job that is gone counts as done.                              *)
Poll_GoneIsDone(c) ==
  /\ hub[c].at = "polling"
  /\ \/ /\ JobOf(c) = {} /\ HubEnds(c, "done", "applied")
     \/ \E j \in JobOf(c) : j.at # "running" /\ HubEnds(c, j.at, j.result)
  /\ UNCHANGED <<now, sent, nodeVars, requests, brokerVars, used>>

(* GET /v1/jobs/:id.  A running job changes nothing: the hub asks again.   *)
Poll(c) ==
  /\ Polls(c)
  /\ \/ /\ JobOf(c) = {} /\ HubEnds(c, "error", "job_not_found")
     \/ \E j \in JobOf(c) : j.at # "running" /\ HubEnds(c, j.at, j.result)
  /\ UNCHANGED <<now, sent, nodeVars, requests, brokerVars, used>>

(* A poll that fails ends the job, and so does the deadline of 20 minutes. *)
(* An answer without a status, as {} is, ends it too: done, with no result.*)
PollFails(c) ==
  /\ Polls(c)
  /\ Fault
  /\ \/ \E why \in {"node_unreachable", "node_timeout"} : HubEnds(c, "error", why)
     \/ JobOf(c) # {} /\ HubEnds(c, "done", "none")
  /\ UNCHANGED <<now, sent, nodeVars, requests, brokerVars>>

(* The jobs are kept in memory.                                            *)
HubRestart ==
  /\ RestartOne
  /\ hub' = [c \in Calls |-> IF hub[c].at = "unused" THEN hub[c]
                             ELSE [hub[c] EXCEPT !.at = "gone", !.result = "none"]]
  /\ UNCHANGED <<now, sent, nodeVars, requests, brokerVars>>

-----------------------------------------------------------------------------
(* The node: createControlRouter().                                        *)

(* Mutant: nonces are kept for the skew only.                              *)
sweep_Skew == {s \in seen : s.at + SKEW_MS >= now}

sweep == {s \in seen : s.at + 2 * SKEW_MS >= now}

Timely(m) == m.timestamp <= now + SKEW_MS /\ now <= m.timestamp + SKEW_MS
Known(m)  == \E s \in sweep : s.call = m.call

(* A call that is timely and new becomes a job, which asks the broker.     *)
Accept(m) ==
  LET id == [call |-> m.call, life |-> life] IN
  /\ Timely(m) /\ ~Known(m)
  /\ seen' = sweep \cup {[call |-> m.call, at |-> now]}
  /\ accepted' = [accepted EXCEPT ![m.call] = @ + 1]
  /\ jobs' = jobs \cup {[id |-> id, approval |-> m.approval, at |-> "running",
                         result |-> "none"]}
  /\ requests' = requests \cup {[id |-> id, approval |-> m.approval]}
  /\ UNCHANGED life

(* The hub hears of it, unless it no longer waits or the answer is lost or *)
(* cut off.                                                                *)
Arrives(m) ==
  /\ m.call \notin delivered
  /\ Accept(m)
  /\ delivered' = delivered \cup {m.call}
  /\ \/ /\ hub[m.call].at = "calling"
        /\ hub' = [hub EXCEPT ![m.call].at = "polling", ![m.call].life = life]
        /\ UNCHANGED used
     \/ /\ hub[m.call].at = "calling" /\ Fault
        /\ hub' = [hub EXCEPT ![m.call].at = "astray"]
     \/ /\ hub[m.call].at = "calling" => Fault
        /\ hub[m.call].at # "calling" => UNCHANGED used
        /\ UNCHANGED hub
  /\ UNCHANGED <<now, sent, brokerVars>>

(* It is late or early, known, or there are too many.                      *)
TurnedAway(m) ==
  /\ m.call \notin delivered
  /\ delivered' = delivered \cup {m.call}
  /\ seen' = sweep
  /\ IF hub[m.call].at = "calling" THEN HubEnds(m.call, "error", "turned_away")
                                   ELSE UNCHANGED hub
  /\ UNCHANGED <<now, sent, life, accepted, jobs, requests, brokerVars, used>>

(* A call arrives once more; the answer goes to nobody.                    *)
ArrivesAgain(m) ==
  /\ m.call \in delivered
  /\ Accept(m)
  /\ UNCHANGED <<now, hubVars, delivered, brokerVars, used>>

(* Jobs and nonces are kept in memory.  Requests on their way to the broker*)
(* may still arrive.                                                       *)
NodeRestart ==
  /\ RestartOne
  /\ life' = life + 1
  /\ seen' = {} /\ jobs' = {}
  /\ accepted' = [c \in Calls |-> 0]
  /\ requests' \in SUBSET requests
  /\ UNCHANGED <<now, hubVars, delivered, brokerVars>>

(* Mutant: the result is spread over the job, and its status hides the     *)
(* job's own.                                                              *)
Settled_Spread(id, at, result) ==
  {IF j.id = id /\ j.at = "running" THEN [j EXCEPT !.at = result] ELSE j : j \in jobs}

Settled(id, at, result) ==
  {IF j.id = id /\ j.at = "running" THEN [j EXCEPT !.at = at, !.result = result] ELSE j :
     j \in jobs}

(* The broker's client waits for 20 minutes.                               *)
BrokerTimesOut(j) ==
  /\ j.at = "running"
  /\ Fault
  /\ jobs' = Settled(j.id, "error", "broker_timeout")
  /\ UNCHANGED <<now, hubVars, delivered, seen, life, accepted, requests, brokerVars>>

-----------------------------------------------------------------------------
(* The broker, as its clients see it.                                      *)

(* An approval is good for one task, and one task runs at a time.          *)
Begin(r) ==
  /\ r.approval \in fresh /\ running = Nobody
  /\ fresh' = fresh \ {r.approval}
  /\ running' = r
  /\ began' = began \cup {r}
  /\ requests' = requests \ {r}
  /\ UNCHANGED <<now, hubVars, nodeVars, ended, used>>

(* Mutant: the node's job does not notice an error.                        *)
Refuse_Unhandled(r) ==
  /\ requests' = requests \ {r}
  /\ fresh' \in {fresh, fresh \ {r.approval}}
  /\ UNCHANGED <<now, hubVars, nodeVars, running, began, ended, used>>

(* Switched off or locked, which leaves the approval good; not valid, or   *)
(* busy, which uses it up.                                                 *)
Refuse(r) ==
  /\ requests' = requests \ {r}
  /\ fresh' \in {fresh, fresh \ {r.approval}}
  /\ jobs' = Settled(r.id, "error", "refused")
  /\ UNCHANGED <<now, hubVars, delivered, seen, life, accepted, running, began, ended, used>>

TaskEnds ==
  /\ running # Nobody
  /\ \E o \in {"applied", "failed"} :
       /\ ended' = ended \cup {[id |-> running.id, outcome |-> o]}
       /\ jobs' = Settled(running.id, "done", o)
  /\ running' = Nobody
  /\ UNCHANGED <<now, hubVars, delivered, seen, life, accepted, requests, fresh, began, used>>

(* A write of the executor fails, before, between or after its effects: the*)
(* answer is an error, and the record says how the task ended, says that it*)
(* runs, or is not there.                                                  *)
TaskThrows ==
  /\ running # Nobody
  /\ Fault
  /\ \/ UNCHANGED ended
     \/ \E o \in {"applied", "failed"} : ended' = ended \cup {[id |-> running.id, outcome |-> o]}
  /\ jobs' = Settled(running.id, "error", "broker_error")
  /\ running' = Nobody
  /\ UNCHANGED <<now, hubVars, delivered, seen, life, accepted, requests, fresh, began>>

ChallengeExpires(a) ==
  /\ a \in fresh
  /\ fresh' = fresh \ {a}
  /\ UNCHANGED <<now, hubVars, nodeVars, requests, running, began, ended, used>>

(* Connections are cut; tasks whose records say that they run are recorded *)
(* as interrupted.                                                         *)
BrokerRestart ==
  /\ RestartOne
  /\ fresh' = {} /\ requests' = {} /\ running' = Nobody
  /\ \E ids \in SUBSET ({x.id : x \in began} \ {e.id : e \in ended}) :
       ended' = ended \cup {[id |-> id, outcome |-> "interrupted"] : id \in ids}
  /\ jobs' = {IF j.at = "running" THEN [j EXCEPT !.at = "error", !.result = "cut_off"] ELSE j :
                j \in jobs}
  /\ UNCHANGED <<now, hubVars, delivered, seen, life, accepted, began>>

-----------------------------------------------------------------------------
Answer(c) == Poll(c) \/ (\E m \in sent : m.call = c /\ (Arrives(m) \/ TurnedAway(m)))
Serve == TaskEnds \/ \E r \in requests : Begin(r) \/ Refuse(r)

Next ==
  \/ Tick \/ HubRestart \/ NodeRestart \/ BrokerRestart \/ TaskThrows \/ Serve
  \/ \E a \in Approvals : StartJob(a) \/ ChallengeExpires(a)
  \/ \E c \in Calls : CallTimesOut(c) \/ PollFails(c) \/ Answer(c)
  \/ \E m \in sent : ArrivesAgain(m)
  \/ \E j \in jobs : BrokerTimesOut(j)

Spec == Init /\ [][Next]_vars

(* A task ends (TaskEnds of ChangeExecutor) and a request is answered      *)
(* (EveryRequestAnswered of ChangeBroker); the hub polls on; a call that is*)
(* not lost arrives.                                                       *)
FairSpec == Spec /\ WF_vars(Serve) /\ \A c \in Calls : WF_vars(Answer(c))

-----------------------------------------------------------------------------
(* Properties.                                                             *)

(* Every variable keeps its shape.                                         *)
TypeOK ==
  /\ now \in Nat /\ life \in Nat
  /\ hub \in [Calls -> HubJob]
  /\ sent \subseteq Message /\ delivered \subseteq Calls
  /\ seen \subseteq [call : Calls, at : Nat]
  /\ accepted \in [Calls -> Nat]
  /\ jobs \subseteq NodeJob
  /\ requests \subseteq Task /\ began \subseteq Task
  /\ running \in Task \cup {Nobody}
  /\ fresh \subseteq Approvals
  /\ ended \subseteq [id : JobId, outcome : Result]
  /\ used \in [{"faults", "restarts"} -> Nat]

(* As long as its service runs, a node accepts a call once, however often  *)
(* it arrives and whatever the clocks show: a nonce is forgotten only when *)
(* its call has become stale.                                              *)
AcceptedOnce == \A c \in Calls : accepted[c] <= 1

(* What a job of the dashboard reports is so: the outcome it is done with  *)
(* is the one the broker recorded for that call, and what was refused never*)
(* began.  A job that is done without an outcome, as when the answer to a  *)
(* poll is cut off, says nothing about the change, which may run on or have*)
(* failed; nor does an error of any other kind.                            *)
ReportsAreTrue ==
  \A c \in Calls : LET id == [call |-> c, life |-> hub[c].life] IN
    /\ hub[c].at = "done" => \/ [id |-> id, outcome |-> hub[c].result] \in ended
                             \/ hub[c].result = "none" /\ used.faults > 0
    /\ hub[c].at = "error" /\ hub[c].result = "refused" => \A x \in began : x.id # id

(* A job ends without any time limit, as long as no answer is lost: the    *)
(* node and the broker answer each call or, started again, are found to    *)
(* have forgotten it.                                                      *)
JobsEnd ==
  \A c \in Calls :
    hub[c].at = "calling" ~> hub[c].at \in {"done", "error", "gone"} \/ used.faults > 0
=============================================================================
