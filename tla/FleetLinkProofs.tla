--------------------------- MODULE FleetLinkProofs ---------------------------
(***************************************************************************)
(* What holds of the fleet link for any number of calls and approvals, any *)
(* skew, any readings of the hub's clock, and any number of losses and     *)
(* restarts.                                                               *)
(***************************************************************************)
EXTENDS FleetLink, TLAPS

-----------------------------------------------------------------------------
(* Types.                                                                  *)

(* The bounds and the skew are numbers, and so is what a clock shows.      *)
LEMMA Numbers == /\ MaxCalls \in Nat /\ MaxTime \in Nat /\ SKEW_MS \in Nat
                 /\ MaxFaults \in Nat /\ MaxRestarts \in Nat /\ Timestamps \subseteq Nat
  BY LinkAssumption

(* Spending a bound keeps the count of what is spent.                      *)
LEMMA SpentTyped ==
  ASSUME TypeOK, Fault \/ RestartOne \/ UNCHANGED used
  PROVE  used' \in [{"faults", "restarts"} -> Nat]
<1>1. used \in [{"faults", "restarts"} -> Nat]
  BY DEF TypeOK
<1>2. QED
  BY <1>1 DEF Fault, RestartOne

(* A job of the hub that ends is a job of the hub.                         *)
LEMMA HubEndsTyped ==
  ASSUME TypeOK, NEW c \in Calls, NEW at \in {"done", "error"}, NEW result \in Result,
         HubEnds(c, at, result)
  PROVE  hub' \in [Calls -> HubJob]
<1>1. hub \in [Calls -> HubJob]
  BY DEF TypeOK
<1>2. [hub[c] EXCEPT !.at = at, !.result = result] \in HubJob
  BY <1>1 DEF HubJob
<1>3. hub' = [hub EXCEPT ![c] = [hub[c] EXCEPT !.at = at, !.result = result]]
  BY <1>1 DEF HubEnds, HubJob
<1>4. QED
  BY <1>1, <1>2, <1>3

(* A job of the node that ends is a job of the node.                       *)
LEMMA SettledTyped ==
  ASSUME TypeOK, NEW id, NEW at \in {"done", "error"}, NEW result \in Result
  PROVE  Settled(id, at, result) \subseteq NodeJob
  BY DEF TypeOK, Settled, NodeJob

(* What the hub did not send, nobody accepts; accepting makes a job and a  *)
(* request of one id.                                                      *)
LEMMA AcceptTyped ==
  ASSUME TypeOK, NEW m \in sent, Accept(m)
  PROVE  /\ seen' \subseteq [call : Calls, at : Nat]
         /\ accepted' \in [Calls -> Nat]
         /\ jobs' \subseteq NodeJob
         /\ requests' \subseteq Task
         /\ life' = life
<1>1. m \in Message /\ now \in Nat /\ life \in Nat
  BY DEF TypeOK
<1>2. [call |-> m.call, life |-> life] \in JobId
  BY <1>1 DEF JobId, Message
<1>3. m.approval \in Approvals /\ m.call \in Calls
  BY <1>1 DEF Message
<1>4. QED
  BY <1>1, <1>2, <1>3 DEF Accept, TypeOK, sweep, NodeJob, Task, Result

LEMMA InitTypeOK == Init => TypeOK
  BY DEF Init, TypeOK, HubJob, Result

LEMMA NextTypeOK == TypeOK /\ [Next]_vars => TypeOK'
<1> SUFFICES ASSUME TypeOK, [Next]_vars PROVE TypeOK'
  OBVIOUS
<1>1. CASE Tick
  BY <1>1, Numbers DEF Tick, TypeOK, hubVars, nodeVars, brokerVars
<1>2. CASE HubRestart
  <2>1. hub' \in [Calls -> HubJob]
    <3>1. hub \in [Calls -> HubJob]
      BY DEF TypeOK
    <3>2. \A c \in Calls : [hub[c] EXCEPT !.at = "gone", !.result = "none"] \in HubJob
      BY <3>1 DEF HubJob, Result
    <3>3. QED
      BY <1>2, <3>1, <3>2 DEF HubRestart
  <2>2. QED
    BY <1>2, <2>1, SpentTyped DEF HubRestart, TypeOK, nodeVars, brokerVars
<1>3. CASE NodeRestart
  BY <1>3, SpentTyped DEF NodeRestart, TypeOK, hubVars, brokerVars
<1>4. CASE BrokerRestart
  <2>1. ended' \subseteq [id : JobId, outcome : Result]
    <3>1. PICK ids \in SUBSET ({x.id : x \in began} \ {e.id : e \in ended}) :
            ended' = ended \cup {[id |-> id, outcome |-> "interrupted"] : id \in ids}
      BY <1>4 DEF BrokerRestart
    <3>2. ids \subseteq JobId /\ "interrupted" \in Result
      BY DEF TypeOK, Task, Result
    <3>3. {[id |-> id, outcome |-> "interrupted"] : id \in ids} \subseteq [id : JobId, outcome : Result]
      BY <3>2
    <3>4. QED
      BY <3>1, <3>3 DEF TypeOK
  <2>2. jobs' \subseteq NodeJob
    <3>1. jobs' = {IF j.at = "running" THEN [j EXCEPT !.at = "error", !.result = "cut_off"]
                                      ELSE j : j \in jobs}
      BY <1>4 DEF BrokerRestart
    <3>2. QED
      BY <3>1, ZenonT(40) DEF TypeOK, NodeJob, Result
  <2>3. QED
    BY <1>4, <2>1, <2>2, SpentTyped DEF BrokerRestart, TypeOK, hubVars
<1>5. CASE TaskEnds
  <2>1. ended' \subseteq [id : JobId, outcome : Result]
    BY <1>5 DEF TaskEnds, TypeOK, Task, Result
  <2>2. jobs' \subseteq NodeJob
    BY <1>5, SettledTyped DEF TaskEnds, Result
  <2>3. QED
    BY <1>5, <2>1, <2>2 DEF TaskEnds, TypeOK, hubVars
<1>5a. CASE TaskThrows
  <2>1. ended' \subseteq [id : JobId, outcome : Result]
    BY <1>5a DEF TaskThrows, TypeOK, Task, Result
  <2>2. jobs' \subseteq NodeJob
    BY <1>5a, SettledTyped DEF TaskThrows, Result
  <2>3. QED
    BY <1>5a, <2>1, <2>2, SpentTyped DEF TaskThrows, TypeOK, hubVars
<1>6. ASSUME NEW r \in requests, Begin(r) PROVE TypeOK'
  BY <1>6 DEF Begin, TypeOK, hubVars, nodeVars
<1>7. ASSUME NEW r \in requests, Refuse(r) PROVE TypeOK'
  <2>1. jobs' \subseteq NodeJob
    BY <1>7, SettledTyped DEF Refuse, Result
  <2>2. QED
    BY <1>7, <2>1 DEF Refuse, TypeOK, hubVars
<1>8. ASSUME NEW a \in Approvals, StartJob(a) PROVE TypeOK'
  <2>1. PICK c \in Calls, ts \in Timestamps :
          /\ hub' = [hub EXCEPT ![c].at = "calling"]
          /\ sent' = sent \cup {[call |-> c, approval |-> a, timestamp |-> ts]}
    BY <1>8 DEF StartJob
  <2>2. hub \in [Calls -> HubJob]
    BY DEF TypeOK
  <2>3. [hub[c] EXCEPT !.at = "calling"] \in HubJob
    BY <2>2 DEF HubJob
  <2>4. hub' \in [Calls -> HubJob]
    BY <2>1, <2>2, <2>3
  <2>5. sent' \subseteq Message
    BY <2>1, Numbers DEF TypeOK, Message
  <2>6. QED
    BY <1>8, <2>4, <2>5 DEF StartJob, TypeOK, nodeVars, brokerVars
<1>9. ASSUME NEW a \in Approvals, ChallengeExpires(a) PROVE TypeOK'
  BY <1>9 DEF ChallengeExpires, TypeOK, hubVars, nodeVars
<1>10. ASSUME NEW c \in Calls, CallTimesOut(c) PROVE TypeOK'
  BY <1>10, HubEndsTyped, SpentTyped DEF CallTimesOut, TypeOK, nodeVars, brokerVars, Result
<1>11. ASSUME NEW c \in Calls, PollFails(c) PROVE TypeOK'
  BY <1>11, HubEndsTyped, SpentTyped DEF PollFails, TypeOK, nodeVars, brokerVars, Result
<1>12. ASSUME NEW c \in Calls, Poll(c) PROVE TypeOK'
  <2>1. hub' \in [Calls -> HubJob]
    <3>1. CASE HubEnds(c, "error", "job_not_found")
      BY <3>1, HubEndsTyped DEF Result
    <3>2. ASSUME NEW j \in JobOf(c), j.at # "running", HubEnds(c, j.at, j.result)
          PROVE  hub' \in [Calls -> HubJob]
      <4>1. j.at \in {"done", "error"} /\ j.result \in Result
        BY <3>2 DEF JobOf, TypeOK, NodeJob
      <4>2. QED
        BY <3>2, <4>1, HubEndsTyped
    <3>3. QED
      BY <1>12, <3>1, <3>2 DEF Poll
  <2>2. QED
    BY <1>12, <2>1 DEF Poll, TypeOK, nodeVars, brokerVars
<1>13. ASSUME NEW m \in sent, Arrives(m) PROVE TypeOK'
  <2>1. m.call \in Calls
    BY DEF TypeOK, Message
  <2>2. hub' \in [Calls -> HubJob]
    <3>1. hub \in [Calls -> HubJob] /\ life \in Nat
      BY DEF TypeOK
    <3>2. [hub[m.call] EXCEPT !.at = "polling", !.life = life] \in HubJob
      BY <2>1, <3>1 DEF HubJob
    <3>3. [hub EXCEPT ![m.call].at = "polling", ![m.call].life = life]
            = [hub EXCEPT ![m.call] = [hub[m.call] EXCEPT !.at = "polling", !.life = life]]
      BY <2>1, <3>1
    <3>4. /\ [hub[m.call] EXCEPT !.at = "astray"] \in HubJob
          /\ [hub EXCEPT ![m.call].at = "astray"]
               = [hub EXCEPT ![m.call] = [hub[m.call] EXCEPT !.at = "astray"]]
      BY <2>1, <3>1 DEF HubJob
    <3>5. QED
      BY <1>13, <2>1, <3>1, <3>2, <3>3, <3>4 DEF Arrives
  <2>3. used' \in [{"faults", "restarts"} -> Nat]
    BY <1>13, SpentTyped DEF Arrives
  <2>4. QED
    BY <1>13, <2>1, <2>2, <2>3, AcceptTyped DEF Arrives, TypeOK, brokerVars
<1>14. ASSUME NEW m \in sent, TurnedAway(m) PROVE TypeOK'
  <2>1. m.call \in Calls
    BY DEF TypeOK, Message
  <2>2. hub' \in [Calls -> HubJob]
    BY <1>14, <2>1, HubEndsTyped DEF TurnedAway, TypeOK, Result
  <2>3. QED
    BY <1>14, <2>1, <2>2 DEF TurnedAway, TypeOK, sweep, brokerVars
<1>15. ASSUME NEW m \in sent, ArrivesAgain(m) PROVE TypeOK'
  BY <1>15, AcceptTyped DEF ArrivesAgain, TypeOK, hubVars, brokerVars
<1>16. ASSUME NEW j \in jobs, BrokerTimesOut(j) PROVE TypeOK'
  <2>1. jobs' \subseteq NodeJob
    BY <1>16, SettledTyped DEF BrokerTimesOut, Result
  <2>2. QED
    BY <1>16, <2>1, SpentTyped DEF BrokerTimesOut, TypeOK, hubVars, brokerVars
<1>17. CASE UNCHANGED vars
  BY <1>17 DEF vars, TypeOK
<1>18. QED
  BY <1>1, <1>2, <1>3, <1>4, <1>5, <1>6, <1>7, <1>8, <1>9, <1>10, <1>11, <1>12, <1>13,
     <1>5a, <1>14, <1>15, <1>16, <1>17 DEF Next, Serve, Answer

(* Every variable keeps its shape.                                         *)
THEOREM TypeCorrect == Spec => []TypeOK
  BY InitTypeOK, NextTypeOK, PTL DEF Spec

-----------------------------------------------------------------------------
(* Calls.                                                                  *)

(* The node remembers the call of m with a time that keeps it remembered   *)
(* until m is stale.                                                       *)
Remembered(m) == \E s \in seen : s.call = m.call /\ m.timestamp <= s.at + SKEW_MS
Stale(m) == m.timestamp + SKEW_MS < now

(* A call is sent once.  What was accepted is remembered or stale; that is *)
(* more than AcceptedOnce says, and what keeps it true.                    *)
SentOnce ==
  /\ \A m \in sent : hub[m.call].at # "unused"
  /\ \A m, n \in sent : m.call = n.call => m = n
  /\ \A c \in Calls : accepted[c] # 0 => hub[c].at # "unused"
AcceptInv ==
  /\ SentOnce
  /\ AcceptedOnce
  /\ \A m \in sent : accepted[m.call] # 0 => Remembered(m) \/ Stale(m)

(* A call that is accepted was not accepted before.                        *)
LEMMA AcceptedIsNew ==
  ASSUME TypeOK, AcceptInv, NEW m \in sent, Accept(m)
  PROVE  accepted[m.call] = 0
<1>1. m \in Message /\ m.call \in Calls /\ m.timestamp \in Nat /\ now \in Nat
  BY DEF TypeOK, Message
<1>2. ~Stale(m)
  BY <1>1, Numbers DEF Accept, Timely, Stale
<1>3. ~Remembered(m)
  <2>1. SUFFICES ASSUME NEW s \in seen, s.call = m.call, m.timestamp <= s.at + SKEW_MS
                 PROVE  FALSE
    BY DEF Remembered
  <2>2. s.at \in Nat
    BY DEF TypeOK
  <2>3. s \in sweep
    BY <1>1, <2>1, <2>2, Numbers DEF sweep, Accept, Timely
  <2>4. QED
    BY <2>1, <2>3 DEF Accept, Known
<1>4. QED
  BY <1>1, <1>2, <1>3 DEF AcceptInv

(* Sweeping forgets only what is stale.                                    *)
LEMMA SweepKeeps ==
  ASSUME TypeOK, NEW m \in sent, Remembered(m), sweep \subseteq seen', now' = now
  PROVE  Remembered(m)' \/ Stale(m)'
<1>1. m \in Message /\ m.timestamp \in Nat /\ now \in Nat
  BY DEF TypeOK, Message
<1>2. PICK s \in seen : s.call = m.call /\ m.timestamp <= s.at + SKEW_MS
  BY DEF Remembered
<1>3. s.at \in Nat
  BY DEF TypeOK
<1>4. CASE s \in sweep
  BY <1>2, <1>4 DEF Remembered
<1>5. CASE s \notin sweep
  BY <1>1, <1>2, <1>3, <1>5, Numbers DEF sweep, Stale
<1>6. QED
  BY <1>4, <1>5

(* Accepting keeps the invariant about calls.                              *)
LEMMA AcceptKeeps ==
  ASSUME TypeOK, AcceptInv, NEW m \in sent, Accept(m), now' = now, sent' = sent,
         SentOnce'
  PROVE  AcceptInv'
<1>1. m \in Message /\ m.call \in Calls /\ m.timestamp \in Nat /\ now \in Nat
  BY DEF TypeOK, Message
<1>2. accepted[m.call] = 0
  BY AcceptedIsNew
<1>3. accepted' = [accepted EXCEPT ![m.call] = 1] /\ accepted \in [Calls -> Nat]
  BY <1>1, <1>2 DEF Accept, TypeOK
<1>4. AcceptedOnce'
  BY <1>3 DEF AcceptInv, AcceptedOnce
<1>5. ASSUME NEW n \in sent, accepted'[n.call] # 0 PROVE Remembered(n)' \/ Stale(n)'
  <2>1. n.call \in Calls
    BY DEF TypeOK, Message
  <2>2. CASE n.call = m.call
    <3>1. n = m
      BY <2>2 DEF AcceptInv, SentOnce
    <3>2. [call |-> m.call, at |-> now] \in seen' /\ m.timestamp <= now + SKEW_MS
      BY <1>1, Numbers DEF Accept, Timely
    <3>3. QED
      BY <3>1, <3>2 DEF Remembered
  <2>3. CASE n.call # m.call
    <3>1. Remembered(n) \/ Stale(n)
      BY <1>3, <1>5, <2>1, <2>3 DEF AcceptInv
    <3>2. sweep \subseteq seen'
      BY DEF Accept
    <3>3. CASE Remembered(n)
      BY <3>2, <3>3, SweepKeeps
    <3>4. CASE Stale(n)
      BY <3>4 DEF Stale
    <3>5. QED
      BY <3>1, <3>3, <3>4
  <2>4. QED
    BY <2>2, <2>3
<1>6. QED
  BY <1>4, <1>5 DEF AcceptInv

(* A job of the hub that is used stays so.                                 *)
StaysUsed == \A c \in Calls : hub[c].at # "unused" => hub'[c].at # "unused"

LEMMA HubEndsStaysUsed ==
  ASSUME TypeOK, NEW c \in Calls, NEW at \in {"done", "error"}, NEW result,
         HubEnds(c, at, result)
  PROVE  StaysUsed
  BY DEF HubEnds, StaysUsed, TypeOK, HubJob

LEMMA HubStaysUsed == TypeOK /\ [Next]_vars => StaysUsed
<1> SUFFICES ASSUME TypeOK, [Next]_vars PROVE StaysUsed
  OBVIOUS
<1> hub \in [Calls -> HubJob]
  BY DEF TypeOK
<1>1. CASE UNCHANGED hub
  BY <1>1 DEF StaysUsed
<1>2. CASE HubRestart
  BY <1>2 DEF HubRestart, StaysUsed, HubJob
<1>3. ASSUME NEW a \in Approvals, StartJob(a) PROVE StaysUsed
  BY <1>3 DEF StartJob, StaysUsed, HubJob
<1>4. ASSUME NEW c \in Calls, CallTimesOut(c) \/ PollFails(c) PROVE StaysUsed
  BY <1>4, HubEndsStaysUsed DEF CallTimesOut, PollFails
<1>5. ASSUME NEW c \in Calls, Poll(c) PROVE StaysUsed
  BY <1>5, HubEndsStaysUsed DEF Poll, JobOf, TypeOK, NodeJob
<1>6. ASSUME NEW m \in sent, Arrives(m) PROVE StaysUsed
  BY <1>6 DEF Arrives, StaysUsed, HubJob
<1>7. ASSUME NEW m \in sent, TurnedAway(m) PROVE StaysUsed
  <2>1. m.call \in Calls
    BY DEF TypeOK, Message
  <2>2. QED
    BY <1>1, <1>7, <2>1, HubEndsStaysUsed DEF TurnedAway
<1>8. QED
  BY <1>1, <1>2, <1>3, <1>4, <1>5, <1>6, <1>7
     DEF Next, Serve, Answer, Tick, NodeRestart, BrokerRestart, TaskEnds, TaskThrows, Begin, Refuse,
         ChallengeExpires, ArrivesAgain, BrokerTimesOut, hubVars, vars

(* What a step does to calls sent and accepted.                            *)
LEMMA CallSteps ==
  ASSUME [Next]_vars
  PROVE  \/ \E a \in Approvals : StartJob(a)
         \/ \E m \in sent : Accept(m) /\ sent' = sent /\ now' = now
         \/ Tick
         \/ NodeRestart
         \/ /\ UNCHANGED <<sent, accepted, now>>
            /\ seen' = seen \/ seen' = sweep
  BY DEF Next, Serve, Answer, HubRestart, BrokerRestart, TaskEnds, TaskThrows, Begin, Refuse,
         ChallengeExpires, CallTimesOut, PollFails, Poll, Arrives, TurnedAway, ArrivesAgain,
         BrokerTimesOut, hubVars, nodeVars, brokerVars, vars

LEMMA NextSentOnce == TypeOK /\ SentOnce /\ [Next]_vars => SentOnce'
<1> SUFFICES ASSUME TypeOK, SentOnce, [Next]_vars PROVE SentOnce'
  OBVIOUS
<1> StaysUsed
  BY HubStaysUsed
<1> sent \subseteq Message /\ \A m \in sent : m.call \in Calls
  BY DEF TypeOK, Message
<1>1. ASSUME NEW a \in Approvals, StartJob(a) PROVE SentOnce'
  <2>1. PICK c \in Calls, ts \in Timestamps :
          /\ hub[c].at = "unused"
          /\ hub' = [hub EXCEPT ![c].at = "calling"]
          /\ sent' = sent \cup {[call |-> c, approval |-> a, timestamp |-> ts]}
          /\ accepted' = accepted
    BY <1>1 DEF StartJob, nodeVars
  <2>2. hub'[c].at = "calling"
    BY <2>1 DEF TypeOK, HubJob
  <2>3. \A m \in sent : m.call # c
    BY <2>1 DEF SentOnce
  <2>4. \A m \in sent' : m \in sent \/ m.call = c
    BY <2>1
  <2>5. \A m \in sent' : hub'[m.call].at # "unused"
    BY <2>2, <2>4 DEF SentOnce, StaysUsed
  <2>6. \A m, n \in sent' : m.call = n.call => m = n
    BY <2>1, <2>3 DEF SentOnce
  <2>7. \A d \in Calls : accepted'[d] # 0 => hub'[d].at # "unused"
    BY <2>1 DEF SentOnce, StaysUsed
  <2>8. QED
    BY <2>5, <2>6, <2>7 DEF SentOnce
<1>2. ASSUME NEW m \in sent, Accept(m), sent' = sent PROVE SentOnce'
  <2>1. \A d \in Calls : accepted'[d] # 0 => accepted[d] # 0 \/ d = m.call
    BY <1>2 DEF Accept, TypeOK
  <2>2. QED
    BY <1>2, <2>1 DEF SentOnce, StaysUsed
<1>3. CASE sent' = sent /\ \A d \in Calls : accepted'[d] # 0 => accepted[d] # 0
  BY <1>3 DEF SentOnce, StaysUsed
<1>4. QED
  BY <1>1, <1>2, <1>3, CallSteps DEF Tick, NodeRestart, hubVars, nodeVars

LEMMA NextAcceptInv == TypeOK /\ AcceptInv /\ [Next]_vars => AcceptInv'
<1> SUFFICES ASSUME TypeOK, AcceptInv, [Next]_vars PROVE AcceptInv'
  OBVIOUS
<1> SentOnce'
  BY NextSentOnce DEF AcceptInv
<1> \A m \in sent : m \in Message /\ m.call \in Calls /\ m.timestamp \in Nat
  BY DEF TypeOK, Message
<1>1. ASSUME NEW a \in Approvals, StartJob(a) PROVE AcceptInv'
  <2>1. PICK c \in Calls, ts \in Timestamps :
          /\ hub[c].at = "unused"
          /\ sent' = sent \cup {[call |-> c, approval |-> a, timestamp |-> ts]}
    BY <1>1 DEF StartJob
  <2>2. UNCHANGED <<now, seen, accepted>>
    BY <1>1 DEF StartJob, nodeVars
  <2>3. accepted[c] = 0
    BY <2>1 DEF AcceptInv, SentOnce
  <2>4. \A m \in sent : accepted[m.call] # 0 => Remembered(m)' \/ Stale(m)'
    BY <2>2 DEF AcceptInv, Remembered, Stale
  <2>5. \A m \in sent' : accepted'[m.call] # 0 => Remembered(m)' \/ Stale(m)'
    BY <2>1, <2>2, <2>3, <2>4
  <2>6. QED
    BY <2>2, <2>5 DEF AcceptInv, AcceptedOnce
<1>2. ASSUME NEW m \in sent, Accept(m), sent' = sent, now' = now PROVE AcceptInv'
  BY <1>2, AcceptKeeps
<1>3. CASE Tick
  <2>1. \A m \in sent : Stale(m) => Stale(m)'
    BY <1>3, Numbers DEF Tick, Stale, TypeOK
  <2>2. \A m \in sent : Remembered(m) => Remembered(m)'
    BY <1>3 DEF Tick, Remembered, nodeVars
  <2>3. QED
    BY <1>3, <2>1, <2>2 DEF Tick, AcceptInv, AcceptedOnce, hubVars, nodeVars
<1>4. CASE NodeRestart
  BY <1>4 DEF NodeRestart, AcceptInv, AcceptedOnce, hubVars
<1>5. CASE UNCHANGED <<sent, accepted, now>> /\ (seen' = seen \/ seen' = sweep)
  <2>1. sweep \subseteq seen'
    BY <1>5 DEF sweep
  <2>2. \A m \in sent : Remembered(m) \/ Stale(m) => Remembered(m)' \/ Stale(m)'
    BY <1>5, <2>1, SweepKeeps DEF Stale
  <2>3. QED
    BY <1>5, <2>2 DEF AcceptInv, AcceptedOnce
<1>6. QED
  BY <1>1, <1>2, <1>3, <1>4, <1>5, CallSteps

(* A node accepts no call twice as long as it runs, for any skew and any   *)
(* clocks.                                                                 *)
THEOREM NeverAcceptedTwice == Spec => []AcceptedOnce
<1>1. Init => AcceptInv
  BY DEF Init, AcceptInv, SentOnce, AcceptedOnce
<1>2. AcceptInv => AcceptedOnce
  BY DEF AcceptInv
<1>3. QED
  BY <1>1, <1>2, NextAcceptInv, TypeCorrect, PTL DEF Spec

-----------------------------------------------------------------------------
(* Reports.                                                                *)

(* The id was given to a job, and will not be given again.                 *)
Given(id) == id.life < life \/ (id.life = life /\ accepted[id.call] # 0)

(* No task of that id began or is going to.                                *)
Never(id) == \A x \in requests \cup began : x.id # id

(* Ids are given to one task each.                                         *)
IdInv ==
  /\ \A x \in requests \cup began \cup jobs : Given(x.id)
  /\ \A x, y \in requests : x.id = y.id => x = y
  /\ \A x \in requests, y \in began : x.id # y.id

(* A job is done with what was recorded, and refused only what stays       *)
(* undone: the same of the node's jobs, and of those of the hub.           *)
NodeTrue ==
  \A j \in jobs :
    /\ j.at = "done" => [id |-> j.id, outcome |-> j.result] \in ended
    /\ j.at = "error" /\ j.result = "refused" => Never(j.id)
IdOf(c) == [call |-> c, life |-> hub[c].life]
HubTrue ==
  \A c \in Calls :
    /\ hub[c].at = "done" => \/ [id |-> IdOf(c), outcome |-> hub[c].result] \in ended
                             \/ hub[c].result = "none" /\ used.faults > 0
    /\ hub[c].at = "error" /\ hub[c].result = "refused" => Given(IdOf(c)) /\ Never(IdOf(c))
ReportInv == IdInv /\ NodeTrue /\ HubTrue

(* What is given stays given.                                              *)
LEMMA GivenStays ==
  ASSUME TypeOK, [Next]_vars, NEW id \in JobId, Given(id)
  PROVE  Given(id)'
<1> id.call \in Calls /\ id.life \in Nat /\ life \in Nat /\ accepted \in [Calls -> Nat]
  BY DEF TypeOK, JobId
<1>1. ASSUME NEW m \in sent, Accept(m) PROVE Given(id)'
  <2>1. accepted'[id.call] = accepted[id.call] \/ accepted'[id.call] = accepted[id.call] + 1
    BY <1>1 DEF Accept
  <2>2. QED
    BY <1>1, <2>1 DEF Accept, Given
<1>2. CASE NodeRestart
  BY <1>2 DEF NodeRestart, Given
<1>3. CASE UNCHANGED <<life, accepted>>
  BY <1>3 DEF Given
<1>4. UNCHANGED <<life, accepted>> \/ NodeRestart \/ \E m \in sent : Accept(m)
  BY DEF Next, Serve, Answer, Tick, HubRestart, BrokerRestart, TaskEnds, TaskThrows, Begin, Refuse, StartJob,
         ChallengeExpires, CallTimesOut, PollFails, Poll, Arrives, TurnedAway, ArrivesAgain,
         BrokerTimesOut, hubVars, nodeVars, brokerVars, vars
<1>5. QED
  BY <1>1, <1>2, <1>3, <1>4

(* What a step does to tasks: it accepts a call, it hands a request on, or *)
(* it loses some.                                                          *)
LEMMA TaskSteps ==
  ASSUME [Next]_vars
  PROVE  \/ \E m \in sent : Accept(m) /\ UNCHANGED brokerVars
         \/ \E r \in requests : Begin(r)
         \/ requests' \subseteq requests /\ began' = began /\ ended \subseteq ended'
  BY DEF Next, Serve, Answer, Tick, HubRestart, NodeRestart, BrokerRestart, TaskEnds, TaskThrows, Refuse,
         StartJob, ChallengeExpires, CallTimesOut, PollFails, Poll, Arrives, TurnedAway,
         ArrivesAgain, BrokerTimesOut, hubVars, nodeVars, brokerVars, vars

(* Nobody ever takes up a task that never began, under an id given before. *)
LEMMA NeverStays ==
  ASSUME TypeOK, AcceptInv, [Next]_vars, NEW id \in JobId, Given(id), Never(id)
  PROVE  Never(id)'
<1>1. ASSUME NEW m \in sent, Accept(m), UNCHANGED brokerVars PROVE Never(id)'
  <2>1. accepted[m.call] = 0
    BY <1>1, AcceptedIsNew
  <2>2. id # [call |-> m.call, life |-> life]
    BY <2>1 DEF Given, TypeOK
  <2>3. QED
    BY <1>1, <2>2 DEF Accept, Never, brokerVars
<1>2. ASSUME NEW r \in requests, Begin(r) PROVE Never(id)'
  BY <1>2 DEF Begin, Never
<1>3. CASE requests' \subseteq requests /\ began' = began
  BY <1>3 DEF Never
<1>4. QED
  BY <1>1, <1>2, <1>3, TaskSteps

(* Records stay.                                                           *)
LEMMA EndedStays == [Next]_vars => ended \subseteq ended'
<1> SUFFICES ASSUME [Next]_vars PROVE ended \subseteq ended'
  OBVIOUS
<1>1. QED
  BY TaskSteps DEF Begin, brokerVars

(* A job that ends in one of these says nothing.                           *)
Broken == {"cut_off", "broker_timeout", "broker_error"}

(* Where jobs come from.                                                   *)
LEMMA JobSteps ==
  ASSUME TypeOK, [Next]_vars
  PROVE  \/ \E m \in sent : Accept(m) /\ UNCHANGED brokerVars
         \/ \E r \in requests : Refuse(r)
         \/ TaskEnds
         \/ \A j \in jobs' : \/ j \in jobs
                             \/ /\ \E i \in jobs : i.id = j.id
                                /\ j.at = "error" /\ j.result \in Broken
<1>1. CASE BrokerRestart
  <2>1. jobs' = {IF j.at = "running" THEN [j EXCEPT !.at = "error", !.result = "cut_off"]
                                     ELSE j : j \in jobs}
    BY <1>1 DEF BrokerRestart
  <2>2. QED
    BY <2>1, ZenonT(40) DEF TypeOK, NodeJob, Broken
<1>2. ASSUME NEW j \in jobs, BrokerTimesOut(j)
      PROVE  \A k \in jobs' : \/ k \in jobs
                              \/ /\ \E i \in jobs : i.id = k.id
                                 /\ k.at = "error" /\ k.result \in Broken
  BY <1>2, ZenonT(40) DEF BrokerTimesOut, Settled, TypeOK, NodeJob, Broken
<1>3. CASE jobs' \subseteq jobs
  BY <1>3
<1>3a. ASSUME TaskThrows
       PROVE  \A k \in jobs' : \/ k \in jobs
                               \/ /\ \E i \in jobs : i.id = k.id
                                  /\ k.at = "error" /\ k.result \in Broken
  BY <1>3a, ZenonT(40) DEF TaskThrows, Settled, TypeOK, NodeJob, Broken
<1>4. QED
  BY <1>1, <1>2, <1>3, <1>3a DEF Next, Serve, Answer, Tick, HubRestart, NodeRestart, Begin, StartJob,
     ChallengeExpires, CallTimesOut, PollFails, Poll, Arrives, TurnedAway, ArrivesAgain,
     hubVars, nodeVars, brokerVars, vars

LEMMA NextIdInv == TypeOK /\ AcceptInv /\ IdInv /\ [Next]_vars => IdInv'
<1> SUFFICES ASSUME TypeOK, AcceptInv, IdInv, [Next]_vars PROVE IdInv'
  OBVIOUS
<1> \A x \in requests \cup began \cup jobs : x.id \in JobId /\ Given(x.id)'
  BY GivenStays DEF TypeOK, Task, NodeJob, IdInv
<1>1. ASSUME NEW m \in sent, Accept(m), UNCHANGED brokerVars PROVE IdInv'
  <2> DEFINE id == [call |-> m.call, life |-> life]
  <2>1. accepted[m.call] = 0 /\ m.call \in Calls
    BY <1>1, AcceptedIsNew DEF TypeOK, Message
  <2>2. ~Given(id) /\ Given(id)'
    BY <1>1, <2>1 DEF Given, Accept, TypeOK
  <2>3. \A x \in requests \cup began : x.id # id
    BY <2>2 DEF IdInv
  <2>4. /\ requests' = requests \cup {[id |-> id, approval |-> m.approval]}
        /\ began' = began
        /\ \A j \in jobs' : j \in jobs \/ j.id = id
    BY <1>1 DEF Accept, brokerVars
  <2>5. \A x \in requests' \cup began' \cup jobs' : Given(x.id)'
    <3>1. id' = id
      BY <1>1 DEF Accept
    <3>2. \A x \in requests' \cup began' \cup jobs' :
            x \in requests \cup began \cup jobs \/ x.id = id
      BY <2>4
    <3>3. QED
      BY <2>2, <3>1, <3>2
  <2>6. \A x, y \in requests' : x.id = y.id => x = y
    BY <2>3, <2>4 DEF IdInv
  <2>7. \A x \in requests', y \in began' : x.id # y.id
    BY <2>3, <2>4 DEF IdInv
  <2>8. QED
    BY <2>5, <2>6, <2>7 DEF IdInv
<1>2. ASSUME \A j \in jobs' : \E i \in jobs : i.id = j.id,
             \/ \E r \in requests : Begin(r)
             \/ requests' \subseteq requests /\ began' = began
      PROVE  IdInv'
  <2>1. \A x \in requests' \cup began' \cup jobs' : Given(x.id)'
    BY <1>2 DEF Begin
  <2>2. \A x, y \in requests' : x.id = y.id => x = y
    BY <1>2 DEF Begin, IdInv
  <2>3. \A x \in requests', y \in began' : x.id # y.id
    BY <1>2 DEF Begin, IdInv
  <2>4. QED
    BY <2>1, <2>2, <2>3 DEF IdInv
<1>3. \/ \E m \in sent : Accept(m) /\ UNCHANGED brokerVars
      \/ \A j \in jobs' : \E i \in jobs : i.id = j.id
  <2>1. ASSUME NEW r \in requests, Refuse(r)
        PROVE  \A j \in jobs' : \E i \in jobs : i.id = j.id
    BY <2>1 DEF Refuse, Settled, TypeOK, NodeJob
  <2>2. ASSUME TaskEnds PROVE \A j \in jobs' : \E i \in jobs : i.id = j.id
    BY <2>2 DEF TaskEnds, Settled, TypeOK, NodeJob
  <2>3. QED
    BY <2>1, <2>2, JobSteps
<1>4. QED
  BY <1>1, <1>2, <1>3, TaskSteps

LEMMA NextNodeTrue ==
  TypeOK /\ AcceptInv /\ IdInv /\ NodeTrue /\ [Next]_vars => NodeTrue'
<1> SUFFICES ASSUME TypeOK, AcceptInv, IdInv, NodeTrue, [Next]_vars PROVE NodeTrue'
  OBVIOUS
<1> DEFINE True(j) ==
      /\ j.at = "done" => [id |-> j.id, outcome |-> j.result] \in ended'
      /\ j.at = "error" /\ j.result = "refused" => Never(j.id)'
<1>1. \A j \in jobs : True(j)
  <2>1. SUFFICES ASSUME NEW j \in jobs PROVE True(j)
    OBVIOUS
  <2>2. j.id \in JobId /\ Given(j.id)
    BY DEF TypeOK, NodeJob, IdInv
  <2>3. Never(j.id) => Never(j.id)'
    BY <2>2, NeverStays
  <2>4. QED
    BY <2>3, EndedStays DEF NodeTrue
<1>2. ASSUME NEW m \in sent, Accept(m) PROVE \A j \in jobs' : True(j)
  <2>1. \A j \in jobs' : j \in jobs \/ j.at = "running"
    BY <1>2 DEF Accept
  <2>2. QED
    BY <1>1, <2>1
<1>3. ASSUME NEW r \in requests, Refuse(r) PROVE \A j \in jobs' : True(j)
  <2>1. Never(r.id)'
    BY <1>3 DEF Refuse, Never, IdInv
  <2>2. \A j \in jobs' : j \in jobs \/ (j.at = "error" /\ j.id = r.id)
    BY <1>3 DEF Refuse, Settled, TypeOK, NodeJob
  <2>3. QED
    BY <1>1, <2>1, <2>2
<1>4. ASSUME TaskEnds PROVE \A j \in jobs' : True(j)
  <2>1. PICK o \in {"applied", "failed"} :
          /\ ended' = ended \cup {[id |-> running.id, outcome |-> o]}
          /\ jobs' = Settled(running.id, "done", o)
    BY <1>4 DEF TaskEnds
  <2>2. \A j \in jobs' : j \in jobs \/ (j.at = "done" /\ j.id = running.id /\ j.result = o)
    BY <2>1 DEF Settled, TypeOK, NodeJob
  <2>3. ASSUME NEW j, j.at = "done", j.id = running.id, j.result = o PROVE True(j)
    BY <2>1, <2>3
  <2>4. QED
    BY <1>1, <2>2, <2>3
<1>5. ASSUME \A j \in jobs' : \/ j \in jobs
                             \/ /\ \E i \in jobs : i.id = j.id
                                /\ j.at = "error" /\ j.result \in Broken
      PROVE  \A j \in jobs' : True(j)
  BY <1>1, <1>5 DEF Broken
<1>6. \A j \in jobs' : True(j)
  BY <1>2, <1>3, <1>4, <1>5, JobSteps
<1>7. QED
  BY <1>6 DEF NodeTrue

(* What a step does to a job of the hub: the job starts, or hears of the   *)
(* node's job, or ends with the result of that, or ends with an error of   *)
(* its own, or is forgotten.                                               *)
LEMMA HubSteps ==
  ASSUME TypeOK, [Next]_vars, NEW c \in Calls
  PROVE  \/ hub'[c] = hub[c]
         \/ hub'[c].at \notin {"done", "error"}
         \/ hub'[c].at = "error" /\ hub'[c].result # "refused"
         \/ hub'[c].at = "done" /\ hub'[c].result = "none" /\ used'.faults > 0
         \/ /\ hub'[c].life = hub[c].life
            /\ \E j \in jobs : j.id = IdOf(c) /\ hub'[c].at = j.at /\ hub'[c].result = j.result
<1> hub \in [Calls -> HubJob]
  BY DEF TypeOK
<1>1. ASSUME NEW d \in Calls, NEW result \in Result \ {"refused"}, HubEnds(d, "error", result)
      PROVE  hub'[c] = hub[c] \/ (hub'[c].at = "error" /\ hub'[c].result # "refused")
  BY <1>1 DEF HubEnds, HubJob
<1>2. CASE HubRestart
  BY <1>2 DEF HubRestart, HubJob
<1>3. ASSUME NEW a \in Approvals, StartJob(a)
      PROVE  hub'[c] = hub[c] \/ hub'[c].at \notin {"done", "error"}
  BY <1>3 DEF StartJob, HubJob
<1>4. ASSUME NEW d \in Calls, CallTimesOut(d) \/ PollFails(d)
      PROVE  \/ hub'[c] = hub[c]
             \/ hub'[c].at = "error" /\ hub'[c].result # "refused"
             \/ hub'[c].at = "done" /\ hub'[c].result = "none" /\ used'.faults > 0
  <2>1. used'.faults > 0
    BY <1>4 DEF CallTimesOut, PollFails, Fault, TypeOK
  <2>2. CASE HubEnds(d, "done", "none")
    BY <2>1, <2>2 DEF HubEnds, HubJob
  <2>3. QED
    BY <1>1, <1>4, <2>2 DEF CallTimesOut, PollFails, Result
<1>5. ASSUME NEW d \in Calls, Poll(d)
      PROVE  \/ hub'[c] = hub[c]
             \/ hub'[c].at = "error" /\ hub'[c].result # "refused"
             \/ /\ hub'[c].life = hub[c].life
                /\ \E j \in jobs : j.id = IdOf(c) /\ hub'[c].at = j.at /\ hub'[c].result = j.result
  <2>1. CASE HubEnds(d, "error", "job_not_found")
    BY <1>1, <2>1 DEF Result
  <2>2. ASSUME NEW j \in JobOf(d), HubEnds(d, j.at, j.result)
        PROVE  \/ hub'[c] = hub[c]
               \/ /\ hub'[c].life = hub[c].life /\ j.id = IdOf(c)
                  /\ hub'[c].at = j.at /\ hub'[c].result = j.result
    BY <2>2 DEF HubEnds, JobOf, IdOf, HubJob
  <2>3. QED
    BY <1>5, <2>1, <2>2 DEF Poll, JobOf
<1>6. ASSUME NEW m \in sent, Arrives(m)
      PROVE  hub'[c] = hub[c] \/ hub'[c].at \notin {"done", "error"}
  BY <1>6 DEF Arrives, HubJob
<1>7. ASSUME NEW m \in sent, TurnedAway(m)
      PROVE  hub'[c] = hub[c] \/ (hub'[c].at = "error" /\ hub'[c].result # "refused")
  <2>1. m.call \in Calls
    BY DEF TypeOK, Message
  <2>2. QED
    BY <1>1, <1>7, <2>1 DEF TurnedAway, Result
<1>8. QED
  BY <1>2, <1>3, <1>4, <1>5, <1>6, <1>7
     DEF Next, Serve, Answer, Tick, NodeRestart, BrokerRestart, TaskEnds, TaskThrows, Begin, Refuse,
         ChallengeExpires, ArrivesAgain, BrokerTimesOut, hubVars, vars

LEMMA NextHubTrue ==
  TypeOK /\ AcceptInv /\ ReportInv /\ [Next]_vars => HubTrue'
<1> SUFFICES ASSUME TypeOK, AcceptInv, ReportInv, [Next]_vars, NEW c \in Calls
             PROVE  /\ hub'[c].at = "done" =>
                         \/ [id |-> IdOf(c)', outcome |-> hub'[c].result] \in ended'
                         \/ hub'[c].result = "none" /\ used'.faults > 0
                    /\ hub'[c].at = "error" /\ hub'[c].result = "refused" =>
                         Given(IdOf(c))' /\ Never(IdOf(c))'
  BY DEF HubTrue
<1>1. IdOf(c) \in JobId
  BY DEF IdOf, JobId, TypeOK, HubJob
<1>2. Given(IdOf(c)) /\ Never(IdOf(c)) /\ IdOf(c)' = IdOf(c) => Given(IdOf(c))' /\ Never(IdOf(c))'
  <2>1. ASSUME NEW id \in JobId, Given(id), Never(id), IdOf(c)' = id
        PROVE  Given(IdOf(c))' /\ Never(IdOf(c))'
    BY <2>1, GivenStays, NeverStays
  <2>2. QED
    BY <1>1, <2>1
<1>2a. used.faults > 0 => used'.faults > 0
  <2>1. Fault \/ RestartOne \/ UNCHANGED used
    BY DEF Next, Serve, Answer, Tick, HubRestart, NodeRestart, BrokerRestart, TaskEnds,
           TaskThrows, Begin, Refuse, StartJob, ChallengeExpires, CallTimesOut, PollFails, Poll,
           Arrives, TurnedAway, ArrivesAgain, BrokerTimesOut, vars
  <2>2. QED
    BY <2>1 DEF TypeOK, Fault, RestartOne
<1>3. CASE hub'[c] = hub[c]
  BY <1>2, <1>2a, <1>3, EndedStays DEF ReportInv, HubTrue, IdOf
<1>4. ASSUME NEW j \in jobs, j.id = IdOf(c), hub'[c].life = hub[c].life,
             hub'[c].at = j.at, hub'[c].result = j.result
      PROVE  /\ hub'[c].at = "done" =>
                  [id |-> IdOf(c)', outcome |-> hub'[c].result] \in ended'
             /\ hub'[c].at = "error" /\ hub'[c].result = "refused" =>
                  Given(IdOf(c))' /\ Never(IdOf(c))'
  <2>1. IdOf(c)' = IdOf(c)
    BY <1>4 DEF IdOf
  <2>2. Given(IdOf(c))
    BY <1>4 DEF ReportInv, IdInv
  <2>3. QED
    BY <1>2, <1>4, <2>1, <2>2, EndedStays DEF ReportInv, NodeTrue
<1>5. QED
  BY <1>3, <1>4, HubSteps

(* The outcome a job of the dashboard is done with is the recorded one, and*)
(* what it calls refused never began, for any number of calls, losses and  *)
(* restarts; a job done without an outcome lost an answer.                 *)
THEOREM ReportsHold == Spec => []ReportsAreTrue
<1>1. Init => AcceptInv /\ ReportInv
  BY DEF Init, AcceptInv, SentOnce, AcceptedOnce, ReportInv, IdInv, NodeTrue, HubTrue
<1>2. ReportInv => ReportsAreTrue
  BY DEF ReportInv, HubTrue, ReportsAreTrue, IdOf, Never
<1>3. TypeOK /\ AcceptInv /\ ReportInv /\ [Next]_vars => ReportInv'
  BY NextIdInv, NextNodeTrue, NextHubTrue DEF ReportInv
<1>4. QED
  BY <1>1, <1>2, <1>3, NextAcceptInv, TypeCorrect, PTL DEF Spec

=============================================================================
