------------------------------- MODULE Review -------------------------------
(***************************************************************************)
(* A proposal from the agent to the operator's decision.  The agent hands  *)
(* drafts to the broker (bin/nox-propose.js), which stores them as files   *)
(* (src/changes/proposals.js).  The dashboard lists the files together with*)
(* the changes the broker recorded and the operator's rejections           *)
(* (src/routes/api/changes.js).  Pages load the list, again and again, and *)
(* take the operator's decisions (public/js/changes.js): loads overtake    *)
(* each other and decisions, and each page knows only what it loaded last. *)
(*                                                                         *)
(* How the broker checks an approval is ChangeBroker's subject; here it may*)
(* refuse any.  Proposals are numbered in the order of their ids.          *)
(***************************************************************************)
EXTENDS Integers, FiniteSets, FiniteSetsExt, Sequences, ProposalPolicy

CONSTANTS
  Pages,           \* browser tabs of the operator
  Drafts,          \* what the agent may propose
  MAX_PENDING, MAX_AGE, MAX_LISTED,
  MAX_REJECTIONS,  \* how many rejections the file keeps
  HISTORY,         \* how many changes the list of changes goes back
  Limits           \* bounds: one of these is chosen at the start

(* The list is longer than the store, and the rejections outlast the files *)
(* they are about: of the proposals alive with one, fewer than MAX_PENDING *)
(* are older and fewer than MAX_PENDING take the places these leave.       *)
ASSUME ReviewAssumption ==
  /\ {MAX_PENDING, MAX_AGE, MAX_LISTED, MAX_REJECTIONS, HISTORY} \subseteq Nat \ {0}
  /\ MAX_LISTED >= MAX_PENDING
  /\ MAX_REJECTIONS >= 2 * MAX_PENDING - 1
  /\ \A l \in Limits : l \in [{"time", "proposals", "rejections", "decisions", "loads", "faults"} -> Nat]
  /\ \A d \in Drafts : d \in Draft

VARIABLES
  limit,       \* the bounds of this behaviour
  used,        \* how much of them is spent
  now,         \* the clock
  files,       \* the proposals directory
  accepted,    \* history: every proposal that was accepted, and when
  answer,      \* what the agent was told last
  rejections,  \* proposal-rejections.json: when each of them was rejected
  turnedDown,  \* history: what was rejected since the file was last torn
  changes,     \* the broker's records, in the order they began
  calls,       \* jobs whose request the broker has not taken up
  running,     \* the job the broker runs, 0 for none
  jobs,        \* the jobs of the dashboard
  loads,       \* lists under way to a page
  list,        \* what a page shows of each proposal
  deciding,    \* busy: the decisions a page is carrying out
  results      \* what a page says of its decisions

storeVars == <<files, accepted, answer>>
hubVars   == <<rejections, turnedDown, jobs>>
taskVars  == <<changes, calls, running>>
pageVars  == <<loads, list, deciding, results>>
vars == <<limit, used, now, storeVars, hubVars, taskVars, pageVars>>

Ids  == 1..limit.proposals

File   == [id : Nat, proposal : Draft, at : Nat]
Status == {"absent", "pending", "rejected", "running", "applied", "failed",
           "auto_rolled_back", "rolled_back"}
Change == [id : Nat, status : Status \ {"absent", "pending", "rejected"}]
Job    == [what : {"apply", "rollback"}, of : Nat, change : Nat, at : {"running", "done", "error", "gone"},
           result : {"none", "applied", "failed", "auto_rolled_back", "rolled_back", "not_rolled_back"}]
Load   == [page : Pages, at : {"sent", "reading"}, names : SUBSET Nat, rejected : SUBSET Nat]
Decision == [page : Pages, what : {"apply", "rollback"}, of : Nat,
             at : {"asking", "signing", "sending", "polling"}, job : Nat]
Result == [page : Pages, what : {"apply", "rollback"}, of : Nat, text : Status \cup {"error", "not_rolled_back"}]

NoRejections == [id \in {} |-> 0]

Init ==
  /\ limit \in Limits
  /\ used = [rejections |-> 0, decisions |-> 0, faults |-> 0]
  /\ now = 0
  /\ files = {} /\ accepted = {} /\ answer = "none"
  /\ rejections = NoRejections /\ turnedDown = {}
  /\ changes = <<>> /\ calls = {} /\ running = 0
  /\ jobs = <<>>
  /\ loads = {} /\ deciding = {} /\ results = {}
  /\ list = [p \in Pages |-> [id \in Ids |-> "absent"]]

Spend(what) ==
  /\ used[what] < limit[what]
  /\ used' = [used EXCEPT ![what] = @ + 1]
(* The agent is told nothing, and the directory is as it was.              *)
StoreKept == answer' = "none" /\ UNCHANGED <<limit, now, files, accepted>>
PageOnly  == StoreKept /\ UNCHANGED <<hubVars, taskVars>>

Tick ==
  /\ now < limit.time
  /\ now' = now + 1
  /\ answer' = "none"
  /\ UNCHANGED <<limit, used, files, accepted, hubVars, taskVars, pageVars>>

-----------------------------------------------------------------------------
(* The store: POST /propose on the agent's socket.                         *)

(* Mutant: what is as old as allowed goes already.                         *)
Pruned_Early == {f \in files : now - f.at < MAX_AGE}

(* prune(): before each save, and at no other time.                        *)
Pruned == {f \in files : now - f.at <= MAX_AGE}

Next_id == Cardinality(accepted) + 1

(* The journal may fail after the file is there: the agent is told of an   *)
(* error and may well propose the same again.                              *)
Answers == {"saved", "probe_error"}

(* Mutant: the places are counted before old files are removed.            *)
save_CountFirst(d) ==
  IF Cardinality(files) >= MAX_PENDING
  THEN answer' = "too_many_pending_proposals" /\ files' = Pruned /\ UNCHANGED accepted
  ELSE IF ~Accepted(d)
  THEN answer' = "bad_proposal" /\ files' = Pruned /\ UNCHANGED accepted
  ELSE /\ Next_id \in Ids
       /\ files' = Pruned \cup {[id |-> Next_id, proposal |-> normalizeProposal(d), at |-> now]}
       /\ accepted' = accepted \cup {[id |-> Next_id, at |-> now]}
       /\ answer' \in Answers

(* The id is given here, the form is normalised, the file is complete when *)
(* it appears.                                                             *)
save(d) ==
  IF Cardinality(Pruned) >= MAX_PENDING
  THEN answer' = "too_many_pending_proposals" /\ files' = Pruned /\ UNCHANGED accepted
  ELSE IF ~Accepted(d)
  THEN answer' = "bad_proposal" /\ files' = Pruned /\ UNCHANGED accepted
  ELSE /\ Next_id \in Ids
       /\ files' = Pruned \cup {[id |-> Next_id, proposal |-> normalizeProposal(d), at |-> now]}
       /\ accepted' = accepted \cup {[id |-> Next_id, at |-> now]}
       /\ answer' \in Answers

(* nox-propose builds a draft and submits it.                              *)
Propose(d) ==
  /\ save(d)
  /\ UNCHANGED <<limit, used, now, hubVars, taskVars, pageVars>>

-----------------------------------------------------------------------------
(* The dashboard's reads.                                                  *)

(* loadProposal(): what is read again must pass again, unchanged.          *)
loadProposal(id) == {f.proposal : f \in {g \in files : g.id = id /\ Accepted(g.proposal)}}

(* The records the broker returns; the oldest of a proposal's is shown.    *)
Listed == {n \in DOMAIN changes : n > Len(changes) - HISTORY}
Of(id) == {n \in Listed : changes[n].id = id}

statusOf(id, rejected, reached) ==
  CASE reached /\ Of(id) # {} -> changes[CHOOSE n \in Of(id) : \A k \in Of(id) : n <= k].status
    [] ~(reached /\ Of(id) # {}) /\ id \in rejected -> "rejected"
    [] OTHER -> "pending"

Newest(names) == {id \in names : Cardinality({k \in names : k > id}) < MAX_LISTED}

(* GET /changes/proposals: the names and the rejections are read before the*)
(* history is awaited, the files after it.                                 *)
proposalList(names, rejected, reached) ==
  [id \in Ids |-> IF id \in Newest(names) /\ loadProposal(id) # {}
                  THEN statusOf(id, rejected, reached) ELSE "absent"]

ListBegins(p) ==
  /\ [page |-> p, at |-> "sent", names |-> {}, rejected |-> {}] \in loads
  /\ loads' = (loads \ {[page |-> p, at |-> "sent", names |-> {}, rejected |-> {}]})
              \cup {[page |-> p, at |-> "reading", names |-> {f.id : f \in files},
                     rejected |-> DOMAIN rejections]}
  /\ PageOnly /\ UNCHANGED <<used, list, deciding, results>>

(* The answers of two loads of a page may arrive in either order.          *)
ListArrives(p) ==
  \E l \in loads :
    /\ l.page = p /\ l.at = "reading"
    /\ loads' = loads \ {l}
    /\ list' = [list EXCEPT ![p] = proposalList(l.names, l.rejected, TRUE)]
    /\ PageOnly /\ UNCHANGED <<used, deciding, results>>

(* The broker or the node of a change does not answer, or the list fails:  *)
(* the page then keeps what it has.                                        *)
ListFails(p) ==
  \E l \in loads :
    /\ l.page = p /\ l.at = "reading"
    /\ Spend("faults")
    /\ loads' = loads \ {l}
    /\ \/ list' = [list EXCEPT ![p] = proposalList(l.names, l.rejected, FALSE)]
       \/ UNCHANGED list
    /\ PageOnly /\ UNCHANGED <<deciding, results>>

-----------------------------------------------------------------------------
(* A page.                                                                 *)

Asked(p) == loads' = loads \cup {[page |-> p, at |-> "sent", names |-> {}, rejected |-> {}]}

(* The timer, every 25 seconds, if nothing is being decided.               *)
Refresh(p) ==
  /\ Cardinality(loads) < limit.loads
  /\ \A d \in deciding : d.page # p
  /\ Asked(p)
  /\ PageOnly /\ UNCHANGED <<used, list, deciding, results>>

(* card() and historyCard(): the page offers to apply what it shows as     *)
(* pending, and to undo what was applied when it last looked.              *)
Offered(p, what, of) ==
  IF what = "apply" THEN list[p][of] = "pending"
  ELSE of \in DOMAIN changes /\ changes[of].status \in {"applied", "rolled_back"}

(* approveProposal() and rollbackChange(): a button is clicked.            *)
Decide(p, what, of) ==
  /\ \A d \in deciding : ~(d.page = p /\ d.what = what /\ d.of = of)
  /\ Offered(p, what, of)
  /\ Spend("decisions")
  /\ deciding' = deciding \cup {[page |-> p, what |-> what, of |-> of, at |-> "asking", job |-> 0]}
  /\ results' = {r \in results : ~(r.page = p /\ r.what = what /\ r.of = of)}
  /\ PageOnly /\ UNCHANGED <<loads, list>>

(* finally: the page is free again and loads.                              *)
Settled(d, text) ==
  /\ deciding' = deciding \ {d}
  /\ results' = {r \in results : ~(r.page = d.page /\ r.what = d.what /\ r.of = d.of)}
                \cup {[page |-> d.page, what |-> d.what, of |-> d.of, text |-> text]}
  /\ Asked(d.page)

Goes(d, at, n) ==
  /\ deciding' = (deciding \ {d}) \cup {[d EXCEPT !.at = at, !.job = n]}
  /\ UNCHANGED <<loads, results>>

There(d) == IF d.what = "apply" THEN loadProposal(d.of) # {} ELSE TRUE

(* The challenge is issued, or refused; the key signs, or the operator     *)
(* thinks better of it.                                                    *)
Sign(d) ==
  /\ d.at \in {"asking", "signing"}
  /\ \/ d.at = "asking" /\ There(d) /\ Goes(d, "signing", 0)
     \/ d.at = "signing" /\ Goes(d, "sending", 0)
     \/ Settled(d, "error")
  /\ PageOnly /\ UNCHANGED <<used, list>>

(* POST .../apply and .../rollback: startJob().                            *)
startJob(d) ==
  /\ d.at = "sending"
  /\ IF There(d)
     THEN /\ jobs' = Append(jobs, [what |-> d.what, of |-> d.of, change |-> 0,
                                   at |-> "running", result |-> "none"])
          /\ calls' = calls \cup {Len(jobs) + 1}
          /\ Goes(d, "polling", Len(jobs) + 1)
     ELSE UNCHANGED <<jobs, calls>> /\ Settled(d, "error")
  /\ StoreKept /\ UNCHANGED <<used, rejections, turnedDown, changes, running, list>>

(* GET /changes/jobs/:id: a job that is gone is not found, an error too.   *)
PollAnswer(n) ==
  CASE jobs[n].at = "done" -> jobs[n].result
    [] jobs[n].at = "running" -> "running"
    [] OTHER -> "error"

(* Mutant: every job that is done is taken for an applied change.          *)
pollJob_Applied(d) ==
  /\ d.at = "polling"
  /\ IF PollAnswer(d.job) = "running"
     THEN Spend("faults") /\ Settled(d, "error")
     ELSE /\ Settled(d, IF PollAnswer(d.job) # "error" /\ d.what = "apply" THEN "applied" ELSE PollAnswer(d.job))
          /\ UNCHANGED used
  /\ PageOnly /\ UNCHANGED <<list>>

(* Mutant: a job that is gone is polled for ever.                          *)
pollJob_Forever(d) ==
  /\ d.at = "polling"
  /\ jobs[d.job].at # "gone" /\ PollAnswer(d.job) # "running"
  /\ Settled(d, PollAnswer(d.job))
  /\ UNCHANGED used
  /\ PageOnly /\ UNCHANGED <<list>>

(* A job is done, has failed or is gone; or a poll fails or the last of 800*)
(* finds it still running, which the page takes for a failure.             *)
pollJob(d) ==
  /\ d.at = "polling"
  /\ IF PollAnswer(d.job) = "running"
     THEN Spend("faults") /\ Settled(d, "error")
     ELSE Settled(d, PollAnswer(d.job)) /\ UNCHANGED used
  /\ PageOnly /\ UNCHANGED <<list>>

-----------------------------------------------------------------------------
(* Rejections.                                                             *)

(* map[proposal.id] = Date.now(): each rejection is later than the last.   *)
Rejected(id) ==
  [k \in DOMAIN rejections \cup {id} |-> IF k = id THEN used.rejections + 1 ELSE rejections[k]]

(* The latest MAX_REJECTIONS are kept.                                     *)
Recent(map) ==
  {k \in DOMAIN map : Cardinality({j \in DOMAIN map : map[j] > map[k]}) < MAX_REJECTIONS}
writeRejections(map) == rejections' = [k \in Recent(map) |-> map[k]]

(* POST .../reject: whatever else is decided about the proposal.           *)
RejectPosted(id) ==
  /\ loadProposal(id) # {}
  /\ Spend("rejections")
  /\ writeRejections(Rejected(id))
  /\ turnedDown' = turnedDown \cup {id}
  /\ StoreKept /\ UNCHANGED <<jobs, taskVars, list, deciding, results>>

reject(p, id) ==
  /\ list[p][id] = "pending"
  /\ \A d \in deciding : ~(d.page = p /\ d.what = "apply" /\ d.of = id)
  /\ RejectPosted(id)
  /\ Asked(p)

(* The operator has other pages, on a phone, say.                          *)
RejectElsewhere(id) == RejectPosted(id) /\ UNCHANGED loads

RejectFails(p, id) ==
  /\ list[p][id] = "pending"
  /\ loadProposal(id) = {}
  /\ results' = {r \in results : ~(r.page = p /\ r.what = "apply" /\ r.of = id)}
                \cup {[page |-> p, what |-> "apply", of |-> id, text |-> "error"]}
  /\ Asked(p)
  /\ PageOnly /\ UNCHANGED <<used, list, deciding>>

(* The web service is started again: its jobs and the requests it was      *)
(* serving are gone; the broker goes on.  It may go down while it writes   *)
(* the rejections, which then cannot be read: all of them are forgotten.   *)
HubRestart ==
  /\ Spend("faults")
  /\ jobs' = [n \in DOMAIN jobs |-> [jobs[n] EXCEPT !.at = "gone"]]
  /\ loads' = {l \in loads : l.at = "sent"}
  /\ \/ UNCHANGED <<rejections, turnedDown>>
     \/ rejections' = NoRejections /\ turnedDown' = {}
  /\ StoreKept /\ UNCHANGED <<taskVars, list, deciding, results>>

-----------------------------------------------------------------------------
(* The broker and its executor.                                            *)

JobEnds(n, at, result) ==
  jobs' = IF jobs[n].at = "running" THEN [jobs EXCEPT ![n].at = at, ![n].result = result] ELSE jobs

Begin(n) ==
  /\ n \in calls /\ running = 0
  /\ jobs[n].what = "rollback" => changes[jobs[n].of].status = "applied"
  /\ calls' = calls \ {n}
  /\ running' = n
  /\ changes' = IF jobs[n].what = "rollback" THEN changes
                ELSE Append(changes, [id |-> jobs[n].of, status |-> "running"])
  /\ jobs' = [jobs EXCEPT ![n].change = Len(changes')]
  /\ StoreKept /\ UNCHANGED <<used, rejections, turnedDown, pageVars>>

(* Not approved, busy, locked, not to be undone: nothing began.            *)
Refuse(n) ==
  /\ n \in calls
  /\ calls' = calls \ {n}
  /\ JobEnds(n, "error", "none")
  /\ StoreKept /\ UNCHANGED <<used, rejections, turnedDown, changes, running, pageVars>>

TaskEnds ==
  /\ running # 0
  /\ running' = 0
  /\ \E s \in IF jobs[running].what = "apply" THEN {"applied", "failed", "auto_rolled_back"}
              ELSE {"rolled_back", "not_rolled_back"} :
       /\ changes' = IF s = "not_rolled_back" THEN changes
                     ELSE IF jobs[running].what = "apply" THEN [changes EXCEPT ![jobs[running].change].status = s]
                     ELSE [changes EXCEPT ![jobs[running].of].status = s]
       /\ JobEnds(running, "done", s)
  /\ StoreKept /\ UNCHANGED <<used, rejections, turnedDown, calls, pageVars>>

(* The broker is started again: the task it ran is marked as failed, what  *)
(* it was asked is not answered.                                           *)
BrokerRestart ==
  /\ Spend("faults")
  /\ running' = 0 /\ calls' = {}
  /\ changes' = [n \in DOMAIN changes |-> IF changes[n].status = "running"
                                          THEN [changes[n] EXCEPT !.status = "failed"] ELSE changes[n]]
  /\ jobs' = [n \in DOMAIN jobs |-> IF jobs[n].at = "running"
                                    THEN [jobs[n] EXCEPT !.at = "error"] ELSE jobs[n]]
  /\ StoreKept /\ UNCHANGED <<rejections, turnedDown, pageVars>>

-----------------------------------------------------------------------------

ListStep(p)   == ListBegins(p) \/ ListArrives(p) \/ ListFails(p)
DecisionStep(p) == \E d \in {e \in deciding : e.page = p} : Sign(d) \/ startJob(d) \/ pollJob(d)
TaskStep      == TaskEnds \/ \E n \in calls : Begin(n) \/ Refuse(n)

Next ==
  \/ \E d \in Drafts : Propose(d)
  \/ \E p \in Pages :
       \/ ListStep(p) \/ DecisionStep(p) \/ Refresh(p)
       \/ \E id \in Ids : reject(p, id) \/ RejectFails(p, id) \/ Decide(p, "apply", id)
       \/ \E n \in DOMAIN changes : Decide(p, "rollback", n)
  \/ \E id \in Ids : RejectElsewhere(id)
  \/ TaskStep \/ HubRestart \/ BrokerRestart \/ Tick

(* Lists are answered or fail within the time limits of client.js; a page  *)
(* that is looked at has its timer; what is being decided moves on, since  *)
(* the browser gives up on a key after 90 seconds and on a job after 800   *)
(* polls; the broker answers every request.                                *)
Fairness ==
  /\ \A p \in Pages : WF_vars(ListBegins(p)) /\ WF_vars(ListArrives(p))
                      /\ WF_vars(Refresh(p)) /\ WF_vars(DecisionStep(p))
  /\ WF_vars(TaskStep)

Spec == Init /\ [][Next]_vars /\ Fairness

-----------------------------------------------------------------------------
(* Every variable has its type, and no page decides one thing twice at a   *)
(* time.                                                                   *)
TypeOK ==
  /\ limit \in Limits
  /\ used \in [{"rejections", "decisions", "faults"} -> Nat] /\ now \in Nat
  /\ files \subseteq File /\ accepted \subseteq [id : Ids, at : Nat]
  /\ answer \in {"none", "saved", "probe_error", "bad_proposal", "too_many_pending_proposals"}
  /\ rejections \in [DOMAIN rejections -> Nat] /\ DOMAIN rejections \subseteq Ids /\ turnedDown \subseteq Ids
  /\ changes \in Seq(Change) /\ jobs \in Seq(Job)
  /\ calls \subseteq DOMAIN jobs /\ running \in DOMAIN jobs \cup {0}
  /\ loads \subseteq Load
  /\ list \in [Pages -> [Ids -> Status]]
  /\ deciding \subseteq Decision /\ results \subseteq Result
  /\ \A d, e \in deciding : d.page = e.page /\ d.what = e.what /\ d.of = e.of => d = e

Fresh == proposalList({f.id : f \in files}, DOMAIN rejections, TRUE)

NeverShown(id) == \E f \in files : f.id = id /\ Outgrown(f.proposal)

(* A fresh list offers what waits for a decision, and nothing else.  A     *)
(* proposal that was accepted is offered for MAX_AGE, as nox-propose.js    *)
(* tells the agent, until it is decided on: its file has not been removed, *)
(* the list reaches back to it and it passes when it is read again.  What  *)
(* the operator rejected is not offered again as long as its file is there,*)
(* however much is rejected after it.  What does not pass again is the     *)
(* exception, and there are two such forms: a path that comes down to the  *)
(* root, and a diff of just the allowed length that lacks its last newline.*)
(* They are accepted, take a place for a day and are never seen.           *)
OfferedIffWaiting ==
  /\ \A a \in accepted :
       \/ now - a.at > MAX_AGE
       \/ \E n \in DOMAIN changes : changes[n].id = a.id
       \/ a.id \in turnedDown
       \/ Fresh[a.id] = "pending"
       \/ NeverShown(a.id)
  /\ \A id \in turnedDown : Fresh[id] # "pending"

(* The agent is turned away only when as many proposals as allowed are     *)
(* there that are not too old: a full directory empties by itself.         *)
RefusedOnlyWhenFull ==
  [][answer' = "too_many_pending_proposals"
       => Cardinality({f \in files' : now' - f.at <= MAX_AGE}) >= MAX_PENDING]_vars

(* When a page says that a change was applied or undone, it was: whichever *)
(* decisions overlap and whatever is started again.                        *)
ResultsAreTrue ==
  \A r \in results :
    /\ r.text = "applied" =>
         \E n \in DOMAIN changes : changes[n].id = r.of /\ changes[n].status \in {"applied", "rolled_back"}
    /\ r.text = "rolled_back" => changes[r.of].status = "rolled_back"

(* Every variable has its type, and results shown on a page are true       *)
(* (src/routes/api/changes.js, public/js/changes.js).                      *)
ResultsHold == TypeOK /\ ResultsAreTrue

Decided(id) ==
  \/ id \in turnedDown
  \/ \E n \in Listed : changes[n].id = id

(* A page comes to know: what was decided, on this page or another, is not *)
(* offered for good, although loads overtake each other and are put off    *)
(* while the page is busy.                                                 *)
PageCatchesUp ==
  \A p \in Pages, id \in 1..Max({l.proposals : l \in Limits}) :
    id \in DOMAIN list[p] /\ Decided(id) ~> [](Decided(id) => list[p][id] # "pending")
=============================================================================
