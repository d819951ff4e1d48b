---------------------------- MODULE ReviewProofs ----------------------------
(***************************************************************************)
(* Proofs about Review, for every number of pages, proposals, decisions    *)
(* and rejections:                                                         *)
(*                                                                         *)
(*   ReviewRefuses   the agent is turned away only by a full directory     *)
(*   ReviewOffers    a fresh list offers what waits for a decision         *)
(*   ReviewTells     what a page says of its decisions is true             *)
(*                                                                         *)
(* The second rests on StoreInv.  A rejection is dropped from the file when*)
(* MAX_REJECTIONS others are later.  Those that are later than that of a   *)
(* file still there are of files alive with it: the older ones were there  *)
(* when it was saved, and the newer ones are still there, because files    *)
(* are removed by age.  The third rests on TasksInv: a record that says    *)
(* that a change was applied or undone is not written over.                *)
(***************************************************************************)
EXTENDS Review, FiniteSetTheorems, WellFoundedInduction, TLAPS

(* The proposals that were there when f was saved.                         *)
Older(f) == {a.id : a \in {b \in accepted : b.id < f.id /\ f.at - b.at <= MAX_AGE}}
Newer(f) == {g.id : g \in {h \in files : h.id > f.id}}
Later(id) == {k \in DOMAIN rejections : rejections[k] > rejections[id]}

(* Accepted proposals are numbered one after the other, as time passes.    *)
Numbered ==
  /\ IsFiniteSet(accepted) /\ \A a \in accepted : a.id \in 1..Cardinality(accepted) /\ a.at <= now
  /\ \A a, b \in accepted : (a.id = b.id => a = b) /\ (a.id < b.id => a.at <= b.at)

(* Those young enough have their file, and files are of one age.           *)
Stored ==
  /\ IsFiniteSet(files) /\ Cardinality(files) <= MAX_PENDING
  /\ \A f \in files : [id |-> f.id, at |-> f.at] \in accepted
  /\ \A f, g \in files : (f.id = g.id => f = g) /\ (f.id < g.id => g.at - f.at <= MAX_AGE)
  /\ \A a \in accepted : now - a.at <= MAX_AGE => \E f \in files : f.id = a.id /\ f.at = a.at
  /\ \A f \in files : Cardinality(Older(f)) < MAX_PENDING
  /\ \A f \in files : Accepted(f.proposal) \/ Outgrown(f.proposal)

(* A rejection is kept as long as the file it is about.                    *)
Remembered ==
  /\ DOMAIN rejections \subseteq turnedDown /\ \A id \in turnedDown : \E a \in accepted : a.id = id
  /\ \A id \in DOMAIN rejections : rejections[id] <= used.rejections
  /\ \A f \in files : f.id \in turnedDown =>
       f.id \in DOMAIN rejections /\ Later(f.id) \subseteq Older(f) \cup Newer(f)

StoreInv == Numbered /\ Stored /\ Remembered

(* The records, while a task is under way.                                 *)
TaskRuns ==
  running # 0 =>
    IF jobs[running].what = "apply"
    THEN LET n == jobs[running].change IN
         n \in DOMAIN changes /\ changes[n] = [id |-> jobs[running].of, status |-> "running"]
    ELSE changes[jobs[running].of].status = "applied"

(* What a job answers is what the records say.                             *)
Answered(what, of, answered) ==
  /\ what = "rollback" => of \in DOMAIN changes
  /\ answered = "applied" =>
       \E n \in DOMAIN changes : changes[n].id = of /\ changes[n].status \in {"applied", "rolled_back"}
  /\ answered = "rolled_back" => of \in DOMAIN changes /\ changes[of].status = "rolled_back"

JobsAnswer ==
  \A n \in DOMAIN jobs : Answered(jobs[n].what, jobs[n].of, jobs[n].result)
                         /\ (jobs[n].at = "done" => jobs[n].result # "none")
DecisionsKnow ==
  \A d \in deciding :
    /\ d.what = "rollback" => d.of \in DOMAIN changes
    /\ d.at = "polling" => d.job \in DOMAIN jobs /\ jobs[d.job].what = d.what /\ jobs[d.job].of = d.of
ResultsTell == \A r \in results : Answered(r.what, r.of, r.text)

TasksInv == TaskRuns /\ JobsAnswer /\ DecisionsKnow /\ ResultsTell

ReviewInv == TypeOK /\ StoreInv /\ TasksInv

-----------------------------------------------------------------------------
(* Facts about the data.                                                   *)

LEMMA Bounds ==
  /\ MAX_PENDING \in Nat \ {0} /\ MAX_AGE \in Nat \ {0} /\ MAX_LISTED \in Nat \ {0}
  /\ MAX_REJECTIONS \in Nat \ {0} /\ HISTORY \in Nat \ {0}
  /\ MAX_LISTED >= MAX_PENDING /\ MAX_REJECTIONS >= 2 * MAX_PENDING - 1
  BY ReviewAssumption

LEMMA Limited == ASSUME TypeOK PROVE limit.proposals \in Nat /\ \A id \in Ids : id \in Nat
<1>1. limit \in [{"time", "proposals", "rejections", "decisions", "loads", "faults"} -> Nat]
  BY ReviewAssumption DEF TypeOK
<1>2. limit.proposals \in Nat
  BY <1>1
<1>3. QED
  BY <1>2 DEF Ids

LEMMA Spent ==
  ASSUME TypeOK, NEW what \in {"rejections", "decisions", "faults"}, Spend(what)
  PROVE  /\ used' \in [{"rejections", "decisions", "faults"} -> Nat]
         /\ used'.rejections = used.rejections + IF what = "rejections" THEN 1 ELSE 0
  BY DEF TypeOK, Spend

LEMMA Sequenced ==
  ASSUME NEW T, NEW n \in Nat, NEW t \in [1..n -> T]
  PROVE  t \in Seq(T) /\ Len(t) = n /\ DOMAIN t = 1..n
  OBVIOUS

LEMMA Indexed ==
  ASSUME TypeOK
  PROVE  /\ Len(jobs) \in Nat /\ DOMAIN jobs = 1..Len(jobs) /\ \A n \in DOMAIN jobs : jobs[n] \in Job
         /\ Len(changes) \in Nat /\ DOMAIN changes = 1..Len(changes)
         /\ \A n \in DOMAIN changes : changes[n] \in Change
  BY DEF TypeOK

(* What is accepted passes again when it is read, unless its path came down*)
(* to the root or its diff outgrew the limit.                              *)
LEMMA StoredForm ==
  ASSUME NEW d \in Draft, Accepted(d)
  PROVE  LET n == normalizeProposal(d) IN
         n \in Draft /\ (Accepted(n) \/ Outgrown(n))
<1> PICK n : n = normalizeProposal(d)
  OBVIOUS
<1>1. /\ d.path \in Path /\ d.post \in Seq(Script) /\ Len(d.post) \in Nat
      /\ d.timeoutSec \in Int /\ d.retries \in Int /\ d.delaySec \in Int
  BY DEF Draft
<1>2. PICK k \in Nat : k = IF Len(d.post) < POST_MAX THEN Len(d.post) ELSE POST_MAX
  BY <1>1 DEF POST_MAX
<1>3. /\ k <= Len(d.post) /\ k <= POST_MAX /\ PostKept(d) = SubSeq(d.post, 1, k)
      /\ PostKept(d) \in Seq(Script) /\ Len(PostKept(d)) = k
  BY <1>1, <1>2 DEF PostKept, POST_MAX
<1>4. /\ n.kind = d.kind /\ n.node = d.node /\ n.title = d.title
      /\ n.body = IF d.kind = "patch" THEN Ended(d.body) ELSE d.body
      /\ n.undo = d.undo /\ n.health = d.health /\ n.post = PostKept(d)
      /\ n.path = IF d.kind = "command" THEN d.path ELSE posixNormalize[d.path]
      /\ n.validate = IF d.kind = "file" THEN d.validate ELSE "none"
      /\ n \in Draft
  <2>1. posixNormalize[d.path] \in Path
    BY <1>1 DEF Path, posixNormalize
  <2>2. PICK path \in Path : path = IF d.kind = "command" THEN d.path ELSE posixNormalize[d.path]
    BY <1>1, <2>1
  <2>3. PICK seconds \in Int :
          seconds = IF d.kind = "command" THEN Clamp(5, 900, 120, d.timeoutSec) ELSE 0
    BY <1>1 DEF Clamp
  <2>4. PICK validate \in Script : validate = IF d.kind = "file" THEN d.validate ELSE "none"
    BY DEF Draft, Script
  <2>5. PICK retries \in Int :
          retries = IF d.health = "none" THEN 0 ELSE Clamp(1, 60, 10, d.retries)
    BY <1>1 DEF Clamp
  <2>6. PICK delay \in Int : delay = IF d.health = "none" THEN 0 ELSE Clamp(1, 60, 3, d.delaySec)
    BY <1>1 DEF Clamp
  <2>10. PICK body \in Diff \cup Content \cup Script : body = IF d.kind = "patch" THEN Ended(d.body) ELSE d.body
    BY DEF Draft, Diff, Content, Script, Ended
  <2>7. n = [d EXCEPT !.path = path, !.body = body, !.timeoutSec = seconds, !.validate = validate,
                      !.post = PostKept(d), !.retries = retries, !.delaySec = delay]
    BY <2>2, <2>3, <2>4, <2>5, <2>6, <2>10 DEF normalizeProposal, Draft
  <2>8. n = [kind |-> d.kind, node |-> d.node, title |-> d.title, path |-> path, body |-> body,
             timeoutSec |-> seconds, post |-> PostKept(d), undo |-> d.undo, validate |-> validate,
             health |-> d.health, retries |-> retries, delaySec |-> delay]
    BY <2>7 DEF Draft
  <2>9. QED
    BY <2>8, <2>2, <2>3, <2>4, <2>5, <2>6, <2>10, <1>3 DEF Draft
<1>5. PostKept(n) = PostKept(d)
  <2>1. \A i \in 1..k : SubSeq(PostKept(d), 1, k)[i] = PostKept(d)[i]
    BY <1>3
  <2>2. PostKept(n) = SubSeq(PostKept(d), 1, k)
    BY <1>2, <1>3, <1>4 DEF PostKept, POST_MAX
  <2>3. QED
    BY <2>1, <2>2, <1>3
<1>6. CASE d.kind = "command"
  BY <1>4, <1>5, <1>6 DEF Accepted
<1>7. CASE d.kind = "patch"
  <2>1. isAbsolute(n.path)
    BY <1>1, <1>4, <1>7 DEF Accepted, isAbsolute, Path, posixNormalize
  <2>2. QED
    BY <2>1, <1>4, <1>5, <1>7 DEF Accepted, Ended, Outgrown
<1>8. CASE d.kind = "file"
  <2>1. isAbsolute(n.path) /\ n.path \notin {"climbs", "up", "app_dir"}
    BY <1>1, <1>4, <1>8 DEF Accepted, isAbsolute, Path, posixNormalize
  <2>2. QED
    BY <2>1, <1>4, <1>5, <1>8 DEF Accepted, FitIf, Fit, Outgrown
<1>9. QED
  BY <1>4, <1>6, <1>7, <1>8 DEF Draft, Accepted

(* The oldest of the records of a proposal.                                *)
LEMMA Oldest ==
  ASSUME TypeOK, NEW id, Of(id) # {}
  PROVE  (CHOOSE n \in Of(id) : \A k \in Of(id) : n <= k) \in Of(id)
<1> DEFINE less == {p \in Nat \X Nat : p[1] < p[2]}
<1>1. Of(id) \subseteq Nat
  BY Indexed DEF Of, Listed
<1>2. IsWellFoundedOn(less, Nat)
  BY NatLessThanWellFounded DEF OpToRel
<1>3. \A j, k \in Nat : j < k => <<j, k>> \in less
  OBVIOUS
<1> HIDE DEF less
<1>4. PICK m \in Of(id) : \A k \in Of(id) : <<k, m>> \notin less
  BY <1>1, <1>2, WFMin
<1>5. ASSUME NEW k \in Of(id) PROVE m <= k
  <2>1. k \in Nat /\ m \in Nat /\ <<k, m>> \notin less
    BY <1>1, <1>4
  <2>2. ~(k < m)
    BY <2>1, <1>3
  <2>3. QED
    BY <2>1, <2>2
<1>6. QED
  BY <1>5

LEMMA ListTyped ==
  ASSUME TypeOK, NEW names, NEW rejected, NEW reached
  PROVE  proposalList(names, rejected, reached) \in [Ids -> Status]
<1>1. ASSUME NEW id PROVE statusOf(id, rejected, reached) \in Status
  <2>1. CASE reached /\ Of(id) # {}
    <3>1. PICK n : n = CHOOSE m \in Of(id) : \A k \in Of(id) : m <= k
      OBVIOUS
    <3>2. n \in DOMAIN changes
      BY <3>1, <2>1, Oldest DEF Of, Listed
    <3>3. changes[n].status \in Status
      BY <3>2, Indexed DEF Change
    <3>4. QED
      BY <3>1, <3>3, <2>1 DEF statusOf
  <2>2. CASE ~(reached /\ Of(id) # {})
    BY <2>2 DEF statusOf, Status
  <2>3. QED
    BY <2>1, <2>2
<1>2. QED
  BY <1>1 DEF proposalList, Status

-----------------------------------------------------------------------------
(* Types.                                                                  *)

\* A page that moves a decision on, or ends it, has none twice.
LEMMA GoesTyped ==
  ASSUME TypeOK, NEW d \in deciding, NEW n \in Nat,
         NEW to \in {"asking", "signing", "sending", "polling"}, Goes(d, to, n)
  PROVE  /\ deciding' \subseteq Decision /\ loads' \subseteq Load /\ results' \subseteq Result
         /\ \A e, f \in deciding' : e.page = f.page /\ e.what = f.what /\ e.of = f.of => e = f
<1> PICK g : g = [d EXCEPT !.at = to, !.job = n]
  OBVIOUS
<1>1. g \in Decision /\ g.page = d.page /\ g.what = d.what /\ g.of = d.of
  BY DEF TypeOK, Decision
<1>2. deciding' = (deciding \ {d}) \cup {g} /\ loads' = loads /\ results' = results
  BY DEF Goes
<1>3. /\ deciding \subseteq Decision /\ loads \subseteq Load /\ results \subseteq Result
      /\ \A e, f \in deciding : e.page = f.page /\ e.what = f.what /\ e.of = f.of => e = f
  BY DEF TypeOK
<1>4. ASSUME NEW e \in deciding', NEW f \in deciding', e.page = f.page, e.what = f.what, e.of = f.of
      PROVE  e = f
  BY <1>1, <1>2, <1>3, <1>4
<1>5. QED
  BY <1>1, <1>2, <1>3, <1>4

LEMMA AskedTyped == ASSUME TypeOK, NEW p \in Pages, Asked(p) PROVE loads' \subseteq Load
  BY DEF TypeOK, Asked, Load

LEMMA SettledTyped ==
  ASSUME TypeOK, NEW d \in deciding, NEW text \in Status \cup {"error", "not_rolled_back"},
         Settled(d, text)
  PROVE  /\ deciding' \subseteq Decision /\ loads' \subseteq Load /\ results' \subseteq Result
         /\ \A e, f \in deciding' : e.page = f.page /\ e.what = f.what /\ e.of = f.of => e = f
<1>1. d \in Decision
  BY DEF TypeOK
<1>2. loads' \subseteq Load
  BY <1>1, AskedTyped DEF Settled, Decision
<1>3. [page |-> d.page, what |-> d.what, of |-> d.of, text |-> text] \in Result
  BY <1>1 DEF Decision, Result
<1>4. QED
  BY <1>2, <1>3 DEF Settled, TypeOK

(* What is as it was: the store, the rejections, the tasks, the lists.     *)
SameStore == UNCHANGED <<limit, now, files, accepted>> /\ answer' = "none"
SameHub   == UNCHANGED <<rejections, turnedDown>>
SameTasks == UNCHANGED <<changes, calls, running, jobs>>

LEMMA ProposeTyped == ASSUME TypeOK, StoreInv, NEW d \in Drafts, Propose(d) PROVE TypeOK'
<1>1. UNCHANGED <<limit, used, now, rejections, turnedDown, jobs, changes, calls, running,
                  loads, list, deciding, results>>
  BY DEF Propose, hubVars, taskVars, pageVars
<1>2. Pruned \subseteq File
  BY DEF Pruned, TypeOK
<1>3. /\ files' \subseteq File /\ accepted' \subseteq [id : Ids, at : Nat]
      /\ answer' \in {"saved", "probe_error", "bad_proposal", "too_many_pending_proposals"}
  <2>1. CASE files' = Pruned /\ UNCHANGED accepted
             /\ answer' \in {"bad_proposal", "too_many_pending_proposals"}
    BY <2>1, <1>2 DEF TypeOK
  <2>2. CASE /\ Accepted(d) /\ Next_id \in Ids
             /\ files' = Pruned \cup {[id |-> Next_id, proposal |-> normalizeProposal(d), at |-> now]}
             /\ accepted' = accepted \cup {[id |-> Next_id, at |-> now]}
             /\ answer' \in Answers
    <3>1. normalizeProposal(d) \in Draft
      BY <2>2, StoredForm, ReviewAssumption
    <3>2. Next_id \in Nat /\ now \in Nat
      BY <2>2, Limited DEF TypeOK
    <3>3. [id |-> Next_id, proposal |-> normalizeProposal(d), at |-> now] \in File
      BY <3>1, <3>2 DEF File
    <3>4. QED
      BY <2>2, <3>2, <3>3, <1>2 DEF TypeOK, Answers
  <2>3. QED
    BY <2>1, <2>2 DEF Propose, save
<1>4. QED
  BY <1>1, <1>3 DEF TypeOK, Ids

(* What a step of a page, or of the operator, leaves to be shown.          *)
LEMMA PageTyped ==
  ASSUME TypeOK, SameStore, SameTasks,
         used' \in [{"rejections", "decisions", "faults"} -> Nat],
         rejections' \in [DOMAIN rejections' -> Nat], DOMAIN rejections' \subseteq Ids, turnedDown' \subseteq Ids,
         loads' \subseteq Load, list' \in [Pages -> [Ids -> Status]],
         deciding' \subseteq Decision, results' \subseteq Result,
         \A d, e \in deciding' : d.page = e.page /\ d.what = e.what /\ d.of = e.of => d = e
  PROVE  TypeOK'
<1>1. Ids' = Ids
  BY DEF SameStore, Ids
<1>2. QED
  BY <1>1 DEF TypeOK, SameStore, SameTasks

LEMMA SameHubTyped ==
  ASSUME TypeOK, SameHub
  PROVE  /\ rejections' \in [DOMAIN rejections' -> Nat] /\ DOMAIN rejections' \subseteq Ids
         /\ turnedDown' \subseteq Ids
  BY DEF TypeOK, SameHub

LEMMA ListStepTyped == ASSUME TypeOK, NEW p \in Pages, ListStep(p) PROVE TypeOK' /\ SameStore /\ SameTasks /\ SameHub
<1>1. SameStore /\ SameHub /\ SameTasks /\ UNCHANGED <<deciding, results>>
  BY DEF ListStep, ListBegins, ListArrives, ListFails, PageOnly, StoreKept, hubVars, taskVars,
         SameStore, SameHub, SameTasks
<1>2. used' \in [{"rejections", "decisions", "faults"} -> Nat]
  BY Spent DEF ListStep, ListBegins, ListArrives, ListFails, TypeOK
<1>3. loads' \subseteq Load
  <2>1. CASE ListBegins(p)
    <3>1. {f.id : f \in files} \subseteq Nat /\ DOMAIN rejections \subseteq Nat
      BY Limited DEF TypeOK, File
    <3>2. [page |-> p, at |-> "reading", names |-> {f.id : f \in files}, rejected |-> DOMAIN rejections] \in Load
      BY <3>1 DEF Load
    <3>3. QED
      BY <2>1, <3>2 DEF ListBegins, TypeOK
  <2>2. CASE ListArrives(p) \/ ListFails(p)
    BY <2>2 DEF ListArrives, ListFails, TypeOK
  <2>3. QED
    BY <2>1, <2>2 DEF ListStep
<1>4. list' \in [Pages -> [Ids -> Status]]
  <2>1. CASE list' = list
    BY <2>1 DEF TypeOK
  <2>2. CASE \E names, rejected, reached :
               list' = [list EXCEPT ![p] = proposalList(names, rejected, reached)]
    BY <2>2, ListTyped DEF TypeOK
  <2>3. QED
    BY <2>1, <2>2 DEF ListStep, ListBegins, ListArrives, ListFails
<1>5. QED
  BY <1>1, <1>2, <1>3, <1>4, PageTyped, SameHubTyped DEF TypeOK

LEMMA DecideTyped ==
  ASSUME TypeOK, NEW p \in Pages, NEW what \in {"apply", "rollback"}, NEW of \in Nat, Decide(p, what, of)
  PROVE  TypeOK' /\ SameStore /\ SameTasks /\ SameHub
<1>1. SameStore /\ SameHub /\ SameTasks /\ UNCHANGED <<loads, list>>
  BY DEF Decide, PageOnly, StoreKept, hubVars, taskVars, SameStore, SameHub, SameTasks
<1>2. used' \in [{"rejections", "decisions", "faults"} -> Nat]
  BY Spent DEF Decide
<1>3. results' \subseteq Result
  BY DEF Decide, TypeOK
<1>4. [page |-> p, what |-> what, of |-> of, at |-> "asking", job |-> 0] \in Decision
  BY DEF Decision
<1>5. /\ deciding' \subseteq Decision
      /\ \A d, e \in deciding' : d.page = e.page /\ d.what = e.what /\ d.of = e.of => d = e
  BY <1>4 DEF Decide, TypeOK
<1>6. QED
  BY <1>1, <1>2, <1>3, <1>5, PageTyped, SameHubTyped DEF TypeOK

LEMMA RejectTyped ==
  ASSUME TypeOK, StoreInv, NEW id \in Ids, RejectPosted(id)
  PROVE  /\ SameStore /\ SameTasks /\ UNCHANGED <<list, deciding, results>>
         /\ used' \in [{"rejections", "decisions", "faults"} -> Nat] /\ used'.rejections = used.rejections + 1
         /\ rejections' \in [DOMAIN rejections' -> Nat] /\ DOMAIN rejections' \subseteq Ids
         /\ turnedDown' \subseteq Ids
<1>1. /\ SameStore /\ SameTasks /\ UNCHANGED <<list, deciding, results>>
      /\ Spend("rejections") /\ turnedDown' = turnedDown \cup {id} /\ writeRejections(Rejected(id))
  BY DEF RejectPosted, StoreKept, taskVars, SameStore, SameTasks
<1> PICK map : map = Rejected(id)
  OBVIOUS
<1>2. DOMAIN map = DOMAIN rejections \cup {id} /\ \A k \in DOMAIN map : map[k] \in Nat
  BY DEF Rejected, TypeOK
<1>3. rejections' = [k \in Recent(map) |-> map[k]] /\ Recent(map) \subseteq DOMAIN map
  BY <1>1 DEF writeRejections, Recent
<1>4. QED
  BY <1>1, <1>2, <1>3, Spent DEF TypeOK

\* What a poll that is answered shows is a word of the page's.
LEMMA PollText ==
  ASSUME TypeOK, TasksInv, NEW d \in deciding, d.at = "polling"
  PROVE  PollAnswer(d.job) \in {"running", "error"} \cup {jobs[d.job].result}
         /\ PollAnswer(d.job) \in {"running", "error", "applied", "failed", "auto_rolled_back", "rolled_back", "not_rolled_back"}
<1>1. d.job \in DOMAIN jobs /\ (jobs[d.job].at = "done" => jobs[d.job].result # "none")
  BY DEF TasksInv, DecisionsKnow, JobsAnswer
<1>2. jobs[d.job].result \in {"none", "applied", "failed", "auto_rolled_back", "rolled_back", "not_rolled_back"}
  BY <1>1, Indexed DEF Job
<1>3. QED
  BY <1>1, <1>2 DEF PollAnswer

\* A decision that ends tells what was answered of it, or of an error.
LEMMA SignTyped ==
  ASSUME TypeOK, NEW d \in deciding, Sign(d)
  PROVE  TypeOK' /\ SameStore /\ SameTasks /\ SameHub
<1>1. SameStore /\ SameHub /\ SameTasks /\ UNCHANGED <<used, list>>
  BY DEF Sign, PageOnly, StoreKept, hubVars, taskVars, SameStore, SameHub, SameTasks
<1>2. Goes(d, "signing", 0) \/ Goes(d, "sending", 0) \/ Settled(d, "error")
  BY DEF Sign
<1>3. /\ deciding' \subseteq Decision /\ loads' \subseteq Load /\ results' \subseteq Result
      /\ \A e, f \in deciding' : e.page = f.page /\ e.what = f.what /\ e.of = f.of => e = f
  BY <1>2, GoesTyped, SettledTyped
<1>4. QED
  BY <1>1, <1>3, PageTyped, SameHubTyped DEF TypeOK

LEMMA PollTyped ==
  ASSUME TypeOK, TasksInv, NEW d \in deciding, pollJob(d)
  PROVE  /\ TypeOK' /\ SameStore /\ SameTasks /\ SameHub
         /\ \E text \in {"error", "applied", "failed", "auto_rolled_back", "rolled_back", "not_rolled_back"} :
              Settled(d, text) /\ (text = "error" \/ text = jobs[d.job].result)
<1>1. SameStore /\ SameHub /\ SameTasks /\ UNCHANGED list
  BY DEF pollJob, PageOnly, StoreKept, hubVars, taskVars, SameStore, SameHub, SameTasks
<1>2. used' \in [{"rejections", "decisions", "faults"} -> Nat]
  BY Spent DEF pollJob, TypeOK
<1>3. PICK text \in {"error", "applied", "failed", "auto_rolled_back", "rolled_back", "not_rolled_back"} :
        Settled(d, text) /\ (text = "error" \/ text = jobs[d.job].result)
  BY PollText DEF pollJob
<1>4. text \in Status \cup {"error", "not_rolled_back"}
  BY DEF Status
<1>5. /\ deciding' \subseteq Decision /\ loads' \subseteq Load /\ results' \subseteq Result
      /\ \A e, f \in deciding' : e.page = f.page /\ e.what = f.what /\ e.of = f.of => e = f
  BY <1>3, <1>4, SettledTyped
<1>6. TypeOK'
  BY <1>1, <1>2, <1>5, PageTyped, SameHubTyped DEF TypeOK
<1>7. QED
  BY <1>1, <1>3, <1>6

LEMMA RefreshTyped ==
  ASSUME TypeOK, NEW p \in Pages, Refresh(p)
  PROVE  TypeOK' /\ SameStore /\ SameTasks /\ SameHub
<1>1. SameStore /\ SameHub /\ SameTasks /\ UNCHANGED <<used, list, deciding, results>>
  BY DEF Refresh, PageOnly, StoreKept, hubVars, taskVars, SameStore, SameHub, SameTasks
<1>2. loads' \subseteq Load
  BY AskedTyped DEF Refresh
<1>3. QED
  BY <1>1, <1>2, PageTyped, SameHubTyped DEF TypeOK

LEMMA RejectFailsTyped ==
  ASSUME TypeOK, NEW p \in Pages, NEW id \in Ids, RejectFails(p, id)
  PROVE  TypeOK' /\ SameStore /\ SameTasks /\ SameHub
<1>1. SameStore /\ SameHub /\ SameTasks /\ UNCHANGED <<used, list, deciding>>
  BY DEF RejectFails, PageOnly, StoreKept, hubVars, taskVars, SameStore, SameHub, SameTasks
<1>2. loads' \subseteq Load
  BY AskedTyped DEF RejectFails
<1>3. [page |-> p, what |-> "apply", of |-> id, text |-> "error"] \in Result
  BY Limited DEF Result
<1>4. results' \subseteq Result
  BY <1>3 DEF RejectFails, TypeOK
<1>5. QED
  BY <1>1, <1>2, <1>4, PageTyped, SameHubTyped DEF TypeOK

-----------------------------------------------------------------------------
(* The records and the jobs.                                               *)

(* Records are kept; what is applied or undone stays so.                   *)
RecordsStay ==
  /\ DOMAIN changes \subseteq DOMAIN changes'
  /\ \A n \in DOMAIN changes :
       /\ changes'[n].id = changes[n].id
       /\ changes[n].status = "applied" => changes'[n].status \in {"applied", "rolled_back"}
       /\ changes[n].status = "rolled_back" => changes'[n].status = "rolled_back"

JobsStay ==
  /\ DOMAIN jobs \subseteq DOMAIN jobs'
  /\ \A n \in DOMAIN jobs : jobs'[n].what = jobs[n].what /\ jobs'[n].of = jobs[n].of

LEMMA AnsweredStays ==
  ASSUME RecordsStay, NEW what, NEW of, NEW answered, Answered(what, of, answered)
  PROVE  Answered(what, of, answered)'
<1>1. answered = "applied" =>
        \E n \in DOMAIN changes' : changes'[n].id = of /\ changes'[n].status \in {"applied", "rolled_back"}
  <2>1. SUFFICES ASSUME answered = "applied"
                 PROVE  \E n \in DOMAIN changes' :
                          changes'[n].id = of /\ changes'[n].status \in {"applied", "rolled_back"}
    OBVIOUS
  <2>2. PICK n \in DOMAIN changes : changes[n].id = of /\ changes[n].status \in {"applied", "rolled_back"}
    BY <2>1 DEF Answered
  <2>3. n \in DOMAIN changes' /\ changes'[n].id = of /\ changes'[n].status \in {"applied", "rolled_back"}
    BY <2>2 DEF RecordsStay
  <2>4. QED
    BY <2>3
<1>2. QED
  BY <1>1 DEF Answered, RecordsStay

LEMMA PagesStay ==
  ASSUME TasksInv, RecordsStay, JobsStay
  PROVE  /\ deciding' \subseteq deciding => DecisionsKnow'
         /\ results' \subseteq results => ResultsTell'
<1>1. DecisionsKnow /\ ResultsTell
  BY DEF TasksInv
<1>2. deciding' \subseteq deciding => DecisionsKnow'
  BY <1>1 DEF DecisionsKnow, RecordsStay, JobsStay
<1>3. ASSUME results' \subseteq results PROVE ResultsTell'
  <2>1. SUFFICES ASSUME NEW r \in results PROVE Answered(r.what, r.of, r.text)'
    BY <1>3 DEF ResultsTell, Answered
  <2>2. PICK what, of, text : what = r.what /\ of = r.of /\ text = r.text
    OBVIOUS
  <2>3. Answered(what, of, text)
    BY <2>2, <1>1 DEF ResultsTell
  <2>4. Answered(what, of, text)'
    BY <2>3, AnsweredStays
  <2>5. QED
    BY <2>2, <2>4
<1>4. QED
  BY <1>2, <1>3

(* A job, or a record, that is written.                                    *)
LEMMA JobWritten ==
  ASSUME TypeOK, NEW n \in DOMAIN jobs, NEW j \in Job, jobs' = [jobs EXCEPT ![n] = j]
  PROVE  /\ jobs' \in Seq(Job) /\ DOMAIN jobs' = DOMAIN jobs
         /\ \A k \in DOMAIN jobs : jobs'[k] = IF k = n THEN j ELSE jobs[k]
<1>1. jobs' \in [1..Len(jobs) -> Job]
  BY Indexed
<1>2. QED
  BY <1>1, Sequenced, Indexed

LEMMA ChangeWritten ==
  ASSUME TypeOK, NEW n \in DOMAIN changes, NEW c \in Change, changes' = [changes EXCEPT ![n] = c]
  PROVE  /\ changes' \in Seq(Change) /\ DOMAIN changes' = DOMAIN changes
         /\ \A k \in DOMAIN changes : changes'[k] = IF k = n THEN c ELSE changes[k]
<1>1. changes' \in [1..Len(changes) -> Change]
  BY Indexed
<1>2. QED
  BY <1>1, Sequenced, Indexed

LEMMA JobEnded ==
  ASSUME TypeOK, NEW n \in DOMAIN jobs, NEW at \in {"done", "error"},
         NEW result \in {"none", "applied", "failed", "auto_rolled_back", "rolled_back", "not_rolled_back"},
         JobEnds(n, at, result)
  PROVE  /\ jobs' \in Seq(Job) /\ DOMAIN jobs' = DOMAIN jobs /\ JobsStay
         /\ \A k \in DOMAIN jobs :
              /\ jobs'[k].change = jobs[k].change
              /\ \/ jobs'[k].at = jobs[k].at /\ jobs'[k].result = jobs[k].result
                 \/ k = n /\ jobs'[k].at = at /\ jobs'[k].result = result
<1>1. CASE jobs[n].at = "running"
  <2> PICK j : j = [jobs[n] EXCEPT !.at = at, !.result = result]
    OBVIOUS
  <2>1. jobs[n] \in Job
    BY Indexed
  <2>2. /\ j \in Job /\ j.what = jobs[n].what /\ j.of = jobs[n].of /\ j.change = jobs[n].change
        /\ j.at = at /\ j.result = result
    BY <2>1 DEF Job
  <2>3. jobs' = [jobs EXCEPT ![n] = j]
    BY <1>1 DEF JobEnds
  <2>4. QED
    BY <2>2, <2>3, JobWritten DEF JobsStay
<1>2. CASE jobs[n].at # "running"
  <2>1. jobs' = jobs
    BY <1>2 DEF JobEnds
  <2>2. QED
    BY <2>1 DEF TypeOK, JobsStay
<1>3. QED
  BY <1>1, <1>2

(* The store, the rejections and the pages are as they were, but for what  *)
(* the agent was told.                                                     *)
SamePages == UNCHANGED <<loads, list, deciding, results>>

\* The types of what a step of the tasks leaves.
LEMMA TaskTyped ==
  ASSUME TypeOK, SameStore, SameHub, SamePages,
         used' \in [{"rejections", "decisions", "faults"} -> Nat],
         changes' \in Seq(Change), jobs' \in Seq(Job),
         calls' \subseteq DOMAIN jobs', running' \in DOMAIN jobs' \cup {0}
  PROVE  TypeOK'
<1>1. Ids' = Ids
  BY DEF SameStore, Ids
<1>2. QED
  BY <1>1 DEF TypeOK, SameStore, SameHub, SamePages

LEMMA BeginTasks ==
  ASSUME TypeOK, TasksInv, NEW n, Begin(n)
  PROVE  TypeOK' /\ TasksInv' /\ SameStore /\ SameHub /\ UNCHANGED used
<1>1. /\ SameStore /\ SameHub /\ SamePages /\ UNCHANGED used
      /\ n \in DOMAIN jobs /\ calls' = calls \ {n} /\ running' = n
  BY DEF Begin, StoreKept, pageVars, SameStore, SameHub, SamePages, TypeOK
<1>2. jobs[n] \in Job
  BY <1>1, Indexed
<1>3. /\ changes' \in Seq(Change) /\ Len(changes') \in Nat /\ RecordsStay
      /\ jobs[n].what = "apply" =>
           Len(changes') \in DOMAIN changes' /\ changes'[Len(changes')] = [id |-> jobs[n].of, status |-> "running"]
      /\ jobs[n].what = "rollback" => changes' = changes
  <2>1. CASE jobs[n].what = "rollback"
    BY <2>1, Indexed DEF Begin, TypeOK, RecordsStay
  <2>2. CASE jobs[n].what = "apply"
    <3> PICK c : c = [id |-> jobs[n].of, status |-> "running"]
      OBVIOUS
    <3>1. c \in Change
      BY <1>2 DEF Change, Job, Status
    <3>2. changes' = Append(changes, c)
      BY <2>2 DEF Begin
    <3>3. changes \in Seq(Change)
      BY DEF TypeOK
    <3>4. /\ changes' \in Seq(Change) /\ Len(changes') = Len(changes) + 1
          /\ DOMAIN changes' = 1..(Len(changes) + 1)
          /\ changes'[Len(changes) + 1] = c /\ \A k \in 1..Len(changes) : changes'[k] = changes[k]
      BY <3>1, <3>2, <3>3
    <3>5. QED
      BY <3>4, <2>2, Indexed DEF RecordsStay
  <2>3. QED
    BY <2>1, <2>2, <1>2 DEF Job
<1> PICK j : j = [jobs[n] EXCEPT !.change = Len(changes')]
  OBVIOUS
<1>4. /\ j \in Job /\ j.what = jobs[n].what /\ j.of = jobs[n].of /\ j.at = jobs[n].at
      /\ j.result = jobs[n].result /\ j.change = Len(changes')
  BY <1>2, <1>3 DEF Job
<1>5. jobs' = [jobs EXCEPT ![n] = j]
  BY DEF Begin
<1>6. /\ jobs' \in Seq(Job) /\ DOMAIN jobs' = DOMAIN jobs
      /\ \A k \in DOMAIN jobs : jobs'[k] = IF k = n THEN j ELSE jobs[k]
  BY <1>1, <1>4, <1>5, JobWritten
<1>7. JobsStay
  BY <1>4, <1>6 DEF JobsStay
<1>8. TypeOK'
  BY <1>1, <1>3, <1>6, TaskTyped DEF TypeOK
<1>9. TaskRuns'
  <2>1. jobs'[n] = j
    BY <1>1, <1>6
  <2>2. CASE jobs[n].what = "apply"
    BY <2>1, <2>2, <1>1, <1>3, <1>4 DEF TaskRuns
  <2>3. CASE jobs[n].what = "rollback"
    <3>1. changes[jobs[n].of].status = "applied"
      BY <2>3 DEF Begin
    <3>2. QED
      BY <2>1, <2>3, <3>1, <1>1, <1>3, <1>4 DEF TaskRuns
  <2>4. QED
    BY <2>2, <2>3, <1>2 DEF Job
<1>10. JobsAnswer'
  <2>1. SUFFICES ASSUME NEW k \in DOMAIN jobs
                 PROVE  /\ Answered(jobs[k].what, jobs[k].of, jobs[k].result)'
                        /\ (jobs[k].at = "done" => jobs[k].result # "none")'
    BY <1>6 DEF JobsAnswer
  <2>2. /\ jobs'[k].what = jobs[k].what /\ jobs'[k].of = jobs[k].of
        /\ jobs'[k].result = jobs[k].result /\ jobs'[k].at = jobs[k].at
    BY <1>4, <1>6
  <2>3. Answered(jobs[k].what, jobs[k].of, jobs[k].result) /\ (jobs[k].at = "done" => jobs[k].result # "none")
    BY DEF TasksInv, JobsAnswer
  <2>4. PICK what, of, result : what = jobs[k].what /\ of = jobs[k].of /\ result = jobs[k].result
    OBVIOUS
  <2>5. Answered(what, of, result)'
    BY <2>3, <2>4, <1>3, AnsweredStays
  <2>6. QED
    BY <2>2, <2>3, <2>4, <2>5 DEF Answered
<1>11. DecisionsKnow' /\ ResultsTell'
  BY <1>1, <1>3, <1>7, PagesStay DEF SamePages
<1>12. QED
  BY <1>1, <1>8, <1>9, <1>10, <1>11 DEF TasksInv

\* The jobs answer truly when those whose answer is new do.
LEMMA JobsAnswerStill ==
  ASSUME TasksInv, RecordsStay, JobsStay, NEW n \in DOMAIN jobs, DOMAIN jobs' = DOMAIN jobs,
         \A k \in DOMAIN jobs : k = n \/ (jobs'[k].result = jobs[k].result /\ (jobs'[k].at = "done" => jobs[k].at = "done")),
         \/ jobs'[n].result = jobs[n].result /\ (jobs'[n].at = "done" => jobs[n].at = "done")
         \/ /\ jobs'[n].result = "applied" => \E m \in DOMAIN changes' :
                 changes'[m].id = jobs[n].of /\ changes'[m].status \in {"applied", "rolled_back"}
            /\ jobs'[n].result = "rolled_back" =>
                 jobs[n].of \in DOMAIN changes' /\ changes'[jobs[n].of].status = "rolled_back"
            /\ jobs'[n].at = "done" => jobs'[n].result # "none"
  PROVE  JobsAnswer'
<1>1. SUFFICES ASSUME NEW k \in DOMAIN jobs
               PROVE  /\ Answered(jobs[k].what, jobs[k].of, jobs[k].result)'
                      /\ (jobs[k].at = "done" => jobs[k].result # "none")'
  BY DEF JobsAnswer
<1>2. jobs'[k].what = jobs[k].what /\ jobs'[k].of = jobs[k].of
  BY DEF JobsStay
<1>3. Answered(jobs[k].what, jobs[k].of, jobs[k].result) /\ (jobs[k].at = "done" => jobs[k].result # "none")
  BY DEF TasksInv, JobsAnswer
<1>4. PICK what, of, result : what = jobs[k].what /\ of = jobs[k].of /\ result = jobs[k].result
  OBVIOUS
<1>5. Answered(what, of, result)'
  BY <1>3, <1>4, AnsweredStays
<1>6. CASE jobs'[k].result = jobs[k].result /\ (jobs'[k].at = "done" => jobs[k].at = "done")
  BY <1>2, <1>3, <1>4, <1>5, <1>6 DEF Answered
<1>7. CASE k = n /\ ~(jobs'[n].result = jobs[n].result /\ (jobs'[n].at = "done" => jobs[n].at = "done"))
  BY <1>2, <1>4, <1>5, <1>7 DEF Answered
<1>8. QED
  BY <1>6, <1>7

LEMMA RefuseTasks ==
  ASSUME TypeOK, TasksInv, NEW n, Refuse(n)
  PROVE  TypeOK' /\ TasksInv' /\ SameStore /\ SameHub /\ UNCHANGED used
<1>1. /\ SameStore /\ SameHub /\ SamePages /\ UNCHANGED <<used, changes, running>>
      /\ n \in DOMAIN jobs /\ calls' = calls \ {n} /\ JobEnds(n, "error", "none")
  BY DEF Refuse, StoreKept, pageVars, SameStore, SameHub, SamePages, TypeOK
<1>2. /\ jobs' \in Seq(Job) /\ DOMAIN jobs' = DOMAIN jobs /\ JobsStay
      /\ \A k \in DOMAIN jobs :
           /\ jobs'[k].change = jobs[k].change
           /\ \/ jobs'[k].at = jobs[k].at /\ jobs'[k].result = jobs[k].result
              \/ k = n /\ jobs'[k].at = "error" /\ jobs'[k].result = "none"
  BY <1>1, JobEnded
<1>3. RecordsStay
  BY <1>1 DEF RecordsStay
<1>4. TypeOK'
  BY <1>1, <1>2, TaskTyped DEF TypeOK
<1>5. TaskRuns'
  BY <1>1, <1>2 DEF TasksInv, TaskRuns, JobsStay, TypeOK
<1>6. JobsAnswer'
  BY <1>1, <1>2, <1>3, JobsAnswerStill
<1>7. DecisionsKnow' /\ ResultsTell'
  BY <1>1, <1>2, <1>3, PagesStay DEF SamePages
<1>8. QED
  BY <1>1, <1>4, <1>5, <1>6, <1>7 DEF TasksInv

\* The record that a task ends with: it was under way, or it was applied.
LEMMA EndedRecord ==
  ASSUME TypeOK, NEW n \in DOMAIN changes, NEW s \in {"applied", "failed", "auto_rolled_back", "rolled_back"},
         changes' = [changes EXCEPT ![n].status = s],
         changes[n].status = "running" \/ (changes[n].status = "applied" /\ s = "rolled_back")
  PROVE  /\ changes' \in Seq(Change) /\ RecordsStay
         /\ n \in DOMAIN changes' /\ changes'[n] = [id |-> changes[n].id, status |-> s]
<1> PICK c : c = [id |-> changes[n].id, status |-> s]
  OBVIOUS
<1>1. changes[n] \in Change
  BY Indexed
<1>2. c \in Change /\ [changes[n] EXCEPT !.status = s] = c
  BY <1>1 DEF Change, Status
<1>3. changes' = [changes EXCEPT ![n] = c]
  BY <1>2
<1>4. /\ changes' \in Seq(Change) /\ DOMAIN changes' = DOMAIN changes
      /\ \A k \in DOMAIN changes : changes'[k] = IF k = n THEN c ELSE changes[k]
  BY <1>2, <1>3, ChangeWritten
<1>5. RecordsStay
  BY <1>4 DEF RecordsStay
<1>6. QED
  BY <1>4, <1>5

LEMMA TaskEndsTasks ==
  ASSUME TypeOK, TasksInv, TaskEnds
  PROVE  TypeOK' /\ TasksInv' /\ SameStore /\ SameHub /\ UNCHANGED used
<1> PICK n : n = running
  OBVIOUS
<1>1. /\ SameStore /\ SameHub /\ SamePages /\ UNCHANGED <<used, calls>>
      /\ n \in DOMAIN jobs /\ running' = 0 /\ running # 0
  BY DEF TaskEnds, StoreKept, pageVars, SameStore, SameHub, SamePages, TypeOK
<1>2. PICK s \in {"applied", "failed", "auto_rolled_back", "rolled_back", "not_rolled_back"} :
        /\ jobs[n].what = "apply" => s \in {"applied", "failed", "auto_rolled_back"}
        /\ jobs[n].what # "apply" => s \in {"rolled_back", "not_rolled_back"}
        /\ changes' = IF s = "not_rolled_back" THEN changes
                      ELSE IF jobs[n].what = "apply" THEN [changes EXCEPT ![jobs[n].change].status = s]
                      ELSE [changes EXCEPT ![jobs[n].of].status = s]
        /\ JobEnds(n, "done", s)
  BY DEF TaskEnds
<1>3. TaskRuns /\ Answered(jobs[n].what, jobs[n].of, jobs[n].result) /\ jobs[n] \in Job
  BY <1>1, Indexed DEF TasksInv, JobsAnswer
<1>4. /\ changes' \in Seq(Change) /\ RecordsStay
      /\ s = "applied" => \E m \in DOMAIN changes' :
           changes'[m].id = jobs[n].of /\ changes'[m].status \in {"applied", "rolled_back"}
      /\ s = "rolled_back" => jobs[n].of \in DOMAIN changes' /\ changes'[jobs[n].of].status = "rolled_back"
  <2>1. CASE s = "not_rolled_back"
    BY <2>1, <1>2 DEF TypeOK, RecordsStay
  <2>2. CASE jobs[n].what = "apply"
    <3> PICK m : m = jobs[n].change
      OBVIOUS
    <3>1. m \in DOMAIN changes /\ changes[m] = [id |-> jobs[n].of, status |-> "running"]
      BY <2>2, <1>1, <1>3 DEF TaskRuns
    <3>2. changes' = [changes EXCEPT ![m].status = s] /\ s \in {"applied", "failed", "auto_rolled_back"}
      BY <2>2, <1>2
    <3>3. changes[m].id = jobs[n].of /\ changes[m].status = "running"
      BY <3>1
    <3>4. /\ changes' \in Seq(Change) /\ RecordsStay
          /\ m \in DOMAIN changes' /\ changes'[m] = [id |-> changes[m].id, status |-> s]
      BY <3>1, <3>2, <3>3, EndedRecord
    <3>5. changes'[m].id = jobs[n].of /\ changes'[m].status = s
      BY <3>3, <3>4
    <3>6. QED
      BY <3>2, <3>4, <3>5
  <2>3. CASE s = "rolled_back" /\ jobs[n].what = "rollback"
    <3> PICK m : m = jobs[n].of
      OBVIOUS
    <3>1. m \in DOMAIN changes /\ changes[m].status = "applied"
      BY <2>3, <1>1, <1>3 DEF TaskRuns, Answered
    <3>2. changes' = [changes EXCEPT ![m].status = s]
      BY <2>3, <1>2
    <3>3. /\ changes' \in Seq(Change) /\ RecordsStay
          /\ m \in DOMAIN changes' /\ changes'[m] = [id |-> changes[m].id, status |-> s]
      BY <3>1, <3>2, <2>3, EndedRecord
    <3>4. QED
      BY <3>3, <2>3
  <2>4. QED
    BY <2>1, <2>2, <2>3, <1>2, <1>3 DEF Job
<1>5. /\ jobs' \in Seq(Job) /\ DOMAIN jobs' = DOMAIN jobs /\ JobsStay
      /\ \A k \in DOMAIN jobs :
           /\ jobs'[k].change = jobs[k].change
           /\ \/ jobs'[k].at = jobs[k].at /\ jobs'[k].result = jobs[k].result
              \/ k = n /\ jobs'[k].at = "done" /\ jobs'[k].result = s
  BY <1>1, <1>2, JobEnded
<1>6. TypeOK'
  BY <1>1, <1>4, <1>5, TaskTyped DEF TypeOK
<1>7. TaskRuns'
  BY <1>1 DEF TaskRuns
<1>8. JobsAnswer'
  BY <1>1, <1>4, <1>5, JobsAnswerStill
<1>9. DecisionsKnow' /\ ResultsTell'
  BY <1>1, <1>4, <1>5, PagesStay DEF SamePages
<1>10. QED
  BY <1>1, <1>6, <1>7, <1>8, <1>9 DEF TasksInv

\* Jobs that are given up answer nothing new.
LEMMA GivenUp ==
  ASSUME TypeOK, TasksInv, RecordsStay, NEW at \in {"error", "gone"}, NEW ends \in SUBSET DOMAIN jobs,
         jobs' = [n \in DOMAIN jobs |-> IF n \in ends THEN [jobs[n] EXCEPT !.at = at] ELSE jobs[n]]
  PROVE  /\ jobs' \in Seq(Job) /\ DOMAIN jobs' = DOMAIN jobs /\ JobsStay /\ JobsAnswer'
         /\ \A n \in DOMAIN jobs : jobs'[n].change = jobs[n].change
<1>1. ASSUME NEW n \in DOMAIN jobs
      PROVE  /\ jobs'[n] \in Job /\ jobs'[n].what = jobs[n].what /\ jobs'[n].of = jobs[n].of
             /\ jobs'[n].change = jobs[n].change /\ jobs'[n].result = jobs[n].result
             /\ jobs'[n].at = "done" => jobs[n].at = "done"
  <2>1. jobs[n] \in Job
    BY Indexed
  <2>2. jobs'[n] = IF n \in ends THEN [jobs[n] EXCEPT !.at = at] ELSE jobs[n]
    OBVIOUS
  <2>3. QED
    BY <2>1, <2>2 DEF Job
<1>2. jobs' \in [1..Len(jobs) -> Job]
  BY <1>1, Indexed
<1>3. jobs' \in Seq(Job) /\ DOMAIN jobs' = DOMAIN jobs
  BY <1>2, Sequenced, Indexed
<1>4. JobsStay
  BY <1>1, <1>3 DEF JobsStay
<1>5. JobsAnswer'
  <2>1. CASE DOMAIN jobs = {}
    BY <2>1, <1>3 DEF JobsAnswer
  <2>2. CASE DOMAIN jobs # {}
    <3>1. PICK n : n \in DOMAIN jobs
      BY <2>2
    <3>2. QED
      BY <3>1, <1>1, <1>3, <1>4, JobsAnswerStill
  <2>3. QED
    BY <2>1, <2>2
<1>6. QED
  BY <1>1, <1>3, <1>4, <1>5

LEMMA BrokerRestartTasks ==
  ASSUME TypeOK, TasksInv, BrokerRestart
  PROVE  /\ TypeOK' /\ TasksInv' /\ SameStore /\ SameHub /\ used'.rejections = used.rejections
         /\ used' \in [{"rejections", "decisions", "faults"} -> Nat]
<1>1. /\ SameStore /\ SameHub /\ SamePages /\ calls' = {} /\ running' = 0
      /\ used' \in [{"rejections", "decisions", "faults"} -> Nat] /\ used'.rejections = used.rejections + 0
  BY Spent DEF BrokerRestart, StoreKept, pageVars, SameStore, SameHub, SamePages
<1>2. changes' \in Seq(Change) /\ RecordsStay
  <2>1. ASSUME NEW n \in DOMAIN changes
        PROVE  /\ changes'[n] \in Change /\ changes'[n].id = changes[n].id
               /\ changes[n].status \in {"applied", "rolled_back"} => changes'[n].status = changes[n].status
    <3>1. changes[n] \in Change
      BY Indexed
    <3>2. changes'[n] = IF changes[n].status = "running"
                        THEN [changes[n] EXCEPT !.status = "failed"] ELSE changes[n]
      BY DEF BrokerRestart
    <3>3. QED
      BY <3>1, <3>2 DEF Change, Status
  <2>2. changes' \in [1..Len(changes) -> Change]
    BY <2>1, Indexed DEF BrokerRestart
  <2>3. changes' \in Seq(Change) /\ DOMAIN changes' = DOMAIN changes
    BY <2>2, Sequenced, Indexed
  <2>4. QED
    BY <2>1, <2>3 DEF RecordsStay
<1>3. /\ jobs' \in Seq(Job) /\ DOMAIN jobs' = DOMAIN jobs /\ JobsStay /\ JobsAnswer'
  <2> PICK ends : ends = {n \in DOMAIN jobs : jobs[n].at = "running"}
    OBVIOUS
  <2>1. jobs' = [n \in DOMAIN jobs |-> IF n \in ends THEN [jobs[n] EXCEPT !.at = "error"] ELSE jobs[n]]
    BY DEF BrokerRestart
  <2>2. QED
    BY <2>1, <1>2, GivenUp
<1>4. TypeOK'
  BY <1>1, <1>2, <1>3, TaskTyped DEF TypeOK
<1>5. TaskRuns'
  BY <1>1 DEF TaskRuns
<1>6. DecisionsKnow' /\ ResultsTell'
  BY <1>1, <1>2, <1>3, PagesStay DEF SamePages
<1>7. QED
  BY <1>1, <1>3, <1>4, <1>5, <1>6 DEF TasksInv, TypeOK

LEMMA HubRestartTasks ==
  ASSUME TypeOK, TasksInv, HubRestart
  PROVE  /\ TypeOK' /\ TasksInv' /\ SameStore /\ used'.rejections = used.rejections
         /\ SameHub \/ (rejections' = NoRejections /\ turnedDown' = {})
<1>1. /\ SameStore /\ UNCHANGED <<changes, calls, running, list, deciding, results>>
      /\ loads' = {l \in loads : l.at = "sent"}
      /\ used' \in [{"rejections", "decisions", "faults"} -> Nat] /\ used'.rejections = used.rejections + 0
      /\ SameHub \/ (rejections' = NoRejections /\ turnedDown' = {})
  BY Spent DEF HubRestart, StoreKept, taskVars, SameStore, SameHub
<1>2. RecordsStay
  BY <1>1 DEF RecordsStay
<1>3. /\ jobs' \in Seq(Job) /\ DOMAIN jobs' = DOMAIN jobs /\ JobsStay /\ JobsAnswer'
      /\ \A n \in DOMAIN jobs : jobs'[n].change = jobs[n].change
  <2> PICK ends : ends = DOMAIN jobs
    OBVIOUS
  <2>1. jobs' = [n \in DOMAIN jobs |-> IF n \in ends THEN [jobs[n] EXCEPT !.at = "gone"] ELSE jobs[n]]
    BY DEF HubRestart
  <2>2. QED
    BY <2>1, <1>2, GivenUp
<1>4. TypeOK'
  <2>1. /\ rejections' \in [DOMAIN rejections' -> Nat] /\ DOMAIN rejections' \subseteq Ids
        /\ turnedDown' \subseteq Ids /\ Ids' = Ids
    BY <1>1 DEF TypeOK, SameHub, NoRejections, SameStore, Ids
  <2>2. QED
    BY <1>1, <1>3, <2>1 DEF TypeOK, SameStore
<1>5. TaskRuns'
  BY <1>1, <1>3 DEF TasksInv, TaskRuns, JobsStay, TypeOK
<1>6. DecisionsKnow' /\ ResultsTell'
  BY <1>1, <1>2, <1>3, PagesStay
<1>7. QED
  BY <1>1, <1>3, <1>4, <1>5, <1>6 DEF TasksInv, TypeOK

LEMMA StartTasks ==
  ASSUME TypeOK, TasksInv, NEW d \in deciding, startJob(d)
  PROVE  TypeOK' /\ TasksInv' /\ SameStore /\ SameHub /\ UNCHANGED used
<1>1. SameStore /\ SameHub /\ UNCHANGED <<used, changes, running, list>> /\ d.at = "sending"
  BY DEF startJob, StoreKept, SameStore, SameHub
<1>2. RecordsStay
  BY <1>1 DEF RecordsStay
<1>3. d \in Decision /\ (d.what = "rollback" => d.of \in DOMAIN changes)
  BY DEF TypeOK, TasksInv, DecisionsKnow
<1>4. CASE There(d)
  <2> PICK n \in Nat : n = Len(jobs) + 1
    BY Indexed
  <2> PICK j : j = [what |-> d.what, of |-> d.of, change |-> 0, at |-> "running", result |-> "none"]
    OBVIOUS
  <2>1. jobs' = Append(jobs, j) /\ calls' = calls \cup {n} /\ Goes(d, "polling", n)
    BY <1>4 DEF startJob
  <2>2. j \in Job /\ jobs \in Seq(Job)
    BY <1>3 DEF Job, Decision, TypeOK
  <2>3. /\ jobs' \in Seq(Job) /\ DOMAIN jobs' = DOMAIN jobs \cup {n} /\ n \notin DOMAIN jobs
        /\ jobs'[n] = j /\ \A k \in DOMAIN jobs : jobs'[k] = jobs[k]
    BY <2>1, <2>2, Indexed
  <2>4. /\ deciding' \subseteq Decision /\ loads' \subseteq Load /\ results' \subseteq Result
        /\ \A e, f \in deciding' : e.page = f.page /\ e.what = f.what /\ e.of = f.of => e = f
    BY <2>1, GoesTyped
  <2>5. TypeOK'
    <3>1. Ids' = Ids
      BY <1>1 DEF SameStore, Ids
    <3>2. calls' \subseteq DOMAIN jobs' /\ running' \in DOMAIN jobs' \cup {0}
      BY <1>1, <2>1, <2>3 DEF TypeOK
    <3>3. QED
      BY <1>1, <2>3, <2>4, <3>1, <3>2 DEF TypeOK, SameStore, SameHub
  <2>6. JobsStay
    BY <2>3 DEF JobsStay
  <2>7. TaskRuns'
    BY <1>1, <2>3 DEF TasksInv, TaskRuns, TypeOK
  <2>8. JobsAnswer'
    <3>1. SUFFICES ASSUME NEW k \in DOMAIN jobs'
                   PROVE  /\ Answered(jobs[k].what, jobs[k].of, jobs[k].result)'
                          /\ (jobs[k].at = "done" => jobs[k].result # "none")'
      BY DEF JobsAnswer
    <3>2. CASE k = n
      BY <3>2, <2>3, <1>1, <1>3 DEF Answered
    <3>3. CASE k \in DOMAIN jobs
      <4>1. Answered(jobs[k].what, jobs[k].of, jobs[k].result) /\ (jobs[k].at = "done" => jobs[k].result # "none")
        BY <3>3 DEF TasksInv, JobsAnswer
      <4>2. QED
        BY <4>1, <3>3, <2>3, <1>1 DEF Answered
    <3>4. QED
      BY <3>2, <3>3, <2>3
  <2>9. DecisionsKnow'
    <3> PICK g : g = [d EXCEPT !.at = "polling", !.job = n]
      OBVIOUS
    <3>1. g.what = d.what /\ g.of = d.of /\ g.job = n
      BY <1>3 DEF Decision
    <3>2. deciding' = (deciding \ {d}) \cup {g}
      BY <2>1 DEF Goes
    <3>3. DecisionsKnow
      BY DEF TasksInv
    <3>4. /\ g.what = "rollback" => g.of \in DOMAIN changes'
          /\ g.job \in DOMAIN jobs' /\ jobs'[g.job].what = g.what /\ jobs'[g.job].of = g.of
      BY <3>1, <1>1, <1>3, <2>3
    <3>5. ASSUME NEW e \in deciding
          PROVE  /\ e.what = "rollback" => e.of \in DOMAIN changes'
                 /\ e.at = "polling" =>
                      e.job \in DOMAIN jobs' /\ jobs'[e.job].what = e.what /\ jobs'[e.job].of = e.of
      BY <3>3, <1>1, <2>3 DEF DecisionsKnow
    <3>6. QED
      BY <3>2, <3>4, <3>5 DEF DecisionsKnow
  <2>10. ResultsTell'
    BY <2>1, <2>6, <1>2, PagesStay DEF Goes
  <2>11. QED
    BY <1>1, <2>5, <2>7, <2>8, <2>9, <2>10 DEF TasksInv
<1>5. CASE ~There(d)
  <2>1. SameTasks /\ Settled(d, "error")
    BY <1>5, <1>1 DEF startJob, SameTasks
  <2>2. /\ deciding' \subseteq Decision /\ loads' \subseteq Load /\ results' \subseteq Result
        /\ \A e, f \in deciding' : e.page = f.page /\ e.what = f.what /\ e.of = f.of => e = f
    BY <2>1, SettledTyped
  <2>3. TypeOK'
    BY <1>1, <2>1, <2>2, PageTyped, SameHubTyped DEF TypeOK
  <2>4. TaskRuns' /\ JobsAnswer' /\ DecisionsKnow'
    <3>1. TaskRuns /\ JobsAnswer /\ DecisionsKnow /\ UNCHANGED <<changes, running, jobs>> /\ deciding' \subseteq deciding
      BY <2>1 DEF SameTasks, TasksInv, Settled
    <3>2. TaskRuns' /\ JobsAnswer'
      BY <3>1 DEF TaskRuns, JobsAnswer, Answered
    <3>3. DecisionsKnow'
      BY <3>1 DEF DecisionsKnow
    <3>4. QED
      BY <3>2, <3>3
  <2>5. ResultsTell'
    <3>1. \A r \in results' : r \in results \/ (r.what = d.what /\ r.of = d.of /\ r.text = "error")
      BY <2>1 DEF Settled
    <3>2. ResultsTell
      BY DEF TasksInv
    <3>3. QED
      BY <3>1, <3>2, <1>1, <1>3 DEF ResultsTell, Answered
  <2>6. QED
    BY <1>1, <2>3, <2>4, <2>5 DEF TasksInv
<1>6. QED
  BY <1>4, <1>5

(* Pages take what they are told, or an error.                             *)
LEMMA PageTasks ==
  ASSUME TypeOK, TasksInv, SameTasks,
         \A d \in deciding' : \/ d \in deciding
                              \/ d.at # "polling" /\ (d.what = "rollback" => d.of \in DOMAIN changes),
         \A r \in results' : \/ r \in results
                             \/ Answered(r.what, r.of, r.text)
  PROVE  TasksInv'
<1>1. TaskRuns' /\ JobsAnswer' /\ DecisionsKnow'
  BY DEF SameTasks, TasksInv, TaskRuns, JobsAnswer, Answered, DecisionsKnow
<1>2. ResultsTell'
  BY DEF SameTasks, TasksInv, ResultsTell, Answered
<1>3. QED
  BY <1>1, <1>2 DEF TasksInv

LEMMA SignTasks == ASSUME TypeOK, TasksInv, NEW d \in deciding, Sign(d) PROVE TasksInv'
<1>1. SameTasks /\ d \in Decision /\ (d.what = "rollback" => d.of \in DOMAIN changes)
  BY SignTyped DEF TypeOK, TasksInv, DecisionsKnow
<1>2. CASE \E to \in {"signing", "sending"} : Goes(d, to, 0)
  <2>1. PICK to \in {"signing", "sending"} : Goes(d, to, 0)
    BY <1>2
  <2> PICK g : g = [d EXCEPT !.at = to, !.job = 0]
    OBVIOUS
  <2>2. g.what = d.what /\ g.of = d.of /\ g.at = to
    BY <1>1 DEF Decision
  <2>3. deciding' = (deciding \ {d}) \cup {g} /\ results' = results
    BY <2>1 DEF Goes
  <2>4. QED
    BY <1>1, <2>2, <2>3, PageTasks
<1>3. CASE Settled(d, "error")
  <2>1. /\ deciding' \subseteq deciding
        /\ \A r \in results' : r \in results \/ (r.what = d.what /\ r.of = d.of /\ r.text = "error")
    BY <1>3 DEF Settled
  <2>2. \A r \in results' : r \in results \/ Answered(r.what, r.of, r.text)
    BY <2>1, <1>1 DEF Answered
  <2>3. QED
    BY <1>1, <2>1, <2>2, PageTasks
<1>4. QED
  BY <1>2, <1>3 DEF Sign

LEMMA PollTasks == ASSUME TypeOK, TasksInv, NEW d \in deciding, pollJob(d) PROVE TasksInv'
<1>1. SameTasks /\ d.at = "polling" /\ (d.what = "rollback" => d.of \in DOMAIN changes)
      /\ d.job \in DOMAIN jobs /\ jobs[d.job].what = d.what /\ jobs[d.job].of = d.of
  BY PollTyped DEF pollJob, TasksInv, DecisionsKnow
<1>2. PICK text \in {"error", "applied", "failed", "auto_rolled_back", "rolled_back", "not_rolled_back"} :
        Settled(d, text) /\ (text = "error" \/ text = jobs[d.job].result)
  BY PollTyped
<1>3. Answered(d.what, d.of, text)
  <2>1. CASE text = "error"
    BY <2>1, <1>1 DEF Answered
  <2>2. CASE text = jobs[d.job].result
    <3>1. Answered(jobs[d.job].what, jobs[d.job].of, jobs[d.job].result)
      BY <1>1 DEF TasksInv, JobsAnswer
    <3>2. QED
      BY <3>1, <2>2, <1>1
  <2>3. QED
    BY <2>1, <2>2, <1>2
<1>4. /\ deciding' \subseteq deciding
      /\ \A r \in results' : r \in results \/ (r.what = d.what /\ r.of = d.of /\ r.text = text)
  BY <1>2 DEF Settled
<1>5. \A r \in results' : r \in results \/ Answered(r.what, r.of, r.text)
  BY <1>3, <1>4
<1>6. QED
  BY <1>1, <1>4, <1>5, PageTasks

-----------------------------------------------------------------------------
(* The store and the rejections.                                           *)

LEMMA ImageBound ==
  ASSUME NEW S, IsFiniteSet(S), NEW T, NEW f \in [S -> T], \A t \in T : \E s \in S : f[s] = t
  PROVE  IsFiniteSet(T) /\ Cardinality(T) \in Nat /\ Cardinality(T) <= Cardinality(S)
<1>1. f \in Surjection(S, T)
  BY DEF Surjection
<1>2. QED
  BY <1>1, FS_Surjection, FS_CardinalityType

LEMMA AcceptedTyped ==
  ASSUME TypeOK, StoreInv
  PROVE  /\ now \in Nat /\ Cardinality(accepted) \in Nat
         /\ \A a \in accepted : a.id \in Nat /\ a.at \in Nat /\ a.id <= Cardinality(accepted) /\ a.at <= now
         /\ \A f \in files : f.id \in Nat /\ f.at \in Nat /\ \E a \in accepted : a.id = f.id /\ a.at = f.at
<1>1. Numbered /\ Stored /\ Cardinality(accepted) \in Nat
  BY FS_CardinalityType DEF StoreInv, Numbered
<1>2. \A a \in accepted : a.id \in Nat /\ a.at \in Nat /\ a.id <= Cardinality(accepted) /\ a.at <= now
  BY <1>1, Limited DEF Numbered, TypeOK
<1>3. ASSUME NEW f \in files
      PROVE  f.id \in Nat /\ f.at \in Nat /\ \E a \in accepted : a.id = f.id /\ a.at = f.at
  <2>1. [id |-> f.id, at |-> f.at] \in accepted
    BY <1>1 DEF Stored
  <2>2. PICK a \in accepted : a.id = f.id /\ a.at = f.at
    BY <2>1
  <2>3. QED
    BY <2>2, <1>2
<1>4. QED
  BY <1>1, <1>2, <1>3 DEF TypeOK

\* What is newer than a file and still there is younger; what was there already is of its time.
LEMMA FilesInOrder ==
  ASSUME TypeOK, StoreInv, NEW f \in files, NEW g \in files, f.id < g.id
  PROVE  f.at <= g.at /\ g.at - f.at <= MAX_AGE /\ f.id \in Older(g)
<1>1. PICK a \in accepted : a.id = f.id /\ a.at = f.at
  BY AcceptedTyped
<1>2. PICK b \in accepted : b.id = g.id /\ b.at = g.at
  BY AcceptedTyped
<1>3. a.at <= b.at
  BY <1>1, <1>2 DEF StoreInv, Numbered
<1>4. g.at - f.at <= MAX_AGE
  BY DEF StoreInv, Stored
<1>5. f.id \in Older(g)
  BY <1>1, <1>4 DEF Older
<1>6. QED
  BY <1>1, <1>2, <1>3, <1>4, <1>5

LEMMA NewerBound ==
  ASSUME TypeOK, StoreInv, NEW f \in files
  PROVE  IsFiniteSet(Newer(f)) /\ Cardinality(Newer(f)) \in Nat /\ Cardinality(Newer(f)) < MAX_PENDING
<1>1. IsFiniteSet(files) /\ Cardinality(files) <= MAX_PENDING
  BY DEF StoreInv, Stored
<1> PICK new : new = {h \in files : h.id > f.id}
  OBVIOUS
<1>2. new \subseteq files \ {f}
  BY AcceptedTyped
<1>3. IsFiniteSet(files \ {f}) /\ Cardinality(files \ {f}) = Cardinality(files) - 1
      /\ Cardinality(files) \in Nat
  BY <1>1, FS_RemoveElement, FS_CardinalityType
<1>4. IsFiniteSet(new) /\ Cardinality(new) \in Nat /\ Cardinality(new) <= Cardinality(files \ {f})
  BY <1>2, <1>3, FS_Subset, FS_CardinalityType
<1> PICK F : F = [h \in new |-> h.id]
  OBVIOUS
<1>5. F \in [new -> Newer(f)] /\ \A t \in Newer(f) : \E h \in new : F[h] = t
  BY DEF Newer
<1>6. IsFiniteSet(Newer(f)) /\ Cardinality(Newer(f)) \in Nat /\ Cardinality(Newer(f)) <= Cardinality(new)
  BY <1>4, <1>5, ImageBound
<1>7. QED
  BY <1>1, <1>3, <1>4, <1>6, Bounds

\* Not so many are rejected after a file that the rejection of it is dropped.
LEMMA LaterBound ==
  ASSUME TypeOK, StoreInv, NEW f \in files, NEW ids, ids \subseteq Older(f) \cup Newer(f)
  PROVE  Cardinality(ids) \in Nat /\ Cardinality(ids) < MAX_REJECTIONS
<1>1. Older(f) \subseteq 1..Cardinality(accepted) /\ Cardinality(accepted) \in Nat
  <2>1. ASSUME NEW id \in Older(f) PROVE id \in 1..Cardinality(accepted)
    <3>1. PICK a \in accepted : id = a.id
      BY DEF Older
    <3>2. QED
      BY <3>1 DEF StoreInv, Numbered
  <2>2. QED
    BY <2>1, AcceptedTyped
<1>2. IsFiniteSet(Older(f)) /\ Cardinality(Older(f)) \in Nat
  <2> PICK n \in Int : n = Cardinality(accepted)
    BY <1>1
  <2>1. IsFiniteSet(1..n) /\ Older(f) \in SUBSET (1..n)
    BY <1>1, FS_Interval
  <2>2. QED
    BY <2>1, FS_Subset, FS_CardinalityType
<1>3. Cardinality(Older(f)) < MAX_PENDING
  BY DEF StoreInv, Stored
<1>4. IsFiniteSet(Newer(f)) /\ Cardinality(Newer(f)) \in Nat /\ Cardinality(Newer(f)) < MAX_PENDING
  BY NewerBound
<1> PICK both : both = Older(f) \cup Newer(f)
  OBVIOUS
<1>5. /\ IsFiniteSet(both) /\ IsFiniteSet(Older(f) \cap Newer(f))
      /\ Cardinality(both) = Cardinality(Older(f)) + Cardinality(Newer(f)) - Cardinality(Older(f) \cap Newer(f))
  BY <1>2, <1>4, FS_Union, FS_Intersection
<1>6. Cardinality(Older(f) \cap Newer(f)) \in Nat /\ Cardinality(both) \in Nat
  BY <1>5, FS_CardinalityType
<1>7. IsFiniteSet(ids) /\ Cardinality(ids) \in Nat /\ Cardinality(ids) <= Cardinality(both)
  BY <1>5, FS_Subset, FS_CardinalityType
<1>8. QED
  BY <1>2, <1>3, <1>4, <1>5, <1>6, <1>7, Bounds

LEMMA StoreStays ==
  ASSUME TypeOK, StoreInv, SameStore, SameHub, used'.rejections = used.rejections
  PROVE  StoreInv'
<1>1. Numbered' /\ Stored'
  BY DEF SameStore, StoreInv, Numbered, Stored, Older
<1>2. Remembered'
  BY DEF SameStore, SameHub, StoreInv, Remembered, Older, Newer, Later
<1>3. QED
  BY <1>1, <1>2 DEF StoreInv

LEMMA ForgottenStore ==
  ASSUME TypeOK, StoreInv, SameStore, rejections' = NoRejections, turnedDown' = {}
  PROVE  StoreInv'
<1>1. Numbered' /\ Stored'
  BY DEF SameStore, StoreInv, Numbered, Stored, Older
<1>2. Remembered'
  BY DEF Remembered, NoRejections
<1>3. QED
  BY <1>1, <1>2 DEF StoreInv

LEMMA TickStore == ASSUME TypeOK, StoreInv, Tick PROVE StoreInv'
<1>1. now' = now + 1 /\ UNCHANGED <<used, files, accepted, rejections, turnedDown>>
  BY DEF Tick, hubVars
<1>2. Numbered'
  BY <1>1, AcceptedTyped DEF StoreInv, Numbered
<1>3. ASSUME NEW a \in accepted, now' - a.at <= MAX_AGE
      PROVE  \E f \in files : f.id = a.id /\ f.at = a.at
  <2>1. now - a.at <= MAX_AGE
    BY <1>1, <1>3, AcceptedTyped, Bounds
  <2>2. QED
    BY <2>1 DEF StoreInv, Stored
<1>4. Stored'
  BY <1>1, <1>3 DEF StoreInv, Stored, Older
<1>5. Remembered'
  BY <1>1 DEF StoreInv, Remembered, Older, Newer, Later
<1>6. QED
  BY <1>2, <1>4, <1>5 DEF StoreInv

\* Old files go; a new one is numbered next, and those it finds are as many as were left.
LEMMA ProposeStore == ASSUME TypeOK, StoreInv, NEW d \in Drafts, Propose(d) PROVE StoreInv'
<1>1. UNCHANGED <<used, now, rejections, turnedDown>> /\ save(d)
  BY DEF Propose, hubVars
<1>2. /\ Pruned \subseteq files /\ IsFiniteSet(Pruned) /\ Cardinality(Pruned) \in Nat
      /\ Cardinality(Pruned) <= MAX_PENDING
      /\ \A f \in files : f \in Pruned <=> now - f.at <= MAX_AGE
  <2>1. Pruned \subseteq files /\ IsFiniteSet(files) /\ Cardinality(files) <= MAX_PENDING
    BY DEF Pruned, StoreInv, Stored
  <2>2. /\ IsFiniteSet(Pruned) /\ Cardinality(Pruned) <= Cardinality(files)
        /\ Cardinality(Pruned) \in Nat /\ Cardinality(files) \in Nat
    BY <2>1, FS_Subset, FS_CardinalityType
  <2>3. QED
    BY <2>1, <2>2, Bounds DEF Pruned
<1>3. \A a \in accepted : now - a.at <= MAX_AGE => \E f \in Pruned : f.id = a.id /\ f.at = a.at
  BY <1>2 DEF StoreInv, Stored
<1>4. ASSUME NEW f \in Pruned PROVE Newer(f) \subseteq {g.id : g \in {h \in Pruned : h.id > f.id}}
  <2>1. ASSUME NEW g \in files, g.id > f.id PROVE g \in Pruned
    <3>1. f.at <= g.at
      BY <2>1, <1>2, FilesInOrder, AcceptedTyped
    <3>2. QED
      BY <3>1, <1>2, AcceptedTyped, Bounds
  <2>2. QED
    BY <2>1 DEF Newer
<1>5. CASE files' = Pruned /\ UNCHANGED accepted
  <2>1. Numbered'
    BY <1>1, <1>5 DEF StoreInv, Numbered
  <2>2. Stored'
    BY <1>1, <1>2, <1>3, <1>5 DEF StoreInv, Stored, Older
  <2>3. Remembered'
    <3>1. \A f \in files' : f \in files /\ Newer(f) \subseteq Newer(f)' /\ Older(f)' = Older(f) /\ Later(f.id)' = Later(f.id)
      BY <1>1, <1>2, <1>4, <1>5 DEF Newer, Older, Later
    <3>2. QED
      BY <3>1, <1>1, <1>5 DEF StoreInv, Remembered
  <2>4. QED
    BY <2>1, <2>2, <2>3 DEF StoreInv
<1>6. ASSUME NEW proposal, NEW id,
             id = Cardinality(accepted) + 1, Cardinality(Pruned) < MAX_PENDING,
             Accepted(proposal) \/ Outgrown(proposal),
             files' = Pruned \cup {[id |-> id, proposal |-> proposal, at |-> now]},
             accepted' = accepted \cup {[id |-> id, at |-> now]}
      PROVE  StoreInv'
  <2> PICK new, it : new = [id |-> id, proposal |-> proposal, at |-> now] /\ it = [id |-> id, at |-> now]
    OBVIOUS
  <2>1. /\ new.id = id /\ new.at = now /\ new.proposal = proposal /\ it.id = id /\ it.at = now
        /\ files' = Pruned \cup {new} /\ accepted' = accepted \cup {it} /\ id \in Nat
        /\ [id |-> new.id, at |-> new.at] = it
    BY <1>6, AcceptedTyped
  <2>2. \A a \in accepted : a.id < id /\ a # it
    BY <2>1, <1>6, AcceptedTyped
  <2>3. \A f \in Pruned : f.id < id /\ f.at \in Nat /\ now - f.at <= MAX_AGE /\ f # new
    BY <2>1, <2>2, <1>2, AcceptedTyped
  <2>4. IsFiniteSet(accepted') /\ Cardinality(accepted') = id
    <3>1. IsFiniteSet(accepted) /\ it \notin accepted
      BY <2>2 DEF StoreInv, Numbered
    <3>2. /\ IsFiniteSet(accepted \cup {it})
          /\ Cardinality(accepted \cup {it}) = Cardinality(accepted) + 1
      BY <3>1, FS_AddElement
    <3>3. QED
      BY <3>2, <2>1, <1>6
  <2>5. Numbered'
    <3>1. \A a \in accepted' : a.id \in 1..Cardinality(accepted)' /\ a.at <= now'
      BY <2>1, <2>2, <2>4, <1>1, <1>6, AcceptedTyped DEF StoreInv, Numbered
    <3>2. \A a, b \in accepted' : (a.id = b.id => a = b) /\ (a.id < b.id => a.at <= b.at)
      BY <2>1, <2>2, AcceptedTyped DEF StoreInv, Numbered
    <3>3. QED
      BY <2>4, <3>1, <3>2 DEF Numbered
  <2>6. /\ Older(new)' \subseteq {f.id : f \in Pruned}
        /\ \A f \in Pruned : Older(f)' = Older(f)
    <3>1. ASSUME NEW x \in Older(new)' PROVE x \in {f.id : f \in Pruned}
      <4>1. PICK a \in accepted' : x = a.id /\ a.id < new.id /\ new.at - a.at <= MAX_AGE
        BY <1>1, Bounds DEF Older
      <4>2. a \in accepted
        BY <4>1, <2>1
      <4>3. QED
        BY <4>1, <4>2, <2>1, <1>3
    <3>2. ASSUME NEW f \in Pruned PROVE Older(f)' = Older(f)
      <4>1. ~(it.id < f.id)
        BY <2>1, <2>3, AcceptedTyped, <1>2
      <4>2. QED
        BY <4>1, <2>1 DEF Older
    <3>3. QED
      BY <3>1, <3>2
  <2>7. Cardinality(Older(new)') < MAX_PENDING
    <3> PICK ids : ids = {f.id : f \in Pruned}
      OBVIOUS
    <3> PICK F : F = [f \in Pruned |-> f.id]
      OBVIOUS
    <3>1. IsFiniteSet(ids) /\ Cardinality(ids) \in Nat /\ Cardinality(ids) <= Cardinality(Pruned)
      <4>1. F \in [Pruned -> ids] /\ \A t \in ids : \E f \in Pruned : F[f] = t
        OBVIOUS
      <4>2. QED
        BY <4>1, <1>2, ImageBound
    <3>2. Cardinality(Older(new)') \in Nat /\ Cardinality(Older(new)') <= Cardinality(ids)
      BY <3>1, <2>6, FS_Subset, FS_CardinalityType
    <3>3. QED
      BY <3>1, <3>2, <1>2, <1>6, Bounds
  <2>8. Stored'
    <3>1. IsFiniteSet(files') /\ Cardinality(files') <= MAX_PENDING
      <4>1. new \notin Pruned
        BY <2>3
      <4>2. IsFiniteSet(Pruned \cup {new}) /\ Cardinality(Pruned \cup {new}) = Cardinality(Pruned) + 1
        BY <4>1, <1>2, FS_AddElement
      <4>3. QED
        BY <4>2, <2>1, <1>2, <1>6, Bounds
    <3>2. \A f \in files' : [id |-> f.id, at |-> f.at] \in accepted'
      BY <2>1, <1>2 DEF StoreInv, Stored
    <3>3. \A f, g \in files' : (f.id = g.id => f = g) /\ (f.id < g.id => g.at - f.at <= MAX_AGE)
      BY <2>1, <2>3, <1>2, AcceptedTyped DEF StoreInv, Stored
    <3>4. \A a \in accepted' : now - a.at <= MAX_AGE => \E f \in files' : f.id = a.id /\ f.at = a.at
      BY <2>1, <1>3
    <3>5. \A f \in files' : Cardinality(Older(f)') < MAX_PENDING
      BY <2>1, <2>6, <2>7, <1>2 DEF StoreInv, Stored
    <3>6. \A f \in files' : Accepted(f.proposal) \/ Outgrown(f.proposal)
      BY <2>1, <1>2, <1>6 DEF StoreInv, Stored
    <3>7. \A f \in files' : (Cardinality(Older(f)) < MAX_PENDING)'
      BY <3>5
    <3>8. QED
      BY <3>1, <3>2, <3>3, <3>4, <3>6, <3>7, <1>1 DEF Stored
  <2>9. Remembered'
    <3>1. \A f \in Pruned : f \in files /\ Newer(f) \subseteq Newer(f)' /\ Older(f)' = Older(f) /\ Later(f.id)' = Later(f.id)
      BY <1>1, <1>2, <1>4, <2>1, <2>6 DEF Newer, Later
    <3>2. new.id \notin turnedDown
      BY <2>1, <2>2 DEF StoreInv, Remembered
    <3>3. \A f \in files' : f.id \in turnedDown' =>
            (f.id \in DOMAIN rejections /\ Later(f.id) \subseteq Older(f) \cup Newer(f))'
      BY <3>1, <3>2, <1>1, <2>1 DEF StoreInv, Remembered
    <3>4. QED
      BY <3>3, <1>1, <2>1 DEF StoreInv, Remembered
  <2>10. QED
    BY <2>5, <2>8, <2>9 DEF StoreInv
<1>7. QED
  <2>1. CASE files' = Pruned /\ UNCHANGED accepted
    BY <1>5, <2>1
  <2>2. CASE /\ Cardinality(Pruned) < MAX_PENDING /\ Accepted(d)
             /\ files' = Pruned \cup {[id |-> Next_id, proposal |-> normalizeProposal(d), at |-> now]}
             /\ accepted' = accepted \cup {[id |-> Next_id, at |-> now]}
    <3> PICK id, proposal : id = Next_id /\ proposal = normalizeProposal(d)
      OBVIOUS
    <3>1. id = Cardinality(accepted) + 1
      BY DEF Next_id
    <3>2. Accepted(proposal) \/ Outgrown(proposal)
      BY <2>2, StoredForm, ReviewAssumption
    <3>3. QED
      BY <2>2, <3>1, <3>2, <1>6
  <2>3. QED
    BY <1>1, <1>2, <2>1, <2>2, Bounds DEF save

\* Whatever is rejected after it, the rejection of a file that is still there is kept.
LEMMA RejectStore ==
  ASSUME TypeOK, StoreInv, NEW id \in Ids, RejectPosted(id)
  PROVE  StoreInv'
<1>1. /\ SameStore /\ used'.rejections = used.rejections + 1 /\ used.rejections \in Nat
      /\ turnedDown' = turnedDown \cup {id} /\ writeRejections(Rejected(id))
  BY RejectTyped DEF RejectPosted, TypeOK
<1>2. PICK g \in files : g.id = id
  BY DEF RejectPosted, loadProposal
<1> PICK map : map = Rejected(id)
  OBVIOUS
<1>3. /\ DOMAIN map = DOMAIN rejections \cup {id} /\ map[id] = used.rejections + 1
      /\ \A k \in DOMAIN rejections : k # id => map[k] = rejections[k]
      /\ \A k \in DOMAIN rejections : rejections[k] \in Nat /\ rejections[k] <= used.rejections
  BY DEF Rejected, StoreInv, Remembered, TypeOK
<1>4. /\ rejections' = [k \in Recent(map) |-> map[k]] /\ DOMAIN rejections' = Recent(map)
      /\ Recent(map) \subseteq DOMAIN map /\ \A k \in Recent(map) : rejections'[k] = map[k]
  BY <1>1 DEF writeRejections, Recent
<1>5. \A f \in files : Older(f)' = Older(f) /\ Newer(f)' = Newer(f)
  BY <1>1 DEF SameStore, Older, Newer
<1>6. ASSUME NEW f \in files, f.id \in turnedDown'
      PROVE  f.id \in Recent(map) /\ Later(f.id)' \subseteq Older(f) \cup Newer(f)
  <2> PICK ids : ids = {k \in DOMAIN map : map[k] > map[f.id]}
    OBVIOUS
  <2>1. f.id \in DOMAIN map /\ ids \subseteq Older(f) \cup Newer(f)
    <3>1. CASE f.id = id
      <4>1. ids = {}
        BY <3>1, <1>1, <1>3
      <4>2. QED
        BY <4>1, <3>1, <1>3
    <3>2. CASE f.id # id
      <4>1. f.id \in DOMAIN rejections /\ Later(f.id) \subseteq Older(f) \cup Newer(f)
        BY <3>2, <1>1, <1>6 DEF StoreInv, Remembered
      <4>2. ids \subseteq Later(f.id) \cup {id}
        BY <4>1, <3>2, <1>3 DEF Later
      <4>3. id \in Older(f) \cup Newer(f)
        <5>1. CASE id < f.id
          BY <5>1, <1>2, FilesInOrder
        <5>2. CASE id > f.id
          BY <5>2, <1>2 DEF Newer
        <5>3. QED
          BY <5>1, <5>2, <3>2, <1>2, AcceptedTyped
      <4>4. QED
        BY <4>1, <4>2, <4>3, <1>3
    <3>3. QED
      BY <3>1, <3>2
  <2>2. Cardinality(ids) < MAX_REJECTIONS
    BY <2>1, LaterBound
  <2>3. f.id \in Recent(map)
    BY <2>1, <2>2 DEF Recent
  <2>4. Later(f.id)' \subseteq ids
    BY <2>3, <1>4 DEF Later
  <2>5. QED
    BY <2>1, <2>3, <2>4
<1>7. Numbered' /\ Stored'
  BY <1>1 DEF SameStore, StoreInv, Numbered, Stored, Older
<1>8. Remembered'
  <2>1. DOMAIN rejections' \subseteq turnedDown' /\ \A k \in DOMAIN rejections' : rejections'[k] <= used'.rejections
    BY <1>1, <1>3, <1>4 DEF StoreInv, Remembered
  <2>2. \A k \in turnedDown' : \E a \in accepted' : a.id = k
    BY <1>1, <1>2, AcceptedTyped DEF SameStore, StoreInv, Remembered
  <2>3. \A f \in files' : f.id \in turnedDown' =>
          (f.id \in DOMAIN rejections /\ Later(f.id) \subseteq Older(f) \cup Newer(f))'
    BY <1>1, <1>4, <1>5, <1>6 DEF SameStore
  <2>4. QED
    BY <2>1, <2>2, <2>3 DEF Remembered
<1>9. QED
  BY <1>7, <1>8 DEF StoreInv

-----------------------------------------------------------------------------
(* The invariant.                                                          *)

LEMMA ReviewBegins == ASSUME Init PROVE ReviewInv
<1>1. limit.proposals \in Nat /\ limit \in Limits
  BY ReviewAssumption DEF Init
<1>2. TypeOK
  <2>1. \A id \in Ids : id \in Nat
    BY <1>1 DEF Ids
  <2>2. list \in [Pages -> [Ids -> Status]]
    BY DEF Init, Status
  <2>3. QED
    BY <1>1, <2>2 DEF Init, TypeOK, NoRejections
<1>3. StoreInv
  <2>1. IsFiniteSet({}) /\ Cardinality({}) = 0
    BY FS_EmptySet
  <2>2. QED
    BY <2>1, Bounds DEF Init, StoreInv, Numbered, Stored, Remembered, NoRejections
<1>4. TasksInv
  BY DEF Init, TasksInv, TaskRuns, JobsAnswer, DecisionsKnow, ResultsTell
<1>5. QED
  BY <1>2, <1>3, <1>4 DEF ReviewInv

\* What takes a page, or the operator elsewhere, one step further.
LEMMA PageStep ==
  ASSUME ReviewInv, NEW p \in Pages,
         \/ ListStep(p) \/ DecisionStep(p) \/ Refresh(p)
         \/ \E id \in Ids : RejectFails(p, id) \/ Decide(p, "apply", id)
         \/ \E n \in DOMAIN changes : Decide(p, "rollback", n)
  PROVE  ReviewInv'
<1> USE DEF ReviewInv
<1>1. SUFFICES TypeOK' /\ TasksInv' /\ SameStore /\ SameHub /\ used'.rejections = used.rejections
  BY StoreStays
<1>2. CASE ListStep(p) \/ Refresh(p)
  <2>1. TypeOK' /\ SameStore /\ SameTasks /\ SameHub
    BY <1>2, ListStepTyped, RefreshTyped
  <2>2. UNCHANGED <<deciding, results>>
    BY <1>2 DEF ListStep, ListBegins, ListArrives, ListFails, Refresh
  <2>3. TasksInv'
    BY <2>1, <2>2, PageTasks
  <2>4. used'.rejections = used.rejections
    <3>1. used' = used \/ Spend("faults")
      BY <1>2 DEF ListStep, ListBegins, ListArrives, ListFails, Refresh
    <3>2. used.rejections \in Nat
      BY DEF TypeOK
    <3>3. QED
      BY <3>1, <3>2, Spent
  <2>5. QED
    BY <2>1, <2>3, <2>4
<1>3. CASE DecisionStep(p)
  <2>1. PICK d \in deciding : Sign(d) \/ startJob(d) \/ pollJob(d)
    BY <1>3 DEF DecisionStep
  <2>2. TypeOK' /\ TasksInv' /\ SameStore /\ SameHub
    BY <2>1, SignTyped, SignTasks, StartTasks, PollTyped, PollTasks
  <2>3. used' = used \/ Spend("faults")
    BY <2>1, StartTasks DEF Sign, pollJob
  <2>4. used.rejections \in Nat
    BY DEF TypeOK
  <2>5. used'.rejections = used.rejections
    BY <2>3, <2>4, Spent
  <2>6. QED
    BY <2>2, <2>5
<1>4. CASE \E id \in Ids : RejectFails(p, id)
  <2>1. PICK id \in Ids : RejectFails(p, id)
    BY <1>4
  <2>2. TypeOK' /\ SameStore /\ SameTasks /\ SameHub
    BY <2>1, RejectFailsTyped
  <2>3. /\ UNCHANGED <<used, deciding>>
        /\ \A r \in results' : r \in results \/ (r.what = "apply" /\ r.text = "error")
    BY <2>1 DEF RejectFails, PageOnly
  <2>4. \A r \in results' : r \in results \/ Answered(r.what, r.of, r.text)
    BY <2>3 DEF Answered
  <2>5. TasksInv'
    BY <2>2, <2>3, <2>4, PageTasks
  <2>6. QED
    BY <2>2, <2>3, <2>5
<1>5. CASE \E what \in {"apply", "rollback"}, of \in Nat :
             Decide(p, what, of) /\ (what = "rollback" => of \in DOMAIN changes)
  <2>1. PICK what \in {"apply", "rollback"}, of \in Nat :
          Decide(p, what, of) /\ (what = "rollback" => of \in DOMAIN changes)
    BY <1>5
  <2>2. TypeOK' /\ SameStore /\ SameTasks /\ SameHub
    BY <2>1, DecideTyped
  <2>3. /\ deciding' = deciding \cup {[page |-> p, what |-> what, of |-> of, at |-> "asking", job |-> 0]}
        /\ results' \subseteq results /\ Spend("decisions")
    BY <2>1 DEF Decide
  <2>4. TasksInv'
    BY <2>1, <2>2, <2>3, PageTasks
  <2>5. used.rejections \in Nat
    BY DEF TypeOK
  <2>6. used'.rejections = used.rejections
    BY <2>3, <2>5, Spent
  <2>7. QED
    BY <2>2, <2>4, <2>6
<1>6. QED
  <2>1. \A id \in Ids : id \in Nat
    BY Limited
  <2>2. \A n \in DOMAIN changes : n \in Nat
    BY Indexed
  <2>3. QED
    BY <2>1, <2>2, <1>2, <1>3, <1>4, <1>5

LEMMA ReviewStep == ASSUME ReviewInv, [Next]_vars PROVE ReviewInv'
<1> USE DEF ReviewInv
<1>1. CASE UNCHANGED vars
  <2>1. UNCHANGED <<limit, used, now, files, accepted, answer, rejections, turnedDown, jobs, changes,
                    calls, running, loads, list, deciding, results>>
    BY <1>1 DEF vars, storeVars, hubVars, taskVars, pageVars
  <2>2. TypeOK'
    BY <2>1 DEF TypeOK, Ids
  <2>3. Numbered' /\ Stored' /\ Remembered'
    BY <2>1 DEF StoreInv, Numbered, Stored, Remembered, Older, Newer, Later
  <2>4. TasksInv'
    BY <2>1 DEF TasksInv, TaskRuns, JobsAnswer, DecisionsKnow, ResultsTell, Answered
  <2>5. QED
    BY <2>2, <2>3, <2>4 DEF StoreInv
<1>2. ASSUME NEW d \in Drafts, Propose(d) PROVE ReviewInv'
  <2>1. SameTasks /\ UNCHANGED <<deciding, results>>
    BY <1>2 DEF Propose, hubVars, taskVars, pageVars, SameTasks
  <2>2. TasksInv'
    BY <2>1, PageTasks
  <2>3. QED
    BY <1>2, <2>2, ProposeTyped, ProposeStore
<1>3. CASE Tick
  <2>1. /\ SameTasks /\ UNCHANGED <<limit, used, files, accepted, rejections, turnedDown, loads, list, deciding, results>>
        /\ now' = now + 1 /\ answer' = "none"
    BY <1>3 DEF Tick, hubVars, taskVars, pageVars, SameTasks
  <2>2. TasksInv'
    BY <2>1, PageTasks
  <2>3. TypeOK'
    <3>1. Ids' = Ids /\ now' \in Nat
      BY <2>1 DEF Ids, TypeOK
    <3>2. QED
      BY <2>1, <3>1 DEF TypeOK, SameTasks
  <2>4. QED
    BY <1>3, <2>2, <2>3, TickStore
<1>4. ASSUME NEW id \in Ids, RejectPosted(id), loads' \subseteq Load PROVE ReviewInv'
  <2>1. /\ SameStore /\ SameTasks /\ UNCHANGED <<list, deciding, results>>
        /\ used' \in [{"rejections", "decisions", "faults"} -> Nat]
        /\ rejections' \in [DOMAIN rejections' -> Nat] /\ DOMAIN rejections' \subseteq Ids
        /\ turnedDown' \subseteq Ids
    BY <1>4, RejectTyped
  <2>2. TypeOK'
    BY <2>1, <1>4, PageTyped DEF TypeOK
  <2>3. TasksInv'
    BY <2>1, PageTasks
  <2>4. QED
    BY <1>4, <2>2, <2>3, RejectStore
<1>5. ASSUME NEW p \in Pages, NEW id \in Ids, reject(p, id) PROVE ReviewInv'
  BY <1>4, <1>5, AskedTyped DEF reject
<1>6. ASSUME NEW id \in Ids, RejectElsewhere(id) PROVE ReviewInv'
  BY <1>4, <1>6 DEF RejectElsewhere, TypeOK
<1>7. CASE TaskStep \/ BrokerRestart
  <2>1. /\ TypeOK' /\ TasksInv' /\ SameStore /\ SameHub /\ used'.rejections = used.rejections
    BY <1>7, BeginTasks, RefuseTasks, TaskEndsTasks, BrokerRestartTasks DEF TaskStep
  <2>2. QED
    BY <2>1, StoreStays
<1>8. CASE HubRestart
  <2>1. /\ TypeOK' /\ TasksInv' /\ SameStore /\ used'.rejections = used.rejections
        /\ SameHub \/ (rejections' = NoRejections /\ turnedDown' = {})
    BY <1>8, HubRestartTasks
  <2>2. QED
    BY <2>1, StoreStays, ForgottenStore
<1>9. QED
  BY <1>1, <1>2, <1>3, <1>5, <1>6, <1>7, <1>8, PageStep DEF Next

LEMMA ReviewInductive == Spec => []ReviewInv
  BY ReviewBegins, ReviewStep, PTL DEF Spec

-----------------------------------------------------------------------------
(* Every variable has its type, and when a page says that a change was     *)
(* applied or undone (public/js/changes.js), it was, whichever decisions   *)
(* overlap and whatever is started again.                                  *)
THEOREM ReviewTells == Spec => []ResultsHold
<1>1. ReviewInv => ResultsHold
  <2>1. ReviewInv => TypeOK /\ ResultsTell
    BY DEF ReviewInv, TasksInv
  <2>2. ResultsTell => ResultsAreTrue
    BY DEF ResultsTell, ResultsAreTrue, Answered
  <2>3. QED
    BY <2>1, <2>2 DEF ResultsHold
<1>2. QED
  BY <1>1, ReviewInductive, PTL

\* A proposal the list has reached and the file of which passes is shown as its status.
LEMMA FreshShows ==
  ASSUME ReviewInv, NEW f \in files, Accepted(f.proposal)
  PROVE  Fresh[f.id] = statusOf(f.id, DOMAIN rejections, TRUE)
<1>0. TypeOK /\ StoreInv
  BY DEF ReviewInv
<1> PICK names : names = {g.id : g \in files}
  OBVIOUS
<1>1. f.id \in Newest(names)
  <2>1. {k \in names : k > f.id} = Newer(f)
    BY DEF Newer
  <2>2. Cardinality(Newer(f)) < MAX_LISTED
    BY <1>0, NewerBound, Bounds
  <2>3. QED
    BY <2>1, <2>2 DEF Newest
<1>2. loadProposal(f.id) # {}
  BY DEF loadProposal
<1>3. f.id \in Ids
  BY <1>0, AcceptedTyped DEF TypeOK
<1>4. QED
  BY <1>1, <1>2, <1>3 DEF Fresh, proposalList

LEMMA WaitingIsOffered ==
  ASSUME ReviewInv, NEW a \in accepted, ~(now - a.at > MAX_AGE),
         ~(\E n \in DOMAIN changes : changes[n].id = a.id), a.id \notin turnedDown, ~NeverShown(a.id)
  PROVE  Fresh[a.id] = "pending"
<1>0. TypeOK /\ StoreInv
  BY DEF ReviewInv
<1>1. now - a.at <= MAX_AGE
  BY <1>0, AcceptedTyped, Bounds
<1>2. PICK f \in files : f.id = a.id
  BY <1>0, <1>1 DEF StoreInv, Stored
<1>3. Accepted(f.proposal)
  BY <1>0, <1>2 DEF StoreInv, Stored, NeverShown
<1>4. Of(a.id) = {} /\ a.id \notin DOMAIN rejections
  BY <1>0 DEF Of, Listed, StoreInv, Remembered
<1>5. statusOf(a.id, DOMAIN rejections, TRUE) = "pending"
  BY <1>4 DEF statusOf
<1>6. QED
  BY <1>2, <1>3, <1>5, FreshShows

LEMMA RejectedIsNot == ASSUME ReviewInv, NEW id \in turnedDown PROVE Fresh[id] # "pending"
<1>0. TypeOK /\ StoreInv /\ id \in Ids
  BY DEF ReviewInv, TypeOK
<1> PICK names : names = {g.id : g \in files}
  OBVIOUS
<1>1. Fresh[id] \in {statusOf(id, DOMAIN rejections, TRUE), "absent"}
  BY <1>0 DEF Fresh, proposalList
<1>2. CASE loadProposal(id) = {}
  BY <1>0, <1>2 DEF Fresh, proposalList
<1>3. CASE loadProposal(id) # {}
  <2>1. PICK f \in files : f.id = id
    BY <1>3 DEF loadProposal
  <2>2. id \in DOMAIN rejections
    BY <1>0, <2>1 DEF StoreInv, Remembered
  <2>3. CASE Of(id) # {}
    <3> PICK n : n = CHOOSE m \in Of(id) : \A k \in Of(id) : m <= k
      OBVIOUS
    <3>1. n \in DOMAIN changes
      BY <1>0, <2>3, Oldest DEF Of, Listed
    <3>2. changes[n].status # "pending"
      BY <1>0, <3>1, Indexed DEF Change
    <3>3. QED
      BY <1>1, <2>3, <3>2 DEF statusOf
  <2>4. CASE Of(id) = {}
    BY <1>1, <2>2, <2>4 DEF statusOf
  <2>5. QED
    BY <2>3, <2>4
<1>4. QED
  BY <1>2, <1>3

(* What was accepted (bin/nox-propose.js) is offered for MAX_AGE until it  *)
(* is decided on, and what the operator rejected is not offered again      *)
(* (src/routes/api/changes.js), however many proposals and rejections come *)
(* after it.                                                               *)
THEOREM ReviewOffers == Spec => []OfferedIffWaiting
<1>1. ReviewInv => OfferedIffWaiting
  BY WaitingIsOffered, RejectedIsNot DEF OfferedIffWaiting
<1>2. QED
  BY <1>1, ReviewInductive, PTL

\* Only the store answers that there are too many.
LEMMA OnlyStoreRefuses ==
  ASSUME [Next]_vars, answer' = "too_many_pending_proposals"
  PROVE  \/ UNCHANGED vars
         \/ files' = Pruned /\ now' = now /\ Cardinality(Pruned) >= MAX_PENDING
<1>1. ASSUME NEW d \in Drafts, Propose(d)
      PROVE  files' = Pruned /\ now' = now /\ Cardinality(Pruned) >= MAX_PENDING
  BY <1>1 DEF Propose, save, Answers
<1>2. ASSUME NEW p \in Pages, ListStep(p) \/ DecisionStep(p) \/ Refresh(p) PROVE answer' = "none"
  BY <1>2 DEF ListStep, ListBegins, ListArrives, ListFails, DecisionStep, Sign, startJob, pollJob,
     Refresh, PageOnly, StoreKept
<1>3. ASSUME NEW p, NEW id, \/ reject(p, id) \/ RejectFails(p, id) \/ RejectElsewhere(id)
                            \/ Decide(p, "apply", id) \/ Decide(p, "rollback", id)
      PROVE  answer' = "none"
  BY <1>3 DEF reject, RejectPosted, RejectElsewhere, RejectFails, Decide, PageOnly, StoreKept
<1>4. ASSUME TaskStep \/ HubRestart \/ BrokerRestart \/ Tick PROVE answer' = "none"
  BY <1>4 DEF TaskStep, TaskEnds, Begin, Refuse, HubRestart, BrokerRestart, Tick, StoreKept
<1>5. QED
  BY <1>1, <1>2, <1>3, <1>4 DEF Next

(* The agent is turned away (src/changes/proposals.js) only while as many  *)
(* proposals as allowed are there that are not too old.                    *)
THEOREM ReviewRefuses == Spec => RefusedOnlyWhenFull
<1>1. [Next]_vars =>
        [answer' = "too_many_pending_proposals"
           => Cardinality({f \in files' : now' - f.at <= MAX_AGE}) >= MAX_PENDING]_vars
  <2>1. SUFFICES ASSUME [Next]_vars, ~UNCHANGED vars, answer' = "too_many_pending_proposals"
                 PROVE  Cardinality({f \in files' : now' - f.at <= MAX_AGE}) >= MAX_PENDING
    OBVIOUS
  <2>2. files' = Pruned /\ now' = now /\ Cardinality(Pruned) >= MAX_PENDING
    BY <2>1, OnlyStoreRefuses
  <2>3. {f \in files' : now' - f.at <= MAX_AGE} = Pruned
    BY <2>2 DEF Pruned
  <2>4. QED
    BY <2>2, <2>3
<1>2. QED
  BY <1>1, PTL DEF Spec, RefusedOnlyWhenFull
=============================================================================
