---------------------------- MODULE AgentBridge -----------------------------
(***************************************************************************)
(* Questions to the agent.  A page sends the last messages of its chat and *)
(* polls for the answer (public/js/forge.js).  The web service keeps a job *)
(* per question and calls the bridge (src/routes/api/agent.js,             *)
(* src/agent-client.js), which runs one question at a time and falls back  *)
(* over models and keys (deploy/forge/server.mjs).  Chats are kept in the  *)
(* storage that all pages of the browser share.                            *)
(*                                                                         *)
(* Questions are numbered as they are asked, chats as they are begun.      *)
(***************************************************************************)
EXTENDS Naturals, FiniteSets, SequencesExt

CONSTANTS
  Pages,        \* tabs of one browser
  models,       \* the configured models, in their order
  keys,         \* the provider's keys, in their order
  WINDOW,       \* messages kept of a chat (14)
  MAX_CHATS,    \* chats kept (20)
  MaxQuestions, MaxChats, MaxFaults  \* bounds

AgentBridgeAssumption ==
  /\ {WINDOW, MAX_CHATS, MaxQuestions, MaxChats, MaxFaults} \subseteq Nat
  /\ models \in Seq(Range(models)) /\ keys \in Seq(Range(keys))
  /\ IsInjective(models) /\ IsInjective(keys) /\ Len(models) > 0 /\ WINDOW > 1

VARIABLES
  messages,   \* forgeMessages of a page
  chat,       \* the chat of a page
  busy,       \* the question a page waits for, 0 for none
  chats,      \* the chats in the browser's storage, the newest first
  begun,      \* chats begun so far
  jobs,       \* agentJobs: the state of each question
  calls,      \* requests of the web service under way to the bridge
  queue,      \* the bridge's tasks, the one that runs first
  attempts,   \* history: the attempts at each question that is not answered yet
  answers,    \* answers of the bridge on their way back
  faults

pageVars   == <<messages, chat, busy, chats, begun>>
hubVars    == <<jobs, calls>>
bridgeVars == <<queue, attempts, answers>>
vars == <<pageVars, hubVars, bridgeVars, faults>>

Questions == 1..MaxQuestions
Message == [by : {"user", "assistant"}, q : Questions]
Outcome == {"answer", "agent_timeout", "all_models_failed", "bad_request", "lost"}

Init ==
  /\ messages = [p \in Pages |-> <<>>]
  /\ chat = [p \in Pages |-> 0] /\ busy = [p \in Pages |-> 0]
  /\ chats = <<>> /\ begun = 0
  /\ jobs = <<>> /\ calls = {}
  /\ queue = <<>> /\ attempts = [q \in Questions |-> <<>>] /\ answers = {}
  /\ faults = 0

Fault == faults < MaxFaults /\ faults' = faults + 1
LastOf(s, n) == SubSeq(s, IF Len(s) > n THEN Len(s) - n + 1 ELSE 1, Len(s))

-----------------------------------------------------------------------------
(* The bridge.                                                             *)

(* Mutant: the model that was asked for is tried a second time.            *)
Candidates_Again(model) == <<model>> \o models

(* The model that was asked for, then the others.                          *)
Candidates(model) == <<model>> \o RemoveAt(models, CHOOSE n \in DOMAIN models : models[n] = model)

(* A task goes through the candidates, and for each of them through the    *)
(* keys.                                                                   *)
First(q, model) == [q |-> q, model |-> model, candidate |-> 1, key |-> 1]
AtLast(t)  == t.candidate = Len(Candidates(t.model)) /\ t.key = Len(keys)
Further(t) == IF t.key < Len(keys) THEN [t EXCEPT !.key = @ + 1]
              ELSE [t EXCEPT !.candidate = @ + 1, !.key = 1]
attempt(t) == [model |-> Candidates(t.model)[t.candidate], key |-> keys[t.key]]

enqueue(t) == queue' = Append(queue, t)

(* A request is taken up, or refused for what it contains.                 *)
Chat(q) ==
  /\ q \in calls /\ \A t \in Range(queue) : t.q # q
  /\ \A a \in answers : a.q # q
  /\ \/ \E m \in Range(models) : enqueue(First(q, m)) /\ UNCHANGED answers
     \/ answers' = answers \cup {[q |-> q, is |-> "bad_request"]} /\ UNCHANGED queue
  /\ UNCHANGED <<pageVars, hubVars, attempts, faults>>

Reply(q, is) == queue' = Tail(queue) /\ answers' = answers \cup {[q |-> q, is |-> is]}

(* One attempt: an answer, or a failure the agent prints or exits with, or *)
(* its time is up, which ends the question.  No key is no attempt.         *)
execute ==
  /\ queue # <<>>
  /\ LET t == Head(queue) IN
     IF keys = <<>>
     THEN Reply(t.q, "all_models_failed") /\ UNCHANGED attempts
     ELSE /\ attempts' = [attempts EXCEPT ![t.q] = Append(@, [asked |-> t.model, of |-> attempt(t)])]
          /\ \/ Reply(t.q, "answer")
             \/ Reply(t.q, "agent_timeout")
             \/ AtLast(t) /\ Reply(t.q, "all_models_failed")
             \/ ~AtLast(t) /\ queue' = <<Further(t)>> \o Tail(queue) /\ UNCHANGED answers
  /\ UNCHANGED <<pageVars, hubVars, faults>>

BridgeRestart ==
  /\ Fault
  /\ queue' = <<>>
  /\ attempts' = [q \in Questions |-> <<>>]
  /\ answers' = {[q |-> q, is |-> "lost"] : q \in calls}
  /\ UNCHANGED <<pageVars, hubVars>>

-----------------------------------------------------------------------------
(* The web service.                                                        *)

Settle(q, at) == jobs' = IF jobs[q] = "running" THEN [jobs EXCEPT ![q] = at] ELSE jobs

(* callAgent() ends: what comes for a call that was given up is dropped.   *)
Answered(a) ==
  /\ a \in answers
  /\ answers' = answers \ {a}
  /\ calls' = calls \ {a.q}
  /\ IF a.q \in calls THEN Settle(a.q, IF a.is = "answer" THEN "done" ELSE "error") ELSE UNCHANGED jobs
  /\ attempts' = [attempts EXCEPT ![a.q] = <<>>]
  /\ UNCHANGED <<pageVars, queue, faults>>

(* After fifteen minutes, whether the question runs or waits; the bridge   *)
(* carries it out all the same.                                            *)
GivesUp(q) ==
  /\ q \in calls /\ \E t \in Range(queue) : t.q = q
  /\ Fault
  /\ calls' = calls \ {q}
  /\ Settle(q, "error")
  /\ UNCHANGED <<pageVars, bridgeVars>>

HubRestart ==
  /\ Fault
  /\ jobs' = [q \in DOMAIN jobs |-> "gone"]
  /\ calls' = {}
  /\ UNCHANGED <<pageVars, bridgeVars>>

-----------------------------------------------------------------------------
(* A page.                                                                 *)

(* The chats of the storage are all different.                             *)
saveForgeChat(p, all) ==
  LET others == RemoveFirstMatch(chats, LAMBDA c : c.id = chat[p])
      kept   == <<[id |-> chat[p], messages |-> LastOf(all, WINDOW)]>> \o others
  IN  IF all = <<>> THEN chats
      ELSE SubSeq(kept, 1, IF Len(kept) < MAX_CHATS THEN Len(kept) ELSE MAX_CHATS)

(* A page that is opened has a chat of its own.                            *)
Open(p) ==
  /\ begun < MaxChats
  /\ begun' = begun + 1
  /\ chat' = [chat EXCEPT ![p] = begun'] /\ messages' = [messages EXCEPT ![p] = <<>>]

Reload(p) ==
  /\ Open(p)
  /\ busy' = [busy EXCEPT ![p] = 0]
  /\ UNCHANGED <<chats, hubVars, bridgeVars, faults>>

resetForge(p) ==
  /\ busy[p] = 0 /\ chat[p] # 0
  /\ chats' = saveForgeChat(p, messages[p])
  /\ Open(p)
  /\ UNCHANGED <<busy, hubVars, bridgeVars, faults>>

loadForgeChat(p) ==
  \E c \in Range(chats) :
    /\ busy[p] = 0 /\ chat[p] # 0
    /\ chats' = saveForgeChat(p, messages[p])
    /\ chat' = [chat EXCEPT ![p] = c.id] /\ messages' = [messages EXCEPT ![p] = c.messages]
    /\ UNCHANGED <<busy, begun, hubVars, bridgeVars, faults>>

(* The question is part of the chat whether it is answered or not.         *)
sendForge(p) ==
  /\ busy[p] = 0 /\ chat[p] # 0 /\ Len(jobs) < MaxQuestions
  /\ LET q == Len(jobs) + 1 IN
       /\ messages' = [messages EXCEPT ![p] = Append(@, [by |-> "user", q |-> q])]
       /\ busy' = [busy EXCEPT ![p] = q]
       /\ jobs' = Append(jobs, "running") /\ calls' = calls \cup {q}
  /\ UNCHANGED <<chat, chats, begun, bridgeVars, faults>>

(* The answer, or any failure, or the last poll before the time is up.     *)
Polled(p) ==
  /\ busy[p] # 0
  /\ \/ /\ jobs[busy[p]] = "done"
        /\ messages' = [messages EXCEPT ![p] = LastOf(Append(@, [by |-> "assistant", q |-> busy[p]]), WINDOW)]
        /\ chats' = saveForgeChat(p, messages'[p])
        /\ UNCHANGED faults
     \/ jobs[busy[p]] \in {"error", "gone"} /\ UNCHANGED <<messages, chats, faults>>
     \/ jobs[busy[p]] = "running" /\ Fault /\ UNCHANGED <<messages, chats>>
  /\ busy' = [busy EXCEPT ![p] = 0]
  /\ UNCHANGED <<chat, begun, hubVars, bridgeVars>>

-----------------------------------------------------------------------------

Bridge == execute \/ \E q \in calls : Chat(q)

Next ==
  \/ Bridge \/ BridgeRestart \/ HubRestart
  \/ \E a \in answers : Answered(a)
  \/ \E q \in calls : GivesUp(q)
  \/ \E p \in Pages : Reload(p) \/ resetForge(p) \/ loadForgeChat(p) \/ sendForge(p) \/ Polled(p)

Replies == \E a \in answers : Answered(a)

(* The bridge works: every attempt is ended by its time limit.  Answers    *)
(* arrive; a page goes on polling.                                         *)
Spec == Init /\ [][Next]_vars /\ WF_vars(Bridge) /\ WF_vars(Replies) /\ \A p \in Pages : WF_vars(Polled(p))

-----------------------------------------------------------------------------
(* Every variable has its type.                                            *)
TypeOK ==
  /\ messages \in [Pages -> Seq(Message)]
  /\ chat \in [Pages -> 0..MaxChats] /\ busy \in [Pages -> {0} \cup Questions]
  /\ chats \in Seq([id : 1..MaxChats, messages : Seq(Message)])
  /\ begun \in 0..MaxChats
  /\ jobs \in Seq({"running", "done", "error", "gone"}) /\ calls \subseteq Questions
  /\ queue \in Seq([q : Questions, model : Range(models), candidate : Nat, key : Nat])
  /\ answers \subseteq [q : Questions, is : Outcome]
  /\ attempts \in [Questions -> Seq([asked : Range(models),
                                     of : [model : Range(models), key : Range(keys)]])]
  /\ faults \in 0..MaxFaults

Replied(q) == \E a \in answers : a.q = q

(* The agent works on one question at a time: none is begun before the one *)
(* that was begun is replied to.  It goes through every model with every   *)
(* key once, the model that was asked for first, and gives up only when it *)
(* has gone through all of them.                                           *)
OneQuestionAtATime ==
  /\ \A q, r \in Questions :
       q # r /\ attempts[q] # <<>> /\ attempts[r] # <<>> => Replied(q) \/ Replied(r)
  /\ \A q \in Questions :
       LET tried == [n \in DOMAIN attempts[q] |-> attempts[q][n].of] IN
       /\ IsInjective(tried)
       /\ tried # <<>> => tried[1].model = attempts[q][1].asked
       /\ [q |-> q, is |-> "all_models_failed"] \in answers =>
            Range(tried) = [model : Range(models), key : Range(keys)]

Follows(s) ==
  \A n \in DOMAIN s : s[n].by = "assistant" /\ n > 1 => s[n - 1] = [by |-> "user", q |-> s[n].q]

(* An answer follows its own question, in every page and every chat that   *)
(* is kept: although chats are changed between, questions fail and stay,   *)
(* and the beginning of a long chat is cut off.                            *)
AnswersFollowQuestions ==
  /\ \A p \in Pages : Follows(messages[p])
  /\ \A c \in Range(chats) : Follows(c.messages)

(* A question ends: the page is told an answer or a failure, although      *)
(* others wait before it, and whatever is started again.                   *)
QuestionsEnd == \A p \in Pages : []<>(busy[p] = 0)
=============================================================================
