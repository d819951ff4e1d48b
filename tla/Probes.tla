------------------------------- MODULE Probes -------------------------------
(***************************************************************************)
(* Probes: the agent's reads of a host (src/changes/broker.js).  The       *)
(* agent's broker on the hub runs a probe, or relays it to a node, whose   *)
(* broker checks it again and runs it.  Two limits stop an agent that does *)
(* not stop by itself: a budget of probes in a few minutes, and how often  *)
(* the same command may be asked for.                                      *)
(*                                                                         *)
(* Which commands are reads (probeAllowed) is left out: those that are not *)
(* are refused before anything is counted.                                 *)
(***************************************************************************)
EXTENDS Naturals, FiniteSets

CONSTANTS
  Commands,
  BUDGET_WINDOW, BUDGET_LIMIT,  \* 6 minutes, 30
  REPEAT_WINDOW, REPEAT_LIMIT,  \* 5 minutes, 8
  MAX_KEYS,                     \* commands remembered before they are cleaned up (500)
  MaxTime, MaxRequests, MaxFaults   \* bounds

ProbesAssumption ==
  /\ BUDGET_WINDOW \in Nat /\ BUDGET_LIMIT \in Nat /\ REPEAT_WINDOW \in Nat /\ REPEAT_LIMIT \in Nat
  /\ MaxTime \in Nat /\ MaxRequests \in Nat

VARIABLES
  time,
  spent,    \* per broker, the probes that count, with the time they were started at
  recent,   \* per broker and command, the requests for it that are remembered
  relayed,  \* probes on their way to the node
  ran,      \* history: the probes each host ran since its broker was started
  requests, faults

vars == <<time, spent, recent, relayed, ran, requests, faults>>

Hosts == {"hub", "node"}
NoneRecent == [c \in Commands |-> {}]

Init ==
  /\ time = 0
  /\ spent = [h \in Hosts |-> {}] /\ recent = [h \in Hosts |-> NoneRecent]
  /\ relayed = {} /\ ran = [h \in Hosts |-> {}]
  /\ requests = 0 /\ faults = 0

Fault == faults < MaxFaults /\ faults' = faults + 1

Tick ==
  /\ time < MaxTime /\ time' = time + 1
  /\ UNCHANGED <<spent, recent, relayed, ran, requests, faults>>

-----------------------------------------------------------------------------
(* probeRequest(), of the n-th request.  A probe is its number, its command*)
(* and its time.                                                           *)

Counting(h) == {p \in spent[h] : time - p.at <= BUDGET_WINDOW}
budgetExhausted(h) == Cardinality(Counting(h)) >= BUDGET_LIMIT

Now(n, c) == [n |-> n, c |-> c, at |-> time]

(* The request that is asked about is counted, too.                        *)
Stamps(h, n, c) == {p \in recent[h][c] : time - p.at < REPEAT_WINDOW} \union {Now(n, c)}
repeatedTooOften(h, n, c) == Cardinality(Stamps(h, n, c)) > REPEAT_LIMIT

Kept(s) == \E p \in s : time - p.at < REPEAT_WINDOW

(* Too many commands, and those that were not asked for lately go.         *)
Remember(h, n, c) ==
  LET r == [recent[h] EXCEPT ![c] = Stamps(h, n, c)]
  IN  IF Cardinality({k \in Commands : r[k] # {}}) <= MAX_KEYS THEN r
      ELSE [k \in Commands |-> IF Kept(r[k]) THEN r[k] ELSE {}]

Passes(h, n, c) == ~budgetExhausted(h) /\ ~repeatedTooOften(h, n, c)

(* Mutant: a probe of the hub's own host costs nothing.                    *)
Check_Relayed(h, n, c) ==
  /\ spent' = [spent EXCEPT ![h] = Counting(h) \union (IF Passes(h, n, c) /\ h # "hub" THEN {Now(n, c)} ELSE {})]
  /\ recent' = IF budgetExhausted(h) THEN recent ELSE [recent EXCEPT ![h] = Remember(h, n, c)]

(* The budget comes first: what is refused for it is no repetition.  What  *)
(* passes is paid for before it is run or sent.                            *)
Check(h, n, c) ==
  /\ spent' = [spent EXCEPT ![h] = Counting(h) \union (IF Passes(h, n, c) THEN {Now(n, c)} ELSE {})]
  /\ recent' = IF budgetExhausted(h) THEN recent ELSE [recent EXCEPT ![h] = Remember(h, n, c)]

Run(h, n, c) == ran' = IF Passes(h, n, c) THEN [ran EXCEPT ![h] = @ \union {Now(n, c)}] ELSE ran

Request == requests < MaxRequests /\ requests' = requests + 1

(* The agent asks the broker of its own host.                              *)
probe(h, c) ==
  /\ Request /\ Check(h, requests + 1, c) /\ Run(h, requests + 1, c)
  /\ UNCHANGED <<time, relayed, faults>>

(* The agent of the hub asks for the node.                                 *)
relayProbe(c) ==
  /\ Request /\ Check("hub", requests + 1, c)
  /\ relayed' = relayed \union (IF Passes("hub", requests + 1, c) THEN {[n |-> requests + 1, c |-> c]} ELSE {})
  /\ UNCHANGED <<time, ran, faults>>

(* On the node it is a probe like those of the node's own agent.           *)
Relayed(r) ==
  /\ Check("node", r.n, r.c) /\ Run("node", r.n, r.c)
  /\ relayed' = relayed \ {r}
  /\ UNCHANGED <<time, requests, faults>>

Lost(r) ==
  /\ Fault
  /\ relayed' = relayed \ {r}
  /\ UNCHANGED <<time, spent, recent, ran, requests>>

(* Both limits are kept in memory.                                         *)
Restart(h) ==
  /\ Fault
  /\ spent' = [spent EXCEPT ![h] = {}] /\ recent' = [recent EXCEPT ![h] = NoneRecent]
  /\ ran' = [ran EXCEPT ![h] = {}]
  /\ UNCHANGED <<time, relayed, requests>>

Next ==
  \/ Tick
  \/ \E c \in Commands : relayProbe(c) \/ \E h \in Hosts : probe(h, c)
  \/ \E r \in relayed : Relayed(r) \/ Lost(r)
  \/ \E h \in Hosts : Restart(h)

Spec == Init /\ [][Next]_vars

-----------------------------------------------------------------------------
(* However its own agent's probes and those relayed to it are mixed, no    *)
(* host runs more probes in any six minutes than the budget, and no command*)
(* more often in any five than it may be repeated, until its broker is     *)
(* started again.                                                          *)
ProbesAreLimited ==
  \A h \in Hosts, t \in 0..MaxTime :
    /\ Cardinality({p \in ran[h] : p.at \in t..(t + BUDGET_WINDOW)}) <= BUDGET_LIMIT
    /\ \A c \in Commands :
         Cardinality({p \in ran[h] : p.c = c /\ p.at >= t /\ p.at < t + REPEAT_WINDOW}) <= REPEAT_LIMIT
=============================================================================
