---------------------------- MODULE FleetIngest ----------------------------
(***************************************************************************)
(* The telemetry of a node on its way to the hub (src/fleet.js) and what   *)
(* the hub keeps of it (src/db/fleet.js).  The node pushes a signed        *)
(* snapshot at every interval, whether or not the last push has ended; the *)
(* hub stores what it accepts under the time at which it arrives.          *)
(*                                                                         *)
(* Time is the hub's clock, in steps, which are the milliseconds of its    *)
(* rows as well; the node's clock may be off.  A push is known by its      *)
(* number, which stands for its nonce and its snapshot.                    *)
(***************************************************************************)
EXTENDS Integers, Sequences

CONSTANTS
  WINDOW,     \* how old, or how far ahead, a request may be (60 s)
  NONCE_AGE,  \* how long a nonce is remembered (120 s)
  LIMIT,      \* requests of a node in a minute (30)
  MINUTE,     \* the minute
  OFFLINE,    \* a node that was not heard for longer is offline (45 s)
  Skews,      \* how far the clock of the node may be off
  MaxTime, MaxPushes, MaxFaults   \* bounds

FleetIngestAssumption ==
  /\ {WINDOW, NONCE_AGE, LIMIT, MINUTE, OFFLINE, MaxTime, MaxPushes, MaxFaults} \subseteq Nat
  /\ Skews \subseteq Int
  /\ NONCE_AGE >= 2 * WINDOW

VARIABLES
  time, skew,
  sent,       \* the time the node wrote into each push
  waiting,    \* the pushes whose answer the node awaits
  lastPush,   \* what the node says of its last push
  wire,       \* pushes on their way
  replies,    \* answers on their way
  nonces,     \* when the hub took a push; those it has forgotten are missing
  bucket,     \* the requests it counted, and until when it counts them
  row,        \* the node's row in fleet_nodes
  metrics,    \* the rows in fleet_metrics, one for a time: [push, ts]
  stored,     \* history: the rows that were ever written
  restarts,   \* history: when the hub was started again
  faults

nodeVars == <<sent, waiting, lastPush>>
netVars  == <<wire, replies>>
hubVars  == <<nonces, bucket, row, metrics, stored, restarts>>
vars == <<time, skew, nodeVars, netVars, hubVars, faults>>

Init ==
  /\ time = 0 /\ skew \in Skews
  /\ sent = <<>> /\ waiting = {} /\ lastPush = [push |-> 0, ok |-> FALSE]
  /\ wire = {} /\ replies = {}
  /\ nonces = {} /\ bucket = [count |-> 0, reset |-> -1]
  /\ row = [push |-> 0, lastSeen |-> 0] /\ metrics = {} /\ stored = {} /\ restarts = {}
  /\ faults = 0

Fault == faults < MaxFaults /\ faults' = faults + 1

Tick ==
  /\ time < MaxTime /\ time' = time + 1
  /\ UNCHANGED <<skew, nodeVars, netVars, hubVars, faults>>

-----------------------------------------------------------------------------
(* The node and the network.                                               *)

(* A push is made whatever became of the one before it.                    *)
push ==
  /\ Len(sent) < MaxPushes
  /\ sent' = Append(sent, time + skew)
  /\ waiting' = waiting \cup {Len(sent')} /\ wire' = wire \cup {Len(sent')}
  /\ UNCHANGED <<time, skew, lastPush, replies, hubVars, faults>>

(* The answer, or ten seconds without one: the hub may have it all the     *)
(* same.  Whichever push ends last is the last push.                       *)
PushEnds(n) ==
  /\ n \in waiting /\ waiting' = waiting \ {n}
  /\ \/ \E r \in replies : r.push = n /\ lastPush' = r /\ replies' = replies \ {r} /\ UNCHANGED faults
     \/ Fault /\ lastPush' = [push |-> n, ok |-> FALSE] /\ UNCHANGED replies
  /\ UNCHANGED <<time, skew, sent, wire, hubVars>>

(* The network loses a push or delivers it once more.                      *)
Network(n) ==
  /\ Fault
  /\ \/ n \in wire /\ wire' = wire \ {n}
     \/ n \in 1..Len(sent) /\ n \notin wire /\ wire' = wire \cup {n}
  /\ UNCHANGED <<time, skew, nodeVars, replies, hubVars>>

-----------------------------------------------------------------------------
(* The hub.                                                                *)

(* Mutant: a nonce is kept for as long as a request may be old.            *)
cleanupNonces_Early(s) == {k \in s : k.at >= time - WINDOW}

cleanupNonces(s) == {k \in s : k.at >= time - NONCE_AGE}

(* Refused requests count too.                                             *)
Counted ==
  LET b == IF time > bucket.reset THEN [count |-> 0, reset |-> time + MINUTE] ELSE bucket
  IN  [b EXCEPT !.count = @ + 1]

Timely(n) == sent[n] - time \in -WINDOW..WINDOW

\* A row of the same time is replaced.
Stored(n) ==
  /\ row' = [push |-> n, lastSeen |-> time]
  /\ metrics' = {m \in metrics : m.ts # time} \cup {[push |-> n, ts |-> time]}
  /\ stored' = stored \cup {[push |-> n, ts |-> time]}

Answered(n, ok) == replies' = IF n \in waiting THEN replies \cup {[push |-> n, ok |-> ok]} ELSE replies

(* The nonce is spent before the row is written, which may fail.           *)
Ingest(n) ==
  /\ n \in wire /\ wire' = wire \ {n}
  /\ bucket' = Counted
  /\ LET known == cleanupNonces(nonces)
         taken == known \cup {[push |-> n, at |-> time]}
     IN  IF Counted.count > LIMIT \/ ~Timely(n) \/ \E k \in known : k.push = n
         THEN nonces' = known /\ Answered(n, FALSE) /\ UNCHANGED <<row, metrics, stored, faults>>
         ELSE /\ nonces' = taken
              /\ \/ Stored(n) /\ Answered(n, TRUE) /\ UNCHANGED faults
                 \/ Fault /\ Answered(n, FALSE) /\ UNCHANGED <<row, metrics, stored>>
  /\ UNCHANGED <<time, skew, nodeVars, restarts>>

(* The hub is started again: what it knew of nonces and requests is gone.  *)
Restart ==
  /\ Fault
  /\ nonces' = {} /\ bucket' = [count |-> 0, reset |-> -1]
  /\ restarts' = restarts \cup {time}
  /\ UNCHANGED <<time, skew, nodeVars, netVars, row, metrics, stored>>

Online == row.push # 0 /\ time - row.lastSeen <= OFFLINE

Next ==
  \/ Tick \/ push \/ Restart
  \/ \E n \in 1..MaxPushes : PushEnds(n) \/ Network(n) \/ Ingest(n)

Spec == Init /\ [][Next]_vars

-----------------------------------------------------------------------------
(* A node that is shown as online sent what is shown at most the time after*)
(* which it would be offline and the age that a request may have ago, plus *)
(* what its clock is ahead: however long a push was on its way, and        *)
(* whichever came in last.                                                 *)
OnlineMeansRecent == Online => time - (sent[row.push] - skew) <= OFFLINE + WINDOW + skew

(* A push is stored again only across a restart of the hub, and then only  *)
(* within the window: never without one, at whatever edge of the two       *)
(* windows it is delivered again.                                          *)
StoredOnce ==
  \A a, b \in stored :
    a.push = b.push /\ a.ts < b.ts =>
      (\E r \in restarts : r \in a.ts..b.ts) /\ b.ts <= a.ts + 2 * WINDOW

(* The node only says that a push went through if the hub stored it; its   *)
(* row is still there, or that of a push which came at the same time.      *)
PushIsStored ==
  lastPush.ok => \E s \in stored, m \in metrics : s.push = lastPush.push /\ m.ts = s.ts /\ m \in stored
=============================================================================
