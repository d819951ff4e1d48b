---------------------------- MODULE ChangeBroker ----------------------------
(***************************************************************************)
(* The control side of the change broker: src/changes/broker.js with the   *)
(* approval gate of src/changes/approval.js and the wiring of              *)
(* bin/change-broker.js.  Connections are served concurrently and suspend  *)
(* while a body arrives, while a signature is verified and while the       *)
(* executor works; an action is what runs between two such points.         *)
(*                                                                         *)
(* The executor is reduced to its lock (ChangeExecutor models it).         *)
(* Signatures are external: the operator signs the challenge of a nonce,   *)
(* and whoever talks to the socket may send any nonce with any signature   *)
(* made so far, or none that verifies (NoSignature).                       *)
(***************************************************************************)
EXTENDS Naturals, Sequences, FiniteSets

CONSTANTS
  Conns,        \* connections served at the same time
  Hashes,       \* what an approval can be about: a proposal, a change
  Nobody,       \* the executor is free
  MAX_PENDING,  \* challenges kept
  Ttl,          \* ttlMs
  FAILURE_WINDOW, FAILURE_LIMIT,
  MaxTime, MaxNonces, MaxFailed, MaxRestarts, MaxToggles   \* bounds of a run

ASSUME BrokerAssumption ==
  /\ IsFiniteSet(Conns)
  /\ Hashes # {}
  /\ Nobody \notin Conns
  /\ {MAX_PENDING, FAILURE_LIMIT} \subseteq Nat \ {0}
  /\ {Ttl, FAILURE_WINDOW, MaxTime, MaxNonces, MaxFailed, MaxRestarts, MaxToggles}
       \subseteq Nat

Purpose == {"apply", "rollback"}
NoSignature == 0

(* What a challenge binds: sha256(purpose, hash, nonce), and when it dies. *)
(* A nonce is the position of its challenge among all handed out.          *)
Challenge == [hash : Hashes, purpose : Purpose, expiresAt : 0..(MaxTime + Ttl)]
Nonce == 0..MaxNonces

(* A connection, with what its body asked for once it has been read; as    *)
(* history, when it presented its nonce and whether nobody had before.     *)
Conn == [pc : {"idle", "body", "verify", "running"}, purpose : Purpose,
         hash : Hashes, nonce : Nonce, signature : Nonce, first : BOOLEAN,
         presentedAt : 0..MaxTime]
NoConn == [pc |-> "idle", purpose |-> "apply", hash |-> CHOOSE h \in Hashes : TRUE,
           nonce |-> 0, signature |-> NoSignature, first |-> FALSE, presentedAt |-> 0]

(* When, which one, and since which start of the broker.                   *)
Failure == [at : 0..MaxTime, nth : 0..MaxFailed, run : Nat]

VARIABLES
  enabled,    \* the ENABLED flag file
  now,        \* the clock
  issued,     \* every challenge handed out so far
  signed,     \* nonces whose challenge the operator has signed
  pending,    \* nonces the gate still knows
  failures,   \* the rejections locked() has not dropped yet
  conn,       \* the open requests
  busy,       \* the connection whose task runs in the executor
  presented,  \* history: nonces somebody has presented already
  rejections, \* history: every rejection there was
  used        \* how much of each bound is spent

vars == <<enabled, now, issued, signed, pending, failures, conn, busy,
          presented, rejections, used>>
world == <<enabled, now, issued, signed>>

Init ==
  /\ enabled \in BOOLEAN
  /\ now = 0
  /\ issued = <<>> /\ signed = {} /\ pending = {}
  /\ failures = {}
  /\ conn = [c \in Conns |-> NoConn]
  /\ busy = Nobody
  /\ presented = {} /\ rejections = {}
  /\ used = [failed |-> 0, restarts |-> 0, toggles |-> 0]

-----------------------------------------------------------------------------
(* The lock against guessing.                                              *)

Recent == {f \in failures : now <= f.at + FAILURE_WINDOW}
(* Mutant: the lock closes one rejection late.                             *)
locked_Late == Cardinality(Recent) > FAILURE_LIMIT

locked == Cardinality(Recent) >= FAILURE_LIMIT

recordFailure(kept) ==
  /\ LET f == [at |-> now, nth |-> used.failed, run |-> used.restarts]
     IN  failures' = kept \cup {f} /\ rejections' = rejections \cup {f}
  /\ used' = [used EXCEPT !.failed = @ + 1]

Answer(c) == conn' = [conn EXCEPT ![c] = NoConn]

-----------------------------------------------------------------------------
(* The gate.                                                               *)

Expired(n) == now > issued[n].expiresAt

(* sweep(): the expired go, then the oldest beyond MAX_PENDING; the new    *)
(* challenge is added after that.                                          *)
Live == {n \in pending : ~Expired(n)}
(* Mutant: the newest is pushed out.                                       *)
Swept_Newest == {n \in Live : Cardinality({m \in Live : m < n}) < MAX_PENDING}

Swept == {n \in Live : Cardinality({m \in Live : m > n}) < MAX_PENDING}

(* Mutant: the gate remembers the nonce of the challenge before.           *)
issue_Previous(purpose, h) ==
  /\ Len(issued) < MaxNonces
  /\ issued' = Append(issued, [hash |-> h, purpose |-> purpose, expiresAt |-> now + Ttl])
  /\ pending' = Swept \cup {Len(issued)}

issue(purpose, h) ==
  /\ Len(issued) < MaxNonces
  /\ issued' = Append(issued, [hash |-> h, purpose |-> purpose, expiresAt |-> now + Ttl])
  /\ pending' = Swept \cup {Len(issued) + 1}

(* Mutant: presenting a nonce does not spend it.                           *)
Present_Kept(n) ==
  /\ pending' = pending
  /\ presented' = presented \cup ({n} \cap DOMAIN issued)

(* verify() up to its await.  The nonce is spent whatever comes of it.     *)
Present(n) ==
  /\ pending' = pending \ {n}
  /\ presented' = presented \cup ({n} \cap DOMAIN issued)

(* Mutant: the purpose is not bound.                                      *)
Acceptable_AnyPurpose(purpose, h, n) ==
  /\ n \in pending
  /\ ~Expired(n)
  /\ issued[n].hash = h

Acceptable(purpose, h, n) ==
  /\ n \in pending
  /\ ~Expired(n)
  /\ issued[n].hash = h
  /\ issued[n].purpose = purpose

-----------------------------------------------------------------------------
(* control(): a connection.                                                *)

(* The flag is looked at before the body is awaited, and never again.      *)
Arrive(c) ==
  /\ conn[c].pc = "idle"
  /\ enabled
  /\ conn' = [conn EXCEPT ![c].pc = "body"]
  /\ UNCHANGED <<world, pending, failures, busy, presented, used, rejections>>

LockedOut(c) ==
  /\ conn[c].pc = "body"
  /\ locked
  /\ failures' = Recent
  /\ Answer(c)
  /\ UNCHANGED <<world, pending, busy, presented, used, rejections>>

(* A body that breaks off or is malformed, or a change nobody knows.       *)
BadRequest(c) ==
  /\ conn[c].pc = "body"
  /\ Answer(c)
  /\ UNCHANGED <<world, pending, failures, busy, presented, used, rejections>>

PostChallenge(c, purpose, h) ==
  /\ conn[c].pc = "body"
  /\ ~locked
  /\ failures' = Recent
  /\ issue(purpose, h)
  /\ Answer(c)
  /\ UNCHANGED <<enabled, now, signed, busy, presented, used, rejections>>

(* Failures to come, of requests under way as well, fit in the bound.      *)
Verifying == {c \in Conns : conn[c].pc = "verify"}
RoomToFail == used.failed + Cardinality(Verifying) < MaxFailed

(* POST /apply and POST /rollback: the nonce is unknown, expired or about  *)
(* something else, or the signature names no enrolled passkey.             *)
PostRejected(c, purpose, h, n, s) ==
  /\ conn[c].pc = "body"
  /\ ~locked
  /\ RoomToFail
  /\ ~Acceptable(purpose, h, n) \/ s = NoSignature
  /\ Present(n)
  /\ recordFailure(Recent)
  /\ Answer(c)
  /\ UNCHANGED <<world, busy>>

(* ... or the signature has to be verified, which takes a while.           *)
PostVerifying(c, purpose, h, n, s) ==
  /\ conn[c].pc = "body"
  /\ ~locked
  /\ RoomToFail
  /\ Acceptable(purpose, h, n)
  /\ Present(n)
  /\ failures' = Recent
  /\ conn' = [conn EXCEPT ![c] =
       [pc |-> "verify", purpose |-> purpose, hash |-> h, nonce |-> n, signature |-> s,
        first |-> n \notin presented, presentedAt |-> now]]
  /\ UNCHANGED <<world, busy, used, rejections>>

(* verifyAuthenticationResponse answers.  It may refuse a right signature  *)
(* too: the passkey's counter has moved on.                                *)
SignatureInvalid(c) ==
  /\ conn[c].pc = "verify"
  /\ recordFailure(failures)
  /\ Answer(c)
  /\ UNCHANGED <<world, pending, busy, presented>>

SignatureValid(c) ==
  /\ conn[c].pc = "verify"
  /\ conn[c].signature = conn[c].nonce
  /\ conn[c].nonce \in signed

(* exclusive() takes the lock in the same stretch ...                      *)
TaskStarts(c) ==
  /\ SignatureValid(c)
  /\ busy = Nobody
  /\ busy' = c
  /\ conn' = [conn EXCEPT ![c].pc = "running"]
  /\ UNCHANGED <<world, pending, failures, presented, used, rejections>>

(* ... or refuses: busy, or the change to roll back is not applied.  The   *)
(* approval is gone all the same.                                          *)
TaskRefused(c) ==
  /\ SignatureValid(c)
  /\ busy # Nobody \/ conn[c].purpose = "rollback"
  /\ Answer(c)
  /\ UNCHANGED <<world, pending, failures, busy, presented, used, rejections>>

TaskEnds(c) ==
  /\ conn[c].pc = "running"
  /\ busy' = Nobody
  /\ Answer(c)
  /\ UNCHANGED <<world, pending, failures, presented, used, rejections>>

-----------------------------------------------------------------------------
(* Everyone else.                                                          *)

Sign(n) ==
  /\ n \in DOMAIN issued \ signed
  /\ signed' = signed \cup {n}
  /\ UNCHANGED <<enabled, now, issued, pending, failures, conn, busy, presented, used, rejections>>

(* noxctl changes enable / disable, while the broker runs.                 *)
Toggle ==
  /\ used.toggles < MaxToggles
  /\ used' = [used EXCEPT !.toggles = @ + 1]
  /\ enabled' = ~enabled
  /\ UNCHANGED <<now, issued, signed, pending, failures, conn, busy, presented, rejections>>

Tick ==
  /\ now < MaxTime
  /\ now' = now + 1
  /\ UNCHANGED <<enabled, issued, signed, pending, failures, conn, busy, presented, used, rejections>>

(* Challenges, failures and open requests live in memory only.             *)
Restart ==
  /\ used.restarts < MaxRestarts
  /\ used' = [used EXCEPT !.restarts = @ + 1]
  /\ pending' = {} /\ failures' = {} /\ busy' = Nobody
  /\ conn' = [c \in Conns |-> NoConn]
  /\ UNCHANGED <<world, presented, rejections>>

(* What the broker does once it has a connection.  It sets no time limit   *)
(* on a body, but its only client sends the body at once and destroys a    *)
(* request that takes too long (client.js); verification is a computation, *)
(* and a task ends (TaskEnds of ChangeExecutor).                           *)
Serve(c) ==
  \/ LockedOut(c) \/ BadRequest(c)
  \/ \E purpose \in Purpose, h \in Hashes : PostChallenge(c, purpose, h)
  \/ \E purpose \in Purpose, h \in Hashes, n \in 0..Len(issued), s \in signed \cup {NoSignature} :
       PostRejected(c, purpose, h, n, s) \/ PostVerifying(c, purpose, h, n, s)
  \/ SignatureInvalid(c) \/ TaskStarts(c) \/ TaskRefused(c) \/ TaskEnds(c)

Next ==
  \/ \E c \in Conns : Arrive(c) \/ Serve(c)
  \/ \E n \in 1..MaxNonces : Sign(n)
  \/ Toggle \/ Tick \/ Restart

Spec == Init /\ [][Next]_vars
FairSpec == Spec /\ \A c \in Conns : WF_vars(Serve(c))

-----------------------------------------------------------------------------
(* Properties.                                                             *)

TypeOK ==
  /\ enabled \in BOOLEAN
  /\ now \in 0..MaxTime
  /\ issued \in Seq(Challenge) /\ Len(issued) <= MaxNonces
  /\ signed \subseteq DOMAIN issued
  /\ pending \subseteq DOMAIN issued
  /\ failures \subseteq rejections /\ rejections \subseteq Failure
  /\ conn \in [Conns -> Conn]
  /\ busy \in Conns \cup {Nobody}
  /\ presented \subseteq Nonce
  /\ used \in [{"failed", "restarts", "toggles"} -> Nat] /\ used.failed <= MaxFailed

(* The executor only runs what the operator signed: the same action on the *)
(* same hash, under the nonce of that very challenge.                      *)
Running == {conn[c] : c \in {d \in Conns : conn[d].pc = "running"}}
RunsAreSigned ==
  \A t \in Running :
    /\ t.nonce \in signed
    /\ issued[t.nonce].hash = t.hash
    /\ issued[t.nonce].purpose = t.purpose

(* An approval works only the first time its nonce is presented, and so at *)
(* most once: a failed guess spends it, and so does a busy executor, and a *)
(* restart brings none back.                                               *)
FirstUseOnly == \A t \in Running : t.first

(* ... and only within its lifetime.                                       *)
ApprovalsAreFresh ==
  \A t \in Running : t.presentedAt <= issued[t.nonce].expiresAt

(* What runs was approved: by the operator, for just that, for this once,  *)
(* and lately, whatever happened to challenges, requests and the broker    *)
(* since it was signed.                                                    *)
RunsAreApproved == RunsAreSigned /\ FirstUseOnly /\ ApprovalsAreFresh

(* Guessing is bounded: within any window, at most so many approvals are   *)
(* rejected, although requests let in before the lock closed may still fail*)
(* after it, one per connection.  Each start of the broker counts anew,    *)
(* since it keeps what it counts in memory.                                *)
Within(run, from) == {r \in rejections : r.run = run /\ r.at \in from..(from + FAILURE_WINDOW)}

GuessesBounded ==
  \A run \in 0..used.restarts, from \in 0..now :
    Cardinality(Within(run, from)) <= FAILURE_LIMIT - 1 + Cardinality(Conns)

(* The gate's memory is bounded, by one more than its limit says, since it *)
(* sweeps before it adds.                                                  *)
PendingBounded == Cardinality(pending) <= MAX_PENDING + 1

(* A challenge nobody presented stays good until it expires, the broker    *)
(* restarts, or MAX_PENDING newer ones push it out.                        *)
ChallengeSurvives ==
  [][\A n \in pending \ pending' :
       \/ n \in presented'
       \/ Expired(n)
       \/ Cardinality({m \in pending : m > n}) >= MAX_PENDING
       \/ used'.restarts # used.restarts]_pending

(* Every request is answered, and the executor is free again.              *)
EveryRequestAnswered ==
  /\ \A c \in Conns : []<>(conn[c].pc = "idle")
  /\ []<>(busy = Nobody)
=============================================================================
