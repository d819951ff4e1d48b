------------------------------- MODULE SignIn -------------------------------
(***************************************************************************)
(* Access to the dashboard: enrollment links, passkeys, recovery codes and *)
(* sessions (src/routes/auth.js, src/auth.js), what an administrator does  *)
(* to them (src/admin-socket.js), and the one file that keeps them         *)
(* (src/store.js).                                                         *)
(*                                                                         *)
(* A handler runs without interruption but for the await of the WebAuthn   *)
(* library.  What it changes it changes in memory and saves, often several *)
(* times in a row; each save may fail, and the process may die between two *)
(* of them.                                                                *)
(***************************************************************************)
EXTENDS Naturals, SequencesExt

CONSTANTS
  Requests,     \* verifications that can be under way at once
  Keys,         \* passkeys
  Counting,     \* the keys that count their signatures
  Devices,      \* authenticators
  keyOf,        \* the key a device holds; two devices may hold copies of one
  CODES,        \* recovery codes of one printing
  MaxLinks, MaxPrintings, MaxChallenges, MaxSignatures, MaxSessions,
  MaxFaults, MaxCrashes

ASSUME SignInAssumption ==
  /\ Counting \subseteq Keys
  /\ keyOf \in [Devices -> Keys]
  /\ {CODES, MaxLinks, MaxPrintings, MaxChallenges, MaxSignatures,
      MaxSessions, MaxFaults, MaxCrashes} \subseteq Nat

VARIABLES
  mem, disk,    \* state.json, as the process has it and as the disk has it
  challenges,   \* the challenges nobody took yet
  conn,         \* requests waiting for the WebAuthn library
  clock,        \* signatures each device has made
  signed,       \* assertions devices have made
  told,         \* history: what callers were told
  dismissed,    \* history: logouts answered without a save
  used          \* how much of each bound is spent

vars == <<mem, disk, challenges, conn, clock, signed, told, dismissed, used>>

-----------------------------------------------------------------------------
(* Data.                                                                   *)

Link    == Nat
Code    == [printing : Nat, number : Nat]
Session == [sid : Nat, key : Keys]

(* Links and codes are kept while they are good for something: neither used*)
(* nor, for links, expired.                                                *)
File == [keys : SUBSET Keys, counter : [Keys -> Nat], links : SUBSET Link,
         codes : SUBSET Code, sessions : SUBSET Session]

Challenge == [id : Nat, kind : {"register", "login"}, link : Link]
Assertion == [ch : Nat, key : Keys, count : Nat]

(* No request; a registration; a sign-in, with the counter of the key as   *)
(* it was when the library was called.                                     *)
Free    == [at |-> "free"]
Request == {Free}
      \cup [at : {"register"}, link : Link, key : Keys, count : Nat]
      \cup [at : {"login"}, by : Assertion, known : Nat]

Init ==
  /\ mem = [keys |-> {}, counter |-> [k \in Keys |-> 0], links |-> {}, codes |-> {},
            sessions |-> {}]
  /\ disk = mem
  /\ challenges = {}
  /\ conn = [r \in Requests |-> Free]
  /\ clock = [d \in Devices |-> 0]
  /\ signed = {}
  /\ told = [registered |-> {}, redeemed |-> {}, printing |-> 0,
             opened |-> {}, ending |-> {}, ended |-> {}, logins |-> {}]
  /\ dismissed = {}
  /\ used = [links |-> 0, printings |-> 0, challenges |-> 0, sessions |-> 0,
             faults |-> 0, crashes |-> 0]

Limit == [links |-> MaxLinks, printings |-> MaxPrintings, challenges |-> MaxChallenges,
          sessions |-> MaxSessions, faults |-> MaxFaults, crashes |-> MaxCrashes]

Spent(what) == [w \in DOMAIN used |-> IF w \in what THEN used[w] + 1 ELSE used[w]]
Spend(what) ==
  /\ \A w \in what : used[w] < Limit[w]
  /\ used' = Spent(what)

-----------------------------------------------------------------------------
(* store.js: save() writes all of the memory, to a temporary file which it *)
(* renames.  steps are the contents at each save of a handler, rs the      *)
(* requests it leaves, what the bounds it spends; asked is the history once*)
(* the handler is called, answered once it has answered.                   *)

Saved(steps, k) == IF k = 0 THEN disk ELSE steps[k]

Completes(steps, rs, what, answered) ==
  /\ Spend(what)
  /\ mem' = Last(steps) /\ disk' = Last(steps)
  /\ conn' = rs
  /\ told' = answered
  /\ UNCHANGED <<challenges, dismissed>>

(* The k-th save throws: its change stays in memory only, and the handler  *)
(* answers with an error.                                                  *)
SaveFails(steps, rs, what, asked) ==
  /\ Spend(what \cup {"faults"})
  /\ \E k \in DOMAIN steps : mem' = steps[k] /\ disk' = Saved(steps, k - 1)
  /\ conn' = rs
  /\ told' = asked
  /\ UNCHANGED <<challenges, dismissed>>

(* The process ends after k saves; the next one loads what is on disk, and *)
(* with it a session whose end nobody saved.                               *)
Dies(steps, what, asked) ==
  /\ Spend(what \cup {"crashes"})
  /\ \E k \in 0..Len(steps) : disk' = Saved(steps, k) /\ mem' = Saved(steps, k)
  /\ challenges' = {} /\ conn' = [r \in Requests |-> Free]
  /\ told' = asked
  /\ dismissed' = dismissed \ disk'.sessions

Run(steps, rs, what, asked, answered) ==
  /\ \/ Completes(steps, rs, what, answered)
     \/ SaveFails(steps, rs, what, asked)
     \/ Dies(steps, what, asked)
  /\ UNCHANGED <<clock, signed>>

-----------------------------------------------------------------------------
(* Links and codes.                                                        *)

WithLink(file, l)    == [file EXCEPT !.links = @ \cup {l}]
WithSession(file, s) == [file EXCEPT !.sessions = @ \cup {s}]
NewLink    == used.links + 1
NewSid     == used.sessions + 1

(* findEnrollToken()                                                       *)
Good(l) == l \in mem.links

(* createEnrollToken() for an administrator, the command "enroll".         *)
Enroll ==
  Run(<<WithLink(mem, NewLink)>>, conn, {"links"}, told, told)

(* Time is absolute: what expires does so in every copy.                   *)
LinkExpires(l) ==
  /\ l \in mem.links \cup disk.links
  /\ mem'  = [mem  EXCEPT !.links = @ \ {l}]
  /\ disk' = [disk EXCEPT !.links = @ \ {l}]
  /\ UNCHANGED <<challenges, conn, clock, signed, told, dismissed, used>>

(* The command "recovery".                                                 *)
generateRecoveryCodes ==
  LET n == used.printings + 1
      codes == [printing : {n}, number : 1..CODES]
  IN  Run(<<[mem EXCEPT !.codes = codes]>>, conn, {"printings"}, told,
          [told EXCEPT !.printing = n])

(* POST /recover with a good code: the code is used up, then a link is     *)
(* made, then the audit log is written.                                    *)
Recover(c) ==
  LET without == [mem EXCEPT !.codes = @ \ {c}]
      linked  == WithLink(without, NewLink)
  IN  /\ c \in mem.codes
      /\ Run(<<without, linked, linked>>, conn, {"links"}, told,
             [told EXCEPT !.redeemed = @ \cup {<<c, NewLink>>}])

-----------------------------------------------------------------------------
(* Registration.                                                           *)

PutChallenge(kind, l) ==
  /\ Spend({"challenges"})
  /\ challenges' = challenges \cup {[id |-> used.challenges + 1, kind |-> kind, link |-> l]}
  /\ UNCHANGED <<mem, disk, conn, clock, signed, told, dismissed>>

RegisterOptions(l) == Good(l) /\ PutChallenge("register", l)

(* A challenge is taken by whoever presents its cookie, and then, or later *)
(* for want of a good request, it is gone.                                 *)
ChallengeGone(c) ==
  /\ challenges' = challenges \ {c}
  /\ UNCHANGED <<mem, disk, conn, clock, signed, told, dismissed, used>>

(* POST /register/verify, up to the library.                               *)
RegisterVerify(r, c, d) ==
  /\ conn[r] = Free
  /\ c.kind = "register" /\ Good(c.link)
  /\ challenges' = challenges \ {c}
  /\ conn' = [conn EXCEPT ![r] = [at |-> "register", link |-> c.link, key |-> keyOf[d],
                                  count |-> clock[d]]]
  /\ UNCHANGED <<mem, disk, clock, signed, told, dismissed, used>>

Freed(r) == [conn EXCEPT ![r] = Free]

(* Mutant: the session is opened before the key is added.                  *)
Registered_SessionFirst(r) ==
  LET q == conn[r]
      s == [sid |-> NewSid, key |-> q.key]
      opened == WithSession(mem, s)
      added  == [opened EXCEPT !.keys = @ \cup {q.key}, !.counter[q.key] = q.count]
      linked == [added EXCEPT !.links = @ \ {q.link}]
  IN  /\ q.at = "register" /\ q.key \notin mem.keys
      /\ Run(<<opened, added, linked, linked>>, Freed(r), {"sessions"}, told,
             [told EXCEPT !.registered = @ \cup {<<q.link, q.key>>},
                          !.opened = @ \cup {s}])

(* Mutant: the session is not saved.                                       *)
Registered_SessionUnsaved(r) ==
  LET q == conn[r]
      s == [sid |-> NewSid, key |-> q.key]
      added  == [mem EXCEPT !.keys = @ \cup {q.key}, !.counter[q.key] = q.count]
      linked == [added EXCEPT !.links = @ \ {q.link}]
  IN  /\ q.at = "register" /\ q.key \notin mem.keys
      /\ Spend({"sessions"})
      /\ mem' = WithSession(linked, s) /\ disk' = linked
      /\ conn' = Freed(r)
      /\ told' = [told EXCEPT !.registered = @ \cup {<<q.link, q.key>>},
                             !.opened = @ \cup {s}]
      /\ UNCHANGED <<challenges, clock, signed, dismissed>>

(* The rest: addCredential(), consumeEnrollToken(), audit() and            *)
(* createSession() each save.                                              *)
Registered(r) ==
  LET q == conn[r]
      s == [sid |-> NewSid, key |-> q.key]
      added  == [mem EXCEPT !.keys = @ \cup {q.key}, !.counter[q.key] = q.count]
      linked == [added EXCEPT !.links = @ \ {q.link}]
  IN  /\ q.at = "register" /\ q.key \notin mem.keys
      /\ Run(<<added, linked, linked, WithSession(linked, s)>>, Freed(r),
             {"sessions"}, told,
             [told EXCEPT !.registered = @ \cup {<<q.link, q.key>>},
                          !.opened = @ \cup {s}])

(* The key is there already.                                               *)
AlreadyRegistered(r) ==
  /\ conn[r].at = "register" /\ conn[r].key \in mem.keys
  /\ conn' = Freed(r)
  /\ UNCHANGED <<mem, disk, challenges, clock, signed, told, dismissed, used>>

-----------------------------------------------------------------------------
(* Signing in.                                                             *)

LoginOptions == mem.keys # {} /\ PutChallenge("login", 0)

(* A device signs a challenge it has a registered key for; a key that does *)
(* not count says 0.                                                       *)
Sign(d, c) ==
  LET k == keyOf[d]
      count == IF k \in Counting THEN clock[d] + 1 ELSE 0
  IN  /\ c.kind = "login" /\ k \in mem.keys
      /\ clock[d] < MaxSignatures
      /\ clock' = [clock EXCEPT ![d] = count]
      /\ signed' = signed \cup {[ch |-> c.id, key |-> k, count |-> count]}
      /\ UNCHANGED <<mem, disk, challenges, conn, told, dismissed, used>>

(* POST /login/verify, up to the library.                                  *)
LoginVerify(r, c, a) ==
  /\ conn[r] = Free
  /\ c.kind = "login" /\ a.ch = c.id /\ a.key \in mem.keys
  /\ challenges' = challenges \ {c}
  /\ conn' = [conn EXCEPT ![r] = [at |-> "login", by |-> a, known |-> mem.counter[a.key]]]
  /\ UNCHANGED <<mem, disk, clock, signed, told, dismissed, used>>

Regressed(count, counter) == counter > 0 /\ count <= counter

(* What is presented does not verify: the library throws, for a counter    *)
(* that is not ahead of the one it was given for instance, or says so,     *)
(* which is audited.                                                       *)
VerificationFails(r) ==
  /\ conn[r] # Free
  /\ \/ /\ conn' = Freed(r)
        /\ UNCHANGED <<mem, disk, challenges, clock, signed, told, dismissed, used>>
     \/ Run(<<mem>>, Freed(r), {}, told, told)

(* The handler compares once more, with the counter as it is now.          *)
Fresh(q) ==
  /\ ~Regressed(q.by.count, q.known)
  /\ ~(q.by.count > 0 /\ Regressed(q.by.count, mem.counter[q.by.key]))

(* counter_regression; the audit log is written.                           *)
CounterRegression(r) ==
  LET q == conn[r] IN
  /\ q.at = "login" /\ ~Regressed(q.by.count, q.known) /\ ~Fresh(q)
  /\ Run(<<mem>>, Freed(r), {}, told, told)

(* touchCredential(), createSession() and audit() each save.               *)
LoggedIn(r) ==
  LET q == conn[r]
      s == [sid |-> NewSid, key |-> q.by.key]
      touched == [mem EXCEPT !.counter[q.by.key] = q.by.count]
      opened  == WithSession(touched, s)
  IN  /\ q.at = "login" /\ Fresh(q)
      /\ Run(<<touched, opened, opened>>, Freed(r), {"sessions"}, told,
             [told EXCEPT !.opened = @ \cup {s}, !.logins = @ \cup {[sid |-> s.sid, by |-> q.by]}])

-----------------------------------------------------------------------------
(* Sessions.                                                               *)

(* A request turned down right away: the audit log is written.             *)
Refused == Run(<<mem>>, conn, {}, told, told)

(* requireAuth(): now and then lastSeenAt is written, with all the rest.   *)
Visit(s) ==
  /\ s \in mem.sessions
  /\ Run(<<mem>>, conn, {}, told, told)

(* Mutant: the sessions are dropped without a save.                        *)
End_Unsaved(ss) ==
  /\ mem' = [mem EXCEPT !.sessions = @ \ ss]
  /\ told' = [told EXCEPT !.ending = @ \cup ss, !.ended = @ \cup ss]
  /\ UNCHANGED <<disk, challenges, conn, clock, signed, dismissed, used>>

(* Sessions ss end: deleted, saved, answered.                              *)
End(ss) ==
  LET asked == [told EXCEPT !.ending = @ \cup ss]
  IN  Run(<<[mem EXCEPT !.sessions = @ \ ss]>>, conn, {}, asked,
          [asked EXCEPT !.ended = @ \cup ss])

(* destroySession()                                                        *)
Logout(s) == s \in mem.sessions /\ End({s})

(* The same for a session that is not in memory, as after a logout whose   *)
(* save failed: nothing is deleted, nothing saved, and the answer is ok.   *)
(* (Of a session that is not on disk either it says nothing new.)          *)
LogoutAgain(s) ==
  /\ s \notin mem.sessions
  /\ dismissed' = dismissed \cup {s}
  /\ UNCHANGED <<mem, disk, challenges, conn, clock, signed, told, used>>

(* The command "revoke-sessions".                                          *)
RevokeSessions == End(mem.sessions)

(* Between two handlers; the service is started again.                     *)
Crash == Dies(<<>>, {}, told) /\ UNCHANGED <<clock, signed>>

-----------------------------------------------------------------------------
Next ==
  \/ Enroll \/ generateRecoveryCodes \/ RevokeSessions \/ LoginOptions
  \/ Refused \/ Crash
  \/ \E l \in 1..used.links : LinkExpires(l) \/ RegisterOptions(l)
  \/ \E c \in mem.codes : Recover(c)
  \/ \E c \in challenges : ChallengeGone(c)
  \/ \E r \in Requests, c \in challenges, d \in Devices : RegisterVerify(r, c, d)
  \/ \E d \in Devices, c \in challenges : Sign(d, c)
  \/ \E r \in Requests, c \in challenges, a \in signed : LoginVerify(r, c, a)
  \/ \E r \in Requests :
       Registered(r) \/ AlreadyRegistered(r) \/ VerificationFails(r)
       \/ CounterRegression(r) \/ LoggedIn(r)
  \/ \E s \in mem.sessions : Visit(s) \/ Logout(s)
  \/ \E s \in told.ending \cap disk.sessions : LogoutAgain(s)

Spec == Init /\ [][Next]_vars

-----------------------------------------------------------------------------
(* Properties.                                                             *)

(* Every variable keeps its shape.                                         *)
TypeOK ==
  /\ mem \in File /\ disk \in File
  /\ challenges \subseteq Challenge
  /\ conn \in [Requests -> Request]
  /\ clock \in [Devices -> Nat]
  /\ signed \subseteq Assertion
  /\ told \in [registered : SUBSET (Link \X Keys),
               redeemed : SUBSET (Code \X Link), printing : Nat,
               opened : SUBSET Session, ending : SUBSET Session, ended : SUBSET Session,
               logins : SUBSET [sid : Nat, by : Assertion]]
  /\ dismissed \subseteq Session
  /\ used \in [DOMAIN Limit -> Nat]

(* What was answered stays so, whatever fails or dies later: a session that*)
(* was ended, a link a key was registered with, a code that was redeemed   *)
(* and the codes of an earlier printing are good for nothing any more.  A  *)
(* logout that found its session gone from memory saved nothing: that one  *)
(* stays out of memory until a restart that still finds it on disk, which  *)
(* takes that every save since the failed one failed as well.              *)
Gone(file) ==
  /\ file.sessions \cap told.ended = {}
  /\ \A p \in told.registered : p[1] \notin file.links
  /\ \A p \in told.redeemed : p[1] \notin file.codes
  /\ \A c \in file.codes : c.printing >= told.printing
EndedStaysEnded ==
  /\ Gone(mem) /\ Gone(disk)
  /\ mem.sessions \cap dismissed = {}

(* A key that was registered, and a session that was opened and that nobody*)
(* asked to end, are there after any number of failing writes and restarts.*)
Kept(file) ==
  /\ \A p \in told.registered : p[2] \in file.keys
  /\ told.opened \ told.ending \subseteq file.sessions
NothingLost == Kept(mem) /\ Kept(disk)

(* Every session, in memory and on disk, is of a key that is registered    *)
(* there.                                                                  *)
Backed(file) == \A s \in file.sessions : s.key \in file.keys
SessionsBacked == Backed(mem) /\ Backed(disk)

(* Two sign-ins never rest on one challenge, nor, of a key that counts, on *)
(* one count: a second device with a copy of the key is noticed even when  *)
(* both sign in at the same time.                                          *)
SignInsDistinct ==
  \A x, y \in told.logins : x # y =>
    /\ x.by.ch # y.by.ch
    /\ x.by.key = y.by.key /\ x.by.key \in Counting => x.by.count # y.by.count

(* Every variable has its type.  Every session is of a key that is         *)
(* registered, in memory and on disk, and no two sign-ins rest on the same *)
(* challenge or count (src/routes/auth.js).                                *)
SessionsHold == TypeOK /\ SessionsBacked /\ SignInsDistinct

(* What bin/enroll.js says of a link, that it is good for one use.         *)
LinksGiveOneKey ==
  \A x, y \in told.registered : x[1] = y[1] => x = y
=============================================================================
