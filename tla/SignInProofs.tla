----------------------------- MODULE SignInProofs -----------------------------
(***************************************************************************)
(* What holds of sign-in for any number of keys, devices and requests, and *)
(* any number of failing saves and restarts.                               *)
(***************************************************************************)
EXTENDS SignIn, TLAPS

-----------------------------------------------------------------------------
(* Data.                                                                   *)

Told == [registered : SUBSET (Link \X Keys),
         redeemed : SUBSET (Code \X Link), printing : Nat,
         opened : SUBSET Session, ending : SUBSET Session, ended : SUBSET Session,
         logins : SUBSET [sid : Nat, by : Assertion]]

Bounds == {"links", "printings", "challenges", "sessions", "faults", "crashes"}
Used == [Bounds -> Nat]

LEMMA LimitNames == DOMAIN Limit = Bounds
  BY DEF Limit, Bounds

LEMMA SpentTyped ==
  ASSUME NEW what, used \in Used
  PROVE  /\ Spent(what) \in Used
         /\ \A w \in Bounds : Spent(what)[w] >= used[w]
         /\ \A w \in Bounds : w \in what => Spent(what)[w] = used[w] + 1
  BY DEF Spent, Used, Bounds

(* What a handler that saves leaves behind: all it changed and its answer, *)
(* or contents that it saved or was about to save and what was there       *)
(* before.                                                                 *)
LEMMA RunOutcome ==
  ASSUME NEW steps, NEW n \in Nat \ {0}, Len(steps) = n, DOMAIN steps = 1..n,
         NEW rs, NEW what, NEW asked, NEW answered,
         Run(steps, rs, what, asked, answered), used \in Used
  PROVE  /\ \/ told' = answered /\ mem' = steps[n] /\ disk' = steps[n]
            \/ /\ told' = asked
               /\ mem' = disk \/ \E k \in 1..n : mem' = steps[k]
               /\ disk' = disk \/ \E k \in 1..n : disk' = steps[k]
         /\ \/ /\ conn' = rs /\ challenges' = challenges /\ dismissed' = dismissed
               /\ \E k \in 1..n : mem' = steps[k]
            \/ /\ conn' = [r \in Requests |-> Free] /\ challenges' = {}
               /\ told' = asked /\ mem' = disk' /\ dismissed' = dismissed \ mem'.sessions
         /\ used' \in Used
         /\ \A w \in Bounds : used'[w] >= used[w]
         /\ \A w \in Bounds : w \in what => used'[w] = used[w] + 1
         /\ UNCHANGED <<clock, signed>>
<1>1. CASE Completes(steps, rs, what, answered)
  BY <1>1, SpentTyped DEF Completes, Spend, Run, Last
<1>2. CASE SaveFails(steps, rs, what, asked)
  <2>1. PICK k \in 1..n : mem' = steps[k] /\ disk' = Saved(steps, k - 1)
    BY <1>2 DEF SaveFails
  <2>2. disk' = disk \/ \E j \in 1..n : disk' = steps[j]
    BY <2>1 DEF Saved
  <2>3. QED
    BY <1>2, <2>1, <2>2, SpentTyped DEF SaveFails, Spend, Run
<1>3. CASE Dies(steps, what, asked)
  <2>1. PICK k \in 0..n : disk' = Saved(steps, k) /\ mem' = Saved(steps, k)
    BY <1>3 DEF Dies
  <2>2. mem' = disk' /\ (disk' = disk \/ \E j \in 1..n : disk' = steps[j])
    BY <2>1 DEF Saved
  <2>3. QED
    BY <1>3, <2>2, SpentTyped DEF Dies, Spend, Run
<1>4. QED
  BY <1>1, <1>2, <1>3 DEF Run

-----------------------------------------------------------------------------
(* The invariant.  What a file has to satisfy depends on what callers were *)
(* told and on what was handed out so far; it holds of both copies, and of *)
(* every intermediate content that a crash or a failing save may leave.    *)

(* Links, codes and sessions are numbered as they are handed out, so that  *)
(* none comes back under an old number.                                    *)
Numbered(f, u) ==
  /\ \A l \in f.links : l <= u.links
  /\ \A c \in f.codes : c.printing <= u.printings
  /\ \A s \in f.sessions : s.sid <= u.sessions

GoneIn(f, t) ==
  /\ f.sessions \cap t.ended = {}
  /\ \A p \in t.registered : p[1] \notin f.links
  /\ \A p \in t.redeemed : p[1] \notin f.codes
  /\ \A c \in f.codes : c.printing >= t.printing

KeptIn(f, t) ==
  /\ \A p \in t.registered : p[2] \in f.keys
  /\ t.opened \ t.ending \subseteq f.sessions

(* No counter is behind a sign-in that was let through.                    *)
Counted(f, t) ==
  \A x \in t.logins :
    x.by.key \in f.keys /\ (x.by.key \in Counting => x.by.count <= f.counter[x.by.key])

Sound(f, t, u) ==
  f \in File /\ Numbered(f, u) /\ GoneIn(f, t) /\ KeptIn(f, t) /\ Backed(f) /\ Counted(f, t)

(* What callers were told is about what was handed out.                    *)
ToldSound(t, u) ==
  /\ t \in Told
  /\ \A p \in t.registered : p[1] <= u.links
  /\ \A p \in t.redeemed : p[1].printing <= u.printings
  /\ t.printing <= u.printings
  /\ \A s \in t.ended \cup t.ending : s.sid <= u.sessions
  /\ \A x \in t.logins : x.by.ch <= u.challenges /\ (x.by.key \in Counting => x.by.count > 0)

(* A challenge is waiting, or with one request, or has led to one sign-in. *)
ChallengesSound ==
  /\ \A c \in challenges : c.id <= used.challenges /\ c.link <= used.links
  /\ \A c, e \in challenges : c.id = e.id => c = e
  /\ \A c \in challenges, x \in told.logins : c.id # x.by.ch

RequestsSound ==
  \A r \in Requests :
    /\ conn[r].at = "register" => conn[r].link <= used.links
    /\ conn[r].at = "login" =>
         /\ conn[r].by.key \in mem.keys
         /\ conn[r].by.key \in Counting => conn[r].by.count > 0
         /\ conn[r].by.ch <= used.challenges
         /\ \A c \in challenges : c.id # conn[r].by.ch
         /\ \A x \in told.logins : x.by.ch # conn[r].by.ch
         /\ \A q \in Requests : q # r /\ conn[q].at = "login" => conn[q].by.ch # conn[r].by.ch

(* A session whose logout was answered without a save was handed out, and  *)
(* is not in memory.                                                       *)
DismissedSound ==
  /\ dismissed \subseteq Session
  /\ \A s \in dismissed : s.sid <= used.sessions /\ s \notin mem.sessions

SignaturesSound == \A a \in signed : a.key \in Counting => a.count > 0

IInv ==
  /\ TypeOK
  /\ Sound(mem, told, used) /\ Sound(disk, told, used) /\ ToldSound(told, used)
  /\ ChallengesSound /\ RequestsSound /\ SignaturesSound /\ DismissedSound
  /\ SignInsDistinct

LEMMA TypeOKMeans ==
  TypeOK <=> /\ mem \in File /\ disk \in File /\ challenges \subseteq Challenge
             /\ conn \in [Requests -> Request] /\ clock \in [Devices -> Nat]
             /\ signed \subseteq Assertion /\ told \in Told /\ used \in Used
             /\ dismissed \subseteq Session
  BY LimitNames DEF TypeOK, Told, Used

(* Handing out more does no harm to what was handed out.                   *)
LEMMA SoundGrows ==
  ASSUME NEW f, NEW t, NEW u \in Used, NEW v \in Used, \A w \in Bounds : v[w] >= u[w],
         Sound(f, t, u)
  PROVE  Sound(f, t, v)
<1>1. f \in File /\ GoneIn(f, t) /\ KeptIn(f, t) /\ Backed(f) /\ Counted(f, t)
  BY DEF Sound
<1>2. /\ u.links \in Nat /\ v.links \in Nat /\ v.links >= u.links
      /\ u.printings \in Nat /\ v.printings \in Nat /\ v.printings >= u.printings
      /\ u.sessions \in Nat /\ v.sessions \in Nat /\ v.sessions >= u.sessions
  BY DEF Used, Bounds
<1>3. /\ \A l \in f.links : l \in Nat
      /\ \A c \in f.codes : c.printing \in Nat
      /\ \A s \in f.sessions : s.sid \in Nat
  BY <1>1 DEF File, Link, Code, Session
<1>4. Numbered(f, v)
  BY <1>2, <1>3 DEF Sound, Numbered
<1>5. QED
  BY <1>1, <1>4 DEF Sound

LEMMA ToldGrows ==
  ASSUME NEW t, NEW u \in Used, NEW v \in Used, \A w \in Bounds : v[w] >= u[w],
         ToldSound(t, u)
  PROVE  ToldSound(t, v)
<1>1. /\ u.links \in Nat /\ v.links \in Nat /\ v.links >= u.links
      /\ u.printings \in Nat /\ v.printings \in Nat /\ v.printings >= u.printings
      /\ u.sessions \in Nat /\ v.sessions \in Nat /\ v.sessions >= u.sessions
      /\ u.challenges \in Nat /\ v.challenges \in Nat /\ v.challenges >= u.challenges
  BY DEF Used, Bounds
<1>2. /\ \A p \in t.registered : p[1] \in Nat
      /\ \A p \in t.redeemed : p[1].printing \in Nat
      /\ t.printing \in Nat
      /\ \A s \in t.ended \cup t.ending : s.sid \in Nat
      /\ \A x \in t.logins : x.by.ch \in Nat
  BY DEF ToldSound, Told, Link, Code, Session, Assertion
<1>3. QED
  BY <1>1, <1>2 DEF ToldSound

Distinct(logins) ==
  \A x, y \in logins : x # y =>
    /\ x.by.ch # y.by.ch
    /\ x.by.key = y.by.key /\ x.by.key \in Counting => x.by.count # y.by.count

(* Every content that a handler may leave is sound for what it may have    *)
(* told, and no key is lost.                                               *)
Harmless(steps, n, rs, asked, answered, u) ==
  /\ rs = conn \/ \E r \in Requests : rs = Freed(r)
  /\ \A k \in 1..n : /\ Sound(steps[k], asked, u)
                     /\ mem.keys \subseteq steps[k].keys
                     /\ steps[k].sessions \cap dismissed = {}
  /\ Sound(disk, asked, u) /\ Sound(steps[n], answered, u)
  /\ ToldSound(asked, u) /\ ToldSound(answered, u)
  /\ asked.logins = told.logins /\ Distinct(answered.logins)
  /\ \A x \in answered.logins :
       /\ \A c \in challenges : c.id # x.by.ch
       /\ \A q \in Requests : rs[q].at = "login" => rs[q].by.ch # x.by.ch

(* Then it keeps the invariant.                                            *)
LEMMA RunInv ==
  ASSUME IInv,
         NEW steps, NEW n \in Nat \ {0}, Len(steps) = n, DOMAIN steps = 1..n,
         NEW rs, NEW what, NEW asked, NEW answered,
         Run(steps, rs, what, asked, answered),
         Harmless(steps, n, rs, asked, answered, used')
  PROVE  IInv'
<1> USE TypeOKMeans DEF IInv, Harmless
<1>1. Sound(mem', told', used') /\ Sound(disk', told', used') /\ ToldSound(told', used')
  BY RunOutcome
<1>2. used' \in Used /\ \A w \in Bounds : used'[w] >= used[w]
  BY RunOutcome
<1>3. used.links \in Nat /\ used'.links \in Nat /\ used'.links >= used.links
      /\ used.challenges \in Nat /\ used'.challenges \in Nat /\ used'.challenges >= used.challenges
  BY <1>2 DEF Used, Bounds
<1>4. told'.logins = told.logins \/ told' = answered
  BY RunOutcome
<1>5. SignInsDistinct'
  BY <1>4 DEF SignInsDistinct, Distinct
<1>6. SignaturesSound'
  BY RunOutcome DEF SignaturesSound
<1>6a. DismissedSound'
  <2>1. dismissed \subseteq Session /\ used.sessions \in Nat /\ used'.sessions \in Nat
        /\ used'.sessions >= used.sessions
    BY <1>2 DEF DismissedSound, Used, Bounds
  <2>2. \A s \in dismissed : s.sid \in Nat /\ s.sid <= used'.sessions
    BY <2>1 DEF DismissedSound, Session
  <2>3. dismissed' \subseteq dismissed /\ \A s \in dismissed' : s \notin mem'.sessions
    BY RunOutcome
  <2>4. QED
    BY <2>1, <2>2, <2>3 DEF DismissedSound
<1>7a. /\ mem' \in File /\ disk' \in File /\ clock' \in [Devices -> Nat] /\ signed' \subseteq Assertion
       /\ told' \in Told /\ dismissed' \subseteq Session
  BY <1>1, <1>6a, RunOutcome DEF Sound, ToldSound, DismissedSound
<1>7. CASE conn' = [r \in Requests |-> Free] /\ challenges' = {} /\ told' = asked
  <2>1. Free \in Request /\ Free.at = "free"
    BY DEF Request, Free
  <2>2. RequestsSound' /\ ChallengesSound'
    BY <1>7, <2>1 DEF RequestsSound, ChallengesSound
  <2>3. TypeOK'
    BY <1>2, <1>7, <1>7a, <2>1, LimitNames DEF TypeOK, Used, Told
  <2>4. QED
    BY <1>1, <1>5, <1>6, <1>6a, <2>2, <2>3
<1>8. CASE conn' = rs /\ challenges' = challenges /\ \E k \in 1..n : mem' = steps[k]
  <2>1. Free \in Request /\ Free.at = "free"
    BY DEF Request, Free
  <2>2. conn' \in [Requests -> Request]
        /\ \A q \in Requests : conn'[q] = conn[q] \/ conn'[q] = Free
    BY <1>8, <2>1 DEF Freed
  <2>3. mem.keys \subseteq mem'.keys
    BY <1>8
  <2>4. ChallengesSound'
    <3>1. \A c \in challenges : c.id \in Nat /\ c.link \in Nat
      BY DEF Challenge, Link
    <3>2. \A c \in challenges : c.id <= used'.challenges /\ c.link <= used'.links
      BY <1>3, <3>1 DEF ChallengesSound
    <3>3. \A c \in challenges, x \in told'.logins : c.id # x.by.ch
      BY <1>4 DEF ChallengesSound
    <3>4. QED
      BY <1>8, <3>2, <3>3 DEF ChallengesSound
  <2>5. RequestsSound'
    <3> SUFFICES ASSUME NEW r \in Requests
                 PROVE  /\ conn'[r].at = "register" => conn'[r].link <= used'.links
                        /\ conn'[r].at = "login" =>
                             /\ conn'[r].by.key \in mem'.keys
                             /\ conn'[r].by.key \in Counting => conn'[r].by.count > 0
                             /\ conn'[r].by.ch <= used'.challenges
                             /\ \A c \in challenges' : c.id # conn'[r].by.ch
                             /\ \A x \in told'.logins : x.by.ch # conn'[r].by.ch
                             /\ \A q \in Requests : q # r /\ conn'[q].at = "login"
                                                      => conn'[q].by.ch # conn'[r].by.ch
      BY DEF RequestsSound
    <3>1. ASSUME conn'[r].at = "register" PROVE conn'[r].link <= used'.links
      <4>1. conn'[r] = conn[r] /\ conn[r].link \in Nat
        BY <2>1, <2>2, <3>1 DEF Request, Free, Link
      <4>2. QED
        BY <1>3, <3>1, <4>1 DEF RequestsSound
    <3>2. ASSUME conn'[r].at = "login"
          PROVE  /\ conn'[r].by.key \in mem'.keys
                 /\ conn'[r].by.key \in Counting => conn'[r].by.count > 0
                 /\ conn'[r].by.ch <= used'.challenges
                 /\ \A c \in challenges' : c.id # conn'[r].by.ch
                 /\ \A x \in told'.logins : x.by.ch # conn'[r].by.ch
                 /\ \A q \in Requests : q # r /\ conn'[q].at = "login"
                                          => conn'[q].by.ch # conn'[r].by.ch
      <4>1. conn'[r] = conn[r] /\ conn[r].by.ch \in Nat
        BY <2>1, <2>2, <3>2 DEF Request, Free, Assertion
      <4>2. \A x \in told'.logins : x.by.ch # conn'[r].by.ch
        BY <1>4, <1>8, <3>2, <4>1 DEF RequestsSound
      <4>3. \A q \in Requests : q # r /\ conn'[q].at = "login" => conn'[q].by.ch # conn'[r].by.ch
        BY <2>1, <2>2, <3>2, <4>1 DEF RequestsSound
      <4>4. conn[r].by.ch <= used'.challenges
        BY <1>3, <3>2, <4>1 DEF RequestsSound
      <4>5. QED
        BY <1>8, <2>3, <3>2, <4>1, <4>2, <4>3, <4>4 DEF RequestsSound
    <3>3. QED
      BY <3>1, <3>2
  <2>6. TypeOK'
    BY <1>2, <1>8, <1>7a, <2>2, LimitNames DEF TypeOK, Used, Told
  <2>7. QED
    BY <1>1, <1>5, <1>6, <1>6a, <2>4, <2>5, <2>6
<1>9. QED
  BY <1>7, <1>8, RunOutcome

-----------------------------------------------------------------------------
(* Every handler keeps it.                                                 *)

LEMMA InitIInv == Init => IInv
<1> SUFFICES ASSUME Init PROVE IInv
  OBVIOUS
<1>1. mem \in File /\ disk = mem
  BY DEF Init, File
<1>2. told \in Told
  BY DEF Init, Told
<1>3. conn \in [Requests -> Request] /\ \A r \in Requests : conn[r].at = "free"
  BY DEF Init, Request, Free
<1>4. used \in Used
  BY DEF Init, Used, Bounds
<1>5. TypeOK
  BY <1>1, <1>2, <1>3, <1>4, TypeOKMeans DEF Init
<1>6. Sound(mem, told, used)
  BY <1>1 DEF Init, Sound, Numbered, GoneIn, KeptIn, Backed, Counted
<1>7. ToldSound(told, used)
  BY <1>2 DEF Init, ToldSound
<1>8. ChallengesSound /\ RequestsSound /\ SignaturesSound /\ DismissedSound /\ SignInsDistinct
  BY <1>3 DEF Init, ChallengesSound, RequestsSound, SignaturesSound, DismissedSound,
              SignInsDistinct
<1>9. QED
  BY <1>1, <1>5, <1>6, <1>7, <1>8 DEF IInv

(* What every proof about a handler that saves starts from.                *)
LEMMA RunStart ==
  ASSUME IInv, NEW steps, NEW n \in Nat \ {0}, Len(steps) = n, DOMAIN steps = 1..n,
         NEW rs, NEW what, NEW asked, NEW answered,
         Run(steps, rs, what, asked, answered)
  PROVE  /\ mem \in File /\ disk \in File /\ told \in Told /\ used \in Used /\ used' \in Used
         /\ \A w \in Bounds : used'[w] >= used[w]
         /\ \A w \in Bounds : w \in what => used'[w] = used[w] + 1
         /\ Sound(mem, told, used') /\ Sound(disk, told, used') /\ ToldSound(told, used')
         /\ Distinct(told.logins)
<1>1. mem \in File /\ disk \in File /\ told \in Told /\ used \in Used
  BY TypeOKMeans DEF IInv
<1>2. used' \in Used /\ \A w \in Bounds : used'[w] >= used[w]
  BY <1>1, RunOutcome
<1>3. Sound(mem, told, used') /\ Sound(disk, told, used')
  BY <1>1, <1>2, SoundGrows DEF IInv
<1>4. ToldSound(told, used')
  BY <1>1, <1>2, ToldGrows DEF IInv
<1>5. Distinct(told.logins)
  BY DEF IInv, SignInsDistinct, Distinct
<1>6. QED
  BY <1>1, <1>2, <1>3, <1>4, <1>5, RunOutcome

(* No sign-in that was told of rests on a challenge that is still there, or*)
(* on that of a request.                                                   *)
LEMMA LoginsApart ==
  ASSUME IInv, NEW rs, rs = conn \/ \E r \in Requests : rs = Freed(r)
  PROVE  \A x \in told.logins :
           /\ \A c \in challenges : c.id # x.by.ch
           /\ \A q \in Requests : rs[q].at = "login" => rs[q].by.ch # x.by.ch
<1>1. conn \in [Requests -> Request] /\ Free.at # "login"
  BY TypeOKMeans DEF IInv, Free
<1>2. \A q \in Requests : rs[q] = conn[q] \/ rs[q] = Free
  BY <1>1 DEF Freed
<1>3. QED
  BY <1>1, <1>2 DEF IInv, ChallengesSound, RequestsSound

(* A handler that saves once, and tells of no sign-in.                     *)
LEMMA RunOnce ==
  ASSUME IInv, NEW f, NEW rs, NEW what, NEW asked, NEW answered,
         Run(<<f>>, rs, what, asked, answered),
         rs = conn \/ \E r \in Requests : rs = Freed(r),
         mem.keys \subseteq f.keys, f.sessions \subseteq mem.sessions,
         Sound(f, asked, used'), Sound(disk, asked, used'), Sound(f, answered, used'),
         ToldSound(asked, used'), ToldSound(answered, used'),
         asked.logins = told.logins, answered.logins = told.logins
  PROVE  IInv'
<1>1. PICK steps : steps = <<f>>
  OBVIOUS
<1>2. Len(steps) = 1 /\ DOMAIN steps = 1..1 /\ steps[1] = f /\ 1 \in Nat \ {0}
  BY <1>1
<1>3. Run(steps, rs, what, asked, answered)
  BY <1>1
<1>4. \A k \in 1..1 : /\ Sound(steps[k], asked, used')
                      /\ mem.keys \subseteq steps[k].keys
                      /\ steps[k].sessions \cap dismissed = {}
  BY <1>2 DEF IInv, DismissedSound
<1>5. \A x \in answered.logins :
        /\ \A c \in challenges : c.id # x.by.ch
        /\ \A q \in Requests : rs[q].at = "login" => rs[q].by.ch # x.by.ch
  BY LoginsApart
<1>6. Distinct(answered.logins)
  BY DEF IInv, SignInsDistinct, Distinct
<1>7. Sound(steps[1], answered, used')
  BY <1>2
<1>8. Harmless(steps, 1, rs, asked, answered, used')
  BY <1>4, <1>5, <1>6, <1>7 DEF Harmless
<1>9. QED
  BY <1>2, <1>3, <1>8, RunInv

(* What such a handler starts from.                                        *)
LEMMA OnceStart ==
  ASSUME IInv, NEW f, NEW rs, NEW what, NEW asked, NEW answered,
         Run(<<f>>, rs, what, asked, answered)
  PROVE  /\ mem \in File /\ disk \in File /\ told \in Told /\ used \in Used /\ used' \in Used
         /\ \A w \in Bounds : w \in what => used'[w] = used[w] + 1
         /\ Sound(mem, told, used') /\ Sound(disk, told, used')
         /\ ToldSound(told, used) /\ ToldSound(told, used')
<1>1. PICK steps : steps = <<f>>
  OBVIOUS
<1>2. Len(steps) = 1 /\ DOMAIN steps = 1..1 /\ 1 \in Nat \ {0}
  BY <1>1
<1>3. Run(steps, rs, what, asked, answered)
  BY <1>1
<1>4. QED
  BY <1>2, <1>3, RunStart DEF IInv

(* The audit log is written, or a session's date: nothing that is modelled *)
(* changes but what is on the disk.                                        *)
LEMMA RefusedInv ==
  ASSUME IInv, NEW rs, rs = conn \/ \E r \in Requests : rs = Freed(r),
         Run(<<mem>>, rs, {}, told, told)
  PROVE  IInv'
  BY OnceStart, RunOnce

(* A new link has a number no link had before.                             *)
LEMMA LinkSound ==
  ASSUME NEW f, NEW t, NEW u \in Used, NEW v \in Used, v.links = u.links + 1,
         Sound(f, t, v), ToldSound(t, u)
  PROVE  Sound(WithLink(f, u.links + 1), t, v)
<1> DEFINE g == WithLink(f, u.links + 1)
<1>1. u.links \in Nat
  BY DEF Used, Bounds
<1>2. f \in File /\ t \in Told
  BY DEF Sound, ToldSound
<1>3. /\ g \in File /\ g.links = f.links \cup {u.links + 1} /\ g.keys = f.keys
      /\ g.counter = f.counter /\ g.codes = f.codes /\ g.sessions = f.sessions
  BY <1>1, <1>2 DEF WithLink, File, Link
<1>4. \A p \in t.registered : p[1] # u.links + 1
  BY <1>1, <1>2 DEF ToldSound, Told, Link
<1> HIDE DEF g
<1>5. Numbered(g, v)
  BY <1>1, <1>3 DEF Sound, Numbered
<1>6. GoneIn(g, t)
  BY <1>3, <1>4 DEF Sound, GoneIn
<1>7. KeptIn(g, t) /\ Backed(g) /\ Counted(g, t)
  BY <1>3 DEF Sound, KeptIn, Backed, Counted
<1>8. QED
  BY <1>3, <1>5, <1>6, <1>7 DEF Sound, g

LEMMA EnrollInv == IInv /\ Enroll => IInv'
<1> SUFFICES ASSUME IInv, Enroll PROVE IInv'
  OBVIOUS
<1>1. Run(<<WithLink(mem, NewLink)>>, conn, {"links"}, told, told)
  BY DEF Enroll
<1>2. /\ mem \in File /\ used \in Used /\ used' \in Used /\ used'.links = used.links + 1
      /\ Sound(mem, told, used') /\ Sound(disk, told, used')
      /\ ToldSound(told, used) /\ ToldSound(told, used')
  BY <1>1, OnceStart DEF Bounds
<1>3. Sound(WithLink(mem, NewLink), told, used')
  BY <1>2, LinkSound DEF NewLink
<1>4. WithLink(mem, NewLink).keys = mem.keys /\ WithLink(mem, NewLink).sessions = mem.sessions
  BY <1>2 DEF WithLink, File
<1>5. QED
  BY <1>1, <1>2, <1>3, <1>4, RunOnce

(* Codes: all of a new printing.                                           *)
LEMMA PrintingInv == IInv /\ generateRecoveryCodes => IInv'
<1> SUFFICES ASSUME IInv, generateRecoveryCodes PROVE IInv'
  OBVIOUS
<1> DEFINE n == used.printings + 1
           codes == [printing : {n}, number : 1..CODES]
           f == [mem EXCEPT !.codes = codes]
           answered == [told EXCEPT !.printing = n]
<1>1. Run(<<f>>, conn, {"printings"}, told, answered)
  BY DEF generateRecoveryCodes
<1>2. /\ mem \in File /\ told \in Told /\ used \in Used /\ used' \in Used
      /\ used'.printings = used.printings + 1
      /\ Sound(mem, told, used') /\ Sound(disk, told, used')
      /\ ToldSound(told, used) /\ ToldSound(told, used')
  BY <1>1, OnceStart DEF Bounds
<1>3. /\ n \in Nat /\ n > used.printings /\ n = used'.printings /\ used.printings \in Nat
      /\ \A c \in codes : c \in Code /\ c.printing = n
  BY <1>2, SignInAssumption DEF Used, Bounds, Code
<1>4. /\ f \in File /\ f.codes = codes /\ f.keys = mem.keys /\ f.links = mem.links
      /\ f.counter = mem.counter /\ f.sessions = mem.sessions
  BY <1>2, <1>3 DEF File
<1>5. /\ answered \in Told /\ answered.printing = n /\ answered.registered = told.registered
      /\ answered.redeemed = told.redeemed /\ answered.opened = told.opened
      /\ answered.ending = told.ending /\ answered.ended = told.ended
      /\ answered.logins = told.logins
  BY <1>2, <1>3 DEF Told
<1>6. told.printing <= used.printings /\ told.printing \in Nat
      /\ \A p \in told.redeemed : p[1].printing <= used.printings /\ p[1].printing \in Nat
  BY <1>2 DEF ToldSound, Told, Code, Link
<1> HIDE DEF n, codes, f, answered
<1>7. \A p \in told.redeemed : p[1] \notin codes
  BY <1>3, <1>6
<1>8. Sound(f, told, used')
  BY <1>2, <1>3, <1>4, <1>6, <1>7 DEF Sound, Numbered, GoneIn, KeptIn, Backed, Counted
<1>9. Sound(f, answered, used')
  BY <1>3, <1>4, <1>5, <1>8 DEF Sound, Numbered, GoneIn, KeptIn, Backed, Counted
<1>10. ToldSound(answered, used')
  BY <1>2, <1>3, <1>5 DEF ToldSound
<1>11. QED
  BY <1>1, <1>2, <1>4, <1>5, <1>8, <1>9, <1>10, RunOnce

(* A code is used up, then a link is made.                                 *)
LEMMA RecoverInv == ASSUME IInv, NEW c \in mem.codes, Recover(c) PROVE IInv'
<1> DEFINE without == [mem EXCEPT !.codes = @ \ {c}]
           linked == WithLink(without, NewLink)
           answered == [told EXCEPT !.redeemed = @ \cup {<<c, NewLink>>}]
<1>1. PICK steps : steps = <<without, linked, linked>>
  OBVIOUS
<1>2. /\ Len(steps) = 3 /\ DOMAIN steps = 1..3 /\ 3 \in Nat \ {0}
      /\ steps[1] = without /\ steps[2] = linked /\ steps[3] = linked
  BY <1>1
<1>3. Run(steps, conn, {"links"}, told, answered)
  BY <1>1 DEF Recover
<1>4. /\ mem \in File /\ told \in Told /\ used \in Used /\ used' \in Used
      /\ used'.links = used.links + 1
      /\ Sound(mem, told, used') /\ Sound(disk, told, used')
      /\ ToldSound(told, used) /\ ToldSound(told, used') /\ Distinct(told.logins)
  BY <1>2, <1>3, RunStart DEF Bounds, IInv
<1>5. /\ without \in File /\ without.codes = mem.codes \ {c} /\ without.keys = mem.keys
      /\ without.links = mem.links /\ without.counter = mem.counter
      /\ without.sessions = mem.sessions
  BY <1>4 DEF File
<1> HIDE DEF without
<1>6. Sound(without, told, used')
  BY <1>4, <1>5 DEF Sound, Numbered, GoneIn, KeptIn, Backed, Counted
<1>7. Sound(linked, told, used')
  BY <1>4, <1>6, LinkSound DEF NewLink
<1>8. /\ linked.codes = mem.codes \ {c} /\ linked.keys = mem.keys
      /\ linked.sessions = mem.sessions
  BY <1>5 DEF WithLink, File
<1>9. /\ answered \in Told /\ answered.redeemed = told.redeemed \cup {<<c, NewLink>>}
      /\ answered.registered = told.registered /\ answered.printing = told.printing
      /\ answered.opened = told.opened /\ answered.ending = told.ending
      /\ answered.ended = told.ended /\ answered.logins = told.logins
  <2>1. c \in Code /\ NewLink \in Link
    BY <1>4 DEF File, NewLink, Used, Bounds, Link
  <2>2. QED
    BY <1>4, <2>1 DEF Told
<1> HIDE DEF linked, answered
<1>10. Sound(linked, answered, used')
  <2>1. GoneIn(linked, answered)
    BY <1>7, <1>8, <1>9 DEF Sound, GoneIn
  <2>2. QED
    BY <1>7, <1>9, <2>1 DEF Sound, KeptIn, Counted
<1>11. ToldSound(answered, used')
  <2>1. c.printing <= used'.printings
    BY <1>4 DEF Sound, Numbered
  <2>2. QED
    BY <1>4, <1>9, <2>1 DEF ToldSound
<1>12. \A k \in 1..3 : /\ Sound(steps[k], told, used')
                       /\ mem.keys \subseteq steps[k].keys
                       /\ steps[k].sessions \cap dismissed = {}
  BY <1>2, <1>5, <1>6, <1>7, <1>8 DEF IInv, DismissedSound
<1>13. Harmless(steps, 3, conn, told, answered, used')
  BY <1>2, <1>4, <1>9, <1>10, <1>11, <1>12, LoginsApart DEF Harmless
<1>14. QED
  BY <1>2, <1>3, <1>13, RunInv

(* Sessions end.                                                           *)
LEMMA EndInv == ASSUME IInv, NEW ss \in SUBSET mem.sessions, End(ss) PROVE IInv'
<1> DEFINE f == [mem EXCEPT !.sessions = @ \ ss]
           asked == [told EXCEPT !.ending = @ \cup ss]
           answered == [asked EXCEPT !.ended = @ \cup ss]
<1>1. Run(<<f>>, conn, {}, asked, answered)
  BY DEF End
<1>2. /\ mem \in File /\ told \in Told /\ used \in Used /\ used' \in Used
      /\ Sound(mem, told, used') /\ Sound(disk, told, used') /\ ToldSound(told, used')
  BY <1>1, OnceStart
<1>3. /\ f \in File /\ f.sessions = mem.sessions \ ss /\ f.keys = mem.keys /\ f.links = mem.links
      /\ f.counter = mem.counter /\ f.codes = mem.codes
  BY <1>2 DEF File
<1>4. ss \in SUBSET Session
  BY <1>2 DEF File
<1>5. /\ asked \in Told /\ asked.ending = told.ending \cup ss /\ asked.ended = told.ended
      /\ asked.registered = told.registered /\ asked.redeemed = told.redeemed
      /\ asked.printing = told.printing /\ asked.opened = told.opened
      /\ asked.logins = told.logins
  BY <1>2, <1>4 DEF Told
<1> HIDE DEF f, asked
<1>6. /\ answered \in Told /\ answered.ending = told.ending \cup ss
      /\ answered.ended = told.ended \cup ss
      /\ answered.registered = told.registered /\ answered.redeemed = told.redeemed
      /\ answered.printing = told.printing /\ answered.opened = told.opened
      /\ answered.logins = told.logins
  BY <1>4, <1>5 DEF Told
<1> HIDE DEF answered
<1>7. Sound(disk, asked, used')
  BY <1>2, <1>5 DEF Sound, GoneIn, KeptIn, Counted
<1>8. Sound(f, asked, used')
  BY <1>2, <1>3, <1>5 DEF Sound, Numbered, GoneIn, KeptIn, Backed, Counted
<1>9. Sound(f, answered, used')
  BY <1>3, <1>5, <1>6, <1>8 DEF Sound, GoneIn, KeptIn, Counted
<1>10. \A s \in ss : s.sid <= used'.sessions
  BY <1>2 DEF Sound, Numbered
<1>11. ToldSound(asked, used') /\ ToldSound(answered, used')
  BY <1>2, <1>5, <1>6, <1>10 DEF ToldSound
<1>12. QED
  BY <1>1, <1>3, <1>5, <1>6, <1>7, <1>8, <1>9, <1>11, RunOnce

(* A new session has a number no session had before.                       *)
LEMMA SessionSound ==
  ASSUME NEW f, NEW t, NEW u \in Used, NEW v \in Used, v.sessions = u.sessions + 1,
         Sound(f, t, v), ToldSound(t, u), NEW k \in f.keys, NEW s,
         s = [sid |-> u.sessions + 1, key |-> k], f.keys \subseteq Keys
  PROVE  /\ Sound(WithSession(f, s), t, v) /\ s \in Session /\ s \notin t.ended
         /\ s.sid = u.sessions + 1
         /\ WithSession(f, s).keys = f.keys
         /\ WithSession(f, s).counter = f.counter /\ WithSession(f, s).links = f.links
         /\ WithSession(f, s).codes = f.codes
         /\ WithSession(f, s).sessions = f.sessions \cup {s}
<1> DEFINE g == WithSession(f, s)
<1>1. u.sessions \in Nat /\ v.sessions \in Nat
  BY DEF Used, Bounds
<1>2. f \in File /\ t \in Told
  BY DEF Sound, ToldSound
<1>3. s \in Session /\ s.sid = u.sessions + 1 /\ s.key = k
  BY <1>1 DEF Session
<1>4. /\ g \in File /\ g.links = f.links /\ g.keys = f.keys
      /\ g.counter = f.counter /\ g.codes = f.codes /\ g.sessions = f.sessions \cup {s}
  BY <1>2, <1>3 DEF WithSession, File
<1>5. s \notin t.ended
  BY <1>1, <1>2, <1>3 DEF ToldSound, Told, Session
<1> HIDE DEF g
<1>6. Numbered(g, v)
  BY <1>1, <1>3, <1>4 DEF Sound, Numbered
<1>7. GoneIn(g, t)
  BY <1>4, <1>5 DEF Sound, GoneIn
<1>8. KeptIn(g, t) /\ Backed(g) /\ Counted(g, t)
  BY <1>3, <1>4 DEF Sound, KeptIn, Backed, Counted
<1>9. Sound(g, t, v)
  BY <1>4, <1>6, <1>7, <1>8 DEF Sound
<1>10. QED
  BY <1>3, <1>4, <1>5, <1>9 DEF g

LEMMA NewSidNotDismissed ==
  ASSUME IInv, NEW s, s.sid = NewSid
  PROVE  s \notin dismissed
<1>1. used.sessions \in Nat /\ \A d \in dismissed : d.sid \in Nat /\ d.sid <= used.sessions
  BY TypeOKMeans DEF IInv, DismissedSound, Used, Bounds, Session
<1>2. QED
  BY <1>1 DEF NewSid

(* A key is added, its link is used up, a session is opened.               *)
LEMMA RegisteredInv == ASSUME IInv, NEW r \in Requests, Registered(r) PROVE IInv'
<1> DEFINE q == conn[r]
           s == [sid |-> NewSid, key |-> q.key]
           added == [mem EXCEPT !.keys = @ \cup {q.key}, !.counter[q.key] = q.count]
           linked == [added EXCEPT !.links = @ \ {q.link}]
           opened == WithSession(linked, s)
           answered == [told EXCEPT !.registered = @ \cup {<<q.link, q.key>>},
                                    !.opened = @ \cup {s}]
<1>1. PICK steps : steps = <<added, linked, linked, opened>>
  OBVIOUS
<1>2. /\ Len(steps) = 4 /\ DOMAIN steps = 1..4 /\ 4 \in Nat \ {0}
      /\ steps[1] = added /\ steps[2] = linked /\ steps[3] = linked /\ steps[4] = opened
  BY <1>1
<1>3. Run(steps, Freed(r), {"sessions"}, told, answered)
  BY <1>1 DEF Registered
<1>4. /\ mem \in File /\ told \in Told /\ used \in Used /\ used' \in Used
      /\ used'.sessions = used.sessions + 1 /\ used'.links >= used.links
      /\ Sound(mem, told, used') /\ Sound(disk, told, used')
      /\ ToldSound(told, used) /\ ToldSound(told, used') /\ Distinct(told.logins)
  BY <1>2, <1>3, RunStart DEF Bounds, IInv
<1>5. /\ q.link \in Link /\ q.key \in Keys /\ q.count \in Nat /\ q.key \notin mem.keys
      /\ q.link <= used.links
  <2>1. q \in Request /\ q.at = "register" /\ q.key \notin mem.keys
    BY TypeOKMeans DEF Registered, IInv
  <2>2. QED
    BY <2>1 DEF Request, Free, IInv, RequestsSound
<1>6. /\ added \in File /\ added.keys = mem.keys \cup {q.key} /\ added.links = mem.links
      /\ added.codes = mem.codes /\ added.sessions = mem.sessions
      /\ \A k \in Keys : k # q.key => added.counter[k] = mem.counter[k]
  BY <1>4, <1>5 DEF File
<1> HIDE DEF added
<1>7. /\ linked \in File /\ linked.keys = mem.keys \cup {q.key}
      /\ linked.links = mem.links \ {q.link}
      /\ linked.codes = mem.codes /\ linked.sessions = mem.sessions
      /\ linked.counter = added.counter
  BY <1>6 DEF File
<1> HIDE DEF linked
<1>8. Counted(added, told) /\ Counted(linked, told)
  <2>1. \A x \in told.logins : x.by.key \in mem.keys /\ x.by.key \in Keys
    BY <1>4 DEF Sound, Counted, File
  <2>2. QED
    BY <1>4, <1>5, <1>6, <1>7, <2>1 DEF Sound, Counted
<1>9. Sound(added, told, used')
  BY <1>4, <1>6, <1>8 DEF Sound, Numbered, GoneIn, KeptIn, Backed
<1>10. Sound(linked, told, used')
  BY <1>4, <1>7, <1>8 DEF Sound, Numbered, GoneIn, KeptIn, Backed
<1>11. /\ Sound(opened, told, used') /\ s \in Session /\ s \notin told.ended
       /\ s \notin dismissed
       /\ opened.keys = linked.keys /\ opened.counter = linked.counter
       /\ opened.links = linked.links /\ opened.codes = linked.codes
       /\ opened.sessions = linked.sessions \cup {s}
  <2>1. q.key \in linked.keys /\ linked.keys \subseteq Keys
    BY <1>7 DEF File
  <2>2. QED
    BY <1>4, <1>10, <2>1, SessionSound, NewSidNotDismissed DEF NewSid
<1> HIDE DEF opened
<1>12. /\ answered \in Told /\ answered.registered = told.registered \cup {<<q.link, q.key>>}
       /\ answered.opened = told.opened \cup {s} /\ answered.redeemed = told.redeemed
       /\ answered.printing = told.printing /\ answered.ending = told.ending
       /\ answered.ended = told.ended /\ answered.logins = told.logins
  <2>1. PICK p : p = <<q.link, q.key>>
    OBVIOUS
  <2>2. told.registered \cup {p} \in SUBSET (Link \X Keys)
    BY <1>4, <1>5, <2>1 DEF Told
  <2>3. told.opened \cup {s} \in SUBSET Session
    BY <1>4, <1>11 DEF Told
  <2>4. answered = [told EXCEPT !.registered = @ \cup {p}, !.opened = @ \cup {s}]
    BY <2>1
  <2> HIDE DEF answered, s, q
  <2>5. QED
    BY <1>4, <2>1, <2>2, <2>3, <2>4 DEF Told
<1> HIDE DEF answered
<1>13. Sound(opened, answered, used')
  <2>1. GoneIn(opened, answered)
    BY <1>7, <1>11, <1>12 DEF Sound, GoneIn
  <2>2. KeptIn(opened, answered)
    BY <1>7, <1>11, <1>12 DEF Sound, KeptIn
  <2>3. QED
    BY <1>11, <1>12, <2>1, <2>2 DEF Sound, Counted
<1>14. ToldSound(answered, used')
  <2>1. q.link <= used'.links
    BY <1>4, <1>5 DEF Used, Bounds, Link
  <2>2. QED
    BY <1>4, <1>12, <2>1 DEF ToldSound
<1>15. \A k \in 1..4 : /\ Sound(steps[k], told, used')
                       /\ mem.keys \subseteq steps[k].keys
                       /\ steps[k].sessions \cap dismissed = {}
  BY <1>2, <1>6, <1>7, <1>9, <1>10, <1>11 DEF IInv, DismissedSound
<1>16. Harmless(steps, 4, Freed(r), told, answered, used')
  BY <1>2, <1>4, <1>12, <1>13, <1>14, <1>15, LoginsApart DEF Harmless
<1>17. QED
  BY <1>2, <1>3, <1>16, RunInv

(* A sign-in is let through: the counter of its key was behind its count.  *)
LEMMA LoggedInInv == ASSUME IInv, NEW r \in Requests, LoggedIn(r) PROVE IInv'
<1> DEFINE q == conn[r]
           key == q.by.key
           s == [sid |-> NewSid, key |-> key]
           x == [sid |-> s.sid, by |-> q.by]
           touched == [mem EXCEPT !.counter[key] = q.by.count]
           opened == WithSession(touched, s)
           answered == [told EXCEPT !.opened = @ \cup {s}, !.logins = @ \cup {x}]
<1>1. PICK steps : steps = <<touched, opened, opened>>
  OBVIOUS
<1>2. /\ Len(steps) = 3 /\ DOMAIN steps = 1..3 /\ 3 \in Nat \ {0}
      /\ steps[1] = touched /\ steps[2] = opened /\ steps[3] = opened
  BY <1>1
<1>3. Run(steps, Freed(r), {"sessions"}, told, answered)
  BY <1>1 DEF LoggedIn
<1>4. /\ mem \in File /\ told \in Told /\ used \in Used /\ used' \in Used
      /\ used'.sessions = used.sessions + 1 /\ used'.challenges >= used.challenges
      /\ Sound(mem, told, used') /\ Sound(disk, told, used')
      /\ ToldSound(told, used) /\ ToldSound(told, used') /\ Distinct(told.logins)
  BY <1>2, <1>3, RunStart DEF Bounds, IInv
<1>5. q.at = "login" /\ q \in Request /\ conn \in [Requests -> Request]
  BY TypeOKMeans DEF LoggedIn, IInv
<1>6. q.by \in Assertion /\ key \in Keys /\ q.by.count \in Nat /\ q.by.ch \in Nat
  BY <1>5 DEF Request, Free, Assertion
<1>7. /\ key \in mem.keys /\ (key \in Counting => q.by.count > 0)
      /\ q.by.ch <= used.challenges
      /\ \A c \in challenges : c.id # q.by.ch
      /\ \A y \in told.logins : y.by.ch # q.by.ch
      /\ \A p \in Requests : p # r /\ conn[p].at = "login" => conn[p].by.ch # q.by.ch
  BY <1>5 DEF IInv, RequestsSound
<1>8. \A y \in told.logins :
        /\ y.by.key \in Keys /\ y.by.count \in Nat /\ y.by.key \in mem.keys
        /\ y.by.key \in Counting => y.by.count <= mem.counter[y.by.key] /\ y.by.count > 0
  BY <1>4 DEF Sound, Counted, ToldSound, Told, Assertion
<1>9. mem.counter \in [Keys -> Nat] /\ mem.keys \subseteq Keys
  BY <1>4 DEF File
<1>10. key \in Counting => mem.counter[key] = 0 \/ q.by.count > mem.counter[key]
  <2>1. ~(q.by.count > 0 /\ Regressed(q.by.count, mem.counter[key]))
    BY DEF LoggedIn, Fresh
  <2>2. mem.counter[key] \in Nat
    BY <1>6, <1>9
  <2> HIDE DEF key, q
  <2>3. QED
    BY <1>6, <1>7, <2>1, <2>2 DEF Regressed
<1>11. \A y \in told.logins : y.by.key = key /\ key \in Counting => y.by.count < q.by.count
  BY <1>6, <1>7, <1>8, <1>9, <1>10
<1>12. /\ touched \in File /\ touched.keys = mem.keys /\ touched.links = mem.links
       /\ touched.codes = mem.codes /\ touched.sessions = mem.sessions
       /\ touched.counter[key] = q.by.count
       /\ \A k \in Keys : k # key => touched.counter[k] = mem.counter[k]
  BY <1>4, <1>6, <1>9 DEF File
<1> HIDE DEF touched
<1>13. Counted(touched, told)
  <2> SUFFICES ASSUME NEW y \in told.logins
               PROVE  /\ y.by.key \in touched.keys
                      /\ y.by.key \in Counting => y.by.count <= touched.counter[y.by.key]
    BY DEF Counted
  <2>1. CASE y.by.key = key
    BY <1>6, <1>8, <1>11, <1>12, <2>1
  <2>2. CASE y.by.key # key
    BY <1>8, <1>12, <2>2
  <2>3. QED
    BY <2>1, <2>2
<1>14. Sound(touched, told, used')
  BY <1>4, <1>12, <1>13 DEF Sound, Numbered, GoneIn, KeptIn, Backed
<1>15. /\ Sound(opened, told, used') /\ s \in Session /\ s \notin told.ended
       /\ s \notin dismissed
       /\ opened.keys = mem.keys /\ opened.counter = touched.counter
       /\ opened.links = mem.links /\ opened.codes = mem.codes
       /\ opened.sessions = mem.sessions \cup {s}
  <2> HIDE DEF q, key
  <2>1. key \in touched.keys /\ touched.keys \subseteq Keys
    BY <1>7, <1>9, <1>12
  <2>2. QED
    BY <1>4, <1>12, <1>14, <2>1, SessionSound, NewSidNotDismissed DEF NewSid
<1>16. x.by = q.by /\ x \in [sid : Nat, by : Assertion]
  BY <1>6, <1>15 DEF Session
<1>17. key = x.by.key /\ q.by = x.by
  BY <1>16
<1> HIDE DEF opened, x, s
<1>18. /\ answered \in Told /\ answered.registered = told.registered
       /\ answered.opened = told.opened \cup {s} /\ answered.redeemed = told.redeemed
       /\ answered.printing = told.printing /\ answered.ending = told.ending
       /\ answered.ended = told.ended /\ answered.logins = told.logins \cup {x}
  <2> HIDE DEF q, key
  <2>1. QED
    BY <1>4, <1>15, <1>16 DEF Told
<1> HIDE DEF answered
<1>19. Sound(opened, answered, used')
  <2> HIDE DEF q, key
  <2>1. GoneIn(opened, answered) /\ KeptIn(opened, answered)
    BY <1>15, <1>18 DEF Sound, GoneIn, KeptIn
  <2>2. Counted(opened, answered)
    BY <1>6, <1>7, <1>12, <1>15, <1>17, <1>18 DEF Sound, Counted
  <2>3. QED
    BY <1>15, <2>1, <2>2 DEF Sound
<1>20. ToldSound(answered, used')
  <2> HIDE DEF q, key
  <2>1. x.by.ch <= used'.challenges /\ (x.by.key \in Counting => x.by.count > 0)
    BY <1>4, <1>6, <1>7, <1>17 DEF Used, Bounds
  <2>2. QED
    BY <1>4, <1>18, <2>1 DEF ToldSound
<1>21. Distinct(answered.logins)
  <2>1. \A y \in told.logins :
          /\ y.by.ch # x.by.ch
          /\ y.by.key = x.by.key /\ x.by.key \in Counting => y.by.count # x.by.count
    BY <1>6, <1>7, <1>8, <1>11, <1>17
  <2>2. QED
    BY <1>4, <1>18, <2>1 DEF Distinct
<1>22. \A y \in answered.logins :
         /\ \A c \in challenges : c.id # y.by.ch
         /\ \A p \in Requests : Freed(r)[p].at = "login" => Freed(r)[p].by.ch # y.by.ch
  <2>1. \A c \in challenges : c.id # x.by.ch
    BY <1>7, <1>17
  <2>2. \A p \in Requests : Freed(r)[p].at = "login" => Freed(r)[p].by.ch # x.by.ch
    <3>1. Free.at # "login"
      BY DEF Free
    <3>2. \A p \in Requests : Freed(r)[p] = IF p = r THEN Free ELSE conn[p]
      BY <1>5 DEF Freed
    <3>3. QED
      BY <1>7, <1>17, <3>1, <3>2
  <2>3. QED
    BY <1>18, <2>1, <2>2, LoginsApart
<1>23. \A k \in 1..3 : /\ Sound(steps[k], told, used')
                       /\ mem.keys \subseteq steps[k].keys
                       /\ steps[k].sessions \cap dismissed = {}
  BY <1>2, <1>12, <1>14, <1>15 DEF IInv, DismissedSound
<1>24. Harmless(steps, 3, Freed(r), told, answered, used')
  BY <1>2, <1>4, <1>19, <1>20, <1>21, <1>22, <1>23 DEF Harmless
<1>25. QED
  BY <1>2, <1>3, <1>24, RunInv

-----------------------------------------------------------------------------
(* Handlers that save nothing.                                             *)

(* What is left of such a step when the files, the history and the bounds  *)
(* stay as they are.                                                       *)
LEMMA QuietInv ==
  ASSUME IInv, UNCHANGED <<mem, disk, told, dismissed, used>>,
         challenges' \subseteq Challenge, conn' \in [Requests -> Request],
         clock' \in [Devices -> Nat], signed' \subseteq Assertion,
         ChallengesSound', RequestsSound', SignaturesSound'
  PROVE  IInv'
<1>1. /\ mem' \in File /\ disk' \in File /\ told' \in Told /\ used' \in Used
      /\ dismissed' \subseteq Session
  BY TypeOKMeans DEF IInv
<1>2. TypeOK'
  BY <1>1, LimitNames DEF TypeOK, Told, Used
<1>3. SignInsDistinct' /\ DismissedSound'
  BY DEF IInv, SignInsDistinct, DismissedSound
<1>4. QED
  BY <1>2, <1>3 DEF IInv

LEMMA ChallengeGoneInv == ASSUME IInv, NEW c, ChallengeGone(c) PROVE IInv'
<1>1. ChallengesSound' /\ RequestsSound' /\ SignaturesSound'
  BY DEF IInv, ChallengesSound, RequestsSound, SignaturesSound, ChallengeGone
<1>2. QED
  BY <1>1, QuietInv, TypeOKMeans DEF ChallengeGone, IInv

LEMMA FreedInv ==
  ASSUME IInv, NEW r \in Requests, conn' = Freed(r),
         UNCHANGED <<mem, disk, challenges, clock, signed, told, dismissed, used>>
  PROVE  IInv'
<1>1. Free \in Request /\ Free.at = "free"
  BY DEF Request, Free
<1>2. conn' \in [Requests -> Request] /\ \A q \in Requests : conn'[q] = conn[q] \/ conn'[q] = Free
  BY <1>1, TypeOKMeans DEF Freed, IInv
<1>3. RequestsSound'
  BY <1>1, <1>2 DEF IInv, RequestsSound
<1>4. ChallengesSound' /\ SignaturesSound'
  BY DEF IInv, ChallengesSound, SignaturesSound
<1>5. QED
  BY <1>2, <1>3, <1>4, QuietInv, TypeOKMeans DEF IInv

LEMMA RegisterVerifyInv ==
  ASSUME IInv, NEW r \in Requests, NEW c \in challenges, NEW d \in Devices, RegisterVerify(r, c, d)
  PROVE  IInv'
<1> DEFINE q == [at |-> "register", link |-> c.link, key |-> keyOf[d], count |-> clock[d]]
<1>1. /\ conn \in [Requests -> Request] /\ clock \in [Devices -> Nat] /\ c \in Challenge
      /\ challenges \subseteq Challenge /\ c.link <= used.links
  BY TypeOKMeans DEF IInv, ChallengesSound
<1>2. q \in Request /\ q.at = "register" /\ q.link = c.link
  BY <1>1, SignInAssumption DEF Request, Challenge, Link
<1>3. conn' = [conn EXCEPT ![r] = q] /\ challenges' = challenges \ {c}
  BY DEF RegisterVerify
<1> HIDE DEF q
<1>4. conn' \in [Requests -> Request] /\ conn'[r] = q
      /\ \A p \in Requests : p # r => conn'[p] = conn[p]
  BY <1>1, <1>2, <1>3
<1>5. RequestsSound'
  BY <1>1, <1>2, <1>3, <1>4 DEF RegisterVerify, IInv, RequestsSound
<1>6. ChallengesSound' /\ SignaturesSound'
  BY <1>3 DEF IInv, ChallengesSound, SignaturesSound, RegisterVerify
<1>7. QED
  BY <1>1, <1>3, <1>4, <1>5, <1>6, QuietInv, TypeOKMeans DEF IInv, RegisterVerify

(* The challenge is taken, so that no other request has it.                *)
LEMMA LoginVerifyInv ==
  ASSUME IInv, NEW r \in Requests, NEW c \in challenges, NEW a \in signed, LoginVerify(r, c, a)
  PROVE  IInv'
<1> DEFINE q == [at |-> "login", by |-> a, known |-> mem.counter[a.key]]
<1>1. /\ conn \in [Requests -> Request] /\ c \in Challenge /\ a \in Assertion /\ mem \in File
      /\ challenges \subseteq Challenge /\ signed \subseteq Assertion
  BY TypeOKMeans DEF IInv
<1>2. a.ch = c.id /\ a.key \in mem.keys /\ (a.key \in Counting => a.count > 0)
  BY DEF LoginVerify, IInv, SignaturesSound
<1>3. q \in Request /\ q.at = "login" /\ q.by = a
  BY <1>1 DEF Request, Assertion, File
<1>4. conn' = [conn EXCEPT ![r] = q] /\ challenges' = challenges \ {c}
      /\ UNCHANGED <<mem, disk, clock, signed, told, dismissed, used>>
  BY DEF LoginVerify
<1> HIDE DEF q
<1>5. conn' \in [Requests -> Request] /\ conn'[r] = q
      /\ \A p \in Requests : p # r => conn'[p] = conn[p]
  BY <1>1, <1>3, <1>4
<1>6. /\ c.id <= used.challenges
      /\ \A e \in challenges' : e.id # a.ch
      /\ \A x \in told.logins : x.by.ch # a.ch
      /\ \A p \in Requests : conn[p].at = "login" => conn[p].by.ch # a.ch
  <2>1. c.id <= used.challenges /\ \A x \in told.logins : x.by.ch # c.id
    BY DEF IInv, ChallengesSound
  <2>2. \A e \in challenges' : e.id # c.id
    BY <1>4 DEF IInv, ChallengesSound
  <2>3. \A p \in Requests : conn[p].at = "login" => conn[p].by.ch # c.id
    BY DEF IInv, RequestsSound
  <2>4. QED
    BY <1>2, <2>1, <2>2, <2>3
<1>7. RequestsSound'
  <2> SUFFICES ASSUME NEW p \in Requests
               PROVE  /\ conn'[p].at = "register" => conn'[p].link <= used.links
                      /\ conn'[p].at = "login" =>
                           /\ conn'[p].by.key \in mem.keys
                           /\ conn'[p].by.key \in Counting => conn'[p].by.count > 0
                           /\ conn'[p].by.ch <= used.challenges
                           /\ \A e \in challenges' : e.id # conn'[p].by.ch
                           /\ \A x \in told.logins : x.by.ch # conn'[p].by.ch
                           /\ \A o \in Requests : o # p /\ conn'[o].at = "login"
                                                    => conn'[o].by.ch # conn'[p].by.ch
    BY <1>4 DEF RequestsSound
  <2>1. CASE p = r
    BY <1>2, <1>3, <1>5, <1>6, <2>1
  <2>2. CASE p # r
    BY <1>2, <1>3, <1>4, <1>5, <1>6, <2>2 DEF IInv, RequestsSound
  <2>3. QED
    BY <2>1, <2>2
<1>8. ChallengesSound' /\ SignaturesSound'
  BY <1>4 DEF IInv, ChallengesSound, SignaturesSound
<1>9. QED
  BY <1>1, <1>4, <1>5, <1>7, <1>8, QuietInv, TypeOKMeans DEF IInv

LEMMA SignInv ==
  ASSUME IInv, NEW d \in Devices, NEW c \in challenges, Sign(d, c)
  PROVE  IInv'
<1> DEFINE k == keyOf[d]
           count == IF k \in Counting THEN clock[d] + 1 ELSE 0
           a == [ch |-> c.id, key |-> k, count |-> count]
<1>1. /\ clock \in [Devices -> Nat] /\ c \in Challenge /\ signed \subseteq Assertion
  BY TypeOKMeans DEF IInv
<1>2. count \in Nat /\ (k \in Counting => count > 0) /\ k \in Keys
  BY <1>1, SignInAssumption
<1>3. a \in Assertion /\ a.key = k /\ a.count = count
  BY <1>1, <1>2 DEF Assertion, Challenge
<1>4. /\ clock' = [clock EXCEPT ![d] = count] /\ signed' = signed \cup {a}
      /\ UNCHANGED <<mem, disk, challenges, conn, told, dismissed, used>>
  BY DEF Sign
<1> HIDE DEF a, count, k
<1>5. SignaturesSound'
  BY <1>2, <1>3, <1>4 DEF IInv, SignaturesSound
<1>6. ChallengesSound' /\ RequestsSound'
  BY <1>4 DEF IInv, ChallengesSound, RequestsSound
<1>7. clock' \in [Devices -> Nat] /\ signed' \subseteq Assertion
  BY <1>1, <1>2, <1>3, <1>4
<1>8. QED
  BY <1>4, <1>5, <1>6, <1>7, QuietInv, TypeOKMeans DEF IInv

(* A new challenge has a number no challenge had before.                   *)
LEMMA PutChallengeInv ==
  ASSUME IInv, NEW kind \in {"register", "login"}, NEW l \in Nat, l <= used.links,
         PutChallenge(kind, l)
  PROVE  IInv'
<1> DEFINE e == [id |-> used.challenges + 1, kind |-> kind, link |-> l]
<1>1. /\ mem \in File /\ disk \in File /\ challenges \subseteq Challenge /\ told \in Told
      /\ conn \in [Requests -> Request] /\ used \in Used
  BY TypeOKMeans DEF IInv
<1>2. /\ used' = Spent({"challenges"}) /\ challenges' = challenges \cup {e}
      /\ UNCHANGED <<mem, disk, conn, clock, signed, told, dismissed>>
  BY DEF PutChallenge, Spend
<1>3. /\ used' \in Used /\ \A w \in Bounds : used'[w] >= used[w]
      /\ used'.challenges = used.challenges + 1 /\ used'.links >= used.links
      /\ used.challenges \in Nat /\ used.links \in Nat /\ used'.links \in Nat
      /\ used'.sessions >= used.sessions /\ used.sessions \in Nat /\ used'.sessions \in Nat
  BY <1>1, <1>2, SpentTyped DEF Bounds, Used
<1>4. e \in Challenge /\ e.id = used.challenges + 1 /\ e.link = l
  BY <1>3 DEF Challenge, Link
<1> HIDE DEF e
<1>5. Sound(mem, told, used') /\ Sound(disk, told, used') /\ ToldSound(told, used')
  BY <1>1, <1>3, SoundGrows, ToldGrows DEF IInv
<1>6. /\ \A c \in challenges : c.id \in Nat /\ c.link \in Nat /\ c.id <= used.challenges
                              /\ c.link <= used.links
      /\ \A x \in told.logins : x.by.ch \in Nat /\ x.by.ch <= used.challenges
  BY <1>1 DEF IInv, ChallengesSound, ToldSound, Challenge, Link, Told, Assertion
<1>7. ChallengesSound'
  <2>1. \A c \in challenges' : c.id <= used'.challenges /\ c.link <= used'.links
    BY <1>2, <1>3, <1>4, <1>6
  <2>2. \A c, g \in challenges' : c.id = g.id => c = g
    <3>1. \A c, g \in challenges : c.id = g.id => c = g
      BY DEF IInv, ChallengesSound
    <3>2. \A c \in challenges : c.id # e.id
      BY <1>3, <1>4, <1>6
    <3>3. QED
      BY <1>2, <3>1, <3>2
  <2>3. \A c \in challenges', x \in told.logins : c.id # x.by.ch
    <3>1. \A c \in challenges, x \in told.logins : c.id # x.by.ch
      BY DEF IInv, ChallengesSound
    <3>2. \A x \in told.logins : e.id # x.by.ch
      BY <1>3, <1>4, <1>6
    <3>3. QED
      BY <1>2, <3>1, <3>2
  <2>4. QED
    BY <1>2, <2>1, <2>2, <2>3 DEF ChallengesSound
<1>8. RequestsSound'
  <2> SUFFICES ASSUME NEW r \in Requests
               PROVE  /\ conn[r].at = "register" => conn[r].link <= used'.links
                      /\ conn[r].at = "login" =>
                           /\ conn[r].by.key \in mem.keys
                           /\ conn[r].by.key \in Counting => conn[r].by.count > 0
                           /\ conn[r].by.ch <= used'.challenges
                           /\ \A c \in challenges' : c.id # conn[r].by.ch
                           /\ \A x \in told.logins : x.by.ch # conn[r].by.ch
                           /\ \A q \in Requests : q # r /\ conn[q].at = "login"
                                                    => conn[q].by.ch # conn[r].by.ch
    BY <1>2 DEF RequestsSound
  <2>1. conn[r] \in Request
    BY <1>1
  <2>2. ASSUME conn[r].at = "register" PROVE conn[r].link <= used'.links
    <3>1. conn[r].link \in Nat /\ conn[r].link <= used.links
      BY <2>1, <2>2 DEF Request, Free, Link, IInv, RequestsSound
    <3>2. QED
      BY <1>3, <3>1
  <2>3. ASSUME conn[r].at = "login"
        PROVE  conn[r].by.ch <= used'.challenges /\ \A c \in challenges' : c.id # conn[r].by.ch
    <3>1. conn[r].by.ch \in Nat /\ conn[r].by.ch <= used.challenges
          /\ \A c \in challenges : c.id # conn[r].by.ch
      BY <2>1, <2>3 DEF Request, Free, Assertion, IInv, RequestsSound
    <3>2. QED
      BY <1>2, <1>3, <1>4, <3>1
  <2>4. QED
    BY <2>2, <2>3 DEF IInv, RequestsSound
<1>9. SignaturesSound' /\ SignInsDistinct'
  BY <1>2 DEF IInv, SignaturesSound, SignInsDistinct
<1>9a. DismissedSound'
  <2>1. \A s \in dismissed : s.sid \in Nat /\ s.sid <= used.sessions
    BY DEF IInv, DismissedSound, Session
  <2>2. QED
    BY <1>2, <1>3, <2>1 DEF IInv, DismissedSound
<1>10. TypeOK'
  <2>1. /\ mem' \in File /\ disk' \in File /\ challenges' \subseteq Challenge /\ told' \in Told
        /\ conn' \in [Requests -> Request] /\ clock' \in [Devices -> Nat]
        /\ signed' \subseteq Assertion /\ used' \in Used /\ dismissed' \subseteq Session
    BY <1>1, <1>2, <1>3, <1>4, TypeOKMeans DEF IInv
  <2>2. QED
    BY <2>1, LimitNames DEF TypeOK, Told, Used
<1>11. QED
  BY <1>2, <1>5, <1>7, <1>8, <1>9, <1>9a, <1>10 DEF IInv

(* A link expires in every copy.                                           *)
LEMMA LinkExpiresInv == ASSUME IInv, NEW l, LinkExpires(l) PROVE IInv'
<1>1. mem \in File /\ disk \in File
  BY TypeOKMeans DEF IInv
<1>2. ASSUME NEW f \in File, Sound(f, told, used)
      PROVE  Sound([f EXCEPT !.links = @ \ {l}], told, used)
  <2> DEFINE g == [f EXCEPT !.links = @ \ {l}]
  <2>1. /\ g \in File /\ g.links = f.links \ {l} /\ g.keys = f.keys /\ g.counter = f.counter
        /\ g.codes = f.codes /\ g.sessions = f.sessions
    BY <1>2 DEF File
  <2> HIDE DEF g
  <2>2. Sound(g, told, used)
    BY <1>2, <2>1 DEF Sound, Numbered, GoneIn, KeptIn, Backed, Counted
  <2>3. QED
    BY <2>2 DEF g
<1>3. Sound(mem', told, used) /\ Sound(disk', told, used)
  BY <1>1, <1>2 DEF IInv, LinkExpires
<1>4. /\ mem' \in File /\ disk' \in File /\ mem'.keys = mem.keys
      /\ mem'.sessions = mem.sessions
  BY <1>1, <1>3 DEF LinkExpires, File, Sound
<1>5. UNCHANGED <<challenges, conn, clock, signed, told, dismissed, used>>
  BY DEF LinkExpires
<1>6. ChallengesSound' /\ RequestsSound' /\ SignaturesSound' /\ DismissedSound'
      /\ SignInsDistinct'
  BY <1>4, <1>5 DEF IInv, ChallengesSound, RequestsSound, SignaturesSound, DismissedSound,
                    SignInsDistinct
<1>7. TypeOK'
  BY <1>4, <1>5, TypeOKMeans, LimitNames DEF IInv, TypeOK, Told, Used
<1>8. QED
  BY <1>3, <1>5, <1>6, <1>7 DEF IInv

(* The process ends, and the next one loads what is on disk.               *)
LEMMA CrashInv == IInv /\ Crash => IInv'
<1> SUFFICES ASSUME IInv, Crash PROVE IInv'
  OBVIOUS
<1>1. PICK steps : steps = <<>>
  OBVIOUS
<1>2. Dies(steps, {}, told) /\ Len(steps) = 0
  BY <1>1 DEF Crash
<1>3. mem' = disk /\ disk' = disk /\ challenges' = {} /\ told' = told
      /\ conn' = [r \in Requests |-> Free] /\ UNCHANGED <<clock, signed>>
      /\ dismissed' = dismissed \ disk'.sessions
  BY <1>2 DEF Dies, Saved, Crash
<1>4. /\ disk \in File /\ told \in Told /\ used \in Used /\ clock \in [Devices -> Nat]
      /\ signed \subseteq Assertion /\ dismissed \subseteq Session
  BY TypeOKMeans DEF IInv
<1>5. used' \in Used /\ \A w \in Bounds : used'[w] >= used[w]
  BY <1>2, <1>4, SpentTyped DEF Dies, Spend
<1>6. Sound(mem', told', used') /\ Sound(disk', told', used') /\ ToldSound(told', used')
  BY <1>3, <1>4, <1>5, SoundGrows, ToldGrows DEF IInv
<1>7. Free \in Request /\ Free.at = "free"
  BY DEF Request, Free
<1>8. ChallengesSound' /\ RequestsSound' /\ SignaturesSound' /\ SignInsDistinct'
  BY <1>3, <1>7 DEF IInv, ChallengesSound, RequestsSound, SignaturesSound, SignInsDistinct
<1>8a. DismissedSound'
  <2>1. /\ used.sessions \in Nat /\ used'.sessions \in Nat /\ used'.sessions >= used.sessions
        /\ \A s \in dismissed : s.sid \in Nat /\ s.sid <= used.sessions
    BY <1>4, <1>5 DEF IInv, DismissedSound, Session, Used, Bounds
  <2>2. QED
    BY <1>3, <1>4, <2>1 DEF DismissedSound
<1>9. TypeOK'
  BY <1>3, <1>4, <1>5, <1>7, LimitNames DEF TypeOK, Told, Used
<1>10. QED
  BY <1>6, <1>8, <1>8a, <1>9 DEF IInv

(* A session that is not in memory is asked to end, and nothing is saved.  *)
LEMMA LogoutAgainInv == ASSUME IInv, NEW s \in told.ending, LogoutAgain(s) PROVE IInv'
<1>1. s \in Session /\ s.sid <= used.sessions /\ s \notin mem.sessions
  BY TypeOKMeans DEF IInv, ToldSound, Told, LogoutAgain
<1>2. /\ dismissed' = dismissed \cup {s}
      /\ UNCHANGED <<mem, disk, challenges, conn, clock, signed, told, used>>
  BY DEF LogoutAgain
<1>3. DismissedSound'
  BY <1>1, <1>2 DEF IInv, DismissedSound
<1>4. TypeOK'
  BY <1>2, <1>3, TypeOKMeans, LimitNames DEF IInv, TypeOK, Told, Used, DismissedSound
<1>5. QED
  BY <1>2, <1>3, <1>4 DEF IInv, ChallengesSound, RequestsSound, SignaturesSound, SignInsDistinct

-----------------------------------------------------------------------------
LEMMA NextIInv == IInv /\ [Next]_vars => IInv'
<1> SUFFICES ASSUME IInv, [Next]_vars PROVE IInv'
  OBVIOUS
<1>1. CASE Enroll
  BY <1>1, EnrollInv
<1>2. CASE generateRecoveryCodes
  BY <1>2, PrintingInv
<1>3. CASE RevokeSessions
  BY <1>3, EndInv DEF RevokeSessions
<1>4. CASE LoginOptions
  <2>1. used.links \in Nat
    BY TypeOKMeans DEF IInv, Used, Bounds
  <2>2. QED
    BY <1>4, <2>1, PutChallengeInv DEF LoginOptions
<1>5. CASE Refused
  BY <1>5, RefusedInv DEF Refused
<1>6. CASE Crash
  BY <1>6, CrashInv
<1>7. CASE \E l \in 1..used.links : LinkExpires(l) \/ RegisterOptions(l)
  <2>1. used.links \in Nat
    BY TypeOKMeans DEF IInv, Used, Bounds
  <2>2. QED
    BY <1>7, <2>1, LinkExpiresInv, PutChallengeInv DEF RegisterOptions
<1>8. CASE \E c \in mem.codes : Recover(c)
  BY <1>8, RecoverInv
<1>9. CASE \E c \in challenges : ChallengeGone(c)
  BY <1>9, ChallengeGoneInv
<1>10. CASE \E r \in Requests, c \in challenges, d \in Devices : RegisterVerify(r, c, d)
  BY <1>10, RegisterVerifyInv
<1>11. CASE \E d \in Devices, c \in challenges : Sign(d, c)
  BY <1>11, SignInv
<1>12. CASE \E r \in Requests, c \in challenges, a \in signed : LoginVerify(r, c, a)
  BY <1>12, LoginVerifyInv
<1>13. ASSUME NEW r \in Requests,
              Registered(r) \/ AlreadyRegistered(r) \/ VerificationFails(r)
              \/ CounterRegression(r) \/ LoggedIn(r)
       PROVE  IInv'
  <2>1. CASE Registered(r)
    BY <2>1, RegisteredInv
  <2>2. CASE AlreadyRegistered(r)
    BY <2>2, FreedInv DEF AlreadyRegistered
  <2>3. CASE VerificationFails(r)
    BY <2>3, FreedInv, RefusedInv DEF VerificationFails
  <2>4. CASE CounterRegression(r)
    BY <2>4, RefusedInv DEF CounterRegression
  <2>5. CASE LoggedIn(r)
    BY <2>5, LoggedInInv
  <2>6. QED
    BY <1>13, <2>1, <2>2, <2>3, <2>4, <2>5
<1>14. CASE \E s \in mem.sessions : Visit(s) \/ Logout(s)
  BY <1>14, RefusedInv, EndInv DEF Visit, Logout
<1>14a. CASE \E s \in told.ending \cap disk.sessions : LogoutAgain(s)
  BY <1>14a, LogoutAgainInv
<1>15. CASE UNCHANGED vars
  <2>1. TypeOK'
    BY <1>15, TypeOKMeans, LimitNames DEF vars, IInv, TypeOK, Told, Used
  <2>2. QED
    BY <1>15, <2>1 DEF vars, IInv, ChallengesSound, RequestsSound, SignaturesSound,
                       DismissedSound, SignInsDistinct
<1>16. QED
  BY <1>1, <1>2, <1>3, <1>4, <1>5, <1>6, <1>7, <1>8, <1>9, <1>10, <1>11, <1>12, <1>13, <1>14,
     <1>14a, <1>15 DEF Next

LEMMA Invariant == Spec => []IInv
  BY InitIInv, NextIInv, PTL DEF Spec

LEMMA IInvImplies == IInv => EndedStaysEnded /\ NothingLost /\ SessionsHold
  BY DEF IInv, Sound, DismissedSound, EndedStaysEnded, Gone, GoneIn, NothingLost, Kept, KeptIn, SessionsHold,
         SessionsBacked

(* Whatever is saved halfway, fails to be saved or dies: a session that was*)
(* ended, a link that gave a key, a code that was redeemed and the codes of*)
(* an earlier printing are good for nothing, in memory and on disk; and a  *)
(* session whose logout was answered without a save is out of memory until *)
(* a restart that still finds it on disk.                                  *)
THEOREM EndedForGood == Spec => []EndedStaysEnded
  BY Invariant, IInvImplies, PTL

(* A key whose registration was answered, and a session that was opened and*)
(* that nobody asked to end, are there, in memory and on disk.             *)
THEOREM AnswersKept == Spec => []NothingLost
  BY Invariant, IInvImplies, PTL

(* Every session is of a registered key, and no two sign-ins rest on one   *)
(* challenge or, of a key that counts, on one count.                       *)
THEOREM SessionsAreGood == Spec => []SessionsHold
  BY Invariant, IInvImplies, PTL
=============================================================================
