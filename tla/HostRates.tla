----------------------------- MODULE HostRates -----------------------------
(***************************************************************************)
(* The fast collector (src/metrics/index.js): at every interval it reads   *)
(* /proc and makes percentages and rates of what the counters there have   *)
(* gained since they were read last (src/metrics/proc.js).  A tick does not*)
(* wait for the one before it, and a file that cannot be read counts as an *)
(* empty one.                                                              *)
(***************************************************************************)
EXTENDS Integers, SequencesExt

CONSTANTS
  Ticks,      \* ticks that may be under way at once
  MaxTraffic, MaxFaults   \* bounds

HostRatesAssumption == Ticks \subseteq Nat /\ {MaxTraffic, MaxFaults} \subseteq Nat

VARIABLES
  elapsed,    \* the clock has moved on since the counters were looked at
  device,     \* a network interface or a disk: they are counted alike, and apart
  counter,    \* what /proc shows of it
  passed,     \* history: what really went through it
  under,      \* the ticks under way, and what each has still to read
  fresh,      \* the snapshot was updated since a tick began
  threw,      \* those in which cpu() threw
  reads,      \* what was read of the device and not been looked at, in the order of reading
  prevCpu,    \* nothing, or whether the line of all cores was in it
  prev,       \* prevNet or prevDisk
  counted,    \* history: rate times interval, added up
  overtaken,  \* history: a reading was looked at before an earlier one
  faults

kernelVars == <<elapsed, device, counter, passed>>
history == <<counted, overtaken>>
vars == <<kernelVars, under, fresh, threw, reads, prevCpu, prev, history, faults>>

Devices == {"network", "diskIo"}   \* named for what reads it
Files == {"cpu", device}
Absent == -1   \* nothing of it in the file
Never == -2    \* not looked at yet
Idle == {"idle"}

Init ==
  /\ elapsed = FALSE /\ device \in Devices /\ counter = 0 /\ passed = 0
  /\ under = [t \in Ticks |-> Idle] /\ threw = {} /\ reads = <<>> /\ fresh = TRUE
  /\ prevCpu = "none" /\ prev = Never
  /\ counted = 0 /\ overtaken = FALSE /\ faults = 0

Fault == faults < MaxFaults /\ faults' = faults + 1
\* What is counted is looked at up to one more than can pass.
Most(n) == IF n > MaxTraffic THEN MaxTraffic + 1 ELSE n

-----------------------------------------------------------------------------
(* The host.                                                               *)

Passes ==
  /\ counter # Absent /\ passed < MaxTraffic
  /\ counter' = counter + 1 /\ passed' = passed + 1
  /\ UNCHANGED <<elapsed, device, under, fresh, threw, reads, prevCpu, prev, history, faults>>

(* A device goes away, and comes back with its counters at zero.           *)
Replugged ==
  /\ IF counter = Absent THEN counter' = 0 /\ UNCHANGED faults ELSE counter' = Absent /\ Fault
  /\ UNCHANGED <<elapsed, device, passed, under, fresh, threw, reads, prevCpu, prev, history>>

Time ==
  /\ ~elapsed /\ elapsed' = TRUE
  /\ UNCHANGED <<device, counter, passed, under, fresh, threw, reads, prevCpu, prev, history, faults>>

-----------------------------------------------------------------------------
(* A tick.                                                                 *)

fastTick(t) ==
  /\ under[t] = Idle /\ \A s \in Ticks : s < t => under[s] # Idle
  /\ under' = [under EXCEPT ![t] = Files] /\ fresh' = FALSE
  /\ UNCHANGED <<kernelVars, threw, reads, prevCpu, prev, history, faults>>

Has(t, f) == f \in under[t] /\ under' = [under EXCEPT ![t] = @ \ {f}]

(* The shares of waiting and of stolen time are taken of the totals, which *)
(* are null if the file was empty: then cpu() throws, and forgets what it  *)
(* read.  After an empty file at the beginning it always throws.           *)
cpu(t) ==
  /\ Has(t, "cpu")
  /\ \E found \in {"read", "empty"} :
       /\ IF found = "empty" THEN Fault ELSE UNCHANGED faults
       /\ IF prevCpu = "none" \/ (prevCpu = "read" /\ found = "read")
          THEN prevCpu' = found /\ UNCHANGED threw
          ELSE threw' = threw \cup {t} /\ UNCHANGED prevCpu
  /\ UNCHANGED <<kernelVars, fresh, reads, prev, history>>

read(t) ==
  /\ Has(t, device)
  /\ \E value \in {counter, Absent} :
       /\ reads' = Append(reads, [by |-> t, value |-> value])
       /\ IF value # counter THEN Fault ELSE UNCHANGED faults
  /\ UNCHANGED <<kernelVars, fresh, threw, prevCpu, prev, history>>

(* What a counter gained since it was looked at last, unless it was not    *)
(* there, went back, or no time has passed.                                *)
Gained(value) ==
  IF elapsed /\ value # Absent /\ prev >= 0 /\ value > prev THEN value - prev ELSE 0

(* A tick goes on with what it has read: often at once, now and then when  *)
(* the next one has gone on already.                                       *)
Rated(n) ==
  /\ reads' = RemoveAt(reads, n)
  /\ overtaken' = (overtaken \/ n > 1)
  /\ counted' = Most(counted + Gained(reads[n].value))
  /\ prev' = reads[n].value /\ elapsed' = FALSE
  /\ UNCHANGED <<device, counter, passed, under, fresh, threw, prevCpu, faults>>

network(n) == device = "network" /\ Rated(n)
diskIo(n)  == device = "diskIo" /\ Rated(n)

(* The snapshot is updated when everything was read, unless cpu() threw.   *)
Published(t) ==
  /\ under[t] = {} /\ \A n \in DOMAIN reads : reads[n].by # t
  /\ under' = [under EXCEPT ![t] = Idle] /\ threw' = threw \ {t}
  /\ fresh' = (fresh \/ t \notin threw)
  /\ UNCHANGED <<kernelVars, reads, prevCpu, prev, history, faults>>

Collect ==
  \/ \E t \in Ticks : fastTick(t) \/ cpu(t) \/ read(t) \/ Published(t)
  \/ \E n \in DOMAIN reads : network(n) \/ diskIo(n)

Next == Collect \/ Time \/ Passes \/ Replugged

(* The timer goes off and files are read.                                  *)
Spec == Init /\ [][Next]_vars /\ WF_vars(Collect)

-----------------------------------------------------------------------------
(* Nothing is counted twice: the rates that were shown, over the time they *)
(* stand for, never make more than what really passed, although files fail *)
(* to be read, devices go and come back, and ticks overlap: as long as     *)
(* nothing overtakes what was read before it.                              *)
NothingCountedTwice == ~overtaken => counted <= passed

(* The snapshot is updated again and again whatever cannot be read for a   *)
(* while, unless that was /proc/stat the first time it was read.           *)
FiguresComeBack == []<>(fresh \/ prevCpu = "empty")
=============================================================================
