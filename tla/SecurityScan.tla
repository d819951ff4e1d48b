---------------------------- MODULE SecurityScan ----------------------------
(***************************************************************************)
(* The security scan of the host: a oneshot unit (deploy/security-scan.sh) *)
(* that its timer starts every night and the dashboard starts, stops and   *)
(* schedules through the integration broker                                *)
(* (bin/integration-config-broker.js).  They share three files: the policy,*)
(* the status and the marker of a scan that was asked for.                 *)
(***************************************************************************)
EXTENDS Naturals

CONSTANTS
  Week,        \* days a weekly scan waits after the last that finished (six)
  MaxDay,      \* bound: the days that pass
  MaxRequests, \* bound: what the operator asks
  MaxFaults    \* bound: what goes wrong

SecurityScanAssumption == {Week, MaxDay, MaxRequests, MaxFaults} \subseteq Nat

VARIABLES
  day,       \* the clock
  policy,    \* security-scan-policy.json: manual or disabled is "off"
  timer,     \* the timer is enabled
  fired,     \* the timer fired today
  force,     \* the marker is there
  scan,      \* where the script is
  status,    \* security-scan-status.json
  report,    \* the day of the last report, or none
  asked,     \* history: a scan was asked for and none has begun since
  unclean,   \* history: the last scan was ended where nothing writes its status
  requests, faults

files == <<policy, force, status, report>>
vars == <<day, files, timer, fired, scan, asked, unclean, requests, faults>>

Never == MaxDay + 1
Policy == {"off", "daily", "weekly"}

Init ==
  /\ day = 0 /\ policy = "weekly" /\ timer = TRUE /\ fired = FALSE
  /\ force = FALSE /\ scan = "none"
  /\ status = [is |-> "never", running |-> FALSE, finishedAt |-> Never]
  /\ report = Never /\ asked = FALSE /\ unclean = FALSE
  /\ requests = 0 /\ faults = 0

Request == requests < MaxRequests /\ requests' = requests + 1
Fault   == faults < MaxFaults /\ faults' = faults + 1

(* Starting a unit that is starting already starts nothing.                *)
Started == scan' = IF scan = "none" THEN "starting" ELSE scan

-----------------------------------------------------------------------------
(* The dashboard.                                                          *)

startScan ==
  /\ Request
  /\ force' = TRUE /\ asked' = TRUE
  /\ Started
  /\ UNCHANGED <<day, policy, status, report, timer, fired, unclean, faults>>

(* The policy is saved first: the timer may be left as it was.             *)
configureScan(p) ==
  /\ Request /\ p # policy
  /\ policy' = p
  /\ \/ timer' = (p # "off") /\ UNCHANGED faults
     \/ Fault /\ UNCHANGED timer
  /\ UNCHANGED <<day, force, status, report, fired, scan, asked, unclean>>

(* TERM: before the trap is set the script just ends.  Afterwards it writes*)
(* that it was cancelled, over a result that it has just written, too.     *)
Stopped ==
  /\ scan' = "none"
  /\ status' = IF scan \in {"scanning", "reported", "finished"}
               THEN [status EXCEPT !.is = "cancelled", !.running = FALSE] ELSE status
  /\ unclean' = (unclean \/ scan = "untrapped")

(* By the operator, or by systemd after six hours.                         *)
cancelScan ==
  /\ scan # "none" /\ Request
  /\ Stopped
  /\ UNCHANGED <<day, policy, force, report, timer, fired, asked, faults>>

-----------------------------------------------------------------------------
(* The timer and the script.                                               *)

TimerFires ==
  /\ timer /\ ~fired
  /\ fired' = TRUE
  /\ Started
  /\ UNCHANGED <<day, files, timer, asked, unclean, requests, faults>>

Due == policy = "daily" \/ (policy = "weekly" /\ (status.finishedAt = Never \/ day - status.finishedAt >= Week))

(* Mutant: the marker stays.                                               *)
Decide_Keep ==
  /\ scan = "starting"
  /\ scan' = IF force \/ Due THEN "begun" ELSE "none"
  /\ asked' = FALSE
  /\ UNCHANGED <<force, day, policy, status, report, timer, fired, unclean, requests, faults>>

(* Whoever holds the lock removes the marker and takes it for its own.     *)
Decide ==
  /\ scan = "starting"
  /\ scan' = IF force \/ Due THEN "begun" ELSE "none"
  /\ force' = FALSE /\ asked' = FALSE
  /\ UNCHANGED <<day, policy, status, report, timer, fired, unclean, requests, faults>>

MarkRunning ==
  /\ scan = "begun" /\ scan' = "untrapped"
  /\ status' = [status EXCEPT !.is = "running", !.running = TRUE]
  /\ unclean' = FALSE
  /\ UNCHANGED <<day, policy, force, report, timer, fired, asked, requests, faults>>

SetTrap ==
  /\ scan = "untrapped" /\ scan' = "scanning"
  /\ UNCHANGED <<day, files, timer, fired, asked, unclean, requests, faults>>

(* The engines run; the time is taken and the report is written.           *)
Report ==
  /\ scan = "scanning" /\ scan' = "reported"
  /\ report' = day
  /\ UNCHANGED <<day, policy, force, status, timer, fired, asked, unclean, requests, faults>>

Conclude ==
  /\ scan = "reported" /\ scan' = "finished"
  /\ \E r \in {"clean", "warnings", "unavailable", "threats"} :
       status' = [is |-> r, running |-> FALSE, finishedAt |-> report]
  /\ UNCHANGED <<day, policy, force, report, timer, fired, asked, unclean, requests, faults>>

Exit ==
  /\ scan = "finished" /\ scan' = "none"
  /\ UNCHANGED <<day, files, timer, fired, asked, unclean, requests, faults>>

(* A command fails and ends the script, which handles TERM only; or the    *)
(* host goes down.                                                         *)
Abort ==
  /\ Fault
  /\ scan # "none"
  /\ scan' = "none"
  /\ unclean' = (unclean \/ status.running)
  /\ UNCHANGED <<day, files, timer, fired, asked, requests>>

NextDay ==
  /\ day < MaxDay /\ day' = day + 1
  /\ fired' = FALSE
  /\ UNCHANGED <<files, timer, scan, asked, unclean, requests, faults>>

Next ==
  \/ startScan \/ cancelScan \/ \E p \in Policy : configureScan(p)
  \/ TimerFires \/ Decide \/ MarkRunning \/ SetTrap \/ Report \/ Conclude \/ Exit \/ Abort \/ NextDay

Spec == Init /\ [][Next]_vars

-----------------------------------------------------------------------------
(* Every variable has its type.                                            *)
TypeOK ==
  /\ day \in 0..MaxDay /\ policy \in Policy /\ {timer, fired, force, asked, unclean} \subseteq BOOLEAN
  /\ scan \in {"none", "starting", "begun", "untrapped", "scanning", "reported", "finished"}
  /\ status \in [is : {"never", "running", "cancelled", "clean", "warnings", "unavailable", "threats"},
                 running : BOOLEAN, finishedAt : 0..Never]
  /\ report \in 0..Never /\ requests \in 0..MaxRequests /\ faults \in 0..MaxFaults

(* The status says that a scan runs exactly while one does, however it is  *)
(* stopped: unless the last one was ended where nothing writes the status, *)
(* and then it says so until the next scan has begun, and not longer.  A   *)
(* result is only shown with its report.                                   *)
ScanStatusIsTrue ==
  /\ status.running <=> scan \in {"untrapped", "scanning", "reported"} \/ unclean
  /\ unclean => scan \notin {"untrapped", "scanning", "reported"}
  /\ status.is \in {"clean", "warnings", "unavailable", "threats"} =>
       status.finishedAt = report /\ report # Never

(* A scan that begins was asked for since the last one began, or its time  *)
(* has come: one request never gives two scans, a scan that was cancelled  *)
(* does not count as this week's, and a scan that was asked for does.      *)
ScansHaveACause ==
  [][scan = "starting" /\ scan' = "begun" =>
       asked \/ (policy # "off" /\ (policy = "weekly" /\ status.finishedAt # Never => day - status.finishedAt >= Week))]_vars
=============================================================================
