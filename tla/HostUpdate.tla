----------------------------- MODULE HostUpdate -----------------------------
(***************************************************************************)
(* An update of the installation, started from the dashboard.  The web     *)
(* service learns of releases (src/updates.js) and asks the integration    *)
(* broker, a part of the agent service, to start a transient unit          *)
(* (bin/integration-config-broker.js).  The unit runs `noxctl              *)
(* update-github`, which replaces the application and restarts both        *)
(* services, and then writes how it ended.  All they share is the job file.*)
(***************************************************************************)
EXTENDS Naturals, FiniteSets

CONSTANTS
  Faults,      \* what may go wrong here
  MaxFaults,   \* bound: how often something does
  MaxUnits     \* bound: how many units are started

FaultKinds == {"network", "bundle", "disk", "registry", "restart", "unhealthy", "refused", "late",
               "torn", "stalled", "died", "killed", "crash"}
HostUpdateAssumption == Faults \subseteq FaultKinds /\ {MaxFaults, MaxUnits} \subseteq Nat

VARIABLES
  app,       \* what is in the application's directory
  deps,      \* the release whose dependencies are installed
  services,  \* what the two services run
  job,       \* update-job.json
  units,     \* the units under way, where each is and what its archive holds
  started,   \* how many were started
  late,      \* systemd-run has yet to report that it timed out
  available, \* updates.js: a newer release is known of
  registry,  \* the npm registry answers
  page,      \* the page that asked for the update
  faults,    \* how much went wrong
  seen,      \* history: what did since an update was last begun with none under way
  found      \* history: the release that was installed and ran then, or none

machine == <<app, deps, services>>
history == <<faults, seen, found>>
vars == <<machine, job, units, started, late, available, registry, page, history>>

Release == {"old", "new", "none"}
At   == {"starting", "download", "backup", "stop", "sync", "stage", "undo", "restart_old",
         "restart", "health", "revert", "stalled", "completed", "failed", "writing_completed",
         "writing_failed"}
Job  == {"none", "torn", "queued", "working", "completed", "failed"}
Pages == {"idle", "polling", "completed", "failed", "gave_up"}
Running == {"queued", "working"}

Init ==
  /\ app = "old" /\ deps = "old" /\ services = "old"
  /\ job = "none" /\ units = {} /\ started = 0 /\ late = FALSE
  /\ available = FALSE /\ registry = TRUE /\ page = "idle"
  /\ faults = 0 /\ seen = {} /\ found = "old"

Fault(kind) ==
  /\ kind \in Faults /\ faults < MaxFaults
  /\ faults' = faults + 1 /\ seen' = seen \cup {kind}
  /\ UNCHANGED found

-----------------------------------------------------------------------------
(* The dashboard.                                                          *)

(* A check that fails keeps what was known; no other version is offered    *)
(* than one newer than the service that looks.                             *)
checkForUpdates ==
  /\ services # "none"
  /\ available' = (services = "old")
  /\ UNCHANGED <<machine, job, units, started, late, registry, page, history>>

(* The history begins again with an update that finds none under way.      *)
Begins ==
  IF units = {} /\ ~late
  THEN /\ found' = IF app = deps /\ deps = services THEN app ELSE "none"
       /\ seen' = IF registry THEN {} ELSE {"registry"}
       /\ UNCHANGED faults
  ELSE IF job = "torn" /\ units # {} THEN Fault("torn") ELSE UNCHANGED history

(* The job that is running is the answer, if there is one.  A file that is *)
(* missing or torn counts as none, and so does one that a unit is just     *)
(* writing.                                                                *)
startUpdateJob ==
  IF job \in Running THEN UNCHANGED <<job, units, started, history>>
  ELSE /\ started < MaxUnits
       /\ job' = "queued" /\ started' = started + 1
       /\ units' = units \cup {[unit |-> started + 1, at |-> "starting", backup |-> "none"]}
       /\ Begins

Install ==
  /\ services # "none" /\ available
  /\ startUpdateJob
  /\ page' = "polling"
  /\ UNCHANGED <<machine, late, available, registry>>

(* load() turns every failure into "no job runs", so that the page stops   *)
(* asking as soon as the services go down, and the messages for a page that*)
(* waits for them are never shown.                                         *)
pollUntilReady ==
  /\ page = "polling"
  /\ page' = IF services = "none" THEN "gave_up"
             ELSE CASE job \in Running -> "polling"
                    [] job \in {"completed", "failed"} -> job
                    [] OTHER -> "gave_up"
  /\ UNCHANGED <<machine, job, units, started, late, available, registry, history>>

-----------------------------------------------------------------------------
(* The unit.                                                               *)

Goes(u, at) == units' = (units \ {u}) \cup {[u EXCEPT !.at = at]}
Quiet == UNCHANGED <<started, late, available, registry, page>>
update_progress == job' = "working"

(* The service that waits for systemd-run is stopped or started again.     *)
WithServices == late' = FALSE /\ UNCHANGED <<started, registry, page>>

(* systemd-run starts the unit, or fails, or takes more than 15 seconds.   *)
Start(u) ==
  /\ u.at = "starting"
  /\ \/ Goes(u, "download") /\ UNCHANGED <<job, late, history>>
     \/ Fault("refused") /\ units' = units \ {u} /\ job' = "failed" /\ UNCHANGED late
     \/ Fault("late") /\ Goes(u, "download") /\ late' = TRUE /\ UNCHANGED job
  /\ UNCHANGED <<machine, started, available, registry, page>>

LateReport ==
  /\ late /\ late' = FALSE
  /\ job' = "failed"
  /\ UNCHANGED <<machine, units, started, available, registry, page, history>>

(* The agent service dies before systemd-run has reached the manager.      *)
Dies(u) ==
  /\ u.at = "starting" /\ Fault("died")
  /\ units' = units \ {u} /\ late' = FALSE
  /\ UNCHANGED <<machine, job, started, available, registry, page>>

(* cmd_update_github: nothing is touched before the bundle is verified and *)
(* both backups are there.  A download that stalls has no time limit, nor  *)
(* has the unit.                                                           *)
Prepare(u) ==
  /\ u.at \in {"download", "backup"}
  /\ update_progress
  /\ \/ u.at = "download" /\ Goes(u, "backup") /\ UNCHANGED history
     \/ u.at = "backup" /\ UNCHANGED history
        /\ units' = (units \ {u}) \cup {[u EXCEPT !.at = "stop", !.backup = app]}
     \/ Goes(u, "failed") /\ Fault(IF u.at = "download" THEN "network" ELSE "disk")
     \/ u.at = "download" /\ Goes(u, "failed") /\ Fault("bundle")
     \/ u.at = "download" /\ Goes(u, "stalled") /\ Fault("stalled")
  /\ UNCHANGED machine /\ Quiet

Stop(u) ==
  /\ u.at = "stop"
  /\ update_progress
  /\ services' = "none"
  /\ Goes(u, "sync")
  /\ UNCHANGED <<app, deps, available, history>> /\ WithServices

(* Without a handler of its own: what fails here ends the script.          *)
Sync(u) ==
  /\ u.at = "sync"
  /\ \/ app' = "new" /\ Goes(u, "stage") /\ UNCHANGED history
     \/ app' = "none" /\ Goes(u, "failed") /\ Fault("disk")
  /\ UNCHANGED <<deps, services, job>> /\ Quiet

(* npm ci removes what is installed first; what it runs may stall as well. *)
npm_ci(u, done, else) ==
  \/ /\ deps' = IF registry THEN app' ELSE "none"
     /\ Goes(u, IF deps' = "none" THEN else ELSE done)
     /\ UNCHANGED history
  \/ deps' = "none" /\ Goes(u, "stalled") /\ Fault("stalled")

Stage(u) ==
  /\ u.at = "stage"
  /\ UNCHANGED app /\ npm_ci(u, "restart", "undo")
  /\ UNCHANGED <<services, job>> /\ Quiet

(* Mutant: the old application runs with the new dependencies.             *)
Undo_AppOnly(u) ==
  /\ u.at \in {"undo", "revert"}
  /\ update_progress
  /\ services' = "none"
  /\ app' = u.backup /\ UNCHANGED deps
  /\ Goes(u, "restart_old")
  /\ UNCHANGED <<available, history>> /\ WithServices

(* Both ways back: the archive is unpacked and its dependencies installed  *)
(* again; what fails ends the script.                                      *)
Undo(u) ==
  /\ u.at \in {"undo", "revert"}
  /\ update_progress
  /\ services' = "none"
  /\ app' = u.backup /\ npm_ci(u, "restart_old", "failed")
  /\ UNCHANGED available /\ WithServices

RestartOld(u) ==
  /\ u.at = "restart_old"
  /\ \/ services' = app /\ UNCHANGED history
     \/ services' = "none" /\ Fault("restart")
  /\ Goes(u, "failed")
  /\ available' = FALSE
  /\ UNCHANGED <<app, deps, job>> /\ WithServices

(* A restart that is refused ends the script; a service that dies at once  *)
(* is found by the health check.  The service knows of no release yet.     *)
RestartNew(u) ==
  /\ u.at = "restart"
  /\ update_progress
  /\ \/ services' = app /\ Goes(u, "health") /\ UNCHANGED history
     \/ services' = "none" /\ Goes(u, "failed") /\ Fault("restart")
  /\ available' = FALSE
  /\ UNCHANGED <<app, deps>> /\ WithServices

Health(u) ==
  /\ u.at = "health"
  /\ update_progress
  /\ \/ services = app /\ Goes(u, "completed") /\ UNCHANGED history
     \/ services # app /\ Goes(u, "revert") /\ UNCHANGED history
     \/ Goes(u, "revert") /\ Fault("unhealthy")
  /\ UNCHANGED machine /\ Quiet

(* Mutant: how a failed update ended is not written.                       *)
Finish_Silent(u) ==
  /\ \/ u.at = "completed" /\ job' = "torn" /\ Goes(u, "writing_completed")
     \/ u.at = "failed" /\ UNCHANGED job /\ units' = units \ {u}
     \/ u.at = "writing_completed" /\ job' = "completed" /\ units' = units \ {u}
  /\ UNCHANGED <<machine, history>> /\ Quiet

(* The command around noxctl empties the job file and writes the result.   *)
Finish(u) ==
  /\ \/ u.at \in {"completed", "failed"} /\ job' = "torn"
        /\ Goes(u, IF u.at = "completed" THEN "writing_completed" ELSE "writing_failed")
     \/ u.at = "writing_completed" /\ job' = "completed" /\ units' = units \ {u}
     \/ u.at = "writing_failed" /\ job' = "failed" /\ units' = units \ {u}
  /\ UNCHANGED <<machine, history>> /\ Quiet

-----------------------------------------------------------------------------
(* The registry goes away for a while.                                     *)
Outage ==
  /\ IF registry THEN Fault("registry") ELSE UNCHANGED history
  /\ registry' = ~registry
  /\ UNCHANGED <<machine, job, units, started, late, available, page>>

(* What units leave behind that are cut short in the middle of a command.  *)
CutShort(cut) ==
  /\ app' \in IF \E u \in cut : u.at \in {"sync", "undo", "revert"} THEN {app, "none"} ELSE {app}
  /\ deps' \in IF \E u \in cut : u.at \in {"stage", "undo", "revert"} THEN {deps, "none"} ELSE {deps}

(* A unit is killed, with the command that would write how it ended.       *)
Killed ==
  /\ Fault("killed")
  /\ \E u \in units : u.at # "starting" /\ units' = units \ {u} /\ CutShort({u})
  /\ UNCHANGED <<services, job, started, late, available, registry, page>>

(* The host goes down and comes back: systemd starts what is there.        *)
Crash ==
  /\ Fault("crash")
  /\ CutShort(units) /\ units' = {} /\ late' = FALSE
  /\ services' = IF app' = deps' THEN app' ELSE "none"
  /\ available' = FALSE
  /\ UNCHANGED <<job, started, registry, page>>

UnitStep ==
  \E u \in units :
    \/ Start(u) \/ Prepare(u) \/ Stop(u) \/ Sync(u) \/ Stage(u) \/ Undo(u) \/ RestartOld(u)
    \/ RestartNew(u) \/ Health(u) \/ Finish(u)

Next ==
  \/ checkForUpdates \/ Install \/ pollUntilReady
  \/ UnitStep \/ LateReport \/ \E u \in units : Dies(u)
  \/ Outage \/ Killed \/ Crash

(* A unit that has not stalled runs on.                                    *)
Spec == Init /\ [][Next]_vars /\ WF_vars(UnitStep)

-----------------------------------------------------------------------------
(* Every variable has its type.                                            *)
TypeOK ==
  /\ {app, deps, services, found} \subseteq Release
  /\ job \in Job /\ page \in Pages /\ {late, available, registry} \subseteq BOOLEAN
  /\ units \subseteq [unit : 1..MaxUnits, at : At, backup : Release] /\ started \in 0..MaxUnits
  /\ faults \in 0..MaxFaults /\ seen \subseteq Faults

Installed(r) == app = r /\ deps = r /\ services = r

(* The job file is right about the installation once no unit is under way: *)
(* a completed update is installed and runs, a failed one left the release *)
(* that it found installed and running, also when the new one was installed*)
(* and is not healthy.  Three things break the second for that update: the *)
(* disk, the registry and the service manager can fail after the services  *)
(* were stopped.  Both are broken by updates that overlap, until the next  *)
(* one that is begun with none under way.                                  *)
UpdateIsTrue ==
  units = {} /\ seen \cap {"late", "torn"} = {} =>
    /\ job = "completed" => Installed("new")
    /\ job = "failed" /\ found # "none" /\ seen \cap {"disk", "registry", "restart"} = {} =>
         Installed(found)

(* Two updates never work on the installation at the same time, whatever is*)
(* asked for meanwhile: unless systemd-run reported a failure although the *)
(* unit runs, or the request met the moment in which the job file is empty;*)
(* and then only as long as those updates are under way.                   *)
OneUpdateAtATime == seen \cap {"late", "torn"} = {} => Cardinality(units) <= 1

(* A job that is shown as running ends.  Four things leave it there, and no*)
(* update can be started again: a command that waits for the network and   *)
(* stalls, since neither curl nor the unit has a time limit; a unit that is*)
(* killed; an agent service that dies before the unit is started; and a    *)
(* host that goes down.                                                    *)
UpdateJobsEnd == []<>(job \notin Running \/ seen \cap {"stalled", "killed", "died", "crash"} # {})

(* docs/OPERATIONS.md: "A failed update restores the previous application  *)
(* automatically."  The registry that made the update fail is needed again *)
(* on the way back.                                                        *)
FailedUpdateRestores == job = "failed" /\ units = {} => Installed("old")
=============================================================================
