------------------------------ MODULE Services ------------------------------
(***************************************************************************)
(* The parts of the system that share no state, side by side: every        *)
(* behaviour is one of the part that it begins with.                       *)
(***************************************************************************)
EXTENDS Integers

\* The constants of each part, in a record.
CONSTANTS
  OfUpdates, OfScans, OfAgent, OfFleet, OfPage, OfProbes, OfDiscovery, OfIndex, OfRates, OfJournal,
  OfBroker

VARIABLES
  part,
  \* an update of the installation
  app, deps, services, job, units, started, late, available, registry, updatesPage, updateFaults,
  seen, found,
  \* the security scan
  day, policy, timer, fired, force, securityScan, status, report, asked, unclean, scanRequests, scanFaults,
  \* questions to the agent
  messages, chat, busy, chats, begun, jobs, calls, queue, attempts, answers, chatFaults,
  \* the telemetry of the nodes
  hubTime, skew, sent, waiting, lastPush, pushes, replies, nonces, bucket, row, metrics, stored, restarts,
  pushFaults,
  \* the dashboard's page
  version, session, at, socket, wire, retry, reconnectTimer, pollTimer, polls, localLatest, latest,
  activeFleetNode, conn, selections, opening, intervals, fleetRefreshTimer, refreshing,
  activeFleetSafe, scope, hubLoads, pageFaults,
  \* probes
  probeTime, spent, recent, relayed, ran, probeRequests, probeFaults,
  \* what is monitored
  host, snapshot, settings, marker, discoveryScan, setupPage, owed, excluded, dropped, saves, changes,
  setupFaults,
  \* the index of the file system
  kind, stack, entries,
  \* the fast collector
  elapsed, device, counter, passed, under, fresh, threw, reads, prevCpu, prev, counted, overtaken, readFaults,
  \* the journal of changes
  lines, terminated, past, used,
  \* requests to the broker, and wrong approvals
  enabled, now, issued, signed, pending, failures, requestsOpen, executing, presented, rejections,
  spentOnGuesses

-----------------------------------------------------------------------------
U == INSTANCE HostUpdate WITH
  page <- updatesPage, faults <- updateFaults, Faults <- OfUpdates.Faults,
  MaxFaults <- OfUpdates.MaxFaults, MaxUnits <- OfUpdates.MaxUnits

S == INSTANCE SecurityScan WITH
  scan <- securityScan, requests <- scanRequests, faults <- scanFaults,
  Week <- OfScans.Week, MaxDay <- OfScans.MaxDay, MaxRequests <- OfScans.MaxRequests,
  MaxFaults <- OfScans.MaxFaults

B == INSTANCE AgentBridge WITH
  faults <- chatFaults, Pages <- OfAgent.Pages, models <- OfAgent.models, keys <- OfAgent.keys,
  WINDOW <- OfAgent.WINDOW, MAX_CHATS <- OfAgent.MAX_CHATS, MaxQuestions <- OfAgent.MaxQuestions,
  MaxChats <- OfAgent.MaxChats, MaxFaults <- OfAgent.MaxFaults

F == INSTANCE FleetIngest WITH
  time <- hubTime, wire <- pushes, faults <- pushFaults, WINDOW <- OfFleet.WINDOW,
  NONCE_AGE <- OfFleet.NONCE_AGE, LIMIT <- OfFleet.LIMIT, MINUTE <- OfFleet.MINUTE,
  OFFLINE <- OfFleet.OFFLINE, Skews <- OfFleet.Skews, MaxTime <- OfFleet.MaxTime,
  MaxPushes <- OfFleet.MaxPushes, MaxFaults <- OfFleet.MaxFaults

L == INSTANCE LivePage WITH
  faults <- pageFaults, Nodes <- OfPage.Nodes, RETRIES <- OfPage.RETRIES,
  MaxVersion <- OfPage.MaxVersion, MaxSelections <- OfPage.MaxSelections, MaxWire <- OfPage.MaxWire,
  MaxFaults <- OfPage.MaxFaults

P == INSTANCE Probes WITH
  time <- probeTime, requests <- probeRequests, faults <- probeFaults, Commands <- OfProbes.Commands,
  BUDGET_WINDOW <- OfProbes.BUDGET_WINDOW, BUDGET_LIMIT <- OfProbes.BUDGET_LIMIT,
  REPEAT_WINDOW <- OfProbes.REPEAT_WINDOW, REPEAT_LIMIT <- OfProbes.REPEAT_LIMIT,
  MAX_KEYS <- OfProbes.MAX_KEYS, MaxTime <- OfProbes.MaxTime, MaxRequests <- OfProbes.MaxRequests,
  MaxFaults <- OfProbes.MaxFaults

D == INSTANCE Discovery WITH
  scan <- discoveryScan, page <- setupPage, faults <- setupFaults, Targets <- OfDiscovery.Targets,
  Automatic <- OfDiscovery.Automatic, Narrow <- OfDiscovery.Narrow, MaxScans <- OfDiscovery.MaxScans,
  MaxSaves <- OfDiscovery.MaxSaves, MaxChanges <- OfDiscovery.MaxChanges,
  MaxFaults <- OfDiscovery.MaxFaults

I == INSTANCE FileIndex WITH
  Paths <- OfIndex.Paths, roots <- OfIndex.roots, FS_MAX_ENTRIES <- OfIndex.FS_MAX_ENTRIES,
  DEPTH <- OfIndex.DEPTH

C == INSTANCE HostRates WITH
  faults <- readFaults, Ticks <- OfRates.Ticks, MaxTraffic <- OfRates.MaxTraffic,
  MaxFaults <- OfRates.MaxFaults

J == INSTANCE Journal WITH
  Entries <- OfJournal.Entries, MaxAppends <- OfJournal.MaxAppends, MaxTears <- OfJournal.MaxTears,
  MaxDamage <- OfJournal.MaxDamage

G == INSTANCE ChangeBroker WITH
  conn <- requestsOpen, busy <- executing, used <- spentOnGuesses, Conns <- OfBroker.Conns,
  Hashes <- OfBroker.Hashes, Nobody <- OfBroker.Nobody, MAX_PENDING <- OfBroker.MAX_PENDING,
  Ttl <- OfBroker.Ttl, FAILURE_WINDOW <- OfBroker.FAILURE_WINDOW,
  FAILURE_LIMIT <- OfBroker.FAILURE_LIMIT, MaxTime <- OfBroker.MaxTime,
  MaxNonces <- OfBroker.MaxNonces, MaxFailed <- OfBroker.MaxFailed,
  MaxRestarts <- OfBroker.MaxRestarts, MaxToggles <- OfBroker.MaxToggles

ASSUME ServicesAssumption ==
  /\ U!HostUpdateAssumption /\ S!SecurityScanAssumption /\ B!AgentBridgeAssumption
  /\ F!FleetIngestAssumption /\ L!LivePageAssumption /\ D!DiscoveryAssumption
  /\ C!HostRatesAssumption /\ J!JournalAssumption /\ P!ProbesAssumption /\ G!BrokerAssumption
  /\ I!FileIndexAssumption

-----------------------------------------------------------------------------
Parts == {"update", "scan", "agent", "fleet", "page", "probes", "discovery", "index", "rates",
          "journal", "broker"}

updateVars == <<app, deps, services, job, units, started, late, available, registry, updatesPage,
                updateFaults, seen, found>>
scanVars == <<day, policy, timer, fired, force, securityScan, status, report, asked, unclean, scanRequests,
              scanFaults>>
agentVars == <<messages, chat, busy, chats, begun, jobs, calls, queue, attempts, answers, chatFaults>>
fleetVars == <<hubTime, skew, sent, waiting, lastPush, pushes, replies, nonces, bucket, row, metrics,
               stored, restarts, pushFaults>>
pageVars == <<version, session, at, socket, wire, retry, reconnectTimer, pollTimer, polls, localLatest,
              latest, activeFleetNode, conn, selections, opening, intervals, fleetRefreshTimer, refreshing,
              activeFleetSafe, scope, hubLoads, pageFaults>>
probeVars == <<probeTime, spent, recent, relayed, ran, probeRequests, probeFaults>>
discoveryVars == <<host, snapshot, settings, marker, discoveryScan, setupPage, owed, excluded, dropped,
                   saves, changes, setupFaults>>
indexVars == <<kind, stack, entries>>
rateVars == <<elapsed, device, counter, passed, under, fresh, threw, reads, prevCpu, prev, counted, overtaken,
              readFaults>>
journalVars == <<lines, terminated, past, used>>
brokerVars == <<enabled, now, issued, signed, pending, failures, requestsOpen, executing, presented,
                rejections, spentOnGuesses>>
vars == <<part, updateVars, scanVars, agentVars, fleetVars, pageVars, probeVars, discoveryVars, indexVars,
          rateVars, journalVars, brokerVars>>

\* A part that has more than one beginning has them only in behaviours of its own.
Init ==
  /\ part \in Parts
  /\ U!Init /\ S!Init /\ B!Init /\ P!Init /\ D!Init /\ J!Init
  /\ G!Init /\ (part # "broker" => enabled)
  /\ F!Init /\ (part # "fleet" => skew = CHOOSE s \in OfFleet.Skews : TRUE)
  /\ C!Init /\ (part # "rates" => device = "network")
  /\ L!Init /\ (part # "page" => localLatest = 1)
  /\ IF part = "index" THEN I!Init ELSE kind = <<>> /\ stack = <<>> /\ entries = <<>>

Keep(p, theirs) == IF part = p THEN TRUE ELSE UNCHANGED theirs

\* The other parts do not move.
Alone ==
  /\ UNCHANGED part
  /\ Keep("update", updateVars) /\ Keep("scan", scanVars) /\ Keep("agent", agentVars)
  /\ Keep("fleet", fleetVars) /\ Keep("page", pageVars) /\ Keep("probes", probeVars)
  /\ Keep("discovery", discoveryVars) /\ Keep("index", indexVars) /\ Keep("rates", rateVars)
  /\ Keep("journal", journalVars) /\ Keep("broker", brokerVars)

Next ==
  \/ part = "update" /\ U!Next /\ Alone
  \/ part = "scan" /\ S!Next /\ Alone
  \/ part = "agent" /\ B!Next /\ Alone
  \/ part = "fleet" /\ F!Next /\ Alone
  \/ part = "page" /\ L!Next /\ Alone
  \/ part = "probes" /\ P!Next /\ Alone
  \/ part = "discovery" /\ D!Next /\ Alone
  \/ part = "index" /\ I!Next /\ Alone
  \/ part = "rates" /\ C!Next /\ Alone
  \/ part = "journal" /\ J!Next /\ Alone
  \/ part = "broker" /\ G!Next /\ Alone

\* The fairness that each part states, in its own behaviours.
Fairness ==
  /\ WF_updateVars(part = "update" /\ U!UnitStep)
  /\ WF_agentVars(part = "agent" /\ B!Bridge)
  /\ WF_agentVars(part = "agent" /\ B!Replies)
  /\ \A p \in OfAgent.Pages : WF_agentVars(part = "agent" /\ B!Polled(p))
  /\ WF_pageVars(part = "page" /\ L!Tick)
  /\ WF_pageVars(part = "page" /\ (L!Opens \/ L!Refused))
  /\ WF_pageVars(part = "page" /\ L!Reconnect)
  /\ WF_pageVars(part = "page" /\ L!onmessage)
  /\ WF_pageVars(part = "page" /\ L!Poll)
  /\ WF_pageVars(part = "page" /\ L!Answers)
  /\ WF_pageVars(part = "page" /\ L!OfNodes)
  /\ WF_pageVars(part = "page" /\ L!HubAsked)
  /\ WF_pageVars(part = "page" /\ L!HubDrawn)
  /\ WF_rateVars(part = "rates" /\ C!Collect)
  /\ \A c \in OfBroker.Conns : WF_brokerVars(part = "broker" /\ G!Serve(c))

Spec == Init /\ [][Next]_vars
FairSpec == Spec /\ Fairness

-----------------------------------------------------------------------------
(* What the dashboard says of an update and of the security scan is true:  *)
(* the job file says what became of the installation, and no two updates   *)
(* work on it at once (bin/noxctl, bin/integration-config-broker.js); the  *)
(* status of the scan says what the scan does, however it is stopped       *)
(* (deploy/security-scan.sh).                                              *)
StatusIsTrue ==
  /\ part = "update" => U!TypeOK /\ U!UpdateIsTrue /\ U!OneUpdateAtATime
  /\ part = "scan" => S!TypeOK /\ S!ScanStatusIsTrue

(* A scan that begins was asked for, or its time has come                  *)
(* (deploy/security-scan.sh:10-12).                                        *)
ScansHaveACause == S!ScansHaveACause

(* The agent works on one question at a time and falls back over models and*)
(* keys in order (deploy/forge/server.mjs); an answer comes after the      *)
(* question it answers, in the chat it was asked in (public/js/forge.js).  *)
AnswersFollowQuestions == part = "agent" => B!TypeOK /\ B!OneQuestionAtATime /\ B!AnswersFollowQuestions

(* A node that is shown as online was heard of lately, a push is stored    *)
(* again only if the hub was restarted in between, and the node says a push*)
(* went through only if the hub stored it (src/fleet.js, src/db/fleet.js). *)
PushesAreTrue == part = "fleet" => F!OnlineMeansRecent /\ F!StoredOnce /\ F!PushIsStored

(* The page never shows the figures of another node than it says           *)
(* (public/app.js), and rates count nothing twice (src/metrics/proc.js).   *)
FiguresAreTrue ==
  /\ part = "page" => L!FiguresOfTheNode
  /\ part = "rates" => C!NothingCountedTwice

(* No host runs more probes than the budget and the limit on repetition    *)
(* allow in any stretch of time, as long as its broker is not started      *)
(* again: it counts in memory (src/changes/broker.js).                     *)
ProbesAreLimited == part = "probes" => P!ProbesAreLimited

(* A rescan that was asked for waits on the disk until a scan has begun    *)
(* after it, and a target that was switched off stays off unless a save has*)
(* thrown that away (bin/privileged-collector.js, src/discovery/store.js). *)
DiscoveryKeepsWishes == part = "discovery" => D!RescansAreKept /\ D!ExclusionsLast

(* The index holds what there is up to its limit, says if something is     *)
(* missing, and can be browsed through (bin/privileged-collector.js).      *)
IndexIsComplete == part = "index" => I!IndexIsComplete /\ I!BrowsingReachesAll

(* The journal (src/changes/journal.js): what it verifies was written just *)
(* like that; appending keeps a journal verifiable that is, and covers up  *)
(* no break.                                                               *)
JournalHolds ==
  [](part = "journal" => J!TypeOK /\ J!VerifiedIsHistory) /\ J!AppendKeepsChain /\ J!BreakStays

(* Guessing approvals is bounded within any window, however requests are   *)
(* mixed; a restart of the broker opens a new count                        *)
(* (src/changes/broker.js).                                                *)
GuessesBounded == part = "broker" => G!GuessesBounded

(* What was begun ends: an update that is shown as running, a question that*)
(* a page waits for, a request to the broker; a page that fell behind      *)
(* catches up, and figures come again, whatever breaks in between: except  *)
(* for what each part names as leaving it hanging for good (a stalled or   *)
(* killed update, a timer left behind, a first reading of /proc/stat that  *)
(* failed).  (bin/noxctl, src/agent-client.js, src/changes/broker.js,      *)
(* public/app.js, src/metrics/index.js.)                                   *)
WhatBeginsEnds ==
  /\ U!UpdateJobsEnd /\ B!QuestionsEnd /\ G!EveryRequestAnswered /\ L!PageKeepsUp
  /\ C!FiguresComeBack
=============================================================================
