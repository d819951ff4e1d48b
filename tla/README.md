# Verification of Grouvi Nox

Grouvi Nox is a monitoring dashboard for servers, with an AI agent that may
propose changes which the operator approves with a passkey. This directory
holds TLA+ models of the parts where an interleaving, a crash or a stale read
can do real damage, the TLC configurations that check them on small instances,
and proofs, checked by TLAPS, of what must hold at any size.

Paths below are relative to the repository. `PROJECT.json` maps every
definition to the lines it stands for, lists the runs, the mutants that show
each property can fail, the hazards and the theorems.

## 1. The system

| Part | State | Operations | Talks to |
|---|---|---|---|
| Change executor, `src/changes/executor.js` | `busy`; per change `proposal.json`, `result.json`, `before/` | `apply`, `rollback`, `recoverInterrupted`, `prune` | scripts, git, the files of others, the journal |
| Approval gate, `src/changes/approval.js` | `pending` challenges | `issue`, `verify` | WebAuthn library, enrolled credentials |
| Change broker, `src/changes/broker.js`, `bin/change-broker.js` | failure times, probe budget and repetitions, the `ENABLED` flag file | control socket: challenge, apply, rollback, reads, relayed probes; probe socket: probe, propose | gate, executor, journal, fleet link |
| Journal, `src/changes/journal.js` | `journal.jsonl` | `append`, `verify` | disk |
| Proposals and review, `src/changes/proposals.js`, `src/changes/policy.js`, `src/routes/api/changes.js`, `public/js/changes.js` | proposal files, rejections, background jobs; lists and decisions of each page | save, list, reject, challenge, apply, rollback, poll, load | broker, fleet link, operator |
| Fleet control link, `src/changes/fleet-link.js` | nonces seen, jobs | signed calls, jobs and polling | a node's broker |
| Fleet ingest and push, `src/fleet.js`, `src/db/fleet.js` | nonces, buckets, last snapshot of each node | push, ingest | hub database |
| Sign-in, `src/routes/auth.js`, `src/auth.js`, `src/store.js`, `src/admin-socket.js` | challenges, sessions, credentials, enrollment links, recovery codes, one state file | register, sign in, recover, revoke | browser, administrator |
| Incidents, `src/db/incidents.js`, `src/metrics/index.js`, `src/notifier.js` | incident rows, `incidentSyncing`, sent messages | collector passes, manual changes, notification | Telegram, AI bridge |
| Questions to the agent, `public/js/forge.js`, `src/routes/api/agent.js`, `src/agent-client.js`, `deploy/forge/server.mjs` | chats of the browser, jobs, a queue of one | ask, poll, change chats, fall back over models and keys | agent runtime |
| Updates, `bin/noxctl`, `bin/integration-config-broker.js`, `src/updates.js` | the job file, the installation | check, start, run, restore | systemd, npm, GitHub |
| Security scans, `deploy/security-scan.sh`, the same broker | policy, status, report, marker | start, cancel, schedule | systemd |
| The live page, `public/app.js`, `src/ws.js`, `src/metrics/index.js` | snapshots, socket, timers, the node selected | push, poll, select, reconnect | web service, fleet API |
| Discovery, `bin/privileged-collector.js`, `src/discovery/store.js`, `public/setup.js` | snapshot, settings, marker; the setup page | scan, rescan, save, select | the host |
| Collectors, `src/metrics/proc.js`, `bin/privileged-collector.js` | what was read last; the index of the file system | tick, index, browse | /proc, the disk |
| Web service shell, installation, parsing of command output | configuration | wiring | |

How they work together: the agent hands a proposal to the broker's probe
socket; the dashboard shows it; the operator asks for a challenge and signs it;
the dashboard passes the signature on to the broker's control socket, directly
or over the fleet link; the broker verifies it and has the executor carry out
the change, which brackets it with journal lines. Apart from that, the
collectors of each host fill a snapshot, which the hub keeps, evaluates,
pushes to pages and receives from its nodes; and a privileged broker starts
updates and scans, which report through files.

Hard behaviours, and what correctness means for each part:

- *Executor.* One task at a time; every task suspends at each script, so others
  edit the same files in between; the process may die anywhere. A change that
  did not end "applied" must leave files as it found them, a rollback must be
  exact and spare what others wrote, records and journal must tell one story
  after a crash, every task must end.
- *Broker and gate.* Requests interleave at every await. Nothing may run that
  the operator did not sign, for that purpose and content, recently and once;
  guessing and probing must be bounded; every request must be answered.
- *Journal.* Writes may stop short and lines may be tampered with; what
  `verify` accepts must be what was written.
- *Proposals and review.* Loads overtake each other and decisions, rejections
  and changes live in different files. What waits must be offered, what was
  decided must not, and what a page says was done must have been.
- *Fleet link.* Answers are late or lost, processes restart; a report of
  failure must not be mistaken for a change that did not happen.
- *Fleet ingest.* Snapshots overtake each other and are repeated; an old one
  must not be stored twice, nor make a node look alive for long.
- *Sign-in.* Links and codes are single use although verification suspends.
- *Incidents.* One open incident per cause, closed only after a quiet grace
  time, although passes wait for notifications.
- *Agent.* Questions queue, models and keys fail, pages turn to other chats: an
  answer must come, and after its own question.
- *Updates and scans.* The process that starts a job may be gone when it ends,
  and every step may fail: the file must say what became of it.
- *Live page, discovery, collectors.* Several timers, awaits and files: the
  page must show what it says it shows and catch up, exclusions and requests
  for a rescan must last, rates must not count twice.

## 2. Modules

| Module | Models | Role |
|---|---|---|
| `ChangeLifecycle` | what the executor promises about one change | abstract specification |
| `ChangeExecutor` | `executor.js` | specification, properties, mutants |
| `MCChangeExecutor` | four proposals on one file | instance for TLC |
| `ChangeExecutorProofs` | | theorems about records, journal and phases of the executor |
| `ChangeExecutorOutcomeProofs` | | theorems about files, outcomes and the lifecycle; extends the former |
| `ChangeBroker` | control side of `broker.js`, `approval.js`, the flag | specification, properties, mutants |
| `MCChangeBroker` | symmetry sets, a bound | instance for TLC |
| `ChangeBrokerProofs` | | theorems about the broker |
| `ProposalPolicy` | `normalizeProposal()` of `policy.js` | pure operators |
| `Review` | `proposals.js`, `routes/api/changes.js`, `public/js/changes.js`, `nox-propose.js`; extends `ProposalPolicy` | specification, properties, mutants |
| `MCReview` | drafts, two situations | instance for TLC |
| `ReviewProofs` | | theorems about proposals, jobs and pages |
| `SignIn` | `routes/auth.js`, `auth.js`, `store.js`, `admin-socket.js` | specification, properties, mutants |
| `MCSignIn` | three authenticators, symmetry | instance for TLC |
| `SignInProofs` | | theorems about sign-in |
| `FleetLink` | `fleet-link.js`, `client.js`, the jobs of `routes/api/changes.js` | specification, properties, mutants |
| `FleetLinkProofs` | | theorems about the link |
| `Incidents` | `db/incidents.js`, `metrics/index.js`, `notifier.js`, `investigator.js` | specification, properties, mutants |
| `MCIncidents` | two causes, two collectors | instance for TLC |
| `IncidentsProofs` | | theorems about incidents and messages |
| `Journal` | `journal.js` | specification, properties, mutants |
| `Probes` | the probe side of `broker.js`, the relay to a node | specification, property, mutant |
| `FleetIngest` | `fleet.js`, `db/fleet.js` | specification, properties, mutant |
| `AgentBridge` | `forge.js`, `routes/api/agent.js`, `agent-client.js`, `ai-models.js`, `server.mjs` | specification, properties, mutant |
| `HostUpdate` | an update in `noxctl`, its job in `integration-config-broker.js`, `updates.js` | specification, properties, mutants |
| `SecurityScan` | `security-scan.sh`, its part of `integration-config-broker.js` | specification, properties, mutant |
| `LivePage` | `app.js`, `ws.js`, the snapshot of `metrics/index.js` | specification, properties, mutant |
| `Discovery` | `privileged-collector.js`, `discovery/store.js`, `setup.js` | specification, properties, mutant |
| `FileIndex` | the index of `privileged-collector.js`, `filesystemBrowse()` | specification, properties, mutant |
| `HostRates` | `cpu`, `network` and `diskIo` of `proc.js`, the fast tick | specification, properties |
| `Services` | the last ten, and `ChangeBroker` again | parts side by side, properties |
| `MCServices` | bounds of each part | instance for TLC |
| `ServicesProofs` | | theorems about these parts |

Operators named `X_Something` that stand before `X` under a comment "Mutant"
are wrong variants of `X`. They are used nowhere: replacing `X` by one of them
breaks the property `PROJECT.json` pairs it with.

`Services` is no composition of parts that interact: they share no state. A
behaviour begins with one `part` and is one of that part alone, while the
variables of the others stand still, so the states of the parts add up instead
of multiplying. Its properties say what each part's module says, for the part
that moves; its fairness is theirs.

### ChangeExecutor

An action is one synchronous stretch of JavaScript: what runs between two
awaits, cut further where a crash would leave something different on disk.
`phase` says where the broker stands, `task` and `current` are `busy`, `memo`
is the record in memory, `record` and `snapshot` are `result.json` and
`before/`, `journal` the executor's own lines, `content` the live file.

- `apply()` is `StartApply`, `WriteRunning`, `JournalStart`, a stage, the post
  steps and the health check, `AutoRollback`, `WriteResult`, `ApplyDone`.
- The stages are `patchApply` (`PatchSnapshot`, `PatchApply`, `PatchHash`),
  `fileApply` (`FileWrite`, `Validated`, `ValidationFailed`, `RestoreThrows`) and
  `commandApply` (`CommandRan`); `StageFails` is their failure.
- `rollback()` is `StartRollback`, then `revert()`, which an automatic rollback
  shares: `FileRevert...`, `Patch...`, `SnapshotRestore`, `Command...`,
  `PostAgain`; then `WriteResult`, `RollbackDone`.
- `before` is history: what the file was when the record of its change was
  first written as "running". `touched` is, too: whether others edited the file
  during the task.
- `AppendFails` and `WriteFails` are exceptions of the disk outside the `try`
  blocks. `Crash` ends the process, in the middle of a record write perhaps,
  which leaves a file that does not parse (`torn`). `Restart`, `RecoverRecord`,
  `RecoverJournal` and `Recovered` are the start of a broker, before it listens.

Abstractions. All proposals concern one file, of two parts: the hunk a patch
touches and the rest. Each part is marked with whoever wrote it last, which is
all the properties tell apart. One file is the hardest case for exactness,
since every change and every foreign edit meets in it. A multi-file patch is
copied, applied and restored file by file in one stretch, or by git, which
takes all files or none. External edits fall between stretches, never inside
one. Scripts succeed or fail and have no effect on the file. Messages to
Telegram, step logs and `publicRecord` are left out. Time does not go back.
Directories without a readable record are not counted by `prune`, which is one
step when it works; when it stops half way (`PruneStops`), by an error it
swallows or by the end of the process, it leaves part of one directory past the
limit and everything newer. A rollback of what is left then finds no copy
(`SnapshotMissing`, `RestoreThrows`).

### ChangeBroker

`conn` holds the open requests with what their bodies asked for; a request is
waiting for its body, for the WebAuthn library, or for the executor. `issued`
is every challenge so far, `pending` what the gate still knows, `failures` what
`locked()` counts, `busy` the executor's lock (all that is needed of it here).
Anyone who can reach the socket may present any nonce with any signature made
so far, or one that verifies for nothing; `Sign` is the operator, who may sign
a challenge at any time. A signature is the nonce it signs, since a challenge
is a hash of purpose, content hash and nonce. `first` and `presentedAt` of a
request and `presented` are history, for the properties only, and so is
`rejections`: every wrong approval there was, with the run of the broker it
was in, while `failures` is what the broker still counts. Whether a rollback is
forced is neither part of what is signed (`broker.js:186`) nor modelled here; in
`ChangeExecutor` it may be.

### Journal

A hash is the sequence of bodies it covers, so hashes do not collide. `Tear`
writes part of a row, or all of it but its newline; the next `append` then runs
into that line, which becomes unreadable, and numbers its row from 1 again.
`ChangeLine`, `LoseLine` and `MoveLine` are edits of the file by someone who
does not recompute hashes; one who does can rewrite everything, as the header
of `journal.js` says of truncation. That a journal which cannot be read for
another reason than that it is not there counts as empty (`journal.js:26`) is
not modelled.

### SignIn

`mem` is `state.json` as the process has it, `disk` the file. A handler runs
without interruption but for the await of the WebAuthn library, and what it
changes it saves several times in a row: `Registered` is `addCredential`,
`consumeEnrollToken`, `audit` and `createSession`, four saves. `Run` takes the
contents at each of them and lets the handler complete, one save throw (its
change then stays in memory, and the next save that works writes it), or the
process die after any of them. `conn` holds the verifications that wait for the
library. `told` is history: what callers were told has happened. `LogoutAgain`
is a logout that finds its session gone from memory, as after one whose save
failed: it saves nothing and is answered ok. `dismissed` are those sessions,
until a restart finds them on disk again.

Abstractions. Rates by address, cookies and the expiry of sessions (a date in
the record) are left out. A rename is atomic and lasting. The library is taken
to accept exactly assertions a device made for that challenge, with a counter
ahead of the one it was given. The await of `generateRegistrationOptions` is
merged with the rest of its handler, which changes nothing before it. The
service is the only writer of the file (the administrator's commands go through
its socket), so `ensureFresh` never reloads the file under a request.

### FleetLink

`hub` are the jobs of the dashboard, each around one `callAndWait`; `jobs` are
those of the node. A call is a message that may arrive late, twice or never
(`Arrives`, `ArrivesAgain`, `CallTimesOut`); a poll is `Poll`, or `PollFails`:
it gets no answer, which is an error, or one that is cut off, which counts as
`{}` (`fleet-link.js:56`) and ends the job as done without a result. The same
may befall the answer to the first call; the hub then polls for a job it has no
id of ("astray"). A task that throws after it began is `TaskThrows`.
`seen` is the node's memory of nonces with `sweep`, and the clocks of hub and
node differ: a call carries any time of `Timestamps`. Of the broker it keeps
what callers see, as `ChangeBroker` establishes it: an approval is good once
(`fresh`), one task runs at a time, refusals may or may not use the approval up.

Abstractions. Signatures hold, so a message is what the hub sent; the address
list, the rate limit and the age of a call end alike, in `TurnedAway`, which may
happen to any call. The time limits of 25 seconds and 20 minutes are steps that
may happen at any moment, counted as faults. Jobs are dropped an hour after they
began, and no job runs or is polled for longer than 20 minutes, so that is left
out. Calls that change nothing (health, history, challenge, probe) are left out.

### Incidents

`alerts` is what the last evaluation found, a level for each cause; `rows` the
table, where an id is a position. `slowTick` is any collector that ends with a
pass: it measures what is its own, evaluates everything and has
`reconcileIncidents` bring the table in line, unless a pass is still telling.
`fastTick` only measures. `passes` are the passes that tell, each the events it
has left, the first of which is to be looked into ("new"), ready, or being sent;
the code's `incidentSyncing` is that there is one. `recent` is `recentlySent`. A
pass opens an incident for every new alert, raises those that got worse and
resolves those that are over; the order of its events is the code's: the alerts,
what is critical first and otherwise as they are evaluated (which is how causes
are numbered), then what recovered, by id. `happened` and `told` are history
since the last start, which is what the properties are about: a restart forgets
what was sent, and events that were not told are lost with it.

Abstractions. A measurement may find any level for the causes of its collector,
so collectors that overlap and measurements that fail need no actions of their
own. What the operator's settings or the quiet hours filter is any event, which
counts as one of the steps by hand. The three attempts of a message are one
action, but for those that were delivered while the answer, or the record of
it, was lost (`Unconfirmed`), after which the message is sent once more. The
agent's report changes nothing but a text: the row it is returned with cannot
have another level, since only passes write that. Occurrences, titles and the
digest are left out.

### Review

`files` are the stored proposals, `rejections` the file of that name: a map from
proposals to when they were rejected, here the order of it, of which the latest
`MAX_REJECTIONS` are kept. `changes` what the broker recorded, `jobs` the
dashboard's; `loads` are the lists being asked for, `list` what each page shows,
`deciding` the decisions it is in the middle of. `save` normalises, numbers and
writes; `proposalList` is the route that joins files, rejections and changes,
newest change first, cut at the length of the history. A page asks and answers
out of step: a load that began before a decision may be shown after it. What
becomes of an approval at the broker is open here (`ChangeBroker` settles it),
and so is what a task ends with. `ProposalPolicy` says which drafts are taken
and in what form, with paths and the ends of a diff as members of small sets;
the stored form is read through the same operator, and `Outgrown` names the two
forms that do not pass it: a path that came down to the root, and a diff of just
the allowed length that was given its last newline after it was measured. The
read stops at 2 MB (`changes.js:110`), which is more than the broker takes in
(`broker.js:19`), and is left out.

### Probes

`spent` and `recent` are `probeTimes` and the memory of repetitions, for the
broker of the hub and that of a node: sets of probes, each with its number and
its time, since the code only counts those that are recent enough; `probe` is
the agent's request at the hub, `relayProbe` and `Relayed` the same request at a
node, where everything is checked again. Both brokers pay for a relayed probe,
the hub's before it is sent. `ran` is history. `Lost` is a relay that fails,
after it was paid for.

### FleetIngest

`sent` and `waiting` are the pushes of the node, `pushes` those on the network,
`replies` the answers, `nonces` and `bucket` the hub's memory, `row` what it
shows of the node, `metrics` the history it stores. Time is the hub's; `skew` is
what the node's clock is ahead. `Network` repeats and loses pushes, which arrive
at any time. `Restart` empties `nonces` and `bucket`. A row of `metrics` is that
of its time, so that one of the same time is replaced, as the table's key has
it; `stored` and `restarts` are history. The removal of old rows is left out.

### AgentBridge

`messages`, `chat` and `busy` are a page; `chats` the storage that the pages of
one browser share; `jobs` and `calls` the web service; `queue` the bridge. A task
says which of its `Candidates` and which key it is at, and the head of the queue
goes on from one to the next (`Further`), as the two loops of `execute` do.
`attempts` is history: per question, the model that was asked for and the pair
that was tried, in order, until the question is answered. `Answered`, `GivesUp`,
`HubRestart` and `BridgeRestart` race. The branch for a bridge without any key
is in the model and is not taken in the run, which has one key.

### HostUpdate and SecurityScan

`app`, `deps` and `services` are the release that the files, the installed
packages and the running services are of; `units` the transient units and where
in the script each one is; `job` the job file. Each step of the script is an
action that may meet one of `Faults`. `late` is `systemd-run` reporting failure
although the unit starts, `torn` a request that meets the moment in which the
job file is empty. `stalled` is a command of the script that waits for the
network for ever (`noxctl:314-324` gives `curl` no time limit, nor does the unit
have one), `killed` a unit that is, `died` the agent service ending before
`systemd-run` has reached the manager, `crash` the host going down. `found` and
`seen` are history, of the update that was last begun with none under way: which
release it found installed and running, and what failed since. In the scan, `scan` is where the script stands ("untrapped":
after the status says running and before the trap is set), `force` the marker,
`asked` the history of requests, and `unclean` that the last scan was ended
where nothing writes the status.

### LivePage

`wire` are the messages on the socket, `polls` the polls under way, `opening`
the selections whose figures are being loaded, `intervals` the timers that are
set. `selectFleetNode` awaits before it stores its timer, so a later selection
can overwrite the handle of an earlier one, which then goes on for ever. It asks
for nothing any more, but draws (`Abandoned`): `scope` says whose projects and
deployments are drawn, `activeFleetSafe` whose the page had from a node last,
`hubLoads` that those of the hub are on their way. Overlapping requests for the
same count as one. A snapshot is a version.

### Discovery and FileIndex

Targets stand for ids, and a set of roots for the targets under it. A container
that is made anew has another id (`scanner.js:29`), so for the model it is
another target. `page` is the setup page with what it loaded, which it saves as a
whole; while a rescan is waited for, the steps of the page (`setup.js:22`, `:25`)
are left out. `owed`,
`excluded` and `dropped` are history. The index is a walk with a stack that
stops at its limit; paths are sequences of names, so one root can lie inside
another, and a name is a number, which gives its place in the alphabet. The order
in which children are pushed is chosen by what it is, not by a sort. `Meant` is
what a walk without a limit finds, which is nothing below a directory that is
excluded or cannot be read or lies as deep as the walk goes, and `Missing` what
of it is not indexed.

### HostRates

`reads` is what a tick has read and not looked at: ticks overlap, and may look
in another order than they read. A network interface and a disk are treated
alike by two functions and share nothing, so a behaviour has one `device`; the
core times are the file "cpu", of which only matters whether it was empty.

## 3. What is checked

| Run | Instance | Properties |
|---|---|---|
| `executor` | 4 kinds of proposal, 2 tasks over 2 seconds, 1 edit, 1 crash, 1 disk failure, `KEEP` 1 | `TypeOK`, `UndoneIsUndone`, `OneTaskAtATime`, `JournalNeverAhead`, `WriteAheadJournal`, `ImplementsLifecycle` |
| `executor_stacked` | 3 proposals, 3 tasks, 1 edit, 1 crash, `KEEP` 1, fairness | `RollbackExact`, `SnapshotKept`, `ForeignEditsSurvive`, `AppliedStays`, `TaskEnds` |
| `executor_cut_short` | one change, a crash in its rollback | `CutShortIsReported` is violated |
| `broker` | 2 connections, 2 hashes, 3 challenges, `MAX_PENDING` 1, 1 wrong guess, 1 restart, 1 change of the flag | `TypeOK`, `RunsAreApproved`, `ChallengeSurvives` |
| `sign_in` | 2 verifications at once, 3 devices (2 with copies of a key), 1 link, 2 printings, 3 challenges, 3 sessions, 1 failing save, 1 crash | `EndedStaysEnded`, `NothingLost`, `SessionsHold` |
| `sign_in_one_link` | two registrations begun with one link | `LinksGiveOneKey` is violated |
| `fleet_link` | one approval sent twice, 1 loss, cut answer, throwing task or time limit, 1 restart of any service, clocks one skew apart, fairness | `TypeOK`, `AcceptedOnce`, `ReportsAreTrue`, `JobsEnd` |
| `incidents` | 2 causes of 2 collectors, 3 changes of level, 2 instants, a grace and a cooldown of one, 1 step by hand, 1 crash or failure, fairness | `IncidentsHold`, `MessagesHold`, `AlertsHeard` |
| `review` | 4 drafts; a directory of 2 over 3 instants with 4 rejections, or a page with 2 decisions and 2 loads under way and 1 fault; fairness | `OfferedIffWaiting`, `ResultsHold`, `RefusedOnlyWhenFull`, `PageCatchesUp` |
| `services` | eleven parts, see below; fairness | the eleven properties below |
| `update_failed` | the registry is away during an update | `FailedUpdateRestores` is violated |
| `exclusions` | two saves and a rescan, nothing fails | `ExclusionsSurviveRescans` is violated |

The run `services`, with the bounds that `MCServices` gives to each part:

| Part | Instance | Property of `Services` |
|---|---|---|
| an update | 2 updates, 2 of thirteen kinds of faults | `StatusIsTrue`, `WhatBeginsEnds` |
| the scan | 5 days, a weekly scan every second, 2 wishes, 1 fault | `StatusIsTrue`, `ScansHaveACause` |
| the agent | 2 pages, 2 questions, 2 chats, 2 models, 1 fault | `AnswersFollowQuestions`, `WhatBeginsEnds` |
| telemetry | 2 pushes, a clock ahead, 4 instants, one push a minute, 2 faults | `PushesAreTrue` |
| the page | 2 nodes, 2 selections, 2 snapshots, 1 fault | `FiguresAreTrue`, `WhatBeginsEnds` |
| probes | 2 commands, 3 requests, a budget of 2 over 3 instants, 1 fault | `ProbesAreLimited` |
| discovery | 2 targets, 2 scans, 2 saves, 1 change of the host, 1 fault | `DiscoveryKeepsWishes` |
| the index | any file system of at most 6 paths with 3 roots, a limit of 5 | `IndexIsComplete` |
| rates | 2 ticks at once, a unit of traffic, 1 fault | `FiguresAreTrue`, `WhatBeginsEnds` |
| the journal | 3 appends, 1 torn write, 2 edits | `JournalHolds` |
| the broker | 2 requests, 4 rejections over 3 instants, limit 2, a restart | `GuessesBounded`, `WhatBeginsEnds` |

Why the bounds are enough. Two tasks are the least for a rollback, a reapply or
a stacked change, and three for a rollback under a later change, with
`KEEP = 1` so that the last one prunes. One edit and one crash can fall at every
point of each of these. Two seconds let pruning order matter. For the broker,
two connections race on the lock, the gate and the executor; three challenges
with room for one expire, are evicted and are presented in every order
(`FewChallenges`: a third challenge only in behaviours without a restart or a
change of the flag); a rejection limit of two with four rejections passes the
lock, waits out its window and passes it again. Connections and hashes are
interchangeable, as are requests and the two copies of a key in sign-in. In the
journal, three rows put a damaged line first, in the middle and last. In
sign-in, three challenges let a key be registered and two copies of it sign in
at once; one failing save and one crash can follow each other at any save. On
the link, two calls let an approval be repeated, and three units of time let a
nonce be forgotten while the call it came with may still be timely, if `sweep`
were wrong. For incidents, three changes let a cause come, go and come again, or
get worse while another one is told; within one instant a message is due again
during its cooldown, at the next the cooldown and the grace time are over; the
step by hand reopens or closes an incident in between. For proposals, four
accepted over three instants fill a directory of two, which empties, and more
rejections than are remembered; two decisions and two loads on a page overtake
each other in every order. A push can be overtaken by the next, and either
be repeated at the edge of both windows, or after a restart of the hub. Two faults in an update break the way back
from the first. With two selections and two timers, an abandoned timer meets
the node selected after it.

Deadlock is not checked, since a run stops when its bounds are spent.

### Disagreements with the documentation

- `executor_cut_short`: recovery reports interrupted applies but not
  interrupted rollbacks (`executor.js:85-86` against `:93`).
- `sign_in_one_link`: two registrations that began with a link both end well
  (`routes/auth.js:97`, where the link is looked up before the await and not
  again, against "one-time" in `README.md:68` and "одноразовая" in
  `bin/enroll.js:79`).
- `update_failed`: an update that fails since the registry of packages is away
  cannot be taken back, since `npm ci` is run on the way back too
  (`bin/noxctl:358` against `docs/OPERATIONS.md:45`).
- `exclusions`: a rescan sends the settings as the page loaded them, and with
  that throws away exclusions saved since (`public/setup.js:22` against
  `README.md:120`).

Two more were met while modelling and have no run. Change ids repeat within a
second (`executor.js:308`): with `SameSecond = TRUE`, a proposal applied twice
in a second replaces the record of the first apply, and neither `AppliedStays`
nor `ImplementsLifecycle` holds; every run has `SameSecond = FALSE`, and three
theorems assume it. And the flag
is looked at once, before a request is read (`broker.js:137`), so a request that
is past it goes on after `noxctl changes disable`, which `docs/CHANGES.md:99`
says works immediately.

The properties also say what they leave out, each in its comment; it is what the
code does and nobody would wish for.

- The job of an update says running for ever, and no update can be started, after
  a crash of the host or the unit, the end of the agent service before the unit
  is started, or a download that stalls (`UpdateJobsEnd`). Updates that overlap
  spoil what the job says of these updates (`UpdateIsTrue`), not of later ones.
- A scan that is killed where nothing writes the status leaves it running until
  the next scan begins, and no longer (`ScanStatusIsTrue`).
- If /proc/stat cannot be read the first time, the fast collector never updates
  the snapshot again (`FiguresComeBack`).
- A timer of a node that was left draws the projects and deployments of the node
  that answered last over those of the hub, at every tick (`UpToDate`,
  `app.js:348`).
- The proposals of both forms of `Outgrown` are accepted, take a place for a day
  and are never shown (`OfferedIffWaiting`).
- A logout that is asked for again after its save failed is answered ok without a
  save, and a restart that finds the session on disk brings it back
  (`EndedStaysEnded`).
- A job that is done without a result says nothing about the change
  (`ReportsAreTrue`).
- A push may be stored twice across a restart of the hub (`StoredOnce`), an older
  snapshot may replace a newer one as long as it is recent (`OnlineMeansRecent`),
  and a row be replaced by one of the same millisecond (`PushIsStored`).
- The limits on guesses and on probes are counted in memory, so that each run of
  a broker counts anew (`GuessesBounded`, `ProbesAreLimited`).
- An alert that comes and goes while passes are dropped is never recorded
  (`AlertsHeard` speaks of those that stay).

### Fairness

`FairSpec` of the executor assumes that a task goes on (`WF(BrokerStep)`):
`runScript` kills a script at its time limit, `runGit` after a minute,
`checkHealth` has a number of attempts and a limit for each. `WF(Restart)`: the
unit says `Restart=on-failure`; a broker stopped on purpose counts as started
again some day. `FairSpec` of the broker assumes that each open request goes on
(`WF(Serve(c))`): the broker sets no limit on a body (`requestTimeout = 0`), but
its only client sends the body at once and destroys a request that takes too
long (`client.js`); verification is a computation; a task ends, by `TaskEnds`.
`FairSpec` of the link assumes that the broker answers (`WF(Serve)`, which is
`TaskEnds` and `EveryRequestAnswered` of the other two modules), that the hub
keeps polling and that a call which is not lost arrives (`WF(Answer(c))`);
`JobsEnd` lets go once anything was lost. `FairSpec` of the incidents assumes that
a collector with a pass runs again and again (`WF(slowTick)`, a timer), and that
telling goes on (`WF(NotifyStep)`): a message has three attempts of at most ten
seconds each, the agent's client gives up after fifteen minutes.
`Fairness` of the review assumes that lists are answered or fail (`client.js` has
time limits), that a page that is looked at has its timer, that a decision moves
on (the browser gives up on a key, the page on a job) and that the broker
answers. In `Services` each part has the fairness of its module: the steps of
a unit that has not stalled (`WF(UnitStep)`: systemd runs it to its end), the
bridge (every attempt
has a time limit), answers that arrive and pages that poll; the timers, the
network and the socket of the live page, where a socket that is gone without a
word is left out, since the page sends nothing by which it could tell; the timer
of the fast collector and the files it reads; each request at the broker.
What must happen again and again is stated as `[]<>`, also where it is an answer
to something, so that properties of several parts fit in one run.
No fairness is assumed of clients, the operator, the clock or faults.

## 4. What is proved

Each theorem holds for every value of the constants that meets the named
assumptions (`ExecutorAssumption`, `NobodyAssumption`, `BrokerAssumption`,
`LinkAssumption`, `SignInAssumption`, `IncidentsAssumption`, `ReviewAssumption`,
and `ServicesAssumption`, which is that of each of its parts): any set of
proposals, keys, causes or targets, any number of connections, calls and pages,
all limits and bounds. Three theorems assume `~SameSecond` besides, without
which what they say is false (section 3).

In each proof the type invariant and the property are made inductive by what
the entries below say; section by section a module has the facts about its
operators, one lemma for each invariant with a step for each action, and the
theorem.

Executor (`ChangeExecutorProofs`):

- `TypeCorrect`: `TypeOK`. Typing alone is not inductive: actions write
  `[record EXCEPT ![current] = memo]`, so `current` must be a change in every
  phase that has one. `PhaseInv` says which phases do, and what task is under
  way in them; `TypeInv` is the two together.
- `Brackets`, `WriteAhead`: `JournalBrackets` and `WriteAheadJournal`. The
  strengthening `AnnouncedInv` says that the last journal line is the opening
  line of the task in every phase after it was written. From it an action that
  writes `content` is covered, and a done line follows its own start line.
- `NothingLeftRunning`: `NoOrphanRunning`, from an invariant that says which
  record may be "running" in each phase.
- `TasksNeverOverlap`: `OneTaskAtATime`, which is `Brackets` and
  `NothingLeftRunning` together.
- `SnapshotsKept`: `SnapshotKept`, with the same claim for the record in memory,
  since the snapshot is written before the record that needs it. Pruning that
  stops half way touches only what is past the limit, and what is not past it was
  not before: directories are only added newest, or removed from the oldest on.

Broker (`ChangeBrokerProofs`):

- `TypeCorrect`: `TypeOK`, with `Reserved`: the failures to come of requests
  under way fit in the bound on rejections.
- `RunsSigned`, `UsedOnce`, `FreshOnly`: an approval invariant about requests
  being verified as well as running, and that no nonce still pending was ever
  presented.
- `RunsApproved`: `RunsAreApproved`, which is the three together.
- `GuessingBounded`: `GuessesBounded`, which counts the history of rejections.
  `GuessInv`: what the broker counts of the last window plus requests under
  verification never exceeds the limit less one plus the connections; the sum is
  needed, since a request leaves one side as it enters the other. `HistoryInv`:
  what the broker forgot, by sweeping, can be in no window with a rejection to
  come, so that a window of the history held no more than the broker counted when
  its last rejection came.
- `MemoryBounded`, `ChallengesSurvive`: the bound and the eviction rule of
  `sweep`.

Fleet link (`FleetLinkProofs`):

- `TypeCorrect`: `TypeOK`.
- `NeverAcceptedTwice`: `AcceptedOnce`. A call that was accepted is remembered
  with a time of arrival no older than its timestamp allows, or is stale by
  now: `sweep` forgets after twice the skew, and by then it cannot be timely.
- `ReportsHold`: `ReportsAreTrue`, by what is known at each place an outcome
  passes: identity of jobs in one life of the node, then the node's job, then
  the job of the dashboard.

Executor, outcomes (`ChangeExecutorOutcomeProofs`):

- `FailedAppliesAreUndone`: `UndoneIsUndone`. `ApplyInv` says what the file is in
  each phase of an apply that nobody disturbs: as it was, or exactly what the
  stage makes of it. It rests on `FaithfulInv` (what the task remembers of the
  file, in memory, in the record and in the copy, is true of `before`), on
  `SoundInv` (the shape of files), `KindInv` (each phase belongs to one kind of
  proposal) and `RunningInv` (the record of an apply says so while it runs).
- `RollbacksAreExact`: `RollbackExact`, from the same and `RollbackInv`: an
  unforced rollback finds what its apply left, so reversing the hunk gives the
  file back; a forced one may leave what later changes wrote in the rest.
- `ForeignEditsKept`: `ForeignEditsSurvive`.
- `JournalNotAhead`: `JournalNeverAhead`, if `~SameSecond`. A line that ends a
  task and is the last about its change agrees with the record (`AheadInv`);
  `FreshInv` says that no line is about a change that starts.
- `AppliedForGood`: `AppliedStays`, if `~SameSecond`.
- `LifecycleImplemented`: `ImplementsLifecycle`, if `~SameSecond`. Each step is
  one of `ChangeLifecycle` or a stutter; `OutcomeInv` says with which status a
  task may end, and that a record under rollback still says "applied".

Sign-in (`SignInProofs`):

- `EndedForGood`, `AnswersKept`, `SessionsAreGood`: `EndedStaysEnded`,
  `NothingLost`, `SessionsHold`. The invariant claims the same of the file in
  memory and of that on disk, since either may be behind the other after a save
  that failed: `Sound` says of a file that what callers were told has
  ended is not in it, what they were told is there is, and that every session
  has a key. Single use rests on `ChallengesSound` and `RequestsSound`: a
  challenge is waiting, or with one request, or has led to one sign-in.

Incidents (`IncidentsProofs`):

- `OneIncident`: `IncidentsHold`. One open incident per cause is not inductive:
  reopening by hand could make a second. `IncidentInv` adds that only the latest
  of a cause is not resolved, unless an older one was reopened by hand.
- `MessagesInOrder`: `MessagesHold`. `MessageInv` says that there is one pass,
  that its events continue those that were told, and that what was told is
  remembered with a time at least as late.

Proposals and review (`ReviewProofs`):

- `ReviewOffers`: `OfferedIffWaiting`. The hard part is that a rejection is not
  forgotten while its proposal is there, although only `MAX_REJECTIONS` are
  kept. Those that are later than that of a file still there are about files
  that were alive with it, fewer than `MAX_PENDING` that are older and fewer
  that are newer, for files go by age (`StoreInv`); `ReviewAssumption` says that
  as many are remembered, as the code's numbers do. `StoredForm`, a lemma about
  `ProposalPolicy`, says that what was accepted is accepted again in its stored
  form, unless that is one of the two of `Outgrown`.
- `ReviewTells`: `ResultsHold`. A record that says "applied" or "rolled_back" is
  not written over by another change, so what a job answered stays true while
  pages poll late (`TasksInv`).
- `ReviewRefuses`: `RefusedOnlyWhenFull`.

The parts of `Services` (`ServicesProofs`), whose invariant is that of the part
that moves:

- `StatusStaysTrue`: `StatusIsTrue`. For an update, `UnitWorks` says what is
  installed at each step of the script and `JobSettled` what a job that ended
  says: of the way back only if nothing failed in this update that cannot be
  undone (`Undoable`), and of one unit only if none overlapped with it
  (`OneUnit`). For a scan, `ScanInv`. `ScansHaveTheirCause` is `ScansHaveACause`: the marker is only
  there for a request no scan has come of.
- `PushesStayTrue`: `PushesAreTrue`. What was stored since the last restart is
  still known by its nonce, or too old to be taken again (`Remembered`); what was
  stored before it has the restart between.
- `FiguresStayTrue`: `FiguresAreTrue`. Of the page, that nothing is ever under way
  for the hub itself, and that what it shows of a node came with the node's
  projects. Of the rates, that some place in the traffic can be given
  to each reading, in the order they will be looked at, so that no figure is
  more than what passed between the places.
- `ProbesStayLimited`: `ProbesAreLimited`. What a host ran lately it has counted
  in both memories, so what it runs next is counted with all of that.
- `WishesAreKept`: `DiscoveryKeepsWishes`. What is off is in the settings, and on
  the page that was opened over them.
- `AnswersStayInPlace`: `AnswersFollowQuestions`. What a page waits for is the
  last message it shows (`AgentPageInv`), so the answer comes right after it, and
  a chat that is cut at the front keeps the pair or its second half. A question
  is in the queue, or replied to, or has no attempt yet, and only the head of the
  queue has any (`AgentBridgeInv`); a task has tried exactly the pairs before the
  one it is at, each once (`TaskSound`).
- `IndexStaysComplete`: `IndexIsComplete`. The stack goes down in the alphabet,
  where each two of its paths part and none lies below another, and all of it
  comes after what is indexed; whatever is to be found is indexed or lies below
  something on the stack, and the parent of each is indexed (`IndexState`). That
  children are pushed in order rests on `DecreasingOrder`: a finite set with
  different numbers can be gone through downwards.
- `GuessesStayBounded`: `GuessesBounded`, by the invariant of `ChangeBrokerProofs`.
- `JournalStaysTrue`: `JournalHolds`. The hashes in the file stand for rows that
  were written, whatever was torn or edited since.

Only model-checked, and for good, is everything under fairness (`TaskEnds`,
`JobsEnd`, `AlertsHeard`, `PageCatchesUp`, `WhatBeginsEnds`), which is out of the
prover's reach.

## 5. What is not modelled

Each part has its status and the reason in `PROJECT.json`. Left out for good:

- text matching: what counts as dangerous, which commands are reads, redaction,
  diff statistics; what `policy.js` accepts and stores is modelled;
- the parsing of command output (Docker, PM2, systemd, fail2ban, certificates),
  what a scan of the host recognises, and the graph drawn from it: input and
  output without a protocol;
- rendering, Express wiring, headers, rate limits by address, migrations;
- the installation scripts, which root runs by hand, apart from an update;
- loss of power: a rename is taken to be lasting, although `store.js:95` writes
  without `fsync`, so that the file may be empty afterwards;
- sizes: the bridge takes bodies of 32768 bytes while its own answers may be
  70000 characters long and come back to it as history.

## 6. Plan

To prove: lemmas about `ProposalPolicy` on its own.
