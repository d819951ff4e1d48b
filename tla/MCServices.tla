----------------------------- MODULE MCServices -----------------------------
(* The bounds of each part.                                                *)
EXTENDS Services

\* Everything that can fail, two things at a time; two updates.
MCUpdates == [
  MaxFaults |-> 2, MaxUnits |-> 2,
  Faults |-> {"network", "bundle", "disk", "registry", "restart", "unhealthy", "refused", "late",
              "torn", "stalled", "died", "killed", "crash"}]

\* Five days, a weekly scan every second; two wishes of the operator.
MCScans == [Week |-> 2, MaxDay |-> 4, MaxRequests |-> 2, MaxFaults |-> 1]

\* Two pages, two questions, two chats; two models to fall back over.
MCAgent == [
  Pages |-> {"p1", "p2"}, models |-> <<"m1", "m2">>, keys |-> <<"k1">>, WINDOW |-> 3,
  MAX_CHATS |-> 2, MaxQuestions |-> 2, MaxChats |-> 2, MaxFaults |-> 1]

\* Two pushes, of a node whose clock is ahead, on a network that repeats, delays or loses one,
\* to a hub that is started again.
MCFleet == [
  WINDOW |-> 1, NONCE_AGE |-> 2, LIMIT |-> 1, MINUTE |-> 1, OFFLINE |-> 0, Skews |-> {1},
  MaxTime |-> 3, MaxPushes |-> 2, MaxFaults |-> 2]

\* Two nodes, two selections, two snapshots; the socket is opened again once.
MCPage == [
  Nodes |-> {"a", "b"}, RETRIES |-> 1, MaxVersion |-> 2, MaxSelections |-> 2, MaxWire |-> 1,
  MaxFaults |-> 1]

\* Two commands, three requests; a budget of two, no repetition, and a memory of one command.
MCProbes == [
  Commands |-> {"c", "d"}, BUDGET_WINDOW |-> 1, BUDGET_LIMIT |-> 2, REPEAT_WINDOW |-> 1,
  REPEAT_LIMIT |-> 1, MAX_KEYS |-> 1, MaxTime |-> 2, MaxRequests |-> 3, MaxFaults |-> 1]

\* Two targets, one of them under the narrower roots; two scans, two saves.
MCDiscovery == [
  Targets |-> {"t", "u"}, Automatic |-> {"t", "u"}, Narrow |-> {"t"}, MaxScans |-> 2,
  MaxSaves |-> 2, MaxChanges |-> 1, MaxFaults |-> 1]

\* Three roots, one inside another, with two levels below; an index of five.
MCIndex == [
  Paths |-> {<<1>>, <<2>>, <<1, 1>>, <<1, 2>>, <<1, 1, 1>>, <<1, 1, 2>>},
  roots |-> <<<<1>>, <<2>>, <<1, 1>>>>, FS_MAX_ENTRIES |-> 5, DEPTH |-> 2]

\* Two ticks at once, a unit of traffic, and a file that cannot be read or a device that goes away.
MCRates == [Ticks |-> {1, 2}, MaxTraffic |-> 1, MaxFaults |-> 1]

\* Three appends, a write that stops short, a line lost, changed or moved.
MCJournal == [Entries |-> {"e1", "e2"}, MaxAppends |-> 3, MaxTears |-> 1, MaxDamage |-> 2]

\* Two requests at the broker's socket; four wrong guesses and a restart.
MCBroker == [
  Conns |-> {"c1", "c2"}, Hashes |-> {"h1"}, Nobody |-> "nobody", MAX_PENDING |-> 1, Ttl |-> 1,
  FAILURE_WINDOW |-> 1, FAILURE_LIMIT |-> 2, MaxTime |-> 2, MaxNonces |-> 1, MaxFailed |-> 4,
  MaxRestarts |-> 1, MaxToggles |-> 0]
=============================================================================
