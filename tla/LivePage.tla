------------------------------ MODULE LivePage ------------------------------
(***************************************************************************)
(* The dashboard's page (public/app.js).  It shows the hub's own snapshots,*)
(* which the web service sends over a socket at every tick of its          *)
(* collectors (src/ws.js, src/metrics/index.js), or those of a node that   *)
(* the operator selects, which it asks for every ten seconds.  When the    *)
(* socket is gone it polls.                                                *)
(*                                                                         *)
(* A snapshot is known by its version, a selection by its number.          *)
(***************************************************************************)
EXTENDS Naturals, FiniteSets, Sequences

CONSTANTS
  Nodes,       \* the other nodes
  RETRIES,     \* times the socket is opened again in a row (3)
  MaxVersion, MaxSelections, MaxWire, MaxFaults   \* bounds

LivePageAssumption ==
  /\ Nodes \cap {"local", "none", "down", "live", "polling", "loading"} = {}
  /\ {RETRIES, MaxVersion, MaxSelections, MaxWire, MaxFaults} \subseteq Nat

VARIABLES
  version,     \* the web service: the version of its snapshot
  session,     \* the session of the page is valid
  at,          \* the page the browser is at
  socket,      \* the page's socket
  wire,        \* what the socket carries to the page
  retry, reconnectTimer, pollTimer,
  polls,       \* answers to polls on their way: a version, or 0 for "no session"
  localLatest, \* the version of the hub's snapshot that the page has, 0 for none
  latest,      \* what the page shows: the node, and the version if it is the hub
  activeFleetNode,
  conn,        \* what it says of the connection
  selections,  \* selections so far
  opening,     \* selections under way: [n, node, step]
  intervals,   \* timers that are set: [n, node]
  fleetRefreshTimer,  \* the one the page knows of, 0 for none
  refreshing,  \* nodes that a timer has asked for
  activeFleetSafe,    \* whose projects and deployments it has, besides the hub's
  scope,       \* whose are drawn
  hubLoads,    \* those of the hub are asked for
  faults

socketVars == <<socket, wire, retry, reconnectTimer, pollTimer>>
linkVars == <<socketVars, polls>>
viewVars == <<localLatest, latest, conn>>
nodeVars == <<activeFleetNode, selections, opening, intervals, fleetRefreshTimer>>
scopeVars == <<refreshing, activeFleetSafe, scope, hubLoads>>
vars == <<version, session, at, linkVars, viewVars, nodeVars, scopeVars, faults>>

Local == "local"
Nothing == [node |-> Local, version |-> 0]
Hub(v) == [node |-> Local, version |-> v]

(* bootstrap: the page was served with a session and opens the socket.     *)
Init ==
  /\ version = 1 /\ session = TRUE /\ at = "dashboard"
  /\ socket = "connecting" /\ wire = <<>> /\ retry = 0
  /\ reconnectTimer = FALSE /\ pollTimer = FALSE /\ polls = {}
  /\ localLatest \in {0, 1} /\ latest = Hub(localLatest) /\ conn = "down"
  /\ activeFleetNode = Local /\ selections = 0
  /\ opening = {} /\ intervals = {} /\ fleetRefreshTimer = 0
  /\ refreshing = {} /\ activeFleetSafe = "none" /\ scope = Local /\ hubLoads = TRUE
  /\ faults = 0

Fault == faults < MaxFaults /\ faults' = faults + 1
Here == at = "dashboard"

(* Everything of the page goes with it.                                    *)
ToLogin ==
  /\ at' = "login"
  /\ socket' = "closed" /\ wire' = <<>> /\ reconnectTimer' = FALSE /\ pollTimer' = FALSE /\ polls' = {}
  /\ opening' = {} /\ intervals' = {} /\ fleetRefreshTimer' = 0 /\ refreshing' = {} /\ hubLoads' = FALSE
  /\ UNCHANGED <<version, session, retry, viewVars, activeFleetNode, selections, activeFleetSafe, scope>>

-----------------------------------------------------------------------------
(* The web service.                                                        *)

(* A tick goes to every socket that is open; one whose session has ended is*)
(* closed with a code that sends the page to the login.                    *)
Tick ==
  /\ version' = IF version < MaxVersion THEN version + 1 ELSE version
  /\ wire' = IF socket # "open" \/ Len(wire) >= MaxWire \/ ~Here THEN wire
             ELSE Append(wire, IF session THEN version' ELSE 0)
  /\ UNCHANGED <<session, at, socket, retry, reconnectTimer, pollTimer, polls, viewVars, nodeVars, scopeVars, faults>>

Expires ==
  /\ session /\ session' = FALSE
  /\ UNCHANGED <<version, at, linkVars, viewVars, nodeVars, scopeVars, faults>>

-----------------------------------------------------------------------------
(* The socket.                                                             *)

(* The session is looked at when the socket is opened; a snapshot follows. *)
Opens ==
  /\ Here /\ socket = "connecting" /\ session
  /\ socket' = "open" /\ wire' = <<version>>
  /\ retry' = 0 /\ reconnectTimer' = FALSE /\ pollTimer' = FALSE
  /\ conn' = IF activeFleetNode = Local THEN "live" ELSE conn
  /\ UNCHANGED <<version, session, at, polls, localLatest, latest, nodeVars, scopeVars, faults>>

(* Polling begins; after three attempts the socket is given up for good.   *)
onclose ==
  /\ socket' = "closed" /\ wire' = <<>> /\ pollTimer' = TRUE
  /\ retry' = IF retry <= RETRIES THEN retry + 1 ELSE retry
  /\ IF retry' <= RETRIES
     THEN reconnectTimer' = TRUE /\ conn' = "down"
     ELSE conn' = "polling" /\ UNCHANGED reconnectTimer
  /\ UNCHANGED <<version, session, at, polls, localLatest, latest, nodeVars, scopeVars>>

(* It cannot be opened, it breaks, or the heartbeat of the web service ends*)
(* it.                                                                     *)
Breaks == Here /\ socket \in {"connecting", "open"} /\ Fault /\ onclose

Refused == Here /\ socket = "connecting" /\ ~session /\ onclose /\ UNCHANGED faults

Reconnect ==
  /\ Here /\ reconnectTimer
  /\ reconnectTimer' = FALSE /\ socket' = "connecting"
  /\ UNCHANGED <<version, session, at, wire, retry, pollTimer, polls, viewVars, nodeVars, scopeVars, faults>>

Show(v, how) ==
  /\ localLatest' = v
  /\ IF activeFleetNode = Local THEN latest' = Hub(v) /\ conn' = how ELSE UNCHANGED <<latest, conn>>

onmessage ==
  /\ Here /\ wire # <<>>
  /\ IF Head(wire) = 0 THEN ToLogin
     ELSE /\ wire' = Tail(wire)
          /\ Show(Head(wire), conn)
          /\ UNCHANGED <<version, session, at, socket, retry, reconnectTimer, pollTimer, polls, nodeVars, scopeVars>>
  /\ UNCHANGED faults

-----------------------------------------------------------------------------
(* Polling.                                                                *)

(* Answers that say the same count as one.                                 *)
Poll ==
  /\ Here /\ pollTimer
  /\ polls' = polls \cup {IF session THEN version ELSE 0}
  /\ UNCHANGED <<version, session, at, socketVars, viewVars, nodeVars, scopeVars, faults>>

(* An answer may come after the socket is back, and after a later one.     *)
PollAnswers(v) ==
  /\ Here /\ v \in polls
  /\ IF v = 0 THEN ToLogin
     ELSE /\ polls' = polls \ {v}
          /\ Show(v, "polling")
          /\ UNCHANGED <<version, session, at, socketVars, nodeVars, scopeVars>>
  /\ UNCHANGED faults

PollFails(v) ==
  /\ Here /\ v \in polls /\ polls' = polls \ {v}
  /\ Fault
  /\ conn' = IF activeFleetNode = Local THEN "down" ELSE conn
  /\ UNCHANGED <<version, session, at, socketVars, localLatest, latest, nodeVars, scopeVars>>

-----------------------------------------------------------------------------
(* The projects and deployments of the hub: asked for when the hub is      *)
(* selected and now and then while it is, and drawn when they come,        *)
(* whatever is selected then.  Requests that overlap count as one, and an  *)
(* error is drawn in the place of what was asked for.                      *)

HubAsked ==
  /\ Here /\ activeFleetNode = Local /\ hubLoads' = TRUE
  /\ UNCHANGED <<version, session, at, linkVars, viewVars, nodeVars, refreshing, activeFleetSafe, scope, faults>>

HubDrawn ==
  /\ session /\ hubLoads /\ hubLoads' = FALSE
  /\ scope' = Local
  /\ UNCHANGED <<version, session, at, linkVars, viewVars, nodeVars, refreshing, activeFleetSafe, faults>>

-----------------------------------------------------------------------------
(* Another node.                                                           *)

(* Mutant: what a node sent is shown even if another was selected since.   *)
refreshFleetNode_Late(node, arrives) ==
  IF arrives THEN latest' = [node |-> node, version |-> 0] /\ conn' = node /\ activeFleetSafe' = node
  ELSE UNCHANGED <<latest, activeFleetSafe>> /\ conn' = "down"

(* Nothing is done for a node that is no longer the selected one.          *)
refreshFleetNode(node, arrives) ==
  CASE node # activeFleetNode -> UNCHANGED <<latest, conn, activeFleetSafe>>
    [] node = activeFleetNode /\ arrives ->
         latest' = [node |-> node, version |-> 0] /\ conn' = node /\ activeFleetSafe' = node
    [] OTHER -> UNCHANGED <<latest, activeFleetSafe>> /\ conn' = "down"

(* What a node sent last is drawn, without a look at what is selected.     *)
renderRemoteScope == scope' = activeFleetSafe'

Left == UNCHANGED <<version, session, at, linkVars, localLatest>>

(* The timer that the page knows of is stopped; what is under way is not.  *)
selectFleetNode(node) ==
  /\ Here /\ node # activeFleetNode /\ selections < MaxSelections
  /\ selections' = selections + 1 /\ activeFleetNode' = node
  /\ intervals' = {i \in intervals : i.n # fleetRefreshTimer} /\ fleetRefreshTimer' = 0
  /\ IF node = Local
     THEN /\ latest' = Hub(localLatest) /\ hubLoads' = TRUE
          /\ conn' = IF socket = "open" THEN "live" ELSE "polling"
          /\ UNCHANGED opening
     ELSE opening' = opening \cup {[n |-> selections', node |-> node, step |-> "asked"]}
          /\ conn' = "loading" /\ UNCHANGED <<latest, hubLoads>>
  /\ Left /\ UNCHANGED <<refreshing, activeFleetSafe, scope, faults>>

(* Whatever the page asks for without a session sends it to the login.     *)
Unauthorized ==
  /\ Here /\ ~session
  /\ opening # {} \/ refreshing # {} \/ hubLoads \/ activeFleetNode = Local
  /\ ToLogin /\ UNCHANGED faults

(* The node's snapshot comes or the request for it fails.                  *)
Loaded(s) ==
  /\ session /\ s \in opening /\ s.step = "asked"
  /\ \/ refreshFleetNode(s.node, TRUE) /\ UNCHANGED faults
     \/ Fault /\ refreshFleetNode(s.node, FALSE)
  /\ opening' = (opening \ {s}) \cup {[s EXCEPT !.step = "loaded"]}
  /\ Left /\ UNCHANGED <<activeFleetNode, selections, intervals, fleetRefreshTimer, refreshing, scope, hubLoads>>

(* Its history has come too: the timer is set, whatever is selected now.   *)
Opened(s) ==
  /\ s \in opening /\ s.step = "loaded"
  /\ opening' = opening \ {s}
  /\ intervals' = intervals \cup {[n |-> s.n, node |-> s.node]} /\ fleetRefreshTimer' = s.n
  /\ Left
  /\ UNCHANGED <<latest, conn, activeFleetNode, selections, refreshing, activeFleetSafe, hubLoads, faults>>
  /\ renderRemoteScope

(* A timer asks again; requests for a node that overlap count as one.      *)
Asked(i) ==
  /\ i \in intervals /\ i.node = activeFleetNode
  /\ refreshing' = refreshing \cup {i.node}
  /\ Left /\ UNCHANGED <<latest, conn, nodeVars, activeFleetSafe, scope, hubLoads, faults>>

Refreshed(node) ==
  /\ session /\ node \in refreshing /\ refreshing' = refreshing \ {node}
  /\ \/ refreshFleetNode(node, TRUE) /\ UNCHANGED faults
     \/ Fault /\ refreshFleetNode(node, FALSE)
  /\ renderRemoteScope
  /\ Left /\ UNCHANGED <<nodeVars, hubLoads>>

(* A timer of a node that is not selected any more asks for nothing.       *)
Abandoned(i) ==
  /\ i \in intervals /\ i.node # activeFleetNode
  /\ Left /\ UNCHANGED <<latest, conn, nodeVars, refreshing, activeFleetSafe, hubLoads, faults>>
  /\ renderRemoteScope

Answers == \E v \in 0..MaxVersion : PollAnswers(v)

OfNodes ==
  \/ \E s \in opening : Loaded(s) \/ Opened(s)
  \/ \E i \in intervals : Asked(i)
  \/ \E node \in Nodes : Refreshed(node)

Next ==
  \/ Tick \/ Expires \/ Opens \/ Breaks \/ Refused \/ Reconnect \/ onmessage \/ Poll \/ Unauthorized
  \/ Answers \/ OfNodes \/ HubAsked \/ HubDrawn \/ \E i \in intervals : Abandoned(i)
  \/ \E v \in 0..MaxVersion : PollFails(v)
  \/ \E node \in Nodes \cup {Local} : selectFleetNode(node)

(* The collectors tick, the network delivers, timers go off.  The page of  *)
(* a browser whose socket is gone without a word is not covered: the page  *)
(* sends nothing by which it could tell.                                   *)
Keeps ==
  /\ WF_vars(Tick) /\ WF_vars(Opens \/ Refused) /\ WF_vars(Reconnect)
  /\ WF_vars(onmessage) /\ WF_vars(Poll) /\ WF_vars(Answers) /\ WF_vars(OfNodes)
  /\ WF_vars(HubAsked) /\ WF_vars(HubDrawn)

Spec == Init /\ [][Next]_vars /\ Keeps

-----------------------------------------------------------------------------
(* The page never shows the figures of another node than it says: for the  *)
(* hub the last snapshot that came in, and a node's figures whenever it    *)
(* names the node, when it has the node's projects as well; however answers*)
(* and selections overtake each other.  What is drawn of projects and      *)
(* deployments is not covered: they may be those of a node that was left.  *)
FiguresOfTheNode ==
  /\ activeFleetNode = Local => latest = Hub(localLatest)
  /\ conn \in Nodes => latest.node = conn /\ conn = activeFleetNode /\ activeFleetSafe = conn

(* The page always comes back to where it has the hub's last figures and   *)
(* those of the node that is selected, by the socket or by polling, and the*)
(* projects it draws are of the same: whatever breaks, or it is sent to the*)
(* login, and that it is if its session has ended.  One thing stands in the*)
(* way of the hub's projects for good: a timer of a node that was left,    *)
(* which draws the node's over them at every tick.                         *)
UpToDate ==
  /\ session /\ localLatest = version
  /\ IF activeFleetNode = Local THEN scope = Local \/ intervals # {}
     ELSE conn = activeFleetNode /\ scope = activeFleetNode

PageKeepsUp == []<>(UpToDate \/ at = "login")
=============================================================================
