----------------------------- MODULE Discovery -----------------------------
(***************************************************************************)
(* What is monitored on a host.  The privileged collector                  *)
(* (bin/privileged-collector.js) scans the host every quarter of an hour   *)
(* and when it finds the marker of a rescan; the setup page                *)
(* (public/setup.js) shows what a scan found and saves what the operator   *)
(* selects (src/discovery/store.js).  They share three files: the snapshot,*)
(* the settings and the marker.                                            *)
(*                                                                         *)
(* The roots of a scan are known by the targets under them.                *)
(***************************************************************************)
EXTENDS Naturals

CONSTANTS
  Targets,
  Automatic,    \* those that are enabled unless the operator says otherwise
  Narrow,       \* the targets under the roots the operator may choose
  MaxScans, MaxSaves, MaxChanges, MaxFaults   \* bounds

DiscoveryAssumption ==
  /\ Automatic \subseteq Targets /\ Narrow \subseteq Targets
  /\ {MaxScans, MaxSaves, MaxChanges, MaxFaults} \subseteq Nat

VARIABLES
  host,       \* the targets that are there and answer
  snapshot,   \* discovery.json
  settings,   \* discovery-settings.json
  marker,     \* discovery-rescan
  scan,       \* the scan under way
  page,       \* the setup page; began: the targets it was opened with
  owed,       \* history: a rescan was asked for and no scan has read its roots since
  excluded,   \* history: the targets that the operator switched off last
  dropped,    \* history: those whose exclusion a save has thrown away
  saves, changes, faults

files == <<snapshot, settings, marker>>
history == <<owed, excluded, dropped>>
vars == <<host, files, scan, page, history, saves, changes, faults>>

Unset  == [on |-> {}, off |-> {}, roots |-> Targets]
First  == [items |-> Targets, roots |-> Targets, generatedAt |-> 1]
Closed == [at |-> "closed", began |-> {}, selected |-> {}, disabled |-> {}, snapshot |-> First, settings |-> Unset]
Idle   == [at |-> "idle", roots |-> {}]

Init ==
  /\ host = Targets
  /\ snapshot = First /\ settings = Unset
  /\ marker = FALSE /\ scan = Idle /\ page = Closed
  /\ owed = FALSE /\ excluded = {} /\ dropped = {}
  /\ saves = 0 /\ changes = 0 /\ faults = 0

Fault == faults < MaxFaults /\ faults' = faults + 1

(* resolvedDiscovery(): what the operator says goes before what is found.  *)
Enabled == {t \in snapshot.items : t \in settings.on \/ (t \notin settings.off /\ t \in Automatic)}

-----------------------------------------------------------------------------
(* The host: a target goes away, or its daemon does not answer for a while.*)
Changes(t) ==
  /\ changes < MaxChanges /\ changes' = changes + 1
  /\ host' = IF t \in host THEN host \ {t} ELSE host \cup {t}
  /\ UNCHANGED <<files, scan, page, history, saves, faults>>

-----------------------------------------------------------------------------
(* The collector, one scan at a time.                                      *)

discoveryTick ==
  /\ scan = Idle /\ snapshot.generatedAt < MaxScans
  /\ scan' = [Idle EXCEPT !.at = "begun"]
  /\ UNCHANGED <<host, files, page, history, saves, changes, faults>>

(* The marker goes before the scan that it asked for.                      *)
tick ==
  /\ scan = Idle /\ marker /\ snapshot.generatedAt < MaxScans
  /\ marker' = FALSE /\ scan' = [Idle EXCEPT !.at = "begun"]
  /\ UNCHANGED <<host, snapshot, settings, page, history, saves, changes, faults>>

ReadsSettings ==
  /\ scan.at = "begun"
  /\ scan' = [at |-> "reading", roots |-> settings.roots]
  /\ owed' = FALSE
  /\ UNCHANGED <<host, files, page, excluded, dropped, saves, changes, faults>>

Found ==
  snapshot' = [items |-> host \cap scan.roots, roots |-> scan.roots, generatedAt |-> snapshot.generatedAt + 1]

(* Mutant: the marker goes when the scan is done.                          *)
Scanned_Unlink ==
  /\ scan.at = "reading" /\ scan' = Idle
  /\ Found /\ marker' = FALSE
  /\ UNCHANGED <<host, settings, page, history, saves, changes, faults>>

(* A scan that fails is reported in the log only.                          *)
Scanned ==
  /\ scan.at = "reading" /\ scan' = Idle
  /\ \/ Found /\ UNCHANGED faults
     \/ Fault /\ UNCHANGED snapshot
  /\ UNCHANGED <<host, settings, marker, page, history, saves, changes>>

(* A collector that is started scans at once.                              *)
CollectorRestart ==
  /\ Fault
  /\ scan' = [Idle EXCEPT !.at = "begun"]
  /\ UNCHANGED <<host, files, page, history, saves, changes>>

-----------------------------------------------------------------------------
(* The setup page.                                                         *)

Load == [page EXCEPT !.at = "open", !.snapshot = snapshot, !.settings = settings]

(* The page takes over what is enabled and what was switched off.          *)
Open ==
  /\ page.at = "closed"
  /\ page' = [Load EXCEPT !.began = snapshot.items, !.selected = Enabled, !.disabled = settings.off \cap snapshot.items]
  /\ UNCHANGED <<host, files, scan, history, saves, changes, faults>>

Close ==
  /\ page.at # "closed" /\ page' = Closed
  /\ UNCHANGED <<host, files, scan, history, saves, changes, faults>>

Choose(t) ==
  /\ page.at = "open" /\ t \in page.snapshot.items
  /\ page' = IF t \in page.selected
             THEN [page EXCEPT !.selected = @ \ {t}, !.disabled = @ \cup {t}]
             ELSE [page EXCEPT !.selected = @ \cup {t}, !.disabled = @ \ {t}]
  /\ UNCHANGED <<host, files, scan, history, saves, changes, faults>>

(* Of what is sent only the targets are kept that the snapshot has just    *)
(* now: the rest is forgotten, whether it is on or off.                    *)
writeDiscoverySettings(s) ==
  /\ saves < MaxSaves /\ saves' = saves + 1
  /\ settings' = [on |-> s.on \cap snapshot.items, off |-> s.off \cap snapshot.items, roots |-> s.roots]

(* What is shown unchecked without having been switched off stays as it is.*)
(* The roots are those of the snapshot that the page shows.                *)
persist ==
  /\ page.at = "open"
  /\ writeDiscoverySettings([on |-> page.selected, off |-> page.disabled, roots |-> page.snapshot.roots])
  /\ excluded' = (excluded \cup page.disabled) \ page.selected
  /\ dropped' = (dropped \cup (excluded' \ (page.began \cap snapshot.items))) \ page.selected
  /\ UNCHANGED <<host, snapshot, marker, scan, page, owed, changes, faults>>

(* The settings go out as the page once loaded them, with the new roots.   *)
rescan ==
  /\ page.at = "open"
  /\ \E roots \in {page.snapshot.roots, Narrow, Targets} :
       writeDiscoverySettings([page.settings EXCEPT !.roots = roots])
  /\ dropped' = dropped \cup (excluded \ settings'.off)
  /\ page' = [page EXCEPT !.at = "asking"]
  /\ UNCHANGED <<host, snapshot, marker, scan, owed, excluded, changes, faults>>

RescanPosted ==
  /\ page.at = "asking"
  /\ marker' = TRUE /\ owed' = TRUE
  /\ page' = [page EXCEPT !.at = "waiting"]
  /\ UNCHANGED <<host, snapshot, settings, scan, excluded, dropped, saves, changes, faults>>

(* Any other snapshot than the one the page had is taken for the answer;   *)
(* after 25 seconds the page goes on with what it gets.                    *)
RescanAnswered ==
  /\ page.at = "waiting"
  /\ IF snapshot.generatedAt # page.snapshot.generatedAt THEN UNCHANGED faults ELSE Fault
  /\ page' = Load
  /\ UNCHANGED <<host, files, scan, history, saves, changes>>

Next ==
  \/ discoveryTick \/ tick \/ ReadsSettings \/ Scanned \/ CollectorRestart
  \/ Open \/ Close \/ persist \/ rescan \/ RescanPosted \/ RescanAnswered
  \/ \E t \in Targets : Changes(t) \/ Choose(t)

Spec == Init /\ [][Next]_vars

-----------------------------------------------------------------------------
(* A rescan that was asked for is not lost: the request is on the disk     *)
(* until a scan has begun that has yet to read the settings, however it    *)
(* meets the scan that the timer started.                                  *)
RescansAreKept == owed => marker \/ scan.at = "begun"

(* A target that the operator switched off stays off: whatever goes away,  *)
(* comes back or is scanned with other roots, unless a save has thrown the *)
(* exclusion away.  That is one by a page that was opened, or that saves,  *)
(* while the snapshot lacks the target, or the one at the beginning of a   *)
(* rescan, which sends the settings as the page loaded them.               *)
ExclusionsLast == \A t \in excluded \ dropped : t \notin Enabled

(* README.md: "manual exclusions survive rescans".                         *)
ExclusionsSurviveRescans == \A t \in excluded : t \notin Enabled
=============================================================================
