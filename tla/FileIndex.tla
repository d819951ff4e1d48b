----------------------------- MODULE FileIndex -----------------------------
(***************************************************************************)
(* The index of the file system: how the privileged collector walks the    *)
(* roots (indexFilesystem, bin/privileged-collector.js) and how the        *)
(* dashboard browses what it has found (filesystemBrowse,                  *)
(* src/metrics/services/privileged.js).                                    *)
(*                                                                         *)
(* A path is the sequence of its names; names are numbers in their         *)
(* alphabetical order.  The host is what it was when the walk came by.     *)
(***************************************************************************)
EXTENDS Naturals, FiniteSets, SequencesExt

CONSTANTS
  Paths,   \* the paths there may be
  roots,   \* filesystemRoots(), in their order
  FS_MAX_ENTRIES, DEPTH   \* 60000 and 9

(* Below a root, what holds a path is a path.                              *)
FileIndexAssumption ==
  /\ IsFiniteSet(Paths) /\ Paths \subseteq Seq(Nat) \ {<<>>}
  /\ roots \in Seq(Paths) /\ FS_MAX_ENTRIES \in Nat /\ DEPTH \in Nat \ {0}
  /\ \A p \in Paths, n \in DOMAIN roots : IsStrictPrefix(roots[n], p) => Front(p) \in Paths

VARIABLES
  kind,    \* what each path is
  stack,   \* the paths to be looked at, the next one last
  entries  \* what is indexed

vars == <<kind, stack, entries>>

Top == <<>>
Parent(p) == Front(p)
Kinds == {"none", "file", "directory", "excluded", "closed", "gone"}

Holds(k) == k \in {"directory", "excluded", "closed"}

(* Only a directory holds anything; a root that is not there is no root.   *)
Init ==
  /\ kind \in {k \in [Paths -> Kinds] :
       \A p \in Paths :
         /\ Parent(p) \in Paths /\ ~Holds(k[Parent(p)]) => k[p] = "none"
         /\ p \in Range(roots) => k[p] \in {"directory", "excluded"}}
  /\ stack = [n \in DOMAIN roots |-> [full |-> roots[n], parent |-> Top, depth |-> 1, root |-> n]]
  /\ entries = <<>>

Children(p) == {q \in Paths : kind[q] # "none" /\ Parent(q) = p}

(* Mutant: in the order in which they are read.                            *)
Pushed_Forward(c) ==
  LET order == CHOOSE s \in [1..Cardinality(Children(c.full)) -> Children(c.full)] :
                 \A i, j \in DOMAIN s : i < j => Last(s[i]) < Last(s[j])
  IN  [n \in DOMAIN order |-> [c EXCEPT !.full = order[n], !.parent = c.full, !.depth = @ + 1]]

(* In reverse, so that they are taken in alphabetical order.               *)
Pushed(c) ==
  LET order == CHOOSE s \in [1..Cardinality(Children(c.full)) -> Children(c.full)] :
                 \A i, j \in DOMAIN s : i < j => Last(s[i]) > Last(s[j])
  IN  [n \in DOMAIN order |-> [c EXCEPT !.full = order[n], !.parent = c.full, !.depth = @ + 1]]

Running == stack # <<>> /\ Len(entries) < FS_MAX_ENTRIES

(* One path: it may be gone by now; what is excluded is indexed itself; a  *)
(* directory that cannot be read has no children.                          *)
indexFilesystem ==
  /\ Running
  /\ LET c == Last(stack) IN
       /\ entries' = IF kind[c.full] = "gone" THEN entries ELSE Append(entries, c)
       /\ stack' = Front(stack) \o
            (IF kind[c.full] = "directory" /\ c.depth < DEPTH THEN Pushed(c) ELSE <<>>)
  /\ UNCHANGED kind

truncated == stack # <<>>

(* filesystemBrowse: a directory of the dashboard.                         *)
Browse(p) == {e \in Range(entries) : e.parent = p}

Next == indexFilesystem

Spec == Init /\ [][Next]_vars

-----------------------------------------------------------------------------
(* What the walk is meant to find under a root: nothing below a directory  *)
(* that is excluded or cannot be read, or that is as deep as it goes; what *)
(* is left out there is not missing, and the index does not tell of it.    *)
Meant(n) ==
  {p \in Paths :
    /\ kind[p] \notin {"none", "gone"} /\ IsPrefix(roots[n], p)
    /\ Len(p) - Len(roots[n]) < DEPTH
    /\ \A q \in Paths : IsPrefix(roots[n], q) /\ IsStrictPrefix(q, p) => kind[q] = "directory"}

Before(p, q) ==
  \/ IsStrictPrefix(p, q)
  \/ \E i \in DOMAIN p \cap DOMAIN q : p[i] < q[i] /\ \A j \in 1..(i - 1) : p[j] = q[j]

(* Root by root, the last root first, in alphabetical order.               *)
Precedes(x, y) == x.root > y.root \/ (x.root = y.root /\ Before(x.full, y.full))

Missing ==
  {x \in [full : Paths, root : DOMAIN roots] :
    x.full \in Meant(x.root) /\ \A e \in Range(entries) : e.full # x.full \/ e.root # x.root}

(* The index is in order; it holds nothing that is not there, and nothing  *)
(* is missing before what it holds.  It ends at the limit, or with nothing *)
(* missing; and it says that something is missing exactly if the limit left*)
(* something out, or what was left cannot be known to be there.            *)
IndexIsComplete ==
  /\ \A i, j \in DOMAIN entries : i < j => Precedes(entries[i], entries[j])
  /\ \A e \in Range(entries) : e.full \in Meant(e.root) /\ \A x \in Missing : ~Precedes(x, e)
  /\ ~Running =>
       /\ Len(entries) = FS_MAX_ENTRIES \/ Missing = {}
       /\ Missing # {} => truncated
       /\ truncated => Missing # {} \/ \E p \in Paths : kind[p] = "gone"

(* Whatever is indexed can be reached by browsing from the top, in an index*)
(* that is cut off, too.                                                   *)
BrowsingReachesAll ==
  \A e \in Range(entries) :
    e \in Browse(Top) \/ \E d \in Range(entries) : d.root = e.root /\ e \in Browse(d.full)
=============================================================================
