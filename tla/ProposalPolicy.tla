--------------------------- MODULE ProposalPolicy ---------------------------
(***************************************************************************)
(* What becomes of a draft that the agent hands in: normalizeProposal() of *)
(* src/changes/policy.js refuses it or returns the form that is stored,    *)
(* shown, hashed and run.  The same function reads the stored form again.  *)
(*                                                                         *)
(* A draft is a record of what the function tells apart: the class of each *)
(* text, the paths as members of a small set, the numbers as they are.     *)
(***************************************************************************)
EXTENDS Integers, Sequences

(* A script: not given, or one of the ways one can be right or wrong.      *)
Script == {"none", "good", "blank", "too_long", "with_nul"}
(* A diff may lack its last newline ("unended"), and then be just as long  *)
(* as is allowed ("full").                                                 *)
Diff   == {"good", "unended", "full", "blank", "too_large", "no_files", "symlink", "escapes", "git_dir"}
Content == {"good", "too_large"}
Health  == {"none", "url", "bad_url", "script", "bad_script", "empty"}

(* path.posix.normalize on the paths used here.  A trailing slash stays.   *)
posixNormalize == [
  root |-> "root",            \* /
  app |-> "app",              \* /srv/app
  app_dir |-> "app_dir",      \* /srv/app/
  app_dots |-> "app",         \* /srv/./app
  up |-> "root",              \* /..
  here |-> "root",            \* /.
  climbs |-> "app",           \* /srv/x/../app
  relative |-> "relative",    \* srv/app
  with_nul |-> "with_nul"]
Path == DOMAIN posixNormalize

Draft == [kind : {"patch", "file", "command", "other"}, node : {"local", "named", "bad"},
          title : {"given", "blank"}, path : Path, body : Diff \cup Content \cup Script,
          timeoutSec : Int, post : Seq(Script), undo : Script, validate : Script,
          health : Health, retries : Int, delaySec : Int]

isAbsolute(p) == p \notin {"relative", "with_nul"}

(* script(value, field): what is given must be fit to run.                 *)
Fit(s)   == s = "good"
FitIf(s) == s = "none" \/ Fit(s)

POST_MAX == 8
PostKept(d) == SubSeq(d.post, 1, IF Len(d.post) < POST_MAX THEN Len(d.post) ELSE POST_MAX)

Accepted(d) ==
  /\ d.kind # "other" /\ d.node # "bad" /\ d.title # "blank"
  /\ d.kind = "patch" =>
       isAbsolute(d.path) /\ d.path # "root" /\ d.body \in {"good", "unended", "full"}
  /\ d.kind = "file" =>
       isAbsolute(d.path) /\ d.path \notin {"climbs", "up", "root", "app_dir"} /\ d.body = "good"
       /\ FitIf(d.validate)
  /\ d.kind = "command" =>
       Fit(d.body) /\ isAbsolute(d.path)
  /\ \A n \in DOMAIN PostKept(d) : Fit(PostKept(d)[n])
  /\ FitIf(d.undo)
  /\ d.health \in {"none", "url", "script"}

(* Math.min(hi, Math.max(lo, Number(n) || default)).                       *)
Clamp(lo, hi, default, n) ==
  LET v == IF n = 0 THEN default ELSE n
  IN  IF v < lo THEN lo ELSE IF v > hi THEN hi ELSE v

(* The newline is added after the length was measured.                     *)
Ended(diff) == IF diff = "unended" THEN "good" ELSE IF diff = "full" THEN "too_large" ELSE diff

(* What is stored.  The directory of a command is kept as it was given;    *)
(* validate belongs to files, the time limit to commands.                  *)
normalizeProposal(d) ==
  [d EXCEPT !.path = IF d.kind = "command" THEN @ ELSE posixNormalize[@],
            !.body = IF d.kind = "patch" THEN Ended(@) ELSE @,
            !.timeoutSec = IF d.kind = "command" THEN Clamp(5, 900, 120, @) ELSE 0,
            !.validate = IF d.kind = "file" THEN @ ELSE "none",
            !.post = PostKept(d),
            !.retries  = IF d.health = "none" THEN 0 ELSE Clamp(1, 60, 10, @),
            !.delaySec = IF d.health = "none" THEN 0 ELSE Clamp(1, 60, 3, @)]

(* The stored forms that do not pass again: a path that came down to the   *)
(* root, and a diff that outgrew the limit by its newline.                 *)
Outgrown(n) ==
  \/ n.kind # "command" /\ n.path = "root"
  \/ n.kind = "patch" /\ n.body = "too_large"
=============================================================================
