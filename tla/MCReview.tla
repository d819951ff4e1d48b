------------------------------ MODULE MCReview ------------------------------
(* Two situations: a directory that fills and empties with no page open, and*)
(* a page over one proposal, with two decisions and two loads under way.   *)
EXTENDS Review

Good == [kind |-> "command", node |-> "local", title |-> "given", path |-> "root", body |-> "good",
         timeoutSec |-> 0, post |-> <<>>, undo |-> "none", validate |-> "none",
         health |-> "none", retries |-> 0, delaySec |-> 0]
Patch == [Good EXCEPT !.kind = "patch", !.path = "app_dots", !.post = [n \in 1..9 |-> IF n = 9 THEN "blank" ELSE "good"],
                      !.health = "url", !.retries = 99]

MCDrafts == {Good, Patch, [Patch EXCEPT !.path = "up"], [Patch EXCEPT !.body = "unended"],
             [Patch EXCEPT !.body = "full"], [Good EXCEPT !.title = "blank"]}

MCLimits == {
  [time |-> 2, proposals |-> 4, rejections |-> 4, decisions |-> 0, loads |-> 0, faults |-> 0],
  [time |-> 0, proposals |-> 1, rejections |-> 1, decisions |-> 2, loads |-> 2,
   faults |-> 1]}
=============================================================================
