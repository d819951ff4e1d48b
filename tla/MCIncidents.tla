----------------------------- MODULE MCIncidents -----------------------------
(* Two causes: one measured by the slow collector, one by the fast one.    *)
EXTENDS Incidents

MCsource == [k \in Keys |-> IF k = 1 THEN "slow" ELSE "fast"]
=============================================================================
