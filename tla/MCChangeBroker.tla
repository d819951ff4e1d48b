--------------------------- MODULE MCChangeBroker ---------------------------
(* An instance of ChangeBroker for TLC.  Connections and hashes are only    *)
(* ever compared, and the properties of the run are safety properties, so   *)
(* permuting either set changes nothing.  A behaviour has three challenges  *)
(* and a wrong guess, or two, a wrong guess, a restart and a change of the  *)
(* flag; MCServices lets more guesses go wrong.                             *)
EXTENDS ChangeBroker, TLC

Interchangeable == Permutations(Conns) \cup Permutations(Hashes)

FewChallenges == Len(issued) > 2 => used.restarts = 0 /\ used.toggles = 0
=============================================================================
