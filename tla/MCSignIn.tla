------------------------------ MODULE MCSignIn ------------------------------
(* Three authenticators: two with copies of a key that counts, one with a  *)
(* key that does not.                                                      *)
EXTENDS SignIn, TLC

CONSTANTS k1, k2, d1, d2, d3

MCkeyOf == [d \in Devices |-> IF d = d3 THEN k2 ELSE k1]

Symmetry == Permutations(Requests) \cup Permutations({d1, d2})
=============================================================================
