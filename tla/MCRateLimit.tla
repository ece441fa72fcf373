----------------------------- MODULE MCRateLimit -----------------------------
(* Instance of RateLimit for TLC. *)
EXTENDS RateLimit, TLC

Symmetry == Permutations(Call) \union Permutations(IP)
=============================================================================
