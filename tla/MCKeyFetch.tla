----------------------------- MODULE MCKeyFetch ------------------------------
(* Instance of KeyFetch for TLC: two keys of one actor, and one that is no URL. *)
EXTENDS KeyFetch, TLC

CONSTANTS x, k1, k2, k3

Owners == k1 :> x @@ k2 :> x @@ k3 :> Absent
=============================================================================
