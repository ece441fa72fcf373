----------------------------- MODULE MCPostStore -----------------------------
(* Instances of PostStore for TLC. *)
EXTENDS PostStore, TLC

\* Slugs and base URLs are compared and never ordered.
Symmetry == Permutations(Slug) \union Permutations(Base)
=============================================================================
