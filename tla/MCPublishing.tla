---------------------------- MODULE MCPublishing -----------------------------
(* Instances of Publishing for TLC. *)
EXTENDS Publishing

CONSTANTS t1, t2

\* Two posts that differ, so that a stale text is told from the typed one.
TwoPosts == {[kind |-> "note", title |-> Blank, body |-> t1],
             [kind |-> "article", title |-> t1, body |-> t2]}

OneNote == {[kind |-> "note", title |-> Blank, body |-> t1]}
=============================================================================
