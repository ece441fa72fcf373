----------------------------- MODULE MCFollowers -----------------------------
(* Instance of Followers for TLC. *)
EXTENDS Followers, TLC

CONSTANTS x, y, f1, f2

Signed(actor, named, id) == [actor |-> actor, named |-> named, id |-> id]

\* Two actors share an id; y signs a Follow in the name of x; x's next Follow has another
\* id and names nobody; both have sent one without an id.
Follows ==
    {Signed(x, x, f1), Signed(x, Absent, f2), Signed(x, x, NoId),
     Signed(y, y, f1), Signed(y, x, f2), Signed(y, y, NoId)}

Symmetry == Permutations(Worker)
=============================================================================
