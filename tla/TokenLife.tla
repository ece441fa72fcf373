------------------------------ MODULE TokenLife -------------------------------
(***************************************************************************)
(* What becomes of the tokens that sign-ins obtain, whatever requests race *)
(* for them and wherever one is cut off: a token is placed once, by the    *)
(* request that got it, in the browser or as the grant; one that was       *)
(* revoked or lost is never placed, and one that was forgotten does not    *)
(* come back.  CommentAuth implements this specification.                  *)
(***************************************************************************)
CONSTANT Token

VARIABLES
    fate,       \* what has become of each token
    placed      \* tokens that the browser has, and the one that is the grant

Issue(t) ==
    /\ fate[t] = "none"
    /\ fate' = [fate EXCEPT ![t] = "held"] /\ UNCHANGED placed

Place(t) ==
    /\ fate[t] = "held"
    /\ fate' = [fate EXCEPT ![t] = "kept"]
    /\ t \in placed' /\ placed' \subseteq placed \union {t}

Revoke(t) ==
    /\ fate[t] \in {"held", "kept"}
    /\ fate' = [fate EXCEPT ![t] = "revoked"] /\ placed' \subseteq placed

\* The instance issued it and was not heard, or its request was cut off or could not
\* store it.
Lose(lost) ==
    /\ \A t \in lost : fate[t] \in {"none", "held"}
    /\ fate' = [t \in Token |-> IF t \in lost THEN "lost" ELSE fate[t]]
    /\ UNCHANGED placed

Forget == UNCHANGED fate /\ placed' \subseteq placed

LifeInit == fate = [t \in Token |-> "none"] /\ placed = {}

LifeNext ==
    \/ Forget
    \/ \E t \in Token : Issue(t) \/ Place(t) \/ Revoke(t)
    \/ \E lost \in SUBSET Token : Lose(lost)

LifeSpec == LifeInit /\ [][LifeNext]_<<fate, placed>>
=============================================================================
