---------------------------- MODULE MCCommentAuth ----------------------------
(* Instances of CommentAuth for TLC. *)
EXTENDS CommentAuth, TLC

Symmetry == Permutations(Request) \union Permutations(Sid) \union Permutations(Token)
=============================================================================
