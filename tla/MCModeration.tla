---------------------------- MODULE MCModeration -----------------------------
(* Messages of the small instances of Moderation. *)
EXTENDS Moderation

CONSTANTS p, q, o1, o2, a1, a2, x

Create(id, object, target, actor) ==
    [id |-> id, object |-> object, target |-> target, actor |-> actor]

\* One message, and one without an id that is about the same object.
Pair == {Create(a1, o1, p, x), Create(None, o1, p, x)}

\* A reply, a reply to it, and the first activity's id used again for another post.
Thread == {Create(a1, o1, p, x), Create(a2, o2, o1, x), Create(a1, o1, q, x)}

\* Two old replies in the raw inbox; the first also comes live as part of the thread.
OldReplies == {Create(a1, o1, p, x), Create(a2, None, q, x)}
ThreadAndOld == Thread \union OldReplies
NoMessage == {}
=============================================================================
