------------------------------ MODULE Announcing ------------------------------
(***************************************************************************)
(* What publishing promises readers, followers and the author, whatever    *)
(* requests, loops, retries and crashes there are: followers are told only *)
(* what readers could see, nothing that was shown or told is taken back,   *)
(* and a slug is marked delivered only once every follower was told of it. *)
(* The mark is the slug's: it may pass from a deleted post to one made     *)
(* anew under its slug.  Publishing implements this specification.         *)
(***************************************************************************)
CONSTANTS
    Slug,
    Inbox,
    Activity

VARIABLES
    public,     \* <<slug, activity>> that readers could see
    delivered,  \* <<inbox, slug, activity>> that followers were told
    marked      \* slugs marked delivered

Show(s, a) == public' = public \union {<<s, a>>} /\ UNCHANGED <<delivered, marked>>

Tell(i, s, a) ==
    /\ <<s, a>> \in public
    /\ delivered' = delivered \union {<<i, s, a>>}
    /\ UNCHANGED <<public, marked>>

Mark(s) ==
    /\ \A i \in Inbox : \E a \in Activity : <<i, s, a>> \in delivered
    /\ marked' = marked \union {s}
    /\ UNCHANGED <<public, delivered>>

\* The post goes, or a later attempt to deliver it fails.
Unmark(s) == marked' = marked \ {s} /\ UNCHANGED <<public, delivered>>

AnnounceInit == public = {} /\ delivered = {} /\ marked = {}

AnnounceNext ==
    \E s \in Slug :
        \/ Mark(s)
        \/ Unmark(s)
        \/ \E a \in Activity : Show(s, a) \/ \E i \in Inbox : Tell(i, s, a)

AnnounceSpec == AnnounceInit /\ [][AnnounceNext]_<<public, delivered, marked>>
=============================================================================
