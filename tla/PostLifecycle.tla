---------------------------- MODULE PostLifecycle ----------------------------
(***************************************************************************)
(* What the post store promises about one slug, whatever the keys, base    *)
(* URLs and federation records underneath: a slug holds no post, a draft   *)
(* or a published post; a published post is never a draft again, and the   *)
(* only way out is removal.  PostStore implements this specification.      *)
(***************************************************************************)
CONSTANT Slug

VARIABLE stage    \* stage[s]: what a reader of slug s finds

Stage == {"absent", "draft", "published"}

LifecycleInit == stage = [s \in Slug |-> "absent"]

\* A first autosave; a later one leaves the stage alone.
SaveFirstDraft(s) == stage[s] = "absent" /\ stage' = [stage EXCEPT ![s] = "draft"]

\* A direct create, or the publication of a draft.
Publish(s) ==
    /\ stage[s] \in {"absent", "draft"}
    /\ stage' = [stage EXCEPT ![s] = "published"]

Remove(s) == stage[s] # "absent" /\ stage' = [stage EXCEPT ![s] = "absent"]

LifecycleNext == \E s \in Slug : SaveFirstDraft(s) \/ Publish(s) \/ Remove(s)

LifecycleSpec == LifecycleInit /\ [][LifecycleNext]_stage
=============================================================================
