----------------------------- MODULE PhysBox2d ------------------------------
(***************************************************************************)
(* phys.world2d over Box2D (providers/phys2d_box2d/                        *)
(* obi_provider_phys2d_box2d_v0.c).  The engine keeps the events of its    *)
(* last step, and with them the ends that destructions caused before it.   *)
(* Draining looks the shapes up in the slots at that moment and leaves the *)
(* events where they are, for the next step to replace.                    *)
(***************************************************************************)
EXTENDS PhysWorld

VARIABLES
    begins, ends,  \* engine: pairs of the last step's events
    endsNext,      \* engine: pairs that ended since
    drained,       \* ghost: the last step's events were handed over
    missed         \* ghost: a step replaced events nobody had drained

vars == <<tables, touching, told, begins, ends, endsNext, drained, missed>>

Init ==
    /\ WorldInit
    /\ begins = {} /\ ends = {} /\ endsNext = {}
    /\ drained = TRUE /\ missed = FALSE

Step ==
    \E now \in SUBSET MayTouch :
        /\ touching' = now
        /\ begins' = now \ touching
        /\ ends' = endsNext \cup (touching \ now)
        /\ endsNext' = {}
        /\ drained' = (begins' \cup ends' = {})
        /\ missed' = (missed \/ ~ drained)
        /\ UNCHANGED <<tables, told>>

Quiet == UNCHANGED <<begins, ends, drained, missed>>

DestroyShapes(cs) ==
    /\ endsNext' = endsNext \cup PairsOf(cs)
    /\ Wipe(cs)

ColliderDestroy(c) ==
    /\ DestroyShapes({c})
    /\ UNCHANGED <<bodies, bodyId, colliderId, told>> /\ Quiet

BodyDestroy(b) ==
    /\ DestroyShapes(Of(b)) /\ WipeBody(b)
    /\ UNCHANGED <<bodyId, colliderId, told>> /\ Quiet

\* Shapes destroyed since the step have no slot: their events name them 0.
DrainContactEvents ==
    LET Labels(pairs) == {Named(p, DOMAIN colliders) : p \in pairs} IN
    /\ begins \cup ends # {}
    /\ told' = (told \cup Labels(begins)) \ Labels(ends)
    /\ drained' = TRUE
    /\ UNCHANGED <<tables, touching, begins, ends, endsNext, missed>>

Next ==
    \/ \E moves \in BOOLEAN : BodyCreate(moves) /\ Quiet /\ UNCHANGED endsNext
    \/ \E b \in DOMAIN bodies : ColliderCreate(b) /\ Quiet /\ UNCHANGED endsNext
    \/ \E b \in DOMAIN bodies : BodyDestroy(b)
    \/ \E c \in DOMAIN colliders : ColliderDestroy(c)
    \/ DrainContactEvents
    \/ Step

Spec == Init /\ [][Next]_vars

----------------------------------------------------------------------------
(* A caller that drains after every step knows the touching pairs of the   *)
(* colliders that exist, destructions between the step and the drain       *)
(* included; of those that are gone it may never hear an end.              *)
ContactsAddUp ==
    ~ missed /\ drained => {p \in told : p \subseteq DOMAIN colliders} = touching
=============================================================================
