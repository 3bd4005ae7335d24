---------------------------- MODULE PhysChipmunk ----------------------------
(***************************************************************************)
(* phys.world2d over Chipmunk (providers/phys2d_chipmunk/                  *)
(* obi_provider_phys2d_chipmunk_v0.c).  The engine calls back while it     *)
(* steps, for pairs that begin and then for pairs that cease to touch, and *)
(* while a shape is removed, for the pairs it was in.  The callbacks queue *)
(* events for the caller to drain; a full queue drops them silently.       *)
(***************************************************************************)
EXTENDS PhysWorld

CONSTANTS MaxEvents    \* OBI_PHYS_CHIPMUNK_MAX_EVENTS

VARIABLES
    pending,       \* pending_events
    dropped        \* ghost: an event found the queue full

vars == <<tables, touching, told, pending, dropped>>

Init == WorldInit /\ pending = <<>> /\ dropped = FALSE

Push(events) ==
    LET all == pending \o events IN
    /\ pending' = SubSeq(all, 1, IF Len(all) > MaxEvents THEN MaxEvents ELSE Len(all))
    /\ dropped' = (dropped \/ Len(all) > MaxEvents)

Step ==
    \E now \in SUBSET MayTouch :
        /\ touching' = now
        /\ Push(Events("begin", now \ touching) \o Events("end", touching \ now))
        /\ UNCHANGED <<tables, told>>

\* Fault variant: the slots are wiped before the shapes leave the space.
DestroyShapesWiped(cs) ==
    /\ Push(Events("end", {Named(p, DOMAIN colliders \ cs) : p \in PairsOf(cs)}))
    /\ Wipe(cs)

\* Removing a shape from the space calls back for its pairs while its slot still
\* names it; only then is the slot wiped.
DestroyShapes(cs) ==
    /\ Push(Events("end", PairsOf(cs)))
    /\ Wipe(cs)

ColliderDestroy(c) ==
    /\ DestroyShapes({c})
    /\ UNCHANGED <<bodies, bodyId, colliderId, told>>

\* The colliders of a body go before it does.
BodyDestroy(b) ==
    /\ DestroyShapes(Of(b)) /\ WipeBody(b)
    /\ UNCHANGED <<bodyId, colliderId, told>>

\* Room for all pending events, or none is handed over.
DrainContactEvents(room) ==
    /\ pending # <<>>
    /\ IF room < Len(pending)
       THEN UNCHANGED <<told, pending>>
       ELSE told' = Believes(told, pending) /\ pending' = <<>>
    /\ UNCHANGED <<tables, touching, dropped>>

Next ==
    \/ \E moves \in BOOLEAN : BodyCreate(moves) /\ UNCHANGED <<pending, dropped>>
    \/ \E b \in DOMAIN bodies : ColliderCreate(b) /\ UNCHANGED <<pending, dropped>>
    \/ \E b \in DOMAIN bodies : BodyDestroy(b)
    \/ \E c \in DOMAIN colliders : ColliderDestroy(c)
    \/ \E room \in 0..MaxEvents : DrainContactEvents(room)
    \/ Step

Spec == Init /\ [][Next]_vars

----------------------------------------------------------------------------
(* Unless the queue overflowed, the events handed over and those pending   *)
(* add up to the pairs that touch, colliders and bodies destroyed on the   *)
(* way included: no contact stays open for a collider that is gone.        *)
ContactsAddUp == dropped \/ Believes(told, pending) = touching
=============================================================================
