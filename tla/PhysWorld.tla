----------------------------- MODULE PhysWorld -----------------------------
(***************************************************************************)
(* The tables of a phys.world2d that a physics engine stands behind        *)
(* (providers/phys2d_chipmunk/, providers/phys2d_box2d/) and what whoever  *)
(* drains its contact events makes of them: the pairs it believes touch.   *)
(* Bodies and colliders are named by ids that only grow; a full table      *)
(* turns a creation away.  Which pairs touch is the engine's (external).   *)
(***************************************************************************)
EXTENDS Integers, FiniteSets, SequencesExt

CONSTANTS
    MaxBodies, MaxColliders,     \* slots (512 and 1024 in the code)
    MaxIds                       \* bound: ids of either kind given out

VARIABLES
    bodies,        \* id |-> does the engine move it (anything but a static body)
    colliders,     \* id |-> its body
    bodyId, colliderId,          \* the last ids given out
    touching,      \* engine: pairs of colliders in contact
    told           \* caller: the pairs its events add up to

tables == <<bodies, colliders, bodyId, colliderId>>

WorldInit ==
    /\ bodies = <<>> /\ colliders = <<>>
    /\ bodyId = 0 /\ colliderId = 0
    /\ touching = {} /\ told = {}

\* The pairs the engine lets touch: of two bodies, one of them in motion.
MayTouch ==
    {p \in SUBSET DOMAIN colliders :
        /\ Cardinality(p) = 2
        /\ \E a, b \in p : colliders[a] # colliders[b] /\ bodies[colliders[a]]}

\* A collider is named in an event by its id, or by 0 once its slot is wiped.
Named(p, live) == {IF c \in live THEN c ELSE 0 : c \in p}

\* What a sequence of events makes of a belief: the last about a pair counts.
Believes(belief, events) ==
    LET IsLast(i) == \A j \in DOMAIN events : events[j].pair = events[i].pair => j <= i
    IN  {p \in belief : \A i \in DOMAIN events : events[i].pair # p}
        \cup {events[i].pair : i \in {i \in DOMAIN events : events[i].kind = "begin" /\ IsLast(i)}}

Events(kind, pairs) == SetToSeq({[kind |-> kind, pair |-> p] : p \in pairs})

With(table, id, value) ==
    [i \in DOMAIN table \cup {id} |-> IF i = id THEN value ELSE table[i]]

BodyCreate(moves) ==
    /\ Cardinality(DOMAIN bodies) < MaxBodies /\ bodyId < MaxIds
    /\ bodyId' = bodyId + 1
    /\ bodies' = With(bodies, bodyId', moves)
    /\ UNCHANGED <<colliders, colliderId, touching, told>>

ColliderCreate(b) ==
    /\ Cardinality(DOMAIN colliders) < MaxColliders /\ colliderId < MaxIds
    /\ colliderId' = colliderId + 1
    /\ colliders' = With(colliders, colliderId', b)
    /\ UNCHANGED <<bodies, bodyId, touching, told>>

Of(b) == {c \in DOMAIN colliders : colliders[c] = b}
PairsOf(cs) == {p \in touching : p \cap cs # {}}

\* Slots of colliders wiped and their shapes gone from the engine.
Wipe(cs) ==
    /\ colliders' = Restrict(colliders, DOMAIN colliders \ cs)
    /\ touching' = touching \ PairsOf(cs)
WipeBody(b) == bodies' = Restrict(bodies, DOMAIN bodies \ {b})
=============================================================================
