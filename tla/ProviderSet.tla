---------------------------- MODULE ProviderSet ----------------------------
(***************************************************************************)
(* What loading promises (src/include/obi/obi_rt_v0.h): a load either adds *)
(* one provider under an id that is not taken, in one indivisible step, or *)
(* leaves the provider set as it was; destroying the runtime removes all.  *)
(***************************************************************************)
EXTENDS Sequences, Integers

CONSTANT ProviderIds

VARIABLES ids, alive

vars == <<ids, alive>>

Init == ids = <<>> /\ alive = TRUE

Load(p) ==
    /\ alive = TRUE
    /\ \A i \in DOMAIN ids : ids[i] # p
    /\ ids' = Append(ids, p)
    /\ UNCHANGED alive

Destroy ==
    /\ alive = TRUE
    /\ ids' = <<>>
    /\ alive' = FALSE

Next == Destroy \/ \E p \in ProviderIds : Load(p)

Spec == Init /\ [][Next]_vars
=============================================================================
