------------------------------ MODULE GpuSokol ------------------------------
(***************************************************************************)
(* gfx.gpu_device over sokol (providers/gfx_gpu_sokol/                     *)
(* obi_provider_gfx_gpu_sokol_v0.c; providers/gfx_render3d_sokol/ acquires *)
(* and releases in the same way).  sokol is one for the process: instances *)
(* of several threads count themselves under a spin lock, the first sets   *)
(* it up and the last shuts it down with all its objects.  The count stays *)
(* below UINT_MAX, where acquiring is refused.                             *)
(***************************************************************************)
EXTENDS GpuDevice

VARIABLES
    at,            \* per instance: where its thread is
    refs,          \* g_sokol_sg_refcount
    seen,          \* per instance: the count it has loaded
    spin,          \* g_sokol_sg_spin: the instances inside
    valid          \* sokol: sg_isvalid

shared == <<refs, seen, spin, valid>>
vars == <<tables, frames, engine, at, shared>>

Init ==
    /\ DeviceInit
    /\ at = [d \in Devices |-> "new"]
    /\ refs = 0 /\ valid = FALSE /\ spin = {}
    /\ seen = [d \in Devices |-> 0]

Goes(d, from, to) == at[d] = from /\ at' = [at EXCEPT ![d] = to]
TablesStay == UNCHANGED <<tables, frames, engine>>

\* Fault variant: the lock is taken without a look at who has it.
SpinLockRacy(d) == spin' = spin \cup {d}

SpinLock(d) == spin = {} /\ spin' = {d}

\* The lock and the load under it, for create and for destroy.
Enters(d) ==
    /\ \/ Goes(d, "new", "acquiring") \/ Goes(d, "emptied", "releasing")
    /\ SpinLock(d)
    /\ seen' = [seen EXCEPT ![d] = refs]
    /\ TablesStay /\ UNCHANGED <<refs, valid>>

\* Setting sokol up may fail; then nobody is counted.
Acquire(d) ==
    /\ at[d] = "acquiring"
    /\ valid' \in IF seen[d] = 0 THEN BOOLEAN ELSE {valid}
    /\ refs' = IF valid' THEN seen[d] + 1 ELSE refs
    /\ at' = [at EXCEPT ![d] = IF valid' THEN "acquired" ELSE "failed"]
    /\ TablesStay /\ UNCHANGED <<seen, spin>>

\* Shutting down takes all of sokol's objects along.
Release(d) ==
    /\ Goes(d, "releasing", "released")
    /\ refs' = IF seen[d] > 0 THEN seen[d] - 1 ELSE refs
    /\ LET last == seen[d] > 0 /\ refs' = 0 IN
       /\ valid' = (valid /\ ~ last)
       /\ engine' = IF last THEN {} ELSE engine
    /\ UNCHANGED <<tables, frames, seen, spin>>

Leaves(d) ==
    /\ \/ Goes(d, "acquired", "ready") \/ Goes(d, "failed", "gone") \/ Goes(d, "released", "gone")
    /\ spin' = spin \ {d}
    /\ TablesStay /\ UNCHANGED <<refs, seen, valid>>

\* destroy, up to the release.
Empties(d) ==
    /\ Goes(d, "ready", "emptied")
    /\ ClearTables(d)
    /\ UNCHANGED shared

Works(d) ==
    /\ at[d] = "ready"
    /\ \/ valid /\ Enter(d, TRUE)
       \/ ShaderCreate(d) \/ PipelineCreate(d) \/ EndFrame(d)
       \/ \E o \in objects[d] : ObjectDestroy(d, o)
       \/ \E s \in shaders[d] : ShaderDestroy(d, s)
       \/ \E p \in pipelines[d] : PipelineDestroy(d, p) \/ ApplyPipeline(d, p)
       \/ \E w \in Windows : BeginFrame(d, w)
    /\ UNCHANGED <<at, shared>>

Next ==
    \E d \in Devices :
        Enters(d) \/ Acquire(d) \/ Release(d) \/ Leaves(d) \/ Empties(d) \/ Works(d)

Spec == Init /\ [][Next]_vars

----------------------------------------------------------------------------
(* sokol is set up as long as an instance is ready, and between the        *)
(* critical sections it is set up exactly when somebody is counted, who    *)
(* has yet to leave: no thread's destroy takes it from another's instance. *)
SokolIsCounted ==
    /\ \A d \in Devices : at[d] \in {"ready", "emptied"} => valid
    /\ spin = {} =>
        /\ valid = (refs > 0)
        /\ refs = Cardinality({d \in Devices : at[d] \in {"ready", "emptied"}})
=============================================================================
