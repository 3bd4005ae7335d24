----------------------------- MODULE GpuDevice ------------------------------
(***************************************************************************)
(* What the GPU devices have in common (providers/gfx_gpu_sokol/           *)
(* obi_provider_gfx_gpu_sokol_v0.c; the one in providers/gfx_sdl3/ is      *)
(* written after the same pattern): per instance the tables of objects the *)
(* engine knows, of shaders and of pipelines, and the frame under way.     *)
(* Viewport, bindings, uniforms and draws are checked and change nothing.  *)
(***************************************************************************)
EXTENDS Integers, FiniteSets

CONSTANTS
    Devices,       \* provider instances
    Windows,       \* positive: windows for frames
    MaxGpuIds      \* bound: ids given out by an instance in all

VARIABLES
    objects,       \* per instance: [id, made] of buffers, images and samplers
    shaders,       \* per instance: ids
    pipelines,     \* per instance: ids
    frame,         \* per instance: window of the frame, or 0
    active,        \* per instance: the frame's pipeline, or 0
    lastId,        \* per instance
    engine         \* engine: [dev, id] of its living objects

tables == <<objects, shaders, pipelines, lastId>>
frames == <<frame, active>>

DeviceInit ==
    /\ objects = [d \in Devices |-> {}]
    /\ shaders = [d \in Devices |-> {}]
    /\ pipelines = [d \in Devices |-> {}]
    /\ frame = [d \in Devices |-> 0]
    /\ active = [d \in Devices |-> 0]
    /\ lastId = [d \in Devices |-> 0]
    /\ engine = {}

Made(d) == {[dev |-> d, id |-> o.id] : o \in {x \in objects[d] : x.made}}

GiveId(d) == lastId[d] < MaxGpuIds /\ lastId' = [lastId EXCEPT ![d] = @ + 1]

\* A slot for an object that the engine has made, or could not make.
Enter(d, made) ==
    /\ GiveId(d)
    /\ objects' = [objects EXCEPT ![d] = @ \cup {[id |-> lastId'[d], made |-> made]}]
    /\ engine' = IF made THEN engine \cup {[dev |-> d, id |-> lastId'[d]]} ELSE engine
    /\ UNCHANGED <<shaders, pipelines, frames>>

ObjectDestroy(d, o) ==
    /\ o \in objects[d]
    /\ objects' = [objects EXCEPT ![d] = @ \ {o}]
    /\ engine' = engine \ {[dev |-> d, id |-> o.id]}
    /\ UNCHANGED <<shaders, pipelines, lastId, frames>>

ShaderCreate(d) ==
    /\ GiveId(d)
    /\ shaders' = [shaders EXCEPT ![d] = @ \cup {lastId'[d]}]
    /\ UNCHANGED <<objects, pipelines, frames, engine>>

\* A pipeline made from it stays.
ShaderDestroy(d, s) ==
    /\ s \in shaders[d]
    /\ shaders' = [shaders EXCEPT ![d] = @ \ {s}]
    /\ UNCHANGED <<objects, pipelines, lastId, frames, engine>>

PipelineCreate(d) ==
    /\ shaders[d] # {}
    /\ GiveId(d)
    /\ pipelines' = [pipelines EXCEPT ![d] = @ \cup {lastId'[d]}]
    /\ UNCHANGED <<objects, shaders, frames, engine>>

PipelineDestroy(d, p) ==
    /\ p \in pipelines[d]
    /\ pipelines' = [pipelines EXCEPT ![d] = @ \ {p}]
    /\ active' = [active EXCEPT ![d] = IF @ = p THEN 0 ELSE @]
    /\ UNCHANGED <<objects, shaders, lastId, frame, engine>>

BeginFrame(d, w) ==
    /\ frame[d] = 0
    /\ frame' = [frame EXCEPT ![d] = w]
    /\ active' = [active EXCEPT ![d] = 0]
    /\ UNCHANGED <<tables, engine>>

ApplyPipeline(d, p) ==
    /\ frame[d] # 0 /\ p \in pipelines[d]
    /\ active' = [active EXCEPT ![d] = p]
    /\ UNCHANGED <<tables, frame, engine>>

\* Of the window that began it.
EndFrame(d) ==
    /\ frame[d] # 0
    /\ frame' = [frame EXCEPT ![d] = 0]
    /\ active' = [active EXCEPT ![d] = 0]
    /\ UNCHANGED <<tables, engine>>

\* What destroy does with the tables.
ClearTables(d) ==
    /\ objects' = [objects EXCEPT ![d] = {}]
    /\ shaders' = [shaders EXCEPT ![d] = {}]
    /\ pipelines' = [pipelines EXCEPT ![d] = {}]
    /\ frame' = [frame EXCEPT ![d] = 0]
    /\ active' = [active EXCEPT ![d] = 0]
    /\ engine' = engine \ Made(d)
    /\ UNCHANGED lastId

----------------------------------------------------------------------------
(* The engine's objects are those of the tables, each in one slot; only a  *)
(* frame has a pipeline, and it is one that is there.                      *)
EngineMatchesTables ==
    /\ engine = UNION {Made(d) : d \in Devices}
    /\ \A d \in Devices : active[d] # 0 => frame[d] # 0 /\ active[d] \in pipelines[d]
=============================================================================
