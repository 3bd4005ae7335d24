------------------------------ MODULE GpuSdl3 -------------------------------
(***************************************************************************)
(* gfx.gpu_device over SDL 3 (providers/gfx_sdl3/                          *)
(* obi_provider_gfx_sdl3_v0.c): one instance, whose device is made        *)
(* with the first object or frame.  Without a device, or when SDL makes no *)
(* object, the slots are given out all the same.  An upload takes a        *)
(* transfer buffer and a command buffer and gives both back.               *)
(***************************************************************************)
EXTENDS GpuDevice

VARIABLES
    device,        \* "none", "ready", "unavailable" or "gone"
    command,       \* the frame has a command buffer
    upload,        \* the next step of the upload under way, or "idle"
    transfers,     \* SDL: transfer buffers alive
    commands       \* SDL: command buffers neither submitted nor cancelled

sdl == <<transfers, commands>>
vars == <<tables, frames, engine, device, command, upload, sdl>>

Init ==
    /\ DeviceInit
    /\ device = "none" /\ command = FALSE /\ upload = "idle"
    /\ transfers = 0 /\ commands = 0

Idle == device # "gone" /\ upload = "idle"

\* Tried once; failing is remembered.
EnsureGpuDevice ==
    device' \in IF device = "none" THEN {"ready", "unavailable"} ELSE {device}

\* An image may be given its pixels by an upload, whose failure the caller is told
\* of while the image stays.  Without memory for a slot the device stays.
ObjectCreate(d) ==
    /\ Idle
    /\ EnsureGpuDevice
    /\ \/ \E made \in BOOLEAN :
            /\ made => device' = "ready"
            /\ Enter(d, made)
            /\ upload' \in IF made THEN {"idle", "transfer"} ELSE {"idle"}
       \/ UNCHANGED <<tables, frames, engine, upload>>
    /\ UNCHANGED <<command, sdl>>

Update(d) ==
    /\ Idle /\ device = "ready" /\ \E o \in objects[d] : o.made
    /\ upload' = "transfer"
    /\ UNCHANGED <<tables, frames, engine, device, command, sdl>>

\* An upload's step and what it holds after it; a step that fails gives everything back.
UploadStep(step, next, took) ==
    /\ upload = step
    /\ \/ /\ upload' = next
          /\ transfers' = transfers + took.transfers
          /\ commands' = commands + took.commands
       \/ /\ step # "submit"
          /\ upload' = "idle"
          /\ transfers' = IF step = "transfer" THEN transfers ELSE transfers - 1
          /\ commands' = IF step = "pass" THEN commands - 1 ELSE commands
    /\ UNCHANGED <<tables, frames, engine, device, command>>

Took(t, c) == [transfers |-> t, commands |-> c]

\* Submitting takes the command buffer, whether it succeeds or not.
Upload ==
    \/ UploadStep("transfer", "map", Took(1, 0))
    \/ UploadStep("map", "acquire", Took(0, 0))
    \/ UploadStep("acquire", "pass", Took(0, 1))
    \/ UploadStep("pass", "submit", Took(0, 0))
    \/ UploadStep("submit", "idle", Took(-1, -1))

\* Frames go on without a command buffer when there is none to be had.
GpuBeginFrame(d, w) ==
    /\ Idle
    /\ EnsureGpuDevice
    /\ BeginFrame(d, w)
    /\ command' \in IF device' = "ready" THEN BOOLEAN ELSE {FALSE}
    /\ commands' = IF command' THEN commands + 1 ELSE commands
    /\ UNCHANGED <<upload, transfers>>

GpuEndFrame(d) ==
    /\ Idle
    /\ EndFrame(d)
    /\ command' = FALSE
    /\ commands' = IF command THEN commands - 1 ELSE commands
    /\ UNCHANGED <<device, upload, transfers>>

\* The frame's command buffer is cancelled, the objects go before the device.
Destroy(d) ==
    /\ Idle
    /\ ClearTables(d)
    /\ device' = "gone" /\ command' = FALSE
    /\ commands' = IF command THEN commands - 1 ELSE commands
    /\ UNCHANGED <<upload, transfers>>

Table(d) ==
    /\ Idle
    /\ \/ ShaderCreate(d) \/ PipelineCreate(d)
       \/ \E o \in objects[d] : ObjectDestroy(d, o)
       \/ \E s \in shaders[d] : ShaderDestroy(d, s)
       \/ \E p \in pipelines[d] : PipelineDestroy(d, p) \/ ApplyPipeline(d, p)
    /\ UNCHANGED <<device, command, upload, sdl>>

Next ==
    \/ Upload
    \/ \E d \in Devices :
        \/ ObjectCreate(d) \/ Update(d) \/ Table(d) \/ GpuEndFrame(d) \/ Destroy(d)
        \/ \E w \in Windows : GpuBeginFrame(d, w)

Spec == Init /\ [][Next]_vars

----------------------------------------------------------------------------
(* Between calls SDL has no transfer buffer left and at most the frame's   *)
(* command buffer, whichever step of an upload failed; the end of the      *)
(* instance leaves neither.                                                *)
UploadsClean ==
    /\ upload = "idle" => transfers = 0 /\ commands = IF command THEN 1 ELSE 0
    /\ command => device = "ready" /\ \E d \in Devices : frame[d] # 0
=============================================================================
