----------------------------- MODULE MCDevices ------------------------------
(* Handles to something outside, of whichever provider the runtime has bound:*)
(* a bus, GPIO lines, windows, GPU devices or a physics world.               *)
(* Buses: two subscriptions, two names of signals, two signals.  Lines: two  *)
(* slots for two lines, opened up to three times, three edges.  SDL: two     *)
(* instances of two windows and textures each.  GPU: one device on SDL,      *)
(* three on sokol.  Physics: two bodies, three colliders, a queue of three   *)
(* events.                                                                   *)
EXTENDS BusNative, FiniteSets

CONSTANTS
    MaxLines, Offsets, MaxLineIds, MaxEdges,             \* libgpiod
    Instances, MaxWindows, MaxTextures,                  \* sdl3
    SdlDevices, SokolDevices, SdlWindows, SokolWindows,  \* gpu devices
    SdlIds, SokolIds,
    MaxBodies, MaxColliders, MaxIds, MaxEvents           \* physics

\* One device on SDL, a finite number of instances on sokol; window ids as they are
\* given out, where 0 is no window of SDL.
ASSUME OneSdlDevice == \E d \in SdlDevices : SdlDevices = {d}
ASSUME SokolIsShared == IsFiniteSet(SokolDevices)
ASSUME WindowsAreIds == SdlWindows \subseteq Nat \ {0} /\ SokolWindows \subseteq Nat

VARIABLES
    provider,
    owned, net, call, stage,                                   \* dbus1
    slot, nextId, opening, waiting, requested, edge, occurred, reported,   \* libgpiod
    ready, windows, textures, lastWindow, lastTexture, current, videoInited,
    videoRefs, sdlWindows, sdlTextures, cutOff,                \* sdl3
    objects, shaders, pipelines, frame, active, lastId, engine,\* both gpu devices
    device, command, upload, transfers, commands,              \* gpu on sdl3
    at, refs, seen, spin, valid,                               \* gpu on sokol
    bodies, colliders, bodyId, colliderId, touching, told,     \* both worlds
    pending, dropped,                                          \* chipmunk
    begins, ends, endsNext, drained, missed                    \* box2d

Dbus == INSTANCE BusDbus1
Gpio == INSTANCE GpioLibgpiod WITH MaxIds <- MaxLineIds
Sdl == INSTANCE GfxSdl3
SdlGpu == INSTANCE GpuSdl3 WITH Devices <- SdlDevices, Windows <- SdlWindows, MaxGpuIds <- SdlIds
Sokol == INSTANCE GpuSokol WITH Devices <- SokolDevices, Windows <- SokolWindows, MaxGpuIds <- SokolIds
Chipmunk == INSTANCE PhysChipmunk
Box2d == INSTANCE PhysBox2d

busVars == <<subscriptions, count, open, name>>
dbusVars == <<owned, net, call, stage>>
gpioVars == <<slot, nextId, opening, waiting, requested, edge, occurred, reported>>
sdlVars == <<ready, windows, textures, lastWindow, lastTexture, current, videoInited,
             videoRefs, sdlWindows, sdlTextures, cutOff>>
gpuVars == <<objects, shaders, pipelines, frame, active, lastId, engine>>
sdlGpuVars == <<device, command, upload, transfers, commands>>
sokolVars == <<at, refs, seen, spin, valid>>
worldVars == <<bodies, colliders, bodyId, colliderId, touching, told>>
chipmunkVars == <<pending, dropped>>
box2dVars == <<begins, ends, endsNext, drained, missed>>
vars == <<provider, busVars, dbusVars, gpioVars, sdlVars, gpuVars, sdlGpuVars, sokolVars,
          worldVars, chipmunkVars, box2dVars>>

IsNative == provider = "bus_native"
IsDbus == provider = "dbus1"
IsGpio == provider = "libgpiod"
IsSdl == provider = "gfx_sdl3"
IsSdlGpu == provider = "gpu_sdl3"
IsSokol == provider = "gpu_sokol"
IsChipmunk == provider = "chipmunk"
IsBox2d == provider = "box2d"

NoBus == /\ table = 0 /\ filter = 0 /\ queue = 0 /\ expected = 0 /\ taken = 0
         /\ open = 0 /\ name = 0
NoDbus == owned = 0 /\ net = 0 /\ call = 0 /\ stage = 0
NoGpio == /\ slot = 0 /\ nextId = 0 /\ opening = 0 /\ waiting = 0
          /\ requested = 0 /\ edge = 0 /\ occurred = 0 /\ reported = 0
NoSdl == /\ ready = 0 /\ windows = 0 /\ textures = 0 /\ lastWindow = 0 /\ lastTexture = 0
         /\ current = 0 /\ videoInited = 0 /\ videoRefs = 0 /\ sdlWindows = 0
         /\ sdlTextures = 0 /\ cutOff = 0
NoGpu == /\ objects = 0 /\ shaders = 0 /\ pipelines = 0 /\ frame = 0 /\ active = 0
         /\ lastId = 0 /\ engine = 0
NoSdlGpu == device = 0 /\ command = 0 /\ upload = 0 /\ transfers = 0 /\ commands = 0
NoSokol == at = 0 /\ refs = 0 /\ seen = 0 /\ spin = 0 /\ valid = 0
NoWorld == /\ bodies = 0 /\ colliders = 0 /\ bodyId = 0 /\ colliderId = 0
           /\ touching = 0 /\ told = 0
NoChipmunk == pending = 0 /\ dropped = 0
NoBox2d == begins = 0 /\ ends = 0 /\ endsNext = 0 /\ drained = 0 /\ missed = 0

NoSignals == NoBus /\ count = 0 /\ NoDbus /\ NoGpio
NoGraphics == NoSdl /\ NoGpu /\ NoSdlGpu /\ NoSokol
NoPhysics == NoWorld /\ NoChipmunk /\ NoBox2d

SignalsInit ==
    \/ IsNative /\ ConnInit /\ NoDbus /\ NoGpio
    \/ IsDbus /\ Dbus!Init /\ NoGpio
    \/ IsGpio /\ Gpio!Init /\ NoBus /\ NoDbus

GraphicsInit ==
    \/ IsSdl /\ Sdl!Init /\ NoGpu /\ NoSdlGpu /\ NoSokol
    \/ IsSdlGpu /\ SdlGpu!Init /\ NoSdl /\ NoSokol
    \/ IsSokol /\ Sokol!Init /\ NoSdl /\ NoSdlGpu

PhysicsInit ==
    \/ IsChipmunk /\ Chipmunk!Init /\ NoBox2d
    \/ IsBox2d /\ Box2d!Init /\ NoChipmunk

Init ==
    \/ SignalsInit /\ NoGraphics /\ NoPhysics
    \/ GraphicsInit /\ NoSignals /\ NoPhysics
    \/ PhysicsInit /\ NoSignals /\ NoGraphics

SameSignals == UNCHANGED <<busVars, dbusVars, gpioVars>>
SameGraphics == UNCHANGED <<sdlVars, gpuVars, sdlGpuVars, sokolVars>>
SamePhysics == UNCHANGED <<worldVars, chipmunkVars, box2dVars>>

SignalsNext ==
    /\ UNCHANGED provider /\ SameGraphics /\ SamePhysics
    /\ \/ IsNative /\ NativeNext /\ UNCHANGED <<dbusVars, gpioVars>>
       \/ IsDbus /\ Dbus!Next /\ UNCHANGED gpioVars
       \/ IsGpio /\ Gpio!Next /\ UNCHANGED <<subscriptions, open, name, dbusVars>>

GraphicsNext ==
    /\ UNCHANGED provider /\ SameSignals /\ SamePhysics
    /\ \/ IsSdl /\ Sdl!Next /\ UNCHANGED <<gpuVars, sdlGpuVars, sokolVars>>
       \/ IsSdlGpu /\ SdlGpu!Next /\ UNCHANGED <<sdlVars, sokolVars>>
       \/ IsSokol /\ Sokol!Next /\ UNCHANGED <<sdlVars, sdlGpuVars>>

PhysicsNext ==
    /\ UNCHANGED provider /\ SameSignals /\ SameGraphics
    /\ \/ IsChipmunk /\ Chipmunk!Next /\ UNCHANGED box2dVars
       \/ IsBox2d /\ Box2d!Next /\ UNCHANGED chipmunkVars

Spec ==
    /\ Init
    /\ [][SignalsNext \/ GraphicsNext \/ PhysicsNext]_vars

----------------------------------------------------------------------------
\* Each subscription is given, in order and once, the signals it asked for while it
\* existed, and each line its edges.
EventsInOrder ==
    /\ (IsNative \/ IsDbus) => SignalsInOrder
    /\ IsGpio => Gpio!EdgesInOrder

\* A wait that begins after its signal has arrived answers with one, unless it is
\* cancelled or memory runs out; the bus stays connected.
LateNextAnswers == [][IsDbus => Dbus!LateNextAnswered]_vars

\* A line that fails to open or is closed leaves nothing open, here or in the kernel.
LinesAreOwned == IsGpio => Gpio!LinesAreOwned

\* What lives in the engine and what the tables hold are the same: an object
\* destroyed or taken along by another is forgotten on both sides.  Left out on SDL
\* are textures made outside of a frame, and every table once an instance that
\* brought the video up has ended it under the windows of another.
TablesMatchEngine ==
    /\ IsSdl => Sdl!TablesMatchSdl
    /\ IsSdlGpu => SdlGpu!EngineMatchesTables
    /\ IsSokol => Sokol!EngineMatchesTables

\* A device lasts as long as somebody works on it, and a transfer to it that fails
\* leaves nothing behind.
DeviceIsHeld ==
    /\ IsSokol => Sokol!SokolIsCounted
    /\ IsSdlGpu => SdlGpu!UploadsClean

\* The contact events a caller is given add up to the pairs that touch.
ContactsAddUp ==
    /\ IsChipmunk => Chipmunk!ContactsAddUp
    /\ IsBox2d => Box2d!ContactsAddUp
=============================================================================
