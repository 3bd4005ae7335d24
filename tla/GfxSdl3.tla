------------------------------ MODULE GfxSdl3 -------------------------------
(***************************************************************************)
(* Windows and 2D rendering over SDL 3 (providers/gfx_sdl3/                *)
(* obi_provider_gfx_sdl3_v0.c).  Every instance has its tables; they share *)
(* one SDL (external), which counts who has initialised its video and, at  *)
(* the end of it, destroys all windows.  A renderer that goes takes its    *)
(* textures along.  Ids are not reused within the bounds.                  *)
(***************************************************************************)
EXTENDS Integers, FiniteSets

CONSTANTS
    Instances,     \* provider instances
    MaxWindows,    \* bound: windows of an instance in all
    MaxTextures    \* bound: textures of an instance in all

VARIABLES
    ready,         \* instances that are not destroyed
    windows,       \* per instance: ids in its table
    textures,      \* per instance: [id, owner, on]; "on" is the window of the renderer
    lastWindow, lastTexture,     \* per instance: ids given out
    current,       \* per instance: window of the frame under way, or 0
    videoInited,   \* instances that have initialised the video
    videoRefs,     \* SDL: initialisations not yet undone
    sdlWindows,    \* SDL: [inst, id] of living windows
    sdlTextures,   \* SDL: [inst, id] of living textures
    cutOff         \* ghost: the video ended under the windows of another instance

tables == <<windows, textures, lastWindow, lastTexture, current>>
sdl == <<videoRefs, sdlWindows, sdlTextures>>
vars == <<ready, tables, videoInited, sdl, cutOff>>

Of(i, ids) == {[inst |-> i, id |-> n] : n \in ids}
Ids(things) == {t.id : t \in things}

Init ==
    /\ ready = Instances
    /\ windows = [i \in Instances |-> {}]
    /\ textures = [i \in Instances |-> {}]
    /\ lastWindow = [i \in Instances |-> 0]
    /\ lastTexture = [i \in Instances |-> 0]
    /\ current = [i \in Instances |-> 0]
    /\ videoInited = {} /\ videoRefs = 0
    /\ sdlWindows = {} /\ sdlTextures = {}
    /\ cutOff = FALSE

\* An instance that finds the video there takes no part in the count.
EnsureVideo(i) ==
    IF videoRefs > 0 THEN UNCHANGED <<videoInited, videoRefs>>
    ELSE videoInited' = videoInited \cup {i} /\ videoRefs' = videoRefs + 1

\* Without memory, a window or a renderer only the video stays.
WindowCreate(i) ==
    /\ i \in ready /\ lastWindow[i] < MaxWindows
    /\ EnsureVideo(i)
    /\ \/ LET id == lastWindow[i] + 1 IN
          /\ windows' = [windows EXCEPT ![i] = @ \cup {id}]
          /\ lastWindow' = [lastWindow EXCEPT ![i] = id]
          /\ sdlWindows' = sdlWindows \cup Of(i, {id})
       \/ UNCHANGED <<windows, lastWindow, sdlWindows>>
    /\ UNCHANGED <<ready, textures, lastTexture, current, sdlTextures, cutOff>>

\* The textures that go with a window: those of its frames from the table, all of
\* its renderer in SDL.
Owned(i, w) == {t \in textures[i] : t.owner = w}
OnRenderer(i, w) == {t \in textures[i] : t.on = w}

\* Fault variant: the textures of the window's frames stay in the table.
WindowDestroyAlone(i, w) ==
    /\ i \in ready /\ w \in windows[i]
    /\ sdlTextures' = sdlTextures \ Of(i, Ids(OnRenderer(i, w)))
    /\ sdlWindows' = sdlWindows \ Of(i, {w})
    /\ windows' = [windows EXCEPT ![i] = @ \ {w}]
    /\ current' = [current EXCEPT ![i] = IF @ = w THEN 0 ELSE @]
    /\ UNCHANGED <<ready, textures, lastWindow, lastTexture, videoInited, videoRefs, cutOff>>

WindowDestroy(i, w) ==
    /\ i \in ready /\ w \in windows[i]
    /\ textures' = [textures EXCEPT ![i] = @ \ Owned(i, w)]
    /\ sdlTextures' = sdlTextures \ Of(i, Ids(Owned(i, w) \cup OnRenderer(i, w)))
    /\ sdlWindows' = sdlWindows \ Of(i, {w})
    /\ windows' = [windows EXCEPT ![i] = @ \ {w}]
    /\ current' = [current EXCEPT ![i] = IF @ = w THEN 0 ELSE @]
    /\ UNCHANGED <<ready, lastWindow, lastTexture, videoInited, videoRefs, cutOff>>

\* The window of the frame, or else the only window.
CurrentRenderer(i) ==
    IF current[i] # 0 THEN {current[i]}
    ELSE IF Cardinality(windows[i]) = 1 THEN windows[i] ELSE {}

\* Outside of a frame a texture belongs to no window, whatever its renderer.
TextureCreate(i) ==
    /\ i \in ready /\ lastTexture[i] < MaxTextures
    /\ \E w \in CurrentRenderer(i) :
        /\ Of(i, {w}) \subseteq sdlWindows
        /\ LET id == lastTexture[i] + 1 IN
           /\ textures' = [textures EXCEPT
                  ![i] = @ \cup {[id |-> id, owner |-> current[i], on |-> w]}]
           /\ lastTexture' = [lastTexture EXCEPT ![i] = id]
           /\ sdlTextures' = sdlTextures \cup Of(i, {id})
    /\ UNCHANGED <<ready, windows, lastWindow, current, videoInited, videoRefs, sdlWindows, cutOff>>

TextureDestroy(i, t) ==
    /\ i \in ready /\ t \in textures[i]
    /\ textures' = [textures EXCEPT ![i] = @ \ {t}]
    /\ sdlTextures' = sdlTextures \ Of(i, {t.id})
    /\ UNCHANGED <<ready, windows, lastWindow, lastTexture, current, videoInited, videoRefs,
                   sdlWindows, cutOff>>

\* A frame may begin while another is under way.
BeginFrame(i, w) ==
    /\ i \in ready /\ w \in windows[i]
    /\ current' = [current EXCEPT ![i] = w]
    /\ UNCHANGED <<ready, windows, textures, lastWindow, lastTexture, videoInited, sdl, cutOff>>

\* Any window may be presented; the frame ends if it is its own and that succeeds.
EndFrame(i, w) ==
    /\ i \in ready /\ w \in windows[i] /\ current[i] = w
    /\ Of(i, {w}) \subseteq sdlWindows
    /\ current' = [current EXCEPT ![i] = 0]
    /\ UNCHANGED <<ready, windows, textures, lastWindow, lastTexture, videoInited, sdl, cutOff>>

\* Everything in the tables goes, then the video if this instance brought it up.
Destroy(i) ==
    /\ i \in ready /\ ready' = ready \ {i}
    /\ windows' = [windows EXCEPT ![i] = {}]
    /\ textures' = [textures EXCEPT ![i] = {}]
    /\ current' = [current EXCEPT ![i] = 0]
    /\ videoInited' = videoInited \ {i}
    /\ videoRefs' = IF i \in videoInited THEN videoRefs - 1 ELSE videoRefs
    /\ LET left == {w \in sdlWindows : w.inst # i}
           quit == i \in videoInited /\ videoRefs' = 0
       IN  /\ sdlWindows' = IF quit THEN {} ELSE left
           /\ sdlTextures' = IF quit THEN {} ELSE {t \in sdlTextures : t.inst # i}
           /\ cutOff' = (cutOff \/ (quit /\ left # {}))
    /\ UNCHANGED <<lastWindow, lastTexture>>

Next ==
    \E i \in Instances :
        \/ WindowCreate(i) \/ TextureCreate(i) \/ Destroy(i)
        \/ \E w \in windows[i] : WindowDestroy(i, w) \/ BeginFrame(i, w) \/ EndFrame(i, w)
        \/ \E t \in textures[i] : TextureDestroy(i, t)

Spec == Init /\ [][Next]_vars

----------------------------------------------------------------------------
(* A texture made outside of a frame stays in the table when its window    *)
(* goes.                                                                   *)
Orphan(i, t) == t.owner = 0 /\ t.on \notin windows[i]

(* SDL has the windows and textures of the tables and no others, a frame   *)
(* is of a window that is there, and its textures are that window's: unless *)
(* an instance that brought the video up has ended it for the others.      *)
TablesMatchSdl ==
    ~ cutOff =>
        /\ sdlWindows = UNION {Of(i, windows[i]) : i \in Instances}
        /\ sdlTextures =
            UNION {Of(i, Ids({t \in textures[i] : ~ Orphan(i, t)})) : i \in Instances}
        /\ \A i \in Instances : current[i] \in windows[i] \cup {0}
=============================================================================
