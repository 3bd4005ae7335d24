\* Buses, lines, windows, GPU devices and physics worlds.
SPECIFICATION Spec
CONSTANTS
    Subs = {s1, s2}
    Members = {m1, m2}
    Names = {n1}
    Synthetic = Synthetic
    MaxSignals = 2
    MaxLines = 2
    Offsets = {o1, o2}
    MaxLineIds = 4
    MaxEdges = 3
    Instances = {i1, i2}
    MaxWindows = 2
    MaxTextures = 2
    SdlDevices = {d1}
    SokolDevices = {d1, d2, d3}
    SdlWindows = {1, 2}
    SokolWindows = {1}
    SdlIds = 4
    SokolIds = 2
    MaxBodies = 2
    MaxColliders = 3
    MaxIds = 3
    MaxEvents = 3
INVARIANTS
    EventsInOrder
    LinesAreOwned
    TablesMatchEngine
    DeviceIsHeld
    ContactsAddUp
PROPERTIES
    LateNextAnswers
\* The connection and everything else is destroyed at last.
CHECK_DEADLOCK FALSE
