---------------------------- MODULE GpioLibgpiod ----------------------------
(***************************************************************************)
(* hw.gpio over libgpiod 2 (providers/hw_gpio_libgpiod/                    *)
(* obi_provider_hw_gpio_libgpiod_v0.c): a table of line slots.  Opening a  *)
(* line takes one object of the library after the other.  The kernel       *)
(* (external) gives a line to one request at a time and queues the edges   *)
(* the request asked for; that this queue runs over is not modelled.  One  *)
(* thread uses the provider.                                               *)
(***************************************************************************)
EXTENDS Integers, Sequences, FiniteSets

CONSTANTS
    MaxLines,      \* OBI_GPIO_LIBGPIOD_MAX_LINES
    Offsets,       \* lines of the chip
    MaxIds,        \* bound: ids of lines stay below it
    MaxEdges       \* bound: edges in all

VARIABLES
    slot,          \* per slot: [id, offset, output, edges, held]; id 0: unused
    nextId,
    opening,       \* the open in progress: none or [slot, stage]
    waiting,       \* the event_next in progress: none or [slot, stage, forever, late]
    requested,     \* kernel: lines given to a request
    edge,          \* kernel: per line, edges queued
    count,         \* edges so far
    occurred,      \* ghost, per slot: edges of its line since it was opened
    reported       \* ghost, per slot: edges event_next has told

kernel == <<requested, edge, count, occurred>>
vars == <<slot, nextId, opening, waiting, kernel, reported>>

Slots == 1 .. MaxLines
Free == [id |-> 0, offset |-> {}, output |-> FALSE, edges |-> {}, held |-> {}]
Configs == {"req_cfg", "line_cfg", "settings"}

Init ==
    /\ slot = [s \in Slots |-> Free]
    /\ nextId = 0 /\ count = 0
    /\ opening = {} /\ waiting = {} /\ requested = {}
    /\ edge = [o \in Offsets |-> <<>>]
    /\ occurred = [s \in Slots |-> <<>>]
    /\ reported = [s \in Slots |-> <<>>]

Idle == opening = {} /\ waiting = {}
Used(s) == slot[s].id # 0
Hold(s, things) == slot' = [slot EXCEPT ![s].held = @ \cup things]
At(s, stage) == [slot |-> s, stage |-> stage] \in opening
Reach(s, stage) == opening' = {[slot |-> s, stage |-> stage]}

----------------------------------------------------------------------------
(* line_open *)

\* The first unused slot; edges are asked for on inputs only.
LineOpen(s) ==
    /\ Idle /\ nextId < MaxIds
    /\ ~ Used(s) /\ \A t \in 1 .. s - 1 : Used(t)
    /\ \E o \in Offsets, output \in BOOLEAN, edges \in SUBSET {"rising", "falling"} :
        /\ output => edges = {}
        /\ slot' = [slot EXCEPT ![s] = [Free EXCEPT
               !.id = IF nextId = 0 THEN 1 ELSE nextId,
               !.offset = {o}, !.output = output, !.edges = edges]]
        /\ nextId' = (IF nextId = 0 THEN 1 ELSE nextId) + 1
    /\ Reach(s, "chip")
    /\ UNCHANGED <<waiting, kernel, reported>>

ChipOpen(s) ==
    /\ At(s, "chip")
    /\ \/ Hold(s, {"chip"}) /\ Reach(s, "config")
       \/ Reach(s, "fail") /\ UNCHANGED slot
    /\ UNCHANGED <<nextId, waiting, kernel, reported>>

\* All three are asked for before the first is looked at.
Configure(s) ==
    /\ At(s, "config")
    /\ \E got \in SUBSET Configs :
        /\ Hold(s, got)
        /\ Reach(s, IF got = Configs THEN "settings" ELSE "fail")
    /\ UNCHANGED <<nextId, waiting, kernel, reported>>

\* Any of the setters may fail; the event buffer is for lines with edges.
Settle(s) ==
    /\ At(s, "settings")
    /\ \/ /\ Hold(s, IF slot[s].edges = {} THEN {} ELSE {"event_buffer"})
          /\ Reach(s, "request")
       \/ Reach(s, "fail") /\ UNCHANGED slot
    /\ UNCHANGED <<nextId, waiting, kernel, reported>>

Request(s) ==
    /\ At(s, "request")
    /\ \/ /\ slot[s].offset \cap requested = {}
          /\ requested' = requested \cup slot[s].offset
          /\ slot' = [slot EXCEPT ![s].held = (@ \ Configs) \cup {"request"}]
          /\ opening' = {}
       \/ Reach(s, "fail") /\ UNCHANGED <<slot, requested>>
    /\ UNCHANGED <<nextId, waiting, edge, count, occurred, reported>>

\* Fault variant: the cleanup forgets the event buffer.
OpenCleanupPartial(s) ==
    slot[s].held \ {"settings", "line_cfg", "req_cfg", "chip"}

\* What the cleanup leaves behind.
OpenCleanup(s) ==
    slot[s].held \ {"event_buffer", "settings", "line_cfg", "req_cfg", "chip"}

\* The slot is wiped whatever it pointed to.
OpenFails(s) ==
    /\ At(s, "fail")
    /\ slot' = [slot EXCEPT ![s] = [Free EXCEPT !.held = OpenCleanup(s)]]
    /\ opening' = {}
    /\ UNCHANGED <<nextId, waiting, kernel, reported>>

LineClose(s) ==
    /\ Idle /\ Used(s)
    /\ slot' = [slot EXCEPT ![s] =
           [Free EXCEPT !.held = slot[s].held \ {"event_buffer", "request", "chip"}]]
    /\ requested' = requested \ slot[s].offset
    /\ edge' = [o \in Offsets |-> IF o \in slot[s].offset THEN <<>> ELSE edge[o]]
    /\ occurred' = [occurred EXCEPT ![s] = <<>>]
    /\ reported' = [reported EXCEPT ![s] = <<>>]
    /\ UNCHANGED <<nextId, opening, waiting, count>>

----------------------------------------------------------------------------
(* event_next *)

Watching(s) == Used(s) /\ "event_buffer" \in slot[s].held /\ "request" \in slot[s].held

Edge(s) ==
    /\ Watching(s) /\ count < MaxEdges /\ count' = count + 1
    /\ \E kind \in slot[s].edges, o \in slot[s].offset :
        /\ edge' = [edge EXCEPT ![o] = Append(@, <<kind, count>>)]
        /\ occurred' = [occurred EXCEPT ![s] = Append(@, <<kind, count>>)]
    /\ UNCHANGED <<slot, nextId, opening, waiting, requested, reported>>

Queued(s) == edge[CHOOSE o \in Offsets : o \in slot[s].offset]

EventNext(s) ==
    /\ Idle /\ Watching(s)
    /\ \E forever \in BOOLEAN :
           waiting' = {[slot |-> s, stage |-> "check", forever |-> forever,
                        late |-> Queued(s) # <<>>]}
    /\ UNCHANGED <<slot, nextId, opening, kernel, reported>>

\* The token is looked at before each wait of five milliseconds.
EventCheck ==
    /\ waiting # {}
    /\ \E w \in waiting :
        /\ w.stage = "check"
        /\ \/ waiting' = {[w EXCEPT !.stage = "wait"]}
           \/ waiting' = {}
    /\ UNCHANGED <<slot, nextId, opening, kernel, reported>>

\* The edge at the head is read and told at once.
EventRead ==
    \E w \in waiting, o \in Offsets :
        /\ w.stage = "wait" /\ o \in slot[w.slot].offset /\ edge[o] # <<>>
        /\ edge' = [edge EXCEPT ![o] = Tail(@)]
        /\ reported' = [reported EXCEPT ![w.slot] = Append(@, Head(edge[o]))]
        /\ waiting' = {}
        /\ UNCHANGED <<slot, nextId, opening, requested, count, occurred>>

\* Nothing within the wait: the time is over, or it is not and the loop goes on.
EventNone ==
    \E w \in waiting :
        /\ w.stage = "wait" /\ Queued(w.slot) = <<>>
        /\ \/ ~ w.forever /\ waiting' = {}
           \/ waiting' = {[w EXCEPT !.stage = "check"]}
        /\ UNCHANGED <<slot, nextId, opening, kernel, reported>>

\* The library's wait or its reading fails; the edges stay with the kernel.
EventFails ==
    \E w \in waiting :
        /\ w.stage = "wait"
        /\ waiting' = {}
        /\ UNCHANGED <<slot, nextId, opening, kernel, reported>>

----------------------------------------------------------------------------
Next ==
    \/ \E s \in Slots :
        \/ LineOpen(s) \/ ChipOpen(s) \/ Configure(s) \/ Settle(s) \/ Request(s)
        \/ OpenFails(s) \/ LineClose(s) \/ Edge(s) \/ EventNext(s)
    \/ EventCheck \/ EventRead \/ EventNone \/ EventFails

Spec == Init /\ [][Next]_vars

----------------------------------------------------------------------------
(* A slot holds the library's objects exactly while it is used, and the    *)
(* kernel's lines are those of the open slots: no step of open that fails  *)
(* and no close leaves a chip open or a line taken.                        *)
LinesAreOwned ==
    opening = {} =>
        /\ \A s \in Slots :
            slot[s].held = IF ~ Used(s) THEN {}
                           ELSE {"chip", "request"} \cup
                                (IF slot[s].edges = {} THEN {} ELSE {"event_buffer"})
        /\ requested = UNION {slot[s].offset : s \in Slots}

(* Every edge is told once and in order, whatever waits are cancelled or   *)
(* run out of time.                                                        *)
EdgesInOrder ==
    \A s \in Slots : Watching(s) => reported[s] \o Queued(s) = occurred[s]
=============================================================================
