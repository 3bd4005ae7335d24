--------------------------- MODULE FsWatchNative ---------------------------
(***************************************************************************)
(* The native file watcher (providers/os_native/                           *)
(* obi_provider_os_native_v0.c): a poll compares what stat says of every   *)
(* watched path with what it said last.  It looks at all paths twice, once *)
(* to count and once to report, and the files change between any two       *)
(* looks.                                                                  *)
(***************************************************************************)
EXTENDS Integers, Sequences, FiniteSets, SequencesExt

CONSTANTS
    Paths,
    MaxTime        \* bound: a file is changed that often

VARIABLES
    file,          \* the state of every path: Absent or its time
    items,         \* the watched paths, in order
    baseline,      \* per path: the state the watcher compares with
    told,          \* ghost: the state the caller knows of
    pass, at,      \* the poll in progress: its pass (0: none) and item
    found,         \* changes the first pass has counted
    events,        \* events of the second pass: [path, kind, to]
    forgotten      \* ghost: a second pass failed after it had moved the baseline

vars == <<file, items, baseline, told, pass, at, found, events, forgotten>>

Absent == 0

Init ==
    /\ file \in [Paths -> {Absent, 1}]
    /\ items = <<>> /\ events = <<>>
    /\ baseline = [p \in Paths |-> Absent]
    /\ told = [p \in Paths |-> Absent]
    /\ pass = 0 /\ at = 0 /\ found = 0
    /\ forgotten = {}

\* Bound: times grow up to MaxTime.
Write(p) ==
    /\ \E t \in 1 .. MaxTime : t > file[p] /\ file' = [file EXCEPT ![p] = t]
    /\ UNCHANGED <<items, baseline, told, pass, at, found, events, forgotten>>

Unlink(p) ==
    /\ file[p] # Absent
    /\ file' = [file EXCEPT ![p] = Absent]
    /\ UNCHANGED <<items, baseline, told, pass, at, found, events, forgotten>>

----------------------------------------------------------------------------
AddWatch(p) ==
    /\ pass = 0 /\ p \notin ToSet(items)
    /\ items' = Append(items, p)
    /\ baseline' = [baseline EXCEPT ![p] = file[p]]
    /\ told' = [told EXCEPT ![p] = file[p]]
    /\ forgotten' = forgotten \ {p}
    /\ UNCHANGED <<file, pass, at, found, events>>

RemoveWatch(p) ==
    /\ pass = 0
    /\ \E n \in DOMAIN items : items[n] = p /\ items' = RemoveAt(items, n)
    /\ UNCHANGED <<file, baseline, told, pass, at, found, events, forgotten>>

PollBegin ==
    /\ pass = 0 /\ items # <<>>
    /\ pass' = 1 /\ at' = 1 /\ found' = 0 /\ events' = <<>>
    /\ UNCHANGED <<file, items, baseline, told, forgotten>>

\* Fault variant: the counting pass moves the baseline already.
CountOneMoves ==
    /\ pass = 1 /\ at <= Len(items)
    /\ LET p == items[at] IN
        /\ found' = IF file[p] # baseline[p] THEN found + 1 ELSE found
        /\ baseline' = [baseline EXCEPT ![p] = file[p]]
    /\ at' = at + 1
    /\ UNCHANGED <<file, items, told, pass, events, forgotten>>

CountOne ==
    /\ pass = 1 /\ at <= Len(items)
    /\ LET p == items[at] IN found' = IF file[p] # baseline[p] THEN found + 1 ELSE found
    /\ at' = at + 1
    /\ UNCHANGED <<file, items, baseline, told, pass, events, forgotten>>

\* Nothing changed, or no memory for the batch.
CountEnds ==
    /\ pass = 1 /\ at > Len(items)
    /\ \/ pass' = 0 /\ at' = 0
       \/ found > 0 /\ pass' = 2 /\ at' = 1
    /\ UNCHANGED <<file, items, baseline, told, found, events, forgotten>>

Kind(was, is) ==
    CASE was = Absent -> "create"
      [] is = Absent -> "remove"
      [] OTHER -> "modify"

ReportOne ==
    /\ pass = 2 /\ at <= Len(items)
    /\ LET p == items[at] IN
        /\ events' = IF file[p] = baseline[p] THEN events
                     ELSE Append(events, [path |-> p, to |-> file[p],
                                          kind |-> Kind(baseline[p], file[p])])
        /\ baseline' = [baseline EXCEPT ![p] = file[p]]
    /\ at' = at + 1
    /\ UNCHANGED <<file, items, told, pass, found, forgotten>>

\* The batch may be empty when the files have changed back.
ReportEnds ==
    /\ pass = 2 /\ at > Len(items)
    /\ pass' = 0 /\ at' = 0
    /\ told' = [p \in Paths |->
                  IF \E n \in DOMAIN events : events[n].path = p
                  THEN baseline[p] ELSE told[p]]
    /\ UNCHANGED <<file, items, baseline, found, events, forgotten>>

\* stat fails: the batch is released, the baseline stays as far as it has come.
StatFails ==
    /\ pass # 0 /\ at <= Len(items)
    /\ pass' = 0 /\ at' = 0
    /\ forgotten' = forgotten \cup {events[n].path : n \in DOMAIN events}
    /\ events' = <<>>
    /\ UNCHANGED <<file, items, baseline, told, found>>

Next ==
    \/ \E p \in Paths : Write(p) \/ Unlink(p) \/ AddWatch(p) \/ RemoveWatch(p)
    \/ PollBegin \/ CountOne \/ CountEnds \/ ReportOne \/ ReportEnds \/ StatFails

Spec == Init /\ [][Next]_vars

----------------------------------------------------------------------------
(* Between polls the watcher compares with the state the caller knows of,  *)
(* so that a difference is still there for the next poll; only a stat that *)
(* fails while a poll reports can make it forget one.                      *)
NothingForgotten ==
    pass = 0 => \A p \in ToSet(items) : baseline[p] = told[p] \/ p \in forgotten

(* The events of a path are a possible history: it is created only when    *)
(* the caller knew it as absent, and modified or removed only when not.    *)
EventsFollow ==
    \A n \in DOMAIN events :
        LET e == events[n] IN
        pass = 2 /\ e.path \notin forgotten =>
            /\ e.kind = "create" <=> told[e.path] = Absent
            /\ e.kind = "remove" <=> e.to = Absent
=============================================================================
