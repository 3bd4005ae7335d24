--------------------------- MODULE ProviderLoader ---------------------------
(***************************************************************************)
(* Loading and unloading of provider modules in src/obi_rt_v0.c, stage by  *)
(* stage: obi_rt_load_provider_path, the metadata capture it calls,        *)
(* obi_rt_load_provider_dir and obi_rt_destroy.  The subject is who owns   *)
(* what: a load acquires a library handle, a provider instance, a copy of  *)
(* the id and the captured legal metadata, can fail after each, and must   *)
(* give back exactly what it has acquired so far.                          *)
(*                                                                         *)
(* The environment chooses the outcome of every stage: the dynamic linker, *)
(* the module under load, and the allocator.                               *)
(***************************************************************************)
EXTENDS Integers, Sequences, FiniteSets

CONSTANTS
    Files,         \* module files
    ProviderIds,
    IdOf,          \* the id the instance of a file reports
    Sources,       \* see Captured below
    Rejected,      \* pairs <<id, source>> the policy in force denies
    FirstCapacity, \* capacity of the provider array after its first growth
    Directories,   \* sorted file lists of the directories that get loaded
    MaxLoads       \* bound on the calls to obi_rt_load_provider_path

ASSUME LoaderAssumption ==
    /\ IdOf \in [Files -> ProviderIds]
    /\ FirstCapacity \in Nat \ {0}
    /\ Directories \subseteq Seq(Files)
    /\ MaxLoads \in Nat

\* Where the effective license of a loaded provider comes from: the typed
\* callback, the legacy JSON, or neither (conservatively unknown).
ASSUME SourceAssumption == Sources = {"typed", "json", "unknown"}

VARIABLES
    pc,          \* stage of the load in progress, "idle" between calls
    file,        \* file of the load in progress
    idCopy,      \* the load holds its copy of the provider id
    legal,       \* pending legal metadata: "none", "partial" or its source
    handles,     \* library handles open per file
    instances,   \* instances per file that exist and have a destroy function
    loaded,      \* rt->providers
    capacity,    \* rt->provider_cap
    todo,        \* files of the directory load in progress
    eager,       \* eager_reject_disallowed_loads
    alive,       \* the runtime has not been destroyed
    loads        \* number of loads begun

vars == <<pc, file, idCopy, legal, handles, instances, loaded, capacity, todo,
          eager, alive, loads>>

resources == <<idCopy, legal, handles, instances>>

Init ==
    /\ pc = "idle"
    /\ file \in Files
    /\ idCopy = FALSE
    /\ legal = "none"
    /\ handles = [f \in Files |-> 0]
    /\ instances = [f \in Files |-> 0]
    /\ loaded = <<>>
    /\ capacity = 0
    /\ todo = <<>>
    /\ eager \in BOOLEAN
    /\ alive = TRUE
    /\ loads = 0

----------------------------------------------------------------------------
(* Releasing *)

DestroyInstance == instances' = [instances EXCEPT ![file] = @ - 1]
CloseLibrary == handles' = [handles EXCEPT ![file] = @ - 1]

\* Every error path of the loader ends the call.
Return == pc' = "idle" /\ UNCHANGED <<file, loaded, capacity, todo, eager, alive, loads>>

GoTo(stage) == pc' = stage /\ UNCHANGED <<file, loaded, capacity, todo, eager, alive, loads>>

\* Errors before an instance exists: the library is closed.
FailOpened == Return /\ CloseLibrary /\ UNCHANGED <<idCopy, legal, instances>>

\* Fault variant: the pending metadata and the id copy are released, the
\* instance is forgotten.
FailCreatedForgetsInstance ==
    /\ GoTo("unload")
    /\ idCopy' = FALSE
    /\ legal' = "none"
    /\ UNCHANGED <<handles, instances>>

\* Errors once an instance exists: free the id copy, reset the pending metadata,
\* destroy the instance, and then, in a step of its own, close the library.
FailCreated ==
    /\ GoTo("unload")
    /\ DestroyInstance
    /\ idCopy' = FALSE
    /\ legal' = "none"
    /\ UNCHANGED handles

Unload == pc = "unload" /\ FailOpened

----------------------------------------------------------------------------
(* obi_rt_load_provider_path *)

Begin(f) ==
    /\ pc = "idle" /\ alive
    /\ loads < MaxLoads
    /\ pc' = "open"
    /\ file' = f
    /\ loads' = loads + 1
    /\ UNCHANGED <<resources, loaded, capacity, eager, alive>>

LoadProviderPath(f) == todo = <<>> /\ Begin(f) /\ UNCHANGED todo

\* dlopen: every success is one more reference to the library.
OpenLibrary ==
    /\ pc = "open"
    /\ \/ Return /\ UNCHANGED resources
       \/ /\ GoTo("factory")
          /\ handles' = [handles EXCEPT ![file] = @ + 1]
          /\ UNCHANGED <<idCopy, legal, instances>>

\* The factory symbol, its ABI version and its size.
CheckFactory ==
    /\ pc = "factory"
    /\ \/ FailOpened
       \/ GoTo("create") /\ UNCHANGED resources

\* factory->create, then the API table.  A table without a destroy function is
\* refused, and what create made cannot be released by anyone; it is not counted.
CreateInstance ==
    /\ pc = "create"
    /\ \/ FailOpened
       \/ /\ GoTo("api")
          /\ instances' = [instances EXCEPT ![file] = @ + 1]
          /\ UNCHANGED <<idCopy, legal, handles>>

CheckApi ==
    /\ pc = "api"
    /\ \/ FailCreated
       \/ GoTo("id") /\ UNCHANGED resources

IdLoaded(id) == \E i \in DOMAIN loaded : loaded[i].id = id

\* Fault variant: no duplicate check.
CopyIdUnchecked ==
    /\ pc = "id"
    /\ GoTo("typed")
    /\ idCopy' = TRUE
    /\ UNCHANGED <<legal, handles, instances>>

\* The duplicate check, then the copy of the id.
CheckAndCopyId ==
    /\ pc = "id"
    /\ \/ FailCreated
       \/ /\ ~ IdLoaded(IdOf[file])
          /\ GoTo("typed")
          /\ idCopy' = TRUE
          /\ UNCHANGED <<legal, handles, instances>>

\* Copying typed metadata: the status, and what is pending afterwards.  Metadata
\* that is refused half way leaves what was copied so far.
FromTyped ==
    {<<"OK", "typed">>, <<"UNSUPPORTED", "none">>, <<"UNSUPPORTED", "partial">>,
     <<"OUT_OF_MEMORY", "partial">>}

\* describe_legal_metadata is absent or fails.
NoTyped == {<<"UNSUPPORTED", "none">>, <<"OUT_OF_MEMORY", "none">>}

\* Only running out of memory fails the load; whatever else is wrong with the
\* typed metadata sends the capture on to the legacy document.
CaptureTyped ==
    /\ pc = "typed"
    /\ \E result \in FromTyped \cup NoTyped :
          \/ result[1] = "OUT_OF_MEMORY" /\ FailCreated
          \/ /\ result[1] # "OUT_OF_MEMORY"
             /\ GoTo(IF result[1] = "OK" THEN "captured" ELSE "json")
             /\ legal' = result[2]
             /\ UNCHANGED <<idCopy, handles, instances>>

\* Parsing describe_json resets the pending metadata first; a missing document
\* gives the conservative unknown terms.
FromLegacyJson == {<<"OK", "json">>, <<"OK", "unknown">>, <<"OUT_OF_MEMORY", "partial">>}

\* Fault variant: without usable JSON, what the typed callback left is kept.
CaptureLegacyJsonKeepsPartial ==
    /\ pc = "json"
    /\ \E result \in FromLegacyJson :
          \/ result[1] = "OUT_OF_MEMORY" /\ FailCreated
          \/ /\ result[1] = "OK"
             /\ GoTo("captured")
             /\ legal' = IF result[2] = "unknown" /\ legal = "partial" THEN legal ELSE result[2]
             /\ UNCHANGED <<idCopy, handles, instances>>

CaptureLegacyJson ==
    /\ pc = "json"
    /\ \E result \in FromLegacyJson :
          \/ result[1] = "OUT_OF_MEMORY" /\ FailCreated
          \/ /\ result[1] = "OK"
             /\ GoTo("captured")
             /\ legal' = result[2]
             /\ UNCHANGED <<idCopy, handles, instances>>

\* Fault variant: denied providers are left to the selection filters.
CheckPolicySkipped == pc = "captured" /\ GoTo("admit") /\ UNCHANGED resources

\* The eager check looks at the id and at the license facts just captured.
CheckPolicy ==
    /\ pc = "captured"
    /\ IF eager /\ <<IdOf[file], legal>> \in Rejected
       THEN FailCreated
       ELSE GoTo("admit") /\ UNCHANGED resources

\* Growing the provider array when it is full, then the append, which takes over
\* the handle, the instance, the id copy and the metadata.
Grown == IF capacity = 0 THEN FirstCapacity ELSE 2 * capacity

Admit ==
    /\ pc = "admit"
    /\ \/ Len(loaded) = capacity /\ FailCreated
       \/ /\ loaded' = Append(loaded, [file |-> file, id |-> IdOf[file], source |-> legal])
          /\ capacity' = IF Len(loaded) = capacity THEN Grown ELSE capacity
          /\ idCopy' = FALSE
          /\ legal' = "none"
          /\ pc' = "idle"
          /\ UNCHANGED <<file, handles, instances, todo, eager, alive, loads>>

LoadStep ==
    \/ OpenLibrary \/ CheckFactory \/ CreateInstance \/ CheckApi \/ CheckAndCopyId
    \/ CaptureTyped \/ CaptureLegacyJson \/ CheckPolicy \/ Admit \/ Unload

----------------------------------------------------------------------------
(* obi_rt_load_provider_dir: every file in turn, whatever became of the others *)

LoadProviderDir(files) ==
    /\ pc = "idle" /\ alive /\ todo = <<>>
    /\ files # <<>>
    /\ loads + Len(files) <= MaxLoads
    /\ todo' = files
    /\ UNCHANGED <<pc, file, resources, loaded, capacity, eager, alive, loads>>

NextFile ==
    /\ todo # <<>>
    /\ Begin(Head(todo))
    /\ todo' = Tail(todo)

----------------------------------------------------------------------------
(* obi_rt_destroy: in load order, each provider is destroyed and then its     *)
(* library is closed                                                        *)

\* Admitted providers of file f: each owns one handle and one instance.
Owned(f) == Cardinality({i \in DOMAIN loaded : loaded[i].file = f})

DestroyBegin ==
    /\ pc = "idle" /\ alive /\ todo = <<>>
    /\ pc' = "destroy"
    /\ alive' = FALSE
    /\ UNCHANGED <<file, resources, loaded, capacity, todo, eager, loads>>

\* Fault variant: the library is closed before the instance it implements.
DestroyProviderClosesFirst ==
    /\ pc = "destroy" /\ loaded # <<>>
    /\ pc' = "close"
    /\ file' = Head(loaded).file
    /\ handles' = [handles EXCEPT ![Head(loaded).file] = @ - 1]
    /\ UNCHANGED <<idCopy, legal, instances, loaded, capacity, todo, eager, alive, loads>>

DestroyProvider ==
    /\ pc = "destroy" /\ loaded # <<>>
    /\ pc' = "close"
    /\ file' = Head(loaded).file
    /\ instances' = [instances EXCEPT ![Head(loaded).file] = @ - 1]
    /\ UNCHANGED <<idCopy, legal, handles, loaded, capacity, todo, eager, alive, loads>>

CloseProvider ==
    /\ pc = "close"
    /\ pc' = "destroy"
    /\ CloseLibrary
    /\ loaded' = Tail(loaded)
    /\ UNCHANGED <<file, idCopy, legal, instances, capacity, todo, eager, alive, loads>>

FreeAll ==
    /\ pc = "destroy" /\ loaded = <<>>
    /\ pc' = "idle"
    /\ capacity' = 0
    /\ UNCHANGED <<file, resources, loaded, todo, eager, alive, loads>>

DestroyStep == DestroyProvider \/ CloseProvider \/ FreeAll

SetEager ==
    /\ pc = "idle" /\ alive /\ todo = <<>>
    /\ eager' = ~ eager
    /\ UNCHANGED <<pc, file, resources, loaded, capacity, todo, alive, loads>>

Next ==
    \/ \E f \in Files : LoadProviderPath(f)
    \/ \E files \in Directories : LoadProviderDir(files)
    \/ NextFile
    \/ LoadStep
    \/ DestroyBegin
    \/ DestroyStep
    \/ SetEager

Spec == Init /\ [][Next]_vars

----------------------------------------------------------------------------
(* Properties *)

\* What the call in progress owns of file f beyond the admitted providers; the
\* teardown has destroyed the instance of the provider it is about to close.
PendingHandles(f) ==
    IF f = file /\ pc \notin {"idle", "open", "destroy", "close"} THEN 1 ELSE 0
PendingInstances(f) ==
    IF f # file THEN 0
    ELSE IF pc = "close" THEN -1
    ELSE IF pc \in {"idle", "open", "factory", "create", "unload", "destroy"} THEN 0
    ELSE 1

\* No leak and no double release on any error path: at every stage the open
\* handles and live instances are those of the admitted providers plus the ones
\* the load in progress has acquired; between calls no id copy or metadata is held.
NothingLeaked ==
    /\ \A f \in Files : handles[f] = Owned(f) + PendingHandles(f)
    /\ \A f \in Files : instances[f] = Owned(f) + PendingInstances(f)
    /\ pc = "idle" => ~ idCopy /\ legal = "none"
    /\ Len(loaded) <= capacity

\* No instance outlives the library that holds its code, on the error paths of a
\* load and in the teardown.  (Where RTLD_NODELETE exists the code stays mapped
\* anyhow; elsewhere this order is all there is.)
LibraryOutlivesInstance == \A f \in Files : instances[f] <= handles[f]

\* Incompatible typed metadata never ends up in the license facts of a provider:
\* an admitted provider has complete typed, complete legacy or unknown facts.
FactsComplete == \A i \in DOMAIN loaded : loaded[i].source \in Sources

\* With eager rejection on, a load admits only what the policy allows.
EagerRejects ==
    [][eager /\ Len(loaded') > Len(loaded)
       => <<loaded'[Len(loaded')].id, loaded'[Len(loaded')].source>> \notin Rejected]_vars

\* Stage by stage loading implements the indivisible load, and the teardown the
\* removal of everything at once.
LoadedIds == IF alive THEN [i \in DOMAIN loaded |-> loaded[i].id] ELSE <<>>

Abstract == INSTANCE ProviderSet WITH ids <- LoadedIds

LoadIsAtomic == Abstract!Spec

----------------------------------------------------------------------------
(* The instance TLC checks: three files, two of which report the same id.  *)
MCIdOf == [f \in Files |-> IF f = "x.so" THEN "x" ELSE "y"]
MCRejected == {<<"x", "unknown">>, <<"y", "json">>}
MCDirectories == {<<"x.so", "y.so", "y2.so">>, <<"y.so", "y2.so">>}
=============================================================================
