# Verification of libobi in TLA+

libobi is the loader and runtime of the Omni Backstage Interface: it loads provider
modules, decides which provider serves a profile, plans that choice under license rules,
and ships about a hundred providers, most of them thin adapters around one library. This
directory holds TLA+ models of the parts that have behaviour over time, the TLC runs
that check them on small instances, and the proofs, checked by TLAPS, of what holds for
every size.

Source paths below are relative to the repository root.

## 1. Inventory

| Component | State it keeps | Operations | Interacts with |
|---|---|---|---|
| Selection policy (`src/obi_rt_v0.c`) | preferred list, denied ids, four license filters, eager flag, exact and prefix bindings | the setters, the two bind calls, `policy_clear`, environment at creation | resets the selector outputs |
| Profile resolution | cache: request to provider index | `get_profile`, `get_profile_from_provider` | asks providers through their `get_profile` callback |
| Legal planner | one plan snapshot, one preset report snapshot, both borrowed by the caller | `legal_plan`, `legal_plan_preset`, `legal_report_presets`, `legal_apply_plan` | probes providers, writes exact bindings |
| Loader | provider array and its capacity | `load_provider_path`, `load_provider_dir`, `destroy` | dynamic linker, factory, provider API, metadata capture |
| Metadata capture | license facts of each provider | typed callback, legacy JSON, conservative default | called by the loader, read by filters and planner |
| Diagnostics | last error text | set by failures, cleared by calls | host callbacks |
| core.cancel (`providers/core_native`, `providers/core_glib`) | reference counted block: flag, reason, reason history, lock | source: token, cancel, reset, destroy; token: is_cancelled, reason_utf8, destroy | several threads at once |
| core.pump, core.waitset | an event loop, its owner thread | step, wait hint, collect | one thread |
| db.kv, db.sql | store, transactions, cursors, statements and their results | begin, get, put, commit, abort, step, reset, destroy | store library, other connections |
| os.process | children, their exit, the loop's handles | spawn, wait, kill, destroy | kernel, loop callbacks |
| os.fs_watch, os.fs | watches, event queue, baselines; nothing | add, remove, poll, release; one system call each | loop callbacks, files that change |
| ipc.bus, hw.gpio | subscriptions, queues, line slots | subscribe, next, emit; open, close, event_next | bus daemon, kernel |
| gfx.* | windows, renderers, textures, device objects, frames | create, destroy, frame, upload | one engine per process |
| phys.world2d | bodies, colliders, contact events | create, destroy, step, drain | engine callbacks |
| net.*, media, text, doc, data, crypto, math, time, asset, opt | handle tables of the wrapped library | conversions, blocking calls | one library each |

What is hard here:

- **Staleness.** The cache and both snapshots are copies of a decision over providers,
  policy and the providers' own answers. Every call that changes one of these has to
  invalidate them, and there are fourteen such calls. The cache is read *before*
  bindings and preferences.
- **Agreement of two selectors.** `get_profile` and the planner walk the providers by
  separate code; a plan the runtime then refuses to follow is useless.
- **Partial failure.** A load acquires four things and can fail after each of them;
  policy calls and plan application can run out of memory in the middle.
- **Threads.** The runtime itself has no locks and is used by one thread at a time;
  core.cancel is meant to be shared between threads, and the GPU instances of several
  threads share one sokol.
- **Callbacks inside other calls.** Whoever runs a libuv loop runs it for all: a wait
  for one child collects another's exit, the removal of one watch queues the events of
  the others, and the removal of a physics shape calls back for its contacts.
- **Queues at their limit, and memory that runs out** between the change that happened
  and its report.

What makes each component right: resolution follows the documented precedence whatever
is cached; a denied provider serves nobody; a strict binding is strict; snapshots are
current while valid; failed calls change nothing; loading is all or nothing and leaks
nothing; cancel and reset are indivisible and neither memory nor borrowed text dies
early. Of the providers: a transaction sees its snapshot and its own writes and installs
all or nothing; a watcher tells every change or says that it lost some; a process handle
reports and signals its own child; a subscription gets its signals in order and once;
the provider's tables and the engine behind them list the same objects.

## 2. Modules

The runtime:

| Module | Models |
|---|---|
| `RtSelection` | as operators: policy filters, bindings and precedence, the slow path of `obi_rt_get_profile`; selector policy, presets, candidate filter, routes and plan construction of the legal planner |
| `LegalMetadata` | what a load makes of a provider's license answers and its `describe_json` text, as operators |
| `ObiRuntime` | the runtime handle: one action per public call over providers, policy, cache, snapshots and error text |
| `Resolver` | abstract: `get_profile` without a cache. `ObiRuntime` implements it (`CacheIsInvisible`) |
| `ProviderLoader` | `obi_rt_load_provider_path` stage by stage, directory loads, teardown: ownership of handles, instances, id copies and metadata |
| `ProviderSet` | abstract: a load is one indivisible step or none. `ProviderLoader` implements it (`LoadIsAtomic`) |

The providers, by family:

| Modules | Model |
|---|---|
| `CancelFlag` (abstract), `CancelAtomic`, `CancelGlib` | core.cancel: C11 atomics under a spin lock; a `GCancellable` beside a mutex |
| `KvStore` (abstract), `KvNative`, `KvLmdb`, `KvSqlite` | db.kv: an array with private copies; LMDB; SQLite connections to one file |
| `SqlNative`, `SqlPostgres` | db.sql: the table in memory; statements and results over libpq |
| `FsWatcher` (abstract), `WatchQueue`, `FsWatchLibuv`, `FsWatchGlib`, `FsWatchNative` | os.fs_watch: callbacks of a loop or a main context into the shared queue; polling with `stat` |
| `ProcessTable`, `ProcessNative`, `ProcessLibuv` | os.process over the system's process table: `waitpid` in a loop; one libuv loop for all children |
| `BusNative`, `BusDbus1` | ipc.bus: subscriptions and their queues, on a connection to itself; libdbus, which extends it |
| `GpioLibgpiod` | hw.gpio over libgpiod 2: line slots, opening step by step, edges |
| `GfxSdl3` | windows, renderers and textures of several instances over one SDL |
| `GpuDevice`, `GpuSdl3`, `GpuSokol` | gfx.gpu_device: what both share; uploads in steps; the counted sokol of the process |
| `PhysWorld`, `PhysChipmunk`, `PhysBox2d` | phys.world2d: tables and contact events; callbacks into a bounded queue; events kept by the engine |

For checking and proving:

| Modules | Hold |
|---|---|
| `MCObiRuntime` | the values the configurations use; it captures documents and typed answers with `LegalMetadata` and gives the result to the planner. `ProviderLoader` has its few values itself |
| `MCCancel`, `MCStores`, `MCWatchers`, `MCProcesses`, `MCDevices` | one family of profiles each: `provider` names the provider that the runtime has bound, chosen in `Init`; the other providers' variables stay 0 |
| `ObiRuntimeProofs`, `LoaderProofs`, `CancelProofs`, `StoreProofs`, `WatcherProofs`, `ProcessProofs`, `DeviceProofs` | theorems and lemmas about the runtime with what it captures, the loader and the five families, the first and the last over the constants of the MC modules; those about `LegalMetadata` alone are in the module itself |

`RtSelection` is extended by `ObiRuntime`. The family modules
instantiate the providers: a property that all providers of a profile owe their callers
is stated once there and holds whichever one is bound, which is what the runtime
promises its users by letting the policy choose. Where a provider keeps less, the family
module says so in the property and section 6 names it.

Some definitions come with a *fault variant* (named in a comment): the same definition
with a plausible bug. No specification uses them; each is the evidence that a property
notices that bug.

### Correspondence with the code

**ObiRuntime.** `providers` is the list of ids of `rt->providers`; what the runtime
reads of a provider is its captured metadata (constant `Legal`, fixed at load) and what
it answers to a query (`answers`, chosen by the environment). `policy` gathers the lists
and bindings, kept as sets, lists and functions: `_string_list_set_csv` drops duplicates
and blanks, `_bindings_upsert` keeps one binding per key. `cache` maps a request
(profile, ABI major) to an index. `lastPlan` and `lastReport` also remember the inputs
of the query so that a property can build them again; `lastError` is the status the text
describes; `ret` is the last outcome, for the properties only. Public calls are
indivisible, because the runtime has neither threads nor locks;
`obi_rt_load_provider_dir` calls the path load per file (`LoadDirBegin`, `LoadDirStep`,
`LoadDirEnd`) and no other call comes between. In `Resolve`, the code's `tried[]` is
left out: it only saves a second question to a provider for the answer it gave a moment
before. Every place where the code allocates has a failing alternative, with what the
code leaves behind in that case: setters change nothing and leave even the old error
text; a query without memory for `tried[]` has dropped its cache entry; a failed
`_cache_put` is ignored.

**RtSelection, the planner.** A requirement is a profile with selectors; a license term is a
copyleft class, a patent posture and the SPDX prefixes it matches. Reason texts are left
out. The planner, unlike `get_profile`, ignores bindings, probes with a buffer of its
own size and always with the core ABI major; the model does the same.

**LegalMetadata.** The code does not parse JSON. It looks for the first place where a
quoted key is spelled, in a stretch of text and at whatever depth, and takes the value
after the next colon. So a document is the sequence of its values in the order of the
text, each with key, kind, depth and the number of values it spans; the operators of the
scanner (`FindKey`, `FindObject`, `Items`) are over positions. Two things are abstracted:
no string is spelled like one of the keys, and tokens stand for their normalised form.
A typed answer is the facts it reports and the part the runtime refuses, at which the
copy stops. Names, versions, summaries and route ids, which nothing reads but the caller,
are left out, but for the name a dependency falls back to.

**ProviderLoader.** `pc` names the next stage. Each stage may fail; the error path frees
what the code frees there, with the destruction of the instance and the closing of the
library as two steps. `legal` is the pending metadata: absent, partially copied, or
complete with its source. An API table without a `destroy` function is refused, and
nobody can release what such a factory created; the model does not count it.

**CancelAtomic, CancelGlib.** In the native provider the lock is the test-and-set that
succeeds; pushing to the history is a read and a write; reason and flag are separate
stores. In the GLib provider everything the mutex guards is one step, and raising or
lowering the flag is another, outside of it. Texts are numbered as they are allocated. A
thread owns at most one token at a time and may destroy it and take another. The caller
keeps the usual rule for handles: no call on a destroyed handle, and none on the source
during its destruction. The orders in the code are acquire and release, and the relaxed
increment of the count publishes nothing, so interleaving is a faithful reading.

**Stores.** Each module has the handles (`handle`, `state`), the cursor of each
transaction, and the store. `KvNative` and `SqlNative` keep arrays as the code does: the
keys of the first are found by its binary search, and capacity and shifting matter in
both. The engines of `KvLmdb` and `KvSqlite` are external: LMDB gives snapshots and one
writer; SQLite is modelled by the locks of its rollback journal, and the snapshot its
users see is a consequence that `ImplementsStore` checks. Opening, begin, commit and
abort have an alternative for each step that may fail. In `SqlPostgres` the server's
result is any kind of result.

**Watchers.** `WatchQueue` is `obi_provider_os_fswatch_common.inc`: queue, overflow
flag, batch, and the set of path copies in memory. `changes` is the set of those the
system has noticed and the provider has not been told, each with the path it is for and
a number that gives the order. A turn of the libuv loop is any number of
event callbacks, one step each, and then the close callbacks (`TurnEnds`); an add that
fails, a removal, a poll and destroy run such turns. GLib's context is iterated only by
a poll, so its other calls are single steps. Removing a watch drops what was noticed for
it, in both. The native poll is the two passes of the code, one step per `stat`.

**Processes.** `ProcessTable` has the numbers, zombies and strangers who take over a
number. A native wait is `WaitBegin`, any number of looks, and a collection or a giving
up; a libuv wait is turns of the loop (`LoopTurn`), which reaps every child that has
ended, and the check of one handle's flag after them.

**Events.** `net` (libdbus) and `edge` (GPIO) are the queues of the daemon and the
kernel. `next` that waits is a sequence of steps, `call` and `waiting` its local state;
everything else is one call, one step. `expected` and `occurred` are ghosts for the
order.

**Scenes.** SDL, sokol, Chipmunk and Box2D are external; each engine is the set of
objects it has been asked for. `Acquire` and `Release` of sokol are the steps of the
spin lock and the count, on several threads; uploads to SDL's GPU device are single
steps of one call, each of which may fail.

What the callers do. The modules assume what `tools/obi_provider_smoke.c` does and no
provider checks: subscriptions are destroyed before their connection, statements and
transactions before their store, process handles before the provider; a cursor goes
before its transaction ends; a batch of events is released before the next is taken;
after a write of SQLite that failed, or a commit that failed and was not just busy, the
transaction is only aborted. Providers other than core.cancel and sokol are used by one
thread at a time.

## 3. Runs

| Run | Question and result |
|---|---|
| `selection` | Three providers, two nested prefixes, bindings strict and with fallback, preference, denial, loads, three answer tables. Cache entries always equal a full resolution, and the runtime implements `Resolver` |
| `filters` | Class and SPDX filters, eager flag, two environments, directories with repeated and duplicate modules. Shape, unique ids, error text of the last call |
| `planning` | A typed provider, one whose typed answer is refused half way and whose document is read, and one sensitive to the route; unavailable and optional routes; preset and custom policies; malformed and blank inputs. Snapshots current, applied plans honoured, presets monotone, nothing selected that was not declared, failed calls without effect |
| `volatile` | Providers change any answer at any time. Denial and strict bindings still hold; no false UNSUPPORTED |
| `same_profile`, `legacy_deps` | Violated: see section 6 |
| `provider_loader` | Three files, two with one id, first capacity 1, four loads. No leak at any stage, the array never overfull, order of release, complete facts, eager rejection, loads indivisible |
| `cancel` | Three threads, two reason texts, both providers. Memory and borrowed texts live long enough and no longer; the spin lock is given back. Calls are indivisible with the native provider always, with the GLib one when no call overlaps a reset |
| `stores` | Six providers. Transactions amount to `KvStore` (snapshots; LMDB and SQLite with one writer, the array with the last commit winning); scans read everything once; no failure leaves a transaction, a lock, a directory or a result behind |
| `watchers` | Three providers. libuv and GLib implement `FsWatcher`; no freed watch is reached; every overflow is reported; the native watcher sees every difference at last and tells a possible history |
| `processes` | Two providers. Only the own child is signalled, its exit and no other is reported, the shared loop holds no dead handle, a destroyed handle leaves no zombie, and a wait of the native provider, a late one too, sees the exit |
| `devices` | Two buses, GPIO lines, two instances on SDL, GPU devices on SDL and sokol, two physics engines. Events come in order and once per subscription and line; a failed open gives everything back; tables and engine agree, save for two histories on SDL that section 6 names; the device lives as long as somebody works on it; contact events add up to the pairs that touch; a wait that begins after its signal answers with it while the bus stays connected |

Bounds and why they are enough.

- *Runtime.* Three providers give a winner, a competitor before it and one after it in
  load order. Two nested prefixes are the smallest case for the longest match. Two
  profiles are needed where one plan covers several; a second ABI major separates two
  requests for one profile. There is no other bound: the state is finite once its inputs
  are. Documents and typed answers are fixed, one or two for each case of the capture;
  `Declared` in `MCObiRuntime` says apart from the code what a reader takes from them.
- *Loader.* `FirstCapacity = 1` (4 in the code) makes the array grow at the second and
  third provider; four loads (`MaxLoads`) reach a duplicate after a growth.
- *Cancel.* `MaxReasons = 2` allows two overlapping cancels with reasons besides any
  number without; three threads allow a reader beside both.
- *Stores.* The array's scans need four keys (`LongKeys`) and `Room` for three: a full
  array, a deletion before, at and after the cursor. The stores with snapshots need two
  transactions at a time (`Txns`) on two keys (`Keys`), with two values to tell the
  writers apart (`Values`; one, `LongValues`, where a value is only there or not).
  The SQL table has two rows, and PostgreSQL makes three results (`MaxResults`), so that
  one is lost on a retry and another follows it. `SYMMETRY` permutes `Txns` and
  `Values`, which are compared only for equality; the run has no liveness property.
- *Watchers.* Two items of memory for three watches (`MaxIds`), so that memory is used
  again under a new id; three changes; `DrainTurns = 2` for the code's 32, the turns
  of the loop that a removal or a failed add gives its handle to close; one failing allocation, at any place. The native watcher has two
  paths and times up to 3.
- *Processes.* Two handles and two numbers, four children (three with libuv), strangers
  included: a number is given away after its child was waited for, and used again.
- *Devices, events.* Two subscriptions with the filters of two member names, two signals; two
  slots for two lines opened up to three times (ids stay below `MaxIds`), three edges.
- *Devices, scenes.* Two SDL instances of two windows and textures; three sokol devices, so that
  one enters while another leaves and a third works; two bodies, three colliders and a
  queue of three events, which contacts that begin and end overflow.

Where everything may be destroyed a run stops, and deadlock is not an error there:
`provider_loader` and the runs of the five families, `cancel` to `devices`.

Fairness. The runtime and the loader have none: they promise no progress on their own.
`CancelAtomic` assumes that a thread inside a call keeps running. The spin lock is not a
fair lock, so which waiting thread gets it is open, and nothing is claimed about a
particular waiter, only that the lock comes free. `FsWatchLibuv` assumes that a call in
progress turns its loop and returns, which is its own code on the caller's thread, and
that the caller releases its batch and polls again, without which nobody could be told.
`ProcessNative` assumes that a wait goes on looking: it sleeps a few milliseconds
between two looks.

## 4. What is proved

For every value of the constants that satisfies the named assumptions:

| Module | Theorem | States |
|---|---|---|
| `ObiRuntimeProofs` | `TypeCorrect` | `VolatileSpec => []TypeOK` |
| | `IdsUnique` | `VolatileSpec => []UniqueProviderIds` |
| | `CacheSound` | `VolatileSpec => []CachedWinnerAdmitted` |
| | `DenialHolds` | `VolatileSpec => []DeniedNeverServes` |
| | `BindingsHold` | `VolatileSpec => []StrictBindingHonoured` |
| | `CacheCorrect` | `Spec => []CacheCoherent` |
| | `CacheHidden` | `Spec => CacheIsInvisible`: `ObiRuntime` implements `Resolver` |
| | `ErrorTextHolds` | `VolatileSpec => []ErrorTextCurrent` |
| | `FailureIsClean` | `VolatileSpec => FailedCallsChangeNothing` |
| | `UnsupportedIsTrue` | `VolatileSpec => []NoFalseUnsupported` |
| | `SnapshotsHold` | `Spec => []SnapshotsCurrent` |
| | `PresetsAreMonotone` | `Spec => []PresetsMonotone` |
| | `PlansAreHonoured` | `Spec => []PlanHonoured` |
| | `PlansStaySound` | `Spec => []PlansAreSound`: selected is the first eligible provider, by a license that a policy without exceptions accepts; blocked is what nobody can serve |
| | `LoadsKeepTheContract` | `VolatileSpec => Loads!Spec`: `ObiRuntime` implements `ProviderSet`, as `ProviderLoader` does |
| | `RoutesSpeakForThemselves` | of any text: routes are captured in order, once each, with a license said in their own object |
| | `SelectedAsSaid` | `Spec => []PlansSaid(typed, docs)`, for any typed answers and texts |
| | `SelectedIsDeclared` | `Spec => []SelectedAsDeclared`, for the answers and texts of `planning` |
| `LoaderProofs` | `NothingLeaks` | `Spec => []NothingLeaked` |
| | `LibrariesOutliveInstances` | `Spec => []LibraryOutlivesInstance` |
| | `FactsAreComplete` | `Spec => []FactsComplete` |
| | `EagerRejectionHolds` | `Spec => EagerRejects` |
| | `LoadsAreAtomic` | `Spec => LoadIsAtomic`: `ProviderLoader` implements `ProviderSet` |
| `CancelProofs` | `BlocksOutliveHandles` | `Spec => []BlockOutlivesHandles`, both providers |
| | `TextsLiveExactly` | `Spec => []TextsLiveAsLongAsNeeded`, both providers |
| | `CallsLookAtomic` | `Spec => CallsAreAtomic`: the native provider implements `CancelFlag`, the GLib one when no call overlaps a reset |
| | `NativeImplementsFlag`, `GlibImplementsFlag` | the same of each provider's own specification |
| | `LockIsPassedOn` | the native lock is held exactly while one thread is in its critical section, and that thread only moves on to `Unlock`: the safety half of `LockIsReleased` |
| `StoreProofs` | `EnginesAreLeftClean` | `Spec => []NothingLeftInTheEngine` |
| | `CursorsAreRight` | `Spec => []CursorsRead` |
| | `StoresAreImplemented` | `Spec => ImplementsStore`: the native array, LMDB and SQLite implement `KvStore`; transactions of the native SQL table keep or bring back its rows |
| | `UpdatesAreNotLost` | while a transaction of LMDB or SQLite goes on, a reader sees the same and a writer's store stays the latest |
| `WatcherProofs` | `MemoryStaysOwned` | `Spec => []MemoryIsOwned` |
| | `WatchersKeepTheirPromise` | `Spec => ImplementsWatcher`: the libuv and the GLib watcher implement `FsWatcher` |
| | `ToldInOrderOnce` | over all polls of either, batches rise in the order the system noticed, and what is told later happened later |
| | `DifferencesStayTold` | `Spec => []DifferencesAreTold` |
| `ProcessProofs` | `SignalsReachOwnChildren` | `Spec => []SignalsOwnChild` |
| | `ExitsAreOfOwnChildren` | `Spec => []ExitIsTheChilds` |
| | `LoopStaysSound` | `Spec => []LoopIsSound` |
| | `LateWaitsAnswer` | `Spec => [][IsNative => Native!LateWaitHasExit]_vars`, the safety half of `WaitSeesExit` |
| `DeviceProofs` | `EventsComeInOrder` | `Spec => []EventsInOrder` |
| | `LateNextGetsItsSignal` | `Spec => LateNextAnswers` |
| | `LinesStayOwned` | `Spec => []LinesAreOwned` |
| | `TablesStayMatched` | `Spec => []TablesMatchEngine` |
| | `DeviceStaysHeld` | `Spec => []DeviceIsHeld` |
| | `ContactsKeepAddingUp` | `Spec => []ContactsAddUp` |
| `LegalMetadata` | `ClassesAreDeclared` | without a readable typed answer, a known effective class is written in the document |
| | `UncertainIsUnknown` | route sensitive and without routes, the effective license is unknown |

Assumptions: `InputAssumption` (`ObiRuntime`: inputs are well formed),
`PrefixAssumption` and `NoProviderAssumption` (`RtSelection`), `CoreMajorAssumption`,
`CopyleftAssumption` and `RoutesAssumption` (`RtSelection`: the ABI major, that license
classes are numbers, and that routes are numbered from 1), `LoaderAssumption` and `SourceAssumption` (`ProviderLoader`),
`ProcessAssumption` (`ProcessTable`: exit codes fit a byte, signals are numbers up to
64), `KeysAreOrdered`, `RowsAreNamed` and `BoundsAreNumbers` (`MCStores`: keys are
numbers, as the array is sorted by them, row identifiers are positive and the bounds
numbers), `DrainsTurn` (`MCWatchers`: a removal turns the loop at least once), `OneSdlDevice`,
`SokolIsShared` and `WindowsAreIds` (`MCDevices`: SDL's GPU provider has one device,
finitely many share sokol, windows are numbers, 0 being none), and, as the hypothesis
of the theorems in `CancelProofs`, `Bounded`: finitely many threads and reason texts.
Each run evaluates the assumptions of the module it extends.

The arguments.

*Cache and bindings.* `CachedWinnerAdmitted` and `StrictBindingHonoured` are not
inductive: a cache hit consults neither bindings nor preferences, so the invariant has
to say of an *entry* what the property says of an *answer*. `EntriesSound` says that
each cached provider is admitted by the policy and allowed by the governing binding. A
query extends the cache only by a provider for which `ResolveServes` and
`ResolveHonours` give just that; every other action empties the cache or changes neither
providers nor the part of the policy that matters. The eager flag is the one policy
field whose setter resets nothing, and `DeniedIgnoresEager`, `BindingsIgnoreEager` and
`ResolveIgnoresEager` show that resolution does not depend on it. `ServedSound` carries
the fact over to the last answer. With stable answers the same case split proves
`CacheCoherent`, and from it `CacheHidden`: a cache hit gives what the resolver would
give at that moment. `DirQuiet` (during a directory load the last outcome is no query)
makes the loader's steps map to steps of `Resolver`.

*Snapshots and plans.* `SnapshotsCurrent` is inductive together with `PlanAnswersCaller`
(a readable plan is for requirements a caller has given, which are well formed): a step
either drops the snapshots or leaves what they were made of, and the planner ignores the
eager flag. `PresetsMonotone` follows from the snapshot being that of the present: a
preset differs only in its ceiling, and what is under a low ceiling is under a higher
one. `PlanHonoured` needs that the planner and `get_profile` agree: the planner selects
a provider the policy admits and that answers OK, applying binds the profile to it, and
a strict binding to such a provider decides the resolution.

`PlansAreSound` says from the *outside* what the planner's passes over candidates and
routes amount to. It needs no step: any plan that is built is sound
(`BuiltPlansAreSound`), and a snapshot that can be read is the plan that would be built
now. What has to be shown is that the planner's choices, each the first or least of a
set, are defined (`LeastElement`), and that a provider passed over is one that the
policy rules out. `StepsAreLoads` goes through the actions once more and finds the loads
the only ones to touch the set of providers.

*Loader.* `NothingLeaked` speaks of counts: `Owned(f)` is the number of loaded providers
from file `f`. `NothingLeaked` itself adds what the call in progress holds at its stage,
and is inductive once `Balanced` says at which stages the id copy and the metadata
exist; appending to and taking from the array change the count by one (`AtAppend`,
`AtTail`). `Checked` says that a load that has passed a check (duplicate id, eager
policy) still satisfies it when it admits the provider, and makes the admission the one
visible step, a step of `ProviderSet`.

*Cancel.* `Counted`: the reference count is the number of tokens plus one for the
source, for as long as there is a handle. `LockHeld`: whoever is past the lock is alone
there, and what it has read of the history is still the history. Then every step but
storing the reason is hidden, and storing it is the call of `CancelFlag`: until the flag
follows, the flag that counts is the one the caller is about to store. With GLib the
flag changes outside of the mutex. `Alone` says what holds when no call overlaps a
reset: the flag stays down between the two halves of a reset, so that the text it
erases belongs to no cancel, and a call that has yet to raise the flag counts as having
raised it. `Kept`: every allocated text is in the history or pending in one call, and every
borrowed one in the history, which only dies with the block. `LockIsPassedOn` adds the
converse of `LockHeld`, that a lock which is set has a holder (`HeldBySomebody`), and
that the holder's way to `Unlock` has no loop (`Onward`): all that liveness needs
besides fairness.

*Stores.* `StoreInv` has one part for each provider. The array's is that it is sorted
(`KeysSorted`). The loop of the binary search is a recursive function on ranges, and
that it ends at the place of the key is proved by taking the shortest range on which it
does not; from this, putting and deleting keep the array sorted and change what it holds
at that key alone. `ScanIsAt` ties the cursor's index to the keys read, at each key put
or deleted before it. For the refinement a handle's array is read as the mapping it
holds. `LmdbInv` says which transactions live in the engine and that only open handles
have one, and `HeldByStage` what a store may hold at each stage of its opening, without
which the error path of a stage, which gives back what it names, could leave something; that there is one writer among them makes a commit install exactly what its
snapshot and its own writes give. For SQLite the same comes from `SqliteLocks`: a writer
that can still be used holds the reserved lock, at most one connection does, and while
it does nobody else changes the file. `UpdatesAreNotLost` says over whole transactions
what the steps of `KvStore` say one by one: for LMDB from the single writer, for SQLite
from a commit needing every other lock gone. `SqlNativeInv` says that the rows a scan has seen
are those wanted below its index, as long as nothing has moved them; `PostgresInv`, that a
result belongs to one statement at most, and that a statement which is not executed
holds nothing but an error, so that what a retry loses is an error.

*Watchers.* The order of reports is the hard part: an event may be in the queue, in the
caller's batch or not yet noticed by the provider. `QueueInv` says that changes that
wait are numbered after every path copy in memory, and each copy belongs to one event,
so an event that is queued comes last. `TableInv`, `ItemsInv` and `CallInv` tie the
table, the memory of the watches and the call in progress together: memory that is
closing and no longer in the table is there only inside a call that still has turns of
the loop to close it, which is why a removal that does not turn the loop would be a
mistake (`DrainsTurn`). From these every step of either watcher is a step of
`FsWatcher` or none. `FsWatcher` looks at one batch at a time; that no later batch goes
back behind an earlier one is `ToldInOrderOnce`. Seen from the queue a step is one of six
(`QueueMove`), all of which keep `InTurn` (queue and batch rise, and all that waits is
behind the batch) and `Behind(n)` (all that waits is later than change n), so that a
number told once stays behind for ever. For the native watcher `Known` (the baseline is what the caller was
told, unless a poll failed in its report) is carried through the two passes by saying
what the second has already reported.

*Processes.* `NativeHolds` and its libuv counterpart: a handle that has not seen its
child's end holds the child's number, and the kernel has not given it out again, because
nobody else waits for it. For libuv the reaping of other children inside a wait keeps
this true only since it marks their handles in the same turn.

*Devices.* One invariant per provider, each a conjunction of what the tables say, what
the engine says and what a call in progress still holds: `DbusInv` (what a subscription
has taken and what waits in its queue are, in this order, what it was promised; the one
call in progress belongs to a live subscription), `SlotsOwned` and `LinesHeld` (a slot
and the step of opening it determine what libgpiod and the kernel hold), `SdlInv`
(identifiers only grow, so that an identifier names one object for ever), `EngineInv`
(the engine's objects are those of the tables of *all* devices), `UploadInv`, `SokolInv`
(the count is the number of threads past `Acquire`, whoever holds the spin lock), and
`ChipmunkInv`, `Box2dInv` (events told plus events pending give, pair by pair, whether it
touches).

*Capture.* The theorems of `LegalMetadata` are about operators and need no invariant.
Whatever the scanner finds lies in the place it searches (`FoundInPlace`), and a class
comes from a token found there (`TokenIsDeclared`, `TermIsDeclared`); a document is only
assumed to span what is inside it (`Spans`). For routes the place is also the right one:
with brackets that nest (`Nested`) the scan for items finds each once, `InOrder` lists
them in the order of the text (`InOrderLists`, from the ranks of a finite set of
positions), and what is looked up in one object is said in it. `SelectedAsSaid` combines
this with `PlansAreSound`, for all typed answers and all texts: the license by which a
provider is selected is one it gave, as a whole or for that route. *Which* of the words
in a text the effective license comes from is another matter, as section 6 notes.
`SelectedIsDeclared` therefore takes the four documents and answers of `planning`, lists
each document value by value (`TextB`, `TextC`, `MediaText`), and shows that the planner
sees in it what `Declared` says a reader does (`ReadAsDeclared`); policies, plans, the
order of loads, directories and answers to queries remain arbitrary.

Only model-checked: liveness under fairness (`LockIsReleased`, `OverflowReported`, the
second half of `WaitSeesExit`), which is out of the prover's reach. The violated runs
have no theorem.

## 5. Not modelled

- Argument checks for NULL pointers and short structs, CSV tokenising, wording of
  messages, the host allocator, Windows paths (except that closing a library really
  unloads it there), and calls that only read.
- core.pump and core.waitset: thin wrappers over a loop with one owner thread.
- The loss of libdbus's connection, after which a wait no longer takes what is in its
  queue, and the kernel's queue of edges running over.
- Standard streams of processes, bus calls (one exchange without state), line values,
  input events, drawing, clipboard, motion, ray casts and debug drawing: they change no
  state that the modelled operations read.
- Other providers of modelled profiles: raylib and the 3D renderers, native and 3D
  physics, sd-bus, the emulated native GPIO, SQLite's db.sql (each call is passed
  through), libgpiod 1.
- File system, HTTP, TLS, DNS, media, text, documents, data formats, crypto,
  mathematics, time, optimisation and assets: one conversion or blocking call per
  operation, with no behaviour over time that a model would add to a test. This is the
  larger part of the source by size.
- Sockets: the native ones pass each call on; the libuv ones have pending writes, and are
  on the list of section 7.
- The null provider, the smoke tool and the evidence scripts.
- `obi-abi/`, a submodule with the ABI headers, is not in this repository. Constants and
  signatures are taken from their use in the sources.

`PROJECT.json` lists each component with its status and reason.

## 6. Disagreements with the documentation

`same_profile` shows that `obi_rt_legal_apply_plan` binds one provider per *profile*: a
plan with two items for one profile, told apart by their selectors, can choose two
providers, and only the last is bound. The header (`include/obi/obi_rt_v0.h:172-174`)
speaks of bindings "for selectable items". `PlanHonoured` therefore speaks of plans with
one item per profile.

`legacy_deps` shows that a dependency which a document gives by its bare name is dropped:
the loop over the array (`_legacy_parse_dependencies`, `obi_rt_v0.c:1188`) stops at the
first item that is not an object. `README.md:73` says that the legacy `deps` field is
mapped "conservatively". Twenty-one of the shipped providers write the field that way;
they answer the typed callback too, so only an older build, or one whose typed answer is
refused, appears to have no dependencies.

Worth knowing, although no document says otherwise:

- A cached winner keeps winning when a provider of higher precedence *starts* to offer
  the profile; only a policy call or a load ends that. This is why `CacheCoherent` is
  stated for stable answers.
- In a document without a license object of its own under the key looked for, the first
  such object *inside* it counts: the `effective_license` of a route is then taken for
  that of the whole provider, and may be laxer than the module's. The documents of
  `planning` have their own.
- A typed answer that is refused takes its flags with it: a provider that calls itself
  route sensitive there, and is not one of the three the runtime knows, is judged by its
  document alone.
- `policy_clear` leaves the eager flag as it is.
- A policy setter that runs out of memory leaves the text of the earlier error.
- A provider whose routes are all refused can be selected without a route when its
  module license is acceptable and the requirement names no selector.
- A provider answer other than OK and UNSUPPORTED ends a query, also under a binding
  that allows fallback.

In the providers, each found while stating what the family owes its callers and named in
the property that leaves it out:

- *GLib cancel*: a cancel that overlaps a reset may end cancelled without its reason;
  the flag changes outside the mutex (`obi_provider_core_cancel_glib_v0.c:186-201`).
- *LMDB*: after a commit that failed, abort or destroy end a transaction LMDB has
  already ended (`obi_provider_db_kv_lmdb_v0.c:446`). After a seek that failed, a cursor
  that had an item answers for its key with the key that was sought, out of the caller's
  memory (`obi_provider_db_kv_lmdb_v0.c:323`); `CursorSeekFails` models it, and no
  property reads LMDB's cursor.
- *PostgreSQL*: a failed step tried again without a reset loses the first result
  (`obi_provider_db_sql_postgres_v0.c:341`).
- *Native array store*: two writing transactions do not exclude each other; the last
  commit replaces the whole store.
- *libuv watcher*: a poll that only looks may not report an overflow it has itself
  brought about; the next poll does.
- *Native watcher*: when `stat` fails in the second pass, the events before it are
  released with the batch and never told again.
- *libuv processes*: `uv_spawn` that fails late leaves a handle in the loop's list that
  the code frees without `uv_close` (`obi_provider_os_process_libuv_v0.c:410`); a child
  killed by a signal reports exit code 0, where the native provider reports 128 and the
  signal; a child that outlives the time destroy gives it stays as a zombie.
- *SDL*: the instance that brought the video up ends it for all
  (`obi_provider_gfx_sdl3_v0.c:1986`); a texture made outside of a frame stays in the
  table after its window's renderer.
- *Chipmunk* drops events silently when its queue is full; *Box2D* loses the events
  nobody drained before the next step and hands the same ones over to a second drain.

## 7. Plan

What would add most next:

1. The owner-thread check and wait hints of core.pump and core.waitset; the libuv socket
   with its pending writes at close; sd-bus beside libdbus.
2. Standard streams of processes: pipes that outlive a destroyed child.
3. Proofs for what these add: the bus with sd-bus along the argument of `QueuesInOrder`,
   the socket's pending writes along that of `NothingLeaks`. Of the present properties,
   those left to the model checker are so for the reasons given at the end of section 4.
