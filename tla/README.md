# Specifications of wilton_core

wilton_core is the part of the Wilton runtime that every other part is plugged
into: a registry of named calls ("wiltoncalls") with a C interface, the loading
of shared libraries that register more calls, the configuration of the program,
and templates that modules build their own state from. It has no event loop and
starts no threads: all of its code runs on the threads of its callers, several at
once, and much of it calls back into foreign code. This directory holds TLA+
models of it, the configurations that check them with TLC, and proofs that TLAPS
checks.

## 1. Inventory

| Component | Code | State | Operations |
|---|---|---|---|
| Call registry | `src/call/wiltoncall_registry.hpp` | `map` name → callback, `caps_tlmap` thread → allowed names, one mutex, a maximal size | put, get, list, remove, set_thread_caps |
| Call dispatch | `src/call/wiltoncall.cpp` | the registry; the callbacks on the stacks of the threads | wiltoncall, wiltoncall_register, _list, _remove, wilton_set_thread_capabilities |
| Initialization and configuration | `src/call/wiltoncall.cpp`, `support/registrar.hpp`, `src/misc` | an atomic flag, two lazily constructed statics (configuration, default engine) | wiltoncall_init, wilton_config, wiltoncall_runscript |
| Loading of libraries | `src/dyload` | the set of names loaded, one mutex | wilton_dyload, the call dyload_shared_library |
| Thread-local cleaners | `src/misc/wilton_misc.cpp` | a vector of callbacks, one mutex | wilton_register_tls_cleaner, wilton_clean_tls |
| Script engine map | `support/script_engine_map.hpp` | thread → engine, one mutex, two statics | run_script, run_garbage_collector, clean_thread_local |
| Shared handle registry | `support/shared_handle_registry.hpp` | handle → shared_ptr, one mutex | put, put_existing, remove, peek, destruction |
| Unique handle registry | `support/unique_handle_registry.hpp` | handle → unique_ptr, one mutex | put, remove, destruction |
| Thread-local registry | `support/tl_registry.hpp` | thread → value, one mutex | put, peek, remove, dump |
| Buffers | `support/buffer.hpp`, `alloc.hpp`, `exception.hpp`, `registrar.hpp`, the two `wiltoncall_*.cpp` | the heap, the stack of calls | wilton_alloc, wilton_free, make_*_buffer, wrap_wilton_buffer, throw_wilton_error |
| Callback scripts and paths | `support/misc.hpp`, `dyload/wiltoncall_dyload.cpp` | none | check_json_callback_script, the parameters of dyload_shared_library, shorten_script_path |
| Logging | `support/logging.hpp` | none | log |
| Loading on Windows | `dyload/dyload_windows.hpp` | none | dyload_platform |

How they interact: every entry point of the C interface checks its parameters,
takes the mutex of one component, and gives it back before it returns, except
where it calls foreign code with the mutex held: wilton_dyload runs a library's
initializer, wilton_clean_tls runs the cleaners, script_engine_map constructs
engines. wiltoncall does not hold the registry's mutex while it runs a callback,
so callbacks may call every entry point again.

What is hard, and what makes each component correct:

* *Call registry.* Methods are sequences of checks and updates that several
  threads run at once. They must be atomic, keep the bound on the size, never
  replace a registration, grant capabilities once and whole, and never hand out
  an entry that is gone or not allowed.
* *Dispatch.* The callback is used after the lock is released, while others
  remove it; callbacks nest; threads end and their ids are given to others.
* *Initialization.* Several threads may initialize, and everything else may be
  called before or meanwhile. An initialization that succeeded must be complete,
  and the configuration and the default engine must be the ones it was given.
* *Libraries.* Several threads ask for the same library; initializers fail and
  may be retried, and may ask for other libraries. A library is initialized
  with success once.
* *Cleaners and engines.* Foreign code under a mutex (lock order, re-entrance),
  engines that are used after the mutex is released and erased by cleaners.
* *Handles, thread-local values, buffers.* Ownership: no object is used after
  it is freed, none is freed twice, none is owned by nobody.

## 2. Modules

```
CallInterface ── CallRegistry ─── Wiltoncall ──── MCWiltoncall, WiltoncallProofs
      │                │ implemented by
      ├───────── WiltoncallRegistry ── MCWiltoncallRegistry, WiltoncallRegistryProofs
      └───────── WiltoncallInit ────── MCWiltoncallInit, WiltoncallInitProofs
LoadOnce ── implemented by ── Dyload ── MCDyload, DyloadProofs
ScriptEngineMap
      │ extended by
ThreadCleanup ── MCThreadCleanup, ThreadCleanupProofs (of both)
      │ instantiates
TlsCleaners
Ownership ── implemented by ── HandleRegistries ── MCHandleRegistries, RegistriesProofs
ThreadLocalRegistry ── MCThreadLocalRegistry, RegistriesProofs
CallBuffers ── MCCallBuffers, CallBuffersProofs
LockOrder ── MCLockOrder, LockOrderProofs
```

**CallInterface** — requests and responses at the boundary of the registry. A
callback is a member of `Funs` (context and function pointer together), an error
is the reason its text states. Requests that the parameter checks of the entry
points refuse are one request, `Invalid`.

**CallRegistry** — what the registry promises: each thread's call is `Invoke`,
then one atomic step (`Put`, `Get`, `List`, `Remove`, `SetThreadCaps`), then
`Return`. `caps_tlmap[t] = {}` stands for a thread without an entry, which no
entry equals since wilton_set_thread_capabilities refuses an empty list.

**WiltoncallRegistry** — the same methods statement by statement. `Lock` is the
construction of the `lock_guard`, `Leave` its destruction by a return or an
exception. `put` is `PutCheck` and `PutInsert`. `get` is `GetFind`, which keeps an iterator,
and `GetChecked`, which checks the capabilities and copies what the iterator points at:
`it` is the entry it was found at, not looked up again. `list` passes one entry per `ListNext`, and `set_thread_caps` looks
one capability up per `SetCapsVerify`, in any order since it iterates over an
unordered set. The order of `list` is abstracted. `AtomicSpec` says that this
implements `CallRegistry`, with `phase` read off `pc` (`AbstractPhase`).

**Wiltoncall** — threads that call the entry points, built from the actions of
`CallRegistry` (`Reg!...`). `Dispatch` is the moment wiltoncall has copied its
entry and calls the function: the callback is pushed on the thread's `stack`, and
from then on the thread's code is the callback's, which may `Enter` again.
`CallbackReturn` pops it. `Exit` and `Start` end a thread and begin another that
`std::thread::id` prints the same. `own` and `outer` are history variables: what
the present thread has set itself, and how deep its stack was then.

**WiltoncallInit** — wiltoncall_init step by step (`CallInit`, `TestAndSet`,
`SetConfig`, one `RegisterBuiltin` per call, `ReturnInitialized`) against the other
entry points that touch what it sets up: registration and removal of calls,
wilton_config and the call get_wiltoncall_config (`ReadConfig`),
wiltoncall_runscript (`Runscript`). A function-local static is constructed by
the first caller whose construction does not throw, atomically (C++11; the
comments about VS2013, where it is not, are outside the model). A configuration is
abstracted to whether it has a default engine; parameters that wiltoncall_init refuses
outright change nothing and are left out. `configured` and `gone` are history
variables.

**LoadOnce** and **Dyload** — wilton_dyload as its callers see it, and with its
mutex: `LookUp`, `LoadPlatform` (dyload_platform, POSIX: dlopen and dlsym may fail),
`RunInitializer`, `Insert`. `NestedCall` is an initializer that calls wilton_dyload
and waits for the mutex its own thread holds; `std::mutex` is not recursive, and
of the outcomes that its undefined behaviour allows the model takes the one that the
POSIX implementation shows, waiting for ever. `CString` is what the caller's
pointer reads as a NUL-terminated string, which is what the code remembers.

**TlsCleaners** — wilton_register_tls_cleaner (`Register`, one step, since nothing
foreign runs in it) and wilton_clean_tls (`CallClean`, `Lock`, one `RunCleaner` per
iteration, `ReturnCleaned`). A cleaner is called through a function that is declared
noexcept, so the loop has no other end. `NestedCall` is a cleaner that calls one of the
two functions and waits for its own thread. `before` is a history variable.

**ScriptEngineMap** — run_script and run_garbage_collector begin with the same call of
thread_local_engine: `CallRun`, `Lock`, `Find`, and if the thread has no engine
`LoadInitCode` and `Construct`, each of which may throw (`Throw`). `Use` hands out the
reference, pushed on the thread's `uses`; `FinishUse` is the end of the script. Scripts
call back into the program, so a thread may `CallRun` and `CallClean` again before that.
`Erase` is clean_thread_local, whose id is whatever wilton_clean_tls was given.
`live` is the set of engine objects that exist; a reference that is not to one of them
dangles, which the map alone does not prevent.

**ThreadCleanup** — the two modules above as the code composes them: one of the cleaners
that wilton_clean_tls runs is that of the engine map, `EnterEngineCleaner` and
`LeaveEngineCleaner`, which takes the engines' mutex while the cleaners' is held. Every
action is one of `ScriptEngineMap`, one of `TlsCleaners` (`Cl!...`), or both at once.
Threads run scripts that nest and that clean and register, `Exit` when no script runs,
and `Start` again under an id that was used; `alive` says which ids run. `target` is the
id that wilton_clean_tls is given, which the code does not restrict. `InOrder` is the
order its callers keep: an id is cleaned after its thread has ended, or by the thread
itself outside of its scripts. `abused` is the history variable that remembers whether
that order was ever broken, also by a thread that starts under an id while it is
being cleaned; `UseIsSafeInOrder` is about behaviours that keep it.

**Ownership** — what both handle registries promise: an object exists exactly as long as
it has an owner, and an owner that owns alone has none beside it. Objects are created,
shared, given away and given up.

**HandleRegistries** — one registry of each kind, and threads that own objects through
plain pointers (`raw`) and shared_ptrs (`refs`). A handle is the address of the object;
`New` takes any address that has no object, so that an old handle may be that of a later
object, and handles in the requests are any addresses, or 0. Methods do nothing foreign
under the mutex but destroy objects, so each is one step. put takes a pointer the caller
owns: the branch in which put finds the handle registered, which destroys what both have,
is part of `SharedPut` and `UniquePut`, and `OwnsAlone` says that such callers never reach
it. The refinement maps who has an object to the owners of `Ownership`.

**ThreadLocalRegistry** — put, peek, remove and dump of tl_registry, with the mutex, the
id printed before it is taken, and the exceptions, whose text lists the keys with the
mutex held (`Throw`, `DumpKey`, `DumpEnd`). `peeked` are the references the threads have:
a node of the std::map keeps its place, so a reference is the value itself. The map's keys
are printed ids, `ThreadIds`, which are used again. `mine` and `left` are history variables: what the present thread has put, and what
an earlier thread of the id left.

**CallBuffers** — one thread's stack of calls and the buffers that cross the interface.
`Invoke` is wiltoncall that runs a callback, which is a C function of a module (`Foreign...`,
which answers anything) or a function wrapped by register_wiltoncall (`Span...`).
wilton_dyload is a function of the stack as well: it remembers the library
(`DyloadKnown`) or runs its initializer (`RunInitializer`), foreign code that calls the
interface and returns an error or none, which wilton_dyload frees and returns anew
(`DyloadReturn`). It is on a stack once, since the second would wait for the mutex of
the first (`CanDyload`).
`ReturnError` is the pattern of every path of failure: what has been received is freed,
its text copied into a new buffer. A wrapped function first reads its parameters, one
field per `ReadField`, and what follows depends on whether they were accepted: `Fields`
are those that dyload_shared_library and check_json_callback_script know, the two readers in
the repository.
`odd` is a history variable: results that a C callback has returned beside an error or
with an invalid length.

**LockOrder** — the mutexes of dyload, cleaners, engines and registry together. The
modules above have one mutex each, or two that are always taken in the same order; here
foreign code that runs under one mutex asks for others. What it asks for is a constant:
initializers of libraries register calls and cleaners and may run scripts, cleaners
erase engines, the constructor of an engine loads a resource with a wiltoncall.

Every module also contains a few definitions whose comment begins with *Variant*:
forms that the definition below them would have with a plausible mistake, which
the properties are confirmed to detect. They are part of no specification.

## 3. What TLC checks

| Run | Instance | Shows |
|---|---|---|
| `registry_safety` | 2 threads, 3 names, 2 callbacks, room for 2 entries | `ChecksStayTrue`, `CapacityBound`, `CapsGrantedOnce`, `HandedOutCurrent`, and the refinement `AtomicSpec` |
| `registry_progress` | 2 threads, 2 names, 1 callback, room for 2 | `OnlyStarvedByOthers` under `FairSpec` |
| `dispatch` | 2 threads, 2 names, 2 callbacks, room for 1, nesting 2 | `Confined`, `SafeToFree` |
| `dispatch_reuse` | 1 thread id | counterexample to `CapsAreThreadLocal` |
| `init_safety` | 2 threads, 2 builtin calls, 3 names, room for 2, 2 configurations, one with an engine | `ConfigIsFromInit`, `SuccessIsComplete`, `FailedForGood`, `DefaultEngineIsCurrent`, `NoEscapeOnceConfigured` |
| `dyload` | 3 threads, 2 libraries, one of which nests | `RememberedWhenLoaded`, the refinement `LoadsOnce`, and `BlockedOnlyByNesting` under `FairSpec` |
| `dyload_name` | 1 thread, names followed by other bytes | counterexample to `InitializedOnce` |
| `cleanup` | 2 threads, 2 engines, nesting 2, 2 registrations of the engine map's cleaner and one that may call back | `EngineOfItsThread`, `DestroyedOnlyByCleaning`, `CleanersRun`, `CleanersStayValid`, `UseIsSafeInOrder`, and `CleaningEnds` under `FairCleanupSpec` |
| `locks` | 3 threads, engines ask for every mutex | `CircularOnlyThroughEngines` |
| `handles` | 3 threads, 3 addresses | `OwnsAlone` and the refinement `ImplementsOwnership` |
| `thread_local` | 3 threads, 3 values | `ValueIsOwn`, `ReferenceStaysGood`, and `MethodsEnd` under `FairTlSpec` |
| `calls` | 4 buffers, 8 nested calls | `ReceivedExists`, `NothingLost`, `OneAnswer` |

Every run but the progress run and the counterexamples has the type invariant of its module
as well. The largest, `dispatch`, has six and a half million states and takes two or
three minutes; `cleanup` and `thread_local` have about a million each.

*Bounds.* The registry's invariants relate at most two threads and the entry
between them; three names with room for two make the size the reason of a refusal
while a name is free, and let `set_thread_caps` fail at its first, second or last
capability. `MaxDepth` bounds nested callbacks: two levels have a callback
started before the capabilities are set, and one after, on the same stack; room for one
entry leaves a name to be registered anew by another callback while the first still runs.
wiltoncall_init registers four calls; two give a first one, a last one and
a point between. `MaxLoads = 2` is one more than the number of successful
initializations of a library that the code allows. In `cleanup` the engine map's cleaner may be
registered twice, or before or after one that calls back, or while another thread
iterates; two engines let one be constructed anew while a stale reference to the
other remains. A circle of three lock holders needs three threads: one constructs an
engine and loads a library, one loads a library and registers a cleaner, one runs a
cleaner that erases an engine. In `handles` three threads have one remove while another has peeked and
a third puts back; three addresses have an object in each registry and one with a thread.
Eight calls deep, an error of a callback passes through wiltoncall to the initializer of a
library, through wilton_dyload and the wrapped dyload_shared_library, and out of another
wiltoncall and wiltoncall_runscript; a function has at most one
buffer that its caller has not received, a C callback two, and a lost one is recorded
once, so that four buffers are never all in use. The proofs below have none of these
bounds except `MaxDepth`, `MaxLoads` and `MaxCleaners`, which are arbitrary there.
Symmetry is used in runs without liveness properties only.

*Fairness.* A thread inside a method goes on (`WF` of `Step`): the scheduler of the
system runs it, and no method waits for anything but the mutex. A free mutex that is
waited for is taken by somebody (`WF` of "some thread locks"); `std::mutex` does not
say by whom, so no fairness is assumed for the `Lock` of one thread, and
`OnlyStarvedByOthers` says what remains true: a thread that waits for ever sees the
others take and release the mutex for ever. `CleaningEnds` says the same of a thread that
holds the cleaners' mutex and waits for the engines'; `MethodsEnd` is about threads that
have the mutex: they come to the end of the method and no longer have it then. `Dyload` assumes that initializers return, unless they call wilton_dyload, and
`ThreadCleanup` the same of cleaners and constructors. Nothing is assumed of callers or
scripts. The runs `dyload`, `cleanup` and `locks` have no check of deadlock, because
foreign code that calls back under the mutex does stop every thread.

*Disagreements.* Two runs end in a counterexample: capabilities that pass to a later
thread with the same id (`dispatch_reuse`), and a name that is remembered differently
from how it is looked up (`dyload_name`). Seen while reading, without a run:

* A capability that names no registered call is refused with the text of the other refusal,
  "Thread capabilities already set" (`wiltoncall_registry.hpp:141` and `:136`); the models
  keep one reason for both.
* wiltoncall_init sets its flag first, so after an initialization that failed the
  next is told that the program is already initialized. `FailedForGood` says that this
  is for good.
* The engine of a thread that ended without being cleaned stays in the map, and a later
  thread with the same id uses it. `EngineOfItsThread` is about ids and holds; which
  thread of the id constructed the engine is not in it.
* A result that comes beside an error, or whose length `wiltoncall.cpp:129` refuses, is
  freed by nobody. `NothingLost` names these two cases and excludes every other.

*Left to callers.* A shared or unique registry takes only what its caller owns: an
address that is put twice is destroyed by the second put, which the guards of
`SharedPut` and `UniquePut` exclude and no property catches. A handle kept after its object
is removed may find a later object at the same address. wilton_clean_tls destroys the engine
of any id it is given, in use or not.

## 4. What is proved

The theorems hold for every number of threads, names, callbacks, libraries, engines,
cleaners, objects and configurations. `CallAssumption`, `NoThreadAssumption`, `DepthAssumption`,
`InitAssumption`, `DyloadAssumption`, `EngineAssumption`, `CleanersAssumption`,
`NullAssumption`, `ValuesAssumption`, `BufferAssumption` and `LockAssumption` say what the
constants are. Every safety property of a passing run, invariant or action property, is
stated by a theorem.

* `WiltoncallRegistryProofs`. The inductive invariant is `TypeOK`, `MutualExclusion`
  and `ChecksStayTrue`: a thread between two statements of a method holds the mutex,
  so nobody else changes the map, so what it has checked is still true. Theorem
  `Invariance` is that invariant. `Capacity` needs the check of `put` to hold still at
  the insertion, and `FS_CardinalityType` and its companions about the size of the map.
  `CapsGranted`, `EntriesNeverReplaced` and `HandedOut` are action properties that follow
  from the invariant by a case per action: what `get` hands out is what its iterator
  points at, and that this is still the registered entry is the part of `ChecksStayTrue`
  that the mutex gives. `Refinement` maps `PutInsert`, `GetChecked`,
  `ListEnd`, `Remove`, `SetCapsInsert` and the refusals to the atomic step of the method
  and everything else inside a method to a stutter. `Advance` is the safety core of
  `OnlyStarvedByOthers`: the names a loop has still to pass, plus the first check,
  strictly decrease with each statement of the method and are increased by no other
  thread. The names to list are finitely many by `Capacity`; those of a set_thread_caps
  are assumed to be.
* `WiltoncallProofs`. `Confinement`: a callback on the stack above `outer` was looked up
  when the thread's capabilities were set, which never change until the thread has ended;
  an id that is used again may keep capabilities the thread did not set, but never
  loses those it set. `Lifetime`: what enters a stack is the last response, and a
  response is an entry of the map at that moment. `TypeCorrectness` is the rest of the
  same invariant. `UsesRegistry`: every step of callers and callbacks is one of
  `CallRegistry` or leaves its variables, so that with the refinement above the module
  stands on the code of the registry. `OwnCapabilities` is the half of
  `CapsAreThreadLocal` that the reuse of ids does not break, and `CapabilitiesStay` that
  what is set under an id is set for good.
* `WiltoncallInitProofs`, in two layers. The first invariant assumes nothing: the flag is
  set from the moment a call is let through, the calls registered so far are still the
  program's own or have been removed, and a configuration that is loaded stays (`Loaded`),
  whoever has loaded it. `Initialization` and `NoLaterEscape` follow: one initializer, a
  complete success, a default engine that is current, and no exception out of
  wiltoncall_runscript once there is a configuration with an engine. `FailureIsFinal` adds
  that whoever was told of a failure has left the flag set. Only where the
  configuration comes from (`ConfigurationIsGiven`) assumes `EmptyText = Malformed` — the
  JSON parser refuses an empty text — so that a reader that comes first cannot load one;
  its invariant `OnlyInitLoads` is above the first.
* `DyloadProofs`, in two layers as well. `Invariance` assumes nothing of names: the mutex
  is held by the one thread inside, and what is remembered is what some initialized library
  reads as. When names are NUL-terminated (`CString` is the identity), as every caller
  inside the repository has it, a name that is not found is a library that is not
  initialized (`AttemptIsFirst`), from which `NamesRemembered`, `NoneTwice` and the
  `Refinement` of `LoadOnce` follow; the counterexample of `dyload_name` is why the
  assumption is needed, and `NoneTwice` that nothing else is.
* `ThreadCleanupProofs`, of the map alone. The invariant adds `Pending` to the mutual exclusion and to
  `EngineOfItsThread`: a thread that has not found an engine still has none when it
  constructs one, because only itself adds engines under its id. `OnlyCleaningDestroys`
  follows: an engine in use that exists is the one under the thread's own id.
* `ThreadCleanupProofs`, of the composition. `UsesEngineMap` is the refinement of the map alone: every step of
  the composition is a step of `ScriptEngineMap` or leaves its variables, which needs that the id
  passed on is that of a thread. `EnginesOfTheirThreads` and `DestructionIsCleaning` are
  then the theorems about the map. `Placed` says who can be where: a thread in the engine
  map's cleaner is at that cleaner in wilton_clean_tls, has the id from there, and is alive.
  `CleanersAllRun` and `CleanersUnchanged` follow from the cleaners' mutex, held for a whole
  iteration: what has run is the beginning of the vector, which only grows.
  `EnginesSafeInOrder` adds `OrderInv`: as long as the order is kept, a cleaned id runs no
  script and begins none before the cleaning ends, since its thread has ended or is the one
  that cleans; so the engine erased is in nobody's use, all others being under other ids.
* `RegistriesProofs`, of handles. `OwnsAlone` is not inductive: it needs that the registries have no
  object in common, that nobody refers to what the unique one has, and that what
  exists is exactly what is owned (`LiveIsOwned`), or a new object could have old owners.
  `Refinement` shows, for each method and each way to lose a pointer, the step of `Ownership`
  it is, or that nothing changes; the equality of what survives with what is still owned
  is `LiveIsOwned` again.
* `RegistriesProofs`, of thread-local values. `OwnValue` needs that what waits to be put is
  a value, or an entry would look like none. `PeekedStays` is a property of put, which
  leaves an entry alone, and of the keys, since nobody else writes under the id of a
  thread. `ThreadsApart` says the same of everything a thread holds. `DumpIsExact` is the
  one that needs the mutex: `ListedAreKeys`, what has been listed so far is in the map,
  survives the steps of others because none of them is inside a method. `TlAdvance` is to
  `MethodsEnd` what `Advance` is to `OnlyStarvedByOthers`; that the keys are finitely many
  is an invariant of its own (`FiniteKeys`), whether or not the ids are.
* `CallBuffersProofs`. The invariant has three parts, of the stack, the buffers and the
  parameters. `OneAnswer` is not inductive: what a C callback answers is out of order, so
  it takes that only wiltoncall is below one on the stack (`CallbacksBelow`). The two
  leaks have to be noted at the moment the callback answers (`OddIsNoted`) and touched by
  nobody after wiltoncall has passed them over (`OddIsLeft`). `Freed` and `AnswersInOrder`
  follow, and `OddStays`: the two exceptions of `NothingLost` are real,
  such a result is never freed.
* `LockOrderProofs`. The mutexes have an order: dyload, cleaners, engines, registry. The
  invariant is that each thread took those it holds in that order and waits for a later
  one, and that the registry's is the last; if engines ask for more than the registry,
  this is so up to the first engine mutex a thread took, and no invariant at all about
  what follows, which is why `TakenInOrder` has its second disjunct. In a circle of
  threads nobody waits for the registry, whose holder waits for nothing, so nobody
  holds an engine mutex, so nobody waits for one, and so down the order.
  `EnginesAreTheOnlyCircle` states the property of the run; `DeadlockFreedom` adds that
  nobody waits in a circle at all if the registry is all that engines ask for. Both assume
  `ForeignCodeIsOrdered`: what initializers and cleaners ask for is foreign to the
  repository. `MutualExclusion` assumes nothing: the type
  invariant of the run, in which no thread has a mutex twice, follows from `OneHolder`.

`MutualExclusion` of the registry, of dyload and of the engine map, `MutexIsHolder` and
`HeldApart` of the thread-local registry, `OneHolder`, `OneInitializer` and `NeverReplaced`
are proved and no run checks them on their own.

Only model-checked: the liveness properties `OnlyStarvedByOthers`, `BlockedOnlyByNesting`,
`CleaningEnds` and `MethodsEnd`, because fairness and ENABLED are outside of what the prover
handles. Of the first and the last `Advance` and `TlAdvance` prove that the methods
come to an end if they go on; that they go on is what fairness says.

## 5. What is not modelled, and the plan

The plan: the same argument for the cleaners, where what decreases is the number of
cleaners still to run, the one of the engine map counted with its statements; the holder's progress in dyload, which
`BlockedOnlyByNesting` says only a nested initializer stops; and the failure of
allocation in the buffers, which no module has yet.

Not modelled, and why:

* `dyload_windows.hpp`: the same contract as `dyload_posix.hpp` with other system calls.
* shorten_script_path and strhandle: they make texts for messages, and nothing in the
  repository decides anything by them.
* Failure of allocation: wilton_alloc returns null, and alloc_span and the makers of
  buffers write to what it returns without a test. alloc_span casts the size to int after
  one is added; within the repository it is called with the size 0 only.
* The content of JSON texts and messages, and the levels of `logging.hpp`; `exception.hpp`
  beyond who frees the error.
* The local statics of Visual Studio 2013, whose construction is not thread-safe and for
  which wiltoncall_init touches some of them early: the models take the C++11 rule.
* Build files and lists of exports.
