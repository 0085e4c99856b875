# A verification project for native-typescript

native-typescript compiles TypeScript to native programs and lets them call
GTK, JVM and Blink APIs.  This directory holds TLA+ models of the parts of it
that keep state or decide what may be called, TLC configurations that check
them, and TLAPS proofs.  `PROJECT.json` lists the components, the runs, the
mutants, the map from definitions to source lines, the findings, the hazards
and the theorems.

## The system and its parts

| part | state it keeps | operations | hard behaviour |
|---|---|---|---|
| handle table (`target-chromium/prototype/.../nts_handle_table.c`) | slots, generations, free list | insert, retain, release, resolve, invalidate, destroy | reuse, wrap-around, limits, long call sequences |
| artifact cache (`core/src/artifact-cache.ts`) | a directory per action key | restore, publish | builds racing, stale entries, crashes, files changing |
| artifact graph and executor (`core/src/artifact-graph.ts`) | graph, completed actions, materialized artifacts | validate, execute in rounds and batches | partial failure, abort, deadlines |
| sandboxed command (`runCommand`, same file) | flags of one promise, child, timer, listeners | spawn, settle | events in any order |
| GLib runtime and GTK application (`target-gtk/runtime/`) | adapter references and flags, sources of a context | start, wake, poll, dispatch, stop, detach | foreign threads, lost wake-ups, stale sources |
| JVM runtime (`target-jvm/runtime/nts_jvm_runtime.c`) | VM, thread environment, boot record, pump | load, start, stop, complete, poll | boot handshake, partial failure, foreign threads |
| Blink managed registry (`target-chromium/chromium/overlay/nts_blink_managed_registry.cc`) | node peers, index, listener lists | acquire, listen, release, invalidate, delete | closures that re-enter the registry |
| Blink realm and renderer hosts (`nts_blink_realm.cc`, `nts_blink_counter_host.cc`, same directory) | realm, scheduler and service of the process, microtasks, current realm | start, emit, drain, await, shut down, lose the document | re-entry, continuations that outlive a realm, two hosts in one process |
| GIR binding generator (`bindgen-gir`, `target-gtk/src/application-project.ts`) | per namespace: snapshot, adapter source, manifest | ingest, plan imports, generate C, project | packages generated apart that must agree; who releases what |
| JVM binding generator (`bindgen-jvm`, `target-jvm/src/android-application.ts`, `application-build.ts`) | classes extracted, snapshot, adapter source, manifest, sidecar | extract, generate subclasses, ingest, adapt, project | what is not extracted is absent; members moved between classes; ids derived twice |
| SCABI manifests and ScriptC embedding (`scabi/src/validation.ts`, `scriptc/src/native.ts`) | one program per package, one composed program | validate, reach, mark cycles, lower, merge, order links, resolve, reconcile | partial selections, order of packages, cycles across packages, slots claimed twice |
| Blink node and subscription registries, Blink bindings | handle tables behind a realm | dispose, call | - |
| C and WebIDL generators, `cli`, `target-api`, target plans | none that outlives a call | translation, planning | - |

They interact as follows.  The command line asks a target to plan a build.
The target generates a package of native bindings for each namespace or set of
classes the application selects: a C adapter source and a SCABI manifest.
ScriptC's embedding validates and translates each manifest and composes one
native program of them; what the compiler emits, and the adapters, become
actions of an artifact graph.  The executor runs it, each action through the
cache, or through a sandboxed command and a publication.  The product links one
of the runtimes.  A runtime attaches itself to ScriptC's loop
(`scr_loop_set_attached`) and gives ScriptC's retained-callback service a wake
function; foreign threads admit events, the owner thread delivers them, one
per turn, and runs a checkpoint.  In the renderer a host configures the
runtime and its realm owns the registries; compiled code holds claims on peers,
and a listener's closure may hold claims too.  ScriptC, the retained-callback
service, Node, GLib, the JVM and Blink are not in the repository: what a model
needs of them is an action marked external in the map.

What makes each part correct: a stale handle never reaches another object and
tokens are destroyed once; a restored output is current and whole and no build
disturbs another; what validation accepts can be executed and the execution
ends; a command succeeds only when all of its output is there, and a rejected
one leaves nothing running; an admitted event is delivered and a stop stops;
the JVM environment is never one of a VM that is gone; claims are exact
however releases nest; the program is entered only in a living realm of its
own, and every continuation runs or is cancelled; a generated package calls
only what its adapter defines, upcasts exactly along the declared hierarchy and
releases everything once; a composed program does not depend on the order of
its packages and leaves nothing it names undefined.

## Modules

`HandleSpace` is the abstract promise of a handle table: tokens enter, are
counted, and die once.  `HandleTable` is the code: slots, `nextFree` and
`freeHead` (`next_free`, `free_head`), `generation` with its wrap past zero,
`references`, the realm check, invalidate and destroy.  The insert is two
actions because the code takes one of two arms: a slot of the free list, or a
new one.  Its variables `issued`, `hooked` and `wrapped` are history: the
handle a token got, how often the destroy hook ran for it, the slots whose
generation has wrapped.  `HandleTableProofs` holds the theorems.

`ArtifactCache` has one action per awaited file-system call of
`restoreActionFromCache` and `publishActionToCache`, for several builds with
the same key, plus the tool run and `undeclaredDependencies` in between.  The
entry is a directory with four names, taken apart one name at a time by `rm`.
A digest is the content itself; an output is the function from headers to the
versions the tool read.  `EditHeader` and `Crash` are the world outside, and so
is what `rename` refuses (`PathIsFree`).  `began` is history: the headers as
they were when a build looked the key up.
`ArtifactCacheProofs` holds the theorems.

`ArtifactGraph` has graphs as records and the referential rules of
`validateArtifactGraph` as operators, the topological loop included.
`ArtifactExecutor` extends it with `executeArtifactGraph`: rounds, batches
under `Promise.all`, the memoised tool verification, and the states of each
action.  The cache and the command are one step with all their outcomes there.
`GraphsAssumption` (`IsGraph`) says that a graph has finitely many actions and
that no action has the number of `Source`; `InIdOrder` is the sort of a round.
`ArtifactExecutorProofs` holds the theorems.

`RunCommand` opens that step: one promise, its `settled`, `processComplete`
and `standardOutputComplete` flags, and every event that touches them.
Its flag for the caller's signal is `signalled`.  Its theorem is in
`ArtifactExecutorProofs` too.

`JvmRuntime` has `product` for the three ways the runtime is built: an
executable, a hosted library with a spawned owner, a library adopted in place.
`env` is `nts_jvm_thread_env` of the owner thread, VMs are numbered, and `env`
is the number of the VM it belongs to; `saved` is the value a poll or a
trampoline puts back.  `signaled` is a pending wake-up of the owner that waits
on the condition variable; both critical sections are one step each.
`JvmRuntimeProofs` holds the theorems.

`GlibRuntime` composes `nts_glib_runtime.c` with `nts_gtk_application.c`: a
record per adapter, its attached sources counted, and the iteration of the
context in hand.  An iteration dispatches the sources it found ready when it
began; `wakeup` is the context's own pending wake-up.  `GlibRuntimeProofs`
holds the theorems.

`ManagedRegistry` has an explicit call stack, because releasing a closure
(`ReleaseScriptCCallbackContext`) runs arbitrary releases before the C++ call
that triggered it goes on.  A frame of the stack is an operation and the
object it stands on; `HookReleasesNode`, `HookReleasesSubscription` and
`HookReturns` are the closure's part.  `held` says which claims the program
and each closure hold, `Total` adds them up over the holders; a failed CHECK
or a read of freed memory sets `outcome` to "aborted".  The linked lists are
sequences; unlinking takes out the first match (`RemoveFirst`), and `NextLink`
is the entry after the place where a registration stands.  `ManagedRegistryProofs`
holds the theorems.

`BlinkHost` is the renderer process around that registry: hosts
(`BlinkCounterHost`), each with a realm, on one Blink thread and therefore also
with an explicit stack, of calls whose `saved` is what
`ScopedCurrentWebRealm` restores.  The process has one ScriptC runtime, so one
`scheduler` and one `service`, which several hosts may ask for.  A start is four steps, as many as it has
outcomes: `StartHost`, `ConfigureScheduler`, `ConfigureCallbacks` (each refused
while another host has what it asks for) and `Started` or `StartFailed`; a
refusal goes through `Shutdown` as the destructor does, and takes back what
this host had been given.  `ShutdownCallbacks` may leave the service behind, as
`callbacks_destroy` may, still naming the host.  `Invalidated`
is the whole of `NtsWebRealm::Invalidate`, with the stop hook of the scheduler
and the cancellation of the stable listeners as its steps; `DestroyContext` is
the lifecycle observer.  `job` and `microtasks` follow a continuation from
`EnqueueHostedMicrotask` to the microtask that runs it, possibly after its
realm is gone.  `BlinkHostProofs` holds the theorems.

`NativePackage` is one manifest: `ManifestValid` the rules of
`validateSemantics` between its parts, `Brings` one turn of the reachability
loop, `TraceableSeeds` the handle types a retained callback can close a cycle
through, `Refuses`
the checks of the emission loop, `LoweredPackage` what it contributes.  It
takes `NativeSignature`, as `Physical`: the physical slots of a call.  There a
signature is positions (parameters and a result) with their ownership,
marshalling and callback contract; `DataFits`, `CallbackFits` and
`ResultFits` are what the embedding supports, `DataCollide` and
`CallbackCollide` the claims on a slot that are compared, and `Slots` the
parameters of the C call, the compiler's own trailing ones included;
`LoweredCallback` is what a delivery carries (the slots C fills, what the
handler sees of them, how it answers) and `LoweredResult` whether a copied
result is anchored to its receiver or released after the copy.
`NativePrograms` is the pipeline over a sequence of packages, one action per
loop of the code: validate, reach, mark, emit, and, over all of them, merge,
order the link inputs, resolve the references between packages, reconcile the
traceability.  A diagnostic sets `refused`.  `Composable` and `InLeastOrder`
say what the composition promises, of the set of its packages alone.
`BuildsAssumption` is what the schema of a manifest gives (`IsManifest`) and
that a build has a package.  `NativeProgramsProofs` holds the theorems.

`GirSnapshot` is the ingestion of one GIR document under a selection,
`GObjectAdapter` what a class's members may be, the wrapper functions the
adapter source defines and the releases it records, and `GObjectScabi` the
steps of a plan with one namespace or two: ingest each, generate each adapter,
project it to a manifest over the imports, and, for the check, translate the
manifest with `NativePackage`.

`JvmSnapshot` is the selection's ancestry and the resolution of members against
class files, `JvmAdapter` what crosses and which functions, registrations and
symbols the adapter source has, `JvmSubclass` the Java class generated for a
base that a program implements (its generator, what the application asks of
it, and what javac makes of it), and `JvmScabi` the steps of a plan from the
archive to the parsed manifest and its direct sidecar.

An `MC` module declares the small graphs, documents, class files, manifests
and builds of its run; the definitions in it are inputs, not code.

Definitions whose name begins with `Faulty` are bugs the code could have had.
They are not used by any specification; PROJECT.json names, for every property,
one of them that the property detects when it replaces the definition after it.

## Runs

| run | bounds | distinct states | shows |
|---|---|---|---|
| `handle_table` | 5 tokens, 3 slots, generations to 3, 2 references | 1 766 | complete free list, token ownership, stale handles, refinement of `HandleSpace` |
| `artifact_cache` | 3 builds, 2 headers, 1 edit, crashes | 256 032 | hits are current and one run's work, races for the key settle, builds end |
| `artifact_executor` | all graphs of 2 actions, all dependencies of 3, concurrency 2 | 9 242 | accepted graphs execute; abort and deadline |
| `run_command` | every option combination | 308 | settlement is whole and leaves nothing waiting |
| `jvm_runtime` | 3 products, 2 packages, 2 producers, 3 events, 2 starts | 15 815 | boot, environment, rollback, delivery |
| `glib_runtime` | 2 producers, 3 events, 2 adapters | 10 137 | references, stale sources, delivery, stop |
| `managed_registry` | 2 nodes, 2 peers, 3 registrations, 1 extra claim | 520 353 | claims, index, admission, links |
| `managed_registry_cursor` | 3 registrations | violation | the cursor of `Invalidate` on a deleted registration |
| `blink_host` | 2 hosts, 2 continuations, 2 listeners, 1 pending delivery, calls 4 deep | 69 092 | no pointer to a dead realm, admission and its rollback, continuations settle |
| `native_programs` | up to three packages in every order, one probed call at a time | 131 388 | order independence, traced cycles, nothing dangles and arguments arrive |
| `gobject_bindings` | 1 or 2 namespaces, one probed member or flaw at a time | 11 084 | exact adapter, releases, upcasts, generated manifests are accepted |
| `jvm_bindings` | one family of classes at a time | 25 427 | ancestry, selection, upcasts, exact adapter, generated manifests are accepted |

Several properties are conjunctions of parts that the module names:
`HitIsCurrent` includes `EntryIsOneRun`; `RaceSettles` is `NoStaleResult` (nobody
reports an output older than its own start, the loser of a publication
included) and `KeyKept` (a whole entry is left); `SettledIsDone` is
`ResolvedIsWhole` and `NothingWaits`; `LaunchedIsDue` is `InputsMaterialized`
and `NoCommandAfterAbort`; `ReadyWhenReported` is `LoaderSeesOwner` and
`StartedIsServed`; `AdaptersExact` is `ReferencesExact` and
`StaleSourceSilent`; `PeersExact` is `ClaimsExact` and `IndexIsIdentity`;
`NothingDangles` is `NamesResolve` (what a call names is in the program) and
`CallsArrive`, which is `ArgumentsArrive`, `PayloadsArrive` and `ResultsArrive`
for every call that is not a peer accessor: those have the one shape that
`AccessorSupported` asks for.

The bounds are the smallest at which every situation of interest occurs: three
slots and generations that wrap so that the free list has an inside and a slot
is reused past zero; three builds so that one restores while two replace; two
headers so that a loop over them is interrupted, and one edit, after which an
entry is stale and removed by every build that sees it (two edits of one header
pass as well, 862 500 states); three actions so that a batch
of two leaves one for the next; two producers so that one admits while the
other is between its admission and its wake; two adapters, VMs or hosts so that
something of the first is left when the second starts; three registrations so
that one is behind the one that a closure deletes; four nested calls so that a
continuation released by a stop runs the program, which stops again.

The generators and the composition are functions of their input, so their
runs enumerate inputs instead of interleavings; the states are the steps from
each to its outcome.

- `native_programs`: pairs of packages in both orders, triples in three, and
  one package twice under different selections, with upcasts, destructors and
  callbacks across them, agreeing or not on link inputs and contracts; manifests
  that validation refuses; and packages `Owner` with one call:
  every single parameter, every result with every error contract, two spans
  over three extents, one callback with every contract, two callbacks that
  share contexts or hooks.
- `gobject_bindings`: a namespace with six declarations and one that extends
  it with four, each with an enumeration and a layout; one probed member at a
  time over every combination of value kinds, every subset selected, every
  statement of a record's copy and free, one flaw of the document at a time.
- `jvm_bindings`: a chain of three classes with declarations on any subset of
  it and the members asked for by name or by key; interfaces above interfaces;
  one member of every signature; one native method under every statement; a
  constant, a peer slot, a nested class; names that collide; subclasses of
  every shape of base with every override, also two of one base.

`CHECK_DEADLOCK FALSE` stands wherever the program may really stop: a process
ends, every build is done, a promise is settled, a package is written.

Three constants keep a passing run within a precondition: `StopInTurn` and
`HostedRestart` of `JvmRuntime`, and `EditsDuringAction` of `ArtifactCache`.
The last is a precondition of `HitIsCurrent`: dependencies are digested after
the tool has ended, so an edit during its run is recorded without having been
read (`MCArtifactCacheEdits.cfg` shows it).  `GlibRuntime.Shutdown` demands that no admission is in progress, which
`nts_glib_runtime.h` asks for ("native event producers must be stopped
separately").

### Disagreements

One run of `PROJECT.json` ends in a violation and is listed there as a finding.
These configurations are kept beside it; each is violated by what the code
does, and run with `tlc -config <file> <module>`:

| configuration | module | shows |
|---|---|---|
| `MCArtifactCacheTornRead.cfg` | `ArtifactCache` | a lookup fails because another build removes the entry it reads |
| `MCArtifactCacheEdits.cfg` | `ArtifactCache` | a header saved while the tool reads it is recorded in its new version, and a later hit is not what the tool would make |
| `MCBlinkHostNotQuiesced.cfg` | `BlinkHost` | a callback service that does not quiesce keeps the deleted host as its wake context (`nts_blink_counter_host.cc` 284-294 only log it) |
| `MCJvmRuntimeStopInTurn.cfg` | `JvmRuntime` | a callback stops an executable: the poll puts back the environment of a destroyed VM |
| `MCJvmRuntimeHostedRestart.cfg` | `JvmRuntime` | an adopted program that starts again succeeds without a service |
| `MCManagedRegistryCheck.cfg` | `ManagedRegistry` | a CHECK in `RemoveNode` fails during invalidation |
| `MCNativeProgramsErrors.cfg` | `MCNativePrograms` | an error entry's adapter input is not collected, though `validation.ts` calls it an ordinary dependency |
| `MCNativeProgramsIdentity.cfg` | `MCNativePrograms` | a span takes as its length the parameter that an earlier span names as its static identity |
| `MCGObjectScabiRelease.cfg` | `MCGObjectScabi` | a retained result's release is spelled with the class's prefix (`gobject-scabi.ts` 2706-2711), not the one of the topmost class |
| `MCGObjectScabiFreeSelected.cfg` | `MCGObjectScabi` | a record's stated free, selected as a member, becomes an ordinary call of the destructor's function |
| `MCJvmScabiStrings.cfg` | `MCJvmScabi` | a class whose only String is a plain result calls a bridge that is not generated (`jvm-adapter.ts` 1199; 770, 784 and 1066 set the flag) |

Met while modelling and kept in the models as the code has them, without a
configuration of their own:

- *GObject.*  An imported class's release is named by its own prefix (1362)
  while its owner names that of the class that hosts it; an imported boxed
  record handed back borrowed is retained with `g_object_ref`;
  `forwardedInputProjection` looks classes up by bare name, so a foreign class
  with a local namesake gets the local type; a record that states only one of
  copy and free is refused unless the other is selected by name, against
  `gir.ts` 1341-1344; `reachedForeignTypeNames` (`gir-clang.ts` 112-141) does
  not visit boxed records, against its comment; the same package generated for
  two selections is refused in composition, since the traceability differs.
- *JVM.*  Ids are lower case, so `a/B` and `a/b` overwrite each other silently,
  though `jvm-scabi.ts` 181-186 says the collision is refused; a hierarchy that
  comes back to itself hangs `jvm-scabi.ts` 573-583, where `jvm.ts` 837-840
  says it is reported; a name moved onto an owner that is also asked for the
  method by key is refused only later, as "Two members lower to the same
  binding id"; an interface behind an unselected one is no upcast; `cSafe`
  spells `a/B_C` and `a/B$C` alike; a class of the default package called
  Object or Connection takes the package's own ids; a class-anchored subclass
  with an answering override, and a String payload of an override, are refused
  only by the adapter, where `jvm-subclass.ts` 9-11 says refusal happens where
  the subclass is named.
- *ScriptC embedding.*  A process-owned registration is lowered as synchronous
  whatever its contract states (1509-1524) although its payload was checked as
  queued; a nullable owned result or a moved parameter of an imported handle is
  refused, because some checks look only at the package's own types where
  `positionTypeKind` would see imports, and a call over imported handles alone
  is not held to the owner's thread; a string vector's anchor need not name the
  receiver, a C string's must; the peer accessors of a type reached only by an
  upcast are not brought along (2343).

## Fairness

Weak fairness is given to what the code's own schedulers run: Node's event
loop (executor, promise callbacks, timers), the owner thread, a foreign thread
between its admission and the end of its wake, a build that has not died, the
return of a call on Blink's thread.  Tools, platforms, timers of the program,
editors, crashes, admissions and aborts get none: nobody has to exit, call,
save or press a key.  `GlibRuntime` asks strong fairness of `LoopEnds`: a loop
with nothing pending may poll again for a timer, but a program's timers end.
`BlinkHost` asks it of `RunHostedJob`: every Blink task ends with a microtask
checkpoint, but the thread may always be given another task first.  The
pipelines (`NativePrograms`, `GObjectScabi`, `JvmScabi`) have safety only.

## Proofs

`HandleTableProofs` proves, for every number of slots, tokens and types, every
generation and reference limit, from the assumptions in `HandleTable`
alone:

- `TypeCorrect`: the type invariant.
- `InductiveInvariant`: the type invariant with `SlotsConsistent` (an occupied
  slot holds a token that points back at it), `TokensConsistent` (a token
  issued and not destroyed is in the slot of its handle), `GenerationsAdvance`
  (a handle is never ahead of its slot, and a dead one is behind it unless the
  generation has wrapped) and `FreeListComplete`.  None of the four is
  inductive alone: a release may only push a slot that is not on the list
  already, which needs that occupied slots are off it; that a stale handle
  differs from its slot needs that generations only grow.
- `FreeListIsComplete`, `TokensAreOwned`, `StaleHandlesAreRejected`: the
  invariants the run checks.
- `RefinesHandleSpace`: initial states map to initial states, every action to
  `Insert`, `Retain`, `Release`, `Close` or a stutter.  `Invalidate` is `Close`
  because of `TokensConsistent`: all live tokens are in slots.

The free list is stated as the existence of an injective sequence of slots
that is the chain; pushing, popping and rebuilding it are lemmas with explicit
witnesses, so no induction over data is needed.

`BlinkHostProofs` proves, for any number of hosts, continuations and
listeners, and calls nested to any depth `MaxDepth` allows:

- `PointersLive`, `AdmissionIsOwned`, `ProgramEntersLiveRealm`: the safety
  properties of the run, over `TypeCorrect` and `IInvInvariant`.
- `IInv` says of each raw pointer why it is good.  The scheduler's realm is
  alive and the only one with a stop hook, and every queued job was queued
  through it (`SchedulerConsistent`); a job waits for at most one microtask
  (`MicrotasksConsistent`); a configured host has the one service, a service
  that does not accept holds no delivery (`ServiceConsistent`), and a started
  host is configured and keeps the scheduler (`StartedServed`); observers,
  listeners, the current realm and what each frame saved exist
  (`ReferencesLive`, `CallsLive`).  That a service which does not quiesce wakes
  nobody is no part of this: the theorem says that it has nothing to wake for.  The stack needs a part of its own, `StackConsistent`: only
  continuations, handlers and events are nested, so that the parts of a start
  or its rollback, a stop or an invalidation are outermost and still find their
  host as the part before left it; the
  outermost call saved nothing, and an event restores what is current anyway.
  Without the shape of the stack no return is known to put back a realm that
  exists, and a shutdown is not known to delete a host no frame has saved.

`ArtifactCacheProofs` proves, for any number of builds, headers, edits and
crashes:

- `KeyIsKept`, without any hypothesis: the half of `RaceSettles` that says an
  entry is left.  `KeyAttended`: an entry that is not whole is being removed by
  some build, and where nothing stands although a build has executed, some
  build is about to publish, unless that build died.  A removal alone would
  lose the key; that the remover goes on to publish, and gives up only when it
  meets something at the path, keeps it.
- `RaceIsSettled`, the whole of `RaceSettles`, under `~EditsDuringAction`.
  Versions only grow (`disk`), so what a build's tool read is not older than the
  build's start; for a hit `SinceInv` says the same of what the comparison has
  covered so far, and by `HitsAreCurrent` the output is that.
- `EntriesAreOneRun`, without any hypothesis.  `OneRunInv` adds that an entry
  was published by a build that is done (`EntryConsistent`) and that outcomes
  are final; an entry half removed is still one build's.
- `HitsAreCurrent`, under `~EditsDuringAction`: the theorem assumes what the
  run's configuration sets, and the model without it is refuted, because
  dependencies are digested after the tool has ended.  `CurrentInv` says for
  each program counter what of `made`, `recorded` and `seen` agrees with the
  disk or with the manifest as far as the loop over the headers has come
  (`BuildCurrent`).

`GlibRuntimeProofs` proves, for any foreign threads, events and starts:

- `AdaptersStayExact`: `ReferencesExact` and `StaleSourceSilent`; and
  `TypeCorrect`, whose one hard part, that no count of references falls below
  zero, follows from `ReferencesExact` and not the other way round: the lemmas
  take references as integers.
- `IInv` adds that the active adapter is the current one, that an iteration's
  batch is attached (`BatchAttached`, else a dispatch would release a source
  that is not there), that a dispatch is inside a callback or its checkpoint,
  that events are admitted only with an adapter to wake, and that threads,
  sources and the service name only allocated adapters (else a start would
  hand out an adapter that something already counts on).

`ArtifactExecutorProofs` proves, for every set of graphs that `IsGraph` admits,
any concurrency, and every setting of cache, deadline and signal:

- `LaunchedDue`, `AcceptedExecutable`: the properties of the run.  `IInv` says
  that what is left of a round is distinct, due and not completed
  (`RoundHolds`), that a started action is completed unless its batch is under
  way or the execution failed (`StartedWhenDue`), and that the materialized
  artifacts are the sources and the outputs of what is completed
  (`CollectedExactly`).  The invariant carries over a batch because a batch is
  a piece of its round: an action is due when its round is chosen and stays so,
  although others complete in between.
- `OrderKept`: validation's loop and the executor's loop are two computations
  on one relation, one that takes out whole rounds in advance and one that
  runs them.  The lemma `NoDeadlock`: a set of actions each of which waits
  for another of the set survives every round, so were the executor to find no
  ready action, what remains would be such a set and `Cyclic` would have held.
  This is an induction over rounds; it is stated about a set of numbers
  (`Induction`), since the library's principle takes an operator.

- `SettledDone`, about `RunCommand`.  `CompleteMeansClosed`: each of the two
  flags stands for an event that has happened and that nothing takes back, so
  the order in which the child and the stream close is immaterial.
  `WaitsWhilePending`: before the promise executor runs nothing is settled or
  waits, so the timer and the listener it arms belong to a pending promise, and
  only `Fail` and `SucceedIfComplete` settle it, which take both away.

`JvmRuntimeProofs` proves, for every choice of products, packages, producers
and bounds:

- without any precondition, `TypeCorrect`, `FailedStartsUndone` (an action
  property) and `LoaderServed`.  `BootInv` says where the threads can be in
  each product (`Stages`), that the owner is known and the packages are bound
  before the boot record says so (`Reported`), and that the pump is on the loop
  only for a service that accepts (`Served`).
- `EnvLive`, under `~StopInTurn`, and `ReportedReady`, under `~HostedRestart`.
  Both hypotheses are settings of the run's constants and exclude only what the
  two configurations above refute: `MCJvmRuntimeStopInTurn.cfg` and
  `MCJvmRuntimeHostedRestart.cfg` violate the two properties without them.
  `EnvInv` adds to `EnvIsLive` that the value a turn will put back is NULL or
  of the same VM, which is what a stop in the turn breaks; `StartInv` that a
  reported success has its pump, which is what a restart breaks.

`ManagedRegistryProofs` proves, for any document (`NodesAssumption`: the
stand-in for no node is not one) and any number of peers, registrations and
claims, through releases nested to any depth:

- `PeersCounted`: `ClaimsExact` is a sum over the holders; the lemmas say what
  `Total` does when one holder's claims grow or shrink (`TotalGrows`), and that
  no holder has more than the total, so that the last claim is really the
  last.  `IndexIsIdentity` has to say both directions (`node[index[n]] = n`):
  with one alone a release could erase the entry of another node's peer.
  `UnusedHoldsNothing` is needed because a new registration's closure starts
  with what its slot already held.
- `RegistrationsAgree`: `CallsInv` says what each call in progress may rely on
  (`FrameHolds`: what is to be deleted is cancelled and claimed by nobody; the
  loops of `Invalidate` run only when it is invalidated, the second only when
  the frame listeners are gone) and that the loop over the frame listeners is
  at the bottom of the stack as long as one of them is left (`BottomHolds`):
  the destructor's CHECK needs it, since closures run in between.  A step of a
  nested call only moves registrations onward (`Onward`), which keeps what
  every frame below relies on (`StackOnward`).
- `TypeCorrect` includes that no closure is given back twice.

The theorems about the registry have no hypothesis: `ClaimsExact` and
`IndexIsIdentity` speak of a process that still runs, and the model contains
the steps after which it does not (the CHECK of `RemoveNode`, the cursor that
reads a deleted registration; see Disagreements).

`NativeProgramsProofs` proves, for any manifests, selections and number of
packages, in any order, from `BuildsAssumption`:

- `OrderIgnored`: the composition accepts exactly when the packages are
  `Composable`, which does not mention their order, and then the link inputs
  are in the least order allowed.  The code merges one program after the other
  and lets the first of two definitions win, so it compares a program only with
  what is there already; `Merged` says that what is there is the union of the
  programs merged (`Collects`), with which a comparison against the union is one
  against every earlier program (`ConflictIsDisagreement`).  For that the lemmas
  need that a refusal is never forgotten (`MergedFits`): a later program is
  compared with the union even if that is no longer what all agree on.
- The order of the link inputs is Kahn's algorithm over numbers that are
  counted down, while `LeastOrder` and `Contradictory` speak of sets:
  `KahnFits` says that `indegree` counts the predecessors not yet placed, that
  `ready` is where it is zero, and that each placed link was the least it could
  be.  When nothing is ready, what remains is a set each of whose links waits
  for another of it, and conversely a contradiction is never placed
  (`AllPlaced`).  The edges are kept per link and grow with each program;
  `EdgesAreConstraints` relates them to `LinkConstraints`, which mentions no
  merge.  That a package has a sequence of its links at all (`LinkSequence`,
  the sort of `native.ts` 4091) is `OrderExists`, by induction over their
  number.
- `CyclesTraced`: a translation marks the handles of its registrations and what
  upcasts relate to them (`TranslationFits`, `RegistrationTraced`), the
  reconciliation starts from all of these (`MergedFits`) and ends when no
  composed upcast relates a marked handle to an unmarked one.
- `ProgramsInductive` is the whole of it, `IInv`.  The two properties speak of
  the end, so neither is inductive alone; every conjunct of `IInv` says what a
  phase leaves for the next.
- `CallsDelivered`: `CallsArrive`, the half of `NothingDangles` about slots, for
  every signature a manifest can declare.  `CallsFit`, on top of `IInv`: each
  call that a package emits has a supported signature and its lowering, and the
  composition keeps it (an accepted program contains every translation whole,
  `ComposedIsTranslated`).  The rest is about one signature: a slot that
  something else fills is a plain parameter of a type of its own
  (`SpanSiblings`, `CallbackSiblings`), so no source argument is lost in it; the
  comparisons of claims make the filler of a slot unique (`LengthFilled`,
  `CallbackFilled`), except that an extent may be taken for an identity too, and
  there the extent wins; and the compiler's own slots come behind all
  parameters (`SlotsTrail`).
- `NothingDangling`: the whole of `NothingDangles`, for manifests that satisfy
  `CalleesFit`: a dependency that a call names as its cancellation or its base,
  and every peer accessor, is a call, not an entry of an error contract, and an
  accessor has at most one adapter input, which provides it. A manifest that
  names a constant there leaves the name dangling, and the code does not refuse
  it: `validateBindingReference` wants a base to exist and to be a dependency,
  `supportedRetainedCallbackPair` the cancellation to be one, and the emission
  then skips error entries and makes no call of a constant. The manifests of
  the generators satisfy it (`gobject-scabi.ts` 3124 and `jvm-scabi.ts` 1545
  name the disconnect function as the cancellation, 1472 a method of the same
  package as the base, next to error entries of their own), and so do all
  manifests of `MCNativePrograms`. `NamesFit` says that the sweep is closed
  under what its bindings bring along (`Closed`) when the emission starts, so
  that a package contains what its calls name (`PackageNames`); destructors,
  which may be another package's, are there because `Resolve` looked for them.

Only model-checked: the properties of `GObjectScabi` and `JvmScabi`.  These
properties compare ids and closures computed for all inputs (ancestry, the
reach of a selection, what an adapter spells); what such a definition computes
needs an induction over data, and the library's principles take an operator as
a parameter, which the installed provers cannot instantiate.  The proofs above
that need an induction over numbers state it about a set (`Induction`, from the
well-foundedness of < on Nat), which works where the statement is about one
number, as for rounds, sums and the places of a sequence.  All liveness
(`EveryBuildEnds`, `StopEnds`, `JobsSettle`, ...) stays with TLC: ENABLED and
fairness are out of the prover's reach.

## Assumptions about what is outside

ScriptC's runtime refuses a second configuration and cancels queued jobs when
its scheduler is stopped; the collection and re-initialisation of the runtime
for a second host are not followed further.  A callback service whose destroy
fails was told to stop accepting before, and wakes its host only for what it
accepts.  Blink dispatches events and ends
each task with a microtask checkpoint.  The generators generate all adapters
of a plan before any package is built; `GObjectScabi` interleaves per
namespace, with the same outcome, since an adapter is a function of snapshots.
`Compiles` of `JvmSubclass` is what javac accepts; GLib, GTK, JNI and Node are
modelled from the calls made.

## Not modelled

Text and syntax: XML, class files, manifests' schemas, keys, paths, generated C
and declaration text.  Digests are contents, and Clang's evidence is taken to
confirm what the document says.  Memory exhaustion, save where an operation
reports it.  `runCommand`'s capture of output.  A shutdown of the GTK
application from inside a delivery.  In the registry, the invocation of a
listener by Blink and the early failure of `new (std::nothrow)`; in the hosts,
the C oracle lane, the benchmark host and frame-bound listeners (which
`ManagedRegistry` has).

In the generators: of GIR, the spelling of C types (a value is `exact` or not),
the annotations skip, optional, scope, closure and destroy (a parameter is
`plain` or not), scalar widths as payloads, aliases, clashes with the name of a
signal's connection; of Java, the order of descriptors (the first overload is
any fixed choice), modifiers and visibility of ordinary members, promises about
null, the element of a span, the package slug, the default name of a subclass.
`AncestryIsComplete` speaks of the plan's own selection: a generated interface
shell extends `java/lang/Object`, which need not have been extracted.  In the
embedding: structs, constants, exports, scalar operations, the types inside a
callback's signature, the range of an errno value.  Signatures are modelled for
the calls of `MCNativePrograms`; the manifests of the two generators carry none,
so `GeneratedIsCallable` speaks of the rules between bindings, types and
dependencies and of what crosses, not of slots.

The components with status `not_modelled` in PROJECT.json, each with its
reason: pure translation or planning (C and WebIDL generators, target plans,
command line), input and output (digests of files), calls with no state of
their own (Blink bindings), and the node and subscription registries, which put
the handle table behind a realm.

## Plan

1. `BlinkRegistries`: the node and subscription registries as clients of
   `HandleSpace` under `BlinkHost`'s realm: a listener exists exactly while its
   subscription lives, and a disposal after `Invalidate` is refused.
2. Signatures in the manifests of `GObjectScabi` and `JvmScabi`, so that the
   slots of every generated call are checked by `NativeSignature`.
3. The second phase of the GTK and JVM application builds as graphs handed to
   `ArtifactGraph`: every action's inputs are declared outputs of another.
4. `OutputCapture`: the capture of a command's output with its byte bound,
   added to `RunCommand`.
5. The closure of permissions and capabilities in `target-plan.ts` against a
   reference.
6. Proofs about the generators: that the adapter defines what the manifest
   calls (`AdapterIsExact`) and that upcasts follow the declared hierarchy,
   where the statement needs no more of a closure than that it is closed.
