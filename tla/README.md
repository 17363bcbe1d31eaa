# Verification of the simulation plugin

TLA+ models of the simulation plugin under `src/` (a MuJoCo simulation server
loaded into a gateway), the TLC runs that check them and the TLAPS proofs about
them. Everything is translated from the code; a line is cited as `file:line`,
the file being under `src/source/` unless it says otherwise.

## 1. The system

The gateway calls `SimulationPlug` on threads of its own: one per HTTP request,
so that any two handlers may run at once, and for WebSocket messages. The plugin
adds one worker thread per started instance and one per recording.

| Component | State | Operations | Talks to |
|---|---|---|---|
| `SimulationInstance` | `status_`, `stop_requested_`, `worker_`, `needs_forward_`, `initial_config_`, an `mjData`; one mutex, which `worker_` is used without | configure, start, pause, stop, step, reset, apply_runtime, write_*, visual_model, worker_loop | publishes through a callback on its worker |
| `SimulationInstanceManager` | `instances_` (shared_ptr), `pending_` ids | create, recreate, destroy, find_or_throw and a forwarder per method | owns instances |
| `SimulationPlug` | WebSocket subscriptions, last visual publication | one handler per RPC, publish_state | calls every manager; publish_state calls back into the instance manager |
| `SimulationRecordManager` | `sessions_`, per session a worker, flags and `join_once`; a JSONL file each | start, stop, remove, list, info | reads instances by id |
| `SimulationTaskManager` | `tasks_` | create, remove, run | steps and writes instances by id |
| `SimulationModelRegistry` | `entries_`, `registering_`, generations; package directories and `registry.json` on disk | register, remove, verify, info, list, resolve_scene | files |
| `SimulationSceneManager` | `scenes_`; scene files | load, create, update, save, unload, references_model | files |
| `SimulationCompiler` | `models_`, the cache of compiled models; compiled XML files | validate, diff, compile, get_or_load_model, prune, export | MuJoCo, files |
| validator, visual extractor, hashing, paths | none | pure functions of files or of an `mjModel` | |

What is hard in it: an instance's thread object is tested, joined and assigned
without the lock; the last reference to an instance can fall anywhere, its own
worker included; sessions enter a map before their thread exists; packages and
manifest are written outside the lock and a crash can come between any two
writes; scene handlers are sequences of calls of which only each is atomic, and
any can throw. What makes the parts correct:

- an instance reports running only while it is driven, stop quiesces it, the poses
  it serves trail its qpos by one `mj_step` at most and are never older than the last write from outside;
- an id belongs to one instance, no worker outlives its object, destructors return;
- a stopped recording has written its last frame, a removed one leaves no file;
- the manifest is what the registry holds, a package is what its entry says;
- a model in use stays cached, and the cache stays small otherwise;
- an instance is what its scene says, and a version that a scene needs stays;
- a task reports its own outcome and no other's;
- a session is told last what the instance has become, and a closed one is forgotten;
- a scene's file is a whole save, whichever save and whatever died, and leaves no temporary file;
- what the validator accepts, the generator can write, once, with names that are unique and resolve.

`PROJECT.json` lists the hazards at their lines, each with the properties that
watch it or the reason why none does yet.

## 2. Plan

Order of work, most important behaviour first; what is left says so.

1. `Instance` — lifecycle and pose of one instance; proofs in `InstanceProofs`.
2. `InstanceManager` — the map, shared ownership, publication. It keeps of
   `Instance` only the flag and the worker, so that the lifetime of objects is the question.
3. `RecordManager` — sessions and their workers.
4. `ModelRegistry` — memory, packages, manifest, crash.
5. `ModelCache` — cache, compiled files, eviction.
6. `Scenes` — the handlers that combine scene manager, registry, compiler and
   instance manager; of each it keeps what the handlers can tell apart.
7. `TaskManager` — concurrent runs of a task, remove and create anew.
8. `Publication` — subscribe, unsubscribe, close and failed sends against publish_state.
9. `SceneFiles` — scene.save and scene.load over files that fail and a process that dies.
10. `SceneValidator`, `SceneXml`, `SceneRules` — the scene compiler as a function, validator against generator.
11. `InstanceLifecycle` — an abstract instance (a status, a driver that is hired, asked,
    leaves and is dismissed), which `Instance` implements: checked as the property
    `KeepsLifecycle`, proved in `InstanceProofs`.
12. Left: `compare_versions` against a reference order, in a module `Versions`.
13. Left: automatic record ids over a restart, in `RecordManager`.
14. `RegistryContract` — an abstract registry (a map, its versions that are not on the disk
    yet, one claim per key), which `ModelRegistry` implements: checked as the property
    `KeepsContract`, proved in `ModelRegistryProofs`.
15. A module of theorems per component: `InstanceProofs`, `InstanceManagerProofs`,
    `RecordManagerProofs`, `ModelRegistryProofs`, `TaskManagerProofs`, `PublicationProofs`,
    `ScenesProofs` (which also holds those of `ModelCache`), `SceneFilesProofs` (which also
    holds those of `SceneRules`).

## 3. Modules and code

An action is one critical section of a mutex, or one step taken outside every
mutex: a join, a test of a thread object, a file operation, the release of a
shared pointer. `PROJECT.json` maps each definition to its lines. Where a
variable is marked *history* in its declaration, the code has no such state; it
records what a property needs to know of the past, and no guard reads it.

**`Instance`** (`simulation_instance.cpp`). `pc` says where each RPC thread is in
`step` or `stop`, `wpc` where each worker is in `worker_loop`; the methods that hold the
mutex throughout are one action. `handle` is `worker_`. A second join of one
`std::thread` is undefined, and `StopJoinTwice` lets the call fail or the process
die (`aborted`). Poses are abstracted to which qpos they were computed from: the
current one ("now"), the one that the last `mj_step` integrated ("behind": it computes the poses first, and then moves
qpos), or one of before the last write of qpos ("before").
`configure`, `apply_runtime`, `write_qpos` and `reset` take an array that fits, is
too long, or breaks off at an element that is no number. The history variable `clean` holds
the stops that no start has overlapped, `torn` says that a write threw half way.

**`InstanceLifecycle`** is what threads that share an instance may rely on, without
the `std::thread`. `Instance` maps to it at its end: the driver is the worker the handle
stands for, "gone" when it has left its loop and is not yet joined; the callers that are
stopping are the threads inside `stop`; the undisturbed ones are `clean`.

**`InstanceManager`** (`simulation_instance_manager.cpp` and `publish_state`).
Actors are RPC threads and workers; `held` is the shared_ptr an actor
holds, and `Release` runs the destructor when it was the last. `ret` says where an
actor goes after that. A worker publishes and, for a visual subscriber, looks its own
instance up again; the temporary reference may be the last, and then the worker
destroys its own instance and the process ends (`aborted`).

**`RecordManager`** (`simulation_record_manager.cpp`). `once` is `join_once`;
`file` names for each path the session that opened it last. A session ends when nothing
refers to it, and its thread, if joinable then, terminates the process.

**`ModelRegistry`** (`simulation_model_registry.cpp`). `pkg` and `manifest` are the
disk and survive `Crash`, which reloads `entries` from `manifest`. The content of a
package stands for its digest. `remove_all` may leave all of a directory or part of it, which nobody sees (`Remains`):
the copy of the next registration then goes over it (`Copied`). A digest fails without a directory, and with
one that has a file it cannot open. `inDoubt` records the keys that a failure, a crash, a removal that did not, or a
removal racing a registration has spoilt; `unsaved` that the newest snapshot could not be written;
`newer` holds the versions of the entries since the manifest's. A write fails where the code sees it
(`PersistFails`), or in the flush of a full disk, where it does not (`PersistTorn`): the next
start then finds a torn manifest, puts it aside and begins with no entries.

**`RegistryContract`** is what callers may rely on, without threads, packages and generations: a
caller claims a key and finishes or withdraws; the map changes; the disk takes on one of the
versions that followed its own, in their order (`Save`), or is emptied by a full disk (`Tear`); the
newest version is saved, owed or lost; a restart falls back to the disk. The mapping is at the end of
`ModelRegistry`: a claim is held by the handlers that have reserved the key, and the newest version is
owed while a handler has it in hand. A snapshot that is dropped for a newer one is a stutter.

**`ModelCache`** (cache part of `simulation_compiler.cpp`). `recency` is the order of
`last_used`, as the pairs of keys of which the first is the older; `held` and `model` are the references that count as use. Opening a
compiled file empties it, closing makes it whole. Its names differ from those of `Scenes`, so that
`ScenesProofs` extends both; the two share no state.

**`Scenes`** (`simulation_plug.cpp`, with the scene manager, `diff_scenes` and
`resolve_locked`). A scene is what decides its compiled structure (the version it refers to,
or none) and its `initial_state`. `drift` records the instances that something
overtook: an edit of their scene, a change of what it resolves to, a handler that
failed half-way. `owed` records the recreations scene.apply has not carried out, and `overtaken`
the removals during which scenes or registry changed.

**`TaskManager`** (`simulation_task_manager.cpp`). `snapshot` is the copy `run` executes
outside the mutex; every step of it is one call of the instance manager, which succeeds or
throws; "stop" waits for the worker of its instance between its two halves. `delayed` holds the threads that wait there and whose
flag a start has taken back: until another stop raises it, their wait has no end. The outcome goes to the task that has the id by then. `mixed` records
the ids whose run overlapped another run of the id, or the creation of the task that has it now.

**`Publication`** (`simulation_plug.cpp`). `subs` is `ws_subscriptions_`, `throttle` the
keys of `last_visual_publish_`. A publisher finds an instance and holds it, changes it, then collects receivers under
the mutex, then sends to one after the other. `holders` are the publishers that hold the instance which has the id,
`orphans` those that hold one which has lost it to destroy or recreate: they go on to change it and
publish it under the id. The gateway, which is not under `src/`, refuses
sends to a session that closes, calls `handle_ws_close` later, may deliver a message
received before even after that, and keeps of unsent texts of a topic the latest; this is what the
plugin's code relies on. `told` is what a session was sent last, `raced` the ids whose last
publication overlapped another or was of an instance that has lost the id, or whose instance changed without one.

**`SceneFiles`** (`simulation_scene_manager.cpp`). File names refer to inodes, so that
a rename takes away the file another saver has open. An inode holds a whole scene or is `Torn`. The
disk may fill where `out.good()` sees it, and in the flush of the destructor, where nobody does.
A save that has failed removes its temporary file and does not look whether that has worked (`CleanupFails`).
`unsure` names the paths whose last save overlapped another or ended so; `orphan` those where a dead process or such a
removal has left a temporary file.

**`SceneValidator`, `SceneXml`, `SceneRules`** (`simulation_compiler.cpp`). A scene is a
record of sections of items. `Valid` is `validate_scene`; `Document` is the sequence of
elements that `generate_scene_xml` writes, each with its namespace, name, parent and what it refers to;
`Throws` is the set of reasons for which it would throw instead. Vectors appear as the names of those whose
length does not fit, also those that no rule of the validator looks at (of options, statistics, visuals, actuators), and an
item without an id, where one is required to be written, is among the throws (`Unnamed`). `Below` is the descent from parents to children (`children_of`), level by level, `Reached` the
walk up the parents and the collection of what is replicated. `SceneRules` lets a scene grow by one item at a time, as
scene.update does by sections: the run is about every small scene of `MCSceneRules`' pool, the theorems about every scene of any pool.

## 4. Runs

| Run | Question | Bounds |
|---|---|---|
| `instance` | do starts, stops, pauses, steps and resets leave one live worker, quiesce and return; are poses older than the last write flagged; is it a run of the abstract lifecycle? | 3 threads, 2 worker identities, 1 batch per step, every kind of input |
| `manager` | one construction per id, no orphan worker, destructors return? | 2 threads, 1 id, 2 objects alive at once |
| `records` | is stopped over, are files and threads cleaned up, do calls return? | 2 threads, 1 id, 2 sessions |
| `registry` | are reservations exclusive and released, manifest and packages current; is it a run of the abstract registry? | 2 threads, 2 versions of 1 model, 2 changes between starts |
| `registry_replace` | is registration transactional? **No** | as `registry` |
| `cache` | is what is used kept and the rest bounded, is the right XML loaded? | 3 threads, 2 scenes and 1 direct model, 4 models, 2 instances, capacity 1 |
| `scenes` | does an instance agree with its scene, is a needed version kept? | 2 threads, 1 scene, 1 instance, 2 versions, 2 states |
| `scene_apply` | is a structural change never reported as applied at runtime? **No** | 1 thread |
| `tasks` | does a task report its own outcome, and stop running where its stops return? | 2 threads, 1 task id, 1 instance, 2 creations, 2 steps |
| `publication` | are subscriptions bounded and forgotten, is the last event current? | 2 publishers, 1 session, 1 instance, names of 2, a limit of 1 |
| `scene_files` | is a file a whole save, is no temporary file left? | 2 threads, 1 scene, 2 versions, 1 path, 3 inodes |
| `scene_rules` | does the generator write what the validator accepts? | up to 3 items out of a pool of 74 (97 895 scenes) |

The bounds are the smallest in which the actors of each hazard meet. Two
handlers and a worker are enough for every race in the code, since each is between
two users of one object; `Instance` takes a third thread because a start may come between
two stops. Two objects let an id be recreated while its former
object lives; two sessions let a record id be used again. Two generations
are what it takes to write manifests in the wrong order. A capacity of one with three keys
makes every insertion an eviction. Two worker identities would show a replaced
thread (`HandleIsWorker`). Two creations let a task be removed and made anew under its own
run. A limit of one subscription is met by the second name. Three inodes are
a scene's file, its temporary file and one that was renamed away while open. Three items are what the
longest rule relates: an element, what it refers to, and a third that takes its name or
stands between them (a cycle of two bodies and one inside it). Symmetry is used only with safety
properties. Deadlock is checked except in `scene_rules`, where a scene that is full stops growing.

**Fairness.** Weak fairness of each method that has begun and of each worker: the
operating system runs every thread, and each lock is held for a bounded time.
Nothing is assumed of callers, so no call is ever made by obligation. The abstract
lifecycle's fairness (the driver that was asked leaves, is dismissed, and a stop that no start
disturbs ends) follows from it, which `KeepsLifecycle` checks.
A call of the instance manager out of a task returns, with one exception: a stop that a start has overlapped (`delayed` of
`TaskManager`) waits until another stop comes, and no caller is assumed to send one; `RunEnds` names that exception. `Publication`, `SceneFiles`, `ModelCache`, `Scenes`
and `SceneRules` are checked for safety only, without fairness.

**What the two violations show.** Each contradicts a sentence of the repository;
`PROJECT.json` quotes it.

- `RegistrationIsTransactional`: a replace begins with deleting the package of the entry
  it would replace.
- `StructuralChangeRecreates`: scene.apply stores before it compiles.

**Seen while modelling.** The models contain these behaviours; the properties name them as
exceptions (by a history variable or in their text), and they deserve the attention of whoever
changes the code.

- stop raises the flag and waits; start (`simulation_instance.cpp:107`) lowers it before the
  worker looks. The worker goes on, and stop waits for as long as the instance runs (`clean`). A task whose stop step meets
  this stays "running" for as long (`delayed`).
- The comment at `simulation_instance.cpp:608` says that `mj_step` leaves the poses consistent. It computes them and then
  integrates, so they trail qpos by one step, and `needs_forward_` stays false: visual_model serves the poses of one step
  ago (`PoseKnown` says no more).
- After stop and reset the flag is still raised, so that step succeeds without a step (`simulation_instance.cpp:146`).
- The worker's lookup in `publish_state` (`simulation_plug.cpp:1020`) can hold the last
  reference; its destructor joins the thread it runs on (`aborted` of `InstanceManager`).
- A record.stop between `sessions_[id] = session` and `session->worker = ...`
  (`simulation_record_manager.cpp:38`) uses `join_once` up without a join (`early`).
- Two publications of an instance that overlap are sent in either order, so that the terminal
  event of `docs/architecture.md:25` may be followed by a running state (`raced`). task.run, and a
  recreation that fails, change instances without publishing anything.
- No overlap is needed for it: a handler that has found the instance before destroy, or its worker, may change it and publish
  "running" when the terminal event has long been sent (`orphans`, `raced`); a visual session then also
  puts the id back into `last_visual_publish_` (`simulation_plug.cpp:1008`), for good.
- `last_visual_publish_` keeps the entry of an instance whose end no visual session was told of.
- `simulation_model_registry.cpp` discards the errors of `remove_all` (lines 359, 408, 416, 421, 535, 538): a
  package may outlive its entry, in whole or in part, and the next registration copies over it (`inDoubt`).
  `simulation_scene_manager.cpp` discards those of `remove` (lines 131, 136): a failed save may leave its temporary file (`orphan`).
- The destructor of `output` (`simulation_model_registry.cpp:782`) may find the disk full after every
  check: a torn `registry.json` is renamed over the good one, and the next start sets it aside and begins with
  an empty registry (`PersistTorn`, `Tear`).
- A run of a task writes its outcome into the task that was created under the id meanwhile (`mixed`).
- The disk may fill in the flush of the destructor of `out` (`simulation_scene_manager.cpp:119`),
  after line 122 has looked: the save renames a torn file over the good one (`unsure`).
- The comment at `simulation_compiler.cpp:2502` says the size rule matches the generator's exactly: a
  geom with neither type nor class becomes a box there, whose size the validator has not
  looked at. The comment at line 344 relies on plugin references being confirmed: those of geoms other than
  sdf are not, and a plugin sensor may have none. `Unchecked` in `SceneRules` lists these and the vectors no
  rule looks at, among them `compiler.inertiagrouprange`, the center of `statistic`, the headlight and colours of `visual`,
  and the range of a muscle.
- The guard for `<replicate>` misses bodies named by insidesite and plugin sensors. The comments at
  `simulation_compiler.cpp:889` and `simulation_compiler.cpp:2578` speak of references to anything inside the replicated
  subtree; the code, and `ReplicatedUnaddressed` with it, looks at references to bodies only, so that sites, geoms and joints in
  there may be referred to.
- The names the generator derives for geoms (`scene_ground`, `<id>_geom`) are open to the scene's own geoms;
  `validate_scene` does not look at the names of excludes (`simulation_compiler.cpp:2271`), which are written as they are (`simulation_compiler.cpp:1594`).
- `docs/architecture.md:20` lets a subscribe omit
  `instances`, which `simulation_plug.cpp:888` refuses; and after `normalize_schema` every
  scene has an `initial_state`, so scene.apply never reads `defaults`, which
  `docs/architecture.md:180` says can be applied at runtime.

## 5. Proofs

TLC checks small instances; the theorems hold for every value of the constants that satisfies
the `ConstantsAssumption` of the component (`CacheAssumption` in `ModelCache`, `PoolAssumption` and
`NamesAssumption` in `SceneRules`). Beside "the null value is none of the others" and bounds
that are numbers these say: in `ModelRegistry` that the threads are finitely many, there are an id and a version,
and the three marks differ from each other and from contents; in `ModelCache` that scenes and models loaded
from their own path have different ids; in `Scenes` that the asset has finitely many
versions, numbered by integers; in `Publication` that an instance id is a name a client can write, that
`*` is none, and that the limit is not zero. A message there names finitely many (`Named`), as a JSON array does. In `SceneRules`
`PoolAssumption` says that no file has the empty name, that the sections exist and that what an item has as a list is
one, and `NamesAssumption` what the compiler's names rest on and TLA+ leaves open of texts: a fixed text put before or
after ids that differ gives names that differ, no id with `_geom` after it is `scene_ground`, and the three names it
gives its own assets are among those that start with `scene_`. TLC evaluates both, on texts as they are.

Each theorem is `Spec => []P` (`CacheSpec` in `ModelCache`, `SceneSpec` in `SceneRules`), or `Spec => P` for an action property, with `P` the property of the run of the
component. Each proof has one inductive invariant, a conjunction of named parts that the module states with their
meaning; one lemma per action (or per group of actions that do the same to what the invariant
reads) that the action keeps it; a lemma that `Next` does; and the theorems, which cite it. TLC checked
each inductive invariant on the small instance of its run before it was proved.

| Module | Theorem | States | Inductive with |
|---|---|---|---|
| `InstanceProofs` | `TypeCorrect`, `HandleCorrect`, `RunningDriven`, `StopQuiet`, `PoseTracked`, `ResetTotal` | `TypeOK`, `HandleIsWorker`, `RunningIsDriven`, `StopQuiesces`, `PoseKnown`, `ResetCannotFail` | `HandleInv`; the last two by themselves |
| | `ImplementsLifecycle` | `Lifecycle!Life` | `RefineInv` |
| `InstanceManagerProofs` | `TypeCorrect`, `InsertFree`, `NoOrphans` | `TypeOK`, `InsertFindsIdFree`, `NoOrphanWorker` | `ManagerInv` |
| `RecordManagerProofs` | `TypeCorrect`, `StoppedOver`, `DestroyedJoined`, `FileOwned` | `TypeOK`, `StoppedIsOver`, `DestroyedIsJoined`, `FileHasSession` | `RecordInv` |
| `ModelRegistryProofs` | `TypeCorrect`, `CommitFree`, `ManifestEndsCurrent`, `PackagesMatch` | `TypeOK`, `CommitFindsFree`, `ManifestCurrent`, `PackageMatches` | `RegistryInv` |
| | `ImplementsContract` | `KeepsContract` | `ContractInv`, given `RegistryInv` |
| `TaskManagerProofs` | `TypeCorrect`, `OutcomeOwn` | `TypeOK`, `OutcomeIsOwn` | `OutcomeInv` |
| `PublicationProofs` | `TypeCorrect`, `EntriesBounded`, `GhostFree`, `ToldCurrent`, `ThrottleErased` | `TypeOK`, `EntryBounds`, `NoGhost`, `LastIsCurrent`, `ThrottleForgotten` | `SubscriptionInv`, `PublicationInv` |
| `ScenesProofs` | `TypeCorrect`, `SceneAgreed`, `RemovalSafe` | `TypeOK`, `InstanceAgrees`, `RemovalIsSafe` (action) | `FollowsScene`, `RemovalInv` |
| | `CacheTypeCorrect`, `LruCorrect`, `CompilesReadTheirOwn` | `CacheTypes`, `LruInv`, `LoadsOwnXml` | `OwnXml`, given `CacheTypes` |
| | `InUseOutlives`, `GrowsInUseOnly` | `InUseStays`, `GrowthIsBounded` (actions) | `LruInv` |
| `SceneFilesProofs` | `TypeCorrect`, `SavedWhole`, `TmpCleanedUp` | `TypeOK`, `FileIsLastSaved`, `NoOrphanTmp` | `FileInv` |
| | `AcceptedScenesCompile`, `ReplicasUnaddressed`, `WrittenBefore` | `ValidScenesCompile`, `ReplicatedUnaddressed`, `ReferencesResolve` | `SceneTypes` |
| | `NamesStayUnique`, `TreesEmittedOnce` | `NamesAreUnique`, `EmittedOnce` | `SceneTypes` |

Why the invariants are needed, and along which argument they hold:

**Instance.** `HandleIsWorker`, `RunningIsDriven` and `StopQuiesces` say nothing of how a worker comes to leave its
loop. `HandleInv` ties the handle, the status, the flag and the worker to a `stop()` that is under way: a
handle stands for a worker that exists (`HandleStands`); "Running" without a handle means that some
`stop()` has joined and not yet written the status (`RunningHasHandle`); a raised flag, while there is a handle,
that some `stop()` is between raising it and the end of its join (`FlagHasStopper`); and so does a handle
whose worker has left (`ExitHasStopper`). `StepHasBatches` keeps the counter of `step()` natural.
`PoseKnown` and `ResetCannotFail` are inductive together, given the types (`NextData`).
*Refinement:* under the mapping at the end of `Instance`, every run of the code is a run of the abstract
instance's safety part. `JoinerInv` says that a join under way is the only one and that its
thread still stands, since only then is the end of a join the dismissal of a driver that is gone. `CallMaps`,
`ContinueMaps` and `WorkerMaps` map each action to its abstract one or, by `Stutter`, to none.

**Instance manager.** That an id is free at the insertion holds because one thread has it reserved and
nothing else puts an object under a reserved id (`BuildingReserved`). That no worker is orphaned
rests on shared ownership: who is at a step that uses an object holds it, who is not holds
nothing (`HoldsNothing`), no reference dangles (`ReferencesLive`), and who destroys an object is alone with it
and is not its worker (`DestroyedAlone`).

**Record manager.** Which session a thread holds, and that it exists, is `NamesExist`; an identity that is free
has no past (`FreeIsFresh`). The heart is `JoinsOnce`: `call_once` lets one caller join, and a used flag
means a joined worker or a stop that came too early. `SpawnsOnce` says that the thread of a session comes from
its own start, `OutOfMap` that a session leaves the map only with a remove that will see to its worker, which is why
a destructor finds it joined; `FileIsOfId` that a worker writes to the file of its id only.

**Model registry.** A handler holds the reservation of its key from its first look until the manifest is written,
alone (`OneHolder`), so what it saw of the key stays true (`FreeUntilCommit`). The newest snapshot equals
the entries and is on the disk, on its way there, or known to be lost (`NewestSnapshot`, `NewestOnItsWay`), which is
why an older one may be dropped. A package that no registration works on, that is not doomed and that is not on
record is what its entry says (`PackageInOrder`), also across a crash, since `Crash` puts every
key on record whose package the restart cannot vouch for. `RoomKept` counts the
generations that the registrations under way still need, which takes the finiteness of the threads.
*Refinement:* every run of `ModelRegistry` is a run of `RegistryContract`. `ContractInv` relates the generations to the
history: a handler with a snapshot of generation *g* has in hand the *(g - written)*-th of the versions that
followed the manifest's (`SnapshotsInOrder`), so that writing it is `Save` of that version and drops those before it
(`WrittenSnapshot`); a package is digested as what the claim's handler will commit (`Digested`); and what `unsaved`
says is lost has no handler any more (`LostIsLost`). The `...Maps` lemmas map each action, `NewestStays` says when
the fate of the newest version is untouched. The contract states no fairness, so nothing is left out.

**Task manager.** For an id that is not on record as mixed, one run at most is under way (`SingleRun`) and what it
runs is the task that has the id (`RunsItsTask`), so that the result it writes is that task's.

**Publication.** The set a message leads to is finite, not empty, and `*` alone when `*` is in it
(`MergedIsEntry`), and kept only within the limit. For an instance not on record as raced, one publication at most is under
way, of the status as it is (`OnePublication`), and each receiver of it is still to be sent to, gone, or told
(`SentOrPending`); the end of an instance keeps its visual receivers until its entry is erased (`ThrottleInHand`).

**Scenes.** `InstanceAgrees` speaks of moments when no handler is at work. `FollowsScene` speaks of all: an instance
that is not on record was built from what its scene resolves to, and has its state or a scene.apply that has
stored that very scene is about to write it. A removal that nothing overtook still knows the latest version
(`LatestKnown`) and that no scene refers to what it removes (`RemovedUnreferenced`).

**Compiled-model cache.** A file breaks off
only while the handler that emptied it last has still to close it, and that handler is still at `write` with that
key (`OwnXml`). Eviction is an argument by counting: `last_used` orders the keys of the cache strictly (`LruInv`), so the
ranks of the idle keys are all of 0 up to their number less one, and there are as many of rank below the excess as
the excess says, or all are (`OldestOf`). Hence a touch either comes down to the capacity or takes every
key that nobody holds (`TouchEvicts`).

**Scene files.** A save that shares its path with no other (`OverlapIsDoubtful`, `TouchedIsDoubtful`) is alone with
its inode, and what it renames is whole (`TrustedIsAlone`); an inode is of one path (`InodeHasOnePath`), the
scene's file is not its temporary file (`FileIsNotTmp`), and who still has the scene's own file open is on record
(`OpenFileIsUnsure`). Every temporary file has a saver that has yet to rename or remove it (`TmpHasSaver`).

**Scene rules.** Only the types are inductive: the five properties relate functions of one and the same scene, and
each is proved of every scene whose sections are sequences of items of the pool, of any size.
`ValidScenesCompile` compares each throw of the generator with the check of its section (the `...Compile` lemmas). For the others the document
is taken apart the way the code puts it together, and a notion that a concatenation keeps is carried through every part:
- `ReplicatedUnaddressed`: each element is `Fine`. A set of ids that has the children of its members
  (`Downward`) keeps whatever is below a member (`BelowStays`), and what the guard collects is one.
- `ReferencesResolve`: each list is `Ordered` given the names written before it, and the part that defines a name is
  complete before the first that uses it (`ClassesWritten`, `PluginsWritten`, `AssetsWritten`).
- `NamesAreUnique`: each part is a `Piece`, which keeps to some namespaces and has no `Clash`. Pieces of
  different namespaces follow each other freely; within one namespace the names come from ids that `validate_scene` puts into one set
  (`IdsDiffer`: within and between sections, the parts of a body, of different bodies, and both), or differ by `NamesAssumption`.
- `EmittedOnce`: once is the same argument. That all are written is `BelowReaches`: the descent goes one level deeper until a
  level adds nothing, which by then is closed under children, and a chain of parents cannot be longer than the list. That no item is written by two
  descents is `LevelsListOnce`: what is below two siblings is apart, since an item that is below itself would have no
  root above it (`NotBelowItself`), which `validate_scene` forbids. Parents first is `Follows`, kept by concatenation like the others.

`Below` and the flattening of lists are recursive functions. What the inductions over them need is had from the least number at
which a claim fails (`LeastNumber`) and the equations of the functions (`BelowUnfolds`, `FlattenUnfolds`), since the library's
induction theorems cannot be used.

What these proofs found in the model before they went through: two cases for spatial tendons overlapped; and
`ReferencesResolve` lacked its premise that the generator throws at nothing, without which a geom with an unknown plugin
counterexamples it. Why `NamesAreUnique` has exceptions for geoms and excludes is in section 4.

The recorded exceptions ("on record": `early`, `inDoubt`, `unsaved`, `mixed`, `delayed`, `raced`, `torn`, `drift`, `overtaken`, `unsure`,
`orphan`, `clean`) are those of the properties themselves; section 3 says what each records, section 4 what
the code does there.

**Lemmas about operators.** `MaxExists`: a finite non-empty set of integers has the maximum that `LatestIn` takes. It is
an induction over finite sets, carried out as the choice of a smallest counterexample by `WFMin` along the
strict-subset ordering, because the library's induction theorems take an operator as a parameter, which the
provers cannot instantiate. `Resolved` says that a reference resolves to a registered version or to none, `MergedIsEntry`
that a subscription makes an entry, `WithoutFirst` what is left of a sequence without its first members,
`OldestOf` how many members of an ordered set have a low rank (an injection into an interval of the same
size is onto it, so no induction is needed), `StepsAreSequences` that what is left of a task is a task's steps, `Marks` that
no mark of the registry is a content;
`FlattenRange`, `ApartFlatten` and `FollowsFlatten` what is in a flattened list, when its members are apart and
when they are in order; `TreeLists` what the descent through a tree lists: every item once, parents first.

**Only model-checked.** The liveness properties (`StopReturns`, `RunningIsStepped`, `DestructorReturns`, `ErrorEnds`,
`ReservationReleased`, `RunEnds`) and the fairness half of `KeepsLifecycle`, which need `ENABLED` and are out of the
prover's reach. Every safety invariant and every action property of the passing runs is a theorem.

## 6. Not modelled

- MuJoCo, the gateway, the JSON and HTTP layers: libraries, or conversion without state. What a
  publication needs of the gateway is in `Publication`, as an assumption.
- The model validator, the visual payload, hashing: pure functions whose results no other
  component's control depends on; a digest stands for the content.
- Of the scene compiler, `export_scene`, the attachment of models, what options, sizes, visuals and
  statistics are written as (that their vectors may not fit is modelled), and malformed JSON (an item that is no object, a
  number that is text, elements of a list that are not of its type).
- `instance.apply_runtime` and `control.write_*` in `Scenes`: they change an instance without its scene, so that
  what `Scenes` says of `initial_state` is about scene.apply and the creations alone. What they do to an instance is in `Instance`.
- In `RecordManager` an unlink that fails (`simulation_record_manager.cpp:85`), which leaves the file of a removed session; and a
  new recording that loses its file to the remove of the one before it: `FileHasSession` is about files that are there.
- In `ModelCache` a disk that fills while a compiled file is written (`simulation_compiler.cpp:3499`), which nobody checks.
- Rates, pacing and time stamps: a worker may publish, or not, at any step.
- Version comparison and automatic record ids over a restart: see the plan.
- Shutdown (`on_stop`, `stop_all`): what runs beside it depends on the gateway. Uploads.
- Power failures: the code never syncs, and what is left depends on the file system.
- `Error` status: needs a null model or data, which `SimulationInstance::create` excludes.
