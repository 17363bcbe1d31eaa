------------------------------ MODULE Instance ------------------------------
(***************************************************************************)
(* One SimulationInstance (src/source/simulation_instance.cpp): the RPC    *)
(* threads that call its methods and the worker thread that steps it.      *)
(*                                                                         *)
(* An action is one critical section of mutex_, or one step that the code  *)
(* takes outside it: worker_.joinable(), worker_.join(), the publisher     *)
(* callback.  A method with a single critical section and no state after   *)
(* it is one action, from the call to the reply.                           *)
(*                                                                         *)
(* Data is abstracted to what the properties tell apart: which qpos the    *)
(* body poses in mjData are of, and for an input array whether             *)
(* assign_array accepts it, rejects it before writing ("tooLong") or       *)
(* throws with part of it written ("mixed").                               *)
(***************************************************************************)
EXTENDS Integers, FiniteSets

CONSTANTS
    Thread,      \* the gateway threads that run RPC handlers
    Worker,      \* identities a worker std::thread can have
    NoWorker,    \* worker_ is not joinable
    MaxBatches,  \* bound: step() runs at most this many lock sections
    ArraysIn,    \* inputs of configure and apply_runtime: Field -> array
    WriteIn      \* outcomes of a write_qpos values object

Field == {"qpos", "qvel", "ctrl"}
Array == {"fits", "tooLong", "mixed"}
NoArray == "absent"

ASSUME ConstantsAssumption ==
    /\ NoWorker \notin Worker
    /\ MaxBatches \in Nat \ {0}
    /\ ArraysIn \subseteq [Field -> Array \cup {NoArray}]
    /\ WriteIn \subseteq {"all", "some", "none"}

VARIABLES
    status,         \* status_
    stopRequested,  \* stop_requested_
    needsForward,   \* needs_forward_
    posed,          \* which qpos the body poses in data_ are of
    initConfig,     \* initial_config_: the array kept for each field
    handle,         \* worker_: the thread it stands for, NoWorker when joined
    wpc,            \* where each worker thread is
    pc,             \* where each RPC thread is
    todo,           \* batches the step() of a thread still has to run
    clean,          \* history: stop() callers no start() has overlapped
    torn,           \* history: a write threw with qpos changed, not repaired
    aborted         \* the process died in undefined behaviour

control == <<status, stopRequested, handle, wpc, pc, todo, clean, aborted>>
pose == <<needsForward, posed, torn>>
vars == <<control, pose, initConfig>>

Status == {"Created", "Running", "Paused", "Stopped"}

\* "now": the qpos in data_; "behind": the qpos of before the last mj_step;
\* "before": none since qpos was written from outside, or none at all.
Posed == {"now", "behind", "before"}

InStop == {"requested", "joinable", "joining", "joined"}
Alive == {"waiting", "publishing", "sleeping"}

TypeOK ==
    /\ status \in Status
    /\ stopRequested \in BOOLEAN
    /\ needsForward \in BOOLEAN
    /\ posed \in Posed
    /\ initConfig \in [Field -> Array \cup {NoArray}]
    /\ handle \in Worker \cup {NoWorker}
    /\ wpc \in [Worker -> Alive \cup {"none", "exited"}]
    /\ pc \in [Thread -> InStop \cup {"idle", "stepping"}]
    /\ todo \in [Thread -> 0..MaxBatches]
    /\ clean \subseteq Thread
    /\ torn \in BOOLEAN
    /\ aborted \in BOOLEAN

\* create() and the constructor: data_ is fresh from mj_makeData, unposed.
Init ==
    /\ status = "Created"
    /\ stopRequested = FALSE
    /\ needsForward = TRUE
    /\ posed = "before"
    /\ initConfig = [f \in Field |-> NoArray]
    /\ handle = NoWorker
    /\ wpc = [w \in Worker |-> "none"]
    /\ pc = [t \in Thread |-> "idle"]
    /\ todo = [t \in Thread |-> 0]
    /\ clean = {}
    /\ torn = FALSE
    /\ aborted = FALSE

Goto(t, label) == pc' = [pc EXCEPT ![t] = label]
At(t, label) == ~aborted /\ pc[t] = label

-----------------------------------------------------------------------------
(* The pose: every write to qpos, and what repairs it. *)

\* mj_forward computes the poses of qpos.
Forward == posed' = "now" /\ torn' = FALSE

\* mj_step computes the poses of the qpos it finds, then it integrates: the
\* poses it leaves are one step behind.
MjStep == posed' = "behind" /\ torn' = FALSE

\* qpos was written or not; flag says whether needs_forward_ was set, threw
\* whether an exception left the method half way through qpos.
Unpose(qpos, flag, threw) ==
    /\ needsForward' = (needsForward \/ flag)
    /\ posed' = IF qpos THEN "before" ELSE posed
    /\ torn' = (torn \/ (qpos /\ threw))

-----------------------------------------------------------------------------
(* configure() and apply_runtime(): the fields are taken in the order qpos, *)
(* qvel, ctrl; a field whose array is refused throws out of the method, and *)
(* initial_config_ and needs_forward_ are set only after its assign_array.  *)

Earlier(f) == CASE f = "qpos" -> {}
                [] f = "qvel" -> {"qpos"}
                [] f = "ctrl" -> {"qpos", "qvel"}

Assignable(array) == array \in {"fits", NoArray}

\* Mutant: a field is kept before its array is assigned.
AcceptedTooEarly(arrays) ==
    {f \in Field : /\ arrays[f] # NoArray
                   /\ \A e \in Earlier(f) : Assignable(arrays[e])}

\* The fields of arrays that are assigned before the first refusal.
Accepted(arrays) ==
    {f \in Field : /\ arrays[f] = "fits"
                   /\ \A e \in Earlier(f) : Assignable(arrays[e])}

AssignArrays(arrays) ==
    /\ initConfig' = [f \in Field |-> IF f \in Accepted(arrays)
                                      THEN arrays[f] ELSE initConfig[f]]
    /\ Unpose(arrays["qpos"] \in {"fits", "mixed"},
              Accepted(arrays) \cap {"qpos", "qvel"} # {},
              arrays["qpos"] = "mixed")

Configure(t, arrays) ==
    /\ At(t, "idle")
    /\ AssignArrays(arrays)
    /\ UNCHANGED control

ApplyRuntime(t, arrays) ==
    /\ At(t, "idle")
    /\ AssignArrays(arrays)
    /\ UNCHANGED control

\* Mutant: a pose written without telling visual_model().
WriteQposUnflagged(t, written) ==
    /\ At(t, "idle")
    /\ Unpose(written # "none", FALSE, written # "all")
    /\ UNCHANGED <<control, initConfig>>

\* The loop over "values" throws at the first joint it cannot set, after the
\* joints before it were set: needs_forward_ is assigned after the loop only.
WriteQpos(t, written) ==
    /\ At(t, "idle")
    /\ Unpose(written # "none", written = "all", written # "all")
    /\ UNCHANGED <<control, initConfig>>

\* mj_resetData, then initial_config_ again.  A kept array that assign_array
\* refuses would throw here, before anything else is reset.
Reset(t) ==
    /\ At(t, "idle")
    /\ LET replayed == \A f \in Field : Assignable(initConfig[f])
       IN  /\ status' = IF replayed THEN "Created" ELSE status
           /\ Unpose(TRUE, replayed, ~replayed)
    /\ UNCHANGED <<stopRequested, handle, wpc, pc, todo, clean, aborted,
                   initConfig>>

\* visual_model() re-forwards only when needs_forward_ says so.
VisualModel(t) ==
    /\ At(t, "idle")
    /\ needsForward
    /\ needsForward' = FALSE
    /\ Forward
    /\ UNCHANGED <<control, initConfig>>

-----------------------------------------------------------------------------
(* start(), pause(), step() *)

\* Mutant: start() does not look at worker_.
SpawnsAlways == TRUE

\* !worker_.joinable()
Spawns == handle = NoWorker

\* The status and the flag are set whatever the worker is doing; a thread is
\* created only when worker_ is not joinable.
Start(t) ==
    /\ At(t, "idle")
    /\ status' = "Running"
    /\ stopRequested' = FALSE
    /\ clean' = {}
    /\ IF Spawns
       THEN \E w \in Worker : /\ wpc[w] = "none"
                              /\ handle' = w
                              /\ wpc' = [wpc EXCEPT ![w] = "waiting"]
       ELSE UNCHANGED <<handle, wpc>>
    /\ UNCHANGED <<pc, todo, aborted, pose, initConfig>>

Pause(t) ==
    /\ At(t, "idle")
    /\ status = "Running"
    /\ status' = "Paused"
    /\ UNCHANGED <<stopRequested, handle, wpc, pc, todo, clean, aborted, pose,
                   initConfig>>

StepCall(t) ==
    /\ At(t, "idle")
    /\ \E n \in 1..MaxBatches : todo' = [todo EXCEPT ![t] = n]
    /\ Goto(t, "stepping")
    /\ UNCHANGED <<status, stopRequested, handle, wpc, clean, aborted, pose,
                   initConfig>>

\* Mutant: the loop runs while done <= steps.
StepBatchOffByOne(t) ==
    /\ At(t, "stepping")
    /\ ~stopRequested
    /\ todo' = [todo EXCEPT ![t] = @ - 1]
    /\ Goto(t, IF todo[t] = 0 THEN "idle" ELSE "stepping")
    /\ MjStep
    /\ UNCHANGED <<status, stopRequested, handle, wpc, clean, aborted,
                   needsForward, initConfig>>

\* One batch of at most kMaxStepsPerLock steps under the lock.
StepBatch(t) ==
    /\ At(t, "stepping")
    /\ ~stopRequested
    /\ todo' = [todo EXCEPT ![t] = @ - 1]
    /\ Goto(t, IF todo[t] = 1 THEN "idle" ELSE "stepping")
    /\ MjStep
    /\ UNCHANGED <<status, stopRequested, handle, wpc, clean, aborted,
                   needsForward, initConfig>>

StepBreak(t) ==
    /\ At(t, "stepping")
    /\ stopRequested
    /\ todo' = [todo EXCEPT ![t] = 0]
    /\ Goto(t, "idle")
    /\ UNCHANGED <<status, stopRequested, handle, wpc, clean, aborted, pose,
                   initConfig>>

-----------------------------------------------------------------------------
(* stop(): request_worker_stop(), then the status.  Only the flag and the   *)
(* status are under mutex_: worker_ is tested and joined without it.        *)

\* Mutant: the status is set before the join.
StopRequestReports(t) ==
    /\ At(t, "idle")
    /\ stopRequested' = TRUE
    /\ status' = "Stopped"
    /\ clean' = clean \cup {t}
    /\ Goto(t, "requested")
    /\ UNCHANGED <<handle, wpc, todo, aborted, pose, initConfig>>

StopRequest(t) ==
    /\ At(t, "idle")
    /\ stopRequested' = TRUE
    /\ clean' = clean \cup {t}
    /\ Goto(t, "requested")
    /\ UNCHANGED <<status, handle, wpc, todo, aborted, pose, initConfig>>

\* Mutant: a worker that is not stepping is not joined.
StopJoinableIfRunning(t) ==
    /\ At(t, "requested")
    /\ Goto(t, IF handle = NoWorker \/ status # "Running"
               THEN "joined" ELSE "joinable")
    /\ UNCHANGED <<status, stopRequested, handle, wpc, todo, clean, aborted,
                   pose, initConfig>>

StopJoinable(t) ==
    /\ At(t, "requested")
    /\ Goto(t, IF handle = NoWorker THEN "joined" ELSE "joinable")
    /\ UNCHANGED <<status, stopRequested, handle, wpc, todo, clean, aborted,
                   pose, initConfig>>

Joined(t) == \E u \in Thread \ {t} : pc[u] = "joining"

StopJoin(t) ==
    /\ At(t, "joinable")
    /\ handle # NoWorker
    /\ ~Joined(t)
    /\ Goto(t, "joining")
    /\ UNCHANGED <<status, stopRequested, handle, wpc, todo, clean, aborted,
                   pose, initConfig>>

\* A second join of the same std::thread is undefined.  libstdc++ throws
\* std::system_error when the thread id is already cleared or pthread_join
\* reports another joiner, and the RPC fails; or the process dies.
StopJoinTwice(t) ==
    /\ At(t, "joinable")
    /\ handle = NoWorker \/ Joined(t)
    /\ \/ aborted' = FALSE /\ Goto(t, "idle") /\ clean' = clean \ {t}
       \/ aborted' = TRUE /\ UNCHANGED <<pc, clean>>
    /\ UNCHANGED <<status, stopRequested, handle, wpc, todo, pose, initConfig>>

StopJoined(t) ==
    /\ At(t, "joining")
    /\ wpc[handle] = "exited"
    /\ handle' = NoWorker
    /\ wpc' = [wpc EXCEPT ![handle] = "none"]
    /\ Goto(t, "joined")
    /\ UNCHANGED <<status, stopRequested, todo, clean, aborted, pose,
                   initConfig>>

StopStatus(t) ==
    /\ At(t, "joined")
    /\ status' = "Stopped"
    /\ Goto(t, "idle")
    /\ clean' = clean \ {t}
    /\ UNCHANGED <<stopRequested, handle, wpc, todo, aborted, pose, initConfig>>

-----------------------------------------------------------------------------
(* worker_loop() *)

\* Mutant: a paused worker leaves its loop.
WorkerExitWhenPaused(w) ==
    /\ ~aborted /\ wpc[w] = "waiting"
    /\ stopRequested \/ status = "Paused"
    /\ wpc' = [wpc EXCEPT ![w] = "exited"]
    /\ UNCHANGED <<status, stopRequested, handle, pc, todo, clean, aborted,
                   pose, initConfig>>

\* Mutant: the loop looks at the status before the flag.
WorkerExitIfRunning(w) ==
    /\ ~aborted /\ wpc[w] = "waiting"
    /\ stopRequested
    /\ status = "Running"
    /\ wpc' = [wpc EXCEPT ![w] = "exited"]
    /\ UNCHANGED <<status, stopRequested, handle, pc, todo, clean, aborted,
                   pose, initConfig>>

WorkerExit(w) ==
    /\ ~aborted /\ wpc[w] = "waiting"
    /\ stopRequested
    /\ wpc' = [wpc EXCEPT ![w] = "exited"]
    /\ UNCHANGED <<status, stopRequested, handle, pc, todo, clean, aborted,
                   pose, initConfig>>

\* mj_step under the lock; a snapshot is copied when the interval has passed.
WorkerStep(w) ==
    /\ ~aborted /\ wpc[w] = "waiting"
    /\ ~stopRequested
    /\ status = "Running"
    /\ MjStep
    /\ \E next \in {"publishing", "sleeping"} :
           wpc' = [wpc EXCEPT ![w] = next]
    /\ UNCHANGED <<status, stopRequested, handle, pc, todo, clean, aborted,
                   needsForward, initConfig>>

WorkerPublish(w) ==
    /\ ~aborted /\ wpc[w] = "publishing"
    /\ wpc' = [wpc EXCEPT ![w] = "sleeping"]
    /\ UNCHANGED <<status, stopRequested, handle, pc, todo, clean, aborted,
                   pose, initConfig>>

WorkerWake(w) ==
    /\ ~aborted /\ wpc[w] = "sleeping"
    /\ wpc' = [wpc EXCEPT ![w] = "waiting"]
    /\ UNCHANGED <<status, stopRequested, handle, pc, todo, clean, aborted,
                   pose, initConfig>>

-----------------------------------------------------------------------------
Call(t) ==
    \/ \E arrays \in ArraysIn : Configure(t, arrays) \/ ApplyRuntime(t, arrays)
    \/ \E written \in WriteIn : WriteQpos(t, written)
    \/ Reset(t)
    \/ VisualModel(t)
    \/ Start(t)
    \/ Pause(t)
    \/ StepCall(t)
    \/ StopRequest(t)

Continue(t) ==
    \/ StepBatch(t)
    \/ StepBreak(t)
    \/ StopJoinable(t)
    \/ StopJoin(t)
    \/ StopJoinTwice(t)
    \/ StopJoined(t)
    \/ StopStatus(t)

WorkerLoop(w) ==
    \/ WorkerExit(w)
    \/ WorkerStep(w)
    \/ WorkerPublish(w)
    \/ WorkerWake(w)

\* Nothing runs after the process died.
Dead == aborted /\ UNCHANGED vars

Next ==
    \/ \E t \in Thread : Call(t) \/ Continue(t)
    \/ \E w \in Worker : WorkerLoop(w)
    \/ Dead

\* A method that has begun and the worker loop keep running; no caller has to
\* call anything.
Fairness ==
    /\ \A t \in Thread : WF_vars(Continue(t))
    /\ \A w \in Worker : WF_vars(WorkerLoop(w))

Spec == Init /\ [][Next]_vars
FairSpec == Spec /\ Fairness

-----------------------------------------------------------------------------
(* Safety *)

\* start() never replaces a thread object that still stands for a thread: a
\* worker that has been created and not joined is the one worker_ holds.
HandleIsWorker == \A w \in Worker : wpc[w] # "none" => handle = w

\* An instance that reports "running" is driven: worker_ is in its loop and
\* has not been told to leave, unless a stop() is on its way to set the status.
RunningIsDriven ==
    status = "Running" =>
        \/ handle # NoWorker /\ wpc[handle] \in Alive /\ ~stopRequested
        \/ \E t \in Thread : pc[t] \in InStop

\* When a stop() that no start() overlapped is past its join, the worker is
\* gone: it takes no further mj_step and publishes no further snapshot.
StopQuiesces ==
    \A t \in clean : pc[t] = "joined" => \A w \in Worker : wpc[w] = "none"

\* Unless needs_forward_ makes visual_model() compute them anew, the poses it
\* serves were computed after the last write of qpos by configure,
\* apply_runtime, write_qpos or reset, and are one mj_step behind at most,
\* except after a write that threw with part of qpos written.
PoseKnown == posed = "before" => needsForward \/ torn

\* A configuration that was refused is never replayed: reset() cannot throw.
ResetCannotFail == \A f \in Field : Assignable(initConfig[f])

-----------------------------------------------------------------------------
(* Liveness *)

\* A stop() that no start() overlaps returns to its caller.
StopReturns ==
    \A t \in Thread :
        (t \in clean) ~> (t \notin clean \/ aborted)

\* An instance that stays "running" is stepped.
RunningIsStepped ==
    (status = "Running") ~>
        \/ status # "Running"
        \/ \E w \in Worker : wpc[w] \in {"publishing", "sleeping"}
        \/ aborted

-----------------------------------------------------------------------------
(* Refinement *)

Driver == IF handle = NoWorker THEN "none"
          ELSE IF wpc[handle] = "exited" THEN "gone" ELSE "driving"

Lifecycle == INSTANCE InstanceLifecycle
    WITH Caller <- Thread, driver <- Driver, asked <- stopRequested,
         stopping <- {t \in Thread : pc[t] \in InStop},
         undisturbed <- clean, dead <- aborted

\* The instance is one driver's at a time: however start(), stop(), pause()
\* and reset() interleave with the worker's loop and with the joins, what can
\* be seen of it is a run of InstanceLifecycle, which also says that the
\* worker that was asked to leave does and that stop() gets its join.
KeepsLifecycle == Lifecycle!LiveLife

=============================================================================
