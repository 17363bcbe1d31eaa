--------------------------- MODULE InstanceProofs ---------------------------
(***************************************************************************)
(* Theorems about one SimulationInstance, for every set of RPC threads and *)
(* worker identities and every bound; last, that it implements             *)
(* InstanceLifecycle: each step of the code is a step of the abstract      *)
(* instance, or leaves all it shows unchanged.                             *)
(***************************************************************************)
EXTENDS Instance, TLAPS

-----------------------------------------------------------------------------
(* Type correctness *)

\* The loop of step() is entered only with batches left to run.
StepHasBatches == \A t \in Thread : pc[t] = "stepping" => todo[t] # 0

\* The typing that is inductive: todo stays a natural number only because a
\* thread in the loop of step() has batches left.
TypeInv == TypeOK /\ StepHasBatches

\* The initial state is typed.
LEMMA InitTypes == Init => TypeInv
<1> SUFFICES ASSUME Init  PROVE TypeInv
  OBVIOUS
<1>1. MaxBatches \in Nat
  BY ConstantsAssumption
<1> USE <1>1 DEF Init
<1>2. status \in Status
  BY DEF Status
<1>3. initConfig \in [Field -> Array \cup {NoArray}]
  OBVIOUS
<1>4. handle \in Worker \cup {NoWorker}
  OBVIOUS
<1>5. wpc \in [Worker -> Alive \cup {"none", "exited"}]
  OBVIOUS
<1>6. pc \in [Thread -> InStop \cup {"idle", "stepping"}]
  OBVIOUS
<1>7. todo \in [Thread -> 0..MaxBatches]
  OBVIOUS
<1>8. /\ stopRequested \in BOOLEAN /\ needsForward \in BOOLEAN
      /\ posed \in Posed /\ torn \in BOOLEAN /\ aborted \in BOOLEAN
  BY DEF Posed
<1>9. clean \subseteq Thread
  OBVIOUS
<1>10. StepHasBatches
  BY DEF StepHasBatches
<1> QED
  BY <1>2, <1>3, <1>4, <1>5, <1>6, <1>7, <1>8, <1>9, <1>10 DEF TypeInv, TypeOK

\* Every step keeps the types.
LEMMA NextTypes == TypeInv /\ [Next]_vars => TypeInv'
<1> SUFFICES ASSUME TypeInv, [Next]_vars
             PROVE  TypeInv'
  OBVIOUS
<1> USE ConstantsAssumption
    DEF TypeInv, TypeOK, StepHasBatches, control, pose, Status, Posed, InStop,
        Alive, At, Goto
<1>1. ASSUME NEW arrays \in ArraysIn, AssignArrays(arrays), UNCHANGED control
      PROVE  TypeInv'
  BY <1>1 DEF AssignArrays, Unpose
<1>2. ASSUME NEW t \in Thread, NEW written \in WriteIn, WriteQpos(t, written)
      PROVE  TypeInv'
  BY <1>2 DEF WriteQpos, Unpose
<1>3. ASSUME NEW t \in Thread, Reset(t)  PROVE TypeInv'
  BY <1>3 DEF Reset, Unpose
<1>4. ASSUME NEW t \in Thread, VisualModel(t)  PROVE TypeInv'
  BY <1>4 DEF VisualModel, Forward
<1>5. ASSUME NEW t \in Thread, Start(t)  PROVE TypeInv'
  BY <1>5 DEF Start, Spawns
<1>6. ASSUME NEW t \in Thread, Pause(t)  PROVE TypeInv'
  BY <1>6 DEF Pause
<1>7. ASSUME NEW t \in Thread, StepCall(t)  PROVE TypeInv'
  BY <1>7 DEF StepCall
<1>8. ASSUME NEW t \in Thread, StopRequest(t)  PROVE TypeInv'
  BY <1>8 DEF StopRequest
<1>9. ASSUME NEW t \in Thread, StepBatch(t)  PROVE TypeInv'
  <2>1. todo[t] \in 1..MaxBatches
    BY <1>9 DEF StepBatch
  <2>2. todo' \in [Thread -> 0..MaxBatches]
    BY <1>9, <2>1 DEF StepBatch
  <2>3. pc' \in [Thread -> InStop \cup {"idle", "stepping"}]
    BY <1>9 DEF StepBatch
  <2>4. StepHasBatches'
    BY <1>9, <2>1 DEF StepBatch
  <2> QED
    BY <1>9, <2>2, <2>3, <2>4 DEF StepBatch, MjStep
<1>10. ASSUME NEW t \in Thread, StepBreak(t)  PROVE TypeInv'
  BY <1>10 DEF StepBreak
<1>11. ASSUME NEW t \in Thread, StopJoinable(t)  PROVE TypeInv'
  BY <1>11 DEF StopJoinable
<1>12. ASSUME NEW t \in Thread, StopJoin(t)  PROVE TypeInv'
  BY <1>12 DEF StopJoin
<1>13. ASSUME NEW t \in Thread, StopJoinTwice(t)  PROVE TypeInv'
  BY <1>13 DEF StopJoinTwice
<1>14. ASSUME NEW t \in Thread, StopJoined(t)  PROVE TypeInv'
  BY <1>14 DEF StopJoined
<1>15. ASSUME NEW t \in Thread, StopStatus(t)  PROVE TypeInv'
  BY <1>15 DEF StopStatus
<1>16. ASSUME NEW w \in Worker, WorkerLoop(w)  PROVE TypeInv'
  BY <1>16 DEF WorkerLoop, WorkerExit, WorkerStep, WorkerPublish, WorkerWake,
               MjStep
<1>17. CASE UNCHANGED vars
  BY <1>17 DEF vars
<1> QED
  BY <1>1, <1>2, <1>3, <1>4, <1>5, <1>6, <1>7, <1>8, <1>9, <1>10, <1>11,
     <1>12, <1>13, <1>14, <1>15, <1>16, <1>17
     DEF Next, Call, Continue, Configure, ApplyRuntime, Dead

\* Every variable keeps its type: stop()'s labels, step()'s counter and the
\* arrays kept by configure() stay in their domains.
THEOREM TypeCorrect == Spec => []TypeOK
<1>1. TypeInv => TypeOK
  BY DEF TypeInv
<1> QED
  BY InitTypes, NextTypes, <1>1, PTL DEF Spec

-----------------------------------------------------------------------------
(* The worker and its handle *)

Stopping(t) == pc[t] \in {"requested", "joinable", "joining"}

\* What makes RunningIsDriven inductive: a handle stands for a thread; a
\* status "Running" without a handle, a flag that is up and a worker that has
\* left are each there only while some stop() is on its way.  The last two
\* need a stop() that has not joined yet: one that has joined and not yet set
\* the status says nothing about a worker a start() created since.
HandleStands == handle # NoWorker => wpc[handle] # "none"

RunningHasHandle ==
    status = "Running" /\ handle = NoWorker => \E t \in Thread : pc[t] = "joined"

FlagHasStopper ==
    stopRequested /\ handle # NoWorker => \E t \in Thread : Stopping(t)

ExitHasStopper ==
    handle # NoWorker /\ wpc[handle] = "exited" => \E t \in Thread : Stopping(t)

HandleInv ==
    /\ TypeInv
    /\ HandleIsWorker
    /\ HandleStands
    /\ RunningHasHandle
    /\ FlagHasStopper
    /\ ExitHasStopper
    /\ StopQuiesces

\* No worker exists at first.
LEMMA InitHandle == Init => HandleInv
BY InitTypes
   DEF Init, HandleInv, HandleIsWorker, HandleStands, RunningHasHandle,
       FlagHasStopper, ExitHasStopper, StopQuiesces

\* Steps that leave the threads and the worker where they are.
LEMMA SameControl ==
    ASSUME HandleInv, TypeInv', status' \in {status, "Created", "Paused"},
           UNCHANGED <<stopRequested, handle, wpc, clean>>,
           \A t \in Thread : pc'[t] # pc[t] => /\ pc[t] \notin InStop
                                              /\ pc'[t] \notin InStop
    PROVE  HandleInv'
<1>1. \A t \in Thread : \A label \in InStop : pc'[t] = label <=> pc[t] = label
  OBVIOUS
<1>2. \A t \in Thread : /\ Stopping(t)' <=> Stopping(t)
                        /\ pc'[t] = "joined" <=> pc[t] = "joined"
  BY <1>1 DEF Stopping, InStop
<1>3. (HandleIsWorker /\ HandleStands)'
  BY DEF HandleInv, HandleIsWorker, HandleStands
<1>4. (RunningHasHandle /\ FlagHasStopper /\ ExitHasStopper)'
  BY <1>2 DEF HandleInv, RunningHasHandle, FlagHasStopper, ExitHasStopper
<1>5. StopQuiesces'
  <2>1. clean \subseteq Thread
    BY DEF HandleInv, TypeInv, TypeOK
  <2> QED
    BY <1>2, <2>1 DEF HandleInv, StopQuiesces
<1> QED
  BY <1>3, <1>4, <1>5 DEF HandleInv

\* start() makes a worker where the handle stands for none.
LEMMA StartHandle ==
    ASSUME HandleInv, TypeInv', NEW t \in Thread, Start(t)
    PROVE  HandleInv'
<1> USE ConstantsAssumption DEF HandleInv, Start, Spawns, At
<1>1. CASE handle = NoWorker
  <2>1. PICK w \in Worker : /\ wpc[w] = "none"
                            /\ handle' = w
                            /\ wpc' = [wpc EXCEPT ![w] = "waiting"]
    BY <1>1
  <2>2. wpc \in [Worker -> Alive \cup {"none", "exited"}]
    BY DEF TypeInv, TypeOK
  <2>3. \A v \in Worker : wpc[v] = "none"
    BY <1>1 DEF HandleIsWorker
  <2> QED
    BY <2>1, <2>2, <2>3
       DEF HandleIsWorker, HandleStands, RunningHasHandle, FlagHasStopper,
           ExitHasStopper, StopQuiesces
<1>2. CASE handle # NoWorker
  BY <1>2 DEF HandleIsWorker, HandleStands, RunningHasHandle, FlagHasStopper,
              ExitHasStopper, StopQuiesces, Stopping
<1> QED
  BY <1>1, <1>2

\* stop() raises the flag, joins, clears the handle, then the status.
LEMMA StopHandle ==
    ASSUME HandleInv, TypeInv', NEW t \in Thread,
           \/ StopRequest(t) \/ StopJoinable(t) \/ StopJoin(t)
           \/ StopJoinTwice(t) \/ StopJoined(t) \/ StopStatus(t)
    PROVE  HandleInv'
<1> USE DEF At, Goto, HandleInv
<1>0. /\ pc \in [Thread -> InStop \cup {"idle", "stepping"}]
      /\ wpc \in [Worker -> Alive \cup {"none", "exited"}]
      /\ handle \in Worker \cup {NoWorker}
  BY DEF TypeInv, TypeOK
<1>1. CASE StopRequest(t)
  BY <1>0, <1>1 DEF StopRequest, HandleIsWorker, HandleStands, RunningHasHandle,
     FlagHasStopper, ExitHasStopper, StopQuiesces, Stopping
<1>2. CASE StopJoinable(t)
  <2>1. CASE handle = NoWorker
    BY <1>0, <1>2, <2>1, ConstantsAssumption
       DEF StopJoinable, HandleIsWorker, HandleStands, RunningHasHandle,
           FlagHasStopper, ExitHasStopper, StopQuiesces
  <2>2. CASE handle # NoWorker
    BY <1>0, <1>2, <2>2
       DEF StopJoinable, HandleIsWorker, HandleStands, RunningHasHandle,
           FlagHasStopper, ExitHasStopper, StopQuiesces, Stopping
  <2> QED
    BY <2>1, <2>2
<1>3. CASE StopJoin(t)
  BY <1>0, <1>3 DEF StopJoin, HandleIsWorker, HandleStands, RunningHasHandle,
     FlagHasStopper, ExitHasStopper, StopQuiesces, Stopping
<1>4. CASE StopJoinTwice(t)
  <2>1. CASE pc' = pc
    BY <1>0, <1>4, <2>1 DEF StopJoinTwice, HandleIsWorker, HandleStands,
       RunningHasHandle, FlagHasStopper, ExitHasStopper, StopQuiesces, Stopping
  <2>2. CASE pc' = [pc EXCEPT ![t] = "idle"] /\ clean' = clean \ {t}
    <3>1. /\ UNCHANGED <<status, stopRequested, handle, wpc>>
          /\ pc[t] = "joinable"
          /\ handle = NoWorker \/ \E u \in Thread \ {t} : pc[u] = "joining"
      BY <1>4 DEF StopJoinTwice, Joined
    <3>2. handle # NoWorker => \E u \in Thread : Stopping(u)'
      BY <1>0, <2>2, <3>1 DEF Stopping
    <3>3. FlagHasStopper' /\ ExitHasStopper'
      BY <3>1, <3>2 DEF FlagHasStopper, ExitHasStopper, Stopping
    <3> QED
      BY <1>0, <2>2, <3>1, <3>3 DEF HandleIsWorker, HandleStands,
         RunningHasHandle, StopQuiesces
  <2> QED
    BY <1>4, <2>1, <2>2 DEF StopJoinTwice
<1>5. CASE StopJoined(t)
  BY <1>0, <1>5 DEF StopJoined, HandleIsWorker, HandleStands, RunningHasHandle,
     FlagHasStopper, ExitHasStopper, StopQuiesces, Stopping
<1>6. CASE StopStatus(t)
  BY <1>0, <1>6 DEF StopStatus, HandleIsWorker, HandleStands, RunningHasHandle,
     FlagHasStopper, ExitHasStopper, StopQuiesces, Stopping
<1> QED
  BY <1>1, <1>2, <1>3, <1>4, <1>5, <1>6

\* A worker leaves its loop only after it has seen the flag.
LEMMA WorkerHandle ==
    ASSUME HandleInv, TypeInv', NEW w \in Worker, WorkerLoop(w)
    PROVE  HandleInv'
<1> USE DEF HandleInv
<1>0. /\ wpc \in [Worker -> Alive \cup {"none", "exited"}]
      /\ handle \in Worker \cup {NoWorker}
  BY DEF TypeInv, TypeOK
<1>1. handle = w /\ handle # NoWorker
  BY ConstantsAssumption
     DEF WorkerLoop, WorkerExit, WorkerStep, WorkerPublish, WorkerWake,
         HandleIsWorker
<1>2. CASE WorkerExit(w)
  <2>1. \E t \in Thread : Stopping(t)
    BY <1>1, <1>2 DEF WorkerExit, FlagHasStopper
  <2> QED
    BY <1>0, <1>1, <1>2, <2>1
       DEF WorkerExit, HandleIsWorker, HandleStands, RunningHasHandle,
           FlagHasStopper, ExitHasStopper, StopQuiesces, Stopping
<1>3. CASE WorkerStep(w) \/ WorkerPublish(w) \/ WorkerWake(w)
  BY <1>0, <1>1, <1>3
     DEF WorkerStep, WorkerPublish, WorkerWake, HandleIsWorker, HandleStands,
         RunningHasHandle, FlagHasStopper, ExitHasStopper, StopQuiesces, Stopping
<1> QED
  BY <1>2, <1>3 DEF WorkerLoop

\* Every step keeps the invariant.
LEMMA NextHandle == HandleInv /\ [Next]_vars => HandleInv'
<1> SUFFICES ASSUME HandleInv, [Next]_vars
             PROVE  HandleInv'
  OBVIOUS
<1>0. TypeInv'
  BY NextTypes DEF HandleInv
<1>1. ASSUME NEW t \in Thread, NEW arrays \in ArraysIn,
             Configure(t, arrays) \/ ApplyRuntime(t, arrays)
      PROVE  HandleInv'
  BY <1>0, <1>1, SameControl DEF Configure, ApplyRuntime, control
<1>2. ASSUME NEW t \in Thread, NEW written \in WriteIn, WriteQpos(t, written)
      PROVE  HandleInv'
  BY <1>0, <1>2, SameControl DEF WriteQpos, control
<1>3. ASSUME NEW t \in Thread, Reset(t) \/ VisualModel(t) \/ Pause(t)
      PROVE  HandleInv'
  BY <1>0, <1>3, SameControl DEF Reset, VisualModel, Pause, control
<1>4. ASSUME NEW t \in Thread, StepCall(t) \/ StepBatch(t) \/ StepBreak(t)
      PROVE  HandleInv'
  <2>1. pc \in [Thread -> InStop \cup {"idle", "stepping"}]
    BY DEF HandleInv, TypeInv, TypeOK
  <2>2. \A u \in Thread : pc'[u] # pc[u] => /\ pc[u] \notin InStop
                                            /\ pc'[u] \notin InStop
    BY <1>4, <2>1 DEF StepCall, StepBatch, StepBreak, At, Goto, InStop
  <2> QED
    BY <1>0, <1>4, <2>2, SameControl DEF StepCall, StepBatch, StepBreak
<1>5. ASSUME NEW t \in Thread, Start(t)  PROVE HandleInv'
  BY <1>0, <1>5, StartHandle
<1>6. ASSUME NEW t \in Thread,
             \/ StopRequest(t) \/ StopJoinable(t) \/ StopJoin(t)
             \/ StopJoinTwice(t) \/ StopJoined(t) \/ StopStatus(t)
      PROVE  HandleInv'
  BY <1>0, <1>6, StopHandle
<1>7. ASSUME NEW w \in Worker, WorkerLoop(w)  PROVE HandleInv'
  BY <1>0, <1>7, WorkerHandle
<1>8. CASE UNCHANGED vars
  BY <1>0, <1>8, SameControl DEF vars, control
<1> QED
  BY <1>1, <1>2, <1>3, <1>4, <1>5, <1>6, <1>7, <1>8
     DEF Next, Call, Continue, Dead

\* It holds of every behaviour.
LEMMA HandleInvariant == Spec => []HandleInv
BY InitHandle, NextHandle, PTL DEF Spec

\* worker_ is never assigned while it stands for a thread.
THEOREM HandleCorrect == Spec => []HandleIsWorker
<1>1. HandleInv => HandleIsWorker
  BY DEF HandleInv
<1> QED
  BY HandleInvariant, <1>1, PTL

\* An instance that reports "running" has a worker that steps it, or a stop()
\* is about to change what it reports.
THEOREM RunningDriven == Spec => []RunningIsDriven
<1>1. HandleInv => RunningIsDriven
  BY DEF HandleInv, TypeInv, TypeOK, RunningIsDriven, HandleStands,
         RunningHasHandle, FlagHasStopper, ExitHasStopper, Stopping, InStop
<1> QED
  BY HandleInvariant, <1>1, PTL

\* Nothing steps or publishes once a stop() that no start() overlapped has
\* joined the worker.
THEOREM StopQuiet == Spec => []StopQuiesces
<1>1. HandleInv => StopQuiesces
  BY DEF HandleInv
<1> QED
  BY HandleInvariant, <1>1, PTL

-----------------------------------------------------------------------------
(* The data *)

\* Every step keeps what is said of the data.
LEMMA NextData == PoseKnown /\ ResetCannotFail /\ [Next]_vars
                  => PoseKnown' /\ ResetCannotFail'
<1> SUFFICES ASSUME PoseKnown, ResetCannotFail, [Next]_vars
             PROVE  PoseKnown' /\ ResetCannotFail'
  OBVIOUS
<1> USE DEF PoseKnown, ResetCannotFail, pose
<1>1. ASSUME NEW arrays, AssignArrays(arrays)
      PROVE  PoseKnown' /\ ResetCannotFail'
  <2>1. ResetCannotFail'
    BY <1>1 DEF AssignArrays, Accepted, Assignable
  <2>2. CASE arrays["qpos"] = "fits"
    <3>1. "qpos" \in Accepted(arrays)
      BY <2>2 DEF Accepted, Field, Earlier
    <3> QED
      BY <1>1, <2>1, <3>1 DEF AssignArrays, Unpose
  <2>3. CASE arrays["qpos"] # "fits"
    BY <1>1, <2>1, <2>3 DEF AssignArrays, Unpose
  <2> QED
    BY <2>2, <2>3
<1>2. ASSUME NEW t \in Thread, NEW written, WriteQpos(t, written)
      PROVE  PoseKnown' /\ ResetCannotFail'
  BY <1>2 DEF WriteQpos, Unpose
<1>3. ASSUME NEW t \in Thread, Reset(t)
      PROVE  PoseKnown' /\ ResetCannotFail'
  BY <1>3 DEF Reset, Unpose
<1>4. ASSUME NEW t \in Thread, VisualModel(t)
      PROVE  PoseKnown' /\ ResetCannotFail'
  BY <1>4 DEF VisualModel, Forward
<1>5. ASSUME NEW t \in Thread,
             Start(t) \/ Pause(t) \/ StepCall(t) \/ StopRequest(t)
      PROVE  PoseKnown' /\ ResetCannotFail'
  BY <1>5 DEF Start, Pause, StepCall, StopRequest
<1>6. ASSUME NEW t \in Thread, Continue(t)
      PROVE  PoseKnown' /\ ResetCannotFail'
  BY <1>6 DEF Continue, StepBatch, StepBreak, StopJoinable, StopJoin,
              StopJoinTwice, StopJoined, StopStatus, MjStep
<1>7. ASSUME NEW w \in Worker, WorkerLoop(w)
      PROVE  PoseKnown' /\ ResetCannotFail'
  BY <1>7 DEF WorkerLoop, WorkerExit, WorkerStep, WorkerPublish, WorkerWake,
              MjStep
<1>8. CASE UNCHANGED vars
  BY <1>8 DEF vars
<1> QED
  BY <1>1, <1>2, <1>3, <1>4, <1>5, <1>6, <1>7, <1>8
     DEF Next, Call, Configure, ApplyRuntime, Dead

\* The poses of a new instance are known.
LEMMA InitData == Init => PoseKnown /\ ResetCannotFail
BY DEF Init, PoseKnown, ResetCannotFail, Assignable

\* needs_forward_ is up whenever no pose was computed since qpos was last
\* written, unless a write threw half way: what visual_model() serves is of
\* the qpos in data_, or of the one before the last mj_step.
THEOREM PoseTracked == Spec => []PoseKnown
BY InitData, NextData, PTL DEF Spec

\* reset() never meets an array it cannot assign.
THEOREM ResetTotal == Spec => []ResetCannotFail
BY InitData, NextData, PTL DEF Spec

-----------------------------------------------------------------------------
(* The refinement: who joins *)

\* A join that is under way is the only one, and of a thread that stands:
\* nothing but its end clears worker_.
JoinerInv ==
    \A t \in Thread : pc[t] = "joining" =>
        /\ handle # NoWorker
        /\ \A u \in Thread \ {t} : pc[u] # "joining"

RefineInv == HandleInv /\ JoinerInv

\* No stop() is joining at first.
LEMMA InitRefine == Init => RefineInv
BY InitHandle DEF RefineInv, JoinerInv, Init

\* Every step leaves at most one stop() joining, a thread that stands.
LEMMA NextJoiner == HandleInv /\ JoinerInv /\ [Next]_vars => JoinerInv'
<1> SUFFICES ASSUME HandleInv, JoinerInv, [Next]_vars
             PROVE  JoinerInv'
  OBVIOUS
<1> USE DEF JoinerInv
<1>0. /\ pc \in [Thread -> InStop \cup {"idle", "stepping"}]
      /\ handle \in Worker \cup {NoWorker}
  BY DEF HandleInv, TypeInv, TypeOK
<1>1. ASSUME NEW t \in Thread, Call(t)  PROVE JoinerInv'
  <2>1. CASE Start(t)
    BY <1>0, <2>1, ConstantsAssumption DEF Start, At
  <2>2. CASE StepCall(t) \/ StopRequest(t)
    BY <1>0, <2>2 DEF StepCall, StopRequest, Goto, At
  <2>3. CASE UNCHANGED <<handle, pc>>
    BY <2>3
  <2> QED
    BY <1>1, <2>1, <2>2, <2>3
       DEF Call, Configure, ApplyRuntime, WriteQpos, Reset, VisualModel, Pause,
           control
<1>2. ASSUME NEW t \in Thread, Continue(t)  PROVE JoinerInv'
  <2>1. CASE StepBatch(t) \/ StepBreak(t) \/ StopJoinable(t) \/ StopStatus(t)
    BY <1>0, <2>1 DEF StepBatch, StepBreak, StopJoinable, StopStatus, Goto, At
  <2>2. CASE StopJoin(t)
    BY <1>0, <2>2 DEF StopJoin, Joined, Goto, At
  <2>3. CASE StopJoinTwice(t)
    BY <1>0, <2>3 DEF StopJoinTwice, Goto, At
  <2>4. CASE StopJoined(t)
    BY <1>0, <2>4 DEF StopJoined, Goto, At
  <2> QED
    BY <1>2, <2>1, <2>2, <2>3, <2>4 DEF Continue
<1>3. ASSUME NEW w \in Worker, WorkerLoop(w)  PROVE JoinerInv'
  BY <1>3 DEF WorkerLoop, WorkerExit, WorkerStep, WorkerPublish, WorkerWake
<1>4. CASE UNCHANGED vars
  BY <1>4 DEF vars, control
<1> QED
  BY <1>1, <1>2, <1>3, <1>4 DEF Next, Dead

\* It holds of every behaviour.
LEMMA RefineInvariant == Spec => []RefineInv
<1>1. RefineInv /\ [Next]_vars => RefineInv'
  BY NextHandle, NextJoiner DEF RefineInv
<1> QED
  BY InitRefine, <1>1, PTL DEF Spec

-----------------------------------------------------------------------------
(* The refinement: the mapping *)

Stoppers == {t \in Thread : pc[t] \in InStop}

\* Steps of the code that the abstract instance does not see.
LEMMA Stutter ==
    ASSUME UNCHANGED <<status, stopRequested, clean, aborted>>,
           Driver' = Driver,
           \A t \in Thread : pc'[t] \in InStop <=> pc[t] \in InStop
    PROVE  UNCHANGED Lifecycle!lvars
BY DEF Lifecycle!lvars

\* A new instance is a new abstract instance.
LEMMA InitMaps == Init => Lifecycle!LifeInit
BY DEF Init, Lifecycle!LifeInit, Driver, InStop

\* The methods that hold the mutex throughout, and step().
LEMMA CallMaps ==
    ASSUME RefineInv, NEW t \in Thread, Call(t)
    PROVE  [Lifecycle!LifeNext]_(Lifecycle!lvars)
<1> USE DEF RefineInv, HandleInv, TypeInv, TypeOK, Lifecycle!lvars,
            Lifecycle!LifeNext, At
<1>1. CASE Start(t)
  <2>1. Driver' = IF Driver = "none" THEN "driving" ELSE Driver
    <3>1. CASE handle = NoWorker
      BY <1>1, <3>1, ConstantsAssumption DEF Start, Spawns, Driver
    <3>2. CASE handle # NoWorker
      BY <1>1, <3>2 DEF Start, Spawns, Driver
    <3> QED
      BY <3>1, <3>2
  <2>2. Lifecycle!Run
    BY <1>1, <2>1 DEF Start, Lifecycle!Run
  <2> QED
    BY <2>2
<1>2. CASE StopRequest(t)
  <2>1. Driver' = Driver
    BY <1>2 DEF StopRequest, Driver
  <2>2. t \notin Stoppers /\ Stoppers' = Stoppers \cup {t}
    BY <1>2 DEF StopRequest, Goto, InStop, Stoppers
  <2>3. Lifecycle!Ask(t)
    BY <1>2, <2>1, <2>2 DEF StopRequest, Lifecycle!Ask, Stoppers
  <2> QED
    BY <2>3
<1>3. CASE Pause(t)
  <2>1. Lifecycle!Halt
    BY <1>3 DEF Pause, Lifecycle!Halt, Driver
  <2> QED
    BY <2>1
<1>4. CASE Reset(t)
  <2>1. CASE status' = "Created"
    <3>1. Lifecycle!BeginAgain
      BY <1>4, <2>1 DEF Reset, Lifecycle!BeginAgain, Driver
    <3> QED
      BY <3>1
  <2>2. CASE status' = status
    BY <1>4, <2>2 DEF Reset, Driver
  <2> QED
    BY <1>4, <2>1, <2>2 DEF Reset
<1>5. CASE StepCall(t)
  <2>1. \A u \in Thread : pc'[u] \in InStop <=> pc[u] \in InStop
    BY <1>5 DEF StepCall, Goto, InStop
  <2>2. Driver' = Driver
    BY <1>5 DEF StepCall, Driver
  <2> QED
    BY <1>5, <2>1, <2>2, Stutter DEF StepCall
<1>6. CASE UNCHANGED control
  BY <1>6, Stutter DEF control, Driver
<1> QED
  BY <1>1, <1>2, <1>3, <1>4, <1>5, <1>6
     DEF Call, Configure, ApplyRuntime, WriteQpos, VisualModel

\* The rest of step() and of stop().
LEMMA ContinueMaps ==
    ASSUME RefineInv, RefineInv', NEW t \in Thread, Continue(t)
    PROVE  [Lifecycle!LifeNext]_(Lifecycle!lvars)
<1> USE DEF At, Goto
<1>0. /\ pc \in [Thread -> InStop \cup {"idle", "stepping"}]
      /\ handle \in Worker \cup {NoWorker}
      /\ wpc \in [Worker -> Alive \cup {"none", "exited"}]
  BY DEF RefineInv, HandleInv, TypeInv, TypeOK
<1>1. CASE StepBatch(t) \/ StepBreak(t)
  <2>1. \A u \in Thread : pc'[u] \in InStop <=> pc[u] \in InStop
    BY <1>0, <1>1 DEF StepBatch, StepBreak, InStop
  <2>2. Driver' = Driver
    BY <1>1 DEF StepBatch, StepBreak, Driver
  <2> QED
    BY <1>1, <2>1, <2>2, Stutter DEF StepBatch, StepBreak
<1>2. CASE StopJoinable(t) \/ StopJoin(t)
  <2>1. \A u \in Thread : pc'[u] \in InStop <=> pc[u] \in InStop
    BY <1>0, <1>2 DEF StopJoinable, StopJoin, InStop
  <2>2. Driver' = Driver
    BY <1>2 DEF StopJoinable, StopJoin, Driver
  <2> QED
    BY <1>2, <2>1, <2>2, Stutter DEF StopJoinable, StopJoin
<1>3. CASE StopJoinTwice(t)
  <2>1. Driver' = Driver
    BY <1>3 DEF StopJoinTwice, Driver
  <2>2. t \in Stoppers
    BY <1>3 DEF StopJoinTwice, InStop, Stoppers
  <2>3. \/ Stoppers' = Stoppers \ {t} /\ clean' = clean \ {t} /\ aborted' = aborted
        \/ Stoppers' = Stoppers /\ clean' = clean /\ aborted' = TRUE
    <3>1. aborted = FALSE
      BY <1>3 DEF StopJoinTwice, RefineInv, HandleInv, TypeInv, TypeOK
    <3>2. CASE aborted' = FALSE /\ pc' = [pc EXCEPT ![t] = "idle"]
                               /\ clean' = clean \ {t}
      <4>1. Stoppers' = Stoppers \ {t}
        BY <1>0, <3>2 DEF InStop, Stoppers
      <4> QED
        BY <3>1, <3>2, <4>1
    <3>3. CASE aborted' = TRUE /\ UNCHANGED <<pc, clean>>
      BY <3>3 DEF Stoppers
    <3> QED
      BY <1>3, <3>2, <3>3 DEF StopJoinTwice
  <2>4. Lifecycle!Collide(t)
    BY <1>3, <2>1, <2>2, <2>3 DEF StopJoinTwice, Lifecycle!Collide, Stoppers
  <2> QED
    BY <2>4 DEF Lifecycle!LifeNext
<1>4. CASE StopJoined(t)
  <2>1. handle # NoWorker
    BY <1>4 DEF StopJoined, RefineInv, JoinerInv
  <2>2. Driver = "gone" /\ Driver' = "none"
    BY <1>4, <2>1 DEF StopJoined, Driver
  <2>3. t \in Stoppers /\ Stoppers' = Stoppers
    BY <1>0, <1>4 DEF StopJoined, InStop, Stoppers
  <2>4. Lifecycle!Dismiss
    BY <1>4, <2>2, <2>3 DEF StopJoined, Lifecycle!Dismiss, Stoppers
  <2> QED
    BY <2>4 DEF Lifecycle!LifeNext
<1>5. CASE StopStatus(t)
  <2>1. t \in clean => Driver = "none"
    <3>1. t \in clean => \A w \in Worker : wpc[w] = "none"
      BY <1>5 DEF StopStatus, RefineInv, HandleInv, StopQuiesces
    <3> QED
      BY <1>0, <3>1 DEF RefineInv, HandleInv, HandleStands, Driver
  <2>2. t \in Stoppers /\ Stoppers' = Stoppers \ {t}
    BY <1>0, <1>5 DEF StopStatus, InStop, Stoppers
  <2>3. Driver' = Driver
    BY <1>5 DEF StopStatus, Driver
  <2>4. Lifecycle!Report(t)
    BY <1>5, <2>1, <2>2, <2>3 DEF StopStatus, Lifecycle!Report, Stoppers
  <2> QED
    BY <2>4 DEF Lifecycle!LifeNext
<1> QED
  BY <1>1, <1>2, <1>3, <1>4, <1>5 DEF Continue

\* The worker: leaving its loop is the driver's leaving.
LEMMA WorkerMaps ==
    ASSUME RefineInv, NEW w \in Worker, WorkerLoop(w)
    PROVE  [Lifecycle!LifeNext]_(Lifecycle!lvars)
<1>0. /\ wpc \in [Worker -> Alive \cup {"none", "exited"}]
      /\ wpc[w] \in Alive
      /\ handle = w /\ handle # NoWorker
  BY ConstantsAssumption
     DEF WorkerLoop, WorkerExit, WorkerStep, WorkerPublish, WorkerWake, Alive,
         HandleIsWorker, RefineInv, HandleInv, TypeInv, TypeOK
<1>1. CASE WorkerExit(w)
  <2>1. Driver = "driving" /\ Driver' = "gone"
    BY <1>0, <1>1 DEF WorkerExit, Driver
  <2>2. Lifecycle!Leave
    BY <1>1, <2>1 DEF WorkerExit, Lifecycle!Leave
  <2> QED
    BY <2>2 DEF Lifecycle!LifeNext
<1>2. CASE WorkerStep(w) \/ WorkerPublish(w) \/ WorkerWake(w)
  <2>1. Driver' = Driver
    BY <1>0, <1>2 DEF WorkerStep, WorkerPublish, WorkerWake, Alive, Driver
  <2> QED
    BY <1>2, <2>1, Stutter DEF WorkerStep, WorkerPublish, WorkerWake
<1> QED
  BY <1>1, <1>2 DEF WorkerLoop

\* Every step of start(), stop(), pause(), reset() and of the worker's loop is
\* a step of the abstract instance or is invisible in it: the driver is hired,
\* leaves and is dismissed in that order, and a stop() that no start() disturbs
\* reports only when there is none.
THEOREM ImplementsLifecycle == Spec => Lifecycle!Life
<1>1. RefineInv /\ RefineInv' /\ [Next]_vars
      => [Lifecycle!LifeNext]_(Lifecycle!lvars)
  <2> SUFFICES ASSUME RefineInv, RefineInv', [Next]_vars
               PROVE  [Lifecycle!LifeNext]_(Lifecycle!lvars)
    OBVIOUS
  <2>1. CASE UNCHANGED vars
    BY <2>1, Stutter DEF vars, control, Driver
  <2> QED
    BY <2>1, CallMaps, ContinueMaps, WorkerMaps DEF Next, Dead
<1> QED
  BY InitMaps, RefineInvariant, <1>1, PTL DEF Spec, Lifecycle!Life

=============================================================================
