---------------------------- MODULE TaskManager ----------------------------
(***************************************************************************)
(* SimulationTaskManager (src/source/simulation_task_manager.cpp) and the  *)
(* handlers that call it: scripts of operations on instances, created and  *)
(* removed by id and run inside the handler that asks for it.              *)
(*                                                                         *)
(* run() copies the task under mutex_, executes the copy without the       *)
(* mutex, and writes the outcome to the task that has the id by then.  An  *)
(* action is one critical section, or one step of the copy, which is one   *)
(* call of the instance manager; a "stop" has two, since it waits for the  *)
(* worker of the instance.  The instances are here only as the set of ids  *)
(* that can be found, and as what holds up a stop(); InstanceManager and   *)
(* Instance model them.                                                    *)
(***************************************************************************)
EXTENDS Naturals, Sequences

CONSTANTS
    Thread,     \* the gateway threads that run RPC handlers
    Task,       \* task ids
    InstanceId, \* instance ids
    NoTask,     \* no entry in tasks_; no snapshot
    MaxCreates, \* bound: tasks created
    MaxSteps    \* bound: steps of a task

ASSUME ConstantsAssumption ==
    /\ NoTask \notin Task
    /\ MaxCreates \in Nat
    /\ MaxSteps \in Nat

VARIABLES
    tasks,      \* tasks_
    instances,  \* the instance ids that can be found
    creates,    \* tasks created so far: each has a serial number
    pc,         \* where each thread is in run(); "idle" outside it
    snapshot,   \* the task as run() copied it, with its id
    results,    \* how many steps of the snapshot have succeeded
    delayed,    \* threads in a stop() that a start() has overlapped: the flag
                \* is down, and the worker they wait for runs on
    mixed       \* history: task ids whose run overlapped another run, or the
                \* creation of the task that has the id now

run == <<pc, snapshot, results, delayed>>
vars == <<tasks, instances, creates, run, mixed>>

\* "call" is step, reset or pause: it fails only when the instance is not
\* found.  set_ctrl may also refuse its array; any other op, and a step that
\* is not well formed, fails.
Op == {"call", "stop", "set_ctrl", "other"}
Step == [op : Op, on : InstanceId]
Steps == UNION {[1..n -> Step] : n \in 0..MaxSteps}

\* last_result: the task whose copy was run, and the steps that succeeded.
NoResult == [serial |-> 0, results |-> 0]

Init ==
    /\ tasks = [i \in Task |-> NoTask]
    /\ instances = InstanceId
    /\ creates = 0
    /\ pc = [t \in Thread |-> "idle"]
    /\ snapshot = [t \in Thread |-> NoTask]
    /\ results = [t \in Thread |-> 0]
    /\ delayed = {}
    /\ mixed = {}

At(t, label) == pc[t] = label
Goto(t, label) == pc' = [pc EXCEPT ![t] = label]

\* The threads that are executing a task of this id.
Runs(i) == {t \in Thread : pc[t] # "idle" /\ snapshot[t].id = i}

Mix(i, others) == mixed' = IF others = {} THEN mixed \ {i} ELSE mixed \cup {i}

-----------------------------------------------------------------------------
Create(t, i) ==
    /\ At(t, "idle")
    /\ tasks[i] = NoTask
    /\ creates < MaxCreates
    /\ \E steps \in Steps :
           tasks' = [tasks EXCEPT ![i] =
                        [id |-> i, serial |-> creates + 1, steps |-> steps,
                         status |-> "created", result |-> NoResult]]
    /\ creates' = creates + 1
    /\ Mix(i, Runs(i))
    /\ UNCHANGED <<instances, run>>

Remove(t, i) ==
    /\ At(t, "idle")
    /\ tasks[i] # NoTask
    /\ tasks' = [tasks EXCEPT ![i] = NoTask]
    /\ UNCHANGED <<instances, creates, run, mixed>>

\* Mutant: the task is copied, but not marked as running.
RunBeginUnmarked(t, i) ==
    /\ At(t, "idle")
    /\ tasks[i] # NoTask
    /\ snapshot' = [snapshot EXCEPT ![t] = tasks[i]]
    /\ results' = [results EXCEPT ![t] = 0]
    /\ Goto(t, "steps")
    /\ Mix(i, Runs(i))
    /\ UNCHANGED <<tasks, instances, creates, delayed>>

RunBegin(t, i) ==
    /\ At(t, "idle")
    /\ tasks[i] # NoTask
    /\ snapshot' = [snapshot EXCEPT ![t] = tasks[i]]
    /\ tasks' = [tasks EXCEPT ![i].status = "running"]
    /\ results' = [results EXCEPT ![t] = 0]
    /\ Goto(t, "steps")
    /\ Mix(i, Runs(i))
    /\ UNCHANGED <<instances, creates, delayed>>

Pending(t) == At(t, "steps") /\ results[t] < Len(snapshot[t].steps)
NextStep(t) == snapshot[t].steps[results[t] + 1]

ExecuteStep(t) ==
    /\ Pending(t)
    /\ NextStep(t).op \in {"call", "set_ctrl"}
    /\ NextStep(t).on \in instances
    /\ results' = [results EXCEPT ![t] = @ + 1]
    /\ UNCHANGED <<tasks, instances, creates, pc, snapshot, delayed, mixed>>

ExecuteStepThrows(t) ==
    /\ Pending(t)
    /\ \/ NextStep(t).op \in {"set_ctrl", "other"}
       \/ NextStep(t).on \notin instances
    /\ Goto(t, "failing")
    /\ UNCHANGED <<tasks, instances, creates, snapshot, results, delayed, mixed>>

\* The stop() of the instance that was found, whatever becomes of its id: it
\* raises the flag of the worker and joins it.
StopBegin(t) ==
    /\ Pending(t)
    /\ NextStep(t).op = "stop"
    /\ NextStep(t).on \in instances
    /\ Goto(t, "stopping")
    /\ UNCHANGED <<tasks, instances, creates, snapshot, results, delayed, mixed>>

\* Another handler's start() of the instance takes the flag back, and another
\* handler's stop() raises it again.
StartOverlaps(t) ==
    /\ At(t, "stopping")
    /\ delayed' = delayed \cup {t}
    /\ UNCHANGED <<tasks, instances, creates, pc, snapshot, results, mixed>>

StopAgain(t) ==
    /\ At(t, "stopping")
    /\ delayed' = delayed \ {t}
    /\ UNCHANGED <<tasks, instances, creates, pc, snapshot, results, mixed>>

StopDone(t) ==
    /\ At(t, "stopping")
    /\ t \notin delayed
    /\ results' = [results EXCEPT ![t] = @ + 1]
    /\ Goto(t, "steps")
    /\ UNCHANGED <<tasks, instances, creates, snapshot, delayed, mixed>>

\* The worker is joined by another stop() as well.
StopThrows(t) ==
    /\ At(t, "stopping")
    /\ delayed' = delayed \ {t}
    /\ Goto(t, "failing")
    /\ UNCHANGED <<tasks, instances, creates, snapshot, results, mixed>>

RunReturn(t) ==
    /\ Goto(t, "idle")
    /\ snapshot' = [snapshot EXCEPT ![t] = NoTask]
    /\ results' = [results EXCEPT ![t] = 0]

\* Mutant: the exception passes through run() without a trace in the task.
RunErrorRethrown(t) ==
    /\ At(t, "failing")
    /\ RunReturn(t)
    /\ UNCHANGED <<tasks, instances, creates, delayed, mixed>>

\* The catch of run(): whatever task has the id now gets the error; its
\* last_result stays.
RunError(t) ==
    /\ At(t, "failing")
    /\ LET i == snapshot[t].id
       IN  tasks' = IF tasks[i] = NoTask THEN tasks
                    ELSE [tasks EXCEPT ![i].status = "error"]
    /\ RunReturn(t)
    /\ UNCHANGED <<instances, creates, delayed, mixed>>

RunDone(t) ==
    /\ At(t, "steps")
    /\ ~Pending(t)
    /\ LET i == snapshot[t].id
       IN  tasks' = IF tasks[i] = NoTask THEN tasks
                    ELSE [tasks EXCEPT
                             ![i].status = "done",
                             ![i].result = [serial |-> snapshot[t].serial,
                                            results |-> results[t]]]
    /\ RunReturn(t)
    /\ UNCHANGED <<instances, creates, delayed, mixed>>

\* Other handlers create and destroy instances meanwhile.
InstanceComesOrGoes(i) ==
    /\ \/ instances' = instances \cup {i}
       \/ instances' = instances \ {i}
    /\ UNCHANGED <<tasks, creates, run, mixed>>

-----------------------------------------------------------------------------
RunStep(t) ==
    \/ ExecuteStep(t) \/ ExecuteStepThrows(t)
    \/ StopBegin(t) \/ StopDone(t)
    \/ RunError(t) \/ RunDone(t)

\* What the other users of an instance do to a stop() of it.
StopMeets(t) == StartOverlaps(t) \/ StopAgain(t) \/ StopThrows(t)

Next ==
    \/ \E t \in Thread, i \in Task :
           Create(t, i) \/ Remove(t, i) \/ RunBegin(t, i)
    \/ \E t \in Thread : RunStep(t) \/ StopMeets(t)
    \/ \E i \in InstanceId : InstanceComesOrGoes(i)

Spec == Init /\ [][Next]_vars

\* A handler that is in run() keeps running, except that a stop() returns only
\* while its flag stays up: nobody has to stop an instance again that was
\* started meanwhile, nor to be in its way.
FairSpec == Spec /\ \A t \in Thread : WF_vars(RunStep(t))

-----------------------------------------------------------------------------
(* Properties *)

TypeOK ==
    /\ \A i \in Task : tasks[i] # NoTask =>
           /\ tasks[i].id = i
           /\ tasks[i].serial \in 1..creates
           /\ tasks[i].steps \in Steps
           /\ tasks[i].status \in {"created", "running", "done", "error"}
           /\ tasks[i].result \in [serial : 0..creates, results : 0..MaxSteps]
    /\ instances \subseteq InstanceId
    /\ creates \in 0..MaxCreates
    /\ pc \in [Thread -> {"idle", "steps", "stopping", "failing"}]
    /\ \A t \in delayed : t \in Thread /\ pc[t] = "stopping"
    /\ \A t \in Thread : snapshot[t] = NoTask <=> pc[t] = "idle"
    /\ results \in [Thread -> 0..MaxSteps]
    /\ mixed \subseteq Task

\* What task.info and task.list report of a task is the task's own: it says
\* running exactly while a handler executes it, and done only with the result
\* of all of its own steps.  run() writes the outcome by id, to a task it may
\* never have copied; so the claim is of a task whose run overlapped neither
\* another run of the id nor the creation of the task.
OutcomeIsOwn ==
    \A i \in Task : tasks[i] # NoTask /\ i \notin mixed =>
        /\ tasks[i].status = "running" <=> Runs(i) # {}
        /\ tasks[i].status = "done" =>
               tasks[i].result = [serial |-> tasks[i].serial,
                                  results |-> Len(tasks[i].steps)]

\* A task that reports running leaves that status again, by whatever its steps
\* throw and whoever else runs, removes or creates the id; or a handler that
\* runs it waits in the stop() of an instance which was started during that.
RunEnds ==
    \A i \in Task :
        tasks[i] # NoTask /\ tasks[i].status = "running"
            ~> \/ ~(tasks[i] # NoTask /\ tasks[i].status = "running")
               \/ Runs(i) \cap delayed # {}
=============================================================================
