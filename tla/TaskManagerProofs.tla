------------------------- MODULE TaskManagerProofs -------------------------
(***************************************************************************)
(* Theorems about the task manager, for every set of threads, tasks and    *)
(* instances and every bound.                                              *)
(***************************************************************************)
EXTENDS TaskManager, TLAPS

-----------------------------------------------------------------------------
(* Types *)

Status == {"created", "running", "done", "error"}
Result == [serial : 0..creates, results : 0..MaxSteps]

TaskRecord ==
    [id : Task, serial : 1..creates, steps : Steps, status : Status,
     result : Result]

\* TypeOK, and what makes it inductive: what a run has copied is a task like
\* those in the map, the steps it has done are steps of that copy, and a stop
\* it is in is one more.
TypeInv ==
    /\ tasks \in [Task -> TaskRecord \cup {NoTask}]
    /\ \A i \in Task : tasks[i] # NoTask => tasks[i].id = i
    /\ instances \subseteq InstanceId
    /\ creates \in 0..MaxCreates
    /\ pc \in [Thread -> {"idle", "steps", "stopping", "failing"}]
    /\ snapshot \in [Thread -> TaskRecord \cup {NoTask}]
    /\ \A t \in Thread : snapshot[t] = NoTask <=> pc[t] = "idle"
    /\ results \in [Thread -> 0..MaxSteps]
    /\ \A t \in Thread : pc[t] # "idle" => results[t] <= Len(snapshot[t].steps)
    /\ \A t \in Thread : pc[t] = "stopping" => results[t] # Len(snapshot[t].steps)
    /\ \A t \in delayed : t \in Thread /\ pc[t] = "stopping"
    /\ mixed \subseteq Task

\* The steps that are left of a run are again steps of a run.
LEMMA StepsAreSequences ==
    ASSUME NEW s \in Steps
    PROVE  s \in Seq(Step) /\ Len(s) \in 0..MaxSteps
<1>1. PICK n \in 0..MaxSteps : s \in [1..n -> Step]
  BY DEF Steps
<1>2. n \in Nat
  BY ConstantsAssumption
<1> QED
  BY <1>1, <1>2

\* Only a new task changes the type of the tasks: their serials are counted.
LEMMA RecordsStay ==
    ASSUME creates \in Nat, creates' \in {creates, creates + 1}
    PROVE  TaskRecord \subseteq TaskRecord'
BY DEF TaskRecord, Result

\* The task with the id gets another status, or a result with it.
LEMMA TaskUpdated ==
    ASSUME TypeInv, NEW i \in Task, tasks[i] # NoTask, UNCHANGED creates,
           NEW status \in Status, NEW result \in Result,
           tasks' = [tasks EXCEPT ![i] = [tasks[i] EXCEPT !.status = status,
                                                         !.result = result]]
    PROVE  /\ tasks' \in [Task -> TaskRecord \cup {NoTask}]
           /\ \A k \in Task : tasks'[k] # NoTask => tasks'[k].id = k
<1>1. tasks[i] \in TaskRecord /\ tasks[i].id = i
  BY DEF TypeInv
<1>2. [tasks[i] EXCEPT !.status = status, !.result = result] \in TaskRecord
  BY <1>1 DEF TaskRecord
<1>3. [tasks[i] EXCEPT !.status = status, !.result = result].id = i
  BY <1>1 DEF TaskRecord
<1> QED
  BY <1>2, <1>3 DEF TypeInv

\* The initial state is typed.
LEMMA InitTypes == Init => TypeInv
BY ConstantsAssumption DEF Init, TypeInv

\* Every step keeps the types.
LEMMA NextTypes == TypeInv /\ [Next]_vars => TypeInv'
<1> SUFFICES ASSUME TypeInv, [Next]_vars
             PROVE  TypeInv'
  OBVIOUS
<1>0. creates \in Nat /\ MaxCreates \in Nat /\ MaxSteps \in Nat
  BY ConstantsAssumption DEF TypeInv
<1>1. ASSUME NEW t \in Thread, NEW i \in Task, Create(t, i)  PROVE TypeInv'
  <2>1. PICK steps \in Steps :
            tasks' = [tasks EXCEPT ![i] =
                         [id |-> i, serial |-> creates + 1, steps |-> steps,
                          status |-> "created", result |-> NoResult]]
    BY <1>1 DEF Create
  <2>2. [id |-> i, serial |-> creates + 1, steps |-> steps,
         status |-> "created", result |-> NoResult] \in TaskRecord'
    BY <1>0, <1>1 DEF Create, TaskRecord, Result, NoResult, Status
  <2>3. TaskRecord \subseteq TaskRecord'
    BY <1>0, <1>1, RecordsStay DEF Create
  <2>4. /\ tasks' \in [Task -> (TaskRecord \cup {NoTask})']
        /\ snapshot' \in [Thread -> (TaskRecord \cup {NoTask})']
    BY <1>1, <2>1, <2>2, <2>3 DEF TypeInv, Create, run
  <2>5. \A k \in Task : tasks'[k] # NoTask => tasks'[k].id = k
    BY <2>1 DEF TypeInv
  <2> QED
    BY <1>0, <1>1, <2>4, <2>5 DEF TypeInv, Create, Mix, run
<1>2. ASSUME NEW t \in Thread, NEW i \in Task, Remove(t, i)  PROVE TypeInv'
  BY <1>2 DEF TypeInv, Remove, run, TaskRecord, Result
<1>3. ASSUME NEW t \in Thread, NEW i \in Task, RunBegin(t, i)  PROVE TypeInv'
  <2>1. tasks[i] \in TaskRecord /\ tasks[i] # NoTask
    BY <1>3 DEF TypeInv, RunBegin
  <2>2. 0 <= Len(tasks[i].steps) /\ tasks[i].result \in Result
    BY <2>1, StepsAreSequences DEF TaskRecord
  <2>3. tasks' = [tasks EXCEPT ![i] = [tasks[i] EXCEPT
                     !.status = "running", !.result = tasks[i].result]]
    BY <1>3, <2>1 DEF RunBegin, TypeInv, TaskRecord
  <2>4. /\ tasks' \in [Task -> TaskRecord \cup {NoTask}]
        /\ \A k \in Task : tasks'[k] # NoTask => tasks'[k].id = k
    BY <1>3, <2>1, <2>2, <2>3, TaskUpdated DEF RunBegin, Status
  <2>5. pc[t] = "idle" /\ t \notin delayed
    BY <1>3 DEF TypeInv, RunBegin, At
  <2> QED
    BY <1>0, <1>3, <2>1, <2>2, <2>4, <2>5
       DEF TypeInv, RunBegin, Goto, Mix, TaskRecord, Result
<1>4. ASSUME NEW t \in Thread, ExecuteStep(t)  PROVE TypeInv'
  <2>1. snapshot[t] \in TaskRecord /\ pc[t] = "steps"
    BY <1>4 DEF TypeInv, ExecuteStep, Pending, At
  <2>2. Len(snapshot[t].steps) \in 0..MaxSteps
    BY <2>1, StepsAreSequences DEF TaskRecord
  <2>3. /\ results[t] + 1 \in 0..MaxSteps
        /\ results[t] + 1 <= Len(snapshot[t].steps)
    BY <1>0, <1>4, <2>2 DEF TypeInv, ExecuteStep, Pending
  <2> QED
    BY <1>4, <2>1, <2>3 DEF TypeInv, ExecuteStep, TaskRecord, Result
<1>5. ASSUME NEW t \in Thread, ExecuteStepThrows(t)  PROVE TypeInv'
  BY <1>5 DEF TypeInv, ExecuteStepThrows, Pending, At, Goto, TaskRecord, Result
<1>6. ASSUME NEW t \in Thread, StopBegin(t)  PROVE TypeInv'
  <2>1. pc[t] = "steps" /\ results[t] # Len(snapshot[t].steps)
    BY <1>6 DEF StopBegin, Pending, At
  <2> QED
    BY <1>6, <2>1 DEF TypeInv, StopBegin, Goto, TaskRecord, Result
<1>7. ASSUME NEW t \in Thread, StopDone(t)  PROVE TypeInv'
  <2>1. snapshot[t] \in TaskRecord /\ pc[t] = "stopping" /\ t \notin delayed
    BY <1>7 DEF TypeInv, StopDone, At
  <2>2. Len(snapshot[t].steps) \in 0..MaxSteps
    BY <2>1, StepsAreSequences DEF TaskRecord
  <2>3. /\ results[t] + 1 \in 0..MaxSteps
        /\ results[t] + 1 <= Len(snapshot[t].steps)
    BY <1>0, <2>1, <2>2 DEF TypeInv
  <2> QED
    BY <1>7, <2>1, <2>3 DEF TypeInv, StopDone, Goto, TaskRecord, Result
<1>8. ASSUME NEW t \in Thread, StopMeets(t)  PROVE TypeInv'
  BY <1>8
     DEF TypeInv, StopMeets, StartOverlaps, StopAgain, StopThrows, At, Goto,
         TaskRecord, Result
<1>9. ASSUME NEW t \in Thread, RunError(t)  PROVE TypeInv'
  <2>1. snapshot[t] \in TaskRecord
    BY <1>9 DEF TypeInv, RunError, At
  <2>2. /\ tasks' \in [Task -> TaskRecord \cup {NoTask}]
        /\ \A k \in Task : tasks'[k] # NoTask => tasks'[k].id = k
    <3> DEFINE i == snapshot[t].id
    <3>1. CASE tasks[i] = NoTask
      BY <1>9, <3>1 DEF TypeInv, RunError
    <3>2. CASE tasks[i] # NoTask
      <4>1. i \in Task /\ tasks[i] \in TaskRecord /\ tasks[i].result \in Result
        BY <2>1, <3>2 DEF TypeInv, TaskRecord
      <4>2. tasks' = [tasks EXCEPT ![i] = [tasks[i] EXCEPT
                         !.status = "error", !.result = tasks[i].result]]
        BY <1>9, <3>2, <4>1 DEF RunError, TypeInv, TaskRecord
      <4> QED
        BY <1>9, <3>2, <4>1, <4>2, TaskUpdated DEF RunError, Status
    <3> QED
      BY <3>1, <3>2
  <2> QED
    BY <1>0, <1>9, <2>2
       DEF TypeInv, RunError, RunReturn, At, Goto, TaskRecord, Result
<1>10. ASSUME NEW t \in Thread, RunDone(t)  PROVE TypeInv'
  <2>1. snapshot[t] \in TaskRecord
    BY <1>10 DEF TypeInv, RunDone, At
  <2>2. /\ tasks' \in [Task -> TaskRecord \cup {NoTask}]
        /\ \A k \in Task : tasks'[k] # NoTask => tasks'[k].id = k
    <3> DEFINE i == snapshot[t].id
               result == [serial |-> snapshot[t].serial, results |-> results[t]]
    <3>1. CASE tasks[i] = NoTask
      BY <1>10, <3>1 DEF TypeInv, RunDone
    <3>2. CASE tasks[i] # NoTask
      <4>1. i \in Task /\ tasks[i] \in TaskRecord /\ result \in Result
        BY <1>0, <2>1, <3>2 DEF TypeInv, TaskRecord, Result
      <4>2. tasks' = [tasks EXCEPT ![i] = [tasks[i] EXCEPT
                         !.status = "done", !.result = result]]
        BY <1>10, <3>2, <4>1 DEF RunDone, TypeInv, TaskRecord
      <4> QED
        BY <1>10, <3>2, <4>1, <4>2, TaskUpdated DEF RunDone, Status
    <3> QED
      BY <3>1, <3>2
  <2>3. /\ RunReturn(t) /\ UNCHANGED <<instances, creates, delayed, mixed>>
        /\ pc[t] = "steps"
    BY <1>10 DEF RunDone, At
  <2> QED
    BY <1>0, <2>2, <2>3 DEF TypeInv, RunReturn, Goto, TaskRecord, Result
<1>11. ASSUME NEW i \in InstanceId, InstanceComesOrGoes(i)  PROVE TypeInv'
  BY <1>11 DEF TypeInv, InstanceComesOrGoes, run, TaskRecord, Result
<1>12. CASE UNCHANGED vars
  BY <1>12 DEF TypeInv, vars, run, TaskRecord, Result
<1> QED
  BY <1>1, <1>2, <1>3, <1>4, <1>5, <1>6, <1>7, <1>8, <1>9, <1>10, <1>11, <1>12
     DEF Next, RunStep

\* Every variable keeps its type: no run writes an outcome that is not one of
\* a task that was created.
THEOREM TypeCorrect == Spec => []TypeOK
<1>1. TypeInv => TypeOK
  BY DEF TypeInv, TypeOK, TaskRecord, Result, Status
<1> QED
  BY InitTypes, NextTypes, <1>1, PTL DEF Spec

-----------------------------------------------------------------------------
(* The outcome of a run.  A run knows its task by the id alone: what it      *)
(* writes is the task's own because nobody else executes the id and the task *)
(* with the id is still the one that was copied, or there is none.           *)

SingleRun ==
    \A i \in Task \ mixed : \A t, u \in Runs(i) : t = u

RunsItsTask ==
    \A i \in Task \ mixed : tasks[i] # NoTask =>
        \A t \in Runs(i) : /\ snapshot[t].serial = tasks[i].serial
                           /\ snapshot[t].steps = tasks[i].steps

OutcomeInv ==
    /\ TypeInv
    /\ SingleRun
    /\ RunsItsTask
    /\ OutcomeIsOwn

\* No task exists at first.
LEMMA InitOutcome == Init => OutcomeInv
BY InitTypes DEF Init, OutcomeInv, SingleRun, RunsItsTask, OutcomeIsOwn, Runs

\* A new task has no outcome; a run that is under way is then mixed.
LEMMA CreateOutcome ==
    ASSUME OutcomeInv, TypeInv', NEW t \in Thread, NEW i \in Task, Create(t, i)
    PROVE  OutcomeInv'
<1>1. /\ \A k \in Task : k # i => tasks'[k] = tasks[k]
      /\ tasks'[i].status = "created"
  BY DEF Create, OutcomeInv, TypeInv
<1>2. \A k \in Task : Runs(k)' = Runs(k)
  BY DEF Create, run, Runs
<1>3. \A k \in Task : k # i /\ k \notin mixed' => k \notin mixed
  BY DEF Create, Mix
<1>4. i \notin mixed' => Runs(i) = {}
  BY DEF Create, Mix
<1>5. tasks \in [Task -> TaskRecord \cup {NoTask}] /\ UNCHANGED run
  BY DEF OutcomeInv, TypeInv, Create
<1>6. SingleRun'
  BY <1>2, <1>3, <1>4 DEF OutcomeInv, SingleRun
<1>7. RunsItsTask'
  BY <1>1, <1>2, <1>3, <1>4, <1>5 DEF OutcomeInv, RunsItsTask, run
<1>8. OutcomeIsOwn'
  BY <1>1, <1>2, <1>3, <1>4, <1>5 DEF OutcomeInv, OutcomeIsOwn
<1> QED
  BY <1>6, <1>7, <1>8 DEF OutcomeInv

\* A run begins alone, or its id is mixed.
LEMMA RunBeginOutcome ==
    ASSUME OutcomeInv, TypeInv', NEW t \in Thread, NEW i \in Task,
           RunBegin(t, i)
    PROVE  OutcomeInv'
<1>1. /\ tasks[i] \in TaskRecord /\ tasks[i] # NoTask /\ tasks[i].id = i
      /\ pc[t] = "idle"
  BY DEF OutcomeInv, TypeInv, RunBegin, At
<1>2. /\ tasks' = [tasks EXCEPT ![i] = [tasks[i] EXCEPT !.status = "running"]]
      /\ snapshot' = [snapshot EXCEPT ![t] = tasks[i]]
      /\ pc' = [pc EXCEPT ![t] = "steps"]
  BY DEF RunBegin, Goto
<1>3. /\ tasks \in [Task -> TaskRecord \cup {NoTask}]
      /\ snapshot \in [Thread -> TaskRecord \cup {NoTask}]
      /\ pc \in [Thread -> {"idle", "steps", "stopping", "failing"}]
  BY DEF OutcomeInv, TypeInv
<1>4. Runs(i)' = Runs(i) \cup {t} /\ \A k \in Task \ {i} : Runs(k)' = Runs(k)
  BY <1>1, <1>2, <1>3 DEF Runs
<1>5. \A k \in Task : k # i /\ k \notin mixed' => k \notin mixed
  BY DEF RunBegin, Mix
<1>6. i \notin mixed' => Runs(i) = {}
  BY DEF RunBegin, Mix
<1>7. /\ tasks'[i].status = "running"
      /\ tasks'[i].serial = tasks[i].serial
      /\ tasks'[i].steps = tasks[i].steps
  BY <1>1, <1>2, <1>3 DEF TaskRecord
<1>8. SingleRun'
  BY <1>4, <1>5, <1>6 DEF OutcomeInv, SingleRun
<1>9. RunsItsTask'
  <2> SUFFICES ASSUME NEW k \in Task \ mixed', tasks'[k] # NoTask,
                      NEW u \in Runs(k)'
               PROVE  /\ snapshot'[u].serial = tasks'[k].serial
                      /\ snapshot'[u].steps = tasks'[k].steps
    BY DEF RunsItsTask
  <2>1. CASE k = i
    BY <1>2, <1>3, <1>4, <1>6, <1>7, <2>1
  <2>2. CASE k # i
    <3>1. u \in Runs(k) /\ u # t /\ u \in Thread
      BY <1>1, <1>4, <2>2 DEF Runs
    <3> QED
      BY <1>2, <1>3, <1>5, <2>2, <3>1 DEF OutcomeInv, RunsItsTask
  <2> QED
    BY <2>1, <2>2
<1>10. OutcomeIsOwn'
  BY <1>2, <1>3, <1>4, <1>5, <1>7 DEF OutcomeInv, OutcomeIsOwn
<1> QED
  BY <1>8, <1>9, <1>10 DEF OutcomeInv

\* A step of a run that goes on.
LEMMA ExecuteOutcome ==
    ASSUME OutcomeInv, TypeInv', NEW t \in Thread,
           \/ ExecuteStep(t) \/ ExecuteStepThrows(t)
           \/ StopBegin(t) \/ StopDone(t) \/ StopMeets(t)
    PROVE  OutcomeInv'
<1>1. /\ pc \in [Thread -> {"idle", "steps", "stopping", "failing"}]
      /\ pc[t] # "idle"
      /\ \/ pc' = pc
         \/ \E label \in {"steps", "stopping", "failing"} :
                pc' = [pc EXCEPT ![t] = label]
      /\ UNCHANGED <<tasks, snapshot, mixed>>
  BY DEF OutcomeInv, TypeInv, ExecuteStep, ExecuteStepThrows, StopBegin,
         StopDone, StopMeets, StartOverlaps, StopAgain, StopThrows, Pending,
         At, Goto
<1>2. \A k \in Task : Runs(k)' = Runs(k)
  BY <1>1 DEF Runs
<1> QED
  BY <1>1, <1>2 DEF OutcomeInv, SingleRun, RunsItsTask, OutcomeIsOwn

\* A run that returns leaves the id to nobody else, unless the id is mixed.
LEMMA ReturnRuns ==
    ASSUME OutcomeInv, NEW t \in Thread, pc[t] # "idle", RunReturn(t)
    PROVE  /\ snapshot[t] \in TaskRecord
           /\ \A k \in Task : Runs(k)' = Runs(k) \ {t}
           /\ \A k \in Task : t \in Runs(k) <=> k = snapshot[t].id
           /\ \A k \in Task \ mixed : t \in Runs(k) => Runs(k)' = {}
<1>1. /\ snapshot \in [Thread -> TaskRecord \cup {NoTask}]
      /\ pc \in [Thread -> {"idle", "steps", "stopping", "failing"}]
      /\ snapshot[t] # NoTask
  BY DEF OutcomeInv, TypeInv
<1>2. snapshot[t] \in TaskRecord /\ snapshot[t].id \in Task
  BY <1>1 DEF TaskRecord
<1>3. \A k \in Task : Runs(k)' = Runs(k) \ {t}
  BY <1>1 DEF RunReturn, Goto, Runs
<1>4. \A k \in Task : t \in Runs(k) <=> k = snapshot[t].id
  BY DEF Runs
<1>5. \A k \in Task \ mixed : t \in Runs(k) => Runs(k)' = {}
  BY <1>3 DEF OutcomeInv, SingleRun
<1> QED
  BY <1>2, <1>3, <1>4, <1>5

\* A run writes its outcome to its own task, or its id is mixed.
LEMMA EndOutcome ==
    ASSUME OutcomeInv, TypeInv', NEW t \in Thread, RunError(t) \/ RunDone(t)
    PROVE  OutcomeInv'
<1>1. /\ pc[t] # "idle" /\ RunReturn(t) /\ UNCHANGED mixed
  BY DEF RunError, RunDone, At
<1>0. snapshot[t].id \in Task
  BY <1>1, ReturnRuns DEF TaskRecord
<1> PICK i \in Task : i = snapshot[t].id
  BY <1>0
<1>2. /\ snapshot[t] \in TaskRecord
      /\ \A k \in Task : Runs(k)' = Runs(k) \ {t}
      /\ \A k \in Task : t \in Runs(k) <=> k = i
      /\ i \notin mixed => Runs(i)' = {}
  BY <1>1, ReturnRuns
<1>3. tasks \in [Task -> TaskRecord \cup {NoTask}]
  BY DEF OutcomeInv, TypeInv
<1>4. \A k \in Task \ {i} : tasks'[k] = tasks[k]
  BY <1>3 DEF RunError, RunDone
<1>5. SingleRun'
  BY <1>1, <1>2 DEF OutcomeInv, SingleRun
<1>6. RunsItsTask'
  <2> SUFFICES ASSUME NEW k \in Task \ mixed, tasks'[k] # NoTask,
                      NEW u \in Runs(k)'
               PROVE  /\ snapshot'[u].serial = tasks'[k].serial
                      /\ snapshot'[u].steps = tasks'[k].steps
    BY <1>1 DEF RunsItsTask
  <2>1. k # i /\ u \in Runs(k) /\ u # t /\ u \in Thread
    BY <1>2 DEF Runs
  <2>2. tasks'[k] = tasks[k] /\ snapshot'[u] = snapshot[u]
    BY <1>1, <1>4, <2>1 DEF RunReturn, OutcomeInv, TypeInv
  <2> QED
    BY <2>1, <2>2 DEF OutcomeInv, RunsItsTask
<1>7. OutcomeIsOwn'
  <2> SUFFICES ASSUME NEW k \in Task \ mixed, tasks'[k] # NoTask
               PROVE  /\ tasks'[k].status = "running" <=> Runs(k)' # {}
                      /\ tasks'[k].status = "done" =>
                             tasks'[k].result =
                                 [serial |-> tasks'[k].serial,
                                  results |-> Len(tasks'[k].steps)]
    BY <1>1 DEF OutcomeIsOwn
  <2>1. CASE k # i
    BY <1>2, <1>4, <2>1 DEF OutcomeInv, OutcomeIsOwn
  <2>2. CASE k = i /\ tasks[i] = NoTask
    BY <1>3, <2>2 DEF RunError, RunDone
  <2>3. CASE k = i /\ tasks[i] # NoTask /\ RunError(t)
    <3>1. tasks'[i].status = "error"
      BY <1>3, <2>3 DEF RunError, TaskRecord
    <3>2. Runs(i)' = {}
      BY <1>2, <2>3
    <3> QED
      BY <2>3, <3>1, <3>2
  <2>4. CASE k = i /\ tasks[i] # NoTask /\ RunDone(t)
    <3>1. tasks[i] \in TaskRecord /\ t \in Runs(i)
      BY <1>2, <1>3, <2>4
    <3>2. /\ snapshot[t].serial = tasks[i].serial
          /\ snapshot[t].steps = tasks[i].steps
      BY <1>3, <2>4, <3>1 DEF OutcomeInv, RunsItsTask
    <3>3. results[t] = Len(snapshot[t].steps)
      <4>1. /\ results[t] \in Nat /\ Len(snapshot[t].steps) \in Nat
            /\ results[t] <= Len(snapshot[t].steps)
        BY <1>1, <1>2, ConstantsAssumption, StepsAreSequences
           DEF OutcomeInv, TypeInv, TaskRecord
      <4>2. ~(results[t] < Len(snapshot[t].steps))
        BY <2>4 DEF RunDone, Pending
      <4> QED
        BY <4>1, <4>2
    <3>4. /\ tasks'[i].status = "done"
          /\ tasks'[i].serial = tasks[i].serial
          /\ tasks'[i].steps = tasks[i].steps
          /\ tasks'[i].result = [serial |-> snapshot[t].serial,
                                 results |-> results[t]]
      <4>1. tasks' = [tasks EXCEPT ![i].status = "done",
                                   ![i].result =
                                       [serial |-> snapshot[t].serial,
                                        results |-> results[t]]]
        BY <2>4 DEF RunDone
      <4> QED
        BY <1>3, <3>1, <4>1 DEF TaskRecord
    <3>5. Runs(i)' = {}
      BY <1>2, <2>4
    <3> QED
      BY <2>4, <3>2, <3>3, <3>4, <3>5
  <2> QED
    BY <2>1, <2>2, <2>3, <2>4
<1> QED
  BY <1>5, <1>6, <1>7 DEF OutcomeInv

\* Every step keeps the invariant.
LEMMA NextOutcome == OutcomeInv /\ [Next]_vars => OutcomeInv'
<1> SUFFICES ASSUME OutcomeInv, [Next]_vars
             PROVE  OutcomeInv'
  OBVIOUS
<1>1. TypeInv'
  BY NextTypes DEF OutcomeInv
<1>2. ASSUME NEW t \in Thread, NEW i \in Task, Remove(t, i)
      PROVE  OutcomeInv'
  <2>1. tasks' = [tasks EXCEPT ![i] = NoTask] /\ UNCHANGED <<run, mixed>>
    BY <1>2 DEF Remove
  <2>2. \A k \in Task : Runs(k)' = Runs(k)
    BY <2>1 DEF run, Runs
  <2>3. \A k \in Task : tasks'[k] # NoTask => tasks'[k] = tasks[k]
    BY <2>1 DEF OutcomeInv, TypeInv
  <2> QED
    BY <1>1, <2>1, <2>2, <2>3
       DEF OutcomeInv, SingleRun, RunsItsTask, OutcomeIsOwn, run
<1>3. ASSUME UNCHANGED <<tasks, run, mixed>>  PROVE OutcomeInv'
  BY <1>1, <1>3
     DEF OutcomeInv, SingleRun, RunsItsTask, OutcomeIsOwn, Runs, run
<1>4. ASSUME NEW i \in InstanceId, InstanceComesOrGoes(i)  PROVE OutcomeInv'
  BY <1>3, <1>4 DEF InstanceComesOrGoes
<1>5. CASE UNCHANGED vars
  BY <1>3, <1>5 DEF vars
<1> QED
  BY <1>1, <1>2, <1>4, <1>5, CreateOutcome, RunBeginOutcome, ExecuteOutcome,
     EndOutcome DEF Next, RunStep

\* A task reports running exactly while it is run, and done only with the
\* result of all its own steps, however many handlers create, remove and run
\* tasks, unless its run overlapped another of its id or its own creation.
THEOREM OutcomeOwn == Spec => []OutcomeIsOwn
<1>1. OutcomeInv => OutcomeIsOwn
  BY DEF OutcomeInv
<1> QED
  BY InitOutcome, NextOutcome, <1>1, PTL DEF Spec
=============================================================================
