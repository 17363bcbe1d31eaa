---------------------------- MODULE ScenesProofs ----------------------------
(***************************************************************************)
(* Theorems about the handlers that combine scenes, models and instances,  *)
(* for every set of threads, scenes, instances, versions and values of     *)
(* initial_state: what scene.apply leaves behind, and what model.remove    *)
(* may take away.  The second half is about the compiled-model cache that  *)
(* those handlers go through, for every set of models and any capacity.    *)
(***************************************************************************)
EXTENDS Scenes, ModelCache, FiniteSetTheorems, TLAPS

-----------------------------------------------------------------------------
(* Resolution *)

\* Finitely many versions, at least one, have a greatest: a set without one
\* would have a smallest subset without one.
LEMMA MaxExists ==
    ASSUME NEW S \in SUBSET Int, IsFiniteSet(S), S # {}
    PROVE  /\ Max(S) \in S
           /\ \A v \in S : v <= Max(S)
<1> DEFINE Bad == {U \in FiniteSubsetsOf(S) :
                       U # {} /\ ~ \E m \in U : \A v \in U : v <= m}
           Smaller == StrictSubsetOrdering(S)
<1>1. ASSUME Bad # {} PROVE FALSE
  <2> HIDE DEF Smaller
  <2>1. PICK U \in Bad : \A V \in Bad : ~(<<V, U>> \in Smaller)
    <3>1. IsWellFoundedOn(Smaller, FiniteSubsetsOf(S))
      BY FS_StrictSubsetOrderingWellFounded DEF Smaller
    <3>2. Bad \subseteq FiniteSubsetsOf(S)
      OBVIOUS
    <3> HIDE DEF Bad
    <3> QED
      BY <1>1, <3>1, <3>2, WFMin
  <2>2. PICK x \in U : TRUE
    OBVIOUS
  <2>3. U \subseteq S /\ IsFiniteSet(U)
    BY DEF FiniteSubsetsOf
  <2>4. U \ {x} \in FiniteSubsetsOf(S) /\ <<U \ {x}, U>> \in Smaller
    BY <2>2, <2>3, FS_RemoveElement
       DEF FiniteSubsetsOf, Smaller, StrictSubsetOrdering
  <2>5. U \ {x} \notin Bad
    BY <2>1, <2>4
  <2>6. PICK m \in U : \A v \in U : v <= m
    <3>1. CASE U = {x}
      BY <2>3, <3>1
    <3>2. CASE U \ {x} # {}
      <4>1. PICK n \in U \ {x} : \A v \in U \ {x} : v <= n
        BY <2>4, <2>5, <3>2
      <4>2. CASE x <= n
        BY <2>2, <2>3, <4>1, <4>2
      <4>3. CASE n <= x
        BY <2>2, <2>3, <4>1, <4>3
      <4> QED
        BY <2>2, <2>3, <4>1, <4>2, <4>3
    <3> QED
      BY <2>2, <3>1, <3>2
  <2> QED
    BY <2>6
<1>2. \E m \in S : \A v \in S : v <= m
  BY <1>1 DEF FiniteSubsetsOf
<1> QED
  BY <1>2 DEF Max

\* The latest version is a version, if there is one.
LEMMA Latest ==
    ASSUME NEW versions \in SUBSET Version
    PROVE  LatestIn(versions) \in versions \cup {None}
<1>1. versions \in SUBSET Int /\ IsFiniteSet(versions)
  BY ConstantsAssumption, FS_Subset
<1> QED
  BY <1>1, MaxExists DEF LatestIn

\* What a reference resolves to is registered.
LEMMA Resolved ==
    ASSUME NEW versions \in SUBSET Version, NEW c \in Content
    PROVE  ResolveIn(versions, c) \in versions \cup {None}
BY Latest DEF ResolveIn

-----------------------------------------------------------------------------
(* Types *)

\* The initial state is typed.
LEMMA InitTypes == Init => TypeOK
BY ConstantsAssumption DEF Init, TypeOK, NoJob, Job, Scened, Versioned

\* Every step keeps the types.
LEMMA NextTypes == TypeOK /\ [Next]_vars => TypeOK'
<1> SUFFICES ASSUME TypeOK, [Next]_vars
             PROVE  TypeOK'
  OBVIOUS
<1> USE DEF TypeOK, Goto, Scened, Versioned
<1>0. NoJob \in Job
  BY DEF NoJob, Job
<1>1. ASSUME NEW t \in Thread, Return(t) PROVE job' \in [Thread -> Job]
  BY <1>0, <1>1 DEF Return
<1>2. ASSUME NEW s \in Scene, NEW c \in Content \cup {None}, EditScene(s, c)
      PROVE  TypeOK'
  BY <1>2 DEF EditScene, SetScene, Of, Removing
<1>3. ASSUME NEW v \in Version, Register(v) PROVE TypeOK'
  BY <1>3 DEF Register, Shifted, Removing
<1>4. ASSUME NEW i \in Instance, Destroy(i) PROVE TypeOK'
  BY <1>4 DEF Destroy
<1>5. ASSUME NEW t \in Thread, NEW s \in Scene, NEW i \in Instance,
             NEW patch \in Content, ApplyRead(t, s, i, patch)
      PROVE  TypeOK'
  <2>1. job'[t] \in Job /\ job'[t].scene = s /\ job'[t].instance = i
        /\ job'[t].new = patch /\ job'[t].old = scenes[s]
        /\ scenes[s] \in Content
    BY <1>5 DEF ApplyRead, NoJob, Job
  <2> QED
    BY <1>5, <2>1 DEF ApplyRead, history
<1>6. ASSUME NEW t \in Thread, NEW s \in Scene, NEW i \in Instance,
             NEW recreate \in BOOLEAN, ReadScene(t, s, i, recreate)
      PROVE  TypeOK'
  <2>1. job'[t] \in Job /\ job'[t].scene = s /\ job'[t].instance = i
        /\ job'[t].new = scenes[s] /\ scenes[s] \in Content
    BY <1>6 DEF ReadScene, NoJob, Job
  <2> QED
    BY <1>6, <2>1 DEF ReadScene, history
<1>7. ASSUME NEW t \in Thread, NEW v \in Version, ReadLatest(t, v)
      PROVE  TypeOK'
  <2>1. LatestIn(registered) \in Version \cup {None}
    BY Latest
  <2>2. job'[t] \in Job /\ job'[t].version = v
    BY <1>7, <2>1 DEF ReadLatest, NoJob, Job
  <2> QED
    BY <1>7, <2>2 DEF ReadLatest, history
<1>8. ASSUME NEW t \in Thread, ApplyUpdate(t) PROVE TypeOK'
  <2>1. job'[t] \in Job /\ job'[t].scene = job[t].scene
        /\ job'[t].instance = job[t].instance /\ job'[t].new = job[t].new
    BY <1>8 DEF ApplyUpdate, Job
  <2>2. scenes' \in [Scene -> Content \cup {None}]
    BY <1>8 DEF ApplyUpdate, SetScene
  <2>3. drift' \subseteq Instance /\ owed' \subseteq Instance
        /\ overtaken' \subseteq Thread
    BY <1>8 DEF ApplyUpdate, SetScene, Of, Removing
  <2>4. job' \in [Thread -> Job]
        /\ \A u \in Thread \ {t} : job'[u] = job[u] /\ pc'[u] = pc[u]
        /\ pc'[t] \in {"compile", "runtime"}
        /\ pc' \in [Thread -> Scened \cup Versioned \cup {"idle"}]
    BY <1>8, <2>1 DEF ApplyUpdate
  <2> QED
    BY <1>8, <2>1, <2>2, <2>3, <2>4 DEF ApplyUpdate
<1>9. ASSUME NEW t \in Thread,
             ApplyUpdateFails(t) \/ CompileFails(t) \/ BuildFails(t)
      PROVE  TypeOK'
  BY <1>1, <1>9 DEF ApplyUpdateFails, CompileFails, BuildFails, Return, history
<1>10. ASSUME NEW t \in Thread, ApplyRuntime(t) PROVE TypeOK'
  <2>1. job[t].new.runtime \in Runtime
    BY <1>10 DEF ApplyRuntime, Content
  <2>2. instances' \in [Instance -> Built \cup {None}]
    BY <1>10, <2>1 DEF ApplyRuntime, Built
  <2> QED
    BY <1>1, <1>10, <2>2 DEF ApplyRuntime, Return
<1>11. ASSUME NEW t \in Thread, ApplyRuntimeFails(t) PROVE TypeOK'
  BY <1>1, <1>11 DEF ApplyRuntimeFails, Return
<1>12. ASSUME NEW t \in Thread, Compile(t) PROVE TypeOK'
  <2>1. Resolve(job[t].new) \in Version
    BY <1>12, Resolved DEF Compile, Resolve
  <2>2. job'[t] \in Job /\ job'[t].scene = job[t].scene
        /\ job'[t].instance = job[t].instance /\ job'[t].new = job[t].new
        /\ job'[t].version \in Version
    BY <1>12, <2>1 DEF Compile, Job
  <2> QED
    BY <1>12, <2>2 DEF Compile, history
<1>13. ASSUME NEW t \in Thread, Discard(t) PROVE TypeOK'
  BY <1>13 DEF Discard
<1>14. ASSUME NEW t \in Thread, Build(t) PROVE TypeOK'
  <2>1. instances' \in [Instance -> Built \cup {None}]
    BY <1>14 DEF Build, Built, Content
  <2> QED
    BY <1>1, <1>14, <2>1 DEF Build, Return
<1>15. ASSUME NEW t \in Thread, CheckReferences(t) PROVE TypeOK'
  BY <1>1, <1>15 DEF CheckReferences, Return
<1>16. ASSUME NEW t \in Thread, RemoveModel(t) PROVE TypeOK'
  BY <1>1, <1>16 DEF RemoveModel, Return, Shifted, Removing
<1>17. CASE UNCHANGED vars
  BY <1>17 DEF vars, history
<1> QED
  BY <1>2, <1>3, <1>4, <1>5, <1>6, <1>7, <1>8, <1>9, <1>10, <1>11, <1>12,
     <1>13, <1>14, <1>15, <1>16, <1>17 DEF Next, Call, Continue

\* A handler has the scene, the instance and the version it is about to use:
\* no step of another takes them from it.
THEOREM TypeCorrect == Spec => []TypeOK
BY InitTypes, NextTypes, PTL DEF Spec

-----------------------------------------------------------------------------
(* An instance and its scene *)

\* A scene.apply that has still to give instance i what its scene says.
Pending(i) ==
    \E t \in Thread : /\ pc[t] = "runtime"
                      /\ job[t].instance = i
                      /\ job[t].scene = instances[i].scene
                      /\ job[t].new = scenes[instances[i].scene]

\* Idle or not: what an instance was built from is what its scene resolves to,
\* and its state is that of the scene or a scene.apply is about to write it.
Follows(i) ==
    LET built == instances[i] IN
    /\ scenes[built.scene] # None
    /\ built.version = Resolve(scenes[built.scene])
    /\ \/ built.runtime = scenes[built.scene].runtime
       \/ Pending(i)

FollowsScene ==
    \A i \in Instance : instances[i] # None /\ i \notin drift => Follows(i)

\* No instance exists at first.
LEMMA InitFollows == Init => FollowsScene
BY DEF Init, FollowsScene

\* A change of a scene reaches the instances that are told of it.
LEMMA EditFollows ==
    ASSUME TypeOK, FollowsScene,
           NEW s \in Scene, NEW c \in Content \cup {None}, EditScene(s, c)
    PROVE  FollowsScene'
BY DEF EditScene, SetScene, Of, FollowsScene, Follows, Pending, TypeOK,
       Built, Resolve

\* A change of the registry shifts the references of some instances.
LEMMA RegistryFollows ==
    ASSUME TypeOK, FollowsScene, NEW versions \in SUBSET Version,
           registered' = versions, drift' = drift \cup Shifted(versions),
           UNCHANGED <<scenes, instances>>,
           \A t \in Thread : pc[t] = "runtime" =>
               pc'[t] = "runtime" /\ job'[t] = job[t]
    PROVE  FollowsScene'
<1> SUFFICES ASSUME NEW i \in Instance, instances[i] # None, i \notin drift'
             PROVE  Follows(i)'
  BY DEF FollowsScene
<1>1. i \notin drift /\ i \notin Shifted(versions)
  OBVIOUS
<1>2. /\ scenes[instances[i].scene] # None
      /\ instances[i].version = Resolve(scenes[instances[i].scene])
      /\ \/ instances[i].runtime = scenes[instances[i].scene].runtime
         \/ Pending(i)
  BY <1>1 DEF FollowsScene, Follows
<1>3. Resolve(scenes[instances[i].scene])'
          = Resolve(scenes[instances[i].scene])
  BY <1>1, <1>2 DEF Shifted, Resolve
<1>4. Pending(i) => Pending(i)'
  BY DEF Pending
<1> QED
  BY <1>2, <1>3, <1>4 DEF Follows

\* scene.apply writes the scene; unless it has to recreate, it goes on to the
\* instance, whose version the change leaves alone.
LEMMA UpdateFollows ==
    ASSUME TypeOK, FollowsScene, NEW t \in Thread, ApplyUpdate(t)
    PROVE  FollowsScene'
<1> DEFINE s == job[t].scene
           new == job[t].new
<1>0. s \in Scene /\ new \in Content /\ job[t].old \in Content
      /\ job[t].instance \in Instance /\ new # None
  BY ConstantsAssumption DEF ApplyUpdate, TypeOK, Scened
<1> SUFFICES ASSUME NEW i \in Instance, instances'[i] # None, i \notin drift'
             PROVE  Follows(i)'
  BY DEF FollowsScene
<1>1. /\ instances' = instances /\ registered' = registered
      /\ scenes' = [scenes EXCEPT ![s] = new]
      /\ i \notin drift
      /\ instances[i] \in Built
  BY DEF ApplyUpdate, SetScene, TypeOK
<1>2. /\ scenes[instances[i].scene] # None
      /\ instances[i].version = Resolve(scenes[instances[i].scene])
      /\ \/ instances[i].runtime = scenes[instances[i].scene].runtime
         \/ Pending(i)
  BY <1>1 DEF FollowsScene, Follows
<1>3. CASE instances[i].scene # s
  <2>1. scenes'[instances[i].scene] = scenes[instances[i].scene]
    BY <1>0, <1>1, <1>3 DEF TypeOK, Built
  <2>2. Pending(i) => Pending(i)'
    BY <1>1, <2>1 DEF Pending, ApplyUpdate, TypeOK, Goto
  <2> QED
    BY <1>1, <1>2, <2>1, <2>2 DEF Follows, Resolve
<1>4. CASE instances[i].scene = s
  <2>1. i \in Of(s)
    BY <1>1, <1>4 DEF Of
  <2>2. /\ ~RequiresRecreate(job[t].old, new)
        /\ scenes[s] = job[t].old
        /\ i = job[t].instance
    BY <2>1 DEF ApplyUpdate, SetScene
  <2>3. scenes'[s] = new
    BY <1>0, <1>1 DEF TypeOK
  <2>4. ResolveIn(registered, new) = ResolveIn(registered, scenes[s])
    BY <2>2 DEF RequiresRecreate, ResolveIn
  <2>5. pc'[t] = "runtime" /\ job'[t].instance = i /\ job'[t].scene = s
        /\ job'[t].new = new
    BY <2>2 DEF ApplyUpdate, Goto, TypeOK, Job
  <2>6. Pending(i)'
    BY <1>1, <1>4, <2>3, <2>5 DEF Pending
  <2> QED
    BY <1>0, <1>1, <1>2, <1>4, <2>3, <2>4, <2>6 DEF Follows, Resolve
<1> QED
  BY <1>3, <1>4

\* The instance gets the state of its scene, or it is on record that another
\* change came first.
LEMMA RuntimeFollows ==
    ASSUME TypeOK, FollowsScene, NEW t \in Thread, ApplyRuntime(t)
    PROVE  FollowsScene'
<1> DEFINE i == job[t].instance
<1>0. i \in Instance /\ instances[i] \in Built /\ job[t].new \in Content
  BY DEF ApplyRuntime, TypeOK, Scened
<1>1. /\ instances' = [instances EXCEPT ![i].runtime = job[t].new.runtime]
      /\ UNCHANGED <<scenes, registered>>
  BY DEF ApplyRuntime
<1>2. /\ instances'[i].scene = instances[i].scene
      /\ instances'[i].version = instances[i].version
      /\ instances'[i].runtime = job[t].new.runtime
      /\ \A j \in Instance \ {i} : instances'[j] = instances[j]
  BY <1>0, <1>1 DEF Built, TypeOK
<1>3. ASSUME NEW j \in Instance \ {i}, Pending(j) PROVE Pending(j)'
  BY <1>1, <1>2, <1>3 DEF Pending, ApplyRuntime, Return, Goto, TypeOK
<1>4. ASSUME i \notin drift'
      PROVE  /\ i \notin drift
             /\ scenes[instances[i].scene] = job[t].new
  BY <1>4 DEF ApplyRuntime
<1>5. drift \subseteq drift' /\ instances[i] # None
  BY DEF ApplyRuntime
<1> SUFFICES ASSUME NEW j \in Instance, instances'[j] # None, j \notin drift'
             PROVE  Follows(j)'
  BY DEF FollowsScene
<1>6. CASE j = i
  BY <1>1, <1>2, <1>4, <1>5, <1>6 DEF FollowsScene, Follows, Resolve
<1>7. CASE j # i
  BY <1>1, <1>2, <1>3, <1>5, <1>7 DEF FollowsScene, Follows, Resolve
<1> QED
  BY <1>6, <1>7

\* A scene.apply that cannot write the state leaves the instance on record.
LEMMA RuntimeFailsFollows ==
    ASSUME TypeOK, FollowsScene, NEW t \in Thread, ApplyRuntimeFails(t)
    PROVE  FollowsScene'
<1>1. ASSUME NEW j \in Instance, j # job[t].instance, Pending(j)
      PROVE  Pending(j)'
  BY <1>1 DEF Pending, ApplyRuntimeFails, Return, Goto, TypeOK
<1> QED
  BY <1>1 DEF ApplyRuntimeFails, FollowsScene, Follows, Resolve

\* A new instance agrees with its scene, or scene or registry has changed
\* since the handler read them, which is on record.
LEMMA BuildFollows ==
    ASSUME TypeOK, FollowsScene, NEW t \in Thread, Build(t)
    PROVE  FollowsScene'
<1> DEFINE i == job[t].instance
<1>0. i \in Instance /\ job[t].new \in Content /\ job[t].new # None
  BY ConstantsAssumption DEF Build, TypeOK, Scened
<1>1. /\ instances'[i] = [scene |-> job[t].scene, version |-> job[t].version,
                          runtime |-> job[t].new.runtime]
      /\ \A j \in Instance \ {i} : instances'[j] = instances[j]
      /\ UNCHANGED <<scenes, registered>>
  BY <1>0 DEF Build, TypeOK
<1>2. ASSUME NEW j \in Instance \ {i}, Pending(j) PROVE Pending(j)'
  BY <1>1, <1>2 DEF Pending, Build, Return, Goto, TypeOK
<1>3. /\ \A j \in Instance \ {i} : j \in drift <=> j \in drift'
      /\ i \notin drift' =>
             /\ scenes[job[t].scene] = job[t].new
             /\ Resolve(job[t].new) = job[t].version
  BY DEF Build
<1> SUFFICES ASSUME NEW j \in Instance, instances'[j] # None, j \notin drift'
             PROVE  Follows(j)'
  BY DEF FollowsScene
<1>4. CASE j = i
  BY <1>0, <1>1, <1>3, <1>4 DEF Follows, Resolve
<1>5. CASE j # i
  BY <1>1, <1>2, <1>3, <1>5 DEF FollowsScene, Follows, Resolve
<1> QED
  BY <1>4, <1>5

\* Steps that write neither scene nor registry, and of the instances at most
\* let one go.
LEMMA OtherFollows ==
    ASSUME TypeOK, FollowsScene,
           UNCHANGED <<scenes, registered, drift>>,
           \A i \in Instance : instances'[i] \in {instances[i], None},
           \A t \in Thread : pc[t] = "runtime" =>
               pc'[t] = "runtime" /\ job'[t] = job[t]
    PROVE  FollowsScene'
<1>1. ASSUME NEW i \in Instance, Pending(i), instances'[i] = instances[i]
      PROVE  Pending(i)'
  BY <1>1 DEF Pending
<1> QED
  BY <1>1 DEF FollowsScene, Follows, Resolve

\* Every step keeps it.
LEMMA NextFollows == TypeOK /\ FollowsScene /\ [Next]_vars => FollowsScene'
<1> SUFFICES ASSUME TypeOK, FollowsScene, [Next]_vars
             PROVE  FollowsScene'
  OBVIOUS
<1>1. ASSUME NEW v \in Version, Register(v) PROVE FollowsScene'
  <2>1. registered \cup {v} \in SUBSET Version
    BY DEF TypeOK
  <2> QED
    BY <1>1, <2>1, RegistryFollows DEF Register
<1>2. ASSUME NEW t \in Thread, RemoveModel(t) PROVE FollowsScene'
  <2>1. registered \ {job[t].version} \in SUBSET Version
    BY DEF TypeOK
  <2>2. \A u \in Thread : pc[u] = "runtime" =>
            pc'[u] = "runtime" /\ job'[u] = job[u]
    BY <1>2 DEF RemoveModel, Return, Goto, TypeOK
  <2>3. CASE job[t].version \in registered
    BY <1>2, <2>1, <2>2, <2>3, RegistryFollows DEF RemoveModel
  <2>4. CASE job[t].version \notin registered
    BY <1>2, <2>2, <2>4, OtherFollows DEF RemoveModel
  <2> QED
    BY <2>3, <2>4
<1>3. ASSUME NEW i \in Instance, Destroy(i) PROVE FollowsScene'
  BY <1>3, OtherFollows DEF Destroy, TypeOK
<1>4. ASSUME NEW t \in Thread, Call(t) PROVE FollowsScene'
  <2>1. \A u \in Thread : pc[u] = "runtime" =>
            pc'[u] = "runtime" /\ job'[u] = job[u]
    BY <1>4 DEF Call, ApplyRead, ReadScene, ReadLatest, Goto, TypeOK
  <2> QED
    BY <1>4, <2>1, OtherFollows
       DEF Call, ApplyRead, ReadScene, ReadLatest, history
<1>5. ASSUME NEW t \in Thread,
             \/ ApplyUpdateFails(t) \/ CompileFails(t) \/ BuildFails(t)
             \/ Compile(t) \/ Discard(t) \/ CheckReferences(t)
      PROVE  FollowsScene'
  <2>1. \A u \in Thread : pc[u] = "runtime" =>
            pc'[u] = "runtime" /\ job'[u] = job[u]
    BY <1>5 DEF ApplyUpdateFails, CompileFails, BuildFails, Compile, Discard,
                CheckReferences, Return, Goto, TypeOK
  <2>2. \A i \in Instance : instances'[i] \in {instances[i], None}
    BY <1>5 DEF ApplyUpdateFails, CompileFails, BuildFails, Compile, Discard,
                CheckReferences, TypeOK
  <2> QED
    BY <1>5, <2>1, <2>2, OtherFollows
       DEF ApplyUpdateFails, CompileFails, BuildFails, Compile, Discard,
           CheckReferences, history
<1>6. CASE UNCHANGED vars
  BY <1>6, OtherFollows DEF vars, history
<1> QED
  BY <1>1, <1>2, <1>3, <1>4, <1>5, <1>6, EditFollows, UpdateFollows,
     RuntimeFollows, RuntimeFailsFollows, BuildFollows DEF Next, Continue

\* scene.apply, instance.create and instance.recreate_from_scene are sequences
\* of calls without a lock; and yet, once every handler has returned, an
\* instance is what its scene compiles to, with the scene's initial_state,
\* unless a change behind its back or a handler that failed is on record.
THEOREM SceneAgreed == Spec => []InstanceAgrees
<1>1. TypeOK /\ FollowsScene /\ [Next]_vars => (TypeOK /\ FollowsScene)'
  BY NextTypes, NextFollows
<1>2. Init => TypeOK /\ FollowsScene
  BY InitTypes, InitFollows
<1>3. FollowsScene => InstanceAgrees
  BY DEF FollowsScene, Follows, InstanceAgrees, Idle, Agrees, Pending
<1> QED
  BY <1>1, <1>2, <1>3, PTL DEF Spec

-----------------------------------------------------------------------------
(* model.remove *)

\* What model.remove read is still so, unless a change overtook it.
LatestKnown ==
    \A t \in Thread : pc[t] \in {"check", "remove"} /\ t \notin overtaken =>
        job[t].latest = LatestIn(registered)

\* No scene refers to what model.remove is about to remove, unless a change
\* overtook it.
RemovedUnreferenced ==
    \A t \in Thread : pc[t] = "remove" /\ t \notin overtaken =>
        \A s \in Scene : scenes[s] # None =>
            ~References(scenes[s], job[t].version, job[t].latest)

RemovalInv == TypeOK /\ LatestKnown /\ RemovedUnreferenced

\* Every step keeps both: a change of scenes or registry overtakes every
\* removal that is under way.
LEMMA NextRemoval == RemovalInv /\ [Next]_vars => RemovalInv'
<1> SUFFICES ASSUME RemovalInv, [Next]_vars
             PROVE  RemovalInv'
  OBVIOUS
<1>0. TypeOK'
  BY NextTypes DEF RemovalInv
<1> USE DEF RemovalInv, LatestKnown, RemovedUnreferenced, Goto
<1>1. ASSUME Removing \subseteq overtaken',
             \A t \in Thread : pc'[t] \in {"check", "remove"} => t \in Removing
      PROVE  LatestKnown' /\ RemovedUnreferenced'
  BY <1>1
<1>2. ASSUME UNCHANGED <<scenes, registered, overtaken>>,
             \A t \in Thread : pc'[t] \in {"check", "remove"} =>
                 pc'[t] = pc[t] /\ job'[t] = job[t]
      PROVE  LatestKnown' /\ RemovedUnreferenced'
  BY <1>2
<1>3. ASSUME NEW s \in Scene, NEW c \in Content \cup {None}, EditScene(s, c)
      PROVE  LatestKnown' /\ RemovedUnreferenced'
  BY <1>1, <1>3 DEF EditScene, SetScene, Removing
<1>4. ASSUME NEW v \in Version, Register(v)
      PROVE  LatestKnown' /\ RemovedUnreferenced'
  BY <1>1, <1>4 DEF Register, Removing
<1>5. ASSUME NEW i \in Instance, Destroy(i)
      PROVE  LatestKnown' /\ RemovedUnreferenced'
  BY <1>2, <1>5 DEF Destroy
<1>6. ASSUME NEW t \in Thread, NEW s \in Scene, NEW i \in Instance,
             \/ \E patch \in Content : ApplyRead(t, s, i, patch)
             \/ \E recreate \in BOOLEAN : ReadScene(t, s, i, recreate)
      PROVE  LatestKnown' /\ RemovedUnreferenced'
  BY <1>2, <1>6 DEF ApplyRead, ReadScene, history, TypeOK
<1>7. ASSUME NEW t \in Thread, NEW v \in Version, ReadLatest(t, v)
      PROVE  LatestKnown' /\ RemovedUnreferenced'
  <2>1. pc'[t] = "check" /\ job'[t].latest = LatestIn(registered)
        /\ \A u \in Thread \ {t} : pc'[u] = pc[u] /\ job'[u] = job[u]
    BY <1>7 DEF ReadLatest, NoJob, TypeOK
  <2> QED
    BY <1>7, <2>1 DEF ReadLatest, history
<1>8. ASSUME NEW t \in Thread, ApplyUpdate(t)
      PROVE  LatestKnown' /\ RemovedUnreferenced'
  <2>1. \A u \in Thread : pc'[u] \in {"check", "remove"} => u \in Removing
    BY <1>8 DEF ApplyUpdate, Removing, TypeOK
  <2> QED
    BY <1>1, <1>8, <2>1 DEF ApplyUpdate, SetScene
<1>9. ASSUME NEW t \in Thread,
             \/ ApplyUpdateFails(t) \/ ApplyRuntime(t) \/ ApplyRuntimeFails(t)
             \/ Compile(t) \/ CompileFails(t) \/ Discard(t)
             \/ Build(t) \/ BuildFails(t)
      PROVE  LatestKnown' /\ RemovedUnreferenced'
  BY <1>2, <1>9
     DEF ApplyUpdateFails, ApplyRuntime, ApplyRuntimeFails, Compile, Discard,
         CompileFails, Build, BuildFails, Return, TypeOK, history
<1>10. ASSUME NEW t \in Thread, CheckReferences(t)
       PROVE  LatestKnown' /\ RemovedUnreferenced'
  BY <1>10 DEF CheckReferences, Return, TypeOK
<1>11. ASSUME NEW t \in Thread, RemoveModel(t)
       PROVE  LatestKnown' /\ RemovedUnreferenced'
  BY <1>11 DEF RemoveModel, Return, TypeOK, Removing
<1>12. CASE UNCHANGED vars
  <2>1. UNCHANGED <<scenes, registered, pc, job, overtaken>>
    BY <1>12 DEF vars, history
  <2>2. \A t \in Thread : pc'[t] \in {"check", "remove"} =>
            pc'[t] = pc[t] /\ job'[t] = job[t]
    BY <2>1
  <2> QED
    BY <1>0, <1>2, <2>1, <2>2
<1> QED
  BY <1>0, <1>3, <1>4, <1>5, <1>6, <1>7, <1>8, <1>9, <1>10, <1>11, <1>12
     DEF Next, Call, Continue

\* model.remove asks the scenes in one call and removes in another; and yet it
\* removes nothing that a loaded scene resolves to, pinned or not, unless a
\* change that overtook it is on record.
THEOREM RemovalSafe == Spec => RemovalIsSafe
<1> DEFINE Safe ==
      \A v \in registered \ registered' :
          \/ \A s \in Scene : scenes[s] # None => Resolve(scenes[s]) # v
          \/ \E t \in overtaken : pc[t] = "remove" /\ job[t].version = v
<1>1. Init => RemovalInv
  BY InitTypes DEF Init, RemovalInv, LatestKnown, RemovedUnreferenced
<1>2. RemovalInv /\ [Next]_vars => Safe
  <2> SUFFICES ASSUME RemovalInv, [Next]_vars,
                      NEW v \in registered \ registered',
                      NEW s \in Scene, scenes[s] # None,
                      ~ \E t \in overtaken :
                            pc[t] = "remove" /\ job[t].version = v
               PROVE  Resolve(scenes[s]) # v
    OBVIOUS
  <2>1. PICK t \in Thread : RemoveModel(t)
    BY DEF Next, vars, Call, Continue, ApplyRead, ReadScene, ReadLatest,
           ApplyUpdate, ApplyUpdateFails, ApplyRuntime, ApplyRuntimeFails,
           Compile, CompileFails, Discard, Build, BuildFails,
           CheckReferences, EditScene, Register, Destroy
  <2>2. v = job[t].version /\ pc[t] = "remove" /\ t \notin overtaken
    BY <2>1 DEF RemoveModel
  <2>3. job[t].latest = LatestIn(registered)
        /\ ~References(scenes[s], v, job[t].latest)
    BY <2>2 DEF RemovalInv, LatestKnown, RemovedUnreferenced
  <2>4. v \in Version /\ v # None
    BY ConstantsAssumption DEF RemovalInv, TypeOK
  <2> QED
    BY <2>3, <2>4 DEF Resolve, ResolveIn, References
<1> QED
  BY <1>1, <1>2, NextRemoval, PTL DEF Spec, RemovalIsSafe

-----------------------------------------------------------------------------
(* The compiled-model cache that the handlers go through: ModelCache, of    *)
(* whose state nothing is shared with the above.                            *)

-----------------------------------------------------------------------------
(* Types *)

\* A handler has at hand what it needs where it is.
Equipped ==
    \A t \in Handler :
        /\ step[t] \in {"truncate", "write"} => key[t] \in SceneKey
        /\ step[t] \in {"load", "insert"} => key[t] \in Key
        /\ step[t] \in {"insert", "compiled"} <=> model[t] # Null

CacheTypes == CacheTypeOK /\ Equipped

\* A handler that takes a model from the cache or puts one in keeps the types.
LEMMA TouchTypes ==
    ASSUME CacheTypes, NEW k \in Key, NEW m \in Model, Touch(k, m)
    PROVE  /\ models' \in [Key -> Model \cup {Null}]
           /\ recency' \in SUBSET (Key \X Key)
BY DEF CacheTypes, CacheTypeOK, Touch, Without, Stamp, Cached

\* The initial state is typed.
LEMMA CacheInitTypes == CacheInit => CacheTypes
BY CacheAssumption DEF CacheInit, CacheTypes, CacheTypeOK, Equipped

\* Every step keeps the types.
LEMMA CacheNextTypes ==
    CacheTypes /\ [CacheNext]_cacheVars => CacheTypes'
<1> SUFFICES ASSUME CacheTypes, [CacheNext]_cacheVars
             PROVE  CacheTypes'
  OBVIOUS
<1> USE CacheAssumption DEF Key
<1>1. ASSUME NEW t \in Handler, NEW k \in Key, Hit(t, k)
      PROVE  CacheTypes'
  <2>1. models[k] \in Model
    BY <1>1 DEF Hit, CacheTypes, CacheTypeOK
  <2>2. Touch(k, models[k])
    BY <1>1 DEF Hit
  <2>3. /\ models' \in [Key -> Model \cup {Null}]
        /\ recency' \in SUBSET (Key \X Key)
    BY <2>1, <2>2, TouchTypes
  <2> QED
    BY <1>1, <2>1, <2>3
       DEF Hit, StepTo, files, CacheTypes, CacheTypeOK, Equipped
<1>2. ASSUME NEW t \in Handler, NEW k \in Key, Miss(t, k)
      PROVE  CacheTypes'
  BY <1>2 DEF Miss, StepTo, files, CacheTypes, CacheTypeOK, Equipped
<1>3. ASSUME NEW t \in Handler, Truncate(t)  PROVE CacheTypes'
  BY <1>3 DEF Truncate, StepTo, File, CacheTypes, CacheTypeOK, Equipped
<1>4. ASSUME NEW t \in Handler, Write(t)  PROVE CacheTypes'
  BY <1>4 DEF Write, StepTo, File, files, CacheTypes, CacheTypeOK, Equipped
<1>5. ASSUME NEW t \in Handler, Load(t)  PROVE CacheTypes'
  BY <1>5 DEF Load, StepTo, files, CacheTypes, CacheTypeOK, Equipped
<1>6. ASSUME NEW t \in Handler, LoadFails(t)  PROVE CacheTypes'
  BY <1>6
     DEF LoadFails, Leave, StepTo, files, CacheTypes, CacheTypeOK, Equipped
<1>7. ASSUME NEW t \in Handler, Insert(t)  PROVE CacheTypes'
  <2>1. key[t] \in Key /\ model[t] \in Model
    BY <1>7 DEF Insert, CacheTypes, CacheTypeOK, Equipped
  <2>2. /\ models' \in [Key -> Model \cup {Null}]
        /\ recency' \in SUBSET (Key \X Key)
    BY <1>7, <2>1, TouchTypes DEF Insert
  <2> QED
    BY <1>7, <2>1, <2>2
       DEF Insert, StepTo, files, CacheTypes, CacheTypeOK, Equipped
<1>8. ASSUME NEW t \in Handler, Drop(t)  PROVE CacheTypes'
  BY <1>8 DEF Drop, Leave, StepTo, files, CacheTypes, CacheTypeOK, Equipped
<1>9. ASSUME NEW t \in Handler, NEW i \in Holder, Give(t, i)
      PROVE  CacheTypes'
  BY <1>9 DEF Give, Leave, StepTo, files, CacheTypes, CacheTypeOK, Equipped
<1>10. ASSUME NEW i \in Holder, LetGo(i)  PROVE CacheTypes'
  BY <1>10 DEF LetGo, locals, files, CacheTypes, CacheTypeOK, Equipped
<1>11. CASE Prune
  BY <1>11
     DEF Prune, Without, locals, files, CacheTypes, CacheTypeOK, Equipped
<1>12. CASE UNCHANGED cacheVars
  BY <1>12 DEF cacheVars, locals, files, CacheTypes, CacheTypeOK, Equipped
<1> QED
  BY <1>1, <1>2, <1>3, <1>4, <1>5, <1>6, <1>7, <1>8, <1>9, <1>10, <1>11,
     <1>12
     DEF CacheNext, Proceed

\* Every state of the cache is typed, and its handlers have what they need.
THEOREM CacheTypeCorrect == CacheSpec => []CacheTypes
BY CacheInitTypes, CacheNextTypes, PTL DEF CacheSpec

-----------------------------------------------------------------------------
(* What is read back *)

\* A file holds its own XML or breaks off, and it breaks off only while the
\* handler that emptied it last has still to close it.
OwnXml ==
    /\ \A f \in SceneKey : content[f] \in {f, Null}
    /\ \A f \in SceneKey : writer[f] # Null =>
           step[writer[f]] = "write" /\ key[writer[f]] = f
    /\ \A t \in Handler :
           step[t] \in {"write", "load"} /\ key[t] \in SceneKey =>
           content[key[t]] = key[t] \/ writer[key[t]] # Null

\* Every step keeps it.
LEMMA NextXml ==
    CacheTypes /\ OwnXml /\ [CacheNext]_cacheVars => OwnXml'
<1> SUFFICES ASSUME CacheTypes, OwnXml, [CacheNext]_cacheVars
             PROVE  OwnXml'
  OBVIOUS
<1> USE CacheAssumption DEF Key
<1>1. ASSUME NEW t \in Handler, NEW k \in Key, Hit(t, k)
      PROVE  OwnXml'
  BY <1>1 DEF Hit, StepTo, files, CacheTypes, CacheTypeOK, OwnXml
<1>2. ASSUME NEW t \in Handler, NEW k \in Key, Miss(t, k)
      PROVE  OwnXml'
  BY <1>2 DEF Miss, StepTo, files, CacheTypes, CacheTypeOK, OwnXml
<1>3. ASSUME NEW t \in Handler, Truncate(t)  PROVE OwnXml'
  BY <1>3
     DEF Truncate, StepTo, File, CacheTypes, CacheTypeOK, Equipped, OwnXml
<1>4. ASSUME NEW t \in Handler, Write(t)  PROVE OwnXml'
  BY <1>4
     DEF Write, StepTo, File, files, CacheTypes, CacheTypeOK, Equipped,
         OwnXml
<1>5. ASSUME NEW t \in Handler, Load(t)  PROVE OwnXml'
  BY <1>5 DEF Load, StepTo, files, CacheTypes, CacheTypeOK, OwnXml
<1>6. ASSUME NEW t \in Handler, LoadFails(t)  PROVE OwnXml'
  BY <1>6
     DEF LoadFails, Leave, StepTo, files, CacheTypes, CacheTypeOK, OwnXml
<1>7. ASSUME NEW t \in Handler, Insert(t)  PROVE OwnXml'
  BY <1>7 DEF Insert, StepTo, files, CacheTypes, CacheTypeOK, OwnXml
<1>8. ASSUME NEW t \in Handler, Drop(t)  PROVE OwnXml'
  BY <1>8 DEF Drop, Leave, StepTo, files, CacheTypes, CacheTypeOK, OwnXml
<1>9. ASSUME NEW t \in Handler, NEW i \in Holder, Give(t, i)
      PROVE  OwnXml'
  BY <1>9 DEF Give, Leave, StepTo, files, CacheTypes, CacheTypeOK, OwnXml
<1>10. ASSUME NEW i \in Holder, LetGo(i)  PROVE OwnXml'
  BY <1>10 DEF LetGo, locals, files, OwnXml
<1>11. CASE Prune
  BY <1>11 DEF Prune, locals, files, OwnXml
<1>12. CASE UNCHANGED cacheVars
  BY <1>12 DEF cacheVars, locals, files, OwnXml
<1> QED
  BY <1>1, <1>2, <1>3, <1>4, <1>5, <1>6, <1>7, <1>8, <1>9, <1>10, <1>11,
     <1>12
     DEF CacheNext, Proceed

\* The file is named after its content: compile_scene() never loads the XML of
\* another scene, however many handlers write at the same time.
THEOREM CompilesReadTheirOwn == CacheSpec => []LoadsOwnXml
<1>1. CacheInit => OwnXml
  BY DEF CacheInit, OwnXml
<1>2. CacheTypes /\ OwnXml => LoadsOwnXml
  BY CacheAssumption DEF CacheTypes, CacheTypeOK, OwnXml, LoadsOwnXml, File
<1> QED
  BY <1>1, <1>2, NextXml, CacheTypeCorrect, PTL DEF CacheSpec

-----------------------------------------------------------------------------
(* Eviction *)

\* Of two different members of S exactly one comes first, and so on.
Orders(order, S) ==
    /\ \A j, k \in S : <<j, k>> \in order <=> j # k /\ <<k, j>> \notin order
    /\ \A i, j, k \in S :
           <<i, j>> \in order /\ <<j, k>> \in order => <<i, k>> \in order

\* Where a key stands among those of S.
Rank(order, S, k) == Cardinality(Older(order, k) \cap S)

\* The ranks of a finite set of keys are 0, 1, 2, ... up to its size: as many
\* keys as one likes, up to all of them, have a rank below that many.
LEMMA OldestOf ==
    ASSUME NEW order, NEW S \in SUBSET Key,
           IsFiniteSet(S), Orders(order, S), NEW n \in Nat
    PROVE  n <= Cardinality(S) =>
               n <= Cardinality({k \in S : Rank(order, S, k) < n})
<1> DEFINE rank == [k \in S |-> Rank(order, S, k)]
           First == {k \in S : Rank(order, S, k) < n}
           low == [k \in First |-> Rank(order, S, k)]
<1>1. PICK size \in Nat : size = Cardinality(S)
  BY FS_CardinalityType
<1>2. ASSUME NEW k \in S
      PROVE  /\ IsFiniteSet(Older(order, k) \cap S)
             /\ Rank(order, S, k) \in Nat
             /\ Rank(order, S, k) < size
  <2>1. Older(order, k) \cap S \in SUBSET (S \ {k})
    BY DEF Older, Orders
  <2>2. IsFiniteSet(S \ {k}) /\ Cardinality(S \ {k}) = size - 1
    BY <1>1, FS_RemoveElement
  <2>3. /\ IsFiniteSet(Older(order, k) \cap S)
        /\ Cardinality(Older(order, k) \cap S) <= size - 1
    BY <2>1, <2>2, FS_Subset
  <2> QED
    BY <1>1, <2>3, FS_CardinalityType DEF Rank
<1>3. ASSUME NEW j \in S, NEW k \in S, <<j, k>> \in order
      PROVE  Rank(order, S, j) < Rank(order, S, k)
  <2>1. j \in Older(order, k) \cap S
    BY <1>3 DEF Older
  <2>2. Older(order, j) \cap S
            \in SUBSET ((Older(order, k) \cap S) \ {j})
    BY <1>3 DEF Older, Orders
  <2>3. /\ IsFiniteSet((Older(order, k) \cap S) \ {j})
        /\ Cardinality((Older(order, k) \cap S) \ {j})
             = Rank(order, S, k) - 1
    BY <1>2, <2>1, FS_RemoveElement DEF Rank
  <2>4. Rank(order, S, j) <= Rank(order, S, k) - 1
    BY <2>2, <2>3, FS_Subset DEF Rank
  <2>5. Rank(order, S, j) \in Nat /\ Rank(order, S, k) \in Nat
    BY <1>2
  <2> QED
    BY <2>4, <2>5
<1>4. rank \in Injection(S, 0 .. (size - 1))
  <2>1. ASSUME NEW k \in S  PROVE Rank(order, S, k) \in 0 .. (size - 1)
    <3>1. Rank(order, S, k) \in Nat /\ Rank(order, S, k) < size
      BY <1>2
    <3> QED
      BY <3>1
  <2>2. ASSUME NEW j \in S, NEW k \in S, rank[j] = rank[k]  PROVE j = k
    <3>1. Rank(order, S, j) \in Nat /\ Rank(order, S, j) = Rank(order, S, k)
      BY <1>2, <2>2
    <3>2. /\ ~(Rank(order, S, j) < Rank(order, S, k))
          /\ ~(Rank(order, S, k) < Rank(order, S, j))
      BY <3>1
    <3> QED
      BY <1>3, <3>2 DEF Orders
  <2> QED
    BY <2>1, <2>2 DEF Injection, IsInjective
<1>5. rank \in Surjection(S, 0 .. (size - 1))
  <2>1. /\ IsFiniteSet(0 .. (size - 1))
        /\ Cardinality(0 .. (size - 1)) = size
    BY FS_Interval
  <2> HIDE DEF rank
  <2> QED
    BY <1>1, <1>4, <2>1, FS_Injection
<1>6. n <= size => low \in Surjection(First, 0 .. (n - 1))
  <2>1. ASSUME NEW k \in First  PROVE low[k] \in 0 .. (n - 1)
    <3>1. Rank(order, S, k) \in Nat /\ Rank(order, S, k) < n
      BY <1>2
    <3> QED
      BY <3>1
  <2>2. ASSUME n <= size, NEW r \in 0 .. (n - 1)
        PROVE  \E k \in First : low[k] = r
    <3>1. r \in 0 .. (size - 1)
      BY <1>1, <2>2
    <3>2. PICK k \in S : rank[k] = r
      BY <1>5, <3>1 DEF Surjection
    <3> QED
      BY <2>2, <3>2
  <2> QED
    BY <2>1, <2>2 DEF Surjection
<1>7. /\ IsFiniteSet(0 .. (n - 1))
      /\ Cardinality(0 .. (n - 1)) = n
  BY FS_Interval
<1>8. First \in SUBSET S
  OBVIOUS
<1>9. IsFiniteSet(First)
  BY <1>8, FS_Subset
<1> HIDE DEF low, First
<1>10. n <= size => n <= Cardinality(First)
  BY <1>6, <1>7, <1>9, FS_Surjection
<1> QED
  BY <1>1, <1>10 DEF First

\* The cache is finite, and its keys are in the order of their stamps: what
\* the victims of a touch are counted in.
LruInv ==
    /\ CacheTypes
    /\ IsFiniteSet(Cached(models))
    /\ Orders(recency, Cached(models))

\* What the cache is just before a touch takes its victims.
LEMMA Stamped ==
    ASSUME LruInv, NEW k \in Key, NEW m \in Model,
           NEW cache, cache = [models EXCEPT ![k] = m]
    PROVE  /\ Cached(cache) = Cached(models) \cup {k}
           /\ IsFiniteSet(Cached(cache))
           /\ Orders(Stamp(cache, k), Cached(cache))
<1>1. Cached(cache) = Cached(models) \cup {k}
  BY CacheAssumption DEF LruInv, CacheTypes, CacheTypeOK, Cached
<1>2. IsFiniteSet(Cached(models) \cup {k})
  BY FS_AddElement DEF LruInv
<1>3. \A i, j \in Cached(models) :
         <<i, j>> \in Stamp(cache, k) <=>
             IF k \in {i, j} THEN j = k /\ i # k ELSE <<i, j>> \in recency
  BY <1>1 DEF Stamp
<1>4. \A j \in Cached(cache) :
         /\ <<k, j>> \notin Stamp(cache, k)
         /\ <<j, k>> \in Stamp(cache, k) <=> j # k
  BY <1>1 DEF Stamp
<1>5. Orders(Stamp(cache, k), Cached(cache))
  <2>1. Orders(recency, Cached(models))
    BY DEF LruInv
  <2>2. PICK order : order = Stamp(cache, k)
    OBVIOUS
  <2>3. PICK S : S = Cached(models)
    OBVIOUS
  <2>4. \A i, j \in S : <<i, j>> \in order <=>
            IF k \in {i, j} THEN j = k /\ i # k ELSE <<i, j>> \in recency
    BY <1>3, <2>2, <2>3
  <2>5. \A j \in S \cup {k} : <<k, j>> \notin order
                             /\ (<<j, k>> \in order <=> j # k)
    BY <1>1, <1>4, <2>2, <2>3
  <2>6. ASSUME NEW i \in S \cup {k}, NEW j \in S \cup {k}
        PROVE  <<i, j>> \in order <=> i # j /\ <<j, i>> \notin order
    BY <2>1, <2>3, <2>4, <2>5 DEF Orders
  <2>7. ASSUME NEW h \in S \cup {k}, NEW i \in S \cup {k},
               NEW j \in S \cup {k},
               <<h, i>> \in order, <<i, j>> \in order
        PROVE  <<h, j>> \in order
    BY <2>1, <2>3, <2>4, <2>5, <2>7 DEF Orders
  <2>8. Orders(order, S \cup {k})
    BY <2>6, <2>7 DEF Orders
  <2> QED
    BY <1>1, <2>2, <2>3, <2>8, Zenon
<1> QED
  BY <1>1, <1>2, <1>5

\* A part of an order is an order.
LEMMA Fewer ==
    ASSUME NEW order, NEW S, Orders(order, S), NEW gone
    PROVE  Orders(Without(order, gone), S \ gone)
<1>1. \A j, k \in S \ gone :
          <<j, k>> \in Without(order, gone) <=> <<j, k>> \in order
  BY DEF Without
<1> QED
  BY <1>1 DEF Orders

\* What a touch leaves behind, and what it takes.
LEMMA TouchEvicts ==
    ASSUME LruInv, NEW k \in Key, NEW m \in Model, Touch(k, m)
    PROVE  /\ IsFiniteSet(Cached(models)')
           /\ Orders(recency, Cached(models))'
           /\ \A j \in Cached(models) :
                  InUse(models[j]) => j \in Cached(models)'
           /\ \/ Cardinality(Cached(models)') <= MaxCached
              \/ \A j \in Cached(models)' :
                     \/ models'[j] = m
                     \/ InUse(models'[j])
<1>1. PICK cache : cache = [models EXCEPT ![k] = m]
  OBVIOUS
<1>2. PICK order : order = Stamp(cache, k)
  OBVIOUS
<1>3. PICK idle : idle = Reclaimable(cache, m)
  OBVIOUS
<1>4. PICK gone : gone = Victims(cache, order, m)
  OBVIOUS
<1>5. /\ models' = [j \in Key |-> IF j \in gone THEN Null ELSE cache[j]]
      /\ recency' = Without(order, gone)
  BY <1>1, <1>2, <1>4 DEF Touch
<1>6. /\ Cached(cache) = Cached(models) \cup {k}
      /\ IsFiniteSet(Cached(cache))
      /\ Orders(order, Cached(cache))
  BY <1>1, <1>2, Stamped
<1>7. Cached(models)' = Cached(cache) \ gone
  BY <1>5 DEF Cached
<1>8. IsFiniteSet(Cached(models)')
  <2>1. IsFiniteSet(Cached(cache) \ gone)
    BY <1>6, FS_Difference
  <2> QED
    BY <1>7, <2>1, Zenon
<1>9. Orders(recency, Cached(models))'
  BY <1>5, <1>6, <1>7, Fewer
<1>10. gone = {j \in idle : Rank(order, idle, j) < Excess(cache)}
  BY <1>3, <1>4 DEF Victims, Rank
<1>11. \A j \in idle :
           j \in Cached(cache) /\ ~InUse(cache[j]) /\ cache[j] # m
  BY <1>3 DEF Reclaimable
<1>12. ASSUME NEW j \in Cached(models), InUse(models[j])
       PROVE  j \in Cached(models)'
  <2>1. cache[j] = m \/ cache[j] = models[j]
    BY <1>1 DEF LruInv, CacheTypes, CacheTypeOK, Cached
  <2> QED
    BY <1>6, <1>7, <1>10, <1>11, <1>12, <2>1
<1>13. ASSUME ~(Cardinality(Cached(models)') <= MaxCached),
              NEW j \in Cached(models)'
       PROVE  models'[j] = m \/ InUse(models'[j])
  <2>1. PICK excess : excess = Excess(cache)
    OBVIOUS
  <2>2. /\ Cardinality(Cached(cache)) \in Nat
        /\ Cardinality(Cached(models)') \in Nat
        /\ MaxCached \in Nat
    BY <1>6, <1>8, FS_CardinalityType, CacheAssumption
  <2>3. idle \in SUBSET Cached(cache) /\ gone \in SUBSET idle
    BY <1>10, <1>11
  <2>4. IsFiniteSet(idle) /\ IsFiniteSet(gone)
    BY <1>6, <2>3, FS_Subset
  <2>5. Cardinality(Cached(models)')
            = Cardinality(Cached(cache)) - Cardinality(gone)
    <3>1. Cached(cache) \cap gone = gone
      BY <2>3
    <3> QED
      BY <1>6, <1>7, <3>1, FS_Difference
  <2>6. /\ excess \in Nat
        /\ excess >= Cardinality(Cached(cache)) - MaxCached
    BY <2>1, <2>2 DEF Excess
  <2>7. ~(excess <= Cardinality(gone))
    BY <1>13, <2>2, <2>4, <2>5, <2>6, FS_CardinalityType
  <2>8. Orders(order, idle)
    BY <1>6, <2>3 DEF Orders
  <2>9. idle \in SUBSET Key
    BY <2>3 DEF Cached
  <2>10. ~(excess <= Cardinality(idle))
    BY <1>10, <2>1, <2>4, <2>6, <2>7, <2>8, <2>9, OldestOf
  <2>11. ASSUME NEW i \in idle  PROVE i \in gone
    <3>1. Older(order, i) \cap idle \in SUBSET idle
      OBVIOUS
    <3>2. /\ Rank(order, idle, i) <= Cardinality(idle)
          /\ Rank(order, idle, i) \in Nat
      BY <2>4, <3>1, FS_Subset, FS_CardinalityType DEF Rank
    <3> QED
      BY <1>10, <2>1, <2>4, <2>6, <2>10, <3>2, FS_CardinalityType
  <2>12. j \in Cached(cache) /\ j \notin idle /\ models'[j] = cache[j]
    BY <1>5, <1>7, <1>13, <2>11 DEF Cached
  <2> QED
    BY <1>3, <2>12 DEF Reclaimable
<1> QED
  BY <1>8, <1>9, <1>12, <1>13

\* A hit is a touch with the model that was there.
LEMMA HitTouches ==
    ASSUME CacheTypes, NEW t \in Handler, NEW k \in Key, Hit(t, k)
    PROVE  models[k] \in Model /\ Touch(k, models[k])
BY DEF Hit, CacheTypes, CacheTypeOK

\* An insert has a model to put in.
LEMMA InsertTouches ==
    ASSUME CacheTypes, NEW t \in Handler, Insert(t)
    PROVE  /\ key[t] \in Key /\ model[t] \in Model
           /\ Touch(key[t], model[t])
BY DEF Insert, CacheTypes, CacheTypeOK, Equipped

\* Every other step but a prune leaves the cache alone.
LEMMA OthersKeep ==
    ASSUME [CacheNext]_cacheVars,
           ~ \E t \in Handler :
                 Insert(t) \/ \E k \in Key : Hit(t, k),
           ~ Prune
    PROVE  UNCHANGED <<models, recency>>
BY DEF CacheNext, Proceed, Miss, Truncate, Write, Load, LoadFails, Drop,
       Give, LetGo, cacheVars

\* cache_prune() takes what nobody holds, and the order of the rest stays.
LEMMA PruneTakes ==
    ASSUME LruInv, Prune
    PROVE  /\ Cached(models)' = Cached(models) \ Unused
           /\ Orders(recency, Cached(models))'
           /\ IsFiniteSet(Cached(models)')
<1>1. Cached(models)' = Cached(models) \ Unused
  BY DEF Prune, Cached
<1>2. Orders(recency, Cached(models))'
  BY <1>1, Fewer DEF Prune, LruInv
<1> QED
  BY <1>1, <1>2, FS_Difference DEF LruInv

\* Every step keeps the order.
LEMMA NextLru == LruInv /\ [CacheNext]_cacheVars => LruInv'
<1> SUFFICES ASSUME LruInv, [CacheNext]_cacheVars
             PROVE  /\ IsFiniteSet(Cached(models))'
                    /\ Orders(recency, Cached(models))'
  BY CacheNextTypes DEF LruInv
<1>1. ASSUME NEW t \in Handler, NEW k \in Key, Hit(t, k)
      PROVE  /\ IsFiniteSet(Cached(models))'
             /\ Orders(recency, Cached(models))'
  BY <1>1, HitTouches, TouchEvicts DEF LruInv
<1>2. ASSUME NEW t \in Handler, Insert(t)
      PROVE  /\ IsFiniteSet(Cached(models))'
             /\ Orders(recency, Cached(models))'
  BY <1>2, InsertTouches, TouchEvicts DEF LruInv
<1>3. CASE Prune
  BY <1>3, PruneTakes
<1>4. CASE UNCHANGED <<models, recency>>
  BY <1>4 DEF LruInv, Cached
<1> QED
  BY <1>1, <1>2, <1>3, <1>4, OthersKeep

\* In every state the cache is finite and last_used orders its keys.
THEOREM LruCorrect == CacheSpec => []LruInv
<1>1. CacheInit => LruInv
  <2> SUFFICES ASSUME CacheInit PROVE LruInv
    OBVIOUS
  <2>1. Cached(models) = {}
    BY DEF CacheInit, Cached
  <2> QED
    BY <2>1, CacheInitTypes, FS_EmptySet DEF LruInv, Orders
<1> QED
  BY <1>1, NextLru, PTL DEF CacheSpec

\* No eviction, at the capacity or by model.cache_prune, takes an entry whose
\* model a handler or an instance holds.
THEOREM InUseOutlives == CacheSpec => InUseStays
<1>1. LruInv /\ [CacheNext]_cacheVars =>
          \A k \in Cached(models) :
              InUse(models[k]) => k \in Cached(models')
  <2> SUFFICES ASSUME LruInv, [CacheNext]_cacheVars,
                      NEW k \in Cached(models), InUse(models[k])
               PROVE  k \in Cached(models)'
    BY DEF Cached
  <2>1. ASSUME NEW t \in Handler, NEW j \in Key, Hit(t, j)
        PROVE  k \in Cached(models)'
    BY <2>1, HitTouches, TouchEvicts DEF LruInv
  <2>2. ASSUME NEW t \in Handler, Insert(t)
        PROVE  k \in Cached(models)'
    BY <2>2, InsertTouches, TouchEvicts DEF LruInv
  <2>3. CASE Prune
    BY <2>3, PruneTakes DEF Unused
  <2>4. CASE UNCHANGED <<models, recency>>
    BY <2>4 DEF Cached
  <2> QED
    BY <2>1, <2>2, <2>3, <2>4, OthersKeep
<1> QED
  BY <1>1, LruCorrect, PTL DEF CacheSpec, InUseStays

\* touch_and_reclaim_locked() leaves more than max_cached_models_ only when it
\* has nothing left to reclaim.
THEOREM GrowsInUseOnly == CacheSpec => GrowthIsBounded
<1>1. LruInv /\ [CacheNext]_cacheVars =>
          \/ Cached(models') \subseteq Cached(models)
          \/ Cardinality(Cached(models')) <= MaxCached
          \/ AllInUse'
  <2> SUFFICES ASSUME LruInv, [CacheNext]_cacheVars
               PROVE  \/ Cached(models)' \subseteq Cached(models)
                      \/ Cardinality(Cached(models)') <= MaxCached
                      \/ AllInUse'
    BY DEF Cached
  <2>1. ASSUME NEW t \in Handler, NEW k \in Key, Hit(t, k)
        PROVE  \/ Cardinality(Cached(models)') <= MaxCached
               \/ AllInUse'
    <3>1. \A m : m = models[k] \/ (InUse(m) /\ m # Null)
              => InUse(m)'
      BY <2>1 DEF Hit, InUse, LruInv, CacheTypes, CacheTypeOK, Equipped
    <3>2. \A j \in Cached(models)' : models'[j] # Null
      BY DEF Cached
    <3>3. \/ Cardinality(Cached(models)') <= MaxCached
          \/ \A j \in Cached(models)' :
                 models'[j] = models[k] \/ InUse(models'[j])
      BY <2>1, HitTouches, TouchEvicts DEF LruInv
    <3> QED
      BY <3>1, <3>2, <3>3 DEF AllInUse, InUse
  <2>2. ASSUME NEW t \in Handler, Insert(t)
        PROVE  \/ Cardinality(Cached(models)') <= MaxCached
               \/ AllInUse'
    <3>1. \A m : m = model[t] \/ InUse(m) => InUse(m)'
      BY <2>2 DEF Insert, InUse
    <3>2. \/ Cardinality(Cached(models)') <= MaxCached
          \/ \A j \in Cached(models)' :
                 models'[j] = model[t] \/ InUse(models'[j])
      BY <2>2, InsertTouches, TouchEvicts DEF LruInv
    <3> QED
      BY <3>1, <3>2 DEF AllInUse, InUse
  <2>3. CASE Prune
    BY <2>3, PruneTakes
  <2>4. CASE UNCHANGED <<models, recency>>
    BY <2>4 DEF Cached
  <2> QED
    BY <2>1, <2>2, <2>3, <2>4, OthersKeep
<1> QED
  BY <1>1, LruCorrect, PTL DEF CacheSpec, GrowthIsBounded

=============================================================================
