------------------------ MODULE InstanceManagerProofs ------------------------
(***************************************************************************)
(* Theorems about the instance manager, for every set of threads, ids and  *)
(* objects.                                                                *)
(***************************************************************************)
EXTENDS InstanceManager, TLAPS

-----------------------------------------------------------------------------
(* Types *)

\* Where an actor may be without, or only with, a shared_ptr.
EmptyHanded == {"idle", "reserve", "build", "announce", "publish",
                "publishNew", "recreated", "none", "looping", "exited"}
Holding == {"insert", "use", "start", "stop", "stopping", "waiting", "visual",
            "destroying", "joining"}

\* Where a handler goes on once it has released a shared_ptr.
Onward == {"idle", "reserve", "announce", "publish", "publishNew", "recreated"}

\* TypeOK, and what makes it inductive: a handler has its id, and what it goes
\* on with after a release is a step of its own.
TypeInv ==
    /\ TypeOK
    /\ pc \in [Actor -> Label \cup WorkerLabel]
    /\ \A t \in Thread : ret[t] \in Onward
    /\ \A o \in Object : ret[o] = "looping"
    /\ \A t \in Thread : pc[t] # "idle" => arg[t] \in Id
    /\ \A a \in Actor : pc[a] \in Holding => held[a] # NoObject

\* The initial state is typed.
LEMMA InitTypes == Init => TypeInv
<1> SUFFICES ASSUME Init  PROVE TypeInv
  OBVIOUS
<1> USE ConstantsAssumption DEF Init
<1>1. TypeOK
  <2>1. /\ pc \in [Actor -> {"idle", "none"}]
        /\ ret \in [Actor -> {"idle", "looping"}]
    BY DEF Actor, Loop
  <2>2. /\ \A t \in Thread : pc[t] = "idle"
        /\ \A o \in Object : pc[o] = "none"
    BY DEF Actor
  <2> QED
    BY <2>1, <2>2 DEF TypeOK, Label, WorkerLabel, Building
<1>2. /\ \A t \in Thread : ret[t] = "idle" /\ pc[t] = "idle"
      /\ \A o \in Object : ret[o] = "looping" /\ pc[o] = "none"
  BY DEF Actor, Loop
<1>3. pc \in [Actor -> Label \cup WorkerLabel]
  BY DEF Label, WorkerLabel
<1> QED
  BY <1>1, <1>2, <1>3 DEF TypeInv, Onward, Holding, Actor

\* Every step is one of these: a lookup by a thread or a worker names an id.
LEMMA Steps ==
    ASSUME TypeInv, [Next]_vars
    PROVE  \/ \E a \in Actor :
                 \/ Release(a) \/ Destruct(a) \/ Free(a)
                 \/ PlainPush(a) \/ VisualModel(a)
                 \/ \E i \in Id : VisualFind(a, i)
           \/ \E t \in Thread, i \in Id :
                 \/ Create(t, i) \/ Recreate(t, i) \/ Destroy(t, i)
                 \/ \E operation \in {"start", "stop", "use"} :
                        Find(t, i, operation)
           \/ \E t \in Thread :
                 \/ ReserveAgain(t) \/ BuildFails(t) \/ ConfigureThrows(t)
                 \/ Build(t) \/ Insert(t) \/ Announce(t) \/ Use(t) \/ Start(t)
                 \/ StopRequest(t) \/ StopJoin(t) \/ StopJoinTwice(t)
                 \/ StopJoined(t) \/ EndRecreate(t) \/ StartRecreated(t)
           \/ \E o \in Object : WorkerExit(o) \/ WorkerStep(o)
           \/ UNCHANGED vars
<1>1. ASSUME NEW t \in Thread, VisualFind(t, arg[t])
      PROVE  \E a \in Actor, i \in Id : VisualFind(a, i)
  <2>1. t \in Actor /\ arg[t] \in Id
    BY <1>1 DEF VisualFind, Publishing, At, TypeInv, Actor
  <2> QED
    BY <1>1, <2>1
<1>2. ASSUME NEW o \in Object, owner[o] # NoId, VisualFind(o, owner[o])
      PROVE  \E a \in Actor, i \in Id : VisualFind(a, i)
  <2>1. o \in Actor /\ owner[o] \in Id
    BY <1>2 DEF TypeInv, TypeOK, Actor
  <2> QED
    BY <1>2, <2>1
<1>3. \A t \in Thread : t \in Actor
  BY DEF Actor
<1>4. \A o \in Object : o \in Actor
  BY DEF Actor
<1> QED
  BY <1>1, <1>2, <1>3, <1>4
     DEF Next, Call, Continue, Publish, Worker, Reference, Dead

\* Every step keeps the types.
LEMMA NextTypes == TypeInv /\ [Next]_vars => TypeInv'
<1> SUFFICES ASSUME TypeInv, [Next]_vars
             PROVE  TypeInv'
  OBVIOUS
<1> USE ConstantsAssumption
    DEF TypeInv, TypeOK, Actor, Label, WorkerLabel, Building, EmptyHanded,
        Holding, Onward, At, Goto, Loop
<1>1. ASSUME NEW a \in Actor, Release(a)  PROVE TypeInv'
  BY <1>1 DEF Release, GoOn, objects, ends
<1>2. ASSUME NEW a \in Actor, Destruct(a)  PROVE TypeInv'
  <2>1. pc' \in [Actor -> Label \cup WorkerLabel]
    BY <1>2 DEF Destruct
  <2>3. aborted' = TRUE \/ aborted' = aborted
    BY <1>2 DEF Destruct
  <2>4. aborted' \in BOOLEAN
    BY <2>3
  <2>2. /\ \A u \in Thread :
               pc'[u] \in Label /\ (pc'[u] # "idle" => pc[u] # "idle")
        /\ \A o \in Object : pc'[o] \in WorkerLabel
    BY <1>2 DEF Destruct
  <2>5. stopReq' \in [Object -> BOOLEAN]
    BY <1>2 DEF Destruct
  <2>6. \A c \in Actor : pc'[c] \in Holding => held'[c] # NoObject
    BY <1>2 DEF Destruct
  <2> QED
    BY <1>2, <2>1, <2>2, <2>4, <2>5, <2>6 DEF Destruct
<1>3. ASSUME NEW a \in Actor, Free(a)  PROVE TypeInv'
  BY <1>3 DEF Free, Forget, ends
<1>4. ASSUME NEW t \in Thread, NEW i \in Id, Create(t, i)  PROVE TypeInv'
  BY <1>4 DEF Create, Reserve, Untaken, Done, objects, ends
<1>5. ASSUME NEW t \in Thread, ReserveAgain(t)  PROVE TypeInv'
  BY <1>5 DEF ReserveAgain, Reserve, Untaken, Done, objects, ends
<1>6. ASSUME NEW t \in Thread, BuildFails(t)  PROVE TypeInv'
  BY <1>6 DEF BuildFails, Done, objects, ends
<1>7. ASSUME NEW t \in Thread, ConfigureThrows(t)  PROVE TypeInv'
  BY <1>7 DEF ConfigureThrows, Done, objects
<1>8. ASSUME NEW t \in Thread, Build(t)  PROVE TypeInv'
  BY <1>8 DEF Build, ends
<1>9. ASSUME NEW t \in Thread, Insert(t)  PROVE TypeInv'
  BY <1>9 DEF Insert, GoOn, objects, ends
<1>10. ASSUME NEW t \in Thread, NEW i \in Id, Recreate(t, i)  PROVE TypeInv'
  BY <1>10 DEF Recreate, Take, objects, ends
<1>11. ASSUME NEW t \in Thread, NEW i \in Id, Destroy(t, i)  PROVE TypeInv'
  BY <1>11 DEF Destroy, Take, objects, ends
<1>12. ASSUME NEW t \in Thread, Announce(t)  PROVE TypeInv'
  BY <1>12 DEF Announce, objects, ends
<1>13. ASSUME NEW t \in Thread, NEW i \in Id,
           NEW operation \in {"start", "stop", "use"}, Find(t, i, operation)
       PROVE  TypeInv'
  BY <1>13 DEF Find, Lookup, objects, ends
<1>14. ASSUME NEW t \in Thread, Use(t)  PROVE TypeInv'
  BY <1>14 DEF Use, objects, ends
<1>15. ASSUME NEW t \in Thread, Start(t)  PROVE TypeInv'
  BY <1>15 DEF Start, ends
<1>16. ASSUME NEW t \in Thread, StopRequest(t)  PROVE TypeInv'
  BY <1>16 DEF StopRequest, ends
<1>17. ASSUME NEW t \in Thread, StopJoin(t)  PROVE TypeInv'
  BY <1>17 DEF StopJoin, objects, ends
<1>18. ASSUME NEW t \in Thread, StopJoinTwice(t)  PROVE TypeInv'
  <2>1. pc' \in [Actor -> Label \cup WorkerLabel]
    BY <1>18 DEF StopJoinTwice, objects
  <2>3. aborted' = TRUE \/ aborted' = aborted
    BY <1>18 DEF StopJoinTwice, objects
  <2>4. aborted' \in BOOLEAN
    BY <2>3
  <2>2. /\ \A u \in Thread :
               pc'[u] \in Label /\ (pc'[u] # "idle" => pc[u] # "idle")
        /\ \A o \in Object : pc'[o] \in WorkerLabel
    BY <1>18 DEF StopJoinTwice, objects
  <2> QED
    BY <1>18, <2>1, <2>2, <2>4 DEF StopJoinTwice, objects
<1>19. ASSUME NEW t \in Thread, StopJoined(t)  PROVE TypeInv'
  BY <1>19 DEF StopJoined, objects, ends
<1>20. ASSUME NEW a \in Actor, PlainPush(a)  PROVE TypeInv'
  BY <1>20 DEF PlainPush, Publishing, AfterPublish, objects, ends
<1>21. ASSUME NEW a \in Actor, NEW i \in Id, VisualFind(a, i)  PROVE TypeInv'
  BY <1>21 DEF VisualFind, Publishing, AfterPublish, objects, ends
<1>22. ASSUME NEW a \in Actor, VisualModel(a)  PROVE TypeInv'
  BY <1>22 DEF VisualModel, objects, ends
<1>23. ASSUME NEW t \in Thread, EndRecreate(t)  PROVE TypeInv'
  BY <1>23 DEF EndRecreate, Done, objects, ends
<1>24. ASSUME NEW t \in Thread, StartRecreated(t)  PROVE TypeInv'
  BY <1>24 DEF StartRecreated, Lookup, objects, ends
<1>25. ASSUME NEW o \in Object, WorkerExit(o)  PROVE TypeInv'
  BY <1>25 DEF WorkerExit, objects, ends
<1>26. ASSUME NEW o \in Object, WorkerStep(o)  PROVE TypeInv'
  BY <1>26 DEF WorkerStep, objects, ends
<1>27. CASE UNCHANGED vars
  BY <1>27 DEF vars, objects, ends
<1> QED
  BY Steps, <1>1, <1>2, <1>3, <1>4, <1>5, <1>6, <1>7, <1>8, <1>9, <1>10,
     <1>11, <1>12, <1>13, <1>14, <1>15, <1>16, <1>17, <1>18, <1>19, <1>20,
     <1>21, <1>22, <1>23, <1>24, <1>25, <1>26, <1>27

-----------------------------------------------------------------------------
(* References and reservations *)

HoldsNothing == \A a \in Actor : pc[a] \in EmptyHanded => held[a] = NoObject

\* No reference dangles.
ReferencesLive ==
    /\ \A i \in Id : instances[i] # NoObject => instances[i] \in live
    /\ \A a \in Actor : held[a] # NoObject => held[a] \in live

\* A destructor runs alone: nobody can find the object any more, and an actor
\* that waits for its worker is not that worker.
DestroyedAlone ==
    \A a \in Actor :
        /\ pc[a] \in {"destroying", "joining"} => ~Shared(a)
        /\ pc[a] = "joining" => held[a] # a

\* An id under construction is reserved by one thread, and free in the map.
BuildingReserved ==
    /\ \A t \in Thread : pc[t] \in Building =>
           arg[t] \in pending /\ instances[arg[t]] = NoObject
    /\ \A t, u \in Thread :
           pc[t] \in Building /\ pc[u] \in Building /\ arg[t] = arg[u] => t = u

ManagerInv ==
    /\ TypeInv
    /\ HoldsNothing
    /\ ReferencesLive
    /\ DestroyedAlone
    /\ BuildingReserved
    /\ NoOrphanWorker

\* No object exists at first.
LEMMA InitManager == Init => ManagerInv
<1>1. ASSUME Init  PROVE \A a \in Actor : pc[a] \in {"idle", "none"}
  BY <1>1 DEF Init
<1>2. ASSUME Init  PROVE \A o \in Object : pc[o] = "none"
  BY <1>2, ConstantsAssumption DEF Init, Actor
<1> QED
  BY InitTypes, ConstantsAssumption, <1>1, <1>2
     DEF Init, Actor, Building, ManagerInv, HoldsNothing, ReferencesLive,
         DestroyedAlone, BuildingReserved, NoOrphanWorker

\* Most steps move one actor and touch neither the maps nor a shared_ptr.
LEMMA Moves ==
    ASSUME ManagerInv, TypeInv', NEW a \in Actor,
           UNCHANGED <<instances, pending, live, arg, held>>,
           \A b \in Actor \ {a} : pc'[b] = pc[b],
           pc[a] # "none",
           pc'[a] \notin Building \cup {"none", "destroying", "joining"},
           pc'[a] \in EmptyHanded => pc[a] \in EmptyHanded
    PROVE  ManagerInv'
<1> USE ConstantsAssumption DEF ManagerInv, TypeInv, TypeOK, Actor
<1>1. HoldsNothing'
  BY DEF HoldsNothing
<1>2. ReferencesLive'
  BY DEF ReferencesLive
<1>3. DestroyedAlone'
  BY DEF DestroyedAlone, Shared
<1>4. BuildingReserved'
  BY DEF BuildingReserved
<1>5. NoOrphanWorker'
  BY DEF NoOrphanWorker
<1> QED
  BY <1>1, <1>2, <1>3, <1>4, <1>5 DEF ManagerInv

\* A reference is dropped; the last one leads to the destructor.
LEMMA ReleaseManager ==
    ASSUME ManagerInv, TypeInv', NEW a \in Actor, Release(a)
    PROVE  ManagerInv'
<1> USE ConstantsAssumption
    DEF ManagerInv, TypeInv, TypeOK, Actor, Building, EmptyHanded, Holding,
        Onward, At, Goto, Loop, Label, WorkerLabel
<1>1. HoldsNothing'
  BY DEF Release, GoOn, objects, ends, HoldsNothing
<1>2. ReferencesLive'
  BY DEF Release, GoOn, objects, ends, ReferencesLive
<1>3. DestroyedAlone'
  BY DEF Release, GoOn, Shared, objects, ends, DestroyedAlone
<1>4. BuildingReserved'
  BY DEF Release, GoOn, objects, ends, BuildingReserved
<1>5. NoOrphanWorker'
  BY DEF Release, GoOn, Shared, objects, ends, NoOrphanWorker
<1> QED
  BY <1>1, <1>2, <1>3, <1>4, <1>5 DEF ManagerInv

\* The destructor joins the worker it has stopped.
LEMMA DestructManager ==
    ASSUME ManagerInv, TypeInv', NEW a \in Actor, Destruct(a)
    PROVE  ManagerInv'
<1> USE ConstantsAssumption
    DEF ManagerInv, TypeInv, TypeOK, Actor, Building, EmptyHanded, Holding,
        Onward, At, Goto, Loop, Label, WorkerLabel
<1>1. HoldsNothing'
  BY DEF Destruct, HoldsNothing
<1>2. ReferencesLive'
  BY DEF Destruct, ReferencesLive
<1>3. DestroyedAlone'
  BY DEF Destruct, DestroyedAlone, Shared
<1>4. BuildingReserved'
  BY DEF Destruct, BuildingReserved
<1>5. NoOrphanWorker'
  BY DEF Destruct, NoOrphanWorker
<1> QED
  BY <1>1, <1>2, <1>3, <1>4, <1>5 DEF ManagerInv

\* An object is freed with its worker gone and nobody holding it.
LEMMA FreeManager ==
    ASSUME ManagerInv, TypeInv', NEW a \in Actor, Free(a)
    PROVE  ManagerInv'
<1> USE ConstantsAssumption
    DEF ManagerInv, TypeInv, TypeOK, Actor, Building, EmptyHanded, Holding,
        Onward, At, Goto, Loop, Label, WorkerLabel
<1>1. HoldsNothing'
  BY DEF Free, Forget, ends, HoldsNothing
<1>2. ReferencesLive'
  BY DEF Free, Forget, ends, ReferencesLive, DestroyedAlone, Shared
<1>3. DestroyedAlone'
  BY DEF Free, Forget, ends, DestroyedAlone, Shared
<1>4. BuildingReserved'
  BY DEF Free, Forget, ends, BuildingReserved
<1>5. NoOrphanWorker'
  BY DEF Free, Forget, ends, NoOrphanWorker
<1> QED
  BY <1>1, <1>2, <1>3, <1>4, <1>5 DEF ManagerInv

\* create() reserves an id that is free.
LEMMA CreateManager ==
    ASSUME ManagerInv, TypeInv', NEW t \in Thread, NEW i \in Id, Create(t, i)
    PROVE  ManagerInv'
<1> USE ConstantsAssumption
    DEF ManagerInv, TypeInv, TypeOK, Actor, Building, EmptyHanded, Holding,
        Onward, At, Goto, Loop, Label, WorkerLabel
<1>1. HoldsNothing'
  BY DEF Create, Reserve, Untaken, Done, objects, ends, HoldsNothing
<1>2. ReferencesLive'
  BY DEF Create, Reserve, Untaken, Done, objects, ends, ReferencesLive
<1>3. DestroyedAlone'
  BY DEF Create, Reserve, Untaken, Done, objects, ends, DestroyedAlone, Shared
<1>4. BuildingReserved'
  BY DEF Create, Reserve, Untaken, Done, objects, ends, BuildingReserved
<1>5. NoOrphanWorker'
  BY DEF Create, Reserve, Untaken, Done, objects, ends, NoOrphanWorker
<1> QED
  BY <1>1, <1>2, <1>3, <1>4, <1>5 DEF ManagerInv

\* recreate() reserves the id it has emptied, if nobody else did.
LEMMA ReserveAgainManager ==
    ASSUME ManagerInv, TypeInv', NEW t \in Thread, ReserveAgain(t)
    PROVE  ManagerInv'
<1> USE ConstantsAssumption
    DEF ManagerInv, TypeInv, TypeOK, Actor, Building, EmptyHanded, Holding,
        Onward, At, Goto, Loop, Label, WorkerLabel
<1>1. HoldsNothing'
  BY DEF ReserveAgain, Reserve, Untaken, Done, objects, ends, HoldsNothing
<1>2. ReferencesLive'
  BY DEF ReserveAgain, Reserve, Untaken, Done, objects, ends, ReferencesLive
<1>3. DestroyedAlone'
  BY DEF ReserveAgain, Reserve, Untaken, Done, objects, ends, DestroyedAlone,
         Shared
<1>4. BuildingReserved'
  BY DEF ReserveAgain, Reserve, Untaken, Done, objects, ends, BuildingReserved
<1>5. NoOrphanWorker'
  BY DEF ReserveAgain, Reserve, Untaken, Done, objects, ends, NoOrphanWorker
<1> QED
  BY <1>1, <1>2, <1>3, <1>4, <1>5 DEF ManagerInv

\* A construction that throws gives its reservation up.
LEMMA BuildFailsManager ==
    ASSUME ManagerInv, TypeInv', NEW t \in Thread, BuildFails(t)
    PROVE  ManagerInv'
<1> USE ConstantsAssumption
    DEF ManagerInv, TypeInv, TypeOK, Actor, Building, EmptyHanded, Holding,
        Onward, At, Goto, Loop, Label, WorkerLabel
<1>1. HoldsNothing'
  BY DEF BuildFails, Done, objects, ends, HoldsNothing
<1>2. ReferencesLive'
  BY DEF BuildFails, Done, objects, ends, ReferencesLive
<1>3. DestroyedAlone'
  BY DEF BuildFails, Done, objects, ends, DestroyedAlone, Shared
<1>4. BuildingReserved'
  BY DEF BuildFails, Done, objects, ends, BuildingReserved
<1>5. NoOrphanWorker'
  BY DEF BuildFails, Done, objects, ends, NoOrphanWorker
<1> QED
  BY <1>1, <1>2, <1>3, <1>4, <1>5 DEF ManagerInv

\* A construction yields an object that only its thread holds.
LEMMA BuildManager ==
    ASSUME ManagerInv, TypeInv', NEW t \in Thread, Build(t)
    PROVE  ManagerInv'
<1> USE ConstantsAssumption
    DEF ManagerInv, TypeInv, TypeOK, Actor, Building, EmptyHanded, Holding,
        Onward, At, Goto, Loop, Label, WorkerLabel
<1>1. HoldsNothing'
  BY DEF Build, ends, HoldsNothing
<1>2. ReferencesLive'
  BY DEF Build, ends, ReferencesLive
<1>3. DestroyedAlone'
  BY DEF Build, ends, DestroyedAlone, Shared, ReferencesLive
<1>4. BuildingReserved'
  BY DEF Build, ends, BuildingReserved
<1>5. NoOrphanWorker'
  BY DEF Build, ends, NoOrphanWorker, HoldsNothing
<1> QED
  BY <1>1, <1>2, <1>3, <1>4, <1>5 DEF ManagerInv

\* The object goes into the map and the reservation is given up.
LEMMA InsertManager ==
    ASSUME ManagerInv, TypeInv', NEW t \in Thread, Insert(t)
    PROVE  ManagerInv'
<1> USE ConstantsAssumption
    DEF ManagerInv, TypeInv, TypeOK, Actor, Building, EmptyHanded, Holding,
        Onward, At, Goto, Loop, Label, WorkerLabel
<1>1. HoldsNothing'
  BY DEF Insert, GoOn, objects, ends, HoldsNothing
<1>2. ReferencesLive'
  BY DEF Insert, GoOn, objects, ends, ReferencesLive
<1>3. DestroyedAlone'
  BY DEF Insert, GoOn, objects, ends, DestroyedAlone, Shared
<1>4. BuildingReserved'
  BY DEF Insert, GoOn, objects, ends, BuildingReserved
<1>5. NoOrphanWorker'
  BY DEF Insert, GoOn, objects, ends, NoOrphanWorker, BuildingReserved
<1> QED
  BY <1>1, <1>2, <1>3, <1>4, <1>5 DEF ManagerInv

\* recreate() takes the old object out of the map.
LEMMA RecreateManager ==
    ASSUME ManagerInv, TypeInv', NEW t \in Thread, NEW i \in Id, Recreate(t, i)
    PROVE  ManagerInv'
<1> USE ConstantsAssumption
    DEF ManagerInv, TypeInv, TypeOK, Actor, Building, EmptyHanded, Holding,
        Onward, At, Goto, Loop, Label, WorkerLabel
<1>1. HoldsNothing'
  BY DEF Recreate, Take, objects, ends, HoldsNothing
<1>2. ReferencesLive'
  BY DEF Recreate, Take, objects, ends, ReferencesLive
<1>3. DestroyedAlone'
  BY DEF Recreate, Take, objects, ends, DestroyedAlone, Shared
<1>4. BuildingReserved'
  BY DEF Recreate, Take, objects, ends, BuildingReserved
<1>5. NoOrphanWorker'
  BY DEF Recreate, Take, objects, ends, NoOrphanWorker, HoldsNothing
<1> QED
  BY <1>1, <1>2, <1>3, <1>4, <1>5 DEF ManagerInv

\* destroy() moves the reference of the map to its own thread.
LEMMA DestroyManager ==
    ASSUME ManagerInv, TypeInv', NEW t \in Thread, NEW i \in Id, Destroy(t, i)
    PROVE  ManagerInv'
<1> USE ConstantsAssumption
    DEF ManagerInv, TypeInv, TypeOK, Actor, Building, EmptyHanded, Holding,
        Onward, At, Goto, Loop, Label, WorkerLabel
<1>1. HoldsNothing'
  BY DEF Destroy, Take, objects, ends, HoldsNothing
<1>2. ReferencesLive'
  BY DEF Destroy, Take, objects, ends, ReferencesLive
<1>3. DestroyedAlone'
  BY DEF Destroy, Take, objects, ends, DestroyedAlone, Shared
<1>4. BuildingReserved'
  BY DEF Destroy, Take, objects, ends, BuildingReserved
<1>5. NoOrphanWorker'
  BY DEF Destroy, Take, objects, ends, NoOrphanWorker, HoldsNothing
<1> QED
  BY <1>1, <1>2, <1>3, <1>4, <1>5 DEF ManagerInv

\* find_or_throw() copies the reference of the map.
LEMMA FindManager ==
    ASSUME ManagerInv, TypeInv', NEW t \in Thread, NEW i \in Id,
           NEW operation \in {"start", "stop", "use"}, Find(t, i, operation)
    PROVE  ManagerInv'
<1> USE ConstantsAssumption
    DEF ManagerInv, TypeInv, TypeOK, Actor, Building, EmptyHanded, Holding,
        Onward, At, Goto, Loop, Label, WorkerLabel
<1>1. HoldsNothing'
  BY DEF Find, Lookup, objects, ends, HoldsNothing
<1>2. ReferencesLive'
  BY DEF Find, Lookup, objects, ends, ReferencesLive
<1>3. DestroyedAlone'
  BY DEF Find, Lookup, objects, ends, DestroyedAlone, Shared
<1>4. BuildingReserved'
  BY DEF Find, Lookup, objects, ends, BuildingReserved
<1>5. NoOrphanWorker'
  BY DEF Find, Lookup, objects, ends, NoOrphanWorker, HoldsNothing
<1> QED
  BY <1>1, <1>2, <1>3, <1>4, <1>5 DEF ManagerInv

\* A start makes a worker in an object its thread holds.
LEMMA StartManager ==
    ASSUME ManagerInv, TypeInv', NEW t \in Thread, Start(t)
    PROVE  ManagerInv'
<1> USE ConstantsAssumption
    DEF ManagerInv, TypeInv, TypeOK, Actor, Building, EmptyHanded, Holding,
        Onward, At, Goto, Loop, Label, WorkerLabel
<1>1. HoldsNothing'
  BY DEF Start, ends, HoldsNothing
<1>2. ReferencesLive'
  BY DEF Start, ends, ReferencesLive
<1>3. DestroyedAlone'
  BY DEF Start, ends, DestroyedAlone, Shared
<1>4. BuildingReserved'
  BY DEF Start, ends, BuildingReserved
<1>5. NoOrphanWorker'
  BY DEF Start, ends, NoOrphanWorker, ReferencesLive
<1> QED
  BY <1>1, <1>2, <1>3, <1>4, <1>5 DEF ManagerInv

\* A stop joins the worker in an object its thread holds.
LEMMA StopJoinedManager ==
    ASSUME ManagerInv, TypeInv', NEW t \in Thread, StopJoined(t)
    PROVE  ManagerInv'
<1> USE ConstantsAssumption
    DEF ManagerInv, TypeInv, TypeOK, Actor, Building, EmptyHanded, Holding,
        Onward, At, Goto, Loop, Label, WorkerLabel
<1>1. HoldsNothing'
  BY DEF StopJoined, objects, ends, HoldsNothing
<1>2. ReferencesLive'
  BY DEF StopJoined, objects, ends, ReferencesLive
<1>3. DestroyedAlone'
  BY DEF StopJoined, objects, ends, DestroyedAlone, Shared
<1>4. BuildingReserved'
  BY DEF StopJoined, objects, ends, BuildingReserved
<1>5. NoOrphanWorker'
  BY DEF StopJoined, objects, ends, NoOrphanWorker
<1> QED
  BY <1>1, <1>2, <1>3, <1>4, <1>5 DEF ManagerInv

\* A worker that publishes looks its id up and holds what it finds.
LEMMA VisualFindManager ==
    ASSUME ManagerInv, TypeInv', NEW a \in Actor, NEW i \in Id,
           VisualFind(a, i)
    PROVE  ManagerInv'
<1> USE ConstantsAssumption
    DEF ManagerInv, TypeInv, TypeOK, Actor, Building, EmptyHanded, Holding,
        Onward, At, Goto, Loop, Label, WorkerLabel
<1>1. HoldsNothing'
  BY DEF VisualFind, Publishing, AfterPublish, objects, ends, HoldsNothing
<1>2. ReferencesLive'
  BY DEF VisualFind, Publishing, AfterPublish, objects, ends, ReferencesLive
<1>3. DestroyedAlone'
  BY DEF VisualFind, Publishing, AfterPublish, objects, ends, DestroyedAlone,
         Shared
<1>4. BuildingReserved'
  BY DEF VisualFind, Publishing, AfterPublish, objects, ends, BuildingReserved
<1>5. NoOrphanWorker'
  BY DEF VisualFind, Publishing, AfterPublish, objects, ends, NoOrphanWorker,
         HoldsNothing
<1> QED
  BY <1>1, <1>2, <1>3, <1>4, <1>5 DEF ManagerInv

\* A recreated instance starts again when the old one ran.
LEMMA StartRecreatedManager ==
    ASSUME ManagerInv, TypeInv', NEW t \in Thread, StartRecreated(t)
    PROVE  ManagerInv'
<1> USE ConstantsAssumption
    DEF ManagerInv, TypeInv, TypeOK, Actor, Building, EmptyHanded, Holding,
        Onward, At, Goto, Loop, Label, WorkerLabel
<1>1. HoldsNothing'
  BY DEF StartRecreated, Lookup, objects, ends, HoldsNothing
<1>2. ReferencesLive'
  BY DEF StartRecreated, Lookup, objects, ends, ReferencesLive
<1>3. DestroyedAlone'
  BY DEF StartRecreated, Lookup, objects, ends, DestroyedAlone, Shared
<1>4. BuildingReserved'
  BY DEF StartRecreated, Lookup, objects, ends, BuildingReserved
<1>5. NoOrphanWorker'
  BY DEF StartRecreated, Lookup, objects, ends, NoOrphanWorker, HoldsNothing
<1> QED
  BY <1>1, <1>2, <1>3, <1>4, <1>5 DEF ManagerInv

\* Every step keeps the invariant.
LEMMA NextManager ==
    ASSUME ManagerInv, [Next]_vars
    PROVE  ManagerInv'
<1>1. TypeInv'
  BY NextTypes DEF ManagerInv
<1>2. CASE UNCHANGED vars
  BY <1>1, <1>2
     DEF vars, objects, ends, ManagerInv, HoldsNothing, ReferencesLive,
         DestroyedAlone, BuildingReserved, NoOrphanWorker, Shared
<1>3. TypeInv
  BY DEF ManagerInv
<1>4. ASSUME NEW t \in Thread, ConfigureThrows(t)  PROVE ManagerInv'
  BY <1>1, <1>4, Moves, ConstantsAssumption
     DEF ConfigureThrows, Done, objects, At, Goto, Loop, Actor, TypeInv,
         TypeOK, ManagerInv, EmptyHanded, Building
<1>5. ASSUME NEW t \in Thread, Announce(t)  PROVE ManagerInv'
  BY <1>1, <1>5, Moves, ConstantsAssumption
     DEF Announce, objects, ends, At, Goto, Loop, Actor, TypeInv, TypeOK,
         ManagerInv, EmptyHanded, Building
<1>6. ASSUME NEW t \in Thread, Use(t)  PROVE ManagerInv'
  BY <1>1, <1>6, Moves, ConstantsAssumption
     DEF Use, objects, ends, At, Goto, Loop, Actor, TypeInv, TypeOK,
         ManagerInv, EmptyHanded, Building
<1>7. ASSUME NEW t \in Thread, StopRequest(t)  PROVE ManagerInv'
  BY <1>1, <1>7, Moves, ConstantsAssumption
     DEF StopRequest, ends, At, Goto, Loop, Actor, TypeInv, TypeOK,
         ManagerInv, EmptyHanded, Building
<1>8. ASSUME NEW t \in Thread, StopJoin(t)  PROVE ManagerInv'
  BY <1>1, <1>8, Moves, ConstantsAssumption
     DEF StopJoin, objects, ends, At, Goto, Loop, Actor, TypeInv, TypeOK,
         ManagerInv, EmptyHanded, Building
<1>9. ASSUME NEW t \in Thread, StopJoinTwice(t)  PROVE ManagerInv'
  BY <1>1, <1>9, Moves, ConstantsAssumption
     DEF StopJoinTwice, objects, At, Goto, Loop, Actor, TypeInv, TypeOK,
         ManagerInv, EmptyHanded, Building
<1>10. ASSUME NEW a \in Actor, PlainPush(a)  PROVE ManagerInv'
  BY <1>1, <1>10, Moves, ConstantsAssumption
     DEF PlainPush, Publishing, AfterPublish, objects, ends, At, Goto, Loop,
         Actor, TypeInv, TypeOK, ManagerInv, EmptyHanded, Building
<1>11. ASSUME NEW a \in Actor, VisualModel(a)  PROVE ManagerInv'
  BY <1>1, <1>11, Moves, ConstantsAssumption
     DEF VisualModel, objects, ends, At, Goto, Loop, Actor, TypeInv, TypeOK,
         ManagerInv, EmptyHanded, Building
<1>12. ASSUME NEW t \in Thread, EndRecreate(t)  PROVE ManagerInv'
  BY <1>1, <1>12, Moves, ConstantsAssumption
     DEF EndRecreate, Done, objects, ends, At, Goto, Loop, Actor, TypeInv,
         TypeOK, ManagerInv, EmptyHanded, Building
<1>13. ASSUME NEW o \in Object, WorkerExit(o)  PROVE ManagerInv'
  BY <1>1, <1>13, Moves, ConstantsAssumption
     DEF WorkerExit, objects, ends, At, Goto, Loop, Actor, TypeInv, TypeOK,
         ManagerInv, EmptyHanded, Building
<1>14. ASSUME NEW o \in Object, WorkerStep(o)  PROVE ManagerInv'
  BY <1>1, <1>14, Moves, ConstantsAssumption
     DEF WorkerStep, objects, ends, At, Goto, Loop, Actor, TypeInv, TypeOK,
         ManagerInv, EmptyHanded, Building
<1> QED
  BY <1>1, <1>2, <1>3, <1>4, <1>5, <1>6, <1>7, <1>8, <1>9, <1>10, <1>11,
     <1>12, <1>13, <1>14, Steps, ReleaseManager, DestructManager, FreeManager,
     CreateManager, ReserveAgainManager, BuildFailsManager, BuildManager,
     InsertManager, RecreateManager, DestroyManager, FindManager,
     StartManager, StopJoinedManager, VisualFindManager, StartRecreatedManager

\* It holds of every behaviour.
LEMMA ManagerAlways == Spec => []ManagerInv
<1>1. Init => ManagerInv
  BY InitManager
<1>2. ManagerInv /\ [Next]_vars => ManagerInv'
  BY NextManager
<1> QED
  BY <1>1, <1>2, PTL DEF Spec

-----------------------------------------------------------------------------
(* Theorems *)

\* What the variables of simulation_instance_manager.cpp hold keeps its type.
THEOREM TypeCorrect == Spec => []TypeOK
<1>1. ManagerInv => TypeOK
  BY DEF ManagerInv, TypeInv
<1> QED
  BY <1>1, ManagerAlways, PTL

\* create() and recreate() reserve their id under the lock and build outside
\* it: whatever other handlers do meanwhile, the id is free in the map when the
\* instance goes in, and no running instance is overwritten.
THEOREM InsertFree == Spec => []InsertFindsIdFree
<1>1. ManagerInv => InsertFindsIdFree
  BY DEF ManagerInv, BuildingReserved, InsertFindsIdFree
<1> QED
  BY <1>1, ManagerAlways, PTL

\* The destructor raises the stop flag and joins before it frees: an object
\* whose worker exists is alive, and in the map or in somebody's hands.
THEOREM NoOrphans == Spec => []NoOrphanWorker
<1>1. ManagerInv => NoOrphanWorker
  BY DEF ManagerInv
<1> QED
  BY <1>1, ManagerAlways, PTL

=============================================================================
