--------------------------- MODULE InstanceManager ---------------------------
(***************************************************************************)
(* SimulationInstanceManager (src/source/simulation_instance_manager.cpp)  *)
(* with the handlers of SimulationPlug that call it: which instance object *)
(* an id stands for, who holds a shared_ptr to it, and on which thread its *)
(* destructor runs.                                                        *)
(*                                                                         *)
(* An actor is a gateway thread running a handler, or the worker thread of *)
(* an instance object, named by the object.  The worker calls the          *)
(* publisher, SimulationPlug::publish_state, and that looks the instance   *)
(* up again by its id for the visual payload: a worker can hold a          *)
(* shared_ptr too, even to its own object.                                 *)
(*                                                                         *)
(* What the methods do inside one instance is the subject of Instance;     *)
(* here start() and stop() keep their effect on the worker, and every      *)
(* other method is "use".                                                  *)
(***************************************************************************)
EXTENDS FiniteSets

CONSTANTS
    Thread,    \* the gateway threads that run RPC handlers
    Id,        \* instance ids that clients name
    Object,    \* identities of SimulationInstance objects, and their workers
    NoObject,  \* a null shared_ptr
    NoId

ASSUME ConstantsAssumption ==
    /\ Thread \cap Object = {}
    /\ NoObject \notin Object
    /\ NoId \notin Id

Actor == Thread \cup Object

VARIABLES
    instances,    \* instances_: the object mapped to each id
    pending,      \* pending_: the ids reserved by create()
    live,         \* the objects that exist
    stopReq,      \* stop_requested_ of each object
    owner,        \* the id each object was created with
    pc,           \* where each actor is ("none": no such thread)
    arg,          \* the id the handler of each gateway thread was called with
    held,         \* the shared_ptr each actor holds
    ret,          \* where the actor goes on after it has released it
    leaked,       \* history: reservations whose create() threw in configure()
    aborted       \* the process has terminated

objects == <<live, stopReq, owner>>
ends == <<leaked, aborted>>
vars == <<instances, pending, objects, pc, arg, held, ret, ends>>

Building == {"build", "insert"}
Label == Building \cup
         {"idle", "use", "start", "stop", "stopping", "waiting", "release",
          "destroying", "joining", "reserve", "announce", "publish",
          "publishNew", "visual", "recreated"}
WorkerLabel == {"none", "looping", "publish", "visual", "release",
                "destroying", "joining", "exited"}

TypeOK ==
    /\ instances \in [Id -> Object \cup {NoObject}]
    /\ pending \subseteq Id
    /\ live \subseteq Object
    /\ stopReq \in [Object -> BOOLEAN]
    /\ owner \in [Object -> Id \cup {NoId}]
    /\ \A t \in Thread : pc[t] \in Label
    /\ \A o \in Object : pc[o] \in WorkerLabel
    /\ arg \in [Thread -> Id \cup {NoId}]
    /\ held \in [Actor -> Object \cup {NoObject}]
    /\ ret \in [Actor -> Label \cup WorkerLabel]
    /\ leaked \subseteq Id
    /\ aborted \in BOOLEAN

\* Where an actor is between two calls of its handler or loop.
Loop(a) == IF a \in Thread THEN "idle" ELSE "looping"

Init ==
    /\ instances = [i \in Id |-> NoObject]
    /\ pending = {}
    /\ live = {}
    /\ stopReq = [o \in Object |-> FALSE]
    /\ owner = [o \in Object |-> NoId]
    /\ pc = [a \in Actor |-> IF a \in Thread THEN "idle" ELSE "none"]
    /\ arg = [t \in Thread |-> NoId]
    /\ held = [a \in Actor |-> NoObject]
    /\ ret = [a \in Actor |-> Loop(a)]
    /\ leaked = {}
    /\ aborted = FALSE

At(a, label) == ~aborted /\ pc[a] = label
Goto(a, label) == pc' = [pc EXCEPT ![a] = label]

\* The call or the round of the loop ends, by a return or an exception.
Done(a) == Goto(a, Loop(a)) /\ ret' = [ret EXCEPT ![a] = Loop(a)]

\* Another actor, or the map, shares the object actor a holds.
Shared(a) ==
    \/ \E b \in Actor \ {a} : held[b] = held[a]
    \/ \E i \in Id : instances[i] = held[a]

-----------------------------------------------------------------------------
(* shared_ptr and the destructor.  Releasing the last reference runs        *)
(* ~SimulationInstance on the releasing thread: request_worker_stop().      *)

\* The reference is gone: on to where the actor was going.
GoOn(a) ==
    /\ pc' = [pc EXCEPT ![a] = ret[a]]
    /\ held' = [held EXCEPT ![a] = NoObject]
    /\ ret' = [ret EXCEPT ![a] = Loop(a)]

Release(a) ==
    /\ At(a, "release")
    /\ IF held[a] = NoObject \/ Shared(a)
       THEN GoOn(a)
       ELSE Goto(a, "destroying") /\ UNCHANGED <<held, ret>>
    /\ UNCHANGED <<instances, pending, objects, arg, ends>>

\* Mutant: the destructor joins without raising the flag.
DestructUnflagged(a) ==
    /\ At(a, "destroying")
    /\ IF held[a] = a
       THEN aborted' = TRUE /\ UNCHANGED pc
       ELSE Goto(a, "joining") /\ UNCHANGED aborted
    /\ UNCHANGED <<instances, pending, objects, arg, held, ret, leaked>>

\* The destructor raises the flag.  Joining one's own thread makes
\* std::thread::join throw out of a destructor: the process terminates.
Destruct(a) ==
    /\ At(a, "destroying")
    /\ stopReq' = [stopReq EXCEPT ![held[a]] = TRUE]
    /\ IF held[a] = a
       THEN aborted' = TRUE /\ UNCHANGED pc
       ELSE Goto(a, "joining") /\ UNCHANGED aborted
    /\ UNCHANGED <<instances, pending, live, owner, arg, held, ret, leaked>>

\* The object's memory is freed; its identity may be used again.
Forget(o) ==
    /\ live' = live \ {o}
    /\ stopReq' = [stopReq EXCEPT ![o] = FALSE]
    /\ owner' = [owner EXCEPT ![o] = NoId]

\* Mutant: the destructor does not wait for the worker.
FreeDetached(a) ==
    /\ At(a, "joining")
    /\ Forget(held[a])
    /\ GoOn(a)
    /\ UNCHANGED <<instances, pending, arg, ends>>

\* The worker was joined, or never existed: the object is freed.
Free(a) ==
    /\ At(a, "joining")
    /\ pc[held[a]] \in {"none", "exited"}
    /\ Forget(held[a])
    /\ pc' = [pc EXCEPT ![a] = ret[a], ![held[a]] = "none"]
    /\ held' = [held EXCEPT ![a] = NoObject]
    /\ ret' = [ret EXCEPT ![a] = Loop(a), ![held[a]] = Loop(held[a])]
    /\ UNCHANGED <<instances, pending, arg, ends>>

-----------------------------------------------------------------------------
(* create() *)

\* Mutant: only finished instances refuse an id.
UntakenByInstance(i) == instances[i] = NoObject

Untaken(i) == instances[i] = NoObject /\ i \notin pending

\* The id is reserved under the lock; a taken id throws.
Reserve(t, i, next) ==
    /\ IF Untaken(i)
       THEN /\ pending' = pending \cup {i}
            /\ Goto(t, "build")
            /\ ret' = [ret EXCEPT ![t] = next]
       ELSE UNCHANGED pending /\ Done(t)
    /\ UNCHANGED <<instances, objects, held, ends>>

Create(t, i) ==
    /\ At(t, "idle")
    /\ arg' = [arg EXCEPT ![t] = i]
    /\ Reserve(t, i, "publish")

\* The second half of recreate().
ReserveAgain(t) ==
    /\ At(t, "reserve")
    /\ Reserve(t, arg[t], "publishNew")
    /\ UNCHANGED arg

\* SimulationInstance::create() found no model: the reservation is undone.
BuildFails(t) ==
    /\ At(t, "build")
    /\ pending' = pending \ {arg[t]}
    /\ Done(t)
    /\ UNCHANGED <<instances, objects, arg, held, ends>>

\* The object exists but configure() throws, which nothing catches here: the
\* unique_ptr frees the object and the reservation stays.
ConfigureThrows(t) ==
    /\ At(t, "build")
    /\ leaked' = leaked \cup {arg[t]}
    /\ Done(t)
    /\ UNCHANGED <<instances, pending, objects, arg, held, aborted>>

\* Bound: an object identity is free.
Build(t) ==
    /\ At(t, "build")
    /\ \E o \in Object \ live :
           /\ live' = live \cup {o}
           /\ stopReq' = [stopReq EXCEPT ![o] = FALSE]
           /\ owner' = [owner EXCEPT ![o] = arg[t]]
           /\ held' = [held EXCEPT ![t] = o]
    /\ Goto(t, "insert")
    /\ UNCHANGED <<instances, pending, arg, ret, ends>>

\* instances_[id] = move(instance): were the id taken, its object would go.
Insert(t) ==
    /\ At(t, "insert")
    /\ instances' = [instances EXCEPT ![arg[t]] = held[t]]
    /\ pending' = pending \ {arg[t]}
    /\ GoOn(t)
    /\ UNCHANGED <<objects, arg, ends>>

-----------------------------------------------------------------------------
(* recreate() and destroy(): the entry is moved out of the map under the    *)
(* lock, everything else happens outside it.                                *)

Take(t, i) ==
    /\ instances' = [instances EXCEPT ![i] = NoObject]
    /\ held' = [held EXCEPT ![t] = instances[i]]
    /\ arg' = [arg EXCEPT ![t] = i]

Recreate(t, i) ==
    /\ At(t, "idle")
    /\ Take(t, i)
    /\ IF instances[i] = NoObject
       THEN Goto(t, "reserve") /\ UNCHANGED ret
       ELSE Goto(t, "stop") /\ ret' = [ret EXCEPT ![t] = "reserve"]
    /\ UNCHANGED <<pending, objects, ends>>

Destroy(t, i) ==
    /\ At(t, "idle")
    /\ instances[i] # NoObject
    /\ Take(t, i)
    /\ ret' = [ret EXCEPT ![t] = "announce"]
    /\ Goto(t, "release")
    /\ UNCHANGED <<pending, objects, ends>>

\* The "destroyed" event carries no visual payload.
Announce(t) ==
    /\ At(t, "announce")
    /\ Goto(t, "idle")
    /\ UNCHANGED <<instances, pending, objects, arg, held, ret, ends>>

-----------------------------------------------------------------------------
(* Every other handler: find_or_throw(), the method, release, publish. *)

Lookup(t, i, operation) ==
    /\ instances[i] # NoObject
    /\ held' = [held EXCEPT ![t] = instances[i]]
    /\ arg' = [arg EXCEPT ![t] = i]
    /\ ret' = [ret EXCEPT ![t] = "publish"]
    /\ Goto(t, operation)
    /\ UNCHANGED <<instances, pending, objects, ends>>

Find(t, i, operation) ==
    /\ At(t, "idle")
    /\ Lookup(t, i, operation)

Use(t) ==
    /\ At(t, "use")
    /\ Goto(t, "release")
    /\ UNCHANGED <<instances, pending, objects, arg, held, ret, ends>>

\* SimulationInstance::start(): the flag, and a worker unless one is joinable.
Start(t) ==
    /\ At(t, "start")
    /\ stopReq' = [stopReq EXCEPT ![held[t]] = FALSE]
    /\ pc' = [pc EXCEPT ![t] = "release",
                        ![held[t]] = IF @ = "none" THEN "looping" ELSE @]
    /\ UNCHANGED <<instances, pending, live, owner, arg, held, ret, ends>>

\* SimulationInstance::stop(), also the first half of recreate().
StopRequest(t) ==
    /\ At(t, "stop")
    /\ stopReq' = [stopReq EXCEPT ![held[t]] = TRUE]
    /\ Goto(t, "stopping")
    /\ UNCHANGED <<instances, pending, live, owner, arg, held, ret, ends>>

Joining(o) == \E u \in Thread : held[u] = o /\ pc[u] = "waiting"

StopJoin(t) ==
    /\ At(t, "stopping")
    /\ ~Joining(held[t])
    /\ Goto(t, IF pc[held[t]] = "none" THEN "release" ELSE "waiting")
    /\ UNCHANGED <<instances, pending, objects, arg, held, ret, ends>>

\* Two joins of one thread (see Instance): the call fails, or the process.
StopJoinTwice(t) ==
    /\ At(t, "stopping")
    /\ Joining(held[t])
    /\ \/ /\ Goto(t, "release")
          /\ ret' = [ret EXCEPT ![t] = "idle"]
          /\ UNCHANGED aborted
       \/ aborted' = TRUE /\ UNCHANGED <<pc, ret>>
    /\ UNCHANGED <<instances, pending, objects, arg, held, leaked>>

StopJoined(t) ==
    /\ At(t, "waiting")
    /\ pc[held[t]] = "exited"
    /\ pc' = [pc EXCEPT ![t] = "release", ![held[t]] = "none"]
    /\ UNCHANGED <<instances, pending, objects, arg, held, ret, ends>>

-----------------------------------------------------------------------------
(* publish_state(): the event, and for a session that asked for it the      *)
(* visual payload of whatever instance the id stands for by then.           *)

Publishing(a) == At(a, "publish") \/ At(a, "publishNew")

\* Where publish_state() returns to.
AfterPublish(a) == IF pc[a] = "publishNew" THEN "recreated" ELSE Loop(a)

PlainPush(a) ==
    /\ Publishing(a)
    /\ Goto(a, AfterPublish(a))
    /\ UNCHANGED <<instances, pending, objects, arg, held, ret, ends>>

VisualFind(a, i) ==
    /\ Publishing(a)
    /\ instances[i] # NoObject
    /\ held' = [held EXCEPT ![a] = instances[i]]
    /\ ret' = [ret EXCEPT ![a] = AfterPublish(a)]
    /\ Goto(a, "visual")
    /\ UNCHANGED <<instances, pending, objects, arg, ends>>

VisualModel(a) ==
    /\ At(a, "visual")
    /\ Goto(a, "release")
    /\ UNCHANGED <<instances, pending, objects, arg, held, ret, ends>>

\* recreate_from_scene ends, or with "start" starts the id it has recreated:
\* the lookup throws when the id has gone meanwhile.
EndRecreate(t) ==
    /\ At(t, "recreated")
    /\ Done(t)
    /\ UNCHANGED <<instances, pending, objects, arg, held, ends>>

StartRecreated(t) ==
    /\ At(t, "recreated")
    /\ Lookup(t, arg[t], "start")

Publish(t) ==
    \/ PlainPush(t)
    \/ VisualFind(t, arg[t])
    \/ VisualModel(t)
    \/ EndRecreate(t)
    \/ StartRecreated(t)

-----------------------------------------------------------------------------
(* worker_loop() of object o *)

WorkerExit(o) ==
    /\ At(o, "looping")
    /\ stopReq[o]
    /\ Goto(o, "exited")
    /\ UNCHANGED <<instances, pending, objects, arg, held, ret, ends>>

WorkerStep(o) ==
    /\ At(o, "looping")
    /\ ~stopReq[o]
    /\ Goto(o, "publish")
    /\ UNCHANGED <<instances, pending, objects, arg, held, ret, ends>>

Worker(o) ==
    \/ WorkerExit(o)
    \/ WorkerStep(o)
    \/ PlainPush(o)
    \/ owner[o] # NoId /\ VisualFind(o, owner[o])
    \/ VisualModel(o)

-----------------------------------------------------------------------------
Call(t) ==
    \E i \in Id :
        \/ Create(t, i)
        \/ Recreate(t, i)
        \/ Destroy(t, i)
        \/ \E operation \in {"start", "stop", "use"} : Find(t, i, operation)

Continue(t) ==
    \/ ReserveAgain(t)
    \/ BuildFails(t)
    \/ ConfigureThrows(t)
    \/ Build(t)
    \/ Insert(t)
    \/ Announce(t)
    \/ Use(t)
    \/ Start(t)
    \/ StopRequest(t)
    \/ StopJoin(t)
    \/ StopJoinTwice(t)
    \/ StopJoined(t)
    \/ Publish(t)

Reference(a) == Release(a) \/ Destruct(a) \/ Free(a)

Dead == aborted /\ UNCHANGED vars

Next ==
    \/ \E t \in Thread : Call(t) \/ Continue(t)
    \/ \E o \in Object : Worker(o)
    \/ \E a \in Actor : Reference(a)
    \/ Dead

\* A handler that has begun and a worker thread keep running.
Fairness ==
    /\ \A t \in Thread : WF_vars(Continue(t))
    /\ \A o \in Object : WF_vars(Worker(o))
    /\ \A a \in Actor : WF_vars(Reference(a))

Spec == Init /\ [][Next]_vars
FairSpec == Spec /\ Fairness

-----------------------------------------------------------------------------
(* Properties *)

\* Two creations of one id never both get through: an instance that finishes
\* its construction finds its id free, and no live object falls out of the
\* map unstopped.
InsertFindsIdFree ==
    \A t \in Thread : pc[t] \in Building => instances[arg[t]] = NoObject

\* No simulation runs on unseen: an object with a worker thread exists, and
\* can be reached through the map or is held by an actor still to release it.
NoOrphanWorker ==
    \A o \in Object :
        pc[o] # "none" =>
            /\ o \in live
            /\ \/ \E i \in Id : instances[i] = o
               \/ \E a \in Actor : held[a] = o

\* A destructor that has begun returns: no cycle of destructors, each waiting
\* for the worker that runs the next, can form.
DestructorReturns ==
    \A a \in Actor : (pc[a] = "joining") ~> (pc[a] # "joining" \/ aborted)

=============================================================================
