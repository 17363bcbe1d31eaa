------------------------------- MODULE Scenes --------------------------------
(***************************************************************************)
(* The handlers of SimulationPlug (src/source/simulation_plug.cpp) that    *)
(* read a scene, compile it and build an instance of it: scene.apply,      *)
(* instance.create, instance.recreate_from_scene, and model.remove, which  *)
(* asks the scenes first.  Each is a sequence of calls to                  *)
(* SimulationSceneManager, SimulationModelRegistry, SimulationCompiler and *)
(* SimulationInstanceManager, and only the calls are atomic.               *)
(*                                                                         *)
(* A scene is what decides its compiled model, here the version of the     *)
(* asset it places, and its initial_state.  The registry is the set of     *)
(* versions it can resolve (ModelRegistry has its files), compile_scene a  *)
(* call that returns or throws (ModelCache has its cache).                 *)
(*                                                                         *)
(* Two things are assumed of the inputs.  Every initial_state names the    *)
(* same arrays: one that apply_runtime() is not given keeps its value.     *)
(* instance.create and recreate_from_scene carry no array of their own:    *)
(* build_instance_config() would let it win over the scene's.              *)
(***************************************************************************)
EXTENDS Integers, FiniteSets, FiniteSetsExt

CONSTANTS
    Thread,
    Scene,
    Instance,
    Version,     \* the versions of the asset, in their order
    Runtime,     \* values of initial_state
    Unpinned,    \* a reference without a version
    None

Content == [structure : Version \cup {Unpinned}, runtime : Runtime]

ASSUME ConstantsAssumption ==
    /\ Version \subseteq Int /\ IsFiniteSet(Version)
    /\ Unpinned \notin Version
    /\ None \notin Content \cup Version
    /\ Scene # {} /\ Instance # {} /\ Version # {} /\ Runtime # {}

VARIABLES
    scenes,      \* scenes_ of the scene manager
    registered,  \* the versions in entries_ of the registry
    instances,   \* what each instance was built from and last given
    pc,          \* where each handler is
    job,         \* its locals
    drift,       \* history: instances not known to agree with their scene
    owed,        \* history: instances scene.apply has still to recreate
    overtaken    \* history: model.remove calls overtaken by a change

history == <<drift, owed, overtaken>>
vars == <<scenes, registered, instances, pc, job, history>>

NoJob == [scene |-> None, instance |-> None, new |-> None, old |-> None,
          recreate |-> FALSE, version |-> None, latest |-> None]

Built == [scene : Scene, version : Version, runtime : Runtime]

Job == [scene : Scene \cup {None}, instance : Instance \cup {None},
        new : Content \cup {None}, old : Content \cup {None},
        recreate : BOOLEAN, version : Version \cup {None},
        latest : Version \cup {None}]

\* The handlers about a scene and an instance, and those that have resolved a
\* version or were asked to remove it.
Scened == {"update", "compile", "discard", "build", "runtime"}
Versioned == {"discard", "build", "check", "remove"}

\* A handler has its scene, instance and version when it comes to use them.
TypeOK ==
    /\ scenes \in [Scene -> Content \cup {None}]
    /\ registered \subseteq Version
    /\ instances \in [Instance -> Built \cup {None}]
    /\ pc \in [Thread -> Scened \cup Versioned \cup {"idle"}]
    /\ job \in [Thread -> Job]
    /\ \A t \in Thread :
           /\ pc[t] \in Scened => /\ job[t].scene \in Scene
                                 /\ job[t].instance \in Instance
                                 /\ job[t].new \in Content
           /\ pc[t] \in Versioned => job[t].version \in Version
           /\ pc[t] = "update" => job[t].old \in Content
    /\ drift \subseteq Instance
    /\ owed \subseteq Instance
    /\ overtaken \subseteq Thread

Init ==
    /\ scenes = [s \in Scene |-> None]
    /\ registered = Version
    /\ instances = [i \in Instance |-> None]
    /\ pc = [t \in Thread |-> "idle"]
    /\ job = [t \in Thread |-> NoJob]
    /\ drift = {}
    /\ owed = {}
    /\ overtaken = {}

-----------------------------------------------------------------------------
(* resolve_locked(): a pinned version or the latest one. *)

LatestIn(versions) == IF versions = {} THEN None ELSE Max(versions)

ResolveIn(versions, content) ==
    IF content.structure = Unpinned THEN LatestIn(versions)
    ELSE IF content.structure \in versions THEN content.structure ELSE None

Resolve(content) == ResolveIn(registered, content)

Goto(t, label) == pc' = [pc EXCEPT ![t] = label]

Return(t) ==
    /\ Goto(t, "idle")
    /\ job' = [job EXCEPT ![t] = NoJob]

Of(s) == {i \in Instance : instances[i] # None /\ instances[i].scene = s}

\* The instances whose scene would resolve to another version.
Shifted(versions) ==
    {i \in Instance :
        /\ instances[i] # None
        /\ LET c == scenes[instances[i].scene]
           IN  c # None /\ ResolveIn(versions, c) # Resolve(c)}

Removing == {t \in Thread : pc[t] \in {"check", "remove"}}

\* scenes_[s] becomes c, in one critical section, and of the instances of s
\* only those in `kept` will be told.
SetScene(s, c, kept) ==
    /\ scenes' = [scenes EXCEPT ![s] = c]
    /\ drift' = drift \cup (Of(s) \ kept)
    /\ overtaken' = overtaken \cup Removing

-----------------------------------------------------------------------------
(* scene.load, scene.create, scene.update and scene.unload; model.register;  *)
(* instance.destroy: one critical section each. *)

EditScene(s, c) ==
    /\ c # scenes[s]
    /\ SetScene(s, c, {})
    /\ owed' = owed \ Of(s)
    /\ UNCHANGED <<registered, instances, pc, job>>

Register(v) ==
    /\ v \notin registered
    /\ registered' = registered \cup {v}
    /\ drift' = drift \cup Shifted(registered \cup {v})
    /\ overtaken' = overtaken \cup Removing
    /\ UNCHANGED <<scenes, instances, pc, job, owed>>

Destroy(i) ==
    /\ instances[i] # None
    /\ instances' = [instances EXCEPT ![i] = None]
    /\ owed' = owed \ {i}
    /\ UNCHANGED <<scenes, registered, pc, job, drift, overtaken>>

-----------------------------------------------------------------------------
(* scene.apply *)

\* info(), the merge, resolve_scene() and validate_scene(): what throws or
\* reports here has changed nothing.
ApplyRead(t, s, i, patch) ==
    /\ pc[t] = "idle"
    /\ scenes[s] # None
    /\ Resolve(patch) # None
    /\ job' = [job EXCEPT ![t] = [NoJob EXCEPT !.scene = s, !.instance = i,
                                      !.old = scenes[s], !.new = patch]]
    /\ Goto(t, "update")
    /\ UNCHANGED <<scenes, registered, instances, history>>

\* Mutant: everything can be applied at runtime.
NeverRecreates(old, new) == FALSE

\* diff_scenes()
RequiresRecreate(old, new) == old.structure # new.structure

\* update() with the whole merged scene, decided by the diff with the scene
\* that info() returned.
ApplyUpdate(t) ==
    LET s == job[t].scene
        recreate == RequiresRecreate(job[t].old, job[t].new)
    IN  /\ pc[t] = "update"
        /\ scenes[s] # None
        /\ SetScene(s, job[t].new,
                    IF recreate \/ scenes[s] # job[t].old THEN {}
                    ELSE {job[t].instance})
        /\ job' = [job EXCEPT ![t].recreate = TRUE, ![t].old = None]
        /\ owed' = IF recreate THEN owed \cup (Of(s) \cap {job[t].instance})
                    ELSE owed
        /\ Goto(t, IF recreate THEN "compile" ELSE "runtime")
        /\ UNCHANGED <<registered, instances>>

\* update() finds the scene unloaded.
ApplyUpdateFails(t) ==
    /\ pc[t] = "update"
    /\ scenes[job[t].scene] = None
    /\ Return(t)
    /\ UNCHANGED <<scenes, registered, instances, history>>

\* apply_runtime(), or it throws: no such instance, or qpos of a wrong size.
ApplyRuntime(t) ==
    LET i == job[t].instance IN
    /\ pc[t] = "runtime"
    /\ instances[i] # None
    /\ instances' = [instances EXCEPT ![i].runtime = job[t].new.runtime]
    /\ drift' = IF /\ scenes[job[t].scene] = job[t].new
                   /\ instances[i].scene = job[t].scene
                THEN drift ELSE drift \cup {i}
    /\ Return(t)
    /\ UNCHANGED <<scenes, registered, owed, overtaken>>

ApplyRuntimeFails(t) ==
    /\ pc[t] = "runtime"
    /\ drift' = drift \cup {job[t].instance}
    /\ Return(t)
    /\ UNCHANGED <<scenes, registered, instances, owed, overtaken>>

-----------------------------------------------------------------------------
(* instance.create and instance.recreate_from_scene, and the part of         *)
(* scene.apply they have in common *)

ReadScene(t, s, i, recreate) ==
    /\ pc[t] = "idle"
    /\ scenes[s] # None
    /\ job' = [job EXCEPT ![t] = [NoJob EXCEPT !.scene = s, !.instance = i,
                                      !.new = scenes[s], !.recreate = recreate]]
    /\ Goto(t, "compile")
    /\ UNCHANGED <<scenes, registered, instances, history>>

\* resolve_scene() and compile_scene()
Compile(t) ==
    /\ pc[t] = "compile"
    /\ Resolve(job[t].new) # None
    /\ job' = [job EXCEPT ![t].version = Resolve(job[t].new)]
    /\ Goto(t, IF job[t].recreate THEN "discard" ELSE "build")
    /\ UNCHANGED <<scenes, registered, instances, history>>

CompileFails(t) ==
    /\ pc[t] = "compile"
    /\ Return(t)
    /\ UNCHANGED <<scenes, registered, instances, history>>

\* recreate(): the old instance goes before there is a new one.
Discard(t) ==
    /\ pc[t] = "discard"
    /\ instances' = [instances EXCEPT ![job[t].instance] = None]
    /\ owed' = owed \ {job[t].instance}
    /\ Goto(t, "build")
    /\ UNCHANGED <<scenes, registered, job, drift, overtaken>>

Build(t) ==
    LET i == job[t].instance
        s == job[t].scene
    IN  /\ pc[t] = "build"
        /\ instances[i] = None
        /\ instances' = [instances EXCEPT ![i] =
               [scene |-> s, version |-> job[t].version,
                runtime |-> job[t].new.runtime]]
        /\ drift' = IF /\ scenes[s] = job[t].new
                       /\ Resolve(job[t].new) = job[t].version
                    THEN drift \ {i} ELSE drift \cup {i}
        /\ Return(t)
        /\ owed' = owed \ {i}
        /\ UNCHANGED <<scenes, registered, overtaken>>

\* The id is taken, or mj_makeData() or configure() fails.
BuildFails(t) ==
    /\ pc[t] = "build"
    /\ Return(t)
    /\ UNCHANGED <<scenes, registered, instances, history>>

-----------------------------------------------------------------------------
(* model.remove *)

ReadLatest(t, v) ==
    /\ pc[t] = "idle"
    /\ job' = [job EXCEPT ![t] = [NoJob EXCEPT !.version = v,
                                      !.latest = LatestIn(registered)]]
    /\ Goto(t, "check")
    /\ UNCHANGED <<scenes, registered, instances, history>>

\* Mutant: a reference without a version keeps nothing.
PinnedReferences(content, v, latest) == content.structure = v

\* references_model() for one scene.
References(content, v, latest) ==
    IF content.structure = Unpinned THEN latest \in {None, v}
    ELSE content.structure = v

CheckReferences(t) ==
    /\ pc[t] = "check"
    /\ IF \E s \in Scene : /\ scenes[s] # None
                           /\ References(scenes[s], job[t].version,
                                         job[t].latest)
       THEN /\ Return(t)
            /\ overtaken' = overtaken \ {t}
       ELSE /\ Goto(t, "remove")
            /\ UNCHANGED <<job, overtaken>>
    /\ UNCHANGED <<scenes, registered, instances, drift, owed>>

RemoveModel(t) ==
    /\ pc[t] = "remove"
    /\ IF job[t].version \in registered
       THEN /\ registered' = registered \ {job[t].version}
            /\ drift' = drift \cup Shifted(registered \ {job[t].version})
            /\ overtaken' = (overtaken \cup Removing) \ {t}
       ELSE /\ overtaken' = overtaken \ {t}
            /\ UNCHANGED <<registered, drift>>
    /\ Return(t)
    /\ UNCHANGED <<scenes, instances, owed>>

-----------------------------------------------------------------------------
Call(t) ==
    \/ \E s \in Scene, i \in Instance, patch \in Content :
           ApplyRead(t, s, i, patch)
    \/ \E s \in Scene, i \in Instance, recreate \in BOOLEAN :
           ReadScene(t, s, i, recreate)
    \/ \E v \in Version : ReadLatest(t, v)

Continue(t) ==
    \/ ApplyUpdate(t)
    \/ ApplyUpdateFails(t)
    \/ ApplyRuntime(t)
    \/ ApplyRuntimeFails(t)
    \/ Compile(t)
    \/ CompileFails(t)
    \/ Discard(t)
    \/ Build(t)
    \/ BuildFails(t)
    \/ CheckReferences(t)
    \/ RemoveModel(t)

Next ==
    \/ \E t \in Thread : Call(t) \/ Continue(t)
    \/ \E s \in Scene, c \in Content \cup {None} : EditScene(s, c)
    \/ \E v \in Version : Register(v)
    \/ \E i \in Instance : Destroy(i)

Spec == Init /\ [][Next]_vars

-----------------------------------------------------------------------------
(* Properties. *)

Idle == \A t \in Thread : pc[t] = "idle"

Agrees(i) ==
    LET built == instances[i] IN
    /\ scenes[built.scene] # None
    /\ built.version = Resolve(scenes[built.scene])
    /\ built.runtime = scenes[built.scene].runtime

\* An instance is what its scene compiles to, with the scene's initial_state,
\* until the scene or the registry changes behind its back or a handler fails
\* half-way: whether scene.apply recreates it or only changes its runtime.
InstanceAgrees ==
    Idle => \A i \in Instance : instances[i] # None /\ i \notin drift => Agrees(i)

\* model.remove does not remove what a loaded scene resolves to, pinned or
\* not, unless the scenes or the registry change while it decides.
RemovalIsSafe ==
    [][\A v \in registered \ registered' :
           \/ \A s \in Scene : scenes[s] # None => Resolve(scenes[s]) # v
           \/ \E t \in overtaken : pc[t] = "remove" /\ job[t].version = v]_vars

\* architecture.md: structural changes "require recompilation and instance
\* recreation": scene.apply does not report as applied at runtime a
\* structural change whose recreation an earlier scene.apply still owes.
StructuralChangeRecreates ==
    [][\A t \in Thread :
           pc[t] = "runtime" /\ pc'[t] = "idle" /\ instances' # instances =>
               job[t].instance \notin owed]_vars

=============================================================================
