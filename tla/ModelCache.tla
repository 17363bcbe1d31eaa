----------------------------- MODULE ModelCache ------------------------------
(***************************************************************************)
(* The compiled-model cache of SimulationCompiler                          *)
(* (src/source/simulation_compiler.cpp): concurrent compile_scene and      *)
(* get_or_load_model calls, the instances that hold a model afterwards,    *)
(* eviction at the capacity and model.cache_prune.                         *)
(*                                                                         *)
(* A key stands for a structural model id: everything that goes into the   *)
(* hash, the timestamps included, is decided when a handler begins.  The   *)
(* names differ from those of Scenes, whose handlers compile through this  *)
(* cache, so that one module can extend both.                              *)
(***************************************************************************)
EXTENDS Integers, FiniteSets

CONSTANTS
    Handler,     \* the gateway threads that run RPC handlers
    SceneKey,    \* the structural ids of scenes, compiled through a file
    DirectKey,   \* the ids of models loaded from their own model_path
    Model,       \* identities of mjModel objects
    Holder,      \* instances
    MaxCached,   \* max_cached_models_
    Null         \* a null ModelPtr; no file; nobody

Key == SceneKey \cup DirectKey

ASSUME CacheAssumption ==
    /\ MaxCached \in Nat
    /\ SceneKey \cap DirectKey = {}
    /\ Null \notin Key \cup Model \cup Handler

VARIABLES
    models,   \* models_: the model cached under each key
    recency,  \* <<j, k>>: two cached keys, j with the smaller last_used
    content,  \* the key whose XML is in each compiled file
    writer,   \* the handler that truncated the file and has not closed it
    step,     \* where each handler is
    key,      \* its compiled_model_id
    model,    \* its ModelPtr
    held      \* the ModelPtr of each instance

files == <<content, writer>>
locals == <<step, key, model>>
cacheVars == <<models, recency, files, locals, held>>

CacheTypeOK ==
    /\ models \in [Key -> Model \cup {Null}]
    /\ recency \in SUBSET (Key \X Key)
    /\ content \in [SceneKey -> SceneKey \cup {Null}]
    /\ writer \in [SceneKey -> Handler \cup {Null}]
    /\ step \in [Handler -> {"idle", "truncate", "write", "load", "insert",
                          "compiled"}]
    /\ key \in [Handler -> Key \cup {Null}]
    /\ model \in [Handler -> Model \cup {Null}]
    /\ held \in [Holder -> Model \cup {Null}]

CacheInit ==
    /\ models = [k \in Key |-> Null]
    /\ recency = {}
    /\ content = [f \in SceneKey |-> Null]
    /\ writer = [f \in SceneKey |-> Null]
    /\ step = [t \in Handler |-> "idle"]
    /\ key = [t \in Handler |-> Null]
    /\ model = [t \in Handler |-> Null]
    /\ held = [i \in Holder |-> Null]

StepTo(t, label) == step' = [step EXCEPT ![t] = label]

Leave(t) ==
    /\ StepTo(t, "idle")
    /\ key' = [key EXCEPT ![t] = Null]
    /\ model' = [model EXCEPT ![t] = Null]

\* use_count() > 1, the cache's own reference being one of them.
InUse(m) ==
    \/ \E t \in Handler : model[t] = m
    \/ \E i \in Holder : held[i] = m

Cached(cache) == {k \in Key : cache[k] # Null}

-----------------------------------------------------------------------------
(* touch_and_reclaim_locked(k, m): k becomes the newest, and while there    *)
(* are too many the oldest that nobody holds goes.  The caller's own        *)
(* reference keeps m.                                                       *)

\* last_used = ++access_tick_: all others are older than k, k than none.
Stamp(cache, k) ==
    {p \in recency : k \notin {p[1], p[2]}} \cup (Cached(cache) \ {k}) \X {k}

Older(order, k) == {j \in Key : <<j, k>> \in order}

Without(order, gone) == {p \in order : gone \cap {p[1], p[2]} = {}}

\* Mutant: one entry too many stays.
ExcessOffByOne(cache) ==
    IF Cardinality(Cached(cache)) > MaxCached + 1
    THEN Cardinality(Cached(cache)) - MaxCached - 1 ELSE 0

Excess(cache) ==
    IF Cardinality(Cached(cache)) > MaxCached
    THEN Cardinality(Cached(cache)) - MaxCached ELSE 0

\* Mutant: the oldest goes, held or not.
ReclaimableAlways(cache, m) == Cached(cache)

Reclaimable(cache, m) ==
    {k \in Cached(cache) : ~InUse(cache[k]) /\ cache[k] # m}

Victims(cache, order, m) ==
    LET idle == Reclaimable(cache, m)
    IN  {k \in idle : Cardinality(Older(order, k) \cap idle) < Excess(cache)}

Touch(k, m) ==
    LET cache == [models EXCEPT ![k] = m]
        order == Stamp(cache, k)
        gone == Victims(cache, order, m)
    IN  /\ models' = [j \in Key |-> IF j \in gone THEN Null ELSE cache[j]]
        /\ recency' = Without(order, gone)

-----------------------------------------------------------------------------
(* compile_scene() and get_or_load_model() *)

\* Mutant: the file is named after the scene, not after its content.
OneFile(k) == CHOOSE f \in SceneKey : TRUE

File(k) == k

Hit(t, k) ==
    /\ step[t] = "idle"
    /\ models[k] # Null
    /\ Touch(k, models[k])
    /\ key' = [key EXCEPT ![t] = k]
    /\ model' = [model EXCEPT ![t] = models[k]]
    /\ StepTo(t, "compiled")
    /\ UNCHANGED <<files, held>>

Miss(t, k) ==
    /\ step[t] = "idle"
    /\ models[k] = Null
    /\ key' = [key EXCEPT ![t] = k]
    /\ StepTo(t, IF k \in SceneKey THEN "truncate" ELSE "load")
    /\ UNCHANGED <<models, recency, files, model, held>>

\* write_compiled_mjcf(): opening the file empties it ...
Truncate(t) ==
    /\ step[t] = "truncate"
    /\ content' = [content EXCEPT ![File(key[t])] = Null]
    /\ writer' = [writer EXCEPT ![File(key[t])] = t]
    /\ StepTo(t, "write")
    /\ UNCHANGED <<models, recency, key, model, held>>

\* ... and it is whole once the one that emptied it last has closed it.
Write(t) ==
    LET f == File(key[t]) IN
    /\ step[t] = "write"
    /\ IF writer[f] = t
       THEN /\ content' = [content EXCEPT ![f] = key[t]]
            /\ writer' = [writer EXCEPT ![f] = Null]
       ELSE UNCHANGED files
    /\ StepTo(t, "load")
    /\ UNCHANGED <<models, recency, key, model, held>>

\* load_model(): a new mjModel.  Bound: a model identity is free.
Load(t) ==
    /\ step[t] = "load"
    /\ key[t] \in SceneKey => content[File(key[t])] # Null
    /\ \E m \in Model :
           /\ ~InUse(m)
           /\ \A k \in Key : models[k] # m
           /\ model' = [model EXCEPT ![t] = m]
    /\ StepTo(t, "insert")
    /\ UNCHANGED <<models, recency, files, key, held>>

\* It throws on an XML file that is empty or breaks off, and on one that
\* MuJoCo rejects.
LoadFails(t) ==
    /\ step[t] = "load"
    /\ Leave(t)
    /\ UNCHANGED <<models, recency, files, held>>

\* Nothing looks whether somebody else has inserted the key meanwhile.
Insert(t) ==
    /\ step[t] = "insert"
    /\ Touch(key[t], model[t])
    /\ StepTo(t, "compiled")
    /\ UNCHANGED <<files, key, model, held>>

-----------------------------------------------------------------------------
(* What the handlers do with the model, and model.cache_prune *)

\* instance.create, or instance.recreate_from_scene and scene.apply, which
\* replace what the instance held.
Give(t, i) ==
    /\ step[t] = "compiled"
    /\ held' = [held EXCEPT ![i] = model[t]]
    /\ Leave(t)
    /\ UNCHANGED <<models, recency, files>>

\* scene.compile.
Drop(t) ==
    /\ step[t] = "compiled"
    /\ Leave(t)
    /\ UNCHANGED <<models, recency, files, held>>

LetGo(i) ==
    /\ held[i] # Null
    /\ held' = [held EXCEPT ![i] = Null]
    /\ UNCHANGED <<models, recency, files, locals>>

Unused == {k \in Cached(models) : ~InUse(models[k])}

Prune ==
    /\ Unused # {}
    /\ models' = [k \in Key |-> IF k \in Unused THEN Null ELSE models[k]]
    /\ recency' = Without(recency, Unused)
    /\ UNCHANGED <<files, locals, held>>

-----------------------------------------------------------------------------
Proceed(t) ==
    \/ Truncate(t)
    \/ Write(t)
    \/ Load(t)
    \/ LoadFails(t)
    \/ Insert(t)
    \/ Drop(t)
    \/ \E i \in Holder : Give(t, i)

CacheNext ==
    \/ \E t \in Handler : Proceed(t) \/ \E k \in Key : Hit(t, k) \/ Miss(t, k)
    \/ \E i \in Holder : LetGo(i)
    \/ Prune

CacheSpec == CacheInit /\ [][CacheNext]_cacheVars

-----------------------------------------------------------------------------
(* Properties. *)

\* architecture.md: "Models held by an instance are never evicted", nor those
\* a handler has just compiled: an entry in use outlives every step, whether
\* it is the step of a compile at the capacity or of a prune.
InUseStays ==
    [][\A k \in Cached(models) :
           InUse(models[k]) => k \in Cached(models')]_cacheVars

AllInUse == \A k \in Cached(models) : InUse(models[k])

\* architecture.md: the cache is bounded.  A step that adds an entry leaves
\* more than max_cached_models_ only if every one of them is in use.
GrowthIsBounded ==
    [][\/ Cached(models') \subseteq Cached(models)
       \/ Cardinality(Cached(models')) <= MaxCached
       \/ AllInUse']_cacheVars

\* "two concurrent compiles ... with different content can never race on the
\* same path": a handler reads its own XML or, while another one rewrites the
\* same XML, a file that breaks off.
LoadsOwnXml ==
    \A t \in Handler : step[t] = "load" /\ key[t] \in SceneKey =>
        \/ content[File(key[t])] = key[t]
        \/ \E u \in Handler \ {t} : step[u] = "write" /\ key[u] = key[t]

=============================================================================
