----------------------------- MODULE SceneRules -----------------------------
(***************************************************************************)
(* A scene grows by updates (SimulationSceneManager::update,               *)
(* src/source/simulation_scene_manager.cpp) and may be validated and       *)
(* compiled at any time: what validate_scene promises of the document that *)
(* generate_scene_xml writes of a scene it accepts.                        *)
(*                                                                         *)
(* An update replaces whole sections; here one section at a time, by       *)
(* itself and one more item out of those in Pool, so that every scene of   *)
(* at most MaxItems items of the pool is reached.                          *)
(***************************************************************************)
EXTENDS SceneXml

CONSTANTS
    Sections,   \* the keys of a scene
    Pool,       \* the items of each section
    MaxItems    \* bound: items of a scene

\* No file has the empty name, and what JSON has as a list is a sequence.
IsList(items) == items \in Seq(Range(items))

ASSUME PoolAssumption ==
    /\ "" \notin Files
    /\ Range(Pooled) \cup {"excludes", "defaultClasses"} \subseteq Sections
    /\ \A b \in Pool["bodies"] : \A part \in {"joints", "geoms", "sites", "cameras"} :
           IsList(ValueOr(b, part, <<>>))
    /\ \A t \in Pool["tendon"] : IsList(ValueOr(t, "sites", <<>>))

\* The compiler puts a fixed text before or after an id to name what it makes,
\* and ids that differ give names that do.  (TLA+ leaves open what \o makes of
\* texts.)  What it names by itself starts with scene_.
ASSUME NamesAssumption ==
    /\ {"scene_skybox", "scene_ground_tex", "scene_ground_mat"} \subseteq Reserved
    /\ \A m, n \in Pool["models"] :
           Value(m, "id") # Value(n, "id") =>
               /\ "scene_model_" \o Value(m, "id") # "scene_model_" \o Value(n, "id")
               /\ Value(m, "id") \o "_mount" # Value(n, "id") \o "_mount"
    /\ \A o, q \in Pool["objects"] :
           /\ Value(o, "id") \o "_geom" # "scene_ground"
           /\ Value(o, "id") # Value(q, "id") =>
                  Value(o, "id") \o "_geom" # Value(q, "id") \o "_geom"

VARIABLE scene
sceneVars == <<scene>>

Count == Cardinality(UNION {{<<s, k>> : k \in DOMAIN scene[s]} : s \in Sections})

SceneInit == scene = [s \in Sections |-> <<>>]

Update(section, item) ==
    /\ Count < MaxItems
    /\ scene' = [scene EXCEPT ![section] = Append(@, item)]

SceneNext == \E section \in Sections : \E item \in Pool[section] : Update(section, item)

SceneSpec == SceneInit /\ [][SceneNext]_sceneVars

-----------------------------------------------------------------------------
Elements == Range(Document(scene))

\* Every body and every default class of a scene that is accepted is written
\* exactly once, inside its parent: compile_body_forest and
\* generate_default_xml descend from the items without a parent and rely on
\* validate_scene's walk up the parents to reach them all.
EmittedOnce ==
    Valid(scene) =>
        \A kind \in {"body", "class"} :
            \A x \in Items(scene, IF kind = "body" THEN "bodies"
                                  ELSE "defaultClasses") :
                LET doc == Document(scene)
                    at == {k \in DOMAIN doc :
                              doc[k].ns = kind /\ doc[k].name = x.id}
                IN  /\ Cardinality(at) = 1
                    /\ \A k \in at :
                           /\ doc[k].in = Value(x, "parent")
                           /\ doc[k].in # "" =>
                                  \E j \in 1..(k - 1) :
                                      doc[j].ns = kind /\ doc[j].name = doc[k].in

\* No two elements of one namespace share a name, in a scene that is
\* accepted: neither two the scene names, in whatever sections, nor, except
\* for geoms, one the scene names and one the compiler does.  (A geom may be
\* called scene_ground, or like an object with _geom after it; and the names
\* of excludes are not looked at.)
NamesAreUnique ==
    Valid(scene) =>
        LET doc == Document(scene)
        IN  \A j, k \in DOMAIN doc :
                /\ j # k /\ doc[j].ns = doc[k].ns /\ doc[j].name = doc[k].name
                /\ doc[j].name # ""
                => \/ doc[j].ns = "geom" /\ doc[j].derived # doc[k].derived
                   \/ doc[j].ns = "exclude"

\* A class, plugin instance, texture, material, mesh, height field or model
\* that an element refers to has been written before it, as comments say
\* MuJoCo needs it, in the document of a scene that is accepted and that the
\* generator throws at nothing of.  (Checked by neither: the material of a
\* default class and of a skin.)
ReferencesResolve ==
    Valid(scene) /\ Throws(scene) = {} =>
        LET doc == Document(scene)
        IN  \A k \in DOMAIN doc : \A ref \in doc[k].refs :
                \/ ref[1] = "body"
                \/ ref[1] = "material" /\ doc[k].ns \in {"class", "skin"}
                \/ \E j \in 1..(k - 1) :
                       doc[j].ns = ref[1] /\ doc[j].name = ref[2]

\* The sensors whose objname the guard for <replicate> overlooks.
Unguarded(doc) ==
    {s.id : s \in {x \in Items(doc, "objects") \cup Items(doc, "sensors") :
                      IsSensor(x) /\ Shape[x.type] \in {"insidesite", "plugin"}}}

\* Nothing in <equality>, <contact> or <sensor> of an accepted scene names a
\* body inside <replicate>, whose copies MuJoCo renames.  (Missed by the
\* guard: the objname of an insidesite and of a plugin sensor.)
ReplicatedUnaddressed ==
    Valid(scene) =>
        \A e, b \in Elements :
            /\ e.ns \in {"equality", "exclude", "sensor"}
            /\ e.ns = "sensor" => e.name \notin Unguarded(scene)
            /\ b.ns = "body" /\ b.copied
            => <<"body", b.name>> \notin e.refs

\* Known gaps: vectors no rule of validate_scene looks at, the box that a
\* geom without type and class becomes, a geom's or a sensor's plugin.
Unchecked ==
    ({"body", "object", "model", "world"} \X {"pos", "quat"})
    \cup ({"asset", "object", "class", "flex", "skin"} \X {"rgba"})
    \cup ({"class"} \X {"axis", "range", "ctrlrange", "forcerange"})
    \cup ({"physics"} \X {"o_solref", "o_solimp", "o_friction",
                          "inertiagrouprange"})
    \cup ({"environment"} \X {"center", "headlight", "visual_rgba"})
    \cup ({"actuator"} \X {"actrange", "bias", "timeconst", "range"})
    \cup {<<"object", "size">>, <<"asset", "scale">>, <<"tendon", "range">>,
          <<"skin", "bindpos">>, <<"skin", "bindquat">>, <<"box", "size">>,
          <<"box", "unknown plugin">>, <<"geom", "unknown plugin">>,
          <<"sensor", "plugin_instance">>}

\* generate_scene_xml throws at no scene that validate_scene accepts, the
\* known gaps excepted: what compile_scene refuses, scene.validate reports.
ValidScenesCompile == Valid(scene) => Throws(scene) \subseteq Unchecked
=============================================================================
