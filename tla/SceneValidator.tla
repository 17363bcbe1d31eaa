--------------------------- MODULE SceneValidator ---------------------------
(***************************************************************************)
(* SimulationCompiler::validate_scene (src/source/simulation_compiler.cpp):*)
(* which scenes are accepted.                                              *)
(*                                                                         *)
(* A scene is a record of its sections, each a sequence of items; an item  *)
(* is a record with the keys that were given, and Value reads it the way   *)
(* json.value(key, "") does.  Contacts and custom are split into their     *)
(* lists; of physics and environment, which are objects, the last item     *)
(* counts.  What is a number, a text or a configuration is left out.  Of a *)
(* vector only its length matters: the field "wrong" of an item holds the  *)
(* names of those that are given and whose length does not fit.  Malformed *)
(* JSON (an item that is not an object, a section that is not an array, an *)
(* element or a value that is not of its type) is left out.                *)
(***************************************************************************)
EXTENDS Naturals, Sequences, SequencesExt

CONSTANTS
    Files,      \* the model and asset files that exist
    Reserved    \* the ids that start with "scene_"

ValueOr(item, key, default) ==
    IF key \in DOMAIN item THEN item[key] ELSE default
Value(item, key) == ValueOr(item, key, "")
Given(item, key) == Value(item, key) # ""
Wrong(item) == ValueOr(item, "wrong", {})

\* What an item holds in its lists.
Inner(item, key) == Range(ValueOr(item, key, <<>>))
Items(scene, section) == Range(scene[section])

-----------------------------------------------------------------------------
(* Names *)

Field(items, key) == [k \in DOMAIN items |-> Value(items[k], key)]
InnerIds(bodies, key) ==
    FlattenSeq([k \in DOMAIN bodies |->
                   Field(ValueOr(bodies[k], key, <<>>), "id")])

Pooled == <<"models", "plugins", "assets", "objects", "sensors", "pairs",
            "bodies", "actuators", "equality", "tendon", "keyframes",
            "cameras", "custom", "flexes", "skins">>

\* All that is put into the set ids, in whatever order.
Ids(scene) ==
    FlattenSeq([k \in DOMAIN Pooled |-> Field(scene[Pooled[k]], "id")])
        \o FlattenSeq([k \in 1..4 |->
               InnerIds(scene.bodies,
                        <<"joints", "geoms", "sites", "cameras">>[k])])

Distinct(names) ==
    \A j, k \in DOMAIN names : j # k /\ names[j] # "" => names[j] # names[k]

IdsUnique(scene) == Distinct(Ids(scene))

Named(scene, sections) ==
    \A section \in sections : \A item \in Items(scene, section) :
        Given(item, "id")

-----------------------------------------------------------------------------
(* Sections that others refer to *)

ModelsValid(scene) ==
    \A m \in Items(scene, "models") : Given(m, "model_id") /\ m.source \in Files

Object(scene, section) ==
    IF scene[section] = <<>> THEN [key \in {} |-> ""] ELSE Last(scene[section])

GlobalsValid(scene) ==
    /\ Wrong(Object(scene, "physics")) \cap {"gravity", "wind", "magnetic"} = {}
    /\ Wrong(Object(scene, "environment")) \cap
           {"rgba", "rgb1", "rgb2", "pos", "dir", "diffuse", "ambient",
            "specular"} = {}

PluginsValid(scene) ==
    \A p \in Items(scene, "plugins") : Given(p, "plugin")

PluginKnown(scene, item) ==
    Given(item, "plugin_instance") =>
        \E p \in Items(scene, "plugins") : p.id = item.plugin_instance

IsAsset(scene, id, kind) ==
    id # "" /\ \E a \in Items(scene, "assets") :
                   Value(a, "id") = id /\ Value(a, "kind") = kind

\* Mutant: an asset may be called what the environment's are called.
AssetsValidUnreserved(scene) ==
    \A a \in Items(scene, "assets") :
        /\ Value(a, "kind") \in {"mesh", "texture", "material", "hfield"}
        /\ IF a.kind = "mesh" /\ Given(a, "plugin_instance")
           THEN PluginKnown(scene, a)
           ELSE a.kind # "material" => Value(a, "file") \in Files
        /\ a.kind = "hfield" => "size" \notin Wrong(a)
        /\ a.kind = "material" /\ Given(a, "texture") =>
               IsAsset(scene, a.texture, "texture")

AssetsValid(scene) ==
    \A a \in Items(scene, "assets") :
        /\ a.id \notin Reserved
        /\ Value(a, "kind") \in {"mesh", "texture", "material", "hfield"}
        /\ IF a.kind = "mesh" /\ Given(a, "plugin_instance")
           THEN PluginKnown(scene, a)
           ELSE a.kind # "material" => Value(a, "file") \in Files
        /\ a.kind = "hfield" => "size" \notin Wrong(a)
        /\ a.kind = "material" /\ Given(a, "texture") =>
               IsAsset(scene, a.texture, "texture")

-----------------------------------------------------------------------------
(* Trees: bodies and default classes *)

\* The least set of ids that has the first and whatever is below a member.
Reached(items, first) ==
    LET ids == {x.id : x \in items}
        Closed(set) ==
            /\ first \subseteq set
            /\ \A x \in items : Value(x, "parent") \in set => x.id \in set
    IN  {id \in ids : \A set \in SUBSET ids : Closed(set) => id \in set}

\* Mutant: a parent has to exist, and that is all.
ParentsKnown(items) ==
    \A x \in items : Given(x, "parent") => \E y \in items : y.id = x.parent

\* A parent exists, and no chain of parents returns to where it came from:
\* every item is below one without a parent.
TreeValid(items) ==
    /\ \A x \in items : Given(x, "parent") => \E y \in items : y.id = x.parent
    /\ {x.id : x \in items} \subseteq
           Reached(items, {x.id : x \in {y \in items : ~Given(y, "parent")}})

JointTypes == {"hinge", "slide", "ball", "free"}
SiteTypes == {"sphere", "box", "capsule", "cylinder", "ellipsoid"}
GeomTypes == SiteTypes \cup {"plane", "mesh", "hfield", "sdf"}

ClassesValid(scene) ==
    LET classes == Items(scene, "defaultClasses")
    IN  /\ Distinct(Field(scene.defaultClasses, "id"))
        /\ TreeValid(classes)
        /\ \A c \in classes :
               /\ ValueOr(c, "joint", "hinge") \in JointTypes
               /\ ValueOr(c, "geom", "box") \in GeomTypes
               /\ ValueOr(c, "site", "sphere") \in SiteTypes

ClassKnown(scene, item, key) ==
    Given(item, key) =>
        \E c \in Items(scene, "defaultClasses") : c.id = item[key]

JointValid(scene, joint) ==
    LET type == ValueOr(joint, "type", "hinge")
    IN  /\ type \in JointTypes
        /\ type \in {"hinge", "slide"} =>
               Wrong(joint) \cap {"axis", "range"} = {}
        /\ "pos" \notin Wrong(joint)
        /\ ClassKnown(scene, joint, "class")

Sized == SiteTypes \cup {"plane"}

GeomValid(scene, geom) ==
    LET type == ValueOr(geom, "type", "box")
    IN  /\ type \in GeomTypes
        /\ type = "mesh" => IsAsset(scene, Value(geom, "mesh"), "mesh")
        /\ type = "hfield" => IsAsset(scene, Value(geom, "hfield"), "hfield")
        /\ type = "sdf" => /\ Given(geom, "plugin_instance")
                           /\ PluginKnown(scene, geom)
                           /\ IsAsset(scene, Value(geom, "mesh"), "mesh")
        /\ Given(geom, "material") => IsAsset(scene, geom.material, "material")
        /\ Given(geom, "type") /\ type \in Sized => "size" \notin Wrong(geom)
        /\ Wrong(geom) \cap {"pos", "quat", "rgba"} = {}
        /\ ClassKnown(scene, geom, "class")

SiteValid(scene, site) ==
    /\ ValueOr(site, "type", "sphere") \in SiteTypes
    /\ Wrong(site) \cap {"pos", "quat"} = {}
    /\ ClassKnown(scene, site, "class")

BodyCameraValid(scene, camera) ==
    /\ Wrong(camera) \cap {"pos", "quat"} = {}
    /\ ClassKnown(scene, camera, "class")

BodiesValid(scene) ==
    /\ TreeValid(Items(scene, "bodies"))
    /\ \A b \in Items(scene, "bodies") :
           /\ ClassKnown(scene, b, "childclass")
           /\ ValueOr(b, "replicate", 1) > 0
           /\ "replicate" \in DOMAIN b => ~Given(b, "parent")
           /\ Wrong(b) \cap {"offset", "euler"} = {}
           /\ \A part \in {"joints", "geoms", "sites", "cameras"} :
                  \A x \in Inner(b, part) : Given(x, "id")
           /\ \A joint \in Inner(b, "joints") : JointValid(scene, joint)
           /\ \A geom \in Inner(b, "geoms") : GeomValid(scene, geom)
           /\ \A site \in Inner(b, "sites") : SiteValid(scene, site)
           /\ \A camera \in Inner(b, "cameras") : BodyCameraValid(scene, camera)

-----------------------------------------------------------------------------
(* Sensors *)

\* One type for each shape of the registry, two for kSimple and kFrame.
Shape == [type \in {"sensor.force", "sensor.subtreecom", "sensor.framepos",
                    "sensor.framelinacc", "sensor.camprojection",
                    "sensor.insidesite", "sensor.distance", "sensor.clock",
                    "sensor.plugin"} |->
    CASE type = "sensor.force" -> "site"
      [] type = "sensor.subtreecom" -> "body"
      [] type \in {"sensor.framepos", "sensor.framelinacc"} -> "frame"
      [] type = "sensor.camprojection" -> "camprojection"
      [] type = "sensor.insidesite" -> "insidesite"
      [] type = "sensor.distance" -> "geompair"
      [] type = "sensor.clock" -> "none"
      [] type = "sensor.plugin" -> "plugin"]

IsSensor(item) == Value(item, "type") \in DOMAIN Shape

\* Only the frame sensors that are no accelerations take a reference frame.
RefOptional(sensor) == sensor.type = "sensor.framepos"

ObjTypes == {"body", "xbody", "geom", "site", "camera"}

SensorValid(scene, sensor) ==
    CASE Shape[sensor.type] = "site" -> Given(sensor, "site")
      [] Shape[sensor.type] = "body" -> Given(sensor, "body")
      [] Shape[sensor.type] = "frame" ->
             /\ Value(sensor, "objtype") \in ObjTypes
             /\ Given(sensor, "objname")
             /\ RefOptional(sensor) /\ Given(sensor, "reftype") =>
                    sensor.reftype \in ObjTypes /\ Given(sensor, "refname")
      [] Shape[sensor.type] = "camprojection" ->
             Given(sensor, "site") /\ Given(sensor, "camera")
      [] Shape[sensor.type] = "insidesite" ->
             \A key \in {"site", "objtype", "objname"} : Given(sensor, key)
      [] Shape[sensor.type] = "geompair" ->
             /\ Given(sensor, "geom1") # Given(sensor, "body1")
             /\ Given(sensor, "geom2") # Given(sensor, "body2")
      [] Shape[sensor.type] = "none" -> TRUE
      [] Shape[sensor.type] = "plugin" -> PluginKnown(scene, sensor)

SensorsValid(scene) ==
    \A s \in Items(scene, "sensors") : IsSensor(s) /\ SensorValid(scene, s)

ObjectsValid(scene) ==
    \A o \in Items(scene, "objects") :
        IF IsSensor(o) THEN SensorValid(scene, o)
        ELSE CASE o.type = "obstacle.mesh" ->
                      IsAsset(scene, Value(o, "mesh"), "mesh")
               [] o.type = "obstacle.hfield" ->
                      IsAsset(scene, Value(o, "hfield"), "hfield")
               [] OTHER -> o.type \in {"obstacle.box", "obstacle.sphere"}

\* The bodies a sensor names, as far as the guard below knows.
SensorBodyRefs(sensor) ==
    CASE Shape[sensor.type] = "body" -> {Value(sensor, "body")}
      [] Shape[sensor.type] = "frame" ->
             {Value(sensor, key) : key \in
                 {k \in {"objname", "refname"} :
                     Value(sensor, IF k = "objname" THEN "objtype"
                                   ELSE "reftype") \in {"body", "xbody"}}}
      [] Shape[sensor.type] = "geompair" ->
             {Value(sensor, "body1"), Value(sensor, "body2")}
      [] OTHER -> {}

-----------------------------------------------------------------------------
(* The guard for <replicate> *)

Roots(scene) ==
    {b.id : b \in {x \in Items(scene, "bodies") :
                      "replicate" \in DOMAIN x /\ ~Given(x, "parent")}}

\* Mutant: only the body that is replicated, not what is below it.
ReplicatedRoots(scene) == Roots(scene)

Replicated(scene) == Reached(Items(scene, "bodies"), Roots(scene))

ReplicatedUnnamed(scene) ==
    /\ \A x \in Items(scene, "equality") \cup Items(scene, "excludes") :
           {Value(x, "body1"), Value(x, "body2")} \cap Replicated(scene) = {}
    /\ \A s \in Items(scene, "objects") \cup Items(scene, "sensors") :
           IsSensor(s) => SensorBodyRefs(s) \cap Replicated(scene) = {}

-----------------------------------------------------------------------------
(* Sections that nothing refers to *)

ContactsValid(scene) ==
    /\ \A x \in Items(scene, "excludes") : Given(x, "body1") /\ Given(x, "body2")
    /\ \A p \in Items(scene, "pairs") :
           /\ Given(p, "geom1") /\ Given(p, "geom2")
           /\ Wrong(p) \cap {"friction", "solref", "solreffriction", "solimp"}
                  = {}

Target(type) == IF type = "adhesion" THEN "body" ELSE "joint"
ActuatorTypes == {"motor", "position", "velocity", "general", "intvelocity",
                  "damper", "cylinder", "muscle", "adhesion", "plugin"}

\* Mutant: any instance will do.
ActuatorsValidUnresolved(scene) ==
    \A a \in Items(scene, "actuators") :
        /\ Value(a, "type") \in ActuatorTypes
        /\ Given(a, Target(a.type))
        /\ a.type = "plugin" => Given(a, "plugin_instance")
        /\ Wrong(a) \cap {"ctrlrange", "forcerange"} = {}
        /\ ClassKnown(scene, a, "class")

ActuatorsValid(scene) ==
    \A a \in Items(scene, "actuators") :
        /\ Value(a, "type") \in ActuatorTypes
        /\ Given(a, Target(a.type))
        /\ a.type = "plugin" => /\ Given(a, "plugin_instance")
                                /\ PluginKnown(scene, a)
        /\ Wrong(a) \cap {"ctrlrange", "forcerange"} = {}
        /\ ClassKnown(scene, a, "class")

EqualityValid(scene) ==
    \A e \in Items(scene, "equality") :
        CASE e.type \in {"connect", "weld"} ->
                 /\ Given(e, "body1") /\ Given(e, "body2")
                 /\ e.type = "connect" => "anchor" \notin Wrong(e)
          [] e.type = "joint" -> Given(e, "joint1")
          [] e.type = "tendon" ->
                 Given(e, "tendon1") /\ "polycoef" \notin Wrong(e)
          [] OTHER -> FALSE

TendonsValid(scene) ==
    \A t \in Items(scene, "tendon") :
        CASE t.type = "fixed" ->
                 /\ Inner(t, "joints") # {}
                 /\ \A j \in Inner(t, "joints") : Given(j, "joint")
          [] t.type = "spatial" /\ Inner(t, "path") # {} ->
                 \A p \in Inner(t, "path") :
                     LET type == ValueOr(p, "type", "site")
                     IN  type = "pulley" \/ (type \in {"site", "geom"} /\ Given(p, type))
          [] t.type = "spatial" /\ Inner(t, "path") = {} ->
                 Len(ValueOr(t, "sites", <<>>)) >= 2
          [] OTHER -> FALSE

WorldCamerasValid(scene) ==
    \A c \in Items(scene, "cameras") : ClassKnown(scene, c, "class")

DeformablesValid(scene) ==
    /\ \A f \in Items(scene, "flexes") :
           Given(f, "body") /\ ValueOr(f, "dim", 2) \in 1..3
    /\ \A s \in Items(scene, "skins") :
           \A bone \in Inner(s, "bone") : Given(bone, "body")

-----------------------------------------------------------------------------
Valid(scene) ==
    /\ Named(scene, (Range(Pooled) \ {"pairs"}) \cup {"defaultClasses"})
    /\ IdsUnique(scene)
    /\ ModelsValid(scene) /\ GlobalsValid(scene)
    /\ PluginsValid(scene) /\ AssetsValid(scene)
    /\ ClassesValid(scene) /\ BodiesValid(scene)
    /\ ObjectsValid(scene) /\ SensorsValid(scene)
    /\ ContactsValid(scene) /\ ReplicatedUnnamed(scene)
    /\ ActuatorsValid(scene) /\ EqualityValid(scene) /\ TendonsValid(scene)
    /\ WorldCamerasValid(scene) /\ DeformablesValid(scene)
=============================================================================
