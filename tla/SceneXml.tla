------------------------------ MODULE SceneXml ------------------------------
(***************************************************************************)
(* SimulationCompiler::generate_scene_xml and the compile_ functions it    *)
(* calls (src/source/simulation_compiler.cpp): the MJCF document of a      *)
(* scene, and what they throw at.                                          *)
(*                                                                         *)
(* The document is the sequence of its named elements.  Of an element it   *)
(* keeps the namespace, the name, the body or class it is nested in,       *)
(* whether it is inside a <replicate>, whether the compiler made up its    *)
(* name, and which bodies, classes, plugins, assets and models its         *)
(* attributes refer to.  The elements without a name (compiler, option,    *)
(* size, visual, statistic) and the lights, numbered by their place and    *)
(* referred to by nothing, are left out.                                   *)
(***************************************************************************)
EXTENDS SceneValidator

Element(ns, name, refs) ==
    [ns |-> ns, name |-> name, in |-> "", copied |-> FALSE, derived |-> FALSE,
     refs |-> refs]
Derived(ns, name, refs) ==
    [Element(ns, name, refs) EXCEPT !.derived = TRUE]

\* The attributes that name an element of the kind; none is written for "".
Refs(kind, item, keys) == {<<kind, item[key]>> : key \in {k \in keys : Given(item, k)}}
ClassAttr(item) == Refs("class", item, {"class"})
PluginAttr(item) == Refs("plugin", item, {"plugin_instance"})

Each(items, Compile(_)) == [k \in DOMAIN items |-> Compile(items[k])]
When(condition, element) == IF condition THEN <<element>> ELSE <<>>

\* The items below each id, every one before those below it.  (A chain of
\* parents that comes to its end is no longer than the list.)
Below(items) ==
    LET below[n \in 0..Len(items)] ==
            [id \in {""} \cup Range(Field(items, "id")) |->
                IF n = 0 THEN <<>>
                ELSE FlattenSeq([k \in DOMAIN items |->
                         IF Value(items[k], "parent") = id
                         THEN <<items[k]>> \o below[n - 1][Value(items[k], "id")]
                         ELSE <<>>])]
    IN  below[Len(items)]

-----------------------------------------------------------------------------
(* Default classes, plugin instances, assets *)

Defaults(scene) ==
    LET Class(class) ==
            [Element("class", class.id, Refs("material", class, {"material"}))
                 EXCEPT !.in = Value(class, "parent")]
    IN  Each(Below(scene.defaultClasses)[""], Class)

Extension(scene) ==
    LET Instance(plugin) ==
            When(Given(plugin, "plugin"), Element("plugin", plugin.id, {}))
    IN  FlattenSeq(Each(scene.plugins, Instance))

Ground(scene) == "noground" \notin DOMAIN Object(scene, "environment")
Checker(scene) == Ground(scene) /\ "checker" \in DOMAIN Object(scene, "environment")
GroundMaterial(scene) ==
    \/ Checker(scene)
    \/ Ground(scene) /\ "reflectance" \in DOMAIN Object(scene, "environment")
Skybox(scene) == "skybox" \in DOMAIN Object(scene, "environment")

EnvAssets(scene) ==
    When(Skybox(scene), Derived("texture", "scene_skybox", {}))
    \o When(Checker(scene), Derived("texture", "scene_ground_tex", {}))
    \o When(GroundMaterial(scene),
            Derived("material", "scene_ground_mat",
                    IF Checker(scene) THEN {<<"texture", "scene_ground_tex">>}
                    ELSE {}))

AssetDeclaration(asset) ==
    Element(asset.kind, asset.id,
            CASE asset.kind = "material" -> Refs("texture", asset, {"texture"})
              [] asset.kind = "mesh" -> PluginAttr(asset)
              [] OTHER -> {})

\* Mutant: the assets are written in the order the scene lists them in.
UserAssetsAsListed(scene) == Each(scene.assets, AssetDeclaration)

UserAssets(scene) ==
    LET OfKind(kind) ==
            FlattenSeq(Each(scene.assets,
                LAMBDA asset : When(Value(asset, "kind") = kind,
                                    AssetDeclaration(asset))))
    IN  OfKind("texture") \o OfKind("material") \o OfKind("mesh")
            \o OfKind("hfield")

Assets(scene) ==
    LET Model(model) == Derived("model", "scene_model_" \o model.id, {})
    IN  EnvAssets(scene) \o UserAssets(scene) \o Each(scene.models, Model)

-----------------------------------------------------------------------------
(* The world *)

\* An object that is no sensor: a body with one geom.
PrimitiveObject(object) ==
    <<Element("body", object.id, {}),
      [Derived("geom", object.id \o "_geom",
               Refs("mesh", object,
                    IF object.type = "obstacle.mesh" THEN {"mesh"} ELSE {})
               \cup Refs("hfield", object,
                         IF object.type = "obstacle.hfield" THEN {"hfield"}
                         ELSE {}))
           EXCEPT !.in = object.id]>>

Joint(joint) == Element("joint", joint.id, ClassAttr(joint))
Site(site) == Element("site", site.id, ClassAttr(site))
Camera(camera) == Element("camera", camera.id, ClassAttr(camera))

\* Without a type the class decides, and neither mesh nor hfield is written.
Geom(geom) ==
    LET type == Value(geom, "type")
    IN  Element("geom", geom.id,
                ClassAttr(geom) \cup PluginAttr(geom)
                \cup Refs("material", geom, {"material"})
                \cup Refs("mesh", geom,
                          IF type \in {"mesh", "sdf"} THEN {"mesh"} ELSE {})
                \cup Refs("hfield", geom,
                          IF type = "hfield" THEN {"hfield"} ELSE {}))

BodyNode(body, copied) ==
    LET parts == Each(ValueOr(body, "joints", <<>>), Joint)
                     \o Each(ValueOr(body, "geoms", <<>>), Geom)
                     \o Each(ValueOr(body, "sites", <<>>), Site)
                     \o Each(ValueOr(body, "cameras", <<>>), Camera)
    IN  <<[Element("body", body.id, Refs("class", body, {"childclass"}))
               EXCEPT !.in = Value(body, "parent"), !.copied = copied]>>
        \o [k \in DOMAIN parts |->
               [parts[k] EXCEPT !.in = body.id, !.copied = copied]]

\* A body without a parent and those below it, all inside its <replicate>.
BodyTree(bodies, root) ==
    LET Node(body) == BodyNode(body, "replicate" \in DOMAIN root)
    IN  FlattenSeq(Each(<<root>> \o Below(bodies)[root.id], Node))

BodyForest(scene) ==
    LET Tree(body) ==
            IF Given(body, "parent") THEN <<>> ELSE BodyTree(scene.bodies, body)
    IN  FlattenSeq(Each(scene.bodies, Tree))

World(scene) ==
    LET Attach(model) ==
            Derived("frame", model.id \o "_mount",
                    {<<"model", "scene_model_" \o model.id>>})
        Obstacle(object) ==
            IF IsSensor(object) THEN <<>> ELSE PrimitiveObject(object)
        GroundGeom ==
            Derived("geom", "scene_ground",
                    IF GroundMaterial(scene)
                    THEN {<<"material", "scene_ground_mat">>} ELSE {})
    IN  When(Ground(scene), GroundGeom) \o Each(scene.models, Attach)
        \o FlattenSeq(Each(scene.objects, Obstacle))
        \o Each(scene.cameras, Camera) \o BodyForest(scene)

-----------------------------------------------------------------------------
(* What refers to the world *)

Contact(scene) ==
    LET Pair(pair) == Element("pair", Value(pair, "id"), {})
        Exclude(item) ==
            Element("exclude", Value(item, "name"),
                    Refs("body", item, {"body1", "body2"}))
    IN  Each(scene.pairs, Pair) \o Each(scene.excludes, Exclude)

Deformable(scene) ==
    LET Flex(flex) == Element("flex", flex.id, Refs("body", flex, {"body"}))
        Skin(skin) ==
            Element("skin", skin.id,
                    Refs("material", skin, {"material"})
                    \cup UNION {Refs("body", bone, {"body"}) :
                                  bone \in Inner(skin, "bone")})
    IN  Each(scene.flexes, Flex) \o Each(scene.skins, Skin)

Equality(scene) ==
    LET Constraint(eq) ==
            Element("equality", eq.id,
                    IF eq.type \in {"connect", "weld"}
                    THEN Refs("body", eq, {"body1", "body2"}) ELSE {})
    IN  Each(scene.equality, Constraint)

Actuator(actuator) ==
    Element("actuator", actuator.id,
            ClassAttr(actuator)
            \cup Refs("body", actuator,
                      IF Target(actuator.type) = "body" THEN {"body"} ELSE {})
            \cup (IF actuator.type = "plugin" THEN PluginAttr(actuator) ELSE {}))

\* The bodies among what a sensor names; reftype only where it is optional.
SensorBodies(sensor) ==
    LET Of(key, type) ==
            IF Value(sensor, type) \in {"body", "xbody"}
            THEN Refs("body", sensor, {key}) ELSE {}
    IN  CASE Shape[sensor.type] = "body" -> Refs("body", sensor, {"body"})
          [] Shape[sensor.type] = "frame" ->
                 Of("objname", "objtype")
                 \cup (IF RefOptional(sensor) THEN Of("refname", "reftype")
                       ELSE {})
          [] Shape[sensor.type] \in {"insidesite", "plugin"} ->
                 Of("objname", "objtype")
          [] Shape[sensor.type] = "geompair" ->
                 Refs("body", sensor,
                      {"body1", "body2"} \ {key \in {"body1", "body2"} :
                          Given(sensor, IF key = "body1" THEN "geom1"
                                        ELSE "geom2")})
          [] OTHER -> {}

SensorObject(sensor) ==
    Element("sensor", sensor.id,
            SensorBodies(sensor)
            \cup (IF Shape[sensor.type] = "plugin" THEN PluginAttr(sensor)
                  ELSE {}))

Sensors(scene) ==
    LET Sensor(object) == When(IsSensor(object), SensorObject(object))
    IN  FlattenSeq(Each(scene.objects, Sensor)) \o Each(scene.sensors, SensorObject)

Plain(scene, section) ==
    LET Item(item) == Element(section, item.id, {})
    IN  Each(scene[section], Item)

Document(scene) ==
    Defaults(scene) \o Extension(scene) \o Plain(scene, "custom")
    \o Assets(scene) \o World(scene) \o Contact(scene) \o Deformable(scene)
    \o Equality(scene) \o Plain(scene, "tendon")
    \o Each(scene.actuators, Actuator) \o Sensors(scene)
    \o Plain(scene, "keyframes")

-----------------------------------------------------------------------------
(* What generate_scene_xml throws at: a set of pairs, where and why.  None  *)
(* of these is about MuJoCo, which reads the document later.                *)

\* numeric_list, given the length the element wants.
Misfits(where, item, keys) == {<<where, key>> : key \in Wrong(item) \cap keys}
Missing(where, item, keys) ==
    {<<where, key>> : key \in {k \in keys : ~Given(item, k)}}
UnknownPlugin(scene, where, item) ==
    IF PluginKnown(scene, item) THEN {} ELSE {<<where, "unknown plugin">>}
Over(items, Complaints(_)) == UNION {Complaints(x) : x \in items}
Unsupported(where, type, types) ==
    IF type \in types THEN {} ELSE {<<where, "type">>}

\* "headlight" and "visual_rgba" stand for the vectors in those two blocks of
\* environment.visual.
GlobalThrows(scene) ==
    Misfits("physics", Object(scene, "physics"),
            {"gravity", "wind", "magnetic", "o_solref", "o_solimp",
             "o_friction", "inertiagrouprange"})
    \cup Misfits("environment", Object(scene, "environment"),
                 {"rgba", "rgb1", "rgb2", "pos", "dir", "diffuse", "ambient",
                  "specular", "center", "headlight", "visual_rgba"})

ClassThrows(class) ==
    Misfits("class", class, {"axis", "range", "rgba", "ctrlrange", "forcerange"})
    \cup Unsupported("class", ValueOr(class, "joint", "hinge"), JointTypes)
    \cup Unsupported("class", ValueOr(class, "geom", "box"), GeomTypes)
    \cup Unsupported("class", ValueOr(class, "site", "sphere"), SiteTypes)

AssetThrows(asset) ==
    CASE asset.kind = "material" -> Misfits("asset", asset, {"rgba"})
      [] asset.kind = "mesh" /\ Given(asset, "plugin_instance") -> {}
      [] asset.kind = "hfield" ->
             Missing("asset", asset, {"file"}) \cup Misfits("asset", asset, {"size"})
      [] OTHER ->
             Missing("asset", asset, {"file"}) \cup Misfits("asset", asset, {"scale"})

ObjectThrows(object) ==
    Misfits("object", object, {"pos", "quat", "rgba"})
    \cup CASE object.type = "obstacle.mesh" -> Missing("object", object, {"mesh"})
           [] object.type = "obstacle.hfield" ->
                  Missing("object", object, {"hfield"})
           [] OTHER -> Misfits("object", object, {"size"})

\* Without a type and a class a geom is made a box, whatever its size.
GeomThrows(scene, geom, classed) ==
    LET typed == Given(geom, "type")
        box == ~typed /\ ~classed /\ ~Given(geom, "class")
        type == ValueOr(geom, "type", "box")
        where == IF box THEN "box" ELSE IF type = "sdf" THEN type ELSE "geom"
    IN  Misfits("geom", geom, {"pos", "quat", "rgba"})
        \cup (IF (typed \/ box) /\ type \in Sized
              THEN Misfits(where, geom, {"size"}) ELSE {})
        \cup Unsupported("geom", type, GeomTypes)
        \cup (CASE type \in {"mesh", "hfield"} -> Missing("geom", geom, {type})
                [] type = "sdf" -> Missing("geom", geom, {"mesh", "plugin_instance"})
                [] OTHER -> {})
        \cup UnknownPlugin(scene, where, geom)

JointThrows(joint) ==
    LET type == ValueOr(joint, "type", "hinge")
    IN  Unsupported("joint", type, JointTypes)
        \cup Misfits("joint", joint,
                     IF type \in {"hinge", "slide"} THEN {"axis", "range", "pos"}
                     ELSE {"pos"})

SiteThrows(site) ==
    Unsupported("site", ValueOr(site, "type", "sphere"), SiteTypes)
    \cup Misfits("site", site, {"pos", "quat"})

CameraThrows(where, camera) == Misfits(where, camera, {"pos", "quat"})

\* Whether the childclass of a body, or of one above it, applies to its geoms.
Classed(scene, body) ==
    LET bodies == Items(scene, "bodies")
    IN  body.id \in Reached(bodies, {b.id : b \in {x \in bodies :
                                               Given(x, "childclass")}})

BodyThrows(scene, body) ==
    LET Geoms(geom) == GeomThrows(scene, geom, Classed(scene, body))
    IN  Misfits("body", body, {"pos", "quat"})
        \cup (IF "replicate" \in DOMAIN body
              THEN Misfits("body", body, {"offset", "euler"}) ELSE {})
        \cup Over(Inner(body, "joints"), JointThrows)
        \cup Over(Inner(body, "geoms"), Geoms)
        \cup Over(Inner(body, "sites"), SiteThrows)
        \cup Over(Inner(body, "cameras"), LAMBDA c : CameraThrows("camera", c))

EqualityThrows(eq) ==
    CASE eq.type = "connect" ->
             Missing("equality", eq, {"body1", "body2"})
             \cup Misfits("equality", eq, {"anchor"})
      [] eq.type = "weld" -> Missing("equality", eq, {"body1", "body2"})
      [] eq.type = "joint" -> Missing("equality", eq, {"joint1"})
      [] eq.type = "tendon" ->
             Missing("equality", eq, {"tendon1"})
             \cup Misfits("equality", eq, {"polycoef"})
      [] OTHER -> {<<"equality", "type">>}

TendonThrows(tendon) ==
    Misfits("tendon", tendon, {"range"})
    \cup CASE tendon.type = "fixed" ->
                  IF Inner(tendon, "joints") = {} THEN {<<"tendon", "joints">>}
                  ELSE {}
           [] tendon.type = "spatial" /\ Inner(tendon, "path") # {} ->
                  Over(Inner(tendon, "path"),
                       LAMBDA p : Unsupported("path", ValueOr(p, "type", "site"),
                                              {"site", "geom", "pulley"}))
           [] tendon.type = "spatial" /\ Inner(tendon, "path") = {} ->
                  IF Len(ValueOr(tendon, "sites", <<>>)) < 2
                  THEN {<<"tendon", "sites">>} ELSE {}
           [] OTHER -> {<<"tendon", "type">>}

\* The vectors that only actuators of the type have.
VectorsOf(type) ==
    CASE type = "intvelocity" -> {"actrange"}
      [] type = "cylinder" -> {"bias"}
      [] type = "muscle" -> {"timeconst", "range"}
      [] OTHER -> {}

ActuatorThrows(scene, actuator) ==
    Unsupported("actuator", Value(actuator, "type"), ActuatorTypes)
    \cup Missing("actuator", actuator, {Target(Value(actuator, "type"))})
    \cup Misfits("actuator", actuator,
                 {"ctrlrange", "forcerange"}
                     \cup VectorsOf(Value(actuator, "type")))
    \cup (IF Value(actuator, "type") # "plugin" THEN {}
          ELSE Missing("actuator", actuator, {"plugin_instance"})
               \cup UnknownPlugin(scene, "actuator", actuator))

SensorThrows(scene, sensor) ==
    CASE Shape[sensor.type] \in {"site", "body"} ->
             Missing("sensor", sensor, {Shape[sensor.type]})
      [] Shape[sensor.type] = "frame" ->
             Missing("sensor", sensor, {"objtype", "objname"})
      [] Shape[sensor.type] = "camprojection" ->
             Missing("sensor", sensor, {"site", "camera"})
      [] Shape[sensor.type] = "insidesite" ->
             Missing("sensor", sensor, {"site", "objtype", "objname"})
      [] Shape[sensor.type] = "geompair" ->
             {<<"sensor", pair[1]>> : pair \in
                 {p \in {<<"geom1", "body1">>, <<"geom2", "body2">>} :
                     Given(sensor, p[1]) = Given(sensor, p[2])}}
      [] Shape[sensor.type] = "none" -> {}
      [] Shape[sensor.type] = "plugin" ->
             Missing("sensor", sensor, {"plugin_instance"})
             \cup UnknownPlugin(scene, "sensor", sensor)

DeformableThrows(scene) ==
    Over(Items(scene, "flexes"),
         LAMBDA f : Missing("flex", f, {"body"}) \cup Misfits("flex", f, {"rgba"}))
    \cup Over(Items(scene, "skins"),
              LAMBDA s : Misfits("skin", s, {"rgba", "bindpos", "bindquat"}))

\* What the compile_ functions refuse for want of an id.
Unnamed(scene) ==
    LET Nested(part) ==
            UNION {Inner(body, part) : body \in Items(scene, "bodies")}
        named ==
            (UNION {Items(scene, section) : section \in
                 {"assets", "objects", "sensors", "cameras", "flexes",
                  "skins", "equality", "tendon", "actuators", "keyframes"}})
            \cup (UNION {Nested(part) : part \in
                      {"joints", "geoms", "sites", "cameras"}})
    IN  Over(named, LAMBDA x : Missing("item", x, {"id"}))

Throws(scene) ==
    LET Sensor(sensor) == SensorThrows(scene, sensor)
        Bodies(body) == BodyThrows(scene, body)
        Actuators(actuator) == ActuatorThrows(scene, actuator)
        NoSensor(object) == ~IsSensor(object)
    IN  GlobalThrows(scene) \cup Unnamed(scene)
        \cup Over(Items(scene, "defaultClasses"), ClassThrows)
        \cup Over(Items(scene, "assets"), AssetThrows)
        \cup Over(Items(scene, "models"),
                  LAMBDA m : Misfits("model", m, {"pos", "quat"}))
        \cup Over({o \in Items(scene, "objects") : NoSensor(o)}, ObjectThrows)
        \cup Over({o \in Items(scene, "objects") : IsSensor(o)}, Sensor)
        \cup Over(Items(scene, "cameras"), LAMBDA c : CameraThrows("world", c))
        \cup Over(Items(scene, "bodies"), Bodies)
        \cup Over(Items(scene, "pairs"),
                  LAMBDA p : Missing("pair", p, {"geom1", "geom2"})
                             \cup Misfits("pair", p, {"friction", "solref",
                                      "solreffriction", "solimp"}))
        \cup DeformableThrows(scene)
        \cup Over(Items(scene, "equality"), EqualityThrows)
        \cup Over(Items(scene, "tendon"), TendonThrows)
        \cup Over(Items(scene, "actuators"), Actuators)
        \cup Over(Items(scene, "sensors"), Sensor)
=============================================================================
