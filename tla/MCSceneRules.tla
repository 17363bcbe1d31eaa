---------------------------- MODULE MCSceneRules ----------------------------
(* Scene items for TLC: few ids, so that they meet. *)
EXTENDS SceneRules

MCSections == Range(Pooled)
                  \cup {"excludes", "defaultClasses", "physics", "environment"}

Body(id, parent) == [id |-> id, parent |-> parent]
\* A body b with one part of its own.
With(part, item) == [id |-> "b", parent |-> ""] @@ (part :> <<item>>)
Sensor(type) == [id |-> "s", type |-> type]

MCPool == [section \in MCSections |->
    CASE section = "physics" -> {[wrong |-> {"gravity"}], [wrong |-> {"o_solref", "inertiagrouprange"}]}
      [] section = "environment" ->
             {[skybox |-> TRUE], [checker |-> TRUE], [noground |-> TRUE],
              [wrong |-> {"rgb1"}],
              [wrong |-> {"center", "headlight", "visual_rgba"}]}
      [] section = "models" ->
             {[id |-> "a", model_id |-> "m", source |-> "file"],
              [id |-> "m", model_id |-> "m", source |-> "gone", wrong |-> {"pos"}]}
      [] section = "plugins" ->
             {[id |-> "p", plugin |-> "family"], [id |-> "q"]}
      [] section = "assets" ->
             {[id |-> "a", kind |-> "texture", file |-> "file"],
              [id |-> "scene_skybox", kind |-> "texture", file |-> "file"],
              [id |-> "mat", kind |-> "material", texture |-> "a"],
              [id |-> "a", kind |-> "mesh", file |-> "file", wrong |-> {"scale"}],
              [id |-> "a", kind |-> "mesh", plugin_instance |-> "p"],
              [id |-> "h", kind |-> "hfield", file |-> "file", wrong |-> {"size"}]}
      [] section = "defaultClasses" ->
             {Body("c", ""), Body("c", "d"), Body("d", "c"), Body("c", "c"),
              [id |-> "d", joint |-> "cube", material |-> "a", wrong |-> {"axis"}]}
      [] section = "bodies" ->
             {Body("b", ""), Body("b", "c"), Body("c", "b"), Body("d", "c"),
              Body("b", "b"),
              [id |-> "b", replicate |-> 2],
              [id |-> "c", parent |-> "b", replicate |-> 2],
              [id |-> "b", replicate |-> 0, wrong |-> {"euler"}],
              [id |-> "c", childclass |-> "c", wrong |-> {"quat"},
               geoms |-> <<[id |-> "g", wrong |-> {"size"}]>>],
              With("joints", [id |-> "a", type |-> "slide", wrong |-> {"axis"}]),
              With("joints", [id |-> "j", class |-> "c"]),
              With("geoms", [id |-> "a_geom", wrong |-> {"size"}]),
              With("geoms", [id |-> "g", type |-> "sphere", wrong |-> {"size"}]),
              With("geoms", [id |-> "g", type |-> "mesh", mesh |-> "a"]),
              With("geoms", [id |-> "g", type |-> "sdf", mesh |-> "a",
                             plugin_instance |-> "p"]),
              With("geoms", [id |-> "g", plugin_instance |-> "q", class |-> "c"]),
              With("geoms", [id |-> "g", plugin_instance |-> "q"]),
              With("geoms", [id |-> "g", material |-> "mat"]),
              With("sites", [id |-> "a", wrong |-> {"quat"}]),
              With("sites", [id |-> "b"]),
              With("cameras", [id |-> "g", class |-> "d"])}
      [] section = "objects" ->
             {[id |-> "a", type |-> "obstacle.box", wrong |-> {"size"}],
              [id |-> "b", type |-> "obstacle.mesh", mesh |-> "a"],
              [id |-> "o", type |-> "sensor.subtreecom", body |-> "b"]}
      [] section = "sensors" ->
             {Sensor("sensor.force"),
              Sensor("sensor.framepos") @@ [objtype |-> "site", objname |-> "a",
                                            reftype |-> "xbody", refname |-> "c"],
              Sensor("sensor.insidesite") @@ [site |-> "a", objtype |-> "body",
                                              objname |-> "b"],
              Sensor("sensor.distance") @@ [body1 |-> "c", geom2 |-> "g"],
              Sensor("sensor.plugin") @@ [plugin_instance |-> "p"],
              Sensor("sensor.plugin")}
      [] section = "pairs" ->
             {[id |-> "a", geom1 |-> "g", geom2 |-> "g"],
              [geom1 |-> "g", geom2 |-> "g", wrong |-> {"solref"}]}
      [] section = "excludes" -> {[name |-> "x", body1 |-> "c", body2 |-> "b"], [body1 |-> "b"]}
      [] section = "equality" ->
             {[id |-> "e", type |-> "connect", body1 |-> "b", body2 |-> "d"],
              [id |-> "e", type |-> "connect", body1 |-> "x", body2 |-> "y",
               wrong |-> {"anchor"}],
              [id |-> "e", type |-> "joint", body1 |-> "b"],
              [id |-> "a", type |-> "tendon", tendon1 |-> "t"]}
      [] section = "tendon" ->
             {[id |-> "t", type |-> "fixed", joints |-> <<[joint |-> "j"]>>],
              [id |-> "t", type |-> "spatial", sites |-> <<"a">>],
              [id |-> "t", type |-> "spatial", path |-> <<[site |-> "a"]>>,
               wrong |-> {"range"}]}
      [] section = "actuators" ->
             {[id |-> "u", type |-> "motor", joint |-> "j", class |-> "c"],
              [id |-> "a", type |-> "adhesion", body |-> "b"],
              [id |-> "u", type |-> "muscle", joint |-> "j", wrong |-> {"range"}],
              [id |-> "u", type |-> "plugin", joint |-> "j",
               plugin_instance |-> "p"]}
      [] section = "flexes" -> {[id |-> "f", body |-> "b"], [id |-> "f", dim |-> 4]}
      [] section = "skins" ->
             {[id |-> "f", material |-> "a", bone |-> <<[body |-> "b"]>>]}
      [] section = "cameras" -> {[id |-> "g", wrong |-> {"pos"}]}
      [] section = "custom" -> {[id |-> "a"]}
      [] section = "keyframes" -> {[id |-> "k"], [k \in {} |-> 0]}]
=============================================================================
