SPECIFICATION SceneSpec
CONSTANTS
    Files = {"file"}
    Reserved = {"scene_skybox", "scene_ground_tex", "scene_ground_mat"}
    Sections <- MCSections
    Pool <- MCPool
    MaxItems = 3
INVARIANTS EmittedOnce NamesAreUnique ReferencesResolve ReplicatedUnaddressed ValidScenesCompile
CHECK_DEADLOCK FALSE
