---------------------------- MODULE MCSceneFiles ----------------------------
(* SceneFiles on a small instance: two savers of one file need no more than *)
(* three inodes, and threads, versions and inodes are interchangeable.      *)
EXTENDS SceneFiles, TLC

Symmetry ==
    Permutations(Thread) \cup Permutations(Version) \cup Permutations(Inode)
=============================================================================
