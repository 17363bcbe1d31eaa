------------------------------- MODULE MCScenes -------------------------------
(* Scenes for TLC. *)
EXTENDS Scenes, TLC

\* Handlers, instances and values of initial_state are interchangeable;
\* versions, which have an order, are not.
MCSymmetry == Permutations(Thread) \cup Permutations(Instance)
                  \cup Permutations(Runtime)

=============================================================================
