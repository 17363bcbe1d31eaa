----------------------------- MODULE MCModelCache -----------------------------
(* ModelCache for TLC. *)
EXTENDS ModelCache, TLC

\* Handlers, mjModel objects and instances are interchangeable.
MCSymmetry == Permutations(Handler) \cup Permutations(Model)
                  \cup Permutations(Holder)

=============================================================================
