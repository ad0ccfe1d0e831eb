---------------------------- MODULE MCLifecycle -----------------------------
(* Finite instances of Lifecycle: the values are in the .cfg files. *)
EXTENDS Lifecycle, TLC

\* Requests are interchangeable (no liveness is checked under it).
Symmetry == Permutations(Reqs)

=============================================================================
