----------------------------- MODULE MCRouteLock -----------------------------
(* RouteLock on a route that meets every kind of request. *)
EXTENDS RouteLock, TLC

(* Requests of one kind are interchangeable (for safety runs only). *)
Symmetry == Permutations(Runs)
=============================================================================
