--------------------------- MODULE MCInjectDelivery ---------------------------
(* Model values and symmetry for the TLC runs of InjectDelivery. *)
EXTENDS InjectDelivery, TLC

Symmetry == Permutations(FollowUps) \cup Permutations(Queued)

=============================================================================
