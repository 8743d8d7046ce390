--------------------------- MODULE MCDispatchJournal ---------------------------
(* Two acts that TLC may swap.                                              *)
EXTENDS DispatchJournal, TLC

ActSymmetry == Permutations(Acts)

=============================================================================
