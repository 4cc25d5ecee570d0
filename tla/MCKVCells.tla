------------------------------ MODULE MCKVCells -----------------------------
(* One stream of two cells and two sequences, neither told apart. *)
EXTENDS KVCells, TLC

DeltaValues == {-1, 1}
Symmetry    == Permutations(Cell) \cup Permutations(SeqId)

=============================================================================
