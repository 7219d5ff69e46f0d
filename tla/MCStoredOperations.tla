------------------------- MODULE MCStoredOperations -------------------------
(* Model values and symmetry for checking StoredOperations.                *)
EXTENDS StoredOperations, TLC

RequestSymmetry == Permutations(Requests)

=============================================================================
