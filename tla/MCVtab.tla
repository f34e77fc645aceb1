-------------------------------- MODULE MCVtab --------------------------------
(* Vtab for TLC: one connection that makes several tables and cursors, others *)
(* that get as far as one table, and the symmetry.                           *)
EXTENDS Vtab, TLC

CONSTANTS c1, Many, Few

Bounds == [c \in Conns |-> IF c = c1 THEN Many ELSE Few]

Symmetry == Permutations(Addresses)
=============================================================================
