------------------------------- MODULE MCTrace -------------------------------
(* Trace for TLC: the masks, and the symmetry. *)
EXTENDS Trace, TLC

\* A user who asks for the close event and one who does not.
TwoMasks == {{Profile}, {Stmt, Close}}

Symmetry == Permutations(Conns) \cup Permutations(Addresses)
=============================================================================
