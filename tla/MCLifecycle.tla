----------------------------- MODULE MCLifecycle -----------------------------
EXTENDS Lifecycle, TLC

Symmetry == Permutations(Goroutines) \cup Permutations(Stmts)
=============================================================================
