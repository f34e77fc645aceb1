----------------------------- MODULE MCAggregate -----------------------------
EXTENDS Aggregate, TLC

Symmetry == Permutations(Aggregations)
=============================================================================
