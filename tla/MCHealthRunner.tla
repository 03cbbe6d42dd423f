---------------------------- MODULE MCHealthRunner ----------------------------
\* Small instances of HealthRunner for TLC.
EXTENDS HealthRunner, TLC

Symmetry == Permutations(Nodes) \cup Permutations(Runs)
=============================================================================
