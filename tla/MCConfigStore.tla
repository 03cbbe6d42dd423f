---------------------------- MODULE MCConfigStore ----------------------------
\* Small instances of ConfigStore for TLC.
EXTENDS ConfigStore, TLC

Symmetry == Permutations(Nodes) \cup Permutations(Groups)
=============================================================================
