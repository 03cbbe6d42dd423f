-------------------------- MODULE MCRuntimeManager --------------------------
(* Instances of RuntimeManager for TLC. *)
EXTENDS RuntimeManager, TLC

\* Core slots and callers are interchangeable; mappings and ports are not, one
\* of each being chosen as the default of unused fields.
Symmetry == Permutations(Callers) \cup Permutations(Cores)
=============================================================================
