------------------------------ MODULE MCRegistry ------------------------------
(* Registry for TLC: handles, UUIDs and ports are interchangeable.         *)
EXTENDS Registry, TLC

Symmetry == Permutations(Word) \cup Permutations(Uuid) \cup Permutations(Path)
=============================================================================
