-------------------------- MODULE MCMemoryPool --------------------------
(* An instance of MemoryPool for TLC. *)
EXTENDS MemoryPool, TLC

Symmetry == Permutations(Threads)
=============================================================================
