--------------------------- MODULE MCOrphanSpawn ---------------------------
(***************************************************************************)
(* Model checking of OrphanSpawn.  The addresses are interchangeable.      *)
(***************************************************************************)
EXTENDS OrphanSpawn, TLC

AddrSymmetry == Permutations(Addr)
=============================================================================
