-------------------------- MODULE MCPlayerManager --------------------------
(***************************************************************************)
(* Model checking of PlayerManager.  The engine's addresses are            *)
(* interchangeable, so the safety runs use them as a symmetry set.         *)
(***************************************************************************)
EXTENDS PlayerManager, TLC

AddrSymmetry == Permutations(Addr)
=============================================================================
