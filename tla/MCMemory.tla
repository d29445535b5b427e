------------------------------ MODULE MCMemory -----------------------------
(***************************************************************************)
(* A small instance of Memory for TLC.                                     *)
(***************************************************************************)
EXTENDS Memory, TLC
Sym == Permutations(Obj)
============================================================================
