------------------------------ MODULE MCCalls -------------------------------
(***************************************************************************)
(* A small instance of Calls for TLC.                                      *)
(***************************************************************************)
EXTENDS Calls, TLC

Sym == Permutations(Value)
============================================================================
