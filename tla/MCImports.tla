----------------------------- MODULE MCImports ------------------------------
(***************************************************************************)
(* A small instance of Imports for TLC.                                    *)
(***************************************************************************)
EXTENDS Imports, TLC

Sym == Permutations(Files)
============================================================================
