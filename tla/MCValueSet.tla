----------------------------- MODULE MCValueSet -----------------------------
(***************************************************************************)
(* An instance of ValueSet for TLC that starts with a set of six values in *)
(* eight slots.  There 1 and 9 share a home and every other value has its  *)
(* own.                                                                    *)
(***************************************************************************)
EXTENDS ValueSet

MCMemberHash == [v \in Members |-> v]

MCLiterals == {<<1, 2, 3, 4, 5, 6>>}
============================================================================
