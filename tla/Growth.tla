------------------------------- MODULE Growth -------------------------------
(***************************************************************************)
(* GROW_CAPACITY and SHRINK_CAPACITY of vm/memory.h, by which every array  *)
(* of the interpreter changes its size.                                    *)
(***************************************************************************)
EXTENDS Integers

GrowCapacity(cap) == IF cap < 8 THEN 8 ELSE 2 * cap

ShrinkCapacity(cap) == IF cap < 16 THEN 8 ELSE cap \div 2
=============================================================================
