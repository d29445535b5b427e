------------------------------ MODULE FifoSpec ------------------------------
(***************************************************************************)
(* What the Queue module promises a program: values come out in the order  *)
(* in which they went in, and a peek shows the next one.  It says nothing  *)
(* of slots, wrapping, growing or shrinking.                               *)
(***************************************************************************)
EXTENDS Sequences

CONSTANT Elem

VARIABLES items,   \* the values in the queue, first the one that is next
          taken    \* what the last pop() or peek() answered

Init == items = <<>>

Push(e) == /\ items' = Append(items, e)
           /\ UNCHANGED taken

Pop == /\ items # <<>>
       /\ taken' = Head(items)
       /\ items' = Tail(items)

Peek == /\ items # <<>>
        /\ taken' = Head(items)
        /\ UNCHANGED items

\* The documentation does not say what a peek into an empty queue answers.
PeekNothing == items = <<>> /\ items' = <<>>

Next == (\E e \in Elem : Push(e)) \/ Pop \/ Peek \/ PeekNothing
=============================================================================
