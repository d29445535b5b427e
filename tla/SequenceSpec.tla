---------------------------- MODULE SequenceSpec ----------------------------
(***************************************************************************)
(* What a list promises a program: a sequence that changes in place, where *)
(* a negative index counts from the end and a call that asks for what is   *)
(* not there is an error and changes nothing.                              *)
(***************************************************************************)
EXTENDS Integers, Sequences, SequencesExt

CONSTANTS Elements, Error, None

VARIABLES items,   \* the elements, in order
          answer   \* what the last call answered

Init == items = <<>> /\ answer = None

\* Position in items of an index from the program.
Position(index) == IF index < 0 THEN Len(items) + index + 1 ELSE index + 1

Is(new, value) == items' = new /\ answer' = value

Fails == Is(items, Error)

Push(e) == Is(Append(items, e), None)

Insert(e, index) ==
  LET at == IF index < 0 THEN Position(index) + 1 ELSE Position(index)
  IN IF at \in 1 .. Len(items) + 1 THEN Is(InsertAt(items, at, e), None) ELSE Fails

Pop(index) == LET at == Position(index)
              IN IF at \in DOMAIN items THEN Is(RemoveAt(items, at), items[at]) ELSE Fails

RemoveValue(e) == IF Contains(items, e) THEN Is(RemoveFirst(items, e), None) ELSE Fails

Get(index) == LET at == Position(index)
              IN IF at \in DOMAIN items THEN Is(items, items[at]) ELSE Fails

Set(e, index) == LET at == Position(index)
                 IN IF at \in DOMAIN items THEN Is(ReplaceAt(items, at, e), None) ELSE Fails

Turn == Is(Reverse(items), None)

\* The indices that are worth telling apart.
Indices == -Len(items) - 2 .. Len(items) + 1

Next == \/ \E e \in Elements : Push(e) \/ RemoveValue(e)
        \/ \E index \in Indices : Pop(index) \/ Get(index)
        \/ \E e \in Elements, index \in Indices : Insert(e, index) \/ Set(e, index)
        \/ Turn
=============================================================================
