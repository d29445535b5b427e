------------------------------- MODULE Lists -------------------------------
(***************************************************************************)
(* Lists, vm/datatypes/lists/lists.c over the ValueArray of vm/value.c: an *)
(* array that only grows, of which the first count slots are the list.     *)
(* The slots beyond keep what they held, as removals only move elements    *)
(* down and count; a program sees one of them if an index goes one too far.*)
(* An extend is a push of each element of another list.                    *)
(***************************************************************************)
EXTENDS Growth

CONSTANTS ListElements,        \* what lists hold
          Garbage,         \* an unwritten slot, or memory behind the array
          Error,           \* a runtime error instead of an answer
          None,            \* nil, and no answer yet
          MaxListCapacity  \* bound: no list grows beyond this many slots

ASSUME ListsAssumption ==
  /\ {Garbage, Error, None} \cap ListElements = {}
  /\ Garbage # Error /\ Garbage # None /\ Error # None
  /\ MaxListCapacity \in Nat

VARIABLES list,     \* ObjList's ValueArray
          replied,   \* what the last call answered
          beyond    \* that call took an element from behind the last

listVars == <<list, replied, beyond>>

----------------------------------------------------------------------------
\* Plausible slips, used to show that the properties can fail.

\* A removal that has found its value moves one slot less.
BrokenMovedDown(l, index) ==
  [l EXCEPT !.values = [i \in DOMAIN @ |-> IF i > index /\ i < l.count - 1 THEN @[i + 1] ELSE @[i]]]
----------------------------------------------------------------------------
Count == list.count

\* writeValueArray's and insertListItem's growth.
Roomy(l) ==
  IF l.capacity > l.count THEN l
  ELSE LET capacity == GrowCapacity(l.capacity)
       IN [l EXCEPT !.capacity = capacity,
                    !.values = [i \in 0 .. capacity - 1 |-> IF i < l.capacity THEN @[i] ELSE Garbage]]

WriteValueArray(l, e) ==
  LET roomy == Roomy(l) IN [roomy EXCEPT !.values[l.count] = e, !.count = @ + 1]

\* The loops of insert, and of pop and remove: elements make room for one at the
\* index, or close the gap it leaves.  The slot behind them keeps its element.
MovedUp(l, index) ==
  [l EXCEPT !.values = [i \in DOMAIN @ |-> IF i > index /\ i <= l.count THEN @[i - 1] ELSE @[i]]]
MovedDown(l, index) ==
  [l EXCEPT !.values = [i \in DOMAIN @ |-> IF i >= index /\ i < l.count - 1 THEN @[i + 1] ELSE @[i]]]

\* The slot an index from the program means.
Slot(index) == IF index < 0 THEN Count + index ELSE index

HasRoom(n) == Count + n <= list.capacity \/ GrowCapacity(list.capacity) <= MaxListCapacity

Replies(value) == replied' = value /\ beyond' = FALSE
ListFails == Replies(Error) /\ UNCHANGED list
----------------------------------------------------------------------------
NewList == [capacity |-> 0, count |-> 0, values |-> [i \in {} |-> Garbage]]

ListInit == list = NewList /\ replied = None /\ beyond = FALSE

PushItem(e) == /\ HasRoom(1)
           /\ list' = WriteValueArray(list, e)
           /\ Replies(None)

InsertItem(e, index) ==
  LET at == IF index < 0 THEN Count + index + 1 ELSE index
  IN IF at < 0 \/ at > Count THEN ListFails
     ELSE /\ HasRoom(1)
          /\ list' = [MovedUp(Roomy(list), at) EXCEPT !.values[at] = e, !.count = @ + 1]
          /\ Replies(None)

\* pop() and pop(index).  The test lets one index behind the last element pass.
PopItemAt(index) ==
  IF Count = 0 \/ Slot(index) < 0 \/ Slot(index) > Count THEN ListFails
  ELSE /\ replied' = IF Slot(index) < list.capacity THEN list.values[Slot(index)] ELSE Garbage
       /\ beyond' = (Slot(index) = Count)
       /\ list' = [MovedDown(list, Slot(index)) EXCEPT !.count = @ - 1]

PopItem == IF Count = 0 THEN ListFails
       ELSE Replies(list.values[Count - 1]) /\ list' = [list EXCEPT !.count = @ - 1]

\* The loop finds the first equal element and moves those behind it down.
RemoveItem(e) ==
  LET places == {i \in 0 .. Count - 1 : list.values[i] = e}
  IN IF places = {} THEN ListFails
     ELSE LET first == CHOOSE i \in places : \A j \in places : i <= j
          IN /\ list' = [MovedDown(list, first) EXCEPT !.count = @ - 1]
             /\ Replies(None)

ReverseList ==
  /\ list' = [list EXCEPT !.values =
                [i \in DOMAIN @ |-> IF i < Count THEN @[Count - 1 - i] ELSE @[i]]]
  /\ Replies(None)

\* SUBSCRIPT and SUBSCRIPT_ASSIGN.
SubscriptItem(index) ==
  IF Slot(index) < 0 \/ Slot(index) >= Count THEN ListFails
  ELSE Replies(list.values[Slot(index)]) /\ UNCHANGED list

AssignItem(e, index) ==
  IF Slot(index) < 0 \/ Slot(index) >= Count THEN ListFails
  ELSE list' = [list EXCEPT !.values[Slot(index)] = e] /\ Replies(None)

ListNext ==
  \/ \E e \in ListElements : PushItem(e) \/ RemoveItem(e)
  \/ PopItem \/ ReverseList
  \/ \E index \in -Count - 1 .. Count :
       \/ PopItemAt(index) \/ SubscriptItem(index)
       \/ \E e \in ListElements : AssignItem(e, index)
  \/ \E index \in -Count - 2 .. Count + 1, e \in ListElements : InsertItem(e, index)

ListSpec == ListInit /\ [][ListNext]_listVars

----------------------------------------------------------------------------
\* The elements are in the array.
ListTypeOK ==
  /\ list.capacity \in Nat /\ list.count \in 0 .. list.capacity
  /\ list.values \in [0 .. list.capacity - 1 -> ListElements \cup {Garbage}]
  /\ replied \in ListElements \cup {Garbage, Error, None} /\ beyond \in BOOLEAN

\* The list that the program sees.
Items == [i \in 1 .. Count |-> list.values[i - 1]]

\* A list is a sequence, whatever its array went through: growth, elements moved
\* up and down, and stale ones behind the last.  The exception is a pop(index)
\* with the index of the slot behind the last element, which the code lets pass:
\* it answers what is there, and drops the last element.
Sequence == INSTANCE SequenceSpec WITH items <- Items, answer <- replied, Elements <- ListElements
ListIsSequence == Sequence!Init /\ [][UNCHANGED listVars \/ beyond' \/ Sequence!Next]_<<Items, replied>>
=============================================================================
