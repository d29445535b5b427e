------------------------------ MODULE ValueSet ------------------------------
(***************************************************************************)
(* Sets: ObjSet in vm/value.c, the methods of datatypes/sets.c and the     *)
(* set() function of natives.c.                                            *)
(*                                                                         *)
(* A set looks like a dictionary, but a removed value stays in its slot    *)
(* with a deleted flag, where findSetEntry still takes it for the value    *)
(* sought, and a removal lowers count, so count does not bound the slots   *)
(* in use.  findSetEntry's for (;;) is one step per slot here, because     *)
(* whether it ends is the question.                                        *)
(***************************************************************************)
EXTENDS Growth, FiniteSets, Sequences

CONSTANTS Members,         \* the values a program puts into sets
          MemberHash,      \* MemberHash[v]: hashValue of v
          Vacant,          \* a slot whose value is EMPTY_VAL and not deleted
          SetLiterals,     \* bound: the argument lists of set(...)
          MaxSetCapacity   \* bound: no set grows beyond this many slots, and none
                           \* beyond what its int capacityMask can count

SetItem == [value : Members, deleted : BOOLEAN]

ASSUME ValueSetAssumption ==
  /\ MemberHash \in [Members -> Nat]
  /\ Vacant \notin SetItem
  /\ SetLiterals \subseteq Seq(Members)
  /\ \A args \in SetLiterals : Len(args) <= 2 ^ 14  \* STACK_MAX: they are on the stack
  /\ MaxSetCapacity \in Nat /\ MaxSetCapacity <= 2 ^ 30

VARIABLES set,     \* struct sObjSet
          op,      \* the method whose findSetEntry is probing, or "none"
          arg,     \* its argument; Vacant between calls
          index,   \* the slot findSetEntry looks at
          answer   \* the result of the last call; FALSE is remove()'s error

setVars == <<set, op, arg, index, answer>>

----------------------------------------------------------------------------
\* Plausible slips, used to show that the properties can fail.

\* setInsert leaves the deleted flag as it is.
BrokenInsertAt(s, i, v) ==
  [s EXCEPT !.entries[i] = [value |-> v,
                            deleted |-> s.entries[i] # Vacant /\ s.entries[i].deleted],
            !.count = IF s.entries[i] # Vacant /\ ~ s.entries[i].deleted THEN @ ELSE @ + 1]
----------------------------------------------------------------------------
SetCapacity(s) == s.capacityMask + 1

IsPresent(c) == c # Vacant /\ ~ c.deleted

\* The values that values() lists and the program thinks of as the set.
Elements(s) == {s.entries[i].value :
                  i \in {j \in DOMAIN s.entries : IsPresent(s.entries[j])}}

NewSet == [entries |-> [i \in 0 .. -1 |-> Vacant], capacityMask |-> -1, count |-> 0]

MemberHome(v, capacityMask) == MemberHash[v] % (capacityMask + 1)

\* findSetEntry stops at an empty slot and at v, even a deleted v.
StopsAtMember(c, v) == c # Vacant => c.value = v

\* Where findSetEntry ends, in an array where it does.
FindSetEntry(entries, capacityMask, v) ==
  LET slot(d) == (MemberHome(v, capacityMask) + d) % (capacityMask + 1)
      stops(d) == StopsAtMember(entries[slot(d)], v)
  IN slot(CHOOSE d \in 0 .. capacityMask :
            stops(d) /\ \A c \in 0 .. d - 1 : ~ stops(c))

\* One turn of adjustSetCapacity's loop: what a slot holds goes to the new array.
MoveMember(fresh, capacityMask, c) ==
  IF IsPresent(c) THEN [fresh EXCEPT ![FindSetEntry(fresh, capacityMask, c.value)] = c]
                  ELSE fresh

\* adjustSetCapacity: the array after the first n slots are moved.
MovedMembers(s, capacityMask) ==
  LET moved[n \in 0 .. SetCapacity(s)] ==
        IF n = 0 THEN [i \in 0 .. capacityMask |-> Vacant]
                 ELSE MoveMember(moved[n - 1], capacityMask, s.entries[n - 1])
  IN moved[SetCapacity(s)]

AdjustSetCapacity(s, capacityMask) ==
  [entries |-> MovedMembers(s, capacityMask), capacityMask |-> capacityMask,
   count |-> Cardinality(Elements(s))]

\* setInsert's test: count + 1 > capacity * 0.75.
SetIsFull(s) == 4 * (s.count + 1) > 3 * SetCapacity(s)

\* A slip: the mask is the number of slots.
BrokenGrownSet(s) == IF SetIsFull(s) THEN AdjustSetCapacity(s, GrowCapacity(SetCapacity(s))) ELSE s

GrownSet(s) == IF SetIsFull(s) THEN AdjustSetCapacity(s, GrowCapacity(SetCapacity(s)) - 1) ELSE s

\* The end of setInsert, at the slot i that findSetEntry returned.
InsertAt(s, i, v) ==
  [s EXCEPT !.entries[i] = [value |-> v, deleted |-> FALSE],
            !.count = IF IsPresent(s.entries[i]) THEN @ ELSE @ + 1]

\* setDelete at a slot i that holds the value, deleted or not.
Dropped(s, i) == [s EXCEPT !.entries[i].deleted = TRUE, !.count = @ - 1]

\* count - 1 < capacityMask * 0.25.
SetIsSparse(s) == 4 * (s.count - 1) < s.capacityMask

\* The end of setDelete.
DeleteAt(s, i) ==
  LET d == Dropped(s, i)
  IN IF SetIsSparse(d) THEN AdjustSetCapacity(d, ShrinkCapacity(SetCapacity(d)) - 1) ELSE d

\* A count that removals have made too low shrinks the array below the number
\* of its elements; the probe for a slot of the smaller one never ends.
ShrinkEnds(s, i) ==
  LET d == Dropped(s, i)
  IN SetIsSparse(d) => Cardinality(Elements(d)) <= ShrinkCapacity(SetCapacity(d))

Inserted(s, v) == LET g == GrownSet(s)
                  IN InsertAt(g, FindSetEntry(g.entries, g.capacityMask, v), v)

\* set(...).  Without removals its probes end.
SetNative(args) ==
  LET built[n \in 0 .. Len(args)] ==
        IF n = 0 THEN NewSet ELSE Inserted(built[n - 1], args[n])
  IN built[Len(args)]

----------------------------------------------------------------------------
SetInit == /\ set \in {SetNative(args) : args \in SetLiterals}
           /\ op = "none" /\ arg = Vacant /\ index = 0 /\ answer = TRUE

\* A method starts to probe s for v.
BeginProbe(name, s, v) ==
  /\ set' = s
  /\ op' = name /\ arg' = v
  /\ index' = MemberHome(v, s.capacityMask)
  /\ UNCHANGED answer

AddSetItem(v) ==
  /\ op = "none"
  /\ ~ SetIsFull(set) \/ GrowCapacity(SetCapacity(set)) <= MaxSetCapacity
  /\ BeginProbe("add", GrownSet(set), v)

\* An empty set is not probed.
Ask(name, v) ==
  /\ op = "none"
  /\ IF set.count = 0
     THEN answer' = FALSE /\ UNCHANGED <<set, op, arg, index>>
     ELSE BeginProbe(name, set, v)

RemoveSetItem(v) == Ask("remove", v)

ContainsSetItem(v) == Ask("contains", v)

\* One turn of findSetEntry's loop that goes on.
ProbeNext == /\ op # "none"
             /\ ~ StopsAtMember(set.entries[index], arg)
             /\ index' = (index + 1) % SetCapacity(set)
             /\ UNCHANGED <<set, op, arg, answer>>

\* What the methods do with the slot findSetEntry returns.
FinishProbe == /\ op # "none"
               /\ StopsAtMember(set.entries[index], arg)
               /\ CASE op = "contains" -> /\ answer' = IsPresent(set.entries[index])
                                          /\ UNCHANGED set
                    [] op = "add"      -> /\ answer' = ~ IsPresent(set.entries[index])
                                          /\ set' = InsertAt(set, index, arg)
                    [] op = "remove"   -> /\ set.entries[index] # Vacant => ShrinkEnds(set, index)
                                          /\ answer' = (set.entries[index] # Vacant)
                                          /\ set' = IF set.entries[index] = Vacant
                                                    THEN set ELSE DeleteAt(set, index)
               /\ op' = "none" /\ arg' = Vacant /\ index' = 0

SetNext == \/ \E v \in Members : AddSetItem(v) \/ RemoveSetItem(v) \/ ContainsSetItem(v)
           \/ ProbeNext
           \/ FinishProbe

\* The interpreter is one thread: a loop that can take its next turn takes it.
SetSpec == SetInit /\ [][SetNext]_setVars /\ WF_setVars(ProbeNext \/ FinishProbe)

----------------------------------------------------------------------------
\* Every field has its type; capacityMask is all ones, and count, which
\* a repeated removal lowers again, stays a natural number.
SetTypeOK ==
  /\ SetCapacity(set) \in {0} \cup {2 ^ n : n \in 3 .. 30}
  /\ set.entries \in [0 .. set.capacityMask -> SetItem \cup {Vacant}]
  /\ set.count \in Nat
  /\ op \in {"none", "add", "remove", "contains"}
  /\ arg \in Members \cup {Vacant}
  /\ index \in 0 .. (IF SetCapacity(set) = 0 THEN 0 ELSE set.capacityMask)
  /\ answer \in BOOLEAN

\* Whatever its counter says and wherever deleted values linger, a set keeps
\* its elements: a call that returns has added or removed its argument and no
\* other value, contains() has told whether the argument is an element, remove()
\* has failed only without it (and may succeed without it: a value that was just
\* removed is removed again), a call that asks count only finds the set empty, and
\* no rehash, at the start of an addition or the end of a removal, changes the set.
Membership ==
  [][ LET was == Elements(set)
          is  == Elements(set')
      IN /\ op = "none" \/ op' # "none" => is = was
         /\ op = "none" /\ op' = "none" => was = {}
         /\ op = "add" /\ op' = "none" => is = was \cup {arg} /\ (answer' <=> arg \notin was)
         /\ op = "remove" /\ op' = "none" => is = was \ {arg} /\ (arg \in was => answer')
         /\ op = "contains" /\ op' = "none" => is = was /\ (answer' <=> arg \in was) ]_setVars

\* docs/docs/collections/sets.md: "To check if a set contains a value use
\* `.contains()`", and its example answers false for a value that is not there.
\* Once removals and additions have left no empty slot, the search for an
\* absent value never returns.
CallsReturn == (op # "none") ~> (op = "none")
============================================================================
