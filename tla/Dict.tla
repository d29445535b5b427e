-------------------------------- MODULE Dict --------------------------------
(***************************************************************************)
(* Dictionaries: ObjDict in vm/value.c, the methods of                     *)
(* datatypes/dicts/dicts.c and copyDict of datatypes/copy.c.               *)
(*                                                                         *)
(* A dictionary is an open-addressing table like vm/table.c, but a         *)
(* deletion may shrink it, and it keeps two counters: count, which only a  *)
(* rehash lowers and which bounds the slots in use, and activeCount, the   *)
(* number of its keys.  A rehash does not call back into the program, so   *)
(* each operation is one step.                                             *)
(***************************************************************************)
EXTENDS Probing

CONSTANTS NotFound,         \* what a failed lookup answers
          MaxDictCapacity   \* bound: no dictionary grows beyond this many slots, and
                            \* none beyond what its int capacityMask can count

ASSUME DictAssumption == MaxDictCapacity \in Nat /\ MaxDictCapacity <= 2 ^ 30

VARIABLES dict,      \* struct sObjDict
          dictRet    \* the result of the last call

dictVars == <<dict, dictRet>>

----------------------------------------------------------------------------
\* Plausible slips, used to show that the properties can fail.

\* The slot of a deleted key is cleared.
BrokenDead == Empty

\* A deletion lowers both counters.
BrokenDeletedCount(d) == d.count - 1

\* The mask is the number of slots.
BrokenShrunkMask(d) == ShrinkCapacity(d.capacityMask + 1)

\* Only what is stored in a fresh slot counts as a new key.
BrokenIsNewKey(d, i) == d.entries[i] = Empty
----------------------------------------------------------------------------
(* value.c *)

NewDict == [entries |-> Blank(0), capacityMask |-> -1, count |-> 0, activeCount |-> 0]

DictCapacity(d) == d.capacityMask + 1

FindDictEntry(entries, capacityMask, k) == Find(entries, capacityMask + 1, k)

\* One turn of adjustDictCapacity's loop: what a slot holds goes to the new array.
MoveSlot(fresh, capacityMask, c) ==
  IF IsLive(c) THEN [fresh EXCEPT ![FindDictEntry(fresh, capacityMask, c.key)] = c]
               ELSE fresh

\* adjustDictCapacity: the array after the first n slots are moved.
Moved(d, capacityMask) ==
  LET moved[n \in 0 .. DictCapacity(d)] ==
        IF n = 0 THEN Blank(capacityMask + 1)
                 ELSE MoveSlot(moved[n - 1], capacityMask, d.entries[n - 1])
  IN moved[DictCapacity(d)]

AdjustDictCapacity(d, capacityMask) ==
  [d EXCEPT !.entries = Moved(d, capacityMask),
            !.capacityMask = capacityMask,
            !.count = Cardinality(Live(d.entries))]

\* The content of the slot a probe for k returns; an empty table has no slots.
Lookup(d, k) ==
  IF d.count = 0 THEN Empty
  ELSE d.entries[FindDictEntry(d.entries, d.capacityMask, k)]

Grown(d) == IF Full(d.count, DictCapacity(d))
            THEN AdjustDictCapacity(d, GrowCapacity(DictCapacity(d)) - 1)
            ELSE d

IsNewKey(d, i) == ~ IsLive(d.entries[i])

\* dictSet.  A reused tombstone counts again.
Put(d, k, v) ==
  LET g == Grown(d)
      i == FindDictEntry(g.entries, g.capacityMask, k)
      n == IF IsNewKey(g, i) THEN 1 ELSE 0
  IN [g EXCEPT !.entries[i] = [key |-> k, value |-> v],
               !.count = @ + n, !.activeCount = @ + n]

Dead == Tombstone

DeletedCount(d) == d.count

ShrunkMask(d) == ShrinkCapacity(DictCapacity(d)) - 1

\* count - 1 < capacityMask * 0.25, without fractions.
Sparse(d) == 4 * (d.count - 1) < d.capacityMask

\* dictDelete on a key that is there.
Without(d, k) ==
  LET i == FindDictEntry(d.entries, d.capacityMask, k)
      e == [d EXCEPT !.entries[i] = Dead, !.count = DeletedCount(d),
                     !.activeCount = @ - 1]
  IN IF Sparse(e) THEN AdjustDictCapacity(e, ShrunkMask(e)) ELSE e

----------------------------------------------------------------------------
(* The program's calls. *)

DictInit == dict = NewDict /\ dictRet = NotFound

GetDictItem(k) ==
  /\ dictRet' = IF IsLive(Lookup(dict, k)) THEN Lookup(dict, k).value ELSE NotFound
  /\ UNCHANGED dict

DictItemExists(k) == /\ dictRet' = IsLive(Lookup(dict, k))
                     /\ UNCHANGED dict

\* dict[k] = v, or an entry of a literal.
SubscriptAssign(k, v) ==
  /\ ~ Full(dict.count, DictCapacity(dict)) \/ GrowCapacity(DictCapacity(dict)) <= MaxDictCapacity
  /\ dict' = Put(dict, k, v)
  /\ dictRet' = ~ IsLive(Lookup(dict, k))

\* A missing key is a runtime error, which leaves the dictionary as it was.
RemoveDictItem(k) ==
  /\ dictRet' = IsLive(Lookup(dict, k))
  /\ dict' = IF IsLive(Lookup(dict, k)) THEN Without(dict, k) ELSE dict

\* copyDict: a new dictionary, after the first n slots are put into it.
PutSlot(copy, c) == IF IsLive(c) THEN Put(copy, c.key, c.value) ELSE copy

Copied(d) ==
  LET copied[n \in 0 .. DictCapacity(d)] ==
        IF n = 0 THEN NewDict ELSE PutSlot(copied[n - 1], d.entries[n - 1])
  IN copied[DictCapacity(d)]

\* The program keeps the copy.
CopyDict == dict' = Copied(dict) /\ UNCHANGED dictRet

DictNext == \/ \E k \in Keys : GetDictItem(k) \/ DictItemExists(k) \/ RemoveDictItem(k)
            \/ \E k \in Keys, v \in Values : SubscriptAssign(k, v)
            \/ CopyDict

DictSpec == DictInit /\ [][DictNext]_dictVars

\* isFalsey on a dictionary, which toBool, conditions and ! use; and len().
IsFalsey == dict.count = 0

LenDict == dict.activeCount

----------------------------------------------------------------------------
\* Every field has its type; capacityMask is all ones, so that hash &
\* capacityMask reaches every slot of the array and no other.
DictTypeOK ==
  /\ dict.capacityMask + 1 \in {0} \cup {2 ^ n : n \in 3 .. 30}
  /\ dict.entries \in [Slots(DictCapacity(dict)) -> Content]
  /\ dict.count \in Nat /\ dict.activeCount \in Nat
  /\ dictRet \in Values \cup BOOLEAN \cup {NotFound}

\* findDictEntry ends: through insertions, deletions, growths, shrinks and
\* copies, count is never below the number of slots that are not empty and
\* leaves a quarter of the slots free, so its for (;;) meets an empty slot.
DictLoadBounded ==
  /\ Cardinality(Occupied(dict.entries)) <= dict.count
  /\ 4 * dict.count <= 3 * DictCapacity(dict)

\* len() is the number of keys keys() and each iteration yield, although
\* rehashing rewrites the other counter and never this one; and a dictionary with
\* keys is truthy (docs/docs/collections/dictionaries.md).  One without keys may be
\* truthy too, as isFalsey asks count, which deletions do not lower.
LenIsSize ==
  /\ LenDict = Cardinality(Live(dict.entries))
  /\ LenDict > 0 => ~ IsFalsey

\* The dictionary behaves as a map, and a copy equals its original: no rehash,
\* growing, shrinking or copying, loses, revives or changes a binding.
DictMap == INSTANCE MapSpec WITH map <- Bindings(dict.entries), ret <- dictRet
DictIsMap == DictMap!Spec
============================================================================
