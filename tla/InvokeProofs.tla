---------------------------- MODULE InvokeProofs ----------------------------
(***************************************************************************)
(* Proofs about Classes and Arguments, and of the two together.            *)
(*                                                                         *)
(* Classes: whatever the classes and their bodies are, a name stands for   *)
(* the method that their text gives it, an instance answers every call     *)
(* that an abstract class above it promises, what was written is what is   *)
(* read, and a class constant keeps its value.  The invariant relates the  *)
(* tables of every class to its body, read so far, and to the tables of    *)
(* its superclass and of its traits: one step of Meaning.  That a table    *)
(* holds what Meaning says follows, since two functions that both take     *)
(* that step everywhere are the same.                                      *)
(*                                                                         *)
(* Arguments: however a function was called, by whatever way, with         *)
(* arguments of its own or of a list that was spread, the frame that runs  *)
(* finds in its slots the parameters its declaration promises, and a call  *)
(* is refused only for a number of arguments that the function does not    *)
(* accept.  The invariant says of every frame what its part of the stack   *)
(* holds, for each stage of the call: the arguments and the defaults       *)
(* computed so far, the parameters, what the body's own calls left.        *)
(***************************************************************************)
EXTENDS MCInvoke, TLAPS, FiniteSetTheorems, SequenceTheorems

(***************************************************************************)
(* Classes.                                                                *)
(***************************************************************************)

(* The shape of classes. *)

Methods == [class : Nat, at : Nat, knows : SUBSET Names]
MethodTables == [Names -> Methods \cup {Undefined}]
FieldTables == [Names -> Contents \cup {Undefined}]
ObjClass == [type : Types, superclass : Nat, publicMethods : MethodTables,
             privateMethods : MethodTables, abstractMethods : MethodTables,
             constants : FieldTables, variables : FieldTables]
ObjInstance == [class : Nat, publicAttributes : FieldTables, privateAttributes : FieldTables]
Kinds == {"public", "private", "abstract", "attribute", "const", "var"}
BodyMember == [kind : Kinds, name : Names] \cup [kind : {"use"}, trait : Nat]

\* A class comes after its superclass and its traits, and has methods of these.
OwnMethods(c) == [Names -> [class : 1 .. c, at : 1 .. MaxMembers, knows : SUBSET Names]
                             \cup {Undefined}]
IsOrdered(cs, tx, c) ==
  /\ cs[c].superclass < c
  /\ \A i \in DOMAIN tx[c] : tx[c][i].kind = "use" => tx[c][i].trait \in 1 .. c - 1
  /\ {cs[c].publicMethods, cs[c].privateMethods, cs[c].abstractMethods} \subseteq OwnMethods(c)

PlacesIn(tx, c, k, n) == {i \in DOMAIN tx[c] : tx[c][i].kind = k /\ tx[c][i].name = n}

\* The places in class c's body that give it a public method n: one step of Meaning.
Uses(cs, tx, c, n) ==
  {i \in DOMAIN tx[c] : tx[c][i].kind = "use" /\ cs[tx[c][i].trait].publicMethods[n] # Undefined}
Givers(cs, tx, c, n) == PlacesIn(tx, c, "public", n) \cup Uses(cs, tx, c, n)

HasPublic(cs, tx, c, n) ==
  LET method == cs[c].publicMethods[n]
      givers == Givers(cs, tx, c, n)
      giver  == tx[c][Last(givers)]
  IN IF givers = {}
     THEN method = IF cs[c].superclass = 0 THEN Undefined
                   ELSE cs[cs[c].superclass].publicMethods[n]
     ELSE IF giver.kind = "use" THEN method = cs[giver.trait].publicMethods[n]
     ELSE method # Undefined /\ Place(method) = <<c, Last(givers)>>

HasPrivate(cs, tx, c, n) ==
  LET method == cs[c].privateMethods[n]
      places == PlacesIn(tx, c, "private", n)
  IN IF places = {} THEN method = Undefined
     ELSE method # Undefined /\ Place(method) = <<c, Last(places)>>

\* Abstract methods are in abstract classes, and remembered below them.
HasAbstract(cs, tx, c, n) ==
  /\ PlacesIn(tx, c, "abstract", n) # {} =>
       cs[c].type = "abstract" /\ cs[c].abstractMethods[n] # Undefined
  /\ cs[c].superclass # 0 /\ cs[cs[c].superclass].abstractMethods[n] # Undefined =>
       cs[c].abstractMethods[n] # Undefined

HasConstant(cs, tx, c, n) == PlacesIn(tx, c, "const", n) # {} => cs[c].constants[n] # Undefined

IsClass(cs, tx, c) ==
  /\ IsOrdered(cs, tx, c)
  /\ \A n \in Names : /\ HasPublic(cs, tx, c, n)
                      /\ HasPrivate(cs, tx, c, n)
                      /\ HasAbstract(cs, tx, c, n)
                      /\ HasConstant(cs, tx, c, n)

IsComplete(class) ==
  class.type = "default" /\ class.superclass # 0 =>
    \A n \in Names : class.abstractMethods[n] # Undefined => class.publicMethods[n] # Undefined

IsProgram(cs, tx, open) ==
  /\ cs \in Seq(ObjClass) /\ tx \in Seq(Seq(BodyMember)) /\ Len(tx) = Len(cs)
  /\ \A c \in 1 .. Len(cs) : /\ IsClass(cs, tx, c)
                             /\ c < Len(cs) \/ ~ open => IsComplete(cs[c])

IsLooked(cs, open, i, w) ==
  /\ i \in ObjInstance
  /\ open => Len(cs) > 0 /\ i = NoInstance
  /\ i # NoInstance => i.class \in 1 .. Len(cs) /\ cs[i.class].type = "default"
  /\ i = NoInstance => w = Nothing
  /\ w # Nothing =>
       /\ w \in [name : Names, value : Contents, private : BOOLEAN]
       /\ w.value = IF w.private THEN i.privateAttributes[w.name] ELSE i.publicAttributes[w.name]

ClassesInv == /\ IsProgram(classes, text, isOpen)
        /\ IsLooked(classes, isOpen, instance, written)
        /\ isOpen \in BOOLEAN /\ knows \subseteq Names

----------------------------------------------------------------------------
(* Numbers and places. *)

\* A set of natural numbers that is not empty has a least element.
LEMMA LeastPlace ==
  ASSUME NEW S, S \subseteq Nat, S # {}
  PROVE  \E n \in S : \A m \in S : n <= m
<1>1. PICK top \in S : TRUE
  OBVIOUS
<1> DEFINE Below == {n \in S : n <= top}
           Segments == {0 .. n : n \in Below}
<1>2. IsFiniteSet(0 .. top)
  BY <1>1, FS_Interval
<1>3. IsWellFoundedOn(StrictSubsetOrdering(0 .. top), SUBSET (0 .. top))
  BY <1>2, FS_StrictSubsetOrderingWellFounded, FS_FiniteSubsetsOfFinite
<1>4. Segments \subseteq SUBSET (0 .. top) /\ Segments # {}
  BY <1>1
<1>5. PICK s \in Segments : \A t \in Segments : <<t, s>> \notin StrictSubsetOrdering(0 .. top)
  <2> HIDE DEF Segments
  <2> QED BY <1>3, <1>4, WFMin
<1>6. PICK n \in Below : s = 0 .. n
  BY <1>5
<1>7. \A m \in Below : n <= m
  <2> SUFFICES ASSUME NEW m \in Below, m < n PROVE FALSE
    BY <1>1, <1>6
  <2>1. 0 .. m \in Segments /\ 0 .. m \subseteq 0 .. n /\ n \notin 0 .. m /\ n \in 0 .. n
    BY <1>6
  <2>2. <<0 .. m, s>> \in StrictSubsetOrdering(0 .. top)
    BY <1>4, <1>6, <2>1 DEF StrictSubsetOrdering
  <2> QED BY <1>5, <2>1, <2>2
<1> QED BY <1>1, <1>6, <1>7

\* Induction over classes, each from those before it.
LEMMA Induction ==
  ASSUME NEW top \in Nat, NEW S,
         \A n \in 0 .. top : (\A m \in 0 .. n - 1 : m \in S) => n \in S
  PROVE  \A n \in 0 .. top : n \in S
<1> DEFINE Rest == {n \in 0 .. top : n \notin S}
<1> SUFFICES ASSUME Rest # {} PROVE FALSE
  OBVIOUS
<1>1. PICK n \in Rest : \A m \in Rest : n <= m
  <2>1. Rest \subseteq Nat
    OBVIOUS
  <2> HIDE DEF Rest
  <2> QED BY <2>1, LeastPlace
<1>2. n \in 0 .. top /\ n \notin S
  BY <1>1
<1>3. ASSUME NEW m \in 0 .. n - 1 PROVE m \in S
  BY <1>1, <1>2
<1> QED BY <1>2, <1>3

\* The first of some places.
LEMMA FirstFacts ==
  ASSUME NEW S, S \subseteq Nat, S # {}
  PROVE  First(S) \in S /\ \A j \in S : First(S) <= j
<1>1. \E i \in S : \A j \in S : i <= j
  BY LeastPlace
<1> QED BY <1>1, Zenon DEF First

\* The last of some places in a body of n members.
LEMMA LastFacts ==
  ASSUME NEW n \in Nat, NEW S, S \subseteq 1 .. n, S # {}
  PROVE  Last(S) \in S /\ \A j \in S : j <= Last(S)
<1> DEFINE Bounds == {m \in 0 .. n : \A j \in S : j <= m}
<1>1. n \in Bounds /\ Bounds \subseteq Nat
  OBVIOUS
<1>2. PICK m \in Bounds : \A k \in Bounds : m <= k
  <2> HIDE DEF Bounds
  <2> QED BY <1>1, LeastPlace
<1>3. m \in 0 .. n /\ \A j \in S : j <= m
  BY <1>2
<1>4. m \in S
  <2> SUFFICES ASSUME m \notin S PROVE FALSE
    OBVIOUS
  <2>1. \A j \in S : j \in 1 .. n /\ j <= m /\ j # m
    BY <1>3
  <2>2. m - 1 \in 0 .. n /\ \A j \in S : j <= m - 1
    <3>1. PICK j \in S : TRUE
      OBVIOUS
    <3>2. m \in 1 .. n
      BY <1>3, <2>1, <3>1
    <3>3. ASSUME NEW i \in S PROVE i <= m - 1
      BY <1>3, <2>1
    <3> QED BY <3>2, <3>3
  <2>3. m - 1 \in Bounds
    BY <2>2
  <2> QED BY <1>2, <1>3, <2>3
<1>5. \E i \in S : \A j \in S : j <= i
  BY <1>3, <1>4
<1> QED BY <1>5, Zenon DEF Last

\* There is only one.
LEMMA LastIs ==
  ASSUME NEW n \in Nat, NEW S, S \subseteq 1 .. n, NEW k \in S, \A j \in S : j <= k
  PROVE  Last(S) = k
<1>1. Last(S) \in S /\ k <= Last(S)
  BY LastFacts
<1>2. k \in 1 .. n /\ Last(S) \in 1 .. n /\ Last(S) <= k
  BY <1>1
<1> QED BY <1>1, <1>2

\* What stands for a method is not what stands for none.
LEMMA PlaceFacts ==
  ASSUME NEW method \in Methods \cup {Undefined}
  PROVE  IF method = Undefined THEN Place(method) = Undefined
         ELSE Place(method) = <<method.class, method.at>> /\ Place(method) # Undefined
<1>1. CASE method = Undefined
  BY <1>1 DEF Place
<1>2. CASE method # Undefined
  <2>1. method.class \in Nat /\ method.at \in Nat
    BY <1>2 DEF Methods
  <2>2. <<method.class, method.at>> # Undefined
    BY <2>1, ClassesAssumption
  <2> QED BY <1>2, <2>2 DEF Place
<1> QED BY <1>1, <1>2

(* What the text of the classes says. *)

\* One row of Meaning, from those before it.
MeansAt(m, c, n) ==
  LET uses   == {i \in DOMAIN text[c] : text[c][i].kind = "use" /\ m[text[c][i].trait][n] # Undefined}
      places == Places(c, "public", n) \cup uses
  IN IF places = {} THEN m[classes[c].superclass][n]
     ELSE IF Last(places) \in uses THEN m[text[c][Last(places)].trait][n]
     ELSE <<c, Last(places)>>

IsMeaning(m) ==
  m = [c \in 0 .. Latest |-> [n \in Names |-> IF c = 0 THEN Undefined ELSE MeansAt(m, c, n)]]

\* What the tables of the classes say.
Placed ==
  [c \in 0 .. Latest |->
     [n \in Names |-> IF c = 0 THEN Undefined ELSE Place(classes[c].publicMethods[n])]]

\* What a class and its members are.
LEMMA ProgramFacts ==
  ASSUME ClassesInv, NEW c \in 1 .. Latest
  PROVE  /\ Latest \in Nat /\ c \in DOMAIN classes /\ c \in DOMAIN text
         /\ classes[c] \in ObjClass /\ text[c] \in Seq(BodyMember)
         /\ DOMAIN text[c] = 1 .. Len(text[c]) /\ Len(text[c]) \in Nat
         /\ IsClass(classes, text, c)
         /\ classes[c].superclass \in 0 .. c - 1
         /\ \A i \in DOMAIN text[c] : text[c][i].kind = "use" => text[c][i].trait \in 1 .. c - 1
<1>1. classes \in Seq(ObjClass) /\ text \in Seq(Seq(BodyMember)) /\ Len(text) = Latest
  BY DEF ClassesInv, IsProgram, Latest
<1>2. c \in 1 .. Len(classes) /\ c \in 1 .. Len(text) /\ Latest \in Nat
  BY <1>1 DEF Latest
<1>3. classes[c] \in ObjClass /\ text[c] \in Seq(BodyMember)
  BY <1>1, <1>2
<1>4. IsClass(classes, text, c)
  BY <1>2 DEF ClassesInv, IsProgram
<1>5. classes[c].superclass \in Nat
  BY <1>3 DEF ObjClass
<1> QED BY <1>1, <1>2, <1>3, <1>4, <1>5 DEF IsClass, IsOrdered

\* A row depends on the rows before it only.
LEMMA MeansAlike ==
  ASSUME ClassesInv, NEW c \in 1 .. Latest, NEW n \in Names, NEW m, NEW o,
         \A d \in 0 .. c - 1 : m[d] = o[d]
  PROVE  MeansAt(m, c, n) = MeansAt(o, c, n)
<1>1. \A i \in DOMAIN text[c] : text[c][i].kind = "use" => text[c][i].trait \in 0 .. c - 1
  BY ProgramFacts
<1>2. m[classes[c].superclass] = o[classes[c].superclass]
  BY ProgramFacts
<1> DEFINE uses(f) == {i \in DOMAIN text[c] : text[c][i].kind = "use" /\ f[text[c][i].trait][n] # Undefined}
<1>3. \A i \in DOMAIN text[c] : text[c][i].kind = "use" => m[text[c][i].trait] = o[text[c][i].trait]
  BY <1>1
<1>4. uses(m) = uses(o)
  BY <1>3
<1>5. PICK places : places = Places(c, "public", n) \cup uses(m)
  OBVIOUS
<1>6. Last(places) \in uses(m) => m[text[c][Last(places)].trait][n] = o[text[c][Last(places)].trait][n]
  BY <1>3
<1> QED BY <1>2, <1>4, <1>5, <1>6, Zenon DEF MeansAt

\* There is one meaning at most.
LEMMA MeaningIsOne ==
  ASSUME ClassesInv, NEW m, NEW o, IsMeaning(m), IsMeaning(o)
  PROVE  \A c \in 0 .. Latest : m[c] = o[c]
<1> DEFINE S == {c \in 0 .. Latest : m[c] = o[c]}
<1>0. Latest \in Nat
  BY DEF ClassesInv, IsProgram, Latest
<1>1. ASSUME NEW c \in 0 .. Latest, \A d \in 0 .. c - 1 : d \in S
      PROVE  c \in S
  <2>1. \A f : IsMeaning(f) =>
          f[c] = [n \in Names |-> IF c = 0 THEN Undefined ELSE MeansAt(f, c, n)]
    BY Zenon DEF IsMeaning
  <2>2. CASE c = 0
    BY <2>1, <2>2
  <2>3. CASE c # 0
    <3>1. c \in 1 .. Latest /\ \A d \in 0 .. c - 1 : m[d] = o[d]
      BY <1>1, <2>3
    <3>2. \A n \in Names : MeansAt(m, c, n) = MeansAt(o, c, n)
      BY <3>1, MeansAlike
    <3>3. m[c] = [n \in Names |-> MeansAt(m, c, n)] /\ o[c] = [n \in Names |-> MeansAt(o, c, n)]
      BY <2>1, <2>3
    <3>4. m[c] = o[c]
      BY <3>2, <3>3
    <3> QED BY <3>4
  <2> QED BY <2>2, <2>3
<1>2. \A c \in 0 .. Latest : c \in S
  <2> HIDE DEF S
  <2> QED BY <1>0, <1>1, Induction
<1> QED BY <1>2

\* And the tables are one.
LEMMA PlacedIsMeaning ==
  ASSUME ClassesInv
  PROVE  IsMeaning(Placed)
<1>1. ASSUME NEW c \in 1 .. Latest, NEW n \in Names
      PROVE  Place(classes[c].publicMethods[n]) = MeansAt(Placed, c, n)
  <2>1. HasPublic(classes, text, c, n)
    BY ProgramFacts DEF IsClass
  <2>2. \A d \in 1 .. Latest : classes[d].publicMethods[n] \in Methods \cup {Undefined}
    <3> TAKE d \in 1 .. Latest
    <3>1. classes[d] \in ObjClass
      BY ProgramFacts
    <3> QED BY <3>1 DEF ObjClass, MethodTables
  <2>3. /\ Placed[0][n] = Undefined
        /\ \A d \in 1 .. Latest : Placed[d][n] = Place(classes[d].publicMethods[n])
    <3>1. 0 \in 0 .. Latest /\ \A d \in 1 .. Latest : d \in 0 .. Latest /\ d # 0
      BY ProgramFacts
    <3> QED BY <3>1 DEF Placed
  <2>4. \A i \in DOMAIN text[c] : text[c][i].kind = "use" => text[c][i].trait \in 1 .. Latest
    BY ProgramFacts
  <2>5. \A d \in 1 .. Latest : Placed[d][n] # Undefined <=> classes[d].publicMethods[n] # Undefined
    BY <2>2, <2>3, PlaceFacts
  <2> DEFINE uses == {i \in DOMAIN text[c] : text[c][i].kind = "use"
                                             /\ Placed[text[c][i].trait][n] # Undefined}
             places == Places(c, "public", n) \cup uses
  <2>6. uses = Uses(classes, text, c, n)
    BY <2>4, <2>5 DEF Uses
  <2>7. Places(c, "public", n) = PlacesIn(text, c, "public", n)
    BY DEF Places, PlacesIn
  <2>8. places = Givers(classes, text, c, n)
    BY <2>6, <2>7 DEF Givers
  <2>9. CASE places = {}
    <3>1. classes[c].publicMethods[n] = IF classes[c].superclass = 0 THEN Undefined
                                        ELSE classes[classes[c].superclass].publicMethods[n]
      BY <2>1, <2>8, <2>9 DEF HasPublic
    <3>2. classes[c].superclass # 0 => classes[c].superclass \in 1 .. Latest
      BY ProgramFacts
    <3>3. Place(classes[c].publicMethods[n]) = Placed[classes[c].superclass][n]
      BY <2>3, <3>1, <3>2 DEF Place
    <3> QED BY <2>9, <3>3 DEF MeansAt
  <2>10. CASE places # {}
    <3>1. places \subseteq 1 .. Len(text[c]) /\ Len(text[c]) \in Nat
      BY ProgramFacts DEF Places
    <3>2. PICK last : last = Last(places)
      OBVIOUS
    <3>3. last \in places
      <4> HIDE DEF places
      <4> QED BY <2>10, <3>1, <3>2, LastFacts
    <3>4. last \in DOMAIN text[c] /\ (last \in uses <=> text[c][last].kind = "use")
      BY <3>3 DEF Places
    <3>5. MeansAt(Placed, c, n) = IF last \in uses THEN Placed[text[c][last].trait][n] ELSE <<c, last>>
      BY <2>10, <3>2 DEF MeansAt
    <3>6. IF text[c][last].kind = "use"
          THEN classes[c].publicMethods[n] = classes[text[c][last].trait].publicMethods[n]
          ELSE Place(classes[c].publicMethods[n]) = <<c, last>>
      BY <2>1, <2>8, <2>10, <3>2 DEF HasPublic
    <3> QED BY <2>3, <2>4, <3>4, <3>5, <3>6
  <2> QED BY <2>9, <2>10
<1>2. ASSUME NEW c \in 0 .. Latest
      PROVE  [n \in Names |-> IF c = 0 THEN Undefined ELSE Place(classes[c].publicMethods[n])]
               = [n \in Names |-> IF c = 0 THEN Undefined ELSE MeansAt(Placed, c, n)]
  <2>1. c # 0 => c \in 1 .. Latest
    BY DEF ClassesInv, IsProgram, Latest
  <2> QED BY <1>1, <2>1
<1>3. Placed = [c \in 0 .. Latest |->
                  [n \in Names |-> IF c = 0 THEN Undefined ELSE MeansAt(Placed, c, n)]]
  <2>1. PICK p : p = Placed
    OBVIOUS
  <2>2. p = [c \in 0 .. Latest |->
               [n \in Names |-> IF c = 0 THEN Undefined ELSE MeansAt(p, c, n)]]
    BY <1>2, <2>1, Zenon DEF Placed
  <2> QED BY <2>1, <2>2
<1> QED BY <1>3 DEF IsMeaning

\* So the tables say what the text says.
LEMMA TablesMean ==
  ASSUME ClassesInv
  PROVE  \A c \in 1 .. Latest, n \in Names : Meaning[c][n] = Place(classes[c].publicMethods[n])
<1>1. Meaning = CHOOSE m : IsMeaning(m)
  BY Zenon DEF Meaning, IsMeaning, MeansAt
<1>2. IsMeaning(Meaning)
  BY <1>1, PlacedIsMeaning, Zenon
<1>3. \A c \in 0 .. Latest : Meaning[c] = Placed[c]
  BY <1>2, PlacedIsMeaning, MeaningIsOne
<1>4. ASSUME NEW c \in 1 .. Latest, NEW n \in Names
      PROVE  Meaning[c][n] = Place(classes[c].publicMethods[n])
  <2>1. c \in 0 .. Latest /\ c # 0
    BY ProgramFacts
  <2> QED BY <1>3, <2>1 DEF Placed
<1> QED BY <1>4

----------------------------------------------------------------------------
(* One more member. *)

\* There are as many pairs as numbers.
LEMMA PairsFacts ==
  ASSUME NEW c, NEW n \in Nat
  PROVE  IsFiniteSet({<<c, i>> : i \in 1 .. n}) /\ Cardinality({<<c, i>> : i \in 1 .. n}) = n
<1> DEFINE pairs == {<<c, i>> : i \in 1 .. n}
           row == [i \in 1 .. n |-> <<c, i>>]
<1>1. row \in Surjection(1 .. n, pairs)
  BY DEF Surjection
<1>2. \A i, j \in 1 .. n : row[i] = row[j] => i = j
  OBVIOUS
<1>3. row \in Injection(1 .. n, pairs)
  <2>1. row \in [1 .. n -> pairs]
    OBVIOUS
  <2> HIDE DEF row, pairs
  <2> QED BY <1>2, <2>1 DEF Injection, IsInjective
<1>4. IsFiniteSet(1 .. n) /\ Cardinality(1 .. n) = n
  BY FS_Interval
<1>5. IsFiniteSet(pairs) /\ Cardinality(pairs) = n
  <2> HIDE DEF row, pairs
  <2> QED BY <1>1, <1>3, <1>4, FS_Surjection
<1> QED BY <1>5

\* The bound on members is one on each body.
LEMMA BodyBounded ==
  ASSUME ClassesInv, Latest > 0,
         MaxMembers > Cardinality(UNION {{<<c, i>> : i \in DOMAIN text[c]} : c \in DOMAIN text})
  PROVE  Len(text[Latest]) + 1 \in 1 .. MaxMembers
<1>1. /\ Latest \in 1 .. Latest /\ Latest \in Nat /\ DOMAIN text = 1 .. Latest
      /\ \A c \in 1 .. Latest : DOMAIN text[c] = 1 .. Len(text[c]) /\ Len(text[c]) \in Nat
  <2>1. Latest \in Nat /\ text \in Seq(Seq(BodyMember)) /\ Len(text) = Latest
    BY DEF ClassesInv, IsProgram, Latest
  <2> QED BY <2>1, ProgramFacts
<1> DEFINE f == [c \in 1 .. Latest |-> {<<c, i>> : i \in 1 .. Len(text[c])}]
           bodies == {f[c] : c \in 1 .. Latest}
           all == UNION {{<<c, i>> : i \in DOMAIN text[c]} : c \in DOMAIN text}
<1>2. all = UNION bodies
  BY <1>1
<1>3. IsFiniteSet(bodies)
  <2>1. f \in Surjection(1 .. Latest, bodies)
    BY DEF Surjection
  <2>2. IsFiniteSet(1 .. Latest)
    BY <1>1, FS_Interval
  <2> HIDE DEF f, bodies
  <2> QED BY <2>1, <2>2, FS_Surjection
<1>4. ASSUME NEW c \in 1 .. Latest PROVE IsFiniteSet(f[c])
  <2>1. PICK len \in Nat : len = Len(text[c])
    BY <1>1
  <2>2. IsFiniteSet({<<c, i>> : i \in 1 .. len})
    BY <2>1, PairsFacts
  <2>3. f[c] = {<<c, i>> : i \in 1 .. len}
    BY <2>1
  <2> HIDE DEF f
  <2> QED BY <2>2, <2>3
<1>5. IsFiniteSet(all)
  <2>1. \A body \in bodies : IsFiniteSet(body)
    BY <1>4
  <2> HIDE DEF bodies, all
  <2> QED BY <1>2, <1>3, <2>1, FS_UNION
<1> DEFINE last == {<<Latest, i>> : i \in 1 .. Len(text[Latest])}
<1>6. IsFiniteSet(last) /\ Cardinality(last) = Len(text[Latest])
  <2>1. PICK len \in Nat : len = Len(text[Latest])
    BY <1>1
  <2>2. PICK c : c = Latest
    OBVIOUS
  <2>3. IsFiniteSet({<<c, i>> : i \in 1 .. len}) /\ Cardinality({<<c, i>> : i \in 1 .. len}) = len
    BY <2>1, PairsFacts
  <2>4. last = {<<c, i>> : i \in 1 .. len}
    BY <2>1, <2>2
  <2> HIDE DEF last
  <2> QED BY <2>1, <2>3, <2>4
<1>7. last \subseteq all
  <2>1. last = {<<Latest, i>> : i \in DOMAIN text[Latest]} /\ Latest \in DOMAIN text
    BY <1>1
  <2> QED BY <2>1
<1>8. Cardinality(last) <= Cardinality(all) /\ Cardinality(all) \in Nat
  <2> HIDE DEF last, all
  <2> QED BY <1>5, <1>7, FS_Subset, FS_CardinalityType
<1>9. Cardinality(all) < MaxMembers /\ MaxMembers \in Nat
  BY ClassesAssumption
<1>10. PICK k \in Nat : k = Cardinality(all)
  BY <1>8
<1> QED BY <1>1, <1>6, <1>8, <1>9, <1>10

\* Two classes that differ in their variables only.
SameClass(k, l) ==
  /\ k.type = l.type /\ k.superclass = l.superclass
  /\ k.publicMethods = l.publicMethods /\ k.privateMethods = l.privateMethods
  /\ k.abstractMethods = l.abstractMethods /\ k.constants = l.constants

\* A class stays what it is when it, its body and the classes before it stay.
LEMMA ClassKept ==
  ASSUME NEW cs, NEW ds, NEW tx, NEW ty, NEW c \in Nat, c > 0,
         cs[c].superclass \in Nat, IsClass(cs, tx, c), ty[c] = tx[c],
         DOMAIN tx[c] = 1 .. Len(tx[c]), Len(tx[c]) \in Nat,
         \A d \in 1 .. c : SameClass(ds[d], cs[d])
  PROVE  IsClass(ds, ty, c)
<1>1. SameClass(ds[c], cs[c])
  OBVIOUS
<1>2. cs[c].superclass \in 0 .. c - 1
  BY DEF IsClass, IsOrdered
<1>3. \A i \in DOMAIN tx[c] : tx[c][i].kind = "use" =>
        tx[c][i].trait \in 1 .. c - 1 /\ SameClass(ds[tx[c][i].trait], cs[tx[c][i].trait])
  BY DEF IsClass, IsOrdered
<1>4. IsOrdered(ds, ty, c)
  BY <1>1 DEF SameClass, IsClass, IsOrdered
<1>5. ASSUME NEW n \in Names
      PROVE  /\ HasPublic(ds, ty, c, n) /\ HasPrivate(ds, ty, c, n)
             /\ HasAbstract(ds, ty, c, n) /\ HasConstant(ds, ty, c, n)
  <2>0. /\ HasPublic(cs, tx, c, n) /\ HasPrivate(cs, tx, c, n)
        /\ HasAbstract(cs, tx, c, n) /\ HasConstant(cs, tx, c, n)
    BY DEF IsClass
  <2>1. \A k : PlacesIn(ty, c, k, n) = PlacesIn(tx, c, k, n)
    BY DEF PlacesIn
  <2>2. cs[c].superclass # 0 => SameClass(ds[cs[c].superclass], cs[cs[c].superclass])
    BY <1>2
  <2>3. Uses(ds, ty, c, n) = Uses(cs, tx, c, n)
    BY <1>3, SMTT(30) DEF Uses, SameClass
  <2>4. PICK givers : givers = Givers(cs, tx, c, n)
    OBVIOUS
  <2>5. Givers(ds, ty, c, n) = givers
    BY <2>1, <2>3, <2>4 DEF Givers
  <2>6. HasPublic(ds, ty, c, n)
    <3>1. CASE givers = {}
      BY <1>1, <2>0, <2>2, <2>4, <2>5, <3>1 DEF HasPublic, SameClass
    <3>2. CASE givers # {}
      <4>1. PICK last : last = Last(givers)
        OBVIOUS
      <4>2. CASE tx[c][last].kind = "use"
        <5>1. cs[c].publicMethods[n] = cs[tx[c][last].trait].publicMethods[n]
          BY <2>0, <2>4, <3>2, <4>1, <4>2 DEF HasPublic
        <5>2. last \in DOMAIN tx[c] =>
                ds[tx[c][last].trait].publicMethods = cs[tx[c][last].trait].publicMethods
          BY <1>3, <4>2 DEF SameClass
        <5>3. last \in DOMAIN tx[c]
          <6>1. givers \subseteq 1 .. Len(tx[c])
            BY <2>4 DEF Givers, PlacesIn, Uses
          <6> QED BY <3>2, <4>1, <6>1, LastFacts
        <5> QED BY <1>1, <2>5, <3>2, <4>1, <4>2, <5>1, <5>2, <5>3 DEF HasPublic, SameClass
      <4>3. CASE tx[c][last].kind # "use"
        <5>1. cs[c].publicMethods[n] # Undefined /\ Place(cs[c].publicMethods[n]) = <<c, last>>
          BY <2>0, <2>4, <3>2, <4>1, <4>3 DEF HasPublic
        <5> QED BY <1>1, <2>5, <3>2, <4>1, <4>3, <5>1 DEF HasPublic, SameClass
      <4> QED BY <4>2, <4>3
    <3> QED BY <3>1, <3>2
  <2>7. HasPrivate(ds, ty, c, n)
    BY <1>1, <2>0, <2>1 DEF HasPrivate, SameClass
  <2>8. HasAbstract(ds, ty, c, n)
    BY <1>1, <2>0, <2>1, <2>2 DEF HasAbstract, SameClass
  <2>9. HasConstant(ds, ty, c, n)
    BY <1>1, <2>0, <2>1 DEF HasConstant, SameClass
  <2> QED BY <2>6, <2>7, <2>8, <2>9
<1> QED BY <1>4, <1>5 DEF IsClass

----------------------------------------------------------------------------
\* The last class becomes this one, with one more member in its body.
Extended(cs, tx, class, member, ds, ty) ==
  /\ IsProgram(cs, tx, TRUE) /\ Len(cs) # 0
  /\ class \in ObjClass /\ member \in BodyMember
  /\ ds = [cs EXCEPT ![Len(cs)] = class]
  /\ ty = [tx EXCEPT ![Len(cs)] = Append(@, member)]

\* What that means for the places.
IsExtension(cs, tx, class, member, ds, ty, l) ==
  /\ l \in Nat /\ l > 0 /\ Len(ds) = l /\ Len(ty) = l
  /\ ds \in Seq(ObjClass) /\ ty \in Seq(Seq(BodyMember))
  /\ ds[l] = class /\ \A d \in 1 .. l - 1 : ds[d] = cs[d] /\ ty[d] = tx[d]
  /\ DOMAIN tx[l] = 1 .. Len(tx[l]) /\ Len(tx[l]) \in Nat
  /\ DOMAIN ty[l] = 1 .. Len(tx[l]) + 1
  /\ ty[l][Len(tx[l]) + 1] = member
  /\ \A i \in 1 .. Len(tx[l]) : ty[l][i] = tx[l][i]
  /\ cs[l].superclass \in 0 .. l - 1
  /\ \A i \in 1 .. Len(tx[l]) : tx[l][i].kind = "use" => tx[l][i].trait \in 1 .. l - 1

\* Nothing else changes.
LEMMA ExtendedFacts ==
  ASSUME NEW cs, NEW tx, NEW class, NEW member, NEW ds, NEW ty,
         Extended(cs, tx, class, member, ds, ty), NEW l, l = Len(cs)
  PROVE  IsExtension(cs, tx, class, member, ds, ty, l)
<1>1. /\ cs \in Seq(ObjClass) /\ tx \in Seq(Seq(BodyMember)) /\ Len(tx) = l
      /\ class \in ObjClass /\ member \in BodyMember /\ l # 0
      /\ ds = [cs EXCEPT ![l] = class] /\ ty = [tx EXCEPT ![l] = Append(@, member)]
  BY DEF Extended, IsProgram
<1>2. l \in 1 .. Len(cs) /\ l \in 1 .. Len(tx) /\ l \in Nat
  BY <1>1
<1>3. PICK body : body = tx[l]
  OBVIOUS
<1>4. body \in Seq(BodyMember)
  BY <1>1, <1>2, <1>3
<1>5. PICK more : more = Append(body, member)
  OBVIOUS
<1>6. /\ more \in Seq(BodyMember) /\ Len(more) = Len(body) + 1
      /\ (\A i \in 1 .. Len(body) : more[i] = body[i]) /\ more[Len(body) + 1] = member
  BY <1>1, <1>4, <1>5, AppendProperties
<1>7. ty = [tx EXCEPT ![l] = more]
  BY <1>1, <1>3, <1>5
<1>8. /\ ds \in Seq(ObjClass) /\ Len(ds) = l
      /\ \A d \in 1 .. l : ds[d] = IF d = l THEN class ELSE cs[d]
  BY <1>1, <1>2, ExceptSeq
<1>9. /\ ty \in Seq(Seq(BodyMember)) /\ Len(ty) = l
      /\ \A d \in 1 .. l : ty[d] = IF d = l THEN more ELSE tx[d]
  <2>1. PICK S : S = Seq(BodyMember)
    OBVIOUS
  <2>2. tx \in Seq(S) /\ more \in S /\ l \in 1 .. Len(tx) /\ Len(tx) = l
    BY <1>1, <1>2, <1>6, <2>1
  <2>3. /\ [tx EXCEPT ![l] = more] \in Seq(S)
        /\ Len([tx EXCEPT ![l] = more]) = Len(tx)
        /\ \A d \in 1 .. Len(tx) : [tx EXCEPT ![l] = more][d] = IF d = l THEN more ELSE tx[d]
    BY <2>2, ExceptSeq
  <2> QED BY <1>7, <2>1, <2>2, <2>3
<1>10. IsClass(cs, tx, l) /\ cs[l] \in ObjClass
  BY <1>1, <1>2 DEF Extended, IsProgram
<1>11. cs[l].superclass \in 0 .. l - 1
  BY <1>10 DEF IsClass, IsOrdered, ObjClass
<1>12. DOMAIN body = 1 .. Len(body) /\ Len(body) \in Nat /\ DOMAIN more = 1 .. Len(body) + 1
  BY <1>4, <1>6
<1>13. \A i \in 1 .. Len(tx[l]) : tx[l][i].kind = "use" => tx[l][i].trait \in 1 .. l - 1
  BY <1>3, <1>10, <1>12 DEF IsClass, IsOrdered
<1>14. ds[l] = class /\ ty[l] = more /\ \A d \in 1 .. l - 1 : ds[d] = cs[d] /\ ty[d] = tx[d]
  <2>1. l \in 1 .. l
    BY <1>1, <1>2
  <2>2. ASSUME NEW d \in 1 .. l - 1 PROVE d \in 1 .. l /\ d # l
    BY <1>2
  <2>3. ds[l] = class /\ ty[l] = more
    BY <1>8, <1>9, <2>1
  <2> QED BY <1>8, <1>9, <2>2, <2>3
<1> QED BY <1>2, <1>3, <1>6, <1>8, <1>9, <1>11, <1>12, <1>13, <1>14 DEF IsExtension

\* So only that class has to be looked at.
LEMMA OtherClassesKept ==
  ASSUME NEW cs, NEW tx, NEW class, NEW member, NEW ds, NEW ty,
         Extended(cs, tx, class, member, ds, ty), NEW l, l = Len(cs), IsClass(ds, ty, l)
  PROVE  IsProgram(ds, ty, TRUE)
<1>0. IsExtension(cs, tx, class, member, ds, ty, l)
  BY ExtendedFacts
<1>1. /\ l \in Nat /\ Len(ds) = l /\ Len(ty) = l
      /\ ds \in Seq(ObjClass) /\ ty \in Seq(Seq(BodyMember))
      /\ \A d \in 1 .. l - 1 : ds[d] = cs[d] /\ ty[d] = tx[d]
  BY <1>0 DEF IsExtension
<1>2. ASSUME NEW c \in 1 .. l - 1
      PROVE  IsClass(ds, ty, c) /\ IsComplete(ds[c])
  <2>1. /\ c \in Nat /\ c > 0 /\ c \in 1 .. Len(cs) /\ c < Len(cs)
        /\ cs \in Seq(ObjClass) /\ tx \in Seq(Seq(BodyMember)) /\ Len(tx) = l
    BY <1>1 DEF Extended, IsProgram
  <2>2. IsClass(cs, tx, c) /\ IsComplete(cs[c])
    BY <2>1 DEF Extended, IsProgram
  <2>3. cs[c] \in ObjClass /\ tx[c] \in Seq(BodyMember)
    BY <2>1
  <2>4. cs[c].superclass \in Nat /\ DOMAIN tx[c] = 1 .. Len(tx[c]) /\ Len(tx[c]) \in Nat
    BY <2>3 DEF ObjClass
  <2>5. ASSUME NEW d \in 1 .. c PROVE SameClass(ds[d], cs[d])
    <3>1. ds[d] = cs[d]
      BY <1>1
    <3> QED BY <3>1 DEF SameClass
  <2>6. ty[c] = tx[c] /\ ds[c] = cs[c]
    BY <1>1
  <2>7. IsClass(ds, ty, c)
    BY <2>1, <2>2, <2>4, <2>5, <2>6, ClassKept
  <2> QED BY <2>2, <2>6, <2>7
<1>3. \A c \in 1 .. Len(ds) : IsClass(ds, ty, c) /\ (c < Len(ds) => IsComplete(ds[c]))
  BY <1>1, <1>2
<1> QED BY <1>1, <1>3 DEF IsProgram

\* A member of another kind or name changes nothing for this one.
LEMMA PlacesKept ==
  ASSUME NEW cs, NEW tx, NEW class, NEW member, NEW ds, NEW ty,
         Extended(cs, tx, class, member, ds, ty), NEW l, l = Len(cs),
         NEW k, NEW n, member.kind # k \/ member.name # n
  PROVE  PlacesIn(ty, l, k, n) = PlacesIn(tx, l, k, n)
<1>0. IsExtension(cs, tx, class, member, ds, ty, l)
  BY ExtendedFacts
<1>1. /\ DOMAIN tx[l] = 1 .. Len(tx[l]) /\ Len(tx[l]) \in Nat
      /\ DOMAIN ty[l] = 1 .. Len(tx[l]) + 1 /\ ty[l][Len(tx[l]) + 1] = member
      /\ \A i \in 1 .. Len(tx[l]) : ty[l][i] = tx[l][i]
  BY <1>0 DEF IsExtension
<1> QED BY <1>1 DEF PlacesIn

\* The new member is the last of its kind and name.
LEMMA PlaceAdded ==
  ASSUME NEW cs, NEW tx, NEW class, NEW member, NEW ds, NEW ty,
         Extended(cs, tx, class, member, ds, ty), NEW l, l = Len(cs),
         NEW k, NEW n, member.kind = k, member.name = n
  PROVE  PlacesIn(ty, l, k, n) # {} /\ Last(PlacesIn(ty, l, k, n)) = Len(tx[l]) + 1
<1>0. IsExtension(cs, tx, class, member, ds, ty, l)
  BY ExtendedFacts
<1>1. /\ Len(tx[l]) \in Nat
      /\ DOMAIN ty[l] = 1 .. Len(tx[l]) + 1 /\ ty[l][Len(tx[l]) + 1] = member
  BY <1>0 DEF IsExtension
<1>2. PICK places : places = PlacesIn(ty, l, k, n)
  OBVIOUS
<1>3. PICK last \in Nat : last = Len(tx[l]) + 1
  BY <1>1
<1>4. places \subseteq 1 .. last /\ last \in places
  BY <1>1, <1>2, <1>3 DEF PlacesIn
<1>5. \A j \in places : j <= last
  BY <1>4
<1>6. Last(places) = last
  BY <1>3, <1>4, <1>5, LastIs
<1> QED BY <1>2, <1>3, <1>4, <1>6

\* A public method stays, unless the new member gives another.
LEMMA PublicKept ==
  ASSUME NEW cs, NEW tx, NEW class, NEW member, NEW ds, NEW ty,
         Extended(cs, tx, class, member, ds, ty), NEW l, l = Len(cs), NEW n \in Names,
         member.kind # "public" \/ member.name # n,
         member.kind = "use" => member.trait \in 1 .. l - 1
                                /\ cs[member.trait].publicMethods[n] = Undefined,
         class.superclass = cs[l].superclass,
         class.publicMethods[n] = cs[l].publicMethods[n]
  PROVE  HasPublic(ds, ty, l, n)
<1>0. IsExtension(cs, tx, class, member, ds, ty, l)
  BY ExtendedFacts
<1>1. /\ l \in Nat /\ l > 0
      /\ ds[l] = class /\ \A d \in 1 .. l - 1 : ds[d] = cs[d] /\ ty[d] = tx[d]
      /\ DOMAIN tx[l] = 1 .. Len(tx[l]) /\ Len(tx[l]) \in Nat
      /\ DOMAIN ty[l] = 1 .. Len(tx[l]) + 1 /\ ty[l][Len(tx[l]) + 1] = member
      /\ \A i \in 1 .. Len(tx[l]) : ty[l][i] = tx[l][i]
      /\ cs[l].superclass \in 0 .. l - 1
      /\ \A i \in 1 .. Len(tx[l]) : tx[l][i].kind = "use" => tx[l][i].trait \in 1 .. l - 1
  BY <1>0 DEF IsExtension
<1>2. HasPublic(cs, tx, l, n)
  BY <1>1 DEF Extended, IsProgram, IsClass
<1>3. PlacesIn(ty, l, "public", n) = PlacesIn(tx, l, "public", n)
  BY PlacesKept
<1>4. Uses(ds, ty, l, n) = Uses(cs, tx, l, n)
  <2>1. ASSUME NEW i PROVE i \in Uses(ds, ty, l, n) <=> i \in Uses(cs, tx, l, n)
    <3>1. CASE i \in 1 .. Len(tx[l])
      <4>1. ty[l][i] = tx[l][i] /\ i \in DOMAIN ty[l] /\ i \in DOMAIN tx[l]
        BY <1>1, <3>1
      <4>2. tx[l][i].kind = "use" => ds[tx[l][i].trait] = cs[tx[l][i].trait]
        BY <1>1, <3>1
      <4> QED BY <4>1, <4>2 DEF Uses
    <3>2. CASE i = Len(tx[l]) + 1
      <4>1. i \notin DOMAIN tx[l] /\ ty[l][i] = member
        BY <1>1, <3>2
      <4>2. member.kind = "use" => ds[member.trait] = cs[member.trait]
        BY <1>1
      <4> QED BY <4>1, <4>2 DEF Uses
    <3>3. CASE i \notin 1 .. Len(tx[l]) + 1
      <4>1. i \notin DOMAIN ty[l] /\ i \notin DOMAIN tx[l]
        BY <1>1, <3>3
      <4> QED BY <4>1 DEF Uses
    <3>4. i \in 1 .. Len(tx[l]) + 1 => i \in 1 .. Len(tx[l]) \/ i = Len(tx[l]) + 1
      BY <1>1
    <3> QED BY <3>1, <3>2, <3>3, <3>4, Zenon
  <2> QED BY <2>1
<1>5. PICK givers : givers = Givers(cs, tx, l, n)
  OBVIOUS
<1>6. Givers(ds, ty, l, n) = givers
  BY <1>3, <1>4, <1>5 DEF Givers
<1>7. CASE givers = {}
  BY <1>1, <1>2, <1>5, <1>6, <1>7 DEF HasPublic
<1>8. CASE givers # {}
  <2>1. PICK last : last = Last(givers)
    OBVIOUS
  <2>2. givers \subseteq 1 .. Len(tx[l])
    BY <1>1, <1>5 DEF Givers, PlacesIn, Uses
  <2>3. last \in 1 .. Len(tx[l])
    BY <1>1, <1>8, <2>1, <2>2, LastFacts
  <2>4. ty[l][last] = tx[l][last]
    BY <1>1, <2>3
  <2>5. CASE tx[l][last].kind = "use"
    <3>1. cs[l].publicMethods[n] = cs[tx[l][last].trait].publicMethods[n]
      BY <1>2, <1>5, <1>8, <2>1, <2>5 DEF HasPublic
    <3>2. ds[tx[l][last].trait] = cs[tx[l][last].trait]
      BY <1>1, <2>3, <2>5
    <3> QED BY <1>1, <1>6, <1>8, <2>1, <2>4, <2>5, <3>1, <3>2 DEF HasPublic
  <2>6. CASE tx[l][last].kind # "use"
    <3>1. cs[l].publicMethods[n] # Undefined /\ Place(cs[l].publicMethods[n]) = <<l, last>>
      BY <1>2, <1>5, <1>8, <2>1, <2>6 DEF HasPublic
    <3> QED BY <1>1, <1>6, <1>8, <2>1, <2>4, <2>6, <3>1 DEF HasPublic
  <2> QED BY <2>5, <2>6
<1> QED BY <1>7, <1>8

\* And otherwise it is that one.
LEMMA PublicGiven ==
  ASSUME NEW cs, NEW tx, NEW class, NEW member, NEW ds, NEW ty,
         Extended(cs, tx, class, member, ds, ty), NEW l, l = Len(cs), NEW n \in Names,
         \/ /\ member.kind = "public" /\ member.name = n
            /\ class.publicMethods[n] # Undefined
            /\ Place(class.publicMethods[n]) = <<l, Len(tx[l]) + 1>>
         \/ /\ member.kind = "use" /\ member.trait \in 1 .. l - 1
            /\ cs[member.trait].publicMethods[n] # Undefined
            /\ class.publicMethods[n] = cs[member.trait].publicMethods[n]
  PROVE  HasPublic(ds, ty, l, n)
<1>0. IsExtension(cs, tx, class, member, ds, ty, l)
  BY ExtendedFacts
<1>1. /\ ds[l] = class /\ \A d \in 1 .. l - 1 : ds[d] = cs[d]
      /\ Len(tx[l]) \in Nat
      /\ DOMAIN ty[l] = 1 .. Len(tx[l]) + 1 /\ ty[l][Len(tx[l]) + 1] = member
  BY <1>0 DEF IsExtension
<1>2. PICK givers : givers = Givers(ds, ty, l, n)
  OBVIOUS
<1>3. PICK last \in Nat : last = Len(tx[l]) + 1
  BY <1>1
<1>4. givers \subseteq 1 .. last
  BY <1>1, <1>2, <1>3 DEF Givers, PlacesIn, Uses
<1>5. last \in givers
  <2>1. last \in DOMAIN ty[l] /\ ty[l][last] = member
    BY <1>1, <1>3
  <2>2. CASE member.kind = "public"
    <3>1. member.name = n
      BY <2>2
    <3>2. last \in PlacesIn(ty, l, "public", n)
      BY <2>1, <2>2, <3>1 DEF PlacesIn
    <3> QED BY <1>2, <3>2 DEF Givers
  <2>3. CASE member.kind = "use"
    <3>1. ds[member.trait].publicMethods[n] # Undefined
      BY <1>1, <2>3
    <3>2. last \in Uses(ds, ty, l, n)
      BY <2>1, <2>3, <3>1 DEF Uses
    <3> QED BY <1>2, <3>2 DEF Givers
  <2> QED BY <2>2, <2>3
<1>6. \A j \in givers : j <= last
  BY <1>4
<1>7. Last(givers) = last
  BY <1>3, <1>4, <1>5, <1>6, LastIs
<1>8. ty[l][last] = member
  BY <1>1, <1>3
<1> QED BY <1>1, <1>2, <1>3, <1>5, <1>7, <1>8 DEF HasPublic

\* A private method.
LEMMA PrivateKept ==
  ASSUME NEW cs, NEW tx, NEW class, NEW member, NEW ds, NEW ty,
         Extended(cs, tx, class, member, ds, ty), NEW l, l = Len(cs), NEW n \in Names,
         IF member.kind = "private" /\ member.name = n
         THEN /\ class.privateMethods[n] # Undefined
              /\ Place(class.privateMethods[n]) = <<l, Len(tx[l]) + 1>>
         ELSE class.privateMethods[n] = cs[l].privateMethods[n]
  PROVE  HasPrivate(ds, ty, l, n)
<1>0. IsExtension(cs, tx, class, member, ds, ty, l)
  BY ExtendedFacts
<1>1. l \in Nat /\ l > 0 /\ ds[l] = class
  BY <1>0 DEF IsExtension
<1>2. HasPrivate(cs, tx, l, n)
  BY <1>1 DEF Extended, IsProgram, IsClass
<1>3. CASE member.kind = "private" /\ member.name = n
  <2>1. PlacesIn(ty, l, "private", n) # {} /\ Last(PlacesIn(ty, l, "private", n)) = Len(tx[l]) + 1
    BY <1>3, PlaceAdded
  <2> QED BY <1>1, <1>3, <2>1 DEF HasPrivate
<1>4. CASE ~ (member.kind = "private" /\ member.name = n)
  <2>1. PlacesIn(ty, l, "private", n) = PlacesIn(tx, l, "private", n)
    BY <1>4, PlacesKept
  <2> QED BY <1>1, <1>2, <1>4, <2>1 DEF HasPrivate
<1> QED BY <1>3, <1>4

\* An abstract method, and a constant.
LEMMA OthersKept ==
  ASSUME NEW cs, NEW tx, NEW class, NEW member, NEW ds, NEW ty,
         Extended(cs, tx, class, member, ds, ty), NEW l, l = Len(cs), NEW n \in Names,
         class.type = cs[l].type, class.superclass = cs[l].superclass,
         IF member.kind = "abstract" /\ member.name = n
         THEN class.type = "abstract" /\ class.abstractMethods[n] # Undefined
         ELSE class.abstractMethods[n] = cs[l].abstractMethods[n],
         IF member.kind = "const" /\ member.name = n
         THEN class.constants[n] # Undefined
         ELSE class.constants[n] = cs[l].constants[n]
  PROVE  HasAbstract(ds, ty, l, n) /\ HasConstant(ds, ty, l, n)
<1>0. IsExtension(cs, tx, class, member, ds, ty, l)
  BY ExtendedFacts
<1>1. /\ l \in Nat /\ l > 0 /\ ds[l] = class /\ \A d \in 1 .. l - 1 : ds[d] = cs[d]
      /\ cs[l].superclass \in 0 .. l - 1
  BY <1>0 DEF IsExtension
<1>2. HasAbstract(cs, tx, l, n) /\ HasConstant(cs, tx, l, n)
  BY <1>1 DEF Extended, IsProgram, IsClass
<1>3. HasAbstract(ds, ty, l, n)
  <2>0. cs[l].superclass # 0 => ds[cs[l].superclass] = cs[cs[l].superclass]
    BY <1>1
  <2>1. CASE member.kind = "abstract" /\ member.name = n
    BY <1>1, <2>1 DEF HasAbstract
  <2>2. CASE ~ (member.kind = "abstract" /\ member.name = n)
    <3>1. PlacesIn(ty, l, "abstract", n) = PlacesIn(tx, l, "abstract", n)
      BY <2>2, PlacesKept
    <3> QED BY <1>1, <1>2, <2>0, <2>2, <3>1 DEF HasAbstract
  <2> QED BY <2>1, <2>2
<1>4. HasConstant(ds, ty, l, n)
  <2>1. CASE member.kind = "const" /\ member.name = n
    BY <1>1, <2>1 DEF HasConstant
  <2>2. CASE ~ (member.kind = "const" /\ member.name = n)
    <3>1. PlacesIn(ty, l, "const", n) = PlacesIn(tx, l, "const", n)
      BY <2>2, PlacesKept
    <3> QED BY <1>1, <1>2, <2>2, <3>1 DEF HasConstant
  <2> QED BY <2>1, <2>2
<1> QED BY <1>3, <1>4

----------------------------------------------------------------------------
(* Each action keeps the invariant. *)

\* What the member does to the last class.
Defines(class, member) ==
  LET old   == classes[Latest]
      Is(k, n) == member.kind = k /\ member.name = n
      Gives(n) == member.kind = "use" /\ classes[member.trait].publicMethods[n] # Undefined
  IN /\ class.type = old.type /\ class.superclass = old.superclass
     /\ \A n \in Names :
          /\ class.publicMethods[n] = IF Is("public", n) THEN This
                                      ELSE IF Gives(n) THEN classes[member.trait].publicMethods[n]
                                      ELSE old.publicMethods[n]
          /\ class.privateMethods[n] = IF Is("private", n) THEN This ELSE old.privateMethods[n]
          /\ class.abstractMethods[n] = IF Is("abstract", n) THEN This ELSE old.abstractMethods[n]
          /\ Is("abstract", n) => class.type = "abstract"
          /\ IF Is("const", n) THEN class.constants[n] # Undefined
                               ELSE class.constants[n] = old.constants[n]

\* The class that is open, and the method that is compiled.
LEMMA OpenFacts ==
  ASSUME ClassesInv, NEW member, Member(member)
  PROVE  /\ Latest \in 1 .. Latest /\ Latest \in Nat /\ classes[Latest] \in ObjClass
         /\ isOpen = TRUE /\ instance = NoInstance /\ written = Nothing
         /\ IsOrdered(classes, text, Latest)
         /\ This \in [class : 1 .. Latest, at : 1 .. MaxMembers, knows : SUBSET Names]
         /\ This \in Methods /\ This # Undefined
         /\ Place(This) = <<Latest, Len(text[Latest]) + 1>>
         /\ text' = [text EXCEPT ![Latest] = Append(@, member)]
         /\ UNCHANGED <<isOpen, instance, written>>
<1>1. isOpen = TRUE /\ text' = [text EXCEPT ![Latest] = Append(@, member)]
      /\ UNCHANGED <<isOpen, instance, written>>
  BY DEF Member, ClassesInv
<1>2. Latest > 0 /\ instance = NoInstance /\ written = Nothing
  BY <1>1 DEF ClassesInv, IsLooked, Latest
<1>3. Latest \in Nat
  BY DEF ClassesInv, IsProgram, Latest
<1>4. Latest \in 1 .. Latest
  BY <1>2, <1>3
<1>5. classes[Latest] \in ObjClass /\ IsOrdered(classes, text, Latest)
  BY <1>4, ProgramFacts DEF IsClass
<1>6. Len(text[Latest]) + 1 \in 1 .. MaxMembers
  BY <1>2, BodyBounded DEF Member
<1>7. This = [class |-> Latest, at |-> Len(text[Latest]) + 1, knows |-> knows] /\ knows \subseteq Names
  BY DEF This, Method, ClassesInv
<1>8. This \in [class : 1 .. Latest, at : 1 .. MaxMembers, knows : SUBSET Names]
  BY <1>4, <1>6, <1>7
<1>9. This \in Methods
  BY <1>3, <1>6, <1>7, ClassesAssumption DEF Methods
<1>10. This # Undefined
  BY <1>9, ClassesAssumption DEF Methods
<1>11. Place(This) = <<Latest, Len(text[Latest]) + 1>>
  BY <1>7, <1>10 DEF Place
<1> QED BY <1>1, <1>2, <1>3, <1>4, <1>5, <1>8, <1>9, <1>10, <1>11

\* A member that does this keeps the invariant.
LEMMA MemberKeeps ==
  ASSUME ClassesInv, NEW member \in BodyMember, Member(member), NEW class \in ObjClass,
         classes' = [classes EXCEPT ![Latest] = class], knows' \subseteq Names,
         member.kind = "use" => member.trait \in 1 .. Latest - 1,
         {class.publicMethods, class.privateMethods, class.abstractMethods} \subseteq OwnMethods(Latest),
         Defines(class, member)
  PROVE  ClassesInv'
<1>1. PICK ds : ds = classes'
  OBVIOUS
<1>2. PICK ty : ty = text'
  OBVIOUS
<1>3. PICK cs : cs = classes
  OBVIOUS
<1>4. PICK tx : tx = text
  OBVIOUS
<1>5. PICK l : l = Len(cs)
  OBVIOUS
<1>6. l = Latest
  BY <1>3, <1>5 DEF Latest
<1>7. /\ l \in 1 .. l /\ l \in Nat /\ isOpen = TRUE /\ instance = NoInstance /\ written = Nothing
      /\ IsOrdered(cs, tx, l)
      /\ This # Undefined /\ Place(This) = <<l, Len(tx[l]) + 1>>
      /\ ty = [tx EXCEPT ![l] = Append(@, member)]
      /\ UNCHANGED <<isOpen, instance, written>>
  BY <1>2, <1>3, <1>4, <1>6, OpenFacts
<1>8. IsProgram(cs, tx, TRUE)
  BY <1>3, <1>4, <1>7 DEF ClassesInv
<1>9. Extended(cs, tx, class, member, ds, ty)
  <2>1. Len(cs) # 0
    BY <1>5, <1>7
  <2>2. ds = [cs EXCEPT ![Len(cs)] = class]
    BY <1>1, <1>3, <1>5, <1>6, Zenon
  <2>3. ty = [tx EXCEPT ![Len(cs)] = Append(@, member)]
    BY <1>5, <1>7, Zenon
  <2> QED BY <1>8, <2>1, <2>2, <2>3, Zenon DEF Extended
<1>10. IsExtension(cs, tx, class, member, ds, ty, l)
  BY <1>5, <1>9, ExtendedFacts
<1>11. class.type = cs[l].type /\ class.superclass = cs[l].superclass
  BY <1>3, <1>6 DEF Defines
<1>12. ASSUME NEW n \in Names
       PROVE  /\ HasPublic(ds, ty, l, n) /\ HasPrivate(ds, ty, l, n)
              /\ HasAbstract(ds, ty, l, n) /\ HasConstant(ds, ty, l, n)
  <2>0. /\ class.publicMethods[n] = IF member.kind = "public" /\ member.name = n THEN This
                                    ELSE IF member.kind = "use" /\ cs[member.trait].publicMethods[n] # Undefined
                                    THEN cs[member.trait].publicMethods[n]
                                    ELSE cs[l].publicMethods[n]
        /\ class.privateMethods[n] = IF member.kind = "private" /\ member.name = n THEN This
                                     ELSE cs[l].privateMethods[n]
        /\ class.abstractMethods[n] = IF member.kind = "abstract" /\ member.name = n THEN This
                                      ELSE cs[l].abstractMethods[n]
        /\ member.kind = "abstract" /\ member.name = n => class.type = "abstract"
        /\ IF member.kind = "const" /\ member.name = n THEN class.constants[n] # Undefined
                                                       ELSE class.constants[n] = cs[l].constants[n]
    BY <1>3, <1>6 DEF Defines
  <2>1. HasPublic(ds, ty, l, n)
    <3>1. CASE member.kind = "public" /\ member.name = n
      <4>1. class.publicMethods[n] # Undefined /\ Place(class.publicMethods[n]) = <<l, Len(tx[l]) + 1>>
        BY <1>7, <2>0, <3>1
      <4> QED BY <1>5, <1>9, <3>1, <4>1, PublicGiven
    <3>2. CASE member.kind = "use" /\ cs[member.trait].publicMethods[n] # Undefined
      <4>1. member.trait \in 1 .. l - 1 /\ class.publicMethods[n] = cs[member.trait].publicMethods[n]
        BY <1>6, <2>0, <3>2
      <4> QED BY <1>5, <1>9, <3>2, <4>1, PublicGiven
    <3>3. CASE ~ (member.kind = "public" /\ member.name = n)
               /\ ~ (member.kind = "use" /\ cs[member.trait].publicMethods[n] # Undefined)
      <4>1. class.publicMethods[n] = cs[l].publicMethods[n]
        BY <2>0, <3>3
      <4>2. member.kind = "use" => member.trait \in 1 .. l - 1
                                   /\ cs[member.trait].publicMethods[n] = Undefined
        BY <1>6, <3>3
      <4>3. member.kind # "public" \/ member.name # n
        BY <3>3
      <4> QED BY <1>5, <1>9, <1>11, <4>1, <4>2, <4>3, PublicKept
    <3> QED BY <3>1, <3>2, <3>3
  <2>2. HasPrivate(ds, ty, l, n)
    <3>1. IF member.kind = "private" /\ member.name = n
          THEN /\ class.privateMethods[n] # Undefined
               /\ Place(class.privateMethods[n]) = <<l, Len(tx[l]) + 1>>
          ELSE class.privateMethods[n] = cs[l].privateMethods[n]
      BY <1>7, <2>0
    <3> QED BY <1>5, <1>9, <3>1, PrivateKept
  <2>3. HasAbstract(ds, ty, l, n) /\ HasConstant(ds, ty, l, n)
    <3>1. IF member.kind = "abstract" /\ member.name = n
          THEN class.type = "abstract" /\ class.abstractMethods[n] # Undefined
          ELSE class.abstractMethods[n] = cs[l].abstractMethods[n]
      BY <1>7, <2>0
    <3>2. IF member.kind = "const" /\ member.name = n
          THEN class.constants[n] # Undefined
          ELSE class.constants[n] = cs[l].constants[n]
      BY <2>0
    <3> QED BY <1>5, <1>9, <1>11, <3>1, <3>2, OthersKept
  <2> QED BY <2>1, <2>2, <2>3
<1>13. IsOrdered(ds, ty, l)
  <2>1. ds[l] = class /\ class.superclass < l
    BY <1>7, <1>10, <1>11 DEF IsExtension, IsOrdered
  <2>2. {class.publicMethods, class.privateMethods, class.abstractMethods} \subseteq OwnMethods(l)
    BY <1>6
  <2>3. ASSUME NEW i \in DOMAIN ty[l], ty[l][i].kind = "use"
        PROVE  ty[l][i].trait \in 1 .. l - 1
    <3>1. CASE i \in 1 .. Len(tx[l])
      BY <1>10, <2>3, <3>1 DEF IsExtension
    <3>2. CASE i = Len(tx[l]) + 1
      BY <1>6, <1>10, <2>3, <3>2 DEF IsExtension
    <3> QED BY <1>10, <3>1, <3>2 DEF IsExtension
  <2> QED BY <2>1, <2>2, <2>3 DEF IsOrdered
<1>14. IsProgram(ds, ty, TRUE)
  <2>1. IsClass(ds, ty, l)
    BY <1>12, <1>13 DEF IsClass
  <2> QED BY <1>5, <1>9, <2>1, OtherClassesKept
<1>15. IsProgram(classes, text, isOpen)'
  BY <1>1, <1>2, <1>7, <1>14
<1>16. IsLooked(classes, isOpen, instance, written)'
  <2>1. Len(classes') > 0
    BY <1>1, <1>7, <1>10 DEF IsExtension
  <2>2. IsLooked(classes', TRUE, NoInstance, Nothing)
    BY <1>7, <2>1 DEF ClassesInv, IsLooked
  <2> QED BY <1>7, <2>2
<1> QED BY <1>7, <1>15, <1>16 DEF ClassesInv

\* An own method has its place in a table of the class.
LEMMA TableGrows ==
  ASSUME NEW c, NEW t \in OwnMethods(c), NEW n \in Names,
         NEW method \in [class : 1 .. c, at : 1 .. MaxMembers, knows : SUBSET Names]
  PROVE  [t EXCEPT ![n] = method] \in OwnMethods(c)
BY DEF OwnMethods

\* And so has any method in a table.
LEMMA TableTyped ==
  ASSUME NEW t \in MethodTables, NEW n \in Names, NEW method \in Methods
  PROVE  [t EXCEPT ![n] = method] \in MethodTables
BY DEF MethodTables

\* The tables of the open class.
LEMMA OpenTables ==
  ASSUME ClassesInv, NEW member, Member(member)
  PROVE  /\ classes[Latest].publicMethods \in OwnMethods(Latest) \cap MethodTables
         /\ classes[Latest].privateMethods \in OwnMethods(Latest) \cap MethodTables
         /\ classes[Latest].abstractMethods \in OwnMethods(Latest) \cap MethodTables
         /\ classes[Latest].constants \in FieldTables /\ classes[Latest].variables \in FieldTables
         /\ classes[Latest].superclass \in Nat /\ classes[Latest].type \in Types
<1>1. classes[Latest] \in ObjClass /\ IsOrdered(classes, text, Latest)
  BY OpenFacts
<1> QED BY <1>1 DEF ObjClass, IsOrdered

\* method() and defineMethod.
LEMMA DefineMethodKeeps ==
  ASSUME ClassesInv, NEW n \in Names, NEW access \in {"public", "private", "abstract"},
         DefineMethod(n, access)
  PROVE  ClassesInv'
<1> DEFINE member == [kind |-> access, name |-> n]
<1>1. Member(member) /\ knows' = knows /\ member \in BodyMember /\ knows' \subseteq Names
  BY DEF DefineMethod, ClassesInv, BodyMember, Kinds
<1>2. PICK old : old = classes[Latest]
  OBVIOUS
<1>3. /\ This \in [class : 1 .. Latest, at : 1 .. MaxMembers, knows : SUBSET Names]
      /\ This \in Methods /\ This # Undefined /\ old \in ObjClass
  BY <1>1, <1>2, OpenFacts
<1>4. /\ old.publicMethods \in OwnMethods(Latest) \cap MethodTables
      /\ old.privateMethods \in OwnMethods(Latest) \cap MethodTables
      /\ old.abstractMethods \in OwnMethods(Latest) \cap MethodTables
  BY <1>1, <1>2, OpenTables
<1>5. ASSUME NEW t \in OwnMethods(Latest) \cap MethodTables
      PROVE  /\ [t EXCEPT ![n] = This] \in OwnMethods(Latest) \cap MethodTables
             /\ \A m \in Names : [t EXCEPT ![n] = This][m] = IF m = n THEN This ELSE t[m]
  <2>1. PICK method : method = This
    OBVIOUS
  <2>2. [t EXCEPT ![n] = method] \in OwnMethods(Latest) \cap MethodTables
    BY <1>3, <2>1, TableGrows, TableTyped
  <2> QED BY <2>1, <2>2 DEF MethodTables
<1>6. member.kind = access /\ member.name = n
  OBVIOUS
<1>7. CASE access = "public"
  <2>1. PICK table : table = [old.publicMethods EXCEPT ![n] = This]
    OBVIOUS
  <2>2. table \in OwnMethods(Latest) \cap MethodTables
        /\ \A m \in Names : table[m] = IF m = n THEN This ELSE old.publicMethods[m]
    BY <1>4, <1>5, <2>1
  <2>3. PICK class : class = [old EXCEPT !.publicMethods = table]
    OBVIOUS
  <2>4. classes' = [classes EXCEPT ![Latest] = class]
    <3>1. classes' = [classes EXCEPT ![Latest] = [@ EXCEPT !.publicMethods[n] = This]]
      BY <1>7 DEF DefineMethod
    <3> QED BY <1>2, <2>1, <2>3, <3>1
  <2>5. /\ class \in ObjClass /\ class.publicMethods = table /\ class.type = old.type
        /\ class.superclass = old.superclass /\ class.privateMethods = old.privateMethods
        /\ class.abstractMethods = old.abstractMethods /\ class.constants = old.constants
    BY <1>3, <2>2, <2>3 DEF ObjClass
  <2>6. Defines(class, member)
    BY <1>2, <1>6, <1>7, <2>2, <2>5 DEF Defines
  <2>7. {class.publicMethods, class.privateMethods, class.abstractMethods} \subseteq OwnMethods(Latest)
    BY <1>4, <2>2, <2>5
  <2>8. member.kind = "use" => member.trait \in 1 .. Latest - 1
    BY <1>6, <1>7
  <2>9. class \in ObjClass
    BY <2>5
  <2> HIDE DEF member
  <2> QED BY <1>1, <2>4, <2>6, <2>7, <2>8, <2>9, MemberKeeps, ZenonT(30)
<1>8. CASE access = "private"
  <2>1. PICK table : table = [old.privateMethods EXCEPT ![n] = This]
    OBVIOUS
  <2>2. table \in OwnMethods(Latest) \cap MethodTables
        /\ \A m \in Names : table[m] = IF m = n THEN This ELSE old.privateMethods[m]
    BY <1>4, <1>5, <2>1
  <2>3. PICK class : class = [old EXCEPT !.privateMethods = table]
    OBVIOUS
  <2>4. classes' = [classes EXCEPT ![Latest] = class]
    <3>1. classes' = [classes EXCEPT ![Latest] = [@ EXCEPT !.privateMethods[n] = This]]
      BY <1>8 DEF DefineMethod
    <3> QED BY <1>2, <2>1, <2>3, <3>1
  <2>5. /\ class \in ObjClass /\ class.privateMethods = table /\ class.type = old.type
        /\ class.superclass = old.superclass /\ class.publicMethods = old.publicMethods
        /\ class.abstractMethods = old.abstractMethods /\ class.constants = old.constants
    BY <1>3, <2>2, <2>3 DEF ObjClass
  <2>6. Defines(class, member)
    BY <1>2, <1>6, <1>8, <2>2, <2>5 DEF Defines
  <2>7. {class.publicMethods, class.privateMethods, class.abstractMethods} \subseteq OwnMethods(Latest)
    BY <1>4, <2>2, <2>5
  <2>8. member.kind = "use" => member.trait \in 1 .. Latest - 1
    BY <1>6, <1>8
  <2>9. class \in ObjClass
    BY <2>5
  <2> HIDE DEF member
  <2> QED BY <1>1, <2>4, <2>6, <2>7, <2>8, <2>9, MemberKeeps, ZenonT(30)
<1>9. CASE access = "abstract"
  <2>1. PICK table : table = [old.abstractMethods EXCEPT ![n] = This]
    OBVIOUS
  <2>2. table \in OwnMethods(Latest) \cap MethodTables
        /\ \A m \in Names : table[m] = IF m = n THEN This ELSE old.abstractMethods[m]
    BY <1>4, <1>5, <2>1
  <2>3. PICK class : class = [old EXCEPT !.abstractMethods = table]
    OBVIOUS
  <2>4. classes' = [classes EXCEPT ![Latest] = class]
    <3>1. classes' = [classes EXCEPT ![Latest] = [@ EXCEPT !.abstractMethods[n] = This]]
      BY <1>9 DEF DefineMethod
    <3> QED BY <1>2, <2>1, <2>3, <3>1
  <2>5. /\ class \in ObjClass /\ class.abstractMethods = table /\ class.type = old.type
        /\ class.superclass = old.superclass /\ class.publicMethods = old.publicMethods
        /\ class.privateMethods = old.privateMethods /\ class.constants = old.constants
    BY <1>3, <2>2, <2>3 DEF ObjClass
  <2>6. old.type = "abstract"
    BY <1>2, <1>9 DEF DefineMethod
  <2>7. Defines(class, member)
    BY <1>2, <1>6, <1>9, <2>2, <2>5, <2>6 DEF Defines
  <2>8. {class.publicMethods, class.privateMethods, class.abstractMethods} \subseteq OwnMethods(Latest)
    BY <1>4, <2>2, <2>5
  <2>9. member.kind = "use" => member.trait \in 1 .. Latest - 1
    BY <1>6, <1>9
  <2>10. class \in ObjClass
    BY <2>5
  <2> HIDE DEF member
  <2> QED BY <1>1, <2>4, <2>7, <2>8, <2>9, <2>10, MemberKeeps, ZenonT(30)
<1> QED BY <1>7, <1>8, <1>9

\* USE.
LEMMA UseKeeps ==
  ASSUME ClassesInv, NEW t \in 1 .. Latest - 1, Use(t)
  PROVE  ClassesInv'
<1> DEFINE member == [kind |-> "use", trait |-> t]
<1>1. Member(member) /\ knows' = knows /\ member \in BodyMember /\ knows' \subseteq Names
  <2>1. Latest \in Nat
    BY DEF ClassesInv, IsProgram, Latest
  <2> QED BY <2>1 DEF Use, ClassesInv, BodyMember
<1>2. PICK old : old = classes[Latest]
  OBVIOUS
<1>3. old \in ObjClass /\ Latest \in Nat
  BY <1>1, <1>2, OpenFacts
<1>4. /\ old.publicMethods \in OwnMethods(Latest) \cap MethodTables
      /\ old.privateMethods \in OwnMethods(Latest)
      /\ old.abstractMethods \in OwnMethods(Latest)
  BY <1>1, <1>2, OpenTables
<1>5. PICK from : from = classes[t].publicMethods
  OBVIOUS
<1>6. from \in OwnMethods(Latest) /\ from \in MethodTables
  <2>1. t \in 1 .. Latest /\ t <= Latest
    BY <1>3
  <2>2. classes[t] \in ObjClass /\ IsOrdered(classes, text, t)
    BY <2>1, ProgramFacts DEF IsClass
  <2>3. from \in OwnMethods(t) /\ from \in MethodTables
    BY <1>5, <2>2 DEF IsOrdered, ObjClass
  <2>4. OwnMethods(t) \subseteq OwnMethods(Latest)
    <3>1. 1 .. t \subseteq 1 .. Latest
      BY <1>3
    <3>2. [class : 1 .. t, at : 1 .. MaxMembers, knows : SUBSET Names]
            \subseteq [class : 1 .. Latest, at : 1 .. MaxMembers, knows : SUBSET Names]
      BY <3>1
    <3> QED BY <3>2 DEF OwnMethods
  <2> QED BY <2>3, <2>4
<1>7. PICK table : table = UseMethods(from, old.publicMethods)
  OBVIOUS
<1>8. \A m \in Names : table[m] = IF from[m] # Undefined THEN from[m] ELSE old.publicMethods[m]
  BY <1>7 DEF UseMethods, AddAll, IsDefined
<1>9. table \in OwnMethods(Latest) /\ table \in MethodTables
  <2>1. table = [m \in Names |-> IF from[m] # Undefined THEN from[m] ELSE old.publicMethods[m]]
    BY <1>7 DEF UseMethods, AddAll, IsDefined
  <2>2. table \in OwnMethods(Latest)
    BY <1>4, <1>6, <2>1 DEF OwnMethods
  <2>3. table \in MethodTables
    BY <1>4, <1>6, <2>1 DEF MethodTables
  <2> QED BY <2>2, <2>3
<1>10. PICK class : class = [old EXCEPT !.publicMethods = table]
  OBVIOUS
<1>11. classes' = [classes EXCEPT ![Latest] = class]
  <2>1. classes' = [classes EXCEPT ![Latest].publicMethods = UseMethods(classes[t].publicMethods, @)]
    BY DEF Use
  <2>2. classes' = [classes EXCEPT ![Latest] =
                      [classes[Latest] EXCEPT !.publicMethods =
                         UseMethods(classes[t].publicMethods, classes[Latest].publicMethods)]]
    BY <2>1
  <2> QED BY <1>2, <1>5, <1>7, <1>10, <2>2
<1>12. /\ class \in ObjClass /\ class.publicMethods = table /\ class.type = old.type
       /\ class.superclass = old.superclass /\ class.privateMethods = old.privateMethods
       /\ class.abstractMethods = old.abstractMethods /\ class.constants = old.constants
  BY <1>3, <1>9, <1>10 DEF ObjClass
<1>13. member.kind = "use" /\ member.trait = t
  OBVIOUS
<1> HIDE DEF member
<1>14. Defines(class, member)
  BY <1>2, <1>5, <1>8, <1>12, <1>13 DEF Defines
<1> QED BY <1>1, <1>4, <1>9, <1>11, <1>12, <1>13, <1>14, MemberKeeps

\* `private n;`.
LEMMA DeclarePrivateKeeps ==
  ASSUME ClassesInv, NEW n \in Names, DeclarePrivate(n)
  PROVE  ClassesInv'
<1> DEFINE member == [kind |-> "attribute", name |-> n]
<1>1. Member(member) /\ member \in BodyMember /\ knows' \subseteq Names
  BY DEF DeclarePrivate, ClassesInv, BodyMember, Kinds
<1>2. PICK class : class = classes[Latest]
  OBVIOUS
<1>3. class \in ObjClass /\ Latest \in 1 .. Latest
  BY <1>1, <1>2, OpenFacts
<1>4. {class.publicMethods, class.privateMethods, class.abstractMethods} \subseteq OwnMethods(Latest)
  BY <1>1, <1>2, OpenTables
<1>5. classes' = [classes EXCEPT ![Latest] = class]
  BY <1>2 DEF DeclarePrivate, ClassesInv, IsProgram
<1>6. Defines(class, member)
  BY <1>2 DEF Defines
<1>7. member.kind # "use"
  OBVIOUS
<1> HIDE DEF member
<1> QED BY <1>1, <1>3, <1>4, <1>5, <1>6, <1>7, MemberKeeps

\* SET_CLASS_VAR.
LEMMA SetClassVarKeeps ==
  ASSUME ClassesInv, NEW n \in Names, NEW constant \in BOOLEAN, NEW v \in Contents,
         SetClassVar(n, constant, v)
  PROVE  ClassesInv'
<1> DEFINE member == [kind |-> IF constant THEN "const" ELSE "var", name |-> n]
<1>1. Member(member) /\ member \in BodyMember /\ knows' \subseteq Names
  BY DEF SetClassVar, ClassesInv, BodyMember, Kinds
<1>2. PICK old : old = classes[Latest]
  OBVIOUS
<1>3. old \in ObjClass
  BY <1>1, <1>2, OpenFacts
<1>4. /\ {old.publicMethods, old.privateMethods, old.abstractMethods} \subseteq OwnMethods(Latest)
      /\ old.constants \in FieldTables /\ old.variables \in FieldTables
  BY <1>1, <1>2, OpenTables
<1>5. v # Undefined
  BY ClassesAssumption
<1>6. ASSUME NEW t \in FieldTables
      PROVE  /\ [t EXCEPT ![n] = v] \in FieldTables
             /\ \A m \in Names : [t EXCEPT ![n] = v][m] = IF m = n THEN v ELSE t[m]
  BY DEF FieldTables
<1>7. member.name = n /\ member.kind = IF constant THEN "const" ELSE "var"
  OBVIOUS
<1>8. CASE constant = TRUE
  <2>1. PICK table : table = [old.constants EXCEPT ![n] = v]
    OBVIOUS
  <2>2. table \in FieldTables /\ \A m \in Names : table[m] = IF m = n THEN v ELSE old.constants[m]
    BY <1>4, <1>6, <2>1
  <2>3. PICK class : class = [old EXCEPT !.constants = table]
    OBVIOUS
  <2>4. classes' = [classes EXCEPT ![Latest] = class]
    <3>1. classes' = [classes EXCEPT ![Latest] = [@ EXCEPT !.constants[n] = v]]
      BY <1>8 DEF SetClassVar
    <3> QED BY <1>2, <2>1, <2>3, <3>1
  <2>5. /\ class \in ObjClass /\ class.constants = table /\ class.type = old.type
        /\ class.superclass = old.superclass /\ class.publicMethods = old.publicMethods
        /\ class.privateMethods = old.privateMethods /\ class.abstractMethods = old.abstractMethods
    BY <1>3, <2>2, <2>3 DEF ObjClass
  <2>6. Defines(class, member)
    BY <1>2, <1>5, <1>7, <1>8, <2>2, <2>5 DEF Defines
  <2> HIDE DEF member
  <2> QED BY <1>1, <1>4, <1>7, <1>8, <2>4, <2>5, <2>6, MemberKeeps
<1>9. CASE constant = FALSE
  <2>1. PICK table : table = [old.variables EXCEPT ![n] = v]
    OBVIOUS
  <2>2. table \in FieldTables
    BY <1>4, <1>6, <2>1
  <2>3. PICK class : class = [old EXCEPT !.variables = table]
    OBVIOUS
  <2>4. classes' = [classes EXCEPT ![Latest] = class]
    <3>1. classes' = [classes EXCEPT ![Latest] = [@ EXCEPT !.variables[n] = v]]
      BY <1>9 DEF SetClassVar
    <3> QED BY <1>2, <2>1, <2>3, <3>1
  <2>5. /\ class \in ObjClass /\ class.constants = old.constants /\ class.type = old.type
        /\ class.superclass = old.superclass /\ class.publicMethods = old.publicMethods
        /\ class.privateMethods = old.privateMethods /\ class.abstractMethods = old.abstractMethods
    BY <1>3, <2>2, <2>3 DEF ObjClass
  <2>6. Defines(class, member)
    BY <1>2, <1>7, <1>9, <2>5 DEF Defines
  <2> HIDE DEF member
  <2> QED BY <1>1, <1>4, <1>7, <1>9, <2>4, <2>5, <2>6, MemberKeeps
<1> QED BY <1>8, <1>9

\* CLASS and SUBCLASS.
LEMMA CreateClassKeeps ==
  ASSUME ClassesInv, NEW type \in Types, NEW superclass \in 0 .. Latest, CreateClass(type, superclass)
  PROVE  ClassesInv'
<1>0. /\ isOpen = FALSE /\ instance = NoInstance /\ isOpen' = TRUE /\ knows' = {}
      /\ instance' = instance /\ written' = written /\ text' = Append(text, <<>>)
      /\ Latest \in Nat /\ text \in Seq(Seq(BodyMember)) /\ Len(text) = Latest
      /\ classes \in Seq(ObjClass) /\ Len(classes) = Latest
  BY DEF CreateClass, ClassesInv, IsProgram, Latest
<1>1. PICK l \in Nat : l = Latest
  BY <1>0
<1>2. PICK blank : blank = Blank
  OBVIOUS
<1>3. blank \in OwnMethods(l + 1) /\ blank \in MethodTables /\ blank \in FieldTables
      /\ \A n \in Names : blank[n] = Undefined
  BY <1>2 DEF Blank, OwnMethods, MethodTables, FieldTables
<1>4. PICK fresh : fresh = [type |-> type, superclass |-> superclass,
                            publicMethods |-> blank, privateMethods |-> blank,
                            abstractMethods |-> blank, constants |-> blank, variables |-> blank]
  OBVIOUS
<1>5. fresh \in ObjClass
  BY <1>0, <1>3, <1>4 DEF ObjClass
<1>6. PICK class : class = IF superclass = 0 THEN fresh ELSE Inherited(fresh, classes[superclass])
  OBVIOUS
<1>7. classes' = Append(classes, class)
  BY <1>2, <1>4, <1>6 DEF CreateClass
<1>8. superclass # 0 =>
        /\ classes[superclass].publicMethods \in OwnMethods(l + 1) \cap MethodTables
        /\ classes[superclass].abstractMethods \in OwnMethods(l + 1) \cap MethodTables
  <2> SUFFICES ASSUME superclass # 0
               PROVE  /\ classes[superclass].publicMethods \in OwnMethods(l + 1) \cap MethodTables
                      /\ classes[superclass].abstractMethods \in OwnMethods(l + 1) \cap MethodTables
    OBVIOUS
  <2>1. superclass \in 1 .. Latest
    BY <1>0
  <2>2. classes[superclass] \in ObjClass /\ IsOrdered(classes, text, superclass)
    BY <2>1, ProgramFacts DEF IsClass
  <2>3. /\ classes[superclass].publicMethods \in OwnMethods(superclass) \cap MethodTables
        /\ classes[superclass].abstractMethods \in OwnMethods(superclass) \cap MethodTables
    BY <2>2 DEF IsOrdered, ObjClass
  <2>4. OwnMethods(superclass) \subseteq OwnMethods(l + 1)
    <3>1. 1 .. superclass \subseteq 1 .. l + 1
      BY <1>1, <2>1
    <3>2. [class : 1 .. superclass, at : 1 .. MaxMembers, knows : SUBSET Names]
            \subseteq [class : 1 .. l + 1, at : 1 .. MaxMembers, knows : SUBSET Names]
      BY <3>1
    <3> QED BY <3>2 DEF OwnMethods
  <2> QED BY <2>3, <2>4
<1>9. /\ class \in ObjClass /\ class.type = type /\ class.superclass = superclass
      /\ class.privateMethods = blank
      /\ class.publicMethods = IF superclass = 0 THEN blank ELSE classes[superclass].publicMethods
      /\ class.abstractMethods = IF superclass = 0 THEN blank ELSE classes[superclass].abstractMethods
      /\ {class.publicMethods, class.privateMethods, class.abstractMethods} \subseteq OwnMethods(l + 1)
  <2>1. CASE superclass = 0
    BY <1>3, <1>4, <1>5, <1>6, <2>1
  <2>2. CASE superclass # 0
    <3>1. class = [fresh EXCEPT !.publicMethods = classes[superclass].publicMethods,
                                !.abstractMethods = classes[superclass].abstractMethods]
      BY <1>6, <2>2 DEF Inherited
    <3> QED BY <1>3, <1>4, <1>5, <1>8, <2>2, <3>1 DEF ObjClass
  <2> QED BY <2>1, <2>2
<1>10. PICK ds : ds = classes'
  OBVIOUS
<1>11. PICK ty : ty = text'
  OBVIOUS
<1>12. /\ ds \in Seq(ObjClass) /\ Len(ds) = l + 1 /\ ds[l + 1] = class
       /\ \A d \in 1 .. l : ds[d] = classes[d]
  BY <1>0, <1>1, <1>7, <1>9, <1>10, AppendProperties
<1>13. /\ ty \in Seq(Seq(BodyMember)) /\ Len(ty) = l + 1 /\ ty[l + 1] = <<>>
       /\ \A d \in 1 .. l : ty[d] = text[d]
  <2>1. PICK empty : empty = <<>>
    OBVIOUS
  <2>2. PICK S : S = Seq(BodyMember)
    OBVIOUS
  <2>3. empty \in S /\ text \in Seq(S) /\ ty = Append(text, empty)
    BY <1>0, <1>11, <2>1, <2>2
  <2>4. /\ Append(text, empty) \in Seq(S) /\ Len(Append(text, empty)) = Len(text) + 1
        /\ Append(text, empty)[Len(text) + 1] = empty
        /\ \A d \in 1 .. Len(text) : Append(text, empty)[d] = text[d]
    BY <2>3, AppendProperties
  <2> QED BY <1>0, <1>1, <2>1, <2>2, <2>3, <2>4
<1>14. ASSUME NEW c \in 1 .. l
       PROVE  IsClass(ds, ty, c) /\ IsComplete(ds[c])
  <2>1. /\ c \in Nat /\ c > 0 /\ c \in 1 .. Latest /\ c \in 1 .. Len(classes)
    BY <1>0, <1>1
  <2>2. IsClass(classes, text, c) /\ IsComplete(classes[c])
    BY <1>0, <2>1 DEF ClassesInv, IsProgram
  <2>3. classes[c].superclass \in Nat /\ DOMAIN text[c] = 1 .. Len(text[c]) /\ Len(text[c]) \in Nat
    BY <1>0, <2>1, ProgramFacts
  <2>4. ASSUME NEW d \in 1 .. c PROVE SameClass(ds[d], classes[d])
    <3>1. ds[d] = classes[d]
      BY <1>12
    <3> QED BY <3>1 DEF SameClass
  <2>5. ty[c] = text[c] /\ ds[c] = classes[c]
    BY <1>12, <1>13
  <2>6. IsClass(ds, ty, c)
    BY <2>1, <2>2, <2>3, <2>4, <2>5, ClassKept
  <2> QED BY <2>2, <2>5, <2>6
<1>15. IsClass(ds, ty, l + 1)
  <2>1. DOMAIN ty[l + 1] = {}
    BY <1>13
  <2>2. superclass # 0 => ds[superclass] = classes[superclass]
    BY <1>0, <1>1, <1>12
  <2>3. IsOrdered(ds, ty, l + 1)
    BY <1>1, <1>9, <1>12, <2>1 DEF IsOrdered
  <2>4. ASSUME NEW n \in Names
        PROVE  /\ HasPublic(ds, ty, l + 1, n) /\ HasPrivate(ds, ty, l + 1, n)
               /\ HasAbstract(ds, ty, l + 1, n) /\ HasConstant(ds, ty, l + 1, n)
    <3>1. \A k : PlacesIn(ty, l + 1, k, n) = {}
      BY <2>1 DEF PlacesIn
    <3>2. Givers(ds, ty, l + 1, n) = {}
      BY <2>1, <3>1 DEF Givers, Uses
    <3>3. HasPublic(ds, ty, l + 1, n)
      BY <1>3, <1>9, <1>12, <2>2, <3>2 DEF HasPublic
    <3>4. HasPrivate(ds, ty, l + 1, n)
      BY <1>3, <1>9, <1>12, <3>1 DEF HasPrivate
    <3>5. HasAbstract(ds, ty, l + 1, n)
      BY <1>9, <1>12, <2>2, <3>1 DEF HasAbstract
    <3>6. HasConstant(ds, ty, l + 1, n)
      BY <3>1 DEF HasConstant
    <3> QED BY <3>3, <3>4, <3>5, <3>6
  <2> QED BY <2>3, <2>4 DEF IsClass
<1>16. IsProgram(ds, ty, TRUE)
  <2>1. \A c \in 1 .. Len(ds) : IsClass(ds, ty, c) /\ (c < Len(ds) => IsComplete(ds[c]))
    <3> TAKE c \in 1 .. Len(ds)
    <3>1. c \in 1 .. l \/ c = l + 1
      BY <1>12
    <3> QED BY <1>12, <1>14, <1>15, <3>1
  <2> QED BY <1>12, <1>13, <2>1 DEF IsProgram
<1>17. IsProgram(classes, text, isOpen)'
  BY <1>0, <1>10, <1>11, <1>16
<1>18. IsLooked(classes, isOpen, instance, written)'
  <2>1. Len(ds) > 0
    BY <1>12
  <2>2. NoInstance \in ObjInstance /\ written = Nothing
    BY <1>0 DEF ClassesInv, IsLooked
  <2>3. IsLooked(ds, TRUE, NoInstance, Nothing)
    BY <2>1, <2>2 DEF IsLooked
  <2> QED BY <1>0, <1>10, <2>2, <2>3
<1> QED BY <1>0, <1>17, <1>18 DEF ClassesInv

\* END_CLASS.
LEMMA EndClassKeeps == ASSUME ClassesInv, EndClass PROVE ClassesInv'
<1>0. /\ isOpen = TRUE /\ isOpen' = FALSE /\ knows' = {}
      /\ instance' = instance /\ written' = written
      /\ Latest \in Nat /\ text \in Seq(Seq(BodyMember)) /\ Len(text) = Latest
      /\ classes \in Seq(ObjClass) /\ Len(classes) = Latest
  BY DEF EndClass, ClassesInv, IsProgram, Latest
<1>1. instance = NoInstance /\ written = Nothing /\ Latest > 0 /\ instance \in ObjInstance
  BY <1>0 DEF ClassesInv, IsLooked
<1>2. \A c \in 1 .. Latest : /\ IsClass(classes, text, c)
                             /\ c < Latest => IsComplete(classes[c])
  BY <1>0 DEF ClassesInv, IsProgram
<1>3. PICK ds : ds = classes'
  OBVIOUS
<1>4. PICK ty : ty = text'
  OBVIOUS
<1>5. IsProgram(ds, ty, FALSE)
  <2>1. CASE UNCHANGED <<classes, text>> /\ IsComplete(classes[Latest])
    <3>1. \A c \in 1 .. Latest : c < Latest \/ c = Latest
      BY <1>0
    <3>2. \A c \in 1 .. Latest : IsComplete(classes[c])
      BY <1>2, <2>1, <3>1
    <3> QED BY <1>0, <1>2, <1>3, <1>4, <2>1, <3>2 DEF IsProgram
  <2>2. CASE /\ classes' = SubSeq(classes, 1, Latest - 1)
             /\ text' = SubSeq(text, 1, Latest - 1)
    <3>1. PICK l \in Nat : l = Latest - 1
      BY <1>0, <1>1
    <3>2. \A d \in 1 .. l : classes[d] \in ObjClass /\ text[d] \in Seq(BodyMember)
      BY <1>0, <3>1
    <3>3. /\ ds \in Seq(ObjClass) /\ Len(ds) = l
          /\ \A d \in 1 .. l : ds[d] = classes[d]
      <4>1. ds = SubSeq(classes, 1, l)
        BY <1>3, <2>2, <3>1
      <4>2. /\ SubSeq(classes, 1, l) \in Seq(ObjClass)
            /\ Len(SubSeq(classes, 1, l)) = IF 1 <= l THEN l - 1 + 1 ELSE 0
            /\ \A i \in 1 .. l - 1 + 1 : SubSeq(classes, 1, l)[i] = classes[1 + i - 1]
        BY <3>2, SubSeqProperties
      <4> QED BY <4>1, <4>2
    <3>4. /\ ty \in Seq(Seq(BodyMember)) /\ Len(ty) = l
          /\ \A d \in 1 .. l : ty[d] = text[d]
      <4>1. ty = SubSeq(text, 1, l)
        BY <1>4, <2>2, <3>1
      <4>2. PICK S : S = Seq(BodyMember)
        OBVIOUS
      <4>3. \A d \in 1 .. l : text[d] \in S
        BY <3>2, <4>2
      <4>4. /\ SubSeq(text, 1, l) \in Seq(S)
            /\ Len(SubSeq(text, 1, l)) = IF 1 <= l THEN l - 1 + 1 ELSE 0
            /\ \A i \in 1 .. l - 1 + 1 : SubSeq(text, 1, l)[i] = text[1 + i - 1]
        BY <4>3, SubSeqProperties
      <4> QED BY <4>1, <4>2, <4>4
    <3>5. ASSUME NEW c \in 1 .. l
          PROVE  IsClass(ds, ty, c) /\ IsComplete(ds[c])
      <4>1. c \in Nat /\ c > 0 /\ c \in 1 .. Latest /\ c < Latest
        BY <1>0, <3>1
      <4>2. IsClass(classes, text, c) /\ IsComplete(classes[c])
        BY <1>2, <4>1
      <4>3. classes[c].superclass \in Nat /\ DOMAIN text[c] = 1 .. Len(text[c]) /\ Len(text[c]) \in Nat
        BY <1>0, <4>1, ProgramFacts
      <4>4. ASSUME NEW d \in 1 .. c PROVE SameClass(ds[d], classes[d])
        <5>1. ds[d] = classes[d]
          BY <3>3
        <5> QED BY <5>1 DEF SameClass
      <4>5. ty[c] = text[c] /\ ds[c] = classes[c]
        BY <3>3, <3>4
      <4>6. IsClass(ds, ty, c)
        BY <4>1, <4>2, <4>3, <4>4, <4>5, ClassKept
      <4> QED BY <4>2, <4>5, <4>6
    <3> QED BY <3>3, <3>4, <3>5 DEF IsProgram
  <2>3. \/ UNCHANGED <<classes, text>> /\ IsComplete(classes[Latest])
        \/ /\ classes' = SubSeq(classes, 1, Latest - 1)
           /\ text' = SubSeq(text, 1, Latest - 1)
    BY DEF EndClass, IsComplete, Lacks, IsDefined
  <2> QED BY <2>1, <2>2, <2>3
<1>6. IsProgram(classes, text, isOpen)'
  BY <1>0, <1>3, <1>4, <1>5
<1>7. IsLooked(classes, isOpen, instance, written)'
  <2>1. IsLooked(ds, FALSE, NoInstance, Nothing)
    BY <1>1 DEF IsLooked
  <2> QED BY <1>0, <1>1, <1>3, <2>1
<1> QED BY <1>0, <1>6, <1>7 DEF ClassesInv

\* callValue.
LEMMA ConstructKeeps ==
  ASSUME ClassesInv, NEW c \in 1 .. Latest, Construct(c)
  PROVE  ClassesInv'
<1>1. /\ isOpen = FALSE /\ instance = NoInstance /\ classes[c].type = "default"
      /\ instance' = [NoInstance EXCEPT !.class = c]
      /\ UNCHANGED <<classes, text, isOpen, knows, written>>
  BY DEF Construct, ClassesInv
<1>2. Latest \in Nat /\ Latest = Len(classes) /\ written = Nothing /\ c \in Nat
  BY <1>1 DEF ClassesInv, IsProgram, IsLooked, Latest
<1>3. NoInstance \in ObjInstance
  BY <1>1 DEF ClassesInv, IsLooked
<1>4. instance' \in ObjInstance /\ instance'.class = c
  BY <1>1, <1>2, <1>3 DEF ObjInstance
<1>5. instance' # NoInstance
  BY <1>2, <1>4 DEF NoInstance
<1>6. IsLooked(classes, isOpen, instance, written)'
  BY <1>1, <1>2, <1>4, <1>5 DEF IsLooked
<1> QED BY <1>1, <1>6 DEF ClassesInv

\* SET_ATTRIBUTE and SET_PRIVATE_ATTRIBUTE.
LEMMA WriteKeeps == ASSUME ClassesInv, Write PROVE ClassesInv'
<1>1. instance # NoInstance /\ UNCHANGED <<classes, text, isOpen, knows>> /\ isOpen = FALSE
  BY DEF Write, ClassesInv, IsLooked
<1>2. PICK n \in Names, v \in Contents : SetAttribute(n, v) \/ SetPrivateAttribute(n, v)
  BY DEF Write, WriteThis
<1>3. PICK i : i = instance
  OBVIOUS
<1>4. /\ i \in ObjInstance /\ i # NoInstance
      /\ i.class \in 1 .. Len(classes) /\ classes[i.class].type = "default"
  BY <1>1, <1>3 DEF ClassesInv, IsLooked
<1>5. i.publicAttributes \in FieldTables /\ i.privateAttributes \in FieldTables /\ i.class \in Nat
  BY <1>4 DEF ObjInstance
<1>6. \A t \in FieldTables : [t EXCEPT ![n] = v] \in FieldTables /\ [t EXCEPT ![n] = v][n] = v
  BY <1>2 DEF FieldTables
<1>7. i.class > 0 /\ \A j : j.class = i.class => j # NoInstance
  BY <1>4 DEF NoInstance
<1>8. CASE SetAttribute(n, v)
  <2>1. PICK t : t = [i.publicAttributes EXCEPT ![n] = v]
    OBVIOUS
  <2>2. t \in FieldTables /\ t[n] = v
    BY <1>5, <1>6, <2>1
  <2>3. instance' = [i EXCEPT !.publicAttributes = t]
        /\ written' = [name |-> n, value |-> v, private |-> FALSE]
    BY <1>3, <1>8, <2>1 DEF SetAttribute
  <2>4. instance' \in ObjInstance /\ instance'.class = i.class /\ instance'.publicAttributes = t
    BY <1>4, <2>2, <2>3 DEF ObjInstance
  <2>5. /\ written' \in [name : Names, value : Contents, private : BOOLEAN]
        /\ written'.private = FALSE /\ written'.value = v /\ written'.name = n
    BY <1>2, <2>3
  <2>6. IsLooked(classes, isOpen, instance, written)'
    BY <1>1, <1>4, <1>7, <2>2, <2>4, <2>5 DEF IsLooked
  <2> QED BY <1>1, <2>6 DEF ClassesInv
<1>9. CASE SetPrivateAttribute(n, v)
  <2>1. PICK t : t = [i.privateAttributes EXCEPT ![n] = v]
    OBVIOUS
  <2>2. t \in FieldTables /\ t[n] = v
    BY <1>5, <1>6, <2>1
  <2>3. instance' = [i EXCEPT !.privateAttributes = t]
        /\ written' = [name |-> n, value |-> v, private |-> TRUE]
    BY <1>3, <1>9, <2>1 DEF SetPrivateAttribute
  <2>4. instance' \in ObjInstance /\ instance'.class = i.class /\ instance'.privateAttributes = t
    BY <1>4, <2>2, <2>3 DEF ObjInstance
  <2>5. /\ written' \in [name : Names, value : Contents, private : BOOLEAN]
        /\ written'.private = TRUE /\ written'.value = v /\ written'.name = n
    BY <1>2, <2>3
  <2>6. IsLooked(classes, isOpen, instance, written)'
    BY <1>1, <1>4, <1>7, <2>2, <2>4, <2>5 DEF IsLooked
  <2> QED BY <1>1, <2>6 DEF ClassesInv
<1> QED BY <1>2, <1>8, <1>9

\* What SET_ATTRIBUTE on a class leaves as it is.
LEMMA SetClassAttributeFacts ==
  ASSUME ClassesInv, NEW c \in 1 .. Latest, NEW n \in Names, NEW v \in Contents, SetClassAttribute(c, n, v)
  PROVE  /\ classes' \in Seq(ObjClass) /\ Len(classes') = Latest
         /\ \A d \in 1 .. Latest : SameClass(classes'[d], classes[d])
         /\ \A d \in 1 .. Latest : classes'[d].variables =
              IF d = c THEN [classes[c].variables EXCEPT ![n] = v] ELSE classes[d].variables
<1>1. /\ classes \in Seq(ObjClass) /\ Latest = Len(classes) /\ Latest \in Nat
      /\ c \in 1 .. Len(classes) /\ classes[c] \in ObjClass
  BY ProgramFacts DEF ClassesInv, IsProgram, Latest
<1>2. PICK t : t = [classes[c].variables EXCEPT ![n] = v]
  OBVIOUS
<1>3. t \in FieldTables
  BY <1>1, <1>2 DEF ObjClass, FieldTables
<1>4. PICK class : class = [classes[c] EXCEPT !.variables = t]
  OBVIOUS
<1>5. /\ class \in ObjClass /\ class.variables = t /\ class.type = classes[c].type
      /\ class.superclass = classes[c].superclass
      /\ class.publicMethods = classes[c].publicMethods
      /\ class.privateMethods = classes[c].privateMethods
      /\ class.abstractMethods = classes[c].abstractMethods /\ class.constants = classes[c].constants
  BY <1>1, <1>3, <1>4 DEF ObjClass
<1>6. classes' = [classes EXCEPT ![c] = class]
  BY <1>2, <1>4 DEF SetClassAttribute
<1>7. /\ classes' \in Seq(ObjClass) /\ Len(classes') = Len(classes)
      /\ \A d \in 1 .. Len(classes) : classes'[d] = IF d = c THEN class ELSE classes[d]
  BY <1>1, <1>5, <1>6, ExceptSeq
<1>8. ASSUME NEW d \in 1 .. Latest
      PROVE  SameClass(classes'[d], classes[d])
  <2>1. (classes'[d] = class /\ d = c) \/ classes'[d] = classes[d]
    BY <1>1, <1>7
  <2> QED BY <1>5, <2>1 DEF SameClass
<1>9. ASSUME NEW d \in 1 .. Latest
      PROVE  classes'[d].variables = IF d = c THEN [classes[c].variables EXCEPT ![n] = v]
                                              ELSE classes[d].variables
  BY <1>1, <1>2, <1>5, <1>7
<1> QED BY <1>1, <1>7, <1>8, <1>9

\* SET_ATTRIBUTE on a class.
LEMMA SetClassAttributeKeeps ==
  ASSUME ClassesInv, NEW c \in 1 .. Latest, NEW n \in Names, NEW v \in Contents, SetClassAttribute(c, n, v)
  PROVE  ClassesInv'
<1>1. /\ classes' \in Seq(ObjClass) /\ Len(classes') = Latest
      /\ \A d \in 1 .. Latest : SameClass(classes'[d], classes[d])
  BY SetClassAttributeFacts
<1>2. /\ instance # NoInstance /\ isOpen = FALSE /\ Latest = Len(classes) /\ Latest \in Nat
      /\ UNCHANGED <<text, isOpen, knows, instance, written>>
  BY DEF SetClassAttribute, ClassesInv, IsLooked, IsProgram, Latest
<1>3. PICK ds : ds = classes'
  OBVIOUS
<1>4. ASSUME NEW d \in 1 .. Latest
      PROVE  IsClass(ds, text, d) /\ IsComplete(ds[d])
  <2>1. IsClass(classes, text, d) /\ IsComplete(classes[d])
    BY <1>2 DEF ClassesInv, IsProgram
  <2>2. d \in Nat /\ d > 0 /\ classes[d].superclass \in Nat
        /\ DOMAIN text[d] = 1 .. Len(text[d]) /\ Len(text[d]) \in Nat
    BY <1>2, ProgramFacts
  <2>3. \A e \in 1 .. d : SameClass(ds[e], classes[e])
    BY <1>1, <1>2, <1>3
  <2>4. IsClass(ds, text, d)
    BY <2>1, <2>2, <2>3, ClassKept
  <2>5. SameClass(ds[d], classes[d])
    BY <1>1, <1>3
  <2>6. IsComplete(ds[d])
    BY <2>1, <2>5 DEF IsComplete, SameClass
  <2> QED BY <2>4, <2>6
<1>5. IsProgram(ds, text, FALSE)
  BY <1>1, <1>2, <1>3, <1>4 DEF IsProgram, ClassesInv
<1>6. IsLooked(classes, isOpen, instance, written)'
  <2>1. instance.class \in 1 .. Latest /\ classes[instance.class].type = "default"
    BY <1>2 DEF ClassesInv, IsLooked
  <2>2. ds[instance.class].type = "default"
    BY <1>1, <1>3, <2>1 DEF SameClass
  <2>3. IsLooked(ds, FALSE, instance, written)
    BY <1>1, <1>2, <1>3, <2>1, <2>2 DEF ClassesInv, IsLooked
  <2> QED BY <1>2, <1>3, <2>3
<1>7. IsProgram(classes, text, isOpen)'
  BY <1>2, <1>3, <1>5
<1> QED BY <1>2, <1>6, <1>7 DEF ClassesInv

\* At first there is nothing.
LEMMA ClassesInitHolds == ClassesInit => ClassesInv
<1> SUFFICES ASSUME ClassesInit PROVE ClassesInv
  OBVIOUS
<1>1. classes = <<>> /\ text = <<>> /\ isOpen = FALSE /\ knows = {}
      /\ instance = NoInstance /\ written = Nothing
  BY DEF ClassesInit
<1>2. IsProgram(classes, text, isOpen)
  <2>1. classes \in Seq(ObjClass) /\ text \in Seq(Seq(BodyMember)) /\ Len(classes) = 0 /\ Len(text) = 0
    BY <1>1
  <2> QED BY <2>1 DEF IsProgram
<1>3. NoInstance \in ObjInstance
  BY DEF NoInstance, ObjInstance, Blank, FieldTables
<1>4. IsLooked(classes, isOpen, instance, written)
  BY <1>1, <1>3 DEF IsLooked
<1> QED BY <1>1, <1>2, <1>4 DEF ClassesInv

\* Every step keeps the invariant.
LEMMA ClassesInductive == ClassesInv /\ [ClassesNext]_classesVars => ClassesInv'
<1> SUFFICES ASSUME ClassesInv, [ClassesNext]_classesVars PROVE ClassesInv'
  OBVIOUS
<1>1. ASSUME NEW type \in Types, NEW superclass \in 0 .. Latest, CreateClass(type, superclass)
      PROVE  ClassesInv'
  BY <1>1, CreateClassKeeps
<1>2. ASSUME NEW n \in Names, NEW access \in {"public", "private", "abstract"}, DefineMethod(n, access)
      PROVE  ClassesInv'
  BY <1>2, DefineMethodKeeps
<1>3. ASSUME NEW n \in Names, DeclarePrivate(n) PROVE ClassesInv'
  BY <1>3, DeclarePrivateKeeps
<1>4. ASSUME NEW n \in Names, NEW constant \in BOOLEAN, NEW v \in Contents, SetClassVar(n, constant, v)
      PROVE  ClassesInv'
  BY <1>4, SetClassVarKeeps
<1>5. ASSUME NEW t \in 1 .. Latest - 1, Use(t) PROVE ClassesInv'
  BY <1>5, UseKeeps
<1>6. CASE EndClass
  BY <1>6, EndClassKeeps
<1>7. ASSUME NEW c \in 1 .. Latest, Construct(c) PROVE ClassesInv'
  BY <1>7, ConstructKeeps
<1>8. CASE Write
  BY <1>8, WriteKeeps
<1>9. ASSUME NEW c \in 1 .. Latest, NEW n \in Names, NEW v \in Contents, SetClassAttribute(c, n, v)
      PROVE  ClassesInv'
  BY <1>9, SetClassAttributeKeeps
<1>10. CASE UNCHANGED classesVars
  BY <1>10 DEF classesVars, ClassesInv
<1> QED BY <1>1, <1>2, <1>3, <1>4, <1>5, <1>6, <1>7, <1>8, <1>9, <1>10 DEF ClassesNext

\* The inductive invariant: the tables of a class say what its body and the tables
\* of its superclass and traits say.
THEOREM ClassesInvariance == ClassesSpec => []ClassesInv
<1> QED BY ClassesInitHolds, ClassesInductive, PTL DEF ClassesSpec

----------------------------------------------------------------------------
(* A class and its superclasses. *)

IsLine(f, c, cs) ==
  f = [d \in 0 .. c |-> IF d = 0 THEN <<>> ELSE <<d>> \o f[cs[d].superclass]]

ChainOf(cs, c) == (CHOOSE f : IsLine(f, c, cs))[c]

\* Every superclass comes before its class.
IsLineage(cs, top) == top \in Nat /\ \A d \in 1 .. top : cs[d].superclass \in 0 .. d - 1

IsDescent(s, c) ==
  /\ s \in Seq(1 .. c)
  /\ \A i, j \in 1 .. Len(s) : i < j => s[j] < s[i]

\* The superclasses of a class can be gone through.
LEMMA LineExists ==
  ASSUME NEW cs, NEW top, IsLineage(cs, top)
  PROVE  \A c \in 0 .. top : \E f : IsLine(f, c, cs)
<1> DEFINE S == {c \in 0 .. top : \E f : IsLine(f, c, cs)}
<1>0. top \in Nat
  BY DEF IsLineage
<1>1. ASSUME NEW c \in 0 .. top, \A d \in 0 .. c - 1 : d \in S
      PROVE  c \in S
  <2>1. CASE c = 0
    <3>1. PICK f : f = [d \in 0 .. c |-> <<>>]
      OBVIOUS
    <3>2. \A d \in 0 .. c : d = 0
      BY <2>1
    <3>3. f = [d \in 0 .. c |-> IF d = 0 THEN <<>> ELSE <<d>> \o f[cs[d].superclass]]
      BY <3>1, <3>2
    <3> QED BY <3>3 DEF IsLine
  <2>2. CASE c # 0
    <3>1. c - 1 \in S /\ c \in 1 .. top
      BY <1>1, <2>2
    <3>2. PICK f : IsLine(f, c - 1, cs)
      BY <3>1
    <3>3. PICK g : g = [d \in 0 .. c |-> IF d = c THEN <<c>> \o f[cs[c].superclass] ELSE f[d]]
      OBVIOUS
    <3>4. \A d \in 1 .. top : cs[d].superclass \in 0 .. d - 1
      BY DEF IsLineage
    <3>5. \A d \in 0 .. c - 1 : g[d] = f[d] /\ d \in 0 .. c
      BY <3>1, <3>3
    <3>6. g[c] = <<c>> \o f[cs[c].superclass] /\ c \in 0 .. c
      BY <3>1, <3>3
    <3>7. ASSUME NEW d \in 0 .. c
          PROVE  g[d] = IF d = 0 THEN <<>> ELSE <<d>> \o g[cs[d].superclass]
      <4>1. CASE d = c
        <5>1. cs[c].superclass \in 0 .. c - 1
          BY <3>1, <3>4
        <5> QED BY <2>2, <3>5, <3>6, <4>1, <5>1
      <4>2. CASE d # c
        <5>1. d \in 0 .. c - 1
          BY <3>1, <4>2
        <5>2. f[d] = IF d = 0 THEN <<>> ELSE <<d>> \o f[cs[d].superclass]
          BY <3>2, <5>1 DEF IsLine
        <5>3. d # 0 => cs[d].superclass \in 0 .. c - 1
          BY <1>0, <3>1, <3>4, <5>1
        <5> QED BY <3>5, <5>1, <5>2, <5>3
      <4> QED BY <4>1, <4>2
    <3>8. g = [d \in 0 .. c |-> g[d]]
      BY <3>3
    <3>9. g = [d \in 0 .. c |-> IF d = 0 THEN <<>> ELSE <<d>> \o g[cs[d].superclass]]
      BY <3>7, <3>8, Zenon
    <3> QED BY <3>9 DEF IsLine
  <2> QED BY <2>1, <2>2
<1>2. \A c \in 0 .. top : c \in S
  <2> HIDE DEF S
  <2> QED BY <1>0, <1>1, Induction
<1> QED BY <1>2

\* And in one way only.
LEMMA LinesAgree ==
  ASSUME NEW cs, NEW ds, NEW top, IsLineage(cs, top),
         \A d \in 1 .. top : ds[d].superclass = cs[d].superclass,
         NEW c \in 0 .. top, NEW e \in 0 .. top, NEW f, NEW g, IsLine(f, c, cs), IsLine(g, e, ds)
  PROVE  \A d \in 0 .. top : d <= c /\ d <= e => f[d] = g[d]
<1> DEFINE S == {d \in 0 .. top : d <= c /\ d <= e => f[d] = g[d]}
<1>0. top \in Nat /\ \A d \in 1 .. top : cs[d].superclass \in 0 .. d - 1
  BY DEF IsLineage
<1>1. ASSUME NEW d \in 0 .. top, \A b \in 0 .. d - 1 : b \in S
      PROVE  d \in S
  <2> SUFFICES ASSUME d <= c, d <= e PROVE f[d] = g[d]
    OBVIOUS
  <2>1. d \in 0 .. c /\ d \in 0 .. e
    BY <1>0
  <2>2. /\ f[d] = IF d = 0 THEN <<>> ELSE <<d>> \o f[cs[d].superclass]
        /\ g[d] = IF d = 0 THEN <<>> ELSE <<d>> \o g[ds[d].superclass]
    BY <2>1 DEF IsLine
  <2>3. CASE d = 0
    BY <2>2, <2>3
  <2>4. CASE d # 0
    <3>1. PICK b : b = cs[d].superclass
      OBVIOUS
    <3>2. b \in 0 .. d - 1 /\ ds[d].superclass = b
      BY <1>0, <2>4, <3>1
    <3>3. b \in S /\ b <= c /\ b <= e
      BY <1>0, <1>1, <3>2
    <3>4. f[b] = g[b]
      BY <3>3
    <3> QED BY <2>2, <2>4, <3>1, <3>2, <3>4
  <2> QED BY <2>3, <2>4
<1>2. \A d \in 0 .. top : d \in S
  <2> HIDE DEF S
  <2> QED BY <1>0, <1>1, Induction
<1> QED BY <1>2

\* The same superclasses make the same chain.
LEMMA ChainsAgree ==
  ASSUME NEW cs, NEW ds, NEW top, IsLineage(cs, top),
         \A d \in 1 .. top : ds[d].superclass = cs[d].superclass,
         NEW c \in 0 .. top
  PROVE  ChainOf(ds, c) = ChainOf(cs, c)
<1>1. IsLineage(ds, top) /\ top \in Nat
  BY DEF IsLineage
<1>2. (\E f : IsLine(f, c, cs)) /\ (\E g : IsLine(g, c, ds))
  BY <1>1, LineExists
<1>3. PICK f : f = CHOOSE h : IsLine(h, c, cs)
  OBVIOUS
<1>4. PICK g : g = CHOOSE h : IsLine(h, c, ds)
  OBVIOUS
<1>5. IsLine(f, c, cs)
  BY <1>2, <1>3, Zenon
<1>6. IsLine(g, c, ds)
  BY <1>2, <1>4, Zenon
<1>7. f[c] = g[c]
  <2>1. \A d \in 0 .. top : d <= c /\ d <= c => f[d] = g[d]
    BY <1>5, <1>6, LinesAgree
  <2> QED BY <1>1, <2>1
<1> QED BY <1>3, <1>4, <1>7 DEF ChainOf

\* A chain begins with its class and goes on as that of the superclass.
LEMMA ChainUnfolds ==
  ASSUME NEW cs, NEW top, IsLineage(cs, top)
  PROVE  /\ ChainOf(cs, 0) = <<>>
         /\ \A c \in 1 .. top : ChainOf(cs, c) = <<c>> \o ChainOf(cs, cs[c].superclass)
<1>0. top \in Nat /\ \A d \in 1 .. top : cs[d].superclass \in 0 .. d - 1
  BY DEF IsLineage
<1>1. \A c \in 0 .. top : IsLine(CHOOSE f : IsLine(f, c, cs), c, cs)
  BY LineExists, Zenon
<1>2. ChainOf(cs, 0) = <<>>
  <2>1. PICK f : f = CHOOSE h : IsLine(h, 0, cs)
    OBVIOUS
  <2>2. IsLine(f, 0, cs)
    BY <1>0, <1>1, <2>1
  <2> QED BY <2>1, <2>2 DEF ChainOf, IsLine
<1>3. ASSUME NEW c \in 1 .. top
      PROVE  ChainOf(cs, c) = <<c>> \o ChainOf(cs, cs[c].superclass)
  <2>1. PICK f : f = CHOOSE h : IsLine(h, c, cs)
    OBVIOUS
  <2>2. PICK b : b = cs[c].superclass
    OBVIOUS
  <2>3. PICK g : g = CHOOSE h : IsLine(h, b, cs)
    OBVIOUS
  <2>4. c \in 0 .. top /\ b \in 0 .. top /\ b \in 0 .. c - 1 /\ c \in 0 .. c /\ c # 0 /\ b <= c
    BY <1>0, <2>2
  <2>5. IsLine(f, c, cs)
    BY <1>1, <2>1, <2>4
  <2>6. IsLine(g, b, cs)
    BY <1>1, <2>3, <2>4
  <2>7. f[c] = <<c>> \o f[b]
    BY <2>2, <2>4, <2>5 DEF IsLine
  <2>8. f[b] = g[b]
    <3>1. \A d \in 0 .. top : d <= c /\ d <= b => f[d] = g[d]
      BY <2>4, <2>5, <2>6, LinesAgree
    <3> QED BY <1>0, <2>4, <3>1
  <2> QED BY <2>1, <2>2, <2>3, <2>7, <2>8 DEF ChainOf
<1> QED BY <1>2, <1>3

\* It goes down to earlier and earlier classes.
LEMMA ChainDescends ==
  ASSUME NEW cs, NEW top, IsLineage(cs, top)
  PROVE  \A c \in 0 .. top : IsDescent(ChainOf(cs, c), c)
<1> DEFINE S == {c \in 0 .. top : IsDescent(ChainOf(cs, c), c)}
<1>0. top \in Nat /\ \A d \in 1 .. top : cs[d].superclass \in 0 .. d - 1
  BY DEF IsLineage
<1>1. ASSUME NEW c \in 0 .. top, \A d \in 0 .. c - 1 : d \in S
      PROVE  c \in S
  <2>1. CASE c = 0
    <3>1. ChainOf(cs, c) = <<>>
      BY <2>1, ChainUnfolds
    <3>2. PICK s : s = ChainOf(cs, c)
      OBVIOUS
    <3>3. s \in Seq(1 .. c) /\ Len(s) = 0
      BY <3>1, <3>2
    <3>4. IsDescent(s, c)
      BY <3>3 DEF IsDescent
    <3> QED BY <3>2, <3>4
  <2>2. CASE c # 0
    <3>1. PICK b : b = cs[c].superclass
      OBVIOUS
    <3>2. b \in 0 .. c - 1 /\ c \in 1 .. top
      BY <1>0, <2>2, <3>1
    <3>3. PICK r : r = ChainOf(cs, b)
      OBVIOUS
    <3>4. IsDescent(r, b)
      BY <1>1, <3>2, <3>3
    <3>5. PICK s : s = ChainOf(cs, c)
      OBVIOUS
    <3>6. s = <<c>> \o r
      BY <3>1, <3>2, <3>3, <3>5, ChainUnfolds
    <3>7. r \in Seq(1 .. c) /\ <<c>> \in Seq(1 .. c) /\ r \in Seq(1 .. b)
      <4>1. 1 .. b \subseteq 1 .. c /\ c \in 1 .. c
        BY <3>2
      <4>2. r \in Seq(1 .. b)
        BY <3>4 DEF IsDescent
      <4>3. r \in Seq(1 .. c)
        BY <4>1, <4>2, SeqMonotonic
      <4> QED BY <4>1, <4>2, <4>3
    <3>8. /\ s \in Seq(1 .. c) /\ Len(s) = Len(r) + 1 /\ Len(r) \in Nat
          /\ \A i \in 1 .. Len(r) + 1 : s[i] = IF i = 1 THEN c ELSE r[i - 1]
      BY <3>6, <3>7
    <3>9. ASSUME NEW i \in 1 .. Len(s), NEW j \in 1 .. Len(s), i < j
          PROVE  s[j] < s[i]
      <4>1. j - 1 \in 1 .. Len(r) /\ s[j] = r[j - 1]
        BY <3>8, <3>9
      <4>2. r[j - 1] \in 1 .. b
        BY <3>7, <4>1, ElementOfSeq
      <4>3. CASE i = 1
        BY <3>2, <3>8, <4>1, <4>2, <4>3
      <4>4. CASE i # 1
        <5>1. i - 1 \in 1 .. Len(r) /\ s[i] = r[i - 1] /\ i - 1 < j - 1
          BY <3>8, <3>9, <4>4
        <5> QED BY <3>4, <4>1, <5>1 DEF IsDescent
      <4> QED BY <4>3, <4>4
    <3>10. IsDescent(s, c)
      BY <3>8, <3>9 DEF IsDescent
    <3> QED BY <3>5, <3>10
  <2> QED BY <2>1, <2>2
<1>2. \A c \in 0 .. top : c \in S
  <2> HIDE DEF S
  <2> QED BY <1>0, <1>1, Induction
<1> QED BY <1>2

\* So it is with the classes of a program.
LEMMA ChainFacts ==
  ASSUME ClassesInv
  PROVE  /\ IsLineage(classes, Latest)
         /\ Chain(0) = <<>>
         /\ \A c \in 1 .. Latest : Chain(c) = <<c>> \o Chain(classes[c].superclass)
         /\ \A c \in 0 .. Latest : IsDescent(Chain(c), c)
         /\ \A c : Chain(c) = ChainOf(classes, c)
<1>1. IsLineage(classes, Latest)
  <2>1. Latest \in Nat
    BY DEF ClassesInv, IsProgram, Latest
  <2>2. \A d \in 1 .. Latest : classes[d].superclass \in 0 .. d - 1
    BY ProgramFacts
  <2> QED BY <2>1, <2>2 DEF IsLineage
<1>2. \A c : Chain(c) = ChainOf(classes, c)
  BY Zenon DEF Chain, ChainOf, IsLine
<1>3. /\ ChainOf(classes, 0) = <<>>
      /\ \A c \in 1 .. Latest : ChainOf(classes, c) = <<c>> \o ChainOf(classes, classes[c].superclass)
  BY <1>1, ChainUnfolds
<1>4. \A c \in 0 .. Latest : IsDescent(ChainOf(classes, c), c)
  BY <1>1, ChainDescends
<1> QED BY <1>1, <1>2, <1>3, <1>4

----------------------------------------------------------------------------
(* What the properties say. *)

\* The class an instance has, and its tables.
LEMMA InstanceFacts ==
  ASSUME ClassesInv, instance # NoInstance
  PROVE  /\ isOpen = FALSE /\ instance.class \in 1 .. Latest /\ Latest \in Nat
         /\ Class \in ObjClass /\ Class.type = "default"
         /\ instance.publicAttributes \in FieldTables /\ instance.privateAttributes \in FieldTables
<1>1. instance.class \in 1 .. Latest /\ Class.type = "default" /\ isOpen = FALSE
      /\ instance \in ObjInstance
  BY DEF ClassesInv, IsLooked, Latest, Class
<1>2. Class \in ObjClass /\ Latest \in Nat
  BY <1>1, ProgramFacts DEF Class
<1> QED BY <1>1, <1>2 DEF ObjInstance

\* The types of the tables.
LEMMA TypesHold == ClassesInv => ClassesTypeOK
<1> SUFFICES ASSUME ClassesInv PROVE ClassesTypeOK
  OBVIOUS
<1>1. /\ Len(text) = Latest /\ isOpen \in BOOLEAN /\ knows \subseteq Names
      /\ classes \in Seq(ObjClass) /\ DOMAIN classes = 1 .. Latest /\ Latest \in Nat
  BY DEF ClassesInv, IsProgram, Latest
<1>2. ASSUME NEW c \in DOMAIN classes
      PROVE  LET class   == classes[c]
                 methods == [class: 1 .. c, at: 1 .. MaxMembers, knows: SUBSET Names] \cup {Undefined}
                 fields  == Contents \cup {Undefined}
             IN /\ class.type \in Types /\ class.superclass \in 0 .. c - 1
                /\ class.publicMethods \in [Names -> methods]
                /\ class.privateMethods \in [Names -> methods]
                /\ class.abstractMethods \in [Names -> methods]
                /\ class.constants \in [Names -> fields] /\ class.variables \in [Names -> fields]
  <2>1. c \in 1 .. Latest
    BY <1>1
  <2>2. classes[c] \in ObjClass /\ IsOrdered(classes, text, c) /\ classes[c].superclass \in 0 .. c - 1
    BY <2>1, ProgramFacts DEF IsClass
  <2> QED BY <2>2 DEF IsOrdered, OwnMethods, ObjClass, FieldTables
<1>3. instance.class \in 0 .. Latest
  <2>1. CASE instance = NoInstance
    BY <1>1, <2>1 DEF NoInstance
  <2>2. CASE instance # NoInstance
    BY <2>2, InstanceFacts
  <2> QED BY <2>1, <2>2
<1> QED BY <1>1, <1>2, <1>3 DEF ClassesTypeOK

\* Every call finds the method that the text gives it.
LEMMA CallsResolve == ClassesInv => MethodsResolve
<1> SUFFICES ASSUME ClassesInv PROVE MethodsResolve
  OBVIOUS
<1>1. \A c \in 1 .. Latest, n \in Names : Meaning[c][n] = Place(classes[c].publicMethods[n])
  BY TablesMean
<1>2. \A c \in 1 .. Latest, n \in Names : classes[c].publicMethods[n] \in Methods \cup {Undefined}
  <2> TAKE c \in 1 .. Latest, n \in Names
  <2>1. classes[c] \in ObjClass
    BY ProgramFacts
  <2> QED BY <2>1 DEF ObjClass, MethodTables
<1>3. ASSUME NEW c \in 1 .. Latest, NEW n \in Names
      PROVE  /\ Place(classes[c].publicMethods[n]) = Meaning[c][n]
             /\ classes[c].superclass # 0 => Place(Super(c, n)) = Meaning[classes[c].superclass][n]
  <2>1. classes[c].superclass # 0 => classes[c].superclass \in 1 .. Latest
    BY ProgramFacts
  <2> QED BY <1>1, <2>1 DEF Super
<1>4. ASSUME instance # NoInstance, NEW n \in Names
      PROVE  LET c       == instance.class
                 meant   == Meaning[c][n]
                 helpers == Places(c, "private", n)
             IN /\ meant # Undefined => Place(Invoke(n)) = meant
                /\ meant # Undefined /\ ~ IsDefined(instance.publicAttributes, n) =>
                     Place(GetAttribute(n)) = meant
                /\ IF helpers # {} THEN Place(InvokeInternal(n)) = <<c, Last(helpers)>>
                   ELSE InvokeInternal(n) = Invoke(n)
  <2>1. PICK c : c = instance.class
    OBVIOUS
  <2>2. c \in 1 .. Latest /\ Class = classes[c]
    BY <1>4, <2>1, InstanceFacts DEF Class
  <2>3. PICK method : method = classes[c].publicMethods[n]
    OBVIOUS
  <2>4. Meaning[c][n] = Place(method) /\ method \in Methods \cup {Undefined}
    BY <1>1, <1>2, <2>2, <2>3
  <2>5. Meaning[c][n] # Undefined => method # Undefined
    BY <2>4, PlaceFacts
  <2>6. Meaning[c][n] # Undefined => Place(Invoke(n)) = Meaning[c][n]
    BY <2>2, <2>3, <2>4, <2>5 DEF Invoke, IsDefined
  <2>7. Meaning[c][n] # Undefined /\ ~ IsDefined(instance.publicAttributes, n) =>
          Place(GetAttribute(n)) = Meaning[c][n]
    BY <2>2, <2>3, <2>4, <2>5 DEF GetAttribute, IsDefined
  <2>8. HasPrivate(classes, text, c, n) /\ PlacesIn(text, c, "private", n) = Places(c, "private", n)
    BY <2>2, ProgramFacts DEF IsClass, PlacesIn, Places
  <2>9. IF Places(c, "private", n) # {}
        THEN Place(InvokeInternal(n)) = <<c, Last(Places(c, "private", n))>>
        ELSE InvokeInternal(n) = Invoke(n)
    BY <2>2, <2>8 DEF HasPrivate, InvokeInternal, IsDefined
  <2> QED BY <2>1, <2>6, <2>7, <2>9
<1> QED BY <1>3, <1>4 DEF MethodsResolve

\* What is abstract up the superclasses is remembered.
LEMMA AbstractRemembered ==
  ASSUME ClassesInv, NEW n \in Names
  PROVE  \A c \in 1 .. Latest : \A i \in DOMAIN Chain(c) :
           Places(Chain(c)[i], "abstract", n) # {} => classes[c].abstractMethods[n] # Undefined
<1> DEFINE S == {c \in 0 .. Latest : \A i \in DOMAIN Chain(c) :
                   Places(Chain(c)[i], "abstract", n) # {} => classes[c].abstractMethods[n] # Undefined}
<1>0. Latest \in Nat
  BY DEF ClassesInv, IsProgram, Latest
<1>1. ASSUME NEW c \in 0 .. Latest, \A d \in 0 .. c - 1 : d \in S
      PROVE  c \in S
  <2>1. CASE c = 0
    <3>1. DOMAIN Chain(c) = {}
      BY <2>1, ChainFacts
    <3> QED BY <3>1
  <2>2. CASE c # 0
    <3>1. c \in 1 .. Latest
      BY <2>2
    <3>2. PICK b : b = classes[c].superclass
      OBVIOUS
    <3>3. b \in 0 .. c - 1 /\ b \in 0 .. Latest
      BY <3>1, <3>2, ProgramFacts
    <3>4. HasAbstract(classes, text, c, n)
      BY <3>1, ProgramFacts DEF IsClass
    <3>5. PICK r : r = Chain(b)
      OBVIOUS
    <3>6. PICK s : s = Chain(c)
      OBVIOUS
    <3>7. s = <<c>> \o r
      BY <3>1, <3>2, <3>5, <3>6, ChainFacts
    <3>8. r \in Seq(1 .. b)
      BY <3>3, <3>5, ChainFacts DEF IsDescent
    <3>9. DOMAIN s = 1 .. Len(r) + 1 /\ Len(r) \in Nat /\ DOMAIN r = 1 .. Len(r)
          /\ \A i \in 1 .. Len(r) + 1 : s[i] = IF i = 1 THEN c ELSE r[i - 1]
      BY <3>7, <3>8
    <3>10. ASSUME NEW i \in DOMAIN s, Places(s[i], "abstract", n) # {}
           PROVE  classes[c].abstractMethods[n] # Undefined
      <4>1. CASE i = 1
        <5>1. s[i] = c
          BY <3>9, <4>1
        <5>2. PlacesIn(text, c, "abstract", n) # {}
          BY <3>10, <5>1 DEF Places, PlacesIn
        <5> QED BY <3>4, <5>2 DEF HasAbstract
      <4>2. CASE i # 1
        <5>1. i - 1 \in DOMAIN r /\ s[i] = r[i - 1]
          BY <3>9, <4>2
        <5>2. b # 0
          <6>1. r[i - 1] \in 1 .. b
            BY <3>8, <3>9, <5>1, ElementOfSeq
          <6> QED BY <6>1
        <5>3. classes[b].abstractMethods[n] # Undefined
          <6>1. b \in S
            BY <1>1, <3>3
          <6> QED BY <3>5, <3>10, <5>1, <6>1
        <5> QED BY <3>2, <3>4, <5>2, <5>3 DEF HasAbstract
      <4> QED BY <4>1, <4>2
    <3> QED BY <3>6, <3>10
  <2> QED BY <2>1, <2>2
<1>2. \A c \in 0 .. Latest : c \in S
  <2> HIDE DEF S
  <2> QED BY <1>0, <1>1, Induction
<1> QED BY <1>2

\* An instance has every method that is abstract above it.
LEMMA PromisesKept == ClassesInv => Instantiable
<1> SUFFICES ASSUME ClassesInv, instance # NoInstance,
                    NEW i \in DOMAIN Chain(instance.class), NEW n \in Names,
                    Places(Chain(instance.class)[i], "abstract", n) # {}
             PROVE  Meaning[instance.class][n] # Undefined
  BY InstanceFacts DEF Instantiable
<1>1. PICK c : c = instance.class
  OBVIOUS
<1>2. c \in 1 .. Latest /\ classes[c].type = "default" /\ isOpen = FALSE
  BY <1>1, InstanceFacts DEF Class
<1>3. classes[c].abstractMethods[n] # Undefined
  BY <1>1, <1>2, AbstractRemembered
<1>4. classes[c].superclass # 0
  <2> SUFFICES ASSUME classes[c].superclass = 0 PROVE FALSE
    OBVIOUS
  <2>1. Chain(c) = <<c>> \o Chain(0) /\ Chain(0) = <<>>
    BY <1>2, ChainFacts
  <2>2. Chain(c) = <<c>>
    <3>1. PICK s : s = <<c>>
      OBVIOUS
    <3>2. s \in Seq(Nat)
      BY <1>2, <3>1, InstanceFacts
    <3>3. s \o <<>> = s
      BY <3>2, ConcatEmptySeq
    <3> QED BY <2>1, <3>1, <3>3
  <2>3. Chain(c)[i] = c
    BY <1>1, <2>2
  <2>4. PlacesIn(text, c, "abstract", n) # {}
    BY <1>1, <2>3 DEF Places, PlacesIn
  <2>5. HasAbstract(classes, text, c, n)
    BY <1>2, ProgramFacts DEF IsClass
  <2> QED BY <1>2, <2>4, <2>5 DEF HasAbstract
<1>5. IsComplete(classes[c])
  BY <1>2 DEF ClassesInv, IsProgram, Latest
<1>6. classes[c].publicMethods[n] # Undefined
  BY <1>2, <1>3, <1>4, <1>5 DEF IsComplete
<1>7. classes[c].publicMethods[n] \in Methods \cup {Undefined}
  <2>1. classes[c] \in ObjClass
    BY <1>2, ProgramFacts
  <2> QED BY <2>1 DEF ObjClass, MethodTables
<1>8. Place(classes[c].publicMethods[n]) # Undefined
  BY <1>6, <1>7, PlaceFacts
<1> QED BY <1>1, <1>2, <1>8, TablesMean

\* What was written is in its table.
LEMMA WrittenIsRead == ClassesInv => ReadsAgree
<1> SUFFICES ASSUME ClassesInv, written # Nothing PROVE ReadsAgree
  BY DEF ReadsAgree
<1>1. PICK n : n = written.name
  OBVIOUS
<1>2. /\ n \in Names /\ written.value \in Contents /\ written.private \in BOOLEAN
      /\ written.value = IF written.private THEN instance.privateAttributes[n]
                         ELSE instance.publicAttributes[n]
  BY <1>1 DEF ClassesInv, IsLooked
<1>3. written.value # Undefined
  BY <1>2, ClassesAssumption
<1>4. ~ written.private => GetAttribute(n) = written.value
  BY <1>2, <1>3 DEF GetAttribute, IsDefined, PublicView
<1>5. written.private \/ ~ IsDefined(instance.privateAttributes, n) => PrivateView(n) = written.value
  BY <1>2, <1>3 DEF PrivateView, IsDefined
<1> QED BY <1>1, <1>4, <1>5 DEF ReadsAgree

----------------------------------------------------------------------------
(* Class constants. *)

AttributeIn(cs, chain, n) ==
  LET holders == {i \in DOMAIN chain : Field(cs[chain[i]], n) # Undefined}
  IN IF holders = {} THEN Undefined ELSE Field(cs[chain[First(holders)]], n)

\* The same fields give the same answer.
LEMMA SameAnswer ==
  ASSUME NEW cs, NEW ds, NEW chain, DOMAIN chain \subseteq Nat, NEW n,
         \A i \in DOMAIN chain : Field(ds[chain[i]], n) = Field(cs[chain[i]], n)
  PROVE  AttributeIn(ds, chain, n) = AttributeIn(cs, chain, n)
<1> DEFINE holders(es) == {i \in DOMAIN chain : Field(es[chain[i]], n) # Undefined}
<1>1. holders(ds) = holders(cs)
  OBVIOUS
<1>2. CASE holders(cs) = {}
  BY <1>1, <1>2 DEF AttributeIn
<1>3. CASE holders(cs) # {}
  <2>1. First(holders(cs)) \in DOMAIN chain
    <3>1. holders(cs) \subseteq Nat /\ holders(cs) \subseteq DOMAIN chain
      OBVIOUS
    <3>2. First(holders(cs)) \in holders(cs)
      <4> HIDE DEF holders
      <4> QED BY <1>3, <3>1, FirstFacts
    <3> QED BY <3>1, <3>2
  <2> QED BY <1>1, <1>3, <2>1 DEF AttributeIn
<1> QED BY <1>2, <1>3

\* So do fields that differ behind one that is there.
LEMMA HiddenAnswer ==
  ASSUME NEW cs, NEW ds, NEW c, NEW chain, IsDescent(chain, c), NEW n,
         NEW i \in DOMAIN chain, NEW j \in DOMAIN chain, j < i,
         Field(cs[chain[j]], n) # Undefined,
         \A k \in DOMAIN chain : k # i => Field(ds[chain[k]], n) = Field(cs[chain[k]], n)
  PROVE  AttributeIn(ds, chain, n) = AttributeIn(cs, chain, n)
<1>0. DOMAIN chain \subseteq Nat
  BY DEF IsDescent
<1>1. PICK was : was = {k \in DOMAIN chain : Field(cs[chain[k]], n) # Undefined}
  OBVIOUS
<1>2. PICK is : is = {k \in DOMAIN chain : Field(ds[chain[k]], n) # Undefined}
  OBVIOUS
<1>3. j \in was /\ j \in is /\ was \subseteq Nat /\ is \subseteq Nat
  BY <1>0, <1>1, <1>2
<1>4. \A k \in DOMAIN chain : k # i => (k \in was <=> k \in is)
  BY <1>1, <1>2
<1>5. First(was) \in was /\ \A k \in was : First(was) <= k
  BY <1>3, FirstFacts
<1>6. First(is) \in is /\ \A k \in is : First(is) <= k
  BY <1>3, FirstFacts
<1>7. First(was) \in DOMAIN chain /\ First(was) # i /\ First(is) \in DOMAIN chain /\ First(is) # i
  BY <1>0, <1>1, <1>2, <1>3, <1>5, <1>6
<1>8. First(is) = First(was)
  <2>1. First(was) \in is /\ First(is) \in was
    BY <1>4, <1>5, <1>6, <1>7
  <2>2. First(is) <= First(was) /\ First(was) <= First(is) /\ First(is) \in Nat /\ First(was) \in Nat
    BY <1>3, <1>5, <1>6, <2>1
  <2> QED BY <2>2
<1>9. was # {} /\ is # {}
  BY <1>3
<1>10. AttributeIn(cs, chain, n) = Field(cs[chain[First(was)]], n)
  BY <1>1, <1>9 DEF AttributeIn
<1>11. AttributeIn(ds, chain, n) = Field(ds[chain[First(is)]], n)
  BY <1>2, <1>9 DEF AttributeIn
<1> QED BY <1>7, <1>8, <1>10, <1>11

\* What a class answers, before and after a step.
LEMMA AnswerFacts ==
  ASSUME ClassesInv, NEW c \in 1 .. Latest, NEW n \in Names,
         \A d \in 1 .. Latest : classes'[d].superclass = classes[d].superclass
  PROVE  /\ ClassAttribute(c, n) = AttributeIn(classes, Chain(c), n)
         /\ ClassAttribute(c, n)' = AttributeIn(classes', Chain(c), n)
<1>1. ClassAttribute(c, n) = AttributeIn(classes, Chain(c), n)
  BY DEF ClassAttribute, AttributeIn
<1>2. PICK ds : ds = classes'
  OBVIOUS
<1>3. \A d \in 1 .. Latest : ds[d].superclass = classes[d].superclass
  BY <1>2
<1>4. IsLineage(classes, Latest) /\ Chain(c) = ChainOf(classes, c) /\ c \in 0 .. Latest
  BY ChainFacts
<1>5. ChainOf(ds, c) = ChainOf(classes, c)
  BY <1>3, <1>4, ChainsAgree
<1>6. Chain(c)' = ChainOf(ds, c)
  BY <1>2, Zenon DEF Chain, ChainOf, IsLine
<1>7. ClassAttribute(c, n)' = AttributeIn(ds, Chain(c)', n)
  BY <1>2 DEF ClassAttribute, AttributeIn
<1> QED BY <1>1, <1>2, <1>4, <1>5, <1>6, <1>7

\* One step leaves what classes answer for their constants, or changes a variable
\* on the way to them.
Fixed ==
  ~ isOpen => \A c \in 1 .. Latest, n \in Names :
    LET chain    == Chain(c)
        declares == {i \in DOMAIN chain : Places(chain[i], "const", n) # {}}
    IN declares # {} =>
         \/ ClassAttribute(c, n)' = ClassAttribute(c, n)
         \/ \E i \in DOMAIN chain :
              /\ \A j \in declares : i < j
              /\ classes'[chain[i]].variables[n] # classes[chain[i]].variables[n]

\* Steps that leave the classes there are answer as before.
LEMMA AnswersStay ==
  ASSUME ClassesInv, \A d \in 1 .. Latest : classes'[d] = classes[d]
  PROVE  Fixed
<1> SUFFICES ASSUME NEW c \in 1 .. Latest, NEW n \in Names
             PROVE  ClassAttribute(c, n)' = ClassAttribute(c, n)
  BY DEF Fixed
<1>1. PICK chain : chain = Chain(c)
  OBVIOUS
<1>2. IsDescent(chain, c) /\ Latest \in Nat
  BY <1>1, ChainFacts DEF IsLineage
<1>3. PICK ds : ds = classes'
  OBVIOUS
<1>4. ASSUME NEW i \in DOMAIN chain
      PROVE  chain[i] \in 1 .. Latest
  BY <1>2, <1>4, ElementOfSeq DEF IsDescent
<1>5. \A i \in DOMAIN chain : Field(ds[chain[i]], n) = Field(classes[chain[i]], n)
  BY <1>3, <1>4
<1>6. AttributeIn(ds, chain, n) = AttributeIn(classes, chain, n)
  <2>1. DOMAIN chain \subseteq Nat
    BY <1>2 DEF IsDescent
  <2> QED BY <1>5, <2>1, SameAnswer
<1> QED BY <1>1, <1>3, <1>6, AnswerFacts

\* An assignment leaves the constants that are nearer than it.
LEMMA AssignmentFixes ==
  ASSUME ClassesInv, NEW d \in 1 .. Latest, NEW m \in Names, NEW v \in Contents,
         SetClassAttribute(d, m, v)
  PROVE  Fixed
<1> SUFFICES ASSUME NEW c \in 1 .. Latest, NEW n \in Names,
                    NEW chain, chain = Chain(c),
                    NEW declares, declares = {i \in DOMAIN chain : Places(chain[i], "const", n) # {}},
                    declares # {}
             PROVE  \/ ClassAttribute(c, n)' = ClassAttribute(c, n)
                    \/ \E i \in DOMAIN chain :
                         /\ \A j \in declares : i < j
                         /\ classes'[chain[i]].variables[n] # classes[chain[i]].variables[n]
  BY DEF Fixed
<1>1. IsDescent(chain, c) /\ Latest \in Nat /\ DOMAIN chain = 1 .. Len(chain) /\ Len(chain) \in Nat
  BY ChainFacts, SMTT(30) DEF IsLineage, IsDescent
<1>2. PICK ds : ds = classes'
  OBVIOUS
<1>3. ASSUME NEW i \in DOMAIN chain
      PROVE  chain[i] \in 1 .. Latest
  BY <1>1, <1>3, ElementOfSeq, SMTT(30) DEF IsDescent
<1>4. /\ \A e \in 1 .. Latest : SameClass(ds[e], classes[e])
      /\ \A e \in 1 .. Latest : ds[e].variables =
           IF e = d THEN [classes[d].variables EXCEPT ![m] = v] ELSE classes[e].variables
  BY <1>2, SetClassAttributeFacts
<1>5. \A e \in 1 .. Latest : classes[e].variables \in FieldTables
  <2> TAKE e \in 1 .. Latest
  <2>1. classes[e] \in ObjClass
    BY ProgramFacts
  <2> QED BY <2>1 DEF ObjClass
<1>6. ASSUME NEW e \in 1 .. Latest, e # d \/ n # m
      PROVE  Field(ds[e], n) = Field(classes[e], n)
  <2>1. ds[e].variables[n] = classes[e].variables[n]
    BY <1>4, <1>5, <1>6 DEF FieldTables
  <2>2. ds[e].constants = classes[e].constants
    BY <1>4 DEF SameClass
  <2> QED BY <2>1, <2>2 DEF Field, IsDefined
<1>7. ClassAttribute(c, n) = AttributeIn(classes, chain, n)
      /\ ClassAttribute(c, n)' = AttributeIn(ds, chain, n)
  <2>1. \A e \in 1 .. Latest : ds[e].superclass = classes[e].superclass
    BY <1>4 DEF SameClass
  <2> QED BY <1>2, <2>1, AnswerFacts
<1>8. CASE \A i \in DOMAIN chain : Field(ds[chain[i]], n) = Field(classes[chain[i]], n)
  BY <1>1, <1>7, <1>8, SameAnswer
<1>9. ASSUME NEW i \in DOMAIN chain, Field(ds[chain[i]], n) # Field(classes[chain[i]], n)
      PROVE  \/ ClassAttribute(c, n)' = ClassAttribute(c, n)
             \/ \E k \in DOMAIN chain :
                  /\ \A j \in declares : k < j
                  /\ classes'[chain[k]].variables[n] # classes[chain[k]].variables[n]
  <2>1. chain[i] = d /\ n = m
    BY <1>3, <1>6, <1>9
  <2>2. ~ IsDefined(classes[d].constants, n)
    BY <2>1 DEF SetClassAttribute
  <2>3. ds[d].variables[n] # classes[d].variables[n]
    <3>1. ds[d].constants = classes[d].constants
      BY <1>4 DEF SameClass
    <3> QED BY <1>9, <2>1, <3>1 DEF Field
  <2>4. CASE \A j \in declares : i < j
    BY <1>2, <2>1, <2>3, <2>4
  <2>5. ASSUME NEW j \in declares, ~ (i < j)
        PROVE  ClassAttribute(c, n)' = ClassAttribute(c, n)
    <3>1. j \in DOMAIN chain /\ chain[j] \in 1 .. Latest
      BY <1>3
    <3>2. classes[chain[j]].constants[n] # Undefined
      <4>1. HasConstant(classes, text, chain[j], n)
        BY <3>1, ProgramFacts DEF IsClass
      <4> QED BY <4>1, <2>5 DEF HasConstant, Places, PlacesIn
    <3>3. j < i
      BY <1>1, <2>1, <2>2, <2>5, <3>1, <3>2 DEF IsDefined
    <3>4. Field(classes[chain[j]], n) # Undefined
      BY <3>2 DEF Field, IsDefined
    <3>5. ASSUME NEW k \in DOMAIN chain, k # i
          PROVE  Field(ds[chain[k]], n) = Field(classes[chain[k]], n)
      <4>1. chain[k] # chain[i]
        <5>1. \A a, b \in 1 .. Len(chain) : a < b => chain[b] < chain[a]
          BY <1>1 DEF IsDescent
        <5>2. chain[k] \in Int /\ chain[i] \in Int
          BY <1>3
        <5> QED BY <1>1, <3>5, <5>1, <5>2
      <4> QED BY <1>3, <1>6, <2>1, <4>1
    <3>6. AttributeIn(ds, chain, n) = AttributeIn(classes, chain, n)
      <4>1. PICK cs : cs = classes
        OBVIOUS
      <4>2. IsDescent(chain, c) /\ i \in DOMAIN chain /\ j \in DOMAIN chain /\ j < i
        BY <1>1, <3>1, <3>3
      <4>3. Field(cs[chain[j]], n) # Undefined
            /\ \A k \in DOMAIN chain : k # i => Field(ds[chain[k]], n) = Field(cs[chain[k]], n)
        BY <3>4, <3>5, <4>1
      <4>4. AttributeIn(ds, chain, n) = AttributeIn(cs, chain, n)
        BY <4>2, <4>3, HiddenAnswer
      <4> QED BY <4>1, <4>4
    <3> QED BY <1>7, <3>6
  <2> QED BY <2>4, <2>5
<1> QED BY <1>8, <1>9

\* Every step leaves the constants.
LEMMA StepsFix == ClassesInv /\ ClassesNext => Fixed
<1> SUFFICES ASSUME ClassesInv, ClassesNext PROVE Fixed
  OBVIOUS
<1>0. CASE isOpen
  BY <1>0 DEF Fixed
<1>1. ASSUME NEW type \in Types, NEW superclass \in 0 .. Latest, CreateClass(type, superclass)
      PROVE  Fixed
  <2>1. Latest \in Nat /\ DOMAIN classes = 1 .. Latest /\ classes \in Seq(ObjClass)
    BY DEF ClassesInv, IsProgram, Latest
  <2>2. PICK class : classes' = Append(classes, class)
    BY <1>1 DEF CreateClass
  <2>3. \A d \in 1 .. Latest : classes'[d] = classes[d]
    BY <2>1, <2>2 DEF Latest
  <2> QED BY <2>3, AnswersStay
<1>2. ASSUME NEW n \in Names, NEW access \in {"public", "private", "abstract"}, DefineMethod(n, access)
      PROVE  isOpen
  BY <1>2 DEF DefineMethod, Member
<1>3. ASSUME NEW n \in Names, DeclarePrivate(n)
      PROVE  isOpen
  BY <1>3 DEF DeclarePrivate, Member
<1>4. ASSUME NEW n \in Names, NEW constant \in BOOLEAN, NEW v \in Contents, SetClassVar(n, constant, v)
      PROVE  isOpen
  BY <1>4 DEF SetClassVar, Member
<1>5. ASSUME NEW t \in 1 .. Latest - 1, Use(t)
      PROVE  isOpen
  BY <1>5 DEF Use, Member
<1>6. CASE EndClass
  BY <1>0, <1>6 DEF EndClass
<1>7. ASSUME UNCHANGED classes
      PROVE  Fixed
  BY <1>7, AnswersStay
<1>8. ASSUME NEW c \in 1 .. Latest, Construct(c)
      PROVE  Fixed
  BY <1>7, <1>8 DEF Construct
<1>9. CASE Write
  BY <1>7, <1>9 DEF Write
<1>10. ASSUME NEW c \in 1 .. Latest, NEW n \in Names, NEW v \in Contents, SetClassAttribute(c, n, v)
       PROVE  Fixed
  BY <1>10, AssignmentFixes
<1> QED BY <1>0, <1>1, <1>2, <1>3, <1>4, <1>5, <1>6, <1>8, <1>9, <1>10 DEF ClassesNext

----------------------------------------------------------------------------
(* The theorems. *)

\* Every table answers with what it may hold, and a class comes after its
\* superclass and after whoever it has methods of.
THEOREM ClassesTypeCorrect == ClassesSpec => []ClassesTypeOK
<1>1. ClassesInv => ClassesTypeOK
  BY TypesHold
<1> QED BY <1>1, ClassesInvariance, PTL

\* A name stands for the method that the text of the classes gives it.
THEOREM Resolution == ClassesSpec => []MethodsResolve
<1>1. ClassesInv => MethodsResolve
  BY CallsResolve
<1> QED BY <1>1, ClassesInvariance, PTL

\* An instance answers every call that an abstract class above it promises.
THEOREM Promises == ClassesSpec => []Instantiable
<1>1. ClassesInv => Instantiable
  BY PromisesKept
<1> QED BY <1>1, ClassesInvariance, PTL

\* What was last written to an attribute is what is read.
THEOREM Agreement == ClassesSpec => []ReadsAgree
<1>1. ClassesInv => ReadsAgree
  BY WrittenIsRead
<1> QED BY <1>1, ClassesInvariance, PTL

\* A class constant does not change, and only a variable nearer on the way to it
\* can hide it.
THEOREM Constancy == ClassesSpec => ConstantsFixed
<1>1. ClassesInv /\ [ClassesNext]_classesVars => [Fixed]_classesVars
  BY StepsFix
<1>2. [][Fixed]_classesVars => ConstantsFixed
  BY PTL DEF Fixed, ConstantsFixed
<1> QED BY <1>1, <1>2, ClassesInvariance, PTL DEF ClassesSpec

(***************************************************************************)
(* Arguments.                                                              *)
(***************************************************************************)

(* What the stack holds for the calls on it. *)

Roles == {"script", "callee", "receiver", "argument", "default", "result"}
Plain == Roles \X Nat \X Nat
Things == Plain \cup ({"list"} \X Seq(Plain))

\* The frame of a call that its function takes.
Frames == [function : Functions, way : Ways, given : Nat, slots : Nat,
           pc : {"defaults", "attributes", "body"}, attributes : Seq(Things)]
IsCall(frame) ==
  /\ frame \in Frames
  /\ frame.way = "class" => ~ frame.function.isVariadic
  /\ frame.way = "extension" => frame.function.arity > 0
  /\ Takes(frame.function, Received(frame))

\* What the k-th frame is to find in its parameters.
GivenTo(frame, k) == Given(frame.way, frame.given, k - 1)
ExpectedBy(frame, k) == Expected(frame.function, GivenTo(frame, k), k - 1)
TooEarly(frame) == NamesTooEarly(frame.function, Received(frame))

\* Up to end, the arguments and the defaults computed so far, of which those that
\* stand for arguments not given are as expected.
IsDefaulting(s, frame, k, end) ==
  LET f == frame.function
      r == Received(frame)
  IN /\ ~ f.isVariadic /\ end - frame.slots - 1 - r \in 0 .. ArityOptional(f)
     /\ \A i \in 1 .. r : s[frame.slots + 1 + i] = GivenTo(frame, k)[i]
     /\ ~ TooEarly(frame) =>
          \A i \in 1 .. end - frame.slots - 1 - r :
            f.arity + i > r => s[frame.slots + 1 + r + i] = ExpectedBy(frame, k)[f.arity + i]

\* Up to end, the parameters and what calls from the body left.
Left(k) == {Value("result", k, 0), Value("receiver", k, 0)}
IsReady(s, frame, k, end) ==
  LET f == frame.function
  IN /\ end >= frame.slots + 1 + Parameters(f)
     /\ ~ TooEarly(frame) =>
          \A i \in 1 .. Parameters(f) : s[frame.slots + 1 + i] = ExpectedBy(frame, k)[i]
     /\ frame.pc = "attributes" => end = frame.slots + 1 + Parameters(f)
     /\ frame.pc = "body" /\ frame.way = "class" /\ ~ TooEarly(frame) =>
          frame.attributes = ExpectedBy(frame, k)
     /\ \A i \in frame.slots + Parameters(f) + 2 .. end : s[i] \in Left(k)

IsFrame(s, frame, k, end) ==
  /\ IsCall(frame) /\ frame.slots < end /\ s[frame.slots + 1] = Callee(frame.way, k - 1)
  /\ IF frame.pc = "defaults" THEN IsDefaulting(s, frame, k, end) ELSE IsReady(s, frame, k, end)

\* The end of the k-th frame's part of a stack.
EndIn(s, fs, k) == IF k < Len(fs) THEN fs[k + 1].slots ELSE Len(s)

IsStack(s, fs) ==
  /\ s \in Seq(Things) /\ s # <<>> /\ s[1] = Script
  /\ fs \in Seq(Frames \cup {Main}) /\ Len(fs) \in 1 .. MaxFrames /\ fs[1] = Main
  /\ \A k \in 1 .. Len(fs) : /\ fs[k].slots < EndIn(s, fs, k)
                             /\ k < Len(fs) => fs[k].pc = "body"
                             /\ k > 1 => IsFrame(s, fs[k], k, EndIn(s, fs, k))

IsRefusal(refused) ==
  refused = NoCall \/ ~ Accepts(refused.function, refused.args)

ArgumentsInv == IsStack(stack, frames) /\ IsRefusal(refusal)

----------------------------------------------------------------------------
(* What is expected of a call. *)

\* The value of the i-th parameter, from those of the parameters before it.
Binding(f, given, depth, g, i) ==
  IF f.isVariadic /\ i = f.arity THEN List(SubSeq(given, i, Len(given)))
  ELSE IF i <= Len(given) THEN given[i]
  ELSE LET named == f.defaults[i - f.arity]
       IN IF named = Own THEN Value("default", depth + 1, i - f.arity)
          ELSE g[f.arity + named]

\* A function has as many parameters as it has names for.
LEMMA FunctionFacts ==
  ASSUME NEW f \in Functions
  PROVE  /\ f.arity \in Nat /\ f.isVariadic \in BOOLEAN /\ f.defaults \in Seq(Nat)
         /\ ArityOptional(f) \in Nat /\ DOMAIN f.defaults = 1 .. ArityOptional(f)
         /\ Parameters(f) = f.arity + ArityOptional(f) /\ Parameters(f) \in Nat
         /\ \A i \in 1 .. ArityOptional(f) : f.defaults[i] \in 0 .. i - 1
         /\ f.isVariadic => f.arity > 0 /\ ArityOptional(f) = 0 /\ Parameters(f) = f.arity
<1>1. IsFunction(f)
  BY ArgumentsAssumption
<1> QED BY <1>1 DEF IsFunction, ArityOptional, Parameters

\* What a call that is taken leaves to defaults.
LEMMA TakenFacts ==
  ASSUME NEW f \in Functions, NEW n \in Nat, Takes(f, n)
  PROVE  /\ f.isVariadic => n + 1 >= f.arity
         /\ ~ f.isVariadic => f.arity <= n /\ n <= Parameters(f)
         /\ Accepts(f, n)
         /\ \A i \in 1 .. Parameters(f) :
              i <= n \/ (f.isVariadic /\ i = f.arity)
              \/ (~ f.isVariadic /\ i - f.arity \in 1 .. ArityOptional(f))
BY FunctionFacts DEF Takes, Accepts

\* A parameter depends on the ones before it alone.
LEMMA BindingAgrees ==
  ASSUME NEW f \in Functions, NEW given, NEW depth, Len(given) \in Nat, Takes(f, Len(given)),
         NEW i \in 1 .. Parameters(f), NEW g, NEW h, \A j \in 1 .. i - 1 : g[j] = h[j]
  PROVE  Binding(f, given, depth, g, i) = Binding(f, given, depth, h, i)
<1>1. CASE (f.isVariadic /\ i = f.arity) \/ i <= Len(given)
  BY <1>1 DEF Binding
<1>2. CASE ~ f.isVariadic /\ i - f.arity \in 1 .. ArityOptional(f)
  <2>1. PICK named : named = f.defaults[i - f.arity]
    OBVIOUS
  <2>2. named \in 0 .. i - f.arity - 1 /\ f.arity \in Nat
    BY <1>2, <2>1, FunctionFacts
  <2>3. named # Own => f.arity + named \in 1 .. i - 1
    BY <2>2 DEF Own
  <2> QED BY <1>2, <2>1, <2>3 DEF Binding
<1> QED BY <1>1, <1>2, TakenFacts

\* The parameters' values exist.
LEMMA BindingsExist ==
  ASSUME NEW f \in Functions, NEW given, NEW depth, Len(given) \in Nat, Takes(f, Len(given))
  PROVE  \E g : g = [i \in 1 .. Parameters(f) |-> Binding(f, given, depth, g, i)]
<1> DEFINE S == {m \in 0 .. Parameters(f) :
                   \E g : g = [i \in 1 .. m |-> Binding(f, given, depth, g, i)]}
<1>0. Parameters(f) \in Nat
  BY FunctionFacts
<1>1. ASSUME NEW m \in 0 .. Parameters(f), \A k \in 0 .. m - 1 : k \in S
      PROVE  m \in S
  <2>1. CASE m = 0
    <3>1. PICK g : g = [i \in 1 .. 0 |-> 0]
      OBVIOUS
    <3>2. g = [i \in 1 .. 0 |-> Binding(f, given, depth, g, i)]
      BY <3>1
    <3> QED BY <2>1, <3>2
  <2>2. CASE m # 0
    <3>1. m - 1 \in S
      BY <1>1, <2>2, SMTT(30)
    <3>2. PICK g : g = [i \in 1 .. m - 1 |-> Binding(f, given, depth, g, i)]
      BY <3>1
    <3>3. PICK h : h = [i \in 1 .. m |-> Binding(f, given, depth, g, i)]
      OBVIOUS
    <3>4. ASSUME NEW i \in 1 .. m
          PROVE  Binding(f, given, depth, g, i) = Binding(f, given, depth, h, i)
      <4>1. \A j \in 1 .. i - 1 : j \in 1 .. m - 1 /\ j \in 1 .. m
        BY <1>1, <3>4
      <4>2. \A j \in 1 .. i - 1 : g[j] = h[j]
        BY <3>2, <3>3, <4>1
      <4>3. i \in 1 .. Parameters(f)
        BY <1>0, <1>1, <3>4
      <4> QED BY <4>2, <4>3, BindingAgrees
    <3>5. h = [i \in 1 .. m |-> Binding(f, given, depth, h, i)]
      BY <3>3, <3>4
    <3> QED BY <3>5
  <2> QED BY <2>1, <2>2
<1>2. \A m \in 0 .. Parameters(f) : m \in S
  <2> HIDE DEF S
  <2> QED BY <1>0, <1>1, Induction
<1> QED BY <1>0, <1>2

IsExpected(e, f, given, depth) ==
  /\ e = [i \in 1 .. Parameters(f) |-> e[i]]
  /\ \A i \in 1 .. Parameters(f) : e[i] = Binding(f, given, depth, e, i)

\* They are what is expected.
LEMMA ExpectedFacts ==
  ASSUME NEW f, f \in Functions, NEW given, NEW depth, Len(given) \in Nat, Takes(f, Len(given)),
         NEW e, e = Expected(f, given, depth)
  PROVE  IsExpected(e, f, given, depth)
<1> DEFINE Values(g) == [i \in 1 .. Parameters(f) |->
                          IF f.isVariadic /\ i = f.arity THEN List(SubSeq(given, i, Len(given)))
                          ELSE IF i <= Len(given) THEN given[i]
                          ELSE IF f.defaults[i - f.arity] = Own
                          THEN Value("default", depth + 1, i - f.arity)
                          ELSE g[f.arity + f.defaults[i - f.arity]]]
<1>1. \A g : Values(g) = [i \in 1 .. Parameters(f) |-> Binding(f, given, depth, g, i)]
  BY DEF Binding
<1>2. \E g : g = Values(g)
  <2>1. PICK g : g = [i \in 1 .. Parameters(f) |-> Binding(f, given, depth, g, i)]
    BY BindingsExist
  <2>2. g = Values(g)
    <3> HIDE DEF Values
    <3> QED BY <1>1, <2>1
  <2> QED BY <2>2
<1>3. PICK b : b = CHOOSE g : g = Values(g)
  OBVIOUS
<1>4. b = Values(b)
  <2> HIDE DEF Values
  <2> QED BY <1>2, <1>3, Zenon
<1>5. e = b
  BY <1>3, Zenon DEF Expected
<1>6. b = [i \in 1 .. Parameters(f) |-> Binding(f, given, depth, b, i)]
  <2> HIDE DEF Values
  <2> QED BY <1>1, <1>4
<1>7. \A i \in 1 .. Parameters(f) : b[i] = Binding(f, given, depth, b, i)
  BY <1>6
<1>8. b = [i \in 1 .. Parameters(f) |-> b[i]]
  BY <1>6
<1> QED BY <1>5, <1>7, <1>8 DEF IsExpected

----------------------------------------------------------------------------
(* Pieces of stacks. *)

IsDrop(t, s, n, V) ==
  t \in Seq(V) /\ Len(t) = Len(s) - n /\ \A i \in 1 .. Len(s) - n : t[i] = s[i]
IsLastOf(t, s, n, V) ==
  t \in Seq(V) /\ Len(t) = n /\ \A i \in 1 .. n : t[i] = s[Len(s) - n + i]
IsAppend(t, s, v, V) ==
  t \in Seq(V) /\ Len(t) = Len(s) + 1 /\ t[Len(s) + 1] = v /\ \A i \in 1 .. Len(s) : t[i] = s[i]
IsJoin(t, r, s, V) ==
  /\ t \in Seq(V) /\ Len(t) = Len(r) + Len(s)
  /\ \A i \in 1 .. Len(r) : t[i] = r[i]
  /\ \A i \in 1 .. Len(s) : t[Len(r) + i] = s[i]

\* All but the last n values.
LEMMA DropFacts ==
  ASSUME NEW V, NEW s, s \in Seq(V), NEW n, n \in 0 .. Len(s), NEW t, t = Drop(s, n)
  PROVE  IsDrop(t, s, n, V)
<1>1. Len(s) \in Nat /\ DOMAIN s = 1 .. Len(s) /\ \A i \in 1 .. Len(s) : s[i] \in V
  BY ElementOfSeq
<1>2. t = SubSeq(s, 1, Len(s) - n)
  BY DEF Drop
<1>3. PICK m : m = Len(s) - n
  OBVIOUS
<1>4. m \in 0 .. Len(s) /\ t = SubSeq(s, 1, m)
  BY <1>1, <1>2, <1>3
<1>5. t \in Seq(V) /\ Len(t) = m /\ \A i \in 1 .. m : t[i] = s[i]
  BY <1>1, <1>4
<1> QED BY <1>3, <1>5 DEF IsDrop

\* The last n values.
LEMMA LastOfFacts ==
  ASSUME NEW V, NEW s, s \in Seq(V), NEW n, n \in 0 .. Len(s), NEW t, t = LastOf(s, n)
  PROVE  IsLastOf(t, s, n, V)
<1>1. Len(s) \in Nat /\ DOMAIN s = 1 .. Len(s) /\ \A i \in 1 .. Len(s) : s[i] \in V
  BY ElementOfSeq
<1>2. t = SubSeq(s, Len(s) - n + 1, Len(s))
  BY DEF LastOf
<1> QED BY <1>1, <1>2 DEF IsLastOf

\* One more value.
LEMMA AppendFacts ==
  ASSUME NEW V, NEW s, s \in Seq(V), NEW v, v \in V, NEW t, t = Append(s, v)
  PROVE  IsAppend(t, s, v, V)
BY DEF IsAppend

\* Two stacks, one on the other.
LEMMA JoinFacts ==
  ASSUME NEW V, NEW r, r \in Seq(V), NEW s, s \in Seq(V), NEW t, t = r \o s
  PROVE  IsJoin(t, r, s, V)
<1>1. Len(r) \in Nat /\ Len(s) \in Nat /\ t \in Seq(V) /\ Len(t) = Len(r) + Len(s)
  OBVIOUS
<1>2. ASSUME NEW i \in 1 .. Len(s) PROVE t[Len(r) + i] = s[i]
  <2>1. Len(r) + i \in 1 .. Len(r) + Len(s) /\ ~ (Len(r) + i <= Len(r)) /\ Len(r) + i - Len(r) = i
    BY <1>1
  <2> QED BY <2>1
<1>3. ASSUME NEW i \in 1 .. Len(r) PROVE t[i] = r[i]
  BY <1>1
<1> QED BY <1>1, <1>2, <1>3 DEF IsJoin

\* A list of values is a value.
LEMMA ListFacts ==
  ASSUME NEW values \in Seq(Plain)
  PROVE  List(values) \in Things /\ List(values)[2] = values
BY DEF List, Things

----------------------------------------------------------------------------
(* What a call puts on the stack. *)

\* On top of s, the receiver or callee and m values.
IsLaid(t, s, callee, m, values) ==
  /\ t \in Seq(Things) /\ Len(t) = Len(s) + 1 + m
  /\ \A i \in 1 .. Len(s) : t[i] = s[i]
  /\ t[Len(s) + 1] = callee
  /\ \A i \in 1 .. m : t[Len(s) + 1 + i] = values[i]

ArgumentsOf(depth, n) == [i \in 1 .. n |-> Value("argument", depth, i)]

\* The arguments of a call.
LEMMA ArgumentFacts ==
  ASSUME NEW depth \in Nat, NEW n \in Nat
  PROVE  /\ ArgumentsOf(depth, n) \in Seq(Plain) /\ ArgumentsOf(depth, n) \in Seq(Things)
         /\ Len(ArgumentsOf(depth, n)) = n
<1>1. \A i \in 1 .. n : Value("argument", depth, i) \in Plain /\ Value("argument", depth, i) \in Things
  BY DEF Value, Roles, Plain, Things
<1>2. PICK args : args = ArgumentsOf(depth, n)
  OBVIOUS
<1>3. args = [i \in 1 .. n |-> Value("argument", depth, i)]
  BY <1>2 DEF ArgumentsOf
<1>4. args \in Seq(Plain) /\ args \in Seq(Things) /\ Len(args) = n
  <2>1. ASSUME NEW V, \A i \in 1 .. n : Value("argument", depth, i) \in V
        PROVE  args \in Seq(V) /\ Len(args) = n
    <3>1. DOMAIN args = 1 .. n /\ \A i \in 1 .. n : args[i] \in V
      BY <1>3, <2>1
    <3>2. args \in [1 .. n -> V]
      BY <1>3, <3>1
    <3> QED BY <3>2
  <2> QED BY <1>1, <2>1
<1> QED BY <1>2, <1>4

\* What is pushed is, unpacked, the callee and the arguments.
LEMMA PushedIsLaid ==
  ASSUME NEW s \in Seq(Things), Len(frames) \in Nat, NEW way \in Ways, NEW n \in Nat,
         NEW spread \in -1 .. n,
         NEW callee, callee = Value(IF way \in {"method", "extension"} THEN "receiver" ELSE "callee",
                                    Len(frames), 0)
  PROVE  IsLaid(Unpacked(s \o Pushed(way, n, spread), spread), s, callee,
                n, ArgumentsOf(Len(frames), n))
<1>1. PICK args : args = ArgumentsOf(Len(frames), n)
  OBVIOUS
<1>2. args \in Seq(Plain) /\ args \in Seq(Things) /\ Len(args) = n
  BY <1>1, ArgumentFacts
<1>3. callee \in Things
  <2>1. Value("receiver", Len(frames), 0) \in Things /\ Value("callee", Len(frames), 0) \in Things
    BY DEF Value, Roles, Plain, Things
  <2> QED BY <2>1
<1>4. PICK head : head = <<callee>>
  OBVIOUS
<1>5. head \in Seq(Things) /\ Len(head) = 1 /\ head[1] = callee
  BY <1>3, <1>4
<1>6. PICK t : t = Unpacked(s \o Pushed(way, n, spread), spread)
  OBVIOUS
<1>7. CASE spread < 0
  <2>1. Pushed(way, n, spread) = head \o args /\ t = s \o Pushed(way, n, spread)
    BY <1>1, <1>4, <1>6, <1>7 DEF Pushed, Unpacked, ArgumentsOf
  <2>2. PICK p : p = head \o args
    OBVIOUS
  <2>3. p \in Seq(Things) /\ Len(p) = 1 + n /\ p[1] = callee /\ \A i \in 1 .. n : p[1 + i] = args[i]
    <3>1. IsJoin(p, head, args, Things)
      BY <1>2, <1>5, <2>2, JoinFacts, Zenon
    <3> QED BY <1>2, <1>5, <3>1 DEF IsJoin
  <2>4. /\ t \in Seq(Things) /\ Len(t) = Len(s) + (1 + n) /\ \A i \in 1 .. Len(s) : t[i] = s[i]
        /\ \A i \in 1 .. 1 + n : t[Len(s) + i] = p[i]
    <3>1. IsJoin(t, s, p, Things)
      BY <2>1, <2>2, <2>3, JoinFacts, Zenon
    <3> QED BY <2>3, <3>1 DEF IsJoin
  <2>5. t[Len(s) + 1] = callee /\ \A i \in 1 .. n : t[Len(s) + 1 + i] = args[i]
    <3>1. ASSUME NEW i \in 1 .. n PROVE t[Len(s) + 1 + i] = args[i]
      <4>1. 1 + i \in 1 .. 1 + n /\ Len(s) + (1 + i) = Len(s) + 1 + i /\ Len(s) \in Nat
        OBVIOUS
      <4> QED BY <2>3, <2>4, <4>1
    <3> QED BY <2>3, <2>4, <3>1
  <2> QED BY <1>1, <1>2, <1>6, <2>4, <2>5 DEF IsLaid
<1>8. CASE ~ (spread < 0)
  <2>1. spread \in 0 .. n
    BY <1>8
  <2>2. PICK few : few = Drop(args, spread)
    OBVIOUS
  <2>3. PICK rest : rest = LastOf(args, spread)
    OBVIOUS
  <2>4. /\ few \in Seq(Things) /\ Len(few) = n - spread /\ \A i \in 1 .. n - spread : few[i] = args[i]
    <3>1. spread \in 0 .. Len(args)
      BY <1>2, <2>1
    <3>2. IsDrop(few, args, spread, Things)
      BY <1>2, <2>2, <3>1, DropFacts, Zenon
    <3> QED BY <1>2, <3>2 DEF IsDrop
  <2>5. /\ rest \in Seq(Plain) /\ rest \in Seq(Things) /\ Len(rest) = spread
        /\ \A i \in 1 .. spread : rest[i] = args[n - spread + i]
    <3>1. spread \in 0 .. Len(args)
      BY <1>2, <2>1
    <3>2. IsLastOf(rest, args, spread, Things) /\ IsLastOf(rest, args, spread, Plain)
      BY <1>2, <2>3, <3>1, LastOfFacts, Zenon
    <3> QED BY <1>2, <3>2 DEF IsLastOf
  <2>6. PICK list : list = List(rest)
    OBVIOUS
  <2>7. list \in Things /\ list[2] = rest
    BY <2>5, <2>6, ListFacts
  <2>8. PICK more : more = Append(few, list)
    OBVIOUS
  <2>9. /\ more \in Seq(Things) /\ Len(more) = n - spread + 1 /\ more[n - spread + 1] = list
        /\ \A i \in 1 .. n - spread : more[i] = args[i]
    <3>1. IsAppend(more, few, list, Things)
      BY <2>4, <2>7, <2>8, AppendFacts, Zenon
    <3> QED BY <2>4, <3>1 DEF IsAppend
  <2>10. PICK p : p = head \o more
    OBVIOUS
  <2>11. /\ p \in Seq(Things) /\ Len(p) = 1 + (n - spread + 1) /\ p[1] = callee
         /\ \A i \in 1 .. n - spread + 1 : p[1 + i] = more[i]
    <3>1. IsJoin(p, head, more, Things)
      BY <1>5, <2>9, <2>10, JoinFacts, Zenon
    <3> QED BY <1>5, <2>9, <3>1 DEF IsJoin
  <2>12. PICK u : u = s \o p
    OBVIOUS
  <2>13. /\ u \in Seq(Things) /\ Len(u) = Len(s) + (1 + (n - spread + 1))
         /\ \A i \in 1 .. Len(s) : u[i] = s[i]
         /\ \A i \in 1 .. 1 + (n - spread + 1) : u[Len(s) + i] = p[i]
    <3>1. IsJoin(u, s, p, Things)
      BY <2>11, <2>12, JoinFacts, Zenon
    <3> QED BY <2>11, <3>1 DEF IsJoin
  <2>14. Pushed(way, n, spread) = p
    BY <1>1, <1>4, <1>8, <2>2, <2>3, <2>6, <2>8, <2>10 DEF Pushed, ArgumentsOf
  <2>15. Peek(u, 0) = list
    <3>1. Len(u) - 0 = Len(s) + (1 + (n - spread + 1)) /\ 1 + (n - spread + 1) \in 1 .. 1 + (n - spread + 1)
      BY <2>1, <2>13
    <3>2. u[Len(s) + (1 + (n - spread + 1))] = p[1 + (n - spread + 1)]
      BY <2>13, <3>1
    <3>3. p[1 + (n - spread + 1)] = more[n - spread + 1]
      <4>1. n - spread + 1 \in 1 .. n - spread + 1
        BY <2>1
      <4> QED BY <2>11, <4>1
    <3> QED BY <2>9, <3>1, <3>2, <3>3 DEF Peek
  <2>16. PICK d : d = Drop(u, 1)
    OBVIOUS
  <2>17. /\ d \in Seq(Things) /\ Len(d) = Len(s) + 1 + (n - spread)
         /\ \A i \in 1 .. Len(s) + 1 + (n - spread) : d[i] = u[i]
    <3>1. Len(u) - 1 = Len(s) + 1 + (n - spread) /\ 1 \in 0 .. Len(u) /\ Len(s) \in Nat
      BY <2>1, <2>13
    <3>2. IsDrop(d, u, 1, Things)
      BY <2>13, <2>16, <3>1, DropFacts, Zenon
    <3> QED BY <3>1, <3>2 DEF IsDrop
  <2>18. t = d \o rest
    BY <1>6, <1>8, <2>7, <2>12, <2>14, <2>15, <2>16 DEF Unpacked
  <2>19. /\ t \in Seq(Things) /\ Len(t) = Len(d) + spread /\ \A i \in 1 .. Len(d) : t[i] = d[i]
         /\ \A i \in 1 .. spread : t[Len(d) + i] = rest[i]
    <3>1. IsJoin(t, d, rest, Things)
      BY <2>5, <2>17, <2>18, JoinFacts, Zenon
    <3> QED BY <2>5, <3>1 DEF IsJoin
  <2>20. Len(t) = Len(s) + 1 + n /\ Len(s) \in Nat
    BY <2>1, <2>17, <2>19
  <2>21. ASSUME NEW i \in 1 .. Len(s) PROVE t[i] = s[i]
    <3>1. i \in 1 .. Len(s) + 1 + (n - spread)
      BY <2>1, <2>20
    <3> QED BY <2>13, <2>17, <2>19, <3>1
  <2>22. t[Len(s) + 1] = callee
    <3>1. Len(s) + 1 \in 1 .. Len(s) + 1 + (n - spread) /\ 1 \in 1 .. 1 + (n - spread + 1)
      BY <2>1, <2>20
    <3> QED BY <2>11, <2>13, <2>17, <2>19, <3>1
  <2>23. ASSUME NEW i \in 1 .. n PROVE t[Len(s) + 1 + i] = args[i]
    <3>1. CASE i <= n - spread
      <4>1. /\ i \in 1 .. n - spread /\ i \in 1 .. n - spread + 1 /\ 1 + i \in 1 .. 1 + (n - spread + 1)
            /\ Len(s) + 1 + i \in 1 .. Len(s) + 1 + (n - spread) /\ Len(s) + (1 + i) = Len(s) + 1 + i
        BY <2>1, <2>20, <3>1
      <4>2. t[Len(s) + 1 + i] = u[Len(s) + 1 + i]
        BY <2>17, <2>19, <4>1
      <4>3. u[Len(s) + 1 + i] = p[1 + i]
        BY <2>13, <4>1
      <4> QED BY <2>9, <2>11, <4>1, <4>2, <4>3
    <3>2. CASE ~ (i <= n - spread)
      <4>1. PICK j \in 1 .. spread : i = n - spread + j
        <5>1. i - (n - spread) \in 1 .. spread /\ i = n - spread + (i - (n - spread))
          BY <2>1, <3>2
        <5> QED BY <5>1
      <4>2. Len(s) + 1 + i = Len(d) + j
        BY <2>1, <2>17, <2>20, <4>1
      <4> QED BY <2>5, <2>19, <4>1, <4>2
    <3> QED BY <3>1, <3>2
  <2> QED BY <1>1, <1>2, <1>6, <2>19, <2>20, <2>21, <2>22, <2>23 DEF IsLaid
<1> QED BY <1>7, <1>8

\* What was given to a call.
IsGiven(given, way, n, depth) ==
  /\ given \in Seq(Plain)
  /\ Len(given) = IF way = "extension" THEN n + 1 ELSE n
  /\ way # "extension" => given = ArgumentsOf(depth, n)
  /\ way = "extension" =>
       /\ given[1] = Value("receiver", depth, 0)
       /\ \A i \in 1 .. n : given[1 + i] = ArgumentsOf(depth, n)[i]

\* It is the arguments, and the receiver before them for a method in Dictu.
LEMMA GivenFacts ==
  ASSUME NEW way, way \in Ways, NEW n, n \in Nat, NEW depth, depth \in Nat,
         NEW given, given = Given(way, n, depth)
  PROVE  IsGiven(given, way, n, depth)
<1>1. PICK args : args = ArgumentsOf(depth, n)
  OBVIOUS
<1>2. args \in Seq(Plain) /\ Len(args) = n
  BY <1>1, ArgumentFacts
<1>3. CASE way # "extension"
  BY <1>1, <1>2, <1>3 DEF Given, ArgumentsOf, IsGiven
<1>4. CASE way = "extension"
  <2>1. PICK head : head = <<Value("receiver", depth, 0)>>
    OBVIOUS
  <2>2. Value("receiver", depth, 0) \in Plain
    BY DEF Value, Roles, Plain
  <2>3. head \in Seq(Plain) /\ Len(head) = 1 /\ head[1] = Value("receiver", depth, 0)
    BY <2>1, <2>2
  <2>4. given = head \o args
    BY <1>1, <1>4, <2>1 DEF Given, ArgumentsOf
  <2>5. IsJoin(given, head, args, Plain)
    BY <1>2, <2>3, <2>4, JoinFacts, Zenon
  <2> QED BY <1>1, <1>2, <1>4, <2>3, <2>5 DEF IsJoin, IsGiven
<1> QED BY <1>3, <1>4

\* The callee gives way to the receiver.
LEMMA SeatedIsLaid ==
  ASSUME NEW s \in Seq(Things), Len(frames) \in Nat, NEW way \in Ways, NEW n \in Nat, NEW t,
         IsLaid(t, s, Value(IF way \in {"method", "extension"} THEN "receiver" ELSE "callee",
                            Len(frames), 0), n, ArgumentsOf(Len(frames), n))
  PROVE  IsLaid(Seated(way, t, n), s, Callee(way, Len(frames)), n, ArgumentsOf(Len(frames), n))
<1>1. PICK args : args = ArgumentsOf(Len(frames), n)
  OBVIOUS
<1>2. PICK receiver : receiver = Value("receiver", Len(frames), 0)
  OBVIOUS
<1>3. receiver \in Things
  BY <1>2 DEF Value, Roles, Plain, Things
<1>4. /\ t \in Seq(Things) /\ Len(t) = Len(s) + 1 + n /\ Len(s) \in Nat
      /\ \A i \in 1 .. Len(s) : t[i] = s[i]
      /\ \A i \in 1 .. n : t[Len(s) + 1 + i] = args[i]
  BY <1>1 DEF IsLaid
<1>5. PICK u : u = Seated(way, t, n)
  OBVIOUS
<1>6. CASE way \in {"bound", "class"}
  <2>1. u = [t EXCEPT ![Len(t) - n] = receiver]
    BY <1>2, <1>5, <1>6 DEF Seated
  <2>2. Len(t) - n = Len(s) + 1 /\ Len(s) + 1 \in 1 .. Len(t)
    BY <1>4
  <2>3. u = [t EXCEPT ![Len(s) + 1] = receiver]
    BY <2>1, <2>2
  <2>4. /\ u \in Seq(Things) /\ Len(u) = Len(t) /\ u[Len(s) + 1] = receiver
        /\ \A i \in 1 .. Len(t) : i # Len(s) + 1 => u[i] = t[i]
    BY <1>3, <1>4, <2>2, <2>3
  <2>5. ASSUME NEW i \in 1 .. Len(s) PROVE u[i] = s[i]
    <3>1. i \in 1 .. Len(t) /\ i # Len(s) + 1
      BY <1>4
    <3> QED BY <1>4, <2>4, <3>1
  <2>6. ASSUME NEW i \in 1 .. n PROVE u[Len(s) + 1 + i] = args[i]
    <3>1. Len(s) + 1 + i \in 1 .. Len(t) /\ Len(s) + 1 + i # Len(s) + 1
      BY <1>4
    <3> QED BY <1>4, <2>4, <3>1
  <2>7. Callee(way, Len(frames)) = receiver
    BY <1>2, <1>6 DEF Callee
  <2> QED BY <1>1, <1>4, <1>5, <2>4, <2>5, <2>6, <2>7 DEF IsLaid
<1>7. CASE way \in {"closure", "method", "extension"}
  <2>1. u = t
    BY <1>5, <1>7 DEF Seated
  <2>2. Callee(way, Len(frames)) =
          Value(IF way \in {"method", "extension"} THEN "receiver" ELSE "callee", Len(frames), 0)
    BY <1>7 DEF Callee
  <2> QED BY <1>5, <2>1, <2>2
<1> QED BY <1>6, <1>7 DEF Ways

\* For a method written in Dictu, the receiver is the first of the arguments, too.
LEMMA ReadyIsLaid ==
  ASSUME NEW s \in Seq(Things), Len(frames) \in Nat, NEW way \in Ways, NEW n \in Nat, NEW t,
         IsLaid(t, s, Callee(way, Len(frames)), n, ArgumentsOf(Len(frames), n)),
         NEW given, given = Given(way, n, Len(frames))
  PROVE  IsLaid(IF way = "extension" THEN Shifted(t, n) ELSE t, s, Callee(way, Len(frames)),
                Len(given), given)
<1>0. IsGiven(given, way, n, Len(frames))
  BY GivenFacts, Zenon
<1>1. CASE way # "extension"
  BY <1>0, <1>1 DEF IsGiven
<1>2. CASE way = "extension"
  <2>1. PICK args : args = ArgumentsOf(Len(frames), n)
    OBVIOUS
  <2>2. PICK receiver : receiver = Value("receiver", Len(frames), 0)
    OBVIOUS
  <2>3. /\ t \in Seq(Things) /\ Len(t) = Len(s) + 1 + n /\ Len(s) \in Nat
        /\ \A i \in 1 .. Len(s) : t[i] = s[i]
        /\ t[Len(s) + 1] = receiver
        /\ \A i \in 1 .. n : t[Len(s) + 1 + i] = args[i]
    BY <1>2, <2>1, <2>2 DEF IsLaid, Callee
  <2>4. /\ Len(given) = n + 1 /\ given[1] = receiver /\ \A i \in 1 .. n : given[1 + i] = args[i]
    BY <1>0, <1>2, <2>1, <2>2 DEF IsGiven
  <2>5. PICK u : u = Shifted(t, n)
    OBVIOUS
  <2>6. PICK last : last = Peek(t, 0)
    OBVIOUS
  <2>7. last \in Things
    <3>1. Len(t) - 0 \in 1 .. Len(t)
      BY <2>3
    <3> QED BY <2>3, <2>6, <3>1, ElementOfSeq DEF Peek
  <2>8. PICK grown : grown = Append(t, last)
    OBVIOUS
  <2>9. grown \in Seq(Things) /\ Len(grown) = Len(t) + 1 /\ DOMAIN grown = 1 .. Len(t) + 1
    BY <2>3, <2>7, <2>8
  <2>10. u = [i \in 1 .. Len(t) + 1 |-> IF i > Len(t) - n THEN t[i - 1] ELSE t[i]]
    BY <2>5, <2>6, <2>8, <2>9 DEF Shifted
  <2>11. \A i \in 1 .. Len(t) + 1 : u[i] \in Things
    <3> TAKE i \in 1 .. Len(t) + 1
    <3>1. IF i > Len(t) - n THEN i - 1 \in 1 .. Len(t) ELSE i \in 1 .. Len(t)
      BY <2>3
    <3> QED BY <2>3, <2>10, <3>1, ElementOfSeq
  <2>12. u \in Seq(Things) /\ Len(u) = Len(s) + 1 + (n + 1)
    <3>1. u \in [1 .. Len(t) + 1 -> Things] /\ Len(t) + 1 \in Nat
      BY <2>3, <2>10, <2>11
    <3> QED BY <2>3, <3>1, SMTT(30)
  <2>13. \A i \in 1 .. Len(s) : u[i] = s[i]
    <3> TAKE i \in 1 .. Len(s)
    <3>1. i \in 1 .. Len(t) + 1 /\ ~ (i > Len(t) - n)
      BY <2>3
    <3> QED BY <2>3, <2>10, <3>1
  <2>14. u[Len(s) + 1] = receiver
    <3>1. Len(s) + 1 \in 1 .. Len(t) + 1 /\ ~ (Len(s) + 1 > Len(t) - n)
      BY <2>3
    <3> QED BY <2>3, <2>10, <3>1
  <2>15. ASSUME NEW i \in 1 .. n + 1 PROVE u[Len(s) + 1 + i] = given[i]
    <3>1. /\ Len(s) + 1 + i \in 1 .. Len(t) + 1 /\ Len(s) + 1 + i > Len(t) - n
          /\ Len(s) + 1 + i - 1 = Len(s) + i
      BY <2>3
    <3>2. u[Len(s) + 1 + i] = t[Len(s) + i]
      BY <2>10, <3>1
    <3>3. CASE i = 1
      BY <2>3, <2>4, <3>2, <3>3
    <3>4. CASE i # 1
      <4>1. PICK j \in 1 .. n : i = 1 + j
        <5>1. i - 1 \in 1 .. n /\ i = 1 + (i - 1)
          BY <3>4
        <5> QED BY <5>1
      <4>2. Len(s) + i = Len(s) + 1 + j
        BY <2>3, <4>1
      <4> QED BY <2>3, <2>4, <3>2, <4>1, <4>2
    <3> QED BY <3>3, <3>4
  <2> QED BY <1>2, <2>2, <2>4, <2>5, <2>12, <2>13, <2>14, <2>15 DEF IsLaid, Callee
<1> QED BY <1>1, <1>2

\* A spread parameter takes the place of the arguments it stands for.
LEMMA GatheredIsLaid ==
  ASSUME NEW f \in Functions, f.isVariadic, NEW s \in Seq(Things), NEW t, NEW callee, NEW given,
         given \in Seq(Plain), Takes(f, Len(given)), IsLaid(t, s, callee, Len(given), given),
         NEW depth, NEW e, e = Expected(f, given, depth)
  PROVE  IsLaid(Gathered(f, t, Len(given)), s, callee, f.arity, e)
<1>0. PICK n : n = Len(given)
  OBVIOUS
<1>1. PICK a : a = f.arity
  OBVIOUS
<1>2. n \in Nat /\ a \in Nat /\ a > 0 /\ Parameters(f) = a /\ n + 1 >= a /\ Len(s) \in Nat
  BY <1>0, <1>1, FunctionFacts, TakenFacts
<1>3. /\ t \in Seq(Things) /\ Len(t) = Len(s) + 1 + n
      /\ \A i \in 1 .. Len(s) : t[i] = s[i]
      /\ t[Len(s) + 1] = callee
      /\ \A i \in 1 .. n : t[Len(s) + 1 + i] = given[i]
  <2> HIDE DEF IsLaid
  <2>1. IsLaid(t, s, callee, n, given)
    BY <1>0
  <2> QED BY <2>1 DEF IsLaid
<1>4. \A i \in 1 .. a : e[i] = IF i = a THEN List(SubSeq(given, a, n)) ELSE given[i]
  <2> TAKE i \in 1 .. a
  <2>1. e[i] = Binding(f, given, depth, e, i)
    <3>1. IsExpected(e, f, given, depth)
      BY <1>0, <1>2, ExpectedFacts, Zenon
    <3> QED BY <1>2, <3>1 DEF IsExpected
  <2>2. i = f.arity \/ i <= n
    BY <1>1, <1>2
  <2> QED BY <1>0, <1>1, <2>1, <2>2 DEF Binding
<1>5. PICK g : g = Gathered(f, t, Len(given))
  OBVIOUS
<1>6. CASE n < a
  <2>1. n = a - 1
    BY <1>2, <1>6
  <2>2. <<>> \in Seq(Plain)
    OBVIOUS
  <2>3. PICK list : list = List(<<>>)
    OBVIOUS
  <2>4. list \in Things
    BY <2>2, <2>3, ListFacts
  <2>5. g = Append(t, list)
    BY <1>0, <1>1, <1>5, <1>6, <2>3 DEF Gathered
  <2>6. IsAppend(g, t, list, Things)
    BY <1>3, <2>4, <2>5, AppendFacts, Zenon
  <2>7. SubSeq(given, a, n) = <<>>
    <3>1. a > n
      BY <1>6, <1>2
    <3> QED BY <1>0, <1>2, <3>1
  <2>8. g \in Seq(Things) /\ Len(g) = Len(s) + 1 + a
    <3>1. g \in Seq(Things) /\ Len(g) = Len(t) + 1
      BY <2>6 DEF IsAppend
    <3>2. PICK k \in Nat : k = Len(s)
      BY <1>2
    <3>3. Len(t) = k + 1 + n
      BY <1>3, <3>2
    <3>4. Len(g) = k + 1 + n + 1
      BY <3>1, <3>3, Zenon
    <3>5. Len(g) = k + 1 + a
      BY <1>2, <2>1, <3>4
    <3> QED BY <3>1, <3>2, <3>5, Zenon
  <2>9. /\ \A i \in 1 .. Len(s) : g[i] = s[i]
        /\ g[Len(s) + 1] = callee
    BY <1>2, <1>3, <2>6 DEF IsAppend
  <2>10. ASSUME NEW i \in 1 .. a PROVE g[Len(s) + 1 + i] = e[i]
    <3>1. CASE i = a
      <4>1. Len(s) + 1 + i = Len(t) + 1
        BY <1>2, <1>3, <2>1, <3>1
      <4> QED BY <1>4, <2>3, <2>6, <2>7, <3>1, <4>1 DEF IsAppend
    <3>2. CASE i # a
      <4>1. i \in 1 .. n /\ Len(s) + 1 + i \in 1 .. Len(t)
        BY <1>2, <1>3, <2>1, <3>2
      <4> QED BY <1>3, <1>4, <2>6, <3>2, <4>1 DEF IsAppend
    <3> QED BY <3>1, <3>2
  <2> QED BY <1>1, <1>5, <2>8, <2>9, <2>10 DEF IsLaid
<1>7. CASE ~ (n < a)
  <2>1. PICK surplus : surplus = n - a + 1
    OBVIOUS
  <2>2. surplus \in 0 .. Len(t) /\ surplus \in 0 .. n /\ n - surplus = a - 1
        /\ Len(t) - surplus = Len(s) + 1 + (a - 1)
    BY <1>2, <1>3, <1>7, <2>1
  <2>3. PICK low : low = Drop(t, surplus)
    OBVIOUS
  <2>4. IsDrop(low, t, surplus, Things)
    BY <1>3, <2>2, <2>3, DropFacts, Zenon
  <2>5. PICK high : high = LastOf(t, surplus)
    OBVIOUS
  <2>6. IsLastOf(high, t, surplus, Things)
    BY <1>3, <2>2, <2>5, LastOfFacts, Zenon
  <2>7. PICK rest : rest = SubSeq(given, a, n)
    OBVIOUS
  <2>8. rest \in Seq(Plain) /\ Len(rest) = surplus
        /\ \A i \in 1 .. surplus : rest[i] = given[a + i - 1]
    <3>1. a \in 1 .. n + 1 /\ n - a + 1 = surplus
      BY <1>2, <1>7, <2>1
    <3>2. rest \in Seq(Plain)
      BY <1>0, <1>2, <1>7, <2>7, ElementOfSeq
    <3>3. Len(rest) = surplus
      BY <1>0, <1>2, <1>7, <2>1, <2>7
    <3>4. ASSUME NEW i \in 1 .. surplus PROVE rest[i] = given[a + i - 1]
      BY <1>0, <1>2, <1>7, <2>1, <2>7, <3>4
    <3> QED BY <3>2, <3>3, <3>4
  <2>9. high = rest
    <3>1. high \in Seq(Things) /\ Len(high) = surplus
      BY <2>6 DEF IsLastOf
    <3>2. ASSUME NEW i \in 1 .. surplus PROVE high[i] = rest[i]
      <4>1. /\ high[i] = t[Len(t) - surplus + i]
            /\ Len(t) - surplus + i = Len(s) + 1 + (a + i - 1) /\ a + i - 1 \in 1 .. n
        <5>1. high[i] = t[Len(t) - surplus + i]
          BY <2>6 DEF IsLastOf
        <5>2. Len(t) \in Nat /\ surplus \in Nat
          BY <1>2, <1>3, <2>2
        <5>3. Len(t) - surplus + i = Len(s) + 1 + (a + i - 1)
          BY <1>2, <2>2, <5>2
        <5>4. a + i - 1 \in 1 .. n
          BY <1>2, <2>1, <5>2
        <5> QED BY <5>1, <5>3, <5>4
      <4> QED BY <1>3, <2>8, <4>1
    <3> QED BY <2>8, <3>1, <3>2
  <2>10. PICK list : list = List(rest)
    OBVIOUS
  <2>11. list \in Things
    BY <2>8, <2>10, ListFacts
  <2>12. g = Append(low, list)
    BY <1>0, <1>1, <1>5, <1>7, <2>1, <2>3, <2>5, <2>9, <2>10 DEF Gathered
  <2>13. low \in Seq(Things) /\ Len(low) = Len(s) + 1 + (a - 1)
         /\ \A i \in 1 .. Len(s) + 1 + (a - 1) : low[i] = t[i]
    BY <2>2, <2>4 DEF IsDrop
  <2>14. IsAppend(g, low, list, Things)
    BY <2>11, <2>12, <2>13, AppendFacts, Zenon
  <2>15. g \in Seq(Things) /\ Len(g) = Len(s) + 1 + a
    <3>1. g \in Seq(Things) /\ Len(g) = Len(low) + 1
      BY <2>14 DEF IsAppend
    <3> QED BY <1>2, <1>3, <2>13, <3>1
  <2>16. \A i \in 1 .. Len(s) + 1 + (a - 1) : g[i] = t[i]
    BY <2>13, <2>14 DEF IsAppend
  <2>17. /\ \A i \in 1 .. Len(s) : g[i] = s[i]
         /\ g[Len(s) + 1] = callee
    <3>1. ASSUME NEW i \in 1 .. Len(s) PROVE i \in 1 .. Len(s) + 1 + (a - 1)
      BY <1>2
    <3>2. Len(s) + 1 \in 1 .. Len(s) + 1 + (a - 1)
      BY <1>2
    <3> QED BY <1>3, <2>16, <3>1, <3>2
  <2>18. ASSUME NEW i \in 1 .. a PROVE g[Len(s) + 1 + i] = e[i]
    <3>1. CASE i = a
      <4>1. Len(s) + 1 + i = Len(low) + 1
        BY <1>2, <1>3, <2>13, <3>1
      <4> QED BY <1>4, <2>7, <2>10, <2>14, <3>1, <4>1 DEF IsAppend
    <3>2. CASE i # a
      <4>1. i \in 1 .. n /\ Len(s) + 1 + i \in 1 .. Len(s) + 1 + (a - 1)
        BY <1>2, <1>3, <1>7, <3>2, SMTT(30)
      <4> QED BY <1>3, <1>4, <2>16, <3>2, <4>1
    <3> QED BY <3>1, <3>2
  <2> QED BY <1>1, <1>5, <2>15, <2>17, <2>18 DEF IsLaid
<1> QED BY <1>6, <1>7

----------------------------------------------------------------------------
(* Frames, one on the other. *)

\* What a frame's call was given.
LEMMA CallFacts ==
  ASSUME NEW frame, IsCall(frame), NEW k \in Nat \ {0}
  PROVE  /\ frame \in Frames /\ frame.function \in Functions /\ frame.slots \in Nat
         /\ Received(frame) \in Nat /\ Takes(frame.function, Received(frame))
         /\ GivenTo(frame, k) \in Seq(Plain) /\ Len(GivenTo(frame, k)) = Received(frame)
<1>1. /\ frame \in Frames /\ frame.function \in Functions /\ frame.way \in Ways
      /\ frame.given \in Nat /\ frame.slots \in Nat /\ Takes(frame.function, Received(frame))
  BY DEF IsCall, Frames
<1>2. PICK depth : depth = k - 1
  OBVIOUS
<1>3. PICK given : given = Given(frame.way, frame.given, depth)
  OBVIOUS
<1>4. depth \in Nat
  BY <1>2
<1>5. IsGiven(given, frame.way, frame.given, depth)
  BY <1>1, <1>3, <1>4, GivenFacts, Zenon
<1>6. given \in Seq(Plain) /\ Len(given) = Received(frame) /\ Received(frame) \in Nat
  BY <1>1, <1>5 DEF IsGiven, Received
<1> QED BY <1>1, <1>2, <1>3, <1>6 DEF GivenTo

\* A frame is its own part of the stack.
LEMMA FrameStays ==
  ASSUME NEW s, NEW t, NEW frame, NEW k \in Nat \ {0}, NEW end \in Nat,
         IsFrame(s, frame, k, end), \A i \in 1 .. end : t[i] = s[i]
  PROVE  IsFrame(t, frame, k, end)
<1>1. PICK f : f = frame.function
  OBVIOUS
<1>2. PICK b : b = frame.slots
  OBVIOUS
<1>3. PICK r : r = Received(frame)
  OBVIOUS
<1>4. b \in Nat /\ r \in Nat /\ f \in Functions /\ IsCall(frame) /\ b < end
  BY <1>1, <1>2, <1>3, CallFacts DEF IsFrame
<1>5. PICK p : p = Parameters(f)
  OBVIOUS
<1>6. p \in Nat
  BY <1>4, <1>5, FunctionFacts
<1>7. t[b + 1] = s[b + 1]
  BY <1>4
<1>8. CASE frame.pc = "defaults"
  <2>1. IsDefaulting(s, frame, k, end)
    BY <1>8 DEF IsFrame
  <2>2. end - b - 1 - r \in 0 .. ArityOptional(f) /\ ArityOptional(f) \in Nat
    BY <1>1, <1>2, <1>3, <1>4, <2>1, FunctionFacts DEF IsDefaulting
  <2>3. \A i \in 1 .. r : b + 1 + i \in 1 .. end
    BY <1>4, <2>2
  <2>4. \A i \in 1 .. end - b - 1 - r : b + 1 + r + i \in 1 .. end
    BY <1>4, <2>2
  <2>5. IsDefaulting(t, frame, k, end)
    BY <1>1, <1>2, <1>3, <2>1, <2>3, <2>4 DEF IsDefaulting
  <2> QED BY <1>2, <1>7, <1>8, <2>5 DEF IsFrame
<1>9. CASE frame.pc # "defaults"
  <2>1. IsReady(s, frame, k, end)
    BY <1>9 DEF IsFrame
  <2>2. end >= b + 1 + p
    BY <1>1, <1>2, <1>5, <2>1 DEF IsReady
  <2>3. \A i \in 1 .. p : b + 1 + i \in 1 .. end
    BY <1>4, <1>6, <2>2
  <2>4. \A i \in b + p + 2 .. end : i \in 1 .. end
    BY <1>4, <1>6
  <2>5. IsReady(t, frame, k, end)
    BY <1>1, <1>2, <1>5, <2>1, <2>3, <2>4 DEF IsReady
  <2> QED BY <1>2, <1>7, <1>9, <2>5 DEF IsFrame
<1> QED BY <1>8, <1>9

\* The frames of a stack, and where they end.
LEMMA StackFacts ==
  ASSUME NEW s, NEW fs, IsStack(s, fs)
  PROVE  /\ s \in Seq(Things) /\ Len(s) \in Nat /\ Len(s) > 0
         /\ fs \in Seq(Frames \cup {Main}) /\ Len(fs) \in Nat \ {0}
         /\ \A k \in 1 .. Len(fs) : fs[k].slots \in Nat /\ EndIn(s, fs, k) \in 1 .. Len(s)
         /\ \A k \in 1 .. Len(fs) - 1 : EndIn(s, fs, k) <= fs[Len(fs)].slots
         /\ fs[Len(fs)].slots < Len(s)
<1>0. PICK n : n = Len(fs)
  OBVIOUS
<1>1. /\ s \in Seq(Things) /\ Len(s) \in Nat /\ s # <<>> /\ fs \in Seq(Frames \cup {Main})
      /\ n \in Nat \ {0} /\ \A k \in 1 .. n : fs[k].slots < EndIn(s, fs, k)
  BY <1>0 DEF IsStack
<1>2. Len(s) > 0
  BY <1>1
<1>3. ASSUME NEW k \in 1 .. n PROVE fs[k].slots \in Nat
  <2>1. fs[k] \in Frames \cup {Main}
    BY <1>0, <1>1
  <2> QED BY <2>1 DEF Frames, Main
<1>4. fs[n].slots < Len(s) /\ EndIn(s, fs, n) = Len(s) /\ n \in 1 .. n
  BY <1>0, <1>1 DEF EndIn
<1>5. ASSUME NEW k \in 1 .. n - 1
      PROVE  /\ k \in 1 .. n /\ k + 1 \in 1 .. n /\ EndIn(s, fs, k) = fs[k + 1].slots
             /\ fs[k].slots < fs[k + 1].slots
  BY <1>0, <1>1 DEF EndIn
<1> DEFINE Below == {j \in 0 .. n - 1 : fs[n - j].slots <= fs[n].slots}
<1>6. ASSUME NEW j \in 0 .. n - 1, \A i \in 0 .. j - 1 : i \in Below
      PROVE  j \in Below
  <2>1. CASE j = 0
    <3>1. n - j = n
      BY <1>1, <2>1
    <3> QED BY <1>3, <1>4, <3>1
  <2>2. CASE j # 0
    <3>1. j - 1 \in 0 .. j - 1
      BY <2>2
    <3>2. fs[n - (j - 1)].slots <= fs[n].slots
      BY <1>6, <3>1
    <3>3. n - j \in 1 .. n - 1 /\ n - (j - 1) = n - j + 1
      BY <1>1, <2>2
    <3>4. /\ n - j \in 1 .. n /\ n - j + 1 \in 1 .. n /\ fs[n - j].slots < fs[n - j + 1].slots
      BY <1>5, <3>3
    <3>5. fs[n - j].slots \in Nat /\ fs[n - j + 1].slots \in Nat /\ fs[n].slots \in Nat
      BY <1>3, <1>4, <3>4
    <3> QED BY <3>2, <3>3, <3>4, <3>5
  <2> QED BY <2>1, <2>2
<1>7. \A j \in 0 .. n - 1 : j \in Below
  <2>1. n - 1 \in Nat
    BY <1>1
  <2> HIDE DEF Below
  <2> QED BY <1>6, <2>1, Induction
<1>8. ASSUME NEW k \in 1 .. n - 1
      PROVE  EndIn(s, fs, k) <= fs[n].slots /\ EndIn(s, fs, k) \in 1 .. Len(s)
  <2>1. n - (k + 1) \in 0 .. n - 1 /\ n - (n - (k + 1)) = k + 1
    BY <1>1
  <2>2. n - (k + 1) \in Below
    BY <1>7, <2>1
  <2>3. fs[k + 1].slots <= fs[n].slots
    BY <2>1, <2>2
  <2>4. fs[k].slots \in Nat /\ fs[k + 1].slots \in Nat /\ fs[n].slots \in Nat
    BY <1>3, <1>4, <1>5
  <2>5. PICK e : e = fs[k + 1].slots
    OBVIOUS
  <2>6. e \in Nat /\ e > 0 /\ e <= fs[n].slots /\ fs[n].slots < Len(s)
    BY <1>4, <1>5, <2>3, <2>4, <2>5
  <2>7. e \in 1 .. Len(s)
    BY <1>1, <2>4, <2>6
  <2> QED BY <1>5, <2>5, <2>6, <2>7
<1>9. ASSUME NEW k \in 1 .. n PROVE EndIn(s, fs, k) \in 1 .. Len(s)
  <2>1. CASE k = n
    BY <1>1, <1>2, <1>4, <2>1
  <2>2. CASE k # n
    <3>1. k \in 1 .. n - 1
      BY <1>1, <2>2
    <3> QED BY <1>8, <3>1
  <2> QED BY <2>1, <2>2
<1> QED BY <1>0, <1>1, <1>2, <1>3, <1>4, <1>8, <1>9

\* A call puts a frame on top.
LEMMA FramePushed ==
  ASSUME NEW s, NEW fs, IsStack(s, fs), fs[Len(fs)].pc = "body", Len(fs) < MaxFrames,
         NEW t \in Seq(Things), Len(t) > Len(s), \A i \in 1 .. Len(s) : t[i] = s[i],
         NEW frame, frame.slots = Len(s), IsFrame(t, frame, Len(fs) + 1, Len(t))
  PROVE  IsStack(t, Append(fs, frame))
<1>1. PICK n : n = Len(fs)
  OBVIOUS
<1>2. /\ Len(s) \in Nat /\ Len(s) > 0 /\ fs \in Seq(Frames \cup {Main}) /\ n \in Nat \ {0}
      /\ \A k \in 1 .. n : fs[k].slots \in Nat /\ EndIn(s, fs, k) \in 1 .. Len(s)
  BY <1>1, StackFacts
<1>3. frame \in Frames
  BY DEF IsFrame, IsCall
<1>4. PICK gs : gs = Append(fs, frame)
  OBVIOUS
<1>5. /\ gs \in Seq(Frames \cup {Main}) /\ Len(gs) = n + 1 /\ gs[n + 1] = frame
      /\ \A k \in 1 .. n : gs[k] = fs[k]
  BY <1>1, <1>2, <1>3, <1>4
<1>6. \A k \in 1 .. n : EndIn(t, gs, k) = EndIn(s, fs, k)
  <2> TAKE k \in 1 .. n
  <2>1. CASE k = n
    BY <1>1, <1>2, <1>5, <2>1 DEF EndIn
  <2>2. CASE k # n
    <3>1. k < n /\ k + 1 \in 1 .. n
      BY <1>2, <2>2
    <3> QED BY <1>1, <1>2, <1>5, <3>1 DEF EndIn
  <2> QED BY <2>1, <2>2
<1>7. EndIn(t, gs, n + 1) = Len(t)
  BY <1>2, <1>5 DEF EndIn
<1>8. ASSUME NEW k \in 1 .. n + 1
      PROVE  /\ gs[k].slots < EndIn(t, gs, k)
             /\ k < n + 1 => gs[k].pc = "body"
             /\ k > 1 => IsFrame(t, gs[k], k, EndIn(t, gs, k))
  <2>1. CASE k = n + 1
    BY <1>1, <1>2, <1>5, <1>7, <2>1
  <2>2. CASE k # n + 1
    <3>1. k \in 1 .. n /\ gs[k] = fs[k] /\ EndIn(t, gs, k) = EndIn(s, fs, k)
      BY <1>2, <1>5, <1>6, <2>2
    <3>2. fs[k].pc = "body" /\ fs[k].slots < EndIn(s, fs, k)
          /\ (k > 1 => IsFrame(s, fs[k], k, EndIn(s, fs, k)))
      <4>1. k < n \/ k = n
        BY <1>2, <3>1
      <4> QED BY <1>1, <3>1, <4>1 DEF IsStack
    <3>3. k > 1 => IsFrame(t, fs[k], k, EndIn(s, fs, k))
      <4> SUFFICES ASSUME k > 1 PROVE IsFrame(t, fs[k], k, EndIn(s, fs, k))
        OBVIOUS
      <4>1. PICK end : end = EndIn(s, fs, k)
        OBVIOUS
      <4>2. end \in Nat /\ \A i \in 1 .. end : t[i] = s[i]
        BY <1>2, <3>1, <4>1
      <4>3. IsFrame(s, fs[k], k, end) /\ k \in Nat \ {0}
        BY <3>1, <3>2, <4>1
      <4> QED BY <4>1, <4>2, <4>3, FrameStays
    <3> QED BY <3>1, <3>2, <3>3
  <2> QED BY <2>1, <2>2
<1>9. t # <<>> /\ t[1] = Script /\ gs[1] = Main /\ Len(gs) \in 1 .. MaxFrames
  <2>1. s[1] = Script /\ fs[1] = Main
    BY DEF IsStack
  <2>2. t # <<>>
    BY <1>2
  <2>3. 1 \in 1 .. Len(s) /\ 1 \in 1 .. n
    BY <1>2
  <2>4. t[1] = Script /\ gs[1] = Main
    BY <1>5, <2>1, <2>3
  <2>5. Len(gs) \in 1 .. MaxFrames
    BY <1>1, <1>2, <1>5, ArgumentsAssumption
  <2> QED BY <2>2, <2>4, <2>5
<1> QED BY <1>4, <1>5, <1>8, <1>9 DEF IsStack

\* The code of a function works on the top of the stack.
LEMMA FrameChanged ==
  ASSUME NEW s, NEW fs, IsStack(s, fs), NEW t \in Seq(Things), Len(t) > fs[Len(fs)].slots,
         \A i \in 1 .. fs[Len(fs)].slots : t[i] = s[i],
         NEW frame \in Frames \cup {Main}, frame.slots = fs[Len(fs)].slots,
         IF Len(fs) = 1 THEN frame = Main /\ t[1] = Script ELSE IsFrame(t, frame, Len(fs), Len(t)),
         NEW gs, gs = [fs EXCEPT ![Len(fs)] = frame]
  PROVE  IsStack(t, gs)
<1>1. PICK n : n = Len(fs)
  OBVIOUS
<1>2. /\ Len(s) \in Nat /\ Len(s) > 0 /\ fs \in Seq(Frames \cup {Main}) /\ n \in Nat \ {0}
      /\ \A k \in 1 .. n : fs[k].slots \in Nat /\ EndIn(s, fs, k) \in 1 .. Len(s)
  BY <1>1, StackFacts
<1>3. /\ gs \in Seq(Frames \cup {Main}) /\ Len(gs) = n /\ gs[n] = frame
      /\ \A k \in 1 .. n - 1 : gs[k] = fs[k]
  BY <1>1, <1>2
<1>4. ASSUME NEW k \in 1 .. n - 1
      PROVE  EndIn(t, gs, k) = EndIn(s, fs, k) /\ EndIn(t, gs, k) <= fs[n].slots
  <2>1. EndIn(t, gs, k) = fs[k + 1].slots /\ EndIn(s, fs, k) = fs[k + 1].slots
    <3>1. CASE k + 1 = n
      BY <1>1, <1>2, <1>3, <3>1 DEF EndIn
    <3>2. CASE k + 1 # n
      <4>1. k + 1 \in 1 .. n - 1
        BY <1>2, <3>2
      <4> QED BY <1>1, <1>2, <1>3, <4>1 DEF EndIn
    <3> QED BY <3>1, <3>2
  <2>2. EndIn(s, fs, k) <= fs[n].slots
    BY <1>1, StackFacts
  <2> QED BY <2>1, <2>2
<1>5. EndIn(t, gs, n) = Len(t)
  BY <1>2, <1>3 DEF EndIn
<1>6. ASSUME NEW k \in 1 .. n
      PROVE  /\ gs[k].slots < EndIn(t, gs, k)
             /\ k < n => gs[k].pc = "body"
             /\ k > 1 => IsFrame(t, gs[k], k, EndIn(t, gs, k))
  <2>1. CASE k = n
    BY <1>1, <1>2, <1>3, <1>5, <2>1
  <2>2. CASE k # n
    <3>0. k \in 1 .. n - 1
      BY <1>2, <2>2
    <3>1. k \in 1 .. n - 1 /\ gs[k] = fs[k] /\ EndIn(t, gs, k) = EndIn(s, fs, k)
      BY <1>3, <1>4, <3>0
    <3>2. /\ fs[k].pc = "body" /\ fs[k].slots < EndIn(s, fs, k)
          /\ k > 1 => IsFrame(s, fs[k], k, EndIn(s, fs, k))
      <4>1. k \in 1 .. Len(fs) /\ k < Len(fs)
        BY <1>1, <1>2, <3>1
      <4> QED BY <4>1 DEF IsStack
    <3>3. k > 1 => IsFrame(t, fs[k], k, EndIn(s, fs, k))
      <4> SUFFICES ASSUME k > 1 PROVE IsFrame(t, fs[k], k, EndIn(s, fs, k))
        OBVIOUS
      <4>1. PICK end : end = EndIn(s, fs, k)
        OBVIOUS
      <4>2. end \in Nat /\ end <= fs[n].slots /\ fs[n].slots \in Nat
        BY <1>2, <1>4, <3>1, <4>1
      <4>3. \A i \in 1 .. end : t[i] = s[i]
        BY <1>1, <4>2
      <4>4. IsFrame(s, fs[k], k, end) /\ k \in Nat \ {0}
        BY <3>1, <3>2, <4>1
      <4> QED BY <4>1, <4>2, <4>3, <4>4, FrameStays
    <3> QED BY <3>1, <3>2, <3>3
  <2> QED BY <2>1, <2>2
<1>7. t # <<>>
  <2>1. n \in 1 .. n /\ Len(t) > 0
    BY <1>1, <1>2
  <2> QED BY <2>1
<1>8. t[1] = Script /\ gs[1] = Main
  <2>1. s[1] = Script /\ fs[1] = Main
    BY DEF IsStack
  <2>2. CASE n = 1
    BY <1>1, <1>3, <2>2
  <2>3. CASE n # 1
    <3>1. 1 \in 1 .. n - 1 /\ 1 \in 1 .. n /\ n \in 1 .. n
      BY <1>2, <2>3
    <3>2. EndIn(s, fs, 1) <= fs[n].slots /\ EndIn(s, fs, 1) \in 1 .. Len(s) /\ fs[n].slots \in Nat
      BY <1>2, <1>4, <3>1
    <3>3. t[1] = s[1]
      BY <1>1, <1>2, <3>2
    <3> QED BY <1>3, <2>1, <3>1, <3>3
  <2> QED BY <2>2, <2>3
<1>9. Len(gs) \in 1 .. MaxFrames
  BY <1>1, <1>3 DEF IsStack
<1> QED BY <1>3, <1>6, <1>7, <1>8, <1>9 DEF IsStack

\* A call that comes back leaves its value to the frame below.
LEMMA ReadyGrows ==
  ASSUME NEW s, NEW t, NEW frame, NEW k \in Nat \ {0}, NEW end \in Nat, frame.pc = "body",
         IsFrame(s, frame, k, end), \A i \in 1 .. end : t[i] = s[i], t[end + 1] \in Left(k)
  PROVE  IsFrame(t, frame, k, end + 1)
<1>1. IsFrame(t, frame, k, end)
  BY FrameStays
<1>2. PICK p : p = Parameters(frame.function)
  OBVIOUS
<1>3. PICK b : b = frame.slots
  OBVIOUS
<1>4. b \in Nat /\ p \in Nat /\ b < end
  BY <1>1, <1>2, <1>3, CallFacts, FunctionFacts DEF IsFrame
<1>5. IsReady(t, frame, k, end)
  BY <1>1 DEF IsFrame
<1>6. end + 1 >= b + 1 + p /\ b < end + 1
  BY <1>2, <1>3, <1>4, <1>5 DEF IsReady
<1>7. ASSUME NEW i \in b + p + 2 .. end + 1 PROVE t[i] \in Left(k)
  <2>1. CASE i = end + 1
    BY <2>1
  <2>2. CASE i # end + 1
    <3>1. i \in b + p + 2 .. end
      BY <1>4, <2>2
    <3> QED BY <1>2, <1>3, <1>5, <3>1 DEF IsReady
  <2> QED BY <2>1, <2>2
<1>8. IsReady(t, frame, k, end + 1)
  BY <1>2, <1>3, <1>5, <1>6, <1>7 DEF IsReady
<1> QED BY <1>1, <1>3, <1>6, <1>8 DEF IsFrame

\* A value that is not a parameter is discarded.
LEMMA ReadyShrinks ==
  ASSUME NEW s, NEW t, NEW frame, NEW k \in Nat \ {0}, NEW end \in Nat, frame.pc = "body",
         IsFrame(s, frame, k, end), end > frame.slots + 1 + Parameters(frame.function),
         \A i \in 1 .. end - 1 : t[i] = s[i]
  PROVE  IsFrame(t, frame, k, end - 1)
<1>1. PICK p : p = Parameters(frame.function)
  OBVIOUS
<1>2. PICK b : b = frame.slots
  OBVIOUS
<1>3. b \in Nat /\ p \in Nat /\ b < end
  BY <1>1, <1>2, CallFacts, FunctionFacts DEF IsFrame
<1>4. IsReady(s, frame, k, end)
  BY DEF IsFrame
<1>5. end - 1 >= b + 1 + p /\ b < end - 1 /\ end - 1 \in Nat
  BY <1>1, <1>2, <1>3
<1>6. IsReady(s, frame, k, end - 1)
  <2>1. \A i \in b + p + 2 .. end - 1 : i \in b + p + 2 .. end
    BY <1>3
  <2> QED BY <1>1, <1>2, <1>4, <1>5, <2>1 DEF IsReady
<1>7. IsFrame(s, frame, k, end - 1)
  BY <1>2, <1>5, <1>6 DEF IsFrame
<1>8. PICK e : e = end - 1
  OBVIOUS
<1> QED BY <1>5, <1>7, <1>8, FrameStays

\* The frame below goes on.
LEMMA FramePopped ==
  ASSUME NEW s, NEW fs, IsStack(s, fs), Len(fs) > 1,
         NEW t \in Seq(Things), Len(t) = fs[Len(fs)].slots + 1,
         \A i \in 1 .. fs[Len(fs)].slots : t[i] = s[i],
         t[fs[Len(fs)].slots + 1] \in Left(Len(fs) - 1)
  PROVE  IsStack(t, SubSeq(fs, 1, Len(fs) - 1))
<1>1. PICK n : n = Len(fs)
  OBVIOUS
<1>2. /\ Len(s) \in Nat /\ Len(s) > 0 /\ fs \in Seq(Frames \cup {Main}) /\ n \in Nat \ {0} /\ n > 1
      /\ \A k \in 1 .. n : fs[k].slots \in Nat /\ EndIn(s, fs, k) \in 1 .. Len(s)
      /\ \A k \in 1 .. n - 1 : EndIn(s, fs, k) <= fs[n].slots
  BY <1>1, StackFacts
<1>3. PICK gs : gs = SubSeq(fs, 1, n - 1)
  OBVIOUS
<1>4. /\ gs \in Seq(Frames \cup {Main}) /\ Len(gs) = n - 1
      /\ \A k \in 1 .. n - 1 : gs[k] = fs[k]
  <2>1. PICK m : m = n - 1
    OBVIOUS
  <2>2. m \in 1 .. Len(fs) /\ gs = SubSeq(fs, 1, m)
    BY <1>1, <1>2, <1>3, <2>1
  <2>3. \A k \in 1 .. Len(fs) : fs[k] \in Frames \cup {Main}
    BY <1>2, ElementOfSeq
  <2>4. gs \in Seq(Frames \cup {Main}) /\ Len(gs) = m /\ \A k \in 1 .. m : gs[k] = fs[k]
    BY <1>2, <2>2, <2>3
  <2> QED BY <2>1, <2>4
<1>5. PICK b : b = fs[n].slots
  OBVIOUS
<1>6. b \in Nat /\ Len(t) = b + 1 /\ t[b + 1] \in Left(n - 1) /\ \A i \in 1 .. b : t[i] = s[i]
  BY <1>1, <1>2, <1>5
<1>7. /\ n - 1 \in 1 .. n /\ EndIn(s, fs, n - 1) = b
      /\ EndIn(t, gs, n - 1) = b + 1 /\ fs[n - 1].pc = "body"
  <2>1. n - 1 \in 1 .. n /\ n - 1 < n /\ n - 1 + 1 = n
    BY <1>2
  <2> QED BY <1>1, <1>4, <1>5, <1>6, <2>1 DEF EndIn, IsStack
<1>8. ASSUME NEW k \in 1 .. n - 1
      PROVE  /\ gs[k].slots < EndIn(t, gs, k)
             /\ k < n - 1 => gs[k].pc = "body"
             /\ k > 1 => IsFrame(t, gs[k], k, EndIn(t, gs, k))
  <2>0. k \in 1 .. n /\ k < n /\ k \in Nat \ {0}
    BY <1>2
  <2>1. /\ fs[k].pc = "body" /\ fs[k].slots < EndIn(s, fs, k) /\ gs[k] = fs[k]
        /\ k > 1 => IsFrame(s, fs[k], k, EndIn(s, fs, k))
    BY <1>1, <1>4, <2>0 DEF IsStack
  <2>2. CASE k = n - 1
    <3>1. fs[k].slots < b + 1
      BY <1>2, <1>6, <1>7, <2>0, <2>1, <2>2, SMTT(30)
    <3>2. k > 1 => IsFrame(t, fs[k], k, b + 1)
      BY <1>6, <1>7, <2>0, <2>1, <2>2, ReadyGrows
    <3> QED BY <1>7, <2>1, <2>2, <3>1, <3>2
  <2>3. CASE k # n - 1
    <3>1. k < n - 1 /\ k + 1 \in 1 .. n - 1
      BY <1>2, <2>3
    <3>2. PICK end : end = EndIn(s, fs, k)
      OBVIOUS
    <3>3. EndIn(t, gs, k) = end
      BY <1>1, <1>4, <2>0, <3>1, <3>2 DEF EndIn
    <3>4. end \in Nat /\ end <= b
      BY <1>2, <1>5, <2>0, <3>2, SMTT(30)
    <3>5. \A i \in 1 .. end : t[i] = s[i]
      BY <1>6, <3>4
    <3>6. k > 1 => IsFrame(t, fs[k], k, end)
      BY <2>0, <2>1, <3>2, <3>4, <3>5, FrameStays
    <3> QED BY <2>1, <3>2, <3>3, <3>6
  <2> QED BY <2>2, <2>3
<1>9. t # <<>>
  BY <1>6
<1>10. t[1] = Script /\ gs[1] = Main
  <2>1. s[1] = Script /\ fs[1] = Main
    BY DEF IsStack
  <2>2. 1 \in 1 .. n - 1 /\ 1 \in 1 .. n
    BY <1>2
  <2>3. EndIn(s, fs, 1) <= b /\ EndIn(s, fs, 1) \in 1 .. Len(s)
    BY <1>2, <1>5, <2>2
  <2>4. 1 \in 1 .. b
    BY <1>2, <1>6, <2>3
  <2> QED BY <1>4, <1>6, <2>1, <2>2, <2>4
<1>11. Len(gs) \in 1 .. MaxFrames
  <2>1. n <= MaxFrames
    BY <1>1 DEF IsStack
  <2> QED BY <1>2, <1>4, <2>1, ArgumentsAssumption
<1> QED BY <1>1, <1>3, <1>4, <1>8, <1>9, <1>10, <1>11 DEF IsStack

----------------------------------------------------------------------------
(* What each step keeps. *)

\* The frame on top.
LEMMA TopFacts ==
  ASSUME ArgumentsInv
  PROVE  /\ IsStack(stack, frames) /\ stack \in Seq(Things) /\ Len(stack) \in Nat /\ Len(stack) > 0
         /\ frames \in Seq(Frames \cup {Main}) /\ Len(frames) \in Nat \ {0}
         /\ Top \in Frames \cup {Main} /\ Top.slots \in Nat /\ Top.slots < Len(stack)
         /\ Len(frames) = 1 => Top = Main
         /\ Len(frames) # 1 => IsFrame(stack, Top, Len(frames), Len(stack))
         /\ Len(Locals(Top)) = Len(stack) - Top.slots
<1>1. IsStack(stack, frames)
  BY DEF ArgumentsInv
<1>2. /\ stack \in Seq(Things) /\ Len(stack) \in Nat /\ Len(stack) > 0
      /\ frames \in Seq(Frames \cup {Main}) /\ Len(frames) \in Nat \ {0}
      /\ frames[Len(frames)].slots < Len(stack)
      /\ \A k \in 1 .. Len(frames) : frames[k].slots \in Nat
  BY <1>1, StackFacts
<1>3. Len(frames) \in 1 .. Len(frames)
  BY <1>2
<1>4. Top \in Frames \cup {Main} /\ Top.slots \in Nat
  BY <1>2, <1>3 DEF Top
<1>5. Len(frames) = 1 => Top = Main
  BY <1>1 DEF Top, IsStack
<1>6. Len(frames) # 1 => IsFrame(stack, Top, Len(frames), Len(stack))
  <2> SUFFICES ASSUME Len(frames) # 1 PROVE IsFrame(stack, Top, Len(frames), Len(stack))
    OBVIOUS
  <2>1. PICK n : n = Len(frames)
    OBVIOUS
  <2>2. n > 1 /\ ~ (n < n)
    BY <1>2, <2>1
  <2>3. EndIn(stack, frames, n) = Len(stack)
    BY <2>1, <2>2 DEF EndIn
  <2> QED BY <1>1, <1>3, <2>1, <2>2, <2>3 DEF IsStack, Top
<1>7. Len(Locals(Top)) = Len(stack) - Top.slots
  <2>1. PICK b : b = Top.slots
    OBVIOUS
  <2>2. b \in Nat /\ b < Len(stack)
    BY <1>2, <1>4, <2>1 DEF Top
  <2>3. Len(SubSeq(stack, b + 1, Len(stack))) = Len(stack) - b
    BY <1>2, <2>2
  <2> QED BY <2>1, <2>3 DEF Locals
<1> QED BY <1>1, <1>2, <1>4, <1>5, <1>6, <1>7 DEF Top

\* At the start, the script alone runs.
LEMMA ArgumentsInitHolds == ArgumentsInit => ArgumentsInv
<1> SUFFICES ASSUME ArgumentsInit PROVE ArgumentsInv
  OBVIOUS
<1>1. Script \in Things /\ stack = <<Script>> /\ frames = <<Main>> /\ refusal = NoCall
  BY DEF ArgumentsInit, Script, Value, Roles, Plain, Things
<1>2. stack \in Seq(Things) /\ stack # <<>> /\ stack[1] = Script /\ Len(stack) = 1
  BY <1>1
<1>3. frames \in Seq(Frames \cup {Main}) /\ Len(frames) = 1 /\ frames[1] = Main
  BY <1>1
<1>4. Main.slots = 0
  BY DEF Main
<1> QED BY <1>1, <1>2, <1>3, <1>4, ArgumentsAssumption DEF ArgumentsInv, IsStack, IsRefusal, EndIn

\* Where only the top of the stack changes.
LEMMA TopKeeps ==
  ASSUME ArgumentsInv, NEW t \in Seq(Things), Len(t) > Top.slots,
         \A i \in 1 .. Top.slots : t[i] = stack[i],
         IF Len(frames) = 1 THEN t[1] = Script ELSE IsFrame(t, Top, Len(frames), Len(t))
  PROVE  IsStack(t, frames)
<1>1. frames = [frames EXCEPT ![Len(frames)] = Top]
  BY TopFacts DEF Top
<1>2. /\ IsStack(stack, frames) /\ Top \in Frames \cup {Main}
      /\ Len(frames) = 1 => Top = Main
  BY TopFacts
<1>3. PICK frame : frame = Top
  OBVIOUS
<1> QED BY <1>1, <1>2, <1>3, FrameChanged DEF Top

\* A value of the statement is discarded.
LEMMA DiscardKeeps == ArgumentsInv /\ Discard => ArgumentsInv'
<1> SUFFICES ASSUME ArgumentsInv, Discard PROVE ArgumentsInv'
  OBVIOUS
<1>1. PICK t : t = Drop(stack, 1)
  OBVIOUS
<1>2. stack' = t /\ frames' = frames /\ refusal' = refusal /\ Top.pc = "body" /\ Temporaries(Top) > 0
  BY <1>1 DEF Discard
<1>3. PICK p : p = Parameters(Top.function)
  OBVIOUS
<1>4. p \in Nat
  <2>1. CASE Len(frames) = 1
    BY <1>3, <2>1, TopFacts DEF Main, Parameters, ArityOptional
  <2>2. CASE Len(frames) # 1
    BY <1>3, <2>2, TopFacts, CallFacts, FunctionFacts DEF IsFrame
  <2> QED BY <2>1, <2>2
<1>5. PICK b : b = Top.slots
  OBVIOUS
<1>6. PICK n : n = Len(stack)
  OBVIOUS
<1>7. b \in Nat /\ n \in Nat /\ n > b + 1 + p /\ stack \in Seq(Things) /\ 1 \in 0 .. Len(stack)
  BY <1>2, <1>3, <1>4, <1>5, <1>6, TopFacts DEF Temporaries
<1>8. IsDrop(t, stack, 1, Things)
  BY <1>1, <1>7, DropFacts, Zenon
<1>9. t \in Seq(Things) /\ Len(t) = n - 1 /\ \A i \in 1 .. n - 1 : t[i] = stack[i]
  BY <1>6, <1>8 DEF IsDrop
<1>10. Len(t) > b /\ \A i \in 1 .. b : t[i] = stack[i]
  BY <1>4, <1>7, <1>9
<1>11. CASE Len(frames) = 1
  <2>1. t[1] = Script
    <3>1. stack[1] = Script /\ 1 \in 1 .. n - 1
      BY <1>4, <1>7 DEF ArgumentsInv, IsStack
    <3> QED BY <1>9, <3>1
  <2>2. IsStack(t, frames)
    BY <1>5, <1>9, <1>10, <1>11, <2>1, TopKeeps
  <2> QED BY <1>2, <2>2 DEF ArgumentsInv
<1>12. CASE Len(frames) # 1
  <2>1. IsFrame(stack, Top, Len(frames), n) /\ Len(frames) \in Nat \ {0}
    BY <1>6, <1>12, TopFacts
  <2>2. IsFrame(t, Top, Len(frames), n - 1)
    BY <1>2, <1>3, <1>5, <1>7, <1>9, <2>1, ReadyShrinks
  <2>3. IsStack(t, frames)
    BY <1>5, <1>9, <1>10, <1>12, <2>2, TopKeeps
  <2> QED BY <1>2, <2>3 DEF ArgumentsInv
<1> QED BY <1>11, <1>12

\* A native function leaves its result.
LEMMA CallNativeKeeps ==
  ASSUME ArgumentsInv, NEW n \in 0 .. 2, NEW spread \in -1 .. n, CallNative(n, spread)
  PROVE  ArgumentsInv'
<1>1. PICK u : u = Unpacked(stack \o Pushed("method", n, spread), spread)
  OBVIOUS
<1>2. PICK low : low = Drop(u, n + 1)
  OBVIOUS
<1>3. PICK result : result = Value("result", Len(frames), 0)
  OBVIOUS
<1>4. PICK t : t = Append(low, result)
  OBVIOUS
<1>5. stack' = t /\ frames' = frames /\ refusal' = NoCall /\ Top.pc = "body"
  BY <1>1, <1>2, <1>3, <1>4 DEF CallNative
<1>6. /\ stack \in Seq(Things) /\ Len(stack) \in Nat /\ Len(stack) > 0
      /\ Len(frames) \in Nat \ {0} /\ Top.slots \in Nat /\ Top.slots < Len(stack)
  BY TopFacts
<1>7. IsLaid(u, stack, Value("receiver", Len(frames), 0), n, ArgumentsOf(Len(frames), n))
  <2>1. "method" \in Ways /\ n \in Nat /\ Len(frames) \in Nat
    BY <1>6 DEF Ways
  <2>2. PICK callee : callee = Value(IF "method" \in {"method", "extension"} THEN "receiver" ELSE "callee",
                                     Len(frames), 0)
    OBVIOUS
  <2>3. IsLaid(Unpacked(stack \o Pushed("method", n, spread), spread), stack, callee, n,
               ArgumentsOf(Len(frames), n))
    BY <1>6, <2>1, <2>2, PushedIsLaid, Zenon
  <2>4. callee = Value("receiver", Len(frames), 0)
    BY <2>2
  <2> QED BY <1>1, <2>3, <2>4
<1>8. u \in Seq(Things) /\ Len(u) = Len(stack) + 1 + n /\ \A i \in 1 .. Len(stack) : u[i] = stack[i]
  BY <1>7 DEF IsLaid
<1>9. n + 1 \in 0 .. Len(u) /\ Len(u) - (n + 1) = Len(stack)
  BY <1>6, <1>8
<1>10. IsDrop(low, u, n + 1, Things)
  BY <1>2, <1>8, <1>9, DropFacts, Zenon
<1>11. low \in Seq(Things) /\ Len(low) = Len(stack) /\ \A i \in 1 .. Len(stack) : low[i] = stack[i]
  BY <1>8, <1>9, <1>10 DEF IsDrop
<1>12. result \in Things /\ result \in Left(Len(frames))
  BY <1>3, <1>6 DEF Value, Roles, Plain, Things, Left
<1>13. IsAppend(t, low, result, Things)
  BY <1>4, <1>11, <1>12, AppendFacts, Zenon
<1>14. /\ t \in Seq(Things) /\ Len(t) = Len(stack) + 1 /\ t[Len(stack) + 1] = result
       /\ \A i \in 1 .. Len(stack) : t[i] = stack[i]
  BY <1>11, <1>13 DEF IsAppend
<1>15. Len(t) > Top.slots /\ \A i \in 1 .. Top.slots : t[i] = stack[i]
  BY <1>6, <1>14
<1>16. IF Len(frames) = 1 THEN t[1] = Script ELSE IsFrame(t, Top, Len(frames), Len(t))
  <2>1. CASE Len(frames) = 1
    <3>1. stack[1] = Script /\ 1 \in 1 .. Len(stack)
      BY <1>6 DEF ArgumentsInv, IsStack
    <3> QED BY <1>14, <2>1, <3>1
  <2>2. CASE Len(frames) # 1
    <3>1. IsFrame(stack, Top, Len(frames), Len(stack))
      BY <2>2, TopFacts
    <3>2. IsFrame(t, Top, Len(frames), Len(stack) + 1)
      BY <1>5, <1>6, <1>12, <1>14, <3>1, ReadyGrows
    <3> QED BY <1>14, <2>2, <3>2
  <2> QED BY <2>1, <2>2
<1>17. IsStack(t, frames)
  BY <1>14, <1>15, <1>16, TopKeeps
<1> QED BY <1>5, <1>17 DEF ArgumentsInv, IsRefusal

\* What is expected of a function without a spread parameter.
IsExpectedOf(frame, k, f, r, e) ==
  /\ r \in Nat /\ f.arity \in Nat /\ ArityOptional(f) \in Nat
  /\ Parameters(f) = f.arity + ArityOptional(f)
  /\ f.arity <= r /\ r <= Parameters(f)
  /\ e = [i \in 1 .. Parameters(f) |-> e[i]]
  /\ \A i \in 1 .. r : e[i] = GivenTo(frame, k)[i]
  /\ \A i \in 1 .. ArityOptional(f) : f.arity + i > r =>
       e[f.arity + i] = IF f.defaults[i] = Own THEN Value("default", k, i)
                        ELSE e[f.arity + f.defaults[i]]

\* It is what was given, and the defaults.
LEMMA ExpectedOf ==
  ASSUME NEW frame, IsCall(frame), ~ frame.function.isVariadic, NEW k, k \in Nat \ {0},
         NEW f, f = frame.function, NEW r, r = Received(frame),
         NEW e, e = ExpectedBy(frame, k)
  PROVE  IsExpectedOf(frame, k, f, r, e)
<1>1. PICK given : given = GivenTo(frame, k)
  OBVIOUS
<1>2. f \in Functions /\ r \in Nat /\ Takes(f, r) /\ Len(given) = r
  BY <1>1, CallFacts
<1>3. PICK a : a = f.arity
  OBVIOUS
<1>4. PICK o : o = ArityOptional(f)
  OBVIOUS
<1>5. a \in Nat /\ o \in Nat /\ Parameters(f) = a + o
  BY <1>2, <1>3, <1>4, FunctionFacts
<1>6. a <= r /\ r <= Parameters(f)
  BY <1>2, <1>3, TakenFacts
<1>7. PICK depth : depth = k - 1
  OBVIOUS
<1>8. e = Expected(f, given, depth)
  BY <1>1, <1>7 DEF ExpectedBy
<1>9. /\ e = [i \in 1 .. Parameters(f) |-> e[i]]
      /\ \A i \in 1 .. Parameters(f) : e[i] = Binding(f, given, depth, e, i)
  <2>1. IsExpected(e, f, given, depth)
    BY <1>2, <1>8, ExpectedFacts, Zenon
  <2> QED BY <2>1 DEF IsExpected
<1>10. ASSUME NEW i \in 1 .. r PROVE e[i] = given[i]
  <2>1. i \in 1 .. Parameters(f) /\ i <= r
    BY <1>2, <1>5, <1>6
  <2> QED BY <1>2, <1>9, <2>1 DEF Binding
<1>11. ASSUME NEW i \in 1 .. o, a + i > r
       PROVE  e[a + i] = IF f.defaults[i] = Own THEN Value("default", k, i) ELSE e[a + f.defaults[i]]
  <2>1. a + i \in 1 .. Parameters(f) /\ ~ (a + i <= r) /\ a + i - a = i /\ depth + 1 = k
    BY <1>2, <1>5, <1>7, <1>11
  <2>2. e[a + i] = Binding(f, given, depth, e, a + i)
    BY <1>9, <2>1
  <2>3. PICK j : j = a + i
    OBVIOUS
  <2>4. Binding(f, given, depth, e, j) = IF f.defaults[i] = Own THEN Value("default", k, i)
                                         ELSE e[a + f.defaults[i]]
    <3>1. j - f.arity = i
      BY <1>3, <1>5, <2>3
    <3>2. ~ (j <= Len(given))
      BY <1>2, <2>1, <2>3
    <3>3. ~ f.isVariadic /\ depth + 1 = k
      BY <2>1
    <3> QED BY <1>3, <3>1, <3>2, <3>3 DEF Binding
  <2> QED BY <2>2, <2>3, <2>4
<1> QED BY <1>1, <1>2, <1>3, <1>4, <1>5, <1>6, <1>9, <1>10, <1>11 DEF IsExpectedOf

\* A default is computed from the parameters before it.
LEMMA ComputeDefaultKeeps == ArgumentsInv /\ ComputeDefault => ArgumentsInv'
<1> SUFFICES ASSUME ArgumentsInv, ComputeDefault PROVE ArgumentsInv'
  OBVIOUS
<1>1. PICK k : k = Len(frames)
  OBVIOUS
<1>2. PICK b : b = Top.slots
  OBVIOUS
<1>3. PICK m : m = Len(stack)
  OBVIOUS
<1>4. PICK f : f = Top.function
  OBVIOUS
<1>5. PICK r : r = Received(Top)
  OBVIOUS
<1>6. PICK a : a = f.arity
  OBVIOUS
<1>7. PICK o : o = ArityOptional(f)
  OBVIOUS
<1>8. PICK c : c = Computed(Top, r)
  OBVIOUS
<1>9. PICK e : e = ExpectedBy(Top, k)
  OBVIOUS
<1>10. PICK v : v = Default(Top, c + 1)
  OBVIOUS
<1>11. PICK t : t = Append(stack, v)
  OBVIOUS
<1>12. /\ Top.pc = "defaults" /\ c < o /\ stack' = t /\ frames' = frames /\ refusal' = refusal
  BY <1>4, <1>5, <1>7, <1>8, <1>10, <1>11 DEF ComputeDefault
<1>13. /\ stack \in Seq(Things) /\ m \in Nat /\ k \in Nat \ {0} /\ b \in Nat /\ b < m
       /\ c = m - b - 1 - r
  BY <1>1, <1>2, <1>3, <1>8, TopFacts DEF Computed
<1>14. k # 1
  BY <1>1, <1>12, TopFacts DEF Main
<1>15. IsFrame(stack, Top, k, m)
  BY <1>1, <1>3, <1>14, TopFacts
<1>16. IsDefaulting(stack, Top, k, m) /\ IsCall(Top) /\ ~ f.isVariadic
  BY <1>4, <1>12, <1>15 DEF IsFrame, IsDefaulting
<1>17. /\ r \in Nat /\ a \in Nat /\ o \in Nat /\ a <= r /\ f \in Functions
       /\ \A i \in 1 .. r : e[i] = GivenTo(Top, k)[i]
       /\ \A i \in 1 .. o : a + i > r =>
              e[a + i] = IF f.defaults[i] = Own THEN Value("default", k, i) ELSE e[a + f.defaults[i]]
  <2>1. IsExpectedOf(Top, k, f, r, e)
    BY <1>4, <1>5, <1>9, <1>13, <1>16, ExpectedOf, Zenon
  <2>2. f \in Functions
    BY <1>4, <1>13, <1>16, CallFacts
  <2> QED BY <1>6, <1>7, <2>1, <2>2 DEF IsExpectedOf
<1>18. /\ c \in 0 .. o
       /\ \A i \in 1 .. r : stack[b + 1 + i] = e[i]
       /\ ~ TooEarly(Top) => \A i \in 1 .. c : a + i > r => stack[b + 1 + r + i] = e[a + i]
  BY <1>2, <1>4, <1>5, <1>6, <1>7, <1>9, <1>13, <1>16, <1>17 DEF IsDefaulting
<1>19. PICK named : named = f.defaults[c + 1]
  OBVIOUS
<1>20. named \in 0 .. c /\ c \in Nat /\ c + 1 \in 1 .. o
  <2>1. c \in Nat /\ c + 1 \in 1 .. o
    BY <1>12, <1>17, <1>18
  <2>2. named \in 0 .. c + 1 - 1
    BY <1>7, <1>17, <1>19, <2>1, FunctionFacts
  <2> QED BY <2>1, <2>2
<1>21. v = IF named = Own THEN Value("default", k, c + 1) ELSE stack[b + (a + named) + 1]
  BY <1>1, <1>2, <1>4, <1>6, <1>10, <1>19 DEF Default, Slot
<1>22. v \in Things
  <2>1. b + (a + named) + 1 \in 1 .. m
    BY <1>13, <1>17, <1>20
  <2>2. stack[b + (a + named) + 1] \in Things
    BY <1>3, <1>13, <2>1, ElementOfSeq
  <2>3. Value("default", k, c + 1) \in Things
    BY <1>13, <1>20 DEF Value, Roles, Plain, Things
  <2> QED BY <1>21, <2>2, <2>3
<1>23. ASSUME ~ TooEarly(Top), a + (c + 1) > r
       PROVE  v = e[a + (c + 1)]
  <2>1. CASE named = Own
    BY <1>17, <1>19, <1>20, <1>21, <1>23, <2>1
  <2>2. CASE named # Own /\ a + named <= r
    <3>1. a + named \in 1 .. r /\ b + (a + named) + 1 = b + 1 + (a + named)
      <4>1. named \in Nat /\ named # 0 /\ a \in Nat /\ r \in Nat /\ b \in Nat
        BY <1>13, <1>17, <1>20, <2>2 DEF Own
      <4> QED BY <2>2, <4>1
    <3> QED BY <1>17, <1>18, <1>19, <1>20, <1>21, <1>23, <2>2, <3>1
  <2>3. CASE named # Own /\ ~ (a + named <= r)
    <3>1. a = r
      <4>1. DOMAIN f.defaults = 1 .. o
        BY <1>7, <1>17, FunctionFacts
      <4>2. ~ (a < r)
        <5> SUFFICES ASSUME a < r PROVE FALSE
          OBVIOUS
        <5>1. /\ c + 1 \in DOMAIN f.defaults /\ f.arity + (c + 1) > r /\ f.arity < r
              /\ r < f.arity + f.defaults[c + 1]
          <6>1. r < a + named
            BY <1>17, <1>20, <2>3
          <6> QED BY <1>6, <1>19, <1>20, <1>23, <4>1, <6>1
        <5>2. NamesTooEarly(f, r)
          BY <5>1 DEF NamesTooEarly
        <5> QED BY <1>4, <1>5, <1>23, <5>2 DEF TooEarly
      <4> QED BY <1>17, <4>2
    <3>2. named \in 1 .. c /\ a + named > r /\ b + (a + named) + 1 = b + 1 + r + named
      BY <1>13, <1>17, <1>20, <2>3, <3>1 DEF Own
    <3>3. stack[b + 1 + r + named] = e[a + named]
      BY <1>18, <1>23, <3>2
    <3> QED BY <1>17, <1>19, <1>20, <1>21, <1>23, <2>3, <3>2, <3>3
  <2> QED BY <2>1, <2>2, <2>3
<1>24. IsAppend(t, stack, v, Things)
  BY <1>11, <1>13, <1>22, AppendFacts, Zenon
<1>25. t \in Seq(Things) /\ Len(t) = m + 1 /\ t[m + 1] = v /\ \A i \in 1 .. m : t[i] = stack[i]
  BY <1>3, <1>24 DEF IsAppend
<1>26. Len(t) > b /\ b < m + 1 /\ \A i \in 1 .. b : t[i] = stack[i]
  BY <1>13, <1>25
<1>27. IsDefaulting(t, Top, k, m + 1)
  <2>1. m + 1 - b - 1 - r = c + 1
    BY <1>13, <1>17
  <2>2. ASSUME NEW i \in 1 .. r PROVE t[b + 1 + i] = GivenTo(Top, k)[i]
    <3>1. b + 1 + i \in 1 .. m
      BY <1>13, <1>17, <1>20
    <3> QED BY <1>17, <1>18, <1>25, <3>1
  <2>3. ASSUME ~ TooEarly(Top), NEW i \in 1 .. c + 1, a + i > r
        PROVE  t[b + 1 + r + i] = e[a + i]
    <3>1. CASE i = c + 1
      <4>1. b + 1 + r + i = m + 1
        BY <1>13, <1>17, <3>1
      <4> QED BY <1>23, <1>25, <2>3, <3>1, <4>1
    <3>2. CASE i # c + 1
      <4>1. i \in 1 .. c /\ b + 1 + r + i \in 1 .. m
        BY <1>13, <1>17, <1>20, <3>2
      <4> QED BY <1>18, <1>25, <2>3, <4>1
    <3> QED BY <3>1, <3>2
  <2>4. PICK end : end = m + 1
    OBVIOUS
  <2>5. end - b - 1 - r = c + 1 /\ end - b - 1 - r \in 0 .. o
    BY <1>13, <1>17, <1>20, <2>1, <2>4
  <2>6. ~ TooEarly(Top) => \A i \in 1 .. end - b - 1 - r : a + i > r => t[b + 1 + r + i] = e[a + i]
    BY <2>3, <2>5
  <2>7. IsDefaulting(t, Top, k, end)
    BY <1>2, <1>4, <1>5, <1>6, <1>7, <1>9, <1>16, <2>2, <2>5, <2>6 DEF IsDefaulting
  <2> QED BY <2>4, <2>7
<1>28. t[b + 1] = Callee(Top.way, k - 1)
  <2>1. b + 1 \in 1 .. m
    BY <1>13
  <2> QED BY <1>2, <1>15, <1>25, <2>1 DEF IsFrame
<1>29. IsFrame(t, Top, k, m + 1)
  BY <1>2, <1>12, <1>16, <1>26, <1>27, <1>28 DEF IsFrame
<1>30. IsStack(t, frames)
  BY <1>1, <1>2, <1>14, <1>25, <1>26, <1>29, TopKeeps
<1> QED BY <1>12, <1>30 DEF ArgumentsInv

\* The frame's part of the stack.
LEMMA LocalsFacts ==
  ASSUME ArgumentsInv, NEW b, b = Top.slots, NEW m, m = Len(stack)
  PROVE  /\ Locals(Top) \in Seq(Things) /\ Len(Locals(Top)) = m - b
         /\ \A i \in 1 .. m - b : Locals(Top)[i] = stack[b + i]
<1>1. stack \in Seq(Things) /\ m \in Nat /\ b \in Nat /\ b < m
  BY TopFacts
<1>2. \A i \in 1 .. m : stack[i] \in Things
  BY <1>1, ElementOfSeq
<1>3. PICK s : s = SubSeq(stack, b + 1, m)
  OBVIOUS
<1>4. s \in Seq(Things) /\ Len(s) = m - b
  BY <1>1, <1>2, <1>3
<1>5. ASSUME NEW i \in 1 .. m - b PROVE s[i] = stack[b + i]
  BY <1>1, <1>3, <1>5, SMTT(30)
<1> QED BY <1>3, <1>4, <1>5 DEF Locals

\* The defaults of the parameters that were not given stay.
LEMMA DefineOptionalKeeps == ArgumentsInv /\ DefineOptional => ArgumentsInv'
<1> SUFFICES ASSUME ArgumentsInv, DefineOptional PROVE ArgumentsInv'
  OBVIOUS
<1>1. PICK k : k = Len(frames)
  OBVIOUS
<1>2. PICK b : b = Top.slots
  OBVIOUS
<1>3. PICK m : m = Len(stack)
  OBVIOUS
<1>4. PICK f : f = Top.function
  OBVIOUS
<1>5. PICK r : r = Received(Top)
  OBVIOUS
<1>6. PICK a : a = f.arity
  OBVIOUS
<1>7. PICK o : o = ArityOptional(f)
  OBVIOUS
<1>8. PICK e : e = ExpectedBy(Top, k)
  OBVIOUS
<1>9. PICK low : low = SubSeq(stack, 1, b + 1)
  OBVIOUS
<1>10. PICK t : t = low \o Arranged(Top)
  OBVIOUS
<1>11. PICK frame : frame = [Top EXCEPT !.pc = "attributes"]
  OBVIOUS
<1>12. /\ Top.pc = "defaults" /\ Computed(Top, r) = o /\ stack' = t /\ refusal' = refusal
       /\ frames' = [frames EXCEPT ![Len(frames)] = frame]
  BY <1>2, <1>4, <1>5, <1>7, <1>9, <1>10, <1>11 DEF DefineOptional, Top
<1>13. /\ stack \in Seq(Things) /\ m \in Nat /\ k \in Nat \ {0} /\ b \in Nat /\ b < m
       /\ o = m - b - 1 - r
  BY <1>1, <1>2, <1>3, <1>12, TopFacts DEF Computed
<1>14. k # 1
  BY <1>1, <1>12, TopFacts DEF Main
<1>15. IsFrame(stack, Top, k, m)
  BY <1>1, <1>3, <1>14, TopFacts
<1>16. IsDefaulting(stack, Top, k, m) /\ IsCall(Top) /\ ~ f.isVariadic
  BY <1>4, <1>12, <1>15 DEF IsFrame, IsDefaulting
<1>17. IsExpectedOf(Top, k, f, r, e)
  BY <1>4, <1>5, <1>8, <1>13, <1>16, ExpectedOf, Zenon
<1>18. /\ r \in Nat /\ a \in Nat /\ o \in Nat /\ a <= r /\ r <= a + o /\ Parameters(f) = a + o
       /\ \A i \in 1 .. r : e[i] = GivenTo(Top, k)[i]
  BY <1>6, <1>7, <1>17 DEF IsExpectedOf
<1>19. /\ \A i \in 1 .. r : stack[b + 1 + i] = e[i]
       /\ ~ TooEarly(Top) => \A i \in 1 .. o : a + i > r => stack[b + 1 + r + i] = e[a + i]
  BY <1>2, <1>4, <1>5, <1>6, <1>7, <1>8, <1>13, <1>16, <1>18 DEF IsDefaulting
<1>20. PICK s : s = Locals(Top)
  OBVIOUS
<1>21. s \in Seq(Things) /\ Len(s) = 1 + r + o /\ \A i \in 1 .. 1 + r + o : s[i] = stack[b + i]
  <2>1. m - b = 1 + r + o
    BY <1>13, <1>18
  <2> QED BY <1>2, <1>3, <1>20, <2>1, LocalsFacts
<1>22. PICK args : args = SubSeq(s, 2, r + 1)
  OBVIOUS
<1>23. args \in Seq(Things) /\ Len(args) = r /\ \A i \in 1 .. r : args[i] = stack[b + 1 + i]
  <2>1. \A i \in 1 .. Len(s) : s[i] \in Things
    BY <1>21, ElementOfSeq
  <2>2. args \in Seq(Things)
    BY <1>18, <1>21, <1>22, <2>1
  <2>3. Len(args) = r
    BY <1>18, <1>21, <1>22
  <2>4. ASSUME NEW i \in 1 .. r PROVE args[i] = stack[b + 1 + i]
    <3>1. args[i] = s[i + 1]
      BY <1>18, <1>21, <1>22, <2>4
    <3>2. i + 1 \in 1 .. 1 + r + o /\ b + (i + 1) = b + 1 + i
      BY <1>13, <1>18
    <3> QED BY <1>21, <3>1, <3>2
  <2> QED BY <2>2, <2>3, <2>4
<1>24. PICK rest : rest = LastOf(s, a + o - r)
  OBVIOUS
<1>25. /\ rest \in Seq(Things) /\ Len(rest) = a + o - r
       /\ \A i \in 1 .. a + o - r : rest[i] = stack[b + 1 + r + (r - a + i)]
  <2>1. a + o - r \in 0 .. Len(s)
    BY <1>18, <1>21
  <2>2. IsLastOf(rest, s, a + o - r, Things)
    BY <1>21, <1>24, <2>1, LastOfFacts, Zenon
  <2>3. ASSUME NEW i \in 1 .. a + o - r PROVE rest[i] = stack[b + 1 + r + (r - a + i)]
    <3>1. rest[i] = s[Len(s) - (a + o - r) + i]
      BY <2>2 DEF IsLastOf
    <3>2. /\ Len(s) - (a + o - r) + i \in 1 .. 1 + r + o
          /\ b + (Len(s) - (a + o - r) + i) = b + 1 + r + (r - a + i)
      BY <1>13, <1>18, <1>21
    <3> QED BY <1>21, <3>1, <3>2
  <2> QED BY <2>2, <2>3 DEF IsLastOf
<1>26. Arranged(Top) = args \o rest
  <2>1. Len(s) - ArityOptional(f) - 1 = r
    BY <1>7, <1>18, <1>21
  <2>2. PICK p : p = Parameters(f)
    OBVIOUS
  <2>3. Arranged(Top) = SubSeq(s, 2, Len(s) - ArityOptional(f) - 1 + 1)
                         \o LastOf(s, p - (Len(s) - ArityOptional(f) - 1))
    BY <1>4, <1>20, <2>2, Zenon DEF Arranged
  <2>4. Arranged(Top) = SubSeq(s, 2, r + 1) \o LastOf(s, p - r)
    BY <2>1, <2>3
  <2> QED BY <1>18, <1>22, <1>24, <2>2, <2>4
<1>27. PICK high : high = args \o rest
  OBVIOUS
<1>28. IsJoin(high, args, rest, Things)
  BY <1>23, <1>25, <1>27, JoinFacts, Zenon
<1>29. /\ high \in Seq(Things) /\ Len(high) = a + o
       /\ \A i \in 1 .. r : high[i] = stack[b + 1 + i]
       /\ \A i \in 1 .. a + o - r : high[r + i] = stack[b + 1 + r + (r - a + i)]
  <2>1. r + (a + o - r) = a + o
    BY <1>18
  <2>2. high \in Seq(Things) /\ Len(high) = r + (a + o - r)
    BY <1>23, <1>25, <1>28 DEF IsJoin
  <2>3. \A i \in 1 .. r : high[i] = args[i]
    BY <1>23, <1>28 DEF IsJoin
  <2>4. \A i \in 1 .. a + o - r : high[r + i] = rest[i]
    BY <1>23, <1>25, <1>28 DEF IsJoin
  <2> QED BY <1>23, <1>25, <2>1, <2>2, <2>3, <2>4, SMTT(30)
<1>30. low \in Seq(Things) /\ Len(low) = b + 1 /\ \A i \in 1 .. b + 1 : low[i] = stack[i]
  <2>1. \A i \in 1 .. m : stack[i] \in Things
    BY <1>3, <1>13, ElementOfSeq
  <2> QED BY <1>3, <1>9, <1>13, <2>1
<1>31. IsJoin(t, low, high, Things)
  <2>1. t = low \o high
    BY <1>10, <1>26, <1>27
  <2> QED BY <1>29, <1>30, <2>1, JoinFacts, Zenon
<1>32. /\ t \in Seq(Things) /\ Len(t) = b + 1 + (a + o)
       /\ \A i \in 1 .. b + 1 : t[i] = stack[i]
       /\ \A i \in 1 .. a + o : t[b + 1 + i] = high[i]
  BY <1>29, <1>30, <1>31 DEF IsJoin
<1>33. Len(t) > b /\ b + 1 \in 1 .. b + 1 /\ \A i \in 1 .. b : t[i] = stack[i]
  BY <1>13, <1>18, <1>32
<1>34. ASSUME ~ TooEarly(Top), NEW i \in 1 .. a + o PROVE t[b + 1 + i] = e[i]
  <2>1. CASE i <= r
    <3>1. i \in 1 .. r
      BY <1>18, <2>1
    <3> QED BY <1>19, <1>29, <1>32, <3>1
  <2>2. CASE ~ (i <= r)
    <3>1. PICK j : j = i - r
      OBVIOUS
    <3>2. j \in 1 .. a + o - r /\ i = r + j
      BY <1>18, <2>2, <3>1
    <3>3. high[i] = stack[b + 1 + r + (r - a + j)]
      BY <1>29, <3>2
    <3>4. r - a + j \in 1 .. o /\ a + (r - a + j) = i /\ a + (r - a + j) > r
      BY <1>18, <2>2, <3>2
    <3>5. stack[b + 1 + r + (r - a + j)] = e[a + (r - a + j)]
      BY <1>19, <1>34, <3>4
    <3> QED BY <1>32, <3>3, <3>4, <3>5
  <2> QED BY <2>1, <2>2
<1>35. /\ frame \in Frames /\ frame.pc = "attributes" /\ frame.function = f /\ frame.slots = b
       /\ frame.way = Top.way /\ frame.given = Top.given
  <2>1. Top \in Frames
    BY <1>16 DEF IsCall
  <2> QED BY <1>2, <1>4, <1>11, <2>1 DEF Frames
<1>36. /\ Received(frame) = r /\ ExpectedBy(frame, k) = e /\ (TooEarly(frame) <=> TooEarly(Top))
       /\ IsCall(frame)
  BY <1>4, <1>5, <1>8, <1>16, <1>35 DEF Received, ExpectedBy, GivenTo, TooEarly, IsCall
<1>37. PICK end : end = Len(t)
  OBVIOUS
<1>38. IsReady(t, frame, k, end)
  <2>1. end >= b + 1 + Parameters(f) /\ end = b + 1 + Parameters(f)
    BY <1>13, <1>18, <1>32, <1>37
  <2>2. \A i \in b + Parameters(f) + 2 .. end : FALSE
    <3>1. PICK p : p = Parameters(f)
      OBVIOUS
    <3>2. p \in Nat /\ b \in Nat /\ end = b + 1 + p
      BY <1>13, <1>18, <1>32, <1>37, <3>1, SMTT(30)
    <3>3. \A i \in b + p + 2 .. end : FALSE
      BY <3>2
    <3> QED BY <3>1, <3>3
  <2>3. ~ TooEarly(frame) => \A i \in 1 .. Parameters(f) : t[b + 1 + i] = e[i]
    BY <1>18, <1>34, <1>36
  <2> QED BY <1>35, <1>36, <2>1, <2>2, <2>3 DEF IsReady
<1>39. t[b + 1] = Callee(frame.way, k - 1)
  BY <1>2, <1>15, <1>32, <1>33, <1>35 DEF IsFrame
<1>40. IsFrame(t, frame, k, end)
  BY <1>33, <1>35, <1>36, <1>37, <1>38, <1>39 DEF IsFrame
<1>41. IsStack(t, frames')
  <2>1. IsStack(stack, frames)
    BY TopFacts
  <2>2. frames[Len(frames)].slots = b
    BY <1>2 DEF Top
  <2>3. /\ t \in Seq(Things) /\ Len(t) > frames[Len(frames)].slots
        /\ \A i \in 1 .. frames[Len(frames)].slots : t[i] = stack[i]
        /\ frame \in Frames \cup {Main} /\ frame.slots = frames[Len(frames)].slots
    BY <1>32, <1>33, <1>35, <2>2
  <2>4. IF Len(frames) = 1 THEN frame = Main /\ t[1] = Script ELSE IsFrame(t, frame, Len(frames), Len(t))
    BY <1>1, <1>14, <1>37, <1>40
  <2> QED BY <1>12, <2>1, <2>3, <2>4, FrameChanged
<1> QED BY <1>12, <1>41 DEF ArgumentsInv

\* An instance's attributes are its init's parameters.
LEMMA SetInitAttributesKeeps == ArgumentsInv /\ SetInitAttributes => ArgumentsInv'
<1> SUFFICES ASSUME ArgumentsInv, SetInitAttributes PROVE ArgumentsInv'
  OBVIOUS
<1>1. PICK k : k = Len(frames)
  OBVIOUS
<1>2. PICK b : b = Top.slots
  OBVIOUS
<1>3. PICK m : m = Len(stack)
  OBVIOUS
<1>4. PICK f : f = Top.function
  OBVIOUS
<1>5. PICK p : p = Parameters(f)
  OBVIOUS
<1>6. PICK e : e = ExpectedBy(Top, k)
  OBVIOUS
<1>7. PICK attributes : attributes = IF Top.way # "class" THEN <<>>
                                     ELSE [i \in 1 .. p |-> Peek(stack, p - i)]
  OBVIOUS
<1>8. PICK frame : frame = [Top EXCEPT !.pc = "body", !.attributes = attributes]
  OBVIOUS
<1>9. /\ Top.pc = "attributes" /\ stack' = stack /\ refusal' = refusal
      /\ frames' = [frames EXCEPT ![Len(frames)] = frame]
  BY <1>4, <1>5, <1>7, <1>8 DEF SetInitAttributes, Top
<1>10. stack \in Seq(Things) /\ m \in Nat /\ k \in Nat \ {0} /\ b \in Nat /\ b < m
  BY <1>1, <1>2, <1>3, TopFacts
<1>11. k # 1
  BY <1>1, <1>9, TopFacts DEF Main
<1>12. IsFrame(stack, Top, k, m)
  BY <1>1, <1>3, <1>11, TopFacts
<1>13. IsReady(stack, Top, k, m) /\ IsCall(Top)
  BY <1>9, <1>12 DEF IsFrame
<1>14. f \in Functions /\ p \in Nat
  BY <1>4, <1>5, <1>10, <1>13, CallFacts, FunctionFacts
<1>15. m = b + 1 + p
  BY <1>2, <1>3, <1>4, <1>5, <1>9, <1>13 DEF IsReady
<1>16. ASSUME NEW i \in 1 .. p
       PROVE  Peek(stack, p - i) = stack[b + 1 + i] /\ b + 1 + i \in 1 .. m
  <2>1. m - (p - i) = b + 1 + i /\ b + 1 + i \in 1 .. m
    BY <1>10, <1>14, <1>15
  <2>2. Peek(stack, p - i) = stack[m - (p - i)]
    BY <1>3 DEF Peek
  <2> QED BY <2>1, <2>2
<1>17. attributes \in Seq(Things)
  <2>1. CASE Top.way # "class"
    BY <1>7, <2>1
  <2>2. CASE Top.way = "class"
    <3>1. attributes = [i \in 1 .. p |-> Peek(stack, p - i)]
      BY <1>7, <2>2
    <3>2. \A i \in 1 .. p : Peek(stack, p - i) \in Things
      BY <1>3, <1>10, <1>16, ElementOfSeq
    <3>3. attributes \in [1 .. p -> Things]
      BY <3>1, <3>2
    <3> QED BY <1>14, <3>3
  <2> QED BY <2>1, <2>2
<1>18. ASSUME Top.way = "class", ~ TooEarly(Top)
       PROVE  attributes = e
  <2>1. \A i \in 1 .. p : stack[b + 1 + i] = e[i]
    BY <1>2, <1>4, <1>5, <1>6, <1>13, <1>18 DEF IsReady
  <2>2. ~ f.isVariadic
    BY <1>4, <1>13, <1>18 DEF IsCall
  <2>3. PICK r : r = Received(Top)
    OBVIOUS
  <2>4. IsExpectedOf(Top, k, f, r, e)
    BY <1>4, <1>6, <1>10, <1>13, <2>2, <2>3, ExpectedOf, Zenon
  <2>5. e = [i \in 1 .. p |-> e[i]]
    BY <1>5, <2>4 DEF IsExpectedOf
  <2>6. attributes = [i \in 1 .. p |-> e[i]]
    BY <1>7, <1>16, <1>18, <2>1
  <2> QED BY <2>5, <2>6
<1>19. /\ frame \in Frames /\ frame.pc = "body" /\ frame.function = f /\ frame.slots = b
       /\ frame.way = Top.way /\ frame.given = Top.given /\ frame.attributes = attributes
  <2>1. Top \in Frames
    BY <1>13 DEF IsCall
  <2> QED BY <1>2, <1>4, <1>8, <1>17, <2>1 DEF Frames
<1>20. /\ ExpectedBy(frame, k) = e /\ (TooEarly(frame) <=> TooEarly(Top)) /\ IsCall(frame)
  BY <1>4, <1>6, <1>13, <1>19 DEF Received, ExpectedBy, GivenTo, TooEarly, IsCall
<1>21. IsReady(stack, frame, k, m)
  BY <1>2, <1>4, <1>5, <1>6, <1>13, <1>18, <1>19, <1>20 DEF IsReady
<1>22. IsFrame(stack, frame, k, m)
  BY <1>2, <1>12, <1>19, <1>20, <1>21 DEF IsFrame
<1>23. IsStack(stack, frames')
  <2>1. IsStack(stack, frames)
    BY TopFacts
  <2>2. frames[Len(frames)].slots = b
    BY <1>2 DEF Top
  <2> QED BY <1>1, <1>3, <1>9, <1>10, <1>11, <1>19, <1>22, <2>1, <2>2, FrameChanged
<1> QED BY <1>9, <1>23 DEF ArgumentsInv

\* A call comes back.
LEMMA ReturnKeeps == ArgumentsInv /\ Return => ArgumentsInv'
<1> SUFFICES ASSUME ArgumentsInv, Return PROVE ArgumentsInv'
  OBVIOUS
<1>1. PICK k : k = Len(frames)
  OBVIOUS
<1>2. PICK b : b = Top.slots
  OBVIOUS
<1>3. PICK result : result = IF Top.way = "class" THEN Slot(Top, 0) ELSE Value("result", k - 1, 0)
  OBVIOUS
<1>4. PICK low : low = SubSeq(stack, 1, b)
  OBVIOUS
<1>5. PICK t : t = Append(low, result)
  OBVIOUS
<1>6. /\ Top.pc = "body" /\ k > 1 /\ stack' = t /\ frames' = SubSeq(frames, 1, k - 1)
      /\ refusal' = NoCall
  BY <1>1, <1>2, <1>3, <1>4, <1>5 DEF Return
<1>7. stack \in Seq(Things) /\ k \in Nat \ {0} /\ b \in Nat /\ b < Len(stack) /\ Len(stack) \in Nat
  BY <1>1, <1>2, TopFacts
<1>8. IsFrame(stack, Top, k, Len(stack))
  <2>1. k # 1
    BY <1>6, <1>7
  <2> QED BY <1>1, <2>1, TopFacts
<1>9. result \in Left(k - 1) /\ result \in Things
  <2>1. CASE Top.way = "class"
    <3>1. result = stack[b + 1]
      BY <1>2, <1>3, <1>7, <2>1 DEF Slot
    <3>2. result = Value("receiver", k - 1, 0)
      BY <1>2, <1>8, <2>1, <3>1 DEF IsFrame, Callee
    <3> QED BY <1>6, <1>7, <3>2 DEF Left, Value, Roles, Plain, Things
  <2>2. CASE Top.way # "class"
    BY <1>3, <1>6, <1>7, <2>2 DEF Left, Value, Roles, Plain, Things
  <2> QED BY <2>1, <2>2
<1>10. low \in Seq(Things) /\ Len(low) = b /\ \A i \in 1 .. b : low[i] = stack[i]
  <2>1. \A i \in 1 .. Len(stack) : stack[i] \in Things
    BY <1>7, ElementOfSeq
  <2> QED BY <1>4, <1>7, <2>1
<1>11. IsAppend(t, low, result, Things)
  BY <1>5, <1>9, <1>10, AppendFacts, Zenon
<1>12. t \in Seq(Things) /\ Len(t) = b + 1 /\ t[b + 1] = result /\ \A i \in 1 .. b : t[i] = stack[i]
  BY <1>10, <1>11 DEF IsAppend
<1>13. IsStack(t, frames')
  <2>1. IsStack(stack, frames)
    BY TopFacts
  <2>2. frames[Len(frames)].slots = b
    BY <1>2 DEF Top
  <2> QED BY <1>1, <1>6, <1>9, <1>12, <2>1, <2>2, FramePopped
<1> QED BY <1>6, <1>13 DEF ArgumentsInv, IsRefusal

\* What a call makes of the stack, the parameters apart that are yet to be computed.
IsCalled(ready, s, way, n, given, k) ==
  /\ IsLaid(ready, s, Callee(way, k), Len(given), given)
  /\ given \in Seq(Plain) /\ Len(given) = IF way = "extension" THEN n + 1 ELSE n

\* It lays out the callee and the arguments.
LEMMA CallIsLaid ==
  ASSUME NEW s, s \in Seq(Things), Len(frames) \in Nat, NEW way, way \in Ways, NEW n, n \in Nat,
         NEW spread, spread \in -1 .. n, NEW given, given = Given(way, n, Len(frames)),
         NEW seated, seated = Seated(way, Unpacked(s \o Pushed(way, n, spread), spread), n),
         NEW ready, ready = IF way = "extension" THEN Shifted(seated, n) ELSE seated
  PROVE  IsCalled(ready, s, way, n, given, Len(frames))
<1>1. PICK callee : callee = Value(IF way \in {"method", "extension"} THEN "receiver" ELSE "callee",
                                   Len(frames), 0)
  OBVIOUS
<1>2. PICK u : u = Unpacked(s \o Pushed(way, n, spread), spread)
  OBVIOUS
<1>3. IsLaid(u, s, callee, n, ArgumentsOf(Len(frames), n))
  BY <1>1, <1>2, PushedIsLaid, Zenon
<1>4. IsLaid(seated, s, Callee(way, Len(frames)), n, ArgumentsOf(Len(frames), n))
  <2>1. IsLaid(Seated(way, u, n), s, Callee(way, Len(frames)), n, ArgumentsOf(Len(frames), n))
    BY <1>1, <1>3, SeatedIsLaid, Zenon
  <2> QED BY <1>2, <2>1
<1>5. IsLaid(ready, s, Callee(way, Len(frames)), Len(given), given)
  <2>1. IsLaid(IF way = "extension" THEN Shifted(seated, n) ELSE seated, s,
               Callee(way, Len(frames)), Len(given), given)
    BY <1>4, ReadyIsLaid, Zenon
  <2> QED BY <2>1
<1>6. IsGiven(given, way, n, Len(frames))
  BY GivenFacts, Zenon
<1> QED BY <1>5, <1>6 DEF IsGiven, IsCalled

\* A number of arguments that a function does not take is one it does not accept.
LEMMA RefusedFacts ==
  ASSUME NEW f \in Functions, NEW n \in Nat, ~ Takes(f, n)
  PROVE  ~ Accepts(f, n)
BY FunctionFacts DEF Takes, Accepts

\* A call is refused or lays out its frame.
LEMMA CallKeeps ==
  ASSUME ArgumentsInv, NEW f \in Functions, NEW way \in Ways, NEW n \in Nat, NEW spread \in -1 .. n,
         way = "class" => ~ f.isVariadic, way = "extension" => f.arity > 0,
         Call(f, way, n, spread)
  PROVE  ArgumentsInv'
<1>1. PICK k : k = Len(frames)
  OBVIOUS
<1>2. PICK m : m = Len(stack)
  OBVIOUS
<1>3. PICK given : given = Given(way, n, k)
  OBVIOUS
<1>4. PICK seated : seated = Seated(way, Unpacked(stack \o Pushed(way, n, spread), spread), n)
  OBVIOUS
<1>5. PICK ready : ready = IF way = "extension" THEN Shifted(seated, n) ELSE seated
  OBVIOUS
<1>6. PICK r : r = IF way = "extension" THEN n + 1 ELSE n
  OBVIOUS
<1>7. PICK t : t = IF f.isVariadic THEN Gathered(f, ready, r) ELSE ready
  OBVIOUS
<1>8. PICK args : args = IF f.isVariadic THEN f.arity ELSE r
  OBVIOUS
<1>9. PICK frame : frame = Frame(f, way, n, t, args)
  OBVIOUS
<1>10. /\ Top.pc = "body" /\ k < MaxFrames
       /\ IF Takes(f, r)
          THEN stack' = t /\ frames' = Append(frames, frame) /\ refusal' = NoCall
          ELSE Refuse(f, way, r)
  BY <1>1, <1>4, <1>5, <1>6, <1>7, <1>8, <1>9, Zenon DEF Call
<1>11. /\ IsStack(stack, frames) /\ stack \in Seq(Things) /\ m \in Nat /\ m > 0
       /\ frames \in Seq(Frames \cup {Main}) /\ k \in Nat \ {0} /\ frames[1] = Main
  BY <1>1, <1>2, TopFacts DEF IsStack
<1>12. /\ IsLaid(ready, stack, Callee(way, k), r, given)
       /\ given \in Seq(Plain) /\ Len(given) = r /\ r \in Nat
  <2>1. Len(frames) \in Nat
    BY <1>1, <1>11
  <2>2. given = Given(way, n, Len(frames))
    BY <1>1, <1>3
  <2>3. IsCalled(ready, stack, way, n, given, Len(frames))
    BY <1>4, <1>5, <1>11, <2>1, <2>2, CallIsLaid, Zenon
  <2>4. Len(given) = r
    BY <1>6, <2>3 DEF IsCalled
  <2>5. r \in Nat
    BY <1>6
  <2> QED BY <1>1, <2>3, <2>4, <2>5 DEF IsCalled
<1>13. CASE ~ Takes(f, r)
  <2>1. /\ stack' = <<Script>> /\ frames' = SubSeq(frames, 1, 1)
        /\ refusal' = [function |-> f, way |-> way, args |-> r]
    BY <1>10, <1>13 DEF Refuse
  <2>2. Script \in Things
    BY DEF Script, Value, Roles, Plain, Things
  <2>3. stack' \in Seq(Things) /\ stack' # <<>> /\ stack'[1] = Script /\ Len(stack') = 1
    BY <2>1, <2>2
  <2>4. frames' \in Seq(Frames \cup {Main}) /\ Len(frames') = 1 /\ frames'[1] = Main
    <3>1. frames[1] \in Frames \cup {Main}
      BY <1>11
    <3> QED BY <1>1, <1>11, <2>1, <3>1
  <2>5. Main.slots = 0
    BY DEF Main
  <2>6. IsStack(stack', frames')
    BY <2>3, <2>4, <2>5, ArgumentsAssumption DEF IsStack, EndIn
  <2>7. IsRefusal(refusal')
    BY <1>12, <1>13, <2>1, RefusedFacts DEF IsRefusal
  <2> QED BY <2>6, <2>7 DEF ArgumentsInv
<1>14. CASE Takes(f, r)
  <2>1. stack' = t /\ frames' = Append(frames, frame) /\ refusal' = NoCall
    BY <1>10, <1>14
  <2>2. PICK e : e = Expected(f, given, k)
    OBVIOUS
  <2>3. PICK p : p = Parameters(f)
    OBVIOUS
  <2>4. f.arity \in Nat /\ ArityOptional(f) \in Nat /\ p = f.arity + ArityOptional(f)
    BY <2>3, FunctionFacts
  <2>5. IF f.isVariadic THEN IsLaid(t, stack, Callee(way, k), args, e)
        ELSE IsLaid(t, stack, Callee(way, k), args, given)
    <3>1. CASE f.isVariadic
      <4>1. Takes(f, Len(given)) /\ IsLaid(ready, stack, Callee(way, k), Len(given), given)
        BY <1>12, <1>14
      <4>2. IsLaid(Gathered(f, ready, Len(given)), stack, Callee(way, k), f.arity, e)
        BY <1>11, <1>12, <2>2, <3>1, <4>1, GatheredIsLaid, Zenon
      <4> QED BY <1>7, <1>8, <1>12, <3>1, <4>2
    <3>2. CASE ~ f.isVariadic
      BY <1>7, <1>8, <1>12, <3>2
    <3> QED BY <3>1, <3>2
  <2>6. args \in Nat
    BY <1>8, <1>12, <2>4
  <2>7. /\ t \in Seq(Things) /\ Len(t) = m + 1 + args /\ \A i \in 1 .. m : t[i] = stack[i]
        /\ t[m + 1] = Callee(way, k)
    BY <1>2, <2>5 DEF IsLaid
  <2>8. /\ frame.function = f /\ frame.way = way /\ frame.given = n /\ frame.attributes = <<>>
        /\ frame.slots = m
        /\ frame.pc = IF ArityOptional(f) > 0 THEN "defaults" ELSE "attributes"
    <3>1. Len(t) - args - 1 = m
      BY <1>11, <2>6, <2>7
    <3> QED BY <1>9, <3>1 DEF Frame, Start
  <2>9. frame \in Frames
    <3>1. <<>> \in Seq(Things)
      OBVIOUS
    <3>2. Start(t, args) \in Nat
      <4>1. Len(t) - args - 1 = m
        BY <1>11, <2>6, <2>7
      <4> QED BY <1>11, <4>1 DEF Start
    <3> QED BY <1>9, <3>1, <3>2 DEF Frame, Frames
  <2>10. PICK j : j = k + 1
    OBVIOUS
  <2>11. j - 1 = k /\ j \in Nat \ {0}
    BY <1>11, <2>10
  <2>12. Received(frame) = r /\ GivenTo(frame, j) = given /\ ExpectedBy(frame, j) = e
    BY <1>3, <1>6, <2>2, <2>8, <2>11 DEF Received, GivenTo, ExpectedBy
  <2>13. IsCall(frame)
    BY <1>14, <2>8, <2>9, <2>12 DEF IsCall
  <2>14. PICK end : end = Len(t)
    OBVIOUS
  <2>15. m \in Nat /\ end = m + 1 + args /\ m < end /\ Len(t) > m
    BY <1>11, <2>6, <2>7, <2>14
  <2>16. ASSUME frame.pc = "defaults" PROVE IsDefaulting(t, frame, j, end)
    <3>1. ~ f.isVariadic
      BY <2>8, <2>16, FunctionFacts
    <3>2. args = r /\ IsLaid(t, stack, Callee(way, k), args, given)
      BY <1>8, <2>5, <3>1
    <3>3. \A i \in 1 .. r : t[m + 1 + i] = given[i]
      BY <1>2, <3>2 DEF IsLaid
    <3>4. end - m - 1 - r = 0
      BY <1>11, <1>12, <2>15, <3>2
    <3> QED BY <2>4, <2>8, <2>12, <3>1, <3>3, <3>4 DEF IsDefaulting
  <2>17. ASSUME frame.pc # "defaults" PROVE IsReady(t, frame, j, end)
    <3>1. ArityOptional(f) = 0 /\ frame.pc = "attributes" /\ p = f.arity
      BY <2>4, <2>8, <2>17
    <3>2. args = p /\ \A i \in 1 .. p : t[m + 1 + i] = e[i]
      <4>1. CASE f.isVariadic
        <5>1. args = p /\ IsLaid(t, stack, Callee(way, k), args, e)
          BY <1>8, <2>5, <3>1, <4>1
        <5> QED BY <1>2, <5>1 DEF IsLaid
      <4>2. CASE ~ f.isVariadic
        <5>1. IsExpectedOf(frame, j, f, r, e)
          BY <2>8, <2>11, <2>12, <2>13, <4>2, ExpectedOf, Zenon
        <5>2. f.arity <= r /\ r <= p /\ \A i \in 1 .. r : e[i] = given[i]
          BY <2>3, <2>12, <5>1 DEF IsExpectedOf
        <5>3. r = p
          BY <1>12, <2>4, <3>1, <5>2
        <5>4. args = r /\ IsLaid(t, stack, Callee(way, k), args, given)
          BY <1>8, <2>5, <4>2
        <5>5. \A i \in 1 .. r : t[m + 1 + i] = given[i]
          BY <1>2, <5>4 DEF IsLaid
        <5> QED BY <5>2, <5>3, <5>4, <5>5
      <4> QED BY <4>1, <4>2
    <3>3. m \in Nat /\ p \in Nat /\ end = m + 1 + p
      BY <1>11, <2>4, <2>15, <3>1, <3>2
    <3>4. \A i \in m + p + 2 .. end : FALSE
      BY <3>3
    <3>5. end >= m + 1 + p
      BY <3>3
    <3> QED BY <2>3, <2>8, <2>12, <3>1, <3>2, <3>3, <3>4, <3>5 DEF IsReady
  <2>18. IsFrame(t, frame, Len(frames) + 1, Len(t))
    <3>1. IsFrame(t, frame, j, end)
      <4>1. t[frame.slots + 1] = Callee(frame.way, j - 1) /\ frame.slots < end
        BY <2>7, <2>8, <2>11, <2>15
      <4>2. IF frame.pc = "defaults" THEN IsDefaulting(t, frame, j, end) ELSE IsReady(t, frame, j, end)
        BY <2>16, <2>17 DEF IsFrame
      <4> QED BY <2>13, <4>1, <4>2 DEF IsFrame
    <3> QED BY <1>1, <2>10, <2>14, <3>1
  <2>19. IsStack(t, Append(frames, frame))
    <3>1. frames[Len(frames)].pc = "body" /\ Len(frames) < MaxFrames
      BY <1>1, <1>10 DEF Top
    <3>2. Len(t) > Len(stack) /\ (\A i \in 1 .. Len(stack) : t[i] = stack[i]) /\ frame.slots = Len(stack)
      BY <1>2, <2>7, <2>8, <2>15
    <3> QED BY <1>11, <2>7, <2>18, <3>1, <3>2, FramePushed
  <2> QED BY <2>1, <2>19 DEF ArgumentsInv, IsRefusal
<1> QED BY <1>13, <1>14

\* Every step keeps the frames in order.
LEMMA ArgumentsInductive == ArgumentsInv /\ [ArgumentsNext]_argumentsVars => ArgumentsInv'
<1> SUFFICES ASSUME ArgumentsInv, [ArgumentsNext]_argumentsVars PROVE ArgumentsInv'
  OBVIOUS
<1>1. ASSUME NEW f \in Functions, NEW way \in Ways, way = "class" => ~ f.isVariadic,
             way = "extension" => f.arity > 0,
             NEW n \in 0 .. Parameters(f) + MaxSurplus, NEW spread \in -1 .. n, Call(f, way, n, spread)
      PROVE  ArgumentsInv'
  <2>1. n \in Nat
    OBVIOUS
  <2> QED BY <1>1, <2>1, CallKeeps
<1>2. ASSUME NEW n \in 0 .. 2, NEW spread \in -1 .. n, CallNative(n, spread)
      PROVE  ArgumentsInv'
  BY <1>2, CallNativeKeeps
<1>3. CASE ComputeDefault
  BY <1>3, ComputeDefaultKeeps
<1>4. CASE DefineOptional
  BY <1>4, DefineOptionalKeeps
<1>5. CASE SetInitAttributes
  BY <1>5, SetInitAttributesKeeps
<1>6. CASE Return
  BY <1>6, ReturnKeeps
<1>7. CASE Discard
  BY <1>7, DiscardKeeps
<1>8. CASE UNCHANGED argumentsVars
  BY <1>8 DEF argumentsVars, ArgumentsInv
<1> QED BY <1>1, <1>2, <1>3, <1>4, <1>5, <1>6, <1>7, <1>8 DEF ArgumentsNext

\* The frames stay in order.
THEOREM ArgumentsInvariance == ArgumentsSpec => []ArgumentsInv
<1>1. ArgumentsInit => ArgumentsInv
  BY ArgumentsInitHolds
<1>2. ArgumentsInv /\ [ArgumentsNext]_argumentsVars => ArgumentsInv'
  BY ArgumentsInductive
<1> QED BY <1>1, <1>2, PTL DEF ArgumentsSpec

\* Frames lie inside the stack, one above the other.
LEMMA FramesHold == ArgumentsInv => ArgumentsTypeOK
<1> SUFFICES ASSUME ArgumentsInv PROVE ArgumentsTypeOK
  OBVIOUS
<1>1. PICK n : n = Len(frames)
  OBVIOUS
<1>2. /\ IsStack(stack, frames) /\ n \in Nat \ {0} /\ DOMAIN frames = 1 .. n
      /\ stack \in Seq(Things) /\ Len(stack) \in Nat
      /\ \A k \in 1 .. n : frames[k].slots \in Nat /\ EndIn(stack, frames, k) \in 1 .. Len(stack)
  BY <1>1, StackFacts DEF ArgumentsInv
<1>3. ASSUME NEW k \in 1 .. n
      PROVE  /\ frames[k].function \in Functions \cup {Main.function}
             /\ frames[k].way \in Ways
             /\ frames[k].pc \in {"defaults", "attributes", "body"}
  <2>1. frames[k] \in Frames \cup {Main}
    BY <1>2, ElementOfSeq DEF IsStack
  <2> QED BY <2>1 DEF Frames, Main, Ways
<1>4. ASSUME NEW k \in 1 .. n
      PROVE  /\ frames[k].slots \in 0 .. Len(stack) - 1
             /\ k < n => frames[k].pc = "body"
  <2>1. frames[k].slots < EndIn(stack, frames, k) /\ (k < n => frames[k].pc = "body")
    BY <1>1, <1>2 DEF IsStack
  <2> QED BY <1>2, <2>1
<1>5. ASSUME NEW k \in 1 .. n, k > 1
      PROVE  frames[k - 1].slots < frames[k].slots
  <2>1. k - 1 \in 1 .. n /\ k - 1 < n /\ k - 1 + 1 = k
    BY <1>2, <1>5
  <2>2. frames[k - 1].slots < EndIn(stack, frames, k - 1)
    BY <1>1, <1>2, <2>1 DEF IsStack
  <2> QED BY <1>1, <2>1, <2>2 DEF EndIn
<1>6. stack # <<>> /\ stack[1] = Script /\ n \in 1 .. MaxFrames
  BY <1>1, <1>2 DEF IsStack
<1> QED BY <1>1, <1>2, <1>3, <1>4, <1>5, <1>6 DEF ArgumentsTypeOK

\* What runs has its parameters.
LEMMA FramesBound == ArgumentsInv => ArgumentsBound
<1> SUFFICES ASSUME ArgumentsInv PROVE ArgumentsBound
  OBVIOUS
<1>1. refusal # NoCall => ~ Accepts(refusal.function, refusal.args)
  BY DEF ArgumentsInv, IsRefusal
<1>2. ASSUME NEW k \in 2 .. Len(frames), NEW frame, frame = frames[k], NEW f, f = frame.function,
             NEW given, given = Given(frame.way, frame.given, k - 1),
             NEW expected, expected = Expected(f, given, k - 1),
             NEW local, local = SubSeq(stack, frame.slots + 1, End(k)),
             frame.pc = "body", ~ NamesTooEarly(f, Len(given))
      PROVE  /\ Accepts(f, Len(given))
             /\ Len(local) > Parameters(f)
             /\ local[1] = Callee(frame.way, k - 1)
             /\ SubSeq(local, 2, Parameters(f) + 1) = expected
             /\ frame.way = "class" => frame.attributes = expected
             /\ \A i \in Parameters(f) + 2 .. Len(local) :
                  local[i] \in {Value("result", k, 0), Value("receiver", k, 0)}
  <2>1. k \in 1 .. Len(frames) /\ k > 1 /\ k \in Nat \ {0}
    <3>1. Len(frames) \in Nat
      BY TopFacts
    <3> QED BY <3>1
  <2>2. PICK end : end = End(k)
    OBVIOUS
  <2>3. end = EndIn(stack, frames, k)
    BY <2>2 DEF End, EndIn
  <2>4. IsFrame(stack, frame, k, end) /\ stack \in Seq(Things) /\ Len(stack) \in Nat
        /\ end \in 1 .. Len(stack)
    <3>1. IsStack(stack, frames)
      BY TopFacts
    <3> QED BY <1>2, <2>1, <2>3, <3>1, StackFacts DEF IsStack
  <2>5. IsReady(stack, frame, k, end) /\ IsCall(frame)
    BY <1>2, <2>4 DEF IsFrame
  <2>6. /\ f \in Functions /\ given \in Seq(Plain) /\ Len(given) = Received(frame)
        /\ Len(given) \in Nat /\ Takes(f, Len(given)) /\ frame.slots \in Nat
    <3>1. given = GivenTo(frame, k)
      BY <1>2 DEF GivenTo
    <3> QED BY <1>2, <2>1, <2>5, <3>1, CallFacts
  <2>7. expected = ExpectedBy(frame, k) /\ ~ TooEarly(frame)
    BY <1>2, <2>6 DEF ExpectedBy, GivenTo, TooEarly
  <2>8. PICK p : p = Parameters(f)
    OBVIOUS
  <2>9. PICK b : b = frame.slots
    OBVIOUS
  <2>10. p \in Nat /\ b \in Nat
    BY <2>6, <2>8, <2>9, FunctionFacts
  <2>11. /\ end >= b + 1 + p /\ stack[b + 1] = Callee(frame.way, k - 1)
         /\ \A i \in 1 .. p : stack[b + 1 + i] = expected[i]
         /\ frame.way = "class" => frame.attributes = expected
         /\ \A i \in b + p + 2 .. end : stack[i] \in Left(k)
    BY <1>2, <2>4, <2>5, <2>7, <2>8, <2>9 DEF IsReady, IsFrame
  <2>12. expected = [i \in 1 .. p |-> expected[i]]
    <3>1. IsExpected(expected, f, given, k - 1)
      BY <1>2, <2>6, ExpectedFacts, Zenon
    <3> QED BY <2>8, <3>1 DEF IsExpected
  <2>13. /\ local \in Seq(Things) /\ Len(local) = end - b
         /\ \A i \in 1 .. end - b : local[i] = stack[b + i]
    <3>1. \A i \in 1 .. Len(stack) : stack[i] \in Things
      BY <2>4, ElementOfSeq
    <3>2. local = SubSeq(stack, b + 1, end) /\ b < end /\ end \in Nat
      <4>1. local = SubSeq(stack, b + 1, end)
        BY <1>2, <2>2, <2>9
      <4>2. end \in Nat /\ end >= b + 1 + p
        BY <2>4, <2>11
      <4> QED BY <2>10, <4>1, <4>2
    <3>3. local \in Seq(Things) /\ Len(local) = end - b
      BY <2>4, <2>10, <3>1, <3>2
    <3>4. ASSUME NEW i \in 1 .. end - b PROVE local[i] = stack[b + i]
      BY <2>4, <2>10, <3>2, <3>4
    <3> QED BY <3>3, <3>4
  <2>14. end - b >= p + 1 /\ end \in Nat
    BY <2>4, <2>10, <2>11
  <2>15. PICK values : values = SubSeq(local, 2, p + 1)
    OBVIOUS
  <2>16. values = expected
    <3>1. \A i \in 1 .. Len(local) : local[i] \in Things
      BY <2>13, ElementOfSeq
    <3>2. values \in Seq(Things) /\ Len(values) = p
      BY <2>10, <2>13, <2>14, <2>15, <3>1
    <3>3. ASSUME NEW i \in 1 .. p PROVE values[i] = expected[i]
      <4>1. values[i] = local[i + 1]
        BY <2>10, <2>13, <2>14, <2>15, <3>3
      <4>2. i + 1 \in 1 .. end - b /\ b + (i + 1) = b + 1 + i
        BY <2>10, <2>14
      <4> QED BY <2>11, <2>13, <4>1, <4>2
    <3>4. values = [i \in 1 .. p |-> values[i]]
      BY <3>2
    <3> QED BY <2>12, <3>3, <3>4
  <2>17. ASSUME NEW i \in p + 2 .. end - b PROVE local[i] \in Left(k)
    <3>1. i \in 1 .. end - b /\ b + i \in b + p + 2 .. end
      BY <2>10, <2>14
    <3> QED BY <2>11, <2>13, <3>1
  <2>18. 1 \in 1 .. end - b /\ end - b > p
    BY <2>10, <2>14
  <2>19. local[1] = Callee(frame.way, k - 1)
    BY <2>11, <2>13, <2>18
  <2>20. Accepts(f, Len(given))
    BY <2>6, TakenFacts
  <2> QED BY <2>8, <2>11, <2>13, <2>15, <2>16, <2>17, <2>18, <2>19, <2>20 DEF Left
<1> QED BY <1>1, <1>2, ZenonT(60) DEF ArgumentsBound

\* Every frame starts inside the stack, above the one below it.
THEOREM ArgumentsTypeCorrect == ArgumentsSpec => []ArgumentsTypeOK
<1>1. ArgumentsInv => ArgumentsTypeOK
  BY FramesHold
<1> QED BY <1>1, ArgumentsInvariance, PTL

\* However it was called, a function that runs has its parameters, and a call is
\* refused only for a number of arguments that its function does not take.
THEOREM ParametersBound == ArgumentsSpec => []ArgumentsBound
<1>1. ArgumentsInv => ArgumentsBound
  BY FramesBound
<1> QED BY <1>1, ArgumentsInvariance, PTL

----------------------------------------------------------------------------
(* Classes and arguments together. *)

\* A step of a small instance is one of Classes or one of Arguments.
LEMMA InvokeIsBoth == Spec => ArgumentsSpec /\ ClassesSpec
<1>1. Init => ArgumentsInit /\ ClassesInit
  BY DEF Init
<1>2. [Next]_vars => [ArgumentsNext]_argumentsVars /\ [ClassesNext]_classesVars
  BY DEF Next, vars
<1> QED BY <1>1, <1>2, PTL DEF Spec, ArgumentsSpec, ClassesSpec

\* Stack, frames, tables and instances are of their types, whichever of the two
\* a behaviour is about.
THEOREM InvokeTypeCorrect == Spec => []TypeOK
<1>1. ArgumentsTypeOK /\ ClassesTypeOK => TypeOK
  BY DEF TypeOK
<1> QED BY <1>1, InvokeIsBoth, ArgumentsTypeCorrect, ClassesTypeCorrect, PTL
=============================================================================
