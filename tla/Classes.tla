------------------------------ MODULE Classes ------------------------------
(***************************************************************************)
(* Classes, traits and instances: how the VM builds a class from its text, *)
(* and what an instance and its classes answer for a name.                 *)
(*                                                                         *)
(* A class has tables of its own into which the methods of its superclass  *)
(* are copied when it is created and those of a trait when it is used; the *)
(* names it declares private are known to the compiler only from their     *)
(* declaration on.  `text` records each class's body as it was written.    *)
(* Classes are numbered as they are declared.  Names the VM's own methods  *)
(* have are not used here, and "init" is a name like any other: a call of  *)
(* a class looks it up in publicMethods.  Declaring a class reads neither   *)
(* attributes nor class variables, so the program declares its classes     *)
(* first, and then looks at one instance.                                  *)
(***************************************************************************)
EXTENDS Integers, Sequences, FiniteSets

CONSTANTS Names,        \* of methods, attributes and class variables
          Contents,     \* what attributes and class variables hold
          Undefined,    \* the answer of a lookup that fails
          MaxClasses,   \* bound: classes, abstract classes and traits
          MaxMembers    \* bound: members in the text of all of them

ASSUME ClassesAssumption ==
  /\ Undefined \notin Contents
  /\ Undefined \notin [class : Nat, at : Nat, knows : SUBSET Names]
  /\ Undefined \notin Nat \X Nat
  /\ {MaxClasses, MaxMembers} \subseteq Nat

VARIABLES classes,     \* ObjClass, one for each declaration
          text,        \* the members of each class's body, in order
          isOpen,      \* the last class's body is being compiled and run
          knows,       \* ClassCompiler.privateVariables of that class
          instance,    \* the instance looked at, of class 0 while there is none
          written      \* the last write to one of its attributes

classesVars == <<classes, text, isOpen, knows, instance, written>>

Types == {"default", "abstract", "trait"}
Blank == [n \in Names |-> Undefined]
NoInstance == [class |-> 0, publicAttributes |-> Blank, privateAttributes |-> Blank]
Nothing == [name |-> Undefined]

Latest == Len(classes)

\* A method is known by its place in the text; it keeps what the compiler knew.
Method(class, at, private) == [class |-> class, at |-> at, knows |-> private]

IsDefined(table, n) == table[n] # Undefined

\* tableAddAll: the source's entries replace those of the destination.
AddAll(from, to) == [n \in Names |-> IF IsDefined(from, n) THEN from[n] ELSE to[n]]

\* The class and its superclasses, nearest first.
Chain(c) ==
  LET upTo[d \in 0 .. c] == IF d = 0 THEN <<>> ELSE <<d>> \o upTo[classes[d].superclass]
  IN upTo[c]

First(places) == CHOOSE i \in places : \A j \in places : i <= j
Last(places)  == CHOOSE i \in places : \A j \in places : j <= i

----------------------------------------------------------------------------
\* Plausible slips, used to show that the properties can fail.

\* A trait fills in only what the class does not have.
BrokenUse(trait, class) == AddAll(class, trait)

\* A class does not take over what its superclass leaves abstract.
BrokenInherited(class, superclass) ==
  [class EXCEPT !.publicMethods = superclass.publicMethods]

\* A private attribute is looked for among the public ones first.
BrokenPrivateView(n) ==
  IF IsDefined(instance.publicAttributes, n) THEN instance.publicAttributes[n]
  ELSE instance.privateAttributes[n]

\* An assignment goes to the table that has the name, whichever it is.
BrokenSetClassAttribute(c, n, v) ==
  /\ instance # NoInstance
  /\ classes' = [classes EXCEPT ![c] = IF IsDefined(@.constants, n)
                                       THEN [@ EXCEPT !.constants[n] = v]
                                       ELSE [@ EXCEPT !.variables[n] = v]]
  /\ UNCHANGED <<text, isOpen, knows, instance, written>>
----------------------------------------------------------------------------
(* Lookups. *)

\* GET_ATTRIBUTE on a class: constants, then variables, up the superclasses.
Field(class, n) ==
  IF IsDefined(class.constants, n) THEN class.constants[n] ELSE class.variables[n]

ClassAttribute(c, n) ==
  LET chain   == Chain(c)
      holders == {i \in DOMAIN chain : Field(classes[chain[i]], n) # Undefined}
  IN IF holders = {} THEN Undefined ELSE Field(classes[chain[First(holders)]], n)

Class == classes[instance.class]

\* What GET_ATTRIBUTE and GET_PRIVATE_ATTRIBUTE find in the instance itself.
PublicView(n) == instance.publicAttributes[n]
PrivateView(n) ==
  IF IsDefined(instance.privateAttributes, n) THEN instance.privateAttributes[n]
  ELSE instance.publicAttributes[n]

\* The attribute's value, a bound method or what the class has by that name.
GetAttribute(n) ==
  IF IsDefined(instance.publicAttributes, n) THEN PublicView(n)
  ELSE IF IsDefined(Class.publicMethods, n) THEN Class.publicMethods[n]
  ELSE ClassAttribute(instance.class, n)

\* invoke: o.n(), from anywhere.
Invoke(n) ==
  IF IsDefined(Class.publicMethods, n) THEN Class.publicMethods[n]
  ELSE instance.publicAttributes[n]

\* invokeInternal: this.n(), in a method; private attributes are not looked at.
InvokeInternal(n) ==
  IF IsDefined(Class.privateMethods, n) THEN Class.privateMethods[n] ELSE Invoke(n)

\* invokeFromClass and GET_SUPER: super.n(), in a method of class c.
Super(c, n) == classes[classes[c].superclass].publicMethods[n]

----------------------------------------------------------------------------
(* Building a class. *)

ClassesInit == /\ classes = <<>> /\ text = <<>>
               /\ isOpen = FALSE /\ knows = {}
               /\ instance = NoInstance /\ written = Nothing

\* createClass copies the superclass's public and abstract methods.
Inherited(class, superclass) ==
  [class EXCEPT !.publicMethods = superclass.publicMethods,
                !.abstractMethods = superclass.abstractMethods]

\* CLASS, and SUBCLASS, which is a runtime error for a trait.
CreateClass(type, superclass) ==
  /\ ~ isOpen /\ Latest < MaxClasses /\ instance = NoInstance
  /\ superclass # 0 => type # "trait" /\ classes[superclass].type # "trait"
  /\ LET class == [type |-> type, superclass |-> superclass,
                   publicMethods |-> Blank, privateMethods |-> Blank,
                   abstractMethods |-> Blank, constants |-> Blank, variables |-> Blank]
     IN classes' = Append(classes, IF superclass = 0 THEN class
                                   ELSE Inherited(class, classes[superclass]))
  /\ text' = Append(text, <<>>)
  /\ isOpen' = TRUE /\ knows' = {}
  /\ UNCHANGED <<instance, written>>

\* One more member of the body.
Member(member) ==
  /\ isOpen /\ MaxMembers > Cardinality(UNION {{<<c, i>> : i \in DOMAIN text[c]} : c \in DOMAIN text})
  /\ text' = [text EXCEPT ![Latest] = Append(@, member)]
  /\ UNCHANGED <<isOpen, instance, written>>

This == Method(Latest, Len(text[Latest]) + 1, knows)

\* method() and defineMethod.  Abstract classes alone have abstract methods, and
\* have no private ones.
DefineMethod(n, access) ==
  /\ Member([kind |-> access, name |-> n])
  /\ access = "abstract" => classes[Latest].type = "abstract"
  /\ access = "private" => classes[Latest].type # "abstract"
  /\ classes' =
       [classes EXCEPT ![Latest] =
          CASE access = "public"   -> [@ EXCEPT !.publicMethods[n] = This]
            [] access = "private"  -> [@ EXCEPT !.privateMethods[n] = This]
            [] access = "abstract" -> [@ EXCEPT !.abstractMethods[n] = This]]
  /\ UNCHANGED knows

UseMethods(trait, class) == AddAll(trait, class)

\* USE, which is a runtime error for a class that is not a trait.
Use(t) ==
  /\ Member([kind |-> "use", trait |-> t])
  /\ classes[t].type = "trait"
  /\ classes' = [classes EXCEPT ![Latest].publicMethods =
                   UseMethods(classes[t].publicMethods, @)]
  /\ UNCHANGED knows

\* `private n;`, or a private parameter of init.
DeclarePrivate(n) ==
  /\ Member([kind |-> "attribute", name |-> n])
  /\ knows' = knows \cup {n}
  /\ UNCHANGED classes

\* SET_CLASS_VAR.
SetClassVar(n, constant, v) ==
  /\ Member([kind |-> IF constant THEN "const" ELSE "var", name |-> n])
  /\ classes' = [classes EXCEPT ![Latest] =
                   IF constant THEN [@ EXCEPT !.constants[n] = v]
                               ELSE [@ EXCEPT !.variables[n] = v]]
  /\ UNCHANGED knows

\* END_CLASS, which only default classes with a superclass have: one that lacks
\* an abstract method is a runtime error, and its name stays undefined.
Lacks(class) == {n \in Names : /\ IsDefined(class.abstractMethods, n)
                               /\ ~ IsDefined(class.publicMethods, n)}

EndClass ==
  /\ isOpen
  /\ isOpen' = FALSE /\ knows' = {}
  /\ LET class == classes[Latest]
     IN IF class.type = "default" /\ class.superclass # 0 /\ Lacks(class) # {}
        THEN /\ classes' = SubSeq(classes, 1, Latest - 1)
             /\ text' = SubSeq(text, 1, Latest - 1)
        ELSE UNCHANGED <<classes, text>>
  /\ UNCHANGED <<instance, written>>

----------------------------------------------------------------------------
(* Instances. *)

\* callValue: only default classes are called.
Construct(c) ==
  /\ ~ isOpen /\ instance = NoInstance
  /\ classes[c].type = "default"
  /\ instance' = [NoInstance EXCEPT !.class = c]
  /\ UNCHANGED <<classes, text, isOpen, knows, written>>

\* The methods that may run with the instance as `this`: its class's, and its
\* superclasses' through super.
Runnable == UNION {{t[n] : n \in {n \in Names : IsDefined(t, n)}} :
              t \in {Class.privateMethods} \cup
                    {classes[d].publicMethods : d \in {Chain(instance.class)[i] :
                                                  i \in DOMAIN Chain(instance.class)}}}

\* SET_ATTRIBUTE, by code outside the class or by a method whose class had not
\* declared the name private yet, and SET_PRIVATE_ATTRIBUTE by one whose had.
SetAttribute(n, v) ==
  /\ instance' = [instance EXCEPT !.publicAttributes[n] = v]
  /\ written' = [name |-> n, value |-> v, private |-> FALSE]

SetPrivateAttribute(n, v) ==
  /\ instance' = [instance EXCEPT !.privateAttributes[n] = v]
  /\ written' = [name |-> n, value |-> v, private |-> TRUE]

WriteThis(method, n, v) ==
  IF n \in method.knows THEN SetPrivateAttribute(n, v) ELSE SetAttribute(n, v)

Write ==
  /\ instance # NoInstance
  /\ \E n \in Names, v \in Contents :
       SetAttribute(n, v) \/ \E method \in Runnable : WriteThis(method, n, v)
  /\ UNCHANGED <<classes, text, isOpen, knows>>

\* SET_ATTRIBUTE on a class, which is a runtime error for a constant of its own.
SetClassAttribute(c, n, v) ==
  /\ instance # NoInstance
  /\ ~ IsDefined(classes[c].constants, n)
  /\ classes' = [classes EXCEPT ![c].variables[n] = v]
  /\ UNCHANGED <<text, isOpen, knows, instance, written>>

ClassesNext ==
  \/ \E type \in Types, superclass \in 0 .. Latest : CreateClass(type, superclass)
  \/ \E n \in Names : \/ \E access \in {"public", "private", "abstract"} : DefineMethod(n, access)
                      \/ DeclarePrivate(n)
                      \/ \E constant \in BOOLEAN, v \in Contents : SetClassVar(n, constant, v)
  \/ \E t \in 1 .. Latest - 1 : Use(t)
  \/ EndClass
  \/ \E c \in 1 .. Latest : Construct(c)
  \/ Write
  \/ \E c \in 1 .. Latest, n \in Names, v \in Contents : SetClassAttribute(c, n, v)

ClassesSpec == ClassesInit /\ [][ClassesNext]_classesVars

----------------------------------------------------------------------------
\* Every table answers with what it may hold, and a class comes after its
\* superclass.
ClassesTypeOK ==
  /\ Len(text) = Latest /\ isOpen \in BOOLEAN /\ knows \subseteq Names
  /\ \A c \in DOMAIN classes :
       LET class   == classes[c]
           methods == [class: 1 .. c, at: 1 .. MaxMembers, knows: SUBSET Names] \cup {Undefined}
           fields  == Contents \cup {Undefined}
       IN /\ class.type \in Types /\ class.superclass \in 0 .. c - 1
          /\ class.publicMethods \in [Names -> methods]
          /\ class.privateMethods \in [Names -> methods]
          /\ class.abstractMethods \in [Names -> methods]
          /\ class.constants \in [Names -> fields] /\ class.variables \in [Names -> fields]
  /\ instance.class \in 0 .. Latest

----------------------------------------------------------------------------
(* What the text of the classes says. *)

\* The places in class c's body of the members of a kind, with name n.
Places(c, kind, n) ==
  {i \in DOMAIN text[c] : text[c][i].kind = kind /\ text[c][i].name = n}

\* The place of the method called n of class c: the last definition or use of a
\* trait that has it in the body of c, or else the method of the superclass.
Meaning[c \in 0 .. Latest] ==
  [n \in Names |->
     IF c = 0 THEN Undefined
     ELSE LET uses   == {i \in DOMAIN text[c] : /\ text[c][i].kind = "use"
                                              /\ Meaning[text[c][i].trait][n] # Undefined}
              places == Places(c, "public", n) \cup uses
          IN IF places = {} THEN Meaning[classes[c].superclass][n]
             ELSE IF Last(places) \in uses THEN Meaning[text[c][Last(places)].trait][n]
             ELSE <<c, Last(places)>>]

Place(method) == IF method = Undefined THEN Undefined ELSE <<method.class, method.at>>

\* A name stands for the method that the text of the classes gives it: the
\* nearest one up the superclasses, the last one within a body, with a trait's
\* methods where the trait is used, as traits promise in docs/docs/classes.md.
\* This is so for calls from outside, for bound methods and for super, however
\* deep the chain of copied tables is; an attribute gives way to a method that is
\* called and hides one that is only read.  A private method is found through
\* `this` if and only if the instance's own class has it.
MethodsResolve ==
  /\ \A c \in 1 .. Latest, n \in Names :
       /\ Place(classes[c].publicMethods[n]) = Meaning[c][n]
       /\ classes[c].superclass # 0 => Place(Super(c, n)) = Meaning[classes[c].superclass][n]
  /\ instance # NoInstance => \A n \in Names :
       LET c       == instance.class
           meant   == Meaning[c][n]
           helpers == Places(c, "private", n)
       IN /\ meant # Undefined => Place(Invoke(n)) = meant
          /\ meant # Undefined /\ ~ IsDefined(instance.publicAttributes, n) =>
               Place(GetAttribute(n)) = meant
          /\ IF helpers # {} THEN Place(InvokeInternal(n)) = <<c, Last(helpers)>>
             ELSE InvokeInternal(n) = Invoke(n)

\* An instance answers every call that an abstract class above it promises,
\* wherever in the chain the method was left abstract and wherever, in classes
\* or traits, it was given a body; no abstract class or trait has instances.
Instantiable ==
  instance # NoInstance =>
    /\ Class.type = "default"
    /\ \A i \in DOMAIN Chain(instance.class), n \in Names :
         Places(Chain(instance.class)[i], "abstract", n) # {} => Meaning[instance.class][n] # Undefined

\* What was last written to an attribute is what is read, from whichever class of
\* the instance, trait or superclass the writer and the reader are, when both had
\* been told alike whether the name is private.  When only the reader knows it to
\* be private, it reads that too, unless there is a private value already.
ReadsAgree ==
  written # Nothing =>
    LET n == written.name
    IN /\ ~ written.private => GetAttribute(n) = written.value
       /\ \A reader \in Runnable :
            IF n \in reader.knows
            THEN written.private \/ ~ IsDefined(instance.privateAttributes, n)
                   => PrivateView(n) = written.value
            ELSE ~ written.private => GetAttribute(n) = written.value

\* docs/docs/classes.md: a class constant can not be assigned to.  Seen through
\* the class that declares it, it never changes; seen through a subclass, only
\* when one on the way is given a variable of that name.
ConstantsFixed ==
  [][~ isOpen => \A c \in 1 .. Latest, n \in Names :
       LET chain    == Chain(c)
           declares == {i \in DOMAIN chain : Places(chain[i], "const", n) # {}}
       IN declares # {} =>
            \/ ClassAttribute(c, n)' = ClassAttribute(c, n)
            \/ \E i \in DOMAIN chain :
                 /\ \A j \in declares : i < j
                 /\ classes'[chain[i]].variables[n] # classes[chain[i]].variables[n]
    ]_classesVars
=============================================================================
