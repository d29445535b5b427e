------------------------------ MODULE MCScopes ------------------------------
(***************************************************************************)
(* A small instance of Scopes for TLC.  A program keeps to one of these    *)
(* groups of constructs, in which the constructs can disturb each other.   *)
(***************************************************************************)
EXTENDS Scopes, TLC

MCGrammars ==
  {[constructs |-> {"var", "while", "function", "use", "break"}, size |-> 5],
   [constructs |-> {"var", "while", "block", "use", "continue"}, size |-> 5],
   [constructs |-> {"var", "block", "use", "function"}, size |-> 5],
   [constructs |-> {"var", "var from name", "function", "argument", "use"}, size |-> 4],
   [constructs |-> {"const", "const function", "function", "assign"}, size |-> 4],
   [constructs |-> {"with", "return", "while", "break", "var"}, size |-> 5],
   [constructs |-> {"for", "block", "break", "continue", "function", "use"}, size |-> 4],
   [constructs |-> {"switch", "if", "var", "use", "while", "break"}, size |-> 4],
   [constructs |-> {"class", "var", "use", "block", "function"}, size |-> 4]}

Sym == Permutations(Name)
=============================================================================
