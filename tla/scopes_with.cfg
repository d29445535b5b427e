SPECIFICATION Spec
CONSTANTS
  Name = {a, b}
  NoName = NoName
  Super = Super
  Grammars <- MCGrammars
SYMMETRY Sym
INVARIANTS WithCloses
CHECK_DEADLOCK FALSE
