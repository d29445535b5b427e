SPECIFICATION Spec
CONSTANTS
  Name = {a, b}
  NoName = NoName
  Super = Super
  Grammars <- MCGrammars
SYMMETRY Sym
INVARIANTS TypeOK NamesFound CapturesFound CapturedAreClosed EndsBalanced ErrorsJust BreaksJump WithClosesUnlessLeft
CHECK_DEADLOCK FALSE
