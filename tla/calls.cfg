SPECIFICATION Spec
CONSTANTS
  Value = {v1, v2}
  Callee = Callee
  MaxStack = 4
  MaxFrames = 4
  MaxClosures = 2
  MaxCaptures = 2
SYMMETRY Sym
INVARIANTS TypeOK OpenSorted 
PROPERTIES ImplementsLexical
