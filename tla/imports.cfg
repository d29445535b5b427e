SPECIFICATION Spec
CONSTANTS
  Files = {a, b, c}
  Main = Main
  None = None
  LateImports = FALSE
  MaxFrames = 6
SYMMETRY Sym
INVARIANTS TypeOK 
PROPERTIES BindsNamed NeverHalfLoaded
CHECK_DEADLOCK FALSE
