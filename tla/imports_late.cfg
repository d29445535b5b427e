SPECIFICATION Spec
CONSTANTS
  Files = {a, b, c}
  Main = Main
  None = None
  LateImports = TRUE
  MaxFrames = 4
PROPERTIES BindsNamed
CHECK_DEADLOCK FALSE
