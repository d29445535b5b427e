SPECIFICATION Spec
CONSTANTS
  Functions <- MCFunctions
  MaxSurplus = 1
  MaxFrames = 3
  Names = {m}
  Contents = {v1, v2}
  Undefined = Undefined
  MaxClasses = 3
  MaxMembers = 3
INVARIANTS TypeOK ArgumentsBound MethodsResolve Instantiable ReadsAgree
PROPERTIES ConstantsFixed
SYMMETRY Alike
CHECK_DEADLOCK FALSE
