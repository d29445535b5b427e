SPECIFICATION Spec
CONSTANTS
  Obj = {o1, o2, o3, o4}
  Text = {t1}
  NoText = NoText
  None = None
  MaxStack = 3
  MaxRoots = 1
  MaxFields = 2
SYMMETRY Sym
INVARIANTS TypeOK NoDangling StringsCanonical
PROPERTIES CollectsAllGarbage
