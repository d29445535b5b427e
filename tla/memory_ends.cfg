SPECIFICATION Spec
CONSTANTS
  Obj = {o1, o2, o3}
  Text = {t1}
  NoText = NoText
  None = None
  MaxStack = 3
  MaxRoots = 1
  MaxFields = 2
PROPERTIES CollectionEnds
