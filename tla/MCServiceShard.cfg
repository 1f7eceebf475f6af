CONSTANTS
  Resources = {"r1", "r2"}
  Docs = {"d1", "d2"}
  Layouts <- AllLayouts
SPECIFICATION Spec
INVARIANTS HeldIsComplete ShardFitsResource RequestsAreIndependent
