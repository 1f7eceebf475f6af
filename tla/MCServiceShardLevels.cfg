CONSTANTS
  Resources = {"r1", "r2"}
  Docs = {"d1", "d2"}
  Layouts <- Levelled
SPECIFICATION Spec
INVARIANTS EveryLevelInherited
