SPECIFICATION QuerySpec
CONSTANTS
  Configs <- MCConfigs
  Intents <- MCIntents
  Tables <- MCTables
  Nil = Nil
INVARIANTS
  SplitQueryIsExact
  NoForeignRows
