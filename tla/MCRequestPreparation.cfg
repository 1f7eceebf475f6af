SPECIFICATION Spec
CONSTANTS
  None = None
  Prefixed <- MCPrefixed
  Snake <- MCSnake
  Literals <- MCLiterals
  Resources <- MCResources
  Rows <- MCRows
  Payloads <- MCPayloads
  LateKeys <- MCLateKeys
  Attrs = {"x", "p", "y"}
  SlashyNames = {"p"}
  PushdownNames <- MCPushdownNames
  Verb = "select"
INVARIANTS
  SelectedIsPreparable
  PresentedSuffices
  GivenIsSent
  EveryRowOnce
  LateValueIsSent
  RefusedOnlyWhenAmbiguous
