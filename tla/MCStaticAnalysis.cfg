SPECIFICATION AnalysisSpec
CONSTANTS
  Absent = Absent
  ItemsOf <- MCItemsOf
  PropertyOf <- MCPropertyOf
  SelectItemsKeyOf <- MCSelectItemsKeyOf
  SelectItemsSchemaOf <- MCSelectItemsSchemaOf
  Literals <- MCLiterals
  Providers <- MCProviders
  Requests <- MCRequests
INVARIANTS
  EveryMethodOnce
  ExitTellsErrors
  NoErrorIsSilent
  AdjacencyWarningIsExact
