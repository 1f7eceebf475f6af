SPECIFICATION Spec
CONSTANTS
  Absent = Absent
  Nothing = Nothing
  NilNode = NilNode
  Panic = Panic
  SnakeCase <- MCSnakeCase
  TableOf <- MCTableOf
  ItemsOf <- MCItemsOf
  PropertyOf <- MCPropertyOf
  SelectItemsKeyOf <- MCSelectItemsKeyOf
  SelectItemsSchemaOf <- MCSelectItemsSchemaOf
  MethodsUnderTest <- MCMethods
  Settings <- MCSettings
  Addresses <- MCAddresses
  Headers <- MCHeaders
  Values = {"v", "w"}
  MaxWrites <- MCMaxWrites
INVARIANTS
  WrittenIsRead
  ColumnsAgree
  ColumnsAreReachable
PROPERTIES
  BodyIsWhatWasWritten
