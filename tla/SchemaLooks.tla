----------------------------- MODULE SchemaLooks -----------------------------
(***************************************************************************)
(* What is asked of schemas.  SchemaTables has the answers.                *)
(***************************************************************************)
EXTENDS SchemaKeys

CONSTANTS Absent,                   \* an absent schema, block or transform
          ItemsOf(_),               \* GetItems
          PropertyOf(_, _),         \* GetProperty, of a name
          SelectItemsKeyOf(_, _),   \* LookupSelectItemsKey, given an object key
          SelectItemsSchemaOf(_, _) \* GetSelectItemsSchema, at a key

=============================================================================
