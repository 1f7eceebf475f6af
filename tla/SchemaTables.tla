---------------------------- MODULE SchemaTables ----------------------------
(***************************************************************************)
(* What a response schema becomes: the schema an object key selects, the   *)
(* flattening of allOf, oneOf and anyOf, and the table that is made of it. *)
(*                                                                         *)
(* A schema is a record                                                    *)
(*   type, name       its type, "" when there is none; the name of its $ref*)
(*   props            a function from property names to schemas            *)
(*   items            None or a schema                                     *)
(*   allOf, oneOf, anyOf   sequences of schemas                            *)
(*   xml              the name it has on the wire, "" when it is the same  *)
(* and a setting [snake, unioned] says whether the provider asks for       *)
(* snake_case columns and for properties to be united with allOf.          *)
(***************************************************************************)
EXTENDS SchemaKeys, Integers, FiniteSets, SequencesExt

CONSTANTS Absent,        \* an absent schema
          SnakeCase(_)   \* the snake_case form of a name

AnonymousColumnName == "column_anon"
DefaultSelectItemsKey == "items"

HasPolymorphicProperties(s) == s.allOf # <<>> \/ s.oneOf # <<>> \/ s.anyOf # <<>>

Overlay(s, member) ==
    [s EXCEPT !.xml = IF member.xml # "" THEN member.xml ELSE @,
              !.type = IF member.type # "" THEN member.type ELSE @,
              !.items = IF member.items # Absent THEN member.items ELSE @]

\* A property name that an earlier member has taken is qualified with the
\* name of the member's $ref.
Accumulate(props, member, own) ==
    LET key(k)  == IF k \in DOMAIN props THEN member.name \o "_" \o k ELSE k
        renamed == {key(k) : k \in DOMAIN own}
    IN  [n \in DOMAIN props \cup renamed |->
            IF n \in renamed THEN own[CHOOSE k \in DOMAIN own : key(k) = n] ELSE props[n]]

RECURSIVE FatSchema(_, _), FattenedPolymorphicSchema(_)
\* getFatSchema: the members' types, items and properties in the order of the
\* members; the schema's own properties are given up.
FatSchema(s, members) ==
    FoldLeft(LAMBDA acc, m :
               LET ss == IF HasPolymorphicProperties(m) THEN FattenedPolymorphicSchema(m) ELSE m IN
               [Overlay(acc, ss) EXCEPT
                  !.props = Accumulate(@, m, ss.props)],
             [s EXCEPT !.allOf = <<>>, !.oneOf = <<>>, !.anyOf = <<>>, !.props = <<>>],
             members)

FattenedPolymorphicSchema(s) ==
    FatSchema(s, IF s.allOf # <<>> THEN s.allOf ELSE IF s.oneOf # <<>> THEN s.oneOf ELSE s.anyOf)

FatItemsSchema(s, members) == FoldLeft(LAMBDA acc, m : Overlay(acc, m), s, members)

\* getFatSchemaWithOverwrites: what the schema or an earlier member has, stays.
FatSchemaWithOverwrites(s, members) ==
    FoldLeft(LAMBDA acc, m :
               [Overlay(acc, m) EXCEPT !.items = acc.items,
                  !.props = [n \in DOMAIN @ \cup DOMAIN m.props |->
                                IF n \in DOMAIN @ THEN @[n] ELSE m.props[n]]],
             s, members)

(***************************************************************************)
(* Looking into a schema.                                                  *)
(***************************************************************************)
\* Mutant: allOf, oneOf and anyOf are not looked into.
GetPropertyOwn(s, k) == IF k \in DOMAIN s.props THEN s.props[k] ELSE Absent

GetProperty(s, k) ==
    LET props == IF HasPolymorphicProperties(s) THEN FattenedPolymorphicSchema(s).props ELSE s.props
    IN  IF k \in DOMAIN props THEN props[k] ELSE Absent

GetItems(s) == (IF s.allOf # <<>> THEN FatItemsSchema(s, s.allOf) ELSE s).items

RECURSIVE GetDescendent(_, _)
GetDescendent(s, path) ==
    IF path = <<>> \/ s = Absent THEN s
    ELSE IF Head(path) = "[*]" /\ GetItems(s) # Absent THEN GetDescendent(GetItems(s), Tail(path))
    ELSE GetDescendent(GetProperty(s, Head(path)), Tail(path))

\* getDescendentInit: the first step is a property, never an item.
GetDescendentInit(s, path) ==
    IF path = <<>> THEN s ELSE GetDescendent(GetProperty(s, Head(path)), Tail(path))

\* deprecatedGetSelectItemsSchema: the key of an array is not looked at; the
\* property of an object must have items.
DeprecatedGetSelectItemsSchema(s, key) ==
    IF s.type = "array" THEN GetItems(s)
    ELSE IF DOMAIN s.props # {}
         THEN IF key \in DOMAIN s.props THEN GetItems(s.props[key]) ELSE Absent
    ELSE IF HasPolymorphicProperties(s) THEN FattenedPolymorphicSchema(s) ELSE Absent

\* lookupSelectItemsKey: the key of a response whose block names none.
LookupSelectItemsKey(response, key) ==
    CASE key # NoKey -> key
      [] key = NoKey /\ response = Absent -> NoKey
      [] key = NoKey /\ response # Absent /\ response.type \in {"string", "integer"} ->
            PlainKey(AnonymousColumnName)
      [] OTHER -> IF DefaultSelectItemsKey \in DOMAIN response.props
                  THEN PlainKey(DefaultSelectItemsKey) ELSE NoKey

\* getSelectItemsSchema
GetSelectItemsSchema(s, key) ==
    CASE key.kind = "none" -> IF s.items # Absent THEN s.items ELSE s
      [] key.kind = "plain" -> DeprecatedGetSelectItemsSchema(s, key.path[1])
      [] key.kind = "json" ->
            LET ss == GetDescendentInit(s, key.path)
            IN  IF ss # Absent /\ ss.items # Absent THEN GetItems(ss) ELSE ss

(***************************************************************************)
(* Tabulate.                                                               *)
(***************************************************************************)
RECURSIVE XmlAlias(_)
XmlAlias(s) ==
    IF s.xml # "" THEN s.xml
    ELSE LET named == SelectSeq(s.allOf, LAMBDA m : XmlAlias(m) # "")
         IN  IF named = <<>> THEN "" ELSE XmlAlias(named[1])

PropertiesColumns(s, setting) ==
    {[name |-> IF setting.snake THEN SnakeCase(k) ELSE k,
      wire |-> IF XmlAlias(s.props[k]) # "" THEN XmlAlias(s.props[k]) ELSE k,
      of   |-> k] : k \in DOMAIN s.props}

\* Properties united with those of allOf: a name that is in use is passed over.
UnionedColumns(s, setting) ==
    LET own  == PropertiesColumns(s, setting)
        more == PropertiesColumns(FatSchemaWithOverwrites(s, s.allOf), setting)
        new  == NamesOf(more) \ NamesOf(own)
    IN  own \cup {CHOOSE c \in more : c.name = n : n \in new}

RECURSIVE Tabulate(_, _, _)
Tabulate(s, defaultColName, setting) ==
    IF s.type = "object" \/ ((DOMAIN s.props # {} \/ HasPolymorphicProperties(s)) /\ s.type # "array")
    THEN IF setting.unioned THEN UnionedColumns(s, setting)
         ELSE IF DOMAIN s.props # {} THEN PropertiesColumns(s, setting)
         ELSE LET members == IF s.allOf # <<>> THEN s.allOf ELSE IF s.anyOf # <<>> THEN s.anyOf ELSE s.oneOf
              IN  IF members = <<>> THEN {} ELSE Tabulate(FatSchema(s, members), defaultColName, setting)
    ELSE IF s.type = "array" THEN Tabulate(s.items, defaultColName, setting)
    ELSE IF s.type = "string"
         THEN LET n == IF defaultColName = "" THEN AnonymousColumnName ELSE defaultColName
              IN  {[name |-> n, wire |-> n, of |-> n]}
    ELSE NoTable

=============================================================================
