------------------------ MODULE OperationParameters ------------------------
(***************************************************************************)
(* What a method asks of the one who calls it: its parameters over their   *)
(* three levels, its body attributes under the names callers know them by, *)
(* its server variables, and the choice of the first method of a SQL verb  *)
(* that the given parameters fit.                                          *)
(*                                                                         *)
(* An operation is a record                                                *)
(*   params, pathItem, local  sets of parameters: the operation's, the     *)
(*                    path item's and the method annotation's              *)
(*   body             None, or the request block (see Body)                *)
(*   opServers, pathServers, ownServers, docServers   sequences of servers,*)
(*            the method's own or None                                     *)
(*   template         the path, a sequence of literals and placeholders    *)
(* a parameter [name, alias, in, required, allowEmpty, default], a server  *)
(* [vars, defaults] and a request block                                    *)
(*   [schema, props, required, annotated, naive, casing, base, default,    *)
(*    media], base and default being the sets of attributes they carry.    *)
(***************************************************************************)
EXTENDS Integers, Sequences, FiniteSets

CONSTANTS None,        \* an absent value
          Prefixed(_), \* the caller's name of a body attribute: data__name
          Snake(_)     \* the snake_case form of a name

Locations == <<"path", "query", "header", "cookie", "context">>

(***************************************************************************)
(* Names of body attributes.                                               *)
(***************************************************************************)
HasSchema(op) == op.body # None /\ op.body.schema

\* renameRequestBodyAttribute: the attribute as callers know it.
RenameRequestBodyAttribute(op, attr) ==
    IF op.body # None /\ op.body.naive THEN attr ELSE Prefixed(attr)

\* revertRequestBodyAttributeRename: the attributes a caller's key stands for.
\* The prefix can be taken off any name; naive naming knows the properties of
\* the schema, and their snake_case forms when a native casing is declared.
RevertRequestBodyAttributeRename(op, key, names) ==
    IF op.body.naive
    THEN {a \in op.body.props : key = a \/ (op.body.casing /\ key = Snake(a))}
    ELSE {a \in names : key = Prefixed(a)}

BodyAttributes(op) ==
    IF HasSchema(op) THEN {RenameRequestBodyAttribute(op, a) : a \in op.body.props} ELSE {}

RequiredBodyAttributes(op) ==
    IF HasSchema(op)
    THEN {RenameRequestBodyAttribute(op, a) : a \in op.body.props \cap op.body.required} ELSE {}

(***************************************************************************)
(* Servers: the operation's, else the path item's, else those the method   *)
(* itself names, if any, else the document's.                              *)
(***************************************************************************)
GetServers(op) ==
    IF op.opServers # <<>> THEN op.opServers
    ELSE IF op.pathServers # <<>> THEN op.pathServers
    ELSE IF op.ownServers # None THEN op.ownServers ELSE op.docServers

ServerVariables(op) == IF GetServers(op) = <<>> THEN {} ELSE GetServers(op)[1].vars

\* generateServerURL: a variable that is neither given nor has a default makes
\* the server unusable; the first usable server is taken.
Viable(server, given) == server.vars \subseteq given \cup server.defaults

SelectServer(op, given) ==
    LET viable == {i \in DOMAIN GetServers(op) : Viable(GetServers(op)[i], given)}
    IN  IF viable = {} THEN 0 ELSE CHOOSE i \in viable : \A j \in viable : i <= j

(***************************************************************************)
(* Required and optional parameters.                                       *)
(***************************************************************************)
IsRequired(p) == p.required /\ ~p.allowEmpty

Named(ps) == {p.name : p \in ps}

\* Mutants: the operation's own parameters are forgotten; every body attribute
\* is required.
GetRequiredNonBodyParametersInherited(op) ==
    Named({p \in op.local \cup op.pathItem : IsRequired(p)})

GetRequiredNonBodyParameters(op) ==
    Named({p \in op.local \cup op.pathItem \cup op.params : IsRequired(p)})

GetRequiredParametersWholeBody(op) ==
    GetRequiredNonBodyParameters(op) \cup BodyAttributes(op)
    \cup IF HasSchema(op) THEN ServerVariables(op) ELSE {}

\* A method without a request schema returns before the server variables are
\* added; with one, every variable of the first server is required, whether it
\* has a default or not.
GetRequiredParameters(op) ==
    GetRequiredNonBodyParameters(op) \cup
    IF HasSchema(op) THEN RequiredBodyAttributes(op) \cup ServerVariables(op) ELSE {}

\* An operation's parameter is optional when it is not marked required; the
\* path item's are never listed.
GetOptionalParameters(op) ==
    Named({p \in op.local : ~IsRequired(p)}) \cup Named({p \in op.params : ~p.required})
    \cup (BodyAttributes(op) \ RequiredBodyAttributes(op))

\* The columns SHOW METHODS prints as required.
ToPresentationMap(op) ==
    GetRequiredNonBodyParameters(op) \cup ServerVariables(op) \cup
    IF HasSchema(op)
    THEN {RenameRequestBodyAttribute(op, a) : a \in op.body.props \cap (op.body.required \cup op.body.annotated)}
    ELSE {}

\* GetParameters, with the snake_case aliases of GetParameter's second attempt.
GetParameters(op) == Named(op.pathItem \cup op.params) \cup BodyAttributes(op)

GetParametersIncludingNativeCasing(op) ==
    GetParameters(op) \cup
    IF op.body # None /\ op.body.casing THEN {Snake(n) : n \in GetParameters(op)} ELSE {}

(***************************************************************************)
(* Selection.                                                              *)
(***************************************************************************)
\* parameterMatch and namespaceParameterMatch: every required parameter is
\* given; what fits nothing is handed back.
ParameterMatch(op, given) == GetRequiredParameters(op) \subseteq given

Remaining(op, given) == given \ (GetRequiredParameters(op) \cup GetOptionalParameters(op))

DefaultMethodKeys(verb) ==
    CASE verb = "insert" -> <<"insert", "create">>
      [] verb = "delete" -> <<"delete">>
      [] verb = "select" -> <<"select", "list", "aggregatedList", "get">>
      [] OTHER -> <<>>

\* The names a verb's methods go by: its own, or the customary ones when the
\* verb is not listed at all.
MethodKeys(resource, verb) ==
    IF verb \in DOMAIN resource.sqlVerbs THEN resource.sqlVerbs[verb] ELSE DefaultMethodKeys(verb)

\* getMethodsForSQLVerb: the methods of the verb, as far as they were resolved,
\* by their positions.
GetMethodsForSQLVerb(resource, verb) ==
    {i \in DOMAIN MethodKeys(resource, verb) : MethodKeys(resource, verb)[i] \in DOMAIN resource.methods}

\* getFirstMatch over the verb's methods: None when nothing fits.
GetFirstMatch(resource, verb, given) ==
    LET method(i) == resource.methods[MethodKeys(resource, verb)[i]]
        fits == {i \in GetMethodsForSQLVerb(resource, verb) : ParameterMatch(method(i), given)}
    IN  IF fits = {} THEN None
        ELSE MethodKeys(resource, verb)[CHOOSE i \in fits : \A j \in fits : i <= j]

(***************************************************************************)
(* Where a given parameter goes: GetOperationParameter looks among the     *)
(* annotation's parameters, then among the operation's, location by        *)
(* location, by alias or name.  The path item's are not looked at.         *)
(***************************************************************************)
Answers(p, key) == p.name = key \/ (p.alias # "" /\ p.alias = key)

GetOperationParameter(op, key) ==
    LET local == {p \in op.local : p.name = key}
        at(l) == {p \in op.params : p.in = Locations[l] /\ Answers(p, key)}
        hits  == {l \in DOMAIN Locations : at(l) # {}}
    IN  IF local # {} THEN local
        ELSE IF hits = {} THEN {}
        ELSE {CHOOSE p \in at(CHOOSE l \in hits : \A k \in hits : l <= k) : TRUE}

=============================================================================
