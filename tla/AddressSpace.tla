---------------------------- MODULE AddressSpace ----------------------------
(***************************************************************************)
(* The address space of a method: it is formulated from the method's       *)
(* parameters, projections and schemas, then written to, read from, used   *)
(* to call the provider and turned into a relation.                        *)
(*                                                                         *)
(* A method is a record                                                    *)
(*   params       set of [name, in, required], of path item and operation  *)
(*   annotated    required parameters the method's annotation declares     *)
(*   projections  function from aliases to addresses [area, key]           *)
(*   bodySchema   request schema or Absent; bodyRequired its required      *)
(*                attributes; request  whether there is a request block    *)
(*   response, async   response schemas or Absent; key the object key      *)
(*   required     function from required parameters to their types         *)
(*   media        "json", "xml" or "other": the kind of body it takes      *)
(*   siblings     set of [path, required]: the other methods' select       *)
(*                schemas and required parameters; path its own            *)
(*   servers      sequence of sets of server variables; local: no protocol *)
(*                that needs one                                           *)
(***************************************************************************)
EXTENDS SchemaLooks, RadixTree

CONSTANTS SnakeCase(_),    \* the snake_case form of a name
          TableOf(_, _, _), \* Tabulate: the columns of a schema, see SchemaTables
          MethodsUnderTest, Settings,
          Addresses,   \* addresses that are written to
          Headers,     \* addresses of the headers a request carries
          Values,
          MaxWrites(_, _)  \* bound on the writes to the space of a method

\* Addresses are strings, told apart by their parts; what is written is a value.
ASSUME AddressesAssumption ==
    /\ \A a \in Addresses \cup Headers : a \in Seq({a[i] : i \in DOMAIN a})
    /\ IsFiniteSet(Headers)
    /\ {Nothing, NilNode} \cap (Values \cup {"header"}) = {} /\ Nothing # NilNode

VARIABLES method, setting, stage, failure,
          aliases,   \* globalAliasMap: function from names to addresses
          selected,  \* [now, final]: schemas of the legacy relation
          tree,      \* shadowQuery
          panicked,  \* whether an operation on it has panicked
          written,   \* what the last write to each address was
          touched,   \* every address ever written
          writes,    \* bound on the number of writes
          body,      \* the body that the caller's request was left with
          sent,      \* the body of the request sent last, ns.request
          relation   \* result of the last ToRelation

vars == <<method, setting, stage, failure, aliases, selected, tree, panicked,
          written, touched, writes, body, sent, relation>>
space == <<method, setting, stage, failure, aliases, selected>>
bodies == <<body, sent>>

Budget == MaxWrites(method, setting)
BodyPrefix == <<"request.body">>

(***************************************************************************)
(* Formulation.                                                            *)
(***************************************************************************)
GetSchemaAtPath(m, key) == IF m.response = Absent THEN Absent ELSE SelectItemsSchemaOf(m.response, key)

GetFinalSelectSchema(m) ==
    IF m.async # Absent THEN SelectItemsSchemaOf(m.async, SelectItemsKeyOf(m.response, m.key))
    ELSE GetSchemaAtPath(m, SelectItemsKeyOf(m.response, m.key))

Areas == {"request.path", "request.query", "request.headers", "request.context"}

\* expandParameterPaths
ParameterPaths(m) ==
    [n \in {p.name : p \in m.params} |->
        LET p == CHOOSE q \in m.params : q.name = n IN
        [area |-> CASE p.in = "path" -> "request.path" [] p.in = "query" -> "request.query"
                    [] p.in = "header" -> "request.headers" [] p.in = "context" -> "request.context"
                    [] p.in = "cookie" -> "request.cookies" [] OTHER -> "unsupported",
         key |-> PlainKey(n)]]

\* resolvePathsToSchemas: cookies and servers are beyond the grammar.
Resolves(m, address) ==
    \/ address.area = "response.body" /\ GetSchemaAtPath(m, address.key) # Absent
    \/ address.area = "request.body" /\ m.bodySchema # Absent
         /\ SelectItemsSchemaOf(m.bodySchema, address.key) # Absent
    \/ address.area \in Areas

Doubled(m) == DOMAIN m.projections \cap {p.name : p \in m.params}

WhyNot(m) ==
    CASE m.servers = <<>> /\ ~m.local -> "no servers"
      [] m.response # Absent /\ GetSchemaAtPath(m, m.key) = Absent -> "no schema at key"
      [] \E a \in DOMAIN m.projections : ~Resolves(m, m.projections[a]) -> "projection"
      [] \E p \in DOMAIN ParameterPaths(m) : ~Resolves(m, ParameterPaths(m)[p]) -> "location"
      [] Doubled(m) # {} -> "selected twice"
      [] OTHER -> Nothing

Init == /\ method \in MethodsUnderTest /\ setting \in Settings
        /\ stage = "formulate" /\ failure = Nothing /\ aliases = <<>> /\ selected = Absent
        /\ tree = EmptyTree /\ panicked = FALSE /\ written = <<>> /\ touched = {} /\ writes = 0
        /\ body = <<>> /\ sent = <<>> /\ relation = Nothing

Formulate ==
    /\ stage = "formulate"
    /\ failure' = WhyNot(method)
    /\ IF failure' # Nothing THEN stage' = "failed" /\ UNCHANGED <<aliases, selected>>
       ELSE /\ stage' = "ready"
            /\ aliases' = method.projections @@ ParameterPaths(method)
            /\ LET now   == GetSchemaAtPath(method, SelectItemsKeyOf(method.response, method.key))
                   final == GetFinalSelectSchema(method)
               IN  selected' = [now |-> now, final |-> IF final # Absent THEN final ELSE now]
    /\ UNCHANGED <<method, setting, tree, panicked, written, touched, writes, bodies, relation>>

(***************************************************************************)
(* Reading and writing.                                                    *)
(***************************************************************************)
Overwritten(f, S, v) == [x \in DOMAIN f \cup S |-> IF x \in S THEN v ELSE f[x]]

Usable == stage = "ready" /\ ~panicked /\ writes < Budget

WriteToAddress(a, v) ==
    /\ Usable
    /\ \E out \in Insert(tree, a, v) : tree' = out.tree /\ panicked' = ~out.ok
    /\ written' = Overwritten(written, {a}, v) /\ touched' = touched \cup {a}
    /\ writes' = writes + 1
    /\ UNCHANGED <<space, bodies, relation>>

\* The tree's Delete, which the namespace itself never calls.
DeleteAddress(a) ==
    /\ Usable /\ a \in DOMAIN written
    /\ \E out \in Delete(tree, a) : tree' = out.tree /\ panicked' = ~out.ok
    /\ written' = [b \in DOMAIN written \ {a} |-> written[b]]
    /\ UNCHANGED <<space, touched, writes, bodies, relation>>

\* The headers written one after the other; a panic is the end of it.
InsertAll(start, order) ==
    LET after[i \in 0..Len(order)] ==
          IF i = 0 THEN {Ok(start)}
          ELSE UNION {IF out.ok THEN Insert(out.tree, order[i], "header") ELSE {out} : out \in after[i - 1]}
    IN  after[Len(order)]

\* The beginning that the attributes of a body are rid of.
Trimmed(m, key) ==
    IF key # <<>> /\ key[1] = (IF m.media = "xml" THEN "/" ELSE "$.") THEN Tail(key) ELSE key

\* A map has one value for a key, whichever came last.
BodyMaps(m, pairs) ==
    {f \in [{Trimmed(m, p[1]) : p \in pairs} -> {p[2] : p \in pairs}] :
        \A k \in DOMAIN f : \E p \in pairs : Trimmed(m, p[1]) = k /\ f[k] = p[2]}

\* A body that Invoke refuses.
Unmarshalled(m, pairs) == pairs # {} /\ (m.media = "other" \/ ~m.request)

\* Invoke, with a request of the caller's: a new one or the one before.  It is
\* copied, which drains its body; the headers are written, and what was written
\* below request.body is marshalled into the caller's request.  What is sent is
\* the copy, with the body the request came with.  A body without a request
\* block, of another kind or that cannot be marshalled is an error, after the
\* headers went in.
Invoke ==
    /\ Usable
    /\ \E order \in Orders(Headers) : \E out \in InsertAll(tree, order) :
       LET pairs == ToFlatMap(tree', BodyPrefix) IN
       /\ tree' = out.tree
       /\ panicked' = (~out.ok \/ Untraversable(tree'))
       /\ \/ (panicked' \/ pairs # {}) /\ body' = <<>> /\ sent' = sent
          \/ /\ ~panicked' /\ ~Unmarshalled(method, pairs)
             /\ body' \in BodyMaps(method, pairs) /\ sent' \in {<<>>, body}
    /\ written' = Overwritten(written, Headers, "header") /\ touched' = touched \cup Headers
    /\ writes' = writes + 1
    /\ UNCHANGED <<space, relation>>

(***************************************************************************)
(* The relation.                                                           *)
(***************************************************************************)
\* getUnionRequiredParameters: the required parameters of every method that
\* selects from the same schema; Absent when their types differ.
UnionRequired(m) ==
    LET same == {s.required : s \in {t \in m.siblings : t.path # "" /\ t.path = m.path}} \cup {m.required}
    IN  IF \E f, g \in same : \E n \in DOMAIN f \cap DOMAIN g : f[n] # g[n] THEN Absent
        ELSE UNION {DOMAIN f : f \in same}

ServerColumns(m) == UNION {m.servers[i] : i \in DOMAIN m.servers}
DefaultColumn(m) == IF m.key = NoKey THEN "" ELSE Last(m.key.path)

\* Absent stands for an error.
GetColumns(m, s, nilAllowed) ==
    LET table == TableOf(s, DefaultColumn(m), setting)
        union == UnionRequired(m)
    IN  IF s = Absent THEN IF nilAllowed THEN {} ELSE Absent
        ELSE IF table = NoTable THEN Panic
        ELSE IF union = Absent /\ ~nilAllowed THEN Absent
        ELSE NamesOf(table) \cup ServerColumns(m)
             \cup {IF setting.snake THEN SnakeCase(n) ELSE n : n \in IF union = Absent THEN {} ELSE union}

\* Mutant: the server variables have columns and no descriptors.
GetColumnDescriptorsNoServer(m, s) ==
    LET table == TableOf(s, DefaultColumn(m), setting) IN
    IF table = NoTable THEN Panic
    ELSE IF UnionRequired(m) = Absent THEN Absent ELSE NamesOf(table) \cup UnionRequired(m)

\* The descriptors keep the parameters' names as they are.
GetColumnDescriptors(m, s) ==
    LET table == TableOf(s, DefaultColumn(m), setting)
        union == UnionRequired(m)
    IN  IF table = NoTable THEN Panic
        ELSE IF union = Absent THEN Absent
        ELSE NamesOf(table) \cup ServerColumns(m) \cup union

\* ToRelation of the legacy kind, now or awaited.
ToRelation(async, nilAllowed) ==
    /\ stage = "ready" /\ tree = EmptyTree /\ relation = Nothing
    /\ LET s    == IF async THEN selected.final ELSE selected.now
           cols == GetColumns(method, s, nilAllowed)
       IN  relation' = IF cols \in {Absent, Panic} THEN [columns |-> cols, descriptors |-> cols]
                       ELSE [columns |-> cols,
                             descriptors |-> IF s = Absent THEN {} ELSE GetColumnDescriptors(method, s)]
    /\ UNCHANGED <<space, tree, panicked, written, touched, writes, bodies>>

Done == stage = "failed" \/ panicked \/ writes = Budget \/ relation # Nothing

Next == \/ Formulate
        \/ \E a \in Addresses, v \in Values : WriteToAddress(a, v)
        \/ \E a \in Addresses : DeleteAddress(a)
        \/ Invoke
        \/ \E async, nilAllowed \in BOOLEAN : ToRelation(async, nilAllowed)
        \/ Done /\ UNCHANGED vars

Spec == Init /\ [][Next]_vars

\* ResolveSignature: every key is known, and none that is required is missing.
ResolveSignature(keys) ==
    /\ keys \subseteq DOMAIN aliases
    /\ {p.name : p \in {q \in method.params : q.required}} \cup method.annotated \subseteq keys
    /\ method.bodyRequired \subseteq keys

-----------------------------------------------------------------------------
(***************************************************************************)
(* Properties.                                                             *)
(***************************************************************************)
Shadowed(a) == \E b \in touched : b # a /\ IsPrefix(b, a)

\* Whatever the order of writes and of the maps, an address none of whose
\* proper prefixes was ever written is read back with its last value, and with
\* nothing once it was deleted; and no write under such addresses panics.
WrittenIsRead ==
    /\ panicked => \E a \in touched : Shadowed(a)
    /\ ~panicked => \A a \in touched : ~Shadowed(a) =>
          Find(tree, a) = {IF a \in DOMAIN written THEN written[a] ELSE Nothing}

\* The body that Invoke puts into the caller's request, to be sent by the next
\* Invoke with it, is what was written at and below request.body: an attribute
\* for every address with the value last written there, as long as no written
\* name is a prefix of another; of addresses that spell one attribute in two
\* ways, it has one (Invoke and ToFlatMap).
Attribute(a) == Trimmed(method, Rest(a, BodyPrefix \o Dot))

MadeOfWritten(f) ==
    LET attributes == {b \in DOMAIN written : b = BodyPrefix \/ IsPrefix(BodyPrefix \o Dot, b)} IN
    /\ DOMAIN f = {Attribute(a) : a \in attributes}
    /\ \A k \in DOMAIN f : \E a \in attributes : Attribute(a) = k /\ f[k] = written[a]

BodyIsWhatWasWritten ==
    [][(body' # <<>> /\ (\A a \in touched : ~Shadowed(a))' /\ Invoke) => MadeOfWritten(body)']_vars

Table(s) == TableOf(s, DefaultColumn(method), setting)

\* The relation's columns and its column descriptors are the same names, no
\* two of a table under one name, when snake_case is not asked for or changes
\* no parameter.
ColumnsAgree ==
    relation # Nothing /\ relation.columns \notin {Absent, Panic} /\ relation.descriptors # Absent
      /\ (setting.snake => \A n \in UnionRequired(method) : SnakeCase(n) = n) =>
        relation.columns = relation.descriptors

\* Every column of a select schema leads back to a property of it, when the
\* schema does not mix its own properties, anyOf and oneOf.
Unmixed(s) == Cardinality({f \in {<<"p", DOMAIN s.props # {}>>, <<"l", s.allOf # <<>>>>,
                                  <<"n", s.anyOf # <<>>>>, <<"o", s.oneOf # <<>>>>} : f[2]}) <= 1

ColumnsAreReachable ==
    stage = "ready" /\ selected.now # Absent /\ selected.now.type # "array" /\ Unmixed(selected.now) /\ ~setting.unioned =>
        LET table == Table(selected.now) IN
        table # NoTable => \A c \in table :
            selected.now.type = "string" \/ PropertyOf(selected.now, c.of) # Absent

=============================================================================
