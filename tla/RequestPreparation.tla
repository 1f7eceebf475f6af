------------------------- MODULE RequestPreparation -------------------------
(***************************************************************************)
(* From the parameters of a query to the requests that are sent: the       *)
(* method is selected, every row of parameters is split over the places of *)
(* a request, bodies are settled in two passes, each request is            *)
(* parameterised against its operation and routed, the pushdown parameters *)
(* are put on, and values that become known later are merged and the whole *)
(* built again.                                                            *)
(*                                                                         *)
(* A row is a function from keys to the source of their value ("early" or  *)
(* "late").  A slot <<kind, name>> is one entry of HttpParameters; a value *)
(* is a pair <<key, source>>, so that one can tell where it came from.     *)
(***************************************************************************)
EXTENDS OperationParameters, PathRouting

CONSTANTS Resources,     \* resources under test
          Rows,          \* parameter maps under test: sequences of rows
          Payloads,      \* exec payloads: None, or a set of body attributes
          LateKeys,      \* sets of keys that may be bound late
          Attrs,         \* names of body attributes
          SlashyNames,   \* parameters whose values contain slashes
          PushdownNames, \* sets of query parameters a pushdown intent may yield
          Verb           \* the SQL verb of the query

Failures == {"no method", "repeated name", "missing header", "missing path", "no server",
             "media type", "no route"}

ASSUME NoneAssumption == None \notin Failures

\* Rows come one after the other, at least one, with values that are known
\* from the start.
ASSUME RowsAssumption ==
    \A rs \in Rows :
        /\ rs # <<>> /\ rs \in Seq({rs[i] : i \in DOMAIN rs})
        /\ \A i \in DOMAIN rs : \A k \in DOMAIN rs[i] : rs[i][k] = "early"

\* What a document has to be like: its lists are lists, no parameter of an
\* annotation is located in the body, and every placeholder of a path is
\* declared as a path parameter somewhere.
WellFormed(op) ==
    /\ op.template \in Seq({op.template[i] : i \in DOMAIN op.template})
    /\ \A servers \in {op.opServers, op.pathServers, op.docServers} \cup ({op.ownServers} \ {None}) :
          servers \in Seq({servers[i] : i \in DOMAIN servers})
    /\ \A p \in op.local : p.in # "body"
    /\ \A i \in DOMAIN op.template :
          IsPlaceholder(op.template[i]) =>
             \E p \in op.params \cup op.pathItem \cup op.local : p.in = "path" /\ p.name = op.template[i]

ASSUME ResourcesAssumption ==
    \A res \in Resources :
        /\ DOMAIN MethodKeys(res, Verb) \subseteq Nat
        /\ \A m \in DOMAIN res.methods : m # None /\ WellFormed(res.methods[m])

VARIABLES resource, rows, payload,
          annotated,     \* rows come from an annotation's stream (IsFromAnnotation)
          pushdown,      \* the query parameters of the pushdown intent
          stream,        \* rows the stream still holds
          method,        \* key of the selected method, None
          stage, failure,
          todo,          \* split parameters of the rows not yet built
          armoury,       \* requests built, in row order
          built,         \* rows the armoury was built from
          late           \* keys that were bound late

inputs == <<resource, payload, annotated, pushdown>>
vars == <<resource, rows, payload, annotated, pushdown, stream, method, stage,
          failure, todo, armoury, built, late>>

Op == resource.methods[method]

(***************************************************************************)
(* splitHTTPParameters.                                                    *)
(***************************************************************************)
\* An operation parameter goes to its location; with a request schema, what
\* is an attribute's name goes to the body; the rest become server parameters.
Slot(op, key) ==
    LET found == GetOperationParameter(op, key) IN
    IF found # {} THEN LET p == CHOOSE p \in found : TRUE IN <<p.in, p.name>>
    ELSE LET attrs == IF HasSchema(op) THEN RevertRequestBodyAttributeRename(op, key, Attrs) ELSE {}
         IN  IF attrs # {} THEN <<"body", CHOOSE a \in attrs : TRUE>> ELSE <<"server", key>>

\* The base body is put down when a key is met that is no operation parameter.
BaseSlots(op, row) ==
    IF HasSchema(op) /\ \E k \in DOMAIN row : GetOperationParameter(op, k) = {}
    THEN {<<"body", a>> : a \in op.body.base} ELSE {}

\* Keys that share a slot overwrite each other in the order of a Go map: any
\* of them may be the last.
Splits(op, row) ==
    LET slots == {Slot(op, k) : k \in DOMAIN row} IN
    {[s \in slots \cup BaseSlots(op, row) |->
        IF s \in slots THEN <<last[s], row[last[s]]>> ELSE <<s[2], "base">>] :
     last \in {f \in [slots -> DOMAIN row] : \A s \in slots : Slot(op, f[s]) = s}}

BodyOf(params) == {s \in DOMAIN params : s[1] = "body"}
WithBody(params, body) ==
    [s \in (DOMAIN params \ BodyOf(params)) \cup DOMAIN body |->
        IF s \in DOMAIN body THEN body[s] ELSE params[s]]
BodyFrom(attrs, source) == [s \in {<<"body", a>> : a \in attrs} |-> <<s[2], source>>]

DefaultBody(op) == IF op.body = None THEN {} ELSE op.body.default

(***************************************************************************)
(* The two passes over the rows.                                           *)
(***************************************************************************)
\* First pass: an exec payload takes the place of the body; the annotated
\* builder lets even an empty one.
FirstPass(params) ==
    IF payload # None /\ (payload # {} \/ annotated)
    THEN WithBody(params, BodyFrom(payload, "payload")) ELSE params

\* The Content-Type that goes with a body from the parameters or the default.
TypedBody(op, params) ==
    payload = None /\ op.body # None /\ (BodyOf(params) # {} \/ DefaultBody(op) # {})

\* Mutant: the default wins over what was given, as it does when annotated.
SecondPassDefaultFirst(op, params) ==
    IF DefaultBody(op) # {} THEN WithBody(params, BodyFrom(DefaultBody(op), "default")) ELSE params

\* Second pass: an empty body is replaced by the default; the annotated
\* builder replaces any.
SecondPass(op, params) ==
    IF DefaultBody(op) # {} /\ (annotated \/ BodyOf(params) = {})
    THEN WithBody(params, BodyFrom(DefaultBody(op), "default")) ELSE params

(***************************************************************************)
(* parameterize.                                                           *)
(***************************************************************************)
FlatName(op, slot) == IF slot[1] = "body" THEN RenameRequestBodyAttribute(op, slot[2]) ELSE slot[2]

\* ToFlatMap: a name that occurs twice, inline parameters apart, is an error.
Repeated(op, params) ==
    \E s, t \in {u \in DOMAIN params : u[1] # "inline"} :
        s # t /\ FlatName(op, s) = FlatName(op, t)

NotGiven(op, params, in) == {p \in op.params : p.in = in /\ <<in, p.name>> \notin DOMAIN params}

MissingHeader(op, params) == \E p \in NotGiven(op, params, "header") : ~p.default /\ IsRequired(p)
MissingPath(op, params) == \E p \in NotGiven(op, params, "path") : IsRequired(p)

GivenServerParams(params) == {s[2] : s \in {t \in DOMAIN params : t[1] = "server"}}

\* Values of the path: those given for the operation's own path parameters.
PathValues(op, params) ==
    [n \in {p.name : p \in {q \in op.params : q.in = "path" /\ <<"path", q.name>> \in DOMAIN params}} |->
        IF n \in SlashyNames THEN <<n, "more">> ELSE <<n>>]

\* What leaves with the request: path and header values the operation declares,
\* defaults of headers, all query values, the variables of the server.
OnTheWire(op, params) ==
    LET server    == GetServers(op)[SelectServer(op, GivenServerParams(params))]
        declared  == {s \in DOMAIN params : s[1] \in {"path", "header"} /\ \E p \in op.params : s = <<p.in, p.name>>}
        queried   == {s \in DOMAIN params : s[1] = "query"}
        located   == {s \in DOMAIN params : s[1] = "server" /\ s[2] \in server.vars}
        defaulted == {<<"header", p.name>> : p \in {q \in NotGiven(op, params, "header") : q.default}}
    IN  [s \in declared \cup queried \cup located \cup defaulted |->
            IF s \in DOMAIN params THEN params[s] ELSE <<s[2], "default">>]

\* marshalBody: without a request block there is no body; a nil map is
\* marshalled to the literal null; an unknown media type is an error that only
\* matters when there is something to send.
NullBody == <<"null", "">>

MarshalledBody(op, params) ==
    IF op.body = None \/ ~op.body.media THEN {}
    ELSE IF BodyOf(params) = {} THEN {NullBody} ELSE BodyOf(params)

Routable(op, params) ==
    FindRoute({resource.methods[k].template : k \in DOMAIN resource.methods},
              Fill(op.template, PathValues(op, params))) # {}

\* The first of these that is met is the error.
Failure(op, params) ==
    IF Repeated(op, params) THEN "repeated name"
    ELSE IF MissingHeader(op, params) THEN "missing header"
    ELSE IF MissingPath(op, params) THEN "missing path"
    ELSE IF SelectServer(op, GivenServerParams(params)) = 0 THEN "no server"
    ELSE IF op.body # None /\ ~op.body.media /\ BodyOf(params) # {} THEN "media type"
    ELSE IF ~Routable(op, params) THEN "no route"
    ELSE None

Request(op, params, typed) ==
    [params |-> params, wire |-> OnTheWire(op, params), body |-> MarshalledBody(op, params),
     typed |-> typed, url |-> Fill(op.template, PathValues(op, params))]

-----------------------------------------------------------------------------
Init == /\ resource \in Resources /\ rows \in Rows /\ payload \in Payloads
        /\ annotated \in BOOLEAN /\ pushdown \in PushdownNames
        /\ stream = IF annotated THEN rows ELSE <<>>
        /\ method = None /\ stage = "select" /\ failure = None
        /\ todo = <<>> /\ armoury = <<>> /\ built = <<>> /\ late = {}

\* Mutant: what was built before the failing row is handed out.
FailsPartly(why) == stage' = "failed" /\ failure' = why /\ todo' = <<>> /\ UNCHANGED armoury

Fails(why) == /\ stage' = "failed" /\ failure' = why
              /\ armoury' = <<>> /\ todo' = <<>>

\* The keys of the query decide, before any request is built.
SelectMethod ==
    /\ stage = "select"
    /\ LET m == GetFirstMatch(resource, Verb, DOMAIN rows[1]) IN
       /\ method' = m
       /\ IF m = None THEN stage' = "failed" /\ failure' = "no method"
                      ELSE stage' = "split" /\ UNCHANGED failure
    /\ UNCHANGED <<inputs, rows, stream, todo, armoury, built, late>>

\* The rows of the preparator, or what its stream still holds, are split and
\* go through the first pass.
SplitHTTPParameters ==
    /\ stage = "split"
    /\ LET from == IF annotated THEN stream ELSE rows IN
       /\ built' = from
       /\ todo' \in {ps \in [DOMAIN from -> UNION {Splits(Op, from[i]) : i \in DOMAIN from}] :
                       \A i \in DOMAIN from : ps[i] \in Splits(Op, from[i])}
    /\ stream' = <<>> /\ stage' = "build" /\ armoury' = <<>>
    /\ UNCHANGED <<inputs, rows, method, failure, late>>

BuildRequest ==
    /\ stage = "build" /\ todo # <<>>
    /\ LET first  == FirstPass(Head(todo))
           params == SecondPass(Op, first)
           why    == Failure(Op, params)
       IN  IF why # None THEN Fails(why)
           ELSE /\ armoury' = Append(armoury, Request(Op, params, TypedBody(Op, Head(todo))))
                /\ todo' = Tail(todo) /\ UNCHANGED <<stage, failure>>
    /\ UNCHANGED <<inputs, rows, stream, method, built, late>>

\* applyPushdownToArmoury: every request gets the parameters, over any of the
\* same name.
ApplyPushdownToArmoury ==
    /\ stage = "build" /\ todo = <<>>
    /\ armoury' = [i \in DOMAIN armoury |->
          [armoury[i] EXCEPT !.wire =
             [s \in DOMAIN @ \cup {<<"query", n>> : n \in pushdown} |->
                 IF s[1] = "query" /\ s[2] \in pushdown THEN <<s[2], "pushdown">> ELSE @[s]]]]
    /\ stage' = "built"
    /\ UNCHANGED <<inputs, rows, stream, method, failure, todo, built, late>>

\* Mutant: a value the row has is kept.
MergedEarlyFirst(row, keys) == [k \in DOMAIN row \cup keys |-> IF k \in DOMAIN row THEN row[k] ELSE "late"]

\* MergeParams on a clone: late values are laid over the row.
Merged(row, keys) == [k \in DOMAIN row \cup keys |-> IF k \in keys THEN "late" ELSE row[k]]

\* MergeLateBindingMaps, once and for the first row: the clone shares the
\* stream, which the first build has emptied.
MergeLateBinding ==
    /\ stage = "built" /\ late = {}
    /\ \E keys \in LateKeys : rows' = [rows EXCEPT ![1] = Merged(@, keys)] /\ late' = keys
    /\ stage' = "split"
    /\ UNCHANGED <<inputs, stream, method, failure, todo, armoury, built>>

Done == stage \in {"built", "failed"} /\ UNCHANGED vars

Next == SelectMethod \/ SplitHTTPParameters \/ BuildRequest
        \/ ApplyPushdownToArmoury \/ MergeLateBinding \/ Done

Spec == Init /\ [][Next]_vars

-----------------------------------------------------------------------------
(***************************************************************************)
(* Properties.                                                             *)
(***************************************************************************)
\* A method whose parameters are declared on the operation alone, each name
\* once, with no path parameter that may be left out.
Plain(op) ==
    /\ op.local = {} /\ op.pathItem = {}
    /\ \A p, q \in op.params : Answers(p, q.name) => p = q
    /\ \A p \in op.params : p.in = "path" => IsRequired(p)

\* The selection asks for everything the request needs: a plain method that
\* was selected for the keys of a query, and that every row fits, is never
\* refused for a missing path or header parameter, its URL has no placeholder
\* left, and when it takes a body there is a server for it, unless a parameter
\* or an attribute of the same name takes a server variable's value away.
\* Selection and request building decide what is required in different
\* functions, from different levels of the document.
SelectedIsPreparable ==
    method # None /\ Plain(Op) /\ (\A i \in DOMAIN rows : ParameterMatch(Op, DOMAIN rows[i])) =>
        /\ failure \notin {"missing path", "missing header"}
        /\ (/\ HasSchema(Op) /\ GetServers(Op) # <<>>
            /\ \A v \in ServerVariables(Op) : Slot(Op, v)[1] = "server") => failure # "no server"
        /\ \A i \in DOMAIN armoury : \A j \in DOMAIN Op.template :
              IsPlaceholder(Op.template[j]) =>
                 \E k \in DOMAIN built[i] : <<"path", Op.template[j]>> = Slot(Op, k)

\* What SHOW METHODS presents as required is enough: a query that gives it for
\* some method of the verb finds a method.
PresentedSuffices ==
    stage = "failed" /\ failure = "no method" =>
        \A i \in GetMethodsForSQLVerb(resource, Verb) :
            ~(ToPresentationMap(resource.methods[MethodKeys(resource, Verb)[i]]) \subseteq DOMAIN rows[1])

\* Nothing given is lost between the row and the request: every key that
\* names a path, query or header parameter of the operation, a body attribute
\* or a variable of the server is sent in its place with a value of the row,
\* unless a payload or an annotation's default body replaces the body, or a
\* pushdown parameter of the same name the value.  Of the servers the first is
\* meant, and it must be usable with the values that are left for servers.
GivenIsSent ==
    \A i \in DOMAIN armoury : \A k \in DOMAIN built[i] :
        LET slot == Slot(Op, k)
            mine == {<<j, built[i][j]>> : j \in {l \in DOMAIN built[i] : Slot(Op, l) = slot}}
        IN  /\ slot[1] \in {"path", "query", "header"} /\ (\E p \in Op.params : slot = <<p.in, p.name>>) =>
                   /\ slot \in DOMAIN armoury[i].wire
                   /\ armoury[i].wire[slot] \in mine \cup {<<slot[2], "pushdown">>}
            /\ slot[1] = "body" /\ payload = None /\ ~(annotated /\ DefaultBody(Op) # {}) =>
                   slot \in DOMAIN armoury[i].params /\ armoury[i].params[slot] \in mine
                   /\ (Op.body.media => slot \in armoury[i].body)
            /\ slot[1] = "server" /\ k \in ServerVariables(Op)
                 /\ Viable(GetServers(Op)[1], {l \in DOMAIN built[i] : Slot(Op, l)[1] = "server"}) =>
                   slot \in DOMAIN armoury[i].wire

\* One request for every row, in the order of the rows, or none at all; a
\* rebuild after late values starts from every row again.
EveryRowOnce ==
    /\ stage = "failed" => armoury = <<>>
    /\ stage = "built" /\ ~annotated => built = rows /\ Len(armoury) = Len(rows)
    /\ \A i \in DOMAIN armoury : \A s \in DOMAIN armoury[i].wire :
          armoury[i].wire[s][2] \in {"default", "pushdown"}
             \/ armoury[i].wire[s] \in {<<k, built[i][k]>> : k \in DOMAIN built[i]}

\* A value that becomes known late replaces the earlier one in the request
\* that is sent in the end, in the same place, and no other row's.
LateValueIsSent ==
    stage = "built" /\ ~annotated =>
        \A k \in late, i \in DOMAIN armoury :
            /\ i = 1 => <<k, "early">> \notin {armoury[i].params[s] : s \in DOMAIN armoury[i].params}
            /\ i # 1 => <<k, "late">> \notin {armoury[i].params[s] : s \in DOMAIN armoury[i].params}

\* A request built from a template is found by the router, whatever its values:
\* only a value with slashes next to another placeholder is refused.
RefusedOnlyWhenAmbiguous ==
    failure = "no route" =>
        \E i \in DOMAIN Op.template : Adjacent(Op.template, i) /\ Op.template[i] \in SlashyNames

=============================================================================
