------------------------ MODULE MCRequestPreparation ------------------------
(* Operations whose parameters, bodies and servers vary in turn, resources   *)
(* of one and of two methods, and one or two rows over every set of keys     *)
(* that matters to them.                                                     *)
EXTENDS RequestPreparation

MCPrefixed(a) == IF a = "x" THEN "data__x" ELSE IF a = "p" THEN "data__p" ELSE "data__y"
MCSnake(n) == IF n = "x" THEN "x_" ELSE n
MCLiterals == {"a", "b", "more"}

P(name, in, required, allowEmpty, default) ==
    [name |-> name, alias |-> "", in |-> in, required |-> required,
     allowEmpty |-> allowEmpty, default |-> default]

PathP == P("p", "path", TRUE, FALSE, FALSE)
QueryQ == P("q", "query", FALSE, FALSE, FALSE)

MCParams == {{}, {PathP}, {PathP, QueryQ}, {P("p", "path", TRUE, TRUE, FALSE)},
             {P("p", "header", TRUE, FALSE, FALSE), QueryQ}, {P("p", "header", TRUE, FALSE, TRUE)},
             {P("p", "cookie", FALSE, FALSE, FALSE)}, {PathP, P("p", "header", TRUE, FALSE, FALSE)},
             {[PathP EXCEPT !.alias = "q"]}, {PathP, P("r", "path", TRUE, FALSE, FALSE)}}

Templates(params) ==
    IF \E s \in params : s.name = "r" THEN {<<"p", "r">>, <<"p", "a", "r">>}
    ELSE IF \E s \in params : s.in = "path" THEN {<<"a", "p">>} ELSE {<<"a">>}

Body(base, default, naive, media) ==
    [schema |-> TRUE, props |-> {"x", "p"}, required |-> {"x"},
     annotated |-> IF default = {} THEN {"p"} ELSE {}, naive |-> naive, casing |-> naive, base |-> base, default |-> default, media |-> media]

Metadata == [Body({}, {}, FALSE, FALSE) EXCEPT !.schema = FALSE]

MCBodies == {None, Metadata} \cup
            {Body(b, d, n, m) : b \in {{}, {"p"}}, d \in {{}, {"x"}}, n \in BOOLEAN, m \in BOOLEAN}

S(vs, ds) == [vars |-> vs, defaults |-> ds]
MCServers == {<<S({"region"}, {})>>, <<S({"region"}, {"region"})>>, <<S({"region"}, {}), S({}, {})>>}

MCOp(params, pathItem, local, body, servers, template) ==
    [params |-> params, pathItem |-> pathItem, local |-> local, body |-> body,
     opServers |-> <<>>, pathServers |-> <<>>, ownServers |-> None, docServers |-> servers, template |-> template]

\* Operations that differ in their parameters, and ones that differ in their bodies.
Shapes == {MCOp(ps, pi, lo, b, sv, t) :
             ps \in MCParams, pi \in {{}, {PathP}}, lo \in {{}, {P("p", "inline", FALSE, FALSE, FALSE)}},
             b \in {None, Body({}, {}, FALSE, TRUE)}, sv \in MCServers, t \in UNION {Templates(q) : q \in MCParams}}
ByParams == {op \in Shapes : op.template \in Templates(op.params) /\ ~(op.pathItem # {} /\ op.local # {})}
ByBody == {MCOp({PathP}, {}, {}, b, <<S({}, {})>>, <<"a", "p">>) : b \in MCBodies}

One(op) == [methods |-> [k \in {"list"} |-> op], sqlVerbs |-> <<>>]
Two == {[methods |-> [list |-> MCOp({QueryQ}, {}, {}, None, sv, <<"a">>),
                      get  |-> [MCOp({PathP}, {}, {}, None, <<>>, <<"a", "p">>) EXCEPT !.ownServers = sv]],
         sqlVerbs |-> v] :
          sv \in MCServers,
          v \in {<<>>, [select |-> <<"get", "list">>], [select |-> <<"lost", "get">>], [insert |-> <<"get">>],
                 [select |-> <<"lost">>]}}

MCResources == {One(op) : op \in ByParams \cup ByBody} \cup Two

Row(keys) == [k \in keys |-> "early"]
MCRows == {<<Row(ks)>> : ks \in SUBSET {"p", "q", "data__x", "region"}}
          \cup {<<Row({"p"} \cup ks)>> : ks \in SUBSET {"x_", "data__p", "r"}}
          \cup {<<Row({"p", "x"}), Row({"p", "x"})>>, <<Row({"p", "q"}), Row({"p", "q"})>>,
                <<Row({"p", "data__x"}), Row({"p"})>>, <<Row({"p"}), Row({"q"})>>}

MCPayloads == {None, {}, {"x"}}
MCLateKeys == {{"p"}, {"q", "data__x"}}
MCPushdownNames == {{}, {"q"}}
=============================================================================
