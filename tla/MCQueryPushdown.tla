--------------------------- MODULE MCQueryPushdown ---------------------------
(* A table of three rows with two columns, queries of up to two predicates,  *)
(* and configurations that support everything, something or nothing.         *)
EXTENDS QueryPushdown

Sub(dialect, param, syntax, cols, ops, max) ==
    [dialect |-> dialect, param |-> param, syntax |-> syntax,
     cols |-> cols, ops |-> ops, max |-> max]

OData == Sub("odata", "", "", {}, {}, 0)

MCConfigs ==
    {Nil} \cup
    {[select |-> s, filter |-> f, orderBy |-> o, top |-> t, skip |-> k, count |-> c] :
       s \in {Nil, Sub("odata", "", "", {"a"}, {}, 0)},
       f \in {Nil, OData, Sub("odata", "", "", {"a"}, {}, 0),
              Sub("", "filter", "odata", {"*"}, {"eq", "gt"}, 0), Sub("", "filter", "key_value", {}, {}, 0)},
       o \in {OData, Sub("", "sort", "prefix", {}, {}, 0), Sub("odata", "", "", {"a"}, {}, 0)},
       t \in {Nil, Sub("", "limit", "", {}, {}, 1), Sub("", "", "", {}, {}, 0)},
       k \in {Nil, OData}, c \in {Nil, OData}}

Predicates == {[col |-> "a", op |-> "=", val |-> 1], [col |-> "b", op |-> ">", val |-> 0],
               [col |-> "b", op |-> "like", val |-> 1]}

MCIntents ==
    [projection : {{}, {"a"}, {"a", "b"}},
     predicates : {<<>>} \cup {<<p>> : p \in Predicates}
                  \cup {<<[col |-> "a", op |-> "=", val |-> 1], [col |-> "b", op |-> ">", val |-> 0]>>,
                        <<[col |-> "b", op |-> "like", val |-> 1], [col |-> "a", op |-> "=", val |-> 1]>>},
     orderBy : {<<>>, <<[col |-> "b", desc |-> TRUE]>>, <<[col |-> "a", desc |-> FALSE]>>},
     limit : {Nil, -1, 1, 2}, offset : {Nil, 1}, count : {FALSE}]
    \cup
    [projection : {{}}, predicates : {<<>>} \cup {<<p>> : p \in Predicates},
     orderBy : {<<>>}, limit : {Nil, 1}, offset : {Nil, 1}, count : {TRUE}]

Table(a, b) == [i \in 1..3 |-> [id |-> i, cells |-> [a |-> a[i], b |-> b[i]]]]
MCTables == {Table(<<1, 0, 1>>, <<0, 1, 1>>), Table(<<0, 1, 1>>, <<1, 0, 2>>)}
=============================================================================
