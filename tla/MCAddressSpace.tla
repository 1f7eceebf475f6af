--------------------------- MODULE MCAddressSpace ---------------------------
(* Methods that differ in their parameters and projections, and ones that    *)
(* differ in their response schemas; addresses that are independent, nested  *)
(* two and three deep, and that share a beginning.                           *)
EXTENDS AddressSpace

MCSnakeCase(n) == IF n = "VpcId" THEN "vpc_id" ELSE n
S == INSTANCE SchemaTables WITH SnakeCase <- MCSnakeCase
MCItemsOf(s) == S!GetItems(s)
MCPropertyOf(s, k) == S!GetProperty(s, k)
MCSelectItemsKeyOf(response, key) == S!LookupSelectItemsKey(response, key)
MCSelectItemsSchemaOf(s, key) == S!GetSelectItemsSchema(s, key)
MCTableOf(s, defaultColName, set) == S!Tabulate(s, defaultColName, set)

Sc(type, props) == [type |-> type, name |-> "Thing", props |-> props, items |-> Absent,
                    allOf |-> <<>>, oneOf |-> <<>>, anyOf |-> <<>>, xml |-> ""]
Str == Sc("string", <<>>)
Wired == [Str EXCEPT !.xml = "wire"]
Thing == Sc("object", [VpcId |-> Str, name |-> Wired])
Other == [Sc("object", [name |-> Str, id |-> Str]) EXCEPT !.name = "Other"]
Listed(s) == Sc("object", [items |-> [Sc("array", <<>>) EXCEPT !.items = s], next |-> Str])
Both == [Sc("", <<>>) EXCEPT !.allOf = <<Thing, Other>>]
Either == [Sc("", <<>>) EXCEPT !.oneOf = <<Thing, Other>>]
AnyOne == [Sc("object", <<>>) EXCEPT !.anyOf = <<Other, Both>>]
Mixed == [Thing EXCEPT !.allOf = <<Other>>]

Key(p) == [kind |-> "json", path |-> p]

M(response, key) ==
    [params |-> {}, annotated |-> {}, projections |-> <<>>, bodySchema |-> Absent,
     bodyRequired |-> {}, request |-> TRUE, media |-> "json", response |-> response, async |-> Absent, key |-> key,
     required |-> [n \in {"VpcId"} |-> "string"], path |-> "Thing", servers |-> <<{"region"}>>,
     siblings |-> {[path |-> "Thing", required |-> [n \in {"project"} |-> "string"]]}, local |-> FALSE]

BySchema ==
    {M(s, k) : s \in {Absent, Str, Sc("integer", <<>>), Thing, Both, Either, AnyOne, Mixed, Listed(Thing), Listed(Both)},
               k \in {NoKey, PlainKey("items"), Key(<<"items">>), Key(<<"items", "[*]", "name">>), Key(<<"name">>)}}
    \cup {[M(Thing, NoKey) EXCEPT !.async = Listed(Other)],
          [M(Thing, NoKey) EXCEPT !.siblings = {[path |-> "Thing", required |-> [n \in {"VpcId"} |-> "int"]]}]}

P(name, in, required) == [name |-> name, in |-> in, required |-> required]

ByParams ==
    {[M(Thing, NoKey) EXCEPT !.params = ps, !.annotated = an, !.projections = pr, !.bodySchema = b] :
       ps \in {{}, {P("VpcId", "path", TRUE)}, {P("VpcId", "query", TRUE), P("z", "header", FALSE)},
               {P("c", "cookie", FALSE)}, {P("c", "context", TRUE)}},
       an \in {{}, {"a"}},
       pr \in {<<>>, [VpcId |-> [area |-> "response.body", key |-> Key(<<"VpcId">>)]],
               [x |-> [area |-> "response.body", key |-> Key(<<"lost">>)]],
               [x |-> [area |-> "request.body", key |-> Key(<<"name">>)]],
               [x |-> [area |-> "request.query", key |-> PlainKey("q")]]},
       b \in {Absent, Thing}}
    \cup {[M(Thing, NoKey) EXCEPT !.servers = <<>>, !.local = l] : l \in BOOLEAN}

\* The histories of writes are explored for methods with and without a request
\* block, and with bodies of each kind.
Written == {[M(Thing, NoKey) EXCEPT !.request = r, !.media = k] : r \in BOOLEAN, k \in {"json", "xml", "other"}}
MCMaxWrites(m, s) == IF m \in Written /\ s = [snake |-> FALSE, unioned |-> FALSE] THEN 4 ELSE 1

MCMethods == Written \cup BySchema \cup ByParams
MCSettings == {[snake |-> s, unioned |-> u] : s, u \in BOOLEAN}

Attr(a) == BodyPrefix \o Dot \o a
MCAddresses ==
    {BodyPrefix, <<".", "pro">>, <<".", "pro", "ject">>}
    \cup {Attr(a) : a \in {<<"name">>, <<"name", "Server">>, <<"size">>, <<"$.", "size">>, <<"pro">>}}
MCHeaders == {<<"request.headers.", "Host">>, <<"request.headers.", "Accept">>}
=============================================================================
