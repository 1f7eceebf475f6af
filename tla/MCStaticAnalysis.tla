-------------------------- MODULE MCStaticAnalysis --------------------------
(* Methods that differ in one respect or two from a plain one, analysed by   *)
(* themselves; and services with two and three resources, read directly or   *)
(* in fragments, some of which cannot be had.                                *)
EXTENDS StaticAnalysis

MCSnakeCase(n) == n
S == INSTANCE SchemaTables WITH SnakeCase <- MCSnakeCase
MCItemsOf(s) == S!GetItems(s)
MCPropertyOf(s, k) == S!GetProperty(s, k)
MCSelectItemsKeyOf(response, key) == S!LookupSelectItemsKey(response, key)
MCSelectItemsSchemaOf(s, key) == S!GetSelectItemsSchema(s, key)

Sc(type, props) == [type |-> type, name |-> "Thing", props |-> props, items |-> Absent,
                    allOf |-> <<>>, oneOf |-> <<>>, anyOf |-> <<>>, xml |-> ""]
Str == Sc("string", <<>>)
Thing == Sc("object", [id |-> Str])
ListOf(s) == [Sc("array", <<>>) EXCEPT !.items = s]
Page == Sc("object", [items |-> ListOf(Thing), next |-> Str])
Wide == [Sc("", <<>>) EXCEPT !.allOf = <<Thing, Page>>]

Key(p) == [kind |-> "json", path |-> p]
Keys == {NoKey, PlainKey("items"), PlainKey("lost"), Key(<<"items">>), Key(<<"items", "[*]">>),
         Key(<<"items", "[*]", "id">>), Key(<<"items", "id">>), Key(<<"lost">>), Key(<<"next", "[*]">>)}

R(raw, key) == [key |-> key, raw |-> raw, override |-> Absent, async |-> Absent,
                media |-> "json", overrideMedia |-> "", transform |-> Absent]

Plain == [opRef |-> "ref", template |-> <<"a", "p">>, formulates |-> TRUE, builds |-> TRUE,
          unrouted |-> FALSE, servers |-> "good", requestToken |-> "none", responseToken |-> "none",
          graphql |-> FALSE, verb |-> "select", inline |-> TRUE, response |-> R(Page, NoKey)]

Tr(type, parses, guarded, chained, survives, fix) ==
    [type |-> type, empty |-> FALSE, parses |-> parses, guarded |-> guarded, chained |-> chained, survives |-> survives, fix |-> fix]
Good == Tr("xml", TRUE, TRUE, FALSE, TRUE, "none")
Transforms == {Good, [Good EXCEPT !.empty = TRUE], [Good EXCEPT !.survives = FALSE], [Good EXCEPT !.type = "unknown"], [Good EXCEPT !.parses = FALSE]}
              \cup {Tr(y, TRUE, g, c, TRUE, f) : y \in {"xml", "json"}, g \in BOOLEAN, c \in BOOLEAN, f \in {"none", "good", "bad"}}

BySchema == {[Plain EXCEPT !.response = R(s, k)] : s \in {Absent, Str, Thing, Page, Wide, ListOf(Thing), Sc("object", <<>>)}, k \in Keys}
ByTransform == {[Plain EXCEPT !.response = [R(raw, k) EXCEPT !.override = o, !.overrideMedia = om, !.media = "xml", !.transform = t]] :
                  raw \in {Absent, Thing}, o \in {Absent, Page}, om \in {"", "json", "xml"}, k \in {NoKey, Key(<<"items">>)}, t \in Transforms \cup {Absent}}
ByChecks == {[Plain EXCEPT !.requestToken = a, !.responseToken = b] : a, b \in {"none", "empty", "key"}}
            \cup {[Plain EXCEPT !.template = t] : t \in UNION {[1..n -> {"a", "p", "q"}] : n \in 1..3}}
            \cup {[Plain EXCEPT !.formulates = FALSE], [Plain EXCEPT !.builds = FALSE], [Plain EXCEPT !.unrouted = TRUE],
                  [Plain EXCEPT !.servers = "none"], [Plain EXCEPT !.graphql = TRUE], [Plain EXCEPT !.verb = ""],
                  [Plain EXCEPT !.response = Absent], [Plain EXCEPT !.response = R(Absent, NoKey)],
                  [Plain EXCEPT !.response = [R(Absent, NoKey) EXCEPT !.async = Page]],
                  [Plain EXCEPT !.opRef = "bare", !.inline = FALSE]}

\* A placeholder occurs once in a path; only a local template may be bare.
Distinct(t) == \A i, j \in DOMAIN t : IsPlaceholder(t[i]) /\ t[i] = t[j] => i = j
Alone == {m \in BySchema \cup ByTransform \cup ByChecks : Distinct(m.template)}

NoParent == [r \in {} |-> "r"]
Service(register, readable, fragment, methods, parent) ==
    [register |-> register, readable |-> readable, fragment |-> fragment, methods |-> methods, parent |-> parent]
Own(rs) == [r \in rs |-> {r}]
Provider(protocol, valid, services) ==
    [loads |-> TRUE, protocol |-> protocol, valid |-> valid, services |-> services]

Singles == {Provider(p, TRUE, [s \in {"s"} |-> Service(FALSE, TRUE, Own({"r"}), [r \in {"r"} |-> [x \in {"x"} |-> m]], NoParent)]) :
              m \in Alone, p \in {"http", "local"}}
LegalSingles == {w \in Singles : w.protocol = "local" \/ w.services["s"].methods["r"]["x"].opRef = "ref"}

\* Three resources in a register, of one document or of several.
Rs == {"r", "q", "o"}
Methods3(bad) == [k \in Rs |-> IF k = "o" THEN <<>> ELSE [x \in {"x", "y"} |-> IF <<k, x>> = bad THEN [Plain EXCEPT !.builds = FALSE] ELSE Plain]]
Fragments == {Own(Rs), [Own(Rs) EXCEPT !["r"] = {}], [k \in Rs |-> Rs], [k \in Rs |-> IF k = "o" THEN {"o"} ELSE {"r", "q"}],
              [k \in Rs |-> {}], [Own(Rs) EXCEPT !["o"] = Rs, !["q"] = {}], [Own(Rs) EXCEPT !["o"] = Rs]}
Registers == {Service(TRUE, rd, f, Methods3(bad), [k \in {"o"} |-> pa]) :
                rd \in BOOLEAN, f \in Fragments, bad \in {<<"r", "x">>, <<"", "">>}, pa \in {"r", "lost"}}
Small == {Service(FALSE, rd, Own({"z"}), [k \in {"z"} |-> [x \in {"x"} |-> m]], NoParent) :
            rd \in BOOLEAN, m \in {Plain, [Plain EXCEPT !.formulates = FALSE]}}
Empty == Service(FALSE, TRUE, <<>>, <<>>, NoParent)

Composed == {Provider("http", v, [s |-> a, t |-> b]) : v \in BOOLEAN, a \in Registers, b \in Small}
            \cup {Provider("http", TRUE, [s |-> Empty]), Provider("invalid", TRUE, [s |-> Empty]),
                  [Provider("http", TRUE, [s |-> Empty]) EXCEPT !.loads = FALSE],
                  Provider("invalid", TRUE, [s |-> Service(FALSE, TRUE, Own({"r"}), [k \in {"r"} |-> [x \in {"x"} |-> Plain]], NoParent)])}

MCProviders == LegalSingles \cup Composed
MCLiterals == {"a"}
Rq(l, s, r, m) == [level |-> l, service |-> s, resource |-> r, method |-> m]
MCRequests == {Rq("provider", "", "", ""), Rq("service", "s", "", ""), Rq("service", "lost", "", ""), Rq("resource", "s", "r", ""),
               Rq("method", "s", "r", "x"), Rq("method", "s", "r", "lost")}
=============================================================================
