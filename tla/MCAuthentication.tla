-------------------------- MODULE MCAuthentication --------------------------
EXTENDS Authentication

Base == [type |-> "", prefix |-> "", location |-> "", name |-> "", grant |-> "", next |-> None,
         source |-> <<>>, id |-> <<>>]
From(kind, state) == [k \in {kind} |-> state]
Ids(names) == [n \in names |-> "ok"]

MCConfig ==
    [bearer |-> [Base EXCEPT !.type = "bearer", !.source = From("envvar", "ok")],
     apikey |-> [Base EXCEPT !.type = "api_key", !.prefix = "Token", !.source = From("file", "ok")],
     emptyfile |-> [Base EXCEPT !.type = "api_key", !.source = From("filevar", "empty")],
     basic |-> [Base EXCEPT !.type = "basic",
                  !.source = [k \in {"envbasic", "inline"} |-> IF k = "inline" THEN "ok" ELSE "missing"]],
     chain |-> [Base EXCEPT !.type = "custom", !.location = "header", !.name = "X-Key",
                  !.source = From("envvar", "ok"), !.next = "second"],
     second |-> [Base EXCEPT !.type = "custom", !.location = "query", !.name = "key",
                   !.source = From("encoded", "ok"), !.next = "third"],
     third |-> [Base EXCEPT !.type = "custom", !.location = "header", !.name = "X-Key",
                  !.source = From("file", "ok")],
     odd |-> [Base EXCEPT !.type = "custom", !.location = "header", !.name = "Authorization",
                !.source = From("inline", "ok"), !.next = "nowhere"],
     nowhere |-> [Base EXCEPT !.type = "custom", !.location = "cookie", !.name = "k",
                    !.source = From("inline", "ok"), !.next = "broken"],
     broken |-> [Base EXCEPT !.type = "custom", !.location = "query", !.source = From("file", "empty")],
     aws |-> [Base EXCEPT !.type = "aws_signing_v4", !.source = From("envvar", "ok"), !.id = Ids({"key"})],
     role |-> [Base EXCEPT !.type = "aws_assume_role", !.source = From("envvar", "ok"),
                 !.id = Ids({"key", "role"})],
     oauth |-> [Base EXCEPT !.type = "oauth2", !.grant = "client_credentials",
                  !.id = Ids({"client", "secret"})],
     google |-> [Base EXCEPT !.name = "google", !.source = From("file", "ok")],
     azure |-> [Base EXCEPT !.type = "azure_default"],
     login |-> [Base EXCEPT !.type = "interactive"],
     nothing |-> [Base EXCEPT !.type = "unheard_of"]]
\* Two providers, each with its context; the others are reached as successors.
MCSessions ==
    {{"bearer", "chain"}, {"apikey", "oauth"}, {"odd", "nothing"}, {"basic", "role"},
     {"aws", "second"}, {"azure", "login"}, {"google", "nowhere"}, {"emptyfile", "broken"}}

MCEnvironments ==
    {[session |-> s, keys |-> k, sts |-> TRUE, azure |-> TRUE, tls |-> FALSE, default |-> "plain"] :
        s, k \in BOOLEAN}
    \union {[session |-> FALSE, keys |-> FALSE, sts |-> FALSE, azure |-> FALSE, tls |-> t, default |-> "custom"] :
               t \in BOOLEAN}
Carrying(places) == [p \in places |-> <<"user", p>>]
MCRequests ==
    {[carries |-> <<>>, target |-> None],
     [carries |-> Carrying({<<"header", "X-Key">>, Authorization}), target |-> "ec2"],
     [carries |-> <<>>, target |-> "s3"],
     [carries |-> Carrying({<<"header", "X-Key">>, <<"header", "Connection">>}), target |-> "bucket"]}
=============================================================================
