--------------------------- MODULE Authentication ---------------------------
(***************************************************************************)
(* Authentication (pkg/auth_util, pkg/dto/auth_ctx.go, pkg/awssign,        *)
(* pkg/netutils, and Auth and httpApiCallFromRequest of                    *)
(* internal/anysdk/client.go).  Every API call builds a client of its own  *)
(* from the auth context of the provider: the base transport, and a layer  *)
(* over it that adds the credentials to each attempt.  The contexts live as*)
(* long as the session and are shared by its calls; a context of type      *)
(* custom may have a successor, whose token is added too.                  *)
(*                                                                         *)
(* A configured context is                                                 *)
(*   type, prefix, location, name, grant, next   as in the document        *)
(*   source   kind of credentials |-> "ok", "missing" or "empty"           *)
(*   id       "key", "role", "client", "secret" |-> "ok", "unset" (a       *)
(*            variable that is empty), or absent                           *)
(* A token is <<context, kind of credentials>>, <<>> when it is empty; what*)
(* a request carries is a function from <<place, key>> to a value          *)
(* <<scheme, token>>.  Its target is None without a service or a region,   *)
(* "s3", "bucket" (a path of S3's own host) or another service.            *)
(***************************************************************************)
EXTENDS Naturals, Sequences

CONSTANTS Config,        \* Config[c], the auth context c as it was read
          Sessions,      \* sets of the contexts of a session's providers
          Environments,  \* [session, keys, sts, azure, tls, default]
          Requests,      \* [carries, target]: requests as they are prepared
          MaxAttempts,   \* attempts of a call
          MaxSent        \* attempts of the session

None == "none"
Authorization == <<"header", "Authorization">>

\* Contexts are nested in one another, as the documents are: the chain of a
\* context's successors comes to an end.
WellFormed ==
    /\ None \notin DOMAIN Config
    /\ \A c \in DOMAIN Config : Config[c].next \in DOMAIN Config \union {None}
    /\ \A S \in SUBSET (DOMAIN Config) : S # {} => \E c \in S : Config[c].next \notin S
    /\ Sessions \subseteq SUBSET (DOMAIN Config)

ASSUME ConfigAssumption == WellFormed

VARIABLES env,       \* the environment of the process
          gcloud,    \* whether the gcloud tool has an access token
          auth,      \* of each context of the session, its [active, type]
          handled,   \* contexts handed to the auth utility directly
          default,   \* layers of the default client's transport
          call,      \* the call under way: [phase, ctx, kind, layers, target, given, request, tries]
          count,     \* attempts so far
          last,      \* the last of them: [ctx, kind, target, given, carried, covered]
          first      \* of each context, the first with it

sessionVars == <<env, gcloud, auth, handled, default, call, count, last, first>>

NoAttempt == [ctx |-> None, kind |-> None, target |-> None, given |-> <<>>, carried |-> <<>>, covered |-> <<>>]

NoCall == [phase |-> "idle", ctx |-> None, kind |-> None, layers |-> <<>>,
           target |-> None, given |-> <<>>, request |-> <<>>, tries |-> 0]

SessionInit ==
    /\ env \in Environments /\ gcloud \in BOOLEAN
    /\ \E s \in Sessions : auth = [c \in s |-> [active |-> FALSE, type |-> Config[c].type]]
    /\ handled = {} /\ default = <<>> /\ call = NoCall
    /\ count = 0 /\ last = NoAttempt /\ first = [c \in DOMAIN auth |-> NoAttempt]

(***************************************************************************)
(* The context                                                             *)
(***************************************************************************)

Has(c, kind) == kind \in DOMAIN Config[c].source

\* The first kind that is configured decides, whether it can be had or not.
CredentialOrder == <<"envvar", "filevar", "file", "envbasic", "inline", "encoded">>
CredentialKind(c) ==
    LET given == DOMAIN Config[c].source
        have == {i \in 1..6 : CredentialOrder[i] \in given}
    IN  IF have = {} THEN None
        ELSE CredentialOrder[CHOOSE i \in have : \A j \in have : i <= j]

\* Variables that hold no user name or no password still make credentials:
\* only a missing file, or the variable of a whole key, is an error.
GetCredentialsBytes(c) ==
    LET kind == CredentialKind(c)
        state == Config[c].source[kind]
    IN  CASE kind = None -> [ok |-> FALSE, token |-> <<>>]
          [] kind = "envvar" -> [ok |-> state = "ok", token |-> <<c, kind>>]
          [] kind \in {"filevar", "file"} ->
               [ok |-> state # "missing", token |-> IF state = "empty" THEN <<>> ELSE <<c, kind>>]
          [] OTHER -> [ok |-> TRUE, token |-> IF state = "ok" THEN <<c, kind>> ELSE <<c, "colon">>]

Id(c, name) == IF name \in DOMAIN Config[c].id THEN Config[c].id[name] ELSE None
GetKeyIDString(c) == Id(c, "key") # "unset"        \* the key id itself may be empty
GetAwsRoleArn(c) == Id(c, "role") = "ok"
GetClientID(c) == Id(c, "client") = "ok"
GetClientSecret(c) == Id(c, "secret") = "ok"
Empty(token) == token = <<>>

\* The successors of a context, in turn; none is its own.
GetSuccessors[c \in DOMAIN Config] ==
    IF Config[c].next = None THEN <<>> ELSE <<Config[c].next>> \o GetSuccessors[Config[c].next]

\* Mutant: the call works on the session's context itself.
CloneShared(touched, before) == touched
\* What the session's contexts are after a call that activated `touched`: the
\* call has a clone, and what it writes there is lost.
Clone(touched, before) == before

KnownTypes == {"azure_default", "api_key", "basic", "bearer", "service_account", "interactive",
               "null_auth", "aws_signing_v4", "aws_assume_role", "custom", "oauth2"}
inferAuthType(c, requested) ==
    CASE requested \in KnownTypes -> requested
      [] requested \notin KnownTypes /\ (Has(c, "file") \/ Has(c, "envvar")) -> "service_account"
      [] OTHER -> "null_auth"

(***************************************************************************)
(* The transports                                                          *)
(***************************************************************************)

\* Mutant: the client of the process is used itself, and keeps the layers.
DefaultAfterShared(layers) == layers
\* The client is a fresh one over the default client's transport, which is
\* left alone.
DefaultAfter(layers) == default

\* A transport that is not Go's own cannot be given TLS settings.
GetHTTPClientPanics == env.default = "custom" /\ env.tls

TokenCfg(type, prefix, location, name, token) ==
    [scheme |-> IF prefix # "" THEN prefix ELSE type,
     place |-> <<location, IF type = "custom" THEN name ELSE "Authorization">>,
     custom |-> type = "custom", token |-> token]

NewTransportRefuses(type, location, name, token) ==
    IF type # "custom" THEN Empty(token) \/ location # "header"
    ELSE location \notin {"header", "query"} \/ (location = "query" /\ name = "")

\* The value of a custom token has no prefix, whatever the context says.
Value(cfg) == IF cfg.custom THEN <<"", cfg.token>> ELSE <<cfg.scheme, cfg.token>>

With(request, place, value) ==
    [p \in DOMAIN request \union {place} |-> IF p = place THEN value ELSE request[p]]

\* RoundTrip: every layer writes its token, in order, over what is there; one
\* with a location of another name writes nothing.
Applied(layers, request) ==
    LET after[i \in 0..Len(layers)] ==
          IF i = 0 THEN request
          ELSE IF layers[i].place[1] \in {"header", "query"}
               THEN With(after[i - 1], layers[i].place, Value(layers[i])) ELSE after[i - 1]
    IN  after[Len(layers)]

(***************************************************************************)
(* The auth utility.  A result says whether a client was made, which type  *)
(* the context was activated with, the layers of the transport, and whether*)
(* the base transport was set up, be it in vain.                           *)
(***************************************************************************)

Refused(active) == [ok |-> FALSE, active |-> active, layers |-> <<>>, opened |-> active # None]
Made(active, layers) == [ok |-> TRUE, active |-> active, layers |-> layers, opened |-> TRUE]

\* The transport of one token; the context is active even if it is refused.
Transported(active, cfg, type, location, name) ==
    IF NewTransportRefuses(type, location, name, cfg.token) THEN Refused(active)
    ELSE Made(active, <<cfg>>)

ApiTokenAuth(c, enforceBearer) ==
    LET got == GetCredentialsBytes(c)
        cfg == TokenCfg("api_key", IF enforceBearer THEN "Bearer" ELSE Config[c].prefix,
                        "header", "", got.token)
    IN  IF ~got.ok THEN Refused(None) ELSE Transported("api_key", cfg, "api_key", "header", "")

BasicAuth(c) ==
    LET got == GetCredentialsBytes(c)
        cfg == TokenCfg("BASIC", Config[c].prefix, "header", "", got.token)
    IN  IF ~got.ok THEN Refused(None) ELSE Transported("basic", cfg, "BASIC", "header", "")

CustomCfg(c) == TokenCfg("custom", Config[c].prefix, Config[c].location, Config[c].name,
                         GetCredentialsBytes(c).token)

\* The tokens of the successors are added unchecked, but each must be readable.
CustomAuth(c) ==
    LET chain == GetSuccessors[c]
        own == Transported("custom", CustomCfg(c), "custom", Config[c].location, Config[c].name)
    IN  CASE ~GetCredentialsBytes(c).ok -> Refused(None)
          [] GetCredentialsBytes(c).ok /\ ~own.ok -> own
          [] OTHER ->
               IF \E i \in DOMAIN chain : ~GetCredentialsBytes(chain[i]).ok THEN Refused("custom")
               ELSE Made("custom", own.layers \o [i \in DOMAIN chain |-> CustomCfg(chain[i])])

Signing(kind) == kind \in {"aws_signing_v4", "aws_assume_role"}

\* SignHTTP writes the date, the token of temporary credentials and, last, the
\* signature.
Date == <<"header", "X-Amz-Date">>
SecurityToken == <<"header", "X-Amz-Security-Token">>
Stamp(place, token) == [scheme |-> "", place |-> place, custom |-> TRUE, token |-> token]
Signature(id) == [scheme |-> "AWS4", place |-> Authorization, custom |-> FALSE, token |-> id]
SignHTTP(id, temporary) ==
    IF temporary THEN <<Stamp(Date, <<None, "date">>), Stamp(SecurityToken, id), Signature(id)>>
    ELSE <<Stamp(Date, <<None, "date">>), Signature(id)>>

\* The signature covers the other headers, with the values they have then.
Covered(request) ==
    [p \in {q \in DOMAIN request : q[1] = "header" /\ q # Authorization} |-> request[p]]

\* Mutant: the date is written once more after the signature.
MarkedDated(target) == [p \in {<<"header", "X-Amz-Date">>} |-> <<"", <<None, "late">>>>]

\* What goes into a request for S3 once it is signed: the hash of the payload
\* and, for its own host, that the connection be closed.
Marked(target) ==
    LET hash == <<"header", "X-Amz-Content-Sha256">>
        close == {<<"header", "Connection">>, <<"request", "Close">>}
    IN  [p \in CASE target = "s3" -> {hash} [] target = "bucket" -> {hash} \union close [] OTHER -> {} |->
           <<"", <<None, "s3">>>>]

Over(request, writes) ==
    [p \in DOMAIN request \union DOMAIN writes |-> IF p \in DOMAIN writes THEN writes[p] ELSE request[p]]

AwsReadable(c) ==
    /\ GetCredentialsBytes(c).ok /\ GetKeyIDString(c)
    /\ ~Empty(GetCredentialsBytes(c).token) /\ Id(c, "key") = "ok"

\* With a session token in the environment the keys are the environment's too.
AwsSigningAuth(c) ==
    CASE ~AwsReadable(c) -> Refused(None)
      [] AwsReadable(c) /\ env.session /\ ~env.keys -> Refused("aws_signing_v4")
      [] OTHER -> Made("aws_signing_v4",
                       SignHTTP(IF env.session THEN <<None, "session">> ELSE GetCredentialsBytes(c).token, env.session))

\* Keys of the role, from the token service; they are never asked for again.
AwsAssumeRoleAuth(c) ==
    CASE ~AwsReadable(c) \/ ~GetAwsRoleArn(c) -> Refused(None)
      [] AwsReadable(c) /\ GetAwsRoleArn(c) /\ ~env.sts -> [Refused(None) EXCEPT !.opened = TRUE]
      [] OTHER -> Made("aws_assume_role", SignHTTP(<<c, "role">>, TRUE))

Bearer(token) == TokenCfg("Bearer", "", "header", "", token)

AzureDefaultAuth == IF env.azure THEN Made("azure_default", <<Bearer(<<None, "azure">>)>>) ELSE Refused(None)

GetGoogleJWTConfig(c) == Config[c].name = "google" /\ ~Empty(GetCredentialsBytes(c).token)
GoogleOauthServiceAccount(c) ==
    IF GetCredentialsBytes(c).ok /\ GetGoogleJWTConfig(c)
    THEN Made("service_account", <<Bearer(<<c, "jwt">>)>>) ELSE Refused(None)

GenericOauthClientCredentials(c) ==
    IF GetClientID(c) /\ GetClientSecret(c)
    THEN Made("client_credentials", <<Bearer(<<c, "client">>)>>) ELSE Refused(None)

\* The context of an interactive login; it takes no part in the default client.
GCloudOAuth(c, revokeFirst, login) ==
    IF (revokeFirst /\ auth[c].type = "interactive" /\ gcloud) \/ (~gcloud /\ ~login) THEN Refused(None)
    ELSE Made("interactive", <<TokenCfg("Bearer", Config[c].prefix, "header", "", <<None, "gcloud">>)>>)

NullAuth == Made(None, <<>>)

\* Auth: the utility's function of the type inferred.
Dispatched(c, kind, revokeFirst, login) ==
    CASE kind = "api_key" -> ApiTokenAuth(c, FALSE)
      [] kind = "bearer" -> ApiTokenAuth(c, TRUE)
      [] kind = "service_account" -> GoogleOauthServiceAccount(c)
      [] kind = "oauth2" -> IF Config[c].grant = "client_credentials"
                            THEN GenericOauthClientCredentials(c) ELSE Refused(None)
      [] kind = "basic" -> BasicAuth(c)
      [] kind = "custom" -> CustomAuth(c)
      [] kind = "azure_default" -> AzureDefaultAuth
      [] kind = "interactive" -> GCloudOAuth(c, revokeFirst, login)
      [] kind = "aws_signing_v4" -> AwsSigningAuth(c)
      [] kind = "aws_assume_role" -> AwsAssumeRoleAuth(c)
      [] OTHER -> NullAuth

ActivateAuth(c, type) == IF type = None THEN auth ELSE [auth EXCEPT ![c] = [active |-> TRUE, type |-> type]]
LoggedIn(kind, result) == gcloud' = (gcloud \/ (kind = "interactive" /\ result.ok))

(***************************************************************************)
(* A call of the session: the client is made for it, and the request,      *)
(* whose Authorization header is dropped, is a copy of the prepared one.   *)
(***************************************************************************)

Auth(c, prepared, revokeFirst, login) ==
    /\ call.phase = "idle" /\ count < MaxSent
    /\ \E kind \in {inferAuthType(c, auth[c].type)} :
       \E result \in {Dispatched(c, kind, revokeFirst, login)} :
       LET panics == GetHTTPClientPanics /\ kind # "interactive" /\ result.opened
           sends == result.ok /\ ~panics
       IN  /\ auth' = Clone(ActivateAuth(c, result.active), auth)
           /\ LoggedIn(kind, result)
           /\ default' = IF sends THEN DefaultAfter(result.layers \o default) ELSE default
           /\ call' = IF ~sends THEN [NoCall EXCEPT !.phase = IF panics THEN "panic" ELSE "idle"]
                      ELSE [phase |-> "open", ctx |-> c, kind |-> kind, layers |-> result.layers \o default,
                            target |-> prepared.target, given |-> prepared.carries,
                            request |-> [p \in DOMAIN prepared.carries \ {Authorization} |-> prepared.carries[p]],
                            tries |-> 0]
           /\ UNCHANGED <<env, handled, count, last, first>>

\* An attempt adds the credentials to the request itself, which the next one
\* starts from, with what was written after the signature; a request without
\* service or region cannot be signed.
RoundTrip ==
    LET signs == Signing(call.kind)
        sealed == Applied(call.layers, call.request)
        out == IF signs THEN Over(sealed, Marked(call.target)) ELSE sealed
        attempt == [ctx |-> call.ctx, kind |-> call.kind, target |-> call.target, given |-> call.given,
                    carried |-> out, covered |-> IF signs THEN Covered(sealed) ELSE <<>>]
    IN  /\ call.phase = "open" /\ call.tries < MaxAttempts /\ count < MaxSent
        /\ IF signs /\ call.target = None
           THEN call' = [call EXCEPT !.tries = @ + 1] /\ UNCHANGED <<last, first>>
           ELSE /\ call' = [call EXCEPT !.tries = @ + 1, !.request = out]
                /\ last' = attempt
                /\ first' = IF first[call.ctx] = NoAttempt THEN [first EXCEPT ![call.ctx] = attempt] ELSE first
        /\ count' = count + 1
        /\ UNCHANGED <<env, gcloud, auth, handled, default>>

\* With an answer or an error, that of the translation of the request before
\* any attempt included.
CallReturn ==
    /\ call.phase = "open"
    /\ call' = NoCall /\ last' = NoAttempt
    /\ UNCHANGED <<env, gcloud, auth, handled, default, count, first>>

\* A caller of the utility hands its context over itself, and it is activated.
UseUtility(c, revokeFirst, login) ==
    /\ call.phase = "idle"
    /\ \E kind \in {inferAuthType(c, auth[c].type)} :
       \E result \in {Dispatched(c, kind, revokeFirst, login)} :
           /\ ~(GetHTTPClientPanics /\ kind # "interactive" /\ result.opened)
           /\ auth' = ActivateAuth(c, result.active)
           /\ LoggedIn(kind, result) /\ handled' = handled \union {c}
           /\ UNCHANGED <<env, default, call, count, last, first>>

\* Only an interactive login can be revoked; it is kept when gcloud fails.
AuthRevoke(c) ==
    /\ call.phase = "idle"
    /\ auth[c].type = "interactive" /\ gcloud
    /\ gcloud' = FALSE
    /\ auth' = [auth EXCEPT ![c].active = FALSE]
    /\ handled' = handled \union {c}
    /\ UNCHANGED <<env, default, call, count, last, first>>

SessionNext ==
    \/ \E c \in DOMAIN auth, r \in Requests, revokeFirst, login \in BOOLEAN : Auth(c, r, revokeFirst, login)
    \/ RoundTrip
    \/ CallReturn
    \/ \E c \in DOMAIN auth, login \in BOOLEAN : UseUtility(c, FALSE, login)
    \/ \E c \in DOMAIN auth : AuthRevoke(c)

SessionSpec == SessionInit /\ [][SessionNext]_sessionVars

(***************************************************************************)
(* Properties                                                              *)
(***************************************************************************)

Chain(c) == {c} \union {GetSuccessors[c][i] : i \in DOMAIN GetSuccessors[c]}
LastAt(c, place) ==
    LET all == <<c>> \o GetSuccessors[c]
        here == {i \in DOMAIN all : <<Config[all[i]].location, Config[all[i]].name>> = place}
    IN  all[CHOOSE i \in here : \A j \in here : j <= i]

\* What is written into the attempt after the signature.
MarkedIn(attempt) == IF Signing(attempt.kind) THEN DOMAIN Marked(attempt.target) ELSE {}

\* Every attempt carries what was prepared, less an Authorization header, and
\* the credentials of its own context: one token for an ordinary type; for a
\* custom one the token of each context of the chain at its own place, the
\* last where two share a place; and with a signature its date, the token of
\* temporary credentials and, for S3, the hash and the closing of the
\* connection.  Nothing of another call, of the default client or of the
\* attempt before is left in it (auth_util.go, RoundTrip and CustomAuth;
\* aws_sign.go, RoundTrip; client.go, httpApiCallFromRequest; getHTTPClient).
CarriesOwnCredentials ==
    last # NoAttempt =>
        LET places == {<<Config[d].location, Config[d].name>> : d \in Chain(last.ctx)}
            temporary == last.kind = "aws_assume_role" \/ env.session
            mine == CASE last.kind = "null_auth" -> {}
                      [] last.kind = "custom" -> {p \in places : p[1] \in {"header", "query"}}
                      [] Signing(last.kind) -> {Authorization, Date} \union MarkedIn(last)
                                               \union IF temporary THEN {SecurityToken} ELSE {}
                      [] OTHER -> {Authorization}
        IN  /\ DOMAIN last.carried = (DOMAIN last.given \ {Authorization}) \union mine
            /\ \A p \in DOMAIN last.carried \ mine : last.carried[p] = last.given[p]
            /\ \A p \in mine :
                  IF last.kind = "custom"
                  THEN last.carried[p] = <<"", GetCredentialsBytes(LastAt(last.ctx, p)).token>>
                  ELSE last.carried[p][2][1] \in {last.ctx, None}

\* The signature of an attempt is over what the attempt carries: it covers
\* every header but those that are written after it, and each header it covers
\* is sent with the value that was signed.  So it is on a retry, which covers
\* what the attempt before wrote after its signature; only a header of that
\* name that was prepared is replaced once it is signed (aws_sign.go,
\* RoundTrip, on the request that client.go sends again).
SignedAsSent ==
    last # NoAttempt /\ Signing(last.kind) =>
        LET headers == {p \in DOMAIN last.carried : p[1] = "header" /\ p # Authorization}
        IN  /\ headers \ MarkedIn(last) \subseteq DOMAIN last.covered
            /\ DOMAIN last.covered \subseteq headers
            /\ \A p \in DOMAIN last.covered \ (MarkedIn(last) \intersect DOMAIN last.given) :
                  last.covered[p] = last.carried[p]

\* The calls of a session authenticate alike: what a context's credentials are
\* sent as does not depend on how many calls were made before with it, unless
\* the caller handed that context to the auth utility, which rewrites its type
\* (client.go, Auth; auth_ctx.go, Clone; auth_util.go, ActivateAuth).
CallsAuthenticateAlike ==
    (last # NoAttempt /\ last.ctx \notin handled) =>
        LET before == first[last.ctx]
            other == DOMAIN before.given \union DOMAIN last.given \union MarkedIn(before) \union MarkedIn(last)
            added(attempt) == DOMAIN attempt.carried \ other
        IN  /\ last.kind = before.kind
            /\ added(last) = added(before)
            /\ \A p \in added(last) : last.carried[p] = before.carried[p]
=============================================================================
