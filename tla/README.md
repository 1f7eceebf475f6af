# TLA+ models of any-sdk

any-sdk turns declarative provider documents (OpenAPI with `x-stackQL-*`
extensions) into calls of cloud APIs and their answers into rows. This directory
holds TLA+ specifications of the parts of it that decide something over several
steps,
the TLC configurations that check them on small instances, and TLAPS proofs of
their most important properties for every instance.

`PROJECT.json` lists the components, the runs, the mutants (one plausible mistake
in the code for every checked property, kept in the modules as definitions marked
`Mistake` or `Mutant`), the source lines behind each definition, the findings, the hazards
the properties are aimed at, and the theorems.

To check a run: `tlc -config MCRetryClient.cfg MCRetryClient`. To check the proofs
of a module: `tlapm RetryClientProofs.tla`.

## 1. The system

### Components, their state and how they interact

| part | state | operations | works with |
|---|---|---|---|
| HTTP client and retry loop (`internal/anysdk/client.go`, `retry.go`) | none between calls; within a call the attempt, the buffered body, the last response and error | `CallFromSignature`, `Do`, `doWithRetry`; policy getters, `BackoffFor` | the invoker above, `net/http` below; the context may be cancelled at any time |
| HTTP invoker (`public/providerinvokers/anysdkhttp`, `http_armoury*.go`) | per request the page counter, the housekeeping flag, the reversal stream, the drained body of the prepared request | `Invoke`, `agnosticate`, `Process`, `page`, `SetNextPage` | the client for each call; `ProcessResponse` for each answer; elider and insert preparator, which the caller supplies |
| response processing (`operation_store.go`, `operation_inverse.go`) | none | `ProcessResponse`, the inverse's `GetParamMap` | the invoker |
| registry (`registry.go`, `pkg/compression`, `pkg/semver`) | the directory tree of pulled versions | pull, remove, clear, list, latest version, load a verified document | the remote registry; every session that reads the same directory |
| discovery store (`public/discovery`, `public/persistence`, `public/sqlengine`) | key-value table of cached resources, relational tables | load provider, load service, cache resources | the registry, the SQL engine |
| generation control (`public/sqlengine`, `pkg/txncounter`) | generation, session and transaction ids in the database | next and current generation, session, transaction id | all processes on the same database |
| configuration (`config.go`, `pagination.go`, `provider.go`, `providerService.go`, `service.go`, `resource.go`) | the loaded documents | resolve pagination, retry, auth and transforms along operation, resource, service, provider service, provider | invoker and client |
| request preparation (`request.go`, `http.go`, `params.go`, `pkg/*translate`) | none | split of parameters over path, query, header, server and body | the invoker's armoury |
| method selection and routing (`methods.go`, `methodSet.go`, `pkg/queryrouter`) | none | first method whose parameters match | request preparation |
| query pushdown (`query_param_pushdown*.go`) | none | which predicates, orders and limits are sent to the API | the planner that uses any-sdk |
| authentication (`pkg/auth_util`, `pkg/dto/auth_ctx.go`, signers) | the active flag and type of an auth context; the credentials a transport writes into the request | choice of authentication type, transport, revocation | the client, for every call |
| document loading (`loader.go`, `resourceRegister.go`, `pkg/docval`) | the documents while references are resolved | load, resolve, merge | the registry |
| address space (`public/radix_tree_address_space`) | alias table and radix tree of one method | formulate, write, read, delete, invoke, to relation | the formulation facade, the static analysis |
| static analysis (`public/discovery/static_analyzer.go`, the `aot` command) | queue of services, fragments, errors and findings | analyse a provider, service, resource or method | registry, address space, request preparation |
| GraphQL reader (`pkg/graphql`) | the cursor, pages read | `Read` | its own HTTP client |
| streams (`pkg/streaming`) | the queue of maps | write, read | reversals, armoury |
| transforms, schemas, mocks, facade, command line | none of their own | conversions and reports | |

### What is hard here

There is little concurrency inside one call, and much that happens in sequence
with something failing half way:

* readers that can be read once (request bodies, response bodies) in loops that
  may need them again: retries, paging;
* a context cancelled during a backoff wait, when the last response is already
  drained;
* off-by-one at limits: attempts, pages, the page-count terminator;
* flags and counters threaded from page to page through two functions;
* several requests of one invocation, of which one fails; errors that are handed
  over but not looked at;
* a pull that removes the old copy, and then unpacks file by file into the
  directory sessions read from, and may die in between;
* "latest version" determined first and loaded afterwards; a cache whose key
  holds no version;
* one provider name stored under another (`google`, `googleapis.com`);
* a fragment loaded for one resource that answers later requests for others, and
  references to the levels above copied into methods at loading time;
* one question answered in two places: what a method requires (selection, builder,
  presentation), the columns of a relation (names, descriptors), whether a value with
  slashes can be routed (router, analysis);
* Go maps whose order decides: keys of a row that stand for one parameter, children of
  a radix tree node, services and resources of an analysis;
* a query of which part is evaluated by the API and the rest by the caller;
* contexts, transports and requests that are shared between calls and written to.

`PROJECT.json` ("hazards") gives each with its line and the properties that would
catch it going wrong.

### What makes each part correct

* Retry loop: it makes no more attempts than allowed, none without a transient
  answer, each with the whole body; it hands back a readable response or an
  error, and always one of the two.
* Invoker: pages in order, none twice, none skipped, no more than the limit;
  earlier rows survive later pages; an error ends the invocation; without
  failures everything is read.
* Registry and discovery: no mixture of two editions of a version; what is found
  can be loaded unless its own pull was cut short; with signatures nothing cut off
  is ever used, and a session never finds another provider's resources; a pull harms no
  other version.
* Service handles: what is held is complete for its document, and what is found
  does not depend on what was asked for before.
* Generation control: ids never repeat, current never goes back.
* Configuration: the innermost level that declares a setting wins, and every
  documented level is consulted.
* Preparation and routing: a method that is selected can be called; what is given is
  sent in its place; there is one request for each row or none at all; a late value
  replaces the early one; only an ambiguous path is refused.
* Pushdown: what the API does and what is left to the caller are together the query.
* Address space: what is written is read, the body made for the caller's request is what
  was written below it, and the columns of a relation are its descriptors and lead back to
  the schema.
* Static analysis: every method that can be had is analysed once; the exit code and the
  summary tell of every error (but one of another resource, when a single method is analysed).
* Authentication: an attempt carries the credentials of its own context and nothing of
  another, a signature is over the headers that are sent, and all calls of a session
  authenticate alike.

## 2. Modules

| module | models |
|---|---|
| `RetryPolicy` | `retry.go`: the policy record with its defaults, `BackoffFor` as the set of delays jitter allows |
| `RemoteCall` | abstract: what a caller of the HTTP client may rely on |
| `RetryClient` | `client.go`: one remote call, with the refinement of `RemoteCall` |
| `PagedInvoker` | `invoker.go`, `http_armoury_params.go`, `ProcessResponse`: one invocation |
| `ProviderCache` | `registry.go`, `compression.go`, `semver.go`, `discovery.go`, key-value table: provider documents on disk and the resource cache |
| `GraphQLReader` | `graphql.go`: one reader, from its construction to `io.EOF` |
| `GenerationControl` | `sqlite_embedded.go`, `postgres_tcp.go`, `db_util.go`, `txncounter.go`: control tables and counters of several processes |
| `ServiceShard` | `providerService.go`, `loader.go`, `registry.go`, `discovery.go`, `GetRetryPolicy`: a service handle, what is loaded through it, and the levels a setting is inherited from |
| `QueryPushdown` | `query_param_pushdown*.go`: the translators, the API and the caller that finishes the query |
| `OperationParameters` | `operation_store.go`, `methods.go`, `resource.go`: what a method requires and presents, and the selection of one |
| `PathRouting` | `queryrouter.go`: templates, slashes in values and the route of a URL |
| `RequestPreparation` | `request.go`, `shims.go`, `http.go`, `GetRequest`: from rows of parameters to requests; extends the two above |
| `SchemaKeys`, `SchemaLooks` | the keys that look into a schema and what a table is; what is asked of schemas, as constants |
| `SchemaTables` | `schema.go`, `table.go`: select schemas, polymorphic schemas, columns; the answers TLC's instances give those constants |
| `RadixTree` | the radix tree of `address_space.go`, over every order of its maps |
| `AddressSpace` | `address_space.go`, `legacy_address_space.go`: formulation, reads and writes, invocation, relation; extends `RadixTree` and `SchemaLooks` |
| `MethodAnalysis` | `analyzeMethod`, `method_analysis_checks.go`, `response_object_key_analyzer.go`, `template_static_analysis.go`: what is said of one method; extends `PathRouting` and `SchemaLooks` |
| `StaticAnalysis` | `static_analyzer.go`, `aot.go`, `analysis_classification.go`: the walk over a provider and its report |
| `Authentication` | `auth_util.go`, `auth_ctx.go`, `aws_sign.go`, `http_proxy.go`, `Auth` of `client.go`: the calls of a session and what each attempt carries |
| `MC*` | the instances TLC checks |
| `RetryClientProofs`, `PagedInvokerProofs`, `ProviderCacheProofs`, `GraphQLReaderProofs`, `GenerationControlProofs`, `ServiceShardProofs`, `RequestPreparationProofs`, `StaticAnalysisProofs` | the theorems |

### RetryClient

`pc` is the place in the code: `idle` before the loop, `send` before
`hc.client.Do`, `inFlight` inside it, `backoff` at the top of the loop from the
second attempt on, `wait` in the `select`, `publish` back in
`httpApiCallFromRequest`, `done` after the return. `body` is the state of the
request's reader, `buffered` says that `bodyBytes` was filled; `sent` and
`answers` are histories of what the transport was handed and what it answered.

One action per branch: `Reject` (everything that fails before the loop), `Start`
and `BufferFails` (the prologue), `Send`, `AnswerRetried` and `AnswerReturned`
(the body of the loop), `Backoff`, `TimerFires`, `WaitCancelled` (the two cases of
the `select`, either of which Go may take when both are ready), `Publish`, and
`Cancel`, which the environment may do at any time.

Delays are whole ticks and fractions tenths. A jittered delay is any value in the
band `d * (1 +- fraction)`, rounded inwards so that the model has a delay of 0
only where the code can have one.

`RemoteCall` is the promise: a bounded number of attempts, a new one only after a
transient answer, and an outcome that is the last answer (a transient one only
when the attempts are used up) or an error of the client's own.

### PagedInvoker

A configuration `cfg` is a method (pagination, inverse), a runtime context (page
limit, flags) and a server (number of pages, whether it moves on). A page token is
the number of the page it leads to, 0 a token the response does not hold. `ownBody`
is the body reader of the prepared request, which `Clone` shares, and `carried`
the body of the call in hand.

`ArmouryFails`, `Begin`, `Turn`, `Return` and `Fail` are `agnosticate`;
`FlatMapFails`, `Elide`, `FirstCall`, `CallFails`, `CallAnswers` are `Process` up
to an answer; `DespatchUnread`, `ReversalPanics`, `NoResponse`, `ApiError`,
`NoPayload`, `BadStatus`, `Insert` what `Process` does with it; `NoNextPage`,
`SetNextPageFails`, `NextPage` are `page`. A call is what `RetryClient` leaves of
it: a response or an error.

External and modelled from their use: the server, the elider, the insert
preparator (which keeps house unless the payload says that this was done). Left
out: the processor's options `isMaterialiseResponse` and `isReverseRequired`,
which `agnosticate` never sets; log messages.

### ProviderCache

`dirs` and `files` are the version directories and their files, `pull` the pull
under way; `handle`, `picked` and `request` what each session has loaded, is about to
load and is fetching for the cache; `kv` the cache they share; `broken` is a history
variable, the versions whose last pull or removal was cut short.

A pull is `StartPull` (fetch, then `os.RemoveAll`), `MakeDirectory` for the first header,
`CreateFile` and `CopyFile` for each of the others, and `PullSucceeds`, `UnpackFails` or
`Crash`; `RemoveFails` when the old copy cannot be removed. `RemoveProviderVersion` and
`ClearProviderCache` may be cut short with any of the files left. Sessions read
meanwhile: `PickVersion` and `LoadProvider` are the two halves of
`ProcessProviderDiscoveryDoc`; `MissResources` (the get that finds nothing, or fails),
`ReadResources` and `PutResources` are the steps of `processResourcesDiscoveryDoc`, so that
two sessions may both miss and the later put replaces the earlier. A hit changes nothing
and has no action. The entry a session is served may be of another version than it has
loaded: the key has no version, and an entry no expiry.

Contents are an edition of the version and whether all of it is there. The remote
registry answers with any edition, or with something that is no archive (edition
0), for the code does not look at the status. A signature fits the contents of its
own edition and only when both are whole; this stands for the cryptography.

Assumed: one administrator issues pulls, removals and clears one at a time
(nothing in the code excludes two processes doing so at once; see the hazards).
Left out: registries with the file scheme, which only read; the listing of
providers; local archives.

### GraphQLReader

A configuration `cfg` is the cursor configuration, the page limit and the server.
`cursor` is the position `iterativeInput["cursor"]` leads to: the number of rows the
server skips, 0 for the initial cursor and for an empty one. `got` is what the caller
has received, the rows that come along with `io.EOF` or an error included.

`Construct` and `ConstructFails` are `NewStandardGQLReaderFull`. A call of `Read` is
`ReadAtLimit`, `CallFails` (nothing was counted), `ResponseFails` (the page was
counted, the cursor and the rows are as before), `ReadEmpty` or `ReadPage`, which
moves the row count, the rows and, by `advanceCursor`, the cursor. After an error
without rows the caller may read again.

External: the server, whose rows are in the order of its cursors and whose sort keys
are unique (a keyset on a key that repeats loses rows, whatever the reader does), and
what a JSON path finds: a list of values, a value not in a list, or an error. A
rendered template leads where its value does.

### GenerationControl

Several processes are on one database. `proc` and `tries` are the opening of an engine
(`Start`, `Opened`, `Pinged`, `DialFails`, `SetupFails`, the two loops of `GetDB`);
`rows` and `sessions` are the visible rows of the control tables, `pending` the inserts
under way; `managers`, `txnID` and `issued` are the counters in memory and the history
of what they handed out.

An insert (`GetNextGenerationID`, `GetNextSessionID`) holds the engine's mutex of its
table from its beginning to `CommitGeneration`, `CommitSession` or `InsertFails`. It has
its timestamp from the beginning and its id from `AssignID` on: between processes nothing
orders the two and the commit on Postgres and Snowflake, while SQLite has one writer.
A session's timestamp is not kept, since the only query that reads it always fails
(see the observations). `GetCurrentGenerationID` is the query with its ties: of several rows with
the latest timestamp any may be returned.

External: the database, the clock, the garbage collector that sets `collected_dttm`, and
the caller that makes a transaction counter manager of each new session.

### ServiceShard

A `layout` is how a provider's documents divide a service: whether the handle names a
register of resources, which document the handle, the register and each resource name,
which resources each document lists and has the operations of, and which levels declare
a setting. It is chosen at the start and does not change. `refValue` and `openapi` are
the two places a handle keeps a service in, `ServiceRef.Value` and `OpenAPIService`;
`cached` says that the register is in the key-value table. `outcome` and `settled` are
histories: the last call's result, and the level a resource's methods had the setting
from when the resource was last given out.

A call is one action, since calls on a handle do not overlap: `ShardHeld`, `ShardLoaded`
and `ShardFails` are `GetServiceShard` over `PersistServiceShard` (the fragment is held;
it is loaded and kept; it cannot be loaded), `Fragment` the registry's
`GetServiceFragment`, `GetService` the handle's, `ResourcesFromRegister` and
`ResourcesFromService` the two halves of `GetResourcesMap`. Every document may be
unreadable in any call, and the namespace analysis may fail.

A service that cannot be loaded is the empty set of services. Of a service the model
keeps its document, its resources, whether the document's `x-stackQL-config` was taken
over, and whether the service and its methods know the provider. `Reached` is the set of
levels a method gets to over these references and `GetRetryPolicy` the nearest of them
that declares the setting (`GetQueryParamPushdown` is the same walk).

Left out: the handle's own `GetServiceFragment`, which does the same without a
registry; the store's entries `services.*`, which nothing writes; views, and the
results of the namespace analysis, which are put on a copy of the method.

### QueryPushdown

One action for each of the six translators, in the order `ApplyPushdown` calls them, over
the accessors of the sub-configurations (dialects, defaults, `*`). A parameter is the
clause it spells. `Answer` is the API, which filters, orders, cuts and projects as it was
asked; `Finish` the caller, which applies what is residual and every clause it still has.
Both are external, modelled from what the code promises about residual predicates;
`Reference` is the query evaluated over the whole table. `NothingLeftBefore` and
`NeedsProjected` name the splits for which that promise suffices: the translators decide
each clause by itself, so a limit may be sent past a predicate that stays behind, or past
a count that the caller takes. `WellFormed` says what tables and queries are: the rows of
a table have distinct ids, in the order they are stored, and the same columns; a query
projects columns there are. An order goes by the first of its terms.

### OperationParameters, PathRouting, RequestPreparation

`OperationParameters` has the parameters of a method at their three levels, the names of
its body attributes in both renamings, its servers, and the rules of the selection
(`ParameterMatch`, `GetFirstMatch`) and of the presentation. `PathRouting` takes a path
for a sequence of literals and placeholders and a value for one or more segments.

`RequestPreparation` takes a row of parameters to slots (`Slot`, `Splits`): keys that
share a slot overwrite each other in any order. The actions follow the code:
`SelectMethod`, `SplitHTTPParameters` (with the first pass over the rows, or over an
annotation's stream, which can be read once), `BuildRequest` for each row (the second pass:
parameters, server, URL, route), `ApplyPushdownToArmoury`, and `MergeLateBinding`, which
puts late values into the first row and has everything built again. `Fails` is the return
with an error, which drops the armoury. A value is the key and the source it came from, so that the properties can say
whose value is sent.

### SchemaKeys, SchemaLooks, SchemaTables, RadixTree, AddressSpace

A schema is a tree of records. `RadixTree` keeps a tree as a function from sequences of
labels to values, a label being a sequence of the parts in which addresses differ, and gives
the set of outcomes of each operation over the orders of a Go map, a nil child and a panic
among them: `Insert` leaves the loop over a node's children running when it enters a child;
`Turn` is one turn of that loop, and `Inserted` the loop with what comes after it. A nil child
is a node that holds `NilNode`.

`Formulate` is the formulator with its early returns (`WhyNot`); `WriteToAddress`,
`Invoke` and `ToRelation` are the operations of the namespace, `DeleteAddress` that of its
tree. `ResolveSignature` is the test of a caller's keys. `Invoke` writes the headers to the
tree, in any order, takes the body from it, trimmed as its media type asks, and puts it into
the caller's request (`body`); what it sends is the copy made before (`sent`), so that the
body is sent by the next `Invoke` with the same request, if at all. The response is left out. A panic ends the use of the space (`panicked`). Schemas are asked
through the constants of `SchemaLooks` and `TableOf`, so that the module has no recursion and
can be proved about.

### MethodAnalysis, StaticAnalysis

`analyzeMethod` is a pure operator from a method record to errors and findings, in the
order of the code and with its early returns. It takes the operations on schemas
(`ItemsOf`, `PropertyOf`, `SelectItemsKeyOf`, `SelectItemsSchemaOf`) as constants;
`MCStaticAnalysis` gives them those of `SchemaTables`. `StaticAnalysis` is the command around it:
`Begin` (load and validate), `OpenService` (of a provider, in any order), `LoadFragment`
for each key of a register in any order, `FinishExpansion`, `AnalyzeOne`, `FinishMethods`
with the checks over a whole resource and service, `FinishWalk` with the exit code, and
`Report` with what `aot` prints and writes. The four levels of the command differ in which
errors count, which the actions keep: the analysis of a single method leaves those of the
expansion behind (`dropped`). Object keys are plain names and JSON paths; XPath keys and
`additionalProperties` are left out.

### Authentication

`auth` has the session's contexts, `call` the call under way with the layers of its
transport and the request it is about to send, `last` and `first` the last attempt and the
first with each context. `Auth` is `httpApiCallFromRequest` up to the client: the context
is cloned, the type inferred, the credentials read, the transport built; `RoundTrip` is an
attempt, which writes the credentials into the request that the next attempt starts from.
A signing layer writes its date, the token of temporary credentials and the signature
(`SignHTTP`, `Covered`), and for S3 the hash of the payload and the closing of the connection
after it (`Marked`). `CallReturn` ends the call, also before any attempt. `UseUtility` and `AuthRevoke` are direct uses of the auth utility.
Signatures, token exchanges, the `gcloud` tool and the environment are external.

## 3. Runs

| run | result | shows |
|---|---|---|
| `retry_client` | passes, 43,104 states | the properties of one call, `CallReturns`, and the refinement of `RemoteCall` |
| `paged_invoker` | passes, 75,975 states | the properties of one invocation and that it returns |
| `provider_cache` | passes, 281,892 states | the documents on disk, what is read of them, and what sessions find in the cache they fill at once |
| `service_shard` | passes, 255,489 states | what a handle holds and gives out in any order of calls |
| `graphql_reader` | passes, 40,569 states | the rows, limit and end of a reading |
| `control` | passes, 2,332,382 states | the current generation under overlapping inserts, and the ids handed out over restarts |
| `query_pushdown` | passes, 2,906,624 states | API and caller together give the query's answer |
| `request_preparation` | passes, 316,492 states | selection, split, bodies, routing and late values |
| `address_space` | passes, 367,516 states | reads after writes in every map order, bodies, columns |
| `static_analysis` | passes, 227,983 states | the walk, its exit code and report, and the checks against the router |
| `authentication` | passes, 153,152 states | what the attempts of a session carry and what their signatures cover |
| `config_levels` | `EveryLevelInherited` violated | a finding below |

### Bounds

* `retry_client`: statuses 200, 404, 503; GET and POST; 1, 2 or (by default) 3
  attempts; default or declared status codes and methods, `*` among them; six
  timing profiles (defaults, growth into the ceiling, fractional multiplier, full
  jitter with a possible delay of 0, unknown algorithm above the ceiling,
  senseless values). Three attempts have a first, a middle and a last one, which
  is all the loop tells apart.
* `paged_invoker`: every location of a token with and without a body, for both
  algorithms and both provider defaults; every combination of the flags over two
  requests; page limits 0 to 4 against three pages; a server that does not move
  on. `MaxCalls = 5` bounds only the invocations nothing else bounds (no limit, a
  server that repeats itself); it is above every number of pages and every limit.
* `provider_cache`: four files, signatures checked, download of single documents allowed.
  `Bounds` makes two instances of one run: one provider, two versions (a latest and another)
  and two editions (so that a mixture is possible) with one session; and two sessions with two
  providers, one of which has two names, of one version and edition each, where a pull or
  removal that is cut short ends the exploration (the first instance goes on from there).
* `service_shard`: two resources and two documents in every division a register and
  the documents allow, and the subsets of levels (2,975 layouts). Two of each are a
  resource asked for and another, a document of its own and another; `config_levels`:
  layouts in which everything can be loaded, with the same subsets of levels.
* `graphql_reader`: every strategy against tables of 0, 1, 4 and 5 rows sent one or
  two at a time (none, one, whole pages, a short last page), every kind of cursor;
  page limits 0 to 4 and page sizes below, at and above the server's; `MaxAgain = 2`
  repeated calls. `MaxPages = 8` is the five pages of one row, the empty one after
  them and the two failures, so that only a reader that loops reaches it.
* `control`: two processes that are interchangeable, two generations and two sessions
  with no discovery row, a clock of 0 and 1, two ids per counter and one retry: two
  inserts may overlap, and a process can end and issue again under another session.
* `query_pushdown`: tables of three rows and two columns, up to two predicates of which
  each may be pushable or not, orders, limits and offsets with and without one another;
  configurations that support everything, one column, one operator but no conjunction, or
  nothing; counts with and without a limit and an offset. Two predicates are what the rule
  about `and` tells apart.
* `request_preparation`: operations that vary in their parameters (each location, two
  levels, an alias, a default, two path parameters with and without a literal between
  them), bodies (base, default, both renamings, without a schema) and servers; resources
  of one and two methods; one and two rows over the keys that matter to them.
* `address_space`: every pair of schema and object key, every pair of parameters and
  projections; and, for methods with and without a request block and each kind of body, four
  writes and calls over eight addresses that are independent, nested two and three deep, share
  a beginning or spell one attribute in two ways. Four are enough for a nil child and its use:
  a label that draws a path in, another that goes on where the path does, the write that finds
  both and hangs the nil child in, and the call that meets it.
* `static_analysis`: some 400 single methods that differ in one respect or two, and
  providers of two services, one with three resources over every kind of division into
  fragments; every level of the command.
* `authentication`: seventeen contexts, sixteen of them in eight sessions of two, six environments,
  four prepared requests (for no service, for one of AWS, for S3 and for a path of S3's own host,
  with headers of their own among those that signing writes),
  `MaxAttempts = 2` (a retry) and `MaxSent = 3` (a second call after it).

Deadlock is switched off for the specifications of one call, one invocation, one
reader and one session, which end (the other bounded ones end in a stuttering `Done`); `ProviderCache`, `ServiceShard` and
`GenerationControl` never stop, and their runs check for deadlock.

### Fairness

* `RetryClient`: weak fairness of the client's own steps. The loop runs on one
  goroutine; the timer fires; `client.Do` returns with an answer, a network error
  or the context's error. Cancellation is not fair.
* `PagedInvoker`: weak fairness of `Next`, all of which is one goroutine whose calls
  return, which is `CallReturns` above. `InvocationReturns` is stated for servers
  that move on or limited pages only: against a server that repeats its token the
  code goes on for ever.
* `GraphQLReader`: weak fairness of `Next`: the caller reads until `io.EOF` and each
  call returns. `ReadingEnds` excepts paths to every row's cursor and servers that end
  with an empty one (see the observations).
`ProviderCache`, `GenerationControl`, `ServiceShard` and the models of preparation, address
spaces, analysis and authentication are checked for safety only and assume no fairness.

### Findings

`config_levels`: `docs/retry_policy.md:9` says that a retry block is inherited from five
levels. The methods of a service never learn of the provider and the provider service
(`service.go:167` tells copies of them), and those of a fragment not of the service's
settings either, so that the default is used in spite of a declaration.

Observations made while modelling. The models behave as the code does in each of these
cases; the properties name them as exceptions where they touch them.

Invoker and readers:

* `docs/provider_spec.md:667` and `:721` list the header among the locations of a request
  token. `SetNextPage` refuses it and `Process` ends the request without an error, so that
  one page is returned as if it were all. The same happens to a request with a body whose
  token goes into the query: its clone's body reader was drained by the first call, while
  `docs/provider_spec.md:702` says that the loop ends at the page-count terminator.
  `HealthyServerFullyRead` is stated without these two cases (`TokenNotSent`).
* If the response of a method with an inverse cannot be read, the inverse's parameters are
  taken from a nil response and the invocation panics, where `Process` means to return
  "response is not a valid response".
* `graphql.go:60` says that an empty cursor ends the reading; `advanceCursorAfter` goes on
  with `, after: ""`, and the rows come again.
* A cursor path that yields a scalar not in a list ends the reading of strategy
  `CursorStrategyAfter` after the first page.
* If the template of the cursor fails, the rows of the page come with the error and the
  cursor stays: a caller that reads on in spite of it would get them again. The model takes
  the error for the hard failure that the comment at `advanceCursor` calls it.
* `getCurrentSessionID` (`sqlite_embedded.go:200`, and its two siblings) names
  `iql_genration_id`, where the table has `iql_generation_id`, and a column of its
  subquery that the subquery does not select, so that it always fails.
* `ClearProviderCache` does not rename `google`: it clears a directory of that name and
  leaves the versions under `googleapis.com`.
* In a register that names no document, a resource without one is refused after a
  resource with one was loaded, since the service reference then holds that one's
  fragment; and a resource with one may be served from the service's document. These
  are the exceptions `RequestsAreIndependent` and `ShardFitsResource` name.
* If the namespace analysis fails, the fragment is kept, and the next request for the
  resource succeeds without it.
* An operation's `x-stackQL-config` under `paths` is not read
  (`extractAndMergeQueryTransposeOpLevel` does nothing); the model's method level is the
  `config` of a resource's method.

Pushdown and request preparation:

* A limit, offset or count is pushed although predicates stay residual or the order is
  left to the caller: the API cuts before the caller filters. A projection that is pushed
  may lack a column the caller still compares.
* `docs/provider_spec.md:288` says that the base body is merged into every request; it is
  put down only when a key is met that is no operation parameter, so that a row without
  one is sent without it.
* Server variables are required by the selection only if the method has a request schema;
  the presentation lists `Request.Required` and server variables the selection ignores.
* Path item parameters are required by the selection, but the split does not find them, so
  that they become server parameters; parameters of cookie, context and inline locations,
  and headers and paths of a method's annotation, are not sent.
* Two keys that stand for one parameter (alias and name) are resolved by the order of a
  map. A method without a body sends the literal `null` where a media type is declared.
* For annotated rows the default body replaces a given one, and the rebuild after late
  values finds the stream drained and makes no request.
* A payload for a method without a request block is dropped. Selection goes by the keys of
  the first row. Pushdown parameters overwrite query parameters of the same name.
* `splitHTTPParameters` takes the request's schema for the response's
  (`shims.go:219`). An empty list of servers panics.

Address space and schemas:

* Inserting below an address that is written itself loses values or panics, depending on
  the order of the map (`WrittenIsRead` excepts it). `Invoke` marshals the body into the
  caller's request but sends the copy it made before (`BodyIsWhatWasWritten` is about the
  caller's request).
* A method with a cookie parameter has no address space. An integer or boolean select
  schema has no table, and the relation panics. Own properties of a schema that also has
  `allOf` are not reachable.
* With snake_case column names asked for, the required parameters among the columns are
  renamed on one side only (`ColumnsAgree` excepts it).
* `globalAliasesToRelation` panics, `Expand` sets the address space on a copy, and one
  method that cannot be formulated fails its whole resource.
* `DereferenceAddress` of `response.headers` gives server variables.

Static analysis:

* At the levels of a resource and a method, `Analyze` returns nil in spite of errors, and
  the command exits with 0. At the level of a resource the errors of the expansion are
  reported all the same; at that of a method they are not (`NoErrorIsSilent` excepts those
  about other resources).
* Findings at level error of `checkRefResolution` are not errors of the analysis.
* Methods with an early return, GraphQL ones among them, get no mock, where
  `docs/cli.md:236` speaks of every method; the mock of a transform is not always the raw
  response of `docs/cli.md:243`.
* Methods of two resources whose names collide write to one mock file. Findings at level
  info are counted as warnings.

Authentication:

* Unset variables of a user name and password give the credentials `:` without an error.
* The successors of a custom context are not validated: one with an unsupported location
  sends nothing. `ValuePrefix` is ignored for custom tokens.
* An AWS session token in the environment replaces the configured keys. Keys of an assumed
  role and Azure tokens are not refreshed. A context is activated even if its transport is
  refused, and an unknown type becomes `service_account` or `null_auth` silently.
* For S3, headers are set after the signature. A first attempt's signature does not cover
  them, that of a retry does; and a header of such a name that was prepared is replaced after
  it was signed (`SignedAsSent` excepts it).
* The auth utility rewrites the type of the context it is handed, so that a caller that
  uses it directly authenticates differently the second time (`CallsAuthenticateAlike`
  excepts it; `Auth` works on a clone).
* With a default round tripper of another kind and a CA bundle or insecure TLS, the base
  transport is a nil pointer and the client panics.

## 4. Proofs

All theorems hold for every value of the constants that satisfies the named
`ASSUME`s of the module: any sets of statuses, methods and policies; any set of
invocations of the record type `Config` and any `MaxCalls`; any providers, any
finite set of versions, any number of editions, with or without signatures; any set of
readers and servers of the record type, and any bounds on pages and repeated calls; any
set of processes and discovery names, and any bounds on rows and ids; any resources,
documents and set of layouts; any resources with well-formed methods (`WellFormed`: lists
are lists, a path's placeholders are declared as path parameters) and any rows of known
values; any providers whose fragments hold the resource they were loaded for
(`ProvidersAssumption`, which the loader sees to), and any operations on schemas; any
auth contexts whose chains of successors end, as nested documents do (`ConfigAssumption`);
any tables, queries and pushdown configurations that are `WellFormed`; any addresses, any
finite set of headers and any values (`AddressesAssumption`: an address is a list of parts,
and no value is mistaken for a missing one or a nil node).

Three modules of proofs extend more than one component, and the names of those components
are chosen apart: `RetryClientProofs` extends `RetryClient` and `Authentication`
(`SessionSpec`), the two halves of the client; `RequestPreparationProofs` extends
`RequestPreparation`, `QueryPushdown` (`QuerySpec`) and `StaticAnalysis` (`AnalysisSpec`, of
which it has the adjacency check), which need the same lemmas about lists and routes;
`StaticAnalysisProofs` extends `StaticAnalysis` and `AddressSpace`, which ask schemas through
the same constants.

What a recursive function computes (powers, filled templates, the positions a route
reaches) is proved by contradiction from the least argument it fails for; that there is
one comes from the well-foundedness of the naturals (`WFMin`).

**RetryClient.** The invariants alone are not inductive: that the response handed
back is readable depends on the loop having left exactly when its last answer was
final or the attempts were used up, and that the body is whole on when it was
buffered. `IInv` adds to the checked invariants: `Progress` (how `attempt`, `sent` and
`answers` are related at each `pc`), `BodyReady` (before each attempt the reader is
whole, and it was buffered if another attempt may come), `AnswersTransient` (every
answer but the last was transient), `ResultInv` and `EndInv` (what the result is made
of at the end). From it follow `AttemptsWithinPolicy`, `WholeBodyOnEveryAttempt`,
`RetriesAreJustified`, `ReturnedResponseReadable`, `NoEarlySurrender`, and the
refinement `Spec => Call!Spec`: initial states map to initial states, and each step
maps to a step of `RemoteCall` or leaves its variables alone. `BackoffSchedule` is a fact
about `BackoffFor` for every policy and attempt number: `PowerFacts` shows by induction that
powers exist, satisfy the recursion and never shrink when the multiplier is at least 1 (the
policy's defaults see to that), and `Quotient` that dividing fixed-point products keeps
their order.

**PagedInvoker.** `IInv` is `TypeOK` with `Place` (where `pc` and `current` stand),
`GoodRecords` (each request's rows are 1, 2, 3, ... against a server that moves on,
within the limit, after one housekeeping), `Untouched` (requests whose turn has not
come have no record), `Ends` (what outcomes and result say about each other) and
`PageInHand` (the page in hand is one beyond the rows of the current request, and the
page counter is its number). The last carries the argument: the next token is the page
asked for plus one (`NextTokenIsNext`), so that the row appended next is the next one.
`HealthyServerFullyRead` needs a second invariant, `ReadInv`: what the body of the prepared
request holds at each `pc` (`Bodies`), that a second page is had only where the paging can
be done (`Stops`: elsewhere the call for it is never made, or carries a body that was read
before), and, as long as nothing failed, what the answer in hand is (`Understood`) and that
the requests behind were read to their end (`AllRead`).

**ProviderCache.** `IInv` is `TypeOK /\ NeverMixed /\ PullInHand /\ UnbrokenComplete
/\ VerifiedIsWhole /\ RequestInHand /\ OwnKeys`. `PullInHand` says which files of the place being pulled are there:
those before `next`, whole, of the pull's edition, and the one being written. It is
needed for `NeverMixed` (the edition of the next file is that of the others, because the
old copy was removed) and for `UnbrokenComplete` (when the archive ends, all files
are there). `FoundVersionLoads` follows from the last; that a latest version exists
when a directory does is proved from the well-foundedness of the naturals.
`RequestInHand` (a session that is to fill the cache holds a document of the provider it has
loaded, and loads no other meanwhile) and `OwnKeys` give `ServedIsOwnProvider`, with `VerifiedIsWhole` `CachedIsOwnAndWhole`.

**GraphQLReader.** `IInv` is `TypeOK /\ InStep /\ PagesBound`. `InStep` says that the row
count is the number of rows returned and that, while another page may be read, the
cursor stands behind the last of them; `AdvanceBehindPage` shows that each of the four
strategies moves it there, and every failure leaves it. `RowsInOrder` is its other half.
`PagesBound` bounds the rows by the pages counted. `Complete` says that a sound reading
never has more rows than the table and, at `io.EOF`, has them all; it rests on
`NoNextAtEnd`: a page the cursor cannot be moved on from ends at the last row.

**GenerationControl.** `IInv` is `TypeOK /\ SessionsOwned /\ CountersAhead /\
CurrentOfName /\ IdsNeverRepeat`. The transaction counter starts again with the process,
so that ids are unique only by their session: `SessionsOwned` says that a session id
belongs to one insert under way or to one manager and is not above the database's
sequence, `CountersAhead` that a manager's counters are at or above what was issued under
its session. The current generation never goes back because the rows of the query
include the last reading's, as long as that was not collected; no order of ids or commits
is needed.

**ServiceShard.** `IInv` is `TypeOK` with: what the service reference holds is complete,
of a document with the operations of its resources, and has the references that its
layout determines; what the handle keeps as its service is whole or a fragment;
`ShardFitsResource` and `RequestsAreIndependent` of the last outcome; and each `settled`
is unknown or the level the layout alone determines. The last is why the setting is
stable: all services a handle gives out for a layout reach the same levels, so the
nearest that declares the setting is the same whichever of them the method came from.
That `Scope` is `Peers`, the division the properties are stated with, is a lemma, and
that there is a nearest level is proved from the ranks.

`TypeOK` of `ServiceShard` is part of `HeldComplete` and is left to the proof.

**RequestPreparation.** `IInv` is `Lists /\ Place /\ RowByRow /\ LateInFirst /\
FailsForCause`: where the preparation stands, that the requests built and the splits left
make up the rows, each request being built from a split of its own row, that only the first
row has late values, and that a failure is that of the selection or of some row's split.
`PresentedSuffices`, `EveryRowOnce` and `LateValueIsSent` follow from it with a lemma each
on what a split and the second pass hold. `GivenIsSent` needs that every slot a key of
the row has is filled by some key with that slot, in any order of the split.
`SelectedIsPreparable` compares `ParameterMatch` with the conditions of `Failure`, level by
level. Two exceptions in its statements came out of the proofs: a parameter or attribute
with the name of a server variable takes that variable's value, which `Slot` sends
elsewhere. `RefusedOnlyWhenAmbiguous` is the longest: a filled template is matched by the
template it was made from. The segments of the template are followed through `Fill` and
through `Matches` together; each piece ends where the next begins, a value of several
segments is allowed exactly where slashes are, and values elsewhere are one segment long.

**StaticAnalysis.** `NoErrorIsSilent` needs no more than what `analyzeMethod` returns: an
error with a bin has its finding, whatever the operations on schemas return. For what the
analysis of a single method keeps back there is `BehindInv`: such an error is about a whole
resource or service, and if it is about the method's own, the fragment of that resource cannot
be had and the expansion will come to nothing, or the exit code is 1 already. The walk has
`WalkInv`: `Position` (which services are behind, and those are covered), `Expansion` (each
resource of the service in hand was found, is pending or is lost), `Methodical` (each method
is still to do or was entered), `Entries` (no two entries are of one method, and each is of a
fragment that holds its resource) and `Blame` (an error has a cause in the documents). At
the end nothing is queued, pending or to do, which gives `EveryMethodOnce` and
`ExitTellsErrors`. `Methodical` with `Entries` makes the analysis exactly once: at most
once, since what is to do has no entry yet; at least once, since nothing is left to do.

`AdjacencyExact` is about the same walk and the router: `WarnInv` says that the entries and
the findings name methods of the documents, and that among the entries exactly those whose
template has two adjacent placeholders have the finding. That such a template is refused is
the converse of `RefusedOnlyWhenAmbiguous`: fill it with a value of two segments in the first
of the two and one segment in the others. The route follows the template through the URL,
and the walk that filled it is another; without slashes both are at the same place at every
literal (`TogetherAtLiterals`), since a value is no literal, and between two literals the
segments the URL has left do not fit the placeholders. That the sample values are no
literals is `SamplesAssumption`, that templates are lists `TemplatesAssumption`.

**Authentication.** `AuthInv` is `Contexts` (a context not handed to the auth utility keeps
its type), `OpenCall` (the layers of the call under way turn the prepared request into
`Sealed`, the request with the own context's credentials; what is set after a signature makes
`Delivered` of it, and the layers leave that one as it is) and `Attempts` (the last attempt
and the first of each context carry `Delivered` of what they were given, and a signature
covers the headers of `Sealed`, on a retry those of `Delivered`). The second half of `OpenCall`
is what a retry needs: it starts from a request that has the credentials, and what was set
after the signature, already. That no signing layer writes where something is set after it is
`PlacesApart`. For a custom context it rests on what writing layer after layer
gives, the value of the last layer at each place, and on the chain of successors being
finite. `CarriesOwnCredentials`, `SignedAsSent` and `CallsAuthenticateAlike` are read off
`Delivered`.

**QueryPushdown.** A list of rows is told by the list of positions of the table that it
shows and the columns it shows of them. Filtering keeps positions in their order
(`ShownFiltered`), ordering permutes them (`ShownOrdered`, where `SortExists` shows that
there is an ordered arrangement to choose), a window is a part of them, a projection changes
the columns only; none of them sees a column that was projected away, if `NeedsProjected`.
`PushInv` says that every predicate is sent or residual, that each other clause is the
query's or absent, and of which positions the API's answer and the caller's are made.
`SplitQueryIsExact` then has two cases. If nothing was cut, the caller's list has the
positions the whole query wants, in the order it wants; a list in a linear order is
determined by its elements (`RisingUnique`). If something was cut, nothing is residual and
the API's order is the query's, so that the caller finds what it would have made, and
cutting again changes nothing (`WindowAgain`). A count is the length of such a list.

**AddressSpace.** Call an address clear when no other address ever written is a prefix of it.
`SpaceInv` says of the tree (`Kept`) that every first label was written, that the value of a
clear address is at its own node below the root, and that as long as all addresses are clear
the tree is flat and has no nil node; of a panic, that some address is not clear; and it has
the property about columns. That is not what `Insert` was meant to keep, but
it is what it does keep: `Takes` says what is left of a tree by an insertion, whatever the order
of the map. The loop is followed turn by turn (`Turned`): as long as it is open it stands at
the root with the whole path, or a shorter label has drawn it into a subtree (`Drawn`), and
then it changes nothing but nodes of that subtree below its own root (`DeepChanges`), which are
nobody's who is clear. A descent to a clear address can only go to its own node
(`ClearDescent`), which gives `WrittenIsRead`; a flat tree has one node for each attribute,
so that a step of `Invoke` makes a body of what was written (`InvokeWrites`), which gives
`BodyIsWhatWasWritten`. The headers of `Invoke` are one insertion after the other,
over all outcomes of the ones before (`InsertAllKeeps`). `ColumnsAgree` compares `GetColumns`
with `GetColumnDescriptors` for every table the schemas may make.

Only model-checked: the liveness properties (`CallReturns`, `InvocationReturns`,
`ReadingEnds`), which are out of the prover's reach; the absence of deadlock; and
`ColumnsAreReachable`, which compares two ways in which `SchemaTables` flattens a schema:
both follow `allOf`, `anyOf` and `oneOf` to any depth with recursive operators, which keeps
that module from the prover.

Some theorems state invariants that no run checks by themselves: `TypeOK`,
`AttemptsWithinPolicy`, `RetriesAreJustified` and `NoEarlySurrender` (all three follow from
the refinement that `retry_client` checks), `PageLimitRespected` and `PagesInOrder`
(together `FirstPagesOnly`), `RowsInOrder` and `LimitBoundsRows` (`FirstRowsOnly`),
`VerifiedIsWhole` and `ServedIsOwnProvider` (together `CachedIsOwnAndWhole`),
`DeliveredHasFirstPage`, `PullSparesOthers`, `NearerLevelsWin`, `SettingIsStable`.

## 5. Not modelled

* The formulation facade hands every call on to the types of `internal/anysdk`. Its
  wrappers change nothing; note that some wrap a nil inner value in a non-nil wrapper.
* Streams: a slice with a cursor, drained by one goroutine. Where it matters that a stream
  is read once, it is part of `RequestPreparation` and `PagedInvoker`.
* Text: response transforms, XML and JSON conversions, parameter and request translations,
  the closure of a document, mock routes and queries. They turn data into data.
* The brick map, introspection and views; the command line but for `aot`; the local
  template executor, which runs one child process.
* Cryptography, token exchanges and the SQL databases themselves, which are libraries' work.

## 6. Plan

1. `SchemaTables` without recursive operators, by the depth of a schema, and
   `ColumnsAreReachable` for schemas of any depth (proofs).
2. The chains of inheritance `ServiceShard` leaves out: pagination, transposition,
   translation and authentication, with the level each stops at.
3. The handle composed with `ProviderCache`: documents that change under a handle in use.
4. An abstract specification of an invocation (an append-only table of rows and one
   outcome) that `PagedInvoker` implements (proofs).
