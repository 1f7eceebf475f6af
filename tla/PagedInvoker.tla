---------------------------- MODULE PagedInvoker ----------------------------
(***************************************************************************)
(* One invocation of public/providerinvokers/anysdkhttp/invoker.go: Invoke *)
(* and agnosticate work through the prepared requests one after another,   *)
(* and Process calls the API for each, page after page, handing the items  *)
(* of every page to the insert preparator.                                 *)
(*                                                                         *)
(* A call is what RetryClient leaves of it, a response or an error.  The   *)
(* server, the elider and the insert preparator are the environment.  A    *)
(* page token is the number of the page it leads to; 0 stands for a token  *)
(* the response does not hold ("", "<nil>" or "[]").  The processor's      *)
(* options isMaterialiseResponse and isReverseRequired, which agnosticate  *)
(* never sets, are left out.                                               *)
(***************************************************************************)
EXTENDS Integers, Sequences

CONSTANTS
  Configs,   \* the invocations: method, runtime context and server
  MaxCalls   \* bound: the calls one request may make when nothing limits it

Location == {"none", "query", "requestString", "body", "header"}

(* An invocation: how many requests were prepared, the pagination the      *)
(* method declares ("none": nothing, or a location ExtractHTTPElement does *)
(* not know; "header" stands for a path too), the page limit (0: none),    *)
(* the flags of the payload (Process's isSkipResponse is the payload's     *)
(* NilOK), an inverse with its tokens, and the server: how many pages it   *)
(* has and whether it moves on when asked to.                              *)
Config ==
  [requests: Nat, provider: {"github", "google"},
   algorithm: {"token", "page_number"},
   requestToken: Location, responseToken: Location,
   hasBody: BOOLEAN, pageLimit: Nat,
   nilOK: BOOLEAN, isMutation: BOOLEAN, isAwait: BOOLEAN,
   hasInverse: BOOLEAN, pages: Nat \ {0}, advancing: BOOLEAN]

ASSUME ConfigsAssumption == Configs \subseteq Config
ASSUME MaxCallsAssumption == MaxCalls \in Nat \ {0}

VARIABLES
  cfg,           \* the invocation
  pc,            \* where it stands
  current,       \* the request being processed
  ownBody,       \* what the body of the prepared request holds
  asked,         \* the page the call in hand asks for
  carried,       \* the body the call in hand carries
  answer,        \* the response being processed
  pageCount,     \* Process's pageCount
  housekeepingDone,
  rows,          \* per request, the pages whose items were inserted
  housekeeping,  \* per request, how often the preparator kept house
  reversals,     \* per request, the pages whose reversal is in the stream
  outcome,       \* per request, how Process ended
  result,        \* what Invoke returned
  faulty         \* the environment has failed at least once

loop == <<asked, carried, answer, pageCount, housekeepingDone>>
ledger == <<rows, housekeeping, reversals>>
vars == <<cfg, pc, current, ownBody, loop, ledger, outcome, result, faulty>>

-----------------------------------------------------------------------------
Requests == 1 .. cfg.requests

(* What ProcessResponse makes of a response: no schema to read it with, a  *)
(* body that cannot be read, the same where an inverse wants to read it,   *)
(* an error the API reports, no payload, items.                            *)
Kind == {"noSchema", "unreadable", "panic", "apiError", "nil", "items"}

Answer ==
  [status: {200, 400}, kind: Kind, err: BOOLEAN, reversal: BOOLEAN,
   token: Nat, curr: Nat, total: Nat]

NoAnswer == [status |-> 200, kind |-> "nil", err |-> FALSE, reversal |-> FALSE,
             token |-> 0, curr |-> 0, total |-> 0]

BodyState == {"none", "whole", "drained"}

(* How a request can end, an error apart: the despatch of a mutation is    *)
(* reported, the rows are delivered, a message is passed on, a page has no *)
(* payload, a bad status is passed over, or the elider knows the request.  *)
Quiet == {"despatched", "delivered", "message", "noPayload", "badStatus", "elided"}

TypeOK ==
  /\ cfg \in Config
  /\ pc \in {"start", "request", "call", "process", "page", "done"}
  /\ current \in Nat
  /\ ownBody \in BodyState
  /\ asked \in Nat
  /\ carried \in BodyState
  /\ answer \in Answer
  /\ pageCount \in Nat
  /\ housekeepingDone \in BOOLEAN
  /\ rows \in [Requests -> Seq(Nat)]
  /\ housekeeping \in [Requests -> Nat]
  /\ reversals \in [Requests -> Seq(Nat)]
  /\ outcome \in [Requests -> Quiet \cup {"none", "error", "panic"}]
  /\ result \in {"pending", "ok", "error", "panic"}
  /\ faulty \in BOOLEAN

GivenBody == IF cfg.hasBody THEN "whole" ELSE "none"

AfterReading(b) == IF b = "none" THEN "none" ELSE "drained"

Init ==
  /\ cfg \in Configs
  /\ pc = "start"
  /\ current = 0
  /\ ownBody = "none"
  /\ asked = 0
  /\ carried = "none"
  /\ answer = NoAnswer
  /\ pageCount = 0
  /\ housekeepingDone = FALSE
  /\ rows = [r \in Requests |-> <<>>]
  /\ housekeeping = [r \in Requests |-> 0]
  /\ reversals = [r \in Requests |-> <<>>]
  /\ outcome = [r \in Requests |-> "none"]
  /\ result = "pending"
  /\ faulty = FALSE

-----------------------------------------------------------------------------
(* agnosticate: the armoury, and the turn of each of its requests.         *)

(* The armoury cannot be assembled.                                        *)
ArmouryFails ==
  /\ pc = "start"
  /\ result' = "error"
  /\ pc' = "done"
  /\ faulty' = TRUE
  /\ UNCHANGED <<cfg, current, ownBody, loop, ledger, outcome>>

(* The next request takes its turn, or there is none left and the last     *)
(* response is the result.                                                 *)
Turn(next) ==
  /\ current' = next
  /\ IF next > cfg.requests
     THEN pc' = "done" /\ result' = "ok" /\ UNCHANGED ownBody
     ELSE pc' = "request" /\ ownBody' = GivenBody /\ UNCHANGED result

Begin ==
  /\ pc = "start"
  /\ Turn(1)
  /\ UNCHANGED <<cfg, loop, ledger, outcome, faulty>>

(* Process returns without an error: agnosticate goes on.                  *)
Return(how) ==
  /\ outcome' = [outcome EXCEPT ![current] = how]
  /\ Turn(current + 1)

(* Mistake: agnosticate drops the error of all but the last request.       *)
FailCarriesOn ==
  /\ outcome' = [outcome EXCEPT ![current] = "error"]
  /\ IF current < cfg.requests
     THEN Turn(current + 1)
     ELSE result' = "error" /\ pc' = "done" /\ UNCHANGED <<current, ownBody>>

(* Process returns an error: agnosticate returns it at once.               *)
Fail ==
  /\ outcome' = [outcome EXCEPT ![current] = "error"]
  /\ result' = "error"
  /\ pc' = "done"
  /\ UNCHANGED <<current, ownBody>>

-----------------------------------------------------------------------------
(* Process, up to the answer of its first call.                            *)

FlatMapFails ==
  /\ pc = "request"
  /\ Fail
  /\ faulty' = TRUE
  /\ UNCHANGED <<cfg, loop, ledger>>

(* The elider has seen this request's encoding.                            *)
Elide ==
  /\ pc = "request"
  /\ Return("elided")
  /\ UNCHANGED <<cfg, loop, ledger, faulty>>

(* The first call.  CallFromSignature sends a clone of the prepared        *)
(* request, and a clone shares the original's body reader.                 *)
FirstCall ==
  /\ pc = "request"
  /\ asked' = 1
  /\ carried' = ownBody
  /\ ownBody' = AfterReading(ownBody)
  /\ pageCount' = 1
  /\ housekeepingDone' = FALSE
  /\ answer' = NoAnswer
  /\ pc' = "call"
  /\ UNCHANGED <<cfg, current, ledger, outcome, result, faulty>>

(* No response.  The error of the first call is returned; that of a later  *)
(* page's call ends the paging as if there were no further page.  A body   *)
(* that was read before is shorter than its ContentLength, which the       *)
(* transport refuses.                                                      *)
CallFails ==
  /\ pc = "call"
  /\ IF pageCount = 1 THEN Fail ELSE Return("delivered")
  /\ faulty' = (faulty \/ carried # "drained")
  /\ UNCHANGED <<cfg, loop, ledger>>

(* What the server's page p holds, and where it says the next one is.      *)
PageOf(p) ==
  IF cfg.advancing
  THEN [token |-> IF p < cfg.pages THEN p + 1 ELSE 0, curr |-> p, total |-> cfg.pages]
  ELSE [token |-> p, curr |-> 1, total |-> cfg.pages]

(* ProcessResponse.  The parameters of the reversal are taken from the     *)
(* response, which is a nil interface if it could not be read.  When they  *)
(* cannot be extracted there is no reversal, and the error of reading the  *)
(* response is dropped along with it.                                      *)
ProcessResponse(reading, invertible) ==
  LET inverted == reading.kind # "noSchema" /\ cfg.hasInverse
  IN [kind |-> IF inverted /\ invertible /\ reading.kind = "unreadable"
               THEN "panic" ELSE reading.kind,
      err |-> IF inverted /\ ~invertible THEN FALSE ELSE reading.err,
      reversal |-> inverted /\ invertible]

(* The readings of a response: one that cannot be decoded is an error; one *)
(* of status 300 or more that can is marked as an API error, or passed on  *)
(* as items if the method overrides its media type; a JSON path that fails *)
(* leaves an empty object along with the error.                            *)
Reading(k, e) == [kind |-> k, err |-> e]

Readings(status) ==
  {Reading("noSchema", TRUE), Reading("unreadable", TRUE)} \cup
  (IF status >= 300
   THEN {Reading("apiError", FALSE), Reading("items", FALSE), Reading("nil", FALSE)}
   ELSE {Reading("items", FALSE), Reading("items", TRUE), Reading("nil", FALSE)})

(* The page asked for arrives and is understood.                           *)
Healthy(status, reading, invertible) ==
  status = 200 /\ reading = Reading("items", FALSE) /\ invertible

(* A response: the page that was asked for, or anything else a server may  *)
(* send, in particular a page that does not say where the next one is.     *)
CallAnswers ==
  /\ pc = "call"
  /\ carried # "drained"
  /\ \E status \in {200, 400}, invertible \in BOOLEAN, silent \in BOOLEAN :
     \E reading \in Readings(status) :
       LET processed == ProcessResponse(reading, invertible)
           paging == IF silent THEN [token |-> 0, curr |-> 0, total |-> 0]
                               ELSE PageOf(asked)
       IN /\ answer' = [status |-> status, kind |-> processed.kind,
                        err |-> processed.err, reversal |-> processed.reversal,
                        token |-> paging.token, curr |-> paging.curr,
                        total |-> paging.total]
          /\ faulty' = (faulty \/ silent \/ ~Healthy(status, reading, invertible))
  /\ pc' = "process"
  /\ UNCHANGED <<cfg, current, ownBody, asked, carried, pageCount,
                 housekeepingDone, ledger, outcome, result>>
-----------------------------------------------------------------------------
(* Process: one response.                                                  *)

(* A mutation whose response nobody awaits succeeds on a good status.      *)
Despatchable == cfg.nilOK /\ cfg.isMutation /\ answer.status < 300

(* The response could not be read, but the mutation was made.              *)
DespatchUnread ==
  /\ pc = "process"
  /\ answer.err
  /\ answer.kind # "panic"
  /\ Despatchable
  /\ Return("despatched")
  /\ UNCHANGED <<cfg, loop, ledger, faulty>>

(* The inverse reads its parameters from a response that is not there.     *)
ReversalPanics ==
  /\ pc = "process"
  /\ answer.kind = "panic"
  /\ outcome' = [outcome EXCEPT ![current] = "panic"]
  /\ result' = "panic"
  /\ pc' = "done"
  /\ UNCHANGED <<cfg, current, ownBody, loop, ledger, faulty>>

(* Any other response is looked at after its reversal has been written.    *)
Proceed ==
  /\ pc = "process"
  /\ answer.kind # "panic"
  /\ ~(answer.err /\ Despatchable)
  /\ reversals' = IF answer.reversal
                  THEN [reversals EXCEPT ![current] = Append(@, asked)]
                  ELSE reversals

(* No schema to read the response with, or no response.                    *)
NoResponse ==
  /\ Proceed
  /\ answer.kind \in {"noSchema", "unreadable"}
  /\ Fail
  /\ UNCHANGED <<cfg, loop, rows, housekeeping, faulty>>

(* The API reports an error: a message for the user, and no error.         *)
ApiError ==
  /\ Proceed
  /\ answer.kind = "apiError"
  /\ Return("message")
  /\ UNCHANGED <<cfg, loop, rows, housekeeping, faulty>>

(* No payload ends the paging; so does a bad status with a payload.        *)
NoPayload ==
  /\ Proceed
  /\ answer.kind = "nil"
  /\ Return("noPayload")
  /\ UNCHANGED <<cfg, loop, rows, housekeeping, faulty>>

BadStatus ==
  /\ Proceed
  /\ answer.kind = "items"
  /\ answer.status >= 300
  /\ Return("badStatus")
  /\ UNCHANGED <<cfg, loop, rows, housekeeping, faulty>>

(* Mistake: every page's insert is told that no house was kept yet.        *)
KeptHouseForgotten == FALSE

(* What the payload of the insert tells the preparator.                    *)
KeptHouse == housekeepingDone

(* ActionInsertPreparation: the preparator keeps house unless it is told   *)
(* that this was done, and inserts the items, or fails.                    *)
Insert ==
  /\ Proceed
  /\ answer.kind = "items"
  /\ answer.status < 300
  /\ \E inserts \in BOOLEAN :
       /\ housekeeping' = IF KeptHouse THEN housekeeping
                          ELSE [housekeeping EXCEPT ![current] = @ + 1]
       /\ housekeepingDone' = TRUE
       /\ rows' = IF inserts THEN [rows EXCEPT ![current] = Append(@, asked)]
                  ELSE rows
       /\ faulty' = (faulty \/ ~inserts)
       /\ \/ /\ Despatchable /\ ~cfg.isAwait
             /\ Return("despatched")
          \/ /\ ~(Despatchable /\ ~cfg.isAwait)
             /\ ~inserts
             /\ Fail
          \/ /\ ~(Despatchable /\ ~cfg.isAwait)
             /\ inserts
             /\ pc' = "page"
             /\ UNCHANGED <<current, ownBody, outcome, result>>
  /\ UNCHANGED <<cfg, asked, carried, answer, pageCount>>

-----------------------------------------------------------------------------
(* page: the call for the next page.                                       *)

(* Where the request for the next page carries the token: as the method's  *)
(* pagination says, else by provider.                                      *)
inferNextPageRequestElement ==
  CASE cfg.requestToken # "none" -> cfg.requestToken
    [] cfg.requestToken = "none" /\ cfg.provider = "github" -> "requestString"
    [] OTHER -> "query"

(* Where the response holds the token.                                     *)
inferNextPageResponseElement ==
  CASE cfg.responseToken # "none" -> cfg.responseToken
    [] cfg.responseToken = "none" /\ cfg.provider = "github" -> "header"
    [] OTHER -> "body"

(* Only the body and the headers of a response are searched.               *)
extractNextPageToken(field) ==
  IF inferNextPageResponseElement \in {"body", "header"} THEN field ELSE 0

(* Mistakes: the last page but one is taken for the last; the page the     *)
(* server is at is asked for again.                                        *)
extractPageNumberNextTokenEarly(curr, total) ==
  IF curr = 0 \/ total = 0 \/ curr + 1 >= total THEN 0 ELSE curr + 1
extractPageNumberNextTokenSame(curr, total) ==
  IF curr = 0 \/ total = 0 \/ curr >= total THEN 0 ELSE curr

(* The next page number, unless the current page is the last or one of the *)
(* two numbers is missing.                                                 *)
extractPageNumberNextToken(curr, total) ==
  IF curr = 0 \/ total = 0 \/ curr >= total THEN 0 ELSE curr + 1

NextToken ==
  IF cfg.algorithm = "page_number"
  THEN extractPageNumberNextToken(extractNextPageToken(answer.curr), answer.total)
  ELSE extractNextPageToken(answer.token)

AtPageLimit == cfg.pageLimit > 0 /\ pageCount >= cfg.pageLimit

(* No token, or the limit is reached: the rows so far are the result.      *)
NoNextPage ==
  /\ pc = "page"
  /\ NextToken = 0 \/ AtPageLimit
  /\ Return("delivered")
  /\ UNCHANGED <<cfg, loop, ledger, faulty>>

(* SetNextPage refuses the token's location, or meets a token that is no   *)
(* URL or a body it cannot marshal.  page says it is finished and hands    *)
(* over the error, which Process does not look at.                         *)
SetNextPageFails ==
  /\ pc = "page"
  /\ NextToken # 0 /\ ~AtPageLimit
  /\ inferNextPageRequestElement # "query"
  /\ faulty' = (faulty \/ inferNextPageRequestElement # "header")
  /\ Return("delivered")
  /\ UNCHANGED <<cfg, loop, ledger>>

(* The body of a later page's request: marshalled anew with the token in   *)
(* it, or the prepared request's own reader again.                         *)
NextBody ==
  IF inferNextPageRequestElement = "body" THEN "whole" ELSE ownBody

NextPage ==
  /\ pc = "page"
  /\ NextToken # 0 /\ ~AtPageLimit
  /\ inferNextPageRequestElement # "header"
  /\ pageCount < MaxCalls
  /\ asked' = NextToken
  /\ carried' = NextBody
  /\ pageCount' = pageCount + 1
  /\ pc' = "call"
  /\ UNCHANGED <<cfg, current, ownBody, answer, housekeepingDone, ledger,
                 outcome, result, faulty>>

Next ==
  \/ ArmouryFails \/ Begin
  \/ FlatMapFails \/ Elide \/ FirstCall
  \/ CallFails \/ CallAnswers
  \/ DespatchUnread \/ ReversalPanics \/ NoResponse \/ ApiError \/ NoPayload
  \/ BadStatus \/ Insert
  \/ NoNextPage \/ SetNextPageFails \/ NextPage

Spec == Init /\ [][Next]_vars

(* The invocation runs on one goroutine, and every call it makes returns   *)
(* (RetryClient's CallReturns).                                            *)
FairSpec == Spec /\ WF_vars(Next)
-----------------------------------------------------------------------------
(* PROPERTIES *)

(* Against a server that moves on, the pages of a request are inserted in  *)
(* order, from the first, none twice and none skipped, whatever fails on   *)
(* the way (Process and page).                                             *)
PagesInOrder ==
  cfg.advancing =>
    \A r \in Requests : \A i \in 1 .. Len(rows[r]) : rows[r][i] = i

(* HTTPPageLimit bounds the calls and the pages of each request, even      *)
(* against a server that always has a next page (page's comparison).       *)
PageLimitRespected ==
  cfg.pageLimit > 0 =>
    /\ pageCount <= cfg.pageLimit
    /\ \A r \in Requests : Len(rows[r]) <= cfg.pageLimit

(* What a request inserts is a prefix of the server's pages, no longer than *)
(* HTTPPageLimit: nothing twice, nothing skipped, nothing past the limit    *)
(* (Process and page).                                                      *)
FirstPagesOnly == PagesInOrder /\ PageLimitRespected

(* The preparator keeps house once per request, before its first rows, and *)
(* never between two pages: rows already inserted are not cleared away     *)
(* (the housekeepingDone Process carries from page to page).               *)
HousekeepingOnce ==
  \A r \in Requests :
    /\ housekeeping[r] <= 1
    /\ rows[r] # <<>> => housekeeping[r] = 1

(* The first error ends the invocation: it is the result, the requests     *)
(* after it are never made, and a result without an error means that none  *)
(* of the requests had one (agnosticate's loop).                           *)
ErrorEndsInvocation ==
  \A r \in Requests :
    /\ outcome[r] = "error" =>
         /\ result = "error"
         /\ \A q \in Requests : q > r => outcome[q] = "none" /\ rows[q] = <<>>
    /\ result = "ok" => outcome[r] \in Quiet

(* A request that counts as delivered has delivered its first page at      *)
(* least: only the calls of later pages fail without an error (the checks  *)
(* behind the first CallFromSignature).                                    *)
DeliveredHasFirstPage ==
  \A r \in Requests : outcome[r] = "delivered" => rows[r] # <<>>

(* A request whose token goes where the client puts it in vain: into a     *)
(* header, which SetNextPage refuses, or outside the body of a request     *)
(* that has a body, which the first call has read.                         *)
TokenNotSent ==
  \/ inferNextPageRequestElement = "header"
  \/ cfg.hasBody /\ inferNextPageRequestElement # "body"

(* Methods that have no second page: their token is where none is looked   *)
(* for, or their response is not read.                                     *)
SinglePage ==
  \/ inferNextPageResponseElement \notin {"body", "header"}
  \/ cfg.nilOK /\ cfg.isMutation /\ ~cfg.isAwait

PagesToRead == IF cfg.pageLimit \in 1 .. cfg.pages THEN cfg.pageLimit ELSE cfg.pages

(* If nothing fails, every page of every request that was not elided is    *)
(* inserted, up to the page limit, whenever the token of the next page is  *)
(* sent; where it is not, nothing is said of how much is read (Process and *)
(* page).                                                                  *)
HealthyServerFullyRead ==
  (pc = "done" /\ ~faulty /\ cfg.advancing /\ ~SinglePage /\ ~TokenNotSent) =>
    \A r \in Requests : outcome[r] # "elided" => Len(rows[r]) = PagesToRead

(* An invocation comes to its end if the server moves on or the pages are  *)
(* limited.                                                                *)
InvocationReturns ==
  (cfg.advancing \/ cfg.pageLimit > 0) => <>(pc = "done")

=============================================================================
