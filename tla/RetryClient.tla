----------------------------- MODULE RetryClient -----------------------------
(***************************************************************************)
(* One remote call through the HTTP client of internal/anysdk/client.go:   *)
(* CallFromSignature, httpApiCallFromRequest, Do and the retry loop        *)
(* doWithRetry.  The transport, the server and the context that may be     *)
(* cancelled at any moment are the environment.                            *)
(*                                                                         *)
(* A request body is a reader that can be read once: "whole" until it is   *)
(* read, "drained" afterwards.  A response body is "open" until the loop   *)
(* drains and closes it in order to reuse the connection.                  *)
(***************************************************************************)
EXTENDS RetryPolicy, Sequences

CONSTANTS
  StatusCode,  \* the HTTP statuses the server may answer with
  Method,      \* the HTTP methods of the requests
  Policies     \* the retry policies an operation may resolve to

ASSUME StatusCodeAssumption == StatusCode \subseteq Nat \ {0}
ASSUME MethodAssumption == Method \subseteq STRING
ASSUME PoliciesAssumption == Policies \subseteq RawPolicy

VARIABLES
  policy,       \* the policy resolveRetryPolicy returned
  method,       \* req.Method
  hasBody,      \* whether the caller gave a body
  pc,           \* where the call stands
  maxAttempts,  \* the attempts doWithRetry allows itself
  buffered,     \* bodyBytes # nil
  body,         \* what req.Body holds
  attempt,      \* the loop variable
  lastResp,     \* the loop's lastResp
  lastErr,      \* the loop's lastErr
  ctxDone,      \* the request's context is cancelled
  sent,         \* the bodies the transport was handed, one per attempt
  answers,      \* the answers of the attempts
  result        \* what CallFromSignature returned

request == <<policy, method, hasBody>>
vars == <<policy, method, hasBody, pc, maxAttempts, buffered, body, attempt,
          lastResp, lastErr, ctxDone, sent, answers, result>>

-----------------------------------------------------------------------------
NoErr == "none"
TransportErr == {"net", "ctx"}
LocalErr == {"rejected", "read"}
Errors == {NoErr} \cup TransportErr \cup LocalErr

NoResponse == [status |-> 0, body |-> "none"]
Response == [status: StatusCode, body: {"open", "drained"}]

BodyState == {"none", "whole", "drained"}

Result == [resp: Response \cup {NoResponse}, err: Errors]
Pending == [resp |-> NoResponse, err |-> NoErr]

Answer == [status: StatusCode, err: {NoErr}] \cup [status: {0}, err: TransportErr]

(* An answer after which the loop makes another attempt, if it has one.    *)
Transient(p, a) == a.err # NoErr \/ IsStatusRetryable(p, a.status)

(* The policy's attempts, for a method it lists; otherwise one.            *)
AllowedAttempts(p, m) ==
  IF IsMethodRetryable(p, m) THEN GetMaxAttempts(p) ELSE 1

(* The body the caller gave, which every attempt is to carry.              *)
GivenBody == IF hasBody THEN "whole" ELSE "none"

TypeOK ==
  /\ policy \in RawPolicy
  /\ method \in STRING
  /\ hasBody \in BOOLEAN
  /\ pc \in {"idle", "send", "inFlight", "backoff", "wait", "publish", "done"}
  /\ maxAttempts \in Nat
  /\ buffered \in BOOLEAN
  /\ body \in BodyState
  /\ attempt \in Nat
  /\ lastResp \in Response \cup {NoResponse}
  /\ lastErr \in Errors
  /\ ctxDone \in BOOLEAN
  /\ sent \in Seq(BodyState)
  /\ answers \in Seq(Answer)
  /\ result \in Result

-----------------------------------------------------------------------------
Init ==
  /\ policy \in Policies
  /\ method \in Method
  /\ hasBody \in BOOLEAN
  /\ pc = "idle"
  /\ maxAttempts = 0
  /\ buffered = FALSE
  /\ body = GivenBody
  /\ attempt = 0
  /\ lastResp = NoResponse
  /\ lastErr = NoErr
  /\ ctxDone = FALSE
  /\ sent = <<>>
  /\ answers = <<>>
  /\ result = Pending

(* Do hands on either a response or an error, never both.                  *)
Return(resp, err) ==
  result' = IF err # NoErr THEN [resp |-> NoResponse, err |-> err]
                           ELSE [resp |-> resp, err |-> NoErr]

(***************************************************************************)
(* Anything that fails before the retry loop: no raw designation, a        *)
(* designation that is no operation, a missing argument, an authentication *)
(* or a request translation error.                                         *)
(***************************************************************************)
Reject ==
  /\ pc = "idle"
  /\ Return(NoResponse, "rejected")
  /\ pc' = "done"
  /\ UNCHANGED <<request, maxAttempts, buffered, body, attempt, lastResp,
                 lastErr, ctxDone, sent, answers>>

(* The loop's prologue: how many attempts, and the body read into memory   *)
(* if more than one attempt may need it.                                   *)
Start ==
  /\ pc = "idle"
  /\ maxAttempts' = AllowedAttempts(policy, method)
  /\ buffered' = (hasBody /\ maxAttempts' > 1)
  /\ attempt' = 1
  /\ pc' = "send"
  /\ UNCHANGED <<request, body, lastResp, lastErr, ctxDone, sent, answers,
                 result>>

(* The caller's reader fails while it is being read into memory.           *)
BufferFails ==
  /\ pc = "idle"
  /\ hasBody
  /\ AllowedAttempts(policy, method) > 1
  /\ maxAttempts' = AllowedAttempts(policy, method)
  /\ body' = "drained"
  /\ Return(NoResponse, "read")
  /\ pc' = "done"
  /\ UNCHANGED <<request, buffered, attempt, lastResp, lastErr, ctxDone,
                 sent, answers>>

(* hc.client.Do(req): the transport takes the request and reads its body.  *)
Send ==
  /\ pc = "send"
  /\ sent' = Append(sent, body)
  /\ body' = IF body = "none" THEN "none" ELSE "drained"
  /\ pc' = "inFlight"
  /\ UNCHANGED <<request, maxAttempts, buffered, attempt, lastResp, lastErr,
                 ctxDone, answers, result>>

(* What client.Do can come back with: any status, a network error, and the *)
(* context's error once the context is done.                               *)
Answers ==
  {a \in Answer : a.err = "ctx" => ctxDone}

ResponseOf(a) ==
  IF a.err = NoErr THEN [status |-> a.status, body |-> "open"] ELSE NoResponse

(* Mistake: any failure is retried.                                        *)
GoesRoundOnAnyFailure(a) ==
  attempt < maxAttempts /\ (a.err # NoErr \/ a.status >= 400)

(* The loop goes round again: attempts are left and the answer is          *)
(* transient.                                                              *)
GoesRound(a) == attempt < maxAttempts /\ Transient(policy, a)

(* The answer is transient and attempts are left: the response, if there   *)
(* is one, is drained and closed, and the loop goes round.                 *)
AnswerRetried(a) ==
  /\ pc = "inFlight"
  /\ GoesRound(a)
  /\ answers' = Append(answers, a)
  /\ lastResp' = IF a.err = NoErr
                 THEN [status |-> a.status, body |-> "drained"] ELSE NoResponse
  /\ lastErr' = a.err
  /\ attempt' = attempt + 1
  /\ pc' = "backoff"
  /\ UNCHANGED <<request, maxAttempts, buffered, body, ctxDone, sent, result>>

(* The answer ends the loop, with a response to hand back or an error.     *)
AnswerReturned(a) ==
  /\ pc = "inFlight"
  /\ ~GoesRound(a)
  /\ answers' = Append(answers, a)
  /\ lastResp' = ResponseOf(a)
  /\ lastErr' = a.err
  /\ Return(ResponseOf(a), a.err)
  /\ pc' = "publish"
  /\ UNCHANGED <<request, maxAttempts, buffered, body, attempt, ctxDone, sent>>

(* Mistake: the body is not rebuilt before another attempt.                *)
RebuiltBodyForgotten == body

RebuiltBody == IF buffered THEN "whole" ELSE body

(* The top of the loop from the second attempt on: the body is rebuilt     *)
(* from the buffer and the wait begins, unless the delay is zero.          *)
Backoff ==
  /\ pc = "backoff"
  /\ body' = RebuiltBody
  /\ \E delay \in BackoffFor(policy, attempt - 1) :
       pc' = IF delay > 0 THEN "wait" ELSE "send"
  /\ UNCHANGED <<request, maxAttempts, buffered, attempt, lastResp, lastErr,
                 ctxDone, sent, answers, result>>

(* Mistake: the select listens to the context only.                        *)
TimerFiresNever ==
  /\ pc = "wait" /\ ctxDone
  /\ pc' = "send"
  /\ UNCHANGED <<request, maxAttempts, buffered, body, attempt, lastResp,
                 lastErr, ctxDone, sent, answers, result>>

(* The timer case of the select; Go may take it when both are ready.       *)
TimerFires ==
  /\ pc = "wait"
  /\ pc' = "send"
  /\ UNCHANGED <<request, maxAttempts, buffered, body, attempt, lastResp,
                 lastErr, ctxDone, sent, answers, result>>

(* Mistake: a cancelled wait reports the last error even if there is none. *)
CancelledErrorUnset == lastErr

CancelledError == IF lastErr = NoErr THEN "ctx" ELSE lastErr

(* The ctx.Done() case of the select.                                      *)
WaitCancelled ==
  /\ pc = "wait"
  /\ ctxDone
  /\ lastErr' = CancelledError
  /\ Return(lastResp, lastErr')
  /\ pc' = "done"
  /\ UNCHANGED <<request, maxAttempts, buffered, body, attempt, lastResp,
                 ctxDone, sent, answers>>

(* Back in httpApiCallFromRequest: an error is passed on; an erroneous     *)
(* response's body is read, to publish it, and replaced by a fresh reader, *)
(* and that read may fail.                                                 *)
Publish ==
  /\ pc = "publish"
  /\ \/ UNCHANGED result
     \/ /\ result.resp.status >= 300
        /\ Return(NoResponse, "read")
  /\ pc' = "done"
  /\ UNCHANGED <<request, maxAttempts, buffered, body, attempt, lastResp,
                 lastErr, ctxDone, sent, answers>>

(* The environment cancels the request's context.                          *)
Cancel ==
  /\ pc # "done"
  /\ ~ctxDone
  /\ ctxDone' = TRUE
  /\ UNCHANGED <<request, pc, maxAttempts, buffered, body, attempt, lastResp,
                 lastErr, sent, answers, result>>

ReceiveAnswer == \E a \in Answers : AnswerRetried(a) \/ AnswerReturned(a)

ClientStep ==
  \/ Reject
  \/ Start
  \/ BufferFails
  \/ Send
  \/ ReceiveAnswer
  \/ Backoff
  \/ TimerFires
  \/ WaitCancelled
  \/ Publish

Next == ClientStep \/ Cancel

Spec == Init /\ [][Next]_vars

(* The loop runs on one goroutine that nothing blocks for ever: its timer  *)
(* fires, and the transport answers, fails or reports the context.         *)
FairSpec == Spec /\ WF_vars(ClientStep)

-----------------------------------------------------------------------------
(* PROPERTIES *)

(* The transport never gets more attempts than the policy allows, and a    *)
(* method the policy does not list reaches the server at most once: a      *)
(* mutation is not repeated (doWithRetry's maxAttempts).                   *)
AttemptsWithinPolicy ==
  /\ Len(sent) <= GetMaxAttempts(policy)
  /\ ~IsMethodRetryable(policy, method) => Len(sent) <= 1

(* Every attempt, not only the first, carries the caller's body: replaying *)
(* from the buffer never sends a reader an earlier attempt has drained.    *)
WholeBodyOnEveryAttempt == \A i \in 1 .. Len(sent) : sent[i] = GivenBody

(* An attempt follows another one only if that one's answer was transient. *)
RetriesAreJustified ==
  \A i \in 1 .. Len(answers) :
    i < Len(sent) => Transient(policy, answers[i])

(* A response the caller receives is the one the last attempt got, with    *)
(* its body still readable: never one the loop drained for a retry.        *)
ReturnedResponseReadable ==
  result.resp # NoResponse =>
    /\ result.resp.body = "open"
    /\ answers # <<>>
    /\ result.resp.status = answers[Len(answers)].status

(* A call is not given up while attempts are left: when the outcome is the *)
(* transient answer itself, and the context was never cancelled, every     *)
(* allowed attempt was made.                                               *)
NoEarlySurrender ==
  (pc = "done" /\ ~ctxDone /\ answers # <<>>
     /\ Transient(policy, answers[Len(answers)]))
  => Len(answers) = AllowedAttempts(policy, method)

(* The delays of the loop follow the documented formula: growing with the  *)
(* attempt number without jitter, and never past the ceiling, with jitter  *)
(* or without (BackoffFor).                                                *)
BackoffSchedule ==
  \A n \in 1 .. attempt :
    /\ \A d \in BackoffFor(policy, n) : d <= GetMaxDelay(policy)
    /\ GetJitterFraction(policy) = 0 =>
         /\ \A d \in BackoffFor(policy, n), e \in BackoffFor(policy, n + 1) : d <= e
         /\ (n = 1 /\ GetInitialDelay(policy) <= GetMaxDelay(policy)) =>
              BackoffFor(policy, n) = {GetInitialDelay(policy)}

(* Every call comes back, whatever the server answers and whenever the     *)
(* context is cancelled.                                                   *)
CallReturns == <>(pc = "done")

-----------------------------------------------------------------------------
(* The loop implements the abstract call.                                  *)
ClassOfLast ==
  CASE answers = <<>> -> "none"
    [] answers # <<>> /\ Transient(policy, answers[Len(answers)]) -> "transient"
    [] OTHER -> "final"

(* The call hands back its last answer when the loop ended on it (a wait   *)
(* that was cancelled has already counted the next attempt).               *)
HandsBackLastAnswer ==
  /\ answers # <<>>
  /\ attempt = Len(answers)
  /\ result.err = answers[Len(answers)].err
  /\ result.resp.status = answers[Len(answers)].status

OutcomeOfCall ==
  CASE pc # "done" -> "pending"
    [] pc = "done" /\ HandsBackLastAnswer -> "answer"
    [] OTHER -> "error"

Call == INSTANCE RemoteCall WITH
          limit    <- AllowedAttempts(policy, method),
          attempts <- Len(answers),
          last     <- ClassOfLast,
          outcome  <- OutcomeOfCall

(* Seen from outside, doWithRetry is RemoteCall: bounded attempts, a new   *)
(* one only after a transient answer, and an outcome that is the last      *)
(* answer or an error of the client's own.                                 *)
ImplementsRemoteCall == Call!Spec
=============================================================================
