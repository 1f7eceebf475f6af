------------------------- MODULE RetryClientProofs -------------------------
(***************************************************************************)
(* Proofs about one remote call (RetryClient), for every set of statuses,  *)
(* methods and policies, and about the calls of a session and their        *)
(* credentials (Authentication), for every configuration.                  *)
(***************************************************************************)
EXTENDS RetryClient, Authentication, TLAPS, WellFoundedInduction

(* Where the call stands determines how many attempts were sent and        *)
(* answered.                                                               *)
Progress ==
  /\ pc = "idle" => sent = <<>> /\ answers = <<>> /\ attempt = 0
  /\ pc \in {"send", "inFlight", "backoff", "wait", "publish"} =>
       /\ maxAttempts = AllowedAttempts(policy, method)
       /\ buffered = (hasBody /\ maxAttempts > 1)
       /\ attempt \in 1 .. maxAttempts
  /\ pc \in {"send", "backoff", "wait"} =>
       Len(sent) = attempt - 1 /\ Len(answers) = attempt - 1
  /\ pc \in {"backoff", "wait"} => attempt > 1
  /\ pc = "inFlight" => Len(sent) = attempt /\ Len(answers) = attempt - 1
  /\ pc = "publish" => Len(sent) = attempt /\ Len(answers) = attempt
  /\ pc = "done" =>
       /\ Len(sent) = Len(answers)
       /\ Len(sent) <= AllowedAttempts(policy, method)

(* The request's body is whole whenever it is about to be sent.            *)
BodyReady ==
  /\ ~hasBody => body = "none"
  /\ pc \in {"idle", "send", "wait"} => body = GivenBody

(* Every answer before the last is transient, and so is the last one while *)
(* the loop is on its way to another attempt.                              *)
AnswersTransient ==
  \A i \in 1 .. Len(answers) :
    (i < Len(answers) \/ pc \in {"send", "inFlight", "backoff", "wait"})
      => Transient(policy, answers[i])

(* The result is set only at the end, and a response among it is the open  *)
(* one of the last answer.                                                 *)
ResultInv ==
  /\ pc \notin {"publish", "done"} => result = Pending
  /\ result.resp # NoResponse =>
       /\ result.err = NoErr
       /\ result.resp.body = "open"
       /\ answers # <<>>
       /\ result.resp.status = answers[Len(answers)].status
       /\ answers[Len(answers)].err = NoErr
  /\ pc = "publish" =>
       /\ result.err = answers[Len(answers)].err
       /\ result.resp.status = answers[Len(answers)].status
       /\ Len(answers) < maxAttempts => ~Transient(policy, answers[Len(answers)])

(* At the end, either the loop ended on its last answer, having used up    *)
(* its attempts or got a final one, or the context is done, or no attempt  *)
(* was made.                                                               *)
EndInv ==
  pc = "done" =>
    \/ answers = <<>>
    \/ /\ attempt = Len(answers)
       /\ \/ ~Transient(policy, answers[Len(answers)])
          \/ Len(answers) = AllowedAttempts(policy, method)
    \/ attempt = Len(answers) + 1 /\ ctxDone

IInv ==
  /\ TypeOK
  /\ Progress
  /\ BodyReady
  /\ WholeBodyOnEveryAttempt
  /\ AnswersTransient
  /\ ResultInv
  /\ EndInv

-----------------------------------------------------------------------------
(* A call may always make at least one attempt, and never more than the    *)
(* policy's (GetMaxAttempts snaps senseless values to the default).        *)
LEMMA AllowedAttemptsPositive ==
  ASSUME NEW p \in RawPolicy, NEW m
  PROVE  /\ AllowedAttempts(p, m) \in Nat \ {0}
         /\ AllowedAttempts(p, m) <= GetMaxAttempts(p)
         /\ ~IsMethodRetryable(p, m) => AllowedAttempts(p, m) = 1
  BY DEF AllowedAttempts, GetMaxAttempts, RawPolicy

(* Each action of the loop keeps every variable in its type.               *)
LEMMA TypePreserved == TypeOK /\ [Next]_vars => TypeOK'
<1> SUFFICES ASSUME TypeOK, [Next]_vars PROVE TypeOK'
  OBVIOUS
<1> USE DEF TypeOK, request, Result, Pending, Errors, NoErr, TransportErr, LocalErr
<1>1. CASE Reject
  BY <1>1 DEF Reject, Return
<1>2. CASE Start
  BY <1>2, AllowedAttemptsPositive DEF Start
<1>3. CASE BufferFails
  BY <1>3, AllowedAttemptsPositive DEF BufferFails, Return, BodyState
<1>4. CASE Send
  BY <1>4 DEF Send, BodyState
<1>5. ASSUME NEW a \in Answers, AnswerRetried(a) PROVE TypeOK'
  <2>1. a \in Answer
    BY DEF Answers
  <2>2. answers' \in Seq(Answer)
    BY <1>5, <2>1 DEF AnswerRetried
  <2>3. a.err \in {NoErr} \cup TransportErr
    BY <2>1 DEF Answer
  <2>4. a.err = NoErr => a.status \in StatusCode
    BY <2>1 DEF Answer
  <2>5. lastResp' \in Response \cup {NoResponse}
    BY <1>5, <2>4 DEF AnswerRetried, Response
  <2> QED
    BY <1>5, <2>2, <2>3, <2>5 DEF AnswerRetried
<1>6. ASSUME NEW a \in Answers, AnswerReturned(a) PROVE TypeOK'
  <2>1. a \in Answer
    BY DEF Answers
  <2>2. answers' \in Seq(Answer)
    BY <1>6, <2>1 DEF AnswerReturned
  <2>3. a.err \in {NoErr} \cup TransportErr
    BY <2>1 DEF Answer
  <2>4. a.err = NoErr => a.status \in StatusCode
    BY <2>1 DEF Answer
  <2>5. ResponseOf(a) \in Response \cup {NoResponse}
    BY <2>4 DEF ResponseOf, Response
  <2>6. result' \in Result
    BY <1>6, <2>3, <2>5 DEF AnswerReturned, Return
  <2> QED
    BY <1>6, <2>2, <2>3, <2>5, <2>6 DEF AnswerReturned
<1>7. CASE Backoff
  BY <1>7 DEF Backoff, RebuiltBody, BodyState
<1>8. CASE TimerFires
  BY <1>8 DEF TimerFires
<1>9. CASE WaitCancelled
  BY <1>9 DEF WaitCancelled, CancelledError, Return
<1>10. CASE Publish
  BY <1>10 DEF Publish, Return
<1>11. CASE Cancel
  BY <1>11 DEF Cancel
<1>12. CASE UNCHANGED vars
  BY <1>12 DEF vars
<1> QED
  BY <1>1, <1>2, <1>3, <1>4, <1>5, <1>6, <1>7, <1>8, <1>9, <1>10, <1>11, <1>12
  DEF Next, ClientStep, ReceiveAnswer

LEMMA TypeInit == Init => TypeOK
<1> SUFFICES ASSUME Init PROVE TypeOK
  OBVIOUS
<1> USE DEF Init
<1>1. policy \in RawPolicy /\ method \in STRING
  BY PoliciesAssumption, MethodAssumption
<1>2. result \in Result /\ lastErr \in Errors
  BY DEF Pending, Result, Errors, NoErr, TransportErr, LocalErr
<1>3. sent \in Seq(BodyState) /\ answers \in Seq(Answer)
  OBVIOUS
<1>4. body \in BodyState
  BY DEF GivenBody, BodyState
<1> QED
  BY <1>1, <1>2, <1>3, <1>4 DEF TypeOK

(* Every variable of the retry loop keeps its type throughout every call.  *)
THEOREM TypeCorrect == Spec => []TypeOK
  BY TypeInit, TypePreserved, PTL DEF Spec

-----------------------------------------------------------------------------
(* Appending keeps the elements there are and adds one at the end.         *)
LEMMA AppendFacts ==
  ASSUME NEW S, NEW s \in Seq(S), NEW e \in S
  PROVE  /\ Append(s, e) \in Seq(S)
         /\ Len(Append(s, e)) = Len(s) + 1
         /\ \A i \in 1 .. Len(s) : Append(s, e)[i] = s[i]
         /\ Append(s, e)[Len(s) + 1] = e
  OBVIOUS

LEMMA InvInit == Init => IInv
<1> SUFFICES ASSUME Init PROVE IInv
  OBVIOUS
<1>1. TypeOK
  BY TypeInit
<1>2. Progress /\ BodyReady /\ EndInv
  BY <1>1 DEF Init, Progress, BodyReady, GivenBody, EndInv, TypeOK
<1>3. WholeBodyOnEveryAttempt /\ AnswersTransient
  BY DEF Init, WholeBodyOnEveryAttempt, AnswersTransient
<1>4. ResultInv
  BY DEF Init, ResultInv, Pending
<1> QED
  BY <1>1, <1>2, <1>3, <1>4 DEF IInv

(* The transport takes the request: the body it is handed is the whole one *)
(* by BodyReady.                                                           *)
LEMMA SendPreserves == IInv /\ Send => IInv'
<1> SUFFICES ASSUME IInv, Send PROVE IInv'
  OBVIOUS
<1> USE DEF IInv, Send, request
<1>1. TypeOK'
  BY TypePreserved DEF Next, ClientStep
<1>2. /\ Len(sent') = Len(sent) + 1
      /\ \A i \in 1 .. Len(sent) : sent'[i] = sent[i]
      /\ sent'[Len(sent) + 1] = body
  BY AppendFacts DEF TypeOK
<1>3. Progress'
  BY <1>2 DEF Progress, TypeOK
<1>4. BodyReady'
  BY DEF BodyReady
<1>5. WholeBodyOnEveryAttempt'
  BY <1>2 DEF WholeBodyOnEveryAttempt, BodyReady, GivenBody, TypeOK
<1>6. AnswersTransient'
  BY DEF AnswersTransient
<1>7. ResultInv' /\ EndInv'
  BY DEF ResultInv, EndInv
<1> QED
  BY <1>1, <1>3, <1>4, <1>5, <1>6, <1>7

(* A transient answer sends the loop round with one attempt less.          *)
LEMMA AnswerRetriedPreserves ==
  ASSUME NEW a \in Answers, IInv, AnswerRetried(a) PROVE IInv'
<1> USE DEF IInv, AnswerRetried, GoesRound, request
<1>1. TypeOK'
  BY TypePreserved DEF Next, ClientStep, ReceiveAnswer
<1>2. /\ Len(answers') = Len(answers) + 1
      /\ \A i \in 1 .. Len(answers) : answers'[i] = answers[i]
      /\ answers'[Len(answers) + 1] = a
  BY AppendFacts DEF TypeOK, Answers
<1>3. Progress'
  BY <1>2 DEF Progress, TypeOK
<1>4. BodyReady'
  BY DEF BodyReady
<1>5. WholeBodyOnEveryAttempt'
  BY DEF WholeBodyOnEveryAttempt, GivenBody
<1>6. AnswersTransient'
  BY <1>2 DEF AnswersTransient, TypeOK
<1>7. ResultInv' /\ EndInv'
  BY DEF ResultInv, EndInv, Pending
<1> QED
  BY <1>1, <1>3, <1>4, <1>5, <1>6, <1>7

(* An answer that ends the loop becomes the result.                        *)
LEMMA AnswerReturnedPreserves ==
  ASSUME NEW a \in Answers, IInv, AnswerReturned(a) PROVE IInv'
<1> USE DEF IInv, AnswerReturned, GoesRound, request
<1>1. TypeOK'
  BY TypePreserved DEF Next, ClientStep, ReceiveAnswer
<1>2. /\ Len(answers') = Len(answers) + 1
      /\ \A i \in 1 .. Len(answers) : answers'[i] = answers[i]
      /\ answers'[Len(answers) + 1] = a
      /\ answers' # <<>>
  BY AppendFacts DEF TypeOK, Answers
<1>3. Progress'
  BY <1>2 DEF Progress, TypeOK
<1>4. BodyReady'
  BY DEF BodyReady
<1>5. WholeBodyOnEveryAttempt'
  BY DEF WholeBodyOnEveryAttempt, GivenBody
<1>6. AnswersTransient'
  BY <1>2 DEF AnswersTransient, TypeOK
<1>7. /\ result'.err = a.err
      /\ result'.resp.status = a.status
      /\ result'.resp # NoResponse => a.err = NoErr /\ result'.resp.body = "open"
  BY DEF Return, ResponseOf, NoResponse, NoErr, Answers, Answer, TransportErr
<1>8. ResultInv'
  BY <1>2, <1>7 DEF ResultInv, Progress, TypeOK
<1>9. EndInv'
  BY DEF EndInv
<1> QED
  BY <1>1, <1>3, <1>4, <1>5, <1>6, <1>8, <1>9

(* Rebuilding the body makes it whole again, because a second attempt      *)
(* exists only if the body was buffered.                                   *)
LEMMA BackoffPreserves == IInv /\ Backoff => IInv'
<1> SUFFICES ASSUME IInv, Backoff PROVE IInv'
  OBVIOUS
<1> USE DEF IInv, Backoff, request
<1>1. TypeOK'
  BY TypePreserved DEF Next, ClientStep
<1>2. pc' \in {"wait", "send"}
  OBVIOUS
<1>3. Progress'
  BY <1>2 DEF Progress, TypeOK
<1>4. BodyReady'
  BY <1>2 DEF BodyReady, Progress, RebuiltBody, GivenBody, TypeOK
<1>5. WholeBodyOnEveryAttempt'
  BY DEF WholeBodyOnEveryAttempt, GivenBody
<1>6. AnswersTransient'
  BY <1>2 DEF AnswersTransient
<1>7. ResultInv' /\ EndInv'
  BY <1>2 DEF ResultInv, EndInv
<1> QED
  BY <1>1, <1>3, <1>4, <1>5, <1>6, <1>7

(* The remaining actions leave the attempts and the answers alone.         *)
LEMMA OthersPreserve ==
  ASSUME IInv,
         \/ Reject \/ Start \/ BufferFails \/ TimerFires \/ WaitCancelled
         \/ Publish \/ Cancel \/ UNCHANGED vars
  PROVE  IInv'
<1> USE DEF IInv, request
<1>1. TypeOK'
  BY TypePreserved DEF Next, ClientStep
<1>2. WholeBodyOnEveryAttempt'
  BY DEF WholeBodyOnEveryAttempt, GivenBody, Reject, Start, BufferFails,
         TimerFires, WaitCancelled, Publish, Cancel, vars
<1>3. CASE Reject
  <2>1. Progress' /\ EndInv'
    BY <1>3, AllowedAttemptsPositive DEF Reject, Progress, EndInv, TypeOK
  <2>2. BodyReady' /\ AnswersTransient' /\ ResultInv'
    BY <1>3 DEF Reject, Return, BodyReady, AnswersTransient, ResultInv, NoErr
  <2> QED
    BY <1>1, <1>2, <2>1, <2>2
<1>4. CASE Start
  <2>1. Progress'
    BY <1>4, AllowedAttemptsPositive DEF Start, Progress, TypeOK
  <2>2. BodyReady' /\ AnswersTransient' /\ ResultInv' /\ EndInv'
    BY <1>4 DEF Start, Progress, BodyReady, GivenBody, AnswersTransient, ResultInv, EndInv
  <2> QED
    BY <1>1, <1>2, <2>1, <2>2
<1>5. CASE BufferFails
  <2>1. Progress' /\ EndInv'
    BY <1>5, AllowedAttemptsPositive DEF BufferFails, Progress, EndInv, TypeOK
  <2>2. BodyReady' /\ AnswersTransient' /\ ResultInv'
    BY <1>5 DEF BufferFails, Return, BodyReady, AnswersTransient, ResultInv, NoErr
  <2> QED
    BY <1>1, <1>2, <2>1, <2>2
<1>6. CASE TimerFires
  <2>1. Progress' /\ BodyReady' /\ AnswersTransient' /\ ResultInv' /\ EndInv'
    BY <1>6 DEF TimerFires, Progress, BodyReady, GivenBody, AnswersTransient, ResultInv, EndInv
  <2> QED
    BY <1>1, <1>2, <2>1
<1>7. CASE WaitCancelled
  <2>1. Progress' /\ EndInv'
    BY <1>7 DEF WaitCancelled, Progress, EndInv, TypeOK
  <2>2. result'.resp = NoResponse
    BY <1>7 DEF WaitCancelled, Return, CancelledError, NoErr
  <2>3. BodyReady' /\ AnswersTransient' /\ ResultInv'
    BY <1>7, <2>2 DEF WaitCancelled, BodyReady, AnswersTransient, ResultInv
  <2> QED
    BY <1>1, <1>2, <2>1, <2>3
<1>8. CASE Publish
  <2>1. Progress' /\ EndInv'
    BY <1>8 DEF Publish, Progress, ResultInv, EndInv, TypeOK
  <2>2. BodyReady' /\ AnswersTransient' /\ ResultInv'
    BY <1>8 DEF Publish, Return, BodyReady, AnswersTransient, ResultInv, NoErr
  <2> QED
    BY <1>1, <1>2, <2>1, <2>2
<1>9. CASE Cancel
  <2>1. Progress' /\ BodyReady' /\ AnswersTransient' /\ ResultInv' /\ EndInv'
    BY <1>9 DEF Cancel, Progress, BodyReady, GivenBody, AnswersTransient, ResultInv, EndInv
  <2> QED
    BY <1>1, <1>2, <2>1
<1>10. CASE UNCHANGED vars
  <2>1. Progress' /\ BodyReady' /\ AnswersTransient' /\ ResultInv' /\ EndInv'
    BY <1>10 DEF vars, Progress, BodyReady, GivenBody, AnswersTransient, ResultInv, EndInv
  <2> QED
    BY <1>1, <1>2, <2>1
<1> QED
  BY <1>3, <1>4, <1>5, <1>6, <1>7, <1>8, <1>9, <1>10

LEMMA InvPreserved == IInv /\ [Next]_vars => IInv'
  BY SendPreserves, AnswerRetriedPreserves, AnswerReturnedPreserves,
     BackoffPreserves, OthersPreserve
  DEF Next, ClientStep, ReceiveAnswer

(* The conjunction of what the loop relies on is an invariant.             *)
THEOREM Invariance == Spec => []IInv
  BY InvInit, InvPreserved, PTL DEF Spec

-----------------------------------------------------------------------------
(* The transport gets no more attempts than the policy allows, and a       *)
(* method the policy does not list reaches it at most once.                *)
THEOREM AttemptsBounded == Spec => []AttemptsWithinPolicy
<1>1. IInv => Len(sent) <= AllowedAttempts(policy, method)
  BY AllowedAttemptsPositive DEF IInv, Progress, TypeOK
<1>2. IInv => AttemptsWithinPolicy
  <2> SUFFICES ASSUME IInv PROVE AttemptsWithinPolicy
    OBVIOUS
  <2>1. policy \in RawPolicy /\ Len(sent) \in Nat
    BY DEF IInv, TypeOK
  <2>2. GetMaxAttempts(policy) \in Nat
    BY <2>1 DEF GetMaxAttempts, RawPolicy
  <2> QED
    BY <1>1, <2>1, <2>2, AllowedAttemptsPositive DEF AttemptsWithinPolicy
<1> QED
  BY Invariance, <1>2, PTL

(* Whatever the number of attempts, each carries the caller's body.        *)
THEOREM BodyReplayed == Spec => []WholeBodyOnEveryAttempt
<1>1. IInv => WholeBodyOnEveryAttempt
  BY DEF IInv
<1> QED
  BY Invariance, <1>1, PTL

(* The client never repeats a request after an answer that was not         *)
(* transient.                                                              *)
THEOREM RetriesJustified == Spec => []RetriesAreJustified
<1>1. IInv => RetriesAreJustified
  BY DEF IInv, RetriesAreJustified, AnswersTransient, Progress, TypeOK
<1> QED
  BY Invariance, <1>1, PTL

(* A response handed back is the last attempt's, still readable.           *)
THEOREM ResponseReadable == Spec => []ReturnedResponseReadable
<1>1. IInv => ReturnedResponseReadable
  BY DEF IInv, ReturnedResponseReadable, ResultInv
<1> QED
  BY Invariance, <1>1, PTL

(* Without cancellation a transient answer is final only on the last       *)
(* attempt.                                                                *)
THEOREM AttemptsUsedUp == Spec => []NoEarlySurrender
<1>1. IInv => NoEarlySurrender
  BY DEF IInv, NoEarlySurrender, EndInv
<1> QED
  BY Invariance, <1>1, PTL

-----------------------------------------------------------------------------
(* The initial states of the loop are initial states of the abstract call. *)
LEMMA RefinementInit == Init => Call!Init
<1> SUFFICES ASSUME Init PROVE Call!Init
  OBVIOUS
<1>1. AllowedAttempts(policy, method) \in Nat \ {0}
  BY AllowedAttemptsPositive, PoliciesAssumption DEF Init
<1>2. Len(answers) = 0 /\ ClassOfLast = "none" /\ OutcomeOfCall = "pending"
  BY DEF Init, ClassOfLast, OutcomeOfCall
<1> QED
  BY <1>1, <1>2 DEF Call!Init

(* Every step of the loop is a step of the abstract call or changes        *)
(* nothing the abstract call shows.                                        *)
LEMMA RefinementStep == IInv /\ IInv' /\ [Next]_vars => [Call!Next]_Call!vars
<1> SUFFICES ASSUME IInv, IInv', [Next]_vars PROVE [Call!Next]_Call!vars
  OBVIOUS
<1>0. AllowedAttempts(policy, method)' = AllowedAttempts(policy, method)
  BY DEF Next, ClientStep, ReceiveAnswer, Reject, Start, BufferFails, Send,
         AnswerRetried, AnswerReturned, Backoff, TimerFires, WaitCancelled,
         Publish, Cancel, vars, request, AllowedAttempts, IsMethodRetryable,
         GetMaxAttempts, GetRetryableMethods
<1>1. ASSUME policy' = policy, answers' = answers, pc # "done", pc' # "done"
      PROVE  UNCHANGED Call!vars
  <2>1. ClassOfLast' = ClassOfLast
    BY <1>1 DEF ClassOfLast, Transient, IsStatusRetryable, GetStatusCodes
  <2>2. OutcomeOfCall' = OutcomeOfCall
    BY <1>1 DEF OutcomeOfCall
  <2> QED
    BY <1>0, <1>1, <2>1, <2>2 DEF Call!vars
<1>2. ASSUME policy' = policy, answers' = answers, pc # "done", pc' = "done",
             ~HandsBackLastAnswer'
      PROVE  Call!GiveUp
  <2>1. ClassOfLast' = ClassOfLast
    BY <1>2 DEF ClassOfLast, Transient, IsStatusRetryable, GetStatusCodes
  <2>2. OutcomeOfCall = "pending" /\ OutcomeOfCall' = "error"
    BY <1>2 DEF OutcomeOfCall
  <2> QED
    BY <1>0, <1>2, <2>1, <2>2 DEF Call!GiveUp
<1>3. CASE Reject \/ BufferFails
  <2>1. ~HandsBackLastAnswer'
    BY <1>3 DEF Reject, BufferFails, IInv, Progress, HandsBackLastAnswer
  <2> QED
    BY <1>2, <1>3, <2>1 DEF Reject, BufferFails, request, Call!Next
<1>4. CASE Start \/ Send \/ Backoff \/ TimerFires
  BY <1>1, <1>4 DEF Start, Send, Backoff, TimerFires, request
<1>5. CASE WaitCancelled
  <2>1. ~HandsBackLastAnswer'
    BY <1>5 DEF WaitCancelled, IInv, Progress, HandsBackLastAnswer, TypeOK
  <2> QED
    BY <1>2, <1>5, <2>1 DEF WaitCancelled, request, Call!Next
<1>6. ASSUME NEW a \in Answers, AnswerRetried(a) \/ AnswerReturned(a)
      PROVE  Call!Attempt
  <2>1. /\ pc = "inFlight" /\ pc' # "done" /\ policy' = policy
        /\ answers' = Append(answers, a)
    BY <1>6 DEF AnswerRetried, AnswerReturned, request
  <2>2. Len(answers') = Len(answers) + 1 /\ answers' # <<>>
    BY <2>1, AppendFacts DEF IInv, TypeOK, Answers
  <2>3. Len(answers) < AllowedAttempts(policy, method)
    BY <2>1 DEF IInv, Progress, TypeOK
  <2>4. ClassOfLast # "final"
    BY <2>1 DEF IInv, TypeOK, AnswersTransient, ClassOfLast
  <2>5. ClassOfLast' \in {"transient", "final"}
    BY <2>2 DEF ClassOfLast
  <2>6. OutcomeOfCall = "pending" /\ OutcomeOfCall' = "pending"
    BY <2>1 DEF OutcomeOfCall
  <2> QED
    BY <1>0, <2>2, <2>3, <2>4, <2>5, <2>6 DEF Call!Attempt
<1>7. CASE Publish
  <2>1. pc = "publish" /\ pc' = "done" /\ policy' = policy /\ answers' = answers
    BY <1>7 DEF Publish, request
  <2>2. CASE ~HandsBackLastAnswer'
    BY <1>2, <2>1, <2>2 DEF Call!Next
  <2>3. CASE HandsBackLastAnswer'
    <3>1. ClassOfLast' = ClassOfLast
      BY <2>1 DEF ClassOfLast, Transient, IsStatusRetryable, GetStatusCodes
    <3>2. OutcomeOfCall = "pending" /\ OutcomeOfCall' = "answer"
      BY <2>1, <2>3 DEF OutcomeOfCall
    <3>3. \/ ClassOfLast = "final"
          \/ ClassOfLast = "transient" /\ Len(answers) = AllowedAttempts(policy, method)
      BY <2>1 DEF IInv, Progress, ResultInv, ClassOfLast, TypeOK
    <3> QED
      BY <1>0, <2>1, <3>1, <3>2, <3>3 DEF Call!HandBack, Call!Next
  <2> QED
    BY <2>2, <2>3
<1>8. CASE Cancel
  BY <1>1, <1>8 DEF Cancel, request
<1>9. CASE UNCHANGED vars
  BY <1>9 DEF vars, Call!vars, ClassOfLast, OutcomeOfCall, HandsBackLastAnswer,
     Transient, IsStatusRetryable, GetStatusCodes, AllowedAttempts,
     IsMethodRetryable, GetMaxAttempts, GetRetryableMethods
<1> QED
  BY <1>3, <1>4, <1>5, <1>6, <1>7, <1>8, <1>9
  DEF Next, ClientStep, ReceiveAnswer, Call!Next

(* doWithRetry, with buffering, backoff and cancellation, implements the   *)
(* abstract call: the detailed specification refines RemoteCall.           *)
THEOREM Refinement == Spec => ImplementsRemoteCall
<1>1. Spec => Call!Spec
  BY Invariance, RefinementInit, RefinementStep, PTL DEF Spec, Call!Spec
<1> QED
  BY <1>1 DEF ImplementsRemoteCall


-----------------------------------------------------------------------------
(* The delays.  Induction over the naturals, for a set in place of a       *)
(* predicate: a nonempty set of naturals has a least element.              *)
LEMMA SetInduction ==
  ASSUME NEW P, 0 \in P, \A n \in Nat : n \in P => n + 1 \in P
  PROVE  Nat \subseteq P
<1> DEFINE R == OpToRel(<, Nat)
           S == Nat \ P
<1> SUFFICES ASSUME S # {} PROVE FALSE
  OBVIOUS
<1>1. IsWellFoundedOn(R, Nat)
  BY NatLessThanWellFounded
<1>2. PICK x \in S : \A y \in S : <<y, x>> \notin R
  <2> HIDE DEF R
  <2> QED BY <1>1, WFMin
<1>3. \A y \in S : ~(y < x)
  BY <1>2 DEF OpToRel
<1> HIDE DEF R
<1>4. x - 1 \in Nat /\ x = (x - 1) + 1 /\ x - 1 < x
  <2>1. x \in Nat /\ x # 0
    OBVIOUS
  <2> QED BY <2>1
<1>5. x - 1 \notin P
  BY <1>4
<1> QED BY <1>3, <1>4, <1>5

(* f holds the powers of b up to the n-th.                                 *)
Powers(f, b, n) ==
  /\ f = [k \in 0 .. n |-> f[k]]
  /\ f[0] = 1
  /\ \A k \in 1 .. n : f[k] = b * f[k - 1]

LEMMA PowersExist ==
  ASSUME NEW b \in Nat, NEW n \in Nat
  PROVE  \E f \in [0 .. n -> Nat] : Powers(f, b, n)
<1> DEFINE P == {m \in Nat : \E f \in [0 .. m -> Nat] : Powers(f, b, m)}
<1>1. 0 \in P
  <2> DEFINE f == [k \in 0 .. 0 |-> 1]
  <2>1. f \in [0 .. 0 -> Nat] /\ Powers(f, b, 0)
    BY DEF Powers
  <2> QED BY <2>1
<1>2. ASSUME NEW m \in Nat, m \in P PROVE m + 1 \in P
  <2>1. PICK f \in [0 .. m -> Nat] : Powers(f, b, m)
    BY <1>2
  <2> DEFINE g == [k \in 0 .. (m + 1) |-> IF k = m + 1 THEN b * f[m] ELSE f[k]]
  <2>2. f[m] \in Nat /\ b * f[m] \in Nat
    BY <2>1
  <2>3. g \in [0 .. (m + 1) -> Nat]
    <3>1. \A k \in 0 .. (m + 1) : k # m + 1 => k \in 0 .. m
      OBVIOUS
    <3> QED BY <2>2, <3>1
  <2>4. g[0] = 1
    BY <2>1 DEF Powers
  <2>5. ASSUME NEW k \in 1 .. (m + 1) PROVE g[k] = b * g[k - 1]
    <3>1. k - 1 \in 0 .. m /\ g[k - 1] = f[k - 1]
      OBVIOUS
    <3>2. CASE k = m + 1
      BY <3>1, <3>2
    <3>3. CASE k # m + 1
      <4>1. k \in 1 .. m /\ g[k] = f[k]
        BY <3>3
      <4> QED BY <2>1, <3>1, <4>1 DEF Powers
    <3> QED BY <3>2, <3>3
  <2> HIDE DEF g
  <2>6. Powers(g, b, m + 1)
    BY <2>3, <2>4, <2>5 DEF Powers
  <2> QED BY <2>3, <2>6
<1>3. Nat \subseteq P
  <2> HIDE DEF P
  <2> QED BY <1>1, <1>2, SetInduction
<1> QED BY <1>3

(* Two such functions agree as far as both go.                             *)
LEMMA PowersAgree ==
  ASSUME NEW b \in Nat, NEW n \in Nat, NEW f, NEW g, Powers(f, b, n), Powers(g, b, n + 1)
  PROVE  f[n] = g[n]
<1> DEFINE P == {m \in Nat : m <= n => f[m] = g[m]}
<1>1. 0 \in P
  BY DEF Powers
<1>2. ASSUME NEW m \in Nat, m \in P PROVE m + 1 \in P
  <2> SUFFICES ASSUME m + 1 <= n PROVE f[m + 1] = g[m + 1]
    OBVIOUS
  <2>1. m + 1 \in 1 .. n /\ m + 1 \in 1 .. (n + 1) /\ (m + 1) - 1 = m /\ f[m] = g[m]
    BY <1>2
  <2> QED BY <2>1 DEF Powers
<1>3. Nat \subseteq P
  <2> HIDE DEF P
  <2> QED BY <1>1, <1>2, SetInduction
<1> QED BY <1>3

LEMMA PowerIs ==
  ASSUME NEW b \in Nat, NEW n \in Nat
  PROVE  \E f : Powers(f, b, n) /\ Power(b, n) = f[n]
<1> DEFINE Rec(f) == f = [k \in 0 .. n |-> IF k = 0 THEN 1 ELSE b * f[k - 1]]
           p == CHOOSE f : Rec(f)
<1>1. PICK f \in [0 .. n -> Nat] : Powers(f, b, n)
  BY PowersExist
<1>2. Rec(f)
  <2>1. ASSUME NEW k \in 0 .. n PROVE f[k] = IF k = 0 THEN 1 ELSE b * f[k - 1]
    <3>1. k # 0 => k \in 1 .. n
      OBVIOUS
    <3> QED BY <1>1, <3>1 DEF Powers
  <2> QED BY <2>1
<1>3. Rec(p)
  <2> HIDE DEF Rec
  <2> QED BY <1>2
<1>4. Power(b, n) = p[n]
  BY DEF Power
<1> HIDE DEF p
<1>5. Powers(p, b, n)
  <2>1. p = [k \in 0 .. n |-> p[k]]
    BY <1>3
  <2>2. p[0] = 1 /\ \A k \in 1 .. n : p[k] = b * p[k - 1]
    BY <1>3
  <2> QED BY <2>1, <2>2 DEF Powers
<1> QED BY <1>4, <1>5

(* The powers of a positive number: what math.Pow returns.                 *)
LEMMA PowerFacts ==
  ASSUME NEW b \in Nat \ {0}, NEW n \in Nat
  PROVE  /\ Power(b, n) \in Nat \ {0}
         /\ Power(b, 0) = 1
         /\ Power(b, n + 1) = b * Power(b, n)
<1>1. Power(b, 0) = 1
  <2>1. PICK f : Powers(f, b, 0) /\ Power(b, 0) = f[0]
    BY PowerIs
  <2> QED BY <2>1 DEF Powers
<1>2. ASSUME NEW m \in Nat PROVE Power(b, m + 1) = b * Power(b, m)
  <2>1. PICK f : Powers(f, b, m) /\ Power(b, m) = f[m]
    BY PowerIs
  <2>2. PICK g : Powers(g, b, m + 1) /\ Power(b, m + 1) = g[m + 1]
    BY PowerIs
  <2>3. f[m] = g[m]
    BY <2>1, <2>2, PowersAgree
  <2>4. m + 1 \in 1 .. (m + 1) /\ (m + 1) - 1 = m
    OBVIOUS
  <2> QED BY <2>1, <2>2, <2>3, <2>4 DEF Powers
<1>3. Power(b, n) \in Nat \ {0}
  <2> DEFINE P == {m \in Nat : Power(b, m) \in Nat \ {0}}
  <2>1. 0 \in P
    BY <1>1
  <2>2. ASSUME NEW m \in Nat, m \in P PROVE m + 1 \in P
    BY <1>2, <2>2
  <2>3. Nat \subseteq P
    <3> HIDE DEF P
    <3> QED BY <2>1, <2>2, SetInduction
  <2> QED BY <2>3
<1> QED BY <1>1, <1>2, <1>3


(* Division rounds down.                                                   *)
LEMMA Quotient ==
  ASSUME NEW a \in Nat, NEW u \in Nat \ {0}
  PROVE  /\ a \div u \in Nat
         /\ u * (a \div u) <= a
         /\ \A q \in Nat : u * q <= a => q <= a \div u
<1>1. a \div u \in Nat /\ u * (a \div u) <= a /\ a < u * ((a \div u) + 1)
  OBVIOUS
<1>2. ASSUME NEW q \in Nat, u * q <= a, q > a \div u PROVE FALSE
  <2>1. q >= (a \div u) + 1
    BY <1>1, <1>2
  <2>2. u * q >= u * ((a \div u) + 1)
    BY <1>1, <2>1
  <2> QED BY <1>1, <1>2, <2>2
<1> QED BY <1>1, <1>2


(* Whatever a document declares, the getters make sense of it.             *)
LEMMA PolicyFacts ==
  ASSUME NEW p \in RawPolicy
  PROVE  /\ GetInitialDelay(p) \in Nat \ {0} /\ GetMaxDelay(p) \in Nat \ {0}
         /\ GetMultiplier(p) \in Nat /\ GetMultiplier(p) > 10
         /\ GetJitterFraction(p) \in 0 .. 10
<1>1. p.initialDelay \in Int /\ p.maxDelay \in Int /\ p.multiplier \in Int /\ p.jitter \in Int
  BY DEF RawPolicy
<1> QED
  BY <1>1 DEF GetInitialDelay, GetMaxDelay, GetMultiplier, GetJitterFraction, Tenths

(* Growth by a factor of more than one grows, and is cut off for good.     *)
LEMMA Grows ==
  ASSUME NEW g \in Nat, NEW u \in Nat \ {0}, NEW m \in Nat, m > 10, NEW c \in Nat
  PROVE  /\ m * g <= c * (10 * u) => g <= c * u
         /\ g \div u <= (m * g) \div (10 * u)
<1>1. m * g \in Nat /\ 10 * u \in Nat \ {0} /\ 10 * g <= m * g
  <2>1. m * g = 10 * g + (m - 10) * g /\ (m - 10) * g >= 0
    OBVIOUS
  <2> QED BY <2>1
<1>2. m * g <= c * (10 * u) => g <= c * u
  <2>1. c * (10 * u) = 10 * (c * u) /\ c * u \in Nat
    OBVIOUS
  <2> QED BY <1>1, <2>1
<1>3. PICK q \in Nat : q = g \div u /\ u * q <= g
  BY Quotient
<1>4. (10 * u) * q <= m * g
  <2>1. (10 * u) * q = 10 * (u * q) /\ u * q \in Nat
    OBVIOUS
  <2> QED BY <1>1, <1>3, <2>1
<1>5. q <= (m * g) \div (10 * u)
  BY <1>1, <1>4, Quotient
<1> QED BY <1>2, <1>3, <1>5

LEMMA BaseDelayFacts ==
  ASSUME NEW p \in RawPolicy, NEW n \in Nat \ {0}
  PROVE  /\ BaseDelay(p, n) \in 0 .. GetMaxDelay(p)
         /\ BaseDelay(p, n) <= BaseDelay(p, n + 1)
         /\ GetInitialDelay(p) <= GetMaxDelay(p) => BaseDelay(p, 1) = GetInitialDelay(p)
<1> DEFINE c == GetMaxDelay(p)
           i == GetInitialDelay(p)
           m == GetMultiplier(p)
           grown(k) == i * Power(m, k - 1)
           unit(k) == Power(10, k - 1)
           cut(k) == IF grown(k) > c * unit(k) THEN c ELSE grown(k) \div unit(k)
           capped(d) == IF d > c THEN c ELSE d
           base(k) == IF GetAlgorithm(p) = "exponential" THEN capped(cut(k)) ELSE capped(i)
<1>1. i \in Nat \ {0} /\ c \in Nat \ {0} /\ m \in Nat /\ m > 10
  BY PolicyFacts
<1>2. \A k \in Nat \ {0} : BaseDelay(p, k) = base(k)
  BY DEF BaseDelay, Tenths
<1> HIDE DEF i, c, m
<1>3. ASSUME NEW k \in Nat \ {0} PROVE grown(k) \in Nat /\ unit(k) \in Nat \ {0} /\ cut(k) \in Nat
  <2>0. k - 1 \in Nat /\ m \in Nat \ {0} /\ 10 \in Nat \ {0}
    BY <1>1
  <2>1. Power(m, k - 1) \in Nat \ {0} /\ unit(k) \in Nat \ {0}
    BY <2>0, PowerFacts
  <2>2. grown(k) \in Nat
    BY <1>1, <2>1
  <2> HIDE DEF grown, unit
  <2>3. grown(k) \div unit(k) \in Nat
    BY <2>1, <2>2, Quotient
  <2> QED BY <1>1, <2>1, <2>2, <2>3
<1>4. grown(n + 1) = m * grown(n) /\ unit(n + 1) = 10 * unit(n)
  <2>1. n - 1 \in Nat /\ (n - 1) + 1 = (n + 1) - 1
    OBVIOUS
  <2>2. Power(m, (n + 1) - 1) = m * Power(m, n - 1) /\ Power(m, n - 1) \in Nat /\ unit(n + 1) = 10 * unit(n)
    BY <1>1, <2>1, PowerFacts
  <2>3. i * (m * Power(m, n - 1)) = m * (i * Power(m, n - 1))
    BY <1>1, <2>2
  <2> QED BY <2>2, <2>3
<1>5. grown(1) = i /\ unit(1) = 1
  <2>1. Power(m, 0) = 1 /\ Power(10, 0) = 1
    BY <1>1, PowerFacts
  <2> QED BY <1>1, <2>1
<1> HIDE DEF grown, unit
<1>6. capped(cut(n)) <= capped(cut(n + 1))
  <2>1. /\ m * grown(n) <= c * (10 * unit(n)) => grown(n) <= c * unit(n)
        /\ grown(n) \div unit(n) <= (m * grown(n)) \div (10 * unit(n))
    BY <1>1, <1>3, Grows
  <2>2. grown(n) \in Nat /\ unit(n) \in Nat \ {0} /\ cut(n) \in Nat /\ cut(n + 1) \in Nat
    BY <1>3
  <2>3. CASE grown(n + 1) > c * unit(n + 1)
    BY <1>1, <2>2, <2>3
  <2>4. CASE ~(grown(n + 1) > c * unit(n + 1))
    <3>1. m * grown(n) <= c * (10 * unit(n))
      <4>1. m * grown(n) \in Nat /\ c * (10 * unit(n)) \in Nat
        BY <1>1, <2>2
      <4> QED BY <1>4, <2>4, <4>1
    <3>2. ~(grown(n) > c * unit(n))
      <4>1. c * unit(n) \in Nat
        BY <1>1, <2>2
      <4> QED BY <2>1, <2>2, <3>1, <4>1
    <3>3. cut(n) = grown(n) \div unit(n) /\ cut(n + 1) = (m * grown(n)) \div (10 * unit(n))
      BY <1>4, <2>4, <3>2
    <3>4. cut(n) <= cut(n + 1)
      BY <2>1, <3>3
    <3> HIDE DEF cut
    <3> QED BY <1>1, <2>2, <3>4
  <2> QED BY <2>3, <2>4
<1>7. i <= c => capped(cut(1)) = i
  BY <1>1, <1>5
<1>8. \A k \in Nat \ {0} : capped(cut(k)) \in 0 .. c
  <2> HIDE DEF cut
  <2> QED BY <1>1, <1>3
<1> HIDE DEF cut
<1>9. base(n) \in 0 .. c /\ base(n) <= base(n + 1) /\ (i <= c => base(1) = i)
  BY <1>1, <1>6, <1>7, <1>8
<1> HIDE DEF base
<1> QED BY <1>2, <1>9 DEF i, c

(* The delays of every call follow the formula, under every policy a       *)
(* document can declare and for every number of attempts: no delay is past *)
(* the ceiling, and without jitter they never shrink from one attempt to   *)
(* the next and start at the initial delay (BackoffFor).                   *)
THEOREM DelaysOnSchedule == Spec => []BackoffSchedule
<1>1. TypeOK => BackoffSchedule
  <2> SUFFICES ASSUME TypeOK, NEW n \in 1 .. attempt
               PROVE  /\ \A d \in BackoffFor(policy, n) : d <= GetMaxDelay(policy)
                      /\ GetJitterFraction(policy) = 0 =>
                           /\ \A d \in BackoffFor(policy, n), e \in BackoffFor(policy, n + 1) : d <= e
                           /\ (n = 1 /\ GetInitialDelay(policy) <= GetMaxDelay(policy)) =>
                                BackoffFor(policy, n) = {GetInitialDelay(policy)}
    BY DEF BackoffSchedule
  <2>1. policy \in RawPolicy /\ n \in Nat \ {0}
    BY DEF TypeOK
  <2>2. /\ BaseDelay(policy, n) \in 0 .. GetMaxDelay(policy)
        /\ BaseDelay(policy, n) <= BaseDelay(policy, n + 1)
        /\ GetInitialDelay(policy) <= GetMaxDelay(policy) => BaseDelay(policy, 1) = GetInitialDelay(policy)
    BY <2>1, BaseDelayFacts
  <2>3. GetMaxDelay(policy) \in Nat \ {0} /\ GetJitterFraction(policy) \in 0 .. 10
    BY <2>1, PolicyFacts
  <2>4. CASE GetJitterFraction(policy) = 0
    <3>1. BackoffFor(policy, n) = {BaseDelay(policy, n)} /\ BackoffFor(policy, n + 1) = {BaseDelay(policy, n + 1)}
      BY <2>4 DEF BackoffFor
    <3> QED BY <2>2, <2>3, <3>1
  <2>5. CASE GetJitterFraction(policy) # 0
    <3> DEFINE d == BaseDelay(policy, n)
               jf == GetJitterFraction(policy)
               low == (d * (Tenths - jf) + Tenths - 1) \div Tenths
               high == (d * (Tenths + jf)) \div Tenths
    <3>1. \A y \in BackoffFor(policy, n) : \E x \in low .. high :
             y = CASE x < 0 -> 0
                   [] x > GetMaxDelay(policy) -> GetMaxDelay(policy)
                   [] OTHER -> x
      BY <2>3, <2>5 DEF BackoffFor
    <3>2. \A x \in low .. high : x \in Int
      OBVIOUS
    <3> HIDE DEF low, high
    <3> QED BY <2>3, <2>5, <3>1, <3>2
  <2> QED BY <2>4, <2>5
<1> QED BY <1>1, TypeCorrect, PTL

-----------------------------------------------------------------------------
(***************************************************************************)
(* The credentials.  The client of a call is made from an auth context of  *)
(* the session (Auth of client.go); Authentication has the calls of a      *)
(* session, whatever their configuration, environment and requests.        *)
(***************************************************************************)

(* A way of listing the successors of some contexts.                       *)
Listing(g, T) ==
  /\ T \subseteq DOMAIN Config
  /\ \A c \in T : Config[c].next \in T \cup {None}
  /\ g \in [T -> Seq(DOMAIN Config)]
  /\ \A c \in T : g[c] = IF Config[c].next = None THEN <<>> ELSE <<Config[c].next>> \o g[Config[c].next]

(* Two of them agree: otherwise they would differ for a context whose      *)
(* successor they agree on.                                                *)
LEMMA ListingsAgree ==
  ASSUME WellFormed, NEW g, NEW T, Listing(g, T), NEW h, NEW U, Listing(h, U), NEW c \in T \cap U
  PROVE  g[c] = h[c]
<1> DEFINE S == {d \in T \cap U : g[d] # h[d]}
<1> SUFFICES ASSUME S # {} PROVE FALSE
  OBVIOUS
<1>1. S \in SUBSET (DOMAIN Config)
  BY DEF Listing
<1>2. PICK d \in S : Config[d].next \notin S
  <2> HIDE DEF S
  <2> QED BY <1>1 DEF WellFormed
<1>3. Config[d].next # None => g[Config[d].next] = h[Config[d].next]
  BY <1>2 DEF Listing
<1> QED BY <1>3 DEF Listing

(* Every context is listed somewhere.                                      *)
LEMMA ListingsReach ==
  ASSUME WellFormed, NEW c \in DOMAIN Config
  PROVE  \E T \in SUBSET (DOMAIN Config) : c \in T /\ \E g \in [T -> Seq(DOMAIN Config)] : Listing(g, T)
<1> DEFINE D == DOMAIN Config
           Reached(d) == \E T \in SUBSET D : d \in T /\ \E g \in [T -> Seq(D)] : Listing(g, T)
           S == {d \in D : ~Reached(d)}
<1> SUFFICES ASSUME S # {} PROVE FALSE
  OBVIOUS
<1>1. PICK d \in S : Config[d].next \notin S
  <2>1. S \in SUBSET D
    OBVIOUS
  <2> HIDE DEF S
  <2> QED BY <2>1 DEF WellFormed
<1>2. d \in D /\ ~Reached(d) /\ Config[d].next \in D \cup {None}
  BY DEF WellFormed
<1>3. CASE Config[d].next = None
  <2> DEFINE T == {d}
             g == [e \in T |-> <<>>]
  <2>1. g \in [T -> Seq(D)] /\ T \in SUBSET D /\ d \in T
    BY <1>2
  <2>2. Listing(g, T)
    BY <1>2, <1>3, <2>1 DEF Listing
  <2> QED BY <1>2, <2>1, <2>2
<1>4. CASE Config[d].next # None
  <2>1. Config[d].next \in D /\ Reached(Config[d].next)
    BY <1>1, <1>2, <1>4
  <2>2. PICK T \in SUBSET D : Config[d].next \in T /\ \E g \in [T -> Seq(D)] : Listing(g, T)
    BY <2>1
  <2>3. PICK g \in [T -> Seq(D)] : Listing(g, T)
    BY <2>2
  <2>4. d \notin T
    BY <1>2, <2>3
  <2> DEFINE U == T \cup {d}
             own == <<Config[d].next>> \o g[Config[d].next]
             h == [e \in U |-> IF e = d THEN own ELSE g[e]]
  <2>5. own \in Seq(D)
    <3>1. g[Config[d].next] \in Seq(D) /\ <<Config[d].next>> \in Seq(D)
      BY <2>1, <2>2, <2>3
    <3> QED BY <3>1
  <2>6. h \in [U -> Seq(D)] /\ U \in SUBSET D /\ d \in U
    <3> HIDE DEF own
    <3> QED BY <1>2, <2>5
  <2>7. \A e \in U : h[e] = IF Config[e].next = None THEN <<>> ELSE <<Config[e].next>> \o h[Config[e].next]
    <3>1. ASSUME NEW e \in T PROVE h[e] = g[e] /\ (Config[e].next # None => h[Config[e].next] = g[Config[e].next])
      BY <2>3, <2>4 DEF Listing
    <3>2. ASSUME NEW e \in T PROVE h[e] = IF Config[e].next = None THEN <<>> ELSE <<Config[e].next>> \o h[Config[e].next]
      BY <2>3, <3>1 DEF Listing
    <3>3. h[d] = own /\ h[Config[d].next] = g[Config[d].next]
      BY <2>2, <2>4
    <3>4. h[d] = <<Config[d].next>> \o h[Config[d].next]
      BY <3>3
    <3> HIDE DEF h
    <3> QED BY <1>4, <3>2, <3>4
  <2>8. Listing(h, U)
    <3> HIDE DEF h
    <3> QED BY <2>2, <2>3, <2>6, <2>7 DEF Listing
  <2> HIDE DEF h, U
  <2> QED BY <1>2, <2>6, <2>8
<1> QED BY <1>3, <1>4

(* The successors of a context are a list, the next one first.             *)
LEMMA SuccessorsListed ==
  ASSUME WellFormed
  PROVE  /\ GetSuccessors \in [DOMAIN Config -> Seq(DOMAIN Config)]
         /\ \A c \in DOMAIN Config :
               GetSuccessors[c] = IF Config[c].next = None THEN <<>>
                                  ELSE <<Config[c].next>> \o GetSuccessors[Config[c].next]
<1> DEFINE D == DOMAIN Config
           Listed(c, v) == \E T \in SUBSET D : c \in T /\ \E g \in [T -> Seq(D)] : Listing(g, T) /\ v = g[c]
           pick(c) == CHOOSE v \in Seq(D) : Listed(c, v)
           f == [c \in D |-> pick(c)]
           Rec(g) == g = [c \in D |-> IF Config[c].next = None THEN <<>>
                                      ELSE <<Config[c].next>> \o g[Config[c].next]]
<1>1. ASSUME NEW c \in D, NEW T \in SUBSET D, c \in T, NEW g \in [T -> Seq(D)], Listing(g, T)
      PROVE  f[c] = g[c]
  <2>1. g[c] \in Seq(D) /\ Listed(c, g[c])
    BY <1>1
  <2>2. f[c] \in Seq(D) /\ Listed(c, f[c])
    <3> HIDE DEF Listed
    <3> QED BY <2>1
  <2> QED BY <1>1, <2>2, ListingsAgree
<1> HIDE DEF f
<1>2. ASSUME NEW c \in D
      PROVE  f[c] = IF Config[c].next = None THEN <<>> ELSE <<Config[c].next>> \o f[Config[c].next]
  <2>1. PICK T \in SUBSET D : c \in T /\ \E g \in [T -> Seq(D)] : Listing(g, T)
    BY ListingsReach
  <2>2. PICK g \in [T -> Seq(D)] : Listing(g, T)
    BY <2>1
  <2>3. f[c] = g[c] /\ (Config[c].next # None => f[Config[c].next] = g[Config[c].next])
    BY <1>1, <2>1, <2>2 DEF Listing
  <2> QED BY <2>1, <2>2, <2>3 DEF Listing
<1>3. Rec(f)
  <2>1. f = [c \in D |-> f[c]]
    <3> HIDE DEF pick
    <3> QED BY DEF f
  <2> QED BY <1>2, <2>1
<1>4. Rec(GetSuccessors)
  <2>1. GetSuccessors = CHOOSE g : Rec(g)
    BY DEF GetSuccessors
  <2> HIDE DEF Rec
  <2> QED BY <1>3, <2>1
<1>5. ASSUME NEW c \in D
      PROVE  GetSuccessors[c] = IF Config[c].next = None THEN <<>>
                                ELSE <<Config[c].next>> \o GetSuccessors[Config[c].next]
  BY <1>4
<1>6. \A c \in D : GetSuccessors[c] \in Seq(D)
  <2> DEFINE S == {c \in D : GetSuccessors[c] \notin Seq(D)}
  <2> SUFFICES ASSUME S # {} PROVE FALSE
    OBVIOUS
  <2>1. PICK c \in S : Config[c].next \notin S
    <3>1. S \in SUBSET D
      OBVIOUS
    <3> HIDE DEF S
    <3> QED BY <3>1 DEF WellFormed
  <2>2. Config[c].next \in D \cup {None}
    BY DEF WellFormed
  <2>3. Config[c].next # None => <<Config[c].next>> \in Seq(D) /\ GetSuccessors[Config[c].next] \in Seq(D)
    BY <2>1, <2>2
  <2>4. Config[c].next # None => <<Config[c].next>> \o GetSuccessors[Config[c].next] \in Seq(D)
    BY <2>3
  <2>5. Config[c].next = None => GetSuccessors[c] = <<>>
    BY <1>5
  <2>6. Config[c].next # None => GetSuccessors[c] = <<Config[c].next>> \o GetSuccessors[Config[c].next]
    BY <1>5
  <2>7. GetSuccessors[c] \in Seq(D)
    <3>1. <<>> \in Seq(D)
      OBVIOUS
    <3> QED BY <2>4, <2>5, <2>6, <3>1
  <2> QED BY <2>7
<1> QED BY <1>4, <1>5, <1>6

(* The layers up to the n-th that write at a place, and where they do.     *)
Writers(layers, n, p) == {j \in 1 .. n : layers[j].place = p /\ p[1] \in {"header", "query"}}
Places(layers, n) == {layers[j].place : j \in {k \in 1 .. n : layers[k].place[1] \in {"header", "query"}}}
Latest(J) == CHOOSE j \in J : \A k \in J : k <= j
Written(layers, req, n) ==
  [p \in DOMAIN req \cup Places(layers, n) |->
     IF p \in Places(layers, n) THEN Value(layers[Latest(Writers(layers, n, p))]) ELSE req[p]]
IsFunction(r) == r = [p \in DOMAIN r |-> r[p]]

LEMMA LatestIs ==
  ASSUME NEW J, J \subseteq Nat, NEW j \in J, \A k \in J : k <= j
  PROVE  Latest(J) = j
<1>1. ASSUME NEW i \in J, \A k \in J : k <= i PROVE i = j
  <2>1. i <= j /\ j <= i /\ i \in Nat /\ j \in Nat
    BY <1>1
  <2> QED BY <2>1
<1> QED BY <1>1 DEF Latest

LEMMA LatestExists ==
  ASSUME NEW n \in Nat, NEW J, J \subseteq 1 .. n, J # {}
  PROVE  Latest(J) \in J /\ \A k \in J : k <= Latest(J)
<1> DEFINE P == {m \in Nat : (\E i \in J : i >= n - m) => \E j \in J : \A k \in J : k <= j}
<1>1. 0 \in P
  OBVIOUS
<1>2. ASSUME NEW m \in Nat, m \in P PROVE m + 1 \in P
  <2> SUFFICES ASSUME NEW i \in J, i >= n - (m + 1), ~\E l \in J : l >= n - m
               PROVE  \E j \in J : \A k \in J : k <= j
    BY <1>2
  <2>1. ASSUME NEW k \in J PROVE k \in Nat /\ k < n - m
    <3>1. k \in 1 .. n /\ ~(k >= n - m)
      OBVIOUS
    <3> QED BY <3>1
  <2>2. i \in Nat /\ \A k \in J : k <= i
    BY <2>1
  <2> QED BY <2>2
<1>3. Nat \subseteq P
  <2> HIDE DEF P
  <2> QED BY <1>1, <1>2, SetInduction
<1>4. n \in P
  BY <1>3
<1>5. \E j \in J : \A k \in J : k <= j
  <2>1. PICK i \in J : i \in 1 .. n
    OBVIOUS
  <2>2. i >= n - n
    BY <2>1
  <2> QED BY <1>4, <2>2
<1> QED BY <1>5 DEF Latest

(* One more layer.                                                         *)
LEMMA LayerWrites ==
  ASSUME NEW layers, NEW req, NEW n \in Nat
  PROVE  Written(layers, req, n + 1) =
           IF layers[n + 1].place[1] \in {"header", "query"}
           THEN With(Written(layers, req, n), layers[n + 1].place, Value(layers[n + 1]))
           ELSE Written(layers, req, n)
<1> DEFINE q == layers[n + 1].place
           before == Written(layers, req, n)
           after == Written(layers, req, n + 1)
<1>1. 1 .. (n + 1) = (1 .. n) \cup {n + 1} /\ n + 1 \notin 1 .. n
  OBVIOUS
<1>2. CASE q[1] \in {"header", "query"}
  <2>1. Places(layers, n + 1) = Places(layers, n) \cup {q}
    BY <1>1, <1>2 DEF Places
  <2>2. Latest(Writers(layers, n + 1, q)) = n + 1
    <3>1. Writers(layers, n + 1, q) \subseteq Nat /\ n + 1 \in Writers(layers, n + 1, q)
      BY <1>2 DEF Writers
    <3>2. \A k \in Writers(layers, n + 1, q) : k <= n + 1
      BY DEF Writers
    <3> QED BY <3>1, <3>2, LatestIs
  <2>3. ASSUME NEW p, p # q PROVE Writers(layers, n + 1, p) = Writers(layers, n, p)
    BY <1>1, <2>3 DEF Writers
  <2>4. after[q] = Value(layers[n + 1])
    BY <2>1, <2>2 DEF Written
  <2>5. ASSUME NEW p \in DOMAIN req \cup Places(layers, n), p # q PROVE after[p] = before[p]
    BY <2>1, <2>3, <2>5 DEF Written
  <2>6. DOMAIN after = DOMAIN before \cup {q} /\ DOMAIN before = DOMAIN req \cup Places(layers, n)
    BY <2>1 DEF Written
  <2>7. after = [p \in DOMAIN after |-> after[p]]
    BY DEF Written
  <2> HIDE DEF after, before, q
  <2>8. after = With(before, q, Value(layers[n + 1]))
    BY <2>4, <2>5, <2>6, <2>7 DEF With
  <2> QED BY <1>2, <2>8 DEF after, before, q
<1>3. CASE q[1] \notin {"header", "query"}
  <2>1. Places(layers, n + 1) = Places(layers, n)
    BY <1>1, <1>3 DEF Places
  <2>2. ASSUME NEW p PROVE Writers(layers, n + 1, p) = Writers(layers, n, p)
    BY <1>1, <1>3 DEF Writers
  <2> QED BY <1>3, <2>1, <2>2 DEF Written
<1> QED BY <1>2, <1>3

(* What the transport makes of a request: at each place the token of the   *)
(* last layer that writes there (RoundTrip).                               *)
LEMMA AppliedIs ==
  ASSUME NEW layers, Len(layers) \in Nat, NEW req, IsFunction(req)
  PROVE  Applied(layers, req) = Written(layers, req, Len(layers))
<1> DEFINE n == Len(layers)
           step(g, i) == IF i = 0 THEN req
                         ELSE IF layers[i].place[1] \in {"header", "query"}
                              THEN With(g[i - 1], layers[i].place, Value(layers[i])) ELSE g[i - 1]
           Rec(g) == g = [i \in 0 .. n |-> step(g, i)]
           after == CHOOSE g : Rec(g)
           all == [i \in 0 .. n |-> Written(layers, req, i)]
<1>0. n \in Nat
  OBVIOUS
<1>1. Written(layers, req, 0) = req
  <2>1. Places(layers, 0) = {}
    BY DEF Places
  <2> QED BY <2>1 DEF Written, IsFunction
<1>2. Rec(all)
  <2>1. ASSUME NEW i \in 0 .. n PROVE all[i] = step(all, i)
    <3>1. CASE i = 0
      BY <1>0, <1>1, <3>1
    <3>2. CASE i # 0
      <4>1. i - 1 \in Nat /\ (i - 1) + 1 = i /\ i - 1 \in 0 .. n
        BY <1>0, <3>2
      <4>2. all[i] = Written(layers, req, i) /\ all[i - 1] = Written(layers, req, i - 1)
        BY <4>1
      <4> HIDE DEF all
      <4> QED BY <3>2, <4>1, <4>2, LayerWrites
    <3> QED BY <3>1, <3>2
  <2>2. all = [i \in 0 .. n |-> all[i]]
    OBVIOUS
  <2> HIDE DEF all, step
  <2> QED BY <2>1, <2>2
<1>3. Rec(after)
  <2> HIDE DEF Rec
  <2> QED BY <1>2
<1>4. Applied(layers, req) = after[n]
  BY DEF Applied
<1> HIDE DEF after
<1>5. ASSUME NEW i \in 0 .. n PROVE after[i] = step(after, i) /\ all[i] = step(all, i)
  <2> HIDE DEF step, all
  <2> QED BY <1>2, <1>3
<1> DEFINE P == {m \in Nat : m <= n => after[m] = all[m]}
<1>6. 0 \in P
  <2>1. 0 \in 0 .. n
    BY <1>0
  <2>2. after[0] = req /\ all[0] = req
    <3> HIDE DEF all
    <3> QED BY <1>5, <2>1
  <2> QED BY <2>2
<1>7. ASSUME NEW m \in Nat, m \in P PROVE m + 1 \in P
  <2> SUFFICES ASSUME m + 1 <= n PROVE after[m + 1] = all[m + 1]
    OBVIOUS
  <2>1. m + 1 \in 0 .. n /\ (m + 1) - 1 = m /\ m + 1 # 0 /\ after[m] = all[m]
    BY <1>0, <1>7
  <2> HIDE DEF all
  <2> QED BY <1>5, <2>1
<1>8. Nat \subseteq P
  <2> HIDE DEF P
  <2> QED BY <1>6, <1>7, SetInduction
<1>9. after[n] = all[n]
  <2> HIDE DEF all
  <2>1. n \in P
    BY <1>0, <1>8
  <2> QED BY <1>0, <2>1
<1>10. all[n] = Written(layers, req, n)
  BY <1>0
<1> HIDE DEF all
<1> QED BY <1>4, <1>9, <1>10

(* What a context's credentials are sent as, for the kinds with one token. *)
Credential(e, c, kind) ==
  LET token == GetCredentialsBytes(c).token
      Prefixed(type) == IF Config[c].prefix # "" THEN Config[c].prefix ELSE type
  IN  CASE kind = "api_key" -> <<Prefixed("api_key"), token>>
        [] kind = "bearer" -> <<"Bearer", token>>
        [] kind = "basic" -> <<Prefixed("BASIC"), token>>
        [] kind = "service_account" -> <<"Bearer", <<c, "jwt">>>>
        [] kind = "oauth2" -> <<"Bearer", <<c, "client">>>>
        [] kind = "azure_default" -> <<"Bearer", <<None, "azure">>>>
        [] kind = "interactive" -> <<Prefixed("Bearer"), <<None, "gcloud">>>>
        [] kind = "aws_signing_v4" -> <<"AWS4", IF e.session THEN <<None, "session">> ELSE token>>
        [] OTHER -> <<"AWS4", <<c, "role">>>>

(* Whether the credentials of a signature are temporary ones.              *)
Temporary(e, kind) == kind = "aws_assume_role" \/ e.session

(* Where a context writes, and what is written there.                      *)
Mine(e, c, kind) ==
  CASE kind = "null_auth" -> {}
    [] kind = "custom" -> {p \in {<<Config[d].location, Config[d].name>> : d \in Chain(c)} : p[1] \in {"header", "query"}}
    [] Signing(kind) -> {Authorization, Date} \cup (IF Temporary(e, kind) THEN {SecurityToken} ELSE {})
    [] OTHER -> {Authorization}
OwnValue(e, c, kind, p) ==
  CASE kind = "custom" -> <<"", GetCredentialsBytes(LastAt(c, p)).token>>
    [] kind # "custom" /\ p = Date -> <<"", <<None, "date">>>>
    [] kind # "custom" /\ p = SecurityToken -> <<"", Credential(e, c, kind)[2]>>
    [] OTHER -> Credential(e, c, kind)
Overlaid(e, c, kind, req) ==
  [p \in DOMAIN req \cup Mine(e, c, kind) |-> IF p \in Mine(e, c, kind) THEN OwnValue(e, c, kind, p) ELSE req[p]]

(* The three places of a signature, and those written after it.            *)
LEMMA PlacesApart ==
  /\ Date # SecurityToken /\ Date # Authorization /\ SecurityToken # Authorization
  /\ Date[1] = "header" /\ SecurityToken[1] = "header" /\ Authorization[1] = "header"
  /\ \A target : {Date, SecurityToken, Authorization} \cap DOMAIN Marked(target) = {}
  BY DEF Date, SecurityToken, Authorization, Marked

(* A client with one token has one layer, for the Authorization header.    *)
OneLayer(c, kind, layers) ==
  \E l : /\ layers = <<l>> /\ l.place = Authorization /\ Value(l) = Credential(env, c, kind)
         /\ Credential(env, c, kind)[2][1] \in {c, None}

LEMMA TokenFacts ==
  ASSUME NEW c
  PROVE  GetCredentialsBytes(c).token = <<>> \/ GetCredentialsBytes(c).token[1] = c
  BY DEF GetCredentialsBytes

LEMMA TransportMade ==
  ASSUME NEW active, NEW cfg, NEW type, type # "custom", Transported(active, cfg, type, "header", "").ok
  PROVE  Transported(active, cfg, type, "header", "").layers = <<cfg>> /\ cfg.token # <<>>
<1>1. ~NewTransportRefuses(type, "header", "", cfg.token)
  BY DEF Transported, Refused
<1> QED BY <1>1 DEF Transported, NewTransportRefuses, Made, Empty

LEMMA OneLayerMade ==
  ASSUME NEW c, NEW kind \in KnownTypes \ {"null_auth", "custom"}, ~Signing(kind), NEW revokeFirst, NEW login,
         Dispatched(c, kind, revokeFirst, login).ok
  PROVE  OneLayer(c, kind, Dispatched(c, kind, revokeFirst, login).layers)
<1> DEFINE client == Dispatched(c, kind, revokeFirst, login)
           token == GetCredentialsBytes(c).token
<1> USE DEF Refused, Made
<1>0. \A l : <<l>> = <<l>>
  OBVIOUS
<1>1. CASE kind = "api_key"
  <2>1. client = ApiTokenAuth(c, FALSE)
    BY <1>1 DEF Dispatched
  <2> DEFINE cfg == TokenCfg("api_key", Config[c].prefix, "header", "", token)
  <2>2. client.layers = <<cfg>> /\ token # <<>>
    <3>1. client = IF ~GetCredentialsBytes(c).ok THEN Refused(None)
                  ELSE Transported("api_key", cfg, "api_key", "header", "")
      BY <2>1 DEF ApiTokenAuth
    <3>2. cfg.token = token
      BY DEF TokenCfg
    <3> HIDE DEF cfg, token
    <3>3. client.ok /\ ~Refused(None).ok
      OBVIOUS
    <3>4. client = Transported("api_key", cfg, "api_key", "header", "")
      <4> HIDE DEF client
      <4> QED BY <3>1, <3>3
    <3> QED BY <3>2, <3>3, <3>4, TransportMade
  <2>3. cfg.place = Authorization /\ Value(cfg) = Credential(env, c, kind)
    BY <1>1 DEF TokenCfg, Value, Credential, Authorization
  <2>4. Credential(env, c, kind)[2][1] = c
    BY <1>1, <2>2, TokenFacts DEF Credential
  <2> QED BY <2>2, <2>3, <2>4 DEF OneLayer
<1>2. CASE kind = "bearer"
  <2>1. client = ApiTokenAuth(c, TRUE)
    BY <1>2 DEF Dispatched
  <2> DEFINE cfg == TokenCfg("api_key", "Bearer", "header", "", token)
  <2>2. client.layers = <<cfg>> /\ token # <<>>
    <3>1. client = IF ~GetCredentialsBytes(c).ok THEN Refused(None)
                  ELSE Transported("api_key", cfg, "api_key", "header", "")
      BY <2>1 DEF ApiTokenAuth
    <3>2. cfg.token = token
      BY DEF TokenCfg
    <3> HIDE DEF cfg, token
    <3>3. client.ok /\ ~Refused(None).ok
      OBVIOUS
    <3>4. client = Transported("api_key", cfg, "api_key", "header", "")
      <4> HIDE DEF client
      <4> QED BY <3>1, <3>3
    <3> QED BY <3>2, <3>3, <3>4, TransportMade
  <2>3. cfg.place = Authorization /\ Value(cfg) = Credential(env, c, kind)
    BY <1>2 DEF TokenCfg, Value, Credential, Authorization
  <2>4. Credential(env, c, kind)[2][1] = c
    BY <1>2, <2>2, TokenFacts DEF Credential
  <2> QED BY <2>2, <2>3, <2>4 DEF OneLayer
<1>3. CASE kind = "basic"
  <2>1. client = BasicAuth(c)
    BY <1>3 DEF Dispatched
  <2> DEFINE cfg == TokenCfg("BASIC", Config[c].prefix, "header", "", token)
  <2>2. client.layers = <<cfg>> /\ token # <<>>
    <3>1. client = IF ~GetCredentialsBytes(c).ok THEN Refused(None)
                  ELSE Transported("basic", cfg, "BASIC", "header", "")
      BY <2>1 DEF BasicAuth
    <3>2. cfg.token = token
      BY DEF TokenCfg
    <3> HIDE DEF cfg, token
    <3>3. client.ok /\ ~Refused(None).ok
      OBVIOUS
    <3>4. client = Transported("basic", cfg, "BASIC", "header", "")
      <4> HIDE DEF client
      <4> QED BY <3>1, <3>3
    <3> QED BY <3>2, <3>3, <3>4, TransportMade
  <2>3. cfg.place = Authorization /\ Value(cfg) = Credential(env, c, kind)
    BY <1>3 DEF TokenCfg, Value, Credential, Authorization
  <2>4. Credential(env, c, kind)[2][1] = c
    BY <1>3, <2>2, TokenFacts DEF Credential
  <2> QED BY <2>2, <2>3, <2>4 DEF OneLayer
<1>4. ASSUME NEW who \in {c, None}, NEW what, client.layers = <<Bearer(<<who, what>>)>>,
             Credential(env, c, kind) = <<"Bearer", <<who, what>>>>
      PROVE  OneLayer(c, kind, client.layers)
  <2> DEFINE l == Bearer(<<who, what>>)
  <2>1. l.place = Authorization /\ ~l.custom /\ l.scheme = "Bearer" /\ l.token = <<who, what>>
    BY DEF Bearer, TokenCfg, Authorization
  <2>2. Credential(env, c, kind)[2] = <<who, what>> /\ <<who, what>>[1] = who
    BY <1>4
  <2> HIDE DEF l
  <2>3. Value(l) = Credential(env, c, kind)
    BY <1>4, <2>1 DEF Value
  <2> QED BY <1>4, <2>1, <2>2, <2>3 DEF OneLayer, l
<1>5. CASE kind = "service_account"
  <2>1. client = GoogleOauthServiceAccount(c) /\ Credential(env, c, kind) = <<"Bearer", <<c, "jwt">>>>
    BY <1>5 DEF Dispatched, Credential
  <2>2. client.layers = <<Bearer(<<c, "jwt">>)>>
    BY <2>1 DEF GoogleOauthServiceAccount
  <2> QED BY <1>4, <2>1, <2>2
<1>6. CASE kind = "oauth2"
  <2>1. client = GenericOauthClientCredentials(c) /\ Credential(env, c, kind) = <<"Bearer", <<c, "client">>>>
    BY <1>6 DEF Dispatched, Credential
  <2>2. client.layers = <<Bearer(<<c, "client">>)>>
    BY <2>1 DEF GenericOauthClientCredentials
  <2> QED BY <1>4, <2>1, <2>2
<1>7. CASE kind = "azure_default"
  <2>1. client = AzureDefaultAuth /\ Credential(env, c, kind) = <<"Bearer", <<None, "azure">>>>
    BY <1>7 DEF Dispatched, Credential
  <2>2. client.layers = <<Bearer(<<None, "azure">>)>>
    BY <2>1 DEF AzureDefaultAuth
  <2> QED BY <1>4, <2>1, <2>2
<1>8. CASE kind = "interactive"
  <2> DEFINE l == TokenCfg("Bearer", Config[c].prefix, "header", "", <<None, "gcloud">>)
  <2>1. client = GCloudOAuth(c, revokeFirst, login)
    BY <1>8 DEF Dispatched
  <2>2. client.layers = <<l>>
    <3> DEFINE no == (revokeFirst /\ auth[c].type = "interactive" /\ gcloud) \/ (~gcloud /\ ~login)
    <3>1. client = IF no THEN Refused(None) ELSE Made("interactive", <<l>>)
      BY <2>1 DEF GCloudOAuth
    <3> HIDE DEF l, client, no
    <3>2. client.ok
      BY DEF client
    <3> QED BY <3>1, <3>2
  <2>3. l.place = Authorization /\ Value(l) = Credential(env, c, kind)
    BY <1>8 DEF TokenCfg, Value, Credential, Authorization
  <2>4. Credential(env, c, kind)[2][1] = None
    BY <1>8 DEF Credential
  <2> QED BY <2>2, <2>3, <2>4 DEF OneLayer
<1> QED BY <1>1, <1>2, <1>3, <1>5, <1>6, <1>7, <1>8 DEF KnownTypes, Signing

(* A client that signs writes what SignHTTP does.                          *)
SigningLayers(c, kind, layers) ==
  \E id : /\ layers = SignHTTP(id, Temporary(env, kind)) /\ Credential(env, c, kind) = <<"AWS4", id>>
          /\ Credential(env, c, kind)[2][1] \in {c, None}

LEMMA SigningLayersMade ==
  ASSUME NEW c, NEW kind, Signing(kind), NEW revokeFirst, NEW login,
         Dispatched(c, kind, revokeFirst, login).ok
  PROVE  SigningLayers(c, kind, Dispatched(c, kind, revokeFirst, login).layers)
<1> DEFINE client == Dispatched(c, kind, revokeFirst, login)
           token == GetCredentialsBytes(c).token
<1> USE DEF Refused, Made
<1>1. CASE kind = "aws_signing_v4"
  <2> DEFINE id == IF env.session THEN <<None, "session">> ELSE token
  <2>1. client = AwsSigningAuth(c) /\ Credential(env, c, kind) = <<"AWS4", id>>
    BY <1>1 DEF Dispatched, Credential
  <2>2. client.layers = SignHTTP(id, env.session) /\ token # <<>>
    BY <2>1 DEF AwsSigningAuth, AwsReadable, Empty
  <2>3. id[1] \in {c, None}
    BY <2>2, TokenFacts
  <2>4. SignHTTP(id, env.session) = SignHTTP(id, Temporary(env, kind))
    <3> HIDE DEF id
    <3> QED BY <1>1 DEF Temporary, SignHTTP
  <2> HIDE DEF id
  <2>5. <<"AWS4", id>>[2] = id
    OBVIOUS
  <2> HIDE DEF client
  <2> QED BY <2>1, <2>2, <2>3, <2>4, <2>5 DEF SigningLayers, client
<1>2. CASE kind = "aws_assume_role"
  <2> DEFINE id == <<c, "role">>
  <2>1. client = AwsAssumeRoleAuth(c) /\ Credential(env, c, kind) = <<"AWS4", id>>
    BY <1>2 DEF Dispatched, Credential
  <2>2. client.layers = SignHTTP(id, TRUE)
    <3>1. AwsReadable(c) /\ GetAwsRoleArn(c) /\ env.sts
      BY <2>1 DEF AwsAssumeRoleAuth
    <3>2. client = Made("aws_assume_role", SignHTTP(id, TRUE))
      BY <2>1, <3>1 DEF AwsAssumeRoleAuth
    <3> QED BY <3>2
  <2>3. id[1] = c
    OBVIOUS
  <2>4. SignHTTP(id, TRUE) = SignHTTP(id, Temporary(env, kind))
    <3> HIDE DEF id
    <3> QED BY <1>2 DEF Temporary, SignHTTP
  <2> HIDE DEF id
  <2>5. <<"AWS4", id>>[2] = id
    OBVIOUS
  <2> HIDE DEF client
  <2> QED BY <2>1, <2>2, <2>3, <2>4, <2>5 DEF SigningLayers, client
<1> QED BY <1>1, <1>2 DEF Signing

LEMMA SigningWrites ==
  ASSUME NEW c, NEW kind, Signing(kind), NEW layers, SigningLayers(c, kind, layers), NEW req, IsFunction(req)
  PROVE  /\ Applied(layers, req) = Overlaid(env, c, kind, req) /\ layers \o <<>> = layers
         /\ Credential(env, c, kind)[2][1] \in {c, None}
<1>1. PICK id : /\ layers = SignHTTP(id, Temporary(env, kind)) /\ Credential(env, c, kind) = <<"AWS4", id>>
                /\ Credential(env, c, kind)[2][1] \in {c, None}
  BY DEF SigningLayers
<1> DEFINE a == Stamp(Date, <<None, "date">>)
           b == Stamp(SecurityToken, id)
           s == Signature(id)
           mine == Mine(env, c, kind)
           own(p) == OwnValue(env, c, kind, p)
<1>2. /\ a.place = Date /\ b.place = SecurityToken /\ s.place = Authorization
      /\ Value(a) = <<"", <<None, "date">>>> /\ Value(b) = <<"", id>> /\ Value(s) = <<"AWS4", id>>
  BY DEF Stamp, Signature, Value
<1>3. /\ own(Date) = <<"", <<None, "date">>>> /\ own(SecurityToken) = <<"", id>> /\ own(Authorization) = <<"AWS4", id>>
  <2>1. kind # "custom" /\ Credential(env, c, kind)[2] = id
    BY <1>1 DEF Signing
  <2> QED BY <1>1, <2>1, PlacesApart DEF OwnValue
<1>4. mine = {Authorization, Date} \cup (IF Temporary(env, kind) THEN {SecurityToken} ELSE {})
  BY DEF Mine, Signing
<1>5. layers = IF Temporary(env, kind) THEN <<a, b, s>> ELSE <<a, s>>
  BY <1>1 DEF SignHTTP
<1> HIDE DEF a, b, s, mine, own
<1>6. CASE Temporary(env, kind)
  <2>1. /\ Len(layers) = 3 /\ layers[1] = a /\ layers[2] = b /\ layers[3] = s /\ 1 .. 3 = {1, 2, 3}
        /\ layers \o <<>> = layers
    BY <1>5, <1>6
  <2>2. Places(layers, 3) = mine
    BY <1>2, <1>4, <1>6, <2>1, PlacesApart DEF Places
  <2>3. /\ Writers(layers, 3, Date) = {1} /\ Writers(layers, 3, SecurityToken) = {2}
        /\ Writers(layers, 3, Authorization) = {3}
    BY <1>2, <2>1, PlacesApart DEF Writers
  <2>4. Latest({1}) = 1 /\ Latest({2}) = 2 /\ Latest({3}) = 3
    BY LatestIs
  <2>5. \A p \in mine : Value(layers[Latest(Writers(layers, 3, p))]) = own(p)
    BY <1>2, <1>3, <1>4, <1>6, <2>1, <2>3, <2>4
  <2>6. Applied(layers, req) = Written(layers, req, 3)
    <3>1. Len(layers) \in Nat
      BY <2>1
    <3> QED BY <2>1, <3>1, AppliedIs
  <2>7. Written(layers, req, 3) = Overlaid(env, c, kind, req)
    BY <2>2, <2>5 DEF Written, Overlaid, mine, own
  <2> QED BY <1>1, <2>1, <2>6, <2>7
<1>7. CASE ~Temporary(env, kind)
  <2>1. /\ Len(layers) = 2 /\ layers[1] = a /\ layers[2] = s /\ 1 .. 2 = {1, 2}
        /\ layers \o <<>> = layers
    BY <1>5, <1>7
  <2>2. Places(layers, 2) = mine
    BY <1>2, <1>4, <1>7, <2>1, PlacesApart DEF Places
  <2>3. Writers(layers, 2, Date) = {1} /\ Writers(layers, 2, Authorization) = {2}
    BY <1>2, <2>1, PlacesApart DEF Writers
  <2>4. Latest({1}) = 1 /\ Latest({2}) = 2
    BY LatestIs
  <2>5. \A p \in mine : Value(layers[Latest(Writers(layers, 2, p))]) = own(p)
    BY <1>2, <1>3, <1>4, <1>7, <2>1, <2>3, <2>4
  <2>6. Applied(layers, req) = Written(layers, req, 2)
    <3>1. Len(layers) \in Nat
      BY <2>1
    <3> QED BY <2>1, <3>1, AppliedIs
  <2>7. Written(layers, req, 2) = Overlaid(env, c, kind, req)
    BY <2>2, <2>5 DEF Written, Overlaid, mine, own
  <2> QED BY <1>1, <2>1, <2>6, <2>7
<1> QED BY <1>6, <1>7

(* A custom client has a layer for each context of the chain, in turn.     *)
LEMMA CustomLayers ==
  ASSUME WellFormed, NEW c \in DOMAIN Config, CustomAuth(c).ok
  PROVE  LET all == <<c>> \o GetSuccessors[c]
             layers == CustomAuth(c).layers
         IN  /\ Len(layers) = Len(all) /\ Len(all) \in Nat /\ DOMAIN all = 1 .. Len(all)
             /\ \A i \in 1 .. Len(all) : layers[i] = CustomCfg(all[i])
             /\ Chain(c) = {all[i] : i \in 1 .. Len(all)}
             /\ layers \o <<>> = layers
<1> DEFINE chain == GetSuccessors[c]
           all == <<c>> \o chain
           rest == [i \in DOMAIN chain |-> CustomCfg(chain[i])]
           own == Transported("custom", CustomCfg(c), "custom", Config[c].location, Config[c].name)
           layers == CustomAuth(c).layers
           S == {CustomCfg(d) : d \in DOMAIN Config}
<1>1. chain \in Seq(DOMAIN Config)
  BY SuccessorsListed
<1>2. CustomAuth(c) = Made("custom", own.layers \o rest) /\ own.ok
  BY DEF CustomAuth, Refused
<1>3. own.layers = <<CustomCfg(c)>>
  <2>1. ~NewTransportRefuses("custom", Config[c].location, Config[c].name, CustomCfg(c).token)
    BY <1>2 DEF Transported, Refused
  <2> QED BY <2>1 DEF Transported, Made
<1>4. layers = <<CustomCfg(c)>> \o rest
  <2> HIDE DEF rest, own
  <2> QED BY <1>2, <1>3 DEF Made
<1> HIDE DEF chain, layers
<1>5. Len(chain) \in Nat /\ DOMAIN chain = 1 .. Len(chain) /\ \A i \in 1 .. Len(chain) : chain[i] \in DOMAIN Config
  BY <1>1
<1>6. rest \in Seq(S) /\ Len(rest) = Len(chain)
  <2>1. rest \in [1 .. Len(chain) -> S]
    BY <1>5
  <2>2. rest \in Seq(S)
    BY <1>5, <2>1
  <2> QED BY <1>5, <2>1, <2>2
<1>7. \A i \in 1 .. Len(chain) : rest[i] = CustomCfg(chain[i])
  BY <1>5
<1>8. Len(all) = Len(chain) + 1 /\ DOMAIN all = 1 .. Len(all)
      /\ all[1] = c /\ \A i \in 2 .. Len(all) : all[i] = chain[i - 1]
  <2>1. <<c>> \in Seq(DOMAIN Config) /\ Len(<<c>>) = 1 /\ <<c>>[1] = c
    OBVIOUS
  <2> QED BY <1>1, <1>5, <2>1
<1>9. <<CustomCfg(c)>> \in Seq(S) /\ Len(<<CustomCfg(c)>>) = 1 /\ <<CustomCfg(c)>>[1] = CustomCfg(c)
  BY DEF S
<1>10. Len(layers) = Len(chain) + 1 /\ layers[1] = CustomCfg(c)
       /\ \A i \in 2 .. Len(layers) : layers[i] = rest[i - 1]
  <2> HIDE DEF rest, S
  <2> QED BY <1>4, <1>5, <1>6, <1>9
<1>11. \A i \in 2 .. Len(all) : i - 1 \in 1 .. Len(chain)
  BY <1>5, <1>8
<1>12. ASSUME NEW i \in 1 .. Len(all) PROVE layers[i] = CustomCfg(all[i])
  <2> HIDE DEF rest, all
  <2>1. i = 1 \/ i \in 2 .. Len(all)
    BY <1>5, <1>8
  <2> QED BY <1>5, <1>7, <1>8, <1>10, <1>11, <2>1
<1>13. Chain(c) = {all[i] : i \in 1 .. Len(all)}
  <2>1. Chain(c) = {c} \cup {chain[i] : i \in 1 .. Len(chain)}
    BY <1>5 DEF Chain, chain
  <2> HIDE DEF all
  <2>2. \A i \in 1 .. Len(chain) : i + 1 \in 2 .. Len(all) /\ all[i + 1] = chain[i]
    BY <1>5, <1>8
  <2>3. 1 \in 1 .. Len(all) /\ \A i \in 2 .. Len(all) : i \in 1 .. Len(all)
    BY <1>5, <1>8
  <2>4. \A i \in 1 .. Len(all) : i = 1 \/ i \in 2 .. Len(all)
    BY <1>5, <1>8
  <2>5. {c} \cup {chain[i] : i \in 1 .. Len(chain)} \subseteq {all[i] : i \in 1 .. Len(all)}
    BY <1>8, <2>2, <2>3
  <2>6. ASSUME NEW i \in 1 .. Len(all) PROVE all[i] \in {c} \cup {chain[j] : j \in 1 .. Len(chain)}
    BY <1>8, <1>11, <2>4
  <2> QED BY <2>1, <2>5, <2>6
<1>14. layers \o <<>> = layers
  <2> HIDE DEF rest, S
  <2>1. layers \in Seq(S)
    BY <1>4, <1>6, <1>9
  <2> QED BY <2>1
<1> QED BY <1>5, <1>8, <1>10, <1>12, <1>13, <1>14 DEF layers, chain

(* The transport of a client writes the context's own tokens, and only     *)
(* those.                                                                  *)
LEMMA ClientWrites ==
  ASSUME WellFormed, NEW c \in DOMAIN Config, NEW kind \in KnownTypes, NEW revokeFirst, NEW login,
         Dispatched(c, kind, revokeFirst, login).ok, NEW req, IsFunction(req)
  PROVE  LET layers == Dispatched(c, kind, revokeFirst, login).layers
         IN  /\ Applied(layers, req) = Overlaid(env, c, kind, req)
             /\ layers \o <<>> = layers
             /\ kind \notin {"null_auth", "custom"} => Credential(env, c, kind)[2][1] \in {c, None}
<1> DEFINE layers == Dispatched(c, kind, revokeFirst, login).layers
<1>1. CASE kind = "null_auth"
  <2>1. layers = <<>>
    BY <1>1 DEF Dispatched, NullAuth, Made
  <2>2. Places(layers, 0) = {} /\ Len(layers) = 0 /\ Mine(env, c, kind) = {}
    BY <1>1, <2>1 DEF Places, Mine, Signing
  <2>3. Applied(layers, req) = Written(layers, req, 0)
    <3> HIDE DEF layers
    <3>1. Len(layers) \in Nat
      BY <2>2
    <3> QED BY <2>2, <3>1, AppliedIs
  <2> QED BY <1>1, <2>1, <2>2, <2>3 DEF Written, Overlaid
<1>2. CASE kind \notin {"null_auth", "custom"} /\ ~Signing(kind)
  <2>1. OneLayer(c, kind, layers)
    BY <1>2, OneLayerMade
  <2>2. PICK l : /\ layers = <<l>> /\ l.place = Authorization /\ Value(l) = Credential(env, c, kind)
                 /\ Credential(env, c, kind)[2][1] \in {c, None}
    BY <2>1 DEF OneLayer
  <2> HIDE DEF layers
  <2>3. Len(layers) = 1 /\ layers[1] = l /\ 1 .. 1 = {1} /\ layers \o <<>> = layers
    BY <2>2
  <2>4. Authorization[1] = "header"
    BY DEF Authorization
  <2>5. Places(layers, 1) = {Authorization} /\ Writers(layers, 1, Authorization) = {1}
    BY <2>2, <2>3, <2>4 DEF Places, Writers
  <2>6. Latest({1}) = 1
    BY LatestIs
  <2>7. Mine(env, c, kind) = {Authorization} /\ OwnValue(env, c, kind, Authorization) = Credential(env, c, kind)
    BY <1>2, PlacesApart DEF Mine, OwnValue
  <2>8. Applied(layers, req) = Written(layers, req, 1)
    <3>1. Len(layers) \in Nat
      BY <2>3
    <3> QED BY <2>3, <3>1, AppliedIs
  <2>9. Written(layers, req, 1) = Overlaid(env, c, kind, req)
    BY <2>2, <2>3, <2>5, <2>6, <2>7 DEF Written, Overlaid
  <2> QED BY <1>2, <2>2, <2>3, <2>8, <2>9 DEF layers
<1>3. CASE kind = "custom"
  <2> DEFINE all == <<c>> \o GetSuccessors[c]
             n == Len(all)
             PlaceOf(i) == <<Config[all[i]].location, Config[all[i]].name>>
  <2>1. Dispatched(c, kind, revokeFirst, login) = CustomAuth(c)
    BY <1>3 DEF Dispatched
  <2>2. /\ Len(layers) = n /\ n \in Nat /\ DOMAIN all = 1 .. n
        /\ \A i \in 1 .. n : layers[i] = CustomCfg(all[i])
        /\ Chain(c) = {all[i] : i \in 1 .. n}
        /\ layers \o <<>> = layers
    BY <2>1, CustomLayers
  <2> HIDE DEF layers, all
  <2>4. ASSUME NEW i \in 1 .. n
        PROVE  layers[i].place = PlaceOf(i) /\ Value(layers[i]) = <<"", GetCredentialsBytes(all[i]).token>>
    <3>1. layers[i] = CustomCfg(all[i])
      BY <2>2
    <3>2. /\ CustomCfg(all[i]).place = PlaceOf(i) /\ CustomCfg(all[i]).custom
          /\ CustomCfg(all[i]).token = GetCredentialsBytes(all[i]).token
      BY DEF CustomCfg, TokenCfg
    <3> QED BY <3>1, <3>2 DEF Value
  <2>5. Places(layers, n) = Mine(env, c, kind)
    <3>1. Mine(env, c, kind) = {p \in {PlaceOf(i) : i \in 1 .. n} : p[1] \in {"header", "query"}}
      BY <1>3, <2>2 DEF Mine, Signing
    <3> HIDE DEF PlaceOf
    <3> QED BY <2>4, <3>1 DEF Places
  <2>6. ASSUME NEW p \in Mine(env, c, kind)
        PROVE  Value(layers[Latest(Writers(layers, n, p))]) = OwnValue(env, c, kind, p)
    <3> DEFINE here == {i \in DOMAIN all : <<Config[all[i]].location, Config[all[i]].name>> = p}
    <3>1. p[1] \in {"header", "query"} /\ \E i \in 1 .. n : PlaceOf(i) = p
      BY <1>3, <2>2 DEF Mine, Signing
    <3>2. Writers(layers, n, p) = here
      BY <2>2, <2>4, <3>1 DEF Writers
    <3>3. here # {} /\ here \subseteq 1 .. n
      BY <2>2, <3>1
    <3>4. LastAt(c, p) = all[Latest(here)]
      BY DEF LastAt, Latest, all
    <3> HIDE DEF here
    <3>5. Latest(here) \in 1 .. n
      BY <2>2, <3>3, LatestExists
    <3> QED BY <1>3, <2>4, <3>2, <3>4, <3>5 DEF OwnValue
  <2>7. Applied(layers, req) = Written(layers, req, n)
    BY <2>2, AppliedIs
  <2>8. Written(layers, req, n) = Overlaid(env, c, kind, req)
    BY <2>5, <2>6 DEF Written, Overlaid
  <2> QED BY <1>3, <2>2, <2>7, <2>8 DEF layers
<1>4. CASE Signing(kind)
  <2>1. SigningLayers(c, kind, layers)
    BY <1>4, SigningLayersMade
  <2> HIDE DEF layers
  <2> QED BY <1>4, <2>1, SigningWrites DEF layers
<1> QED BY <1>1, <1>2, <1>3, <1>4

-----------------------------------------------------------------------------
(* The prepared request without its Authorization header.                  *)
Stripped(given) == [p \in DOMAIN given \ {Authorization} |-> given[p]]

(* What an attempt with a prepared request carries: its context's tokens   *)
(* and, of a signed one, what was written after the signature.             *)
Sealed(e, c, kind, given) == Overlaid(e, c, kind, Stripped(given))
Delivered(e, c, kind, target, given) ==
  IF Signing(kind) THEN Over(Sealed(e, c, kind, given), Marked(target)) ELSE Sealed(e, c, kind, given)

(* A kind that context c of the session may be authenticated by.           *)
GoodKind(c, kind) ==
  /\ c \in DOMAIN auth /\ kind \in KnownTypes
  /\ c \notin handled => kind = inferAuthType(c, Config[c].type)
  /\ kind \notin {"null_auth", "custom"} => Credential(env, c, kind)[2][1] \in {c, None}

Contexts ==
  /\ DOMAIN auth \subseteq DOMAIN Config /\ DOMAIN first = DOMAIN auth /\ default = <<>>
  /\ \A c \in DOMAIN auth \ handled : auth[c].type = Config[c].type

(* The client of the call under way adds its context's own tokens to the   *)
(* request, whether an attempt was made with it before or not.             *)
OpenCall ==
  /\ call = [phase |-> call.phase, ctx |-> call.ctx, kind |-> call.kind, layers |-> call.layers,
             target |-> call.target, given |-> call.given, request |-> call.request, tries |-> call.tries]
  /\ call.phase = "open" =>
       LET fresh == Stripped(call.given)
           done == Delivered(env, call.ctx, call.kind, call.target, call.given)
       IN  /\ GoodKind(call.ctx, call.kind)
           /\ call.request \in {fresh, done}
           /\ Applied(call.layers, fresh) = Sealed(env, call.ctx, call.kind, call.given)
           /\ Applied(call.layers, done) = done

(* A signature covers the request before or after the marks of an attempt. *)
GoodAttempt(a) ==
  LET done == Delivered(env, a.ctx, a.kind, a.target, a.given)
  IN  /\ GoodKind(a.ctx, a.kind) /\ a.carried = done
      /\ Signing(a.kind) => a.covered \in {Covered(Sealed(env, a.ctx, a.kind, a.given)), Covered(done)}

Attempts ==
  /\ last # NoAttempt => GoodAttempt(last) /\ first[last.ctx] # NoAttempt
  /\ \A c \in DOMAIN auth : first[c] # NoAttempt => GoodAttempt(first[c]) /\ first[c].ctx = c

AuthInv == Contexts /\ OpenCall /\ Attempts

LEMMA InferredKnown ==
  ASSUME NEW c, NEW type
  PROVE  inferAuthType(c, type) \in KnownTypes
  BY DEF inferAuthType, KnownTypes

LEMMA Overlays ==
  ASSUME NEW e, NEW c, NEW kind, NEW target, NEW given
  PROVE  LET fresh == Stripped(given)
             done == Delivered(e, c, kind, target, given)
         IN  /\ IsFunction(fresh) /\ IsFunction(done)
             /\ Overlaid(e, c, kind, done) = done
             /\ IF Signing(kind) THEN Over(done, Marked(target)) = done ELSE done = Sealed(e, c, kind, given)
<1> DEFINE fresh == Stripped(given)
           sealed == Sealed(e, c, kind, given)
           marks == IF Signing(kind) THEN DOMAIN Marked(target) ELSE {}
           done == Delivered(e, c, kind, target, given)
           mine == Mine(e, c, kind)
<1>1. IsFunction(fresh) /\ IsFunction(sealed)
  BY DEF Stripped, Sealed, Overlaid, IsFunction
<1>2. DOMAIN sealed = DOMAIN fresh \cup mine /\ \A p \in mine : sealed[p] = OwnValue(e, c, kind, p)
  BY DEF Sealed, Overlaid
<1>3. mine \cap marks = {}
  <2>1. CASE Signing(kind)
    <3>1. mine \subseteq {Date, SecurityToken, Authorization}
      BY <2>1 DEF Mine, Signing
    <3> HIDE DEF mine
    <3> QED BY <2>1, <3>1, PlacesApart
  <2>2. CASE ~Signing(kind)
    BY <2>2
  <2> QED BY <2>1, <2>2
<1> HIDE DEF sealed, fresh, mine
<1>4. /\ DOMAIN done = DOMAIN sealed \cup marks
      /\ \A p \in DOMAIN sealed \ marks : done[p] = sealed[p]
      /\ \A p \in marks : done[p] = Marked(target)[p]
  BY DEF Delivered, Over, sealed
<1>5. IsFunction(done)
  BY <1>1 DEF Delivered, Over, IsFunction, sealed
<1> HIDE DEF done
<1>6. Overlaid(e, c, kind, done) = [p \in DOMAIN done |-> done[p]]
  <2>1. DOMAIN done \cup mine = DOMAIN done /\ \A p \in mine : done[p] = OwnValue(e, c, kind, p)
    BY <1>2, <1>3, <1>4
  <2> QED BY <2>1 DEF Overlaid, mine
<1>7. CASE Signing(kind)
  <2>1. Over(done, Marked(target)) = [p \in DOMAIN done |-> done[p]]
    BY <1>4, <1>7 DEF Over
  <2> QED BY <1>1, <1>5, <1>6, <1>7, <2>1 DEF IsFunction, done, fresh
<1>8. CASE ~Signing(kind)
  <2>1. done = sealed
    BY <1>8 DEF Delivered, done, sealed
  <2> QED BY <1>1, <1>5, <1>6, <1>8, <2>1 DEF IsFunction, done, fresh, sealed
<1> QED BY <1>7, <1>8

(* Nothing that is known of a kind or an attempt is lost while the         *)
(* environment stays and contexts are only added to those handled.         *)
LEMMA KindStays ==
  ASSUME env' = env, DOMAIN auth' = DOMAIN auth, handled \subseteq handled', NEW c, NEW kind, GoodKind(c, kind)
  PROVE  GoodKind(c, kind)'
  BY DEF GoodKind

LEMMA AttemptsStay ==
  ASSUME AuthInv, env' = env, DOMAIN auth' = DOMAIN auth, handled \subseteq handled', first' = first,
         last' \in {last, NoAttempt}
  PROVE  Attempts'
<1>1. ASSUME NEW a, GoodAttempt(a) PROVE GoodAttempt(a)'
  BY <1>1, KindStays DEF GoodAttempt
<1> QED BY <1>1 DEF AuthInv, Attempts, GoodAttempt, GoodKind

LEMMA AuthInit ==
  ASSUME WellFormed, SessionInit
  PROVE  AuthInv
<1>1. Contexts
  <2>1. PICK s \in Sessions : auth = [c \in s |-> [active |-> FALSE, type |-> Config[c].type]]
    BY DEF SessionInit
  <2>2. s \subseteq DOMAIN Config
    BY DEF WellFormed
  <2>3. DOMAIN auth = s /\ \A c \in s : auth[c].type = Config[c].type
    BY <2>1
  <2> QED BY <2>2, <2>3 DEF SessionInit, Contexts
<1>2. OpenCall
  BY DEF SessionInit, OpenCall, NoCall
<1>3. Attempts
  BY DEF SessionInit, Attempts
<1> QED BY <1>1, <1>2, <1>3 DEF AuthInv

(* The type of a context is rewritten only when it is handed over.         *)
LEMMA ActivationKeeps ==
  ASSUME AuthInv, NEW c \in DOMAIN auth, NEW type
  PROVE  /\ DOMAIN ActivateAuth(c, type) = DOMAIN auth
         /\ \A d \in DOMAIN auth \ (handled \cup {c}) : ActivateAuth(c, type)[d].type = Config[d].type
  BY DEF ActivateAuth, AuthInv, Contexts

LEMMA CallBegins ==
  ASSUME WellFormed, AuthInv, NEW c \in DOMAIN auth, NEW prepared, NEW revokeFirst, NEW login,
         Auth(c, prepared, revokeFirst, login)
  PROVE  AuthInv'
<1> DEFINE kind == inferAuthType(c, auth[c].type)
           client == Dispatched(c, kind, revokeFirst, login)
           panics == GetHTTPClientPanics /\ kind # "interactive" /\ client.opened
           sends == client.ok /\ ~panics
           fresh == Stripped(prepared.carries)
           sealed == Sealed(env, c, kind, prepared.carries)
           done == Delivered(env, c, kind, prepared.target, prepared.carries)
<1>1. /\ auth' = auth /\ default' = default
      /\ call' = IF ~sends THEN [NoCall EXCEPT !.phase = IF panics THEN "panic" ELSE "idle"]
                 ELSE [phase |-> "open", ctx |-> c, kind |-> kind, layers |-> client.layers \o default,
                       target |-> prepared.target, given |-> prepared.carries,
                       request |-> fresh, tries |-> 0]
      /\ UNCHANGED <<env, handled, last, first>>
  BY DEF Auth, Clone, DefaultAfter, Stripped
<1>2. Contexts'
  BY <1>1 DEF AuthInv, Contexts
<1>3. Attempts'
  BY <1>1, AttemptsStay
<1>4. OpenCall'
  <2>1. CASE ~sends
    <3> HIDE DEF sends, panics
    <3> QED BY <1>1, <2>1 DEF OpenCall, NoCall
  <2>2. CASE sends
    <3>1. c \in DOMAIN Config /\ kind \in KnownTypes /\ client.ok /\ default = <<>>
      BY <2>2, InferredKnown DEF AuthInv, Contexts
    <3>2. IsFunction(fresh) /\ IsFunction(done) /\ Overlaid(env, c, kind, done) = done
          /\ sealed = Overlaid(env, c, kind, fresh)
      BY Overlays DEF Sealed
    <3> HIDE DEF kind, fresh
    <3>3. /\ Applied(client.layers, fresh) = sealed /\ Applied(client.layers, done) = done
          /\ client.layers \o <<>> = client.layers
          /\ kind \notin {"null_auth", "custom"} => Credential(env, c, kind)[2][1] \in {c, None}
      <4> HIDE DEF done, sealed
      <4>1. \A r : IsFunction(r) =>
               /\ Applied(client.layers, r) = Overlaid(env, c, kind, r)
               /\ client.layers \o <<>> = client.layers
               /\ kind \notin {"null_auth", "custom"} => Credential(env, c, kind)[2][1] \in {c, None}
        BY <3>1, ClientWrites
      <4> QED BY <3>2, <4>1
    <3>4. GoodKind(c, kind)
      <4>1. c \notin handled => kind = inferAuthType(c, Config[c].type)
        BY DEF AuthInv, Contexts, kind
      <4> QED BY <3>1, <3>3, <4>1 DEF GoodKind
    <3> HIDE DEF client, sends
    <3>5. /\ call'.phase = "open" /\ call'.ctx = c /\ call'.kind = kind /\ call'.layers = client.layers
          /\ call'.given = prepared.carries /\ call'.request = fresh
          /\ call'.target = prepared.target /\ call'.tries = 0
          /\ call' = [phase |-> call'.phase, ctx |-> call'.ctx, kind |-> call'.kind, layers |-> call'.layers,
                      target |-> call'.target, given |-> call'.given, request |-> call'.request,
                      tries |-> call'.tries]
      BY <1>1, <2>2, <3>1, <3>3
    <3> QED BY <1>1, <3>3, <3>4, <3>5 DEF OpenCall, GoodKind, fresh
  <2> QED BY <2>1, <2>2
<1> QED BY <1>2, <1>3, <1>4 DEF AuthInv

LEMMA AttemptMade ==
  ASSUME WellFormed, AuthInv, RoundTrip
  PROVE  AuthInv'
<1> DEFINE fresh == Stripped(call.given)
           sealed == Sealed(env, call.ctx, call.kind, call.given)
           done == Delivered(env, call.ctx, call.kind, call.target, call.given)
           signs == Signing(call.kind)
           now == Applied(call.layers, call.request)
           made == [ctx |-> call.ctx, kind |-> call.kind, target |-> call.target, given |-> call.given,
                    carried |-> done, covered |-> IF signs THEN Covered(now) ELSE <<>>]
<1>1. /\ GoodKind(call.ctx, call.kind) /\ call.request \in {fresh, done} /\ call.ctx \in DOMAIN auth
      /\ Applied(call.layers, fresh) = sealed /\ Applied(call.layers, done) = done
      /\ now \in {sealed, done}
  BY DEF RoundTrip, AuthInv, OpenCall, GoodKind
<1>a. (IF signs THEN Over(now, Marked(call.target)) ELSE now) = done
  <2>1. IF signs THEN Over(done, Marked(call.target)) = done ELSE done = sealed
    BY Overlays
  <2>2. signs => Over(sealed, Marked(call.target)) = done
    BY DEF Delivered
  <2> HIDE DEF now, sealed, done, signs
  <2> QED BY <1>1, <2>1, <2>2
<1>2. \/ /\ call' = [call EXCEPT !.tries = @ + 1] /\ UNCHANGED <<last, first>>
      \/ /\ call' = [call EXCEPT !.tries = @ + 1, !.request = done]
         /\ last' = made
         /\ first' = IF first[call.ctx] = NoAttempt THEN [first EXCEPT ![call.ctx] = made] ELSE first
  <2> HIDE DEF done
  <2> QED BY <1>a DEF RoundTrip
<1>3. UNCHANGED <<env, gcloud, auth, handled, default>>
  BY DEF RoundTrip
<1>4. Contexts'
  BY <1>2, <1>3 DEF AuthInv, Contexts
<1>5. OpenCall'
  <2>1. /\ call'.phase = call.phase /\ call'.ctx = call.ctx /\ call'.kind = call.kind
        /\ call'.layers = call.layers /\ call'.target = call.target /\ call'.given = call.given
        /\ call'.request \in {call.request, done}
        /\ call' = [phase |-> call'.phase, ctx |-> call'.ctx, kind |-> call'.kind, layers |-> call'.layers,
                    target |-> call'.target, given |-> call'.given, request |-> call'.request,
                    tries |-> call'.tries]
    <3> HIDE DEF done, made
    <3> QED BY <1>2 DEF AuthInv, OpenCall
  <2> QED BY <1>1, <1>3, <2>1 DEF OpenCall, GoodKind
<1>6. Attempts'
  <2>1. CASE UNCHANGED <<last, first>>
    BY <1>3, <2>1, AttemptsStay
  <2>2. CASE /\ last' = made
             /\ first' = IF first[call.ctx] = NoAttempt THEN [first EXCEPT ![call.ctx] = made] ELSE first
    <3>1. GoodAttempt(made)
      <4>1. /\ made.ctx = call.ctx /\ made.kind = call.kind /\ made.target = call.target /\ made.given = call.given
            /\ made.carried = done /\ (signs => made.covered = Covered(now))
        <5> HIDE DEF done, now, signs
        <5> QED OBVIOUS
      <4>2. Covered(now) \in {Covered(sealed), Covered(done)}
        <5> HIDE DEF now, sealed, done
        <5> QED BY <1>1
      <4> HIDE DEF made, now
      <4> QED BY <1>1, <4>1, <4>2 DEF GoodAttempt
    <3>2. made # NoAttempt /\ made.ctx = call.ctx
      <4>1. call.ctx # None
        BY <1>1 DEF AuthInv, Contexts, WellFormed
      <4> QED BY <4>1 DEF NoAttempt
    <3> HIDE DEF made
    <3>3. first'[call.ctx] # NoAttempt /\ DOMAIN first = DOMAIN auth
      BY <1>1, <2>2, <3>2 DEF AuthInv, Contexts
    <3>4. \A c \in DOMAIN auth : first'[c] # NoAttempt => GoodAttempt(first'[c]) /\ first'[c].ctx = c
      BY <1>1, <2>2, <3>1, <3>2, <3>3 DEF AuthInv, Attempts
    <3>5. ASSUME NEW a, GoodAttempt(a) PROVE GoodAttempt(a)'
      BY <1>3, <3>5 DEF GoodAttempt, GoodKind
    <3> QED BY <1>3, <2>2, <3>1, <3>2, <3>3, <3>4, <3>5 DEF Attempts, GoodAttempt, GoodKind
  <2> QED BY <1>2, <2>1, <2>2
<1> QED BY <1>4, <1>5, <1>6 DEF AuthInv

LEMMA OtherSteps ==
  ASSUME WellFormed, AuthInv,
         \/ CallReturn
         \/ \E c \in DOMAIN auth, login \in BOOLEAN : UseUtility(c, FALSE, login)
         \/ \E c \in DOMAIN auth : AuthRevoke(c)
         \/ UNCHANGED sessionVars
  PROVE  AuthInv'
<1>1. CASE CallReturn
  <2>1. Contexts'
    BY <1>1 DEF CallReturn, AuthInv, Contexts
  <2>2. OpenCall'
    BY <1>1 DEF CallReturn, OpenCall, NoCall
  <2>3. Attempts'
    BY <1>1, AttemptsStay DEF CallReturn
  <2> QED BY <2>1, <2>2, <2>3 DEF AuthInv
<1>2. ASSUME NEW c \in DOMAIN auth, NEW login \in BOOLEAN, UseUtility(c, FALSE, login) PROVE AuthInv'
  <2>1. PICK type : auth' = ActivateAuth(c, type)
    BY <1>2 DEF UseUtility
  <2>2. /\ handled' = handled \cup {c} /\ UNCHANGED <<env, default, call, last, first>>
        /\ call.phase = "idle" /\ DOMAIN auth' = DOMAIN auth
    BY <1>2, <2>1, ActivationKeeps DEF UseUtility
  <2>3. Contexts'
    BY <2>1, <2>2, ActivationKeeps DEF AuthInv, Contexts
  <2>4. OpenCall'
    BY <2>2 DEF AuthInv, OpenCall
  <2>5. Attempts'
    BY <2>2, AttemptsStay
  <2> QED BY <2>3, <2>4, <2>5 DEF AuthInv
<1>3. ASSUME NEW c \in DOMAIN auth, AuthRevoke(c) PROVE AuthInv'
  <2>1. /\ handled' = handled \cup {c} /\ UNCHANGED <<env, default, call, last, first>>
        /\ call.phase = "idle" /\ DOMAIN auth' = DOMAIN auth
        /\ \A d \in DOMAIN auth : d # c => auth'[d] = auth[d]
    BY <1>3 DEF AuthRevoke
  <2>2. Contexts'
    BY <2>1 DEF AuthInv, Contexts
  <2>3. OpenCall'
    BY <2>1 DEF AuthInv, OpenCall
  <2>4. Attempts'
    BY <2>1, AttemptsStay
  <2> QED BY <2>2, <2>3, <2>4 DEF AuthInv
<1>4. CASE UNCHANGED sessionVars
  BY <1>4 DEF sessionVars, AuthInv, Contexts, OpenCall, Attempts, GoodAttempt, GoodKind
<1> QED BY <1>1, <1>2, <1>3, <1>4

(* Every call of a session works with its own context's credentials, and   *)
(* each attempt starts from the request as prepared or as the attempt      *)
(* before left it, with its stamps and marks.                              *)
THEOREM SessionInvariance ==
  SessionSpec => []AuthInv
<1>1. SessionInit => AuthInv
  BY ConfigAssumption, AuthInit
<1>2. AuthInv /\ [SessionNext]_sessionVars => AuthInv'
  BY ConfigAssumption, CallBegins, AttemptMade, OtherSteps DEF SessionNext
<1> QED BY <1>1, <1>2, PTL DEF SessionSpec

(* An attempt, place by place.                                             *)
LEMMA AttemptCarries ==
  ASSUME NEW a, GoodAttempt(a)
  PROVE  LET mine == Mine(env, a.ctx, a.kind)
             fresh == DOMAIN a.given \ {Authorization}
         IN  /\ DOMAIN a.carried = fresh \cup mine \cup MarkedIn(a)
             /\ \A p \in fresh \ (mine \cup MarkedIn(a)) : a.carried[p] = a.given[p]
             /\ \A p \in mine : p \notin MarkedIn(a) /\ a.carried[p] = OwnValue(env, a.ctx, a.kind, p)
             /\ \A p \in MarkedIn(a) : a.carried[p] = <<"", <<None, "s3">>>>
             /\ Signing(a.kind) => {Date, Authorization} \subseteq mine /\ mine \subseteq {Date, SecurityToken, Authorization}
             /\ DOMAIN Sealed(env, a.ctx, a.kind, a.given) = fresh \cup mine
             /\ \A p \in (fresh \cup mine) \ MarkedIn(a) :
                   a.carried[p] = Sealed(env, a.ctx, a.kind, a.given)[p]
<1> DEFINE mine == Mine(env, a.ctx, a.kind)
           fresh == DOMAIN a.given \ {Authorization}
           sealed == Sealed(env, a.ctx, a.kind, a.given)
           marks == MarkedIn(a)
<1>1. /\ DOMAIN sealed = fresh \cup mine
      /\ \A p \in mine : sealed[p] = OwnValue(env, a.ctx, a.kind, p)
      /\ \A p \in fresh \ mine : sealed[p] = a.given[p]
  BY DEF Sealed, Overlaid, Stripped
<1>2. Signing(a.kind) => {Date, Authorization} \subseteq mine /\ mine \subseteq {Date, SecurityToken, Authorization}
  BY DEF Mine, Signing
<1>3. mine \cap marks = {}
  <2> HIDE DEF mine
  <2> QED BY <1>2, PlacesApart DEF MarkedIn
<1>4. \A p \in marks : Marked(a.target)[p] = <<"", <<None, "s3">>>>
  <2>1. \A p \in DOMAIN Marked(a.target) : Marked(a.target)[p] = <<"", <<None, "s3">>>>
    BY DEF Marked
  <2> QED BY <2>1 DEF MarkedIn
<1> HIDE DEF sealed, mine
<1>5. /\ DOMAIN a.carried = DOMAIN sealed \cup marks
      /\ \A p \in DOMAIN sealed \ marks : a.carried[p] = sealed[p]
      /\ \A p \in marks : a.carried[p] = Marked(a.target)[p]
  BY DEF GoodAttempt, Delivered, Over, MarkedIn, sealed
<1> HIDE DEF marks
<1> QED BY <1>1, <1>2, <1>3, <1>4, <1>5 DEF mine, sealed, marks

(* Every attempt carries what was prepared, its own context's credentials, *)
(* and with a signature the stamps and marks of its own; nothing of another*)
(* call or of the attempt before (RoundTrip of both transports, CustomAuth *)
(* and getHTTPClient), for any configuration.                              *)
THEOREM OwnCredentials ==
  SessionSpec => []CarriesOwnCredentials
<1>1. ASSUME AuthInv PROVE CarriesOwnCredentials
  <2> DEFINE mine == Mine(env, last.ctx, last.kind)
             marks == MarkedIn(last)
             whole == mine \cup marks
             fresh == DOMAIN last.given \ {Authorization}
  <2> SUFFICES ASSUME last # NoAttempt
               PROVE  /\ DOMAIN last.carried = fresh \cup whole
                      /\ \A p \in DOMAIN last.carried \ whole : last.carried[p] = last.given[p]
                      /\ \A p \in whole :
                            IF last.kind = "custom"
                            THEN last.carried[p] = <<"", GetCredentialsBytes(LastAt(last.ctx, p)).token>>
                            ELSE last.carried[p][2][1] \in {last.ctx, None}
    <3>1. ~Signing(last.kind) => marks = {}
      BY DEF MarkedIn
    <3>2. CASE Signing(last.kind)
      <4>1. whole = {Authorization, Date} \cup marks
                     \cup (IF last.kind = "aws_assume_role" \/ env.session THEN {SecurityToken} ELSE {})
        BY <3>2 DEF Mine, Signing, Temporary
      <4>2. last.kind \notin {"null_auth", "custom"}
        BY <3>2 DEF Signing
      <4> HIDE DEF whole
      <4> QED BY <3>2, <4>1, <4>2 DEF CarriesOwnCredentials
    <3>3. CASE ~Signing(last.kind)
      <4>1. whole = CASE last.kind = "null_auth" -> {}
                      [] last.kind = "custom" -> {p \in {<<Config[d].location, Config[d].name>> : d \in Chain(last.ctx)} :
                                                    p[1] \in {"header", "query"}}
                      [] OTHER -> {Authorization}
        BY <3>1, <3>3 DEF Mine
      <4> HIDE DEF whole
      <4> QED BY <3>3, <4>1 DEF CarriesOwnCredentials
    <3> QED BY <3>2, <3>3
  <2>1. GoodAttempt(last) /\ GoodKind(last.ctx, last.kind)
    BY <1>1 DEF AuthInv, Attempts, GoodAttempt
  <2>2. /\ DOMAIN last.carried = fresh \cup whole
        /\ \A p \in fresh \ whole : last.carried[p] = last.given[p]
        /\ \A p \in mine : last.carried[p] = OwnValue(env, last.ctx, last.kind, p)
        /\ \A p \in marks : last.carried[p] = <<"", <<None, "s3">>>>
    BY <2>1, AttemptCarries
  <2>3. last.kind = "null_auth" => mine = {}
    BY DEF Mine, Signing
  <2>4. last.kind = "custom" => marks = {}
    BY DEF MarkedIn, Signing
  <2>5. /\ <<"", <<None, "s3">>>>[2][1] = None /\ <<"", <<None, "date">>>>[2][1] = None
        /\ \A id : <<"", id>>[2] = id
    OBVIOUS
  <2>6. ASSUME NEW p \in mine
        PROVE  IF last.kind = "custom"
               THEN last.carried[p] = <<"", GetCredentialsBytes(LastAt(last.ctx, p)).token>>
               ELSE last.carried[p][2][1] \in {last.ctx, None}
    <3>1. last.carried[p] = OwnValue(env, last.ctx, last.kind, p) /\ last.kind # "null_auth"
      BY <2>2, <2>3
    <3> HIDE DEF mine
    <3> QED BY <2>1, <2>5, <3>1, PlacesApart DEF OwnValue, GoodKind
  <2> HIDE DEF mine, marks
  <2> QED BY <2>2, <2>4, <2>5, <2>6
<1>2. SessionSpec => []AuthInv
  BY SessionInvariance
<1> QED BY <1>1, <1>2, PTL

(* The signature of every attempt, of a first one and of a retry, is over  *)
(* the headers that the attempt is sent with (aws_sign.go, RoundTrip).     *)
THEOREM SignatureOverSent ==
  SessionSpec => []SignedAsSent
<1>1. ASSUME AuthInv PROVE SignedAsSent
  <2> DEFINE mine == Mine(env, last.ctx, last.kind)
             marks == MarkedIn(last)
             fresh == DOMAIN last.given \ {Authorization}
             sealed == Sealed(env, last.ctx, last.kind, last.given)
             headers == {p \in DOMAIN last.carried : p[1] = "header" /\ p # Authorization}
  <2> SUFFICES ASSUME last # NoAttempt, Signing(last.kind)
               PROVE  /\ headers \ marks \subseteq DOMAIN last.covered
                      /\ DOMAIN last.covered \subseteq headers
                      /\ \A p \in DOMAIN last.covered \ (marks \cap DOMAIN last.given) :
                            last.covered[p] = last.carried[p]
    BY DEF SignedAsSent
  <2>1. GoodAttempt(last)
    BY <1>1 DEF AuthInv, Attempts
  <2>2. /\ DOMAIN last.carried = fresh \cup mine \cup marks
        /\ DOMAIN sealed = fresh \cup mine
        /\ mine \cap marks = {}
        /\ \A p \in (fresh \cup mine) \ marks : last.carried[p] = sealed[p]
    <3>1. /\ DOMAIN last.carried = fresh \cup mine \cup marks
          /\ DOMAIN sealed = fresh \cup mine
          /\ \A p \in mine : p \notin marks
          /\ \A p \in (fresh \cup mine) \ marks : last.carried[p] = sealed[p]
      BY <2>1, AttemptCarries
    <3> HIDE DEF mine, marks, sealed, fresh
    <3> QED BY <3>1
  <2>3. last.covered \in {Covered(sealed), Covered(last.carried)}
    BY <2>1 DEF GoodAttempt
  <2> HIDE DEF mine, marks, sealed
  <2>4. ASSUME NEW r
        PROVE  /\ DOMAIN Covered(r) = {p \in DOMAIN r : p[1] = "header" /\ p # Authorization}
               /\ \A p \in DOMAIN Covered(r) : Covered(r)[p] = r[p]
    BY DEF Covered
  <2>5. CASE last.covered = Covered(last.carried)
    BY <2>4, <2>5
  <2>6. CASE last.covered = Covered(sealed)
    <3>1. /\ DOMAIN last.covered = {p \in DOMAIN sealed : p[1] = "header" /\ p # Authorization}
          /\ \A p \in DOMAIN last.covered : last.covered[p] = sealed[p]
      <4> HIDE DEF headers, fresh
      <4> QED BY <2>4, <2>6
    <3>2. fresh \subseteq DOMAIN last.given
      OBVIOUS
    <3> HIDE DEF fresh
    <3>3. \A p \in DOMAIN sealed : p \in marks => p \in DOMAIN last.given
      BY <2>2, <3>2
    <3> QED BY <2>2, <3>1, <3>3
  <2> QED BY <2>3, <2>5, <2>6
<1>2. SessionSpec => []AuthInv
  BY SessionInvariance
<1> QED BY <1>1, <1>2, PTL

(* The calls of a session authenticate alike, whatever was called before   *)
(* (Auth of client.go, Clone of auth_ctx.go, ActivateAuth).                *)
THEOREM AuthenticateAlike ==
  SessionSpec => []CallsAuthenticateAlike
<1>1. ASSUME AuthInv PROVE CallsAuthenticateAlike
  <2> DEFINE before == first[last.ctx]
             other == DOMAIN before.given \union DOMAIN last.given \union MarkedIn(before) \union MarkedIn(last)
             added(made) == DOMAIN made.carried \ other
  <2> SUFFICES ASSUME last # NoAttempt, last.ctx \notin handled
               PROVE  /\ last.kind = before.kind
                      /\ added(last) = added(before)
                      /\ \A p \in added(last) : last.carried[p] = before.carried[p]
    BY DEF CallsAuthenticateAlike
  <2>1. GoodAttempt(last) /\ GoodAttempt(before) /\ before.ctx = last.ctx
    BY <1>1 DEF AuthInv, Attempts, GoodAttempt, GoodKind
  <2>2. last.kind = before.kind
    BY <2>1 DEF GoodAttempt, GoodKind
  <2> DEFINE mine == Mine(env, last.ctx, last.kind)
             own(p) == OwnValue(env, last.ctx, last.kind, p)
  <2>3. /\ DOMAIN last.carried = (DOMAIN last.given \ {Authorization}) \cup mine \cup MarkedIn(last)
        /\ \A p \in mine : last.carried[p] = own(p)
    BY <2>1, AttemptCarries
  <2>4. /\ DOMAIN before.carried = (DOMAIN before.given \ {Authorization}) \cup mine \cup MarkedIn(before)
        /\ \A p \in mine : before.carried[p] = own(p)
    <3> HIDE DEF before
    <3>1. /\ mine = Mine(env, before.ctx, before.kind)
          /\ \A p : own(p) = OwnValue(env, before.ctx, before.kind, p)
      BY <2>1, <2>2
    <3> HIDE DEF mine, own
    <3> QED BY <2>1, <3>1, AttemptCarries
  <2> HIDE DEF before, mine, own
  <2>5. added(last) \subseteq mine /\ added(last) = added(before)
    BY <2>3, <2>4
  <2> QED BY <2>2, <2>3, <2>4, <2>5
<1>2. SessionSpec => []AuthInv
  BY SessionInvariance
<1> QED BY <1>1, <1>2, PTL
=============================================================================
