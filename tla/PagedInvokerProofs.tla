------------------------ MODULE PagedInvokerProofs ------------------------
(***************************************************************************)
(* Proofs about PagedInvoker, for every set of invocations: any number of  *)
(* requests and pages, any page limit, a server that moves on or not.      *)
(***************************************************************************)
EXTENDS PagedInvoker, TLAPS

-----------------------------------------------------------------------------
(* TYPE CORRECTNESS *)

(* The initial states of an invocation are well typed.                     *)
LEMMA TypeInit == Init => TypeOK
<1> SUFFICES ASSUME Init PROVE TypeOK
  OBVIOUS
<1>1. cfg \in Config
  BY ConfigsAssumption DEF Init
<1>2. <<>> \in Seq(Nat) /\ NoAnswer \in Answer
  BY DEF NoAnswer, Answer, Kind
<1> QED BY <1>1, <1>2 DEF Init, TypeOK, BodyState

(* Appending a page to a request's list keeps it a function of lists.      *)
LEMMA AppendedTypes ==
  ASSUME NEW S, NEW f \in [S -> Seq(Nat)], NEW r, NEW p \in Nat
  PROVE  [f EXCEPT ![r] = Append(@, p)] \in [S -> Seq(Nat)]
<1>1. \A s \in Seq(Nat) : Append(s, p) \in Seq(Nat)
  OBVIOUS
<1> QED BY <1>1

(* Counting up for one request keeps a function of counters.               *)
LEMMA CountedTypes ==
  ASSUME NEW S, NEW f \in [S -> Nat], NEW r
  PROVE  [f EXCEPT ![r] = @ + 1] \in [S -> Nat]
<1>1. \A n \in Nat : n + 1 \in Nat
  OBVIOUS
<1> QED BY <1>1

(* Ending a request, with an error or without, keeps the types.            *)
LEMMA TurnTypes ==
  ASSUME TypeOK, cfg' = cfg, NEW next \in Nat, Turn(next)
  PROVE  /\ current' \in Nat
         /\ pc' \in {"request", "done"}
         /\ ownBody' \in BodyState
         /\ result' \in {"pending", "ok", "error", "panic"}
  BY DEF TypeOK, Turn, GivenBody, BodyState

LEMMA EndTypes ==
  ASSUME TypeOK, cfg' = cfg, (\E how \in Quiet : Return(how)) \/ Fail
  PROVE  /\ current' \in Nat
         /\ pc' \in {"request", "done"}
         /\ ownBody' \in BodyState
         /\ outcome' \in [Requests' -> Quiet \cup {"none", "error", "panic"}]
         /\ result' \in {"pending", "ok", "error", "panic"}
<1>1. current + 1 \in Nat
  BY DEF TypeOK
<1>2. CASE \E how \in Quiet : Return(how)
  <2>1. PICK how \in Quiet : Return(how)
    BY <1>2
  <2>2. Turn(current + 1)
    BY <2>1 DEF Return
  <2>3. outcome' \in [Requests' -> Quiet \cup {"none", "error", "panic"}]
    BY <2>1 DEF Return, TypeOK, Requests
  <2> QED BY <1>1, <2>2, <2>3, TurnTypes
<1>3. CASE Fail
  BY <1>3 DEF Fail, TypeOK, Requests
<1> QED BY <1>2, <1>3

(* The next token is a natural number.                                     *)
LEMMA NextTokenTypes == ASSUME TypeOK PROVE NextToken \in Nat
  BY DEF TypeOK, NextToken, extractNextPageToken, extractPageNumberNextToken, Answer

(* A reading has a kind and says whether there was an error.               *)
LEMMA ReadingTypes ==
  ASSUME NEW status, NEW reading \in Readings(status)
  PROVE  reading.kind \in Kind /\ reading.err \in BOOLEAN
<1>1. \E k \in Kind, e \in BOOLEAN : reading = Reading(k, e)
  BY Zenon DEF Readings, Kind
<1>2. PICK k \in Kind, e \in BOOLEAN : reading = Reading(k, e)
  BY <1>1
<1> QED BY <1>2 DEF Reading

(* Every step of the invocation keeps the types.                           *)
LEMMA TypePreserved == TypeOK /\ [Next]_vars => TypeOK'
<1> SUFFICES ASSUME TypeOK, [Next]_vars PROVE TypeOK'
  OBVIOUS
<1>1. CASE ArmouryFails
  BY <1>1 DEF ArmouryFails, TypeOK, loop, ledger, Requests
<1>2. CASE Begin
  <2>1. Turn(1) /\ cfg' = cfg
    BY <1>2 DEF Begin
  <2> QED BY <1>2, <2>1, TurnTypes DEF Begin, TypeOK, loop, ledger, Requests
<1>3. ASSUME cfg' = cfg, (\E how \in Quiet : Return(how)) \/ Fail,
             UNCHANGED <<loop, rows, housekeeping>>,
             reversals' \in [Requests -> Seq(Nat)], faulty' \in BOOLEAN
      PROVE  TypeOK'
  BY <1>3, EndTypes DEF TypeOK, loop, Requests
<1>4. CASE FlatMapFails
  BY <1>3, <1>4 DEF FlatMapFails, ledger, TypeOK
<1>5. CASE Elide
  BY <1>3, <1>5 DEF Elide, Quiet, ledger, TypeOK
<1>6. CASE FirstCall
  BY <1>6 DEF FirstCall, AfterReading, TypeOK, NoAnswer, Answer, Kind, BodyState,
     ledger, Requests
<1>7. CASE CallFails
  BY <1>3, <1>7 DEF CallFails, Quiet, ledger, TypeOK
<1>8. CASE CallAnswers
  <2>1. PICK status \in {200, 400}, invertible \in BOOLEAN, silent \in BOOLEAN :
        \E reading \in Readings(status) :
          LET processed == ProcessResponse(reading, invertible)
              paging == IF silent THEN [token |-> 0, curr |-> 0, total |-> 0]
                                  ELSE PageOf(asked)
          IN /\ answer' = [status |-> status, kind |-> processed.kind,
                           err |-> processed.err, reversal |-> processed.reversal,
                           token |-> paging.token, curr |-> paging.curr,
                           total |-> paging.total]
             /\ faulty' = (faulty \/ silent \/ ~Healthy(status, reading, invertible))
    BY <1>8 DEF CallAnswers
  <2>2. PICK reading \in Readings(status) :
          LET processed == ProcessResponse(reading, invertible)
              paging == IF silent THEN [token |-> 0, curr |-> 0, total |-> 0]
                                  ELSE PageOf(asked)
          IN /\ answer' = [status |-> status, kind |-> processed.kind,
                           err |-> processed.err, reversal |-> processed.reversal,
                           token |-> paging.token, curr |-> paging.curr,
                           total |-> paging.total]
             /\ faulty' = (faulty \/ silent \/ ~Healthy(status, reading, invertible))
    BY <2>1
  <2>3. reading.kind \in Kind /\ reading.err \in BOOLEAN
    BY ReadingTypes
  <2> DEFINE processed == ProcessResponse(reading, invertible)
             paging == IF silent THEN [token |-> 0, curr |-> 0, total |-> 0]
                                 ELSE PageOf(asked)
  <2>4. /\ processed.kind \in Kind
        /\ processed.err \in BOOLEAN
        /\ processed.reversal \in BOOLEAN
    BY <2>3 DEF ProcessResponse, Kind, TypeOK, Config
  <2>5. cfg.pages \in Nat
    BY DEF TypeOK, Config
  <2>6. paging.token \in Nat /\ paging.curr \in Nat /\ paging.total \in Nat
    BY <2>5 DEF PageOf, TypeOK
  <2>7. answer' \in Answer
    <3> HIDE DEF processed, paging
    <3> QED BY <2>2, <2>4, <2>6 DEF Answer, processed, paging
  <2> QED BY <1>8, <2>2, <2>7 DEF CallAnswers, TypeOK, ledger, Requests
<1>9. ASSUME Proceed PROVE reversals' \in [Requests -> Seq(Nat)]
  BY <1>9, AppendedTypes DEF Proceed, TypeOK
<1>10. CASE DespatchUnread
  BY <1>3, <1>10 DEF DespatchUnread, Quiet, ledger, TypeOK
<1>11. CASE ReversalPanics
  BY <1>11 DEF ReversalPanics, TypeOK, loop, ledger, Requests
<1>12. CASE NoResponse
  BY <1>3, <1>9, <1>12 DEF NoResponse, TypeOK
<1>13. CASE ApiError
  BY <1>3, <1>9, <1>13 DEF ApiError, Quiet, TypeOK
<1>14. CASE NoPayload
  BY <1>3, <1>9, <1>14 DEF NoPayload, Quiet, TypeOK
<1>15. CASE BadStatus
  BY <1>3, <1>9, <1>15 DEF BadStatus, Quiet, TypeOK
<1>16. CASE Insert
  <2>1. reversals' \in [Requests -> Seq(Nat)]
    BY <1>9, <1>16 DEF Insert
  <2>2. housekeeping' \in [Requests -> Nat]
    <3>1. [housekeeping EXCEPT ![current] = @ + 1] \in [Requests -> Nat]
      BY CountedTypes DEF TypeOK
    <3> QED BY <1>16, <3>1 DEF Insert, TypeOK
  <2>3. rows' \in [Requests -> Seq(Nat)]
    <3>1. [rows EXCEPT ![current] = Append(@, asked)] \in [Requests -> Seq(Nat)]
      BY AppendedTypes DEF TypeOK
    <3> QED BY <1>16, <3>1 DEF Insert, TypeOK
  <2>4. cfg' = cfg /\ housekeepingDone' \in BOOLEAN /\ faulty' \in BOOLEAN
    BY <1>16 DEF Insert
  <2>5. CASE (\E how \in Quiet : Return(how)) \/ Fail
    BY <1>16, <2>1, <2>2, <2>3, <2>4, <2>5, EndTypes DEF Insert, TypeOK, Requests
  <2>6. CASE pc' = "page" /\ UNCHANGED <<current, ownBody, outcome, result>>
    BY <1>16, <2>1, <2>2, <2>3, <2>4, <2>6 DEF Insert, TypeOK, Requests
  <2> QED BY <1>16, <2>5, <2>6 DEF Insert, Quiet
<1>17. CASE NoNextPage
  BY <1>3, <1>17 DEF NoNextPage, Quiet, ledger, TypeOK
<1>18. CASE SetNextPageFails
  BY <1>3, <1>18 DEF SetNextPageFails, Quiet, ledger, TypeOK
<1>19. CASE NextPage
  BY <1>19, NextTokenTypes DEF NextPage, NextBody, BodyState, TypeOK, ledger, Requests
<1>20. CASE UNCHANGED vars
  BY <1>20 DEF vars, TypeOK, loop, ledger, Requests
<1> QED BY <1>1, <1>2, <1>4, <1>5, <1>6, <1>7, <1>8, <1>10, <1>11, <1>12, <1>13,
        <1>14, <1>15, <1>16, <1>17, <1>18, <1>19, <1>20 DEF Next

(* Every invocation keeps the types of its state.                          *)
THEOREM TypeCorrect == Spec => []TypeOK
  BY TypeInit, TypePreserved, PTL DEF Spec
-----------------------------------------------------------------------------
(* THE INDUCTIVE INVARIANT *)

Active == pc \in {"request", "call", "process", "page"}

(* The request in hand is one of the invocation's, and while it is worked  *)
(* on there is no result.                                                  *)
Place ==
  /\ pc = "start" => current = 0 /\ result = "pending"
  /\ Active => current \in Requests /\ result = "pending"
  /\ result = "ok" => current > cfg.requests

(* What a request leaves behind, while it is worked on and afterwards.     *)
GoodRecord(kept, inserted) ==
  /\ kept <= 1
  /\ inserted # <<>> => kept = 1
  /\ cfg.advancing => \A i \in 1 .. Len(inserted) : inserted[i] = i
  /\ cfg.pageLimit > 0 => Len(inserted) <= cfg.pageLimit

GoodRecords == \A r \in Requests : GoodRecord(housekeeping[r], rows[r])

(* The requests whose turn has not come have left nothing behind.          *)
Untouched ==
  \A q \in Requests :
    (q > current \/ (q = current /\ pc = "request")) =>
      rows[q] = <<>> /\ housekeeping[q] = 0

(* The requests before the one in hand ended without an error, the ones    *)
(* after it have not ended, and only the one in hand can have failed.      *)
Ends ==
  \A r \in Requests :
    /\ r < current => outcome[r] \in Quiet
    /\ r > current => outcome[r] = "none"
    /\ Active /\ r = current => outcome[r] = "none"
    /\ outcome[r] = "error" => result = "error"
    /\ outcome[r] = "delivered" => rows[r] # <<>>

(* The page loop: pageCount is the page in hand, the pages before it are   *)
(* in the table, and the answer leads to the page after it or to none.     *)
PageInHand ==
  /\ pc \in {"call", "process", "page"} =>
       /\ pageCount >= 1
       /\ housekeeping[current] = IF housekeepingDone THEN 1 ELSE 0
       /\ cfg.advancing => asked = pageCount
  /\ pc \in {"call", "process"} => Len(rows[current]) = pageCount - 1
  /\ pc = "page" => Len(rows[current]) = pageCount
  /\ (pc \in {"process", "page"} /\ cfg.advancing) =>
       answer.token \in {0, asked + 1} /\ answer.curr \in {0, asked}
  /\ cfg.pageLimit > 0 => pageCount <= cfg.pageLimit

(* An inductive invariant of an invocation.                                *)
IInv ==
  /\ TypeOK
  /\ Place
  /\ GoodRecords
  /\ Untouched
  /\ Ends
  /\ PageInHand

(* It holds before the first request.                                      *)
LEMMA InvInit == Init => IInv
<1> SUFFICES ASSUME Init PROVE IInv
  OBVIOUS
<1>1. TypeOK
  BY TypeInit
<1>2. cfg.requests \in Nat /\ cfg.pageLimit \in Nat
  BY <1>1 DEF TypeOK, Config
<1>3. GoodRecords
  BY <1>2 DEF Init, GoodRecord, GoodRecords
<1> QED BY <1>1, <1>2, <1>3 DEF Init, IInv, Place, Active, Untouched, Ends, PageInHand,
        Requests

(* Ending the request in hand keeps the invariant if its own records are   *)
(* good: without an error the next request takes its turn, with one there  *)
(* is none.                                                                *)
LEMMA EndKeeps ==
  ASSUME IInv, TypeOK', Active, cfg' = cfg, pageCount' = pageCount,
         \A q \in Requests : q # current =>
            rows'[q] = rows[q] /\ housekeeping'[q] = housekeeping[q],
         GoodRecord(housekeeping'[current], rows'[current]),
         \/ \E how \in Quiet :
           Return(how) /\ (how = "delivered" => rows'[current] # <<>>)
         \/ Fail
  PROVE  IInv'
<1>1. /\ Requests' = Requests
      /\ cfg.requests \in Nat
      /\ current \in Requests
      /\ current \in Nat
      /\ result = "pending"
      /\ pc \in {"request", "call", "process", "page"}
  BY DEF IInv, Place, Active, TypeOK, Config, Requests
<1>2. GoodRecords'
  BY <1>1 DEF IInv, GoodRecords, GoodRecord
<1>3. \A q \in Requests : q > current =>
        rows'[q] = <<>> /\ housekeeping'[q] = 0 /\ outcome[q] = "none"
  BY <1>1 DEF IInv, Untouched, Ends, Requests
<1>4. \A q \in Requests : q # current =>
        /\ outcome[q] # "error"
        /\ outcome[q] = "delivered" => rows'[q] # <<>>
        /\ q < current => outcome[q] \in Quiet
  BY <1>1 DEF IInv, Ends
<1>5. CASE \E how \in Quiet :
           Return(how) /\ (how = "delivered" => rows'[current] # <<>>)
  <2>1. PICK how \in Quiet :
           Return(how) /\ (how = "delivered" => rows'[current] # <<>>)
    BY <1>5
  <2>2. /\ outcome' = [outcome EXCEPT ![current] = how]
        /\ current' = current + 1
        /\ \/ pc' = "done" /\ result' = "ok" /\ current' > cfg.requests
           \/ pc' = "request" /\ result' = "pending" /\ current' \in Requests
    <3>1. outcome' = [outcome EXCEPT ![current] = how] /\ Turn(current + 1)
      BY <2>1 DEF Return
    <3> QED BY <1>1, <3>1 DEF Turn, Requests
  <2>3. Place'
    BY <1>1, <2>2 DEF Place, Active
  <2>4. Untouched'
    BY <1>1, <1>3, <2>2 DEF Untouched, Requests
  <2>5. Ends'
    <3>1. \A q \in Requests : outcome'[q] = IF q = current THEN how ELSE outcome[q]
      BY <2>2 DEF IInv, TypeOK
    <3>2. how # "error"
      BY DEF Quiet
    <3>3. \A q \in Requests : (q < current' => outcome'[q] \in Quiet)
                             /\ (q >= current' => outcome'[q] = "none")
      BY <1>1, <1>3, <1>4, <2>2, <3>1 DEF Requests
    <3>4. \A q \in Requests : outcome'[q] # "error"
                             /\ (outcome'[q] = "delivered" => rows'[q] # <<>>)
      <4>1. ASSUME NEW q \in Requests
            PROVE  outcome'[q] # "error" /\ (outcome'[q] = "delivered" => rows'[q] # <<>>)
        <5>1. CASE q = current
          BY <2>1, <3>1, <3>2, <5>1
        <5>2. CASE q # current
          BY <1>4, <3>1, <5>2
        <5> QED BY <5>1, <5>2
      <4> QED BY <4>1
    <3> QED BY <1>1, <2>2, <3>3, <3>4 DEF Ends, Requests
  <2>6. PageInHand'
    BY <2>2 DEF IInv, PageInHand
  <2> QED BY <1>2, <2>3, <2>4, <2>5, <2>6 DEF IInv
<1>6. CASE Fail
  <2>1. /\ outcome' = [outcome EXCEPT ![current] = "error"]
        /\ current' = current
        /\ pc' = "done"
        /\ result' = "error"
    BY <1>6 DEF Fail
  <2>2. Place'
    BY <2>1 DEF Place, Active
  <2>3. Untouched'
    BY <1>1, <1>3, <2>1 DEF Untouched
  <2>4. Ends'
    <3>1. \A q \in Requests : outcome'[q] = IF q = current THEN "error" ELSE outcome[q]
      BY <2>1 DEF IInv, TypeOK
    <3> QED BY <1>1, <1>3, <1>4, <2>1, <3>1 DEF Ends, Active, Requests
  <2>5. PageInHand'
    BY <2>1 DEF IInv, PageInHand
  <2> QED BY <1>2, <2>2, <2>3, <2>4, <2>5 DEF IInv
<1> QED BY <1>5, <1>6
(* The request in hand, before anything is inserted for it in this step.   *)
LEMMA InHand ==
  ASSUME IInv, Active
  PROVE  /\ current \in Requests
         /\ GoodRecord(housekeeping[current], rows[current])
  BY DEF IInv, Place, GoodRecords

(* Ending the request in hand with its records as they are.                *)
LEMMA PlainEndKeeps ==
  ASSUME IInv, TypeOK', Active, cfg' = cfg, pageCount' = pageCount,
         UNCHANGED <<rows, housekeeping>>,
         \/ \E how \in Quiet :
              Return(how) /\ (how = "delivered" => rows[current] # <<>>)
         \/ Fail
  PROVE  IInv'
  BY InHand, EndKeeps

(* The insert of a page adds the page in hand to the records: the next in  *)
(* order, within the limit, after the house was kept.                      *)
LEMMA InsertRecords ==
  ASSUME IInv, Insert
  PROVE  /\ \A q \in Requests : q # current =>
              rows'[q] = rows[q] /\ housekeeping'[q] = housekeeping[q]
         /\ housekeeping'[current] = 1
         /\ \/ rows' = rows
            \/ Len(rows'[current]) = pageCount
         /\ GoodRecord(housekeeping'[current], rows'[current])
<1>1. /\ pc = "process"
      /\ Active
      /\ current \in Requests
  BY InHand DEF Insert, Proceed, Active
<1>2. /\ rows \in [Requests -> Seq(Nat)]
      /\ housekeeping \in [Requests -> Nat]
      /\ asked \in Nat /\ pageCount \in Nat
      /\ cfg.pageLimit \in Nat
  BY DEF IInv, TypeOK, Config
<1>3. /\ pageCount >= 1
      /\ Len(rows[current]) = pageCount - 1
      /\ housekeeping[current] = IF housekeepingDone THEN 1 ELSE 0
      /\ cfg.advancing => asked = pageCount
      /\ cfg.pageLimit > 0 => pageCount <= cfg.pageLimit
  BY <1>1 DEF IInv, PageInHand
<1>4. housekeepingDone \in BOOLEAN
  BY DEF IInv, TypeOK
<1>5. housekeeping' = IF housekeepingDone THEN housekeeping
                      ELSE [housekeeping EXCEPT ![current] = @ + 1]
  BY DEF Insert, KeptHouse
<1>6. /\ housekeeping'[current] = 1
      /\ \A q \in Requests : q # current => housekeeping'[q] = housekeeping[q]
  BY <1>1, <1>2, <1>3, <1>4, <1>5
<1>7. rows' = rows \/ rows' = [rows EXCEPT ![current] = Append(@, asked)]
  BY DEF Insert
<1>8. CASE rows' = rows
  <2>1. GoodRecord(housekeeping[current], rows[current])
    BY <1>1, InHand
  <2>2. GoodRecord(housekeeping'[current], rows'[current])
    BY <1>6, <1>8, <2>1 DEF GoodRecord
  <2> QED BY <1>6, <1>8, <2>2
<1>9. CASE rows' = [rows EXCEPT ![current] = Append(@, asked)]
  <2>1. rows'[current] = Append(rows[current], asked)
    BY <1>1, <1>2, <1>9
  <2>2. \A q \in Requests : q # current => rows'[q] = rows[q]
    BY <1>2, <1>9
  <2>3. /\ Len(rows'[current]) = pageCount
        /\ \A i \in 1 .. pageCount - 1 : rows'[current][i] = rows[current][i]
        /\ rows'[current][pageCount] = asked
    BY <1>1, <1>2, <1>3, <2>1
  <2>4. cfg.advancing => \A i \in 1 .. pageCount - 1 : rows[current][i] = i
    BY <1>1, <1>3, InHand DEF GoodRecord
  <2>5. GoodRecord(housekeeping'[current], rows'[current])
    BY <1>2, <1>3, <1>6, <2>3, <2>4 DEF GoodRecord
  <2> QED BY <1>6, <2>2, <2>3, <2>5
<1> QED BY <1>7, <1>8, <1>9

(* The next page is the one after the page in hand.                        *)
LEMMA NextTokenIsNext ==
  ASSUME IInv, pc = "page", cfg.advancing, NextToken # 0
  PROVE  NextToken = asked + 1
<1>1. answer.token \in {0, asked + 1} /\ answer.curr \in {0, asked}
  BY DEF IInv, PageInHand
<1> QED BY <1>1 DEF NextToken, extractNextPageToken, extractPageNumberNextToken
(* Every step of the invocation keeps the invariant.                       *)
LEMMA InvPreserved == IInv /\ [Next]_vars => IInv'
<1> SUFFICES ASSUME IInv, [Next]_vars PROVE IInv'
  OBVIOUS
<1>1. TypeOK /\ TypeOK'
  BY TypePreserved DEF IInv
<1>2. cfg.requests \in Nat /\ cfg.pageLimit \in Nat
  BY <1>1 DEF TypeOK, Config
<1>3. CASE ArmouryFails
  <2>1. /\ pc = "start" /\ pc' = "done" /\ result' = "error"
        /\ UNCHANGED <<cfg, current, rows, housekeeping, outcome, pageCount>>
    BY <1>3 DEF ArmouryFails, loop, ledger
  <2> QED BY <1>1, <2>1 DEF IInv, Place, Active, GoodRecords, GoodRecord, Untouched,
          Ends, PageInHand, Requests
<1>4. CASE Begin
  <2>1. /\ pc = "start" /\ current = 0 /\ current' = 1 /\ result = "pending"
        /\ UNCHANGED <<cfg, rows, housekeeping, outcome, pageCount>>
        /\ \/ pc' = "done" /\ result' = "ok" /\ 1 > cfg.requests
           \/ pc' = "request" /\ result' = result /\ 1 \in Requests
    BY <1>2, <1>4 DEF Begin, Turn, loop, ledger, IInv, Place, Requests
  <2>2. \A q \in Requests : /\ rows[q] = <<>> /\ housekeeping[q] = 0
                            /\ outcome[q] = "none"
    BY <1>2, <2>1 DEF IInv, Untouched, Ends, Requests
  <2>3. Place' /\ GoodRecords' /\ Untouched'
    BY <2>1, <2>2 DEF IInv, Place, Active, GoodRecords, GoodRecord, Untouched, Requests
  <2>4. Ends' /\ PageInHand'
    BY <1>2, <2>1, <2>2 DEF IInv, Ends, Active, PageInHand, Requests
  <2> QED BY <1>1, <2>3, <2>4 DEF IInv
<1>5. CASE FlatMapFails
  BY <1>1, <1>5, PlainEndKeeps DEF FlatMapFails, Active, loop, ledger
<1>6. CASE Elide
  <2>1. \E how \in Quiet : Return(how) /\ (how = "delivered" => rows[current] # <<>>)
    BY <1>6 DEF Elide, Quiet
  <2> QED BY <1>1, <1>6, <2>1, PlainEndKeeps DEF Elide, Active, loop, ledger
<1>7. CASE FirstCall
  <2>1. /\ pc = "request" /\ pc' = "call" /\ asked' = 1 /\ pageCount' = 1
        /\ housekeepingDone' = FALSE
        /\ UNCHANGED <<cfg, current, rows, housekeeping, outcome, result>>
    BY <1>7 DEF FirstCall, ledger
  <2>2. current \in Requests /\ rows[current] = <<>> /\ housekeeping[current] = 0
    BY <2>1 DEF IInv, Place, Active, Untouched
  <2>3. Place' /\ GoodRecords' /\ Untouched' /\ Ends'
    BY <2>1 DEF IInv, Place, Active, GoodRecords, GoodRecord, Untouched, Ends, Requests
  <2>4. PageInHand'
    BY <1>2, <2>1, <2>2 DEF PageInHand
  <2> QED BY <1>1, <2>3, <2>4 DEF IInv
<1>8. CASE CallFails
  <2>1. pc = "call" /\ cfg' = cfg /\ pageCount' = pageCount
        /\ UNCHANGED <<rows, housekeeping>>
    BY <1>8 DEF CallFails, loop, ledger
  <2>2. CASE pageCount = 1
    BY <1>1, <1>8, <2>1, <2>2, PlainEndKeeps DEF CallFails, Active
  <2>3. CASE pageCount # 1
    <3>1. rows[current] # <<>>
      BY <1>1, <2>1, <2>3 DEF IInv, PageInHand, TypeOK
    <3>2. \E how \in Quiet : Return(how) /\ (how = "delivered" => rows[current] # <<>>)
      BY <1>8, <2>3, <3>1 DEF CallFails, Quiet
    <3> QED BY <1>1, <2>1, <3>2, PlainEndKeeps DEF Active
  <2> QED BY <2>2, <2>3
<1>9. CASE CallAnswers
  <2>1. /\ pc = "call" /\ pc' = "process"
        /\ UNCHANGED <<cfg, current, asked, pageCount, housekeepingDone, rows,
                       housekeeping, outcome, result>>
    BY <1>9 DEF CallAnswers, ledger
  <2>2. cfg.advancing => answer'.token \in {0, asked + 1} /\ answer'.curr \in {0, asked}
    BY <1>9 DEF CallAnswers, PageOf
  <2>3. Place' /\ GoodRecords' /\ Untouched' /\ Ends'
    BY <2>1 DEF IInv, Place, Active, GoodRecords, GoodRecord, Untouched, Ends, Requests
  <2>4. PageInHand'
    BY <2>1, <2>2 DEF IInv, PageInHand
  <2> QED BY <1>1, <2>3, <2>4 DEF IInv
<1>10. CASE DespatchUnread
  <2>1. \E how \in Quiet : Return(how) /\ (how = "delivered" => rows[current] # <<>>)
    BY <1>10 DEF DespatchUnread, Quiet
  <2> QED BY <1>1, <1>10, <2>1, PlainEndKeeps DEF DespatchUnread, Active, loop, ledger
<1>11. CASE ReversalPanics
  <2>1. /\ pc = "process" /\ pc' = "done" /\ result' = "panic"
        /\ outcome' = [outcome EXCEPT ![current] = "panic"]
        /\ UNCHANGED <<cfg, current, rows, housekeeping, pageCount>>
    BY <1>11 DEF ReversalPanics, loop, ledger
  <2>2. Place' /\ GoodRecords' /\ Untouched' /\ PageInHand'
    BY <2>1 DEF IInv, Place, Active, GoodRecords, GoodRecord, Untouched, PageInHand,
       Requests
  <2>3. \A q \in Requests : outcome'[q] = IF q = current THEN "panic" ELSE outcome[q]
    BY <1>1, <2>1 DEF TypeOK
  <2>4. result = "pending" /\ current \in Nat
    BY <1>1, <2>1 DEF IInv, Place, Active, TypeOK
  <2>5. Ends'
    BY <2>1, <2>3, <2>4 DEF IInv, Ends, Active, Requests
  <2> QED BY <1>1, <2>2, <2>5 DEF IInv
<1>12. CASE NoResponse
  BY <1>1, <1>12, PlainEndKeeps DEF NoResponse, Proceed, Active, loop
<1>13. CASE ApiError \/ NoPayload \/ BadStatus
  <2>1. /\ pc = "process" /\ cfg' = cfg /\ pageCount' = pageCount
        /\ UNCHANGED <<rows, housekeeping>>
    BY <1>13 DEF ApiError, NoPayload, BadStatus, Proceed, loop
  <2>2. \E how \in Quiet : Return(how) /\ (how = "delivered" => rows[current] # <<>>)
    BY <1>13 DEF ApiError, NoPayload, BadStatus, Quiet
  <2> QED BY <1>1, <2>1, <2>2, PlainEndKeeps DEF Active
<1>14. CASE Insert
  <2>1. /\ pc = "process" /\ Active /\ cfg' = cfg /\ pageCount' = pageCount
        /\ asked' = asked /\ answer' = answer /\ housekeepingDone' = TRUE
    BY <1>14 DEF Insert, Proceed, Active
  <2>2. CASE Return("despatched") \/ Fail
    <3>1. \/ \E how \in Quiet : Return(how) /\ (how = "delivered" => rows'[current] # <<>>)
          \/ Fail
      BY <2>2 DEF Quiet
    <3> QED BY <1>1, <1>14, <2>1, <3>1, InsertRecords, EndKeeps
  <2>3. CASE /\ rows' = [rows EXCEPT ![current] = Append(@, asked)]
             /\ pc' = "page"
             /\ UNCHANGED <<current, ownBody, outcome, result>>
    <3>1. GoodRecords'
      BY <1>14, <2>1, <2>3, InsertRecords DEF IInv, GoodRecords, GoodRecord, Requests
    <3>2. current \in Requests /\ Len(rows[current]) = pageCount - 1
      BY <2>1 DEF IInv, Place, PageInHand
    <3>3. rows'[current] = Append(rows[current], asked)
      BY <1>1, <2>3, <3>2 DEF TypeOK
    <3>4. Len(rows'[current]) = pageCount /\ rows'[current] # <<>>
      <4>1. rows[current] \in Seq(Nat) /\ asked \in Nat
        BY <1>1, <3>2 DEF TypeOK
      <4>2. pageCount \in Nat /\ pageCount >= 1
        BY <1>1, <2>1 DEF IInv, PageInHand, TypeOK
      <4>3. Len(Append(rows[current], asked)) = Len(rows[current]) + 1
        BY <4>1
      <4>4. Len(rows'[current]) = pageCount
        BY <3>2, <3>3, <4>2, <4>3
      <4>5. Len(<<>>) = 0
        OBVIOUS
      <4> QED BY <4>2, <4>4, <4>5
    <3>5. Place'
      BY <2>1, <2>3 DEF IInv, Place, Active, Requests
    <3>6. \A q \in Requests : q # current =>
            rows'[q] = rows[q] /\ housekeeping'[q] = housekeeping[q]
      BY <1>14, InsertRecords
    <3>7. Untouched' /\ Ends'
      BY <1>1, <2>1, <2>3, <3>4, <3>6 DEF IInv, Untouched, Ends, Active, Requests, TypeOK
    <3>8. housekeeping'[current] = 1
      BY <1>14, InsertRecords
    <3>9. PageInHand'
      BY <2>1, <2>3, <3>4, <3>8 DEF IInv, PageInHand
    <3> QED BY <1>1, <3>1, <3>5, <3>7, <3>9 DEF IInv
  <2> QED BY <1>14, <2>2, <2>3 DEF Insert
<1>15. CASE NoNextPage \/ SetNextPageFails
  <2>1. /\ pc = "page" /\ cfg' = cfg /\ pageCount' = pageCount
        /\ UNCHANGED <<rows, housekeeping>>
    BY <1>15 DEF NoNextPage, SetNextPageFails, loop, ledger
  <2>2. rows[current] # <<>>
    BY <1>1, <2>1 DEF IInv, PageInHand, TypeOK
  <2>3. \E how \in Quiet : Return(how) /\ (how = "delivered" => rows[current] # <<>>)
    BY <1>15, <2>2 DEF NoNextPage, SetNextPageFails, Quiet
  <2> QED BY <1>1, <2>1, <2>3, PlainEndKeeps DEF Active
<1>16. CASE NextPage
  <2>1. /\ pc = "page" /\ pc' = "call" /\ asked' = NextToken /\ NextToken # 0
        /\ pageCount' = pageCount + 1
        /\ UNCHANGED <<cfg, current, housekeepingDone, rows, housekeeping, outcome, result>>
    BY <1>16 DEF NextPage, ledger
  <2>2. cfg.advancing => asked' = asked + 1
    BY <2>1, NextTokenIsNext
  <2>3. cfg.pageLimit > 0 => pageCount < cfg.pageLimit
    BY <1>1, <1>2, <1>16 DEF NextPage, AtPageLimit, TypeOK
  <2>4. Place' /\ GoodRecords' /\ Untouched' /\ Ends'
    BY <2>1 DEF IInv, Place, Active, GoodRecords, GoodRecord, Untouched, Ends, Requests
  <2>5. PageInHand'
    BY <1>1, <1>2, <2>1, <2>2, <2>3 DEF IInv, PageInHand, TypeOK
  <2> QED BY <1>1, <2>4, <2>5 DEF IInv
<1>17. CASE UNCHANGED vars
  BY <1>1, <1>17 DEF vars, loop, ledger, IInv, Place, Active, GoodRecords, GoodRecord,
     Untouched, Ends, PageInHand, Requests
<1> QED BY <1>3, <1>4, <1>5, <1>6, <1>7, <1>8, <1>9, <1>10, <1>11, <1>12, <1>13,
        <1>14, <1>15, <1>16, <1>17 DEF Next

(* The inductive invariant holds throughout every invocation.              *)
THEOREM Invariance == Spec => []IInv
  BY InvInit, InvPreserved, PTL DEF Spec

-----------------------------------------------------------------------------
(* THE PROPERTIES *)

(* Pages are inserted in order, none twice and none skipped, for every     *)
(* number of requests and pages and whatever fails (Process, page).        *)
THEOREM InOrder == Spec => []PagesInOrder
<1>1. IInv => PagesInOrder
  BY DEF IInv, GoodRecords, GoodRecord, PagesInOrder
<1> QED BY <1>1, Invariance, PTL

(* The page limit bounds the calls and the pages of every request, also    *)
(* against a server that never runs out of pages (page).                   *)
THEOREM WithinPageLimit == Spec => []PageLimitRespected
<1>1. IInv => PageLimitRespected
  BY DEF IInv, GoodRecords, GoodRecord, PageInHand, PageLimitRespected
<1> QED BY <1>1, Invariance, PTL

(* The preparator keeps house once per request, before its first rows      *)
(* (Process's housekeepingDone).                                           *)
THEOREM HouseKeptOnce == Spec => []HousekeepingOnce
<1>1. IInv => HousekeepingOnce
  BY DEF IInv, GoodRecords, GoodRecord, HousekeepingOnce
<1> QED BY <1>1, Invariance, PTL

(* The first error is the result, and no later request is made             *)
(* (agnosticate).                                                          *)
THEOREM FirstErrorEnds == Spec => []ErrorEndsInvocation
<1>1. IInv => ErrorEndsInvocation
  <2> SUFFICES ASSUME IInv, NEW r \in Requests
               PROVE  /\ outcome[r] = "error" =>
                           /\ result = "error"
                           /\ \A q \in Requests : q > r =>
                                 outcome[q] = "none" /\ rows[q] = <<>>
                      /\ result = "ok" => outcome[r] \in Quiet
    BY DEF ErrorEndsInvocation
  <2>1. cfg.requests \in Nat /\ current \in Nat /\ r \in Nat
    BY DEF IInv, TypeOK, Config, Requests
  <2>2. ASSUME outcome[r] = "error"
        PROVE  result = "error" /\ r = current
    <3>1. "error" \notin Quiet
      BY DEF Quiet
    <3> QED BY <2>1, <2>2, <3>1 DEF IInv, Ends
  <2>3. \A q \in Requests : q > current => outcome[q] = "none" /\ rows[q] = <<>>
    BY DEF IInv, Ends, Untouched
  <2>4. result = "ok" => outcome[r] \in Quiet
    BY <2>1 DEF IInv, Place, Ends, Requests
  <2> QED BY <2>2, <2>3, <2>4
<1> QED BY <1>1, Invariance, PTL

(* A request that counts as delivered has delivered its first page         *)
(* (Process's first call).                                                 *)
THEOREM FirstPageDelivered == Spec => []DeliveredHasFirstPage
<1>1. IInv => DeliveredHasFirstPage
  BY DEF IInv, Ends, DeliveredHasFirstPage
<1> QED BY <1>1, Invariance, PTL

(* A request inserts the first pages of the server, and no more than       *)
(* HTTPPageLimit of them (Process and page).                                *)
THEOREM FirstPages == Spec => []FirstPagesOnly
BY InOrder, WithinPageLimit, PTL DEF FirstPagesOnly


-----------------------------------------------------------------------------
(* READING TO THE END *)

(* Where no second page is had, and how many are.                          *)
OnePageOnly == SinglePage \/ TokenNotSent
PagesHad == IF OnePageOnly THEN 1 ELSE PagesToRead
Had(r) == outcome[r] # "elided" => Len(rows[r]) = PagesHad

(* What the body of the prepared request holds.                            *)
Bodies ==
  /\ pc = "request" => ownBody = GivenBody
  /\ pc \in {"call", "process", "page"} => ownBody = AfterReading(GivenBody)

(* A second page is had only where the paging can be done: where it cannot *)
(* the call for it is never made, or carries a body that was read before.  *)
Stops ==
  /\ pc \in {"process", "page"} /\ OnePageOnly => pageCount = 1
  /\ pc = "page" => ~(cfg.nilOK /\ cfg.isMutation /\ ~cfg.isAwait)
  /\ pc = "call" /\ pageCount = 1 => carried # "drained"
  /\ pc = "call" /\ pageCount # 1 =>
       IF OnePageOnly THEN pageCount = 2 /\ carried = "drained" ELSE carried # "drained"

(* The answers of a server that does not fail.                             *)
Undisturbed == ~faulty /\ cfg.advancing

Understood ==
  /\ pc \in {"call", "process", "page"} => pageCount <= cfg.pages \/ OnePageOnly
  /\ pc \in {"process", "page"} =>
       /\ answer.kind = "items" /\ answer.status = 200 /\ ~answer.err
       /\ answer.token = IF asked < cfg.pages THEN asked + 1 ELSE 0
       /\ answer.curr = asked /\ answer.total = cfg.pages

(* The requests behind were read to the end, and at the end all are behind.*)
AllRead ==
  /\ pc = "done" => current > cfg.requests
  /\ \A r \in Requests : r < current => Had(r)

ReadInv == Bodies /\ Stops /\ (Undisturbed => Understood /\ AllRead)

LEMMA ReadInit == Init => ReadInv
<1> SUFFICES ASSUME Init PROVE ReadInv
  OBVIOUS
<1>1. pc = "start" /\ current = 0 /\ cfg.requests \in Nat
  BY TypeInit DEF Init, TypeOK, Config
<1> QED BY <1>1 DEF ReadInv, Bodies, Stops, Understood, AllRead, Requests

(* What is to be read depends on the invocation alone.                     *)
LEMMA PlanStays ==
  ASSUME cfg' = cfg
  PROVE  /\ OnePageOnly' = OnePageOnly /\ PagesHad' = PagesHad /\ GivenBody' = GivenBody
         /\ Requests' = Requests
  BY DEF OnePageOnly, SinglePage, TokenNotSent, PagesHad, PagesToRead, GivenBody, Requests, inferNextPageResponseElement, inferNextPageRequestElement

LEMMA PlanFacts ==
  ASSUME TypeOK
  PROVE  /\ cfg.pages \in Nat \ {0} /\ cfg.pageLimit \in Nat /\ cfg.requests \in Nat
         /\ current \in Nat /\ pageCount \in Nat
         /\ cfg.hasBody \in BOOLEAN
<1>1. cfg.pages \in Nat \ {0} /\ cfg.pageLimit \in Nat /\ cfg.requests \in Nat
  BY DEF TypeOK, Config
<1>2. cfg.hasBody \in BOOLEAN
  BY DEF TypeOK, Config
<1> QED BY <1>1, <1>2 DEF TypeOK

(* A request that ends without an error, after all there was to read.      *)
LEMMA TurnReads ==
  ASSUME IInv, ReadInv, Active, cfg' = cfg, NEW how, Return(how),
         \A q \in Requests : q # current => rows'[q] = rows[q],
         Undisturbed' => Undisturbed /\ (how # "elided" => Len(rows'[current]) = PagesHad)
  PROVE  ReadInv'
<1>1. /\ current \in Requests /\ current \in Nat /\ cfg.requests \in Nat
      /\ outcome' = [outcome EXCEPT ![current] = how] /\ current' = current + 1
      /\ outcome = [r \in Requests |-> outcome[r]]
  BY PlanFacts DEF IInv, Place, Return, Turn, TypeOK
<1>2. \/ pc' = "done" /\ current' > cfg.requests
      \/ pc' = "request" /\ ownBody' = GivenBody
  BY <1>1 DEF Return, Turn
<1>3. Requests' = Requests /\ PagesHad' = PagesHad /\ GivenBody' = GivenBody
  BY PlanStays
<1>4. ASSUME Undisturbed', NEW r \in Requests, r < current' PROVE Had(r)'
  <2>1. r \in Nat /\ Undisturbed
    BY <1>1, <1>4 DEF Requests
  <2>2. CASE r = current
    BY <1>1, <1>3, <1>4, <2>2 DEF Had
  <2>3. CASE r # current
    <3>1. r < current /\ outcome'[r] = outcome[r] /\ rows'[r] = rows[r]
      BY <1>1, <1>4, <2>1, <2>3
    <3>2. Had(r)
      BY <2>1, <3>1 DEF ReadInv, AllRead
    <3> QED BY <1>3, <3>1, <3>2 DEF Had
  <2> QED BY <2>2, <2>3
<1> QED BY <1>2, <1>3, <1>4 DEF ReadInv, Bodies, Stops, Understood, AllRead

(* The end of an invocation that was disturbed.                            *)
LEMMA DisturbedReads ==
  ASSUME pc' = "done", ~Undisturbed'
  PROVE  ReadInv'
  BY DEF ReadInv, Bodies, Stops

(* Without a disturbance, a page that leads nowhere, or at the limit, is   *)
(* the last one to read.                                                   *)
LEMMA LastPage ==
  ASSUME IInv, ReadInv, Undisturbed, pc = "page", NextToken = 0 \/ AtPageLimit
  PROVE  Len(rows[current]) = PagesHad
<1>1. /\ cfg.pages \in Nat \ {0} /\ cfg.pageLimit \in Nat /\ pageCount \in Nat /\ pageCount >= 1
      /\ Len(rows[current]) = pageCount /\ asked = pageCount /\ (cfg.pageLimit > 0 => pageCount <= cfg.pageLimit)
  BY PlanFacts DEF IInv, PageInHand, Undisturbed
<1>2. CASE OnePageOnly
  BY <1>1, <1>2 DEF ReadInv, Stops, PagesHad, PagesToRead
<1>3. CASE ~OnePageOnly
  <2>1. /\ pageCount <= cfg.pages
        /\ answer.token = IF asked < cfg.pages THEN asked + 1 ELSE 0
        /\ answer.curr = asked /\ answer.total = cfg.pages
    BY <1>3 DEF ReadInv, Understood
  <2>2. NextToken = 0 => pageCount = cfg.pages
    <3>1. \A x : extractNextPageToken(x) = x
      BY <1>3 DEF extractNextPageToken, OnePageOnly, SinglePage, TokenNotSent
    <3>2. NextToken = 0 => ~(asked < cfg.pages)
      BY <1>1, <2>1, <3>1 DEF NextToken, extractPageNumberNextToken
    <3> QED BY <1>1, <2>1, <3>2
  <2>3. AtPageLimit => pageCount = cfg.pageLimit
    BY <1>1 DEF AtPageLimit
  <2> QED BY <1>1, <1>3, <2>1, <2>2, <2>3 DEF PagesHad, PagesToRead, AtPageLimit
<1> QED BY <1>2, <1>3


LEMMA ReadInductive == IInv /\ ReadInv /\ [Next]_vars => ReadInv'
<1> SUFFICES ASSUME IInv, ReadInv, [Next]_vars PROVE ReadInv'
  OBVIOUS
<1> USE DEF loop, ledger
<1>0. cfg' = cfg
  BY DEF Next, vars, ArmouryFails, Begin, FlatMapFails, Elide, FirstCall, CallFails, CallAnswers, DespatchUnread,
         ReversalPanics, NoResponse, ApiError, NoPayload, BadStatus, Insert, NoNextPage, SetNextPageFails, NextPage
<1>1. /\ OnePageOnly' = OnePageOnly /\ PagesHad' = PagesHad /\ GivenBody' = GivenBody /\ Requests' = Requests
  BY <1>0, PlanStays
<1>2. /\ TypeOK /\ cfg.pages \in Nat \ {0} /\ cfg.pageLimit \in Nat /\ cfg.requests \in Nat /\ current \in Nat
      /\ pageCount \in Nat
  BY PlanFacts DEF IInv
<1>r. ASSUME UNCHANGED <<outcome, rows, current, faulty>>, pc # "done", pc' # "done"
      PROVE  (Undisturbed => AllRead) => (Undisturbed' => AllRead')
  BY <1>0, <1>1, <1>r DEF Undisturbed, AllRead, Had
<1>3. CASE ArmouryFails \/ FlatMapFails
  BY <1>3, DisturbedReads DEF ArmouryFails, FlatMapFails, Fail, Undisturbed
<1>4. CASE Begin
  <2>1. /\ current' = 1
        /\ \/ pc' = "done" /\ current' > cfg.requests
           \/ pc' = "request" /\ ownBody' = GivenBody
    BY <1>2, <1>4 DEF Begin, Turn
  <2>2. \A r \in Requests : ~(r < 1)
    BY <1>2 DEF Requests
  <2> QED BY <1>0, <1>1, <2>1, <2>2 DEF ReadInv, Bodies, Stops, Understood, AllRead
<1>5. CASE Elide
  BY <1>0, <1>5, TurnReads DEF Elide, Active, Undisturbed
<1>6. CASE FirstCall
  <2>1. /\ pc = "request" /\ pc' = "call" /\ pageCount' = 1 /\ carried' = ownBody
        /\ ownBody' = AfterReading(ownBody) /\ UNCHANGED <<outcome, rows, current, faulty>>
    BY <1>6 DEF FirstCall
  <2>2. ownBody = GivenBody /\ ownBody # "drained"
    BY <2>1 DEF ReadInv, Bodies, GivenBody
  <2>3. Bodies' /\ Stops'
    BY <1>1, <2>1, <2>2 DEF Bodies, Stops, AfterReading
  <2>4. Understood'
    BY <1>0, <1>2, <2>1 DEF Understood
  <2> QED BY <1>r, <2>1, <2>3, <2>4 DEF ReadInv
<1>7. CASE CallFails
  <2>1. pc = "call" /\ UNCHANGED rows /\ faulty' = (faulty \/ carried # "drained")
    BY <1>7 DEF CallFails
  <2>2. CASE pageCount = 1
    <3>1. faulty'
      BY <2>1, <2>2 DEF ReadInv, Stops
    <3> QED BY <1>7, <2>2, <3>1, DisturbedReads DEF CallFails, Fail, Undisturbed
  <2>3. CASE pageCount # 1
    <3>1. Return("delivered")
      BY <1>7, <2>3 DEF CallFails
    <3>2. ASSUME Undisturbed' PROVE Undisturbed /\ Len(rows'[current]) = PagesHad
      <4>1. Undisturbed /\ carried = "drained"
        BY <1>0, <2>1, <3>2 DEF Undisturbed, IInv, TypeOK
      <4>2. OnePageOnly /\ pageCount = 2
        BY <2>1, <2>3, <4>1 DEF ReadInv, Stops
      <4>3. Len(rows[current]) = 1
        BY <2>1, <4>2 DEF IInv, PageInHand
      <4> QED BY <2>1, <4>1, <4>2, <4>3 DEF PagesHad, PagesToRead
    <3> QED BY <1>0, <2>1, <3>1, <3>2, TurnReads DEF Active
  <2> QED BY <2>2, <2>3
<1>8. CASE CallAnswers
  <2>1. /\ pc = "call" /\ pc' = "process" /\ carried # "drained"
        /\ UNCHANGED <<ownBody, asked, pageCount, outcome, rows, current>>
    BY <1>8 DEF CallAnswers
  <2>2. Bodies' /\ Stops'
    BY <1>1, <2>1 DEF ReadInv, Bodies, Stops
  <2>3. PICK status \in {200, 400}, invertible \in BOOLEAN, silent \in BOOLEAN : \E reading \in Readings(status) :
          LET processed == ProcessResponse(reading, invertible)
              paging == IF silent THEN [token |-> 0, curr |-> 0, total |-> 0] ELSE PageOf(asked)
          IN /\ answer' = [status |-> status, kind |-> processed.kind,
                           err |-> processed.err, reversal |-> processed.reversal,
                           token |-> paging.token, curr |-> paging.curr, total |-> paging.total]
             /\ faulty' = (faulty \/ silent \/ ~Healthy(status, reading, invertible))
    BY <1>8 DEF CallAnswers
  <2>4. PICK reading \in Readings(status) :
          LET processed == ProcessResponse(reading, invertible)
              paging == IF silent THEN [token |-> 0, curr |-> 0, total |-> 0] ELSE PageOf(asked)
          IN /\ answer' = [status |-> status, kind |-> processed.kind,
                           err |-> processed.err, reversal |-> processed.reversal,
                           token |-> paging.token, curr |-> paging.curr, total |-> paging.total]
             /\ faulty' = (faulty \/ silent \/ ~Healthy(status, reading, invertible))
    BY <2>3
  <2>5. ASSUME Undisturbed' PROVE Undisturbed /\ Understood'
    <3>1. Undisturbed /\ cfg.advancing /\ ~silent /\ status = 200 /\ reading = Reading("items", FALSE)
      BY <1>0, <2>4, <2>5 DEF Undisturbed, Healthy
    <3>2. reading.kind = "items" /\ reading.err = FALSE
      BY <3>1 DEF Reading
    <3>3. ProcessResponse(reading, invertible).kind = "items" /\ ProcessResponse(reading, invertible).err = FALSE
      BY <3>2 DEF ProcessResponse
    <3>4. /\ answer'.kind = "items" /\ answer'.status = 200 /\ ~answer'.err
      BY <2>4, <3>1, <3>3
    <3>5. /\ answer'.token = IF asked < cfg.pages THEN asked + 1 ELSE 0
          /\ answer'.curr = asked /\ answer'.total = cfg.pages
      BY <2>4, <3>1 DEF PageOf
    <3>6. pageCount <= cfg.pages \/ OnePageOnly
      BY <2>1, <3>1 DEF ReadInv, Understood
    <3> QED BY <1>0, <1>1, <2>1, <3>1, <3>4, <3>5, <3>6 DEF Understood
  <2>6. Undisturbed' => AllRead'
    BY <1>0, <1>1, <2>1, <2>5 DEF ReadInv, AllRead, Had
  <2> QED BY <2>2, <2>5, <2>6 DEF ReadInv
<1>9. CASE DespatchUnread \/ ApiError \/ NoPayload \/ BadStatus
  <2>1. /\ pc = "process" /\ UNCHANGED <<rows, faulty>> /\ \E how : Return(how)
        /\ answer.err \/ answer.kind # "items" \/ answer.status >= 300
    BY <1>9 DEF DespatchUnread, ApiError, NoPayload, BadStatus, Proceed
  <2>2. ~Undisturbed /\ ~Undisturbed'
    <3>1. ~Undisturbed
      BY <2>1 DEF ReadInv, Understood
    <3> QED BY <1>0, <2>1, <3>1 DEF Undisturbed
  <2> QED BY <1>0, <2>1, <2>2, TurnReads DEF Active
<1>10. CASE ReversalPanics \/ NoResponse
  <2>1. pc = "process" /\ pc' = "done" /\ faulty' = faulty /\ answer.kind # "items"
    BY <1>10 DEF ReversalPanics, NoResponse, Proceed, Fail
  <2>2. ~Undisturbed
    BY <2>1 DEF ReadInv, Understood
  <2> QED BY <1>0, <2>1, <2>2, DisturbedReads DEF Undisturbed
<1>11. CASE Insert
  <2>1. PICK inserts \in BOOLEAN :
          /\ rows' = IF inserts THEN [rows EXCEPT ![current] = Append(@, asked)] ELSE rows
          /\ faulty' = (faulty \/ ~inserts)
          /\ \/ Despatchable /\ ~cfg.isAwait /\ Return("despatched")
             \/ ~inserts /\ Fail
             \/ /\ ~(Despatchable /\ ~cfg.isAwait) /\ inserts /\ pc' = "page"
                /\ UNCHANGED <<current, ownBody, outcome, result>>
    BY <1>11 DEF Insert
  <2>2. /\ pc = "process" /\ answer.status < 300 /\ UNCHANGED <<asked, carried, answer, pageCount>>
        /\ current \in Requests /\ rows[current] \in Seq(Nat) /\ Len(rows[current]) = pageCount - 1 /\ pageCount >= 1
        /\ asked \in Nat /\ rows \in [Requests -> Seq(Nat)]
    <3>1. pc = "process"
      BY <1>11 DEF Insert, Proceed
    <3>2. current \in Requests /\ rows \in [Requests -> Seq(Nat)] /\ asked \in Nat
      BY <3>1 DEF IInv, Place, Active, TypeOK
    <3> QED BY <1>11, <3>1, <3>2 DEF Insert, IInv, PageInHand
  <2>3. /\ \A q \in Requests : q # current => rows'[q] = rows[q]
        /\ inserts => Len(rows'[current]) = pageCount
    <3>1. CASE inserts
      <4>1. rows'[current] = Append(rows[current], asked) /\ \A q \in Requests : q # current => rows'[q] = rows[q]
        BY <2>1, <2>2, <3>1
      <4>2. Len(Append(rows[current], asked)) = Len(rows[current]) + 1
        BY <2>2
      <4> QED BY <1>2, <2>2, <4>1, <4>2
    <3>2. CASE ~inserts
      BY <2>1, <3>2
    <3> QED BY <3>1, <3>2
  <2>4. CASE Despatchable /\ ~cfg.isAwait /\ Return("despatched")
    <3>1. OnePageOnly
      BY <2>4 DEF Despatchable, OnePageOnly, SinglePage, TokenNotSent
    <3>2. pageCount = 1
      BY <2>2, <3>1 DEF ReadInv, Stops
    <3>3. Undisturbed' => Undisturbed /\ Len(rows'[current]) = PagesHad
      BY <1>0, <2>1, <2>3, <3>1, <3>2 DEF Undisturbed, PagesHad, PagesToRead
    <3> QED BY <1>0, <2>2, <2>3, <2>4, <3>3, TurnReads DEF Active
  <2>5. CASE ~inserts /\ Fail
    BY <2>1, <2>5, DisturbedReads DEF Fail, Undisturbed
  <2>6. CASE /\ ~(Despatchable /\ ~cfg.isAwait) /\ inserts /\ pc' = "page"
             /\ UNCHANGED <<current, ownBody, outcome, result>>
    <3>1. Bodies'
      BY <1>1, <2>2, <2>6 DEF ReadInv, Bodies
    <3>2. Stops'
      BY <1>0, <1>1, <2>2, <2>6 DEF ReadInv, Stops, Despatchable
    <3>3. Undisturbed' => Undisturbed
      BY <1>0, <2>1 DEF Undisturbed
    <3>4. Undisturbed' => Understood'
      BY <1>0, <1>1, <2>2, <2>6, <3>3 DEF ReadInv, Understood
    <3>5. ASSUME Undisturbed', NEW r \in Requests, r < current PROVE Had(r)'
      <4>1. r # current
        BY <1>2, <3>5
      <4>2. Had(r)
        BY <3>3, <3>5 DEF ReadInv, AllRead
      <4> QED BY <1>1, <2>3, <2>6, <3>5, <4>1, <4>2 DEF Had
    <3>6. Undisturbed' => AllRead'
      BY <1>1, <2>6, <3>5 DEF AllRead
    <3> QED BY <3>1, <3>2, <3>4, <3>6 DEF ReadInv
  <2> QED BY <2>1, <2>4, <2>5, <2>6
<1>12. CASE NoNextPage
  <2>1. pc = "page" /\ (NextToken = 0 \/ AtPageLimit) /\ Return("delivered") /\ UNCHANGED <<rows, faulty>>
    BY <1>12 DEF NoNextPage
  <2>2. Undisturbed' => Undisturbed /\ Len(rows'[current]) = PagesHad
    BY <1>0, <2>1, LastPage DEF Undisturbed
  <2> QED BY <1>0, <2>1, <2>2, TurnReads DEF Active
<1>13. CASE SetNextPageFails
  <2>1. /\ pc = "page" /\ Return("delivered") /\ UNCHANGED rows
        /\ faulty' = (faulty \/ inferNextPageRequestElement # "header")
    BY <1>13 DEF SetNextPageFails
  <2>2. ASSUME Undisturbed' PROVE Undisturbed /\ Len(rows'[current]) = PagesHad
    <3>1. Undisturbed /\ inferNextPageRequestElement = "header"
      BY <1>0, <2>1, <2>2 DEF Undisturbed, IInv, TypeOK
    <3>2. OnePageOnly
      BY <3>1 DEF OnePageOnly, SinglePage, TokenNotSent
    <3>3. Len(rows[current]) = 1
      BY <2>1, <3>2 DEF ReadInv, Stops, IInv, PageInHand
    <3> QED BY <2>1, <3>1, <3>2, <3>3 DEF PagesHad, PagesToRead
  <2> QED BY <1>0, <2>1, <2>2, TurnReads DEF Active
<1>14. CASE NextPage
  <2>1. /\ pc = "page" /\ pc' = "call" /\ NextToken # 0 /\ inferNextPageRequestElement # "header"
        /\ asked' = NextToken /\ carried' = NextBody /\ pageCount' = pageCount + 1
        /\ UNCHANGED <<ownBody, outcome, rows, current, faulty>>
    BY <1>14 DEF NextPage
  <2>2. ownBody = AfterReading(GivenBody) /\ pageCount >= 1
    BY <2>1 DEF ReadInv, Bodies, IInv, PageInHand
  <2>3. Bodies'
    BY <1>1, <2>1, <2>2 DEF Bodies
  <2>4. inferNextPageResponseElement \in {"body", "header"}
    BY <2>1 DEF NextToken, extractNextPageToken, extractPageNumberNextToken
  <2>5. OnePageOnly => pageCount = 1 /\ carried' = "drained"
    BY <2>1, <2>2, <2>4 DEF ReadInv, Stops, OnePageOnly, SinglePage, TokenNotSent, NextBody, AfterReading, GivenBody
  <2>6. ~OnePageOnly => carried' # "drained"
    BY <2>1, <2>2 DEF OnePageOnly, SinglePage, TokenNotSent, NextBody, AfterReading, GivenBody
  <2>7. Stops'
    BY <1>1, <1>2, <2>1, <2>2, <2>5, <2>6 DEF Stops
  <2>8. ASSUME Undisturbed' PROVE Understood'
    <3>1. Undisturbed
      BY <1>0, <2>1, <2>8 DEF Undisturbed
    <3>2. asked = pageCount
      BY <2>1, <3>1 DEF IInv, PageInHand, Undisturbed
    <3>3. /\ answer.token = IF asked < cfg.pages THEN asked + 1 ELSE 0
          /\ answer.curr = asked /\ answer.total = cfg.pages
      BY <2>1, <3>1 DEF ReadInv, Understood
    <3>4. asked < cfg.pages
      BY <1>2, <2>1, <3>2, <3>3 DEF NextToken, extractNextPageToken, extractPageNumberNextToken
    <3> QED BY <1>0, <1>2, <2>1, <3>2, <3>4 DEF Understood
  <2> QED BY <1>r, <2>1, <2>3, <2>7, <2>8 DEF ReadInv, Undisturbed
<1>15. CASE UNCHANGED vars
  BY <1>0, <1>1, <1>15 DEF vars, ReadInv, Bodies, Stops, Undisturbed, Understood, AllRead, Had
<1> QED BY <1>3, <1>4, <1>5, <1>6, <1>7, <1>8, <1>9, <1>10, <1>11, <1>12, <1>13, <1>14, <1>15 DEF Next

(* Against a server that moves on, an invocation in which nothing fails    *)
(* inserts every page of every request that was not elided, up to the page *)
(* limit, whenever the token of the next page is sent, for every number of *)
(* requests, pages and every limit (Process, page).                        *)
THEOREM HealthyFullyRead == Spec => []HealthyServerFullyRead
<1>1. IInv /\ ReadInv => HealthyServerFullyRead
  <2> SUFFICES ASSUME IInv, ReadInv, pc = "done", ~faulty, cfg.advancing, ~SinglePage,
                      ~TokenNotSent, NEW r \in Requests, outcome[r] # "elided"
               PROVE  Len(rows[r]) = PagesToRead
    BY DEF HealthyServerFullyRead
  <2>1. current > cfg.requests /\ \A q \in Requests : q < current => Had(q)
    BY DEF ReadInv, Undisturbed, AllRead
  <2>2. r < current
    BY <2>1, PlanFacts DEF IInv, Requests
  <2> QED BY <2>1, <2>2 DEF Had, PagesHad, OnePageOnly
<1> QED BY <1>1, ReadInit, ReadInductive, Invariance, PTL DEF Spec
=============================================================================
