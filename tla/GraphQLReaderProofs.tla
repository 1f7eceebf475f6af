------------------------- MODULE GraphQLReaderProofs -------------------------
(***************************************************************************)
(* The rows of the GraphQL reader, for every reader, server, table and     *)
(* number of repeated calls.                                               *)
(***************************************************************************)
EXTENDS GraphQLReader, TLAPS

(* Rows come back in order only because, whenever the next page is due,    *)
(* the cursor stands behind the rows returned so far, and the running      *)
(* count the offset is taken from is their number.                         *)
InStep ==
  /\ rowsReturned = Len(got)
  /\ SoundPath \/ EffectiveStrategy = "offset" =>
       /\ \A i \in 1 .. Len(got) : got[i] = i
       /\ pc # "done" => cursor = Len(got)

(* Each page counted brings at most what the server sends at a time.       *)
PagesBound ==
  /\ pageCount >= 1
  /\ cfg.limit > 0 => pageCount <= cfg.limit
  /\ Len(got) <= (pageCount - 1) * cfg.serverPage

IInv == TypeOK /\ InStep /\ PagesBound

-----------------------------------------------------------------------------
(* The numbers of a reader's configuration.                                *)
LEMMA ConfigFields ==
  ASSUME NEW c \in Config
  PROVE  c.limit \in Nat /\ c.rows \in Nat /\ c.serverPage \in Nat \ {0}
<1>1. c.limit \in Nat
  BY DEF Config
<1>2. c.rows \in Nat
  BY DEF Config
<1>3. c.serverPage \in Nat \ {0}
  BY DEF Config
<1> QED
  BY <1>1, <1>2, <1>3

(* A page holds the rows behind the cursor, no more than the server sends. *)
LEMMA PageFacts ==
  ASSUME TypeOK, NEW c \in Nat
  PROVE  /\ PageLen(c) \in Nat
         /\ PageLen(c) <= cfg.serverPage
         /\ Page(c) \in Seq(Nat)
         /\ Len(Page(c)) = PageLen(c)
         /\ \A i \in 1 .. PageLen(c) : Page(c)[i] = c + i
<1>1. cfg.rows \in Nat /\ cfg.serverPage \in Nat \ {0}
  BY ConfigFields DEF TypeOK
<1>2. PageLen(c) \in Nat /\ PageLen(c) <= cfg.serverPage
  BY <1>1 DEF PageLen, Smaller
<1> QED
  BY <1>2 DEF Page

(* The cursors in a page are positions in the table.                       *)
LEMMA FoundType ==
  ASSUME TypeOK, NEW c \in Nat, NEW found \in {FoundIn(c), PathError}
  PROVE  found.vals \in Seq(Nat)
<1>1. CursorOf(c) \in Seq(Nat)
  BY PageFacts DEF CursorOf
<1>2. Page(c) \in Seq(Nat)
  BY PageFacts
<1>3. FoundIn(c).vals \in Seq(Nat)
  BY <1>1, <1>2 DEF FoundIn
<1>4. PathError.vals \in Seq(Nat)
  BY DEF PathError
<1> QED
  BY <1>3, <1>4

(* The next cursor is a position.                                          *)
LEMMA AdvanceType ==
  ASSUME TypeOK, NEW c \in Nat, NEW found \in {FoundIn(c), PathError},
         NEW flag, NEW returned \in Nat, NEW n \in Nat,
         NEW v \in advanceCursor(found, flag, returned, n)
  PROVE  v \in Nat
<1>1. found.vals \in Seq(Nat)
  BY FoundType
<1>2. Len(found.vals) = 1 \/ found.vals # <<>> => found.vals[1] \in Nat
  BY <1>1
<1> QED
  BY <1>2 DEF advanceCursor, advanceCursorAfter, advanceKeyset, advanceOffset,
              advancePageInfo

(* The next cursor stands behind the page, if it is taken from the last    *)
(* row or from the running count.                                          *)
LEMMA AdvanceBehindPage ==
  ASSUME TypeOK, NEW c \in Nat, NEW found \in {FoundIn(c), PathError},
         NEW flag, NEW returned \in Nat, NEW n \in Nat,
         returned = c + PageLen(c),
         SoundPath \/ EffectiveStrategy = "offset",
         NEW v \in advanceCursor(found, flag, returned, n)
  PROVE  v = c + PageLen(c)
<1>1. CASE EffectiveStrategy = "offset"
  BY <1>1 DEF advanceCursor, advanceOffset
<1>2. CASE EffectiveStrategy # "offset"
  <2>1. SoundPath
    BY <1>2
  <2>2. found.vals # <<>> /\ v = found.vals[1]
    <3>1. found.vals \in Seq(Nat)
      BY FoundType
    <3>2. Len(found.vals) = 1 => found.vals # <<>>
      BY <3>1
    <3> QED
      BY <1>2, <3>2 DEF advanceCursor, advanceCursorAfter, advanceKeyset,
                        advancePageInfo
  <2>3. found = FoundIn(c)
    BY <2>2 DEF PathError
  <2>4. found.vals = CursorOf(c)
    BY <2>1, <2>3 DEF FoundIn, SoundPath
  <2>5. CursorOf(c) \in {<<>>, <<c + PageLen(c)>>}
    BY <2>1 DEF CursorOf, SoundPath
  <2> QED
    BY <2>2, <2>4, <2>5
<1> QED
  BY <1>1, <1>2

(* Behind k rows in order, the page behind row k keeps the order.          *)
LEMMA PageKeepsOrder ==
  ASSUME TypeOK, \A i \in 1 .. Len(got) : got[i] = i, cursor = Len(got)
  PROVE  \A i \in 1 .. Len(got \o Page(cursor)) : (got \o Page(cursor))[i] = i
<1>1. got \in Seq(Nat) /\ cursor \in Nat
  BY DEF TypeOK
<1>2. /\ Page(cursor) \in Seq(Nat)
      /\ \A i \in 1 .. Len(Page(cursor)) : Page(cursor)[i] = cursor + i
  BY <1>1, PageFacts
<1> HIDE DEF Page
<1> SUFFICES ASSUME NEW i \in 1 .. Len(got \o Page(cursor))
             PROVE  (got \o Page(cursor))[i] = i
  OBVIOUS
<1>3. CASE i <= Len(got)
  BY <1>1, <1>2, <1>3
<1>4. CASE i > Len(got)
  <2>1. (got \o Page(cursor))[i] = Page(cursor)[i - Len(got)]
    BY <1>1, <1>2, <1>4
  <2>2. i - Len(got) \in 1 .. Len(Page(cursor))
    BY <1>1, <1>2, <1>4
  <2> QED
    BY <1>1, <1>2, <2>1, <2>2
<1> QED
  BY <1>1, <1>3, <1>4

(* One more page raises the bound by what the server sends at a time.      *)
LEMMA OnePageMore ==
  ASSUME NEW k \in Nat, NEW s \in Nat, NEW n \in Nat, k >= 1
  PROVE  (k + 1 - 1) * s = (k - 1) * s + s
  OBVIOUS

LEMMA BoundMonotone ==
  ASSUME NEW k \in Nat, NEW l \in Nat, NEW s \in Nat, 1 <= k, k <= l
  PROVE  (k - 1) * s <= (l - 1) * s
  OBVIOUS

-----------------------------------------------------------------------------
LEMMA InvInit == Init => IInv
<1> SUFFICES ASSUME Init PROVE IInv
  OBVIOUS
<1>1. cfg \in Config
  BY ConfigsAssumption DEF Init
<1>2. TypeOK
  <2>1. got \in Seq(Nat)
    BY DEF Init
  <2> QED
    BY <1>1, <2>1 DEF Init, TypeOK
<1>3. InStep
  BY DEF Init, InStep
<1>4. PagesBound
  <2>1. cfg.limit \in Nat /\ cfg.serverPage \in Nat
    BY <1>1, ConfigFields
  <2>2. pageCount = 1 /\ Len(got) = 0 /\ (1 - 1) * cfg.serverPage = 0
    BY <2>1 DEF Init
  <2> QED
    BY <2>1, <2>2 DEF PagesBound
<1> QED
  BY <1>2, <1>3, <1>4 DEF IInv

(* A call that brings no rows leaves the rows and the cursor as they were. *)
LEMMA WithoutRows ==
  ASSUME IInv, UNCHANGED <<cfg, cursor, rowsReturned, got>>,
         pc = "done" => pc' = "done",
         pc' \in {"new", "reading", "done"},
         last' \in {"none", "page", "eof", "error"},
         again' \in Nat, faulty' \in BOOLEAN,
         \/ pageCount' = pageCount
         \/ pageCount' = pageCount + 1 /\ ~AtPageLimit
  PROVE  IInv'
<1> USE DEF IInv
<1>1. TypeOK'
  BY DEF TypeOK
<1>2. InStep'
  BY DEF InStep, SoundPath, EffectiveStrategy
<1>3. PagesBound'
  <2>1. /\ pageCount \in Nat /\ cfg.limit \in Nat /\ cfg.serverPage \in Nat
        /\ Len(got) \in Nat
    BY ConfigFields DEF TypeOK
  <2>2. pageCount >= 1 /\ pageCount' >= 1 /\ (cfg.limit > 0 => pageCount' <= cfg.limit)
    BY <2>1 DEF PagesBound, AtPageLimit
  <2>3. CASE pageCount' = pageCount
    BY <2>2, <2>3 DEF PagesBound
  <2>4. CASE pageCount' = pageCount + 1
    <3>1. (pageCount + 1 - 1) * cfg.serverPage
            = (pageCount - 1) * cfg.serverPage + cfg.serverPage
      BY <2>1, <2>2, OnePageMore
    <3>2. Len(got) <= (pageCount - 1) * cfg.serverPage
      BY DEF PagesBound
    <3>3. (pageCount - 1) * cfg.serverPage \in Int
      BY <2>1
    <3>4. Len(got) <= (pageCount' - 1) * cfg.serverPage
      BY <2>1, <2>4, <3>1, <3>2, <3>3
    <3> QED
      BY <2>2, <3>4 DEF PagesBound
  <2> QED
    BY <2>3, <2>4
<1> QED
  BY <1>1, <1>2, <1>3

(* A page moves the rows, their number and the cursor on together.         *)
LEMMA ReadPageInv == IInv /\ ReadPage => IInv'
<1> SUFFICES ASSUME IInv, ReadPage PROVE IInv'
  OBVIOUS
<1> USE DEF IInv
<1>0. PICK found \in {FoundIn(cursor), PathError}, flag \in {FlagOf(cursor)} \cup Flag,
           rendered \in BOOLEAN :
        LET next == advanceCursor(found, flag, rowsReturned', PageLen(cursor))
        IN /\ faulty' \in BOOLEAN
           /\ \/ next = {} /\ last' = "eof" /\ pc' = "done" /\ cursor' = cursor
              \/ cursor' \in next /\ last' = "page" /\ pc' = pc
              \/ last' = "error" /\ pc' = "done" /\ cursor' = cursor
  BY DEF ReadPage, TypeOK
<1> DEFINE next == advanceCursor(found, flag, rowsReturned', PageLen(cursor))
<1>1. /\ cursor \in Nat /\ pageCount \in Nat /\ rowsReturned \in Nat
      /\ got \in Seq(Nat) /\ cfg.limit \in Nat /\ cfg.serverPage \in Nat
  BY ConfigFields DEF TypeOK
<1>2. /\ PageLen(cursor) \in Nat /\ PageLen(cursor) <= cfg.serverPage
      /\ Page(cursor) \in Seq(Nat) /\ Len(Page(cursor)) = PageLen(cursor)
  BY <1>1, PageFacts
<1>3. /\ pc = "reading" /\ ~AtPageLimit /\ pageCount' = pageCount + 1
      /\ rowsReturned' = rowsReturned + PageLen(cursor)
      /\ got' = got \o Page(cursor)
      /\ cfg' = cfg /\ again' = again
  BY DEF ReadPage, Fetch
<1>4. /\ got' \in Seq(Nat) /\ Len(got') = Len(got) + PageLen(cursor)
      /\ rowsReturned' \in Nat /\ pageCount' \in Nat
  <2> HIDE DEF IInv, next
  <2>1. got \o Page(cursor) \in Seq(Nat)
    BY <1>1, <1>2
  <2>2. Len(got \o Page(cursor)) = Len(got) + Len(Page(cursor))
    BY <1>1, <1>2
  <2>3. rowsReturned' \in Nat /\ pageCount' \in Nat
    BY <1>1, <1>2, <1>3
  <2> QED
    BY <1>2, <1>3, <2>1, <2>2, <2>3
<1>5. cursor' \in Nat
  <2>1. CASE cursor' = cursor
    BY <1>1, <2>1
  <2>2. CASE cursor' \in next
    BY <1>1, <1>2, <1>4, <2>2, AdvanceType
  <2> QED
    BY <1>0, <2>1, <2>2
<1>6. TypeOK'
  BY <1>0, <1>3, <1>4, <1>5 DEF TypeOK
<1>7. InStep'
  <2>1. rowsReturned' = Len(got')
    BY <1>1, <1>2, <1>3, <1>4 DEF InStep
  <2> SUFFICES ASSUME SoundPath \/ EffectiveStrategy = "offset"
               PROVE  /\ \A i \in 1 .. Len(got') : got'[i] = i
                      /\ pc' # "done" => cursor' = Len(got')
    BY <1>3, <2>1 DEF InStep, SoundPath, EffectiveStrategy
  <2>2. cursor = Len(got) /\ \A i \in 1 .. Len(got) : got[i] = i
    BY <1>3 DEF InStep
  <2>3. \A i \in 1 .. Len(got') : got'[i] = i
    BY <1>3, <2>2, PageKeepsOrder
  <2>4. rowsReturned' = cursor + PageLen(cursor)
    BY <1>4, <2>1, <2>2
  <2>5. ASSUME cursor' \in next PROVE cursor' = Len(got')
    <3>1. cursor' = cursor + PageLen(cursor)
      BY <1>1, <1>2, <1>4, <2>4, <2>5, AdvanceBehindPage
    <3> QED
      BY <1>4, <2>2, <3>1
  <2> QED
    BY <1>0, <2>3, <2>5
<1>8. PagesBound'
  <2>1. pageCount >= 1 /\ (cfg.limit > 0 => pageCount < cfg.limit)
    BY <1>1, <1>3 DEF PagesBound, AtPageLimit
  <2>2. (pageCount + 1 - 1) * cfg.serverPage
          = (pageCount - 1) * cfg.serverPage + cfg.serverPage
    BY <1>1, <2>1, OnePageMore
  <2>3. Len(got) <= (pageCount - 1) * cfg.serverPage /\ Len(got) \in Nat
    BY <1>1 DEF PagesBound
  <2>4. (pageCount - 1) * cfg.serverPage \in Int
    BY <1>1
  <2>5. Len(got') <= (pageCount' - 1) * cfg.serverPage
    BY <1>1, <1>2, <1>3, <1>4, <2>2, <2>3, <2>4
  <2> QED
    BY <1>1, <1>3, <2>1, <2>5 DEF PagesBound
<1> QED
  BY <1>6, <1>7, <1>8

(* Every step keeps the invariant.                                         *)
LEMMA InvNext == IInv /\ [Next]_vars => IInv'
<1> SUFFICES ASSUME IInv, [Next]_vars PROVE IInv'
  OBVIOUS
<1> USE DEF reader
<1>0. TypeOK
  BY DEF IInv
<1>1. CASE Construct
  BY <1>0, <1>1, WithoutRows DEF Construct, TypeOK
<1>2. CASE ConstructFails
  BY <1>0, <1>2, WithoutRows DEF ConstructFails, TypeOK
<1>3. CASE ReadAtLimit
  BY <1>0, <1>3, WithoutRows DEF ReadAtLimit, TypeOK
<1>4. CASE CallFails
  BY <1>0, <1>4, WithoutRows DEF CallFails, Fetch, FailWithoutRows, TypeOK
<1>5. CASE ResponseFails
  BY <1>0, <1>5, WithoutRows DEF ResponseFails, Fetch, FailWithoutRows, TypeOK
<1>6. CASE ReadEmpty
  BY <1>0, <1>6, WithoutRows DEF ReadEmpty, Fetch, TypeOK
<1>7. CASE ReadPage
  BY <1>7, ReadPageInv
<1>8. CASE UNCHANGED vars
  BY <1>0, <1>8, WithoutRows DEF vars, TypeOK
<1> QED
  BY <1>1, <1>2, <1>3, <1>4, <1>5, <1>6, <1>7, <1>8 DEF Next, Read

LEMMA Invariance == Spec => []IInv
  BY InvInit, InvNext, PTL DEF Spec

-----------------------------------------------------------------------------
(* Every variable of the reader keeps its type.                            *)
THEOREM TypeCorrect == Spec => []TypeOK
<1>1. IInv => TypeOK
  BY DEF IInv
<1> QED
  BY <1>1, Invariance, PTL

(* The rows of Read are the server's, in order, from the first, none twice *)
(* and none left out, whatever fails and is called again on the way.       *)
THEOREM InOrder == Spec => []RowsInOrder
<1>1. IInv => RowsInOrder
  BY DEF IInv, InStep, RowsInOrder
<1> QED
  BY <1>1, Invariance, PTL

(* A page limit of n lets n - 1 pages of rows through Read, at most.       *)
THEOREM LimitBounds == Spec => []LimitBoundsRows
<1>1. IInv => LimitBoundsRows
  <2> SUFFICES ASSUME IInv, cfg.limit > 0
               PROVE  /\ pageCount <= cfg.limit
                      /\ Len(got) <= (cfg.limit - 1) * cfg.serverPage
    BY DEF LimitBoundsRows
  <2>1. /\ pageCount \in Nat /\ cfg.limit \in Nat /\ cfg.serverPage \in Nat
        /\ Len(got) \in Nat
    BY ConfigFields DEF IInv, TypeOK
  <2>2. 1 <= pageCount /\ pageCount <= cfg.limit
    BY <2>1 DEF IInv, PagesBound
  <2>3. (pageCount - 1) * cfg.serverPage <= (cfg.limit - 1) * cfg.serverPage
    BY <2>1, <2>2, BoundMonotone
  <2>4. /\ (pageCount - 1) * cfg.serverPage \in Int
        /\ (cfg.limit - 1) * cfg.serverPage \in Int
    BY <2>1
  <2>5. Len(got) <= (pageCount - 1) * cfg.serverPage
    BY DEF IInv, PagesBound
  <2> QED
    BY <2>1, <2>2, <2>3, <2>4, <2>5
<1> QED
  BY <1>1, Invariance, PTL

(* A reader returns the server's first rows, and no more of them than its  *)
(* page limit lets through (Read, advanceCursor, pageCount).                *)
THEOREM FirstRows == Spec => []FirstRowsOnly
BY InOrder, LimitBounds, PTL DEF FirstRowsOnly


-----------------------------------------------------------------------------
(* The rows to come are never fewer than none, and when nothing has failed *)
(* a reading that came to io.EOF of its own accord has left none.          *)
Sound == SoundPath \/ EffectiveStrategy = "offset"
Complete == Sound => Len(got) <= cfg.rows /\ HealthyServerFullyRead

(* A page the cursor cannot be moved on from ends at the last row, if the  *)
(* page and its flag are what the server sent.                             *)
LEMMA NoNextAtEnd ==
  ASSUME TypeOK, NEW c \in Nat, c <= cfg.rows, Sound, ~OnePageOnly,
         NEW returned, advanceCursor(FoundIn(c), FlagOf(c), returned, PageLen(c)) = {}
  PROVE  c + PageLen(c) = cfg.rows
<1> DEFINE found == FoundIn(c)
<1>1. cfg.rows \in Nat /\ cfg.serverPage \in Nat \ {0} /\ cfg.pageSize \in Nat
  <2>1. cfg.pageSize \in Nat
    BY DEF TypeOK, Config
  <2> QED BY <2>1, ConfigFields DEF TypeOK
<1>2. PageLen(c) \in Nat /\ PageLen(c) = (IF c >= cfg.rows THEN 0 ELSE Smaller(cfg.serverPage, cfg.rows - c))
  BY PageFacts DEF PageLen
<1>3. PageLen(c) < cfg.serverPage \/ PageLen(c) = 0 => c + PageLen(c) = cfg.rows
  BY <1>1, <1>2 DEF Smaller
<1>4. c + PageLen(c) <= cfg.rows
  BY <1>1, <1>2 DEF Smaller
<1>5. ~More(c) => c + PageLen(c) = cfg.rows
  BY <1>1, <1>2, <1>4 DEF More
<1>6. CASE EffectiveStrategy = "offset"
  <2>1. PageLen(c) = 0 \/ (cfg.pageSize > 0 /\ PageLen(c) < cfg.pageSize)
    BY <1>6 DEF advanceCursor, advanceOffset
  <2>2. cfg.pageSize <= cfg.serverPage
    BY <1>1, <1>6 DEF OnePageOnly
  <2> QED BY <1>1, <1>2, <1>3, <2>1, <2>2
<1>7. CASE EffectiveStrategy # "offset"
  <2>1. found.vals = CursorOf(c) /\ found.bare = (cfg.cursorPath = "bare")
    BY <1>7 DEF FoundIn, Sound, SoundPath
  <2>2. More(c) => CursorOf(c) = <<c + PageLen(c)>> /\ Len(CursorOf(c)) = 1 /\ CursorOf(c) # <<>>
    BY DEF CursorOf
  <2> HIDE DEF found
  <2>3. CASE EffectiveStrategy = "cursor_after"
    <3>1. ~found.bare
      BY <2>1, <2>3 DEF OnePageOnly
    <3>2. Len(found.vals) # 1
      BY <2>3, <3>1 DEF advanceCursor, advanceCursorAfter, found
    <3> QED BY <1>5, <2>1, <2>2, <3>2
  <2>4. CASE EffectiveStrategy = "keyset"
    <3>1. ~(PageLen(c) > 0 /\ found.vals # <<>>)
      BY <2>4 DEF advanceCursor, advanceKeyset, found
    <3> QED BY <1>2, <1>3, <1>5, <2>1, <2>2, <3>1
  <2>5. CASE EffectiveStrategy \notin {"cursor_after", "keyset"}
    <3>1. ~(isPageInfoContinue(FlagOf(c)) /\ Len(found.vals) = 1)
      BY <1>7, <2>5 DEF advanceCursor, advancePageInfo, found
    <3>2. More(c) => isPageInfoContinue(FlagOf(c))
      BY DEF FlagOf, isPageInfoContinue
    <3> QED BY <1>5, <2>1, <2>2, <3>1, <3>2
  <2> QED BY <2>3, <2>4, <2>5
<1> QED BY <1>6, <1>7

LEMMA CompleteInductive == IInv /\ Complete /\ [Next]_vars => Complete'
<1> SUFFICES ASSUME IInv, Complete, [Next]_vars, Sound' PROVE Len(got') <= cfg'.rows /\ HealthyServerFullyRead'
  BY DEF Complete
<1>0. cfg' = cfg
  BY DEF Next, Read, vars, Construct, ConstructFails, ReadAtLimit, CallFails, ResponseFails, ReadEmpty, ReadPage
<1>s. Sound /\ OnePageOnly' = OnePageOnly /\ (SoundPath \/ EffectiveStrategy = "offset")
  BY <1>0 DEF Sound, SoundPath, EffectiveStrategy, OnePageOnly
<1>c. Len(got) <= cfg.rows /\ HealthyServerFullyRead
  BY <1>s DEF Complete
<1>1. CASE ReadPage
  <2>1. PICK found \in {FoundIn(cursor), PathError}, flag \in {FlagOf(cursor)} \cup Flag, rendered \in BOOLEAN :
          LET next == advanceCursor(found, flag, rowsReturned', PageLen(cursor))
          IN  /\ faulty' = (faulty \/ found # FoundIn(cursor) \/ flag # FlagOf(cursor) \/ ~rendered)
              /\ (next = {} /\ last' = "eof") \/ last' \in {"page", "error"}
    BY <1>1 DEF ReadPage
  <2>2. cursor = Len(got) /\ cursor \in Nat /\ got \in Seq(Nat) /\ TypeOK /\ cfg.rows \in Nat
    BY <1>1, <1>s, ConfigFields DEF ReadPage, Fetch, IInv, InStep, TypeOK
  <2>3. /\ PageLen(cursor) \in Nat /\ Page(cursor) \in Seq(Nat) /\ Len(Page(cursor)) = PageLen(cursor)
        /\ got' = got \o Page(cursor)
    BY <1>1, <2>2, PageFacts DEF ReadPage
  <2>4. Len(got') = cursor + PageLen(cursor)
    BY <2>2, <2>3
  <2>5. cursor + PageLen(cursor) <= cfg.rows
    <3>1. cfg.serverPage \in Nat
      BY <2>2, ConfigFields DEF TypeOK
    <3> QED BY <1>c, <2>2, <2>3, <3>1 DEF PageLen, Smaller
  <2>6. ASSUME last' = "eof", ~faulty', ~OnePageOnly' PROVE Len(got') = cfg.rows
    <3>1. advanceCursor(FoundIn(cursor), FlagOf(cursor), rowsReturned', PageLen(cursor)) = {}
      BY <2>1, <2>6
    <3> QED BY <1>c, <1>s, <2>2, <2>4, <2>6, <3>1, NoNextAtEnd
  <2> QED BY <1>0, <2>4, <2>5, <2>6 DEF HealthyServerFullyRead
<1>2. CASE ReadAtLimit
  BY <1>0, <1>2, <1>c DEF ReadAtLimit, AtPageLimit, HealthyServerFullyRead
<1>3. CASE ConstructFails \/ CallFails \/ ResponseFails
  BY <1>0, <1>3, <1>c DEF ConstructFails, CallFails, ResponseFails, FailWithoutRows, HealthyServerFullyRead
<1>4. CASE ReadEmpty
  BY <1>0, <1>4, <1>c DEF ReadEmpty, HealthyServerFullyRead
<1>5. CASE Construct \/ UNCHANGED vars
  BY <1>0, <1>5, <1>c, <1>s DEF Construct, vars, HealthyServerFullyRead, Sound, SoundPath, EffectiveStrategy
<1> QED BY <1>1, <1>2, <1>3, <1>4, <1>5 DEF Next, Read

(* A reading that came to io.EOF without a failure and without a limit has *)
(* returned every row of the server, by every strategy, for every table    *)
(* and page size (advanceCursor).                                          *)
THEOREM FullyRead == Spec => []HealthyServerFullyRead
<1>1. Init => Complete
  <2> SUFFICES ASSUME Init PROVE Complete
    OBVIOUS
  <2>1. got = <<>> /\ pc = "new" /\ cfg.rows \in Nat
    BY ConfigFields, ConfigsAssumption DEF Init
  <2> QED BY <2>1 DEF Complete, HealthyServerFullyRead
<1>2. Complete => HealthyServerFullyRead
  BY DEF Complete, Sound, HealthyServerFullyRead
<1> QED BY <1>1, <1>2, CompleteInductive, Invariance, PTL DEF Spec
=============================================================================
