---------------------------- MODULE GraphQLReader ----------------------------
(***************************************************************************)
(* The GraphQL reader of pkg/graphql/graphql.go: a caller constructs it    *)
(* and calls Read until it returns io.EOF, and each Read fetches the page  *)
(* the cursor leads to and moves the cursor on, in one of four ways.       *)
(*                                                                         *)
(* The server, the caller and the templates are the environment.  The      *)
(* server holds rows 1, 2, ... and answers a cursor c with the rows after  *)
(* row c; 0 is the initial cursor, and an empty cursor too, for a server   *)
(* starts from the beginning on either.  Sort keys are taken to be unique. *)
(***************************************************************************)
EXTENDS Integers, Sequences

CONSTANTS
  Configs,   \* the readers: cursor configuration, page limit and server
  MaxPages,  \* bound: the pages a reader fetches when nothing limits it
  MaxAgain   \* bound: how often the caller reads again after an error

Strategy == {"cursor_after", "keyset", "offset", "page_info"}

(* A reader: its cursor configuration ("": the default strategy), the page *)
(* limit (0: none) and the server: its rows, how many it sends at a time,  *)
(* what the cursor's JSON path finds in a page ("last": a list with the    *)
(* last row's cursor; "each": a list with every row's; "bare": the last    *)
(* row's, not in a list), and the cursor of a page with no more after it   *)
(* (that of the last row, an empty one, or none).                          *)
Config ==
  [strategy: Strategy \cup {"", "other"}, hasFormat: BOOLEAN,
   hasTerminator: BOOLEAN, pageSize: Nat, limit: Nat,
   rows: Nat, serverPage: Nat \ {0},
   cursorPath: {"last", "each", "bare"}, lastCursor: {"row", "empty", "none"}]

ASSUME ConfigsAssumption == Configs \subseteq Config
ASSUME BoundsAssumption == MaxPages \in Nat /\ MaxAgain \in Nat

VARIABLES
  cfg,           \* the reader
  pc,            \* "new", "reading" or "done"
  cursor,        \* the position iterativeInput["cursor"] leads to
  pageCount,
  rowsReturned,
  got,           \* the rows the caller has received
  last,          \* what the last call returned: "none", "page", "eof", "error"
  again,         \* how often the caller has read again after an error
  faulty         \* the environment has failed at least once

reader == <<cursor, pageCount, rowsReturned>>
vars == <<cfg, pc, reader, got, last, again, faulty>>

TypeOK ==
  /\ cfg \in Config
  /\ pc \in {"new", "reading", "done"}
  /\ cursor \in Nat
  /\ pageCount \in Nat
  /\ rowsReturned \in Nat
  /\ got \in Seq(Nat)
  /\ last \in {"none", "page", "eof", "error"}
  /\ again \in Nat
  /\ faulty \in BOOLEAN

Init ==
  /\ cfg \in Configs
  /\ pc = "new"
  /\ cursor = 0
  /\ pageCount = 1
  /\ rowsReturned = 0
  /\ got = <<>>
  /\ last = "none"
  /\ again = 0
  /\ faulty = FALSE

-----------------------------------------------------------------------------
(* NewStandardGQLReaderFull *)

EffectiveStrategy == IF cfg.strategy = "" THEN "cursor_after" ELSE cfg.strategy

validateCursorConfig ==
  /\ EffectiveStrategy \in Strategy
  /\ EffectiveStrategy = "keyset" => cfg.hasFormat
  /\ EffectiveStrategy = "page_info" => cfg.hasTerminator

Construct ==
  /\ pc = "new"
  /\ validateCursorConfig
  /\ pc' = "reading"
  /\ UNCHANGED <<cfg, reader, got, last, again, faulty>>

(* The configuration is refused, or one of the templates does not parse.   *)
ConstructFails ==
  /\ pc = "new"
  /\ \/ ~validateCursorConfig /\ UNCHANGED faulty
     \/ faulty' = TRUE
  /\ pc' = "done"
  /\ last' = "error"
  /\ UNCHANGED <<cfg, reader, got, again>>

-----------------------------------------------------------------------------
(* The server's answer to a cursor.                                        *)

Smaller(a, b) == IF a < b THEN a ELSE b

(* How many rows there are after the cursor, and in a page of them.        *)
PageLen(c) == IF c >= cfg.rows THEN 0 ELSE Smaller(cfg.serverPage, cfg.rows - c)

Page(c) == [i \in 1 .. PageLen(c) |-> c + i]

More(c) == c + PageLen(c) < cfg.rows

(* The cursor of a page, as a sequence of at most one.                     *)
CursorOf(c) ==
  CASE More(c) -> <<c + PageLen(c)>>
    [] ~More(c) /\ cfg.lastCursor = "row" /\ PageLen(c) > 0 -> <<c + PageLen(c)>>
    [] ~More(c) /\ cfg.lastCursor = "empty" -> <<0>>
    [] OTHER -> <<>>

(* What the cursor's JSON path finds: values, in a list or bare, and none  *)
(* of them bare when the path is an error.                                 *)
Found == [bare: BOOLEAN, vals: Seq(Nat)]
PathError == [bare |-> TRUE, vals |-> <<>>]

FoundIn(c) ==
  [bare |-> cfg.cursorPath = "bare",
   vals |-> IF cfg.cursorPath = "each" THEN Page(c) ELSE CursorOf(c)]

(* The values of the termination flag: anything but these is true.         *)
Flag == {"true", "false", "null", "pathError", "other"}

FlagOf(c) == IF More(c) THEN "true" ELSE "false"

-----------------------------------------------------------------------------
(* advanceCursor: the next cursor, or none for io.EOF.                     *)

advanceCursorAfter(found) ==
  IF ~found.bare /\ Len(found.vals) = 1 THEN {found.vals[1]} ELSE {}

(* keysetTemplateContext takes the first of several values.                *)
advanceKeyset(found, rowCount) ==
  IF rowCount > 0 /\ found.vals # <<>> THEN {found.vals[1]} ELSE {}

(* Mistakes: the offset is that of the page alone; a full page is taken    *)
(* for a short one; empty pages do not end the reading.                    *)
advanceOffsetOfPage(returned, rowCount) ==
  IF rowCount = 0 \/ (cfg.pageSize > 0 /\ rowCount < cfg.pageSize)
  THEN {} ELSE {rowCount}
advanceOffsetFull(returned, rowCount) ==
  IF rowCount = 0 \/ (cfg.pageSize > 0 /\ rowCount <= cfg.pageSize)
  THEN {} ELSE {returned}
advanceOffsetForever(returned, rowCount) ==
  IF cfg.pageSize > 0 /\ rowCount < cfg.pageSize THEN {} ELSE {returned}

advanceOffset(returned, rowCount) ==
  IF rowCount = 0 \/ (cfg.pageSize > 0 /\ rowCount < cfg.pageSize)
  THEN {} ELSE {returned}

isPageInfoContinue(flag) == flag \notin {"false", "null", "pathError"}

(* scalarFromJSONPath wants one value, in a list or bare.                  *)
advancePageInfo(found, flag) ==
  IF isPageInfoContinue(flag) /\ Len(found.vals) = 1 THEN {found.vals[1]} ELSE {}

advanceCursor(found, flag, returned, rowCount) ==
  CASE EffectiveStrategy = "cursor_after" -> advanceCursorAfter(found)
    [] EffectiveStrategy = "keyset" -> advanceKeyset(found, rowCount)
    [] EffectiveStrategy = "offset" -> advanceOffset(returned, rowCount)
    [] OTHER -> advancePageInfo(found, flag)

-----------------------------------------------------------------------------
(* Read *)

AtPageLimit == cfg.limit > 0 /\ pageCount >= cfg.limit

ReadAtLimit ==
  /\ pc = "reading"
  /\ AtPageLimit
  /\ pc' = "done"
  /\ last' = "eof"
  /\ UNCHANGED <<cfg, reader, got, again, faulty>>

(* A page is fetched: MaxPages bounds the reading.                         *)
Fetch ==
  /\ pc = "reading"
  /\ ~AtPageLimit
  /\ pageCount <= MaxPages

(* Read returns an error and no rows: the caller gives up or reads again.  *)
FailWithoutRows ==
  /\ last' = "error"
  /\ faulty' = TRUE
  /\ \/ pc' = "done" /\ UNCHANGED again
     \/ again < MaxAgain /\ again' = again + 1 /\ UNCHANGED pc

(* The query cannot be rendered, or the client returns no response.        *)
CallFails ==
  /\ Fetch
  /\ FailWithoutRows
  /\ UNCHANGED <<cfg, reader, got>>

(* The response is no JSON, reports errors, cannot be transformed, or does *)
(* not hold a list of objects where responseJsonPath leads.  The page      *)
(* counts.                                                                 *)
ResponseFails ==
  /\ Fetch
  /\ pageCount' = pageCount + 1
  /\ FailWithoutRows
  /\ UNCHANGED <<cfg, cursor, rowsReturned, got>>

(* An empty object, in which responseJsonPath still finds a list.          *)
ReadEmpty ==
  /\ Fetch
  /\ pageCount' = pageCount + 1
  /\ pc' = "done"
  /\ last' = "eof"
  /\ faulty' = TRUE
  /\ UNCHANGED <<cfg, cursor, rowsReturned, got, again>>

(* A page of rows is returned, along with io.EOF if it is the last one or  *)
(* with the error of the cursor's template, which is a hard failure: the   *)
(* caller reads no more, and would get the same page again.                *)
ReadPage ==
  /\ Fetch
  /\ pageCount' = pageCount + 1
  /\ rowsReturned' = rowsReturned + PageLen(cursor)
  /\ got' = got \o Page(cursor)
  /\ \E found \in {FoundIn(cursor), PathError}, flag \in {FlagOf(cursor)} \cup Flag,
        rendered \in BOOLEAN :
       LET next == advanceCursor(found, flag, rowsReturned', PageLen(cursor))
       IN /\ faulty' = (faulty \/ found # FoundIn(cursor) \/ flag # FlagOf(cursor)
                               \/ ~rendered)
          /\ \/ /\ next = {} /\ rendered
                /\ last' = "eof" /\ pc' = "done" /\ UNCHANGED cursor
             \/ /\ next # {} /\ rendered
                /\ cursor' \in next /\ last' = "page" /\ UNCHANGED pc
             \/ /\ next # {} /\ ~rendered /\ cfg.hasFormat
                /\ last' = "error" /\ pc' = "done" /\ UNCHANGED cursor
  /\ UNCHANGED <<cfg, again>>

Read == ReadAtLimit \/ CallFails \/ ResponseFails \/ ReadEmpty \/ ReadPage

Next == Construct \/ ConstructFails \/ Read

Spec == Init /\ [][Next]_vars

(* The caller reads on until Read returns io.EOF, and every call returns.  *)
FairSpec == Spec /\ WF_vars(Next)

-----------------------------------------------------------------------------
(* PROPERTIES *)

(* The JSON path leads to the cursor of the last row, and the server does  *)
(* not send an empty one.                                                  *)
SoundPath == cfg.cursorPath # "each" /\ cfg.lastCursor # "empty"

(* The rows the caller gets are the server's, in order, from the first,    *)
(* none twice and none left out, by every strategy and also when calls     *)
(* fail and are repeated on the way (Read, advanceCursor).                 *)
RowsInOrder ==
  SoundPath \/ EffectiveStrategy = "offset" =>
    \A i \in 1 .. Len(got) : got[i] = i

(* A limit of n lets n - 1 pages through, for the count starts at 1 and a  *)
(* page that could not be used counts as well (pageCount).                 *)
LimitBoundsRows ==
  cfg.limit > 0 =>
    /\ pageCount <= cfg.limit
    /\ Len(got) <= (cfg.limit - 1) * cfg.serverPage

(* What the caller gets is a prefix of the server's rows, no longer than    *)
(* the page limit lets through (Read, advanceCursor, pageCount).            *)
FirstRowsOnly == RowsInOrder /\ LimitBoundsRows

(* Paging this reader cannot do: cursor_after wants the cursor in a list,  *)
(* and an offset's page size above the server's takes each page for the    *)
(* last one.                                                               *)
OnePageOnly ==
  \/ EffectiveStrategy = "cursor_after" /\ cfg.cursorPath = "bare"
  \/ EffectiveStrategy = "offset" /\ cfg.pageSize > cfg.serverPage

(* When nothing failed and the reading has come to io.EOF, all of the rows *)
(* were returned, unless a limit or one of the two cases above cut it off. *)
HealthyServerFullyRead ==
  (/\ pc = "done" /\ last = "eof" /\ ~faulty /\ cfg.limit = 0 /\ ~OnePageOnly
   /\ SoundPath \/ EffectiveStrategy = "offset")
  => Len(got) = cfg.rows

(* The reading comes to an end, by every strategy.                         *)
ReadingEnds == SoundPath \/ EffectiveStrategy = "offset" => <>(pc = "done")

=============================================================================
