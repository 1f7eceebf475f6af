--------------------------- MODULE QueryPushdown ---------------------------
(***************************************************************************)
(* Query parameter pushdown: the clauses of a SQL query that the           *)
(* configuration of a method allows are written into query parameters of   *)
(* the request, and what is not written is left for the caller.            *)
(*                                                                         *)
(* One action per translating function, in the order ApplyPushdown calls   *)
(* them; then the API evaluates the parameters it was sent and the caller  *)
(* finishes the query.  The text of a parameter is abstracted to the       *)
(* clause it spells.  Predicates are named by their position in the        *)
(* intent.                                                                 *)
(***************************************************************************)
EXTENDS Integers, Sequences, FiniteSetsExt

CONSTANTS Configs,   \* pushdown configurations under test
          Intents,   \* query intents under test
          Tables,    \* tables the API may hold: sequences of rows
          Nil        \* an absent configuration, limit, offset or parameter

\* Rows are stored in the order of their ids and have the columns of their
\* table, with values that can be compared; a query projects columns there are.
IsTable(t) ==
    /\ t \in Seq({t[i] : i \in DOMAIN t})
    /\ \A i \in DOMAIN t :
          /\ t[i] = [id |-> t[i].id, cells |-> t[i].cells] /\ t[i].id \in Int
          /\ \A c \in DOMAIN t[i].cells : t[i].cells[c] \in Int
    /\ \A i, j \in DOMAIN t : DOMAIN t[i].cells = DOMAIN t[j].cells /\ (i < j => t[i].id < t[j].id)

IsIntent(q) ==
    /\ q.predicates \in Seq({q.predicates[i] : i \in DOMAIN q.predicates})
    /\ {q.limit, q.offset} \subseteq Int \cup {Nil} /\ q.count \in BOOLEAN
    /\ \A t \in Tables : \A i \in DOMAIN t : q.projection \subseteq DOMAIN t[i].cells

WellFormedQueries ==
    /\ Nil \notin Int
    /\ \A t \in Tables : IsTable(t)
    /\ \A q \in Intents : IsIntent(q)
    /\ \A c \in Configs \ {Nil} : \A clause \in {"top", "skip"} : c[clause] # Nil => c[clause].max \in Nat

ASSUME QueriesAssumption == WellFormedQueries

VARIABLES config,    \* the resolved QueryParamPushdown, Nil when there is none
          intent,    \* the neutral PushdownIntent
          table,     \* what the API holds
          step,      \* the function that runs next
          res,       \* the PushdownResult under construction
          page,      \* what the API answered
          answer     \* what the caller makes of it

queryVars == <<config, intent, table, step, res, page, answer>>

(***************************************************************************)
(* Accessors of a sub-configuration.  A sub-configuration is a record      *)
(* [dialect, param, syntax, cols, ops, max]; "" is an unset string, {} an  *)
(* unset list and 0 an unset maximum.                                      *)
(***************************************************************************)
Dialect(sub) == IF sub.dialect = "" THEN "custom" ELSE sub.dialect

HasName(sub) == sub.param # "" \/ Dialect(sub) = "odata"

ODataSyntax(sub) == IF sub.syntax = "" THEN Dialect(sub) = "odata"
                                       ELSE sub.syntax = "odata"

IsItemSupported(item, list) == list = {} \/ list \cap {"*", item} # {}

\* Operators the translation knows, by the neutral spelling they come in.
NormalizePushdownFilterOperator(op) ==
    CASE op \in {"eq", "=", "=="}  -> "eq"
      [] op \in {"ne", "!=", "<>"} -> "ne"
      [] op \in {"gt", ">"}        -> "gt"
      [] op \in {"ge", ">="}       -> "ge"
      [] op \in {"lt", "<"}        -> "lt"
      [] op \in {"le", "<="}       -> "le"
      [] op \in {"startswith", "endswith", "contains"} -> op
      [] OTHER -> ""

Has(clause) == config[clause] # Nil

(***************************************************************************)
(* The six translators.                                                    *)
(***************************************************************************)
EmptyResult == [select |-> Nil, filter |-> {}, orderBy |-> Nil, top |-> Nil,
                skip |-> Nil, count |-> FALSE, residual |-> {}]

\* All or nothing: one unsupported column and the projection is not sent.
SelectParam ==
    IF /\ intent.projection # {}
       /\ Has("select") /\ HasName(config.select)
       /\ \A c \in intent.projection : IsItemSupported(c, config.select.cols)
    THEN intent.projection ELSE Nil

Pushable == {i \in DOMAIN intent.predicates :
               LET p  == intent.predicates[i]
                   op == NormalizePushdownFilterOperator(p.op)
               IN  /\ Has("filter") /\ HasName(config.filter) /\ ODataSyntax(config.filter)
                   /\ op # ""
                   /\ IsItemSupported(p.col, config.filter.cols)
                   /\ IsItemSupported(op, config.filter.ops)}

\* Several predicates need the operator "and"; without it only the first goes.
PushedPredicates ==
    IF Cardinality(Pushable) > 1 /\ ~IsItemSupported("and", config.filter.ops)
    THEN {Min(Pushable)} ELSE Pushable

\* Mutants: the predicates "and" would have joined, and the unsupported ones.
ResidualPredicatesUnjoined == DOMAIN intent.predicates \ Pushable
ResidualPredicatesForgotten == Pushable \ PushedPredicates

ResidualPredicates == DOMAIN intent.predicates \ PushedPredicates

OrderByParam ==
    IF /\ intent.orderBy # <<>>
       /\ Has("orderBy") /\ ODataSyntax(config.orderBy) /\ HasName(config.orderBy)
       /\ \A i \in DOMAIN intent.orderBy :
             IsItemSupported(intent.orderBy[i].col, config.orderBy.cols)
    THEN intent.orderBy ELSE Nil

\* A limit or an offset: not sent when negative, cut down to the maximum.
Capped(clause, v) ==
    IF v # Nil /\ Has(clause) /\ HasName(config[clause]) /\ v >= 0
    THEN IF config[clause].max > 0 /\ v > config[clause].max
         THEN config[clause].max ELSE v
    ELSE Nil

TopParam == Capped("top", intent.limit)
SkipParam == Capped("skip", intent.offset)
CountParam == intent.count /\ Has("count") /\ HasName(config.count)

(***************************************************************************)
(* The API and the caller (external).  The API filters, orders, skips,     *)
(* cuts and projects, in that order, as OData prescribes; a count is taken *)
(* after the filter alone.  The caller does whatever was not sent.         *)
(***************************************************************************)
Holds(p, row) ==
    /\ p.col \in DOMAIN row.cells
    /\ LET v == row.cells[p.col] IN
       CASE NormalizePushdownFilterOperator(p.op) = "eq" -> v = p.val
         [] NormalizePushdownFilterOperator(p.op) = "ne" -> v # p.val
         [] NormalizePushdownFilterOperator(p.op) = "gt" -> v > p.val
         [] OTHER -> v >= p.val

Filtered(rs, which) ==
    LET kept[n \in 0..Len(rs)] ==
            IF n = 0 THEN <<>>
            ELSE IF \A i \in which : Holds(intent.predicates[i], rs[n])
                 THEN Append(kept[n - 1], rs[n]) ELSE kept[n - 1]
    IN  kept[Len(rs)]

\* Rows in the order of one term, ties in the order the rows were stored.
Before(term, r, s) ==
    LET x == r.cells[term.col]
        y == s.cells[term.col]
    IN  IF x = y THEN r.id < s.id ELSE IF term.desc THEN x > y ELSE x < y

Ordered(rs, order) ==
    IF order \in {Nil, <<>>} \/ \E i \in DOMAIN rs : order[1].col \notin DOMAIN rs[i].cells
    THEN rs
    ELSE CHOOSE s \in [DOMAIN rs -> {rs[i] : i \in DOMAIN rs}] :
            /\ \A i \in DOMAIN rs : \E j \in DOMAIN rs : s[j] = rs[i]
            /\ \A i, j \in DOMAIN rs : i < j => Before(order[1], s[i], s[j])

\* Rows from offset on, at most limit of them; Nil leaves that end open.
Window(rs, offset, limit) ==
    LET from == IF offset = Nil THEN 0 ELSE offset
        rest == SubSeq(rs, from + 1, Len(rs))
    IN  IF limit = Nil \/ limit >= Len(rest) THEN rest ELSE SubSeq(rest, 1, limit)

Projected(rs, cols) ==
    IF cols \in {Nil, {}} THEN rs
    ELSE [i \in DOMAIN rs |-> [rs[i] EXCEPT !.cells = [c \in cols |-> rs[i].cells[c]]]]

\* The caller's own clauses: a negative LIMIT or OFFSET bounds nothing.
Bound(v) == IF v = Nil THEN Nil ELSE IF v < 0 THEN Nil ELSE v

\* A COUNT(*) query is answered by one number, any other query by rows.
Reference ==
    LET found == Filtered(table, DOMAIN intent.predicates) IN
    IF intent.count THEN Len(found)
    ELSE Projected(Window(Ordered(found, intent.orderBy), Bound(intent.offset), Bound(intent.limit)),
                   intent.projection)

-----------------------------------------------------------------------------
QueryInit == /\ config \in Configs /\ intent \in Intents /\ table \in Tables
        /\ step = "start" /\ res = EmptyResult
        /\ page = <<>> /\ answer = Nil

Step(from, to) == step = from /\ step' = to /\ UNCHANGED <<config, intent, table>>

\* No configuration at any level: every predicate is residual, nothing is sent.
NoConfig == /\ config = Nil /\ Step("start", "send")
            /\ res' = [res EXCEPT !.residual = DOMAIN intent.predicates]
            /\ UNCHANGED <<page, answer>>

ApplyPushdownSelect == /\ config # Nil /\ Step("start", "filter")
                       /\ res' = [res EXCEPT !.select = SelectParam]
                       /\ UNCHANGED <<page, answer>>

ApplyPushdownFilter == /\ Step("filter", "orderBy")
                       /\ res' = [res EXCEPT !.filter = PushedPredicates,
                                             !.residual = ResidualPredicates]
                       /\ UNCHANGED <<page, answer>>

ApplyPushdownOrderBy == /\ Step("orderBy", "top")
                        /\ res' = [res EXCEPT !.orderBy = OrderByParam]
                        /\ UNCHANGED <<page, answer>>

ApplyPushdownTop == /\ Step("top", "skip")
                    /\ res' = [res EXCEPT !.top = TopParam]
                    /\ UNCHANGED <<page, answer>>

ApplyPushdownSkip == /\ Step("skip", "count")
                     /\ res' = [res EXCEPT !.skip = SkipParam]
                     /\ UNCHANGED <<page, answer>>

ApplyPushdownCount == /\ Step("count", "send")
                      /\ res' = [res EXCEPT !.count = CountParam]
                      /\ UNCHANGED <<page, answer>>

\* The API evaluates what it was sent.
Answer == /\ Step("send", "finish")
          /\ LET found == Filtered(table, res.filter) IN
             page' = [data  |-> Projected(Window(Ordered(found, res.orderBy), res.skip, res.top),
                                          res.select),
                      total |-> Len(found)]
          /\ UNCHANGED <<res, answer>>

\* The caller filters what is residual, orders, and applies the clauses that
\* were not sent; a count that was sent is read from the response.
Finish == /\ Step("finish", "done")
          /\ LET kept   == Filtered(page.data, res.residual)
                 offset == IF res.skip = Nil THEN Bound(intent.offset) ELSE Nil
             IN answer' =
                  IF intent.count
                  THEN IF res.count THEN page.total ELSE Len(kept)
                  ELSE Projected(Window(Ordered(kept, intent.orderBy), offset, Bound(intent.limit)),
                                 intent.projection)
          /\ UNCHANGED <<res, page>>

QueryDone == step = "done" /\ UNCHANGED queryVars

QueryNext == \/ NoConfig \/ ApplyPushdownSelect \/ ApplyPushdownFilter \/ ApplyPushdownOrderBy
        \/ ApplyPushdownTop \/ ApplyPushdownSkip \/ ApplyPushdownCount
        \/ Answer \/ Finish \/ QueryDone

QuerySpec == QueryInit /\ [][QueryNext]_queryVars

-----------------------------------------------------------------------------
(***************************************************************************)
(* Properties.                                                             *)
(***************************************************************************)
\* Everything the query cuts or counts is cut and counted after everything it
\* filters and orders: what was sent leaves nothing that should come first.
NothingLeftBefore ==
    /\ res.top # Nil \/ res.skip # Nil \/ res.count => res.residual = {}
    /\ res.top # Nil \/ res.skip # Nil => res.count \/ ~intent.count
    /\ res.top # Nil \/ res.skip # Nil => res.orderBy # Nil \/ intent.orderBy = <<>>
    /\ res.top # Nil => res.skip # Nil \/ Bound(intent.offset) = Nil
    /\ res.top # Nil => res.top = intent.limit
    /\ res.skip # Nil => res.skip = intent.offset

\* A column the caller still compares or orders by was not projected away.
NeedsProjected ==
    res.select # Nil =>
        /\ \A i \in res.residual : intent.predicates[i].col \in res.select
        /\ intent.orderBy # <<>> => intent.orderBy[1].col \in res.select

\* Filtering is split soundly between the API and the caller: when no cut or
\* count was pushed past the work left to the caller, the caller ends with
\* exactly the answer of the query over the API's table, in the right order.
SplitQueryIsExact ==
    step = "done" /\ NothingLeftBefore /\ NeedsProjected => answer = Reference

\* Whatever was pushed and however it was cut, no row is delivered that the
\* query excludes, and none twice.
NoForeignRows ==
    step = "done" /\ ~intent.count /\ NeedsProjected =>
        LET wanted == Filtered(table, DOMAIN intent.predicates) IN
        /\ \A i \in DOMAIN answer : \E j \in DOMAIN wanted : wanted[j].id = answer[i].id
        /\ \A i, j \in DOMAIN answer : answer[i].id = answer[j].id => i = j

=============================================================================
