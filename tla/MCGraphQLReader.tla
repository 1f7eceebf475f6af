--------------------------- MODULE MCGraphQLReader ---------------------------
(* A small instance of GraphQLReader: up to five rows in pages of one or   *)
(* two.                                                                    *)
EXTENDS GraphQLReader

Base == [strategy |-> "", hasFormat |-> TRUE, hasTerminator |-> TRUE,
         pageSize |-> 0, limit |-> 0, rows |-> 4, serverPage |-> 2,
         cursorPath |-> "last", lastCursor |-> "row"]

(* Every strategy against every server: no rows, whole pages, a short one. *)
Servers ==
  {[Base EXCEPT !.strategy = s, !.rows = n, !.serverPage = k,
                !.cursorPath = p, !.lastCursor = c] :
     s \in Strategy \cup {""}, n \in {0, 1, 4, 5}, k \in {1, 2},
     p \in {"last", "each", "bare"}, c \in {"row", "empty", "none"}}

(* Page limits, and page sizes below, at and above the server's.           *)
Limits ==
  {[Base EXCEPT !.strategy = s, !.limit = l, !.pageSize = z, !.rows = 5] :
     s \in Strategy, l \in 0 .. 4, z \in 0 .. 3}

(* Configurations the constructor refuses.                                 *)
Refused ==
  {[Base EXCEPT !.strategy = s, !.hasFormat = f, !.hasTerminator = t] :
     s \in Strategy \cup {"other"}, f \in BOOLEAN, t \in BOOLEAN}

MCConfigs == Servers \cup Limits \cup Refused
=============================================================================
