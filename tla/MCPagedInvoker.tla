--------------------------- MODULE MCPagedInvoker ---------------------------
(* A small instance of PagedInvoker: up to two requests, three pages.      *)
EXTENDS PagedInvoker

Base == [requests |-> 1, provider |-> "google", algorithm |-> "token",
         requestToken |-> "none", responseToken |-> "none", hasBody |-> FALSE,
         pageLimit |-> 0, nilOK |-> FALSE, isMutation |-> FALSE,
         isAwait |-> FALSE, hasInverse |-> FALSE, pages |-> 3,
         advancing |-> TRUE]

(* Every place a token can be, with a request body and without.            *)
Paging ==
  {[Base EXCEPT !.provider = p, !.algorithm = a, !.requestToken = q,
                !.responseToken = s, !.hasBody = b] :
     p \in {"github", "google"}, a \in {"token", "page_number"},
     q \in Location, s \in Location, b \in BOOLEAN}

(* Every combination of the payload's flags, over two requests.            *)
Flags ==
  {[Base EXCEPT !.requests = 2, !.nilOK = n, !.isMutation = m, !.isAwait = w,
                !.hasInverse = v, !.pages = 2] :
     n \in BOOLEAN, m \in BOOLEAN, w \in BOOLEAN, v \in BOOLEAN}

(* Page limits below, at and above the number of pages, and servers that   *)
(* send the same page over and over.                                       *)
Limits ==
  {[Base EXCEPT !.algorithm = a, !.pageLimit = n, !.advancing = v] :
     a \in {"token", "page_number"}, n \in 0 .. 4, v \in BOOLEAN}

Empty == {[Base EXCEPT !.requests = 0]}

MCConfigs == Paging \cup Flags \cup Limits \cup Empty
=============================================================================
