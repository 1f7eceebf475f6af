----------------------------- MODULE RemoteCall -----------------------------
(***************************************************************************)
(* What a caller of the HTTP client may rely on, with backoff, buffering   *)
(* and cancellation abstracted away: a call makes a bounded number of      *)
(* attempts, tries again only after a transient answer, and comes back     *)
(* either with the answer of its last attempt or with an error of its own. *)
(* A transient answer comes back only when the attempts are used up.       *)
(***************************************************************************)
EXTENDS Naturals

VARIABLES
  limit,     \* how many attempts this call may make
  attempts,  \* how many attempts have been answered
  last,      \* "none", or what the last answer was: "transient" or "final"
  outcome    \* "pending", "answer" (the last one is handed back) or "error"

vars == <<limit, attempts, last, outcome>>

TypeOK ==
  /\ limit \in Nat \ {0}
  /\ attempts \in Nat
  /\ last \in {"none", "transient", "final"}
  /\ outcome \in {"pending", "answer", "error"}

Init ==
  /\ limit \in Nat \ {0}
  /\ attempts = 0
  /\ last = "none"
  /\ outcome = "pending"

Attempt ==
  /\ outcome = "pending"
  /\ last # "final"
  /\ attempts < limit
  /\ attempts' = attempts + 1
  /\ last' \in {"transient", "final"}
  /\ UNCHANGED <<limit, outcome>>

HandBack ==
  /\ outcome = "pending"
  /\ \/ last = "final"
     \/ last = "transient" /\ attempts = limit
  /\ outcome' = "answer"
  /\ UNCHANGED <<limit, attempts, last>>

GiveUp ==
  /\ outcome = "pending"
  /\ outcome' = "error"
  /\ UNCHANGED <<limit, attempts, last>>

Next == Attempt \/ HandBack \/ GiveUp

Spec == Init /\ [][Next]_vars
=============================================================================
