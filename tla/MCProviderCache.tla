-------------------------- MODULE MCProviderCache --------------------------
(* ProviderCache for TLC.  The sessions are alike.  The run explores two    *)
(* instances: every publication of one provider with one session, and the   *)
(* first publication of two providers with two sessions, until something is *)
(* cut short.                                                               *)
EXTENDS ProviderCache, TLC

SessionsAlike == Permutations(Session)

Docs == UNION {{handle[s], picked[s], request[s].doc} : s \in Session} \cup {kv[k] : k \in Key}
Places == dirs \cup {pull.place}
AtWork == {s \in Session : ~Free(s) \/ handle[s] # None}

OneProvider ==
  /\ \A x \in Places : x[1] \in {"aws", "none"}
  /\ \A d \in Docs : d.provider \in {"aws", "none"}
  /\ Cardinality(AtWork) <= 1

OnePublication ==
  /\ pull.edition <= 1 /\ broken \subseteq {pull.place}
  /\ \A x \in Places : x[2] <= 1
  /\ \A d \in Docs : d.version <= 1
  /\ \A x \in Place, f \in File : files[x][f].edition <= 1

(* Bound: a state beyond both instances has no successors.                  *)
Bounds == OneProvider \/ OnePublication

=============================================================================
