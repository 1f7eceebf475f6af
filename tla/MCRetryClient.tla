--------------------------- MODULE MCRetryClient ---------------------------
(***************************************************************************)
(* The instance TLC checks: every combination of the fields that steer the *)
(* loop, under a few timing profiles.                                      *)
(***************************************************************************)
EXTENDS RetryClient

MCStatusCode == {200, 404, 503}
MCMethod == {"GET", "POST"}

(* algorithm, initial delay, ceiling, multiplier and jitter: the defaults, *)
(* growth into the ceiling, a fractional multiplier, full jitter (a delay  *)
(* may be 0), an unknown algorithm above the ceiling, senseless values.    *)
Timing ==
  { <<"", 0, 0, 0, 0>>,
    <<"exponential", 2, 5, 20, 0>>,
    <<"exponential", 4, 100, 15, 5>>,
    <<"exponential", 3, 5, 30, 10>>,
    <<"linear", 7, 5, 0, 0>>,
    <<"", -1, 5, 10, 30>> }

MCPolicies ==
  { [algorithm |-> t[1], initialDelay |-> t[2], maxDelay |-> t[3],
     multiplier |-> t[4], jitter |-> t[5],
     maxAttempts |-> n, statusCodes |-> codes, methods |-> ms] :
      t \in Timing, n \in {0, 1, 2}, codes \in {{}, {404}},
      ms \in {{}, {"*"}, {"POST"}} }

=============================================================================
