---------------------------- MODULE RetryPolicy ----------------------------
(***************************************************************************)
(* The retry policy of a remote call: internal/anysdk/retry.go.            *)
(*                                                                         *)
(* A policy is the record a spec document declares under `retry`.  A field *)
(* the document leaves out holds its zero value ("", 0, {}), and each      *)
(* getter replaces a zero or senseless value by the default.  Fractions    *)
(* are integers in tenths (multiplier 15 is 1.5, jitter 5 is 0.5); delays  *)
(* are whole ticks.                                                        *)
(***************************************************************************)
EXTENDS Integers

Tenths == 10

RawPolicy == [algorithm: STRING, maxAttempts: Int, initialDelay: Int,
              maxDelay: Int, multiplier: Int, jitter: Int,
              statusCodes: SUBSET Nat, methods: SUBSET STRING]

(* A policy declared with no field, which is also what applies when no     *)
(* level of the configuration declares one.                                *)
DefaultRetryPolicy ==
  [algorithm |-> "", maxAttempts |-> 0, initialDelay |-> 0, maxDelay |-> 0,
   multiplier |-> 0, jitter |-> 0, statusCodes |-> {}, methods |-> {}]

defaultRetryableStatusCodes == {408, 429, 502, 503, 504}
defaultRetryableMethods == {"GET", "HEAD"}

GetAlgorithm(p) == IF p.algorithm = "" THEN "exponential" ELSE p.algorithm

GetMaxAttempts(p) == IF p.maxAttempts < 1 THEN 3 ELSE p.maxAttempts

GetInitialDelay(p) == IF p.initialDelay <= 0 THEN 500 ELSE p.initialDelay

GetMaxDelay(p) == IF p.maxDelay <= 0 THEN 10000 ELSE p.maxDelay

GetMultiplier(p) ==
  IF p.multiplier <= Tenths THEN 2 * Tenths ELSE p.multiplier

GetJitterFraction(p) ==
  CASE p.jitter < 0      -> 0
    [] p.jitter > Tenths -> Tenths
    [] OTHER             -> p.jitter

GetStatusCodes(p) ==
  IF p.statusCodes = {} THEN defaultRetryableStatusCodes ELSE p.statusCodes

GetRetryableMethods(p) ==
  IF p.methods = {} THEN defaultRetryableMethods ELSE p.methods

IsStatusRetryable(p, code) == code \in GetStatusCodes(p)

IsMethodRetryable(p, method) ==
  {"*", method} \cap GetRetryableMethods(p) # {}

(* math.Pow, of a whole exponent.                                          *)
Power(base, exponent) ==
  LET p[k \in 0 .. exponent] == IF k = 0 THEN 1 ELSE base * p[k - 1]
  IN  p[exponent]

(* Mistake: the cut-off guards the exponential growth only.                *)
BaseDelayUncapped(p, attempt) ==
  LET grown == GetInitialDelay(p) * Power(GetMultiplier(p), attempt - 1)
      unit  == Power(Tenths, attempt - 1)
  IN  IF GetAlgorithm(p) = "exponential"
      THEN IF grown > GetMaxDelay(p) * unit THEN GetMaxDelay(p) ELSE grown \div unit
      ELSE GetInitialDelay(p)

(***************************************************************************)
(* The delay before jitter: exponential growth cut off at the ceiling, or  *)
(* the flat initial delay under an algorithm the code does not know.       *)
(***************************************************************************)
BaseDelay(p, attempt) ==
  LET n       == IF attempt < 1 THEN 1 ELSE attempt
      ceiling == GetMaxDelay(p)
      grown   == GetInitialDelay(p) * Power(GetMultiplier(p), n - 1)
      unit    == Power(Tenths, n - 1)
      d       == IF GetAlgorithm(p) = "exponential"
                 THEN IF grown > ceiling * unit THEN ceiling ELSE grown \div unit
                 ELSE GetInitialDelay(p)
  IN  IF d > ceiling THEN ceiling ELSE d

(***************************************************************************)
(* The delays BackoffFor may return.  rand.Float64 makes the jittered      *)
(* delay any value in the band d * (1 +- fraction), cut off at 0 and at    *)
(* the ceiling; its lower end is rounded up, so that 0 is a delay of the   *)
(* model only where the code can return 0.                                 *)
(***************************************************************************)
BackoffFor(p, attempt) ==
  LET d    == BaseDelay(p, attempt)
      jf   == GetJitterFraction(p)
      low  == (d * (Tenths - jf) + Tenths - 1) \div Tenths
      high == (d * (Tenths + jf)) \div Tenths
      clamped(x) == CASE x < 0              -> 0
                      [] x > GetMaxDelay(p) -> GetMaxDelay(p)
                      [] OTHER              -> x
  IN  IF jf > 0 THEN {clamped(x) : x \in low .. high} ELSE {d}
=============================================================================
