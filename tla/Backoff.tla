------------------------------ MODULE Backoff ------------------------------
(***************************************************************************)
(* Exponential backoff as it is computed: the base is clamped when it is   *)
(* set, the power is taken by repeated squaring in f64, and the product is *)
(* turned into a duration (wait/math.rs, WaitExponential).  Every product  *)
(* and every conversion to f64 rounds to the nearest float, and the cast   *)
(* back truncates.  Strategies.WaitExponential says what the result would  *)
(* be without rounding.  The specification's names carry a prefix, because *)
(* WaitProofs reasons about it and about Jitter together.                  *)
(*                                                                         *)
(* A finite float is held as a whole number of units of the last place of  *)
(* 1.0.  Every float from 1.0 up is one, and the computation never meets a *)
(* smaller float except zero.                                              *)
(***************************************************************************)
EXTENDS Strategies

CONSTANTS
  Precision,        \* bits of a significand: 53 in an f64
  ExpMax,           \* the exponent of the largest binade, in units
  Infinity, NaN,
  Initials, BaseArguments   \* arguments of wait::exponential and of .base()

One == Power(2, Precision - 1)    \* 1.0
Top == Power(2, Precision) * Power(2, ExpMax)    \* the power of two after f64::MAX

\* Multiples of a power of two by a significand of Precision bits.
Grid == {m * Power(2, e) : m \in 0..Power(2, Precision), e \in 0..ExpMax}
Finite == {x \in Grid : x < Top}
IsFinite(x) == x \in Finite

ASSUME FloatAssumption ==
  Precision \in Nat \ {0} /\ ExpMax \in Nat /\ ExpMax >= Precision
ASSUME InfinityAssumption == {Infinity, NaN} \cap Int = {} /\ Infinity # NaN
ASSUME BackoffArguments ==
  Initials \subseteq Duration /\ BaseArguments \subseteq Finite \cup {Infinity, NaN}

\* The floats around x, which is in units of a unit.
RoundDown(x) ==
  CHOOSE f \in Grid : f * One <= x /\ \A g \in Grid : g * One <= x => g <= f
RoundUp(x) ==
  CHOOSE f \in Grid : x <= f * One /\ \A g \in Grid : x <= g * One => f <= g

\* The nearer of them, and of two that are as near the one with an even significand.
Nearest(x) ==
  LET lo == RoundDown(x)
      hi == RoundUp(x)
  IN  IF \/ lo = hi
         \/ x - lo * One < hi * One - x
         \/ x - lo * One = hi * One - x /\ lo % (2 * (hi - lo)) = 0
      THEN lo ELSE hi

\* The float of x; infinity from half a step above f64::MAX.
Round(x) ==
  IF x >= Top * One THEN Infinity
  ELSE IF Nearest(x) = Top THEN Infinity ELSE Nearest(x)

\* `as_nanos() as f64`.
AsFloat == [d \in Duration |-> Round(d * One * One)]

\* Duration::MAX.as_nanos() rounds up to the next float.
ASSUME LongestAssumption == AsFloat[DurMax] = (DurMax + 1) * One

VARIABLES
  at,         \* built, idle, in the loop, or returned
  initial, base,                \* WaitExponential
  attempt,                      \* of the RetryState next_wait is given
  result, factor, remaining,    \* the locals of pow_nonnegative_f64
  out                           \* what next_wait returned

backoffVars == <<at, initial, base, attempt, result, factor, remaining, out>>

\* A product of f64s that are not negative.
FMul(x, y) ==
  IF NaN \in {x, y} \/ {0, Infinity} = {x, y} THEN NaN
  ELSE IF Infinity \in {x, y} THEN Infinity
  ELSE Round(x * y)

\* Mutant: an infinite base is let through.
ClampKeepsInfinity(b) == IF b = NaN THEN One ELSE IF b = 0 THEN One ELSE b

ClampExponentialBase(b) ==
  IF ~IsFinite(b) THEN One ELSE IF b < One THEN One ELSE b

\* Mutant: the product is not compared with the longest duration.
MulUnsaturated(dur, mul) ==
  LET nanos == FMul(AsFloat[dur], mul) IN
    IF dur = 0 \/ nanos = NaN THEN 0
    ELSE IF nanos = Infinity THEN DurMax ELSE nanos \div One

\* saturating_duration_mul_f64; the cast truncates, and gives 0 for NaN.
SaturatingDurationMul(dur, mul) ==
  LET nanos == FMul(AsFloat[dur], mul) IN
    IF dur = 0 \/ nanos = NaN THEN 0
    ELSE IF nanos = Infinity THEN DurMax
    ELSE IF nanos >= AsFloat[DurMax] THEN DurMax
    ELSE nanos \div One

-----------------------------------------------------------------------------
BackoffInit ==
  /\ at = "built"
  /\ initial \in Initials
  /\ base = 2 * One              \* DEFAULT_EXPONENTIAL_BASE
  /\ attempt = 1
  /\ result = One /\ factor = 2 * One /\ remaining = 0
  /\ out = None

\* WaitExponential::base.
SetBase(b) ==
  /\ at = "built"
  /\ base' = ClampExponentialBase(b)
  /\ UNCHANGED <<at, initial, attempt, result, factor, remaining, out>>

Return(multiplier) ==
  /\ at' = "returned"
  /\ out' = SaturatingDurationMul(initial, multiplier)

\* next_wait at an attempt, up to the loop of pow_nonnegative_f64.
ExponentialNextWait(a) ==
  /\ at \in {"built", "returned"}
  /\ attempt' = a
  /\ result' = One /\ factor' = base /\ remaining' = a - 1
  /\ IF a - 1 = 0 \/ base <= One
       THEN Return(One)
       ELSE at' = "loop" /\ out' = None
  /\ UNCHANGED <<initial, base>>

Odd(n) == n % 2 = 1

Turn(product, left) ==
  /\ at = "loop"
  /\ result' = product
  /\ IF ~IsFinite(product)
       THEN Return(Infinity) /\ UNCHANGED <<factor, remaining>>
     ELSE IF left = 0
       THEN Return(product) /\ remaining' = 0 /\ UNCHANGED factor
     ELSE /\ remaining' = left
          /\ factor' = FMul(factor, factor)
          /\ UNCHANGED <<at, out>>
  /\ UNCHANGED <<initial, base, attempt>>

\* Mutants: the factor is multiplied in at every bit; the exponent is only shifted
\* past its odd bits.
LoopEveryBit ==
  \E product \in {FMul(result, factor)} : Turn(product, remaining \div 2)
LoopShiftsOddBits ==
  \E product \in {IF Odd(remaining) THEN FMul(result, factor) ELSE result} :
    Turn(product, IF Odd(remaining) THEN remaining \div 2 ELSE remaining)

\* One turn of the loop.
Loop ==
  \E product \in {IF Odd(remaining) THEN FMul(result, factor) ELSE result} :
    Turn(product, remaining \div 2)

BackoffNext ==
  \/ \E b \in BaseArguments : SetBase(b)
  \/ \E a \in Attempts : ExponentialNextWait(a)
  \/ Loop

BackoffSpec == BackoffInit /\ [][BackoffNext]_backoffVars /\ WF_backoffVars(Loop)

-----------------------------------------------------------------------------
BackoffTypeOK ==
  /\ at \in {"built", "loop", "returned"}
  /\ initial \in Duration /\ base \in Finite /\ attempt \in Attempts
  /\ result \in Finite \cup {Infinity} /\ factor \in Finite \cup {Infinity}
  /\ remaining \in 0..AttemptMax
  /\ out \in OptDuration

\* Every whole number up to this one is a float: 2^53.
ExactMax == Power(2, Precision)

\* The whole numbers around a float, as far as ExactMax for the one below.
WholeBelow(x) == IF x = Infinity THEN ExactMax ELSE Least(x \div One, ExactMax)
WholeAbove(x) == (x + (One - 1)) \div One

\* The loop invariant: what was multiplied, times what is left to multiply, is the
\* power asked for.  For a whole base it is exact while that power is at most
\* ExactMax, and stays above ExactMax once the power is, whatever was rounded or
\* overflowed on the way; a base with a fraction is held between the whole numbers
\* around it (pow_nonnegative_f64).
PowerLeft ==
  at = "loop" =>
    /\ remaining > 0 /\ IsFinite(result)
    /\ Least(Power(WholeBelow(base), attempt - 1), ExactMax)
         <= WholeBelow(result) * Power(WholeBelow(factor), remaining)
    /\ LET power == Power(WholeAbove(base), attempt - 1) IN
         power <= ExactMax =>
           /\ factor # Infinity
           /\ WholeAbove(result) * Power(WholeAbove(factor), remaining) <= power

\* The delay of the strategy algebra, which rounds nothing, for a whole base.
Unrounded(init, b) == ExponentialDelay(init, b, attempt)

Twos == {Power(2, e) : e \in 0..(ExpMax + 1)}

\* The delay that is returned, against the strategy algebra's, with the rounding of
\* every step.  Up to ExactMax it is the algebra's for a whole base, and for any other
\* base lies between the algebra's for the whole numbers around it; past ExactMax it
\* does not fall below it.  When the base is a power of two, as the default base is,
\* and the initial delay is at most ExactMax, it is the algebra's at every attempt, up
\* to the longest duration; so a base of 2 or more reaches the longest duration
\* (WaitExponential::next_wait).
DelayBracketed ==
  at = "returned" =>
    /\ Least(Unrounded(initial, WholeBelow(base)), ExactMax) <= out
    /\ Unrounded(initial, WholeAbove(base)) <= ExactMax
         => out <= Unrounded(initial, WholeAbove(base))
    /\ \A b \in Twos :
         /\ b * One <= base /\ base < 2 * b * One
              => Unrounded(Least(initial, ExactMax), b) <= out
         /\ b * One = base /\ initial <= ExactMax => out = Unrounded(initial, b)

\* "A base of `1.0` produces a constant delay equal to `initial` on every attempt"
\* (WaitExponential::base).
ConstantDelay == at = "returned" /\ base = One => out = initial

\* next_wait returns, however large the attempt is.
Returns == (at = "loop") ~> (at = "returned")
=============================================================================
