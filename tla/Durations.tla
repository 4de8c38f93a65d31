----------------------------- MODULE Durations -----------------------------
(***************************************************************************)
(* The numeric vocabulary of the crate: core::time::Duration with its      *)
(* saturating operations, the u32 attempt counter, and RetryState, the     *)
(* read-only record that stop and wait strategies and hooks are given.     *)
(***************************************************************************)
EXTENDS Integers

CONSTANTS
  DurMax,      \* Duration::MAX, in ticks
  AttemptMax,  \* u32::MAX
  None         \* Option::None

ASSUME DurMaxAssumption == DurMax \in Nat \ {0}
ASSUME AttemptMaxAssumption == AttemptMax \in Nat \ {0}
ASSUME NoneAssumption == None \notin Nat

Duration == 0..DurMax
Attempts == 1..AttemptMax
OptDuration == Duration \cup {None}

Least(a, b) == IF a <= b THEN a ELSE b

\* Duration::saturating_add, Duration::saturating_sub.
SatAdd(a, b) == IF a + b <= DurMax THEN a + b ELSE DurMax
SatSub(a, b) == IF a >= b THEN a - b ELSE 0

\* Duration::checked_mul(..).unwrap_or(Duration::MAX).
SatMul(d, n) == IF d * n <= DurMax THEN d * n ELSE DurMax

\* Mutant: the counter is not saturating.
NextAttemptOverflows(a) == a + 1

\* u32::saturating_add(1) on the attempt counter.
NextAttempt(a) == IF a < AttemptMax THEN a + 1 ELSE AttemptMax

\* What a stop strategy, a wait strategy and the before hook see of the loop.
RetryStates ==
  [attempt : Attempts, elapsed : Duration, previous_delay : OptDuration]

RetryState(a, e, p) == [attempt |-> a, elapsed |-> e, previous_delay |-> p]
=============================================================================
