----------------------------- MODULE Strategies -----------------------------
(***************************************************************************)
(* The stop and wait strategies and their combinators, as values.          *)
(*                                                                         *)
(* A stop strategy is the set of retry states in which should_stop is      *)
(* true.  A wait strategy maps a retry state to the set of durations that  *)
(* next_wait may return: one for a deterministic strategy, the whole range *)
(* of the draw for a jittered one.                                         *)
(***************************************************************************)
EXTENDS Durations

Stops == SUBSET RetryStates
Waits == [RetryStates -> (SUBSET Duration) \ {{}}]

-----------------------------------------------------------------------------
(* Stop strategies. *)

\* stop::attempts panics on 0, so max is at least 1.
StopAfterAttempts(max) == {s \in RetryStates : s.attempt >= max}

StopAfterElapsed(deadline) == {s \in RetryStates : s.elapsed >= deadline}

StopNever == {}

StopAny(left, right) == left \cup right

StopAll(left, right) == left \cap right

-----------------------------------------------------------------------------
(* Wait strategies. *)

WaitFixed(dur) == [s \in RetryStates |-> {dur}]

WaitLinear(initial, increment) ==
  [s \in RetryStates |-> {SatAdd(initial, SatMul(increment, s.attempt - 1))}]

\* b to the n-th.
Power(b, n) ==
  LET power[k \in 0..n] == IF k = 0 THEN 1 ELSE b * power[k - 1] IN power[n]

\* The base is clamped to at least 1.  Whole-number bases, and no rounding: Backoff
\* says how near the code comes.
ExponentialDelay(initial, base, n) ==
  SatMul(initial, Power(IF base < 1 THEN 1 ELSE base, n - 1))

WaitExponential(initial, base) ==
  [s \in RetryStates |-> {ExponentialDelay(initial, base, s.attempt)}]

WaitCapped(inner, max) ==
  [s \in RetryStates |-> {Least(d, max) : d \in inner[s]}]

\* The saturated sums of the delays of two sets.
SatSums(A, B) == {SatAdd(a, b) : a \in A, b \in B}

WaitCombine(left, right) == [s \in RetryStates |-> SatSums(left[s], right[s])]

WaitChain(first, second, after) ==
  [s \in RetryStates |-> IF s.attempt <= after THEN first[s] ELSE second[s]]

-----------------------------------------------------------------------------
(* Jitter: any value of the range the generator is asked for. *)

\* random_duration_in: lower when the range is empty.
RandomDurationIn(lower, upper) ==
  IF upper <= lower THEN {lower} ELSE lower..upper

JitterAdditive(inner, max_jitter) ==
  [s \in RetryStates |-> SatSums(inner[s], RandomDurationIn(0, max_jitter))]

JitterFull(inner) ==
  [s \in RetryStates |-> UNION {RandomDurationIn(0, base) : base \in inner[s]}]

JitterEqual(inner) ==
  [s \in RetryStates |->
     UNION {{(base \div 2) + j : j \in RandomDurationIn(0, base \div 2)}
              : base \in inner[s]}]

\* random(base, 3 * previous_delay), with base standing in for a first delay.
JitterDecorrelated(inner) ==
  [s \in RetryStates |->
     UNION {RandomDurationIn(base,
              SatMul(IF s.previous_delay = None THEN base ELSE s.previous_delay, 3))
              : base \in inner[s]}]

\* WaitCapped::jitter: jitter added after a cap is moved under the cap.
WaitCappedJitter(inner, max, max_jitter) ==
  WaitCapped(JitterAdditive(inner, max_jitter), max)
=============================================================================
