-------------------------------- MODULE Step --------------------------------
(***************************************************************************)
(* The state one retry execution keeps, and the part of it that both       *)
(* engines share: `step`, which turns a completed attempt into "exit" or   *)
(* "retry after this delay" (src/engine/step.rs).                          *)
(*                                                                         *)
(* Every place where user code runs (hooks, operation, classifier, clock)  *)
(* is an action of its own, because time passes there and because the code *)
(* may panic there.  Between two of them the engines run without           *)
(* interruption.                                                           *)
(*                                                                         *)
(* A policy is a name; StopOf, WaitOf and TimeoutOf give its parts.        *)
(***************************************************************************)
EXTENDS Durations

CONSTANTS
  Policies,    \* the configurations a caller may run
  StopOf,      \* policy -> the retry states in which its stop strategy fires
  WaitOf,      \* policy -> retry state -> the delays its wait strategy may return
  TimeoutOf,   \* policy -> the wall-clock budget, or None
  Origins,     \* readings of the clock when the execution is built
  HookTimes,   \* how long a hook, or the classifier with the strategies, may take
  StartTimes,  \* how far apart the baseline and the first elapsed reading may be
  OpsCap       \* bound of the ghost counter ops

ASSUME PolicyAssumption ==
  /\ StopOf \in [Policies -> SUBSET RetryStates]
  /\ WaitOf \in [Policies -> [RetryStates -> (SUBSET Duration) \ {{}}]]
  /\ TimeoutOf \in [Policies -> OptDuration]

ASSUME TimeAssumption ==
  /\ Origins \subseteq Duration
  /\ HookTimes \subseteq Duration
  /\ StartTimes \subseteq Duration

\* One more than the counter can reach, so that saturation can be told apart.
ASSUME OpsCapAssumption == OpsCap \in Nat /\ OpsCap > AttemptMax

VARIABLES
  policy,          \* the configuration of this execution
  pc,              \* which user callback runs next, or how the execution ended
  now,             \* what Clock::now reports
  origin,          \* the baseline that elapsed times are measured from
  attempt,         \* the loop cursor: 1-indexed attempt number (saturating),
  previous_delay,  \*   the delay applied before this attempt,
  total_wait,      \*   the running total of applied delays
  start_elapsed,   \* the elapsed reading handed to before_attempt and the operation
  post_elapsed,    \* the elapsed reading taken when the operation completed
  delay,           \* the delay `step` decided on
  reason,          \* the stop reason `step` decided on
  result,          \* the statistics returned, once there are any
  ops,             \* ghost: operations started (saturates at OpsCap)
  exits,           \* ghost: calls of on_exit
  slept,           \* ghost: sum of the durations passed to the clock's wait
  lag              \* ghost: time since the last reading of the clock (the baseline,
                   \*   then post_elapsed) that no wait asked for

stepVars == <<policy, pc, now, origin, attempt, previous_delay, total_wait,
              start_elapsed, post_elapsed, delay, reason, result,
              ops, exits, slept, lag>>

StopReasons == {"Returned", "Aborted", "Exhausted"}

Stats == [attempts : Attempts, total_elapsed : Duration,
          total_wait : Duration, stop_reason : StopReasons]

-----------------------------------------------------------------------------
(* The pieces of `step`. *)

Timeout == TimeoutOf[policy]

\* elapsed(&clock) at clock reading t: now().saturating_sub(origin).
ElapsedAt(t) == SatSub(t, origin)

\* Mutant: the strategies are shown the number of attempts before this one.
StepStateOffByOne ==
  RetryState(IF attempt > 1 THEN attempt - 1 ELSE 1, post_elapsed, previous_delay)

\* The state given to the stop and wait strategies.
StepState == RetryState(attempt, post_elapsed, previous_delay)

\* Mutant: the deadline itself still counts as inside the budget.
TimeoutExceededStrict == Timeout # None /\ post_elapsed > Timeout

TimeoutExceeded == Timeout # None /\ post_elapsed >= Timeout

\* A retry verdict ends the loop when the stop strategy or the budget says so.
Exhausted == StepState \in StopOf[policy] \/ TimeoutExceeded

\* Mutant: the wait is not clamped.
ClampDelayNever(next_delay) == next_delay

\* The computed wait, clamped to what is left of the budget.
ClampDelay(next_delay) ==
  IF Timeout = None THEN next_delay
                    ELSE Least(next_delay, SatSub(Timeout, post_elapsed))

\* Mutant: the total is replaced by the latest delay.
RunningWaitLast(d) == d

RunningWait(d) == SatAdd(total_wait, d)

StatsFor(stop_reason) ==
  [attempts |-> attempt, total_elapsed |-> post_elapsed,
   total_wait |-> total_wait, stop_reason |-> stop_reason]

-----------------------------------------------------------------------------
(* Time spent in user code. *)

Spend(d) == now' = SatAdd(now, d)

\* Time that passes between a reading of the clock and the next attempt.
SpendOutside(d) == Spend(d) /\ lag' = lag + d

\* The clock is read a second time, after the baseline, for the first before_state.
FirstReading ==
  /\ \E d \in StartTimes : SpendOutside(d)
  /\ start_elapsed' = SatSub(now', origin')

Goto(from, to) == pc = from /\ pc' = to

-----------------------------------------------------------------------------
(* The initial state: a built execution that has not been started. *)

StepInit ==
  /\ policy \in Policies
  /\ pc = "idle"
  /\ now \in Origins
  /\ origin = None
  /\ attempt = 1
  /\ previous_delay = None
  /\ total_wait = 0
  /\ start_elapsed = 0
  /\ post_elapsed = 0
  /\ delay = 0
  /\ reason = None
  /\ result = None
  /\ ops = 0
  /\ exits = 0
  /\ slept = 0
  /\ lag = 0

(* The before_attempt hook; the operation is called when it returns. *)
BeforeAttempt ==
  /\ Goto("before", "op")
  /\ \E d \in HookTimes : Spend(d)
  /\ ops' = Least(ops + 1, OpsCap)
  /\ UNCHANGED <<policy, origin, attempt, previous_delay, total_wait, start_elapsed,
                 post_elapsed, delay, reason, result, exits, slept, lag>>

(* The after_attempt hook, called before the classifier consumes the outcome. *)
AfterAttempt ==
  /\ Goto("after", "decide")
  /\ \E d \in HookTimes : SpendOutside(d)
  /\ UNCHANGED <<policy, origin, attempt, previous_delay, total_wait,
                 start_elapsed, post_elapsed, delay, reason, result, ops, exits, slept>>

(* The classifier returns or aborts. *)
Conclude ==
  /\ Goto("decide", "exit")
  /\ \E d \in HookTimes : SpendOutside(d)
  /\ reason' \in {"Returned", "Aborted"}
  /\ UNCHANGED <<policy, origin, attempt, previous_delay, total_wait,
                 start_elapsed, post_elapsed, delay, result, ops, exits, slept>>

\* Mutant: an exhausted loop returns without reporting its exit.
ExhaustSilently ==
  /\ Exhausted
  /\ Goto("decide", "done")
  /\ \E d \in HookTimes : SpendOutside(d)
  /\ result' = StatsFor("Exhausted")
  /\ UNCHANGED <<policy, origin, attempt, previous_delay, total_wait,
                 start_elapsed, post_elapsed, delay, reason, ops, exits, slept>>

(* The classifier asks for a retry and the loop may not go on. *)
Exhaust ==
  /\ Exhausted
  /\ Goto("decide", "exit")
  /\ \E d \in HookTimes : SpendOutside(d)
  /\ reason' = "Exhausted"
  /\ UNCHANGED <<policy, origin, attempt, previous_delay, total_wait,
                 start_elapsed, post_elapsed, delay, result, ops, exits, slept>>

(* The classifier asks for a retry and gets it.  What the driver does with *)
(* the delay (cursor, pc, waiting) is its own half of the action.          *)
Continue ==
  /\ pc = "decide"
  /\ ~Exhausted
  /\ \E d \in HookTimes : SpendOutside(d)
  /\ \E next_delay \in WaitOf[policy][StepState] : delay' = ClampDelay(next_delay)
  /\ UNCHANGED <<policy, origin, start_elapsed, post_elapsed, reason, result,
                 ops, exits>>

(* The on_exit hook, then Step::Done with the statistics. *)
OnExit ==
  /\ Goto("exit", "done")
  /\ \E d \in HookTimes : SpendOutside(d)
  /\ exits' = exits + 1
  /\ result' = StatsFor(reason)
  /\ UNCHANGED <<policy, origin, attempt, previous_delay, total_wait,
                 start_elapsed, post_elapsed, delay, reason, ops, slept>>

(* User code, or the clock in a wait, panics: the execution unwinds, and nothing catches it. *)
Panic ==
  /\ pc \in {"before", "op", "after", "decide", "sleep", "exit"}
  /\ pc' = "panicked"
  /\ exits' = exits + (IF pc = "exit" THEN 1 ELSE 0)
  /\ UNCHANGED <<policy, now, origin, attempt, previous_delay, total_wait,
                 start_elapsed, post_elapsed, delay, reason, result, ops, slept, lag>>
-----------------------------------------------------------------------------
(* What every execution must satisfy, whichever engine drives it. *)

StepTypeOK ==
  /\ policy \in Policies
  /\ now \in Duration
  /\ origin \in OptDuration
  /\ attempt \in Attempts
  /\ previous_delay \in OptDuration
  /\ total_wait \in Duration
  /\ start_elapsed \in Duration
  /\ post_elapsed \in Duration
  /\ delay \in Duration
  /\ reason \in StopReasons \cup {None}
  /\ result \in Stats \cup {None}
  /\ ops \in 0..OpsCap
  /\ exits \in Nat
  /\ slept \in Duration
  /\ lag \in Nat

\* The statistics an execution returns agree with what it did: the attempts are
\* the operations started (up to the counter's saturation), total_wait is the sum
\* of what the clock was asked to wait, and, unless the clock itself saturated,
\* no more was waited than elapsed.
StatsTruthful ==
  pc = "done" =>
    /\ result.attempts = Least(ops, AttemptMax)
    /\ result.total_wait = slept
    /\ now < DurMax => result.total_wait <= result.total_elapsed

\* A budget bounds when an attempt may start: no later than the deadline plus the
\* time that hooks, classifier and late wake-ups took since the clock was last read,
\* which for the first attempt was when the baseline was captured.
\* The clamped wait itself never carries an attempt past the deadline.
DeadlineBound ==
  pc = "before" /\ Timeout # None => start_elapsed <= Timeout + lag

\* An attempt that starts at or after the deadline is the last one: whenever
\* another attempt is begun, the one before it had started inside the budget.
LastAttemptAtDeadline ==
  [][pc \notin {"idle", "before"} /\ pc' = "before" /\ Timeout # None
       => start_elapsed < Timeout]_stepVars

\* What the next attempt is told is coherent: its elapsed reading is at least the
\* previous attempt's completion plus the delay it is told was applied.
BackoffRespected ==
  [][pc \notin {"idle", "before"} /\ pc' = "before" /\ now' < DurMax
       => start_elapsed' >= post_elapsed + previous_delay']_stepVars

\* The numbers n for which the policy's stop strategy fires from attempt n on.
Budgets ==
  [p \in Policies |->
     {n \in Attempts : \A s \in RetryStates : s.attempt >= n => s \in StopOf[p]}]

\* A stop strategy that fires from attempt n on lets at most n operations start,
\* whatever the time spent, the timeout and the counter's saturation.
AttemptBudget == \A n \in Budgets[policy] : ops <= n

\* Policies whose execution must end: by count, or by a deadline together with
\* waits that are never zero.
Bounded ==
  {p \in Policies :
     \/ Budgets[p] # {}
     \/ TimeoutOf[p] # None /\ \A s \in RetryStates : 0 \notin WaitOf[p][s]}

\* The clock's range reaches past the deadline.
ClockLasts ==
  origin # None /\ Timeout # None => origin + Timeout <= DurMax
-----------------------------------------------------------------------------
(* The part of the inductive invariants that both engines share: what the  *)
(* variables owe each other at each location.  While an engine waits, at   *)
(* "sleep", the two differ, and each says the rest itself.                 *)

Before == {"idle", "before"}
Attempted == {"op", "after", "decide", "sleep", "exit"}
Observed == {"after", "decide", "exit"}

\* The baseline is in the past, and so is every elapsed reading taken from it.
ReadingsPast ==
  /\ pc = "idle" => origin = None /\ start_elapsed = 0
  /\ pc \in {"before"} \cup Attempted =>
       /\ origin \in Duration /\ origin <= now
       /\ origin + start_elapsed <= now
  /\ pc \in Observed \cup {"sleep"} =>
       /\ start_elapsed <= post_elapsed
       /\ origin + post_elapsed <= now
  /\ pc \in Observed => now <= origin + post_elapsed + lag

\* The counter follows the operations until it saturates.
AttemptsCounted ==
  /\ pc \in Before => attempt = Least(ops + 1, AttemptMax)
  /\ pc \in Attempted => attempt = Least(ops, AttemptMax)

\* total_wait is what the clock was asked for, and all of it has elapsed.
WaitsElapsed ==
  /\ pc = "idle" => total_wait = 0
  /\ total_wait = slept
  /\ pc \in {"before", "op"} /\ now < DurMax => total_wait <= start_elapsed
  /\ pc \in Observed /\ now < DurMax => total_wait <= post_elapsed

\* A decided delay fits in what was left of the budget.
DelayFits ==
  pc = "sleep" /\ Timeout # None =>
    post_elapsed < Timeout /\ post_elapsed + delay <= Timeout

\* An attempt that is still to come is within the policy's count.
CountFits ==
  \A n \in Budgets[policy] : /\ ops <= n
                             /\ pc \in Before \cup {"sleep"} => ops < n

StepInv == /\ StepTypeOK /\ ReadingsPast /\ AttemptsCounted /\ WaitsElapsed
           /\ DelayFits /\ CountFits
           /\ (pc = "exit" => reason \in StopReasons)
           /\ DeadlineBound /\ StatsTruthful
=============================================================================
