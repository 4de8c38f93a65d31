----------------------------- MODULE StepProofs -----------------------------
(***************************************************************************)
(* Facts that the proofs about both engines rest on: the arithmetic of     *)
(* durations, what `step` decides, and that the actions the engines share  *)
(* preserve the shared invariant.                                          *)
(***************************************************************************)
EXTENDS Step, TLAPS

\* Saturating addition stays in range, never decreases, never exceeds the sum,
\* and is the sum unless it saturates (Duration::saturating_add).
LEMMA SaturatingAdd ==
  ASSUME NEW a \in Duration, NEW b \in Nat
  PROVE  /\ SatAdd(a, b) \in Duration
         /\ a <= SatAdd(a, b)
         /\ SatAdd(a, b) <= a + b
         /\ SatAdd(a, b) < DurMax => SatAdd(a, b) = a + b
BY DurMaxAssumption DEF SatAdd, Duration

\* Saturating subtraction stays in range and is the difference when there is one
\* (Duration::saturating_sub).
LEMMA SaturatingSub ==
  ASSUME NEW a \in Duration, NEW b \in Duration
  PROVE  /\ SatSub(a, b) \in Duration
         /\ b <= a => b + SatSub(a, b) = a
BY DurMaxAssumption DEF SatSub, Duration

\* Two readings against the same baseline are apart by at least what passed between
\* them.
LEMMA ReadingsApart ==
  ASSUME NEW o \in Int, NEW early \in Int, NEW late \in Int, NEW t1 \in Int,
         NEW t2 \in Int, NEW d \in Int,
         o + early <= t1, t1 + d <= t2, o + late = t2
  PROVE  late >= early + d
OBVIOUS

\* The state `step` shows to the strategies is a retry state.
LEMMA StepStateType ==
  ASSUME StepTypeOK
  PROVE  /\ StepState \in RetryStates
         /\ StepState.attempt = attempt
BY DEF StepTypeOK, StepState, RetryState, RetryStates

\* Whatever the wait strategy returns, the clamped delay is a duration that fits in
\* what is left of the budget.
LEMMA ClampedDelay ==
  ASSUME StepTypeOK, NEW w \in Duration
  PROVE  /\ ClampDelay(w) \in Duration
         /\ Timeout # None /\ post_elapsed <= Timeout => post_elapsed + ClampDelay(w) <= Timeout
<1>1. CASE Timeout = None
  BY <1>1 DEF ClampDelay
<1>2. CASE Timeout # None
  <2>1. Timeout \in Duration /\ post_elapsed \in Duration
    BY <1>2, PolicyAssumption DEF StepTypeOK, Timeout, OptDuration
  <2>2. SatSub(Timeout, post_elapsed) \in Duration
        /\ (post_elapsed <= Timeout => post_elapsed + SatSub(Timeout, post_elapsed) = Timeout)
    BY <2>1, SaturatingSub
  <2>3. ClampDelay(w) = Least(w, SatSub(Timeout, post_elapsed))
    BY <1>2 DEF ClampDelay
  <2> QED BY <2>1, <2>2, <2>3, DurMaxAssumption DEF Least, Duration
<1> QED BY <1>1, <1>2

\* Time spent in user code keeps the clock in range and never turns it back.
LEMMA SpendForward ==
  ASSUME now \in Duration, NEW d \in Nat, Spend(d)
  PROVE  now' \in Duration /\ now <= now' /\ now' <= now + d
         /\ (now' < DurMax => now' = now + d)
BY SaturatingAdd DEF Spend

\* The first elapsed reading is past, and late by no more than what passed since the
\* baseline was captured.
LEMMA FirstReadingExact ==
  ASSUME now \in Duration, lag \in Nat, origin' = now, FirstReading
  PROVE  /\ now' \in Duration /\ now <= now' /\ lag' \in Nat
         /\ start_elapsed' \in Duration /\ start_elapsed' <= lag'
         /\ origin' + start_elapsed' <= now'
<1> PICK d \in StartTimes : SpendOutside(d)
  BY DEF FirstReading
<1>1. d \in Nat /\ now \in Nat /\ lag' = lag + d
  BY TimeAssumption, DurMaxAssumption DEF SpendOutside, Duration
<1>2. now' \in Duration /\ now <= now' /\ now' <= now + d
  BY <1>1, SpendForward DEF SpendOutside
<1>3. PICK t \in Duration : t = now'
  BY <1>2
<1>4. start_elapsed' = SatSub(t, now)
  BY <1>3 DEF FirstReading
<1>5. SatSub(t, now) \in Duration /\ now + SatSub(t, now) = t
  BY <1>2, <1>3, SaturatingSub
<1>6. PICK e \in Duration : e = start_elapsed' /\ now + e = t
  BY <1>4, <1>5
<1>7. t \in Nat /\ e \in Nat /\ now <= t /\ t <= now + d
  BY <1>2, <1>3, DurMaxAssumption DEF Duration
<1>8. now + e = t
  BY <1>6, Zenon
<1>9. e <= lag + d /\ lag + d \in Nat
  <2>1. \A n \in Nat : n + e = t /\ t <= n + d => e <= d
    BY <1>1, <1>7
  <2>2. e <= d
    BY <1>1, <1>7, <1>8, <2>1
  <2> QED BY <1>1, <1>7, <2>2
<1>10. t <= t
  BY <1>7
<1> QED BY <1>1, <1>2, <1>3, <1>6, <1>9, <1>10

\* A built execution satisfies the shared invariant.
LEMMA StepInitInv == StepInit => StepInv
<1> SUFFICES ASSUME StepInit PROVE StepInv
  OBVIOUS
<1> USE DEF StepInit
<1>1. StepTypeOK
  BY DurMaxAssumption, AttemptMaxAssumption, OpsCapAssumption, TimeAssumption
  DEF StepTypeOK, Duration, OptDuration, Attempts
<1>2. ReadingsPast /\ WaitsElapsed /\ DelayFits /\ DeadlineBound /\ StatsTruthful
  BY DEF ReadingsPast, WaitsElapsed, DelayFits, DeadlineBound, StatsTruthful, Before,
     Attempted, Observed
<1>3. AttemptsCounted
  BY AttemptMaxAssumption DEF AttemptsCounted, Before, Attempted, Least
<1>4. CountFits
  BY DEF CountFits, Budgets, Attempts, Before
<1> QED BY <1>1, <1>2, <1>3, <1>4 DEF StepInv

\* The types the arithmetic needs.
LEMMA StepTypes ==
  ASSUME StepInv
  PROVE  /\ StepTypeOK
         /\ now \in Duration /\ lag \in Nat /\ ops \in Nat
         /\ total_wait \in Duration /\ slept \in Duration /\ delay \in Duration
         /\ start_elapsed \in Duration /\ post_elapsed \in Duration
         /\ attempt \in Attempts /\ exits \in Nat
         /\ (Timeout # None => Timeout \in Duration)
BY OpsCapAssumption, PolicyAssumption DEF StepInv, StepTypeOK, Timeout, OptDuration

\* What a retry decides: time went forward, and the delay fits in the budget and the
\* next attempt in the count.
LEMMA ContinueDecides ==
  ASSUME StepInv, Continue
  PROVE  /\ now' \in Duration /\ now <= now' /\ lag' \in Nat
         /\ now' <= origin + post_elapsed + lag'
         /\ delay' \in Duration
         /\ Timeout # None => post_elapsed < Timeout /\ post_elapsed + delay' <= Timeout
         /\ \A n \in Budgets[policy] : ops < n
<1>t. /\ StepTypeOK /\ now \in Duration /\ lag \in Nat /\ ops \in Nat
      /\ post_elapsed \in Duration /\ attempt \in Attempts
      /\ (Timeout # None => Timeout \in Duration)
  BY StepTypes
<1>p. pc = "decide"
  BY DEF Continue
<1>r. origin \in Duration /\ now <= origin + post_elapsed + lag
  BY <1>p DEF StepInv, ReadingsPast, Attempted, Observed
<1>1. /\ now' \in Duration /\ now <= now' /\ lag' \in Nat
      /\ now' <= origin + post_elapsed + lag'
  <2> PICK d \in HookTimes : SpendOutside(d)
    BY DEF Continue
  <2>1. d \in Nat /\ now' \in Duration /\ now <= now' /\ now' <= now + d /\ lag' = lag + d
    BY <1>t, TimeAssumption, SpendForward DEF SpendOutside, Duration
  <2> QED BY <1>t, <1>r, <2>1, DurMaxAssumption DEF Duration
<1>2. StepState \in RetryStates /\ StepState.attempt = attempt
  BY <1>t, StepStateType
<1>3. /\ delay' \in Duration
      /\ Timeout # None => post_elapsed < Timeout /\ post_elapsed + delay' <= Timeout
  <2> PICK w \in WaitOf[policy][StepState] : delay' = ClampDelay(w)
    BY DEF Continue
  <2>1. w \in Duration
    BY <1>t, <1>2, PolicyAssumption DEF StepTypeOK
  <2>2. /\ ClampDelay(w) \in Duration
        /\ (Timeout # None /\ post_elapsed <= Timeout
              => post_elapsed + ClampDelay(w) <= Timeout)
    BY <1>t, <2>1, ClampedDelay
  <2>3. Timeout # None => post_elapsed < Timeout
    BY <1>t DEF Continue, Exhausted, TimeoutExceeded, Duration
  <2> QED BY <1>t, <2>2, <2>3 DEF Duration
<1>4. ASSUME NEW n \in Budgets[policy] PROVE ops < n
  <2>1. n \in Attempts /\ \A s \in RetryStates : s.attempt >= n => s \in StopOf[policy]
    BY <1>t DEF Budgets, StepTypeOK
  <2>2. ~(attempt >= n)
    BY <1>2, <2>1 DEF Continue, Exhausted
  <2>3. attempt = Least(ops, AttemptMax)
    BY <1>p DEF StepInv, AttemptsCounted, Attempted
  <2> QED BY <1>t, <2>1, <2>2, <2>3, AttemptMaxAssumption DEF Least, Attempts
<1> QED BY <1>1, <1>3, <1>4

\* Where the execution is told its next attempt: the elapsed reading at clock reading t
\* is exact, and no earlier than the last one by what passed since.
LEMMA NextReading ==
  ASSUME StepInv, pc \in Observed \cup {"sleep"}, NEW t \in Duration, now <= t
  PROVE  /\ ElapsedAt(t) \in Duration
         /\ origin \in Duration /\ origin <= t
         /\ origin + ElapsedAt(t) = t
         /\ post_elapsed <= ElapsedAt(t)
<1>1. now \in Duration /\ post_elapsed \in Duration
  BY StepTypes
<1>2. origin \in Duration /\ origin <= now /\ origin + post_elapsed <= now
  BY DEF StepInv, ReadingsPast, Attempted, Observed
<1>3. origin <= t
  BY <1>1, <1>2, DurMaxAssumption DEF Duration
<1>4. ElapsedAt(t) \in Duration /\ origin + ElapsedAt(t) = t
  BY <1>2, <1>3, SaturatingSub DEF ElapsedAt
<1> QED BY <1>1, <1>2, <1>3, <1>4, DurMaxAssumption DEF Duration

\* The callbacks both engines make, and a panic in one, preserve the shared invariant.
LEMMA StepActionsKeep ==
  ASSUME StepInv,
         BeforeAttempt \/ AfterAttempt \/ Conclude \/ Exhaust \/ OnExit \/ Panic
  PROVE  StepInv'
<1>t. /\ StepTypeOK
      /\ now \in Duration /\ lag \in Nat /\ ops \in Nat
      /\ total_wait \in Duration /\ slept \in Duration /\ delay \in Duration
      /\ start_elapsed \in Duration /\ post_elapsed \in Duration
      /\ attempt \in Attempts /\ exits \in Nat
  BY StepTypes
<1> USE DEF Goto, Before, Attempted, Observed
<1>1. CASE BeforeAttempt
  <2> USE <1>1 DEF BeforeAttempt
  <2> PICK d \in HookTimes : Spend(d)
    OBVIOUS
  <2>0. d \in Nat /\ now' \in Duration /\ now <= now' /\ now' <= now + d
    BY <1>t, TimeAssumption, SpendForward DEF Duration
  <2>8. ops' = Least(ops + 1, OpsCap) /\ ops' \in 0..OpsCap /\ ops' <= ops + 1
    BY <1>t, OpsCapAssumption DEF Least
  <2>1. StepTypeOK'
    BY <1>t, <2>0, <2>8 DEF StepInv, StepTypeOK
  <2>2. ReadingsPast'
    BY <1>t, <2>0, DurMaxAssumption DEF StepInv, ReadingsPast, Duration
  <2>3. AttemptsCounted'
    BY <1>t, <2>8, AttemptMaxAssumption, OpsCapAssumption DEF StepInv, AttemptsCounted, Least
  <2>4. WaitsElapsed'
    BY <1>t, <2>0, DurMaxAssumption DEF StepInv, WaitsElapsed, Duration
  <2>5. DelayFits' /\ DeadlineBound'
    BY <1>t DEF StepInv, DelayFits, DeadlineBound, Timeout
  <2>6. CountFits'
    <3>1. policy' = policy /\ pc = "before" /\ pc' = "op"
      OBVIOUS
    <3>2. ASSUME NEW n \in Budgets[policy] PROVE ops' <= n
      <4>1. n \in Nat
        BY <1>t DEF Budgets, StepTypeOK, Attempts
      <4>2. ops < n
        BY <3>1 DEF StepInv, CountFits
      <4> QED BY <1>t, <2>8, <4>1, <4>2
    <3> QED BY <3>1, <3>2 DEF CountFits
  <2>7. StatsTruthful' /\ (pc = "exit" => reason \in StopReasons)'
    BY <1>t DEF StepInv, StatsTruthful
  <2> QED BY <2>1, <2>2, <2>3, <2>4, <2>5, <2>6, <2>7 DEF StepInv
<1>2. CASE AfterAttempt
  <2> USE <1>2 DEF AfterAttempt
  <2> PICK d \in HookTimes : SpendOutside(d)
    OBVIOUS
  <2>0. d \in Nat /\ now' \in Duration /\ now <= now' /\ now' <= now + d /\ lag' = lag + d
    BY <1>t, TimeAssumption, SpendForward DEF SpendOutside, Duration
  <2>1. StepTypeOK'
    BY <1>t, <2>0 DEF StepInv, StepTypeOK
  <2>2. ReadingsPast'
    BY <1>t, <2>0, DurMaxAssumption DEF StepInv, ReadingsPast, Duration
  <2>3. AttemptsCounted'
    BY <1>t DEF StepInv, AttemptsCounted
  <2>4. WaitsElapsed'
    BY <1>t, <2>0, DurMaxAssumption DEF StepInv, WaitsElapsed, Duration
  <2>5. DelayFits' /\ DeadlineBound'
    BY <1>t DEF StepInv, DelayFits, DeadlineBound, Timeout
  <2>6. CountFits'
    BY <1>t DEF StepInv, CountFits
  <2>7. StatsTruthful' /\ (pc = "exit" => reason \in StopReasons)'
    BY <1>t DEF StepInv, StatsTruthful
  <2> QED BY <2>1, <2>2, <2>3, <2>4, <2>5, <2>6, <2>7 DEF StepInv
<1>3. CASE Conclude
  <2> USE <1>3 DEF Conclude
  <2> PICK d \in HookTimes : SpendOutside(d)
    OBVIOUS
  <2>0. d \in Nat /\ now' \in Duration /\ now <= now' /\ now' <= now + d /\ lag' = lag + d
    BY <1>t, TimeAssumption, SpendForward DEF SpendOutside, Duration
  <2>1. StepTypeOK'
    BY <1>t, <2>0 DEF StepInv, StepTypeOK, StopReasons
  <2>2. ReadingsPast'
    BY <1>t, <2>0, DurMaxAssumption DEF StepInv, ReadingsPast, Duration
  <2>3. AttemptsCounted'
    BY <1>t DEF StepInv, AttemptsCounted
  <2>4. WaitsElapsed'
    BY <1>t, <2>0, DurMaxAssumption DEF StepInv, WaitsElapsed, Duration
  <2>5. DelayFits' /\ DeadlineBound'
    BY <1>t DEF StepInv, DelayFits, DeadlineBound, Timeout
  <2>6. CountFits'
    BY <1>t DEF StepInv, CountFits
  <2>7. StatsTruthful' /\ (pc = "exit" => reason \in StopReasons)'
    BY <1>t DEF StepInv, StatsTruthful, StopReasons
  <2> QED BY <2>1, <2>2, <2>3, <2>4, <2>5, <2>6, <2>7 DEF StepInv
<1>4. CASE Exhaust
  <2> USE <1>4 DEF Exhaust
  <2> PICK d \in HookTimes : SpendOutside(d)
    OBVIOUS
  <2>0. d \in Nat /\ now' \in Duration /\ now <= now' /\ now' <= now + d /\ lag' = lag + d
    BY <1>t, TimeAssumption, SpendForward DEF SpendOutside, Duration
  <2>1. StepTypeOK'
    BY <1>t, <2>0 DEF StepInv, StepTypeOK, StopReasons
  <2>2. ReadingsPast'
    BY <1>t, <2>0, DurMaxAssumption DEF StepInv, ReadingsPast, Duration
  <2>3. AttemptsCounted'
    BY <1>t DEF StepInv, AttemptsCounted
  <2>4. WaitsElapsed'
    BY <1>t, <2>0, DurMaxAssumption DEF StepInv, WaitsElapsed, Duration
  <2>5. DelayFits' /\ DeadlineBound'
    BY <1>t DEF StepInv, DelayFits, DeadlineBound, Timeout
  <2>6. CountFits'
    BY <1>t DEF StepInv, CountFits
  <2>7. StatsTruthful' /\ (pc = "exit" => reason \in StopReasons)'
    BY <1>t DEF StepInv, StatsTruthful, StopReasons
  <2> QED BY <2>1, <2>2, <2>3, <2>4, <2>5, <2>6, <2>7 DEF StepInv
<1>5. CASE OnExit
  <2> USE <1>5 DEF OnExit
  <2> PICK d \in HookTimes : SpendOutside(d)
    OBVIOUS
  <2>0. d \in Nat /\ now' \in Duration /\ now <= now' /\ now' <= now + d /\ lag' = lag + d
    BY <1>t, TimeAssumption, SpendForward DEF SpendOutside, Duration
  <2>1. StepTypeOK'
    BY <1>t, <2>0 DEF StepInv, StepTypeOK, Stats, StatsFor
  <2>2. ReadingsPast'
    BY <1>t, <2>0, DurMaxAssumption DEF StepInv, ReadingsPast, Duration
  <2>3. AttemptsCounted'
    BY <1>t DEF StepInv, AttemptsCounted
  <2>4. WaitsElapsed'
    BY <1>t, <2>0, DurMaxAssumption DEF StepInv, WaitsElapsed, Duration
  <2>5. DelayFits' /\ DeadlineBound'
    BY <1>t DEF StepInv, DelayFits, DeadlineBound, Timeout
  <2>6. CountFits'
    BY <1>t DEF StepInv, CountFits
  <2>7. StatsTruthful' /\ (pc = "exit" => reason \in StopReasons)'
    BY <1>t, <2>0, DurMaxAssumption
    DEF StepInv, StatsTruthful, StatsFor, AttemptsCounted, WaitsElapsed, Duration
  <2> QED BY <2>1, <2>2, <2>3, <2>4, <2>5, <2>6, <2>7 DEF StepInv
<1>6. CASE Panic
  <2> USE <1>6 DEF Panic
  <2>1. StepTypeOK'
    BY <1>t DEF StepInv, StepTypeOK
  <2>2. ReadingsPast'
    BY <1>t DEF StepInv, ReadingsPast
  <2>3. AttemptsCounted'
    BY <1>t DEF StepInv, AttemptsCounted
  <2>4. WaitsElapsed'
    BY <1>t DEF StepInv, WaitsElapsed
  <2>5. DelayFits' /\ DeadlineBound'
    BY <1>t DEF StepInv, DelayFits, DeadlineBound, Timeout
  <2>6. CountFits'
    BY <1>t DEF StepInv, CountFits
  <2>7. StatsTruthful' /\ (pc = "exit" => reason \in StopReasons)'
    BY <1>t DEF StepInv, StatsTruthful
  <2> QED BY <2>1, <2>2, <2>3, <2>4, <2>5, <2>6, <2>7 DEF StepInv
<1> QED BY <1>1, <1>2, <1>3, <1>4, <1>5, <1>6

\* A step that leaves every variable of the execution alone preserves it.
LEMMA StepUnchanged ==
  ASSUME StepInv, UNCHANGED stepVars
  PROVE  StepInv'
BY DEF stepVars, StepInv, StepTypeOK, ReadingsPast, AttemptsCounted, WaitsElapsed,
   DelayFits, CountFits, DeadlineBound, StatsTruthful, Timeout

-----------------------------------------------------------------------------
(* What else every execution satisfies, whichever engine drives it.        *)

\* The exit is reported once before the statistics are returned, at most once when
\* user code panics, and never when the execution is dropped or still runs.
OneExit ==
  /\ pc \notin {"done", "panicked"} => exits = 0
  /\ pc = "done" => exits = 1
  /\ exits \in {0, 1}
  /\ pc # "done" => result = None

\* The waits asked of the clock never add up to more than the budget, however many
\* attempts there are, until the clock reaches the end of its range.
WaitsWithinBudget == Timeout # None /\ now < DurMax => slept <= Timeout

\* A step that asks for no wait and does not turn the clock back keeps the sum of
\* the waits within the budget.
LEMMA NoWaitKeepsBudget ==
  ASSUME WaitsWithinBudget, StepInv, policy' = policy, slept' = slept, now' \in Duration,
         now <= now'
  PROVE  WaitsWithinBudget'
<1>1. now \in Int /\ now' \in Int /\ DurMax \in Int
  BY StepTypes, DurMaxAssumption DEF Duration
<1> QED BY <1>1 DEF WaitsWithinBudget, Timeout

\* A delay that fits in what is left of the budget after the waits so far may be
\* asked for.
LEMMA FittingWaitKeepsBudget ==
  ASSUME WaitsWithinBudget, StepInv, policy' = policy, now' \in Duration, now <= now',
         NEW d \in Duration, slept' = slept \/ slept' = SatAdd(slept, d),
         Timeout # None /\ now < DurMax => slept + d <= Timeout
  PROVE  WaitsWithinBudget'
<1>1. now \in Int /\ now' \in Int /\ DurMax \in Nat /\ slept \in Nat /\ d \in Nat
  BY StepTypes, DurMaxAssumption DEF Duration
<1>2. CASE slept' = slept
  BY <1>2, NoWaitKeepsBudget
<1>3. CASE slept' = SatAdd(slept, d)
  <2> SUFFICES ASSUME Timeout' # None, now' < DurMax PROVE slept' <= Timeout'
    BY DEF WaitsWithinBudget
  <2>1. Timeout' = Timeout /\ now < DurMax
    BY <1>1 DEF Timeout
  <2>2. slept + d <= Timeout /\ Timeout \in Int /\ Timeout <= DurMax
    BY <1>1, <2>1, StepTypes DEF Duration
  <2>3. slept' = slept + d
    BY <1>1, <1>3, <2>2 DEF SatAdd
  <2> QED BY <2>1, <2>2, <2>3
<1> QED BY <1>2, <1>3

\* The clock never goes back in the steps both engines share.
LEMMA StepClockForward ==
  ASSUME StepInv,
         BeforeAttempt \/ AfterAttempt \/ Conclude \/ Exhaust \/ OnExit \/ Panic \/ Continue
  PROVE  now' \in Duration /\ now <= now' /\ policy' = policy
<1>1. now \in Duration /\ now \in Int
  BY StepTypes, DurMaxAssumption DEF Duration
<1>2. ASSUME NEW d \in HookTimes, Spend(d) PROVE now' \in Duration /\ now <= now'
  BY <1>1, <1>2, SpendForward, TimeAssumption DEF Duration
<1>3. CASE Panic
  BY <1>1, <1>3 DEF Panic
<1>4. CASE ~Panic
  <2>1. \E d \in HookTimes : Spend(d)
    BY <1>4 DEF BeforeAttempt, AfterAttempt, Conclude, Exhaust, OnExit, Continue,
       SpendOutside
  <2>2. policy' = policy
    BY <1>4 DEF BeforeAttempt, AfterAttempt, Conclude, Exhaust, OnExit, Continue
  <2> QED BY <1>2, <2>1, <2>2
<1> QED BY <1>3, <1>4
=============================================================================
