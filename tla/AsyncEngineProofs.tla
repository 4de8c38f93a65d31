------------------------- MODULE AsyncEngineProofs -------------------------
(***************************************************************************)
(* Theorems about the poll-driven engine, for every policy, clock and set  *)
(* of tasks, however it is polled, woken, moved and dropped.               *)
(***************************************************************************)
EXTENDS AsyncEngine, StepProofs

\* The future starts in the invariant.
LEMMA InitInvariant == Init => IInv
<1> SUFFICES ASSUME Init PROVE IInv
  OBVIOUS
<1>1. StepInv
  BY StepInitInv DEF Init
<1>2. StepTypeOK /\ pc \in Locations /\ due \in Duration
  BY <1>1, DurMaxAssumption DEF StepInv, Init, StepInit, Locations, Duration
<1>3. TypeOK
  BY <1>2 DEF TypeOK, Init
<1> QED BY <1>1, <1>3 DEF IInv, Init, StepInit, WaitBegun, NoLostWakeup, Observed

\* When a wait is over, the clock shows all of the delay, and no more than the delay
\* and the time no wait asked for; the next elapsed reading is exact.
LEMMA SleepReads ==
  ASSUME IInv, SleepReady
  PROVE  /\ now' \in Duration /\ now <= now'
         /\ now' <= origin + post_elapsed + delay + lag
         /\ now' < DurMax => origin + post_elapsed + delay <= now'
         /\ start_elapsed' \in Duration /\ post_elapsed <= start_elapsed'
         /\ origin \in Duration /\ origin <= now' /\ origin + start_elapsed' = now'
<1>1. /\ StepInv
      /\ now \in Duration /\ delay \in Duration /\ post_elapsed \in Duration /\ lag \in Nat
  BY StepTypes DEF IInv
<1>2. pc = "sleep" /\ start_elapsed' = ElapsedAt(now')
  BY DEF SleepReady, Goto
<1>3. origin \in Duration /\ origin + post_elapsed <= now
  BY <1>1, <1>2 DEF StepInv, ReadingsPast, Attempted
<1>4. /\ now' \in Duration /\ now <= now'
      /\ now' <= origin + post_elapsed + delay + lag
      /\ now' < DurMax => origin + post_elapsed + delay <= now'
  <2>1. CASE clock = "timer" /\ ready /\ UNCHANGED now
    <3>1. /\ due <= now
          /\ due < DurMax => origin + post_elapsed + delay <= due
          /\ now <= origin + post_elapsed + delay + lag
      BY <1>2, <2>1 DEF IInv, WaitBegun
    <3>2. due \in Duration
      BY DEF IInv, TypeOK
    <3> QED BY <1>1, <1>3, <2>1, <3>1, <3>2, DurMaxAssumption DEF Duration
  <2>2. CASE clock = "virtual" /\ Spend(delay)
    <3>1. now <= origin + post_elapsed + lag
      BY <1>2, <2>2 DEF IInv, WaitBegun
    <3>2. delay \in Nat
      BY <1>1 DEF Duration
    <3>3. now' \in Duration /\ now <= now' /\ now' <= now + delay
          /\ (now' < DurMax => now' = now + delay)
      BY <1>1, <2>2, <3>2, SpendForward
    <3> QED BY <1>1, <1>3, <3>1, <3>3, DurMaxAssumption DEF Duration
  <2> QED BY <2>1, <2>2 DEF SleepReady
<1>5. /\ start_elapsed' \in Duration /\ post_elapsed <= start_elapsed'
      /\ origin \in Duration /\ origin <= now' /\ origin + start_elapsed' = now'
  BY <1>1, <1>2, <1>4, NextReading
<1> QED BY <1>4, <1>5

\* What the inner futures, the executor and time do leaves the shared part of the
\* invariant alone; so do the polls that find the future pending.
LEMMA OutsideKeeps ==
  ASSUME IInv,
         \/ OpPending \/ SleepPending \/ PollAfterCompletion \/ OpCompletes
         \/ TimerFires \/ Migrate \/ Tick \/ Drop \/ UNCHANGED vars
  PROVE  StepInv'
<1>t. /\ StepInv /\ StepTypeOK
      /\ now \in Duration /\ lag \in Nat
      /\ start_elapsed \in Duration /\ post_elapsed \in Duration
      /\ total_wait \in Duration
  BY StepTypes DEF IInv
<1>1. CASE \/ OpPending \/ SleepPending \/ PollAfterCompletion \/ OpCompletes
           \/ TimerFires \/ Migrate \/ UNCHANGED vars
  <2>1. UNCHANGED stepVars
    BY <1>1 DEF OpPending, SleepPending, PollAfterCompletion, OpCompletes, TimerFires,
       Migrate, vars
  <2> QED BY <1>t, <2>1, StepUnchanged
<1> USE DEF Before, Attempted, Observed
<1>2. CASE Tick
  <2> USE <1>2 DEF Tick, Suspended
  <2>1. now' \in Duration /\ now' = now + 1 /\ lag' \in Nat
    BY <1>t, DurMaxAssumption DEF Duration
  <2>2. StepTypeOK'
    BY <1>t, <2>1 DEF StepTypeOK
  <2>3. ReadingsPast' /\ WaitsElapsed'
    BY <1>t, <2>1, DurMaxAssumption DEF StepInv, ReadingsPast, WaitsElapsed, Duration
  <2>4. AttemptsCounted' /\ CountFits' /\ StatsTruthful' /\ DelayFits' /\ DeadlineBound'
    BY <1>t DEF StepInv, AttemptsCounted, CountFits, StatsTruthful, DelayFits,
       DeadlineBound, Timeout
  <2> QED BY <2>2, <2>3, <2>4 DEF StepInv
<1>3. CASE Drop
  <2> USE <1>3 DEF Drop, Suspended
  <2>1. StepTypeOK'
    BY <1>t DEF StepTypeOK
  <2>2. ReadingsPast' /\ WaitsElapsed' /\ AttemptsCounted' /\ CountFits'
        /\ StatsTruthful' /\ DelayFits' /\ DeadlineBound'
    BY <1>t DEF StepInv, ReadingsPast, WaitsElapsed, AttemptsCounted, CountFits,
       StatsTruthful, DelayFits, DeadlineBound
  <2> QED BY <2>1, <2>2 DEF StepInv
<1> QED BY <1>1, <1>2, <1>3

\* What a poll does to the execution preserves the shared part of the invariant.
LEMMA PollKeeps ==
  ASSUME IInv, EnterPoll \/ OpReady \/ RetryNow \/ RetryLater \/ SleepReady
  PROVE  StepInv'
<1>t. /\ StepInv /\ StepTypeOK
      /\ now \in Duration /\ lag \in Nat /\ ops \in Nat
      /\ total_wait \in Duration /\ slept \in Duration /\ delay \in Duration
      /\ start_elapsed \in Duration /\ post_elapsed \in Duration
      /\ attempt \in Attempts
      /\ (Timeout # None => Timeout \in Duration)
      /\ total_wait = slept
  BY StepTypes DEF IInv, StepInv, WaitsElapsed
<1>o. now + 0 <= DurMax /\ 0 \in Duration
  BY <1>t, DurMaxAssumption DEF Duration
<1>a. NextAttempt(attempt) \in Attempts
  BY <1>t, AttemptMaxAssumption DEF NextAttempt, Attempts
<1> USE DEF Goto, Before, Attempted, Observed
<1>1. CASE EnterPoll
  <2> USE <1>1 DEF EnterPoll, CaptureOrigin
  <2>1. CASE pc = "idle"
    <3> USE <2>1
    <3>1. origin' = now /\ FirstReading /\ pc' = "before"
      BY <1>t DEF StepInv, ReadingsPast
    <3>6. /\ now' \in Duration /\ now <= now' /\ lag' \in Nat
          /\ start_elapsed' \in Duration /\ start_elapsed' <= lag'
          /\ origin' + start_elapsed' <= now'
      BY <1>t, <3>1, FirstReadingExact
    <3>2. StepTypeOK'
      BY <1>t, <3>1, <3>6 DEF StepTypeOK, OptDuration
    <3>7. ReadingsPast'
      BY <1>t, <3>1, <3>6, DurMaxAssumption DEF ReadingsPast, Duration
    <3>3. WaitsElapsed'
      BY <1>t, <3>1, <3>6, DurMaxAssumption DEF StepInv, WaitsElapsed, Duration
    <3>4. AttemptsCounted' /\ CountFits' /\ StatsTruthful' /\ DelayFits'
      BY <1>t, <3>1 DEF StepInv, AttemptsCounted, CountFits, StatsTruthful, DelayFits
    <3>5. DeadlineBound'
      BY <1>t, <3>1, <3>6, DurMaxAssumption DEF DeadlineBound, Timeout, Duration
    <3> QED BY <3>1, <3>2, <3>3, <3>4, <3>5, <3>7 DEF StepInv
  <2>2. CASE pc # "idle"
    <3>1. origin \in Duration
      BY <1>t, <2>2 DEF StepInv, ReadingsPast, Suspended
    <3>2. UNCHANGED stepVars
      BY <2>2, <3>1, NoneAssumption DEF stepVars, Duration
    <3> QED BY <1>t, <3>2, StepUnchanged
  <2> QED BY <2>1, <2>2
<1>2. CASE OpReady
  <2> USE <1>2 DEF OpReady
  <2>1. origin \in Duration /\ origin <= now /\ origin + start_elapsed <= now
        /\ (now < DurMax => total_wait <= start_elapsed)
    BY <1>t DEF StepInv, ReadingsPast, WaitsElapsed
  <2>2. post_elapsed' \in Duration /\ origin + post_elapsed' = now
    BY <1>t, <2>1, SaturatingSub DEF ElapsedAt
  <2>3. /\ pc' = "after" /\ lag' = 0
        /\ UNCHANGED <<origin, start_elapsed, now, total_wait, slept>>
    OBVIOUS
  <2>4. StepTypeOK'
    BY <1>t, <2>2 DEF StepTypeOK
  <2>5. ReadingsPast' /\ WaitsElapsed'
    BY <1>t, <2>1, <2>2, <2>3, DurMaxAssumption DEF ReadingsPast, WaitsElapsed, Duration
  <2>6. AttemptsCounted' /\ CountFits' /\ StatsTruthful' /\ DelayFits' /\ DeadlineBound'
    BY <1>t DEF StepInv, AttemptsCounted, CountFits, StatsTruthful, DelayFits, DeadlineBound
  <2> QED BY <2>4, <2>5, <2>6 DEF StepInv
<1>3. CASE RetryNow
  <2> USE <1>3 DEF RetryNow
  <2>1. /\ now' \in Duration /\ now <= now' /\ lag' \in Nat
        /\ now' <= origin + post_elapsed + lag'
        /\ Timeout # None => post_elapsed < Timeout
        /\ \A n \in Budgets[policy] : ops < n
    BY <1>t, ContinueDecides
  <2> USE DEF Continue
  <2>2. /\ start_elapsed' \in Duration /\ post_elapsed <= start_elapsed'
        /\ origin \in Duration /\ origin <= now' /\ origin + start_elapsed' = now'
    BY <1>t, <2>1, NextReading
  <2>3. total_wait' = total_wait
    BY <1>t, DurMaxAssumption DEF RunningWait, SatAdd, Duration
  <2>4. StepTypeOK'
    BY <1>t, <1>o, <1>a, <2>1, <2>2, <2>3 DEF StepTypeOK, OptDuration
  <2>5. ReadingsPast'
    BY <1>t, <2>1, <2>2, DurMaxAssumption DEF ReadingsPast, Duration
  <2>6. WaitsElapsed'
    BY <1>t, <2>1, <2>2, <2>3, DurMaxAssumption DEF StepInv, WaitsElapsed, Duration
  <2>7. AttemptsCounted'
    BY <1>t, AttemptMaxAssumption DEF StepInv, AttemptsCounted, NextAttempt, Least, Attempts
  <2>8. CountFits' /\ StatsTruthful' /\ DelayFits'
    BY <1>t, <2>1 DEF StepInv, CountFits, StatsTruthful, DelayFits
  <2>9. DeadlineBound'
    BY <1>t, <2>1, <2>2 DEF DeadlineBound, Timeout, Duration
  <2> QED BY <2>4, <2>5, <2>6, <2>7, <2>8, <2>9 DEF StepInv
<1>4. CASE RetryLater
  <2> USE <1>4 DEF RetryLater
  <2>1. /\ now' \in Duration /\ now <= now' /\ lag' \in Nat
        /\ delay' \in Duration
        /\ Timeout # None => post_elapsed < Timeout /\ post_elapsed + delay' <= Timeout
        /\ \A n \in Budgets[policy] : ops < n
    BY <1>t, ContinueDecides
  <2> USE DEF Continue
  <2>2. delay' \in Nat
    BY <2>1 DEF Duration
  <2>3. total_wait' \in Duration /\ slept' = total_wait'
    BY <1>t, <2>2, SaturatingAdd DEF RunningWait
  <2>4. StepTypeOK'
    BY <1>t, <2>1, <2>3 DEF StepTypeOK, OptDuration
  <2>5. ReadingsPast' /\ WaitsElapsed'
    BY <1>t, <2>1, <2>3, DurMaxAssumption DEF StepInv, ReadingsPast, WaitsElapsed, Duration
  <2>6. AttemptsCounted' /\ CountFits' /\ StatsTruthful' /\ DelayFits' /\ DeadlineBound'
    BY <1>t, <2>1 DEF StepInv, AttemptsCounted, CountFits, StatsTruthful, DelayFits,
       DeadlineBound, Timeout
  <2> QED BY <2>4, <2>5, <2>6 DEF StepInv
<1>5. CASE SleepReady
  <2>1. /\ now' \in Duration /\ now <= now'
        /\ now' <= origin + post_elapsed + delay + lag
        /\ now' < DurMax => origin + post_elapsed + delay <= now'
        /\ start_elapsed' \in Duration /\ post_elapsed <= start_elapsed'
        /\ origin \in Duration /\ origin <= now' /\ origin + start_elapsed' = now'
    BY <1>5, SleepReads
  <2> USE <1>5 DEF SleepReady
  <2>2. now < DurMax => total_wait <= post_elapsed + delay
    BY DEF IInv, WaitBegun
  <2>3. Timeout # None => post_elapsed + delay <= Timeout
    BY <1>t DEF StepInv, DelayFits
  <2>4. /\ pc = "sleep" /\ pc' = "before" /\ attempt' = NextAttempt(attempt)
        /\ UNCHANGED <<policy, origin, previous_delay, total_wait, post_elapsed, delay,
                       reason, result, ops, exits, slept, lag>>
    OBVIOUS
  <2> HIDE <1>5 DEF SleepReady
  <2>10. /\ origin \in Int /\ post_elapsed \in Int /\ delay \in Int /\ lag \in Int
         /\ now \in Int /\ now' \in Int /\ start_elapsed' \in Int /\ total_wait \in Int
    BY <1>t, <2>1 DEF Duration
  <2>11. /\ start_elapsed' <= post_elapsed + delay + lag
         /\ now' < DurMax => post_elapsed + delay <= start_elapsed'
    <3>1. PICK e \in Int, t \in Int : e = start_elapsed' /\ t = now'
      BY <2>10
    <3>2. /\ origin + e = t
          /\ t <= origin + post_elapsed + delay + lag
          /\ now' < DurMax => origin + post_elapsed + delay <= t
      BY <2>1, <3>1
    <3>3. e <= post_elapsed + delay + lag /\ (now' < DurMax => post_elapsed + delay <= e)
      BY <2>10, <3>2
    <3> QED BY <3>1, <3>3
  <2>12. now' < DurMax => total_wait <= start_elapsed'
    BY <2>1, <2>2, <2>10, <2>11, DurMaxAssumption
  <2>5. StepTypeOK'
    BY <1>t, <1>a, <2>1, <2>4 DEF StepTypeOK
  <2>6. ReadingsPast'
    <3>1. origin' = origin /\ origin' + start_elapsed' = now' /\ pc' = "before"
      BY <2>1, <2>4
    <3>2. now' <= now'
      BY <2>10
    <3>3. origin' + start_elapsed' <= now'
      BY <3>1, <3>2, Zenon
    <3> QED BY <2>1, <3>1, <3>3 DEF ReadingsPast
  <2>13. WaitsElapsed'
    BY <1>t, <2>4, <2>12 DEF WaitsElapsed
  <2>7. AttemptsCounted'
    BY <1>t, <2>4, AttemptMaxAssumption
    DEF StepInv, AttemptsCounted, NextAttempt, Least, Attempts
  <2>8. CountFits' /\ StatsTruthful' /\ DelayFits'
    BY <1>t, <2>4 DEF StepInv, CountFits, StatsTruthful, DelayFits
  <2>9. DeadlineBound'
    BY <1>t, <2>3, <2>4, <2>10, <2>11 DEF DeadlineBound, Timeout, Duration
  <2> QED BY <2>4, <2>5, <2>6, <2>7, <2>8, <2>9, <2>13 DEF StepInv
<1> QED BY <1>1, <1>2, <1>3, <1>4, <1>5

\* Every step of the future and of what surrounds it preserves the invariant.
LEMMA NextInvariant == IInv /\ [Next]_vars => IInv'
<1> SUFFICES ASSUME IInv, [Next]_vars PROVE IInv'
  OBVIOUS
<1>t. /\ StepInv /\ TypeOK
      /\ now \in Duration /\ lag \in Nat /\ post_elapsed \in Duration
      /\ total_wait \in Duration /\ delay \in Duration /\ due \in Duration
  BY StepTypes DEF IInv, TypeOK
<1>h. ASSUME StepInv' PROVE StepTypeOK'
  BY <1>h DEF StepInv
<1> USE DEF Goto, Observed
<1>1. CASE StartOp \/ Observe \/ Stop \/ Finish \/ Unwind
  <2>1. StepInv'
    BY <1>t, <1>1, StepActionsKeep DEF StartOp, Observe, Stop, Finish, Unwind
  <2>2. TypeOK'
    BY <1>t, <1>1, <1>h, <2>1
    DEF TypeOK, Locations, taskVars, innerVars, StartOp, Observe, Stop, Finish, Unwind,
        FreshFuture, BeforeAttempt, AfterAttempt, Conclude, Exhaust, OnExit, Panic
  <2>3. pc' # "sleep"
    BY <1>1 DEF StartOp, Observe, Stop, Finish, Unwind, BeforeAttempt, AfterAttempt,
       Conclude, Exhaust, OnExit, Panic
  <2>4. pc' \in {"before"} \cup Observed => polling'
    BY <1>1 DEF IInv, StartOp, Observe, Stop, Finish, Unwind, BeforeAttempt, AfterAttempt,
       Conclude, Exhaust, OnExit, Panic
  <2>5. pc' = "op" => polling'
    BY <1>1 DEF IInv, StartOp, Observe, Stop, Finish, Unwind, BeforeAttempt, AfterAttempt,
       Conclude, Exhaust, OnExit, Panic
  <2> QED BY <2>1, <2>2, <2>3, <2>4, <2>5 DEF IInv, WaitBegun, NoLostWakeup
<1>2. CASE EnterPoll
  <2>1. StepInv'
    BY <1>2, PollKeeps
  <2> USE <1>2 DEF EnterPoll, Suspended
  <2>2. TypeOK'
    BY <1>t, <1>h, <2>1 DEF TypeOK, Locations, innerVars
  <2>3. pc' = "sleep" => UNCHANGED <<pc, origin, now, lag>>
    <3>1. pc = "sleep" => origin \in Duration
      BY <1>t DEF StepInv, ReadingsPast, Attempted
    <3> QED BY <3>1, NoneAssumption DEF CaptureOrigin, Duration
  <2>4. WaitBegun'
    BY <2>3 DEF IInv, WaitBegun, innerVars
  <2> QED BY <2>1, <2>2, <2>4 DEF IInv, NoLostWakeup
<1>3. CASE OpReady
  <2>1. StepInv'
    BY <1>3, PollKeeps
  <2>2. TypeOK'
    BY <1>t, <1>3, <1>h, <2>1 DEF TypeOK, OpReady, Locations, taskVars, innerVars
  <2> QED BY <1>3, <2>1, <2>2 DEF IInv, OpReady, WaitBegun, NoLostWakeup
<1>4. CASE RetryNow
  <2>1. StepInv'
    BY <1>4, PollKeeps
  <2>2. TypeOK'
    BY <1>t, <1>4, <1>h, <2>1 DEF TypeOK, RetryNow, Locations, taskVars, innerVars
  <2>3. polling'
    BY <1>4 DEF IInv, RetryNow, Continue
  <2> QED BY <1>4, <2>1, <2>2, <2>3 DEF IInv, RetryNow, WaitBegun, NoLostWakeup
<1>5. CASE RetryLater
  <2>1. StepInv'
    BY <1>5, PollKeeps
  <2>2. /\ now' \in Duration /\ now <= now' /\ lag' \in Nat
        /\ now' <= origin + post_elapsed + lag'
        /\ delay' \in Duration
    BY <1>t, <1>5, ContinueDecides DEF RetryLater
  <2> USE <1>5 DEF RetryLater
  <2>3. /\ pc = "decide" /\ polling' /\ pc' = "sleep" /\ previous_delay' = delay'
        /\ total_wait' = SatAdd(total_wait, delay') /\ due' = SatAdd(now', delay')
        /\ ready' = FALSE
        /\ UNCHANGED <<origin, post_elapsed>>
    BY DEF IInv, Continue, FreshFuture, RunningWait
  <2>4. origin \in Duration /\ origin + post_elapsed <= now
        /\ (now < DurMax => total_wait <= post_elapsed)
    BY <1>t, <2>3 DEF StepInv, ReadingsPast, WaitsElapsed, Attempted
  <2>5. delay' \in Nat
    BY <2>2 DEF Duration
  <2>6. /\ due' \in Duration /\ now' <= due' /\ due' <= now' + delay'
        /\ due' < DurMax => due' = now' + delay'
    BY <2>2, <2>3, <2>5, SaturatingAdd
  <2>7. total_wait' <= total_wait + delay'
    BY <1>t, <2>3, <2>5, SaturatingAdd
  <2>8. TypeOK'
    BY <1>t, <1>h, <2>1, <2>6 DEF TypeOK, Locations, taskVars, FreshFuture
  <2>9. PICK d \in Duration, t \in Duration, u \in Duration, g \in Nat :
          d = delay' /\ t = now' /\ u = due' /\ g = lag'
    BY <2>2, <2>6
  <2>10. PICK w \in Duration : w = total_wait'
    BY <2>1, StepTypes DEF StepInv, StepTypeOK
  <2>11. /\ now <= t /\ t <= origin + post_elapsed + g
         /\ t <= u /\ u <= t + d /\ (u < DurMax => u = t + d)
         /\ w <= total_wait + d
    BY <2>2, <2>6, <2>7, <2>9, <2>10
  <2>12. /\ t <= origin + post_elapsed + d + g
         /\ u <= origin + post_elapsed + d + g
         /\ u < DurMax => origin + post_elapsed + d <= u
         /\ t < DurMax => w <= post_elapsed + d
    <3> HIDE <1>5
    <3> QED BY <1>t, <2>4, <2>11, DurMaxAssumption DEF Duration
  <2>13. WaitBegun'
    BY <2>3, <2>9, <2>10, <2>11, <2>12 DEF WaitBegun
  <2> QED BY <2>1, <2>3, <2>8, <2>13 DEF IInv, NoLostWakeup
<1>6. CASE SleepReady
  <2>1. StepInv'
    BY <1>6, PollKeeps
  <2>2. TypeOK'
    BY <1>t, <1>6, <1>h, <2>1 DEF TypeOK, SleepReady, Locations, taskVars, innerVars
  <2> QED BY <1>6, <2>1, <2>2 DEF IInv, SleepReady, WaitBegun, NoLostWakeup
<1>7. CASE OpPending \/ SleepPending
  <2>1. StepInv'
    BY <1>7, OutsideKeeps
  <2> USE <1>7 DEF OpPending, SleepPending, ReturnPending, stepVars
  <2>2. TypeOK'
    BY <1>t, <1>h, <2>1 DEF TypeOK, Locations, taskVars
  <2>3. WaitBegun'
    BY DEF IInv, WaitBegun, taskVars
  <2> QED BY <2>1, <2>2, <2>3 DEF IInv, NoLostWakeup, taskVars
<1>8. CASE OpCompletes \/ TimerFires
  <2>1. StepInv'
    BY <1>8, OutsideKeeps
  <2> USE <1>8 DEF OpCompletes, TimerFires, Wake, stepVars
  <2>2. TypeOK'
    BY <1>t, <1>h, <2>1 DEF TypeOK, Locations
  <2>3. WaitBegun'
    BY DEF IInv, WaitBegun
  <2>4. NoLostWakeup'
    BY DEF IInv, NoLostWakeup
  <2> QED BY <2>1, <2>2, <2>3, <2>4 DEF IInv
<1>9. CASE Tick
  <2>1. StepInv'
    BY <1>9, OutsideKeeps
  <2> USE <1>9 DEF Tick, Suspended
  <2>2. TypeOK'
    BY <1>t, <1>h, <2>1 DEF TypeOK, Locations, taskVars, innerVars
  <2>3. ASSUME pc = "sleep" PROVE WaitBegun'
    <3>1. clock = "timer"
      BY <2>3
    <3>2. /\ previous_delay = delay
          /\ now <= origin + post_elapsed + delay + lag
          /\ now < DurMax => total_wait <= post_elapsed + delay
          /\ due <= origin + post_elapsed + delay + lag
          /\ due < DurMax => origin + post_elapsed + delay <= due
          /\ ready => due <= now
      BY <2>3, <3>1 DEF IInv, WaitBegun
    <3>3. origin \in Duration
      BY <1>t, <2>3 DEF StepInv, ReadingsPast, Attempted
    <3>4. PICK t \in Int, g \in Int : t = now' /\ g = lag'
      BY <1>t DEF Duration
    <3>5. /\ t = now + 1
          /\ g = IF now >= due THEN lag + 1 ELSE lag
          /\ now < DurMax
      BY <2>3, <3>4
    <3>6. /\ t <= origin + post_elapsed + delay + g
          /\ t < DurMax => total_wait <= post_elapsed + delay
          /\ due <= origin + post_elapsed + delay + g
          /\ ready => due <= t
      BY <1>t, <3>2, <3>3, <3>5 DEF Duration
    <3> QED BY <2>3, <3>1, <3>2, <3>4, <3>6 DEF WaitBegun, taskVars, innerVars
  <2>4. pc # "sleep" => WaitBegun'
    BY DEF WaitBegun
  <2>5. NoLostWakeup' /\ (pc \in {"before"} \cup Observed => polling)'
    BY DEF IInv, NoLostWakeup, taskVars, innerVars
  <2> QED BY <2>1, <2>2, <2>3, <2>4, <2>5 DEF IInv
<1>10. CASE Migrate
  <2>1. StepInv'
    BY <1>10, OutsideKeeps
  <2> USE <1>10 DEF Migrate, stepVars, innerVars
  <2>2. TypeOK'
    BY <1>t, <1>h, <2>1 DEF TypeOK, Locations
  <2>3. WaitBegun'
    BY DEF IInv, WaitBegun
  <2> QED BY <2>1, <2>2, <2>3 DEF IInv, NoLostWakeup
<1>11. CASE Drop
  <2>1. StepInv'
    BY <1>11, OutsideKeeps
  <2>2. TypeOK'
    BY <1>t, <1>11, <1>h, <2>1 DEF Drop, TypeOK, Locations, taskVars, innerVars
  <2> QED BY <1>11, <2>1, <2>2 DEF Drop, IInv, WaitBegun, NoLostWakeup
<1>12. CASE PollAfterCompletion \/ UNCHANGED vars
  <2>1. StepInv'
    BY <1>12, OutsideKeeps
  <2> USE <1>12 DEF PollAfterCompletion, vars, stepVars, taskVars, innerVars
  <2>2. TypeOK'
    BY <1>t, <1>h, <2>1 DEF TypeOK
  <2>3. WaitBegun' /\ NoLostWakeup'
    BY DEF IInv, WaitBegun, NoLostWakeup
  <2> QED BY <2>1, <2>2, <2>3 DEF IInv
<1> QED
  BY <1>1, <1>2, <1>3, <1>4, <1>5, <1>6, <1>7, <1>8, <1>9, <1>10, <1>11, <1>12
  DEF Next, Poll, ScheduledPoll, SpuriousPoll

\* The invariant holds throughout every execution of the poll-driven engine.
THEOREM AsyncInvariant == Spec => []IInv
BY InitInvariant, NextInvariant, PTL DEF Spec

\* Every variable of the future keeps its type: the cursor's saturating arithmetic
\* never leaves the range of u32 and Duration.
THEOREM AsyncTypeCorrect == Spec => []TypeOK
<1>1. IInv => TypeOK
  BY DEF IInv
<1> QED BY <1>1, AsyncInvariant, PTL

\* No wake-up is lost, for any set of tasks: a future that returned Pending and was
\* not woken since holds the waker of its present owner, and its inner future is
\* incomplete.
THEOREM AsyncNoLostWakeup == Spec => []NoLostWakeup
<1>1. IInv => NoLostWakeup
  BY DEF IInv
<1> QED BY <1>1, AsyncInvariant, PTL

\* The statistics the future resolves to are true, however it was polled.
THEOREM AsyncStatsTruthful == Spec => []StatsTruthful
<1>1. IInv => StatsTruthful
  BY DEF IInv, StepInv
<1> QED BY <1>1, AsyncInvariant, PTL

\* No attempt starts later than the deadline plus the time that callbacks and late
\* polls took since the clock was last read.
THEOREM AsyncDeadlineBound == Spec => []DeadlineBound
<1>1. IInv => DeadlineBound
  BY DEF IInv, StepInv
<1> QED BY <1>1, AsyncInvariant, PTL

\* A stop strategy that fires from attempt n on allows at most n operations, also
\* under spurious polls.
THEOREM AsyncAttemptBudget == Spec => []AttemptBudget
<1>1. IInv => AttemptBudget
  BY DEF IInv, StepInv, CountFits, AttemptBudget
<1> QED BY <1>1, AsyncInvariant, PTL

\* A step that begins another attempt is a retry without a wait or the end of one.
LEMMA BeginsAfterWait ==
  ASSUME [Next]_vars, pc \notin {"idle", "before"}, pc' = "before"
  PROVE  RetryNow \/ SleepReady
BY DEF Next, Poll, ScheduledPoll, SpuriousPoll, EnterPoll, StartOp, OpReady, OpPending,
   Observe, Stop, RetryLater, SleepPending, Finish, Unwind, PollAfterCompletion,
   OpCompletes, TimerFires, Tick, Migrate, Drop, BeforeAttempt, AfterAttempt, Conclude,
   Exhaust, OnExit, Panic, Goto, Suspended, vars, stepVars

\* An attempt that started at or past the deadline is never followed by another.
THEOREM AsyncLastAttemptAtDeadline == Spec => LastAttemptAtDeadline
<1>1. ASSUME IInv, [Next]_vars, pc \notin {"idle", "before"}, pc' = "before",
             Timeout # None
      PROVE  start_elapsed < Timeout
  <2>1. /\ StepInv /\ start_elapsed \in Duration /\ post_elapsed \in Duration
        /\ Timeout \in Duration
    BY <1>1, StepTypes DEF IInv
  <2>2. post_elapsed < Timeout /\ pc \in {"decide", "sleep"}
    <3>1. CASE RetryNow
      BY <2>1, <3>1, <1>1, ContinueDecides DEF RetryNow, Continue
    <3>2. CASE SleepReady
      BY <2>1, <3>2, <1>1 DEF SleepReady, Goto, StepInv, DelayFits
    <3> QED BY <1>1, <3>1, <3>2, BeginsAfterWait
  <2>3. start_elapsed <= post_elapsed
    BY <2>1, <2>2 DEF StepInv, ReadingsPast, Observed
  <2> QED BY <2>1, <2>2, <2>3 DEF Duration
<1>2. IInv /\ [Next]_vars =>
        [pc \notin {"idle", "before"} /\ pc' = "before" /\ Timeout # None
           => start_elapsed < Timeout]_stepVars
  BY <1>1
<1> QED BY <1>2, AsyncInvariant, PTL DEF LastAttemptAtDeadline, Spec

\* The next attempt's elapsed reading includes the delay it is told was applied,
\* whatever polled the sleep future and however late.
THEOREM AsyncBackoffRespected == Spec => BackoffRespected
<1>1. ASSUME IInv, [Next]_vars, pc \notin {"idle", "before"}, pc' = "before",
             now' < DurMax
      PROVE  start_elapsed' >= post_elapsed + previous_delay'
  <2>1. /\ StepInv /\ now \in Duration /\ post_elapsed \in Duration
        /\ delay \in Duration
    BY <1>1, StepTypes DEF IInv
  <2>2. CASE RetryNow
    <3>1. now' \in Duration /\ now <= now' /\ pc = "decide"
      BY <2>1, <2>2, ContinueDecides DEF RetryNow, Continue
    <3>2. start_elapsed' \in Duration /\ post_elapsed <= start_elapsed'
      BY <2>1, <2>2, <3>1, NextReading DEF RetryNow, Observed
    <3>3. previous_delay' = 0
      BY <2>2 DEF RetryNow
    <3> QED BY <2>1, <3>2, <3>3 DEF Duration
  <2>3. CASE SleepReady
    <3>1. /\ now' \in Duration /\ origin \in Duration /\ start_elapsed' \in Duration
          /\ origin + post_elapsed + delay <= now'
          /\ origin + start_elapsed' = now'
      BY <1>1, <2>3, SleepReads
    <3>2. previous_delay' = delay
      BY <1>1, <2>3 DEF SleepReady, Goto, IInv, WaitBegun
    <3>3. PICK e \in Int, t \in Int : e = start_elapsed' /\ t = now'
      BY <3>1 DEF Duration
    <3>4. origin + post_elapsed + delay <= t /\ origin + e = t
      BY <3>1, <3>3
    <3>5. e >= post_elapsed + delay
      BY <2>1, <3>1, <3>4 DEF Duration
    <3> QED BY <3>2, <3>3, <3>5
  <2> QED BY <1>1, <2>2, <2>3, BeginsAfterWait
<1>2. IInv /\ [Next]_vars =>
        [pc \notin {"idle", "before"} /\ pc' = "before" /\ now' < DurMax
           => start_elapsed' >= post_elapsed + previous_delay']_stepVars
  BY <1>1
<1> QED BY <1>2, AsyncInvariant, PTL DEF BackoffRespected, Spec

\* The exit is reported exactly once before the future is ready, at most once when user
\* code panics, and never when the future is dropped.
THEOREM AsyncOneExit == Spec => []OneExit
<1>1. Init => OneExit
  BY DEF Init, StepInit, OneExit
<1>2. ASSUME OneExit, [Next]_vars PROVE OneExit'
  <2>1. CASE Poll
    BY <1>2, <2>1 DEF OneExit, Poll, StartOp, OpReady, OpPending, Observe, Stop, RetryNow,
       RetryLater, SleepReady, SleepPending, Finish, BeforeAttempt, AfterAttempt, Conclude,
       Exhaust, Continue, OnExit, Goto, stepVars
  <2>2. CASE ScheduledPoll \/ SpuriousPoll
    BY <1>2, <2>2 DEF OneExit, ScheduledPoll, SpuriousPoll, EnterPoll, Suspended
  <2>3. CASE Unwind
    BY <1>2, <2>3 DEF OneExit, Unwind, Panic
  <2>4. CASE PollAfterCompletion \/ OpCompletes \/ TimerFires \/ Tick \/ Migrate \/ Drop
    BY <1>2, <2>4 DEF OneExit, PollAfterCompletion, OpCompletes, TimerFires, Tick, Migrate,
       Drop, Suspended, stepVars
  <2>5. CASE UNCHANGED vars
    BY <1>2, <2>5 DEF OneExit, vars, stepVars
  <2> QED BY <1>2, <2>1, <2>2, <2>3, <2>4, <2>5 DEF Next
<1>3. OneExit /\ [Next]_vars => OneExit'
  BY <1>2
<1> QED BY <1>1, <1>3, PTL DEF Spec

\* The waits of a polled execution never add up to more than its budget, whatever the
\* executor does and however late timers fire.
THEOREM AsyncWaitsWithinBudget == Spec => []WaitsWithinBudget
<1>1. Init => WaitsWithinBudget
  BY PolicyAssumption, DurMaxAssumption
     DEF Init, StepInit, WaitsWithinBudget, Timeout, OptDuration, Duration
<1>2. ASSUME IInv, WaitsWithinBudget, [Next]_vars PROVE WaitsWithinBudget'
  <2>1. /\ StepInv /\ now \in Duration /\ now \in Int /\ delay \in Duration
        /\ slept = total_wait
    BY <1>2, StepTypes, DurMaxAssumption DEF IInv, StepInv, WaitsElapsed, Duration
  <2>2. CASE StartOp \/ Observe \/ Stop \/ Finish \/ Unwind \/ RetryNow
    <3>1. now' \in Duration /\ now <= now' /\ policy' = policy
      BY <2>1, <2>2, StepClockForward DEF StartOp, Observe, Stop, Finish, Unwind, RetryNow
    <3>2. slept' = slept
      BY <2>2 DEF StartOp, Observe, Stop, Finish, Unwind, RetryNow, BeforeAttempt,
         AfterAttempt, Conclude, Exhaust, OnExit, Panic
    <3> QED BY <1>2, <2>1, <3>1, <3>2, NoWaitKeepsBudget
  <2>7. CASE ScheduledPoll \/ SpuriousPoll
    <3>1. EnterPoll
      BY <2>7 DEF ScheduledPoll, SpuriousPoll
    <3>2. policy' = policy /\ slept' = slept
      BY <3>1 DEF EnterPoll
    <3>3. lag \in Nat
      BY <2>1, StepTypes
    <3>4. CASE pc = "idle"
      <4>1. origin' = now /\ FirstReading
        BY <2>1, <3>1, <3>4 DEF EnterPoll, CaptureOrigin, StepInv, ReadingsPast
      <4>2. now' \in Duration /\ now <= now'
        BY <2>1, <3>3, <4>1, FirstReadingExact
      <4> QED BY <1>2, <2>1, <3>2, <4>2, NoWaitKeepsBudget
    <3>5. CASE pc # "idle"
      <4>1. now' = now
        BY <3>1, <3>5 DEF EnterPoll
      <4> QED BY <1>2, <2>1, <3>2, <4>1, NoWaitKeepsBudget
    <3> QED BY <3>4, <3>5
  <2>3. CASE \/ OpReady \/ OpPending \/ SleepPending
             \/ PollAfterCompletion \/ OpCompletes \/ TimerFires \/ Migrate \/ Drop
             \/ UNCHANGED vars
    <3>1. now' = now /\ policy' = policy /\ slept' = slept
      BY <2>3 DEF OpReady, OpPending, SleepPending,
         PollAfterCompletion, OpCompletes, TimerFires, Migrate, Drop, vars, stepVars
    <3> QED BY <1>2, <2>1, <3>1, NoWaitKeepsBudget
  <2>4. CASE Tick
    <3>1. now' = now + 1 /\ now < DurMax /\ policy' = policy /\ slept' = slept
      BY <2>4 DEF Tick
    <3>2. now' \in Duration /\ now <= now'
      BY <2>1, <3>1, DurMaxAssumption DEF Duration
    <3> QED BY <1>2, <2>1, <3>1, <3>2, NoWaitKeepsBudget
  <2>5. CASE SleepReady
    <3>1. now' \in Duration /\ now <= now'
      <4>1. CASE now' = now
        BY <2>1, <4>1
      <4>2. CASE Spend(delay)
        BY <2>1, <4>2, SpendForward, DurMaxAssumption DEF Duration
      <4> QED BY <2>5, <4>1, <4>2 DEF SleepReady
    <3> QED BY <1>2, <2>1, <2>5, <3>1, NoWaitKeepsBudget DEF SleepReady
  <2>6. CASE RetryLater
    <3>1. Continue
      BY <2>6 DEF RetryLater
    <3>2. now' \in Duration /\ now <= now' /\ policy' = policy
      BY <2>1, <3>1, StepClockForward
    <3>3. /\ delay' \in Duration
          /\ Timeout # None => post_elapsed < Timeout /\ post_elapsed + delay' <= Timeout
      BY <2>1, <3>1, ContinueDecides
    <3>4. slept' = SatAdd(slept, delay')
      BY <2>6 DEF RetryLater
    <3>5. now < DurMax => total_wait <= post_elapsed
      BY <2>1, <3>1 DEF Continue, StepInv, WaitsElapsed, Observed
    <3>6. PICK d \in Duration : d = delay'
      BY <3>3
    <3>7. ASSUME Timeout # None, now < DurMax PROVE slept + d <= Timeout
      <4>1. total_wait <= post_elapsed /\ post_elapsed + d <= Timeout
        BY <3>3, <3>5, <3>6, <3>7
      <4>2. total_wait \in Int /\ post_elapsed \in Int /\ d \in Int /\ Timeout \in Int
        BY <2>1, <3>7, StepTypes, DurMaxAssumption DEF Duration
      <4> QED BY <2>1, <4>1, <4>2
    <3>8. slept' = SatAdd(slept, d)
      BY <3>4, <3>6
    <3> QED BY <1>2, <2>1, <3>2, <3>7, <3>8, FittingWaitKeepsBudget
  <2> QED BY <1>2, <2>2, <2>3, <2>4, <2>5, <2>6, <2>7 DEF Next, Poll
<1>3. IInv /\ WaitsWithinBudget /\ [Next]_vars => WaitsWithinBudget'
  BY <1>2
<1> QED BY <1>1, <1>3, AsyncInvariant, PTL DEF Spec

-----------------------------------------------------------------------------
(* The refinement of RetryContract: the initial states are initial states  *)
(* of the contract, and each step is a step of the contract or leaves it   *)
(* unchanged.                                                              *)

\* The mapping, location by location of the future.
MappingAt ==
  /\ pc \in {"panicked", "dropped"} => ContractCursor = None
  /\ pc = "sleep" =>
       ContractCursor = [attempt |-> NextAttempt(attempt), previous_delay |-> previous_delay,
                         total_wait |-> total_wait, elapsed |-> post_elapsed]
  /\ pc \in {"idle", "before", "op"} =>
       ContractCursor = [attempt |-> attempt, previous_delay |-> previous_delay,
                         total_wait |-> total_wait, elapsed |-> start_elapsed]
  /\ pc \in {"after", "decide", "exit", "done"} =>
       ContractCursor = [attempt |-> attempt, previous_delay |-> previous_delay,
                         total_wait |-> total_wait, elapsed |-> post_elapsed]
  /\ pc \in {"idle", "before", "sleep"} => ContractPhase = "ready"
  /\ pc = "op" => ContractPhase = "attempting"
  /\ pc \in {"after", "decide"} => ContractPhase = "deciding"
  /\ pc = "exit" => ContractPhase = "exiting"
  /\ pc \in {"done", "panicked", "dropped"} => ContractPhase = pc

\* The mapping is what its cases say.
LEMMA Mapping == MappingAt
BY DEF MappingAt, ContractCursor, ContractPhase

\* The same, of the state after a step.
LEMMA MappingNext == MappingAt'
BY Mapping, PTL

\* The contract's arithmetic, reached through the instance, is the engine's.
LEMMA SameArithmetic ==
  /\ Contract!Duration = Duration
  /\ \A a, b : Contract!Least(a, b) = Least(a, b)
  /\ \A a, b : Contract!SatAdd(a, b) = SatAdd(a, b)
  /\ \A a : Contract!NextAttempt(a) = NextAttempt(a)
  /\ \A a, e, p : Contract!RetryState(a, e, p) = RetryState(a, e, p)
BY Zenon DEF Contract!Duration, Duration, Contract!Least, Least, Contract!SatAdd, SatAdd,
   Contract!NextAttempt, NextAttempt, Contract!RetryState, RetryState

\* The future starts where the contract starts.
LEMMA InitRefines == Init => Contract!Init
BY Mapping DEF MappingAt, Init, StepInit, Contract!Init

\* While a poll decides, the contract sees the state `step` sees.
LEMMA DecidesAlike ==
  ASSUME pc = "decide"
  PROVE  /\ Contract!StateNow = StepState
         /\ Contract!MustStop <=> Exhausted
         /\ Contract!Budget = Timeout
<1>1. /\ ContractCursor.attempt = attempt
      /\ ContractCursor.previous_delay = previous_delay
      /\ ContractCursor.elapsed = post_elapsed
  BY Mapping DEF MappingAt
<1>2. Contract!StateNow = StepState
  BY <1>1, SameArithmetic DEF Contract!StateNow, StepState
<1>3. Contract!Budget = Timeout
  BY DEF Contract!Budget, Timeout
<1> QED BY <1>1, <1>2, <1>3 DEF Contract!MustStop, Exhausted, TimeoutExceeded

\* A retry the engine decides on is a retry of the contract, at any later reading.
LEMMA RetryRefines ==
  ASSUME StepInv, Continue, delay' \in Duration,
         UNCHANGED <<result, exits>>,
         NEW e \in Duration, e >= post_elapsed,
         ContractPhase' = "ready",
         ContractCursor' = [attempt |-> NextAttempt(attempt), previous_delay |-> delay',
                            total_wait |-> RunningWait(delay'), elapsed |-> e]
  PROVE  Contract!Retry
<1>1. pc = "decide" /\ ~Exhausted /\ StepTypeOK /\ UNCHANGED <<policy, reason>>
  BY DEF Continue, StepInv
<1>2. PICK w \in WaitOf[policy][StepState] : delay' = ClampDelay(w)
  BY DEF Continue
<1>3. /\ ContractCursor.attempt = attempt
      /\ ContractCursor.total_wait = total_wait
      /\ ContractCursor.elapsed = post_elapsed
      /\ ContractPhase = "deciding"
  BY <1>1, Mapping DEF MappingAt
<1>4. /\ Contract!StateNow = StepState
      /\ ~Contract!MustStop
      /\ Contract!Budget = Timeout
  BY <1>1, DecidesAlike
<1>5. delay' \in Contract!Delays
  <2>1. Timeout # None => Least(w, SatSub(Timeout, post_elapsed))
                            = Least(w, Timeout - post_elapsed)
    BY <1>1, PolicyAssumption, DurMaxAssumption
    DEF Exhausted, TimeoutExceeded, SatSub, StepTypeOK, Timeout, OptDuration, Duration
  <2>2. delay' = IF Contract!Budget = None THEN w
                 ELSE Least(w, Contract!Budget - ContractCursor.elapsed)
    BY <1>2, <1>3, <1>4, <2>1 DEF ClampDelay
  <2> QED BY <1>2, <1>4, <2>2, SameArithmetic DEF Contract!Delays
<1>6. e \in Contract!Readings
  BY <1>3, SameArithmetic DEF Contract!Readings
<1>7. /\ NextAttempt(attempt) = Contract!NextAttempt(ContractCursor.attempt)
      /\ RunningWait(delay') = Contract!SatAdd(ContractCursor.total_wait, delay')
  BY <1>3, SameArithmetic DEF RunningWait
<1> QED BY <1>1, <1>3, <1>4, <1>5, <1>6, <1>7 DEF Contract!Retry

\* Every step of the future is a step of the contract or a stutter.
LEMMA NextRefines ==
  ASSUME IInv, IInv', [Next]_vars
  PROVE  [Contract!Next]_(Contract!contractVars)
<1>m. MappingAt /\ MappingAt'
  BY Mapping, MappingNext
<1>t. StepInv /\ StepTypeOK /\ StepTypeOK'
  BY DEF IInv, StepInv
<1> USE DEF Goto
<1>1. CASE EnterPoll
  <2>1. CASE pc = "idle"
    <3>1. start_elapsed = 0 /\ start_elapsed' \in Duration /\ start_elapsed' >= 0
      BY <1>1, <1>t, <2>1, DurMaxAssumption
         DEF EnterPoll, StepInv, ReadingsPast, StepTypeOK, Duration
    <3>2. /\ ContractCursor.elapsed = start_elapsed
          /\ ContractCursor' = [ContractCursor EXCEPT !.elapsed = start_elapsed']
          /\ ContractPhase = "ready" /\ ContractPhase' = "ready"
      BY <1>1, <1>m, <2>1 DEF EnterPoll, MappingAt
    <3>3. start_elapsed' \in Contract!Readings
      BY <3>1, <3>2, SameArithmetic DEF Contract!Readings
    <3>4. Contract!Read
      BY <1>1, <3>2, <3>3 DEF EnterPoll, Contract!Read
    <3> QED BY <3>4 DEF Contract!Next
  <2>2. CASE pc # "idle"
    <3>1. UNCHANGED Contract!contractVars
      BY <1>1, <1>m, <2>2 DEF EnterPoll, Suspended, MappingAt, NextAttempt,
         Contract!contractVars
    <3> QED BY <3>1
  <2> QED BY <2>1, <2>2
<1>2. CASE StartOp
  <2>1. Contract!Begin
    BY <1>2, <1>m DEF StartOp, BeforeAttempt, MappingAt, Contract!Begin
  <2> QED BY <2>1 DEF Contract!Next
<1>3. CASE OpReady
  <2>1. post_elapsed' \in Duration /\ post_elapsed' >= start_elapsed
    BY <1>3, <1>t DEF OpReady, StepTypeOK, IInv, StepInv, ReadingsPast, Observed
  <2>2. /\ ContractCursor.elapsed = start_elapsed
        /\ ContractCursor' = [ContractCursor EXCEPT !.elapsed = post_elapsed']
        /\ ContractPhase = "attempting" /\ ContractPhase' = "deciding"
    BY <1>3, <1>m DEF OpReady, MappingAt
  <2>3. post_elapsed' \in Contract!Readings
    BY <2>1, <2>2, SameArithmetic DEF Contract!Readings
  <2>4. Contract!Complete
    BY <1>3, <2>2, <2>3 DEF OpReady, Contract!Complete
  <2> QED BY <2>4 DEF Contract!Next
<1>4. CASE Stop
  <2>1. Contract!Finish
    BY <1>4, <1>m, DecidesAlike DEF Stop, Conclude, Exhaust, MappingAt, Contract!Finish
  <2> QED BY <2>1 DEF Contract!Next
<1>5. CASE RetryNow
  <2>1. now' \in Duration /\ now <= now' /\ delay' \in Duration /\ pc = "decide"
    BY <1>5, <1>t, ContinueDecides DEF RetryNow, Continue
  <2>2. start_elapsed' \in Duration /\ start_elapsed' >= post_elapsed
    BY <1>5, <1>t, <2>1, NextReading DEF RetryNow, Observed, StepTypeOK, Duration
  <2>3. /\ ContractPhase' = "ready" /\ Continue /\ UNCHANGED <<result, exits>>
        /\ ContractCursor' = [attempt |-> NextAttempt(attempt), previous_delay |-> delay',
                              total_wait |-> RunningWait(delay'), elapsed |-> start_elapsed']
    BY <1>5, <1>m DEF RetryNow, Continue, MappingAt
  <2>4. Contract!Retry
    BY <1>t, <2>1, <2>2, <2>3, RetryRefines
  <2> QED BY <2>4 DEF Contract!Next
<1>6. CASE RetryLater
  <2>1. delay' \in Duration /\ post_elapsed \in Duration /\ post_elapsed >= post_elapsed
    BY <1>t DEF StepTypeOK, Duration
  <2>2. /\ ContractPhase' = "ready" /\ Continue /\ UNCHANGED <<result, exits>>
        /\ ContractCursor' = [attempt |-> NextAttempt(attempt), previous_delay |-> delay',
                              total_wait |-> RunningWait(delay'), elapsed |-> post_elapsed]
    BY <1>6, <1>m DEF RetryLater, Continue, MappingAt, NextAttempt
  <2>3. Contract!Retry
    BY <1>t, <2>1, <2>2, RetryRefines
  <2> QED BY <2>3 DEF Contract!Next
<1>7. CASE SleepReady
  <2>1. start_elapsed' \in Duration /\ start_elapsed' >= post_elapsed
    BY <1>7, <1>t, SleepReads, DurMaxAssumption DEF StepTypeOK, Duration
  <2>2. /\ ContractCursor.elapsed = post_elapsed
        /\ ContractCursor' = [ContractCursor EXCEPT !.elapsed = start_elapsed']
        /\ ContractPhase = "ready" /\ ContractPhase' = "ready"
    BY <1>7, <1>m DEF SleepReady, MappingAt
  <2>3. start_elapsed' \in Contract!Readings
    BY <2>1, <2>2, SameArithmetic DEF Contract!Readings
  <2>4. Contract!Read
    BY <1>7, <2>2, <2>3 DEF SleepReady, Contract!Read
  <2> QED BY <2>4 DEF Contract!Next
<1>8. CASE Finish
  <2>1. Contract!Exit
    BY <1>8, <1>m DEF Finish, OnExit, MappingAt, StatsFor, Contract!Exit
  <2> QED BY <2>1 DEF Contract!Next
<1>9. CASE Unwind
  <2>1. Contract!Panic
    BY <1>9, <1>m, <1>t DEF Unwind, Panic, MappingAt, Contract!Panic, StepTypeOK
  <2> QED BY <2>1 DEF Contract!Next
<1>10. CASE Drop
  <2>1. Contract!Drop
    BY <1>10, <1>m DEF Drop, Suspended, MappingAt, Contract!Drop
  <2> QED BY <2>1 DEF Contract!Next
<1>11. CASE Observe \/ Tick
  <2>1. UNCHANGED Contract!contractVars
    BY <1>11, <1>m DEF Observe, AfterAttempt, Tick, Suspended, MappingAt, NextAttempt,
       Contract!contractVars
  <2> QED BY <2>1
<1>12. CASE \/ OpPending \/ SleepPending \/ PollAfterCompletion \/ OpCompletes
            \/ TimerFires \/ Migrate \/ UNCHANGED vars
  <2>1. UNCHANGED stepVars
    BY <1>12 DEF OpPending, SleepPending, PollAfterCompletion, OpCompletes, TimerFires,
       Migrate, vars
  <2>2. UNCHANGED Contract!contractVars
    BY <2>1 DEF stepVars, ContractCursor, ContractPhase, NextAttempt, Contract!contractVars
  <2> QED BY <2>2
<1> QED
  BY <1>1, <1>2, <1>3, <1>4, <1>5, <1>6, <1>7, <1>8, <1>9, <1>10, <1>11, <1>12
  DEF Next, Poll, ScheduledPoll, SpuriousPoll

\* The poll-driven engine implements the contract both engines share, for any number
\* of tasks and any order of polls, wakes, moves and drops.
THEOREM AsyncImplementsContract == Spec => ImplementsContract
<1>1. IInv /\ IInv' /\ [Next]_vars => [Contract!Next]_(Contract!contractVars)
  BY NextRefines
<1> QED BY <1>1, InitRefines, AsyncInvariant, PTL DEF Spec, ImplementsContract, Contract!Spec
=============================================================================
