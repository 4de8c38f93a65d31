-------------------------- MODULE SyncEngineProofs --------------------------
(***************************************************************************)
(* Theorems about the blocking engine, for every policy, every duration of *)
(* the callbacks and every value of Duration::MAX and u32::MAX.            *)
(***************************************************************************)
EXTENDS SyncEngine, StepProofs

\* The execution starts in the invariant.
LEMMA InitInvariant == Init => IInv
<1> SUFFICES ASSUME Init PROVE IInv
  OBVIOUS
<1>1. StepInv
  BY StepInitInv DEF Init
<1> QED BY <1>1 DEF IInv, Init, StepInit, Locations, WaitPending

\* The wait moves the clock by the delay and some lateness, the next elapsed reading
\* is exact, and what was waited is what was added to total_wait.
LEMMA SleepReads ==
  ASSUME IInv, Sleep
  PROVE  \E late \in Nat :
           /\ now' \in Duration /\ now <= now' /\ now' <= now + delay + late
           /\ now' < DurMax => now + delay <= now'
           /\ lag' = lag + late
           /\ slept' = SatAdd(slept, delay)
           /\ start_elapsed' \in Duration /\ post_elapsed <= start_elapsed'
           /\ origin \in Duration /\ origin <= now' /\ origin + start_elapsed' = now'
<1>1. /\ now \in Duration /\ delay \in Duration /\ slept \in Duration /\ lag \in Nat
      /\ StepInv
  BY StepTypes DEF IInv
<1>2. PICK late \in Nat :
        /\ now' \in Duration /\ now <= now' /\ now' <= now + delay + late
        /\ now' < DurMax => now + delay <= now'
        /\ lag' = lag + late
        /\ slept' = SatAdd(slept, delay)
  <2>1. CASE delay = 0
    <3>1. UNCHANGED <<now, slept, lag>>
      BY <2>1 DEF Sleep
    <3> WITNESS 0 \in Nat
    <3> QED BY <1>1, <2>1, <3>1, DurMaxAssumption DEF SatAdd, Duration
  <2>2. CASE delay # 0
    <3> PICK late \in Lateness : Spend(delay + late) /\ lag' = lag + late
      BY <2>2 DEF Sleep
    <3>1. late \in Nat /\ delay + late \in Nat
      BY <1>1, SyncTimeAssumption, DurMaxAssumption DEF Duration
    <3>2. now' \in Duration /\ now <= now' /\ now' <= now + (delay + late)
          /\ (now' < DurMax => now' = now + (delay + late))
      BY <1>1, <3>1, SpendForward
    <3>3. slept' = SatAdd(slept, delay)
      BY <2>2 DEF Sleep
    <3> QED BY <1>1, <3>1, <3>2, <3>3, DurMaxAssumption DEF Duration
  <2> QED BY <2>1, <2>2
<1>3. pc = "sleep" /\ start_elapsed' = ElapsedAt(now')
  BY DEF Sleep, Goto
<1>4. /\ start_elapsed' \in Duration /\ post_elapsed <= start_elapsed'
      /\ origin \in Duration /\ origin <= now' /\ origin + start_elapsed' = now'
  BY <1>1, <1>2, <1>3, NextReading
<1> QED BY <1>2, <1>4

\* Every step of Retry::run preserves the invariant.
LEMMA NextInvariant == IInv /\ [Next]_stepVars => IInv'
<1> SUFFICES ASSUME IInv, [Next]_stepVars PROVE IInv'
  OBVIOUS
<1>t. /\ StepInv /\ StepTypeOK
      /\ now \in Duration /\ lag \in Nat /\ ops \in Nat
      /\ total_wait \in Duration /\ slept \in Duration /\ delay \in Duration
      /\ start_elapsed \in Duration /\ post_elapsed \in Duration
      /\ attempt \in Attempts /\ exits \in Nat
      /\ (Timeout # None => Timeout \in Duration)
  BY StepTypes DEF IInv
<1> USE DEF Goto, Before, Attempted, Observed
<1>1. CASE Call
  <2> USE <1>1 DEF Call
  <2>0. /\ now' \in Duration /\ now <= now' /\ lag' \in Nat
        /\ start_elapsed' \in Duration /\ start_elapsed' <= lag'
        /\ origin' = now /\ origin' + start_elapsed' <= now'
    BY <1>t, FirstReadingExact
  <2>1. StepTypeOK'
    BY <1>t, <2>0 DEF StepTypeOK, OptDuration
  <2>2. ReadingsPast'
    BY <1>t, <2>0, DurMaxAssumption DEF ReadingsPast, Duration
  <2>3. AttemptsCounted' /\ CountFits' /\ StatsTruthful'
    BY <1>t DEF StepInv, AttemptsCounted, CountFits, StatsTruthful
  <2>4. WaitsElapsed'
    BY <1>t, <2>0, DurMaxAssumption DEF StepInv, WaitsElapsed, Duration
  <2>5. DelayFits' /\ DeadlineBound'
    BY <1>t, <2>0, DurMaxAssumption DEF DelayFits, DeadlineBound, Timeout, Duration
  <2> QED BY <2>1, <2>2, <2>3, <2>4, <2>5 DEF IInv, StepInv, WaitPending, Locations
<1>2. CASE BeforeAttempt \/ AfterAttempt \/ Conclude \/ Exhaust \/ OnExit \/ Panic
  <2>1. StepInv'
    BY <1>t, <1>2, StepActionsKeep
  <2>2. pc' \in Locations /\ pc' # "sleep"
    BY <1>2 DEF Locations, BeforeAttempt, AfterAttempt, Conclude, Exhaust, OnExit, Panic
  <2> QED BY <2>1, <2>2 DEF IInv, WaitPending
<1>3. CASE Op
  <2> USE <1>3 DEF Op
  <2> PICK d \in OpTimes : Spend(d)
    OBVIOUS
  <2>0. d \in Nat /\ now' \in Duration /\ now <= now'
    BY <1>t, SyncTimeAssumption, SpendForward DEF Duration
  <2>6. origin \in Duration /\ origin <= now /\ origin + start_elapsed <= now
    BY DEF IInv, StepInv, ReadingsPast
  <2>7. total_wait = slept /\ (now < DurMax => total_wait <= start_elapsed)
    BY DEF IInv, StepInv, WaitsElapsed
  <2>8. post_elapsed' \in Duration /\ origin + post_elapsed' = now' /\ origin <= now'
    <3>1. origin <= now'
      BY <1>t, <2>0, <2>6, DurMaxAssumption DEF Duration
    <3> QED BY <2>0, <2>6, <3>1, SaturatingSub DEF ElapsedAt
  <2>9. pc' = "after" /\ origin' = origin /\ start_elapsed' = start_elapsed /\ lag' = 0
    OBVIOUS
  <2>1. StepTypeOK'
    BY <1>t, <2>0, <2>8 DEF StepTypeOK
  <2>2. ReadingsPast'
    BY <1>t, <2>0, <2>6, <2>8, <2>9, DurMaxAssumption DEF ReadingsPast, Duration
  <2>3. AttemptsCounted' /\ CountFits' /\ StatsTruthful'
    BY <1>t DEF StepInv, AttemptsCounted, CountFits, StatsTruthful
  <2>4. WaitsElapsed'
    BY <1>t, <2>0, <2>6, <2>7, <2>8, DurMaxAssumption DEF WaitsElapsed, Duration
  <2>5. DelayFits' /\ DeadlineBound'
    BY DEF DelayFits, DeadlineBound
  <2> QED BY <2>1, <2>2, <2>3, <2>4, <2>5 DEF IInv, StepInv, WaitPending, Locations
<1>4. CASE Retry
  <2> USE <1>4 DEF Retry
  <2>0. /\ now' \in Duration /\ now <= now' /\ lag' \in Nat
        /\ now' <= origin + post_elapsed + lag'
        /\ delay' \in Duration
        /\ Timeout # None => post_elapsed < Timeout /\ post_elapsed + delay' <= Timeout
        /\ \A n \in Budgets[policy] : ops < n
    BY <1>t, ContinueDecides
  <2> USE DEF Continue
  <2>1. StepTypeOK'
    BY <1>t, <2>0 DEF StepTypeOK
  <2>2. ReadingsPast'
    BY <1>t, <2>0, DurMaxAssumption DEF StepInv, ReadingsPast, Duration
  <2>3. AttemptsCounted' /\ CountFits' /\ StatsTruthful'
    BY <1>t, <2>0 DEF StepInv, AttemptsCounted, CountFits, StatsTruthful
  <2>4. WaitsElapsed'
    BY <1>t DEF StepInv, WaitsElapsed
  <2>5. DelayFits' /\ DeadlineBound'
    BY <2>0 DEF DelayFits, DeadlineBound, Timeout
  <2>6. WaitPending'
    BY <1>t, <2>0, DurMaxAssumption DEF StepInv, WaitsElapsed, WaitPending, Duration
  <2> QED BY <2>1, <2>2, <2>3, <2>4, <2>5, <2>6 DEF IInv, StepInv, Locations
<1>5. CASE Sleep
  <2> USE <1>5 DEF Sleep
  <2>9. PICK late \in Nat :
          /\ now' \in Duration /\ now <= now' /\ now' <= now + delay + late
          /\ now' < DurMax => now + delay <= now'
          /\ lag' = lag + late
          /\ slept' = SatAdd(slept, delay)
          /\ start_elapsed' \in Duration /\ post_elapsed <= start_elapsed'
          /\ origin \in Duration /\ origin <= now' /\ origin + start_elapsed' = now'
    BY SleepReads
  <2>8. /\ now <= origin + post_elapsed + lag /\ origin + post_elapsed <= now
        /\ now < DurMax => total_wait <= post_elapsed
    BY DEF IInv, StepInv, ReadingsPast, WaitPending
  <2>10. total_wait' \in Duration /\ total_wait' <= total_wait + delay /\ total_wait' = slept'
    BY <1>t, <2>9, SaturatingAdd DEF RunningWait, StepInv, WaitsElapsed, Duration
  <2>12. attempt' \in Attempts
    BY <1>t, AttemptMaxAssumption DEF NextAttempt, Attempts
  <2>1. StepTypeOK'
    BY <1>t, <2>9, <2>10, <2>12 DEF StepTypeOK, OptDuration
  <2>2. ReadingsPast'
    BY <1>t, <2>9, DurMaxAssumption DEF ReadingsPast, Duration
  <2>3. AttemptsCounted'
    BY <1>t, AttemptMaxAssumption DEF StepInv, AttemptsCounted, NextAttempt, Least, Attempts
  <2>4. WaitsElapsed'
    BY <1>t, <2>8, <2>9, <2>10, DurMaxAssumption DEF WaitsElapsed, Duration
  <2>5. DelayFits' /\ DeadlineBound'
    BY <1>t, <2>8, <2>9 DEF StepInv, DelayFits, DeadlineBound, Timeout, Duration
  <2>6. CountFits' /\ StatsTruthful'
    BY <1>t DEF StepInv, CountFits, StatsTruthful
  <2> QED BY <2>1, <2>2, <2>3, <2>4, <2>5, <2>6 DEF IInv, StepInv, WaitPending, Locations
<1>6. CASE UNCHANGED stepVars
  <2>1. StepInv'
    BY <1>t, <1>6, StepUnchanged
  <2> QED BY <1>6, <2>1 DEF stepVars, IInv, WaitPending
<1> QED BY <1>1, <1>2, <1>3, <1>4, <1>5, <1>6 DEF Next

\* The invariant holds throughout every execution of the blocking engine.
THEOREM SyncInvariant == Spec => []IInv
BY InitInvariant, NextInvariant, PTL DEF Spec

\* Every variable of the blocking engine keeps its type: in particular the cursor's
\* saturating arithmetic never leaves the range of u32 and Duration.
THEOREM SyncTypeCorrect == Spec => []TypeOK
<1>1. IInv => TypeOK
  BY DEF IInv, StepInv, TypeOK
<1> QED BY <1>1, SyncInvariant, PTL

\* The statistics Retry::run returns are true, for every policy and clock.
THEOREM SyncStatsTruthful == Spec => []StatsTruthful
<1>1. IInv => StatsTruthful
  BY DEF IInv, StepInv
<1> QED BY <1>1, SyncInvariant, PTL

\* No attempt starts later than the deadline plus the time user code and late
\* wake-ups took since the clock was last read.
THEOREM SyncDeadlineBound == Spec => []DeadlineBound
<1>1. IInv => DeadlineBound
  BY DEF IInv, StepInv
<1> QED BY <1>1, SyncInvariant, PTL

\* A stop strategy that fires from attempt n on allows at most n operations.
THEOREM SyncAttemptBudget == Spec => []AttemptBudget
<1>1. IInv => AttemptBudget
  BY DEF IInv, StepInv, CountFits, AttemptBudget
<1> QED BY <1>1, SyncInvariant, PTL

\* A step that begins another attempt is the end of a wait.
LEMMA BeginsAfterSleep ==
  ASSUME [Next]_stepVars, pc \notin {"idle", "before"}, pc' = "before"
  PROVE  Sleep
BY DEF Next, Call, BeforeAttempt, Op, AfterAttempt, Conclude, Exhaust, Retry, OnExit,
   Panic, Goto, stepVars

\* An attempt that started at or past the deadline is never followed by another.
THEOREM SyncLastAttemptAtDeadline == Spec => LastAttemptAtDeadline
<1>1. ASSUME IInv, [Next]_stepVars, pc \notin {"idle", "before"}, pc' = "before",
             Timeout # None
      PROVE  start_elapsed < Timeout
  <2>1. pc = "sleep"
    BY <1>1, BeginsAfterSleep DEF Sleep, Goto
  <2>2. start_elapsed <= post_elapsed /\ post_elapsed < Timeout
    BY <1>1, <2>1 DEF IInv, StepInv, ReadingsPast, DelayFits, Observed
  <2>3. start_elapsed \in Int /\ post_elapsed \in Int /\ Timeout \in Int
    BY <1>1, PolicyAssumption, DurMaxAssumption
    DEF IInv, StepInv, StepTypeOK, Timeout, OptDuration, Duration
  <2> QED BY <2>2, <2>3
<1>2. IInv /\ [Next]_stepVars =>
        [pc \notin {"idle", "before"} /\ pc' = "before" /\ Timeout # None
           => start_elapsed < Timeout]_stepVars
  BY <1>1
<1> QED BY <1>2, SyncInvariant, PTL DEF LastAttemptAtDeadline, Spec

\* The next attempt's elapsed reading includes the delay it is told was applied.
THEOREM SyncBackoffRespected == Spec => BackoffRespected
<1>1. ASSUME IInv, [Next]_stepVars, pc \notin {"idle", "before"}, pc' = "before",
             now' < DurMax
      PROVE  start_elapsed' >= post_elapsed + previous_delay'
  <2>1. Sleep
    BY <1>1, BeginsAfterSleep
  <2>2. PICK late \in Nat :
          /\ now' \in Duration
          /\ now' < DurMax => now + delay <= now'
          /\ start_elapsed' \in Duration /\ origin + start_elapsed' = now'
    BY <1>1, <2>1, SleepReads
  <2>3. previous_delay' = delay /\ pc = "sleep"
    BY <2>1 DEF Sleep, Goto
  <2>4. origin \in Duration /\ origin + post_elapsed <= now
    BY <1>1, <2>3 DEF IInv, StepInv, ReadingsPast, Attempted, Observed
  <2>5. now \in Duration /\ delay \in Duration /\ post_elapsed \in Duration
    BY <1>1 DEF IInv, StepInv, StepTypeOK
  <2>6. /\ now \in Int /\ now' \in Int /\ delay \in Int /\ post_elapsed \in Int
        /\ origin \in Int /\ start_elapsed' \in Int
    BY <2>2, <2>4, <2>5, DurMaxAssumption DEF Duration
  <2>7. start_elapsed' >= post_elapsed + delay
    BY <1>1, <2>2, <2>4, <2>6, ReadingsApart
  <2> QED BY <2>3, <2>7
<1>2. IInv /\ [Next]_stepVars =>
        [pc \notin {"idle", "before"} /\ pc' = "before" /\ now' < DurMax
           => start_elapsed' >= post_elapsed + previous_delay']_stepVars
  BY <1>1
<1> QED BY <1>2, SyncInvariant, PTL DEF BackoffRespected, Spec

\* The exit is reported exactly once before Retry::run returns, and at most once when
\* user code panics.
THEOREM SyncOneExit == Spec => []OneExit
<1>1. Init => OneExit
  BY DEF Init, StepInit, OneExit
<1>2. OneExit /\ [Next]_stepVars => OneExit'
  BY DEF OneExit, Next, Call, BeforeAttempt, Op, AfterAttempt, Conclude, Exhaust, Retry,
     Continue, Sleep, OnExit, Panic, Goto, stepVars
<1> QED BY <1>1, <1>2, PTL DEF Spec

\* The waits of a blocking execution never add up to more than its budget, for every
\* policy, clock and number of attempts.
THEOREM SyncWaitsWithinBudget == Spec => []WaitsWithinBudget
<1>1. Init => WaitsWithinBudget
  BY PolicyAssumption, DurMaxAssumption
     DEF Init, StepInit, WaitsWithinBudget, Timeout, OptDuration, Duration
<1>2. ASSUME IInv, WaitsWithinBudget, [Next]_stepVars PROVE WaitsWithinBudget'
  <2>1. /\ StepInv /\ now \in Duration /\ now \in Int /\ delay \in Duration
        /\ slept = total_wait
    BY <1>2, StepTypes, DurMaxAssumption DEF IInv, StepInv, WaitsElapsed, Duration
  <2>2. CASE BeforeAttempt \/ AfterAttempt \/ Conclude \/ Exhaust \/ OnExit \/ Panic \/ Retry
    <3>1. now' \in Duration /\ now <= now' /\ policy' = policy
      BY <2>1, <2>2, StepClockForward DEF Retry
    <3>2. slept' = slept
      BY <2>2 DEF BeforeAttempt, AfterAttempt, Conclude, Exhaust, OnExit, Panic, Retry
    <3> QED BY <1>2, <2>1, <3>1, <3>2, NoWaitKeepsBudget
  <2>3. CASE UNCHANGED stepVars
    <3>1. now' = now /\ policy' = policy /\ slept' = slept
      BY <2>3 DEF stepVars
    <3> QED BY <1>2, <2>1, <3>1, NoWaitKeepsBudget
  <2>6. CASE Call
    <3>1. lag \in Nat
      BY <2>1, StepTypes
    <3>2. now' \in Duration /\ now <= now' /\ policy' = policy /\ slept' = slept
      BY <2>1, <2>6, <3>1, FirstReadingExact DEF Call
    <3> QED BY <1>2, <2>1, <3>2, NoWaitKeepsBudget
  <2>4. CASE Op
    <3>1. PICK d \in OpTimes : Spend(d)
      BY <2>4 DEF Op
    <3>2. now' \in Duration /\ now <= now'
      BY <2>1, <3>1, SpendForward, SyncTimeAssumption DEF Duration
    <3> QED BY <1>2, <2>1, <2>4, <3>2, NoWaitKeepsBudget DEF Op
  <2>5. CASE Sleep
    <3>1. now' \in Duration /\ now <= now'
      BY <1>2, <2>5, SleepReads
    <3>2. slept' = slept \/ slept' = SatAdd(slept, delay)
      BY <2>5 DEF Sleep
    <3>3. ASSUME Timeout # None, now < DurMax PROVE slept + delay <= Timeout
      <4>1. total_wait <= post_elapsed /\ post_elapsed + delay <= Timeout
        BY <1>2, <2>5, <3>3 DEF Sleep, Goto, IInv, WaitPending, StepInv, DelayFits
      <4>2. /\ total_wait \in Int /\ post_elapsed \in Int /\ delay \in Int /\ Timeout \in Int
        BY <2>1, <3>3, StepTypes, DurMaxAssumption DEF Duration
      <4> QED BY <2>1, <4>1, <4>2
    <3>4. policy' = policy
      BY <2>5 DEF Sleep
    <3> QED BY <1>2, <2>1, <3>1, <3>2, <3>3, <3>4, FittingWaitKeepsBudget
  <2> QED BY <1>2, <2>2, <2>3, <2>4, <2>5, <2>6 DEF Next
<1>3. IInv /\ WaitsWithinBudget /\ [Next]_stepVars => WaitsWithinBudget'
  BY <1>2
<1> QED BY <1>1, <1>3, SyncInvariant, PTL DEF Spec

-----------------------------------------------------------------------------
(* The refinement of RetryContract: the initial states are initial states  *)
(* of the contract, and each step is a step of the contract or leaves it   *)
(* unchanged.                                                              *)

\* The mapping, location by location of Retry::run.
MappingAt ==
  /\ pc = "panicked" => ContractCursor = None
  /\ pc = "sleep" =>
       ContractCursor = [attempt |-> NextAttempt(attempt), previous_delay |-> delay,
                         total_wait |-> RunningWait(delay), elapsed |-> post_elapsed]
  /\ pc \in {"idle", "before", "op"} =>
       ContractCursor = [attempt |-> attempt, previous_delay |-> previous_delay,
                         total_wait |-> total_wait, elapsed |-> start_elapsed]
  /\ pc \in {"after", "decide", "exit", "done"} =>
       ContractCursor = [attempt |-> attempt, previous_delay |-> previous_delay,
                         total_wait |-> total_wait, elapsed |-> post_elapsed]
  /\ pc \in {"idle", "before", "sleep"} => ContractPhase = "ready"
  /\ pc = "op" => ContractPhase = "attempting"
  /\ pc \in {"after", "decide"} => ContractPhase = "deciding"
  /\ pc = "exit" => ContractPhase = "exiting"
  /\ pc \in {"done", "panicked"} => ContractPhase = pc

\* The mapping is what its cases say.
LEMMA Mapping == MappingAt
BY DEF MappingAt, ContractCursor, ContractPhase

\* The same, of the state after a step.
LEMMA MappingNext == MappingAt'
BY Mapping, PTL

\* The contract's arithmetic, reached through the instance, is the engine's.
LEMMA SameArithmetic ==
  /\ Contract!Duration = Duration
  /\ \A a, b : Contract!Least(a, b) = Least(a, b)
  /\ \A a, b : Contract!SatAdd(a, b) = SatAdd(a, b)
  /\ \A a : Contract!NextAttempt(a) = NextAttempt(a)
  /\ \A a, e, p : Contract!RetryState(a, e, p) = RetryState(a, e, p)
BY Zenon DEF Contract!Duration, Duration, Contract!Least, Least, Contract!SatAdd, SatAdd,
   Contract!NextAttempt, NextAttempt, Contract!RetryState, RetryState

\* The engine starts where the contract starts.
LEMMA InitRefines == Init => Contract!Init
BY Mapping DEF MappingAt, Init, StepInit, Contract!Init

\* Every step of Retry::run is a step of the contract or a stutter.
LEMMA NextRefines ==
  ASSUME IInv, IInv', [Next]_stepVars
  PROVE  [Contract!Next]_(Contract!contractVars)
<1>m. MappingAt /\ MappingAt'
  BY Mapping, MappingNext
<1>t. StepTypeOK /\ StepTypeOK'
  BY DEF IInv, StepInv
<1> USE DEF Goto
<1>1. CASE Call
  <2>1. start_elapsed = 0 /\ start_elapsed' \in Duration /\ start_elapsed' >= 0
    BY <1>1, <1>t, DurMaxAssumption
       DEF Call, IInv, StepInv, ReadingsPast, StepTypeOK, Duration
  <2>2. /\ ContractCursor.elapsed = start_elapsed
        /\ ContractCursor' = [ContractCursor EXCEPT !.elapsed = start_elapsed']
        /\ ContractPhase = "ready" /\ ContractPhase' = "ready"
    BY <1>1, <1>m DEF Call, MappingAt
  <2>3. start_elapsed' \in Contract!Readings
    BY <2>1, <2>2, SameArithmetic DEF Contract!Readings
  <2>4. Contract!Read
    BY <1>1, <2>2, <2>3 DEF Call, Contract!Read
  <2> QED BY <2>4 DEF Contract!Next
<1>2. CASE BeforeAttempt
  <2>1. Contract!Begin
    BY <1>2, <1>m DEF BeforeAttempt, MappingAt, Contract!Begin
  <2> QED BY <2>1 DEF Contract!Next
<1>3. CASE Op
  <2>1. post_elapsed' \in Duration /\ post_elapsed' >= start_elapsed
    BY <1>3, <1>t DEF Op, StepTypeOK, IInv, StepInv, ReadingsPast, Observed
  <2>2. /\ ContractCursor.elapsed = start_elapsed
        /\ ContractCursor' = [ContractCursor EXCEPT !.elapsed = post_elapsed']
        /\ ContractPhase = "attempting" /\ ContractPhase' = "deciding"
    BY <1>3, <1>m DEF Op, MappingAt
  <2>3. post_elapsed' \in Contract!Readings
    BY <2>1, <2>2, SameArithmetic DEF Contract!Readings
  <2>4. Contract!Complete
    BY <1>3, <2>2, <2>3 DEF Op, Contract!Complete
  <2> QED BY <2>4 DEF Contract!Next
<1>4. CASE AfterAttempt
  <2>1. UNCHANGED Contract!contractVars
    BY <1>4, <1>m DEF AfterAttempt, MappingAt, Contract!contractVars
  <2> QED BY <2>1
<1>5. CASE Conclude
  <2>1. Contract!Finish
    BY <1>5, <1>m DEF Conclude, MappingAt, Contract!Finish
  <2> QED BY <2>1 DEF Contract!Next
<1>s. pc = "decide" => Contract!StateNow = StepState /\ (Contract!MustStop <=> Exhausted)
  <2> SUFFICES ASSUME pc = "decide"
               PROVE  Contract!StateNow = StepState /\ (Contract!MustStop <=> Exhausted)
    OBVIOUS
  <2>1. /\ ContractCursor.attempt = attempt
        /\ ContractCursor.previous_delay = previous_delay
        /\ ContractCursor.elapsed = post_elapsed
    BY <1>m DEF MappingAt
  <2>2. Contract!StateNow = StepState
    BY <2>1, SameArithmetic DEF Contract!StateNow, StepState
  <2>3. Contract!Budget = Timeout
    BY DEF Contract!Budget, Timeout
  <2> QED BY <2>1, <2>2, <2>3 DEF Contract!MustStop, Exhausted, TimeoutExceeded
<1>6. CASE Exhaust
  <2>1. Contract!Finish
    BY <1>6, <1>m, <1>s DEF Exhaust, MappingAt, Contract!Finish
  <2> QED BY <2>1 DEF Contract!Next
<1>7. CASE Retry
  <2>1. PICK w \in WaitOf[policy][StepState] : delay' = ClampDelay(w)
    BY <1>7 DEF Retry, Continue
  <2>2. /\ pc = "decide" /\ pc' = "sleep" /\ ~Exhausted
        /\ UNCHANGED <<policy, attempt, total_wait, post_elapsed, reason, result, exits>>
    BY <1>7 DEF Retry, Continue
  <2>3. /\ ContractCursor.attempt = attempt
        /\ ContractCursor.total_wait = total_wait
        /\ ContractCursor.elapsed = post_elapsed
        /\ ContractPhase = "deciding" /\ ContractPhase' = "ready"
    BY <1>m, <2>2 DEF MappingAt
  <2>4. ContractCursor' = [attempt |-> NextAttempt(attempt), previous_delay |-> delay',
                           total_wait |-> SatAdd(total_wait, delay'),
                           elapsed |-> post_elapsed]
    BY <1>m, <2>2 DEF MappingAt, NextAttempt, RunningWait
  <2>5. delay' \in Contract!Delays
    <3>1. delay' \in Duration
      BY <1>t DEF StepTypeOK
    <3>2. Timeout # None => Least(w, SatSub(Timeout, post_elapsed))
                              = Least(w, Timeout - post_elapsed)
      BY <1>t, <2>2, PolicyAssumption, DurMaxAssumption
      DEF Exhausted, TimeoutExceeded, SatSub, StepTypeOK, Timeout, OptDuration, Duration
    <3>3. Contract!Budget = Timeout /\ Contract!StateNow = StepState
      BY <1>s, <2>2 DEF Contract!Budget, Timeout
    <3>4. delay' = IF Contract!Budget = None THEN w
                   ELSE Least(w, Contract!Budget - ContractCursor.elapsed)
      BY <2>1, <2>3, <3>2, <3>3 DEF ClampDelay
    <3> QED BY <2>1, <3>1, <3>3, <3>4, SameArithmetic DEF Contract!Delays
  <2>6. post_elapsed \in Contract!Readings
    BY <1>t, <2>3, SameArithmetic, DurMaxAssumption DEF Contract!Readings, StepTypeOK, Duration
  <2>7. Contract!Retry
    BY <1>s, <2>2, <2>3, <2>4, <2>5, <2>6, SameArithmetic DEF Contract!Retry
  <2> QED BY <2>7 DEF Contract!Next
<1>8. CASE Sleep
  <2>1. start_elapsed' \in Duration /\ start_elapsed' >= post_elapsed
    BY <1>8, <1>t, SleepReads, DurMaxAssumption DEF StepTypeOK, Duration
  <2>5. /\ ContractCursor.elapsed = post_elapsed
        /\ ContractCursor' = [ContractCursor EXCEPT !.elapsed = start_elapsed']
        /\ ContractPhase = "ready" /\ ContractPhase' = "ready"
    BY <1>8, <1>m DEF Sleep, MappingAt
  <2>6. start_elapsed' \in Contract!Readings
    BY <2>1, <2>5, SameArithmetic DEF Contract!Readings
  <2>7. Contract!Read
    BY <1>8, <2>5, <2>6 DEF Sleep, Contract!Read
  <2> QED BY <2>7 DEF Contract!Next
<1>9. CASE OnExit
  <2>1. Contract!Exit
    BY <1>9, <1>m DEF OnExit, MappingAt, StatsFor, Contract!Exit
  <2> QED BY <2>1 DEF Contract!Next
<1>10. CASE Panic
  <2>1. Contract!Panic
    BY <1>10, <1>m, <1>t DEF Panic, MappingAt, Contract!Panic, StepTypeOK
  <2> QED BY <2>1 DEF Contract!Next
<1>11. CASE UNCHANGED stepVars
  <2>1. UNCHANGED Contract!contractVars
    BY <1>11 DEF stepVars, ContractCursor, ContractPhase, Contract!contractVars,
       RunningWait
  <2> QED BY <2>1
<1> QED BY <1>1, <1>2, <1>3, <1>4, <1>5, <1>6, <1>7, <1>8, <1>9, <1>10, <1>11 DEF Next

\* The blocking engine implements the contract both engines share.
THEOREM SyncImplementsContract == Spec => ImplementsContract
<1>1. IInv /\ IInv' /\ [Next]_stepVars => [Contract!Next]_(Contract!contractVars)
  BY NextRefines
<1> QED BY <1>1, InitRefines, SyncInvariant, PTL DEF Spec, ImplementsContract, Contract!Spec
=============================================================================
