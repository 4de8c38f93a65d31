----------------------------- MODULE SyncEngine -----------------------------
(***************************************************************************)
(* Retry::run, the blocking engine (src/engine/mod.rs): read the clock,    *)
(* fire before_attempt, call the operation, read the clock again, `step`,  *)
(* block in the clock's wait, advance the cursor, repeat.                  *)
(***************************************************************************)
EXTENDS Step

CONSTANTS
  OpTimes,     \* how long the operation may take
  Lateness     \* how much later than asked a wait may end

ASSUME SyncTimeAssumption == OpTimes \subseteq Duration /\ Lateness \subseteq Duration

Locations == {"idle", "before", "op", "after", "decide", "sleep", "exit",
              "done", "panicked"}

Init == StepInit

(* call(): the baseline is captured and the first before_state is built. *)
Call ==
  /\ Goto("idle", "before")
  /\ origin' = now
  /\ FirstReading
  /\ UNCHANGED <<policy, attempt, previous_delay, total_wait, post_elapsed,
                 delay, reason, result, ops, exits, slept>>

\* Mutant: elapsed is read before the operation runs.
OpReadBefore ==
  /\ Goto("op", "after")
  /\ \E d \in OpTimes : Spend(d)
  /\ post_elapsed' = ElapsedAt(now)
  /\ lag' = 0
  /\ UNCHANGED <<policy, origin, attempt, previous_delay, total_wait,
                 start_elapsed, delay, reason, result, ops, exits, slept>>

(* The operation returns; elapsed is read again. *)
Op ==
  /\ Goto("op", "after")
  /\ \E d \in OpTimes : Spend(d)
  /\ post_elapsed' = ElapsedAt(now')
  /\ lag' = 0
  /\ UNCHANGED <<policy, origin, attempt, previous_delay, total_wait,
                 start_elapsed, delay, reason, result, ops, exits, slept>>

Retry ==
  /\ Continue
  /\ pc' = "sleep"
  /\ UNCHANGED <<attempt, previous_delay, total_wait, slept>>

\* Mutant: the clock is read for the next attempt before the wait.
SleepReadBefore ==
  /\ Goto("sleep", "before")
  /\ IF delay = 0
       THEN UNCHANGED <<now, slept, lag>>
       ELSE /\ \E late \in Lateness : /\ Spend(delay + late)
                                      /\ lag' = lag + late
            /\ slept' = SatAdd(slept, delay)
  /\ total_wait' = RunningWait(delay)
  /\ previous_delay' = delay
  /\ attempt' = NextAttempt(attempt)
  /\ start_elapsed' = ElapsedAt(now)
  /\ UNCHANGED <<policy, origin, post_elapsed, delay, reason, result, ops, exits>>

(* Block for the delay (not at all when it is zero), advance the cursor,   *)
(* and read the clock for the next before_state.                           *)
Sleep ==
  /\ Goto("sleep", "before")
  /\ IF delay = 0
       THEN UNCHANGED <<now, slept, lag>>
       ELSE /\ \E late \in Lateness : /\ Spend(delay + late)
                                      /\ lag' = lag + late
            /\ slept' = SatAdd(slept, delay)
  /\ total_wait' = RunningWait(delay)
  /\ previous_delay' = delay
  /\ attempt' = NextAttempt(attempt)
  /\ start_elapsed' = ElapsedAt(now')
  /\ UNCHANGED <<policy, origin, post_elapsed, delay, reason, result, ops, exits>>

Next == \/ Call \/ BeforeAttempt \/ Op \/ AfterAttempt \/ Conclude \/ Exhaust
        \/ Retry \/ Sleep \/ OnExit \/ Panic

Spec == Init /\ [][Next]_stepVars

(* call() has been made, every callback and every wait returns. *)
FairSpec == Spec /\ WF_stepVars(Next)
-----------------------------------------------------------------------------
(* Properties. *)

TypeOK == StepTypeOK /\ pc \in Locations

\* Until it blocks, the clock is behind what was read and spent since, and the delay
\* is not part of total_wait yet.
WaitPending ==
  pc = "sleep" => /\ now <= origin + post_elapsed + lag
                  /\ now < DurMax => total_wait <= post_elapsed

\* The inductive invariant behind the theorems.
IInv == pc \in Locations /\ StepInv /\ WaitPending

\* SPEC 11.4.2: "a clamped wait ends at the deadline and the loop performs one final
\* attempt there", so every attempt is begun with an elapsed reading of at most the
\* budget.
AttemptsStartByDeadline ==
  pc = "before" /\ Timeout # None => start_elapsed <= Timeout

\* An execution bounded by count, or by a deadline with non-zero waits, ends.
Termination ==
  policy \in Bounded /\ []ClockLasts => <>(pc \in {"done", "panicked"})

\* The refinement mapping.  The cursor advances only after the wait, so while the
\* engine sleeps the contract is already ahead of it.
ContractPhase ==
  CASE pc \in {"idle", "before", "sleep"} -> "ready"
    [] pc = "op" -> "attempting"
    [] pc \in {"after", "decide"} -> "deciding"
    [] pc = "exit" -> "exiting"
    [] OTHER -> pc

ContractCursor ==
  CASE pc = "panicked" -> None
    [] pc = "sleep" -> [attempt |-> NextAttempt(attempt),
                        previous_delay |-> delay,
                        total_wait |-> RunningWait(delay),
                        elapsed |-> post_elapsed]
    [] OTHER -> [attempt |-> attempt,
                 previous_delay |-> previous_delay,
                 total_wait |-> total_wait,
                 elapsed |-> IF pc \in {"idle", "before", "op"}
                               THEN start_elapsed ELSE post_elapsed]

Contract == INSTANCE RetryContract
              WITH phase <- ContractPhase, cursor <- ContractCursor

\* The blocking engine implements the engine-independent contract: every step of
\* Retry::run is a step of the contract or none, on exit, panic and retry alike.
ImplementsContract == Contract!Spec
=============================================================================
