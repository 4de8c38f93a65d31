----------------------------- MODULE AsyncEngine -----------------------------
(***************************************************************************)
(* AsyncRun, the poll-driven engine (src/engine/async_engine.rs), with the *)
(* executor that polls it.                                                 *)
(*                                                                         *)
(* pc refines Phase: "idle" is ReadyToStart before the first poll, "op" is *)
(* Polling, "sleep" is Sleeping, "done" is Done; "before", "after",        *)
(* "decide" and "exit" are the callbacks that run inside one poll.  The    *)
(* loop of `poll` goes on from phase to phase until the inner future is    *)
(* pending or the execution ends.                                          *)
(*                                                                         *)
(* The environment completes the operation and fires timers from other     *)
(* threads, polls when it has been woken or without a reason, moves the    *)
(* future to another task, and drops it.                                   *)
(***************************************************************************)
EXTENDS Step

CONSTANTS
  Tasks,   \* the tasks that may own the future, each with its waker
  Clocks   \* the kinds of AsyncClock: "timer" waits, "virtual" jumps when polled

ASSUME TasksAssumption == None \notin Tasks
ASSUME ClocksAssumption == Clocks \subseteq {"timer", "virtual"}

VARIABLES
  clock,       \* the kind of clock of this execution
  polling,     \* a call of poll is on the stack
  owner,       \* the task that owns the future
  scheduled,   \* the owner is to be polled again
  registered,  \* the waker the current inner future was last polled with
  ready,       \* the current inner future has completed
  due,         \* when the current sleep future completes
  repolled     \* polled after completion (the poll panicked)

taskVars == <<clock, owner, scheduled, repolled>>
innerVars == <<registered, ready, due>>
vars == <<stepVars, polling, taskVars, innerVars>>

Locations == {"idle", "before", "op", "after", "decide", "sleep", "exit",
              "done", "panicked", "dropped"}

\* Where a poll can leave the future without having ended it.
Suspended == {"idle", "op", "sleep"}

Init ==
  /\ StepInit
  /\ clock \in Clocks
  /\ polling = FALSE
  /\ owner \in Tasks
  /\ scheduled = TRUE
  /\ registered = None
  /\ ready = FALSE
  /\ due = 0
  /\ repolled = FALSE

-----------------------------------------------------------------------------
(* poll. *)

FreshFuture == registered' = None /\ ready' = FALSE

\* Mutant: the inner future is not given the waker of this poll.
ReturnPendingUnregistered == registered' = registered /\ polling' = FALSE

ReturnPending == registered' = owner /\ polling' = FALSE

\* Mutant: every poll captures the baseline again.
CaptureOriginAgain == origin' = now

\* The baseline is captured by the first poll and kept.
CaptureOrigin == origin' = IF origin = None THEN now ELSE origin

(* Entering poll.  The first one builds the first before_state. *)
EnterPoll ==
  /\ ~polling
  /\ pc \in Suspended
  /\ polling' = TRUE
  /\ scheduled' = FALSE
  /\ CaptureOrigin
  /\ IF pc = "idle" THEN pc' = "before" /\ FirstReading
                    ELSE UNCHANGED <<pc, now, lag, start_elapsed>>
  /\ UNCHANGED <<policy, attempt, previous_delay, total_wait, post_elapsed, delay,
                 reason, result, ops, exits, slept, clock, owner, repolled, innerVars>>

ScheduledPoll == scheduled /\ EnterPoll
SpuriousPoll == ~scheduled /\ EnterPoll

(* before_attempt fires and the operation's future is made. *)
StartOp ==
  /\ BeforeAttempt
  /\ FreshFuture
  /\ UNCHANGED <<polling, taskVars, due>>

(* The operation's future is polled: ready, and elapsed is read again ... *)
OpReady ==
  /\ polling /\ ready
  /\ Goto("op", "after")
  /\ post_elapsed' = ElapsedAt(now)
  /\ lag' = 0
  /\ UNCHANGED <<policy, now, origin, attempt, previous_delay, total_wait, start_elapsed,
                 delay, reason, result, ops, exits, slept, polling, taskVars, innerVars>>

(* ... or pending. *)
OpPending ==
  /\ polling /\ ~ready
  /\ pc = "op"
  /\ ReturnPending
  /\ UNCHANGED <<stepVars, taskVars, ready, due>>

Observe == AfterAttempt /\ UNCHANGED <<polling, taskVars, innerVars>>
Stop == (Conclude \/ Exhaust) /\ UNCHANGED <<polling, taskVars, innerVars>>

(* Step::Continue: the cursor takes the delay at once.  A zero delay goes  *)
(* straight to the next attempt, any other to a new sleep future.          *)
RetryNow ==
  /\ Continue
  /\ delay' = 0
  /\ pc' = "before"
  /\ total_wait' = RunningWait(delay')
  /\ previous_delay' = delay'
  /\ attempt' = NextAttempt(attempt)
  /\ start_elapsed' = ElapsedAt(now')
  /\ UNCHANGED <<slept, polling, taskVars, innerVars>>

\* Mutant: poll returns without polling the sleep future it has just made.
RetryLaterUnpolled ==
  /\ Continue
  /\ delay' # 0
  /\ pc' = "sleep"
  /\ total_wait' = RunningWait(delay')
  /\ previous_delay' = delay'
  /\ FreshFuture
  /\ due' = SatAdd(now', delay')
  /\ slept' = SatAdd(slept, delay')
  /\ polling' = FALSE
  /\ UNCHANGED <<attempt, start_elapsed, taskVars>>

RetryLater ==
  /\ Continue
  /\ delay' # 0
  /\ pc' = "sleep"
  /\ total_wait' = RunningWait(delay')
  /\ previous_delay' = delay'
  /\ FreshFuture
  /\ due' = SatAdd(now', delay')
  /\ slept' = SatAdd(slept, delay')
  /\ UNCHANGED <<attempt, start_elapsed, polling, taskVars>>

\* Mutant: any poll of a sleeping execution ends the wait.
SleepReadyAtOnce ==
  /\ polling
  /\ Goto("sleep", "before")
  /\ \/ clock = "timer" /\ UNCHANGED now
     \/ clock = "virtual" /\ Spend(delay)
  /\ attempt' = NextAttempt(attempt)
  /\ start_elapsed' = ElapsedAt(now')
  /\ UNCHANGED <<policy, origin, previous_delay, total_wait, post_elapsed, delay, reason,
                 result, ops, exits, slept, lag, polling, taskVars, innerVars>>

(* The sleep future is polled: ready, and the next before_state is built.  *)
(* A virtual clock's wait moves the clock itself, on its first poll.       *)
SleepReady ==
  /\ polling
  /\ Goto("sleep", "before")
  /\ \/ clock = "timer" /\ ready /\ UNCHANGED now
     \/ clock = "virtual" /\ Spend(delay)
  /\ attempt' = NextAttempt(attempt)
  /\ start_elapsed' = ElapsedAt(now')
  /\ UNCHANGED <<policy, origin, previous_delay, total_wait, post_elapsed, delay, reason,
                 result, ops, exits, slept, lag, polling, taskVars, innerVars>>

SleepPending ==
  /\ polling /\ ~ready
  /\ clock = "timer"
  /\ pc = "sleep"
  /\ ReturnPending
  /\ UNCHANGED <<stepVars, taskVars, ready, due>>

(* on_exit fires, and poll returns Ready. *)
Finish ==
  /\ OnExit
  /\ polling' = FALSE
  /\ UNCHANGED <<taskVars, innerVars>>

Unwind ==
  /\ polling
  /\ Panic
  /\ polling' = FALSE
  /\ UNCHANGED <<taskVars, innerVars>>

(* "async retry future polled after completion" *)
PollAfterCompletion ==
  /\ pc = "done" /\ ~repolled
  /\ repolled' = TRUE
  /\ UNCHANGED <<stepVars, polling, clock, owner, scheduled, innerVars>>

Poll == \/ StartOp \/ OpReady \/ OpPending \/ Observe \/ Stop
        \/ RetryNow \/ RetryLater \/ SleepReady \/ SleepPending \/ Finish

-----------------------------------------------------------------------------
(* The environment. *)

\* A completing future wakes the waker it holds; only the owner's counts.
Wake == scheduled' = (scheduled \/ registered = owner)

OpCompletes ==
  /\ pc = "op" /\ ~ready
  /\ ready' = TRUE
  /\ Wake
  /\ UNCHANGED <<stepVars, polling, clock, owner, repolled, registered, due>>

TimerFires ==
  /\ pc = "sleep" /\ ~ready
  /\ clock = "timer" /\ now >= due
  /\ ready' = TRUE
  /\ Wake
  /\ UNCHANGED <<stepVars, polling, clock, owner, repolled, registered, due>>

(* Time passes outside the callbacks.  What passes after a timer is due,   *)
(* no wait asked for.                                                      *)
Tick ==
  /\ pc \in Suspended /\ now < DurMax
  /\ pc = "sleep" => clock = "timer"
  /\ now' = now + 1
  /\ lag' = IF pc = "sleep" /\ now >= due THEN lag + 1 ELSE lag
  /\ UNCHANGED <<policy, pc, origin, attempt, previous_delay, total_wait, start_elapsed,
                 post_elapsed, delay, reason, result, ops, exits, slept,
                 polling, taskVars, innerVars>>

(* The future is moved to another task, which polls it. *)
Migrate ==
  /\ ~polling /\ pc \in Suspended
  /\ owner' \in Tasks \ {owner}
  /\ scheduled' = TRUE
  /\ UNCHANGED <<stepVars, polling, clock, repolled, innerVars>>

(* The future is dropped between two polls; its inner future goes with it. *)
Drop ==
  /\ ~polling /\ pc \in Suspended
  /\ pc' = "dropped"
  /\ UNCHANGED <<policy, now, origin, attempt, previous_delay, total_wait, start_elapsed,
                 post_elapsed, delay, reason, result, ops, exits, slept, lag,
                 polling, taskVars, innerVars>>

Next == \/ ScheduledPoll \/ SpuriousPoll \/ Poll \/ Unwind \/ PollAfterCompletion
        \/ OpCompletes \/ TimerFires \/ Tick \/ Migrate \/ Drop

Spec == Init /\ [][Next]_vars

(* Callbacks return, a woken task is polled, operations complete, time     *)
(* passes and due timers fire.  Nothing obliges the executor to poll       *)
(* without a wake, to migrate or to drop.                                  *)
FairSpec ==
  /\ Spec
  /\ WF_vars(Poll)
  /\ WF_vars(ScheduledPoll)
  /\ WF_vars(OpCompletes)
  /\ WF_vars(TimerFires)
  /\ WF_vars(pc = "sleep" /\ Tick)
-----------------------------------------------------------------------------
(* Properties. *)

TypeOK ==
  /\ StepTypeOK
  /\ pc \in Locations
  /\ clock \in Clocks
  /\ polling \in BOOLEAN
  /\ owner \in Tasks
  /\ scheduled \in BOOLEAN
  /\ registered \in Tasks \cup {None}
  /\ ready \in BOOLEAN
  /\ due \in Duration
  /\ repolled \in BOOLEAN

\* Whenever poll has returned Pending and the owner has not been woken since, the
\* inner future is still incomplete and holds the waker of the task that owns the
\* execution now: no wake-up is lost, whatever was polled, woken or moved before.
NoLostWakeup ==
  pc \in {"op", "sleep"} /\ ~polling /\ ~scheduled => ~ready /\ registered = owner

\* A wait that was asked for is in total_wait already.  The clock is ahead of the
\* completed attempt by no more than the delay and the time no wait asked for, and a
\* ready timer has let the delay pass.
WaitBegun ==
  pc = "sleep" =>
    /\ previous_delay = delay
    /\ now <= origin + post_elapsed + delay + lag
    /\ now < DurMax => total_wait <= post_elapsed + delay
    /\ clock = "virtual" => polling /\ now <= origin + post_elapsed + lag
    /\ clock = "timer" => /\ due <= origin + post_elapsed + delay + lag
                          /\ due < DurMax => origin + post_elapsed + delay <= due
                          /\ ready => due <= now

\* The inductive invariant behind the theorems; callbacks run inside a poll.
IInv == /\ TypeOK /\ StepInv /\ WaitBegun /\ NoLostWakeup
        /\ pc \in {"before"} \cup Observed => polling

\* An execution bounded by count, or by a deadline with non-zero waits, ends, if
\* it is polled only when woken.
Termination ==
  policy \in Bounded /\ []ClockLasts => <>(pc \in {"done", "panicked", "dropped"})

\* The refinement mapping.  The cursor takes the delay before the wait and the
\* attempt number after it, so only the latter is ahead in the contract.
ContractPhase ==
  CASE pc \in {"idle", "before", "sleep"} -> "ready"
    [] pc = "op" -> "attempting"
    [] pc \in {"after", "decide"} -> "deciding"
    [] pc = "exit" -> "exiting"
    [] OTHER -> pc

ContractCursor ==
  IF pc \in {"panicked", "dropped"} THEN None
  ELSE [attempt |-> IF pc = "sleep" THEN NextAttempt(attempt) ELSE attempt,
        previous_delay |-> previous_delay,
        total_wait |-> total_wait,
        elapsed |-> IF pc \in {"idle", "before", "op"}
                      THEN start_elapsed ELSE post_elapsed]

Contract == INSTANCE RetryContract
              WITH phase <- ContractPhase, cursor <- ContractCursor

\* The poll-driven engine implements the same contract as the blocking one, under
\* spurious polls, migration and cancellation: dropping it reports no exit.
ImplementsContract == Contract!Spec
=============================================================================
