---------------------------- MODULE VirtualClock ----------------------------
(***************************************************************************)
(* The deterministic test clock (VirtualClock and VirtualWait of           *)
(* clock.rs), shared by reference between executions of one thread: it is  *)
(* not Sync.  A blocking wait advances the time at once; a wait future     *)
(* advances it at its first poll and never again.                          *)
(*                                                                         *)
(* `polls`, `at`, `done`, `spent`, `served` and `requested` are history.   *)
(***************************************************************************)
EXTENDS Durations, Sequences

CONSTANTS
  Waiters,               \* wait futures alive at once
  Durs,                  \* durations callers ask for
  MaxRequests, MaxPolls, \* bounds: waits requested, polls of a future,
  MaxSpent               \* time asked for when advance is called

ASSUME DursAssumption == Durs \subseteq Duration

VARIABLES
  now,        \* Cell<Duration>
  waits,      \* RefCell<Vec<Duration>>
  fut,        \* the VirtualWait futures alive
  done,       \* the wait that completed last
  spent,      \* time asked for by advance and by waits that took effect
  served,     \* waits that took effect
  requested   \* waits requested

vars == <<now, waits, fut, done, spent, served, requested>>

Futures == [dur : Duration, advanced : BOOLEAN, polls : 0..MaxPolls, at : Duration]

ASSUME BoundsAssumption == {MaxRequests, MaxPolls, MaxSpent} \subseteq Nat
ASSUME NoFutureAssumption ==
  None \notin Futures /\ None \notin [at : Duration, dur : Duration]

Init ==
  /\ now = 0
  /\ waits = <<>>
  /\ fut = [w \in Waiters |-> None]
  /\ done = None
  /\ spent = 0
  /\ served = 0
  /\ requested = 0

\* Mutant: the sum is not saturated.
AdvanceOverflows(dur) == now' = now + dur
AdvanceTo(dur) == now' = SatAdd(now, dur)

\* Mutant: the wait is recorded but the time is not advanced.
RecordWaitOnly(dur) == now' = now /\ waits' = Append(waits, dur)
RecordWait(dur) ==
  /\ AdvanceTo(dur)
  /\ waits' = Append(waits, dur)

\* The user calls advance, inside an operation or between executions.
Advance(dur) ==
  /\ spent < MaxSpent
  /\ AdvanceTo(dur)
  /\ spent' = spent + dur
  /\ UNCHANGED <<waits, fut, done, served, requested>>

\* SyncClock::wait.
Wait(dur) ==
  /\ requested < MaxRequests
  /\ RecordWait(dur)
  /\ done' = [at |-> now, dur |-> dur, now |-> now']
  /\ spent' = spent + dur
  /\ served' = served + 1
  /\ requested' = requested + 1
  /\ UNCHANGED fut

\* AsyncClock::wait_async builds the future and does nothing else.
WaitAsync(w, dur) ==
  /\ fut[w] = None
  /\ requested < MaxRequests
  /\ fut' = [fut EXCEPT ![w] =
       [dur |-> dur, advanced |-> FALSE, polls |-> 0, at |-> now]]
  /\ requested' = requested + 1
  /\ UNCHANGED <<now, waits, done, spent, served>>

\* Mutant: advanced is not set, so that every poll waits again.
PollForgets(w) ==
  /\ fut[w] # None /\ fut[w].polls < MaxPolls
  /\ fut' = [fut EXCEPT ![w].polls = @ + 1]
  /\ RecordWait(fut[w].dur)
  /\ done' = [at |-> fut[w].at, dur |-> fut[w].dur, now |-> now']
  /\ spent' = spent + (IF fut[w].polls = 0 THEN fut[w].dur ELSE 0)
  /\ served' = served + (IF fut[w].polls = 0 THEN 1 ELSE 0)
  /\ UNCHANGED requested

\* VirtualWait::poll: the first poll advances; each poll is ready.
Poll(w) ==
  /\ fut[w] # None /\ fut[w].polls < MaxPolls
  /\ fut' = [fut EXCEPT ![w].polls = @ + 1, ![w].advanced = TRUE]
  /\ IF fut[w].advanced
       THEN UNCHANGED <<now, waits, done>>
       ELSE /\ RecordWait(fut[w].dur)
            /\ done' = [at |-> fut[w].at, dur |-> fut[w].dur, now |-> now']
  /\ spent' = spent + (IF fut[w].polls = 0 THEN fut[w].dur ELSE 0)
  /\ served' = served + (IF fut[w].polls = 0 THEN 1 ELSE 0)
  /\ UNCHANGED requested

\* The engine drops the future: after it was ready, or when it is cancelled.
DropWait(w) ==
  /\ fut[w] # None
  /\ fut' = [fut EXCEPT ![w] = None]
  /\ UNCHANGED <<now, waits, done, spent, served, requested>>

Next ==
  \/ \E dur \in Durs : \/ Advance(dur) \/ Wait(dur)
                       \/ \E w \in Waiters : WaitAsync(w, dur)
  \/ \E w \in Waiters : Poll(w) \/ DropWait(w)

Spec == Init /\ [][Next]_vars

-----------------------------------------------------------------------------
TypeOK ==
  /\ now \in Duration
  /\ waits \in Seq(Duration)
  /\ fut \in [Waiters -> Futures \cup {None}]
  /\ done \in {None} \cup [at : Duration, dur : Duration, now : Duration]
  /\ spent \in Nat /\ served \in Nat /\ requested \in 0..MaxRequests

\* Each wait that takes effect moves the time and is recorded exactly once, however
\* often its future is polled, and one that is never polled not at all: now() is
\* the time asked for, saturated (record_wait, VirtualWait::poll).
ExactlyOnce ==
  /\ now = Least(DurMax, spent)
  /\ Len(waits) = served

-----------------------------------------------------------------------------
(* The virtual clock keeps the contract of clocks. *)

\* The waits outstanding: made, and not polled yet.
Pending ==
  [w \in Waiters |-> IF fut[w] = None THEN None
                    ELSE IF fut[w].advanced THEN None
                    ELSE [at |-> fut[w].at, dur |-> fut[w].dur]]

Contract == INSTANCE ClockContract WITH pend <- Pending, unit <- 1, longest <- DurMax

\* Every step of the virtual clock is a step the clock traits allow: its readings
\* never decrease, a completed wait shows in them in full, and an unpolled wait
\* leaves no trace (SyncClock::wait, VirtualWait::poll).
ClockContractHolds == Contract!Spec
=============================================================================
