--------------------------- MODULE ClockAdapters ---------------------------
(***************************************************************************)
(* The clocks on real time (SystemClock, TokioClock, EmbassyClock,         *)
(* FuturesTimerClock and GlooClock of clock.rs).  `time` is the time that  *)
(* really passes, in nanoseconds; each clock reads it through a source of  *)
(* its own and waits through a timer of its own, and the two need not have *)
(* the same resolution.  Tasks (threads, for SystemClock) share the clock. *)
(*                                                                         *)
(* What the runtimes' timers do is external: a timer fires no earlier than *)
(* the duration it was given after it was built, in the timer's units.     *)
(***************************************************************************)
EXTENDS Durations

CONSTANTS
  Adapters,       \* the clocks the run looks at
  Tasks,
  Durs,           \* durations the engines ask for
  TimeMax,        \* bound: the last moment of the run
  MaxCalls,       \* bound: readings and waits begun
  MicroNanos, MilliNanos,    \* nanoseconds per microsecond, per millisecond
  TickNanos, TicksMax,       \* Embassy: nanoseconds per tick, u64::MAX
  TimeoutMax      \* Gloo: i32::MAX milliseconds

ASSUME AdaptersAssumption ==
  Adapters \subseteq {"System", "Tokio", "Embassy", "FuturesTimer", "Gloo"}
ASSUME BoundsAssumption ==
  /\ TimeMax \in Nat /\ TimeMax <= DurMax
  /\ Durs \subseteq Duration /\ MaxCalls \in Nat
ASSUME UnitsAssumption ==
  /\ MicroNanos \in Nat \ {0} /\ MilliNanos \in Nat \ {0} /\ TickNanos \in Nat \ {0}
  /\ TicksMax \in Nat /\ TimeoutMax \in Nat
\* A unit, and the longest wait of a timer, fit a Duration: u64::MAX ticks of up to a
\* second, i32::MAX milliseconds.
ASSUME RangesAssumption ==
  /\ {MicroNanos, MilliNanos, TickNanos} \subseteq Duration
  /\ {TicksMax * TickNanos, TimeoutMax * MilliNanos} \subseteq Duration

Timers == [ready : Nat, at : Duration, dur : Duration]
ASSUME NoTimerAssumption ==
  None \notin Timers /\ None \notin [at : Duration, dur : Duration]

VARIABLES
  adapter,   \* the clock in use
  time,      \* the time that has passed
  origin,    \* where readings count from: ANCHOR, or the clock's own field
  pc,        \* where each task is in now(), and the anchor it is to publish
  timer,     \* the timer of each waiting task
  calls,     \* history: readings and waits begun
  done       \* history: the wait that completed last

vars == <<adapter, time, origin, pc, timer, calls, done>>

CeilDiv(a, b) == (a + b - 1) \div b

-----------------------------------------------------------------------------
(* The two seams of each clock: what now() reads, and when a timer fires. *)

EmbassyTicks(t) == t \div TickNanos

\* Mutant: the microseconds are taken for milliseconds.
EmbassyElapsedMillis ==
  (((EmbassyTicks(time) - EmbassyTicks(origin)) * TickNanos) \div MicroNanos) * MilliNanos

\* EmbassyClock::now: the ticks that elapsed, in whole microseconds.
EmbassyElapsed ==
  (((EmbassyTicks(time) - EmbassyTicks(origin)) * TickNanos) \div MicroNanos) * MicroNanos

\* The other clocks read nanoseconds: Instant::elapsed, or what the caller supplies.
InstantElapsed == time - origin

Reading ==
  IF origin = None THEN 0
  ELSE IF adapter = "Embassy" THEN EmbassyElapsed ELSE InstantElapsed

\* to_embassy_duration: whole microseconds, rounded up to ticks, saturated.
ToEmbassyDuration(dur) ==
  Least(CeilDiv((dur \div MicroNanos) * MicroNanos, TickNanos), TicksMax)

\* GlooClock::wait_async: whole milliseconds, clamped to what setTimeout takes.
GlooMillis(dur) == Least(dur \div MilliNanos, TimeoutMax)

EmbassyDeadline(dur) == (EmbassyTicks(time) + ToEmbassyDuration(dur)) * TickNanos
GlooDeadline(dur) == time + GlooMillis(dur) * MilliNanos

\* thread::sleep, tokio::time::sleep and futures_timer::Delay take any duration.
DelayDeadline(dur) == time + dur

\* The moment from which a timer built now for dur is ready.
Deadline(dur) ==
  CASE adapter = "Embassy" -> EmbassyDeadline(dur)
    [] adapter = "Gloo"    -> GlooDeadline(dur)
    [] OTHER               -> DelayDeadline(dur)

-----------------------------------------------------------------------------
At(place) == [at |-> place, anchor |-> None]

\* SystemClock takes its origin from the first reading; the other clocks record
\* it when they are built, Gloo in the source its caller supplies.
Init ==
  /\ adapter \in Adapters
  /\ time \in 0..(TickNanos - 1)
  /\ origin = IF adapter = "System" THEN None ELSE time
  /\ pc = [k \in Tasks |-> At("idle")]
  /\ timer = [k \in Tasks |-> None]
  /\ calls = 0
  /\ done = None

Idle(k) == pc[k].at = "idle" /\ timer[k] = None

TimePasses ==
  /\ time' \in (time + 1)..TimeMax
  /\ UNCHANGED <<adapter, origin, pc, timer, calls, done>>

\* Mutant: no task waits for the one that initialises the anchor.
NowRacy(k) ==
  /\ Idle(k) /\ calls < MaxCalls
  /\ pc' = [pc EXCEPT ![k] = At(IF origin = None THEN "init" ELSE "read")]
  /\ calls' = calls + 1
  /\ UNCHANGED <<adapter, time, origin, timer, done>>

\* now() begins.  ANCHOR.get_or_init: the first task in initialises the anchor, and
\* every other waits for it; the other clocks have their origin.
Now(k) ==
  /\ Idle(k) /\ calls < MaxCalls
  /\ origin = None => \A other \in Tasks : pc[other].at \notin {"init", "publish"}
  /\ pc' = [pc EXCEPT ![k] = At(IF origin = None THEN "init" ELSE "read")]
  /\ calls' = calls + 1
  /\ UNCHANGED <<adapter, time, origin, timer, done>>

\* The initialiser reads Instant::now, and get_or_init publishes what it read.
InitAnchor(k) ==
  /\ pc[k].at = "init"
  /\ pc' = [pc EXCEPT ![k] = [at |-> "publish", anchor |-> time]]
  /\ UNCHANGED <<adapter, time, origin, timer, calls, done>>

PublishAnchor(k) ==
  /\ pc[k].at = "publish"
  /\ origin' = pc[k].anchor
  /\ pc' = [pc EXCEPT ![k] = At("read")]
  /\ UNCHANGED <<adapter, time, timer, calls, done>>

\* elapsed() on the origin: now() returns.
Elapsed(k) ==
  /\ pc[k].at = "read"
  /\ pc' = [pc EXCEPT ![k] = At("idle")]
  /\ UNCHANGED <<adapter, time, origin, timer, calls, done>>

\* SyncClock::wait, AsyncClock::wait_async: a timer is built.  The engines read a
\* baseline before they wait, so there is an origin.
BeginWait(k, dur) ==
  /\ Idle(k) /\ origin # None /\ calls < MaxCalls
  /\ timer' = [timer EXCEPT ![k] = [ready |-> Deadline(dur), at |-> Reading, dur |-> dur]]
  /\ calls' = calls + 1
  /\ UNCHANGED <<adapter, time, origin, pc, done>>

\* The sleep returns, or the engine polls the timer when it is ready.
EndWait(k) ==
  /\ timer[k] # None /\ time >= timer[k].ready
  /\ done' = [at |-> timer[k].at, dur |-> timer[k].dur, now |-> Reading]
  /\ timer' = [timer EXCEPT ![k] = None]
  /\ UNCHANGED <<adapter, time, origin, pc, calls>>

\* The engine drops a timer future, polled or not; a sleeping thread cannot be.
DropTimer(k) ==
  /\ adapter # "System"
  /\ timer[k] # None
  /\ timer' = [timer EXCEPT ![k] = None]
  /\ UNCHANGED <<adapter, time, origin, pc, calls, done>>

Next ==
  \/ TimePasses
  \/ \E k \in Tasks :
       \/ Now(k) \/ InitAnchor(k) \/ PublishAnchor(k) \/ Elapsed(k)
       \/ EndWait(k) \/ DropTimer(k)
       \/ \E dur \in Durs : BeginWait(k, dur)

Spec == Init /\ [][Next]_vars

-----------------------------------------------------------------------------
TypeOK ==
  /\ adapter \in Adapters
  /\ time \in Nat /\ origin \in Nat \cup {None}
  /\ pc \in [Tasks -> [at : {"idle", "init", "publish", "read"}, anchor : Nat \cup {None}]]
  /\ timer \in [Tasks -> {None} \cup Timers]
  /\ calls \in 0..MaxCalls
  /\ done \in {None} \cup [at : Duration, dur : Duration, now : Duration]

\* The unit a clock's conversions keep, and the longest wait its timer performs.
Resolution ==
  CASE adapter = "Embassy" -> MicroNanos
    [] adapter = "Gloo"    -> MilliNanos
    [] OTHER               -> 1
Longest ==
  CASE adapter = "Embassy" -> TicksMax * TickNanos
    [] adapter = "Gloo"    -> TimeoutMax * MilliNanos
    [] OTHER               -> DurMax

-----------------------------------------------------------------------------
(* The clocks and the contract of the clock traits. *)

\* The waits outstanding: when each began, and for how long.
Pending ==
  [k \in Tasks |-> IF timer[k] = None THEN None
                   ELSE [at |-> timer[k].at, dur |-> timer[k].dur]]

Contract == INSTANCE ClockContract WITH
  Waiters <- Tasks, now <- Reading, pend <- Pending,
  unit <- Resolution, longest <- Longest

\* Every step of the five clocks is one the clock traits allow, to within the unit
\* and the longest wait of the clock: readings never decrease, whichever task sets
\* the anchor; whatever the conversions round and clamp, a completed wait shows to
\* within one unit; and a dropped wait leaves no trace (SystemClock::now,
\* to_embassy_duration, GlooClock::wait_async).
ClockContractHolds == Contract!Spec

\* "must advance now() by (at least) the waited duration once the wait completes".
Coherent == Contract!Coherent
=============================================================================
