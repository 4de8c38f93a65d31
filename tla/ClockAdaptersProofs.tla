------------------------ MODULE ClockAdaptersProofs ------------------------
(***************************************************************************)
(* Theorems about the clocks on real time, for any number of tasks, any    *)
(* tick, microsecond and millisecond and any durations: the readings and   *)
(* the timers of each clock, rounded and clamped each in its own unit,     *)
(* keep the contract of the clock traits to within one unit.               *)
(***************************************************************************)
EXTENDS ClockAdapters, TLAPS

-----------------------------------------------------------------------------
(* Rounding: whole units of a quantity. *)

\* What an integer division by a positive unit leaves out is less than the unit.
LEMMA WholeUnits ==
  ASSUME NEW a \in Nat, NEW k \in Nat \ {0}
  PROVE  /\ a \div k \in Nat
         /\ (a \div k) * k <= a
         /\ a < (a \div k) * k + k
OBVIOUS

\* Multiplying by a unit keeps the order.
LEMMA UnitsOrdered ==
  ASSUME NEW a \in Int, NEW b \in Int, NEW k \in Nat, a <= b
  PROVE  a * k <= b * k
OBVIOUS

\* So does counting whole units.
LEMMA WholeUnitsOrdered ==
  ASSUME NEW a \in Nat, NEW b \in Nat, NEW k \in Nat \ {0}, a <= b
  PROVE  a \div k <= b \div k
<1> DEFINE q == a \div k
           r == b \div k
<1>1. q \in Nat /\ r \in Nat /\ q * k <= a /\ b < r * k + k
  BY WholeUnits
<1> HIDE DEF q, r
<1>2. ASSUME r + 1 <= q PROVE FALSE
  <2>1. (r + 1) * k <= q * k /\ (r + 1) * k = r * k + k
    BY <1>1, <1>2, UnitsOrdered
  <2> QED BY <1>1, <2>1
<1>3. q <= r
  BY <1>1, <1>2
<1> QED BY <1>3 DEF q, r

\* Whole units added to a quantity are added to its whole units.
LEMMA WholeUnitsAdded ==
  ASSUME NEW a \in Nat, NEW n \in Nat, NEW k \in Nat \ {0}
  PROVE  (a + n * k) \div k = (a \div k) + n
<1> DEFINE q == a \div k
           b == a + n * k
           r == b \div k
<1>1. q \in Nat /\ q * k <= a /\ a < q * k + k
  BY WholeUnits
<1>2. n * k \in Nat /\ b \in Nat
  OBVIOUS
<1>3. r \in Nat /\ r * k <= b /\ b < r * k + k
  BY <1>2, WholeUnits
<1>4. b = a + n * k
  OBVIOUS
<1> HIDE DEF q, b, r
<1>5. (q + n) * k = q * k + n * k /\ q * k \in Nat /\ r * k \in Nat
  BY <1>1, <1>3
<1>6. ASSUME r + 1 <= q + n PROVE FALSE
  <2>1. (r + 1) * k <= (q + n) * k /\ (r + 1) * k = r * k + k
    BY <1>1, <1>3, <1>6, UnitsOrdered
  <2> QED BY <1>1, <1>2, <1>3, <1>4, <1>5, <2>1
<1>7. ASSUME q + n + 1 <= r PROVE FALSE
  <2>1. (q + n + 1) * k <= r * k /\ (q + n + 1) * k = (q + n) * k + k
    BY <1>1, <1>3, <1>7, UnitsOrdered
  <2> QED BY <1>1, <1>2, <1>3, <1>4, <1>5, <2>1
<1>8. r = q + n
  BY <1>1, <1>3, <1>6, <1>7
<1> QED BY <1>8 DEF q, b, r

\* Rounded up to whole units, a quantity is covered.
LEMMA UnitsUp ==
  ASSUME NEW a \in Nat, NEW k \in Nat \ {0}
  PROVE  CeilDiv(a, k) \in Nat /\ a <= CeilDiv(a, k) * k
<1> DEFINE b == a + k - 1
           q == b \div k
<1>1. b \in Nat /\ b = a + k - 1
  OBVIOUS
<1>2. q \in Nat /\ b < q * k + k
  BY <1>1, WholeUnits
<1>3. CeilDiv(a, k) = q
  BY DEF CeilDiv
<1> HIDE DEF b, q
<1>4. q * k \in Nat
  BY <1>2
<1> QED BY <1>1, <1>2, <1>3, <1>4

-----------------------------------------------------------------------------
(* What a clock reads at a moment t, and the inductive invariant. *)

\* Ticks, in whole microseconds.
Micros(ticks) == ((ticks * TickNanos) \div MicroNanos) * MicroNanos

ReadingAt(t) ==
  IF adapter = "Embassy" THEN Micros(EmbassyTicks(t) - EmbassyTicks(origin)) ELSE t - origin

\* The moment t is not before the origin, as the clock can tell.
Started(t) ==
  IF adapter = "Embassy" THEN EmbassyTicks(origin) <= EmbassyTicks(t) ELSE origin <= t

Initialising(k) == pc[k].at \in {"init", "publish"}

\* One task at most initialises the anchor, and only while there is none; the origin,
\* and the anchor that is to become it, lie in the past.
AnchorOnce ==
  /\ time <= DurMax
  /\ origin # None => origin <= time
  /\ \A k \in Tasks : Initialising(k) => origin = None
  /\ \A j, k \in Tasks : Initialising(j) /\ Initialising(k) => j = k
  /\ \A k \in Tasks : pc[k].at = "publish" => pc[k].anchor \in Nat /\ pc[k].anchor <= time

\* From the moment a timer is ready, the clock shows the wait it was built for.
TimersCover ==
  \A k \in Tasks : timer[k] # None =>
    /\ origin # None
    /\ Started(timer[k].ready)
    /\ Contract!Shows(ReadingAt(timer[k].ready), timer[k].at, timer[k].dur)

Inv == TypeOK /\ AnchorOnce /\ TimersCover

\* The contract's arithmetic, reached through the instance, is the clocks'.
LEMMA SameArithmetic ==
  /\ Contract!Duration = Duration
  /\ \A a, b : Contract!Least(a, b) = Least(a, b)
  /\ \A a, b : Contract!SatAdd(a, b) = SatAdd(a, b)
BY Zenon DEF Contract!Duration, Duration, Contract!Least, Least, Contract!SatAdd, SatAdd

\* Readings never decrease, and none exceeds the time that passed.
LEMMA ReadingsOrdered ==
  ASSUME origin \in Nat, NEW a \in Nat, NEW b \in Nat, a <= b, Started(a)
  PROVE  /\ Started(b)
         /\ ReadingAt(a) \in Nat /\ ReadingAt(b) \in Nat
         /\ ReadingAt(a) <= ReadingAt(b)
         /\ ReadingAt(b) <= b
<1>1. CASE adapter = "Embassy"
  <2> DEFINE o == EmbassyTicks(origin)
             p == EmbassyTicks(a)
             q == EmbassyTicks(b)
  <2>1. o \in Nat /\ p \in Nat /\ q \in Nat /\ q * TickNanos <= b
    BY UnitsAssumption, WholeUnits DEF EmbassyTicks
  <2>2. o <= p /\ p <= q
    BY <1>1, UnitsAssumption, WholeUnitsOrdered DEF EmbassyTicks, Started
  <2>3. /\ Started(b) <=> o <= q
        /\ ReadingAt(a) = (((p - o) * TickNanos) \div MicroNanos) * MicroNanos
        /\ ReadingAt(b) = (((q - o) * TickNanos) \div MicroNanos) * MicroNanos
    BY <1>1 DEF Started, ReadingAt, Micros
  <2> HIDE DEF o, p, q
  <2> DEFINE x == (p - o) * TickNanos
             y == (q - o) * TickNanos
  <2>4. p - o \in Nat /\ q - o \in Nat /\ p - o <= q - o /\ q - o <= q
    BY <2>1, <2>2
  <2>5. x <= y /\ y <= q * TickNanos
    BY <2>1, <2>4, UnitsAssumption, UnitsOrdered
  <2>6. x \in Nat /\ y \in Nat /\ q * TickNanos \in Nat
    BY <2>1, <2>4, UnitsAssumption
  <2> HIDE DEF x, y
  <2> DEFINE m == x \div MicroNanos
             n == y \div MicroNanos
  <2>7. m \in Nat /\ n \in Nat /\ n * MicroNanos <= y /\ m <= n
    BY <2>5, <2>6, UnitsAssumption, WholeUnits, WholeUnitsOrdered
  <2>8. ReadingAt(a) = m * MicroNanos /\ ReadingAt(b) = n * MicroNanos
    BY <2>3 DEF x, y
  <2> HIDE DEF m, n
  <2>9. m * MicroNanos <= n * MicroNanos
    BY <2>7, UnitsAssumption, UnitsOrdered
  <2>10. m * MicroNanos \in Nat /\ n * MicroNanos \in Nat
    BY <2>7, UnitsAssumption
  <2> QED BY <2>1, <2>2, <2>3, <2>5, <2>6, <2>7, <2>8, <2>9, <2>10
<1>2. CASE adapter # "Embassy"
  BY <1>2 DEF ReadingAt, Started
<1> QED BY <1>1, <1>2

\* now() is the reading at the present moment, a duration.
LEMMA ReadingNow ==
  ASSUME TypeOK, AnchorOnce
  PROVE  /\ Reading \in Duration
         /\ origin = None => Reading = 0
         /\ origin # None => origin \in Nat /\ Started(time) /\ Reading = ReadingAt(time)
<1>1. time \in Nat /\ time <= DurMax /\ (origin # None => origin \in Nat /\ origin <= time)
  BY DEF TypeOK, AnchorOnce
<1>2. CASE origin = None
  BY <1>2, DurMaxAssumption DEF Reading, Duration
<1>3. CASE origin # None
  <2>1. Started(time)
    BY <1>1, <1>3, UnitsAssumption, WholeUnitsOrdered DEF Started, EmbassyTicks
  <2>2. Reading = ReadingAt(time)
    BY <1>3 DEF Reading, ReadingAt, Micros, EmbassyElapsed, InstantElapsed
  <2>3. ReadingAt(time) \in Nat /\ ReadingAt(time) <= time
    BY <1>1, <1>3, <2>1, ReadingsOrdered
  <2> QED BY <1>1, <1>3, <2>1, <2>2, <2>3, DurMaxAssumption DEF Duration
<1> QED BY <1>2, <1>3

\* A wait shows in a reading that is within one unit of what the timer performs.
LEMMA ShowsWithinUnit ==
  ASSUME NEW at \in Nat, NEW dur \in Nat, NEW reading \in Nat,
         Resolution \in Nat, Longest \in Nat,
         reading + Resolution > at + Least(dur, Longest)
  PROVE  Contract!Shows(reading, at, dur)
<1>1. Least(dur, Longest) \in Nat
  BY DEF Least
<1>2. SatAdd(at, Least(dur, Longest)) <= at + Least(dur, Longest)
      /\ SatAdd(at, Least(dur, Longest)) \in Int
  BY <1>1, DurMaxAssumption DEF SatAdd
<1> QED BY <1>1, <1>2, SameArithmetic DEF Contract!Shows

\* Embassy: rounded down to microseconds, up to ticks and capped at the last tick, a
\* timer built in tick p of an origin in tick o covers its wait to a microsecond.
LEMMA EmbassyTimerCovers ==
  ASSUME NEW o \in Nat, NEW p \in Nat, o <= p, NEW dur \in Nat
  PROVE  LET n == ToEmbassyDuration(dur)
         IN  /\ n \in Nat /\ Micros(p - o) \in Nat /\ Micros((p + n) - o) \in Nat
             /\ Micros((p + n) - o) + MicroNanos
                  > Micros(p - o) + Least(dur, TicksMax * TickNanos)
<1> DEFINE n == ToEmbassyDuration(dur)
           d == dur \div MicroNanos
           c == CeilDiv(d * MicroNanos, TickNanos)
           x == (p - o) * TickNanos
           y == ((p + n) - o) * TickNanos
           f == x \div MicroNanos
           g == y \div MicroNanos
           longest == TicksMax * TickNanos
<1>1. d \in Nat /\ dur < d * MicroNanos + MicroNanos
  BY UnitsAssumption, WholeUnits
<1>2. d * MicroNanos \in Nat
  BY <1>1, UnitsAssumption
<1>3. c \in Nat /\ d * MicroNanos <= c * TickNanos
  BY <1>2, UnitsAssumption, UnitsUp
<1>4. n = Least(c, TicksMax)
  BY DEF ToEmbassyDuration
<1>5. n \in Nat /\ (n = c \/ n = TicksMax)
  BY <1>3, <1>4, UnitsAssumption DEF Least
<1> HIDE DEF n, c, d
<1>6. x \in Nat /\ n * TickNanos \in Nat /\ longest \in Nat /\ c * TickNanos \in Nat
  BY <1>3, <1>5, UnitsAssumption
<1>7. y = x + n * TickNanos
  BY <1>5, UnitsAssumption
<1>8. n * TickNanos = c * TickNanos \/ n * TickNanos = longest
  BY <1>5
<1>9. y \in Nat /\ x <= y
  BY <1>6, <1>7
<1> HIDE DEF x, y, longest
<1>10. f \in Nat /\ f * MicroNanos <= x
  BY <1>6, UnitsAssumption, WholeUnits
<1>11. g \in Nat /\ y < g * MicroNanos + MicroNanos
  BY <1>9, UnitsAssumption, WholeUnits
<1>12. f * MicroNanos \in Nat /\ g * MicroNanos \in Nat
  BY <1>10, <1>11, UnitsAssumption
<1>13. Least(dur, longest) \in Nat /\ Least(dur, longest) <= dur /\ Least(dur, longest) <= longest
  BY <1>6 DEF Least
<1>14. g * MicroNanos + MicroNanos > f * MicroNanos + Least(dur, longest)
  <2> HIDE DEF f, g
  <2>1. CASE n * TickNanos = longest
    BY <1>6, <1>7, <1>9, <1>10, <1>11, <1>12, <1>13, <2>1, UnitsAssumption
  <2>2. CASE n * TickNanos = c * TickNanos
    <3>1. x + d * MicroNanos <= y /\ x + d * MicroNanos \in Nat
      BY <1>2, <1>3, <1>6, <1>7, <1>9, <2>2
    <3>2. (x + d * MicroNanos) \div MicroNanos <= g
      BY <3>1, <1>9, UnitsAssumption, WholeUnitsOrdered DEF g
    <3>3. (x + d * MicroNanos) \div MicroNanos = f + d
      BY <1>1, <1>6, UnitsAssumption, WholeUnitsAdded DEF f
    <3>4. (f + d) * MicroNanos <= g * MicroNanos
      BY <3>2, <3>3, <1>1, <1>10, <1>11, UnitsAssumption, UnitsOrdered
    <3>5. (f + d) * MicroNanos = f * MicroNanos + d * MicroNanos
      BY <1>1, <1>10, UnitsAssumption
    <3> QED BY <3>4, <3>5, <1>1, <1>2, <1>12, <1>13, UnitsAssumption
  <2> QED BY <1>8, <2>1, <2>2
<1>15. f * MicroNanos = Micros(p - o) /\ g * MicroNanos = Micros((p + n) - o)
  BY DEF x, y, Micros
<1> HIDE DEF f, g
<1> QED BY <1>5, <1>12, <1>14, <1>15 DEF longest, n

\* Gloo: rounded down to milliseconds and clamped to the longest timeout, a timer
\* covers its wait to a millisecond.
LEMMA GlooTimerCovers ==
  ASSUME NEW dur \in Nat
  PROVE  /\ GlooMillis(dur) \in Nat /\ GlooMillis(dur) * MilliNanos \in Nat
         /\ GlooMillis(dur) * MilliNanos + MilliNanos > Least(dur, TimeoutMax * MilliNanos)
<1> DEFINE d == dur \div MilliNanos
           n == GlooMillis(dur)
<1>1. d \in Nat /\ dur < d * MilliNanos + MilliNanos
  BY UnitsAssumption, WholeUnits
<1>2. n = Least(d, TimeoutMax)
  BY DEF GlooMillis
<1> HIDE DEF d, n
<1>3. n \in Nat /\ (n = d \/ n = TimeoutMax)
  BY <1>1, <1>2, UnitsAssumption DEF Least
<1>4. n * MilliNanos = d * MilliNanos \/ n * MilliNanos = TimeoutMax * MilliNanos
  BY <1>3
<1>5. n * MilliNanos \in Nat /\ d * MilliNanos \in Nat /\ TimeoutMax * MilliNanos \in Nat
  BY <1>1, <1>3, UnitsAssumption
<1>6. n * MilliNanos + MilliNanos > Least(dur, TimeoutMax * MilliNanos)
  BY <1>1, <1>4, <1>5, UnitsAssumption DEF Least
<1> QED BY <1>3, <1>5, <1>6 DEF n

\* The unit and the longest wait of every clock are durations.
LEMMA SlackInRange ==
  /\ Resolution \in Duration \ {0} /\ Longest \in Duration
  /\ adapter = "Embassy" => Resolution = MicroNanos /\ Longest = TicksMax * TickNanos
  /\ adapter = "Gloo" => Resolution = MilliNanos /\ Longest = TimeoutMax * MilliNanos
  /\ adapter \notin {"Embassy", "Gloo"} => Resolution = 1 /\ Longest = DurMax
BY UnitsAssumption, RangesAssumption, DurMaxAssumption DEF Resolution, Longest, Duration

\* A timer built now covers the wait it is built for, on every clock.
LEMMA DeadlineCovers ==
  ASSUME TypeOK, AnchorOnce, origin # None, NEW dur \in Duration
  PROVE  /\ Deadline(dur) \in Nat
         /\ Started(Deadline(dur))
         /\ Contract!Shows(ReadingAt(Deadline(dur)), Reading, dur)
<1>1. time \in Nat /\ origin \in Nat /\ origin <= time /\ dur \in Nat /\ dur <= DurMax
  BY DurMaxAssumption DEF TypeOK, AnchorOnce, Duration
<1>2. Reading \in Nat /\ Reading = ReadingAt(time) /\ Started(time)
  BY ReadingNow, DurMaxAssumption DEF Duration
<1>3. Resolution \in Nat /\ Longest \in Nat
  BY SlackInRange, DurMaxAssumption DEF Duration
<1>4. CASE adapter = "Embassy"
  <2> DEFINE o == EmbassyTicks(origin)
             p == EmbassyTicks(time)
             n == ToEmbassyDuration(dur)
  <2>1. o \in Nat /\ p \in Nat /\ o <= p
    BY <1>1, <1>2, <1>4, UnitsAssumption, WholeUnits DEF EmbassyTicks, Started
  <2>2. Deadline(dur) = (p + n) * TickNanos
    BY <1>4 DEF Deadline, EmbassyDeadline
  <2>3. Reading = Micros(p - o)
    BY <1>2, <1>4 DEF ReadingAt
  <2>4. ReadingAt(Deadline(dur)) = Micros(EmbassyTicks(Deadline(dur)) - o)
    BY <1>4 DEF ReadingAt
  <2>5. Started(Deadline(dur)) <=> o <= EmbassyTicks(Deadline(dur))
    BY <1>4 DEF Started
  <2>6. /\ n \in Nat
        /\ Micros((p + n) - o) \in Nat
        /\ Micros((p + n) - o) + MicroNanos > Reading + Least(dur, TicksMax * TickNanos)
    BY <1>1, <2>1, <2>3, EmbassyTimerCovers
  <2> HIDE DEF o, p, n
  <2>7. p + n \in Nat /\ (p + n) * TickNanos \in Nat
    BY <2>1, <2>6, UnitsAssumption
  <2>8. EmbassyTicks((p + n) * TickNanos) = p + n
    <3>1. 0 \div TickNanos = 0
      BY UnitsAssumption
    <3>2. (0 + (p + n) * TickNanos) \div TickNanos = (0 \div TickNanos) + (p + n)
      BY <2>7, UnitsAssumption, WholeUnitsAdded
    <3> QED BY <2>7, <3>1, <3>2 DEF EmbassyTicks
  <2>9. ReadingAt(Deadline(dur)) + Resolution > Reading + Least(dur, Longest)
        /\ ReadingAt(Deadline(dur)) \in Nat
    <3>1. EmbassyTicks(Deadline(dur)) = p + n
      BY <2>2, <2>8
    <3>2. ReadingAt(Deadline(dur)) = Micros((p + n) - o)
      BY <2>4, <3>1
    <3>3. Resolution = MicroNanos /\ Longest = TicksMax * TickNanos
      BY <1>4, SlackInRange
    <3> QED BY <2>6, <3>2, <3>3
  <2>10. Contract!Shows(ReadingAt(Deadline(dur)), Reading, dur)
    BY <1>1, <1>2, <1>3, <2>9, ShowsWithinUnit
  <2>11. o <= p + n
    BY <2>1, <2>6
  <2> QED BY <2>2, <2>5, <2>7, <2>8, <2>10, <2>11
<1>5. CASE adapter # "Embassy"
  <2>1. PICK w \in Nat : /\ Deadline(dur) = time + w
                         /\ w + Resolution > Least(dur, Longest)
    <3>1. CASE adapter = "Gloo"
      BY <1>1, <3>1, GlooTimerCovers, SlackInRange DEF Deadline, GlooDeadline
    <3>2. CASE adapter # "Gloo"
      <4>1. Deadline(dur) = time + dur
        BY <1>5, <3>2 DEF Deadline, DelayDeadline
      <4>2. dur + Resolution > Least(dur, Longest)
        BY <1>1, <1>5, <3>2, SlackInRange DEF Least
      <4> QED BY <1>1, <4>1, <4>2
    <3> QED BY <3>1, <3>2
  <2>2. Least(dur, Longest) \in Nat
    BY <1>1, <1>3 DEF Least
  <2>3. Reading = time - origin /\ ReadingAt(Deadline(dur)) = (time - origin) + w
    BY <1>1, <1>2, <1>5, <2>1 DEF ReadingAt
  <2>4. ReadingAt(Deadline(dur)) \in Nat
        /\ ReadingAt(Deadline(dur)) + Resolution > Reading + Least(dur, Longest)
    BY <1>1, <1>3, <2>1, <2>2, <2>3
  <2>5. Contract!Shows(ReadingAt(Deadline(dur)), Reading, dur)
    BY <1>1, <1>2, <1>3, <2>4, ShowsWithinUnit
  <2> QED BY <1>1, <1>5, <2>1, <2>5 DEF Started
<1> QED BY <1>4, <1>5

-----------------------------------------------------------------------------
(* The invariant. *)

\* Every clock starts in it.
LEMMA InitInv == Init => Inv
<1> SUFFICES ASSUME Init PROVE Inv
  OBVIOUS
<1>1. /\ time \in Nat /\ time <= DurMax
      /\ origin = None \/ origin = time
      /\ \A k \in Tasks : pc[k] = At("idle") /\ timer[k] = None
  BY UnitsAssumption, RangesAssumption, DurMaxAssumption DEF Init, Duration
<1>2. TypeOK
  BY <1>1, BoundsAssumption DEF Init, TypeOK, At
<1>3. AnchorOnce
  BY <1>1, NoneAssumption DEF AnchorOnce, Initialising, At
<1>4. TimersCover
  BY <1>1 DEF TimersCover
<1> QED BY <1>2, <1>3, <1>4 DEF Inv

\* A step that keeps the origin and the clock, and builds no timer, keeps the timers
\* that are left covered.
LEMMA TimersLeft ==
  ASSUME TimersCover, UNCHANGED <<adapter, origin>>,
         \A k \in Tasks : timer'[k] = None \/ timer'[k] = timer[k]
  PROVE  TimersCover'
<1> SUFFICES ASSUME NEW k \in Tasks, timer'[k] # None
             PROVE  /\ origin' # None
                    /\ Started(timer[k].ready)'
                    /\ Contract!Shows(ReadingAt(timer[k].ready), timer[k].at, timer[k].dur)'
  BY DEF TimersCover
<1>1. timer'[k] = timer[k] /\ timer[k] # None
  OBVIOUS
<1>2. Started(timer[k].ready)' <=> Started(timer[k].ready)
  BY <1>1 DEF Started, EmbassyTicks
<1>3. ReadingAt(timer[k].ready)' = ReadingAt(timer[k].ready)
  BY <1>1 DEF ReadingAt, EmbassyTicks
<1>4. Resolution' = Resolution /\ Longest' = Longest
  BY DEF Resolution, Longest
<1>5. Contract!Shows(ReadingAt(timer[k].ready), timer[k].at, timer[k].dur)'
        <=> Contract!Shows(ReadingAt(timer[k].ready), timer[k].at, timer[k].dur)
  BY <1>1, <1>3, <1>4 DEF Contract!Shows
<1> QED BY <1>1, <1>2, <1>5 DEF TimersCover

\* Every step of the clocks, their timers and the tasks preserves it.
LEMMA NextInv == Inv /\ [Next]_vars => Inv'
<1> SUFFICES ASSUME Inv, [Next]_vars PROVE Inv'
  OBVIOUS
<1> USE DEF Inv
<1>t. /\ adapter \in Adapters /\ time \in Nat /\ time <= DurMax
      /\ origin \in Nat \cup {None}
      /\ pc \in [Tasks -> [at : {"idle", "init", "publish", "read"}, anchor : Nat \cup {None}]]
      /\ timer \in [Tasks -> {None} \cup Timers]
      /\ calls \in 0..MaxCalls
      /\ Reading \in Duration
  BY ReadingNow DEF TypeOK, AnchorOnce
<1>a. \A place \in {"idle", "read", "init"} :
        /\ At(place) \in [at : {"idle", "init", "publish", "read"}, anchor : Nat \cup {None}]
        /\ At(place).at = place
  BY DEF At
<1>1. CASE TimePasses
  <2>1. time' \in Nat /\ time' > time /\ time' <= DurMax
    BY <1>1, <1>t, BoundsAssumption, DurMaxAssumption DEF TimePasses
  <2>2. UNCHANGED <<adapter, origin, pc, timer, calls, done>>
    BY <1>1 DEF TimePasses
  <2>3. TypeOK'
    BY <1>t, <2>1, <2>2 DEF TypeOK
  <2>4. AnchorOnce'
    BY <1>t, <2>1, <2>2 DEF AnchorOnce, Initialising
  <2>5. TimersCover'
    BY <2>2, TimersLeft
  <2> QED BY <2>3, <2>4, <2>5
<1>2. ASSUME NEW k \in Tasks, Now(k) PROVE Inv'
  <2> DEFINE place == IF origin = None THEN "init" ELSE "read"
  <2>1. /\ pc' = [pc EXCEPT ![k] = At(place)] /\ calls' = calls + 1 /\ calls < MaxCalls
        /\ origin = None => \A other \in Tasks : ~Initialising(other)
        /\ UNCHANGED <<adapter, time, origin, timer, done>>
    BY <1>2 DEF Now, Initialising
  <2>2. TypeOK'
    BY <1>t, <1>a, <2>1, BoundsAssumption DEF TypeOK
  <2>3. AnchorOnce'
    <3>1. pc'[k].at = place /\ \A j \in Tasks : j # k => pc'[j] = pc[j]
      BY <1>t, <1>a, <2>1
    <3>2. Initialising(k)' => origin = None
      BY <3>1 DEF Initialising
    <3>3. \A j \in Tasks : Initialising(j)' => (j = k \/ Initialising(j)) /\ origin = None
      BY <3>1, <3>2 DEF AnchorOnce, Initialising
    <3>4. \A i, j \in Tasks : Initialising(i)' /\ Initialising(j)' => i = j
      BY <2>1, <3>3
    <3>5. \A j \in Tasks : pc'[j].at = "publish" => pc'[j] = pc[j]
      BY <3>1
    <3> QED BY <1>t, <2>1, <3>3, <3>4, <3>5 DEF AnchorOnce
  <2>4. TimersCover'
    BY <2>1, TimersLeft
  <2> QED BY <2>2, <2>3, <2>4
<1>3. ASSUME NEW k \in Tasks, InitAnchor(k) PROVE Inv'
  <2> DEFINE mine == [at |-> "publish", anchor |-> time]
  <2>1. /\ pc[k].at = "init" /\ pc' = [pc EXCEPT ![k] = mine]
        /\ UNCHANGED <<adapter, time, origin, timer, calls, done>>
    BY <1>3 DEF InitAnchor
  <2>2. TypeOK'
    BY <1>t, <2>1 DEF TypeOK
  <2>3. AnchorOnce'
    <3>1. pc'[k] = mine /\ mine.at = "publish" /\ mine.anchor = time
          /\ \A j \in Tasks : j # k => pc'[j] = pc[j]
      BY <1>t, <2>1
    <3>2. \A j \in Tasks : Initialising(j)' <=> Initialising(j)
      BY <2>1, <3>1 DEF Initialising
    <3>3. \A j \in Tasks : pc'[j].at = "publish"
            => pc'[j].anchor \in Nat /\ pc'[j].anchor <= time
      BY <1>t, <3>1 DEF AnchorOnce
    <3> QED BY <1>t, <2>1, <3>2, <3>3 DEF AnchorOnce
  <2>4. TimersCover'
    BY <2>1, TimersLeft
  <2> QED BY <2>2, <2>3, <2>4
<1>4. ASSUME NEW k \in Tasks, PublishAnchor(k) PROVE Inv'
  <2>1. /\ pc[k].at = "publish" /\ pc' = [pc EXCEPT ![k] = At("read")]
        /\ origin' = pc[k].anchor
        /\ UNCHANGED <<adapter, time, timer, calls, done>>
    BY <1>4 DEF PublishAnchor
  <2>2. Initialising(k) /\ origin' \in Nat /\ origin' <= time /\ origin = None
    BY <2>1 DEF AnchorOnce, Initialising
  <2>3. TypeOK'
    BY <1>t, <1>a, <2>1, <2>2 DEF TypeOK
  <2>4. AnchorOnce'
    <3>1. pc'[k].at = "read" /\ \A j \in Tasks : j # k => pc'[j] = pc[j]
      BY <1>t, <1>a, <2>1
    <3>2. \A j \in Tasks : ~Initialising(j)'
      BY <2>2, <3>1 DEF AnchorOnce, Initialising
    <3> QED BY <1>t, <2>1, <2>2, <3>2 DEF AnchorOnce, Initialising
  <2>5. TimersCover'
    BY <2>1, <2>2 DEF TimersCover
  <2> QED BY <2>3, <2>4, <2>5
<1>5. ASSUME NEW k \in Tasks, Elapsed(k) PROVE Inv'
  <2>1. /\ pc[k].at = "read" /\ pc' = [pc EXCEPT ![k] = At("idle")]
        /\ UNCHANGED <<adapter, time, origin, timer, calls, done>>
    BY <1>5 DEF Elapsed
  <2>2. TypeOK'
    BY <1>t, <1>a, <2>1 DEF TypeOK
  <2>3. AnchorOnce'
    <3>1. pc'[k].at = "idle" /\ \A j \in Tasks : j # k => pc'[j] = pc[j]
      BY <1>t, <1>a, <2>1
    <3>2. \A j \in Tasks : Initialising(j)' <=> Initialising(j)
      BY <2>1, <3>1 DEF Initialising
    <3>3. \A j \in Tasks : pc'[j].at = "publish" => pc'[j] = pc[j]
      BY <3>1
    <3> QED BY <1>t, <2>1, <3>2, <3>3 DEF AnchorOnce
  <2>4. TimersCover'
    BY <2>1, TimersLeft
  <2> QED BY <2>2, <2>3, <2>4
<1>6. ASSUME NEW k \in Tasks, NEW dur \in Durs, BeginWait(k, dur) PROVE Inv'
  <2> DEFINE built == [ready |-> Deadline(dur), at |-> Reading, dur |-> dur]
  <2>1. /\ timer' = [timer EXCEPT ![k] = built] /\ calls' = calls + 1 /\ calls < MaxCalls
        /\ origin # None /\ UNCHANGED <<adapter, time, origin, pc, done>>
    BY <1>6 DEF BeginWait
  <2>2. /\ dur \in Duration /\ Deadline(dur) \in Nat /\ Started(Deadline(dur))
        /\ Contract!Shows(ReadingAt(Deadline(dur)), Reading, dur)
    BY <2>1, BoundsAssumption, DeadlineCovers
  <2>3. built \in Timers
    BY <1>t, <2>2 DEF Timers
  <2>4. TypeOK'
    BY <1>t, <2>1, <2>3, BoundsAssumption DEF TypeOK
  <2>5. AnchorOnce'
    BY <2>1 DEF AnchorOnce, Initialising
  <2>6. TimersCover'
    <3> SUFFICES ASSUME NEW j \in Tasks, timer'[j] # None
                 PROVE  /\ origin' # None
                        /\ Started(timer[j].ready)'
                        /\ Contract!Shows(ReadingAt(timer[j].ready), timer[j].at,
                                          timer[j].dur)'
      BY DEF TimersCover
    <3>1. PICK tm : /\ timer'[j] = tm /\ Started(tm.ready)
                    /\ Contract!Shows(ReadingAt(tm.ready), tm.at, tm.dur)
      BY <1>t, <2>1, <2>2 DEF TimersCover
    <3>2. Started(timer[j].ready)' <=> Started(tm.ready)
      BY <2>1, <3>1 DEF Started, EmbassyTicks
    <3>3. ReadingAt(timer[j].ready)' = ReadingAt(tm.ready)
      BY <2>1, <3>1 DEF ReadingAt, EmbassyTicks
    <3>4. Resolution' = Resolution /\ Longest' = Longest
      BY <2>1 DEF Resolution, Longest
    <3> QED BY <2>1, <3>1, <3>2, <3>3, <3>4 DEF Contract!Shows
  <2> QED BY <2>4, <2>5, <2>6
<1>7. ASSUME NEW k \in Tasks, EndWait(k) PROVE Inv'
  <2>1. /\ timer[k] # None /\ timer' = [timer EXCEPT ![k] = None]
        /\ done' = [at |-> timer[k].at, dur |-> timer[k].dur, now |-> Reading]
        /\ UNCHANGED <<adapter, time, origin, pc, calls>>
    BY <1>7 DEF EndWait
  <2>2. timer[k].at \in Duration /\ timer[k].dur \in Duration
    BY <1>t, <2>1 DEF Timers
  <2>3. TypeOK'
    BY <1>t, <2>1, <2>2 DEF TypeOK
  <2>4. AnchorOnce'
    BY <2>1 DEF AnchorOnce, Initialising
  <2>5. TimersCover'
    BY <1>t, <2>1, TimersLeft
  <2> QED BY <2>3, <2>4, <2>5
<1>8. ASSUME NEW k \in Tasks, DropTimer(k) PROVE Inv'
  <2>1. timer' = [timer EXCEPT ![k] = None]
        /\ UNCHANGED <<adapter, time, origin, pc, calls, done>>
    BY <1>8 DEF DropTimer
  <2>2. TypeOK'
    BY <1>t, <2>1 DEF TypeOK
  <2>3. AnchorOnce'
    BY <2>1 DEF AnchorOnce, Initialising
  <2>4. TimersCover'
    BY <1>t, <2>1, TimersLeft
  <2> QED BY <2>2, <2>3, <2>4
<1>9. CASE UNCHANGED vars
  <2>1. UNCHANGED <<adapter, time, origin, pc, timer, calls, done>>
    BY <1>9 DEF vars
  <2>2. TimersCover'
    BY <2>1, TimersLeft
  <2> QED BY <2>1, <2>2 DEF TypeOK, AnchorOnce, Initialising
<1> QED BY <1>1, <1>2, <1>3, <1>4, <1>5, <1>6, <1>7, <1>8, <1>9 DEF Next

\* The anchor is set once, and every timer covers its wait, throughout a run.
THEOREM AdaptersInvariant == Spec => []Inv
BY InitInv, NextInv, PTL DEF Spec

\* Readings, timers and completed waits stay in range: no conversion of a clock
\* overflows, whatever is asked of it.
THEOREM AdaptersTypeCorrect == Spec => []TypeOK
<1>1. Inv => TypeOK
  BY DEF Inv
<1> QED BY <1>1, AdaptersInvariant, PTL

-----------------------------------------------------------------------------
(* The refinement of ClockContract, to within the unit of the clock. *)

\* The clocks start where the contract starts.
LEMMA InitRefines == Init => Contract!Init
<1> SUFFICES ASSUME Init PROVE Contract!Init
  OBVIOUS
<1>1. Pending = [k \in Tasks |-> None]
  BY DEF Init, Pending
<1>2. Reading \in Duration
  BY InitInv, ReadingNow DEF Inv
<1>3. done = None
  BY DEF Init
<1> QED BY <1>1, <1>2, <1>3, SlackInRange, SameArithmetic DEF Contract!Init

\* What now() returns next is a duration too.
LEMMA NextReading == Inv' => (Reading \in Duration)'
<1>1. Inv => Reading \in Duration
  BY ReadingNow DEF Inv
<1> QED BY <1>1, PTL

\* A step that keeps the clock, its origin and the time keeps what now() returns.
LEMMA SameReading ==
  ASSUME UNCHANGED <<adapter, time, origin>>
  PROVE  UNCHANGED <<Reading, Resolution, Longest>>
BY DEF Reading, EmbassyElapsed, InstantElapsed, EmbassyTicks, Resolution, Longest

\* A wait that completes shows in what now() returns.
LEMMA CompletedShows ==
  ASSUME Inv, NEW k \in Tasks, EndWait(k)
  PROVE  /\ timer[k].at \in Duration /\ timer[k].dur \in Duration
         /\ Contract!Shows(Reading, timer[k].at, timer[k].dur)
<1> USE DEF Inv
<1>1. timer[k] # None /\ time >= timer[k].ready /\ timer[k] \in Timers
  BY DEF EndWait, TypeOK
<1>2. timer[k].ready \in Nat /\ timer[k].at \in Duration /\ timer[k].dur \in Duration
  BY <1>1 DEF Timers
<1>3. /\ origin # None /\ Started(timer[k].ready)
      /\ Contract!Shows(ReadingAt(timer[k].ready), timer[k].at, timer[k].dur)
  BY <1>1 DEF TimersCover
<1>4. time \in Nat /\ origin \in Nat /\ Reading = ReadingAt(time) /\ Reading \in Int
  BY <1>3, ReadingNow, DurMaxAssumption DEF TypeOK, Duration
<1>5. ReadingAt(timer[k].ready) <= Reading /\ ReadingAt(timer[k].ready) \in Nat
  BY <1>1, <1>2, <1>3, <1>4, ReadingsOrdered
<1>6. Resolution \in Int /\ Longest \in Nat
  BY SlackInRange, DurMaxAssumption DEF Duration
<1> DEFINE due == SatAdd(timer[k].at, Least(timer[k].dur, Longest))
<1>7. due \in Int
  BY <1>2, <1>6, DurMaxAssumption DEF SatAdd, Least, Duration
<1>8. \A r : Contract!Shows(r, timer[k].at, timer[k].dur) <=> r + Resolution > due
  BY SameArithmetic DEF Contract!Shows
<1> HIDE DEF due
<1>9. Contract!Shows(Reading, timer[k].at, timer[k].dur)
  BY <1>3, <1>4, <1>5, <1>6, <1>7, <1>8
<1> QED BY <1>2, <1>9

\* Every step is one the clock traits allow, or a stutter.
LEMMA NextRefines ==
  ASSUME Inv, Inv', [Next]_vars
  PROVE  [Contract!Next]_(Contract!contractVars)
<1> USE DEF Inv
<1>t. /\ Reading \in Duration /\ Reading' \in Duration
      /\ timer \in [Tasks -> {None} \cup Timers]
      /\ Reading \in Int /\ Reading' \in Int
  <2>1. Reading \in Duration
    BY ReadingNow
  <2>2. Reading' \in Duration
    BY NextReading
  <2> QED BY <2>1, <2>2, DurMaxAssumption DEF TypeOK, Duration
<1>s. ASSUME UNCHANGED <<adapter, time, origin, timer, done>>
      PROVE  UNCHANGED Contract!contractVars
  BY <1>s, SameReading DEF Contract!contractVars, Pending
<1>1. CASE TimePasses
  <2>1. /\ UNCHANGED <<adapter, origin, timer, done>>
        /\ time \in Nat /\ time' \in Nat /\ time <= time'
    BY <1>1, BoundsAssumption DEF TimePasses, TypeOK
  <2>2. Reading' >= Reading
    <3>1. CASE origin = None
      BY <2>1, <3>1 DEF Reading
    <3>2. CASE origin # None
      <4>1. origin \in Nat /\ Started(time) /\ Reading = ReadingAt(time)
        BY <3>2, ReadingNow
      <4>2. ReadingAt(time) <= ReadingAt(time')
        BY <2>1, <4>1, ReadingsOrdered
      <4>3. Reading' = ReadingAt(time')
        BY <2>1, <3>2
        DEF Reading, ReadingAt, Micros, EmbassyElapsed, InstantElapsed, EmbassyTicks
      <4> QED BY <1>t, <4>1, <4>2, <4>3
    <3> QED BY <3>1, <3>2
  <2>3. UNCHANGED <<Pending, Resolution, Longest>>
    BY <2>1 DEF Pending, Resolution, Longest
  <2>4. Contract!Pass
    BY <1>t, <2>1, <2>2, <2>3, SameArithmetic DEF Contract!Pass
  <2> QED BY <2>4 DEF Contract!Next
<1>2. ASSUME NEW k \in Tasks, Now(k) \/ InitAnchor(k) \/ Elapsed(k)
      PROVE  UNCHANGED Contract!contractVars
  BY <1>2, <1>s DEF Now, InitAnchor, Elapsed
<1>3. ASSUME NEW k \in Tasks, PublishAnchor(k) PROVE Contract!Pass
  <2>1. origin = None /\ UNCHANGED <<adapter, timer, done>>
    BY <1>3 DEF PublishAnchor, AnchorOnce, Initialising
  <2>2. Reading = 0
    BY <2>1 DEF Reading
  <2>3. Reading' >= Reading
    BY <1>t, <2>2 DEF Duration
  <2>4. UNCHANGED <<Pending, Resolution, Longest>>
    BY <2>1 DEF Pending, Resolution, Longest
  <2> QED BY <1>t, <2>1, <2>3, <2>4, SameArithmetic DEF Contract!Pass
<1>4. ASSUME NEW k \in Tasks, NEW dur \in Durs, BeginWait(k, dur)
      PROVE  Contract!Request(k, dur) /\ dur \in Duration
  <2> DEFINE built == [ready |-> Deadline(dur), at |-> Reading, dur |-> dur]
  <2>1. /\ timer' = [timer EXCEPT ![k] = built] /\ timer[k] = None /\ origin # None
        /\ UNCHANGED <<adapter, time, origin, done>>
    BY <1>4 DEF BeginWait, Idle
  <2>2. dur \in Duration /\ Deadline(dur) \in Nat
    BY <2>1, BoundsAssumption, DeadlineCovers
  <2>3. built \in Timers /\ built.at = Reading /\ built.dur = dur
    BY <1>t, <2>2 DEF Timers
  <2>4. built # None
    BY <2>3, NoTimerAssumption
  <2> HIDE DEF built
  <2>5. Pending' = [Pending EXCEPT ![k] = [at |-> Reading, dur |-> dur]]
    BY <1>t, <2>1, <2>3, <2>4 DEF Pending
  <2>6. Pending[k] = None
    BY <2>1 DEF Pending
  <2> QED BY <2>1, <2>2, <2>5, <2>6, SameReading DEF Contract!Request
<1>5. ASSUME NEW k \in Tasks, EndWait(k) PROVE Contract!Complete(k)
  <2>1. /\ timer[k] # None /\ timer' = [timer EXCEPT ![k] = None]
        /\ done' = [at |-> timer[k].at, dur |-> timer[k].dur, now |-> Reading]
        /\ UNCHANGED <<adapter, time, origin>>
    BY <1>5 DEF EndWait
  <2>2. /\ timer[k].at \in Duration /\ timer[k].dur \in Duration
        /\ Contract!Shows(Reading, timer[k].at, timer[k].dur)
    BY <1>5, CompletedShows
  <2> DEFINE asked == [at |-> timer[k].at, dur |-> timer[k].dur]
  <2>3. Pending[k] = asked /\ asked.at = timer[k].at /\ asked.dur = timer[k].dur
    BY <2>1 DEF Pending
  <2>4. asked # None
    BY <2>2, NoTimerAssumption
  <2> HIDE DEF asked
  <2>5. Pending' = [Pending EXCEPT ![k] = None]
    BY <1>t, <2>1 DEF Pending
  <2>6. Reading' = Reading /\ Resolution' = Resolution /\ Longest' = Longest
    BY <2>1, SameReading
  <2>7. Contract!Shows(Reading', Pending[k].at, Pending[k].dur)
    BY <2>2, <2>3, <2>6
  <2>8. Reading' >= Reading
    BY <1>t, <2>6
  <2> QED
    BY <1>t, <2>1, <2>3, <2>4, <2>5, <2>6, <2>7, <2>8, SameArithmetic
    DEF Contract!Complete
<1>6. ASSUME NEW k \in Tasks, DropTimer(k) PROVE Contract!Drop(k)
  <2>1. /\ timer[k] # None /\ timer' = [timer EXCEPT ![k] = None]
        /\ UNCHANGED <<adapter, time, origin, done>>
    BY <1>6 DEF DropTimer
  <2>2. Pending[k] # None
    <3>1. timer[k].at \in Duration /\ timer[k].dur \in Duration
      BY <1>t, <2>1 DEF Timers
    <3> QED BY <2>1, <3>1, NoTimerAssumption DEF Pending
  <2>3. Pending' = [Pending EXCEPT ![k] = None]
    BY <1>t, <2>1 DEF Pending
  <2> QED BY <2>1, <2>2, <2>3, SameReading DEF Contract!Drop
<1>7. CASE UNCHANGED vars
  BY <1>7, <1>s DEF vars
<1> QED BY <1>1, <1>2, <1>3, <1>4, <1>5, <1>6, <1>7, SameArithmetic DEF Next, Contract!Next

\* The five clocks keep the contract of the clock traits, each to within one of its
\* units and up to its longest wait: for every tick rate, whatever its conversions
\* round and clamp, whichever task sets the anchor.
THEOREM AdaptersKeepContract == Spec => ClockContractHolds
<1>1. Inv /\ Inv' /\ [Next]_vars => [Contract!Next]_(Contract!contractVars)
  BY NextRefines
<1> QED
  BY <1>1, InitRefines, AdaptersInvariant, PTL DEF Spec, ClockContractHolds, Contract!Spec

\* "must advance now() by (at least) the waited duration once the wait completes": the
\* clocks that hand durations on unconverted do, in full; Embassy and Gloo round.
THEOREM UnconvertedClocksCoherent ==
  Spec => [](adapter \notin {"Embassy", "Gloo"} => Coherent)
<1> DEFINE Kept == adapter \notin {"Embassy", "Gloo"} => Coherent
<1>1. Init => Kept
  BY DEF Init, Coherent, Contract!Coherent
<1>2. ASSUME Inv, [Next]_vars, Kept PROVE Kept'
  <2>1. CASE done' = done
    BY <1>2, <2>1 DEF Next, vars, Coherent, Contract!Coherent, TimePasses, Now, InitAnchor,
                      PublishAnchor, Elapsed, BeginWait, EndWait, DropTimer
  <2>2. ASSUME NEW k \in Tasks, EndWait(k), adapter \notin {"Embassy", "Gloo"}
        PROVE  Coherent'
    <3>1. done' = [at |-> timer[k].at, dur |-> timer[k].dur, now |-> Reading]
      BY <2>2 DEF EndWait
    <3>2. /\ timer[k].at \in Duration /\ timer[k].dur \in Duration
          /\ Contract!Shows(Reading, timer[k].at, timer[k].dur)
      BY <1>2, <2>2, CompletedShows
    <3>3. Reading \in Int
      BY <1>2, ReadingNow, DurMaxAssumption DEF Inv, Duration
    <3>4. Least(timer[k].dur, DurMax) = timer[k].dur
      BY <3>2, DurMaxAssumption DEF Least, Duration
    <3>5. Reading + 1 > SatAdd(timer[k].at, timer[k].dur)
      BY <2>2, <3>2, <3>4, SlackInRange, SameArithmetic DEF Contract!Shows
    <3>6. SatAdd(timer[k].at, timer[k].dur) \in Int
      BY <3>2, DurMaxAssumption DEF SatAdd, Duration
    <3>7. Reading >= SatAdd(timer[k].at, timer[k].dur)
      BY <3>3, <3>5, <3>6
    <3> QED BY <3>1, <3>7, SameArithmetic DEF Coherent, Contract!Coherent
  <2>3. CASE done' # done
    <3>1. PICK k \in Tasks : EndWait(k)
      BY <1>2, <2>3 DEF Next, vars, TimePasses, Now, InitAnchor, PublishAnchor, Elapsed,
                        BeginWait, DropTimer
    <3>2. adapter' = adapter
      BY <3>1 DEF EndWait
    <3> QED BY <2>2, <3>1, <3>2
  <2> QED BY <2>1, <2>3
<1>3. Inv /\ [Next]_vars /\ Kept => Kept'
  BY <1>2
<1> QED BY <1>1, <1>3, AdaptersInvariant, PTL DEF Spec
=============================================================================
