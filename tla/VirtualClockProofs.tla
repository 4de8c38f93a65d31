------------------------- MODULE VirtualClockProofs -------------------------
(***************************************************************************)
(* Theorems about the deterministic test clock, for any number of wait     *)
(* futures alive at once, however they are polled and dropped.             *)
(***************************************************************************)
EXTENDS VirtualClock, TLAPS

\* A future has advanced the clock if it was polled, and it was made in the past.
FuturesTruthful ==
  \A w \in Waiters : fut[w] # None =>
    /\ fut[w].advanced <=> fut[w].polls > 0
    /\ fut[w].at <= now

\* The inductive invariant.
Inv == TypeOK /\ ExactlyOnce /\ FuturesTruthful

\* The clock saturates as the time asked for does (Duration::saturating_add).
LEMMA SaturatedSum ==
  ASSUME NEW total \in Nat, NEW dur \in Duration
  PROVE  SatAdd(Least(DurMax, total), dur) = Least(DurMax, total + dur)
BY DurMaxAssumption DEF SatAdd, Least, Duration

\* Saturating addition stays in range and is monotone in its first argument.
LEMMA SaturatingAdd ==
  ASSUME NEW a \in Duration, NEW b \in Duration, NEW dur \in Duration, a <= b
  PROVE  /\ SatAdd(b, dur) \in Duration
         /\ b <= SatAdd(b, dur)
         /\ SatAdd(a, dur) <= SatAdd(b, dur)
BY DurMaxAssumption DEF SatAdd, Duration

\* The clock starts in the invariant.
LEMMA InitInv == Init => Inv
BY DurMaxAssumption, BoundsAssumption
DEF Init, Inv, TypeOK, ExactlyOnce, FuturesTruthful, Duration, Least

\* Moving the clock keeps it what was asked for, and every future's start in the past.
LEMMA Advances ==
  ASSUME Inv, NEW dur \in Duration, AdvanceTo(dur), spent' = spent + dur
  PROVE  /\ now' \in Duration /\ now <= now'
         /\ spent' \in Nat
         /\ now' = Least(DurMax, spent')
<1>1. now \in Duration /\ spent \in Nat /\ now = Least(DurMax, spent) /\ now <= now
  BY DurMaxAssumption DEF Inv, TypeOK, ExactlyOnce, Duration
<1>2. now' \in Duration /\ now <= now'
  BY <1>1, SaturatingAdd DEF AdvanceTo
<1>3. now' = Least(DurMax, spent + dur)
  BY <1>1, SaturatedSum DEF AdvanceTo
<1> QED BY <1>1, <1>2, <1>3, DurMaxAssumption DEF Duration

\* A polled future, field by field; the others are left alone.
LEMMA Polled ==
  ASSUME Inv, NEW w \in Waiters, Poll(w)
  PROVE  /\ fut[w] \in Futures /\ fut[w] # None
         /\ fut' \in [Waiters -> Futures \cup {None}]
         /\ fut'[w] \in Futures
         /\ fut'[w].advanced /\ fut'[w].polls = fut[w].polls + 1
         /\ fut'[w].dur = fut[w].dur /\ fut'[w].at = fut[w].at
         /\ \A v \in Waiters : v # w => fut'[v] = fut[v]
         /\ fut[w].advanced <=> fut[w].polls # 0
<1>1. fut[w] \in Futures /\ fut[w] # None /\ fut[w].polls < MaxPolls
  BY DEF Inv, TypeOK, Poll
<1>2. fut \in [Waiters -> Futures \cup {None}]
  BY DEF Inv, TypeOK
<1> DEFINE left == [[fut[w] EXCEPT !.polls = @ + 1] EXCEPT !.advanced = TRUE]
<1>3. fut' = [fut EXCEPT ![w] = left]
  BY <1>2 DEF Poll
<1>4. fut[w].polls + 1 \in 0..MaxPolls
  BY <1>1, BoundsAssumption DEF Futures
<1>5. left \in Futures
  BY <1>1, <1>4 DEF Futures
<1>6. left.polls = fut[w].polls + 1 /\ left.dur = fut[w].dur /\ left.at = fut[w].at
  BY <1>1, <1>4 DEF Futures
<1>7. left.advanced
  BY <1>1, <1>4 DEF Futures
<1> HIDE DEF left
<1>8. fut[w].advanced <=> fut[w].polls # 0
  BY <1>1 DEF Inv, FuturesTruthful, Futures
<1>9. fut'[w] = left /\ \A v \in Waiters : v # w => fut'[v] = fut[v]
  BY <1>2, <1>3
<1>10. fut' \in [Waiters -> Futures \cup {None}]
  BY <1>2, <1>3, <1>5
<1> QED BY <1>1, <1>5, <1>6, <1>7, <1>8, <1>9, <1>10

\* Every operation of the clock preserves the invariant.
LEMMA NextInv == Inv /\ [Next]_vars => Inv'
<1> SUFFICES ASSUME Inv, [Next]_vars PROVE Inv'
  OBVIOUS
<1>t. /\ now \in Duration /\ waits \in Seq(Duration)
      /\ fut \in [Waiters -> Futures \cup {None}]
      /\ spent \in Nat /\ served \in Nat /\ requested \in 0..MaxRequests
      /\ now = Least(DurMax, spent) /\ Len(waits) = served
  BY DEF Inv, TypeOK, ExactlyOnce
<1>a. \A w \in Waiters : fut[w] # None => fut[w] \in Futures /\ fut[w].at \in Int
  BY <1>t DEF Futures, Duration
<1>1. ASSUME NEW dur \in Durs, Advance(dur) PROVE Inv'
  <2>1. dur \in Duration /\ AdvanceTo(dur) /\ spent' = spent + dur
    BY <1>1, DursAssumption DEF Advance
  <2>2. now' \in Duration /\ now <= now' /\ spent' \in Nat /\ now' = Least(DurMax, spent')
    BY <2>1, Advances
  <2>3. TypeOK'
    BY <1>1, <2>2 DEF Inv, TypeOK, Advance
  <2>4. ExactlyOnce'
    BY <1>1, <1>t, <2>2 DEF ExactlyOnce, Advance
  <2>5. FuturesTruthful'
    BY <1>1, <1>t, <1>a, <2>2 DEF Inv, FuturesTruthful, Advance, Duration
  <2> QED BY <2>3, <2>4, <2>5 DEF Inv
<1>2. ASSUME NEW dur \in Durs, Wait(dur) PROVE Inv'
  <2>1. dur \in Duration /\ AdvanceTo(dur) /\ spent' = spent + dur
    BY <1>2, DursAssumption DEF Wait, RecordWait
  <2>2. now' \in Duration /\ now <= now' /\ spent' \in Nat /\ now' = Least(DurMax, spent')
    BY <2>1, Advances
  <2>3. waits' \in Seq(Duration) /\ Len(waits') = Len(waits) + 1
    BY <1>2, <1>t, <2>1 DEF Wait, RecordWait
  <2>4. TypeOK'
    BY <1>2, <1>t, <2>1, <2>2, <2>3, BoundsAssumption DEF Inv, TypeOK, Wait
  <2>5. ExactlyOnce'
    BY <1>2, <1>t, <2>2, <2>3 DEF ExactlyOnce, Wait
  <2>6. FuturesTruthful'
    BY <1>2, <1>t, <1>a, <2>2 DEF Inv, FuturesTruthful, Wait, Duration
  <2> QED BY <2>4, <2>5, <2>6 DEF Inv
<1>3. ASSUME NEW dur \in Durs, NEW w \in Waiters, WaitAsync(w, dur) PROVE Inv'
  <2> DEFINE made == [dur |-> dur, advanced |-> FALSE, polls |-> 0, at |-> now]
  <2>1. made \in Futures
    BY <1>t, DursAssumption, BoundsAssumption DEF Futures
  <2>2. fut' = [fut EXCEPT ![w] = made]
    BY <1>3 DEF WaitAsync
  <2>3. TypeOK'
    BY <1>3, <1>t, <2>1, <2>2, BoundsAssumption DEF Inv, TypeOK, WaitAsync
  <2>4. ExactlyOnce'
    BY <1>3 DEF Inv, ExactlyOnce, WaitAsync
  <2>5. FuturesTruthful'
    <3>1. now' = now
      BY <1>3 DEF WaitAsync
    <3>2. (made.advanced <=> made.polls > 0) /\ made.at <= now
      BY <1>t DEF Duration
    <3> QED BY <1>t, <2>2, <3>1, <3>2 DEF Inv, FuturesTruthful
  <2> QED BY <2>3, <2>4, <2>5 DEF Inv
<1>4. ASSUME NEW w \in Waiters, Poll(w) PROVE Inv'
  <2>1. /\ fut[w] \in Futures /\ fut[w] # None
        /\ fut' \in [Waiters -> Futures \cup {None}]
        /\ fut'[w] \in Futures
        /\ fut'[w].advanced /\ fut'[w].polls = fut[w].polls + 1
        /\ fut'[w].dur = fut[w].dur /\ fut'[w].at = fut[w].at
        /\ \A v \in Waiters : v # w => fut'[v] = fut[v]
        /\ fut[w].advanced <=> fut[w].polls # 0
    BY <1>4, Polled
  <2>2. /\ now' \in Duration /\ now <= now' /\ spent' \in Nat
        /\ now' = Least(DurMax, spent')
        /\ waits' \in Seq(Duration) /\ Len(waits') = served'
        /\ served' \in Nat
        /\ done' \in {None} \cup [at : Duration, dur : Duration, now : Duration]
    <3>1. CASE fut[w].advanced
      <4>1. UNCHANGED <<now, waits, done>> /\ fut[w].polls # 0
        BY <1>4, <2>1, <3>1 DEF Poll
      <4>2. spent' = spent /\ served' = served
        BY <1>4, <1>t, <4>1 DEF Poll
      <4> QED BY <1>t, <4>1, <4>2 DEF Inv, TypeOK, Duration
    <3>2. CASE ~fut[w].advanced
      <4>1. fut[w].dur \in Duration /\ fut[w].at \in Duration /\ fut[w].polls = 0
        BY <2>1, <3>2 DEF Futures
      <4>2. /\ AdvanceTo(fut[w].dur) /\ spent' = spent + fut[w].dur
            /\ waits' = Append(waits, fut[w].dur) /\ served' = served + 1
            /\ done' = [at |-> fut[w].at, dur |-> fut[w].dur, now |-> now']
        BY <1>4, <3>2, <4>1 DEF Poll, RecordWait
      <4>3. now' \in Duration /\ now <= now' /\ spent' \in Nat
            /\ now' = Least(DurMax, spent')
        BY <4>1, <4>2, Advances
      <4>4. waits' \in Seq(Duration) /\ Len(waits') = Len(waits) + 1
        BY <1>t, <4>1, <4>2
      <4> QED BY <1>t, <4>1, <4>2, <4>3, <4>4
    <3> QED BY <3>1, <3>2
  <2>3. TypeOK'
    BY <1>4, <1>t, <2>1, <2>2 DEF TypeOK, Poll
  <2>4. ExactlyOnce'
    BY <2>2 DEF ExactlyOnce
  <2>5. FuturesTruthful'
    <3> SUFFICES ASSUME NEW v \in Waiters, fut'[v] # None
                 PROVE  (fut'[v].advanced <=> fut'[v].polls > 0) /\ fut'[v].at <= now'
      BY DEF FuturesTruthful
    <3>1. CASE v = w
      <4>1. fut[w].polls + 1 > 0 /\ fut[w].at \in Int /\ fut[w].at <= now
        BY <2>1 DEF Futures, Duration, Inv, FuturesTruthful
      <4> QED BY <1>t, <2>1, <2>2, <3>1, <4>1 DEF Duration
    <3>2. CASE v # w
      <4>1. fut'[v] = fut[v]
        BY <1>t, <2>1, <3>2
      <4>2. fut[v].at \in Int /\ fut[v].at <= now /\ (fut[v].advanced <=> fut[v].polls > 0)
        BY <1>a, <4>1 DEF Inv, FuturesTruthful
      <4> QED BY <1>t, <2>2, <4>1, <4>2 DEF Duration
    <3> QED BY <3>1, <3>2
  <2> QED BY <2>3, <2>4, <2>5 DEF Inv
<1>5. ASSUME NEW w \in Waiters, DropWait(w) PROVE Inv'
  <2>1. fut' = [fut EXCEPT ![w] = None]
    BY <1>5 DEF DropWait
  <2>2. TypeOK'
    BY <1>5, <1>t, <2>1 DEF Inv, TypeOK, DropWait
  <2>3. ExactlyOnce'
    BY <1>5 DEF Inv, ExactlyOnce, DropWait
  <2>4. FuturesTruthful'
    BY <1>5, <1>t, <2>1 DEF Inv, FuturesTruthful, DropWait
  <2> QED BY <2>2, <2>3, <2>4 DEF Inv
<1>6. CASE UNCHANGED vars
  BY <1>6 DEF vars, Inv, TypeOK, ExactlyOnce, FuturesTruthful
<1> QED BY <1>1, <1>2, <1>3, <1>4, <1>5, <1>6 DEF Next

\* The invariant holds throughout the life of a clock.
THEOREM VirtualClockInvariant == Spec => []Inv
BY InitInv, NextInv, PTL DEF Spec

\* The clock's reading is a duration, and what it records are durations, however much
\* is asked of it.
THEOREM VirtualClockTypeCorrect == Spec => []TypeOK
<1>1. Inv => TypeOK
  BY DEF Inv
<1> QED BY <1>1, VirtualClockInvariant, PTL

\* Every wait that takes effect moves the time and is recorded exactly once, for any
\* number of futures and polls.
THEOREM VirtualClockExactlyOnce == Spec => []ExactlyOnce
<1>1. Inv => ExactlyOnce
  BY DEF Inv
<1> QED BY <1>1, VirtualClockInvariant, PTL

-----------------------------------------------------------------------------
(* The refinement of ClockContract, without slack: unit 1, longest DurMax. *)

\* The contract's arithmetic, reached through the instance, is the clock's.
LEMMA SameArithmetic ==
  /\ Contract!Duration = Duration
  /\ \A a, b : Contract!Least(a, b) = Least(a, b)
  /\ \A a, b : Contract!SatAdd(a, b) = SatAdd(a, b)
BY Zenon DEF Contract!Duration, Duration, Contract!Least, Least, Contract!SatAdd, SatAdd

\* A wait for dur begun at `at` shows in full in a reading that has advanced by dur
\* since some time not before `at`.
LEMMA ShowsInFull ==
  ASSUME NEW at \in Duration, NEW from \in Duration, NEW dur \in Duration, at <= from
  PROVE  Contract!Shows(SatAdd(from, dur), at, dur)
<1>1. Least(dur, DurMax) = dur
  BY DurMaxAssumption DEF Least, Duration
<1>2. SatAdd(from, dur) + 1 > SatAdd(at, dur)
  BY DurMaxAssumption DEF SatAdd, Duration
<1> QED BY <1>1, <1>2, SameArithmetic DEF Contract!Shows

\* The clock starts where the contract starts.
LEMMA InitRefines == Init => Contract!Init
<1> SUFFICES ASSUME Init PROVE Contract!Init
  OBVIOUS
<1>1. Pending = [w \in Waiters |-> None]
  BY DEF Init, Pending
<1>2. now \in Duration /\ done = None /\ 1 \in Duration \ {0} /\ DurMax \in Duration
  BY DurMaxAssumption DEF Init, Duration
<1> QED BY <1>1, <1>2, SameArithmetic DEF Contract!Init

\* Every operation of the clock is a step of the contract or a stutter.
LEMMA NextRefines ==
  ASSUME Inv, Inv', [Next]_vars
  PROVE  [Contract!Next]_(Contract!contractVars)
<1>t. /\ now \in Duration /\ now' \in Duration
      /\ fut \in [Waiters -> Futures \cup {None}]
      /\ fut' \in [Waiters -> Futures \cup {None}]
      /\ now <= now
  BY DEF Inv, TypeOK, Duration
<1>1. ASSUME NEW dur \in Durs, Advance(dur) PROVE Contract!Pass
  <2>1. now' >= now /\ UNCHANGED <<fut, done>>
    BY <1>1, <1>t, DursAssumption, SaturatingAdd DEF Advance, AdvanceTo, Duration
  <2>2. Pending' = Pending
    BY <2>1 DEF Pending
  <2> QED BY <1>t, <2>1, <2>2, SameArithmetic DEF Contract!Pass
<1>2. ASSUME NEW dur \in Durs, Wait(dur) PROVE Contract!Block(dur) /\ dur \in Duration
  <2>1. /\ dur \in Duration /\ now' = SatAdd(now, dur) /\ UNCHANGED fut
        /\ done' = [at |-> now, dur |-> dur, now |-> now']
    BY <1>2, DursAssumption DEF Wait, RecordWait, AdvanceTo
  <2>2. now' >= now
    BY <1>t, <2>1, SaturatingAdd DEF Duration
  <2>3. Contract!Shows(now', now, dur)
    BY <1>t, <2>1, ShowsInFull
  <2>4. Pending' = Pending
    BY <2>1 DEF Pending
  <2> QED BY <1>t, <2>1, <2>2, <2>3, <2>4, SameArithmetic DEF Contract!Block
<1>3. ASSUME NEW dur \in Durs, NEW w \in Waiters, WaitAsync(w, dur)
      PROVE  Contract!Request(w, dur) /\ dur \in Duration
  <2> DEFINE made == [dur |-> dur, advanced |-> FALSE, polls |-> 0, at |-> now]
  <2>1. /\ dur \in Duration /\ fut[w] = None /\ UNCHANGED <<now, done>>
        /\ fut' = [fut EXCEPT ![w] = made]
    BY <1>3, DursAssumption DEF WaitAsync
  <2>2. made \in Futures
    BY <1>t, <2>1, BoundsAssumption DEF Futures
  <2>3. made # None /\ ~made.advanced /\ made.at = now /\ made.dur = dur
    BY <2>2, NoFutureAssumption
  <2> HIDE DEF made
  <2>4. Pending[w] = None
    BY <2>1 DEF Pending
  <2>5. Pending' = [Pending EXCEPT ![w] = [at |-> now, dur |-> dur]]
    BY <1>t, <2>1, <2>3 DEF Pending
  <2> QED BY <2>1, <2>4, <2>5 DEF Contract!Request
<1>4. ASSUME NEW w \in Waiters, Poll(w)
      PROVE  Contract!Complete(w) \/ UNCHANGED Contract!contractVars
  <2>1. /\ fut[w] \in Futures /\ fut[w] # None
        /\ fut'[w] \in Futures /\ fut'[w].advanced
        /\ \A v \in Waiters : v # w => fut'[v] = fut[v]
    BY <1>4, Polled
  <2>2. Pending' = [Pending EXCEPT ![w] = None]
    BY <1>t, <2>1 DEF Pending
  <2>3. CASE fut[w].advanced
    <3>1. UNCHANGED <<now, done>>
      BY <1>4, <2>3 DEF Poll
    <3>2. Pending[w] = None
      BY <2>3 DEF Pending
    <3>3. Pending' = Pending
      BY <2>2, <3>2 DEF Pending
    <3> QED BY <3>1, <3>3 DEF Contract!contractVars
  <2>4. CASE ~fut[w].advanced
    <3> DEFINE asked == [at |-> fut[w].at, dur |-> fut[w].dur]
    <3>1. Pending[w] = asked
      BY <2>1, <2>4 DEF Pending
    <3>2. fut[w].at \in Duration /\ fut[w].dur \in Duration /\ fut[w].at <= now
      BY <2>1 DEF Futures, Inv, FuturesTruthful
    <3>3. now' = SatAdd(now, fut[w].dur)
          /\ done' = [at |-> fut[w].at, dur |-> fut[w].dur, now |-> now']
      BY <1>4, <2>4 DEF Poll, RecordWait, AdvanceTo
    <3>4. now' >= now
      BY <1>t, <3>2, <3>3, SaturatingAdd DEF Duration
    <3>5. Contract!Shows(now', fut[w].at, fut[w].dur)
      BY <1>t, <3>2, <3>3, ShowsInFull
    <3>6. asked # None
      BY NoFutureAssumption, <3>2
    <3>7. Pending[w].at = fut[w].at /\ Pending[w].dur = fut[w].dur /\ Pending[w] # None
      BY <3>1, <3>6
    <3>8. Contract!Complete(w)
      BY <1>t, <2>2, <3>3, <3>4, <3>5, <3>7, SameArithmetic DEF Contract!Complete
    <3> QED BY <3>8
  <2> QED BY <2>3, <2>4
<1>5. ASSUME NEW w \in Waiters, DropWait(w)
      PROVE  Contract!Drop(w) \/ UNCHANGED Contract!contractVars
  <2>1. fut' = [fut EXCEPT ![w] = None] /\ UNCHANGED <<now, done>> /\ fut[w] \in Futures
    BY <1>5, <1>t DEF DropWait
  <2>2. Pending' = [Pending EXCEPT ![w] = None]
    BY <1>t, <2>1 DEF Pending
  <2>3. CASE Pending[w] = None
    <3>1. Pending' = Pending
      BY <2>2, <2>3 DEF Pending
    <3> QED BY <2>1, <3>1 DEF Contract!contractVars
  <2>4. CASE Pending[w] # None
    BY <2>1, <2>2, <2>4 DEF Contract!Drop
  <2> QED BY <2>3, <2>4
<1>6. CASE UNCHANGED vars
  BY <1>6 DEF vars, Pending, Contract!contractVars
<1> QED BY <1>1, <1>2, <1>3, <1>4, <1>5, <1>6, SameArithmetic DEF Next, Contract!Next

\* The virtual clock keeps the contract of the clock traits with no slack at all, for
\* any number of futures polled and dropped in any order.
THEOREM VirtualClockKeepsContract == Spec => ClockContractHolds
<1>1. Inv /\ Inv' /\ [Next]_vars => [Contract!Next]_(Contract!contractVars)
  BY NextRefines
<1> QED
  BY <1>1, InitRefines, VirtualClockInvariant, PTL DEF Spec, ClockContractHolds, Contract!Spec

\* What the contract keeps about outstanding waits: they are waits for durations.
Outstanding == [at : Duration, dur : Duration]

StrictInv ==
  /\ now \in Duration
  /\ Pending \in [Waiters -> Outstanding \cup {None}]
  /\ Contract!Coherent

\* A reading that shows a wait, without slack, shows all of it.
LEMMA ShownInFull ==
  ASSUME NEW from \in Duration, NEW dur \in Duration, NEW reading \in Duration,
         Contract!Shows(reading, from, dur)
  PROVE  reading >= SatAdd(from, dur)
<1>1. /\ DurMax \in Nat /\ reading \in Nat /\ from \in Nat /\ dur \in Nat /\ dur <= DurMax
  BY DurMaxAssumption DEF Duration
<1>2. Least(dur, DurMax) = dur
  BY <1>1 DEF Least
<1>3. reading + 1 > SatAdd(from, dur)
  BY <1>2, SameArithmetic DEF Contract!Shows
<1>4. SatAdd(from, dur) \in Nat
  BY <1>1 DEF SatAdd
<1>5. PICK n \in Nat : n = SatAdd(from, dur)
  BY <1>4
<1>6. reading + 1 > n
  BY <1>3, <1>5
<1>7. reading >= n
  BY <1>1, <1>6
<1> QED BY <1>5, <1>7

\* The contract of the clock traits without slack is coherent: "must advance now() by
\* (at least) the waited duration once the wait completes" (Clock), whichever clock
\* keeps it.
THEOREM StrictContractCoherent == ClockContractHolds => []Contract!Coherent
<1>1. Contract!Init => StrictInv
  BY SameArithmetic DEF Contract!Init, StrictInv, Contract!Coherent
<1>2. ASSUME StrictInv, [Contract!Next]_(Contract!contractVars) PROVE StrictInv'
  <2>t. now \in Duration /\ Pending \in [Waiters -> Outstanding \cup {None}]
    BY <1>2 DEF StrictInv
  <2>1. CASE Contract!Pass
    BY <1>2, <2>1, SameArithmetic DEF StrictInv, Contract!Pass, Contract!Coherent
  <2>2. ASSUME NEW dur \in Duration, Contract!Block(dur) PROVE StrictInv'
    <3>1. /\ now' \in Duration /\ Contract!Shows(now', now, dur)
          /\ done' = [at |-> now, dur |-> dur, now |-> now'] /\ Pending' = Pending
      BY <2>2, SameArithmetic DEF Contract!Block
    <3>2. now' >= SatAdd(now, dur)
      BY <2>t, <3>1, ShownInFull
    <3>3. Contract!Coherent'
      BY <3>1, <3>2, SameArithmetic DEF Contract!Coherent
    <3> QED BY <2>t, <3>1, <3>3 DEF StrictInv
  <2>3. ASSUME NEW dur \in Duration, NEW w \in Waiters, Contract!Request(w, dur)
        PROVE  StrictInv'
    <3>1. /\ now' = now /\ done' = done
          /\ Pending' = [Pending EXCEPT ![w] = [at |-> now, dur |-> dur]]
      BY <2>3 DEF Contract!Request
    <3>2. Pending' \in [Waiters -> Outstanding \cup {None}]
      BY <2>t, <3>1 DEF Outstanding
    <3>3. Contract!Coherent'
      BY <1>2, <3>1 DEF StrictInv, Contract!Coherent
    <3> QED BY <2>t, <3>1, <3>2, <3>3 DEF StrictInv
  <2>4. ASSUME NEW w \in Waiters, Contract!Complete(w) PROVE StrictInv'
    <3>1. Pending[w] \in Outstanding
      BY <2>t, <2>4 DEF Contract!Complete
    <3>2. PICK from \in Duration, dur \in Duration : Pending[w] = [at |-> from, dur |-> dur]
      BY <3>1 DEF Outstanding
    <3>3. /\ now' \in Duration /\ Contract!Shows(now', from, dur)
          /\ done' = [at |-> from, dur |-> dur, now |-> now']
          /\ Pending' = [Pending EXCEPT ![w] = None]
      BY <2>4, <3>2, SameArithmetic DEF Contract!Complete
    <3>4. now' >= SatAdd(from, dur)
      BY <3>3, ShownInFull
    <3>5. Contract!Coherent'
      BY <3>3, <3>4, SameArithmetic DEF Contract!Coherent
    <3>6. Pending' \in [Waiters -> Outstanding \cup {None}]
      BY <2>t, <3>3
    <3> QED BY <3>3, <3>5, <3>6 DEF StrictInv
  <2>5. ASSUME NEW w \in Waiters, Contract!Drop(w) PROVE StrictInv'
    <3>1. now' = now /\ done' = done /\ Pending' = [Pending EXCEPT ![w] = None]
      BY <2>5 DEF Contract!Drop
    <3>2. Pending' \in [Waiters -> Outstanding \cup {None}]
      BY <2>t, <3>1
    <3> QED BY <1>2, <3>1, <3>2 DEF StrictInv, Contract!Coherent
  <2>6. CASE UNCHANGED Contract!contractVars
    BY <1>2, <2>6 DEF StrictInv, Contract!Coherent, Contract!contractVars
  <2> QED BY <1>2, <2>1, <2>2, <2>3, <2>4, <2>5, <2>6, SameArithmetic DEF Contract!Next
<1>3. StrictInv /\ [Contract!Next]_(Contract!contractVars) => StrictInv'
  BY <1>2
<1>4. StrictInv => Contract!Coherent
  BY DEF StrictInv
<1> QED BY <1>1, <1>3, <1>4, PTL DEF ClockContractHolds, Contract!Spec

\* So a wait on the virtual clock that completed shows in full, to the tick, also where
\* the clock saturates.
THEOREM VirtualClockCoherent == Spec => []Contract!Coherent
<1> QED BY VirtualClockKeepsContract, StrictContractCoherent, PTL
=============================================================================
