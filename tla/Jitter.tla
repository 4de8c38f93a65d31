------------------------------- MODULE Jitter -------------------------------
(***************************************************************************)
(* Jittered<W> (wait/jitter.rs): instances built, cloned, reseeded and     *)
(* drawn from by several threads of one process.  The state is the         *)
(* process-wide nonce counter, the wall clock it may be mixed with, and    *)
(* each instance's seed and generator.  `origin` and `drawn` record where  *)
(* an instance's stream comes from and what was drawn from it since.       *)
(*                                                                         *)
(* Builds of the crate differ in what they can do atomically:              *)
(*   nonce      "std": the counter mixed with the wall clock;              *)
(*              "counter": the counter alone (no_std);                     *)
(*              "fixed": no pointer-width atomics, the nonce is 1;         *)
(*   atomic64   TRUE: the generator is an AtomicU64, shared by reference;  *)
(*              FALSE: a Cell, which makes Jittered !Sync.                 *)
(***************************************************************************)
EXTENDS Strategies, Sequences

CONSTANTS
  Threads, Instances,
  WordMax,       \* u64::MAX, in the ticks of Duration
  Exor(_, _),    \* exclusive or of two words
  Advance(_),    \* one step of the generator's state
  Mix(_),        \* the value drawn in a state
  DefaultSeed, Seeds, Nonces,    \* DEFAULT_JITTER_SEED; arguments of callers
  Kinds,         \* the jitter kinds instances are built with
  Bases,         \* what the inner strategy returns
  Builds,        \* the builds of the crate
  WallTimes,     \* readings of SystemTime against the epoch
  MaxNonces, MaxDraws  \* bounds: nonces issued, draws from one stream

Word == 0..WordMax
JitterKinds == [name : {"Additive", "Full", "Equal", "Decorrelated"}, max : Duration]

ASSUME WordAssumption ==
  /\ WordMax \in Nat \ {0}
  /\ \A a, b \in Word : Exor(a, b) \in Word /\ Exor(a, Exor(a, b)) = b
  /\ \A a \in Word : Advance(a) \in Word /\ Mix(a) \in Word
\* The generator: its state advances by a fixed increment, GAMMA, which is odd and so
\* leads through every word before one recurs; the mixing is a permutation.
ASSUME GeneratorAssumption ==
  /\ \E gamma \in Word :
       /\ \A a \in Word : Advance(a) = (a + gamma) % (WordMax + 1)
       /\ \A n \in 1..WordMax : (n * gamma) % (WordMax + 1) # 0
  /\ \A a, b \in Word : Mix(a) = Mix(b) => a = b
  /\ \A value \in Word : \E a \in Word : Mix(a) = value
ASSUME ArgumentsAssumption ==
  /\ DefaultSeed \in Word /\ Seeds \subseteq Word /\ Nonces \subseteq Word
  /\ Bases \subseteq Duration
  /\ Kinds \subseteq JitterKinds
  /\ WallTimes \subseteq Int /\ WallTimes # {}
  /\ Builds \subseteq [nonce : {"std", "counter", "fixed"}, atomic64 : BOOLEAN]
  /\ MaxNonces \in Word /\ MaxDraws \in 0..(WordMax + 1)

\* An instance, where its stream comes from, and what a thread is in the middle of.
Jittereds == [kind : Kinds, seed : Word, owner : Threads, rng : Word]
Origins == [by : {"fresh", "nonce", "seed"}, seed : Word, nonce : Word \cup {None}]
Constructions == [op : {"build"}, inst : Instances \cup {None}, kind : Kinds,
                  seed : Word, count : Word]
DrawsBegun == [op : {"draw"}, inst : Instances, next : Word]

ASSUME NoRecordAssumption ==
  None \notin Jittereds \cup Origins \cup Constructions \cup DrawsBegun

VARIABLES
  build,     \* the build that runs
  counter,   \* JITTER_NONCE_COUNTER
  wall,      \* SystemTime: it may be set, also backwards
  inst,      \* the instances: kind, seed, generator state, owning thread
  pc,        \* what each thread is in the middle of
  origin,    \* history: where the instance's stream comes from
  drawn      \* history: the generator states drawn from it, in order

vars == <<build, counter, wall, inst, pc, origin, drawn>>

Live == {i \in Instances : inst[i] # None}
Idle(t) == pc[t] = None

\* Mutant: a Cell-based generator is shared between threads.
ReachableByAll(t, i) == i \in Live

\* What a thread may reach through a reference: Jittered is Sync only when the
\* generator is an atomic.
Reachable(t, i) == i \in Live /\ (build.atomic64 \/ inst[i].owner = t)

\* with_seed, with_nonce and a move to another thread take the value itself.
Unborrowed(i) ==
  i \in Live /\ \A t \in Threads : ~Idle(t) => pc[t].inst # i

-----------------------------------------------------------------------------
(* Seeds and nonces. *)

\* Mutant: seed and nonce are added up.
SeededRngSum(seed, nonce) == seed + nonce
SeededRng(seed, nonce) == Exor(seed, nonce)

DeriveNonce(seed) == Mix(Advance(seed))

\* A time before the epoch reads as zero; as_nanos() as u64 keeps the low bits.
NanosNow == IF wall < 0 THEN 0 ELSE wall % (WordMax + 1)

\* next_jitter_nonce, after the counter was fetched.
Nonce(count) ==
  CASE build.nonce = "std"     -> Exor(count, NanosNow)
    [] build.nonce = "counter" -> count
    [] build.nonce = "fixed"   -> 1

-----------------------------------------------------------------------------
(* What a draw returns. *)

\* Mutant: the upper end is never drawn.
NextBoundedBelow(z, max) ==
  IF max = WordMax THEN Mix(z) ELSE Mix(z) % max

\* SplitMix64::next_bounded, in the advanced state z; max + 1 would overflow at
\* the largest word.
NextBounded(z, max) ==
  IF max = WordMax THEN Mix(z) ELSE Mix(z) % (max + 1)

\* The part of each formula that is not random, and the range of the draw.
DrawOf(kind, base, previous) ==
  CASE kind.name = "Additive"     -> [offset |-> base, lower |-> 0, upper |-> kind.max]
    [] kind.name = "Full"         -> [offset |-> 0, lower |-> 0, upper |-> base]
    [] kind.name = "Equal"        -> [offset |-> base \div 2, lower |-> 0,
                                      upper |-> base \div 2]
    [] kind.name = "Decorrelated" ->
         [offset |-> 0, lower |-> base,
          upper |-> SatMul(IF previous = None THEN base ELSE previous, 3)]

\* random_duration_in returns its lower end undrawn when the range is empty, and
\* clamps the range to a word.
Draws(d) == SatSub(d.upper, d.lower) > 0
Undrawn(d) == SatAdd(d.offset, d.lower)
RandomDuration(d, z) ==
  SatAdd(d.offset,
         SatAdd(d.lower, NextBounded(z, Least(SatSub(d.upper, d.lower), WordMax))))

\* Jittered::next_wait, when the generator draws z.
NextWaitOf(kind, base, previous, z) ==
  LET d == DrawOf(kind, base, previous) IN
    IF Draws(d) THEN RandomDuration(d, z) ELSE Undrawn(d)

-----------------------------------------------------------------------------
Init ==
  /\ build \in Builds
  /\ counter = 1
  /\ wall \in WallTimes
  /\ inst = [i \in Instances |-> None]
  /\ pc = [t \in Threads |-> None]
  /\ origin = [i \in Instances |-> None]
  /\ drawn = [i \in Instances |-> <<>>]

\* The wall clock runs on, or is set.
SystemTimeStep ==
  /\ build.nonce = "std"
  /\ wall' \in WallTimes \ {wall}
  /\ UNCHANGED <<build, counter, inst, pc, origin, drawn>>

\* Mutant: the counter is loaded and stored, so a thread that comes while another is
\* in between gets the same value.
FetchNonceTorn(t, kind, seed, from) ==
  LET loaded == {pc[u].count : u \in {v \in Threads : ~Idle(v) /\ pc[v].op = "build"}}
      count == IF loaded = {} THEN counter ELSE CHOOSE c \in loaded : TRUE
  IN
  /\ Idle(t)
  /\ counter <= MaxNonces
  /\ \E i \in Instances : i \notin Live
  /\ counter' = IF build.nonce = "fixed" THEN counter ELSE count + 1
  /\ pc' = [pc EXCEPT ![t] =
       [op |-> "build", inst |-> from, kind |-> kind, seed |-> seed,
        count |-> IF build.nonce = "fixed" THEN 1 ELSE count]]
  /\ UNCHANGED <<build, wall, inst, origin, drawn>>

\* next_jitter_nonce begins, for a construction or a clone: fetch_add on the
\* counter.  The wall clock is read, and the instance built, in a later step.
FetchNonce(t, kind, seed, from) ==
  /\ Idle(t)
  /\ counter <= MaxNonces
  /\ \E i \in Instances : i \notin Live
  /\ counter' = IF build.nonce = "fixed" THEN counter ELSE counter + 1
  /\ pc' = [pc EXCEPT ![t] =
       [op |-> "build", inst |-> from, kind |-> kind, seed |-> seed,
        count |-> IF build.nonce = "fixed" THEN 1 ELSE counter]]
  /\ UNCHANGED <<build, wall, inst, origin, drawn>>

\* Jittered::new, from jitter, full_jitter, equal_jitter, decorrelated_jitter.
New(t, kind) == FetchNonce(t, kind, DefaultSeed, None)

\* Clone for Jittered: the original's kind and seed, a nonce of its own.
Clone(t, i) == Reachable(t, i) /\ FetchNonce(t, inst[i].kind, inst[i].seed, i)

\* The rest of next_jitter_nonce and of the constructor that called it.
Build(t, i) ==
  /\ ~Idle(t) /\ pc[t].op = "build"
  /\ i \notin Live
  /\ inst' = [inst EXCEPT ![i] =
       [kind |-> pc[t].kind, seed |-> pc[t].seed, owner |-> t,
        rng |-> SeededRng(pc[t].seed, Nonce(pc[t].count))]]
  /\ origin' = [origin EXCEPT ![i] =
       [by |-> "fresh", seed |-> pc[t].seed, nonce |-> pc[t].count]]
  /\ drawn' = [drawn EXCEPT ![i] = <<>>]
  /\ pc' = [pc EXCEPT ![t] = None]
  /\ UNCHANGED <<build, counter, wall>>

Reseed(i, seed, rng, from) ==
  /\ Unborrowed(i)
  /\ inst' = [inst EXCEPT ![i].seed = seed, ![i].rng = rng]
  /\ origin' = [origin EXCEPT ![i] = from]
  /\ drawn' = [drawn EXCEPT ![i] = <<>>]
  /\ UNCHANGED <<build, counter, wall, pc>>

\* Mutant: the nonce of the instance outlives its seed.
WithSeedKeepsNonce(i, seed) ==
  Reseed(i, seed, SeededRng(seed, Exor(inst[i].seed, inst[i].rng)),
         [by |-> "seed", seed |-> seed, nonce |-> None])

WithSeed(i, seed) ==
  Reseed(i, seed, SeededRng(seed, DeriveNonce(seed)),
         [by |-> "seed", seed |-> seed, nonce |-> None])

WithNonce(i, nonce) ==
  i \in Live /\ Reseed(i, inst[i].seed, SeededRng(inst[i].seed, nonce),
                       [by |-> "nonce", seed |-> inst[i].seed, nonce |-> nonce])

\* Send: an instance no other thread refers to moves to another owner.
Move(i, t) ==
  /\ ~build.atomic64 /\ Unborrowed(i) /\ inst[i].owner # t
  /\ inst' = [inst EXCEPT ![i].owner = t]
  /\ UNCHANGED <<build, counter, wall, pc, origin, drawn>>

\* next_wait on an atomic generator: the draw is one fetch_add.  Without a range to
\* draw from, next_wait does not touch the generator.
NextWaitFetch(t, i) ==
  LET z == Advance(inst[i].rng) IN
  /\ build.atomic64
  /\ inst' = [inst EXCEPT ![i].rng = z]
  /\ drawn' = [drawn EXCEPT ![i] = Append(@, z)]
  /\ UNCHANGED <<build, counter, wall, pc, origin>>

\* next_wait on a Cell: the state is read, and written in a step of its own.
NextWaitGet(t, i) ==
  /\ ~build.atomic64
  /\ pc' = [pc EXCEPT ![t] = [op |-> "draw", inst |-> i, next |-> Advance(inst[i].rng)]]
  /\ UNCHANGED <<build, counter, wall, inst, origin, drawn>>

NextWait(t, i) ==
  /\ Idle(t) /\ Reachable(t, i) /\ Len(drawn[i]) < MaxDraws
  /\ \E base \in Bases, previous \in Bases \cup {None} :
       Draws(DrawOf(inst[i].kind, base, previous))
  /\ NextWaitFetch(t, i) \/ NextWaitGet(t, i)

NextWaitSet(t) ==
  /\ ~Idle(t) /\ pc[t].op = "draw"
  /\ inst' = [inst EXCEPT ![pc[t].inst].rng = pc[t].next]
  /\ drawn' = [drawn EXCEPT ![pc[t].inst] = Append(@, pc[t].next)]
  /\ pc' = [pc EXCEPT ![t] = None]
  /\ UNCHANGED <<build, counter, wall, origin>>

Next ==
  \/ SystemTimeStep
  \/ \E t \in Threads : NextWaitSet(t) \/ \E kind \in Kinds : New(t, kind)
  \/ \E t \in Threads, i \in Instances :
       Clone(t, i) \/ Build(t, i) \/ Move(i, t) \/ NextWait(t, i)
  \/ \E i \in Instances, seed \in Seeds : WithSeed(i, seed)
  \/ \E i \in Instances, nonce \in Nonces : WithNonce(i, nonce)

Spec == Init /\ [][Next]_vars

-----------------------------------------------------------------------------
(* Properties. *)

TypeOK ==
  /\ counter \in 1..(MaxNonces + 1)
  /\ wall \in WallTimes
  /\ inst \in [Instances -> Jittereds \cup {None}]
  /\ pc \in [Threads -> {None} \cup Constructions \cup DrawsBegun]
  /\ origin \in [Instances -> Origins \cup {None}]
  /\ \A i \in Instances : drawn[i] \in Seq(Word) /\ Len(drawn[i]) <= MaxDraws

\* "Concurrent callers interleave one stream, each drawing a distinct state": the
\* draws of all threads from an instance are the consecutive states of one
\* generator, none of them drawn twice (SplitMix64::advance).
OneStream ==
  \A i \in Live :
    /\ \A k \in 1..(Len(drawn[i]) - 1) : drawn[i][k + 1] = Advance(drawn[i][k])
    /\ \A k, l \in 1..Len(drawn[i]) :
         k # l => Mix(drawn[i][k]) # Mix(drawn[i][l])

\* The k-th values drawn from two instances, for every k both have reached.
SameSequence(i, j) ==
  \A k \in 1..Least(Len(drawn[i]), Len(drawn[j])) :
    Mix(drawn[i][k]) = Mix(drawn[j][k])
DifferentSequence(i, j) ==
  \A k \in 1..Least(Len(drawn[i]), Len(drawn[j])) :
    Mix(drawn[i][k]) # Mix(drawn[j][k])

\* with_seed alone pins the sequence, and so do a seed and a nonce: instances
\* whose last configuration agrees draw the same values, whatever was built,
\* cloned, reconfigured or drawn before (with_seed, with_nonce).
Pinned ==
  \A i, j \in Live : origin[i] = origin[j] => SameSequence(i, j)

\* Two instances, constructed or cloned by whichever threads, that share a seed and
\* each took a nonce when it was built, or were given different ones by the caller.
Apart(i, j) ==
  /\ i # j
  /\ origin[i].seed = origin[j].seed
  /\ \/ origin[i].by = "fresh" /\ origin[j].by = "fresh"
     \/ /\ origin[i].by = "nonce" /\ origin[j].by = "nonce"
        /\ origin[i].nonce # origin[j].nonce

\* Such instances differ in every draw, however their constructions interleaved, in the
\* builds whose nonce is the counter; for nonces given by the caller in all of them
\* (new, clone, with_nonce).
Decorrelated ==
  \A i, j \in Live :
    Apart(i, j) /\ (origin[i].by = "fresh" => build.nonce = "counter")
      => DifferentSequence(i, j)

\* "By default, each Jittered instance (including clones) receives a unique nonce so
\* independent retry loops produce different jitter sequences", in every build.
UniqueNonces == \A i, j \in Live : Apart(i, j) => DifferentSequence(i, j)

\* The strategy algebra's answer for a kind of jitter around a fixed base.
WaitRange(kind, base, previous) ==
  LET inner == WaitFixed(base)
      wait == CASE kind.name = "Additive"     -> JitterAdditive(inner, kind.max)
                [] kind.name = "Full"         -> JitterFull(inner)
                [] kind.name = "Equal"        -> JitterEqual(inner)
                [] kind.name = "Decorrelated" -> JitterDecorrelated(inner)
  IN  wait[RetryState(1, 0, previous)]

\* Whether the waits of a kind, over all generator states, are those the strategy
\* algebra gives: every value of the range up to a word above its lower end and no
\* other.
Exact(kind, base, previous) ==
  {NextWaitOf(kind, base, previous, z) : z \in Word}
    = {w \in WaitRange(kind, base, previous) :
         w <= Undrawn(DrawOf(kind, base, previous)) + WordMax}

\* The kinds for which some base and previous delay show a difference.
InexactKinds ==
  {case.kind : case \in
     {c \in [kind : JitterKinds, base : Duration, previous : OptDuration] :
        ~Exact(c.kind, c.base, c.previous)}}

\* Every instance, also a clone, can return exactly the waits of its range, where that
\* is empty, exceeds a word or passes the longest duration too (next_wait,
\* random_duration_in, next_bounded).
RangeExact == \A i \in Live : inst[i].kind \notin InexactKinds
=============================================================================
