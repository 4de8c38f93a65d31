----------------------------- MODULE WaitProofs -----------------------------
(***************************************************************************)
(* Theorems about the wait strategies: the jittered instances, for any     *)
(* number of threads and instances, any seeds and nonces, any word and any *)
(* interleaving of constructions, clones, reconfigurations and draws; the  *)
(* computation of exponential backoff, for any base, attempt and float     *)
(* range; and the algebra of strategies both are measured against.         *)
(***************************************************************************)
EXTENDS Jitter, Backoff, WellFoundedInduction, TLAPS

-----------------------------------------------------------------------------
(* Arithmetic modulo a word. *)

Modulus == WordMax + 1
Rem(x) == x % Modulus

\* What a remainder is: a word, a whole number of moduli away.
LEMMA Remainder ==
  ASSUME NEW x \in Nat
  PROVE  /\ Rem(x) \in Nat /\ Rem(x) < Modulus
         /\ \E m \in Nat : x = m * Modulus + Rem(x)
<1>1. Modulus \in Nat \ {0}
  BY WordAssumption DEF Modulus
<1>2. ASSUME NEW w \in Nat \ {0}
      PROVE  x \div w \in Nat /\ x = (x \div w) * w + (x % w) /\ x % w \in 0..(w - 1)
  OBVIOUS
<1>3. /\ x \div Modulus \in Nat /\ x = (x \div Modulus) * Modulus + (x % Modulus)
      /\ x % Modulus \in 0..(Modulus - 1)
  BY <1>1, <1>2
<1>4. Rem(x) = x % Modulus
  BY DEF Rem
<1> DEFINE m == x \div Modulus
<1>m. m \in Nat
  BY <1>3
<1>5. m \in Nat /\ x = m * Modulus + Rem(x) /\ Rem(x) \in 0..(Modulus - 1)
  BY <1>3, <1>4
<1>6. Rem(x) \in Nat /\ Rem(x) < Modulus
  BY <1>1, <1>5
<1>7. \E k \in Nat : x = k * Modulus + Rem(x)
  <2> HIDE DEF m
  <2> USE <1>m
  <2> WITNESS m \in Nat
  <2> QED BY <1>5
<1> QED BY <1>6, <1>7

\* Two remainders that a whole number of moduli separates are the same.
LEMMA OneRemainder ==
  ASSUME NEW r \in Nat, NEW s \in Nat, NEW m \in Nat, NEW n \in Nat, NEW w \in Nat \ {0},
         r < w, s < w, m * w + r = n * w + s
  PROVE  r = s
<1>1. m * w \in Int /\ n * w \in Int
  OBVIOUS
<1>2. ASSUME m + 1 <= n PROVE FALSE
  <2>1. (m + 1) * w <= n * w /\ (m + 1) * w = m * w + w
    BY <1>2
  <2> QED BY <1>1, <2>1
<1>3. ASSUME n + 1 <= m PROVE FALSE
  <2>1. (n + 1) * w <= m * w /\ (n + 1) * w = n * w + w
    BY <1>3
  <2> QED BY <1>1, <2>1
<1>4. m = n
  BY <1>2, <1>3
<1> QED BY <1>1, <1>4

\* A word that a whole number of moduli separates from x is the remainder of x.
LEMMA RemainderIs ==
  ASSUME NEW x \in Nat, NEW r \in Nat, NEW m \in Nat, r < Modulus, x = m * Modulus + r
  PROVE  Rem(x) = r
<1>1. Modulus \in Nat \ {0}
  BY WordAssumption DEF Modulus
<1>2. Rem(x) \in Nat /\ Rem(x) < Modulus
  BY Remainder
<1>3. PICK n \in Nat : x = n * Modulus + Rem(x)
  BY Remainder
<1> QED BY <1>1, <1>2, <1>3, OneRemainder

-----------------------------------------------------------------------------
(* The generator. *)

\* GAMMA, as the assumption on the generator gives it.
Increment ==
  CHOOSE gamma \in Word :
    /\ \A a \in Word : Advance(a) = (a + gamma) % (WordMax + 1)
    /\ \A n \in 1..WordMax : (n * gamma) % (WordMax + 1) # 0

\* The state n draws after a.
StateAfter(a, n) == Rem(a + n * Increment)

\* What the proofs use of the generator's state.
LEMMA IncrementFact ==
  /\ Increment \in Nat
  /\ Modulus \in Nat \ {0} /\ Modulus = WordMax + 1 /\ WordMax \in Nat
  /\ \A a : a \in Word <=> a \in Nat /\ a < Modulus
  /\ \A a \in Word : Advance(a) = Rem(a + Increment)
  /\ \A n \in 1..WordMax : Rem(n * Increment) # 0
<1>1. WordMax \in Nat /\ Modulus = WordMax + 1 /\ Word = 0..WordMax
  BY WordAssumption DEF Modulus, Word
<1>2. /\ Increment \in Word
      /\ \A a \in Word : Advance(a) = (a + Increment) % (WordMax + 1)
      /\ \A n \in 1..WordMax : (n * Increment) % (WordMax + 1) # 0
  BY GeneratorAssumption DEF Increment
<1>3. \A a \in Word : Advance(a) = Rem(a + Increment)
  BY <1>2 DEF Rem, Modulus
<1>4. \A n \in 1..WordMax : Rem(n * Increment) # 0
  BY <1>2 DEF Rem, Modulus
<1> QED BY <1>1, <1>2, <1>3, <1>4

\* States are words, the first is where the generator starts, and each is followed by
\* its successor (SplitMix64::advance).
LEMMA StatesFollow ==
  ASSUME NEW a \in Word, NEW n \in Nat
  PROVE  /\ StateAfter(a, n) \in Word
         /\ StateAfter(a, 0) = a
         /\ Advance(StateAfter(a, n)) = StateAfter(a, n + 1)
<1> DEFINE w == Modulus
           g == Increment
           x == a + n * g
           y == a + (n + 1) * g
           r == Rem(x)
           u == r + g
           t == Rem(u)
<1>1. w \in Nat \ {0} /\ g \in Nat /\ a \in Nat /\ a < w
  BY IncrementFact
<1>2. StateAfter(a, n) = r /\ StateAfter(a, n + 1) = Rem(y) /\ StateAfter(a, 0) = Rem(a + 0 * g)
  BY DEF StateAfter
<1>3. n * g \in Nat /\ (n + 1) * g = n * g + g /\ 0 * g = 0
  BY <1>1
<1>4. x \in Nat /\ y \in Nat /\ y = x + g
  BY <1>1, <1>3
<1>5. r \in Nat /\ r < w /\ r \in Word
  BY <1>4, Remainder, IncrementFact
<1>6. PICK m \in Nat : x = m * w + r
  BY <1>4, Remainder
<1>u. u \in Nat /\ u = r + g
  BY <1>1, <1>5
<1>7. t \in Nat /\ t < w /\ Advance(r) = t
  <2>1. t \in Nat /\ t < w
    BY <1>u, Remainder
  <2>2. Advance(r) = Rem(r + g)
    BY <1>5, IncrementFact
  <2> QED BY <2>1, <2>2
<1>8. PICK q \in Nat : u = q * w + t
  BY <1>u, Remainder
<1> DEFINE j == m + q
<1>9. m * w \in Nat /\ q * w \in Nat /\ j * w = m * w + q * w /\ j \in Nat
  BY <1>1, <1>6, <1>8
<1> HIDE DEF x, y, r, t, u, j
<1>10. y = j * w + t
  BY <1>1, <1>u, <1>4, <1>5, <1>6, <1>7, <1>8, <1>9
<1>11. Rem(y) = t
  BY <1>4, <1>7, <1>9, <1>10, RemainderIs
<1>12. Rem(a + 0 * g) = a
  <2>1. a + 0 * g = 0 * w + a
    BY <1>1, <1>3
  <2> QED BY <1>1, <1>3, <2>1, RemainderIs
<1> QED BY <1>2, <1>5, <1>7, <1>11, <1>12

\* Generators that start apart stay apart: after n draws each, their states differ.
LEMMA StatesApart ==
  ASSUME NEW a \in Word, NEW b \in Word, NEW n \in Nat,
         StateAfter(a, n) = StateAfter(b, n)
  PROVE  a = b
<1> DEFINE w == Modulus
           d == n * Increment
           x == a + d
           y == b + d
           r == Rem(x)
<1>1. w \in Nat \ {0} /\ a \in Nat /\ a < w /\ b \in Nat /\ b < w /\ d \in Nat
  BY IncrementFact
<1>2. r = Rem(y)
  BY DEF StateAfter
<1>3. x \in Nat /\ y \in Nat
  BY <1>1
<1>4. r \in Nat
  BY <1>3, Remainder
<1>5. PICK m \in Nat : x = m * w + r
  BY <1>3, Remainder
<1>6. PICK k \in Nat : y = k * w + r
  BY <1>2, <1>3, Remainder
<1>7. m * w \in Nat /\ k * w \in Nat
  BY <1>1, <1>5, <1>6
<1> HIDE DEF r
<1>8. k * w + a = m * w + b
  <2> HIDE DEF d
  <2> QED BY <1>1, <1>4, <1>5, <1>6, <1>7
<1> HIDE DEF w
<1> QED BY <1>1, <1>5, <1>6, <1>8, OneRemainder

\* Within a period no state recurs: GAMMA is odd.
LEMMA NoStateRecurs ==
  ASSUME NEW a \in Word, NEW k \in Nat, NEW l \in Nat, k < l, l - k <= WordMax
  PROVE  StateAfter(a, k) # StateAfter(a, l)
<1> SUFFICES ASSUME StateAfter(a, k) = StateAfter(a, l) PROVE FALSE
  OBVIOUS
<1> DEFINE w == Modulus
           g == Increment
           x == a + k * g
           y == a + l * g
           d == (l - k) * g
           r == Rem(x)
           e == Rem(d)
<1>1. w \in Nat \ {0} /\ g \in Nat /\ a \in Nat
  BY IncrementFact
<1>2. e # 0
  <2>1. l - k \in 1..WordMax
    BY IncrementFact
  <2> QED BY <2>1, IncrementFact
<1>3. r = Rem(y)
  BY DEF StateAfter
<1>4. k * g \in Nat /\ l * g \in Nat /\ d \in Nat /\ d = l * g - k * g
  BY <1>1
<1>5. x \in Nat /\ y \in Nat /\ y = x + d
  BY <1>1, <1>4
<1>6. r \in Nat /\ e \in Nat /\ e < w
  BY <1>4, <1>5, Remainder
<1>7. PICK m \in Nat : x = m * w + r
  BY <1>5, Remainder
<1>8. PICK n \in Nat : y = n * w + r
  BY <1>3, <1>5, Remainder
<1>9. PICK q \in Nat : d = q * w + e
  BY <1>4, Remainder
<1> DEFINE j == m + q
<1>10. /\ m * w \in Nat /\ n * w \in Nat /\ q * w \in Nat
       /\ j * w = m * w + q * w /\ j \in Nat
  BY <1>1, <1>7, <1>8, <1>9
<1> HIDE DEF x, y, d, r, e, j, w
<1>11. j * w + e = n * w + 0
  <2>1. x \in Int /\ y \in Int /\ d \in Int /\ y = x + d
    BY <1>4, <1>5
  <2>2. n * w = m * w + d
    BY <1>6, <1>7, <1>8, <1>10, <2>1
  <2> QED BY <1>6, <1>9, <1>10, <2>1, <2>2
<1>12. e = 0
  BY <1>1, <1>6, <1>8, <1>10, <1>11, OneRemainder
<1> QED BY <1>2, <1>12

-----------------------------------------------------------------------------
(* The inductive invariant. *)

\* The generator in state rng, from which the states s were drawn, started in a.
Follows(a, rng, s) ==
  /\ rng = StateAfter(a, Len(s))
  /\ \A k \in 1..Len(s) : s[k] = StateAfter(a, k)

\* Where an instance starts, as its seed and its nonce give it; with std a nonce of
\* its own also depends on the wall clock.
Beginning(o) == SeededRng(o.seed, IF o.by = "seed" THEN DeriveNonce(o.seed) ELSE o.nonce)
Settled(i) == build.nonce = "std" => origin[i].by # "fresh"

OnStream(i) ==
  /\ origin[i] \in Origins
  /\ origin[i].by # "seed" => origin[i].nonce \in Word
  /\ \E a \in Word : /\ Settled(i) => a = Beginning(origin[i])
                     /\ Follows(a, inst[i].rng, drawn[i])

Building(t) == ~Idle(t) /\ pc[t].op = "build"
Drawing(t) == ~Idle(t) /\ pc[t].op = "draw"
Fresh(i) == i \in Live /\ origin[i].by = "fresh"

\* A draw in two steps is its owner's: nothing happens to the generator in between.
DrawsOwned ==
  \A t \in Threads : Drawing(t) =>
    /\ ~build.atomic64
    /\ pc[t].inst \in Live
    /\ inst[pc[t].inst].owner = t
    /\ Len(drawn[pc[t].inst]) < MaxDraws
    /\ pc[t].next = Advance(inst[pc[t].inst].rng)

\* Where there is a counter, no value of it is used twice.
NoncesFresh ==
  /\ build.nonce = "fixed" => \A t \in Threads : Building(t) => pc[t].count = 1
  /\ build.nonce # "fixed" =>
       /\ \A t \in Threads : Building(t) => pc[t].count < counter
       /\ \A i \in Instances : Fresh(i) => origin[i].nonce < counter
       /\ \A t, u \in Threads :
            Building(t) /\ Building(u) /\ pc[t].count = pc[u].count => t = u
       /\ \A i, j \in Instances :
            Fresh(i) /\ Fresh(j) /\ origin[i].nonce = origin[j].nonce => i = j
       /\ \A t \in Threads, i \in Instances :
            Building(t) /\ Fresh(i) => pc[t].count # origin[i].nonce

Typed == TypeOK /\ build \in Builds /\ drawn \in [Instances -> Seq(Word)]
Streams == \A i \in Live : OnStream(i)

Inv == Typed /\ Streams /\ DrawsOwned /\ NoncesFresh

\* A generator that has just been built or reseeded.
LEMMA FollowsStart ==
  ASSUME NEW a \in Word
  PROVE  Follows(a, a, <<>>)
BY StatesFollow DEF Follows

\* What a draw appends.
LEMMA Appended ==
  ASSUME NEW s \in Seq(Word), NEW z \in Word
  PROVE  /\ Append(s, z) \in Seq(Word)
         /\ Len(s) \in Nat /\ Len(Append(s, z)) = Len(s) + 1
         /\ \A k \in 1..Len(s) : Append(s, z)[k] = s[k]
         /\ Append(s, z)[Len(s) + 1] = z
OBVIOUS

\* A draw is the next state of the stream it is drawn from.
LEMMA FollowsDraw ==
  ASSUME NEW a \in Word, NEW rng, NEW s \in Seq(Word), Follows(a, rng, s)
  PROVE  Advance(rng) \in Word /\ Follows(a, Advance(rng), Append(s, Advance(rng)))
<1> DEFINE z == Advance(rng)
           n == Len(s)
<1>1. n \in Nat /\ rng = StateAfter(a, n)
  BY DEF Follows
<1>2. z = StateAfter(a, n + 1) /\ z \in Word
  BY <1>1, StatesFollow, WordAssumption
<1>3. /\ Len(Append(s, z)) = n + 1
      /\ \A k \in 1..n : Append(s, z)[k] = s[k]
      /\ Append(s, z)[n + 1] = z
  BY <1>2, Appended
<1> HIDE DEF z
<1>4. ASSUME NEW k \in 1..(n + 1) PROVE Append(s, z)[k] = StateAfter(a, k)
  <2>1. CASE k = n + 1
    BY <1>2, <1>3, <2>1
  <2>2. CASE k # n + 1
    <3>1. k \in 1..n
      BY <1>1, <2>2
    <3> QED BY <1>3, <3>1 DEF Follows
  <2> QED BY <2>1, <2>2
<1>5. Follows(a, z, Append(s, z))
  BY <1>2, <1>3, <1>4 DEF Follows
<1> QED BY <1>2, <1>5 DEF z

\* Steps that leave an instance's generator and history alone leave its stream alone.
LEMMA StreamKept ==
  ASSUME NEW i, OnStream(i), UNCHANGED build, inst'[i].rng = inst[i].rng,
         origin'[i] = origin[i], drawn'[i] = drawn[i]
  PROVE  OnStream(i)'
BY DEF OnStream, Settled, Follows

\* What the invariant says of the types of a live instance and of a busy thread.
LEMMA Types ==
  ASSUME Typed
  PROVE  /\ build \in [nonce : {"std", "counter", "fixed"}, atomic64 : BOOLEAN]
         /\ counter \in 1..(MaxNonces + 1) /\ wall \in WallTimes
         /\ inst \in [Instances -> Jittereds \cup {None}]
         /\ pc \in [Threads -> {None} \cup Constructions \cup DrawsBegun]
         /\ origin \in [Instances -> Origins \cup {None}]
         /\ drawn \in [Instances -> Seq(Word)]
         /\ \A i \in Instances : Len(drawn[i]) \in Nat /\ Len(drawn[i]) <= MaxDraws
         /\ \A i \in Live : i \in Instances /\ inst[i] \in Jittereds
         /\ \A t \in Threads : Building(t) => pc[t] \in Constructions
         /\ \A t \in Threads : Drawing(t) => pc[t] \in DrawsBegun
<1>1. /\ inst \in [Instances -> Jittereds \cup {None}]
      /\ pc \in [Threads -> {None} \cup Constructions \cup DrawsBegun]
      /\ drawn \in [Instances -> Seq(Word)]
  BY DEF Typed, TypeOK
<1>2. \A i \in Instances : Len(drawn[i]) \in Nat /\ Len(drawn[i]) <= MaxDraws
  BY <1>1 DEF Typed, TypeOK
<1>3. \A i \in Live : i \in Instances /\ inst[i] \in Jittereds
  BY <1>1 DEF Live
<1>4. \A t \in Threads : Building(t) => pc[t] \in Constructions
  BY <1>1 DEF Building, Idle, DrawsBegun
<1>5. \A t \in Threads : Drawing(t) => pc[t] \in DrawsBegun
  BY <1>1 DEF Drawing, Idle, Constructions
<1> QED BY <1>1, <1>2, <1>3, <1>4, <1>5, ArgumentsAssumption DEF Typed, TypeOK

\* A nonce is a word, whatever the wall clock shows.
LEMMA NonceIsWord ==
  ASSUME Typed, NEW count \in Word
  PROVE  /\ Nonce(count) \in Word
         /\ build.nonce = "counter" => Nonce(count) = count
         /\ build.nonce = "fixed" => Nonce(count) = 1
<1>1. WordMax \in Nat \ {0} /\ Modulus = WordMax + 1 /\ 1 \in Word
      /\ \A a : a \in Word <=> a \in Nat /\ a < Modulus
  BY WordAssumption, IncrementFact DEF Word
<1>2. wall \in Int
  BY Types, ArgumentsAssumption
<1>3. NanosNow \in Word
  <2>1. CASE wall < 0
    BY <1>1, <2>1 DEF NanosNow
  <2>2. CASE ~(wall < 0)
    <3>1. wall \in Nat /\ NanosNow = Rem(wall)
      BY <1>2, <2>2 DEF NanosNow, Rem, Modulus
    <3> QED BY <1>1, <3>1, Remainder
  <2> QED BY <2>1, <2>2
<1>4. build.nonce \in {"std", "counter", "fixed"}
  BY Types
<1> QED BY <1>1, <1>3, <1>4, WordAssumption DEF Nonce

\* Seeds and nonces are combined into words, and a nonce can be told from the result.
LEMMA SeededRngWords ==
  ASSUME NEW seed \in Word, NEW m \in Word, NEW n \in Word
  PROVE  /\ SeededRng(seed, m) \in Word
         /\ DeriveNonce(seed) \in Word
         /\ SeededRng(seed, m) = SeededRng(seed, n) => m = n
<1>1. SeededRng(seed, m) \in Word /\ DeriveNonce(seed) \in Word
  BY WordAssumption DEF SeededRng, DeriveNonce
<1>2. ASSUME Exor(seed, m) = Exor(seed, n) PROVE m = n
  <2>1. Exor(seed, Exor(seed, m)) = m /\ Exor(seed, Exor(seed, n)) = n
    BY WordAssumption
  <2> QED BY <1>2, <2>1
<1> QED BY <1>1, <1>2 DEF SeededRng

-----------------------------------------------------------------------------
(* What the invariant is for. *)

\* Two threads, one stream: consecutive states, none twice.
LEMMA StreamsAreOne == Inv => OneStream
<1> SUFFICES ASSUME Inv, NEW i \in Live
             PROVE  /\ \A k \in 1..(Len(drawn[i]) - 1) : drawn[i][k + 1] = Advance(drawn[i][k])
                    /\ \A k, l \in 1..Len(drawn[i]) :
                         k # l => Mix(drawn[i][k]) # Mix(drawn[i][l])
  BY DEF OneStream
<1>1. PICK a \in Word : \A k \in 1..Len(drawn[i]) : drawn[i][k] = StateAfter(a, k)
  BY DEF Inv, Streams, OnStream, Follows
<1> DEFINE n == Len(drawn[i])
<1>2. n \in Nat /\ n <= MaxDraws /\ MaxDraws <= WordMax + 1 /\ WordMax \in Nat
      /\ MaxDraws \in Nat
  BY Types, ArgumentsAssumption, IncrementFact DEF Inv
<1> HIDE DEF n
<1>3. ASSUME NEW k \in 1..(n - 1) PROVE drawn[i][k + 1] = Advance(drawn[i][k])
  <2>1. k \in Nat /\ k \in 1..n /\ k + 1 \in 1..n
    BY <1>2
  <2>2. drawn[i][k] = StateAfter(a, k) /\ drawn[i][k + 1] = StateAfter(a, k + 1)
    BY <1>1, <2>1 DEF n
  <2>3. Advance(StateAfter(a, k)) = StateAfter(a, k + 1)
    BY <2>1, StatesFollow
  <2> QED BY <2>2, <2>3
<1>4. ASSUME NEW k \in 1..n, NEW l \in 1..n, k < l
      PROVE  Mix(drawn[i][k]) # Mix(drawn[i][l])
  <2>1. k \in Nat /\ l \in Nat /\ l - k <= WordMax
    BY <1>2, <1>4
  <2>2. drawn[i][k] = StateAfter(a, k) /\ drawn[i][l] = StateAfter(a, l)
    BY <1>1 DEF n
  <2>3. StateAfter(a, k) # StateAfter(a, l)
    BY <1>4, <2>1, NoStateRecurs
  <2>4. StateAfter(a, k) \in Word /\ StateAfter(a, l) \in Word
    BY <2>1, StatesFollow
  <2> QED BY <2>2, <2>3, <2>4, GeneratorAssumption
<1>5. ASSUME NEW k \in 1..n, NEW l \in 1..n, k # l
      PROVE  Mix(drawn[i][k]) # Mix(drawn[i][l])
  <2>1. k < l \/ l < k
    BY <1>2, <1>5
  <2> QED BY <1>4, <2>1
<1> QED BY <1>3, <1>5 DEF n

\* Equal configurations, equal sequences.
LEMMA StreamsPinned == Inv => Pinned
<1> SUFFICES ASSUME Inv, NEW i \in Live, NEW j \in Live, origin[i] = origin[j],
                    NEW k \in 1..Least(Len(drawn[i]), Len(drawn[j]))
             PROVE  Mix(drawn[i][k]) = Mix(drawn[j][k])
  BY DEF Pinned, SameSequence
<1>1. k \in 1..Len(drawn[i]) /\ k \in 1..Len(drawn[j]) /\ i \in Instances /\ j \in Instances
  BY Types DEF Inv, Least
<1>2. OnStream(i) /\ OnStream(j)
  BY DEF Inv, Streams
<1>3. CASE Settled(i)
  <2>1. Settled(j)
    BY <1>3 DEF Settled
  <2>2. drawn[i][k] = StateAfter(Beginning(origin[i]), k)
    BY <1>1, <1>2, <1>3 DEF OnStream, Follows
  <2>3. drawn[j][k] = StateAfter(Beginning(origin[j]), k)
    BY <1>1, <1>2, <2>1 DEF OnStream, Follows
  <2> QED BY <2>2, <2>3
<1>4. CASE ~Settled(i)
  <2>1. Fresh(i) /\ Fresh(j) /\ build.nonce # "fixed"
    BY <1>4 DEF Settled, Fresh
  <2>2. i = j
    BY <1>1, <2>1 DEF Inv, NoncesFresh
  <2> QED BY <2>2
<1> QED BY <1>3, <1>4

\* Distinct nonces, sequences that differ in every draw; no two constructions are handed
\* one value of the counter.
LEMMA StreamsDecorrelated == Inv => Decorrelated
<1> SUFFICES ASSUME Inv, NEW i \in Live, NEW j \in Live, Apart(i, j),
                    origin[i].by = "fresh" => build.nonce = "counter",
                    NEW k \in 1..Least(Len(drawn[i]), Len(drawn[j])),
                    Mix(drawn[i][k]) = Mix(drawn[j][k])
             PROVE  FALSE
  BY DEF Decorrelated, DifferentSequence
<1>1. k \in 1..Len(drawn[i]) /\ k \in 1..Len(drawn[j]) /\ i \in Instances /\ j \in Instances
      /\ k \in Nat
  BY Types DEF Inv, Least
<1>2. OnStream(i) /\ OnStream(j)
  BY DEF Inv, Streams
<1>3. Settled(i) /\ Settled(j)
  BY DEF Settled, Apart
<1> DEFINE a == Beginning(origin[i])
           b == Beginning(origin[j])
<1>4. /\ origin[i] \in Origins /\ origin[i].nonce \in Word
      /\ origin[j] \in Origins /\ origin[j].nonce \in Word
      /\ origin[i].by # "seed" /\ origin[j].by # "seed"
  BY <1>2 DEF OnStream, Apart
<1>5. /\ origin[i].seed \in Word /\ origin[i].seed = origin[j].seed
      /\ origin[i].nonce # origin[j].nonce
  <2>1. CASE origin[i].by = "fresh"
    <3>1. Fresh(i) /\ Fresh(j) /\ i # j /\ build.nonce = "counter"
      BY <2>1 DEF Apart, Fresh
    <3> QED BY <1>1, <1>4, <3>1 DEF Apart, Origins, Inv, NoncesFresh
  <2>2. CASE origin[i].by # "fresh"
    BY <1>4, <2>2 DEF Apart, Origins
  <2> QED BY <2>1, <2>2
<1>6. a \in Word /\ b \in Word /\ a # b
  BY <1>4, <1>5, SeededRngWords DEF Beginning
<1>7. drawn[i][k] = StateAfter(a, k) /\ drawn[j][k] = StateAfter(b, k)
  BY <1>1, <1>2, <1>3 DEF OnStream, Follows
<1> HIDE DEF a, b
<1>8. StateAfter(a, k) = StateAfter(b, k)
  BY <1>1, <1>6, <1>7, StatesFollow, GeneratorAssumption
<1> QED BY <1>1, <1>6, <1>8, StatesApart

-----------------------------------------------------------------------------
(* The invariant holds, step by step. *)

\* No instance has been built when the process starts.
LEMMA InitInv == Init => Inv
<1> SUFFICES ASSUME Init PROVE Inv
  OBVIOUS
<1>1. /\ build \in Builds /\ counter = 1 /\ wall \in WallTimes
      /\ inst = [i \in Instances |-> None] /\ pc = [t \in Threads |-> None]
      /\ origin = [i \in Instances |-> None] /\ drawn = [i \in Instances |-> <<>>]
  BY DEF Init
<1>2. Live = {} /\ \A t \in Threads : ~Building(t) /\ ~Drawing(t)
  BY <1>1 DEF Live, Building, Drawing, Idle
<1>3. counter \in 1..(MaxNonces + 1)
  BY <1>1, ArgumentsAssumption, IncrementFact
<1>4. drawn \in [Instances -> Seq(Word)]
      /\ \A i \in Instances : drawn[i] \in Seq(Word) /\ Len(drawn[i]) <= MaxDraws
  BY <1>1, ArgumentsAssumption, IncrementFact
<1>5. Typed
  BY <1>1, <1>3, <1>4 DEF Typed, TypeOK
<1>6. NoncesFresh
  BY <1>2 DEF NoncesFresh, Fresh
<1> QED BY <1>2, <1>5, <1>6 DEF Inv, Streams, DrawsOwned

\* The wall clock is read by nobody but next_jitter_nonce, when it needs it.
LEMMA SystemTimeKeeps ==
  ASSUME Inv, SystemTimeStep
  PROVE  Inv'
<1>1. wall' \in WallTimes /\ UNCHANGED <<build, counter, inst, pc, origin, drawn>>
  BY DEF SystemTimeStep
<1>2. Typed'
  BY <1>1 DEF Inv, Typed, TypeOK
<1>3. Streams'
  BY <1>1, StreamKept DEF Inv, Streams, Live
<1>4. DrawsOwned'
  BY <1>1 DEF Inv, DrawsOwned, Drawing, Idle, Live
<1>5. NoncesFresh'
  BY <1>1 DEF Inv, NoncesFresh, Building, Idle, Fresh, Live
<1> QED BY <1>2, <1>3, <1>4, <1>5 DEF Inv

\* A thread takes a nonce: no other has it, and none will (fetch_add).
LEMMA FetchNonceKeeps ==
  ASSUME Inv, NEW t \in Threads, NEW kind \in Kinds, NEW seed \in Word,
         NEW from \in Instances \cup {None}, FetchNonce(t, kind, seed, from)
  PROVE  Inv'
<1> DEFINE count == IF build.nonce = "fixed" THEN 1 ELSE counter
           begun == [op |-> "build", inst |-> from, kind |-> kind, seed |-> seed,
                     count |-> count]
<1>t. /\ counter \in 1..(MaxNonces + 1)
      /\ inst \in [Instances -> Jittereds \cup {None}]
      /\ pc \in [Threads -> {None} \cup Constructions \cup DrawsBegun]
      /\ drawn \in [Instances -> Seq(Word)]
  BY Types DEF Inv
<1>1. /\ Idle(t) /\ counter <= MaxNonces
      /\ counter' = IF build.nonce = "fixed" THEN counter ELSE counter + 1
      /\ pc' = [pc EXCEPT ![t] = begun]
      /\ UNCHANGED <<build, wall, inst, origin, drawn>>
  BY DEF FetchNonce
<1>2. MaxNonces \in Nat /\ MaxNonces < Modulus /\ counter \in Nat /\ 1 <= counter
      /\ counter' \in 1..(MaxNonces + 1)
  BY <1>t, <1>1, ArgumentsAssumption, IncrementFact
<1>3. count \in Word
  BY <1>1, <1>2, IncrementFact
<1>4. begun \in Constructions
  BY <1>3 DEF Constructions
<1>5. begun.op = "build" /\ begun.count = count /\ begun # None
  BY <1>4, NoRecordAssumption
<1>c. /\ build.nonce = "fixed" => count = 1
      /\ build.nonce # "fixed" => count = counter /\ counter' = counter + 1
  BY <1>1
<1> HIDE DEF begun, count
<1>6. Typed'
  BY <1>t, <1>1, <1>2, <1>4 DEF Inv, Typed, TypeOK
<1>7. pc'[t] = begun /\ \A u \in Threads : u # t => pc'[u] = pc[u]
  BY <1>t, <1>1
<1>8. Streams'
  BY <1>1, StreamKept DEF Inv, Streams, Live
<1>9. DrawsOwned'
  <2>1. \A u \in Threads : Drawing(u)' => u # t /\ Drawing(u) /\ pc'[u] = pc[u]
    BY <1>5, <1>7 DEF Drawing, Idle
  <2> QED BY <1>1, <2>1 DEF Inv, DrawsOwned, Live
<1>10. NoncesFresh'
  <2>1. \A u \in Threads : Building(u)' =>
          \/ u = t /\ pc'[u].count = count
          \/ u # t /\ Building(u) /\ pc'[u].count = pc[u].count
    BY <1>5, <1>7 DEF Building, Idle
  <2>2. \A i \in Instances : Fresh(i)' <=> Fresh(i)
    BY <1>1 DEF Fresh, Live
  <2>3. \A u \in Threads : Building(u) => pc[u].count \in Nat
    BY Types, IncrementFact DEF Inv, Constructions
  <2>4. \A i \in Instances : Fresh(i) => origin[i].nonce \in Nat
    BY IncrementFact DEF Inv, Streams, OnStream, Fresh
  <2>5. CASE build.nonce = "fixed"
    BY <1>1, <1>c, <2>1, <2>5 DEF Inv, NoncesFresh
  <2>6. CASE build.nonce # "fixed"
    <3>1. \A u \in Threads : Building(u) => pc[u].count < counter
      BY <2>6 DEF Inv, NoncesFresh
    <3>2. \A i \in Instances : Fresh(i) => origin[i].nonce < counter
      BY <2>6 DEF Inv, NoncesFresh
    <3>3. \A u \in Threads : Building(u)' => pc'[u].count < counter'
      BY <1>2, <1>c, <2>1, <2>3, <2>6, <3>1
    <3>4. \A i \in Instances : Fresh(i)' => origin'[i].nonce < counter'
      BY <1>1, <1>2, <1>c, <2>2, <2>4, <2>6, <3>2
    <3>5. \A u, v \in Threads :
            Building(u)' /\ Building(v)' /\ pc'[u].count = pc'[v].count => u = v
      BY <1>2, <1>c, <2>1, <2>3, <2>6, <3>1 DEF Inv, NoncesFresh
    <3>6. \A u \in Threads, i \in Instances :
            Building(u)' /\ Fresh(i)' => pc'[u].count # origin'[i].nonce
      BY <1>1, <1>2, <1>c, <2>1, <2>2, <2>4, <2>6, <3>2 DEF Inv, NoncesFresh
    <3> QED BY <1>1, <2>2, <2>6, <3>3, <3>4, <3>5, <3>6 DEF Inv, NoncesFresh
  <2> QED BY <2>5, <2>6
<1> QED BY <1>6, <1>8, <1>9, <1>10 DEF Inv

\* A construction completes: the instance's stream begins at its seed and its nonce.
LEMMA BuildKeeps ==
  ASSUME Inv, NEW t \in Threads, NEW i \in Instances, Build(t, i)
  PROVE  Inv'
<1> DEFINE count == pc[t].count
           seed == pc[t].seed
           rng == SeededRng(seed, Nonce(count))
           made == [kind |-> pc[t].kind, seed |-> seed, owner |-> t, rng |-> rng]
           from == [by |-> "fresh", seed |-> seed, nonce |-> count]
<1>t. /\ inst \in [Instances -> Jittereds \cup {None}]
      /\ pc \in [Threads -> {None} \cup Constructions \cup DrawsBegun]
      /\ origin \in [Instances -> Origins \cup {None}]
      /\ drawn \in [Instances -> Seq(Word)]
  BY Types DEF Inv
<1>1. /\ Building(t) /\ i \notin Live
      /\ inst' = [inst EXCEPT ![i] = made] /\ origin' = [origin EXCEPT ![i] = from]
      /\ drawn' = [drawn EXCEPT ![i] = <<>>] /\ pc' = [pc EXCEPT ![t] = None]
      /\ UNCHANGED <<build, counter, wall>>
  BY DEF Build, Building
<1>2. count \in Word /\ seed \in Word /\ pc[t].kind \in Kinds
  BY <1>1, Types DEF Inv, Constructions
<1>3. Nonce(count) \in Word /\ rng \in Word
  BY <1>2, NonceIsWord, SeededRngWords DEF Inv
<1>4. made \in Jittereds /\ from \in Origins
  BY <1>2, <1>3 DEF Jittereds, Origins
<1>5. made # None /\ made.rng = rng /\ from.by = "fresh" /\ from.nonce = count
      /\ from.seed = seed
  BY <1>4, NoRecordAssumption
<1>6. Beginning(from) = SeededRng(seed, count)
  BY <1>5 DEF Beginning
<1>7. build.nonce # "std" => rng = Beginning(from)
  <2>1. build.nonce = "fixed" => count = 1
    BY <1>1 DEF Inv, NoncesFresh
  <2>2. build.nonce # "std" => Nonce(count) = count
    BY <1>2, <2>1, NonceIsWord, Types DEF Inv
  <2> QED BY <1>6, <2>2
<1> HIDE DEF made, from, rng, count, seed
<1>8. /\ inst'[i] = made /\ origin'[i] = from /\ drawn'[i] = <<>> /\ pc'[t] = None
      /\ \A j \in Instances : j # i => /\ inst'[j] = inst[j] /\ origin'[j] = origin[j]
                                       /\ drawn'[j] = drawn[j]
      /\ \A u \in Threads : u # t => pc'[u] = pc[u]
  BY <1>t, <1>1
<1>9. Live' = Live \cup {i}
  BY <1>5, <1>8 DEF Live
<1>10. Typed'
  <2>1. /\ inst' \in [Instances -> Jittereds \cup {None}]
        /\ pc' \in [Threads -> {None} \cup Constructions \cup DrawsBegun]
        /\ origin' \in [Instances -> Origins \cup {None}]
        /\ drawn' \in [Instances -> Seq(Word)]
    BY <1>t, <1>1, <1>4
  <2>2. ASSUME NEW j \in Instances PROVE drawn'[j] \in Seq(Word) /\ Len(drawn'[j]) <= MaxDraws
    <3>1. Len(<<>>) = 0 /\ 0 <= MaxDraws
      BY ArgumentsAssumption, IncrementFact
    <3>2. Len(drawn[j]) <= MaxDraws
      BY Types DEF Inv
    <3>3. drawn'[j] = <<>> \/ drawn'[j] = drawn[j]
      BY <1>8
    <3> QED BY <2>1, <3>1, <3>2, <3>3
  <2> QED BY <1>1, <2>1, <2>2 DEF Inv, Typed, TypeOK
<1>11. Streams'
  <2>1. OnStream(i)'
    <3>1. Settled(i)' => rng = Beginning(from)
      BY <1>1, <1>5, <1>7, <1>8 DEF Settled
    <3>2. Follows(rng, rng, <<>>)
      BY <1>3, FollowsStart
    <3> QED BY <1>2, <1>3, <1>4, <1>5, <1>8, <3>1, <3>2 DEF OnStream, Follows
  <2>2. ASSUME NEW j \in Live, j # i PROVE OnStream(j)'
    BY <1>1, <1>8, <2>2, StreamKept DEF Inv, Streams, Live
  <2> QED BY <1>1, <1>9, <2>1, <2>2 DEF Streams
<1>12. DrawsOwned'
  <2>1. ASSUME NEW u \in Threads, Drawing(u)'
        PROVE  /\ Drawing(u) /\ pc'[u] = pc[u] /\ pc[u].inst \in Live /\ pc[u].inst # i
               /\ pc[u].inst \in Instances
    <3>1. Drawing(u) /\ pc'[u] = pc[u]
      BY <1>8, <2>1 DEF Drawing, Idle
    <3> QED BY <1>1, <3>1 DEF Inv, DrawsOwned, Live
  <2> QED BY <1>1, <1>8, <1>9, <2>1 DEF Inv, DrawsOwned
<1>13. NoncesFresh'
  <2>1. \A u \in Threads : Building(u)' => u # t /\ Building(u) /\ pc'[u].count = pc[u].count
    BY <1>8 DEF Building, Idle
  <2>2. \A j \in Instances : Fresh(j)' =>
          \/ j = i /\ origin'[j].nonce = count
          \/ j # i /\ Fresh(j) /\ origin'[j].nonce = origin[j].nonce
    BY <1>5, <1>8, <1>9 DEF Fresh
  <2> QED BY <1>1, <2>1, <2>2 DEF Inv, NoncesFresh, count
<1> QED BY <1>10, <1>11, <1>12, <1>13 DEF Inv

\* A reconfigured instance starts a stream of its own (with_seed, with_nonce).
LEMMA ReseedKeeps ==
  ASSUME Inv, NEW i \in Instances, NEW seed \in Word, NEW from \in Origins,
         from.by # "fresh", from.by # "seed" => from.nonce \in Word,
         Beginning(from) \in Word, Reseed(i, seed, Beginning(from), from)
  PROVE  Inv'
<1> DEFINE rng == Beginning(from)
           made == [[inst[i] EXCEPT !.seed = seed] EXCEPT !.rng = rng]
<1>t. /\ inst \in [Instances -> Jittereds \cup {None}]
      /\ origin \in [Instances -> Origins \cup {None}]
      /\ drawn \in [Instances -> Seq(Word)]
  BY Types DEF Inv
<1>1. /\ i \in Live /\ \A t \in Threads : ~Idle(t) => pc[t].inst # i
      /\ inst' = [inst EXCEPT ![i].seed = seed, ![i].rng = rng]
      /\ origin' = [origin EXCEPT ![i] = from]
      /\ drawn' = [drawn EXCEPT ![i] = <<>>]
      /\ UNCHANGED <<build, counter, wall, pc>>
  BY DEF Reseed, Unborrowed
<1>2. inst[i] \in Jittereds
  BY <1>1, Types DEF Inv
<1>3. made \in Jittereds /\ made.rng = rng
  BY <1>2 DEF Jittereds
<1>4. made # None
  BY <1>3, NoRecordAssumption
<1>5. inst' = [inst EXCEPT ![i] = made]
  BY <1>t, <1>1
<1> HIDE DEF made, rng
<1>6. /\ inst'[i] = made /\ origin'[i] = from /\ drawn'[i] = <<>>
      /\ \A j \in Instances : j # i => /\ inst'[j] = inst[j] /\ origin'[j] = origin[j]
                                       /\ drawn'[j] = drawn[j]
  BY <1>t, <1>1, <1>5
<1>7. Live' = Live
  BY <1>1, <1>4, <1>6 DEF Live
<1>8. Typed'
  <2>a. inst' \in [Instances -> Jittereds \cup {None}]
    BY <1>t, <1>3, <1>5
  <2>b. origin' \in [Instances -> Origins \cup {None}]
    BY <1>t, <1>1
  <2>1. drawn' \in [Instances -> Seq(Word)]
    BY <1>t, <1>1
  <2>2. ASSUME NEW j \in Instances PROVE drawn'[j] \in Seq(Word) /\ Len(drawn'[j]) <= MaxDraws
    <3>1. Len(<<>>) = 0 /\ 0 <= MaxDraws
      BY ArgumentsAssumption, IncrementFact
    <3>2. Len(drawn[j]) <= MaxDraws
      BY Types DEF Inv
    <3>3. drawn'[j] = <<>> \/ drawn'[j] = drawn[j]
      BY <1>6
    <3> QED BY <2>1, <3>1, <3>2, <3>3
  <2> QED BY <1>1, <2>a, <2>b, <2>1, <2>2 DEF Inv, Typed, TypeOK
<1>9. Streams'
  <2>1. OnStream(i)'
    <3>1. Follows(rng, rng, <<>>) /\ rng \in Word
      BY FollowsStart DEF rng
    <3> QED BY <1>3, <1>6, <3>1 DEF OnStream, Follows, rng
  <2>2. ASSUME NEW j \in Live, j # i PROVE OnStream(j)'
    BY <1>1, <1>6, <2>2, StreamKept DEF Inv, Streams, Live
  <2> QED BY <1>7, <2>1, <2>2 DEF Streams
<1>10. DrawsOwned'
  <2>1. \A u \in Threads : Drawing(u)' =>
          Drawing(u) /\ pc'[u] = pc[u] /\ pc[u].inst # i /\ pc[u].inst \in Instances
    BY <1>1 DEF Drawing, Idle, Inv, DrawsOwned, Live
  <2>2. ASSUME NEW u \in Threads, Drawing(u)'
        PROVE  inst'[pc[u].inst] = inst[pc[u].inst] /\ drawn'[pc[u].inst] = drawn[pc[u].inst]
    BY <1>6, <2>1, <2>2
  <2>3. UNCHANGED <<build, pc>>
    BY <1>1
  <2> QED BY <1>7, <2>1, <2>2, <2>3 DEF Inv, DrawsOwned
<1>11. NoncesFresh'
  <2>1. \A j \in Instances : Fresh(j)' => Fresh(j) /\ origin'[j].nonce = origin[j].nonce
    BY <1>6, <1>7 DEF Fresh
  <2>2. \A u \in Threads : Building(u)' <=> Building(u)
    BY <1>1 DEF Building, Idle
  <2> QED BY <1>1, <2>1, <2>2 DEF Inv, NoncesFresh
<1> QED BY <1>8, <1>9, <1>10, <1>11 DEF Inv

\* An instance moves to another thread, which no draw is in the way of.
LEMMA MoveKeeps ==
  ASSUME Inv, NEW i \in Instances, NEW t \in Threads, Move(i, t)
  PROVE  Inv'
<1> DEFINE made == [inst[i] EXCEPT !.owner = t]
<1>t. inst \in [Instances -> Jittereds \cup {None}]
  BY Types DEF Inv
<1>1. /\ i \in Live /\ \A u \in Threads : ~Idle(u) => pc[u].inst # i
      /\ inst' = [inst EXCEPT ![i].owner = t]
      /\ UNCHANGED <<build, counter, wall, pc, origin, drawn>>
  BY DEF Move, Unborrowed
<1>2. inst[i] \in Jittereds
  BY <1>1, Types DEF Inv
<1>3. made \in Jittereds /\ made.rng = inst[i].rng
  BY <1>2 DEF Jittereds
<1>4. made # None
  BY <1>3, NoRecordAssumption
<1>5. inst' = [inst EXCEPT ![i] = made]
  BY <1>1
<1> HIDE DEF made
<1>6. inst'[i] = made /\ \A j \in Instances : j # i => inst'[j] = inst[j]
  BY <1>t, <1>5
<1>7. Live' = Live
  BY <1>1, <1>4, <1>6 DEF Live
<1>8. Typed'
  BY <1>t, <1>1, <1>3, <1>5 DEF Inv, Typed, TypeOK
<1>9. Streams'
  <2>1. ASSUME NEW j \in Live PROVE OnStream(j)'
    <3>1. inst'[j].rng = inst[j].rng
      BY <1>3, <1>6 DEF Live
    <3> QED BY <1>1, <3>1, StreamKept DEF Inv, Streams
  <2> QED BY <1>7, <2>1 DEF Streams
<1>10. DrawsOwned'
  <2>1. \A u \in Threads : Drawing(u)' =>
          Drawing(u) /\ pc'[u] = pc[u] /\ pc[u].inst # i /\ pc[u].inst \in Instances
    BY <1>1 DEF Drawing, Idle, Inv, DrawsOwned, Live
  <2> QED BY <1>1, <1>6, <1>7, <2>1 DEF Inv, DrawsOwned
<1>11. NoncesFresh'
  <2>1. \A j \in Instances : Fresh(j)' <=> Fresh(j)
    BY <1>1, <1>7 DEF Fresh
  <2>2. \A u \in Threads : Building(u)' <=> Building(u)
    BY <1>1 DEF Building, Idle
  <2> QED BY <1>1, <2>1, <2>2 DEF Inv, NoncesFresh
<1> QED BY <1>8, <1>9, <1>10, <1>11 DEF Inv

\* A draw moves the generator of one instance to its next state and records it.
LEMMA DrawMoves ==
  ASSUME Inv, NEW i \in Live, Len(drawn[i]) < MaxDraws,
         inst' = [inst EXCEPT ![i].rng = Advance(inst[i].rng)],
         drawn' = [drawn EXCEPT ![i] = Append(drawn[i], Advance(inst[i].rng))],
         UNCHANGED <<build, counter, wall, origin>>
  PROVE  /\ inst' \in [Instances -> Jittereds \cup {None}]
         /\ drawn' \in [Instances -> Seq(Word)]
         /\ \A j \in Instances : drawn'[j] \in Seq(Word) /\ Len(drawn'[j]) <= MaxDraws
         /\ \A j \in Instances : j # i => inst'[j] = inst[j] /\ drawn'[j] = drawn[j]
         /\ Live' = Live
         /\ Streams'
<1> DEFINE z == Advance(inst[i].rng)
           made == [inst[i] EXCEPT !.rng = z]
           longer == Append(drawn[i], z)
<1>t. /\ inst \in [Instances -> Jittereds \cup {None}]
      /\ drawn \in [Instances -> Seq(Word)]
      /\ i \in Instances /\ inst[i] \in Jittereds
      /\ \A j \in Instances : Len(drawn[j]) \in Nat /\ Len(drawn[j]) <= MaxDraws
  BY Types DEF Inv
<1>s. OnStream(i)
  BY DEF Inv, Streams
<1>1. PICK a \in Word : /\ Settled(i) => a = Beginning(origin[i])
                        /\ Follows(a, inst[i].rng, drawn[i])
  BY <1>s DEF OnStream
<1>2. z \in Word /\ Follows(a, z, longer)
  BY <1>t, <1>1, FollowsDraw
<1>3. longer \in Seq(Word) /\ Len(longer) = Len(drawn[i]) + 1
  BY <1>t, <1>2, Appended
<1>4. made \in Jittereds /\ made.rng = z
  BY <1>t, <1>2 DEF Jittereds
<1>5. made # None
  BY <1>4, NoRecordAssumption
<1>6. inst' = [inst EXCEPT ![i] = made] /\ drawn' = [drawn EXCEPT ![i] = longer]
  OBVIOUS
<1> HIDE DEF made, longer, z
<1>7. /\ inst'[i] = made /\ drawn'[i] = longer
      /\ \A j \in Instances : j # i => inst'[j] = inst[j] /\ drawn'[j] = drawn[j]
  BY <1>t, <1>6
<1>8. inst' \in [Instances -> Jittereds \cup {None}] /\ drawn' \in [Instances -> Seq(Word)]
  BY <1>t, <1>3, <1>4, <1>6
<1>9. ASSUME NEW j \in Instances
      PROVE  drawn'[j] \in Seq(Word) /\ Len(drawn'[j]) <= MaxDraws
  <2>1. Len(longer) <= MaxDraws
    BY <1>t, <1>3, ArgumentsAssumption, IncrementFact
  <2> QED BY <1>t, <1>7, <1>8, <2>1
<1>10. Live' = Live
  BY <1>5, <1>7, <1>t DEF Live
<1>11. OnStream(i)'
  <2>1. origin'[i] = origin[i] /\ (Settled(i)' <=> Settled(i))
    BY DEF Settled
  <2>2. Follows(a, inst'[i].rng, drawn'[i])
    BY <1>2, <1>4, <1>7
  <2> QED BY <1>s, <1>1, <2>1, <2>2 DEF OnStream, Follows
<1>12. ASSUME NEW j \in Live, j # i PROVE OnStream(j)'
  BY <1>7, <1>12, StreamKept DEF Inv, Streams, Live
<1>13. Streams'
  BY <1>10, <1>11, <1>12 DEF Streams
<1> QED BY <1>7, <1>8, <1>9, <1>10, <1>13

\* A draw in one step, a fetch_add.
LEMMA NextWaitFetchKeeps ==
  ASSUME Inv, NEW t \in Threads, NEW i \in Instances, NextWait(t, i), NextWaitFetch(t, i)
  PROVE  Inv'
<1>1. /\ i \in Live /\ Len(drawn[i]) < MaxDraws /\ build.atomic64
      /\ inst' = [inst EXCEPT ![i].rng = Advance(inst[i].rng)]
      /\ drawn' = [drawn EXCEPT ![i] = Append(drawn[i], Advance(inst[i].rng))]
      /\ UNCHANGED <<build, counter, wall, pc, origin>>
  BY DEF NextWait, Reachable, NextWaitFetch
<1>2. /\ inst' \in [Instances -> Jittereds \cup {None}]
      /\ drawn' \in [Instances -> Seq(Word)]
      /\ \A j \in Instances : drawn'[j] \in Seq(Word) /\ Len(drawn'[j]) <= MaxDraws
      /\ Live' = Live /\ Streams'
  BY <1>1, DrawMoves
<1>3. Typed'
  <2>1. UNCHANGED <<build, counter, wall, pc, origin>>
    BY <1>1
  <2> QED BY <1>2, <2>1 DEF Inv, Typed, TypeOK
<1>4. DrawsOwned'
  <2>1. \A u \in Threads : ~Drawing(u)
    BY <1>1 DEF Inv, DrawsOwned
  <2> QED BY <1>1, <2>1 DEF DrawsOwned, Drawing, Idle
<1>5. NoncesFresh'
  <2>1. UNCHANGED <<build, counter, pc, origin, Live>>
    BY <1>1, <1>2
  <2> QED BY <2>1 DEF Inv, NoncesFresh, Building, Idle, Fresh
<1> QED BY <1>2, <1>3, <1>4, <1>5 DEF Inv

\* The first half of a draw from a Cell, by the only thread that reaches it.
LEMMA NextWaitGetKeeps ==
  ASSUME Inv, NEW t \in Threads, NEW i \in Instances, NextWait(t, i), NextWaitGet(t, i)
  PROVE  Inv'
<1> DEFINE begun == [op |-> "draw", inst |-> i, next |-> Advance(inst[i].rng)]
<1>1. /\ Idle(t) /\ i \in Live /\ Len(drawn[i]) < MaxDraws /\ ~build.atomic64
      /\ inst[i].owner = t
      /\ pc' = [pc EXCEPT ![t] = begun]
      /\ UNCHANGED <<build, counter, wall, inst, origin, drawn>>
  BY DEF NextWait, Reachable, NextWaitGet
<1>2. Advance(inst[i].rng) \in Word
  BY <1>1, Types, WordAssumption DEF Inv, Jittereds
<1>3. begun \in DrawsBegun
  BY <1>2 DEF DrawsBegun
<1>4. /\ begun.op = "draw" /\ begun.inst = i /\ begun.next = Advance(inst[i].rng)
      /\ begun # None
  BY <1>3, NoRecordAssumption
<1>t. pc \in [Threads -> {None} \cup Constructions \cup DrawsBegun]
  BY Types DEF Inv
<1> HIDE DEF begun
<1>5. pc'[t] = begun /\ \A u \in Threads : u # t => pc'[u] = pc[u]
  BY <1>t, <1>1
<1>6. Typed'
  BY <1>t, <1>1, <1>3 DEF Inv, Typed, TypeOK
<1>7. Streams'
  BY <1>1, StreamKept DEF Inv, Streams, Live
<1>8. DrawsOwned'
  <2>1. ASSUME NEW u \in Threads, Drawing(u)', u # t PROVE Drawing(u) /\ pc'[u] = pc[u]
    BY <1>5, <2>1 DEF Drawing, Idle
  <2>2. Live' = Live
    BY <1>1 DEF Live
  <2> QED BY <1>1, <1>4, <1>5, <2>1, <2>2 DEF Inv, DrawsOwned
<1>9. NoncesFresh'
  <2>1. \A u \in Threads : Building(u)' => Building(u) /\ pc'[u] = pc[u]
    BY <1>4, <1>5 DEF Building, Idle
  <2>2. \A j \in Instances : Fresh(j)' <=> Fresh(j)
    BY <1>1 DEF Fresh, Live
  <2> QED BY <1>1, <2>1, <2>2 DEF Inv, NoncesFresh
<1> QED BY <1>6, <1>7, <1>8, <1>9 DEF Inv

\* The second half: the state it writes is still the successor of the one it replaces.
LEMMA NextWaitSetKeeps ==
  ASSUME Inv, NEW t \in Threads, NextWaitSet(t)
  PROVE  Inv'
<1> DEFINE i == pc[t].inst
<1>1. Drawing(t) /\ pc' = [pc EXCEPT ![t] = None] /\ UNCHANGED <<build, counter, wall, origin>>
  BY DEF NextWaitSet, Drawing
<1>2. /\ i \in Live /\ inst[i].owner = t /\ Len(drawn[i]) < MaxDraws
      /\ pc[t].next = Advance(inst[i].rng)
  BY <1>1 DEF Inv, DrawsOwned
<1>3. /\ inst' = [inst EXCEPT ![i].rng = Advance(inst[i].rng)]
      /\ drawn' = [drawn EXCEPT ![i] = Append(drawn[i], Advance(inst[i].rng))]
  BY <1>2 DEF NextWaitSet
<1>t. pc \in [Threads -> {None} \cup Constructions \cup DrawsBegun]
  BY Types DEF Inv
<1> HIDE DEF i
<1>4. /\ inst' \in [Instances -> Jittereds \cup {None}]
      /\ drawn' \in [Instances -> Seq(Word)]
      /\ \A j \in Instances : drawn'[j] \in Seq(Word) /\ Len(drawn'[j]) <= MaxDraws
      /\ \A j \in Instances : j # i => inst'[j] = inst[j] /\ drawn'[j] = drawn[j]
      /\ Live' = Live /\ Streams'
  BY <1>1, <1>2, <1>3, DrawMoves
<1>5. pc'[t] = None /\ \A u \in Threads : u # t => pc'[u] = pc[u]
  BY <1>t, <1>1
<1>6. Typed'
  <2>1. pc' \in [Threads -> {None} \cup Constructions \cup DrawsBegun]
    BY <1>t, <1>1
  <2> QED BY <1>1, <1>4, <2>1 DEF Inv, Typed, TypeOK
<1>7. DrawsOwned'
  <2>1. ASSUME NEW u \in Threads, Drawing(u)'
        PROVE  /\ Drawing(u) /\ pc'[u] = pc[u] /\ pc[u].inst \in Instances
               /\ pc[u].inst # i
    <3>1. u # t /\ Drawing(u) /\ pc'[u] = pc[u]
      BY <1>5, <2>1 DEF Drawing, Idle
    <3> QED BY <1>2, <3>1 DEF Inv, DrawsOwned, Live
  <2> QED BY <1>1, <1>4, <2>1 DEF Inv, DrawsOwned
<1>8. NoncesFresh'
  <2>1. \A u \in Threads : Building(u)' => Building(u) /\ pc'[u] = pc[u]
    BY <1>5 DEF Building, Idle
  <2>2. \A j \in Instances : Fresh(j)' <=> Fresh(j)
    BY <1>1, <1>4 DEF Fresh
  <2> QED BY <1>1, <2>1, <2>2 DEF Inv, NoncesFresh
<1> QED BY <1>4, <1>6, <1>7, <1>8 DEF Inv

\* Every step preserves the invariant.
LEMMA NextInv == Inv /\ [Next]_vars => Inv'
<1> SUFFICES ASSUME Inv, [Next]_vars PROVE Inv'
  OBVIOUS
<1>1. ASSUME NEW t \in Threads, NEW kind \in Kinds, New(t, kind) PROVE Inv'
  BY <1>1, FetchNonceKeeps, ArgumentsAssumption DEF New
<1>2. ASSUME NEW t \in Threads, NEW i \in Instances, Clone(t, i) PROVE Inv'
  <2>1. inst[i] \in Jittereds
    BY <1>2, Types DEF Clone, Reachable, Inv
  <2>2. inst[i].kind \in Kinds /\ inst[i].seed \in Word
    BY <2>1 DEF Jittereds
  <2> QED BY <1>2, <2>2, FetchNonceKeeps DEF Clone
<1>3. ASSUME NEW i \in Instances, NEW seed \in Seeds, WithSeed(i, seed) PROVE Inv'
  <2> DEFINE from == [by |-> "seed", seed |-> seed, nonce |-> None]
  <2>1. seed \in Word /\ from \in Origins /\ from.by = "seed" /\ from.seed = seed
    BY ArgumentsAssumption DEF Origins
  <2>2. Beginning(from) = SeededRng(seed, DeriveNonce(seed)) /\ DeriveNonce(seed) \in Word
    BY <2>1, SeededRngWords DEF Beginning
  <2>3. Beginning(from) \in Word
    BY <2>1, <2>2, SeededRngWords
  <2>4. Reseed(i, seed, Beginning(from), from)
    BY <1>3, <2>2 DEF WithSeed
  <2> HIDE DEF from
  <2> QED BY <2>1, <2>3, <2>4, ReseedKeeps
<1>4. ASSUME NEW i \in Instances, NEW nonce \in Nonces, WithNonce(i, nonce) PROVE Inv'
  <2> DEFINE seed == inst[i].seed
             from == [by |-> "nonce", seed |-> seed, nonce |-> nonce]
  <2>1. nonce \in Word /\ seed \in Word
    BY <1>4, ArgumentsAssumption, Types DEF WithNonce, Inv, Jittereds
  <2>2. from \in Origins /\ from.by = "nonce" /\ from.seed = seed /\ from.nonce = nonce
    BY <2>1 DEF Origins
  <2>3. Beginning(from) = SeededRng(seed, nonce)
    BY <2>2 DEF Beginning
  <2>4. Beginning(from) \in Word
    BY <2>1, <2>3, SeededRngWords
  <2>5. Reseed(i, seed, Beginning(from), from)
    BY <1>4, <2>3 DEF WithNonce
  <2> HIDE DEF from, seed
  <2> QED BY <2>1, <2>2, <2>4, <2>5, ReseedKeeps
<1>5. ASSUME NEW t \in Threads, NEW i \in Instances, NextWait(t, i) PROVE Inv'
  BY <1>5, NextWaitFetchKeeps, NextWaitGetKeeps DEF NextWait
<1>6. CASE UNCHANGED vars
  <2>1. UNCHANGED <<build, counter, wall, inst, pc, origin, drawn>>
    BY <1>6 DEF vars
  <2>2. Streams'
    BY <2>1, StreamKept DEF Inv, Streams, Live
  <2> QED BY <2>1, <2>2 DEF Inv, Typed, TypeOK, DrawsOwned, NoncesFresh, Drawing, Building,
                           Idle, Fresh, Live
<1> QED
  BY <1>1, <1>2, <1>3, <1>4, <1>5, <1>6, SystemTimeKeeps, BuildKeeps, MoveKeeps,
     NextWaitSetKeeps
  DEF Next

\* The invariant holds throughout a run of the process.
THEOREM JitterInvariant == Spec => []Inv
BY InitInv, NextInv, PTL DEF Spec

\* Seeds, nonces, generator states and draws are words throughout.
THEOREM JitterTypeCorrect == Spec => []TypeOK
<1>1. Inv => TypeOK
  BY DEF Inv, Typed
<1> QED BY <1>1, JitterInvariant, PTL

\* "Concurrent callers interleave one stream, each drawing a distinct state", for any
\* number of threads, with an atomic and with a Cell, up to the generator's period.
THEOREM JitterOneStream == Spec => []OneStream
BY StreamsAreOne, JitterInvariant, PTL

\* with_seed alone, or a seed and a nonce, pin the sequence, whatever was done to the
\* instances before.
THEOREM JitterPinned == Spec => []Pinned
BY StreamsPinned, JitterInvariant, PTL

\* Two instances built with a bare counter, by any threads in any interleaving, and any
\* two given different nonces, differ in every draw, for every seed and every generator
\* of this kind.
THEOREM JitterNoncesDecorrelate == Spec => []Decorrelated
BY StreamsDecorrelated, JitterInvariant, PTL

-----------------------------------------------------------------------------
(* The range of a draw. *)

\* A bounded draw returns every value up to its bound, and no other, also where the
\* modulus would not fit a word.
LEMMA BoundedDraw ==
  ASSUME NEW max \in Word
  PROVE  /\ \A z \in Word : NextBounded(z, max) \in 0..max
         /\ \A r \in 0..max : \E z \in Word : NextBounded(z, max) = r
<1>1. WordMax \in Nat /\ Word = 0..WordMax /\ max \in Nat /\ max <= WordMax
  BY WordAssumption DEF Word
<1>m. \A z \in Word : Mix(z) \in Nat /\ Mix(z) <= WordMax
  <2>1. \A z \in Word : Mix(z) \in Word
    BY WordAssumption
  <2> QED BY <1>1, <2>1
<1>p. \A r \in Word : \E z \in Word : Mix(z) = r
  BY GeneratorAssumption
<1>2. CASE max = WordMax
  BY <1>1, <1>m, <1>p, <1>2 DEF NextBounded
<1>3. CASE max # WordMax
  <2>1. ASSUME NEW k \in Nat \ {0}, NEW x \in Nat
        PROVE  x % k \in 0..(k - 1) /\ (x < k => x % k = x)
    OBVIOUS
  <2>2. max + 1 \in Nat \ {0} /\ \A z \in Word : NextBounded(z, max) = Mix(z) % (max + 1)
    BY <1>1, <1>3 DEF NextBounded
  <2>3. ASSUME NEW z \in Word PROVE NextBounded(z, max) \in 0..max
    <3>1. Mix(z) % (max + 1) \in 0..((max + 1) - 1)
      BY <1>m, <2>1, <2>2
    <3> QED BY <1>1, <2>2, <3>1
  <2>4. ASSUME NEW r \in 0..max PROVE \E z \in Word : NextBounded(z, max) = r
    <3>0. r \in Word
      BY <1>1
    <3>1. PICK z \in Word : Mix(z) = r
      BY <1>p, <3>0
    <3>2. r \in Nat /\ r < max + 1
      BY <1>1
    <3>3. r % (max + 1) = r
      BY <2>1, <2>2, <3>2
    <3> QED BY <2>2, <3>1, <3>3
  <2> QED BY <2>3, <2>4
<1> QED BY <1>2, <1>3

\* The waits of a formula with the given parts, when the generator may be in any state.
WaitsOf(d) ==
  IF Draws(d)
  THEN {SatAdd(d.offset, SatAdd(d.lower, r)) : r \in 0..Least(SatSub(d.upper, d.lower), WordMax)}
  ELSE {Undrawn(d)}

Formulas == [offset : Duration, lower : Duration, upper : Duration]

\* next_wait returns these waits.
LEMMA WaitsDrawn ==
  ASSUME NEW kind, NEW delay, NEW previous, DrawOf(kind, delay, previous) \in Formulas
  PROVE  {NextWaitOf(kind, delay, previous, z) : z \in Word} = WaitsOf(DrawOf(kind, delay, previous))
<1> DEFINE d == DrawOf(kind, delay, previous)
           max == Least(SatSub(d.upper, d.lower), WordMax)
<1>1. d.upper \in Int /\ d.lower \in Int
  BY DurMaxAssumption DEF Formulas, Duration
<1>2. max \in Word
  <2>1. SatSub(d.upper, d.lower) \in Nat
    BY <1>1 DEF SatSub
  <2>2. WordMax \in Nat /\ Word = 0..WordMax
    BY WordAssumption DEF Word
  <2> QED BY <2>1, <2>2 DEF Least
<1>3. \A z : NextWaitOf(kind, delay, previous, z)
               = IF Draws(d) THEN SatAdd(d.offset, SatAdd(d.lower, NextBounded(z, max)))
                 ELSE Undrawn(d)
  BY DEF NextWaitOf, RandomDuration
<1> HIDE DEF max, d
<1>4. CASE Draws(d)
  <2>1. WaitsOf(d) = {SatAdd(d.offset, SatAdd(d.lower, r)) : r \in 0..max}
    BY <1>4 DEF WaitsOf, max
  <2>2. \A z \in Word : NextBounded(z, max) \in 0..max
    BY <1>2, BoundedDraw
  <2>3. \A r \in 0..max : \E z \in Word : NextBounded(z, max) = r
    BY <1>2, BoundedDraw
  <2>4. {NextWaitOf(kind, delay, previous, z) : z \in Word}
          = {SatAdd(d.offset, SatAdd(d.lower, NextBounded(z, max))) : z \in Word}
    BY <1>3, <1>4
  <2>5. {SatAdd(d.offset, SatAdd(d.lower, NextBounded(z, max))) : z \in Word}
          = {SatAdd(d.offset, SatAdd(d.lower, r)) : r \in 0..max}
    BY <2>2, <2>3
  <2> QED BY <2>1, <2>4, <2>5 DEF d
<1>5. CASE ~Draws(d)
  <2>1. WaitsOf(d) = {Undrawn(d)}
    BY <1>5 DEF WaitsOf
  <2>2. 0 \in Word
    BY WordAssumption DEF Word
  <2> QED BY <1>3, <1>5, <2>1, <2>2 DEF d
<1> QED BY <1>4, <1>5

\* They are the range of the formula, up to a word above its lower end.
LEMMA WaitsInRange ==
  ASSUME NEW d \in Formulas
  PROVE  WaitsOf(d) = {w \in {SatAdd(d.offset, v) : v \in RandomDurationIn(d.lower, d.upper)} :
                         w <= Undrawn(d) + WordMax}
<1> DEFINE o == d.offset
           l == d.lower
           u == d.upper
           Goal == {w \in {SatAdd(o, v) : v \in RandomDurationIn(l, u)} :
                      w <= Undrawn(d) + WordMax}
<1>1. /\ DurMax \in Nat /\ WordMax \in Nat
      /\ o \in Nat /\ l \in Nat /\ u \in Nat /\ o <= DurMax /\ l <= DurMax /\ u <= DurMax
  BY DurMaxAssumption, WordAssumption DEF Formulas, Duration
<1>2. Undrawn(d) = SatAdd(o, l) /\ (Draws(d) <=> l < u)
  BY <1>1 DEF Undrawn, Draws, SatSub
<1>w. WaitsOf(d) = IF Draws(d)
                   THEN {SatAdd(o, SatAdd(l, r)) : r \in 0..Least(SatSub(u, l), WordMax)}
                   ELSE {Undrawn(d)}
  BY DEF WaitsOf
<1> HIDE DEF o, l, u
<1>3. CASE l < u
  <2>1. RandomDurationIn(l, u) = l..u
    BY <1>1, <1>3 DEF RandomDurationIn
  <2> DEFINE max == Least(SatSub(u, l), WordMax)
  <2>2. max \in Nat /\ max <= WordMax /\ max <= u - l /\ (max = WordMax \/ max = u - l)
    BY <1>1, <1>3 DEF Least, SatSub
  <2>w. WaitsOf(d) = {SatAdd(o, SatAdd(l, r)) : r \in 0..max}
    BY <1>2, <1>3, <1>w
  <2> HIDE DEF max
  <2>3. ASSUME NEW r \in 0..max
        PROVE  /\ SatAdd(l, r) \in l..u
               /\ SatAdd(o, SatAdd(l, r)) <= SatAdd(o, l) + WordMax
    <3>1. SatAdd(l, r) = l + r /\ l + r \in l..u /\ r <= WordMax /\ r \in Nat
      BY <1>1, <2>2 DEF SatAdd
    <3>2. SatAdd(o, l + r) <= SatAdd(o, l) + WordMax
      BY <1>1, <3>1 DEF SatAdd
    <3> QED BY <3>1, <3>2
  <2>4. ASSUME NEW v \in l..u, SatAdd(o, v) <= SatAdd(o, l) + WordMax
        PROVE  \E r \in 0..max : SatAdd(o, v) = SatAdd(o, SatAdd(l, r))
    <3>1. CASE v - l <= max
      <4>1. v - l \in 0..max /\ SatAdd(l, v - l) = v
        BY <1>1, <2>2, <3>1 DEF SatAdd
      <4> QED BY <4>1
    <3>2. CASE ~(v - l <= max)
      <4>1. max = WordMax /\ v > l + WordMax
        BY <1>1, <2>2, <3>2
      <4>2. SatAdd(l, max) = l + WordMax /\ l + WordMax \in Nat /\ max \in 0..max
        BY <1>1, <2>2, <4>1 DEF SatAdd
      <4>3. SatAdd(o, v) = SatAdd(o, l + WordMax)
        BY <1>1, <2>4, <4>1 DEF SatAdd
      <4> QED BY <4>2, <4>3
    <3> QED BY <3>1, <3>2
  <2>5. Goal = {w \in {SatAdd(o, v) : v \in l..u} : w <= SatAdd(o, l) + WordMax}
    BY <1>2, <2>1 DEF o, l, u
  <2>6. {SatAdd(o, SatAdd(l, r)) : r \in 0..max}
          = {w \in {SatAdd(o, v) : v \in l..u} : w <= SatAdd(o, l) + WordMax}
    BY <2>3, <2>4
  <2> QED BY <2>w, <2>5, <2>6 DEF o, l, u
<1>4. CASE ~(l < u)
  <2>1. RandomDurationIn(l, u) = {l}
    BY <1>1, <1>4 DEF RandomDurationIn
  <2>2. SatAdd(o, l) <= SatAdd(o, l) + WordMax
    BY <1>1 DEF SatAdd
  <2>3. Goal = {SatAdd(o, l)}
    BY <1>2, <2>1, <2>2
  <2> QED BY <1>2, <1>4, <1>w, <2>3 DEF o, l, u
<1> QED BY <1>3, <1>4

\* The strategy algebra gives the same formula its range.
LEMMA RangeOfFormula ==
  ASSUME NEW kind \in JitterKinds, NEW delay \in Duration, NEW previous \in OptDuration
  PROVE  LET d == DrawOf(kind, delay, previous) IN
           /\ d \in Formulas
           /\ WaitRange(kind, delay, previous)
                = {SatAdd(d.offset, v) : v \in RandomDurationIn(d.lower, d.upper)}
<1> DEFINE d == DrawOf(kind, delay, previous)
           state == RetryState(1, 0, previous)
           former == IF previous = None THEN delay ELSE previous
           half == delay \div 2
<1>1. DurMax \in Nat /\ delay \in Nat /\ delay <= DurMax /\ kind.max \in Duration
      /\ kind.name \in {"Additive", "Full", "Equal", "Decorrelated"} /\ 0 \in Duration
  BY DurMaxAssumption DEF Duration, JitterKinds
<1>2. half \in Nat /\ half + half <= delay /\ half \in Duration
  BY <1>1 DEF Duration
<1>3. former \in Duration
  BY DEF OptDuration
<1>4. SatMul(former, 3) \in Duration
  BY <1>1, <1>3 DEF SatMul, Duration
<1>5. state \in RetryStates /\ state.previous_delay = previous
  BY <1>1, AttemptMaxAssumption DEF RetryState, RetryStates, Attempts
<1>6. WaitFixed(delay)[state] = {delay}
  BY <1>5 DEF WaitFixed
<1> HIDE DEF state, half
<1>7. CASE kind.name = "Additive"
  <2>1. d = [offset |-> delay, lower |-> 0, upper |-> kind.max]
    BY <1>7 DEF DrawOf
  <2>2. WaitRange(kind, delay, previous)
          = {SatAdd(b, j) : b \in {delay}, j \in RandomDurationIn(0, kind.max)}
    BY <1>5, <1>6, <1>7 DEF WaitRange, JitterAdditive, SatSums, state
  <2>3. d.offset = delay /\ d.lower = 0 /\ d.upper = kind.max /\ d \in Formulas
    BY <1>1, <2>1 DEF Formulas
  <2> QED BY <2>2, <2>3
<1>8. CASE kind.name = "Full"
  <2>1. d = [offset |-> 0, lower |-> 0, upper |-> delay]
    BY <1>8 DEF DrawOf
  <2>2. WaitRange(kind, delay, previous) = UNION {RandomDurationIn(0, b) : b \in {delay}}
    BY <1>5, <1>6, <1>8 DEF WaitRange, JitterFull, state
  <2>3. d.offset = 0 /\ d.lower = 0 /\ d.upper = delay /\ d \in Formulas
    BY <1>1, <2>1 DEF Formulas
  <2>4. \A v \in RandomDurationIn(0, delay) : SatAdd(0, v) = v
    BY <1>1 DEF RandomDurationIn, SatAdd
  <2> QED BY <2>2, <2>3, <2>4
<1>9. CASE kind.name = "Equal"
  <2>1. d = [offset |-> half, lower |-> 0, upper |-> half]
    BY <1>9 DEF DrawOf, half
  <2>2. WaitRange(kind, delay, previous)
          = UNION {{(b \div 2) + j : j \in RandomDurationIn(0, b \div 2)} : b \in {delay}}
    BY <1>5, <1>6, <1>9 DEF WaitRange, JitterEqual, state
  <2>3. d.offset = half /\ d.lower = 0 /\ d.upper = half /\ d \in Formulas
    BY <1>1, <1>2, <2>1 DEF Formulas
  <2>4. \A v \in RandomDurationIn(0, half) : SatAdd(half, v) = half + v
    BY <1>1, <1>2 DEF RandomDurationIn, SatAdd
  <2>5. WaitRange(kind, delay, previous) = {half + j : j \in RandomDurationIn(0, half)}
    BY <2>2 DEF half
  <2> QED BY <2>3, <2>4, <2>5
<1>10. CASE kind.name = "Decorrelated"
  <2>1. d = [offset |-> 0, lower |-> delay, upper |-> SatMul(former, 3)]
    BY <1>10 DEF DrawOf
  <2>2. WaitRange(kind, delay, previous)
          = UNION {RandomDurationIn(b, SatMul(IF previous = None THEN b ELSE previous, 3))
                     : b \in {delay}}
    BY <1>5, <1>6, <1>10 DEF WaitRange, JitterDecorrelated, state
  <2>3. d.offset = 0 /\ d.lower = delay /\ d.upper = SatMul(former, 3) /\ d \in Formulas
    BY <1>1, <1>4, <2>1 DEF Formulas
  <2>4. \A v \in RandomDurationIn(delay, SatMul(former, 3)) : SatAdd(0, v) = v
    BY <1>1, <1>4 DEF RandomDurationIn, SatAdd, Duration
  <2>5. WaitRange(kind, delay, previous) = RandomDurationIn(delay, SatMul(former, 3))
    BY <2>2
  <2> QED BY <2>3, <2>4, <2>5
<1> QED BY <1>1, <1>7, <1>8, <1>9, <1>10

\* Every kind of jitter returns, over the states of the generator, exactly the waits the
\* strategy algebra gives it, for every delay around which it draws, previous delay and maximum: where the
\* range is empty, exceeds a word or passes the longest duration too.
THEOREM JitterFormulasExact ==
  \A kind \in JitterKinds, delay \in Duration, previous \in OptDuration :
    Exact(kind, delay, previous)
<1> SUFFICES ASSUME NEW kind \in JitterKinds, NEW delay \in Duration,
                    NEW previous \in OptDuration
             PROVE  Exact(kind, delay, previous)
  OBVIOUS
<1> DEFINE d == DrawOf(kind, delay, previous)
<1>1. /\ d \in Formulas
      /\ WaitRange(kind, delay, previous)
           = {SatAdd(d.offset, v) : v \in RandomDurationIn(d.lower, d.upper)}
  BY RangeOfFormula
<1>2. {NextWaitOf(kind, delay, previous, z) : z \in Word} = WaitsOf(d)
  BY <1>1, WaitsDrawn
<1>3. WaitsOf(d) = {w \in WaitRange(kind, delay, previous) : w <= Undrawn(d) + WordMax}
  BY <1>1, WaitsInRange
<1> QED BY <1>2, <1>3 DEF Exact

\* Every instance, also a clone, can return exactly the waits of its range.
THEOREM JitterRangeExact == Spec => []RangeExact
<1>1. InexactKinds = {}
  <2>1. {c \in [kind : JitterKinds, base : Duration, previous : OptDuration] :
           ~Exact(c.kind, c.base, c.previous)} = {}
    BY JitterFormulasExact
  <2> QED BY <2>1 DEF InexactKinds
<1>2. RangeExact
  BY <1>1 DEF RangeExact
<1> QED BY <1>2, PTL

-----------------------------------------------------------------------------
(* Induction.  A set of naturals that is not empty has a least element. *)

\* The least-number principle, from the well-foundedness of < on the naturals.
LEMMA LeastNatural ==
  ASSUME NEW T, T \subseteq Nat, T # {}
  PROVE  \E x \in T : \A y \in T : x <= y
<1> DEFINE R == OpToRel(<, Nat)
<1>1. PICK x \in T : \A y \in T : ~ (<<y, x>> \in R)
  BY NatLessThanWellFounded, WFMin
<1>2. \A a, b \in Nat : b < a => <<b, a>> \in R
  BY DEF OpToRel
<1> HIDE DEF R
<1>3. \A y \in T : ~(y < x)
  BY <1>1, <1>2
<1>4. \A y \in T : x <= y
  BY <1>3
<1> QED BY <1>4

\* Induction over a set: one that holds 0 and the successor of each of its naturals
\* holds every natural.
LEMMA InductiveSet ==
  ASSUME NEW S, 0 \in S, \A n \in Nat : n \in S => n + 1 \in S
  PROVE  \A n \in Nat : n \in S
<1> SUFFICES ASSUME Nat \ S # {} PROVE FALSE
  OBVIOUS
<1>1. PICK x \in Nat \ S : \A y \in Nat \ S : x <= y
  BY LeastNatural, Nat \ S \subseteq Nat
<1>2. x # 0
  BY <1>1
<1>3. x - 1 \in Nat /\ ~(x <= x - 1) /\ (x - 1) + 1 = x
  BY <1>1, <1>2
<1>4. x - 1 \in S
  BY <1>1, <1>3
<1>5. (x - 1) + 1 \in S
  BY <1>3, <1>4
<1> QED BY <1>1, <1>3, <1>5

-----------------------------------------------------------------------------
(* Powers. *)

IsPower(p, b, n) == p = [k \in 0..n |-> IF k = 0 THEN 1 ELSE b * p[k - 1]]

\* Once there is a function of powers, the definition of Power has chosen one.
LEMMA PowerChosen ==
  ASSUME NEW b, NEW n, NEW p, IsPower(p, b, n)
  PROVE  \E q : IsPower(q, b, n) /\ Power(b, n) = q[n]
<1>1. IsPower(CHOOSE q : IsPower(q, b, n), b, n)
  BY Zenon
<1>2. Power(b, n) = (CHOOSE q : IsPower(q, b, n))[n]
  BY DEF Power, IsPower
<1> QED BY <1>1, <1>2, Zenon

\* Two of them agree as far as both go.
LEMMA PowersAgree ==
  ASSUME NEW b \in Nat, NEW m \in Nat, NEW n \in Nat, NEW p, NEW q,
         IsPower(p, b, m), IsPower(q, b, n)
  PROVE  \A k \in Nat : k <= m /\ k <= n => p[k] = q[k] /\ p[k] \in Nat
<1> DEFINE S == {k \in Nat : k <= m /\ k <= n => p[k] = q[k] /\ p[k] \in Nat}
<1>1. /\ \A k \in 0..m : p[k] = IF k = 0 THEN 1 ELSE b * p[k - 1]
      /\ \A k \in 0..n : q[k] = IF k = 0 THEN 1 ELSE b * q[k - 1]
  BY DEF IsPower
<1>2. 0 \in S
  <2>1. 0 \in 0..m /\ 0 \in 0..n
    OBVIOUS
  <2>2. p[0] = 1 /\ q[0] = 1
    BY <1>1, <2>1
  <2> QED BY <2>2
<1>3. ASSUME NEW k \in Nat, k \in S PROVE k + 1 \in S
  <2> SUFFICES ASSUME k + 1 <= m, k + 1 <= n
               PROVE  p[k + 1] = q[k + 1] /\ p[k + 1] \in Nat
    OBVIOUS
  <2>1. p[k] = q[k] /\ p[k] \in Nat
    BY <1>3
  <2>2. k + 1 \in 0..m /\ k + 1 \in 0..n /\ k + 1 # 0 /\ (k + 1) - 1 = k
    OBVIOUS
  <2>3. p[k + 1] = b * p[k] /\ q[k + 1] = b * q[k]
    BY <1>1, <2>2
  <2> QED BY <2>1, <2>3
<1> HIDE DEF S
<1>4. \A k \in Nat : k \in S
  BY <1>2, <1>3, InductiveSet
<1> QED BY <1>4 DEF S

\* There is one for every exponent.
LEMMA PowersExist ==
  ASSUME NEW b \in Nat
  PROVE  \A n \in Nat : \E p : IsPower(p, b, n)
<1> DEFINE S == {n \in Nat : \E p : IsPower(p, b, n)}
<1>1. 0 \in S
  <2> DEFINE p == [k \in 0..0 |-> 1]
  <2>1. IsPower(p, b, 0)
    BY DEF IsPower
  <2> QED BY <2>1
<1>2. ASSUME NEW n \in Nat, n \in S PROVE n + 1 \in S
  <2>1. PICK p : IsPower(p, b, n)
    BY <1>2
  <2>2. \A k \in 0..n : p[k] = IF k = 0 THEN 1 ELSE b * p[k - 1]
    BY <2>1 DEF IsPower
  <2> DEFINE r == [k \in 0..(n + 1) |-> IF k <= n THEN p[k] ELSE b * p[n]]
             t == [k \in 0..(n + 1) |-> IF k = 0 THEN 1 ELSE b * r[k - 1]]
  <2>3. ASSUME NEW k \in 0..(n + 1) PROVE r[k] = IF k = 0 THEN 1 ELSE b * r[k - 1]
    <3>1. CASE k = 0
      BY <2>2, <3>1
    <3>2. CASE k \in 1..n
      <4>1. k - 1 \in 0..(n + 1) /\ k - 1 <= n /\ k \in 0..n /\ k # 0
        BY <3>2
      <4>2. r[k - 1] = p[k - 1] /\ r[k] = p[k]
        BY <4>1
      <4> QED BY <2>2, <4>1, <4>2
    <3>3. CASE k = n + 1
      <4>1. k - 1 = n /\ n \in 0..(n + 1) /\ ~(k <= n) /\ k # 0
        BY <3>3
      <4>2. r[n] = p[n] /\ r[k] = b * p[n]
        BY <4>1
      <4> QED BY <4>1, <4>2
    <3> QED BY <3>1, <3>2, <3>3
  <2>4. r = t
    BY <2>3
  <2>5. IsPower(r, b, n + 1)
    BY <2>4, Zenon DEF IsPower
  <2> QED BY <2>5
<1> HIDE DEF S
<1>3. \A n \in Nat : n \in S
  BY <1>1, <1>2, InductiveSet
<1> QED BY <1>3 DEF S

\* What Power computes, for every base and exponent.
LEMMA PowerDefined ==
  ASSUME NEW b \in Nat
  PROVE  /\ Power(b, 0) = 1
         /\ \A n \in Nat : Power(b, n) \in Nat /\ Power(b, n + 1) = b * Power(b, n)
<1>1. ASSUME NEW n \in Nat
      PROVE  \E q : IsPower(q, b, n) /\ Power(b, n) = q[n]
  BY PowersExist, PowerChosen
<1>2. Power(b, 0) = 1
  <2>1. PICK q : IsPower(q, b, 0) /\ Power(b, 0) = q[0]
    BY <1>1
  <2>2. 0 \in 0..0
    OBVIOUS
  <2> QED BY <2>1, <2>2 DEF IsPower
<1>3. ASSUME NEW n \in Nat
      PROVE  Power(b, n) \in Nat /\ Power(b, n + 1) = b * Power(b, n)
  <2>1. PICK p : IsPower(p, b, n) /\ Power(b, n) = p[n]
    BY <1>1
  <2>2. PICK q : IsPower(q, b, n + 1) /\ Power(b, n + 1) = q[n + 1]
    BY <1>1
  <2>3. p[n] = q[n] /\ p[n] \in Nat
    BY <2>1, <2>2, PowersAgree, n <= n, n <= n + 1, n + 1 \in Nat
  <2>4. n + 1 \in 0..(n + 1) /\ n + 1 # 0 /\ (n + 1) - 1 = n
    OBVIOUS
  <2>5. q[n + 1] = b * q[n]
    BY <2>2, <2>4 DEF IsPower
  <2> QED BY <2>1, <2>2, <2>3, <2>5
<1> QED BY <1>2, <1>3

\* A power of a positive number is positive.
LEMMA PowerPositive ==
  ASSUME NEW b \in Nat, b >= 1
  PROVE  \A n \in Nat : Power(b, n) \in Nat /\ Power(b, n) >= 1
<1> DEFINE S == {n \in Nat : Power(b, n) >= 1}
<1>1. 0 \in S
  BY PowerDefined
<1>2. ASSUME NEW n \in Nat, n \in S PROVE n + 1 \in S
  <2>1. Power(b, n) \in Nat /\ Power(b, n) >= 1 /\ Power(b, n + 1) = b * Power(b, n)
    BY <1>2, PowerDefined
  <2>2. ASSUME NEW p \in Nat, p >= 1 PROVE b * p >= 1
    BY <2>2
  <2> QED BY <2>1, <2>2
<1> HIDE DEF S
<1>3. \A n \in Nat : n \in S
  BY <1>1, <1>2, InductiveSet
<1> QED BY <1>3, PowerDefined DEF S

\* One to any power is one.
LEMMA PowerOfOne == \A n \in Nat : Power(1, n) = 1
<1> DEFINE S == {n \in Nat : Power(1, n) = 1}
<1>1. 0 \in S
  BY PowerDefined
<1>2. ASSUME NEW n \in Nat, n \in S PROVE n + 1 \in S
  BY <1>2, PowerDefined
<1> HIDE DEF S
<1>3. \A n \in Nat : n \in S
  BY <1>1, <1>2, InductiveSet
<1> QED BY <1>3 DEF S

\* Squaring the base halves an even exponent: what one turn of the loop of
\* pow_nonnegative_f64 relies on.
LEMMA PowerOfSquare ==
  ASSUME NEW b \in Nat
  PROVE  \A m \in Nat : /\ Power(b, 2 * m) = Power(b * b, m)
                        /\ Power(b, 2 * m + 1) = b * Power(b * b, m)
<1> DEFINE S == {m \in Nat : Power(b, 2 * m) = Power(b * b, m)}
<1>1. b * b \in Nat
  OBVIOUS
<1>2. 0 \in S
  <2>1. 2 * 0 = 0
    OBVIOUS
  <2> QED BY <1>1, <2>1, PowerDefined
<1>3. ASSUME NEW m \in Nat, m \in S PROVE m + 1 \in S
  <2>1. 2 * m \in Nat /\ 2 * m + 1 \in Nat /\ 2 * (m + 1) = (2 * m + 1) + 1
    OBVIOUS
  <2>2. /\ Power(b, 2 * m) \in Nat
        /\ Power(b, 2 * m + 1) = b * Power(b, 2 * m)
        /\ Power(b, (2 * m + 1) + 1) = b * Power(b, 2 * m + 1)
    BY <2>1, PowerDefined
  <2>3. Power(b * b, m + 1) = (b * b) * Power(b * b, m)
    BY <1>1, PowerDefined
  <2>4. \A p \in Nat : b * (b * p) = (b * b) * p
    OBVIOUS
  <2>5. Power(b, 2 * m) = Power(b * b, m)
    BY <1>3
  <2>6. Power(b, 2 * (m + 1)) = Power(b * b, m + 1)
    BY <2>1, <2>2, <2>3, <2>4, <2>5
  <2> QED BY <2>6
<1> HIDE DEF S
<1>4. \A m \in Nat : m \in S
  BY <1>2, <1>3, InductiveSet
<1>5. ASSUME NEW m \in Nat
      PROVE  Power(b, 2 * m) = Power(b * b, m) /\ Power(b, 2 * m + 1) = b * Power(b * b, m)
  <2>1. Power(b, 2 * m) = Power(b * b, m)
    BY <1>4 DEF S
  <2>2. 2 * m \in Nat
    OBVIOUS
  <2> QED BY <2>1, <2>2, PowerDefined
<1> QED BY <1>5

\* An exponent that is a sum is a product of powers.
LEMMA PowerOfSum ==
  ASSUME NEW b \in Nat
  PROVE  \A n \in Nat : \A m \in Nat : Power(b, m + n) = Power(b, m) * Power(b, n)
<1> DEFINE S == {n \in Nat : \A m \in Nat : Power(b, m + n) = Power(b, m) * Power(b, n)}
<1>1. 0 \in S
  <2>1. ASSUME NEW m \in Nat PROVE Power(b, m + 0) = Power(b, m) * Power(b, 0)
    <3>1. Power(b, 0) = 1 /\ Power(b, m) \in Nat /\ m + 0 = m
      BY PowerDefined
    <3> QED BY <3>1
  <2> QED BY <2>1
<1>2. ASSUME NEW n \in Nat, n \in S PROVE n + 1 \in S
  <2>1. ASSUME NEW m \in Nat PROVE Power(b, m + (n + 1)) = Power(b, m) * Power(b, n + 1)
    <3>1. m + n \in Nat /\ m + (n + 1) = (m + n) + 1
      OBVIOUS
    <3>2. /\ Power(b, (m + n) + 1) = b * Power(b, m + n)
          /\ Power(b, n + 1) = b * Power(b, n)
          /\ Power(b, m) \in Nat /\ Power(b, n) \in Nat
      BY <3>1, PowerDefined
    <3>3. Power(b, m + n) = Power(b, m) * Power(b, n)
      BY <1>2
    <3>4. \A p, q \in Nat : b * (p * q) = p * (b * q)
      OBVIOUS
    <3> QED BY <3>1, <3>2, <3>3, <3>4
  <2> QED BY <2>1
<1> HIDE DEF S
<1>3. \A n \in Nat : n \in S
  BY <1>1, <1>2, InductiveSet
<1> QED BY <1>3 DEF S

\* A larger base has a larger power.
LEMMA PowerMonotone ==
  ASSUME NEW a \in Nat, NEW b \in Nat, a <= b
  PROVE  \A n \in Nat : Power(a, n) <= Power(b, n)
<1> DEFINE S == {n \in Nat : Power(a, n) <= Power(b, n)}
<1>1. 0 \in S
  BY PowerDefined
<1>2. ASSUME NEW n \in Nat, n \in S PROVE n + 1 \in S
  <2>1. /\ Power(a, n) \in Nat /\ Power(b, n) \in Nat /\ Power(a, n) <= Power(b, n)
        /\ Power(a, n + 1) = a * Power(a, n) /\ Power(b, n + 1) = b * Power(b, n)
    BY <1>2, PowerDefined
  <2>2. ASSUME NEW p \in Nat, NEW q \in Nat, p <= q PROVE a * p <= b * q
    <3>1. a * p <= a * q
      BY <2>2
    <3>2. a * q <= b * q
      OBVIOUS
    <3> QED BY <3>1, <3>2
  <2> QED BY <2>1, <2>2
<1> HIDE DEF S
<1>3. \A n \in Nat : n \in S
  BY <1>1, <1>2, InductiveSet
<1> QED BY <1>3 DEF S

-----------------------------------------------------------------------------
(* Floats. *)

\* The sizes of the format.
LEMMA FloatSizes ==
  /\ One \in Nat /\ One >= 1 /\ ExactMax \in Nat /\ ExactMax = 2 * One
  /\ Power(2, ExpMax) \in Nat /\ Top \in Nat /\ Top = ExactMax * Power(2, ExpMax)
  /\ ExactMax * One < Top
<1>1. Precision \in Nat /\ Precision >= 1 /\ ExpMax \in Nat /\ ExpMax >= Precision
  BY FloatAssumption
<1>2. PICK p \in Nat : p = Precision - 1 /\ p + 1 = Precision
  BY <1>1
<1>3. One = Power(2, p) /\ ExactMax = Power(2, p + 1)
  BY <1>2 DEF One, ExactMax
<1>4. One \in Nat /\ One >= 1 /\ ExactMax = 2 * One
  BY <1>3, PowerDefined, PowerPositive
<1>5. PICK k \in Nat : ExpMax = p + (k + 1)
  BY <1>1, <1>2, ExpMax - (p + 1) \in Nat, ExpMax = p + ((ExpMax - (p + 1)) + 1)
<1>6. PICK q \in Nat : q >= 1 /\ Power(2, k + 1) = 2 * q
  <2>1. Power(2, k) \in Nat /\ Power(2, k) >= 1 /\ Power(2, k + 1) = 2 * Power(2, k)
    BY PowerDefined, PowerPositive
  <2> QED BY <2>1
<1>7. Power(2, ExpMax) = One * (2 * q)
  BY <1>3, <1>5, <1>6, PowerOfSum
<1>8. Top = ExactMax * Power(2, ExpMax)
  BY DEF Top, ExactMax
<1>9. \A x \in Nat : x >= 1 => x * (2 * q) \in Nat /\ x < x * (2 * q)
  BY <1>6
<1>10. Power(2, ExpMax) \in Nat /\ One < Power(2, ExpMax)
  BY <1>4, <1>7, <1>9
<1>11. ASSUME NEW x \in Nat, NEW y \in Nat, NEW e \in Nat, x < y, e >= 1 PROVE e * x < e * y /\ e * y \in Nat
  BY <1>11
<1> QED BY <1>4, <1>8, <1>10, <1>11

\* The grid holds zero, the first power of two that is too large, and every whole
\* number up to ExactMax.
LEMMA GridHolds ==
  /\ Grid \subseteq Nat /\ 0 \in Grid /\ Top \in Grid
  /\ \A x : x \in Finite <=> x \in Grid /\ x < Top
  /\ \A w \in Nat : w <= ExactMax => w * One \in Finite
<1>1. /\ Precision \in Nat /\ ExpMax \in Nat
      /\ Precision - 1 \in 0..ExpMax /\ ExpMax \in 0..ExpMax /\ 0 \in 0..ExpMax
  BY FloatAssumption
<1>2. /\ One \in Nat /\ One >= 1 /\ ExactMax \in Nat
      /\ Top \in Nat /\ Top = ExactMax * Power(2, ExpMax) /\ ExactMax * One < Top
  BY FloatSizes
<1>3. \A m \in 0..ExactMax, e \in 0..ExpMax : m * Power(2, e) \in Grid
  BY DEF Grid, ExactMax
<1>4. Grid \subseteq Nat
  <2>1. ASSUME NEW x \in Grid PROVE x \in Nat
    <3>1. PICK m \in 0..ExactMax, e \in 0..ExpMax : x = m * Power(2, e)
      BY DEF Grid, ExactMax
    <3>2. e \in Nat /\ m \in Nat
      BY <1>1, <1>2
    <3>3. Power(2, e) \in Nat
      BY <3>2, PowerDefined
    <3> QED BY <3>1, <3>2, <3>3
  <2> QED BY <2>1
<1>5. 0 \in Grid
  <2>1. Power(2, 0) \in Nat /\ 0 \in 0..ExactMax
    BY <1>2, PowerDefined
  <2>2. 0 * Power(2, 0) \in Grid
    BY <1>1, <1>3, <2>1
  <2> QED BY <2>1, <2>2
<1>6. Top \in Grid
  <2>1. ExactMax \in 0..ExactMax
    BY <1>2
  <2> QED BY <1>1, <1>2, <1>3, <2>1
<1>7. ASSUME NEW w \in Nat, w <= ExactMax PROVE w * One \in Finite
  <2>1. w \in 0..ExactMax
    BY <1>2, <1>7
  <2>2. w * One \in Grid
    BY <1>1, <1>3, <2>1 DEF One
  <2>3. w * One <= ExactMax * One
    BY <1>2, <1>7
  <2>4. w * One \in Nat /\ ExactMax * One \in Nat
    BY <1>2
  <2> QED BY <1>2, <2>2, <2>3, <2>4 DEF Finite
<1> QED BY <1>4, <1>5, <1>6, <1>7 DEF Finite

\* What rounding guarantees: it does not cross a float.
LEMMA RoundsBetween ==
  ASSUME NEW x \in Nat
  PROVE  /\ Round(x) \in Finite \cup {Infinity}
         /\ \A g \in Grid : g * One <= x => Round(x) = Infinity \/ g <= Round(x)
         /\ \A g \in Finite : x <= g * One => Round(x) \in Finite /\ Round(x) <= g
<1>1. One \in Nat /\ One >= 1 /\ Top \in Nat
  BY FloatSizes
<1>2. /\ Grid \subseteq Nat /\ 0 \in Grid /\ Top \in Grid
      /\ \A y : y \in Finite <=> y \in Grid /\ y < Top
  BY GridHolds
<1>3. ASSUME NEW g \in Nat, NEW h \in Nat, g * One <= h * One PROVE g <= h
  BY <1>1, <1>3
<1>4. CASE x >= Top * One
  <2>1. Round(x) = Infinity
    BY <1>4 DEF Round
  <2>2. ASSUME NEW g \in Finite, x <= g * One PROVE FALSE
    <3>1. g \in Nat /\ g < Top
      BY <1>2
    <3>2. g * One < Top * One /\ g * One \in Nat /\ Top * One \in Nat
      BY <1>1, <3>1
    <3> QED BY <1>4, <2>2, <3>2
  <2> QED BY <2>1, <2>2
<1>5. CASE ~(x >= Top * One)
  <2> DEFINE lo == RoundDown(x)
             hi == RoundUp(x)
             Under == {k \in Nat : \E g \in Grid : g * One <= x /\ k = x - g * One}
             Over == {g \in Grid : x <= g * One}
  <2>1. lo \in Grid /\ lo * One <= x /\ \A g \in Grid : g * One <= x => g <= lo
    <3>1. x \in Under
      <4>1. 0 * One = 0 /\ x - 0 = x /\ 0 <= x
        BY <1>1
      <4> QED BY <1>2, <4>1
    <3>2. PICK k \in Under : \A y \in Under : k <= y
      BY <3>1, LeastNatural, Under \subseteq Nat
    <3>3. PICK f \in Grid : f * One <= x /\ k = x - f * One
      BY <3>2
    <3>4. ASSUME NEW g \in Grid, g * One <= x PROVE g <= f
      <4>1. g \in Nat /\ f \in Nat /\ g * One \in Nat /\ f * One \in Nat
        BY <1>1, <1>2
      <4>2. x - g * One \in Nat
        BY <3>4, <4>1
      <4>3. k <= x - g * One
        BY <3>2, <3>4, <4>2
      <4>4. g * One <= f * One
        BY <3>3, <4>1, <4>3
      <4> QED BY <1>3, <4>1, <4>4
    <3> HIDE DEF Under
    <3>5. \E f2 \in Grid : f2 * One <= x /\ \A g \in Grid : g * One <= x => g <= f2
      BY <3>3, <3>4
    <3> QED BY <3>5, Zenon DEF RoundDown
  <2>2. hi \in Grid /\ x <= hi * One /\ \A g \in Grid : x <= g * One => hi <= g
    <3>1. Top \in Over
      BY <1>1, <1>2, <1>5
    <3>2. PICK f \in Over : \A y \in Over : f <= y
      BY <1>2, <3>1, LeastNatural, Over \subseteq Nat
    <3>3. \E f2 \in Grid : x <= f2 * One /\ \A g \in Grid : x <= g * One => f2 <= g
      BY <3>2
    <3> QED BY <3>3, Zenon DEF RoundUp
  <2> HIDE DEF lo, hi
  <2>3. lo \in Nat /\ hi \in Nat /\ lo * One \in Nat /\ hi * One \in Nat
    BY <1>1, <1>2, <2>1, <2>2
  <2>4. lo * One <= hi * One
    BY <2>1, <2>2, <2>3
  <2>5. lo <= hi /\ hi <= Top
    <3>1. x <= Top * One
      BY <1>1, <1>5
    <3> QED BY <1>2, <1>3, <2>2, <2>3, <2>4, <3>1
  <2>6. Nearest(x) = lo \/ Nearest(x) = hi
    BY Zenon DEF Nearest, lo, hi
  <2>7. Round(x) = IF Nearest(x) = Top THEN Infinity ELSE Nearest(x)
    BY <1>5 DEF Round
  <2>8. Nearest(x) \in Grid /\ lo <= Nearest(x) /\ Nearest(x) <= hi /\ Nearest(x) \in Nat
    BY <2>1, <2>2, <2>3, <2>5, <2>6
  <2>9. Round(x) \in Finite \cup {Infinity}
    BY <1>1, <1>2, <2>5, <2>7, <2>8, <2>3
  <2>10. ASSUME NEW g \in Grid, g * One <= x PROVE Round(x) = Infinity \/ g <= Round(x)
    <3>1. g <= lo /\ g \in Nat
      BY <1>2, <2>1, <2>10
    <3> QED BY <2>3, <2>7, <2>8, <3>1
  <2>11. ASSUME NEW g \in Finite, x <= g * One PROVE Round(x) \in Finite /\ Round(x) <= g
    <3>1. hi <= g /\ g < Top /\ g \in Nat
      BY <1>2, <2>2, <2>11
    <3>2. Nearest(x) # Top /\ Nearest(x) <= g /\ Nearest(x) < Top
      BY <1>1, <2>3, <2>8, <3>1
    <3> QED BY <1>2, <2>7, <2>8, <3>2
  <2> QED BY <2>9, <2>10, <2>11
<1> QED BY <1>4, <1>5

\* Powers of two are positive.
LEMMA PowersOfTwo == \A n \in Nat : Power(2, n) \in Nat /\ Power(2, n) >= 1
BY PowerPositive

\* A whole number up to ExactMax, times a power of two, is on the grid as far as the
\* grid goes.
LEMMA GridTimesTwo ==
  ASSUME NEW i \in Nat, i <= ExactMax, NEW e \in Nat,
         (i * Power(2, e)) * One <= Top
  PROVE  (i * Power(2, e)) * One \in Grid
<1>1. Precision \in Nat /\ Precision >= 1 /\ ExpMax \in Nat
  BY FloatAssumption
<1>2. PICK p \in Nat : p = Precision - 1
  BY <1>1
<1>3. One \in Nat /\ One = Power(2, p) /\ ExactMax \in Nat
  BY <1>2, FloatSizes DEF One
<1>4. Power(2, e) \in Nat /\ Power(2, e + p) = Power(2, e) * One
  BY <1>3, PowerDefined, PowerOfSum
<1>5. (i * Power(2, e)) * One = i * Power(2, e + p)
  <2>1. \A x, y \in Nat : (i * x) * y = i * (x * y)
    OBVIOUS
  <2> QED BY <1>3, <1>4, <2>1
<1>6. \A m \in 0..ExactMax, h \in 0..ExpMax : m * Power(2, h) \in Grid
  BY DEF Grid, ExactMax
<1>7. CASE e + p <= ExpMax
  <2>1. e + p \in 0..ExpMax /\ i \in 0..ExactMax
    BY <1>1, <1>3, <1>7
  <2> QED BY <1>5, <1>6, <2>1
<1>8. CASE ~(e + p <= ExpMax)
  <2>1. PICK k \in Nat : e + p = k + ExpMax
    BY <1>1, <1>8, (e + p) - ExpMax \in Nat, e + p = ((e + p) - ExpMax) + ExpMax
  <2>2. /\ Power(2, k + ExpMax) = Power(2, k) * Power(2, ExpMax)
        /\ Power(2, k) \in Nat /\ Power(2, ExpMax) \in Nat /\ Power(2, ExpMax) >= 1
    <3>1. \A n \in Nat : Power(2, n) \in Nat /\ Power(2, n) >= 1
      BY PowersOfTwo, Zenon
    <3>2. Power(2, k + ExpMax) = Power(2, k) * Power(2, ExpMax)
      BY <1>1, PowerOfSum
    <3> QED BY <1>1, <3>1, <3>2
  <2>3. PICK m \in Nat : m = i * Power(2, k)
    BY <2>2
  <2>4. i * Power(2, e + p) = m * Power(2, ExpMax)
    <3>1. \A x, y \in Nat : i * (x * y) = (i * x) * y
      OBVIOUS
    <3> QED BY <2>1, <2>2, <2>3, <3>1
  <2>5. m * Power(2, ExpMax) <= ExactMax * Power(2, ExpMax)
    <3>1. i * Power(2, e + p) <= Top
      BY <1>5, Zenon
    <3> QED BY <2>4, <3>1, FloatSizes
  <2>6. ASSUME NEW x \in Nat, NEW y \in Nat, NEW z \in Nat, z >= 1, x * z <= y * z
        PROVE  x <= y
    BY <2>6
  <2>7. m \in 0..ExactMax /\ ExpMax \in 0..ExpMax
    BY <1>1, <1>3, <2>2, <2>3, <2>5, <2>6
  <2> QED BY <1>5, <1>6, <2>4, <2>7
<1> QED BY <1>7, <1>8

\* Floats from 1.0 up.
Big == {x \in Finite : One <= x} \cup {Infinity}

\* A float bounded by a whole number.
AtLeast(v, a) == v = Infinity \/ a * One <= v
AtMost(v, a) == v # Infinity /\ v <= a * One

\* The types of big floats.
LEMMA BigIs ==
  ASSUME NEW v \in Big
  PROVE  /\ v # NaN /\ v # 0 /\ v \in Finite \cup {Infinity}
         /\ v # Infinity => v \in Nat /\ v >= One /\ v < Top /\ v \in Finite
         /\ v \in Finite => v # Infinity
         /\ AtLeast(v, 1)
<1>1. Infinity \notin Int /\ NaN \notin Int /\ Infinity # NaN
  BY InfinityAssumption
<1>2. One \in Nat /\ One >= 1 /\ 1 * One = One
  BY FloatSizes
<1>3. \A x \in Finite : x \in Nat /\ x < Top
  BY GridHolds
<1> QED BY <1>1, <1>2, <1>3 DEF Big, AtLeast

\* A product of big floats is the rounded product.
LEMMA FMulRounds ==
  ASSUME NEW v \in Big, NEW w \in Big
  PROVE  /\ v = Infinity \/ w = Infinity => FMul(v, w) = Infinity
         /\ v # Infinity /\ w # Infinity => FMul(v, w) = Round(v * w)
<1>1. v # NaN /\ w # NaN /\ v # 0 /\ w # 0
  BY BigIs
<1>2. NaN \notin {v, w} /\ {0, Infinity} # {v, w}
  BY <1>1, Zenon
<1>3. FMul(v, w) = IF Infinity \in {v, w} THEN Infinity ELSE Round(v * w)
  BY <1>2, Zenon DEF FMul
<1> QED BY <1>3

\* It is at least every whole number on the grid that the factors' bounds reach.
LEMMA FMulAtLeast ==
  ASSUME NEW v \in Big, NEW w \in Big, NEW a \in Nat, NEW b \in Nat, NEW z \in Nat,
         AtLeast(v, a), AtLeast(w, b), z <= a * b, z * One \in Grid
  PROVE  AtLeast(FMul(v, w), z)
<1>1. CASE v = Infinity \/ w = Infinity
  BY <1>1, FMulRounds DEF AtLeast
<1>2. CASE v # Infinity /\ w # Infinity
  <2>1. One \in Nat /\ v \in Nat /\ w \in Nat /\ a * One <= v /\ b * One <= w
    BY <1>2, BigIs, FloatSizes DEF AtLeast
  <2>2. ASSUME NEW c \in Nat, NEW d \in Nat, c <= v, d <= w PROVE c * d <= v * w
    <3>1. c * d <= c * w
      BY <2>1, <2>2
    <3>2. c * w <= v * w
      BY <2>1, <2>2
    <3> QED BY <2>1, <3>1, <3>2
  <2>3. (a * One) * (b * One) <= v * w
    BY <2>1, <2>2
  <2>4. (a * One) * (b * One) = ((a * b) * One) * One
    BY <2>1
  <2>5. (z * One) * One <= ((a * b) * One) * One
    <3>1. \A x, y, u \in Nat : x <= y => x * u <= y * u
      OBVIOUS
    <3>2. a * b \in Nat /\ z * One \in Nat /\ (a * b) * One \in Nat
      BY <2>1
    <3>3. z * One <= (a * b) * One
      BY <2>1, <3>1, <3>2
    <3> QED BY <2>1, <3>1, <3>2, <3>3
  <2>6. v * w \in Nat /\ (z * One) * One \in Nat /\ ((a * b) * One) * One \in Nat
    BY <2>1
  <2>7. (z * One) * One <= v * w
    BY <2>3, <2>4, <2>5, <2>6
  <2>8. FMul(v, w) = Round(v * w)
    BY <1>2, FMulRounds
  <2>9. Round(v * w) = Infinity \/ z * One <= Round(v * w)
    BY <2>6, <2>7, RoundsBetween
  <2> QED BY <2>8, <2>9 DEF AtLeast
<1> QED BY <1>1, <1>2

\* And at most every whole number on the grid that their bounds do not reach.
LEMMA FMulAtMost ==
  ASSUME NEW v \in Big, NEW w \in Big, NEW a \in Nat, NEW b \in Nat, NEW z \in Nat,
         AtMost(v, a), AtMost(w, b), a * b <= z, z * One \in Finite
  PROVE  AtMost(FMul(v, w), z)
<1>1. v # Infinity /\ w # Infinity
  BY DEF AtMost
<1>2. One \in Nat /\ v \in Nat /\ w \in Nat /\ v <= a * One /\ w <= b * One
  BY <1>1, BigIs, FloatSizes DEF AtMost
<1>3. ASSUME NEW c \in Nat, NEW d \in Nat, v <= c, w <= d PROVE v * w <= c * d
  <2>1. v * w <= v * d
    BY <1>2, <1>3
  <2>2. v * d <= c * d
    BY <1>2, <1>3
  <2> QED BY <1>2, <2>1, <2>2
<1>4. v * w <= (a * One) * (b * One)
  BY <1>2, <1>3
<1>5. (a * One) * (b * One) = ((a * b) * One) * One
  BY <1>2
<1>6. ((a * b) * One) * One <= (z * One) * One
  <2>1. \A x, y, u \in Nat : x <= y => x * u <= y * u
    OBVIOUS
  <2>2. a * b \in Nat /\ z * One \in Nat /\ (a * b) * One \in Nat
    BY <1>2
  <2>3. (a * b) * One <= z * One
    BY <1>2, <2>1, <2>2
  <2> QED BY <1>2, <2>1, <2>2, <2>3
<1>7. v * w \in Nat /\ (z * One) * One \in Nat /\ ((a * b) * One) * One \in Nat
  BY <1>2
<1>8. v * w <= (z * One) * One
  BY <1>4, <1>5, <1>6, <1>7
<1>9. FMul(v, w) = Round(v * w)
  BY <1>1, FMulRounds
<1>10. Round(v * w) \in Finite /\ Round(v * w) <= z * One
  BY <1>7, <1>8, RoundsBetween
<1>11. Round(v * w) # Infinity
  <2>1. Round(v * w) \in Nat /\ Infinity \notin Int
    BY <1>10, InfinityAssumption, GridHolds
  <2> QED BY <2>1
<1> QED BY <1>9, <1>10, <1>11 DEF AtMost

\* A product of big floats is big.
LEMMA FMulBig ==
  ASSUME NEW v \in Big, NEW w \in Big
  PROVE  FMul(v, w) \in Big
<1>1. One \in Nat /\ 1 <= ExactMax /\ 1 <= 1 * 1 /\ 1 * One = One
  BY FloatSizes
<1>2. 1 * One \in Grid
  BY <1>1, GridHolds
<1>3. AtLeast(FMul(v, w), 1)
  BY <1>1, <1>2, BigIs, FMulAtLeast
<1>4. FMul(v, w) \in Finite \cup {Infinity}
  <2>1. CASE v = Infinity \/ w = Infinity
    BY <2>1, FMulRounds
  <2>2. CASE v # Infinity /\ w # Infinity
    <3>1. v * w \in Nat
      BY <2>2, BigIs
    <3> QED BY <2>2, <3>1, FMulRounds, RoundsBetween
  <2> QED BY <2>1, <2>2
<1> QED BY <1>1, <1>3, <1>4 DEF AtLeast, Big

-----------------------------------------------------------------------------
(* Scales: whole numbers, closed under products, that are floats as far as  *)
(* a cap.  A float is measured against a number x of the scale from below,  *)
(* up to the cap, and from above while x is within it.                      *)

Scale(G, c) ==
  /\ G \subseteq Nat \ {0} /\ 1 \in G /\ c \in G
  /\ \A x, y \in G : x * y \in G
  /\ \A x \in G : x <= c => x * One \in Grid

Above(v, x, c) == AtLeast(v, Least(x, c))
Below(v, x, c) == x <= c /\ x * One < Top => AtMost(v, x)

\* The whole numbers up to ExactMax, and the powers of two up to the first that is
\* too large.
Whole == Nat \ {0}
AllTwos == {Power(2, e) : e \in Nat}
TwoMax == Power(2, ExpMax + 1)

\* Every whole number is on a scale capped at ExactMax.
LEMMA WholeScale == Scale(Whole, ExactMax)
<1>1. One \in Nat /\ One >= 1 /\ ExactMax \in Nat /\ ExactMax = 2 * One
  BY FloatSizes
<1>2. \A x, y \in Whole : x * y \in Whole
  BY DEF Whole
<1>3. \A x \in Whole : x <= ExactMax => x * One \in Grid
  BY GridHolds DEF Whole
<1>4. Whole \subseteq Nat \ {0} /\ 1 \in Whole /\ ExactMax \in Whole
  BY <1>1 DEF Whole
<1> QED BY <1>2, <1>3, <1>4 DEF Scale

\* The powers of two are on a scale of their own, whose cap is past every float.
LEMMA TwosScale == Scale(AllTwos, TwoMax) /\ TwoMax * One = Top
<1>1. Precision \in Nat /\ Precision >= 1 /\ ExpMax \in Nat
  BY FloatAssumption
<1>2. TwoMax * One = Top
  <2>1. PICK q \in Nat : q = Power(2, ExpMax) /\ Power(2, ExpMax + 1) = 2 * q
    <3>1. Power(2, ExpMax) \in Nat /\ Power(2, ExpMax + 1) = 2 * Power(2, ExpMax)
      BY <1>1, PowerDefined
    <3> QED BY <3>1
  <2>2. One \in Nat /\ Top = (2 * One) * q
    BY <2>1, FloatSizes
  <2>3. (2 * q) * One = (2 * One) * q
    BY <2>2
  <2> QED BY <2>1, <2>2, <2>3 DEF TwoMax
<1>3. AllTwos \subseteq Nat \ {0}
  <2>1. \A e \in Nat : Power(2, e) \in Nat \ {0}
    BY PowerPositive
  <2> QED BY <2>1 DEF AllTwos
<1>4. 1 \in AllTwos /\ TwoMax \in AllTwos
  <2>1. Power(2, 0) = 1 /\ ExpMax + 1 \in Nat
    BY <1>1, PowerDefined
  <2> QED BY <2>1 DEF AllTwos, TwoMax
<1>5. ASSUME NEW x \in AllTwos, NEW y \in AllTwos PROVE x * y \in AllTwos
  <2>1. PICK d \in Nat, e \in Nat : x = Power(2, d) /\ y = Power(2, e)
    BY DEF AllTwos
  <2>2. d + e \in Nat /\ Power(2, d + e) = x * y
    BY <2>1, PowerOfSum
  <2> QED BY <2>2 DEF AllTwos
<1>6. ASSUME NEW x \in AllTwos, x <= TwoMax PROVE x * One \in Grid
  <2>1. PICK e \in Nat : x = Power(2, e)
    BY DEF AllTwos
  <2>2. x \in Nat /\ TwoMax \in Nat /\ One \in Nat /\ 1 * x = x /\ 1 <= ExactMax
    BY <1>3, <1>4, FloatSizes
  <2>3. x * One <= Top
    <3>1. x * One <= TwoMax * One
      BY <1>6, <2>2
    <3> QED BY <1>2, <3>1
  <2> QED BY <2>1, <2>2, <2>3, GridTimesTwo
<1> QED BY <1>2, <1>3, <1>4, <1>5, <1>6 DEF Scale

\* A power of a number of the scale is on the scale.
LEMMA ScalePower ==
  ASSUME NEW G, NEW c, Scale(G, c), NEW b \in G
  PROVE  \A n \in Nat : Power(b, n) \in G
<1>1. b \in Nat /\ 1 \in G /\ \A x, y \in G : x * y \in G
  BY DEF Scale
<1> DEFINE S == {n \in Nat : Power(b, n) \in G}
<1>2. 0 \in S
  BY <1>1, PowerDefined
<1>3. ASSUME NEW n \in Nat, n \in S PROVE n + 1 \in S
  BY <1>1, <1>3, PowerDefined
<1> HIDE DEF S
<1>4. \A n \in Nat : n \in S
  BY <1>2, <1>3, InductiveSet
<1> QED BY <1>4 DEF S

\* Products keep both measures.
LEMMA FMulAbove ==
  ASSUME NEW G, NEW c, Scale(G, c), NEW v \in Big, NEW w \in Big,
         NEW x \in G, NEW y \in G, Above(v, x, c), Above(w, y, c)
  PROVE  Above(FMul(v, w), x * y, c)
<1>0. c \in G /\ x * y \in G /\ \A g \in G : g \in Nat /\ g >= 1
  BY DEF Scale
<1>1. x \in Nat /\ x >= 1 /\ y \in Nat /\ y >= 1 /\ c \in Nat /\ c >= 1
  BY <1>0
<1>2. PICK z \in G : z = Least(x * y, c) /\ z <= c
  <2>1. CASE x * y <= c
    BY <1>0, <2>1 DEF Least
  <2>2. CASE ~(x * y <= c)
    BY <1>0, <1>1, <2>2 DEF Least
  <2> QED BY <2>1, <2>2
<1>3. PICK a \in Nat, b \in Nat : a = Least(x, c) /\ b = Least(y, c)
  BY <1>1 DEF Least
<1>4. z \in Nat /\ z * One \in Grid
  BY <1>2 DEF Scale
<1>5. z <= a * b
  <2>1. z <= x * y /\ z <= c
    BY <1>1, <1>2 DEF Least
  <2>2. a >= 1 /\ b >= 1 /\ (a = x \/ a = c) /\ (b = y \/ b = c)
    BY <1>1, <1>3 DEF Least
  <2>3. \A p, q \in Nat : p >= 1 /\ q >= 1 => p <= p * q /\ q <= p * q
    OBVIOUS
  <2>4. CASE a = x /\ b = y
    BY <2>1, <2>4
  <2>5. CASE a = c
    BY <1>1, <1>3, <1>4, <2>1, <2>2, <2>3, <2>5
  <2>6. CASE b = c
    BY <1>1, <1>3, <1>4, <2>1, <2>2, <2>3, <2>6
  <2> QED BY <2>2, <2>4, <2>5, <2>6
<1>6. AtLeast(v, a) /\ AtLeast(w, b)
  BY <1>3 DEF Above
<1>7. AtLeast(FMul(v, w), z)
  BY <1>3, <1>4, <1>5, <1>6, FMulAtLeast
<1> QED BY <1>2, <1>7 DEF Above

LEMMA FMulBelow ==
  ASSUME NEW G, NEW c, Scale(G, c), NEW v \in Big, NEW w \in Big,
         NEW x \in G, NEW y \in G, Below(v, x, c), Below(w, y, c)
  PROVE  Below(FMul(v, w), x * y, c)
<1> SUFFICES ASSUME x * y <= c, (x * y) * One < Top
             PROVE  AtMost(FMul(v, w), x * y)
  BY DEF Below
<1>1. /\ x \in Nat /\ x >= 1 /\ y \in Nat /\ y >= 1 /\ c \in Nat /\ x * y \in G
      /\ x * y \in Nat /\ One \in Nat /\ Top \in Nat
  BY FloatSizes DEF Scale
<1>2. x <= x * y /\ y <= x * y
  BY <1>1
<1>3. x * One <= (x * y) * One /\ y * One <= (x * y) * One
  <2>1. \A p, q \in Nat : p <= q => p * One <= q * One
    BY <1>1
  <2> QED BY <1>1, <1>2, <2>1
<1>4. x * One \in Nat /\ y * One \in Nat /\ (x * y) * One \in Nat
  BY <1>1
<1>5. AtMost(v, x)
  <2>1. x <= c /\ x * One < Top
    BY <1>1, <1>2, <1>3, <1>4
  <2> QED BY <2>1 DEF Below
<1>6. AtMost(w, y)
  <2>1. y <= c /\ y * One < Top
    BY <1>1, <1>2, <1>3, <1>4
  <2> QED BY <2>1 DEF Below
<1>7. (x * y) * One \in Finite
  <2>1. (x * y) * One \in Grid
    BY <1>1 DEF Scale
  <2> QED BY <2>1, GridHolds
<1>8. x * y <= x * y
  BY <1>1
<1> QED BY <1>1, <1>5, <1>6, <1>7, <1>8, FMulAtMost

-----------------------------------------------------------------------------
(* The loop. *)

\* Numbers of a scale that the result and the factor are measured by, and whose
\* product, with the power that is left, is the power asked for.
AboveSplit(res, fac, rem, power, G, c) ==
  \E r, f \in G : /\ r * Power(f, rem) = power
                  /\ Above(res, r, c) /\ Above(fac, f, c)
BelowSplit(res, fac, rem, power, G, c) ==
  \E r, f \in G : /\ r * Power(f, rem) = power
                  /\ Below(res, r, c) /\ Below(fac, f, c)

\* Halving the exponent, as the loop does.
LEMMA Halved ==
  ASSUME NEW r \in Nat, r > 0
  PROVE  /\ r \div 2 \in Nat /\ r \div 2 <= r
         /\ Odd(r) => r = 2 * (r \div 2) + 1
         /\ ~Odd(r) => r = 2 * (r \div 2) /\ r \div 2 > 0
BY DEF Odd

\* What a turn does to the numbers.
LEMMA TurnSplits ==
  ASSUME NEW r \in Nat, NEW f \in Nat, NEW rem \in Nat, rem > 0
  PROVE  /\ Odd(rem) => (r * f) * Power(f * f, rem \div 2) = r * Power(f, rem)
         /\ ~Odd(rem) => r * Power(f * f, rem \div 2) = r * Power(f, rem)
<1> DEFINE m == rem \div 2
<1>1. m \in Nat /\ (Odd(rem) => rem = 2 * m + 1) /\ (~Odd(rem) => rem = 2 * m)
  BY Halved
<1> HIDE DEF m
<1>2. Power(f * f, m) \in Nat
  BY <1>1, PowerDefined, f * f \in Nat
<1>3. CASE Odd(rem)
  <2>1. Power(f, rem) = f * Power(f * f, m)
    BY <1>1, <1>3, PowerOfSquare
  <2>2. \A q \in Nat : r * (f * q) = (r * f) * q
    OBVIOUS
  <2> QED BY <1>2, <1>3, <2>1, <2>2 DEF m
<1>4. CASE ~Odd(rem)
  <2>1. Power(f, rem) = Power(f * f, m)
    BY <1>1, <1>4, PowerOfSquare
  <2> QED BY <1>4, <2>1 DEF m
<1> QED BY <1>3, <1>4

\* What it does to the floats, from below and from above.
LEMMA TurnAbove ==
  ASSUME NEW G, NEW c, Scale(G, c), NEW res \in Big, NEW fac \in Big,
         NEW rem \in Nat, rem > 0, NEW power, AboveSplit(res, fac, rem, power, G, c),
         NEW product, product = IF Odd(rem) THEN FMul(res, fac) ELSE res
  PROVE  AboveSplit(product, FMul(fac, fac), rem \div 2, power, G, c)
<1>1. PICK r \in G, f \in G :
        r * Power(f, rem) = power /\ Above(res, r, c) /\ Above(fac, f, c)
  BY DEF AboveSplit
<1>2. r \in Nat /\ f \in Nat /\ r * f \in G /\ f * f \in G
  BY DEF Scale
<1>3. Above(FMul(fac, fac), f * f, c)
  BY <1>1, FMulAbove
<1>4. CASE Odd(rem)
  <2>1. Above(product, r * f, c)
    BY <1>1, <1>4, FMulAbove
  <2>2. (r * f) * Power(f * f, rem \div 2) = power
    BY <1>1, <1>2, <1>4, TurnSplits
  <2> QED BY <1>2, <1>3, <2>1, <2>2 DEF AboveSplit
<1>5. CASE ~Odd(rem)
  <2>1. r * Power(f * f, rem \div 2) = power
    BY <1>1, <1>2, <1>5, TurnSplits
  <2>2. Above(product, r, c)
    BY <1>1, <1>5
  <2> QED BY <1>2, <1>3, <2>1, <2>2 DEF AboveSplit
<1> QED BY <1>4, <1>5

LEMMA TurnBelow ==
  ASSUME NEW G, NEW c, Scale(G, c), NEW res \in Big, NEW fac \in Big,
         NEW rem \in Nat, rem > 0, NEW power, BelowSplit(res, fac, rem, power, G, c),
         NEW product, product = IF Odd(rem) THEN FMul(res, fac) ELSE res
  PROVE  BelowSplit(product, FMul(fac, fac), rem \div 2, power, G, c)
<1>1. PICK r \in G, f \in G :
        r * Power(f, rem) = power /\ Below(res, r, c) /\ Below(fac, f, c)
  BY DEF BelowSplit
<1>2. r \in Nat /\ f \in Nat /\ r * f \in G /\ f * f \in G
  BY DEF Scale
<1>3. Below(FMul(fac, fac), f * f, c)
  BY <1>1, FMulBelow
<1>4. CASE Odd(rem)
  <2>1. Below(product, r * f, c)
    BY <1>1, <1>4, FMulBelow
  <2>2. (r * f) * Power(f * f, rem \div 2) = power
    BY <1>1, <1>2, <1>4, TurnSplits
  <2> QED BY <1>2, <1>3, <2>1, <2>2 DEF BelowSplit
<1>5. CASE ~Odd(rem)
  <2>1. r * Power(f * f, rem \div 2) = power
    BY <1>1, <1>2, <1>5, TurnSplits
  <2>2. Below(product, r, c)
    BY <1>1, <1>5
  <2> QED BY <1>2, <1>3, <2>1, <2>2 DEF BelowSplit
<1> QED BY <1>4, <1>5

\* A split measures the result by no more than the power asked for, and by just that
\* power when nothing is left.
LEMMA SplitResult ==
  ASSUME NEW G, NEW c, Scale(G, c), NEW res, NEW fac, NEW rem \in Nat, NEW power \in Nat
  PROVE  /\ AboveSplit(res, fac, 0, power, G, c) => Above(res, power, c)
         /\ BelowSplit(res, fac, 0, power, G, c) => Below(res, power, c)
         /\ BelowSplit(res, fac, rem, power, G, c) /\ power <= c /\ power * One < Top
              => res # Infinity
<1>1. \A x \in G : x \in Nat /\ x >= 1
  BY DEF Scale
<1>2. \A r, f \in G : r * Power(f, 0) = r
  BY <1>1, PowerDefined
<1>3. ASSUME BelowSplit(res, fac, rem, power, G, c), power <= c, power * One < Top
      PROVE  res # Infinity
  <2>1. PICK r \in G, f \in G : r * Power(f, rem) = power /\ Below(res, r, c)
    BY <1>3 DEF BelowSplit
  <2>2. /\ r \in Nat /\ r >= 1 /\ f \in Nat /\ f >= 1 /\ c \in Nat
        /\ One \in Nat /\ Top \in Nat
    BY <1>1, FloatSizes DEF Scale
  <2>3. Power(f, rem) \in Nat /\ Power(f, rem) >= 1
    BY <2>2, PowerPositive
  <2>4. r <= power
    <3>1. \A q \in Nat : q >= 1 => r <= r * q
      BY <2>2
    <3> QED BY <2>1, <2>3, <3>1
  <2>5. r * One <= power * One /\ r * One \in Nat /\ power * One \in Nat
    BY <2>2, <2>4
  <2>6. r <= c /\ r * One < Top
    BY <1>3, <2>2, <2>4, <2>5
  <2> QED BY <2>1, <2>6 DEF Below, AtMost
<1> QED BY <1>2, <1>3 DEF AboveSplit, BelowSplit

-----------------------------------------------------------------------------
(* Turning the power into a duration. *)

\* What saturating_duration_mul_f64 computes from a delay that is not zero.
LEMMA DurationOf ==
  ASSUME NEW dur \in Duration, dur # 0, NEW mul \in Big
  PROVE  /\ dur \in Nat /\ dur >= 1 /\ AsFloat[dur] \in Big
         /\ FMul(AsFloat[dur], mul) \in Big
         /\ SaturatingDurationMul(dur, mul) =
              IF \/ FMul(AsFloat[dur], mul) = Infinity
                 \/ FMul(AsFloat[dur], mul) >= (DurMax + 1) * One
              THEN DurMax ELSE FMul(AsFloat[dur], mul) \div One
<1>1. One \in Nat /\ One >= 1 /\ DurMax \in Nat
  BY FloatSizes, DurMaxAssumption
<1>2. dur \in Nat /\ dur >= 1
  BY <1>1 DEF Duration
<1>3. AsFloat[dur] = Round(dur * One * One) /\ (dur * One) * One \in Nat
  BY <1>1, <1>2 DEF AsFloat
<1>4. AsFloat[dur] \in Big
  <2>1. One * One <= (dur * One) * One
    <3>1. One <= dur * One
      BY <1>1, <1>2
    <3>2. \A x, y \in Nat : x <= y => x * One <= y * One
      BY <1>1
    <3> QED BY <1>1, <1>2, <3>1, <3>2
  <2>2. One \in Grid
    <3>1. 1 * One \in Finite /\ 1 * One = One
      BY <1>1, GridHolds, FloatSizes
    <3> QED BY <3>1, GridHolds
  <2>3. Round((dur * One) * One) = Infinity \/ One <= Round((dur * One) * One)
    BY <1>3, <2>1, <2>2, RoundsBetween
  <2>4. Round((dur * One) * One) \in Finite \cup {Infinity}
    BY <1>3, RoundsBetween
  <2> QED BY <1>3, <2>3, <2>4 DEF Big
<1>5. FMul(AsFloat[dur], mul) \in Big
  BY <1>4, FMulBig
<1>6. FMul(AsFloat[dur], mul) # NaN
  BY <1>5, BigIs
<1>7. SaturatingDurationMul(dur, mul) =
        IF FMul(AsFloat[dur], mul) = Infinity THEN DurMax
        ELSE IF FMul(AsFloat[dur], mul) >= (DurMax + 1) * One THEN DurMax
        ELSE FMul(AsFloat[dur], mul) \div One
  BY <1>6, LongestAssumption, Zenon DEF SaturatingDurationMul
<1> QED BY <1>2, <1>4, <1>5, <1>7

\* Truncation to whole nanoseconds.
LEMMA Truncated ==
  ASSUME NEW x \in Nat
  PROVE  /\ x \div One \in Nat /\ (x \div One) * One <= x
         /\ \A z \in Nat : z * One <= x => z <= x \div One
         /\ \A z \in Nat : x <= z * One => x \div One <= z
         /\ \A z \in Nat : x < (z + 1) * One => x \div One <= z
<1>1. One \in Nat \ {0}
  BY FloatSizes
<1>2. ASSUME NEW w \in Nat \ {0}
      PROVE  /\ x \div w \in Nat /\ x = (x \div w) * w + (x % w)
             /\ x % w \in Nat /\ x % w < w
  OBVIOUS
<1>3. PICK q \in Nat, r \in Nat : q = x \div One /\ x = q * One + r /\ r < One
  <2>1. /\ x \div One \in Nat /\ x = (x \div One) * One + (x % One)
        /\ x % One \in Nat /\ x % One < One
    BY <1>1, <1>2
  <2> QED BY <2>1
<1>4. q * One \in Nat /\ (q + 1) * One = q * One + One
  BY <1>1
<1>5. ASSUME NEW y \in Nat, NEW z \in Nat, y + 1 <= z PROVE (y + 1) * One <= z * One
  BY <1>1, <1>5
<1>6. ASSUME NEW z \in Nat, z * One <= x PROVE z <= q
  <2>1. z * One \in Nat
    BY <1>1
  <2>2. ~(q + 1 <= z)
    BY <1>1, <1>3, <1>4, <1>5, <1>6, <2>1
  <2> QED BY <2>2
<1>7. ASSUME NEW z \in Nat, x < (z + 1) * One PROVE q <= z
  <2>1. z * One \in Nat /\ (z + 1) * One = z * One + One /\ (z + 1) * One \in Nat
    BY <1>1
  <2>2. ~(z + 1 <= q)
    BY <1>1, <1>3, <1>4, <1>5, <1>7, <2>1
  <2> QED BY <2>2
<1>8. ASSUME NEW z \in Nat, x <= z * One PROVE q <= z
  <2>1. z * One \in Nat /\ (z + 1) * One = z * One + One
    BY <1>1
  <2>2. x < (z + 1) * One
    BY <1>1, <1>8, <2>1
  <2> QED BY <1>7, <2>2
<1> QED BY <1>3, <1>4, <1>6, <1>7, <1>8

\* The delay is a duration, and follows the bounds of the product.
LEMMA DurationBounds ==
  ASSUME NEW dur \in Duration, dur # 0, NEW mul \in Big
  PROVE  /\ SaturatingDurationMul(dur, mul) \in Duration
         /\ \A z \in Nat : AtLeast(FMul(AsFloat[dur], mul), z)
                             => Least(z, DurMax) <= SaturatingDurationMul(dur, mul)
         /\ \A z \in Duration : AtMost(FMul(AsFloat[dur], mul), z)
                             => SaturatingDurationMul(dur, mul) <= z
         /\ \A z \in Nat : AtLeast(FMul(AsFloat[dur], mul), z) /\ Top <= z * One
                             => SaturatingDurationMul(dur, mul) = DurMax
<1> DEFINE nanos == FMul(AsFloat[dur], mul)
           ret == SaturatingDurationMul(dur, mul)
<1>1. /\ nanos \in Big
      /\ ret = IF nanos = Infinity \/ nanos >= (DurMax + 1) * One
               THEN DurMax ELSE nanos \div One
  BY DurationOf
<1>2. One \in Nat /\ One >= 1 /\ DurMax \in Nat /\ Top \in Nat
  BY FloatSizes, DurMaxAssumption
<1> HIDE DEF nanos, ret
<1>3. nanos # Infinity => nanos \in Nat /\ nanos < Top
  BY <1>1, BigIs
<1>4. CASE nanos = Infinity
  <2>1. ret = DurMax
    BY <1>1, <1>4
  <2>2. \A z : ~AtMost(nanos, z)
    BY <1>4 DEF AtMost
  <2> QED BY <1>2, <2>1, <2>2 DEF Duration, Least, nanos, ret
<1>5. CASE nanos # Infinity /\ nanos >= (DurMax + 1) * One
  <2>1. ret = DurMax
    BY <1>1, <1>5
  <2>2. ASSUME NEW z \in Duration, AtMost(nanos, z) PROVE FALSE
    <3>1. z \in Nat /\ z <= DurMax
      BY <1>2 DEF Duration
    <3>2. z * One \in Nat /\ DurMax * One \in Nat /\ (DurMax + 1) * One = DurMax * One + One
      BY <1>2, <3>1
    <3>3. z * One <= DurMax * One
      BY <1>2, <3>1
    <3>4. nanos <= z * One
      BY <2>2 DEF AtMost
    <3> QED BY <1>2, <1>3, <1>5, <3>2, <3>3, <3>4
  <2> QED BY <1>2, <2>1, <2>2 DEF Duration, Least, nanos, ret
<1>6. CASE nanos # Infinity /\ ~(nanos >= (DurMax + 1) * One)
  <2>1. ret = nanos \div One /\ nanos \in Nat
    BY <1>1, <1>3, <1>6
  <2>2. (DurMax + 1) * One \in Nat
    BY <1>2
  <2>3. nanos < (DurMax + 1) * One
    BY <1>6, <2>1, <2>2
  <2>4. ret \in Nat /\ ret <= DurMax
    BY <1>2, <2>1, <2>3, Truncated
  <2>5. ASSUME NEW z \in Nat, AtLeast(nanos, z)
        PROVE  Least(z, DurMax) <= ret /\ ~(Top <= z * One)
    <3>1. z * One <= nanos /\ z * One \in Nat
      BY <1>2, <1>6, <2>5 DEF AtLeast
    <3>2. z <= ret
      BY <2>1, <3>1, Truncated
    <3>3. ~(Top <= z * One)
      BY <1>2, <1>3, <1>6, <3>1
    <3> QED BY <1>2, <2>4, <3>2, <3>3 DEF Least
  <2>6. ASSUME NEW z \in Duration, AtMost(nanos, z) PROVE ret <= z
    <3>1. z \in Nat /\ nanos <= z * One
      BY <1>2, <2>6 DEF AtMost, Duration
    <3> QED BY <2>1, <3>1, Truncated
  <2>7. ret \in Duration
    BY <1>2, <2>4 DEF Duration
  <2> QED BY <2>5, <2>6, <2>7 DEF nanos, ret
<1> QED BY <1>4, <1>5, <1>6

\* The float of a delay, measured by the delay.
LEMMA AsFloatBounds ==
  ASSUME NEW dur \in Duration, dur # 0
  PROVE  /\ AtLeast(AsFloat[dur], Least(dur, ExactMax))
         /\ dur <= ExactMax => AtMost(AsFloat[dur], dur)
<1>1. One \in Nat /\ One >= 1 /\ DurMax \in Nat /\ ExactMax \in Nat
  BY FloatSizes, DurMaxAssumption
<1>2. dur \in Nat /\ dur >= 1
  BY <1>1 DEF Duration
<1>3. AsFloat[dur] = Round((dur * One) * One) /\ (dur * One) * One \in Nat
  BY <1>1, <1>2 DEF AsFloat
<1>4. PICK i \in Nat : i = Least(dur, ExactMax) /\ i <= dur /\ i <= ExactMax
  BY <1>1, <1>2 DEF Least
<1>5. i * One \in Grid
  BY <1>4, GridHolds
<1>6. (i * One) * One <= (dur * One) * One
  <2>1. \A x, y \in Nat : x <= y => x * One <= y * One
    BY <1>1
  <2> QED BY <1>1, <1>2, <1>4, <2>1
<1>7. AtLeast(AsFloat[dur], i)
  BY <1>3, <1>5, <1>6, RoundsBetween DEF AtLeast
<1>8. ASSUME dur <= ExactMax PROVE AtMost(AsFloat[dur], dur)
  <2>1. dur * One \in Finite /\ (dur * One) * One <= (dur * One) * One
    BY <1>2, <1>3, <1>8, GridHolds
  <2>2. Round((dur * One) * One) \in Finite /\ Round((dur * One) * One) <= dur * One
    BY <1>3, <2>1, RoundsBetween
  <2>3. Round((dur * One) * One) \in Nat /\ Infinity \notin Int
    BY <2>2, GridHolds, InfinityAssumption
  <2> QED BY <1>3, <2>2, <2>3 DEF AtMost
<1> QED BY <1>4, <1>7, <1>8

\* The delay against the unrounded product, on the scale of whole numbers.
LEMMA DurationWhole ==
  ASSUME NEW dur \in Duration, NEW mul \in Big, NEW power \in Whole
  PROVE  /\ Above(mul, power, ExactMax) =>
              Least(SatMul(dur, power), ExactMax) <= SaturatingDurationMul(dur, mul)
         /\ Below(mul, power, ExactMax) /\ SatMul(dur, power) <= ExactMax =>
              SaturatingDurationMul(dur, mul) <= SatMul(dur, power)
<1>1. /\ One \in Nat /\ One >= 1 /\ DurMax \in Nat /\ ExactMax \in Nat /\ ExactMax >= 1
      /\ Top \in Nat /\ ExactMax * One < Top
      /\ dur \in Nat /\ dur <= DurMax /\ power \in Nat /\ power >= 1
  BY FloatSizes, DurMaxAssumption DEF Duration, Whole
<1>2. PICK x \in Nat : x = dur * power
  BY <1>1
<1>3. SatMul(dur, power) = Least(x, DurMax)
  BY <1>2 DEF SatMul, Least
<1>4. CASE dur = 0
  <2>1. x = 0 /\ SaturatingDurationMul(dur, mul) = 0
    BY <1>1, <1>2, <1>4 DEF SaturatingDurationMul
  <2> QED BY <1>1, <1>3, <2>1 DEF Least
<1>5. CASE dur # 0
  <2> DEFINE ret == SaturatingDurationMul(dur, mul)
  <2>1. ret \in Duration
    BY <1>5, DurationBounds
  <2>2. AsFloat[dur] \in Big
    BY <1>5, DurationOf
  <2>3. ASSUME Above(mul, power, ExactMax)
        PROVE  Least(SatMul(dur, power), ExactMax) <= ret
    <3>1. Above(AsFloat[dur], dur, ExactMax) /\ dur \in Whole
      BY <1>1, <1>5, AsFloatBounds DEF Above, Whole
    <3>2. Above(FMul(AsFloat[dur], mul), x, ExactMax)
      BY <1>2, <2>2, <2>3, <3>1, FMulAbove, WholeScale
    <3>3. PICK z \in Nat : z = Least(x, ExactMax)
      BY <1>1 DEF Least
    <3>4. Least(z, DurMax) <= ret
      BY <1>5, <3>2, <3>3, DurationBounds DEF Above
    <3>5. Least(SatMul(dur, power), ExactMax) = Least(z, DurMax)
      BY <1>1, <1>3, <3>3 DEF Least
    <3> QED BY <3>4, <3>5
  <2>4. ASSUME Below(mul, power, ExactMax), SatMul(dur, power) <= ExactMax
        PROVE  ret <= SatMul(dur, power)
    <3>1. CASE ~(x <= DurMax)
      BY <1>1, <1>3, <2>1, <3>1 DEF Least, Duration
    <3>2. CASE x <= DurMax
      <4>1. SatMul(dur, power) = x /\ x <= ExactMax /\ x \in Duration
        BY <1>1, <1>3, <2>4, <3>2 DEF Least, Duration
      <4>2. dur <= x /\ power <= x
        <5>1. \A p, q \in Nat : p >= 1 /\ q >= 1 => p <= p * q /\ q <= p * q
          OBVIOUS
        <5> QED BY <1>1, <1>2, <1>5, <5>1
      <4>3. dur <= ExactMax /\ power <= ExactMax
        BY <1>1, <4>1, <4>2
      <4>4. power * One < Top
        <5>1. power * One <= ExactMax * One /\ power * One \in Nat /\ ExactMax * One \in Nat
          BY <1>1, <4>3
        <5> QED BY <1>1, <5>1
      <4>5. AtMost(mul, power) /\ AtMost(AsFloat[dur], dur)
        BY <1>5, <2>4, <4>3, <4>4, AsFloatBounds DEF Below
      <4>6. x * One \in Finite /\ dur * power <= x
        BY <1>2, <4>1, GridHolds
      <4>7. AtMost(FMul(AsFloat[dur], mul), x)
        BY <1>1, <2>2, <4>5, <4>6, FMulAtMost
      <4> QED BY <1>5, <4>1, <4>7, DurationBounds
    <3> QED BY <3>1, <3>2
  <2> HIDE DEF ret
  <2> QED BY <2>3, <2>4 DEF ret
<1> QED BY <1>4, <1>5

\* And on the scale of powers of two, which reaches the longest duration.
LEMMA DurationTwos ==
  ASSUME NEW dur \in Duration, NEW mul \in Big, NEW power \in AllTwos
  PROVE  /\ Above(mul, power, TwoMax) =>
              SatMul(Least(dur, ExactMax), power) <= SaturatingDurationMul(dur, mul)
         /\ Below(mul, power, TwoMax) /\ dur <= ExactMax =>
              SaturatingDurationMul(dur, mul) <= SatMul(dur, power)
<1>1. /\ One \in Nat /\ One >= 1 /\ DurMax \in Nat /\ ExactMax \in Nat /\ ExactMax >= 1
      /\ Top \in Nat /\ dur \in Nat /\ dur <= DurMax
  BY FloatSizes, DurMaxAssumption DEF Duration
<1>2. /\ Scale(AllTwos, TwoMax) /\ TwoMax * One = Top
      /\ TwoMax \in Nat /\ power \in Nat /\ power >= 1
  <2>1. Scale(AllTwos, TwoMax) /\ TwoMax * One = Top
    BY TwosScale, Zenon
  <2>2. AllTwos \subseteq Nat \ {0} /\ TwoMax \in AllTwos
    BY <2>1, Zenon DEF Scale
  <2> QED BY <2>1, <2>2
<1>3. PICK e \in Nat : power = Power(2, e)
  BY DEF AllTwos
<1>4. PICK i \in Nat : i = Least(dur, ExactMax) /\ i <= dur /\ i <= ExactMax
  BY <1>1 DEF Least
<1>5. CASE dur = 0
  <2>1. SaturatingDurationMul(dur, mul) = 0 /\ i = 0 /\ i * power = 0 /\ dur * power = 0
    BY <1>1, <1>2, <1>4, <1>5 DEF SaturatingDurationMul
  <2> QED BY <1>1, <1>4, <2>1 DEF SatMul
<1>6. CASE dur # 0
  <2> DEFINE ret == SaturatingDurationMul(dur, mul)
             nanos == FMul(AsFloat[dur], mul)
  <2>1. /\ ret \in Duration
        /\ \A z \in Nat : AtLeast(nanos, z) => Least(z, DurMax) <= ret
        /\ \A z \in Duration : AtMost(nanos, z) => ret <= z
        /\ \A z \in Nat : AtLeast(nanos, z) /\ Top <= z * One => ret = DurMax
    BY <1>6, DurationBounds
  <2>2. AsFloat[dur] \in Big
    BY <1>6, DurationOf
  <2>3. /\ AtLeast(AsFloat[dur], i) /\ i >= 1
        /\ dur <= ExactMax => AtMost(AsFloat[dur], dur)
    BY <1>1, <1>4, <1>6, AsFloatBounds DEF Least
  <2>4. PICK x \in Nat : x = i * power
    BY <1>2
  <2>5. SatMul(i, power) = Least(x, DurMax) /\ SatMul(i, power) <= DurMax
    BY <1>1, <2>4 DEF SatMul, Least
  <2>6. ASSUME NEW m \in Nat, m <= ExactMax, (m * power) * One <= Top
        PROVE  (m * power) * One \in Grid
    BY <1>3, <2>6, GridTimesTwo
  <2> HIDE DEF ret, nanos
  <2>7. ASSUME Above(mul, power, TwoMax) PROVE SatMul(i, power) <= ret
    <3>1. CASE ~(power <= TwoMax)
      <4>1. AtLeast(mul, TwoMax)
        BY <2>7, <3>1 DEF Above, Least
      <4>2. AtLeast(nanos, TwoMax)
        <5>1. TwoMax * One \in Grid
          BY <1>2, GridHolds
        <5>2. TwoMax <= 1 * TwoMax
          BY <1>2
        <5>3. AtLeast(AsFloat[dur], 1)
          BY <2>2, BigIs
        <5> QED BY <1>2, <2>2, <4>1, <5>1, <5>2, <5>3, FMulAtLeast DEF nanos
      <4>3. ret = DurMax
        BY <1>1, <1>2, <2>1, <4>2
      <4> QED BY <2>5, <4>3
    <3>2. CASE power <= TwoMax
      <4>1. AtLeast(mul, power)
        BY <2>7, <3>2 DEF Above, Least
      <4>2. CASE x * One <= Top
        <5>1. x * One \in Grid /\ x <= i * power
          BY <1>4, <2>4, <2>6, <4>2
        <5>2. AtLeast(nanos, x)
          BY <1>2, <2>2, <2>3, <4>1, <5>1, FMulAtLeast DEF nanos
        <5> QED BY <2>1, <2>5, <5>2
      <4>3. CASE ~(x * One <= Top)
        <5>1. TwoMax * One < x * One
          BY <1>1, <1>2, <4>3
        <5>2. TwoMax <= x
          BY <1>1, <1>2, <5>1
        <5>3. AtLeast(nanos, TwoMax)
          <6>1. TwoMax * One \in Grid /\ TwoMax <= i * power
            BY <1>2, <2>4, <5>2, GridHolds
          <6> QED BY <1>2, <2>2, <2>3, <4>1, <6>1, FMulAtLeast DEF nanos
        <5>4. ret = DurMax
          BY <1>1, <1>2, <2>1, <5>3
        <5> QED BY <2>5, <5>4
      <4> QED BY <4>2, <4>3
    <3> QED BY <3>1, <3>2
  <2>8. ASSUME Below(mul, power, TwoMax), dur <= ExactMax PROVE ret <= SatMul(dur, power)
    <3>1. i = dur
      BY <1>1, <1>4, <2>8 DEF Least
    <3>2. CASE ~(x <= DurMax)
      BY <1>1, <2>1, <2>5, <3>1, <3>2 DEF Least, Duration
    <3>3. CASE x <= DurMax
      <4>1. SatMul(dur, power) = x /\ x \in Duration
        BY <1>1, <2>5, <3>1, <3>3 DEF Least, Duration
      <4>2. x * One < Top
        <5>1. DurMax \in Duration /\ DurMax # 0
          BY <1>1, DurMaxAssumption DEF Duration
        <5>2. AsFloat[DurMax] \in Big /\ AsFloat[DurMax] = (DurMax + 1) * One
          BY <5>1, DurationOf, LongestAssumption
        <5>3. (DurMax + 1) * One \in Nat /\ (DurMax + 1) * One # Infinity
          <6>1. (DurMax + 1) * One \in Nat
            BY <1>1
          <6> QED BY <6>1, InfinityAssumption
        <5>4. (DurMax + 1) * One < Top
          BY <5>2, <5>3, BigIs
        <5>5. x * One <= (DurMax + 1) * One /\ x * One \in Nat
          BY <1>1, <3>3
        <5> QED BY <1>1, <5>3, <5>4, <5>5
      <4>3. power <= x
        <5>1. \A p, q \in Nat : p >= 1 /\ q >= 1 => q <= p * q
          OBVIOUS
        <5> QED BY <1>2, <2>3, <2>4, <5>1
      <4>4. power * One < Top
        <5>1. power * One <= x * One /\ power * One \in Nat /\ x * One \in Nat
          BY <1>1, <1>2, <4>3
        <5> QED BY <1>1, <4>2, <5>1
      <4>5. power <= TwoMax
        <5>1. power * One < TwoMax * One
          BY <1>2, <4>4
        <5> QED BY <1>1, <1>2, <5>1
      <4>6. AtMost(mul, power) /\ AtMost(AsFloat[dur], dur)
        BY <2>3, <2>8, <4>4, <4>5 DEF Below
      <4>7. x * One \in Finite
        <5>1. (i * power) * One <= Top
          BY <1>1, <2>4, <4>2
        <5>2. x * One \in Grid
          BY <1>4, <2>4, <2>6, <5>1
        <5> QED BY <4>2, <5>2, GridHolds
      <4>8. dur * power <= x
        BY <2>4, <3>1
      <4>9. AtMost(nanos, x)
        BY <1>1, <1>2, <2>2, <4>6, <4>7, <4>8, FMulAtMost DEF nanos
      <4> QED BY <2>1, <4>1, <4>9
    <3> QED BY <3>2, <3>3
  <2> QED BY <1>4, <2>7, <2>8 DEF ret
<1> QED BY <1>5, <1>6

-----------------------------------------------------------------------------
(* Exponential backoff. *)

\* What the loop's values are to the power asked for, on both scales: the whole
\* numbers around the base, and the powers of two below it or equal to it.
Splits(res, fac, rem, bs, n) ==
  /\ AboveSplit(res, fac, rem, Power(WholeBelow(bs), n), Whole, ExactMax)
  /\ BelowSplit(res, fac, rem, Power(WholeAbove(bs), n), Whole, ExactMax)
  /\ \A b \in Twos : b * One <= bs =>
       AboveSplit(res, fac, rem, Power(b, n), AllTwos, TwoMax)
  /\ \A b \in Twos : b * One = bs =>
       BelowSplit(res, fac, rem, Power(b, n), AllTwos, TwoMax)

\* What a multiplier is to it.
Reached(mul, bs, n) ==
  /\ Above(mul, Power(WholeBelow(bs), n), ExactMax)
  /\ Below(mul, Power(WholeAbove(bs), n), ExactMax)
  /\ \A b \in Twos : b * One <= bs => Above(mul, Power(b, n), TwoMax)
  /\ \A b \in Twos : b * One = bs => Below(mul, Power(b, n), TwoMax)

\* What a delay is to the unrounded one.
Bracket(dur, ret, bs, n) ==
  /\ Least(SatMul(dur, Power(WholeBelow(bs), n)), ExactMax) <= ret
  /\ SatMul(dur, Power(WholeAbove(bs), n)) <= ExactMax
       => ret <= SatMul(dur, Power(WholeAbove(bs), n))
  /\ \A b \in Twos :
       /\ b * One <= bs => SatMul(Least(dur, ExactMax), Power(b, n)) <= ret
       /\ b * One = bs /\ dur <= ExactMax => ret <= SatMul(dur, Power(b, n))

LoopSplits ==
  /\ remaining > 0 /\ IsFinite(result) /\ result \in Big /\ factor \in Big
  /\ Splits(result, factor, remaining, base, attempt - 1)

\* The inductive invariant of the backoff.
BackoffInv ==
  /\ BackoffTypeOK
  /\ base >= One
  /\ at = "loop" => LoopSplits
  /\ at = "returned" => out \in Duration /\ Bracket(initial, out, base, attempt - 1)

\* The powers of two of the property are some of them all.
LEMMA TwosAre == Twos \subseteq AllTwos /\ \A b \in Twos : b \in Nat /\ b >= 1
<1>1. Twos \subseteq AllTwos
  <2>1. 0..(ExpMax + 1) \subseteq Nat
    BY FloatAssumption
  <2> QED BY <2>1 DEF Twos, AllTwos
<1>2. AllTwos \subseteq Nat \ {0}
  BY TwosScale, Zenon DEF Scale
<1> QED BY <1>1, <1>2

\* The whole numbers around a clamped base.
LEMMA WholeAround ==
  ASSUME NEW bs \in Finite, bs >= One
  PROVE  /\ bs \in Nat /\ bs # Infinity /\ bs \in Big
         /\ WholeBelow(bs) \in Whole /\ WholeBelow(bs) * One <= bs
         /\ WholeAbove(bs) \in Whole /\ bs <= WholeAbove(bs) * One
<1>1. One \in Nat /\ One >= 1 /\ ExactMax \in Nat /\ ExactMax >= 1
  BY FloatSizes
<1>2. bs \in Nat /\ Infinity \notin Int
  BY GridHolds, InfinityAssumption
<1>3. bs # Infinity /\ bs \in Big
  BY <1>1, <1>2 DEF Big
<1>4. PICK q \in Nat : q = bs \div One /\ q * One <= bs /\ \A z \in Nat : z * One <= bs => z <= q
  BY <1>2, Truncated
<1>5. q >= 1
  <2>1. 1 * One <= bs
    BY <1>1, <1>2
  <2> QED BY <1>4, <2>1
<1>6. WholeBelow(bs) = Least(q, ExactMax)
  BY <1>3, <1>4 DEF WholeBelow
<1>7. PICK i \in Nat : i = Least(q, ExactMax) /\ i >= 1 /\ i <= q
  BY <1>1, <1>5 DEF Least
<1>8. i * One <= bs
  <2>1. i * One <= q * One /\ i * One \in Nat /\ q * One \in Nat
    BY <1>1, <1>7
  <2> QED BY <1>2, <1>4, <2>1
<1>9. PICK x \in Nat : x = bs + (One - 1)
  BY <1>1, <1>2
<1>10. PICK h \in Nat : h = x \div One /\ h * One <= x /\ \A z \in Nat : z * One <= x => z <= h
  BY Truncated
<1>11. h >= 1
  <2>1. 1 * One <= x
    BY <1>1, <1>2, <1>9
  <2> QED BY <1>10, <2>1
<1>12. bs <= h * One
  <2>1. (h + 1) * One = h * One + One /\ h * One \in Nat
    BY <1>1
  <2>2. ~((h + 1) * One <= x)
    BY <1>10
  <2> QED BY <1>1, <1>2, <1>9, <2>1, <2>2
<1>13. WholeAbove(bs) = h
  BY <1>9, <1>10 DEF WholeAbove
<1> QED BY <1>2, <1>3, <1>6, <1>7, <1>8, <1>11, <1>12, <1>13 DEF Whole

\* Entering the loop: nothing is multiplied yet, and everything is left.
LEMMA EnterSplits ==
  ASSUME NEW bs \in Finite, bs >= One, NEW n \in Nat
  PROVE  Splits(One, bs, n, bs, n)
<1>1. One \in Nat /\ One >= 1 /\ Infinity \notin Int
  BY FloatSizes, InfinityAssumption
<1>2. bs \in Nat /\ bs # Infinity
  BY WholeAround
<1>3. ASSUME NEW G, NEW c, Scale(G, c), NEW b \in G, b * One <= bs
      PROVE  AboveSplit(One, bs, n, Power(b, n), G, c)
  <2>1. 1 \in G /\ c \in G /\ G \subseteq Nat \ {0}
    BY <1>3 DEF Scale
  <2>2. b \in Nat /\ b >= 1 /\ c \in Nat /\ c >= 1
    BY <2>1
  <2>3. Power(b, n) \in Nat
    BY <2>2, PowerDefined
  <2>4. 1 * Power(b, n) = Power(b, n)
    BY <2>3
  <2>5. Above(One, 1, c)
    BY <1>1, <2>2 DEF Above, Least, AtLeast
  <2>6. PICK i \in Nat : i = Least(b, c) /\ i <= b
    BY <2>2 DEF Least
  <2>7. i * One <= bs
    <3>1. i * One <= b * One /\ i * One \in Nat /\ b * One \in Nat
      BY <1>1, <2>2, <2>6
    <3> QED BY <1>2, <1>3, <3>1
  <2>8. Above(bs, b, c)
    BY <2>6, <2>7 DEF Above, AtLeast
  <2> QED BY <2>1, <2>4, <2>5, <2>8 DEF AboveSplit
<1>4. ASSUME NEW G, NEW c, Scale(G, c), NEW b \in G, bs <= b * One
      PROVE  BelowSplit(One, bs, n, Power(b, n), G, c)
  <2>1. 1 \in G /\ G \subseteq Nat \ {0}
    BY <1>4 DEF Scale
  <2>2. b \in Nat
    BY <2>1
  <2>3. Power(b, n) \in Nat
    BY <2>2, PowerDefined
  <2>4. 1 * Power(b, n) = Power(b, n)
    BY <2>3
  <2>5. Below(One, 1, c) /\ Below(bs, b, c)
    BY <1>1, <1>2, <1>4 DEF Below, AtMost
  <2> QED BY <2>1, <2>4, <2>5 DEF BelowSplit
<1>5. /\ WholeBelow(bs) \in Whole /\ WholeBelow(bs) * One <= bs
      /\ WholeAbove(bs) \in Whole /\ bs <= WholeAbove(bs) * One
  BY WholeAround
<1>6. Scale(Whole, ExactMax) /\ Scale(AllTwos, TwoMax) /\ Twos \subseteq AllTwos
  BY WholeScale, TwosScale, TwosAre, Zenon
<1>7. AboveSplit(One, bs, n, Power(WholeBelow(bs), n), Whole, ExactMax)
  BY <1>3, <1>5, <1>6
<1>8. BelowSplit(One, bs, n, Power(WholeAbove(bs), n), Whole, ExactMax)
  BY <1>4, <1>5, <1>6
<1>9. ASSUME NEW b \in Twos, b * One <= bs
      PROVE  AboveSplit(One, bs, n, Power(b, n), AllTwos, TwoMax)
  BY <1>3, <1>6, <1>9
<1>10. ASSUME NEW b \in Twos, b * One = bs
       PROVE  BelowSplit(One, bs, n, Power(b, n), AllTwos, TwoMax)
  <2>1. bs <= b * One
    BY <1>2, <1>10
  <2> QED BY <1>4, <1>6, <2>1
<1> QED BY <1>7, <1>8, <1>9, <1>10 DEF Splits

\* The shortcut: a power that is 1 is returned as 1.0.
LEMMA EnterReached ==
  ASSUME NEW bs \in Finite, bs >= One, NEW n \in Nat, n = 0 \/ bs <= One
  PROVE  Reached(One, bs, n)
<1>1. One \in Nat /\ One >= 1 /\ Infinity \notin Int /\ ExactMax \in Nat /\ ExactMax >= 1
  BY FloatSizes, InfinityAssumption
<1>2. /\ bs \in Nat
      /\ WholeBelow(bs) \in Whole /\ WholeBelow(bs) * One <= bs
      /\ WholeAbove(bs) \in Whole
  BY WholeAround
<1>3. ASSUME NEW b \in Whole, b * One <= bs PROVE Power(b, n) = 1
  <2>0. b \in Nat /\ b >= 1
    BY DEF Whole
  <2>1. CASE n = 0
    BY <2>0, <2>1, PowerDefined
  <2>2. CASE bs <= One
    <3>1. b * One <= 1 * One
      BY <1>1, <1>2, <1>3, <2>0, <2>2
    <3>2. b = 1
      BY <1>1, <2>0, <3>1
    <3> QED BY <3>2, PowerOfOne
  <2> QED BY <2>1, <2>2
<1>4. ASSUME NEW c \in Nat, c >= 1 PROVE Above(One, 1, c)
  BY <1>1, <1>4 DEF Above, Least, AtLeast
<1>5. ASSUME NEW b \in Whole, NEW c PROVE Below(One, Power(b, n), c)
  <2>1. Power(b, n) \in Nat /\ Power(b, n) >= 1
    BY PowerPositive DEF Whole
  <2>2. PICK p \in Nat : p = Power(b, n) /\ p >= 1
    BY <2>1
  <2>3. One <= p * One /\ One # Infinity
    BY <1>1, <2>2
  <2> QED BY <2>2, <2>3 DEF Below, AtMost
<1>6. TwoMax \in Nat /\ TwoMax >= 1 /\ \A b \in Twos : b \in Whole
  <2>1. TwoMax \in AllTwos /\ AllTwos \subseteq Nat \ {0} /\ Twos \subseteq AllTwos
    BY TwosScale, TwosAre, Zenon DEF Scale
  <2> QED BY <2>1 DEF Whole
<1>7. Above(One, Power(WholeBelow(bs), n), ExactMax)
  BY <1>1, <1>2, <1>3, <1>4
<1>8. Below(One, Power(WholeAbove(bs), n), ExactMax)
  BY <1>2, <1>5
<1>9. ASSUME NEW b \in Twos, b * One <= bs PROVE Above(One, Power(b, n), TwoMax)
  BY <1>3, <1>4, <1>6, <1>9
<1>10. ASSUME NEW b \in Twos PROVE Below(One, Power(b, n), TwoMax)
  BY <1>5, <1>6
<1> QED BY <1>7, <1>8, <1>9, <1>10 DEF Reached

\* A turn keeps the splits.
LEMMA TurnKeepsSplits ==
  ASSUME NEW res \in Big, NEW fac \in Big, NEW rem \in Nat, rem > 0, NEW bs, NEW n,
         Splits(res, fac, rem, bs, n),
         NEW product, product = IF Odd(rem) THEN FMul(res, fac) ELSE res
  PROVE  Splits(product, FMul(fac, fac), rem \div 2, bs, n) /\ product \in Big
<1>1. Scale(Whole, ExactMax) /\ Scale(AllTwos, TwoMax)
  BY WholeScale, TwosScale, Zenon
<1>2. AboveSplit(product, FMul(fac, fac), rem \div 2, Power(WholeBelow(bs), n), Whole, ExactMax)
  BY <1>1, TurnAbove DEF Splits
<1>3. BelowSplit(product, FMul(fac, fac), rem \div 2, Power(WholeAbove(bs), n), Whole, ExactMax)
  BY <1>1, TurnBelow DEF Splits
<1>4. ASSUME NEW b \in Twos, b * One <= bs
      PROVE  AboveSplit(product, FMul(fac, fac), rem \div 2, Power(b, n), AllTwos, TwoMax)
  <2>1. AboveSplit(res, fac, rem, Power(b, n), AllTwos, TwoMax)
    BY <1>4, Zenon DEF Splits
  <2> QED BY <1>1, <2>1, TurnAbove
<1>5. ASSUME NEW b \in Twos, b * One = bs
      PROVE  BelowSplit(product, FMul(fac, fac), rem \div 2, Power(b, n), AllTwos, TwoMax)
  <2>1. BelowSplit(res, fac, rem, Power(b, n), AllTwos, TwoMax)
    BY <1>5, Zenon DEF Splits
  <2> QED BY <1>1, <2>1, TurnBelow
<1>6. product \in Big
  BY FMulBig
<1> QED BY <1>2, <1>3, <1>4, <1>5, <1>6 DEF Splits

\* When nothing is left the result is the power; an infinite result overflowed
\* because the power does.
LEMMA SplitsReach ==
  ASSUME NEW res \in Big, NEW fac, NEW rem \in Nat, NEW bs \in Finite, bs >= One,
         NEW n \in Nat, Splits(res, fac, rem, bs, n), rem = 0 \/ res = Infinity
  PROVE  Reached(res, bs, n)
<1>1. Scale(Whole, ExactMax) /\ Scale(AllTwos, TwoMax)
  BY WholeScale, TwosScale, Zenon
<1>2. WholeBelow(bs) \in Whole /\ WholeAbove(bs) \in Whole
  BY WholeAround
<1>3. ASSUME NEW G, NEW c, Scale(G, c), NEW b \in G,
             AboveSplit(res, fac, rem, Power(b, n), G, c)
      PROVE  Above(res, Power(b, n), c)
  <2>1. b \in Nat
    BY <1>3 DEF Scale
  <2>2. Power(b, n) \in Nat
    BY <2>1, PowerDefined
  <2>3. CASE rem = 0
    BY <1>3, <2>2, <2>3, SplitResult
  <2>4. CASE res = Infinity
    BY <2>4 DEF Above, AtLeast
  <2> QED BY <2>3, <2>4
<1>4. ASSUME NEW G, NEW c, Scale(G, c), NEW b \in G,
             BelowSplit(res, fac, rem, Power(b, n), G, c)
      PROVE  Below(res, Power(b, n), c)
  <2>1. b \in Nat
    BY <1>4 DEF Scale
  <2>2. Power(b, n) \in Nat
    BY <2>1, PowerDefined
  <2>3. CASE rem = 0
    BY <1>4, <2>2, <2>3, SplitResult
  <2>4. CASE res = Infinity
    <3>1. ~(Power(b, n) <= c /\ Power(b, n) * One < Top)
      BY <1>4, <2>2, <2>4, SplitResult
    <3> QED BY <3>1 DEF Below
  <2> QED BY <2>3, <2>4
<1>5. Twos \subseteq AllTwos
  BY TwosAre
<1>6. Above(res, Power(WholeBelow(bs), n), ExactMax)
  BY <1>1, <1>2, <1>3 DEF Splits
<1>7. Below(res, Power(WholeAbove(bs), n), ExactMax)
  BY <1>1, <1>2, <1>4 DEF Splits
<1>8. ASSUME NEW b \in Twos, b * One <= bs PROVE Above(res, Power(b, n), TwoMax)
  <2>1. AboveSplit(res, fac, rem, Power(b, n), AllTwos, TwoMax)
    BY <1>8, Zenon DEF Splits
  <2> QED BY <1>1, <1>3, <1>5, <2>1
<1>9. ASSUME NEW b \in Twos, b * One = bs PROVE Below(res, Power(b, n), TwoMax)
  <2>1. BelowSplit(res, fac, rem, Power(b, n), AllTwos, TwoMax)
    BY <1>9, Zenon DEF Splits
  <2> QED BY <1>1, <1>4, <1>5, <2>1
<1> QED BY <1>6, <1>7, <1>8, <1>9 DEF Reached

\* Such a multiplier gives a delay within the bracket.
LEMMA ReturnBrackets ==
  ASSUME NEW dur \in Duration, NEW mul \in Big, NEW bs \in Finite, bs >= One,
         NEW n \in Nat, Reached(mul, bs, n)
  PROVE  /\ SaturatingDurationMul(dur, mul) \in Duration
         /\ Bracket(dur, SaturatingDurationMul(dur, mul), bs, n)
<1>1. SaturatingDurationMul(dur, mul) \in Duration
  <2>1. CASE dur = 0
    BY <2>1, DurMaxAssumption DEF SaturatingDurationMul, Duration
  <2>2. CASE dur # 0
    BY <2>2, DurationBounds
  <2> QED BY <2>1, <2>2
<1>2. Scale(Whole, ExactMax) /\ Scale(AllTwos, TwoMax) /\ Twos \subseteq AllTwos
  BY WholeScale, TwosScale, TwosAre, Zenon
<1>3. WholeBelow(bs) \in Whole /\ WholeAbove(bs) \in Whole
  BY WholeAround
<1>4. Power(WholeBelow(bs), n) \in Whole /\ Power(WholeAbove(bs), n) \in Whole
  BY <1>2, <1>3, ScalePower
<1>5. Least(SatMul(dur, Power(WholeBelow(bs), n)), ExactMax) <= SaturatingDurationMul(dur, mul)
  BY <1>4, DurationWhole DEF Reached
<1>6. SatMul(dur, Power(WholeAbove(bs), n)) <= ExactMax
        => SaturatingDurationMul(dur, mul) <= SatMul(dur, Power(WholeAbove(bs), n))
  BY <1>4, DurationWhole DEF Reached
<1>7. ASSUME NEW b \in Twos
      PROVE  /\ b * One <= bs => SatMul(Least(dur, ExactMax), Power(b, n))
                                   <= SaturatingDurationMul(dur, mul)
             /\ b * One = bs /\ dur <= ExactMax
                  => SaturatingDurationMul(dur, mul) <= SatMul(dur, Power(b, n))
  <2>1. Power(b, n) \in AllTwos
    BY <1>2, ScalePower
  <2>2. b * One <= bs => Above(mul, Power(b, n), TwoMax)
    BY Zenon DEF Reached
  <2>3. b * One = bs => Below(mul, Power(b, n), TwoMax)
    BY Zenon DEF Reached
  <2> QED BY <2>1, <2>2, <2>3, DurationTwos
<1> QED BY <1>1, <1>5, <1>6, <1>7 DEF Bracket

\* A clamped base is finite and at least 1 (WaitExponential::base).
LEMMA ClampedBase ==
  ASSUME NEW b \in BaseArguments
  PROVE  ClampExponentialBase(b) \in Finite /\ ClampExponentialBase(b) >= One
<1>1. One \in Nat /\ 1 * One = One /\ 1 <= ExactMax
  BY FloatSizes
<1>2. One \in Finite /\ \A x \in Finite : x \in Nat
  <2>1. 1 * One \in Finite
    BY <1>1, GridHolds
  <2> QED BY <1>1, <2>1, GridHolds
<1>3. CASE b \in Finite
  BY <1>1, <1>2, <1>3 DEF ClampExponentialBase, IsFinite
<1>4. CASE b \notin Finite
  BY <1>1, <1>2, <1>4 DEF ClampExponentialBase, IsFinite
<1> QED BY <1>3, <1>4

\* The default base is a float.
LEMMA DefaultBase == One \in Finite /\ 2 * One \in Finite /\ 2 * One >= One
<1>1. One \in Nat /\ One >= 1 /\ 1 * One = One /\ ExactMax = 2 * One
  BY FloatSizes
<1>2. 1 <= ExactMax /\ 2 <= ExactMax
  BY <1>1
<1>3. 1 * One \in Finite /\ 2 * One \in Finite
  BY <1>2, GridHolds
<1> QED BY <1>1, <1>3

\* The invariant holds when the strategy is built.
LEMMA BackoffInitInv == BackoffInit => BackoffInv
<1> SUFFICES ASSUME BackoffInit PROVE BackoffInv
  OBVIOUS
<1>1. AttemptMax \in Nat /\ AttemptMax >= 1
  BY AttemptMaxAssumption
<1>2. initial \in Duration
  BY BackoffArguments DEF BackoffInit
<1>3. BackoffTypeOK
  BY <1>1, <1>2, DefaultBase DEF BackoffInit, BackoffTypeOK, Attempts, OptDuration
<1>4. base >= One /\ at = "built"
  BY DefaultBase DEF BackoffInit
<1> QED BY <1>3, <1>4 DEF BackoffInv

\* Setting the base keeps it.
LEMMA SetBaseKeeps ==
  ASSUME BackoffInv, NEW b \in BaseArguments, SetBase(b)
  PROVE  BackoffInv'
<1>1. base' \in Finite /\ base' >= One
  BY ClampedBase DEF SetBase
<1>2. BackoffTypeOK'
  BY <1>1 DEF BackoffInv, BackoffTypeOK, SetBase
<1>3. at' = "built"
  BY DEF SetBase
<1> QED BY <1>1, <1>2, <1>3 DEF BackoffInv

\* Returning a multiplier that has reached the power returns a delay in the bracket.
LEMMA ReturnKeeps ==
  ASSUME NEW mul \in Big, Return(mul), initial' = initial, initial \in Duration,
         base' \in Finite, base' >= One, attempt' \in Attempts,
         Reached(mul, base', attempt' - 1)
  PROVE  /\ at' = "returned" /\ out' \in Duration /\ out' \in OptDuration
         /\ Bracket(initial', out', base', attempt' - 1)
<1>1. at' = "returned" /\ out' = SaturatingDurationMul(initial, mul)
  BY DEF Return
<1>2. attempt' - 1 \in Nat
  <2>1. \A a \in Attempts : a - 1 \in Nat
    BY AttemptMaxAssumption DEF Attempts
  <2> QED BY <2>1
<1>3. /\ SaturatingDurationMul(initial, mul) \in Duration
      /\ Bracket(initial, SaturatingDurationMul(initial, mul), base', attempt' - 1)
  BY <1>2, ReturnBrackets
<1> QED BY <1>1, <1>3 DEF OptDuration

\* Entering next_wait keeps it.
LEMMA ExponentialNextWaitKeeps ==
  ASSUME BackoffInv, NEW a \in Attempts, ExponentialNextWait(a)
  PROVE  BackoffInv'
<1>1. BackoffTypeOK /\ base >= One /\ base \in Finite /\ initial \in Duration
  BY DEF BackoffInv, BackoffTypeOK
<1>2. AttemptMax \in Nat /\ a \in Nat /\ a >= 1 /\ a <= AttemptMax /\ a - 1 \in Nat
  BY AttemptMaxAssumption DEF Attempts
<1>3. /\ attempt' = a /\ result' = One /\ factor' = base /\ remaining' = a - 1
      /\ initial' = initial /\ base' = base
  BY DEF ExponentialNextWait
<1>4. One \in Finite /\ One \in Big /\ base \in Big
  <2>1. One >= One
    BY FloatSizes
  <2> QED BY <1>1, <2>1, DefaultBase DEF Big
<1>5. /\ initial' \in Duration /\ base' \in Finite /\ attempt' \in Attempts
      /\ result' \in Finite /\ factor' \in Finite /\ remaining' \in 0..AttemptMax
      /\ base' >= One
  BY <1>1, <1>2, <1>3, <1>4
<1>6. CASE a - 1 = 0 \/ base <= One
  <2>1. Reached(One, base, a - 1)
    BY <1>1, <1>2, <1>6, EnterReached
  <2>2. Return(One)
    BY <1>6 DEF ExponentialNextWait
  <2>3. Reached(One, base', attempt' - 1)
    BY <1>3, <2>1
  <2>4. /\ at' = "returned" /\ out' \in Duration /\ out' \in OptDuration
        /\ Bracket(initial', out', base', attempt' - 1)
    BY <1>1, <1>3, <1>4, <1>5, <2>2, <2>3, ReturnKeeps
  <2>5. BackoffTypeOK'
    BY <1>5, <2>4 DEF BackoffTypeOK
  <2> QED BY <1>5, <2>4, <2>5 DEF BackoffInv
<1>7. CASE ~(a - 1 = 0 \/ base <= One)
  <2>1. at' = "loop" /\ out' = None
    BY <1>7 DEF ExponentialNextWait
  <2>2. BackoffTypeOK'
    BY <1>5, <2>1 DEF BackoffTypeOK, OptDuration
  <2>3. Splits(One, base, a - 1, base, a - 1)
    BY <1>1, <1>2, EnterSplits
  <2>4. Splits(result', factor', remaining', base', attempt' - 1)
    BY <1>3, <2>3
  <2>5. remaining' > 0 /\ result' \in Finite /\ result' \in Big /\ factor' \in Big
    BY <1>2, <1>3, <1>4, <1>7
  <2>6. LoopSplits'
    BY <2>4, <2>5 DEF LoopSplits, IsFinite
  <2> QED BY <1>5, <2>1, <2>2, <2>6 DEF BackoffInv
<1> QED BY <1>6, <1>7

\* A turn of the loop keeps it.
LEMMA LoopKeeps ==
  ASSUME BackoffInv, Loop
  PROVE  BackoffInv'
<1> DEFINE product == IF Odd(remaining) THEN FMul(result, factor) ELSE result
           left == remaining \div 2
<1>1. at = "loop" /\ Turn(product, left)
  BY DEF Loop, Turn
<1>2. BackoffTypeOK /\ base >= One /\ LoopSplits /\ base \in Finite /\ initial \in Duration
  BY <1>1 DEF BackoffInv, BackoffTypeOK
<1>3. /\ AttemptMax \in Nat /\ attempt - 1 \in Nat
      /\ remaining \in Nat /\ remaining > 0 /\ remaining <= AttemptMax
      /\ result \in Big /\ factor \in Big
      /\ Splits(result, factor, remaining, base, attempt - 1)
  BY <1>2, AttemptMaxAssumption DEF BackoffTypeOK, LoopSplits, Attempts
<1>4. left \in Nat /\ left <= remaining
  BY <1>3, Halved
<1>5. Splits(product, FMul(factor, factor), left, base, attempt - 1) /\ product \in Big
  BY <1>3, TurnKeepsSplits
<1>6. FMul(factor, factor) \in Big
  BY <1>3, FMulBig
<1> HIDE DEF product, left
<1>7. result' = product /\ initial' = initial /\ base' = base /\ attempt' = attempt
  BY <1>1 DEF Turn
<1>8. base' >= One /\ initial' \in Duration /\ base' \in Finite /\ attempt' \in Attempts
  BY <1>2, <1>7 DEF BackoffTypeOK
<1>9. result' \in Finite \cup {Infinity} /\ (IsFinite(product) <=> product # Infinity)
  BY <1>5, <1>7, BigIs DEF IsFinite
<1>10. CASE ~IsFinite(product)
  <2>1. Return(product) /\ factor' = factor /\ remaining' = remaining
    BY <1>1, <1>9, <1>10 DEF Turn
  <2>2. Reached(product, base, attempt - 1)
    BY <1>2, <1>3, <1>4, <1>5, <1>9, <1>10, SplitsReach
  <2>3. Reached(product, base', attempt' - 1)
    BY <1>7, <2>2
  <2>4. /\ at' = "returned" /\ out' \in Duration /\ out' \in OptDuration
        /\ Bracket(initial', out', base', attempt' - 1)
    BY <1>2, <1>5, <1>7, <1>8, <2>1, <2>3, ReturnKeeps
  <2>5. BackoffTypeOK'
    BY <1>2, <1>8, <1>9, <2>1, <2>4 DEF BackoffTypeOK
  <2> QED BY <1>8, <2>4, <2>5 DEF BackoffInv
<1>11. CASE IsFinite(product) /\ left = 0
  <2>1. Return(product) /\ remaining' = 0 /\ factor' = factor
    BY <1>1, <1>11 DEF Turn
  <2>2. Reached(product, base, attempt - 1)
    BY <1>2, <1>3, <1>4, <1>5, <1>11, SplitsReach
  <2>3. Reached(product, base', attempt' - 1)
    BY <1>7, <2>2
  <2>4. /\ at' = "returned" /\ out' \in Duration /\ out' \in OptDuration
        /\ Bracket(initial', out', base', attempt' - 1)
    BY <1>2, <1>5, <1>7, <1>8, <2>1, <2>3, ReturnKeeps
  <2>5. BackoffTypeOK'
    BY <1>2, <1>3, <1>8, <1>9, <2>1, <2>4 DEF BackoffTypeOK
  <2> QED BY <1>8, <2>4, <2>5 DEF BackoffInv
<1>12. CASE IsFinite(product) /\ left # 0
  <2>1. /\ remaining' = left /\ factor' = FMul(factor, factor)
        /\ at' = at /\ out' = out
    BY <1>1, <1>12 DEF Turn
  <2>2. factor' \in Finite \cup {Infinity}
    BY <1>6, <2>1, BigIs
  <2>3. Splits(result', factor', remaining', base', attempt' - 1)
    BY <1>5, <1>7, <2>1
  <2>4. remaining' > 0 /\ result' \in Finite /\ result' \in Big /\ factor' \in Big
    BY <1>4, <1>5, <1>6, <1>7, <1>12, <2>1 DEF IsFinite
  <2>5. LoopSplits'
    BY <2>3, <2>4 DEF LoopSplits, IsFinite
  <2>6. remaining' \in 0..AttemptMax
    BY <1>3, <1>4, <2>1
  <2>7. BackoffTypeOK'
    BY <1>2, <1>8, <1>9, <2>1, <2>2, <2>6 DEF BackoffTypeOK
  <2> QED BY <1>1, <1>8, <2>1, <2>5, <2>7 DEF BackoffInv
<1> QED BY <1>10, <1>11, <1>12

\* Every step keeps it.
LEMMA BackoffNextInv == BackoffInv /\ [BackoffNext]_backoffVars => BackoffInv'
<1> SUFFICES ASSUME BackoffInv, [BackoffNext]_backoffVars PROVE BackoffInv'
  OBVIOUS
<1>1. ASSUME NEW b \in BaseArguments, SetBase(b) PROVE BackoffInv'
  BY <1>1, SetBaseKeeps
<1>2. ASSUME NEW a \in Attempts, ExponentialNextWait(a) PROVE BackoffInv'
  BY <1>2, ExponentialNextWaitKeeps
<1>3. CASE Loop
  BY <1>3, LoopKeeps
<1>4. CASE UNCHANGED backoffVars
  BY <1>4 DEF backoffVars, BackoffInv, BackoffTypeOK, LoopSplits, IsFinite
<1> QED BY <1>1, <1>2, <1>3, <1>4 DEF BackoffNext

\* The loop invariant of the runs, from the splits on the scale of whole numbers.
LEMMA SplitGivesPowerLeft == BackoffInv => PowerLeft
<1> SUFFICES ASSUME BackoffInv, at = "loop"
             PROVE  /\ remaining > 0 /\ IsFinite(result)
                    /\ Least(Power(WholeBelow(base), attempt - 1), ExactMax)
                         <= WholeBelow(result) * Power(WholeBelow(factor), remaining)
                    /\ Power(WholeAbove(base), attempt - 1) <= ExactMax =>
                         /\ factor # Infinity
                         /\ WholeAbove(result) * Power(WholeAbove(factor), remaining)
                              <= Power(WholeAbove(base), attempt - 1)
  BY DEF PowerLeft
<1>1. LoopSplits /\ BackoffTypeOK
  BY DEF BackoffInv
<1>2. /\ remaining > 0 /\ remaining \in Nat /\ IsFinite(result)
      /\ result \in Big /\ factor \in Big
  BY <1>1, AttemptMaxAssumption DEF LoopSplits, BackoffTypeOK
<1>3. PICK rem \in Nat : rem + 1 = remaining
  BY <1>2, remaining - 1 \in Nat, (remaining - 1) + 1 = remaining
<1>4. /\ One \in Nat /\ One >= 1 /\ ExactMax \in Nat /\ ExactMax >= 1
      /\ Top \in Nat /\ ExactMax * One < Top /\ Infinity \notin Int
  BY FloatSizes, InfinityAssumption
<1>5. \A p, q \in Nat : p >= 1 /\ q >= 1 => p <= p * q /\ q <= p * q
  OBVIOUS
<1>6. ASSUME NEW a \in Nat, NEW b \in Nat, NEW x \in Nat, NEW y \in Nat, a <= x, b <= y
      PROVE  a * b <= x * y
  <2>1. a * b <= x * b /\ x * b <= x * y
    BY <1>6
  <2> QED BY <2>1
<1>7. Least(Power(WholeBelow(base), attempt - 1), ExactMax)
        <= WholeBelow(result) * Power(WholeBelow(factor), remaining)
  <2> DEFINE power == Power(WholeBelow(base), attempt - 1)
  <2>1. PICK r \in Whole, f \in Whole :
          /\ r * Power(f, remaining) = power
          /\ Above(result, r, ExactMax) /\ Above(factor, f, ExactMax)
    BY <1>1 DEF LoopSplits, Splits, AboveSplit
  <2>2. r \in Nat /\ r >= 1 /\ f \in Nat /\ f >= 1
    BY DEF Whole
  <2> HIDE DEF power
  <2>3. ASSUME NEW v \in Big, NEW x \in Nat, Above(v, x, ExactMax)
        PROVE  WholeBelow(v) \in Nat /\ Least(x, ExactMax) <= WholeBelow(v)
    <3>1. CASE v = Infinity
      BY <1>4, <3>1 DEF WholeBelow, Least
    <3>2. CASE v # Infinity
      <4>1. v \in Nat
        BY <3>2, BigIs
      <4>2. PICK q \in Nat : q = v \div One /\ \A z \in Nat : z * One <= v => z <= q
        BY <4>1, Truncated
      <4>3. PICK i \in Nat : i = Least(x, ExactMax) /\ i <= ExactMax
        BY <1>4 DEF Least
      <4>4. i <= q
        BY <2>3, <3>2, <4>2, <4>3 DEF Above, AtLeast
      <4>5. WholeBelow(v) = Least(q, ExactMax)
        BY <3>2, <4>2 DEF WholeBelow
      <4> QED BY <1>4, <4>3, <4>4, <4>5 DEF Least
    <3> QED BY <3>1, <3>2
  <2>4. PICK A \in Nat, B \in Nat : A = WholeBelow(result) /\ B = WholeBelow(factor)
    BY <1>2, <2>1, <2>2, <2>3
  <2>5. PICK a \in Nat, b \in Nat : a = Least(r, ExactMax) /\ b = Least(f, ExactMax)
    BY <1>4, <2>2 DEF Least
  <2>6. a <= A /\ b <= B /\ a >= 1 /\ b >= 1
    BY <1>2, <1>4, <2>1, <2>2, <2>3, <2>4, <2>5 DEF Least
  <2>7. /\ Power(b, remaining) \in Nat /\ Power(b, remaining) >= 1
        /\ Power(B, remaining) \in Nat /\ Power(b, remaining) <= Power(B, remaining)
    BY <1>2, <2>6, PowerPositive, PowerMonotone, PowerDefined
  <2>8. a * Power(b, remaining) <= A * Power(B, remaining)
    BY <1>6, <2>6, <2>7
  <2>9. Least(power, ExactMax) <= a * Power(b, remaining) /\ Least(power, ExactMax) \in Nat
    <3>0. power \in Nat
      <4>1. Power(f, remaining) \in Nat
        BY <1>2, <2>2, PowerDefined
      <4> QED BY <2>1, <2>2, <4>1
    <3>1. Least(power, ExactMax) <= ExactMax /\ Least(power, ExactMax) \in Nat
      BY <1>4, <3>0 DEF Least
    <3>2. CASE a = ExactMax
      <4>1. ExactMax <= ExactMax * Power(b, remaining)
        BY <1>4, <1>5, <2>7
      <4>2. a * Power(b, remaining) \in Nat
        BY <2>7
      <4> QED BY <1>4, <3>1, <3>2, <4>1, <4>2
    <3>3. CASE b = ExactMax
      <4>1. Power(b, rem) \in Nat /\ Power(b, rem) >= 1 /\ Power(b, rem + 1) = b * Power(b, rem)
        BY <2>6, PowerPositive, PowerDefined
      <4>2. b <= Power(b, remaining)
        BY <1>3, <1>5, <2>6, <4>1
      <4>3. Power(b, remaining) <= a * Power(b, remaining)
        BY <1>5, <2>6, <2>7
      <4>4. a * Power(b, remaining) \in Nat
        BY <2>7
      <4> QED BY <1>4, <2>7, <3>1, <3>3, <4>2, <4>3, <4>4
    <3>4. CASE a = r /\ b = f
      <4>1. a * Power(b, remaining) = power
        BY <2>1, <3>4
      <4> QED BY <1>4, <3>0, <4>1 DEF Least
    <3> QED BY <2>5, <3>2, <3>3, <3>4 DEF Least
  <2>10. a * Power(b, remaining) \in Nat /\ A * Power(B, remaining) \in Nat
    BY <2>7
  <2>11. Least(power, ExactMax) <= A * Power(B, remaining)
    BY <2>8, <2>9, <2>10
  <2> QED BY <2>4, <2>11 DEF power
<1>8. ASSUME Power(WholeAbove(base), attempt - 1) <= ExactMax
      PROVE  /\ factor # Infinity
             /\ WholeAbove(result) * Power(WholeAbove(factor), remaining)
                  <= Power(WholeAbove(base), attempt - 1)
  <2> DEFINE power == Power(WholeAbove(base), attempt - 1)
  <2>1. PICK r \in Whole, f \in Whole :
          /\ r * Power(f, remaining) = power
          /\ Below(result, r, ExactMax) /\ Below(factor, f, ExactMax)
    BY <1>1 DEF LoopSplits, Splits, BelowSplit
  <2>2. r \in Nat /\ r >= 1 /\ f \in Nat /\ f >= 1
    BY DEF Whole
  <2>3. power <= ExactMax
    BY <1>8
  <2> HIDE DEF power
  <2>4. Power(f, remaining) \in Nat /\ Power(f, remaining) >= 1 /\ f <= Power(f, remaining)
    <3>1. /\ Power(f, rem) \in Nat /\ Power(f, rem) >= 1
          /\ Power(f, rem + 1) = f * Power(f, rem) /\ Power(f, rem + 1) \in Nat
      <4>1. Power(f, rem) \in Nat /\ Power(f, rem) >= 1
        BY <2>2, PowerPositive
      <4>2. Power(f, rem + 1) = f * Power(f, rem)
        BY <2>2, PowerDefined
      <4> QED BY <2>2, <4>1, <4>2
    <3>2. f <= f * Power(f, rem)
      BY <1>5, <2>2, <3>1
    <3> QED BY <1>3, <2>2, <3>1, <3>2
  <2>5. power \in Nat /\ r <= power /\ f <= power
    <3>1. r <= r * Power(f, remaining) /\ Power(f, remaining) <= r * Power(f, remaining)
      BY <1>5, <2>2, <2>4
    <3>2. r * Power(f, remaining) \in Nat
      BY <2>2, <2>4
    <3> QED BY <2>1, <2>2, <2>4, <3>1, <3>2
  <2>6. ASSUME NEW v \in Big, NEW x \in Nat, x <= ExactMax, Below(v, x, ExactMax)
        PROVE  v # Infinity /\ WholeAbove(v) \in Nat /\ WholeAbove(v) <= x
    <3>1. x * One <= ExactMax * One /\ x * One \in Nat /\ ExactMax * One \in Nat
      BY <1>4, <2>6
    <3>2. x * One < Top
      BY <1>4, <3>1
    <3>3. v # Infinity /\ v <= x * One
      BY <2>6, <3>2 DEF Below, AtMost
    <3>4. v \in Nat
      BY <3>3, BigIs
    <3>5. PICK y \in Nat : y = v + (One - 1)
      BY <1>4, <3>4
    <3>6. (x + 1) * One = x * One + One
      BY <1>4
    <3>7. y < (x + 1) * One
      BY <1>4, <3>1, <3>3, <3>4, <3>5, <3>6
    <3>8. y \div One \in Nat /\ y \div One <= x
      BY <3>7, Truncated
    <3> QED BY <3>3, <3>5, <3>8 DEF WholeAbove
  <2>7. r <= ExactMax /\ f <= ExactMax
    BY <1>4, <2>2, <2>3, <2>5
  <2>8. PICK A \in Nat, B \in Nat :
          A = WholeAbove(result) /\ B = WholeAbove(factor) /\ A <= r /\ B <= f
    BY <1>2, <2>1, <2>2, <2>6, <2>7
  <2>9. factor # Infinity
    BY <1>2, <2>1, <2>2, <2>6, <2>7
  <2>10. Power(B, remaining) \in Nat /\ Power(B, remaining) <= Power(f, remaining)
    BY <1>2, <2>2, <2>8, PowerDefined, PowerMonotone
  <2>11. A * Power(B, remaining) <= r * Power(f, remaining)
    BY <1>6, <2>2, <2>4, <2>8, <2>10
  <2>12. A * Power(B, remaining) <= power
    BY <2>1, <2>11
  <2> QED BY <2>8, <2>9, <2>12 DEF power
<1> QED BY <1>2, <1>7, <1>8

\* The bracket of the invariant is the property's.
LEMMA BracketIsDelay == BackoffInv => DelayBracketed
<1> SUFFICES ASSUME BackoffInv, at = "returned" PROVE DelayBracketed
  BY DEF DelayBracketed
<1>1. /\ base \in Finite /\ base >= One /\ out \in Duration /\ initial \in Duration
      /\ Bracket(initial, out, base, attempt - 1)
  BY DEF BackoffInv, BackoffTypeOK
<1>2. WholeBelow(base) \in Whole /\ WholeAbove(base) \in Whole
  BY <1>1, WholeAround
<1>3. ASSUME NEW i, NEW b \in Whole PROVE Unrounded(i, b) = SatMul(i, Power(b, attempt - 1))
  <2>1. (IF b < 1 THEN 1 ELSE b) = b
    BY DEF Whole
  <2> QED BY <2>1 DEF Unrounded, ExponentialDelay
<1>4. /\ Least(Unrounded(initial, WholeBelow(base)), ExactMax) <= out
      /\ Unrounded(initial, WholeAbove(base)) <= ExactMax
           => out <= Unrounded(initial, WholeAbove(base))
  BY <1>1, <1>2, <1>3 DEF Bracket
<1>5. ASSUME NEW b \in Twos
      PROVE  /\ b * One <= base => Unrounded(Least(initial, ExactMax), b) <= out
             /\ b * One = base /\ initial <= ExactMax => out = Unrounded(initial, b)
  <2>1. b \in Whole /\ b \in Nat
    BY TwosAre DEF Whole
  <2>2. /\ b * One <= base
             => SatMul(Least(initial, ExactMax), Power(b, attempt - 1)) <= out
        /\ b * One = base /\ initial <= ExactMax
             => out <= SatMul(initial, Power(b, attempt - 1))
    BY <1>1, Zenon DEF Bracket
  <2>3. /\ b * One <= base => Unrounded(Least(initial, ExactMax), b) <= out
        /\ b * One = base /\ initial <= ExactMax => out <= Unrounded(initial, b)
    BY <1>3, <2>1, <2>2
  <2>4. ASSUME b * One = base, initial <= ExactMax PROVE out = Unrounded(initial, b)
    <3>1. Least(initial, ExactMax) = initial
      BY <2>4 DEF Least
    <3>2. b * One <= base
      BY <2>1, <2>4, FloatSizes
    <3>3. Unrounded(initial, b) <= out /\ out <= Unrounded(initial, b)
      BY <2>3, <2>4, <3>1, <3>2
    <3>4. out \in Nat /\ Unrounded(initial, b) \in Nat
      <4>1. attempt - 1 \in Nat
        BY AttemptMaxAssumption DEF BackoffInv, BackoffTypeOK, Attempts
      <4>2. Power(b, attempt - 1) \in Nat /\ initial \in Nat /\ DurMax \in Nat /\ out \in Nat
        BY <1>1, <2>1, <4>1, PowerDefined, DurMaxAssumption DEF Duration
      <4>3. SatMul(initial, Power(b, attempt - 1)) \in Nat
        BY <4>2 DEF SatMul
      <4> QED BY <1>3, <2>1, <4>2, <4>3
    <3> QED BY <3>3, <3>4
  <2> QED BY <2>3, <2>4
<1> QED BY <1>4, <1>5 DEF DelayBracketed

\* The inductive invariant holds of every behaviour of the backoff, for any initial
\* delays, bases and attempts, and for floats of any precision and range
\* (wait/math.rs, WaitExponential).
THEOREM BackoffInvariant == BackoffSpec => []BackoffInv
<1> QED BY BackoffInitInv, BackoffNextInv, PTL DEF BackoffSpec

\* The variables keep their types: in particular no product is ever NaN.
THEOREM BackoffTypeCorrect == BackoffSpec => []BackoffTypeOK
<1>1. BackoffInv => BackoffTypeOK
  BY DEF BackoffInv
<1> QED BY <1>1, BackoffInvariant, PTL

\* The loop invariant of repeated squaring, under rounding: what was multiplied times
\* what is left is the power asked for while that is at most 2^53, and does not fall
\* below 2^53 once it is more, overflow included, for every base and every attempt
\* (pow_nonnegative_f64).
THEOREM BackoffPowerLeft == BackoffSpec => []PowerLeft
<1> QED BY SplitGivesPowerLeft, BackoffInvariant, PTL

\* The delay that is returned, under rounding, is the strategy algebra's where the
\* floats are exact, and bracketed by it elsewhere: for every initial delay, every
\* base, with a fraction or not, and every attempt (WaitExponential::next_wait).
THEOREM BackoffDelayBracketed == BackoffSpec => []DelayBracketed
<1> QED BY BracketIsDelay, BackoffInvariant, PTL

-----------------------------------------------------------------------------
(* The algebra of strategies. *)

\* The delays a strategy may return in a state: some, and all of them durations.
LEMMA WaitsGive ==
  ASSUME NEW w \in Waits, NEW s \in RetryStates
  PROVE  w[s] \subseteq Duration /\ w[s] # {}
BY DEF Waits

\* A jitter range over durations is not empty and stays between its ends.
LEMMA RangeGives ==
  ASSUME NEW lower \in Nat, NEW upper \in Nat
  PROVE  /\ RandomDurationIn(lower, upper) # {}
         /\ \A d \in RandomDurationIn(lower, upper) :
              d \in Nat /\ lower <= d /\ (d <= upper \/ d = lower)
BY DEF RandomDurationIn

\* So a range between durations holds durations.
LEMMA RangeIsDurations ==
  ASSUME NEW lower \in Duration, NEW upper \in Duration
  PROVE  RandomDurationIn(lower, upper) \subseteq Duration /\ RandomDurationIn(lower, upper) # {}
<1>1. /\ DurMax \in Nat /\ lower \in Nat /\ lower <= DurMax
      /\ upper \in Nat /\ upper <= DurMax
  BY DurMaxAssumption DEF Duration
<1>2. RandomDurationIn(lower, upper) # {}
  BY <1>1, RangeGives
<1>3. ASSUME NEW d \in RandomDurationIn(lower, upper) PROVE d \in Duration
  <2>1. d \in Nat /\ (d <= upper \/ d = lower)
    BY <1>1, RangeGives
  <2>2. d <= DurMax
    BY <1>1, <2>1
  <2> QED BY <1>1, <2>1, <2>2 DEF Duration
<1> QED BY <1>2, <1>3

\* Saturating sums and products of durations are durations.
LEMMA SaturatedIsDuration ==
  ASSUME NEW d \in Duration, NEW n \in Nat
  PROVE  SatAdd(d, n) \in Duration /\ SatMul(d, n) \in Duration
<1>1. DurMax \in Nat /\ d \in Nat /\ d + n \in Nat /\ d * n \in Nat
  BY DurMaxAssumption DEF Duration
<1> QED BY <1>1 DEF SatAdd, SatMul, Duration

\* The saturated sums of a strategy's delays with others.
LEMMA SumsGive ==
  ASSUME NEW A, NEW B, A \subseteq Duration, A # {}, B \subseteq Nat, B # {}
  PROVE  SatSums(A, B) \in (SUBSET Duration) \ {{}}
<1>1. ASSUME NEW l \in A, NEW r \in B PROVE SatAdd(l, r) \in Duration
  BY SaturatedIsDuration
<1>2. SatSums(A, B) # {}
  <2>1. PICK l \in A, r \in B : TRUE
    OBVIOUS
  <2>2. SatAdd(l, r) \in SatSums(A, B)
    BY <2>1 DEF SatSums
  <2> QED BY <2>2
<1>3. ASSUME NEW x \in SatSums(A, B) PROVE x \in Duration
  <2>1. PICK l \in A, r \in B : x = SatAdd(l, r)
    BY <1>3 DEF SatSums
  <2> QED BY <1>1, <2>1
<1> QED BY <1>2, <1>3

\* Every strategy of the crate and every combinator is total: given durations and
\* strategies, it is a strategy, which in every retry state stops or not and returns
\* a duration in range, however large the arguments.  It is what the engines assume
\* of a policy (Step!PolicyAssumption).
THEOREM StrategiesTotal ==
  /\ \A max \in Attempts : StopAfterAttempts(max) \in Stops
  /\ \A deadline \in Duration : StopAfterElapsed(deadline) \in Stops
  /\ StopNever \in Stops
  /\ \A l, r \in Stops : StopAny(l, r) \in Stops /\ StopAll(l, r) \in Stops
  /\ \A d, e \in Duration : WaitFixed(d) \in Waits /\ WaitLinear(d, e) \in Waits
  /\ \A d \in Duration, b \in Nat : WaitExponential(d, b) \in Waits
  /\ \A v, w \in Waits, n \in Nat : WaitCombine(v, w) \in Waits /\ WaitChain(v, w, n) \in Waits
  /\ \A w \in Waits, d, e \in Duration :
       /\ WaitCapped(w, d) \in Waits /\ JitterAdditive(w, d) \in Waits
       /\ WaitCappedJitter(w, d, e) \in Waits
  /\ \A w \in Waits :
       JitterFull(w) \in Waits /\ JitterEqual(w) \in Waits /\ JitterDecorrelated(w) \in Waits
<1>0. DurMax \in Nat /\ AttemptMax \in Nat /\ None \notin Nat
  BY DurMaxAssumption, AttemptMaxAssumption, NoneAssumption
<1>d. \A d \in Duration : d \in Nat /\ d <= DurMax
  BY <1>0 DEF Duration
<1>s. \A s \in RetryStates : /\ s.attempt - 1 \in Nat
                             /\ s.previous_delay \in Duration \/ s.previous_delay = None
  BY <1>0 DEF RetryStates, Attempts, OptDuration
<1>1. /\ \A max \in Attempts : StopAfterAttempts(max) \in Stops
      /\ \A deadline \in Duration : StopAfterElapsed(deadline) \in Stops
      /\ StopNever \in Stops
      /\ \A l, r \in Stops : StopAny(l, r) \in Stops /\ StopAll(l, r) \in Stops
  BY DEF Stops, StopAfterAttempts, StopAfterElapsed, StopNever, StopAny, StopAll
<1>2. ASSUME NEW d \in Duration, NEW e \in Duration
      PROVE  WaitFixed(d) \in Waits /\ WaitLinear(d, e) \in Waits
  <2>1. WaitFixed(d) \in Waits
    BY DEF WaitFixed, Waits
  <2>2. ASSUME NEW s \in RetryStates
        PROVE  SatAdd(d, SatMul(e, s.attempt - 1)) \in Duration
    <3>1. SatMul(e, s.attempt - 1) \in Nat
      BY <1>d, <1>s, SaturatedIsDuration
    <3> QED BY <3>1, SaturatedIsDuration
  <2>3. WaitLinear(d, e) \in Waits
    BY <2>2 DEF WaitLinear, Waits
  <2> QED BY <2>1, <2>3
<1>3. ASSUME NEW d \in Duration, NEW b \in Nat PROVE WaitExponential(d, b) \in Waits
  <2> DEFINE c == IF b < 1 THEN 1 ELSE b
  <2>1. c \in Nat
    OBVIOUS
  <2> HIDE DEF c
  <2>2. ASSUME NEW s \in RetryStates
        PROVE  SatMul(d, Power(c, s.attempt - 1)) \in Duration
    BY <1>s, <2>1, PowerDefined, SaturatedIsDuration
  <2>3. WaitExponential(d, b) = [s \in RetryStates |-> {SatMul(d, Power(c, s.attempt - 1))}]
    BY DEF WaitExponential, ExponentialDelay, c
  <2> QED BY <2>2, <2>3 DEF Waits
<1>4. ASSUME NEW v \in Waits, NEW w \in Waits, NEW n \in Nat
      PROVE  WaitCombine(v, w) \in Waits /\ WaitChain(v, w, n) \in Waits
  <2>1. ASSUME NEW s \in RetryStates
        PROVE  SatSums(v[s], w[s]) \in (SUBSET Duration) \ {{}}
    <3>1. v[s] \subseteq Duration /\ v[s] # {} /\ w[s] \subseteq Duration /\ w[s] # {}
      BY WaitsGive
    <3>2. w[s] \subseteq Nat
      BY <1>d, <3>1
    <3> QED BY <3>1, <3>2, SumsGive
  <2>2. WaitCombine(v, w) \in Waits
    BY <2>1 DEF WaitCombine, Waits
  <2>3. WaitChain(v, w, n) \in Waits
    BY DEF WaitChain, Waits
  <2> QED BY <2>2, <2>3
<1>5. ASSUME NEW w \in Waits, NEW d \in Duration
      PROVE  WaitCapped(w, d) \in Waits /\ JitterAdditive(w, d) \in Waits
  <2>1. ASSUME NEW s \in RetryStates
        PROVE  {Least(x, d) : x \in w[s]} \in (SUBSET Duration) \ {{}}
    <3>1. \A x \in Duration : Least(x, d) \in Duration
      BY DEF Least
    <3> QED BY <3>1, WaitsGive
  <2>2. WaitCapped(w, d) \in Waits
    BY <2>1 DEF WaitCapped, Waits
  <2>3. ASSUME NEW s \in RetryStates
        PROVE  SatSums(w[s], RandomDurationIn(0, d)) \in (SUBSET Duration) \ {{}}
    <3>1. RandomDurationIn(0, d) # {} /\ RandomDurationIn(0, d) \subseteq Nat
      BY <1>d, RangeGives
    <3>2. w[s] \subseteq Duration /\ w[s] # {}
      BY WaitsGive
    <3> QED BY <3>1, <3>2, SumsGive
  <2>4. JitterAdditive(w, d) \in Waits
    BY <2>3 DEF JitterAdditive, Waits
  <2> QED BY <2>2, <2>4
<1>6. ASSUME NEW w \in Waits, NEW d \in Duration, NEW e \in Duration
      PROVE  WaitCappedJitter(w, d, e) \in Waits
  BY <1>5 DEF WaitCappedJitter
<1>7. ASSUME NEW w \in Waits
      PROVE  JitterFull(w) \in Waits /\ JitterEqual(w) \in Waits /\ JitterDecorrelated(w) \in Waits
  <2>1. ASSUME NEW s \in RetryStates
        PROVE  UNION {RandomDurationIn(0, x) : x \in w[s]} \in (SUBSET Duration) \ {{}}
    <3>1. \A x \in Duration :
            RandomDurationIn(0, x) \subseteq Duration /\ RandomDurationIn(0, x) # {}
      BY <1>0, 0 \in Duration, RangeIsDurations DEF Duration
    <3> QED BY <3>1, WaitsGive
  <2>2. ASSUME NEW s \in RetryStates
        PROVE  UNION {{(x \div 2) + j : j \in RandomDurationIn(0, x \div 2)} : x \in w[s]}
                 \in (SUBSET Duration) \ {{}}
    <3>1. ASSUME NEW x \in Duration
          PROVE  /\ {(x \div 2) + j : j \in RandomDurationIn(0, x \div 2)} \subseteq Duration
                 /\ {(x \div 2) + j : j \in RandomDurationIn(0, x \div 2)} # {}
      <4>1. PICK h \in Nat : h = x \div 2 /\ h + h <= x
        BY <1>d
      <4>2. /\ RandomDurationIn(0, h) # {}
            /\ \A j \in RandomDurationIn(0, h) : j \in Nat /\ j <= h
        BY RangeGives
      <4>3. \A j \in RandomDurationIn(0, h) : h + j \in Duration
        BY <1>0, <1>d, <4>1, <4>2 DEF Duration
      <4> QED BY <4>1, <4>2, <4>3
    <3> QED BY <3>1, WaitsGive
  <2>3. ASSUME NEW s \in RetryStates
        PROVE  UNION {RandomDurationIn(x,
                 SatMul(IF s.previous_delay = None THEN x ELSE s.previous_delay, 3))
                 : x \in w[s]} \in (SUBSET Duration) \ {{}}
    <3> DEFINE Upper(x) ==
                 SatMul(IF s.previous_delay = None THEN x ELSE s.previous_delay, 3)
    <3>1. \A x \in Duration : Upper(x) \in Duration
      BY <1>s, SaturatedIsDuration
    <3> HIDE DEF Upper
    <3>2. \A x \in Duration :
            RandomDurationIn(x, Upper(x)) \subseteq Duration /\ RandomDurationIn(x, Upper(x)) # {}
      BY <3>1, RangeIsDurations
    <3>3. UNION {RandomDurationIn(x, Upper(x)) : x \in w[s]} \in (SUBSET Duration) \ {{}}
      BY <3>2, WaitsGive
    <3> QED BY <3>3 DEF Upper
  <2> QED BY <2>1, <2>2, <2>3 DEF JitterFull, JitterEqual, JitterDecorrelated, Waits
<1> QED BY <1>1, <1>2, <1>3, <1>4, <1>5, <1>6, <1>7

\* A cap holds whatever jitter is asked for after it, over any strategy: additive
\* jitter is moved under the cap, and full and equal jitter cannot breach it
\* (WaitCapped::jitter; Wait::full_jitter and Wait::equal_jitter of a WaitCapped).
THEOREM CapSurvivesJitter ==
  \A w \in Waits, max, j \in Duration, s \in RetryStates :
    \A d \in WaitCappedJitter(w, max, j)[s] \cup JitterFull(WaitCapped(w, max))[s]
               \cup JitterEqual(WaitCapped(w, max))[s] :
      d <= max
<1> SUFFICES ASSUME NEW w \in Waits, NEW max \in Duration, NEW j \in Duration,
                    NEW s \in RetryStates
             PROVE  /\ \A d \in WaitCappedJitter(w, max, j)[s] : d <= max
                    /\ \A d \in JitterFull(WaitCapped(w, max))[s] : d <= max
                    /\ \A d \in JitterEqual(WaitCapped(w, max))[s] : d <= max
  OBVIOUS
<1>1. ASSUME NEW v \in Waits
      PROVE  \A d \in WaitCapped(v, max)[s] : d \in Nat /\ d <= max
  <2>1. \A x \in Duration : Least(x, max) \in Nat /\ Least(x, max) <= max
    BY DurMaxAssumption DEF Least, Duration
  <2> QED BY <2>1, WaitsGive DEF WaitCapped
<1>2. \A d \in WaitCappedJitter(w, max, j)[s] : d <= max
  <2>1. JitterAdditive(w, j) \in Waits
    BY StrategiesTotal
  <2> QED BY <1>1, <2>1 DEF WaitCappedJitter
<1> DEFINE c == WaitCapped(w, max)
<1>3. \A x \in c[s] : x \in Nat /\ x <= max
  BY <1>1
<1>4. max \in Nat
  BY DurMaxAssumption DEF Duration
<1> HIDE DEF c
<1>5. \A d \in JitterFull(c)[s] : d <= max
  <2>1. ASSUME NEW x \in c[s], NEW d \in RandomDurationIn(0, x) PROVE d <= max
    <3>1. x \in Nat /\ x <= max
      BY <1>3
    <3>2. d \in Nat /\ (d <= x \/ d = 0)
      BY <3>1, RangeGives
    <3> QED BY <1>4, <3>1, <3>2
  <2> QED BY <2>1 DEF JitterFull
<1>6. \A d \in JitterEqual(c)[s] : d <= max
  <2>1. ASSUME NEW x \in c[s], NEW i \in RandomDurationIn(0, x \div 2)
        PROVE  (x \div 2) + i <= max
    <3>1. x \in Nat /\ x <= max
      BY <1>3
    <3>2. PICK h \in Nat : h = x \div 2 /\ h + h <= x
      BY <3>1
    <3>3. i \in Nat /\ i <= h
      BY <3>2, RangeGives
    <3> QED BY <1>4, <3>1, <3>2, <3>3
  <2> QED BY <2>1 DEF JitterEqual
<1> QED BY <1>2, <1>5, <1>6 DEF c

\* Exponential and linear backoff, before any rounding, never shrink from one attempt
\* to a later one, the saturation of the delay included, whatever else the states
\* differ in (WaitExponential::next_wait, WaitLinear::next_wait).
THEOREM BackoffNeverShrinks ==
  \A d, e \in Duration, b \in Nat, s, t \in RetryStates :
    s.attempt <= t.attempt =>
      /\ \A x \in WaitExponential(d, b)[s], y \in WaitExponential(d, b)[t] : x <= y
      /\ \A x \in WaitLinear(d, e)[s], y \in WaitLinear(d, e)[t] : x <= y
<1> SUFFICES ASSUME NEW d \in Duration, NEW e \in Duration, NEW b \in Nat,
                    NEW s \in RetryStates, NEW t \in RetryStates, s.attempt <= t.attempt
             PROVE  /\ \A x \in WaitExponential(d, b)[s], y \in WaitExponential(d, b)[t] : x <= y
                    /\ \A x \in WaitLinear(d, e)[s], y \in WaitLinear(d, e)[t] : x <= y
  OBVIOUS
<1>1. PICK m \in Nat, n \in Nat :
        m = s.attempt - 1 /\ n = t.attempt - 1 /\ m <= n
  BY AttemptMaxAssumption DEF RetryStates, Attempts
<1>2. DurMax \in Nat /\ d \in Nat /\ e \in Nat
  BY DurMaxAssumption DEF Duration
<1>3. ASSUME NEW x \in Duration, NEW p \in Nat, NEW q \in Nat, p <= q
      PROVE  SatMul(x, p) <= SatMul(x, q)
  <2>1. x \in Nat
    BY <1>2 DEF Duration
  <2>2. PICK k \in Nat : q = p + k
    BY <1>3, q - p \in Nat, q = p + (q - p)
  <2>3. x * p \in Nat /\ x * k \in Nat /\ x * (p + k) = x * p + x * k
    BY <2>1
  <2> QED BY <1>2, <2>2, <2>3 DEF SatMul
<1>4. \A x \in WaitExponential(d, b)[s], y \in WaitExponential(d, b)[t] : x <= y
  <2> DEFINE c == IF b < 1 THEN 1 ELSE b
             S == {i \in Nat : \A k \in Nat : k <= i => Power(c, k) <= Power(c, i)}
  <2>1. c \in Nat /\ c >= 1
    OBVIOUS
  <2> HIDE DEF c
  <2>2. 0 \in S
    <3>1. ASSUME NEW k \in Nat, k <= 0 PROVE Power(c, k) <= Power(c, 0)
      <4>1. k = 0 /\ Power(c, 0) \in Nat
        BY <2>1, <3>1, PowerDefined
      <4> QED BY <4>1
    <3> QED BY <3>1
  <2>3. ASSUME NEW i \in Nat, i \in S PROVE i + 1 \in S
    <3>1. /\ Power(c, i) \in Nat /\ Power(c, i + 1) \in Nat
          /\ Power(c, i + 1) = c * Power(c, i)
      BY <2>1, PowerDefined
    <3>2. \A p \in Nat : p <= c * p
      BY <2>1
    <3>3. Power(c, i) <= Power(c, i + 1)
      BY <3>1, <3>2
    <3>4. ASSUME NEW k \in Nat, k <= i + 1 PROVE Power(c, k) <= Power(c, i + 1)
      <4>1. CASE k = i + 1
        BY <3>1, <4>1
      <4>2. CASE k <= i
        <5>1. Power(c, k) <= Power(c, i) /\ Power(c, k) \in Nat
          BY <2>1, <2>3, <4>2, PowerDefined
        <5> QED BY <3>1, <3>3, <5>1
      <4> QED BY <3>4, <4>1, <4>2
    <3> QED BY <3>4
  <2> HIDE DEF S
  <2>4. \A i \in Nat : i \in S
    BY <2>2, <2>3, InductiveSet
  <2>5. Power(c, m) <= Power(c, n) /\ Power(c, m) \in Nat /\ Power(c, n) \in Nat
    BY <1>1, <2>1, <2>4, PowerDefined DEF S
  <2>6. SatMul(d, Power(c, m)) <= SatMul(d, Power(c, n))
    BY <1>3, <2>5
  <2>7. \A r \in RetryStates : WaitExponential(d, b)[r] = {SatMul(d, Power(c, r.attempt - 1))}
    BY DEF WaitExponential, ExponentialDelay, c
  <2> QED BY <1>1, <2>6, <2>7
<1>5. \A x \in WaitLinear(d, e)[s], y \in WaitLinear(d, e)[t] : x <= y
  <2>1. /\ SatMul(e, m) <= SatMul(e, n)
        /\ SatMul(e, m) \in Duration /\ SatMul(e, n) \in Duration
    BY <1>1, <1>3, SaturatedIsDuration
  <2>2. \A x, y \in Duration : x <= y => SatAdd(d, x) <= SatAdd(d, y)
    BY <1>2 DEF SatAdd, Duration
  <2>3. \A r \in RetryStates : WaitLinear(d, e)[r] = {SatAdd(d, SatMul(e, r.attempt - 1))}
    BY DEF WaitLinear
  <2> QED BY <1>1, <2>1, <2>2, <2>3
<1> QED BY <1>4, <1>5
=============================================================================
