# A verification of the retry engines

The repository is a Rust crate that retries fallible operations, blocking or
asynchronous, under a policy: when to stop, how long to wait, how to classify an
outcome, and a wall-clock budget. These modules model its engines, strategies,
jitter, backoff arithmetic, clocks, classifiers and builders in TLA+, check them with
TLC on small instances, and prove with TLAPS, for every instance, the safety
guarantees of both engines, the classifying loop, the builders and hook chains, jitter,
exponential backoff, the strategies and the clocks.

Paths below are relative to `src/src/` unless they start with `docs/`.

## Inventory

| Part | State | Operations | Interaction |
|---|---|---|---|
| `engine/step.rs` | none of its own: a `Progress` in, a `Step` out | `step` | called by both engines after every attempt; calls `after_attempt`, the classifier, the strategies, `on_exit` |
| `engine/mod.rs`, blocking engine | origin, attempt, previous_delay, total_wait | `call`, `run` | reads and waits on a `SyncClock`, fires `before_attempt`, calls the operation |
| `engine/async_engine.rs`, poll-driven engine | the same, plus `Phase` and the inner future | `call`, `poll`, drop | polled by an executor; polls the operation's future and the clock's wait |
| `engine/mod.rs`, `async_engine.rs`, `policy/mod.rs`, builders | one value per slot, a chain per hook point | setters, `with_stats`, `call`, `RetryPolicy::retry`, `retry_async` | consumed by value; a policy lends references to any number of builders |
| `engine/hooks.rs` | nested `HookChain`s | `chain_*`, `call` | built by the builders, walked by the engines |
| `decision.rs`, `predicate/mod.rs` | none | `classify`, `decide`, `should_retry` | consulted once per attempt by `step` |
| `engine/state.rs`, `stats.rs`, `error.rs`, `state.rs` | records handed to user code | accessors | produced by `step` |
| `stop/`, `wait/` | immutable values, the jitter generator excepted | `should_stop`, `next_wait` | consulted by `step` |
| `wait/jitter.rs` | per instance a kind, a seed and a SplitMix64 generator; one process-wide nonce counter | `new`, `clone`, `with_seed`, `with_nonce`, one draw per `next_wait` | instances are built and cloned by any thread; executions that share a policy draw from one generator |
| `wait/math.rs` | locals of the squaring loop | `clamp_exponential_base`, `pow_nonnegative_f64`, `saturating_duration_mul_f64` | called by `WaitExponential` |
| `clock.rs`, virtual clock | time, list of waits, one flag per wait future | `now`, `advance`, `wait`, `wait_async`, `poll` | shared by reference between executions of one thread |
| `clock.rs`, real clocks | an origin (for `SystemClock` a process-wide `OnceLock`) | `now`, `wait`, `wait_async` | read time through one unit, wait through another: std, Tokio, Embassy, futures-timer, Gloo |
| `engine/op.rs`, `lib.rs`, `compat.rs` | none | type adapters, re-exports | |

What is hard here, and what correctness means:

- **Time.** Elapsed is read at two places per attempt, and time passes in every
  callback. The budget must bound when attempts start, the backoff must really
  elapse, and the statistics must agree with what the clock was asked.
- **Limits.** The attempt counter and every duration saturate; the deadline can be
  hit exactly; a budget can be zero.
- **Polling.** The inner future completes on other threads; polls may be spurious;
  the future may move between tasks or be dropped. No wake-up may be lost.
- **Two engines, one meaning.** They share `step` but keep the cursor differently.
  Both must implement the same contract.
- **Failure.** Any callback may panic. `on_exit` must be called exactly once by an
  execution that returns, and never by one that is cancelled.
- **Outcomes.** The last value or error must survive the way through classifier,
  exit hook and error type.
- **Randomness.** Instances that must differ (clones, separate loops) and instances
  that must agree (same seed) are told apart only by how seed, nonce, counter and wall
  clock are mixed, while threads build and draw in any order. A draw must cover its
  range to the end, at every word and duration limit.
- **Clocks.** The engines' budgets rest on one clause of the `Clock` trait: a completed
  wait shows in `now()`. Each adapter rounds and clamps on both sides of it.
- **Configuration.** Every setter rebuilds the builder field by field; call order
  must not matter beyond "last call wins", and hooks must fire as registered.

`PROJECT.json` lists the hazards one by one with the properties that cover them.

## Modules

| Module | Models | Uses |
|---|---|---|
| `Durations` | `Duration` with saturating arithmetic, the `u32` counter, `RetryState` | |
| `Strategies` | stop strategies as sets of retry states, wait strategies as functions from a retry state to the set of delays they may return (one, or the range of a jitter) | `Durations` |
| `Step` | the variables of one execution and `step`, cut at its callbacks; properties common to both engines, and the part of the inductive invariant they share | `Durations` |
| `RetryContract` | **abstract specification**: what an execution promises, whichever engine drives it | `Durations` |
| `SyncEngine` | `Retry::run`; inductive invariant; refinement mapping to `RetryContract` | `Step` |
| `AsyncEngine` | `AsyncRun::poll` and the executor around it; inductive invariant; refinement mapping to `RetryContract` | `Step` |
| `Classification` | classifiers, predicates, and the loop with its outcomes, exits, errors and their accessors | |
| `Configuration` | the policy, the builders, lending, hook chains and their dispatch | |
| `Jitter` | jittered instances: nonces, clones, seeds, moves between threads, concurrent draws, and what a draw returns | `Strategies` |
| `SplitMix64` | the generator's arithmetic on words of a chosen width | |
| `Backoff` | exponential backoff as computed: clamp, squaring loop, product, each in floats that round | `Strategies` |
| `ClockContract` | **abstract specification**: what a clock promises the engines | `Durations` |
| `VirtualClock` | the test clock and its wait futures; refinement mapping to `ClockContract` | `Durations` |
| `ClockAdapters` | the five real clocks; refinement mapping to `ClockContract` | `Durations` |
| `MCPolicies`, `MCSyncEngine`, `MCAsyncEngine`, `MCClassification`, `MCConfiguration`, `MCJitter` | the instances TLC checks | |
| `StepProofs` | lemmas about saturating arithmetic and about each part of `step` | `Step`, TLAPS |
| `SyncEngineProofs`, `AsyncEngineProofs` | theorems about the engines | `StepProofs` |
| `ClassificationProofs`, `ConfigurationProofs`, `VirtualClockProofs`, `ClockAdaptersProofs` | theorems about the module each is named after | TLAPS |
| `WaitProofs` | theorems about jitter, backoff and the algebra of strategies | `Jitter`, `Backoff`, TLAPS |

### How state and actions correspond to the code

**Step, SyncEngine.** `attempt`, `previous_delay`, `total_wait` are the locals of
`Retry::run`; `start_elapsed` and `post_elapsed` are the two clock readings of an
attempt; `delay`, `reason`, `result` are what `step` returns. `ops`, `exits`,
`slept` and `lag` are ghosts: operations started, `on_exit` calls, what the clock was
asked to wait, and the time since `post_elapsed` was read that no wait asked for.
`pc` names the callback that runs next. The clock is read twice when an execution
starts, for the baseline and for the first `before_state`; `FirstReading` lets time
(`StartTimes`) pass in between, in both engines. There is one action per callback, because
only there can time pass or a panic start, and each action includes the engine's code
up to the next callback: `Op` reads the clock when the operation returns; `Sleep`
blocks, advances the cursor, and reads the clock for the next `before_state`.
`Conclude`, `Exhaust` and `Continue` are the three ways through the `match` in `step`.

**AsyncEngine.** `pc` refines `Phase`; a poll is entered by `EnterPoll` and goes on
through the same callbacks until it meets a pending inner future. `registered`
is the waker that future was last polled with, `ready` whether it has completed,
`due` when its timer fires. `OpCompletes`, `TimerFires`, `Tick`, `Migrate`,
`SpuriousPoll` and `Drop` are the environment. Only a wake-up of the task that
owns the future counts.

**Classification.** A classifier is a function from outcomes to verdicts, a predicate
the set of outcomes it would retry. The loop is the control of `step` again, with
payloads instead of time, its three exits written out as in the code; the stop strategy is
a limit on attempts. `StopReason`, `Last`
and `LastError` are the accessors of `RetryError`.

**Jitter.** `inst` holds what a `Jittered` owns, and the thread that owns it. `pc` is
what a thread is in the middle of: `FetchNonce` takes the counter and `Build` reads the
wall clock and stores the instance, so another thread or a change of the wall clock can
come between. A draw is one step where the generator is an `AtomicU64`
(`NextWaitFetch`) and two where it is a `Cell` (`NextWaitGet`, `NextWaitSet`);
`Reachable` says who may hold a reference, which for a `Cell` is the owning thread
only. `origin` and `drawn` are history: the last configuration of the stream and the
generator states drawn since. `build` picks one of the crate's three builds. The
word operations are constant operators, given by `SplitMix64` (the low bits of
its constants, its shift distances scaled to the width).

**Backoff.** `result`, `factor`, `remaining` are the locals of `pow_nonnegative_f64`; one
`Loop` step is one turn. Floats have `Precision` bits and a largest binade; every product,
and the conversion of a duration (`AsFloat`), rounds to the nearest float with ties to even
or overflows to infinity, and the cast back to a duration truncates. A finite float is held as a
whole number of units of the last place of 1.0, so fractional bases are there, at that
precision. `ExponentialDelay` in `Strategies` is the delay without rounding, for whole bases;
`DelayBracketed` says how near the computed one comes. Names such as `BackoffSpec` carry a prefix
because `WaitProofs` extends this module and `Jitter`.

**VirtualClock.** `now`, `waits` and `fut` are the two cells and the wait futures alive.
`spent`, `served` and `requested` are ghosts.

**ClockAdapters.** `time` is the time that really passes; `Reading` is what `now()` would
return, `Deadline` when a timer built now is ready. `Now`, `InitAnchor`, `PublishAnchor`
and `Elapsed` are the steps of `SystemClock::now`, between which other threads run;
the other clocks have their origin from construction. The runtimes' timers are
external: they fire no earlier than they were asked to, in their own units.

**ClockContract.** Readings never decrease and a completed wait shows in them, to within
`unit` and up to `longest`. The trait's own promise is `unit = 1`, `longest = DurMax`,
which is how `VirtualClock` uses it; a real clock is held to the unit its conversions
keep and the longest wait its timer performs.

**Configuration.** Strategies and classifiers are names. Setters that change a type parameter
build a new struct from the fields of the old one, once for `RetryPolicy`, once for `Retry` and
once for `AsyncRetry`, and each rebuild is written out (`RetryClock`, `AsyncClock`, ...), so a field
that one of them lost would show. A builder from
`policy.retry` holds `Borrowed` in three slots and a copy of the timeout, as
`from_parts` is called with three references and one value. `PolicyBorrowed` is what the
borrow checker enforces. `Call` requires the clock capability of the builder's form, as
the bounds on `call` do. `Dispatch` unfolds one link of a hook chain at a time.
`asked`, `seed`, `given` and `fired` are ghosts: what the policy's setters were asked for, what
that was when the builder was made, the values the calls gave each slot and hook point in order, and the hooks called
at the current point. A hook is named by its point and its place among the calls there.

## Runs

| Run | Distinct states | Shows |
|---|---|---|
| `sync_safety` | 74 thousand | statistics truthful; deadline, attempt budget, backoff; last attempt at the deadline; the inductive invariant; refinement of the contract; bounded executions end |
| `async_safety` | 4.3 million | the same guarantees under polling (the last attempt at the deadline by way of the contract), no lost wake-up, and bounded executions end although polled only when woken |
| `classification` | 53 thousand | every predicate over two values and two errors, every closure on options: the loop stops at the first outcome not retried, the last outcome is recoverable, the error's accessors agree with the exit hook, `.until(ok(..))` polls, `.when(error(..))` aborts exactly on other errors |
| `configuration` | 2.9 million | every order of configuration calls on two builders: last call wins in each slot, hooks in registration order |
| `jitter` | 979 thousand | draws of all threads from an instance are one stream, none twice; equal configurations draw equal values; instances that each took a nonce from the bare counter, however their constructions interleave, or were given different ones, draw different values; each kind returns exactly the values of its range |
| `backoff` | 2.3 thousand | under rounding and overflow, with whole and fractional bases: the loop invariant of the squaring, the delay against the strategy algebra, and that the loop ends |
| `virtual_clock` | 125 thousand | each wait counts once however often it is polled; refinement of the clock contract |
| `clock_adapters` | 1.5 million | refinement of the clock contract by all five clocks: readings monotone through the race for the anchor, waits short by less than a unit, up to the timer's maximum |
| `hook_overrun`, `nonce_collision`, `constant_delay`, `short_wait` | violation | see findings |

### Bounds

- `DurMax` (7 to 9 ticks) and `AttemptMax` (3 or 4) stand for `Duration::MAX` and
  `u32::MAX`. They are small on purpose: with policies of at most three counted
  attempts and budgets of at most six ticks there is room below them, and the
  unbounded policy drives both to saturation.
- `OpsCap` exceeds `AttemptMax`, so the ghost count of operations tells a saturated
  counter from a true one. It saturates too, so the model is finite.
- `StartTimes`, `HookTimes`, `Lateness` `{0, 1}`, `OpTimes` `{0, 2}`, `Origins` `{0, 1}` (`{0}` in
  `async_safety`): enough for a
  callback to push a reading to, onto and past each deadline.
- Policies (`MCPolicies`): counted attempts with exponential backoff; a deadline alone
  with a chain of waits; a count or an elapsed time with capped jitter; a count and an
  elapsed time under a deadline with decorrelated jitter; a deadline with full jitter,
  which may draw zero; a zero budget; no end at all. Together they use every strategy.
- Two tasks suffice for migration.
- `Jitter`: words of three bits, so that the generator, `u64::MAX` included, can be
  enumerated; two threads, two instances, a nonce for each, and two draws from a
  stream, since the properties compare two instances and two draws. A wall clock of two
  readings can be set forwards and back; `nonce_collision` has eight, one before the
  epoch. `RangeExact` covers every kind, base, previous delay and generator state, with
  empty ranges, ranges beyond a word and sums past `DurMax`.
- `Backoff`: floats of four bits (1.0 is eight units) whose range exceeds `DurMax` = 47 and
  is exceeded in turn by the powers of bases from 2 up within 17 attempts. As with f64, `Duration::MAX`
  rounds up to the next whole number (`LongestAssumption`). Initial delays
  are floats and not (17, 47); bases are whole, fractional (1.125, 1.5, 1.625, 2.5), below 1,
  infinite and NaN.
- `VirtualClock`: three waits on two futures, each polled twice.
- `ClockAdapters`: a millisecond is 3 ns, a microsecond 2 and a tick 3, so that each
  conversion has a remainder; one tick and one millisecond are the timers' maxima,
  and a wait of 7 ns exceeds both. Two tasks and four calls let each read and wait.
- `Classification`: two values, two errors, three attempts; a predicate on a Result is
  any set of the four outcomes, so all are enumerated.
- `Configuration`: `MaxCalls = 2` calls on the builders alive, in any split between
  them. A lost slot needs two calls (one to set it, one to lose it); a misordered
  chain needs two hooks.

### Fairness

`SyncEngine`: weak fairness of `Next`. The engine is a loop on a thread that is not
suspended forever; the assumption is that callbacks, the operation and waits return,
which no retry library can enforce. `AsyncEngine`: weak fairness of the body of
`poll`, of polls of a *woken* task, of the operation's completion, of due timers, and
of time passing during a sleep: the contract between futures and executors. Nothing
makes the executor poll without a wake-up, so a lost wake-up would show.
`Termination` is claimed for policies with a count, or with a deadline and waits that
are never zero, on a clock whose range reaches the deadline (`ClockLasts`).
A policy with a deadline and zero waits on a clock that only waits can move does not
end; it is among the policies checked for safety and excluded from `Bounded`.
`Backoff`: weak fairness of `Loop`, a sequential loop with no call in it.
The other modules state no liveness.

Deadlock checking is on for `configuration`, where handles are used again, and off
elsewhere: an execution ends, and the models of jitter and clocks stop at their bounds.

## Findings

- **A clamped wait can end past the deadline** (`hook_overrun`; `engine/step.rs:141`).
  The remaining budget is taken from `post_elapsed`, which was read before
  `after_attempt` and the classifier ran. `docs/SPEC.md:1218` says a clamped wait ends at
  the deadline. `DeadlineBound` states what holds instead: the deadline plus that
  time.
- **Nonces are not unique with std** (`nonce_collision`; `wait/jitter.rs:354`, `:240`): the
  counter is mixed with the wall clock's nanoseconds by exclusive or, so counter 1 at
  time 0 and counter 2 at time 3 give one nonce and two instances draw one sequence.
  `Decorrelated` states what holds: a bare counter, or nonces the caller chose, keep
  instances apart.
- **A base of 1 does not always give the initial delay back** (`constant_delay`;
  `wait/math.rs:32`, `wait/strategies.rs:124`): the delay goes through `f64` whatever the
  multiplier is, and a delay above 2^53 ns (104 days) that is not a float is rounded. 2^53 + 1 ns comes
  back as 2^53 ns; in the run's four-bit floats, 17 as 16. `DelayBracketed` states what holds.
- **A wait can complete early on clocks with coarse timers** (`short_wait`;
  `clock.rs:530`, `:56`): `GlooClock` drops what exceeds whole milliseconds while the
  reading it is compared with need not. With `Adapters = {"Embassy"}` the same run shows it
  for the whole microseconds of `to_embassy_duration` (`clock.rs:434`). `ClockContractHolds`
  states what holds: less than one unit is lost.

Three divergences met while modelling that no run is devoted to:

- `docs/SPEC.md:874` says `.clock(...)` is available only while the builder has its default
  clock, "so the clock cannot be set twice"; `clock` is defined for every clock type
  (`engine/mod.rs:178`), and the last call wins (`LastCallWins` covers it).
- `Exit::attempt()` is not always the number of completed attempts, as
  `docs/SPEC.md:1002` says: the counter saturates at `u32::MAX` (`engine/mod.rs:410`)
  and the loop goes on.
- `VirtualClock::waits` is documented as "in request order" (`clock.rs:260`); a wait future
  is recorded at its first poll (`clock.rs:276`), so overlapping futures are listed in the
  order in which they were first polled.

## Proofs

Every theorem is of the form `Spec => ...` (or, for an operator, a statement for all its
arguments), for every value of the constants that satisfies the named assumptions. TLC
evaluates each assumption on every run that uses its module. Each inductive invariant was
checked with TLC on a small instance before it was proved.

Assumptions:

- `DurMax`, `AttemptMax` positive; `None` not a number; policies made of total strategies
  that return durations; times that are durations; `OpsCap > AttemptMax`.
- Absent values are none of the records they stand in for (`NoFutureAssumption`,
  `NoTimerAssumption`, `NoRecordAssumption`), and `Borrowed` is no value of a slot
  (`BorrowedAssumption`): `Option` and references keep them apart in the code.
- `GeneratorAssumption`: the generator advances by a fixed increment that leads
  through every word (`GAMMA` is odd), and the output mixing is a permutation.
  `MCJitter` checks both for `SplitMix64` at its width. `MaxDraws` is at most the
  period: beyond it the states do recur.
- `FloatAssumption`, `InfinityAssumption`, `BackoffArguments`: a precision and a range of
  finite floats, infinity and NaN as values outside it, and arguments that are durations and
  floats. `LongestAssumption`: the longest duration rounds up to the next number and that is
  a float, as `Duration::MAX` (2^64 * 10^9 - 1 ns) does; the code relies on it (`math.rs:33`).
- `RangesAssumption`: a unit and the longest wait of a timer fit a `Duration`, as
  `u64::MAX` ticks of up to a second and `i32::MAX` milliseconds do.

**The engines.** Both take their invariant from `StepInv` in `Step`, because none of the
properties is inductive by itself:

- `ReadingsPast`: the baseline and both elapsed readings lie in the past of `now`,
  and `now` is at most `lag` beyond the last one. Without it a reading after the wait
  says nothing about the budget.
- `AttemptsCounted`: the cursor is the number of operations, up to saturation, with an
  offset that depends on the location.
- `WaitsElapsed`: `total_wait` is what was asked of the clock and is covered by the
  latest reading, as long as the clock has not saturated.
- `DelayFits`: a delay decided on fits in what was left of the budget.
- `CountFits`: while another attempt is still to come, fewer operations have started
  than any count from which the stop strategy fires.

`StepProofs` shows once that each part of `step` keeps these; the engines differ only in
how they sleep. `SyncEngine.IInv` adds `WaitPending`, what holds when the thread is about
to block. `AsyncEngine.IInv` adds three things. `WaitBegun`: the cursor already has the
delay, and the timer is due neither before the delay has passed nor later than the delay
and the time no wait asked for; a ready timer is a due one. `NoLostWakeup` itself. And
callbacks run inside a poll only, which is why a suspended execution is at its operation or
its wait and nowhere else. `DeadlineBound` follows from `DelayFits` and `ReadingsPast`;
`LastAttemptAtDeadline` and `BackoffRespected` are action properties of the step that
begins a further attempt.

Two more guarantees of `docs/SPEC.md` are stated in `StepProofs` and proved of each engine.
`OneExit`: `on_exit` is called exactly once by an execution that returns, at most once by
one that panics, never by one that is dropped, and no statistics exist before (8.3, 8.8).
`WaitsWithinBudget`: the waits asked of the clock never add up to more than the
budget, over any number of attempts. It is inductive only with `WaitsElapsed` and
`DelayFits`: what was waited so far is covered by the reading from which the next delay
is clamped. Like `StatsTruthful` it is claimed until the clock saturates.

`SyncImplementsContract` and `AsyncImplementsContract` prove that every behaviour of
either engine is one of `RetryContract`, action by action, each a contract step or a
stutter. The mappings differ: `run` advances its whole cursor after the wait, `poll`
takes the delay before it and the attempt number after it.

**Classification.** The invariant adds `Ended` to the types: exit and result
are both made of the verdict on the last outcome, in the variant and arm for that
verdict. From it follow `SeenRetried`, `LastOutcomeRecoverable`, `AccessorsAgree`,
`UntilOkPolls` and `WhenErrorAborts`. Two theorems are about the classifiers alone:
`.until(p)` is `.when` of the complement, and `.when(any_error())` is the default.

**Configuration.** `HandleInv` is about one builder and the policy, so a step on one
builder leaves the others' alone (`OneHandle`). `LastCallWins` is inductive once
slots are typed and the policy is what its setters were asked for: a policy that some slot refers to is borrowed and its setters are
disabled, and the timeout and the clock are never references. For the hooks the invariant says
that a chain is `Linked`: there are chains `c[0]`, `c[1]`, ... that each registration
extended by one link. A walk is then either `Descending`, at `c[m]` with the hooks after the
`m`-th still to come and nothing called, or `Calling`, with a prefix called and the
rest to come (`DescendingStep`, `CallingStep`). `HooksInOrder` follows for chains of any
length.

**Jitter.** A generator's state is given in closed form, `StateAfter(a, n)`: `n`
increments past the start `a`. The invariant says that every instance is where its origin and
number of draws put it (`Streams`), that a draw in two steps belongs to the owner of the
instance, so nothing moves the generator in between (`DrawsOwned`), and that counter
values are used once, also while constructions are in progress (`NoncesFresh`), which is where the
atomicity of the counter enters. `OneStream`,
`Pinned` and `Decorrelated` follow with the laws of the generator.
`JitterFormulasExact` proves for every kind, base and previous delay that the delays
over all generator values are those of the strategy algebra's range, up to a word
above its lower end, with the modulus that overflows at `u64::MAX`, empty ranges and
saturated sums; `RangeExact` is its consequence.

**Backoff.** Rounding makes the exact loop invariant of squaring false, and `PowerLeft`, which
bounds it, is not inductive: once a value has been rounded or has overflowed, it no longer says
which power is left. `BackoffInv` therefore speaks of *some* whole numbers `r` and `f` with
`r * Power(f, remaining)` equal to the power asked for, and says that the floats `result` and `factor`
are at least them up to a cap, or at most them below it (`AboveSplit`, `BelowSplit`). It does so on
two scales, sets of numbers closed under products whose members up to a cap are floats: all
whole numbers up to `2^Precision`, for the whole numbers below and above the base, and the powers of two up to the
largest float, for the powers of two up to the base. Rounding to the nearest float cannot
cross a number that is a float (`RoundsBetween`), so a product of floats keeps to the products of their
bounds (`FMulAbove`, `FMulBelow`), a turn of the loop keeps the splits (`TurnAbove`, `TurnBelow`), and
the last product and the cast keep to the duration's (`DurationWhole`, `DurationTwos`). What `Power`
computes needs induction over the exponent, which comes from the well-foundedness of `<` on the naturals
by way of the least-number principle (`LeastNatural`, `InductiveSet`), a form of induction over
sets rather than predicates; squaring the base halves an even exponent (`PowerOfSquare`).
`PowerLeft` and `DelayBracketed` follow for every precision and range, base, initial delay and attempt: the
delay is the algebra's up to `2^Precision` for a whole base, between those of the
neighbouring whole bases for a fractional one, does not come back below `2^Precision` once it should be
past it, and is the algebra's all the way to the longest duration for a power-of-two
base and an initial delay of at most `2^Precision`.

**Strategies.** `StrategiesTotal`: every strategy and combinator, given durations and
strategies, is a strategy again. So the assumption the engines make of a policy holds of
every policy built with the crate's own strategies. `CapSurvivesJitter` is
`docs/SPEC.md` 3.3.8: a cap followed by additive, full or equal jitter still bounds the delay,
over any inner strategy. `BackoffNeverShrinks`: exponential and linear delays grow or stay from
one attempt to a later one, through saturation.

**Clocks.** For `VirtualClock` the invariant adds that a future has advanced time exactly
when it has been polled (`FuturesTruthful`). It implements `ClockContract` without slack, and the contract without
slack implies that a completed wait always shows in full (`StrictContractCoherent`); the
virtual clock inherits that (`VirtualClockCoherent`). For `ClockAdapters`
it adds that one task at most initialises the anchor, and only while there is none
(`AnchorOnce`), and that from the moment a timer is ready the clock shows the wait it was
built for, to within the unit (`TimersCover`). The arithmetic is in lemmas about whole
units: rounding down is monotone and loses less than a unit, rounding up loses nothing.
`UnconvertedClocksCoherent` confines the `short_wait` finding to the two adapters that
convert units.

Only model-checked:

- Liveness (`Termination` of both engines, `Returns` of the squaring loop): fairness and
  `ENABLED` are out of the prover's reach.
- The four violation runs are counterexamples and need no proof.

## Not modelled

- `wait/math.rs`: bases below zero, which are clamped to 1 like the others below 1, and the
  fractions below 1 finer than the last place of 1.0.
- `wait/jitter.rs`: how evenly a draw is distributed (the modulo bias), and the quality
  of SplitMix64.
- `clock.rs`: what a runtime's timer does with a deadline past its own range.
- A future polled again after a panic the caller caught.
- `engine/op.rs`: a change of type only. Formatting of errors.

## Plan

1. Done: all modules above; the theorems above, which state every invariant and every
   action property that a passing run checks.
2. Left to model: a future polled again after a panic the caller caught.
3. Left to the model checker: liveness, as said above.
