---------------------------- MODULE Configuration ----------------------------
(***************************************************************************)
(* What happens before and around an execution: a RetryPolicy is built and *)
(* lent to blocking and asynchronous builders (src/policy/mod.rs), each    *)
(* builder is configured by a chain of calls (src/engine/mod.rs,           *)
(* src/engine/async_engine.rs), and the hooks it collected are fired by    *)
(* walking the chains they were linked into (src/engine/hooks.rs).         *)
(*                                                                         *)
(* Strategies and classifiers are names here.  A builder made by a policy  *)
(* holds references to the policy's stop, wait and classifier (Borrowed)   *)
(* and a copy of its timeout.                                              *)
(***************************************************************************)
EXTENDS Integers, Sequences, FiniteSets, SequencesExt

CONSTANTS
  Handles,       \* the builders a caller may hold at once
  Stops, Waits, Classifiers, Timeouts,  \* values for the slots
  SyncClocks, AsyncClocks,              \* clocks by capability; one may be both
  SystemClock,   \* the clock every builder starts with
  None,
  Borrowed,      \* a slot that refers to the policy's
  MaxCalls       \* bound on the configuration calls made on the builders alive

Clocks == SyncClocks \cup AsyncClocks \cup {SystemClock}

ASSUME DefaultsAssumption == "default" \in Stops \cap Waits \cap Classifiers
ASSUME BorrowedAssumption ==
  /\ Borrowed \notin Stops /\ Borrowed \notin Waits /\ Borrowed \notin Classifiers
  /\ Borrowed \notin Timeouts /\ Borrowed \notin Clocks /\ Borrowed # None
ASSUME MaxCallsAssumption == MaxCalls \in Nat

VARIABLES
  policy,   \* the RetryPolicy
  asked,    \* ghost: what the policy's own calls asked for, slot by slot
  builder,  \* handle -> the builder, or None
  stage,    \* handle -> "free", "open", "stats", "idle" (between hooks) or "firing"
  point,    \* handle -> the hook point being fired
  todo,     \* handle -> the hooks still to be called at this point, first one first
  fired,    \* handle -> ghost: the hooks called at this point, in order
  seed,     \* handle -> ghost: what the slots stood for when the builder was made
  given     \* handle -> ghost: what the calls gave each slot and hook point, in order

policyVars == <<policy, asked>>
vars == <<policyVars, builder, stage, point, todo, fired, seed, given>>

-----------------------------------------------------------------------------
(* Hooks. *)

NoHook == [kind |-> "none"]
Hook(id) == [kind |-> "hook", id |-> id]

\* Mutant: the new hook is linked in front.
HookChainSwapped(first, second) == [kind |-> "chain", first |-> second, second |-> first]

HookChain(first, second) == [kind |-> "chain", first |-> first, second |-> second]

Points == {"before_attempt", "after_attempt", "on_exit"}
Slots == {"stop", "wait", "classifier", "timeout", "clock"}
NothingGiven == [s \in Slots \cup Points |-> <<>>]

-----------------------------------------------------------------------------
(* Policies and builders. *)

(* Most setters change a type parameter, so each builds a new struct from  *)
(* the fields of the old one; Retry and AsyncRetry have their own.         *)

RetryPolicy(stop, wait, classifier, timeout) ==
  [stop |-> stop, wait |-> wait, classifier |-> classifier, timeout |-> timeout]

NewPolicy == RetryPolicy("default", "default", "default", None)

PolicySetStop(p, stop) == RetryPolicy(stop, p.wait, p.classifier, p.timeout)
PolicySetWait(p, wait) == RetryPolicy(p.stop, wait, p.classifier, p.timeout)
PolicySetClassifier(p, classifier) == RetryPolicy(p.stop, p.wait, classifier, p.timeout)

\* A strategy behind a Box is the same strategy.
Boxed(p) == RetryPolicy(p.stop, p.wait, p.classifier, p.timeout)

ExecutionHooks(before_attempt, after_attempt, on_exit) ==
  [before_attempt |-> before_attempt, after_attempt |-> after_attempt, on_exit |-> on_exit]

\* chain_before_attempt, chain_after_attempt and chain_on_exit.
Chained(hooks, p, hook) ==
  CASE p = "before_attempt" -> ExecutionHooks(HookChain(hooks.before_attempt, hook),
                                              hooks.after_attempt, hooks.on_exit)
    [] p = "after_attempt"  -> ExecutionHooks(hooks.before_attempt,
                                              HookChain(hooks.after_attempt, hook),
                                              hooks.on_exit)
    [] p = "on_exit"        -> ExecutionHooks(hooks.before_attempt, hooks.after_attempt,
                                              HookChain(hooks.on_exit, hook))

Retry(classifier, stop, wait, clock, hooks, timeout) ==
  [form |-> "sync", classifier |-> classifier, stop |-> stop, wait |-> wait,
   clock |-> clock, hooks |-> hooks, timeout |-> timeout]

RetryStop(b, stop) == Retry(b.classifier, stop, b.wait, b.clock, b.hooks, b.timeout)
RetryWait(b, wait) == Retry(b.classifier, b.stop, wait, b.clock, b.hooks, b.timeout)
RetryClock(b, clock) == Retry(b.classifier, b.stop, b.wait, clock, b.hooks, b.timeout)
RetryWithClassifier(b, classifier) ==
  Retry(classifier, b.stop, b.wait, b.clock, b.hooks, b.timeout)
RetryHooks(b, hooks) == Retry(b.classifier, b.stop, b.wait, b.clock, hooks, b.timeout)

AsyncRetry(classifier, stop, wait, clock, hooks, timeout) ==
  [form |-> "async", classifier |-> classifier, stop |-> stop, wait |-> wait,
   clock |-> clock, hooks |-> hooks, timeout |-> timeout]

AsyncStop(b, stop) == AsyncRetry(b.classifier, stop, b.wait, b.clock, b.hooks, b.timeout)
AsyncWait(b, wait) == AsyncRetry(b.classifier, b.stop, wait, b.clock, b.hooks, b.timeout)

\* Mutant: the rebuilt builder starts without a timeout.
AsyncClockForgets(b, clock) ==
  AsyncRetry(b.classifier, b.stop, b.wait, clock, b.hooks, None)

AsyncClock(b, clock) == AsyncRetry(b.classifier, b.stop, b.wait, clock, b.hooks, b.timeout)
AsyncWithClassifier(b, classifier) ==
  AsyncRetry(classifier, b.stop, b.wait, b.clock, b.hooks, b.timeout)
AsyncHooks(b, hooks) ==
  AsyncRetry(b.classifier, b.stop, b.wait, b.clock, hooks, b.timeout)

IsSync(b) == b.form = "sync"

SetStop(b, stop) == IF IsSync(b) THEN RetryStop(b, stop) ELSE AsyncStop(b, stop)
SetWait(b, wait) == IF IsSync(b) THEN RetryWait(b, wait) ELSE AsyncWait(b, wait)
SetClock(b, clock) == IF IsSync(b) THEN RetryClock(b, clock) ELSE AsyncClock(b, clock)

\* when, until and decide all replace the one classifier slot.
SetClassifier(b, classifier) ==
  IF IsSync(b) THEN RetryWithClassifier(b, classifier)
               ELSE AsyncWithClassifier(b, classifier)

AddHook(b, p, hook) ==
  LET hooks == Chained(b.hooks, p, hook)
  IN  IF IsSync(b) THEN RetryHooks(b, hooks) ELSE AsyncHooks(b, hooks)

\* The timeout is assigned in place, in builders and policies alike.
SetTimeout(b, dur) == [b EXCEPT !.timeout = dur]

FromParts(form, classifier, stop, wait, timeout) ==
  LET hooks == ExecutionHooks(NoHook, NoHook, NoHook)
  IN  IF form = "sync" THEN Retry(classifier, stop, wait, SystemClock, hooks, timeout)
                       ELSE AsyncRetry(classifier, stop, wait, SystemClock, hooks, timeout)

\* retry, retry_async and their extension traits.
FromOp(form) == FromParts(form, "default", "default", "default", None)

\* RetryPolicy::retry and retry_async.
FromPolicy(form) == FromParts(form, Borrowed, Borrowed, Borrowed, policy.timeout)

\* What a builder's slot stands for when the execution consults it.
Resolve(h, slot) ==
  IF builder[h][slot] = Borrowed THEN policy[slot] ELSE builder[h][slot]

\* Builders and futures keep the policy borrowed until they are gone.
PolicyBorrowed == \E h \in Handles : /\ stage[h] # "free"
                                     /\ \E slot \in {"stop", "wait", "classifier"} :
                                          builder[h][slot] = Borrowed

-----------------------------------------------------------------------------
(* Actions. *)

Init ==
  /\ policy = NewPolicy
  /\ asked = NewPolicy
  /\ builder = [h \in Handles |-> None]
  /\ stage = [h \in Handles |-> "free"]
  /\ point = [h \in Handles |-> None]
  /\ todo = [h \in Handles |-> <<>>]
  /\ fired = [h \in Handles |-> <<>>]
  /\ seed = [h \in Handles |-> None]
  /\ given = [h \in Handles |-> NothingGiven]

(* The policy's own setters consume it, so it must not be lent. *)
ConfigurePolicy(p, wanted) ==
  /\ ~PolicyBorrowed
  /\ policy' = p
  /\ asked' = wanted
  /\ UNCHANGED <<builder, stage, point, todo, fired, seed, given>>

PolicyStop ==
  \E v \in Stops : ConfigurePolicy(PolicySetStop(policy, v), [asked EXCEPT !.stop = v])
PolicyWait ==
  \E v \in Waits : ConfigurePolicy(PolicySetWait(policy, v), [asked EXCEPT !.wait = v])
PolicyClassifier ==
  \E v \in Classifiers :
    ConfigurePolicy(PolicySetClassifier(policy, v), [asked EXCEPT !.classifier = v])
PolicyTimeout ==
  \E v \in Timeouts : ConfigurePolicy(SetTimeout(policy, v), [asked EXCEPT !.timeout = v])
PolicyBoxed == ConfigurePolicy(Boxed(policy), asked)

Forms == {"sync", "async"}

Begin(h) ==
  /\ stage[h] = "free"
  /\ stage' = [stage EXCEPT ![h] = "open"]
  /\ UNCHANGED <<policyVars, point, todo, fired, given>>

BeginFree(h) ==
  /\ Begin(h)
  /\ \E form \in Forms : builder' = [builder EXCEPT ![h] = FromOp(form)]
  /\ seed' = [seed EXCEPT ![h] = NewPolicy]

BeginLent(h) ==
  /\ Begin(h)
  /\ \E form \in Forms : builder' = [builder EXCEPT ![h] = FromPolicy(form)]
  /\ seed' = [seed EXCEPT ![h] = asked]

\* The bound on configuration calls.
CallsLeft ==
  Cardinality(UNION {{<<h, s>>} \X DOMAIN given[h][s] : h \in Handles, s \in Slots \cup Points})
    < MaxCalls

Configure(h, slot, value, b) ==
  /\ stage[h] = "open"
  /\ builder' = [builder EXCEPT ![h] = b]
  /\ given' = [given EXCEPT ![h][slot] = Append(@, value)]
  /\ UNCHANGED <<policyVars, stage, point, todo, fired, seed>>

Stop(h) == \E v \in Stops : Configure(h, "stop", v, SetStop(builder[h], v))
Wait(h) == \E v \in Waits : Configure(h, "wait", v, SetWait(builder[h], v))
Clock(h) == \E v \in Clocks : Configure(h, "clock", v, SetClock(builder[h], v))
Classify(h) ==
  \E v \in Classifiers : Configure(h, "classifier", v, SetClassifier(builder[h], v))
Timeout(h) == \E v \in Timeouts : Configure(h, "timeout", v, SetTimeout(builder[h], v))

\* before_attempt, after_attempt and on_exit; a hook is named by its place.
RegisterHook(h) ==
  \E p \in Points : LET id == <<p, Len(given[h][p]) + 1>>
                     IN  Configure(h, p, id, AddHook(builder[h], p, Hook(id)))

(* Only call() is left after with_stats(). *)
WithStats(h) ==
  /\ stage[h] = "open"
  /\ stage' = [stage EXCEPT ![h] = "stats"]
  /\ UNCHANGED <<policyVars, builder, point, todo, fired, seed, given>>

\* Mutant: the capability of the clock is not required.
CallAnyClock(h) ==
  /\ stage[h] \in {"open", "stats"}
  /\ stage' = [stage EXCEPT ![h] = "idle"]
  /\ UNCHANGED <<policyVars, builder, point, todo, fired, seed, given>>

Call(h) ==
  /\ stage[h] \in {"open", "stats"}
  /\ builder[h].clock \in IF builder[h].form = "sync" THEN SyncClocks ELSE AsyncClocks
  /\ stage' = [stage EXCEPT ![h] = "idle"]
  /\ UNCHANGED <<policyVars, builder, point, todo, fired, seed, given>>

(* The engine reaches its next hook point: attempts, then one exit. *)
ReachPoint(h) ==
  /\ stage[h] = "idle"
  /\ \E p \in CASE point[h] = None -> {"before_attempt"}
                 [] point[h] = "before_attempt" -> {"after_attempt"}
                 [] point[h] = "after_attempt" -> {"before_attempt", "on_exit"}
                 [] point[h] = "on_exit" -> {} :
       /\ point' = [point EXCEPT ![h] = p]
       /\ todo' = [todo EXCEPT ![h] = <<builder[h].hooks[p]>>]
  /\ stage' = [stage EXCEPT ![h] = "firing"]
  /\ fired' = [fired EXCEPT ![h] = <<>>]
  /\ UNCHANGED <<policyVars, builder, seed, given>>

\* What is left to call when `hook` has been called: the two parts of a chain.
Unfolded(hook) ==
  CASE hook.kind = "chain" -> <<hook.first, hook.second>>
    [] OTHER -> <<>>

Dispatch(h) ==
  /\ stage[h] = "firing"
  /\ LET hook == Head(todo[h]) IN
       /\ todo' = [todo EXCEPT ![h] = Unfolded(hook) \o Tail(@)]
       /\ fired' = IF hook.kind = "hook" THEN [fired EXCEPT ![h] = Append(@, hook.id)]
                                         ELSE fired
  /\ stage' = [stage EXCEPT ![h] = IF todo'[h] = <<>> THEN "idle" ELSE @]
  /\ UNCHANGED <<policyVars, builder, point, seed, given>>

\* The builder, or the future made of it, is gone, and its handle can be used again.
Gone(h) ==
  /\ builder' = [builder EXCEPT ![h] = None]
  /\ stage' = [stage EXCEPT ![h] = "free"]
  /\ point' = [point EXCEPT ![h] = None]
  /\ todo' = [todo EXCEPT ![h] = <<>>]
  /\ fired' = [fired EXCEPT ![h] = <<>>]
  /\ seed' = [seed EXCEPT ![h] = None]
  /\ given' = [given EXCEPT ![h] = NothingGiven]
  /\ UNCHANGED policyVars

(* A hook panics: the rest of its chain is not called. *)
HookPanics(h) ==
  /\ stage[h] = "firing" /\ Head(todo[h]).kind = "hook"
  /\ Gone(h)

(* The execution has called its exit hooks and returns. *)
Finish(h) ==
  /\ stage[h] = "idle" /\ point[h] = "on_exit"
  /\ Gone(h)

(* A builder that is not called, or a future between two polls, is dropped. *)
Drop(h) ==
  /\ \/ stage[h] \in {"open", "stats"}
     \/ stage[h] = "idle" /\ builder[h].form = "async"
  /\ Gone(h)

Next ==
  \/ PolicyStop \/ PolicyWait \/ PolicyClassifier \/ PolicyTimeout \/ PolicyBoxed
  \/ \E h \in Handles :
       \/ BeginFree(h) \/ BeginLent(h)
       \/ CallsLeft /\ (\/ Stop(h) \/ Wait(h) \/ Clock(h) \/ Classify(h) \/ Timeout(h)
                        \/ RegisterHook(h))
       \/ WithStats(h) \/ Call(h) \/ ReachPoint(h) \/ Dispatch(h) \/ HookPanics(h)
       \/ Finish(h) \/ Drop(h)

Spec == Init /\ [][Next]_vars
-----------------------------------------------------------------------------
(* Properties. *)

TypeOK ==
  /\ policy.stop \in Stops /\ policy.wait \in Waits
  /\ policy.classifier \in Classifiers /\ policy.timeout \in Timeouts \cup {None}
  /\ \A h \in Handles :
       /\ stage[h] \in {"free", "open", "stats", "idle", "firing"}
       /\ point[h] \in Points \cup {None}
       /\ stage[h] = "firing" => todo[h] # <<>>
       /\ stage[h] \in {"idle", "firing"} =>
            builder[h].clock \in IF builder[h].form = "sync" THEN SyncClocks ELSE AsyncClocks

\* Whatever the order of the calls, and whatever is done to the policy and to other
\* builders meanwhile, each slot of a live builder stands for the last value it was
\* given, or else for what was asked of the policy that lent it when the builder was
\* made: no setter of a policy or of either builder drops or alters another slot, and
\* a lent strategy does not change under an execution.
LastCallWins ==
  \A h \in Handles : stage[h] # "free" =>
    \A slot \in Slots :
      Resolve(h, slot) =
        IF given[h][slot] # <<>> THEN Last(given[h][slot])
        ELSE IF slot = "clock" THEN SystemClock ELSE seed[h][slot]

\* At every hook point the hooks registered for it are called in registration order,
\* each once, and all of them unless one panics.
HooksInOrder ==
  \A h \in Handles : point[h] # None =>
    /\ IsPrefix(fired[h], given[h][point[h]])
    /\ stage[h] = "idle" => fired[h] = given[h][point[h]]
=============================================================================
