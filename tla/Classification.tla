--------------------------- MODULE Classification ---------------------------
(***************************************************************************)
(* What a retry execution does with outcomes: classifiers and predicates   *)
(* (src/decision.rs, src/predicate/mod.rs), and the data that `step` hands *)
(* to after_attempt, to on_exit and to the caller.                         *)
(*                                                                         *)
(* Step has the control of the same code, with time and panics; here only  *)
(* the verdicts and payloads matter, and the stop strategy is a limit.     *)
(***************************************************************************)
EXTENDS Integers, Sequences

CONSTANTS
  Values,       \* what Ok, Some, Break and Continue carry
  Errors,       \* what Err carries
  Classifiers,  \* the classifiers a caller may install
  MaxAttempts,  \* the largest limit a stop strategy sets
  None

ASSUME LimitAssumption == MaxAttempts \in Nat \ {0}

-----------------------------------------------------------------------------
(* Outcomes and verdicts. *)

Outcome(arm, value) == [arm |-> arm, value |-> value]

Results == {Outcome("Ok", v) : v \in Values} \cup {Outcome("Err", e) : e \in Errors}
Options == {Outcome("Some", v) : v \in Values} \cup {Outcome("None", None)}
ControlFlows == {Outcome(arm, v) : arm \in {"Break", "Continue"}, v \in Values}

Return(value) == [verdict |-> "Return", payload |-> value]
Retry(outcome) == [verdict |-> "Retry", payload |-> outcome]
Abort(last) == [verdict |-> "Abort", payload |-> last]

Payloads == Values \cup Errors
Outcomes == Results \cup Options \cup ControlFlows

-----------------------------------------------------------------------------
(* Classifiers: functions from the outcomes of an operation to verdicts.   *)
(* A predicate is the set of outcomes for which should_retry is true.      *)

Accepting(arms, O) ==
  [o \in O |-> IF o.arm \in arms THEN Return(o.value) ELSE Retry(o)]

DefaultResult == Accepting({"Ok"}, Results)
DefaultOption == Accepting({"Some"}, Options)
DefaultControlFlow == Accepting({"Break"}, ControlFlows)

\* What .when and .until do with an outcome they do not retry.
Accept(o) == IF o.arm = "Ok" THEN Return(o.value) ELSE Abort(o.value)

When(predicate) ==
  [o \in Results |-> IF o \in predicate THEN Retry(o) ELSE Accept(o)]

Until(predicate) ==
  [o \in Results |-> IF o \in predicate THEN Accept(o) ELSE Retry(o)]

AnyError == {o \in Results : o.arm = "Err"}

\* Mutant: the matcher is not asked.
ErrorMatchingAny(matcher) == AnyError

ErrorMatching(matcher) == {o \in Results : o.arm = "Err" /\ o.value \in matcher}

\* Mutant: an error counts as a match.
OkMatchingErrors(matcher) ==
  {o \in Results : o.arm = "Ok" => o.value \in matcher}

OkMatching(matcher) == {o \in Results : o.arm = "Ok" /\ o.value \in matcher}

\* The classifiers of .when and .until, and with them the default on a Result.
Predicated == {When(p) : p \in SUBSET Results}

\* .decide with a closure, which returns a Verdict, or a Decision (a Verdict that
\* never aborts): any value may be returned, and any outcome handed back.
Closures(O) ==
  [O -> {Return(v) : v \in Payloads} \cup {Abort(a) : a \in Payloads}
          \cup {Retry(o) : o \in O}]

ASSUME ClassifierAssumption ==
  Classifiers \subseteq Closures(Results) \cup Closures(Options) \cup Closures(ControlFlows)

-----------------------------------------------------------------------------
(* The loop. *)

VARIABLES
  classifier,  \* the classifier installed
  limit,       \* attempts after which the stop strategy fires
  pc,          \* "attempt", "decide" or "done"
  seen,        \* the outcomes after_attempt was shown, in order
  exit,        \* what on_exit was shown: a variant of Exit
  result       \* what the caller receives: Ok(r), Aborted or Exhausted

vars == <<classifier, limit, pc, seen, exit, result>>

Init ==
  /\ classifier \in Classifiers
  /\ limit \in 1..MaxAttempts
  /\ pc = "attempt"
  /\ seen = <<>>
  /\ exit = None
  /\ result = None

(* The operation completes and after_attempt is shown the raw outcome. *)
Attempt ==
  /\ pc = "attempt"
  /\ pc' = "decide"
  /\ \E o \in DOMAIN classifier : seen' = Append(seen, o)
  /\ UNCHANGED <<classifier, limit, exit, result>>

\* decide: the verdict on the outcome just seen.
Verdict == classifier[seen[Len(seen)]]

\* on_exit is shown a variant of Exit with the number of the attempt.
Exit(variant, payload) ==
  [variant |-> variant, attempt |-> Len(seen), payload |-> payload]

\* Step::Done: the loop is left.
Done ==
  /\ pc' = "done"
  /\ UNCHANGED <<classifier, limit, seen>>

Returned ==
  /\ pc = "decide" /\ Verdict.verdict = "Return"
  /\ exit' = Exit("Returned", Verdict.payload)
  /\ result' = Outcome("Ok", Verdict.payload)
  /\ Done

\* Mutant: an abort is reported to on_exit as exhaustion.
AbortedAsExhausted ==
  /\ pc = "decide" /\ Verdict.verdict = "Abort"
  /\ exit' = Exit("Exhausted", Verdict.payload)
  /\ result' = Outcome("Aborted", Verdict.payload)
  /\ Done

Aborted ==
  /\ pc = "decide" /\ Verdict.verdict = "Abort"
  /\ exit' = Exit("Aborted", Verdict.payload)
  /\ result' = Outcome("Aborted", Verdict.payload)
  /\ Done

\* Mutant: the first outcome is given back, not the last.
ExhaustedForgets ==
  /\ pc = "decide" /\ Verdict.verdict = "Retry" /\ Len(seen) >= limit
  /\ exit' = Exit("Exhausted", Verdict.payload)
  /\ result' = Outcome("Exhausted", seen[1])
  /\ Done

Exhausted ==
  /\ pc = "decide" /\ Verdict.verdict = "Retry" /\ Len(seen) >= limit
  /\ exit' = Exit("Exhausted", Verdict.payload)
  /\ result' = Outcome("Exhausted", Verdict.payload)
  /\ Done

\* Mutant: an abort is not told apart from a retry.
RetriedAborts ==
  /\ pc = "decide" /\ Verdict.verdict # "Return" /\ Len(seen) < limit
  /\ pc' = "attempt"
  /\ UNCHANGED <<classifier, limit, seen, exit, result>>

\* Mutant: one attempt too many.
RetriedPastLimit ==
  /\ pc = "decide" /\ Verdict.verdict = "Retry" /\ Len(seen) <= limit
  /\ pc' = "attempt"
  /\ UNCHANGED <<classifier, limit, seen, exit, result>>

Retried ==
  /\ pc = "decide" /\ Verdict.verdict = "Retry" /\ Len(seen) < limit
  /\ pc' = "attempt"
  /\ UNCHANGED <<classifier, limit, seen, exit, result>>

Next == Attempt \/ Returned \/ Aborted \/ Exhausted \/ Retried

Spec == Init /\ [][Next]_vars
-----------------------------------------------------------------------------
(* What the caller can recover of an error: RetryError's accessors. *)

\* RetryError::stop_reason, derived from the variant.
StopReason == IF result.arm = "Aborted" THEN "Aborted" ELSE "Exhausted"

\* RetryError::last and into_last: the whole outcome, if it was kept.
Last == IF result.arm = "Exhausted" THEN result.value ELSE None

\* RetryError::last_error, into_last_error and Error::source.
LastError ==
  CASE result.arm = "Aborted" -> result.value
    [] result.arm = "Exhausted" /\ result.value.arm = "Err" -> result.value.value
    [] OTHER -> None

-----------------------------------------------------------------------------
(* Properties. *)

ExitTypes == [variant : {"Returned", "Aborted", "Exhausted"},
              attempt : 1..MaxAttempts, payload : Payloads \cup Outcomes]

ResultTypes == [arm : {"Ok", "Aborted", "Exhausted"}, value : Payloads \cup Outcomes]

TypeOK ==
  /\ classifier \in Classifiers
  /\ limit \in 1..MaxAttempts
  /\ pc \in {"attempt", "decide", "done"}
  /\ seen \in Seq(DOMAIN classifier)
  /\ exit \in ExitTypes \cup {None}
  /\ result \in ResultTypes \cup {None}

\* The loop goes on only from outcomes the classifier wanted retried, and only
\* while the stop strategy lets it: it ends with the first other outcome.
SeenRetried ==
  /\ \A i \in 1..(Len(seen) - 1) : classifier[seen[i]].verdict = "Retry"
  /\ pc = "attempt" /\ seen # <<>> => classifier[seen[Len(seen)]].verdict = "Retry"
  /\ Len(seen) <= limit
  /\ pc = "attempt" => Len(seen) < limit

\* Under .when, .until and the default, whatever ends the loop, the final attempt's
\* own value or error reaches the caller: an Ok as Ok or inside Exhausted, an Err
\* through last_error; on_exit was shown the same with the number of attempts.
LastOutcomeRecoverable ==
  pc = "done" /\ classifier \in Predicated =>
    LET last == seen[Len(seen)] IN
    /\ last.arm = "Ok" => result = last \/ result = Outcome("Exhausted", last)
    /\ last.arm = "Err" => LastError = last.value
    /\ exit.payload = result.value /\ exit.attempt = Len(seen)

\* Whatever the classifier, on_exit is shown what the error the caller receives
\* gives back: the same reason, and the outcome or the abort's payload through the
\* accessor for that reason; a predicate leaves the outcome as it was.
AccessorsAgree ==
  pc = "done" /\ result.arm # "Ok" =>
    /\ exit.variant = StopReason
    /\ exit.payload = IF StopReason = "Exhausted" THEN Last ELSE LastError
    /\ classifier \in Predicated /\ Last # None => Last = seen[Len(seen)]

\* .until(ok(m)) polls: no error surfaces as an abort, only a value that matches is
\* returned, and it is the first one seen.
UntilOkPolls ==
  \A m \in SUBSET Values : classifier = Until(OkMatching(m)) =>
    /\ pc = "done" => \/ result.arm = "Ok" /\ result.value \in m
                      \/ result.arm = "Exhausted"
    /\ \A i \in 1..(Len(seen) - 1) : seen[i] \notin {Outcome("Ok", v) : v \in m}

\* .when(error(m)) aborts exactly on the other errors: an abort carries an error
\* outside m, exhaustion ends on one inside it.
WhenErrorAborts ==
  \A m \in SUBSET Errors : classifier = When(ErrorMatching(m)) /\ pc = "done" =>
    /\ result.arm = "Aborted" => result.value \in Errors \ m
    /\ result.arm = "Exhausted" => LastError \in m
=============================================================================
