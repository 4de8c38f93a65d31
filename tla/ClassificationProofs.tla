------------------------ MODULE ClassificationProofs ------------------------
(***************************************************************************)
(* For every set of values, errors and classifiers and every limit: how    *)
(* the classifiers relate, and what the loop does with their verdicts.     *)
(***************************************************************************)
EXTENDS Classification, TLAPS

\* .until(p) is .when(not p): every outcome, Ok or Err, gets the same verdict.
THEOREM UntilIsWhenNot ==
  ASSUME NEW p \in SUBSET Results
  PROVE  Until(p) = When(Results \ p)
BY DEF Until, When

\* .when(any_error()) is the default classifier of a Result: it never aborts.
THEOREM AnyErrorIsDefault == When(AnyError) = DefaultResult
<1>1. \A o \in Results : o \notin AnyError <=> o.arm = "Ok"
  BY DEF AnyError, Results, Outcome
<1>2. QED
  BY <1>1 DEF When, DefaultResult, Accepting, Accept

\* How the loop ended: on_exit and the caller were given the payload of the verdict on
\* the last outcome, as the variant and the arm that stand for the verdict.
Ended ==
  pc = "done" =>
    /\ exit \in ExitTypes /\ result \in ResultTypes
    /\ exit.payload = Verdict.payload /\ exit.attempt = Len(seen)
    /\ result.value = Verdict.payload
    /\ \/ Verdict.verdict = "Return" /\ exit.variant = "Returned" /\ result.arm = "Ok"
       \/ Verdict.verdict = "Abort" /\ exit.variant = "Aborted" /\ result.arm = "Aborted"
       \/ Verdict.verdict = "Retry" /\ exit.variant = "Exhausted"
            /\ result.arm = "Exhausted"

\* The inductive invariant: every property of the loop's end follows from it.
Inv ==
  /\ TypeOK
  /\ pc # "attempt" => Len(seen) >= 1
  /\ SeenRetried
  /\ Ended

\* A classifier's verdict is one of three, on a payload or an outcome.
LEMMA VerdictTypes ==
  ASSUME NEW c \in Classifiers, NEW o \in DOMAIN c
  PROVE  /\ c[o].verdict \in {"Return", "Abort", "Retry"}
         /\ c[o].payload \in Payloads \cup Outcomes
<1>1. PICK O \in {Results, Options, ControlFlows} : c \in Closures(O)
  BY ClassifierAssumption
<1>2. c[o] \in {Return(v) : v \in Payloads} \cup {Abort(x) : x \in Payloads}
                \cup {Retry(r) : r \in O}
  BY <1>1 DEF Closures
<1>3. O \subseteq Outcomes
  BY <1>1 DEF Outcomes
<1>4. CASE \E v \in Payloads : c[o] = Return(v) \/ c[o] = Abort(v)
  BY <1>4 DEF Return, Abort
<1>5. CASE \E r \in O : c[o] = Retry(r)
  BY <1>3, <1>5 DEF Retry
<1> QED BY <1>2, <1>4, <1>5

\* The verdicts of .when (and with it of .until and the default) keep the outcome.
LEMMA PredicatedVerdicts ==
  ASSUME NEW c \in Predicated, NEW o \in DOMAIN c
  PROVE  /\ o.arm \in {"Ok", "Err"}
         /\ o = Outcome(o.arm, o.value)
         /\ c[o].verdict = "Return" => o.arm = "Ok" /\ c[o].payload = o.value
         /\ c[o].verdict = "Abort" => o.arm = "Err" /\ c[o].payload = o.value
         /\ c[o].verdict = "Retry" => c[o].payload = o
<1>1. PICK p \in SUBSET Results : c = When(p)
  BY DEF Predicated
<1>2. o \in Results
  BY <1>1 DEF When
<1>3. /\ o.arm \in {"Ok", "Err"}
      /\ o = Outcome(o.arm, o.value)
  BY <1>2 DEF Results, Outcome
<1>4. c[o] = IF o \in p THEN Retry(o) ELSE Accept(o)
  BY <1>1, <1>2 DEF When
<1>5. QED
  BY <1>3, <1>4 DEF Accept, Return, Abort, Retry

\* The loop starts in the invariant.
LEMMA InitInv == Init => Inv
BY LimitAssumption DEF Init, Inv, TypeOK, SeenRetried, Ended

\* Every step of the loop preserves the invariant.
LEMMA NextInv == Inv /\ [Next]_vars => Inv'
<1> SUFFICES ASSUME Inv, [Next]_vars PROVE Inv'
  OBVIOUS
<1>t. /\ TypeOK /\ Len(seen) \in Nat
      /\ limit \in 1..MaxAttempts /\ seen \in Seq(DOMAIN classifier)
  BY DEF Inv, TypeOK
<1>1. CASE Attempt
  <2>1. PICK o \in DOMAIN classifier : seen' = Append(seen, o)
    BY <1>1 DEF Attempt
  <2>2. /\ seen' \in Seq(DOMAIN classifier)
        /\ Len(seen') = Len(seen) + 1
        /\ \A i \in 1..Len(seen) : seen'[i] = seen[i]
    BY <1>t, <2>1
  <2>3. \A i \in 1..Len(seen) : classifier[seen[i]].verdict = "Retry"
    <3> SUFFICES ASSUME NEW i \in 1..Len(seen)
                 PROVE  classifier[seen[i]].verdict = "Retry"
      OBVIOUS
    <3>1. CASE i \in 1..(Len(seen) - 1)
      BY <3>1 DEF Inv, SeenRetried
    <3>2. CASE i = Len(seen)
      <4>1. seen # <<>>
        BY <3>2, <1>t
      <4>2. QED
        BY <1>1, <3>2, <4>1 DEF Inv, SeenRetried, Attempt
    <3>3. QED
      BY <1>t, <3>1, <3>2
  <2>4. SeenRetried'
    BY <1>1, <1>t, <2>2, <2>3 DEF Inv, SeenRetried, Attempt
  <2>5. TypeOK'
    BY <1>1, <1>t, <2>2 DEF TypeOK, Attempt
  <2>6. QED
    BY <1>1, <1>t, <2>2, <2>4, <2>5 DEF Inv, Attempt, Ended
<1>2. ASSUME NEW variant, pc = "decide", Done,
             exit' = Exit(variant, Verdict.payload),
             result' = Outcome(IF variant = "Returned" THEN "Ok" ELSE variant,
                               Verdict.payload),
             \/ variant = "Returned" /\ Verdict.verdict = "Return"
             \/ variant = "Aborted" /\ Verdict.verdict = "Abort"
             \/ variant = "Exhausted" /\ Verdict.verdict = "Retry"
      PROVE  Inv'
  <2>1. Len(seen) \in 1..MaxAttempts /\ seen[Len(seen)] \in DOMAIN classifier
    BY <1>2, <1>t, LimitAssumption DEF Inv, SeenRetried
  <2>2. /\ pc' = "done" /\ seen' = seen /\ classifier' = classifier /\ limit' = limit
        /\ exit' = [variant |-> variant, attempt |-> Len(seen), payload |-> Verdict.payload]
        /\ result' = [arm |-> IF variant = "Returned" THEN "Ok" ELSE variant,
                      value |-> Verdict.payload]
    BY <1>2 DEF Done, Exit, Outcome
  <2>3. Verdict' = Verdict
    BY <2>2 DEF Verdict
  <2>4. Verdict.payload \in Payloads \cup Outcomes
    BY <1>t, <2>1, VerdictTypes DEF Verdict, TypeOK
  <2>5. TypeOK'
    BY <1>2, <1>t, <2>1, <2>2, <2>4 DEF TypeOK, ExitTypes, ResultTypes
  <2>6. SeenRetried'
    BY <1>2, <2>2 DEF Inv, SeenRetried
  <2>7. Ended'
    BY <1>2, <2>1, <2>2, <2>3, <2>4 DEF Ended, ExitTypes, ResultTypes
  <2>8. QED
    BY <2>1, <2>2, <2>5, <2>6, <2>7 DEF Inv
<1>3. CASE Returned
  BY <1>2, <1>3 DEF Returned
<1>4. CASE Aborted
  BY <1>2, <1>4 DEF Aborted
<1>5. CASE Exhausted
  BY <1>2, <1>5 DEF Exhausted
<1>6. CASE Retried
  <2>1. /\ pc' = "attempt" /\ seen' = seen /\ UNCHANGED <<classifier, limit, exit, result>>
        /\ classifier[seen[Len(seen)]].verdict = "Retry" /\ Len(seen) < limit
    BY <1>6 DEF Retried, Verdict
  <2>2. SeenRetried'
    BY <2>1 DEF Inv, SeenRetried
  <2>3. QED
    BY <1>t, <2>1, <2>2 DEF Inv, TypeOK, Ended
<1>7. CASE UNCHANGED vars
  BY <1>7 DEF Inv, TypeOK, vars, SeenRetried, Ended, Verdict
<1>8. QED
  BY <1>1, <1>3, <1>4, <1>5, <1>6, <1>7 DEF Next

\* The invariant holds throughout the loop.
THEOREM ClassificationInvariant == Spec => []Inv
BY InitInv, NextInv, PTL DEF Spec

\* What on_exit and the caller are given has the types of Exit and RetryError, with an
\* attempt number within the limit.
THEOREM ClassificationTypeCorrect == Spec => []TypeOK
<1>1. Inv => TypeOK
  BY DEF Inv
<1>2. QED
  BY <1>1, ClassificationInvariant, PTL

\* The loop goes on only from outcomes the classifier wanted retried, within the
\* limit of the stop strategy, and ends with the first other outcome.
THEOREM LoopEndsAtFirstVerdict == Spec => []SeenRetried
<1>1. Inv => SeenRetried
  BY DEF Inv
<1>2. QED
  BY <1>1, ClassificationInvariant, PTL

\* Under .when, .until and the default, the final attempt's value or error reaches
\* the caller whatever ended the loop.
THEOREM FinalOutcomeReachesCaller == Spec => []LastOutcomeRecoverable
<1>1. ASSUME Inv, pc = "done", classifier \in Predicated
      PROVE  LET last == seen[Len(seen)] IN
             /\ last.arm = "Ok" => result = last \/ result = Outcome("Exhausted", last)
             /\ last.arm = "Err" => LastError = last.value
             /\ exit.payload = result.value /\ exit.attempt = Len(seen)
  <2> DEFINE last == seen[Len(seen)]
  <2>1. last \in DOMAIN classifier
    BY <1>1 DEF Inv, TypeOK
  <2>2. /\ last.arm \in {"Ok", "Err"}
        /\ last = Outcome(last.arm, last.value)
        /\ Verdict.verdict = "Return" => last.arm = "Ok" /\ Verdict.payload = last.value
        /\ Verdict.verdict = "Abort" => last.arm = "Err" /\ Verdict.payload = last.value
        /\ Verdict.verdict = "Retry" => Verdict.payload = last
    BY <1>1, <2>1, PredicatedVerdicts DEF Verdict
  <2>3. result = Outcome(result.arm, result.value)
    BY <1>1 DEF Inv, Ended, ResultTypes, Outcome
  <2>4. last.arm = "Ok" => result = last \/ result = Outcome("Exhausted", last)
    BY <1>1, <2>2, <2>3 DEF Inv, Ended
  <2>5. last.arm = "Err" => LastError = last.value
    BY <1>1, <2>2 DEF Inv, Ended, LastError
  <2>6. QED
    BY <1>1, <2>4, <2>5 DEF Inv, Ended
<1>2. Inv => LastOutcomeRecoverable
  BY <1>1 DEF LastOutcomeRecoverable
<1>3. QED
  BY <1>2, ClassificationInvariant, PTL

\* Whatever the classifier, on_exit is shown what the accessors of the error the caller
\* receives give back, and the same reason.
THEOREM AccessorsGiveBackExit == Spec => []AccessorsAgree
<1>1. ASSUME Inv, pc = "done", result.arm # "Ok"
      PROVE  /\ exit.variant = StopReason
             /\ exit.payload = IF StopReason = "Exhausted" THEN Last ELSE LastError
             /\ classifier \in Predicated /\ Last # None => Last = seen[Len(seen)]
  <2>1. seen[Len(seen)] \in DOMAIN classifier
    BY <1>1 DEF Inv, TypeOK
  <2>2. CASE result.arm = "Aborted"
    BY <1>1, <2>2 DEF Inv, Ended, StopReason, Last, LastError
  <2>3. CASE result.arm = "Exhausted"
    <3>1. /\ Verdict.verdict = "Retry" /\ exit.variant = "Exhausted"
          /\ exit.payload = Verdict.payload /\ result.value = Verdict.payload
      BY <1>1, <2>3 DEF Inv, Ended
    <3>2. classifier \in Predicated => Verdict.payload = seen[Len(seen)]
      BY <2>1, <3>1, PredicatedVerdicts DEF Verdict
    <3> QED BY <2>3, <3>1, <3>2 DEF StopReason, Last
  <2> QED BY <1>1, <2>2, <2>3 DEF Inv, Ended
<1>2. Inv => AccessorsAgree
  BY <1>1 DEF AccessorsAgree
<1>3. QED
  BY <1>2, ClassificationInvariant, PTL

\* What .until(ok(m)) decides: a value in m is returned, all else retried.
LEMMA UntilOkVerdicts ==
  ASSUME NEW m \in SUBSET Values, NEW o \in Results
  PROVE  LET v == Until(OkMatching(m))[o]
         IN  \/ v.verdict = "Return" /\ v.payload \in m
             \/ v.verdict = "Retry" /\ o \notin {Outcome("Ok", w) : w \in m}
<1> DEFINE v == Until(OkMatching(m))[o]
<1>1. CASE o \in OkMatching(m)
  <2>1. o.arm = "Ok" /\ o.value \in m
    BY <1>1 DEF OkMatching
  <2>2. v = Return(o.value)
    BY <1>1, <2>1 DEF Until, Accept
  <2> QED BY <2>1, <2>2 DEF Return
<1>2. CASE o \notin OkMatching(m)
  <2>1. v = Retry(o)
    BY <1>2 DEF Until
  <2>2. o \notin {Outcome("Ok", w) : w \in m}
    BY <1>2 DEF OkMatching, Outcome
  <2> QED BY <2>1, <2>2 DEF Retry
<1> QED BY <1>1, <1>2

\* .until(ok(m)) polls, for every set of values m: it never aborts, it returns only a
\* value of m, and that is the first one seen.
THEOREM UntilOkOnlyPolls == Spec => []UntilOkPolls
<1>1. ASSUME Inv, NEW m \in SUBSET Values, classifier = Until(OkMatching(m))
      PROVE  /\ pc = "done" => \/ result.arm = "Ok" /\ result.value \in m
                              \/ result.arm = "Exhausted"
             /\ \A i \in 1..(Len(seen) - 1) : seen[i] \notin {Outcome("Ok", v) : v \in m}
  <2>1. DOMAIN classifier = Results
    BY <1>1 DEF Until
  <2>2. seen \in Seq(Results) /\ Len(seen) \in Nat
    BY <1>1, <2>1 DEF Inv, TypeOK
  <2>3. ASSUME pc = "done"
        PROVE  \/ result.arm = "Ok" /\ result.value \in m
               \/ result.arm = "Exhausted"
    <3>1. seen[Len(seen)] \in Results
      BY <1>1, <2>2, <2>3 DEF Inv
    <3>2. \/ Verdict.verdict = "Return" /\ Verdict.payload \in m
          \/ Verdict.verdict = "Retry"
      BY <1>1, <3>1, UntilOkVerdicts DEF Verdict
    <3> QED BY <1>1, <2>3, <3>2 DEF Inv, Ended
  <2>4. ASSUME NEW i \in 1..(Len(seen) - 1)
        PROVE  seen[i] \notin {Outcome("Ok", v) : v \in m}
    <3>1. seen[i] \in Results
      BY <2>2
    <3>2. classifier[seen[i]].verdict = "Retry"
      BY <1>1 DEF Inv, SeenRetried
    <3> QED BY <1>1, <3>1, <3>2, UntilOkVerdicts
  <2> QED BY <2>3, <2>4
<1>2. Inv => UntilOkPolls
  BY <1>1 DEF UntilOkPolls
<1>3. QED
  BY <1>2, ClassificationInvariant, PTL

\* What .when(error(m)) decides: an error of m is retried, any other aborts.
LEMMA WhenErrorVerdicts ==
  ASSUME NEW m \in SUBSET Errors, NEW o \in Results
  PROVE  LET v == When(ErrorMatching(m))[o]
         IN  \/ v.verdict = "Return"
             \/ v.verdict = "Abort" /\ v.payload \in Errors \ m
             \/ v.verdict = "Retry" /\ v.payload.arm = "Err" /\ v.payload.value \in m
<1> DEFINE v == When(ErrorMatching(m))[o]
<1>1. CASE o \in ErrorMatching(m)
  <2>1. o.arm = "Err" /\ o.value \in m /\ v = Retry(o)
    BY <1>1 DEF When, ErrorMatching
  <2> QED BY <2>1 DEF Retry
<1>2. CASE o \notin ErrorMatching(m)
  <2>1. v = Accept(o)
    BY <1>2 DEF When
  <2>2. CASE o.arm = "Ok"
    BY <2>1, <2>2 DEF Accept, Return
  <2>3. CASE o.arm # "Ok"
    <3>1. o.arm = "Err" /\ o.value \in Errors
      BY <2>3 DEF Results, Outcome
    <3>2. o.value \notin m
      BY <1>2, <3>1 DEF ErrorMatching
    <3> QED BY <2>1, <2>3, <3>1, <3>2 DEF Accept, Abort
  <2> QED BY <2>2, <2>3
<1> QED BY <1>1, <1>2

\* .when(error(m)) aborts on exactly the errors outside m, for every set m: an abort
\* carries one, and exhaustion ends on an error of m.
THEOREM WhenErrorAbortsOthers == Spec => []WhenErrorAborts
<1>1. ASSUME Inv, NEW m \in SUBSET Errors, classifier = When(ErrorMatching(m)), pc = "done"
      PROVE  /\ result.arm = "Aborted" => result.value \in Errors \ m
             /\ result.arm = "Exhausted" => LastError \in m
  <2>1. DOMAIN classifier = Results
    BY <1>1 DEF When
  <2>2. seen[Len(seen)] \in Results
    BY <1>1, <2>1 DEF Inv, TypeOK
  <2>3. \/ Verdict.verdict = "Return"
        \/ Verdict.verdict = "Abort" /\ Verdict.payload \in Errors \ m
        \/ Verdict.verdict = "Retry" /\ Verdict.payload.arm = "Err"
             /\ Verdict.payload.value \in m
    BY <1>1, <2>2, WhenErrorVerdicts DEF Verdict
  <2> QED BY <1>1, <2>3 DEF Inv, Ended, LastError
<1>2. Inv => WhenErrorAborts
  BY <1>1 DEF WhenErrorAborts
<1>3. QED
  BY <1>2, ClassificationInvariant, PTL
=============================================================================
