--------------------------- MODULE RetryContract ---------------------------
(***************************************************************************)
(* What a retry execution promises its caller, whichever engine drives it. *)
(*                                                                         *)
(* Attempts follow one another; each is classified once, against the       *)
(* elapsed time at its completion; a retry advances the cursor by one      *)
(* clamped delay; exactly one exit is reported before the statistics are   *)
(* returned; nothing happens after the end.  How the operation is run, how *)
(* the wait is performed and how the clock moves are left open: the        *)
(* elapsed readings only never decrease.                                   *)
(***************************************************************************)
EXTENDS Durations

CONSTANTS Policies, StopOf, WaitOf, TimeoutOf

VARIABLES
  policy,   \* the configuration of the execution
  phase,    \* ready, attempting, deciding, exiting, or how it ended
  cursor,   \* attempt, previous_delay, total_wait and the latest elapsed reading
  reason,   \* the stop reason decided on
  result,   \* the statistics returned
  exits     \* exits reported

contractVars == <<policy, phase, cursor, reason, result, exits>>

Cursors == [attempt : Attempts, previous_delay : OptDuration,
            total_wait : Duration, elapsed : Duration]

StopReasons == {"Returned", "Aborted", "Exhausted"}

Results == [attempts : Attempts, total_elapsed : Duration,
            total_wait : Duration, stop_reason : StopReasons]

Init ==
  /\ policy \in Policies
  /\ phase = "ready"
  /\ cursor = [attempt |-> 1, previous_delay |-> None, total_wait |-> 0, elapsed |-> 0]
  /\ reason = None
  /\ result = None
  /\ exits = 0

(* The cursor at a later clock reading; Readings is where it may move to. *)
Readings == {e \in Duration : e >= cursor.elapsed}

(* The elapsed time is read for the attempt that is due. *)
Read ==
  /\ phase = "ready"
  /\ \E e \in Readings : cursor' = [cursor EXCEPT !.elapsed = e]
  /\ UNCHANGED <<policy, phase, reason, result, exits>>

Begin ==
  /\ phase = "ready"
  /\ phase' = "attempting"
  /\ UNCHANGED <<policy, cursor, reason, result, exits>>

Complete ==
  /\ phase = "attempting"
  /\ phase' = "deciding"
  /\ \E e \in Readings : cursor' = [cursor EXCEPT !.elapsed = e]
  /\ UNCHANGED <<policy, reason, result, exits>>

Budget == TimeoutOf[policy]

StateNow == RetryState(cursor.attempt, cursor.elapsed, cursor.previous_delay)

MustStop == \/ StateNow \in StopOf[policy]
            \/ Budget # None /\ cursor.elapsed >= Budget

Finish ==
  /\ phase = "deciding"
  /\ phase' = "exiting"
  /\ \/ reason' \in {"Returned", "Aborted"}
     \/ reason' = "Exhausted" /\ MustStop
  /\ UNCHANGED <<policy, cursor, result, exits>>

(* The delays a retry may apply: the strategy's, within what is left. *)
Delays ==
  {d \in Duration : \E w \in WaitOf[policy][StateNow] :
     d = IF Budget = None THEN w ELSE Least(w, Budget - cursor.elapsed)}

Retry ==
  /\ phase = "deciding"
  /\ ~MustStop
  /\ phase' = "ready"
  /\ \E d \in Delays, e \in Readings :
       cursor' = [attempt |-> NextAttempt(cursor.attempt),
                  previous_delay |-> d,
                  total_wait |-> SatAdd(cursor.total_wait, d),
                  elapsed |-> e]
  /\ UNCHANGED <<policy, reason, result, exits>>

Exit ==
  /\ phase = "exiting"
  /\ phase' = "done"
  /\ exits' = exits + 1
  /\ result' = [attempts |-> cursor.attempt, total_elapsed |-> cursor.elapsed,
                total_wait |-> cursor.total_wait, stop_reason |-> reason]
  /\ UNCHANGED <<policy, cursor, reason>>

(* User code panics; a panicking on_exit hook has been called. *)
Panic ==
  /\ phase \in {"ready", "attempting", "deciding", "exiting"}
  /\ phase' = "panicked"
  /\ exits' = IF phase = "exiting" THEN exits + 1 ELSE exits
  /\ cursor' = None
  /\ UNCHANGED <<policy, reason, result>>

(* The execution is cancelled between two callbacks: nothing is reported. *)
Drop ==
  /\ phase \in {"ready", "attempting"}
  /\ phase' = "dropped"
  /\ cursor' = None
  /\ UNCHANGED <<policy, reason, result, exits>>

Next == Read \/ Begin \/ Complete \/ Finish \/ Retry \/ Exit \/ Panic \/ Drop

Spec == Init /\ [][Next]_contractVars
=============================================================================
