--------------------------- MODULE ClockContract ---------------------------
(***************************************************************************)
(* What every clock promises the engines (the traits Clock, SyncClock and  *)
(* AsyncClock of clock.rs): now() never decreases, and once a wait         *)
(* completes, now() has advanced by at least the waited duration, to       *)
(* within one unit of the clock and up to its longest wait.  A wait that   *)
(* is requested and dropped leaves the time alone.                         *)
(*                                                                         *)
(* The traits allow no slack: unit = 1 and longest = DurMax.  `Coherent`   *)
(* is what they promise, whatever the slack.                               *)
(***************************************************************************)
EXTENDS Durations

CONSTANTS Waiters   \* the waits that may be outstanding at once

VARIABLES
  now,    \* what now() would return
  pend,   \* outstanding waits: when each was requested, and for how long
  done,   \* the wait that completed last, and now() when it did
  unit, longest   \* the slack of the clock, fixed while it is used

contractVars == <<now, pend, done, unit, longest>>

\* A reading that shows a wait for dur requested at the reading `at`.
Shows(reading, at, dur) == reading + unit > SatAdd(at, Least(dur, longest))

Init ==
  /\ now \in Duration
  /\ pend = [w \in Waiters |-> None]
  /\ done = None
  /\ unit \in Duration \ {0} /\ longest \in Duration

\* Time passes outside of any wait.
Pass ==
  /\ now' \in {n \in Duration : n >= now}
  /\ UNCHANGED <<pend, done, unit, longest>>

\* wait_async, or a blocking wait that begins.
Request(w, dur) ==
  /\ pend[w] = None
  /\ pend' = [pend EXCEPT ![w] = [at |-> now, dur |-> dur]]
  /\ UNCHANGED <<now, done, unit, longest>>

\* The wait completes.
Complete(w) ==
  /\ pend[w] # None
  /\ now' \in {n \in Duration : n >= now /\ Shows(n, pend[w].at, pend[w].dur)}
  /\ done' = [at |-> pend[w].at, dur |-> pend[w].dur, now |-> now']
  /\ pend' = [pend EXCEPT ![w] = None]
  /\ UNCHANGED <<unit, longest>>

\* A blocking wait, seen from its caller.
Block(dur) ==
  /\ now' \in {n \in Duration : n >= now /\ Shows(n, now, dur)}
  /\ done' = [at |-> now, dur |-> dur, now |-> now']
  /\ UNCHANGED <<pend, unit, longest>>

\* The engine drops a wait it no longer needs.
Drop(w) ==
  /\ pend[w] # None
  /\ pend' = [pend EXCEPT ![w] = None]
  /\ UNCHANGED <<now, done, unit, longest>>

Next ==
  \/ Pass
  \/ \E dur \in Duration : Block(dur) \/ \E w \in Waiters : Request(w, dur)
  \/ \E w \in Waiters : Complete(w) \/ Drop(w)

Spec == Init /\ [][Next]_contractVars

\* The coherence the engines' elapsed budgets rest on: a completed wait shows in
\* full in now().
Coherent == done # None => done.now >= SatAdd(done.at, done.dur)
=============================================================================
