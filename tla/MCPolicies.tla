----------------------------- MODULE MCPolicies -----------------------------
(* Policies built from the crate's strategies, for the models TLC checks. *)
EXTENDS Strategies

MCPolicySet == {"count", "budget", "either", "both", "spin", "zero", "forever"}

\* Counted attempts; a deadline alone; a deadline or a count; a count and an
\* elapsed time, under a deadline, with jitter; a deadline with zero waits, which
\* only the operation's own time can reach; a zero budget; no end at all.
MCStopOf == [p \in MCPolicySet |->
  CASE p = "count"   -> StopAfterAttempts(3)
    [] p = "either"  -> StopAny(StopAfterAttempts(3), StopAfterElapsed(4))
    [] p = "both"    -> StopAll(StopAfterAttempts(2), StopAfterElapsed(2))
    [] OTHER         -> StopNever]

MCWaitOf == [p \in MCPolicySet |->
  CASE p = "count"   -> WaitExponential(1, 2)
    [] p = "budget"  -> WaitChain(WaitFixed(1), WaitLinear(1, 1), 2)
    [] p = "either"  -> WaitCappedJitter(WaitFixed(1), 2, 2)
    [] p = "both"    -> WaitCapped(JitterDecorrelated(WaitFixed(1)), 4)
    [] p = "spin"    -> JitterFull(WaitFixed(1))
    [] p = "zero"    -> WaitCombine(WaitFixed(1), JitterEqual(WaitFixed(2)))
    [] OTHER         -> WaitFixed(1)]

MCTimeoutOf == [p \in MCPolicySet |->
  CASE p = "budget"  -> 5
    [] p = "both"    -> 6
    [] p = "spin"    -> 3
    [] p = "zero"    -> 0
    [] OTHER         -> None]
=============================================================================
