------------------------------ MODULE MCJitter ------------------------------
(* The jitter model on the generator's own arithmetic, at a small word. *)
EXTENDS Jitter, SplitMix64

\* Every kind; additive jitter beyond the range of a word.
MCKinds == {[name |-> "Additive", max |-> 9]}
             \cup {[name |-> n, max |-> 0] : n \in {"Full", "Equal", "Decorrelated"}}

\* The builds with a bare counter, without atomics, and with std.
MCCounter == [nonce |-> "counter", atomic64 |-> TRUE]
MCFixed == [nonce |-> "fixed", atomic64 |-> FALSE]
MCStd == [nonce |-> "std", atomic64 |-> TRUE]
MCAllBuilds == {MCCounter, MCFixed, MCStd}
MCStdBuild == {MCStd}
MCOneKind == {[name |-> "Full", max |-> 0]}
MCWallTimes == -1..6

ASSUME WordSizeAssumption == WordMax + 1 = WordSize
=============================================================================
