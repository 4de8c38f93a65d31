----------------------------- MODULE SplitMix64 -----------------------------
(***************************************************************************)
(* The jitter generator's arithmetic (wait/jitter.rs), at a word of        *)
(* WordBits bits in place of 64.  A product or a sum modulo 2^WordBits     *)
(* depends on the low bits of its constants alone, so the constants below  *)
(* are the low 16 bits of the source's; the shift distances are scaled.    *)
(***************************************************************************)
EXTENDS Naturals, Bitwise

CONSTANT WordBits

ASSUME WordBitsAssumption == WordBits \in 3..12

WordSize == 2 ^ WordBits

BitXor(a, b) == a ^^ b

Shifted(z, distance) == shiftR(z, (distance * WordBits) \div 64)

\* GAMMA, 0x9e37_79b9_7f4a_7c15.
Gamma == 31765 % WordSize

\* SplitMix64::advance: wrapping_add(GAMMA).
Advanced(state) == (state + Gamma) % WordSize

\* The mixing of SplitMix64::next_u64, after the state was advanced.
Mixed(z) ==
  LET a == (BitXor(z, Shifted(z, 30)) * 58809) % WordSize
      b == (BitXor(a, Shifted(a, 27)) * 4587) % WordSize
  IN  BitXor(b, Shifted(b, 31))
=============================================================================
