---------------------------- MODULE MachineWords ----------------------------
(***************************************************************************)
(* Machine words as the sets of their one bits, as the predictors' hashes  *)
(* use them; an address has half the bits of a history word.               *)
(***************************************************************************)
EXTENDS Integers, FiniteSetsExt

CONSTANTS WordBits      \* bits of a history word, 64

Mask(bits) == 0 .. bits - 1                                 \* (1 << bits) - 1
Bits(n) == {b \in Mask(WordBits \div 2) : (n \div 2^b) % 2 = 1}
Number(S) == MapThenSumSet(LAMBDA b : 2^b, S)
Xor(S, T) == (S \ T) \cup (T \ S)
Up(S, k) == {b + k : b \in S}                               \* x << k
Down(S, k) == {b - k : b \in {c \in S : c >= k}}            \* x >> k
=============================================================================
