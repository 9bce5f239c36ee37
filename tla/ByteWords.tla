----------------------------- MODULE ByteWords -----------------------------
(***************************************************************************)
(* Registers and memory words as lanes of bytes, lane 0 the least          *)
(* significant; a byte is the set of its one bits.  Shifts by whole bytes  *)
(* move lanes, a mask of whole bytes is a set of lanes.                    *)
(***************************************************************************)
EXTENDS Integers

CONSTANTS
    ByteBits,       \* the bits of a byte, eight of them
    SignBit,        \* the most significant of them
    UnitBit         \* the least significant

ASSUME ByteBitsAssumption == {SignBit, UnitBit} \subseteq ByteBits

Byte == SUBSET ByteBits
Lanes(n) == 0 .. n - 1
Word(n) == [Lanes(n) -> Byte]

Below(k) == {l \in Lanes(4) : l < k}                \* (1 << 8 * k) - 1
Keep(w, lanes) == [l \in Lanes(4) |-> IF l \in lanes THEN w[l] ELSE {}]     \* w & lanes
Join(v, w) == [l \in Lanes(4) |-> v[l] \cup w[l]]                           \* v | w
LanesUp(w, k) == [l \in Lanes(4) |-> IF l >= k THEN w[l - k] ELSE {}]       \* w << 8 * k
LanesDown(w, k) == [l \in Lanes(4) |-> IF l + k < 4 THEN w[l + k] ELSE {}]  \* w >> 8 * k

(* bswap<EL> of a value of n bytes, on a little-endian host.               *)
Bswap(el, w, n) == IF el THEN w ELSE [l \in Lanes(n) |-> w[n - 1 - l]]

(* Conversion of a value of n bytes to 32 bits.                            *)
Negative(w, n) == SignBit \in w[n - 1]
Extended(w, n, fill) == [l \in Lanes(4) |-> IF l < n THEN w[l] ELSE fill]
SignExtended(w, n) == Extended(w, n, IF Negative(w, n) THEN ByteBits ELSE {})
ZeroExtended(w, n) == Extended(w, n, {})

One == [l \in Lanes(4) |-> IF l = 0 THEN {UnitBit} ELSE {}]
=============================================================================
