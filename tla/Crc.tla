-------------------------------- MODULE Crc --------------------------------
(***************************************************************************)
(* update_crc and crc32 (helper.cc:81-104), by which main --hash sums up   *)
(* the memory: a byte a step.  This is the portable loop; amd64 builds use *)
(* the instruction _mm_crc32_u8 in its place.  Words and bytes are the     *)
(* sets of their one bits (bit 0 the lowest).                              *)
(***************************************************************************)
EXTENDS MachineWords, Sequences

CONSTANTS
    Width,      \* bits of the sum, 32
    ByteBits,   \* bits of a byte, 8
    POLY,       \* 0x82f63b78 as the set of its one bits
    MaxBuf      \* bound: bytes in the buffer

ASSUME CrcAssumption ==
    /\ Width \in Nat /\ ByteBits \in 1 .. Width /\ MaxBuf \in Nat
    /\ POLY \subseteq 0 .. Width - 1 /\ Width - 1 \in POLY

VARIABLES
    buf,
    read,       \* n, the bytes read
    crc         \* c

crcVars == <<buf, read, crc>>

Bytes == SUBSET (0 .. ByteBits - 1)
AllOnes == 0 .. Width - 1

StepBit(x) == IF 0 \in x THEN Xor(Down(x, 1), POLY) ELSE Down(x, 1)

(* Variant for the mutants: a bit of the byte is left.                     *)
StepByteShort(x, byte) ==
    LET after[k \in 0 .. ByteBits - 1] == IF k = 0 THEN Xor(x, byte) ELSE StepBit(after[k - 1])
    IN  after[ByteBits - 1]

StepByte(x, byte) ==
    LET after[k \in 0 .. ByteBits] == IF k = 0 THEN Xor(x, byte) ELSE StepBit(after[k - 1])
    IN  after[ByteBits]

CrcInit ==
    /\ buf \in UNION {[1 .. len -> Bytes] : len \in 0 .. MaxBuf}
    /\ read = 0 /\ crc = AllOnes

CrcNext ==
    /\ read < Len(buf)
    /\ read' = read + 1
    /\ crc' = StepByte(crc, buf[read + 1])
    /\ UNCHANGED buf

CrcSpec == CrcInit /\ [][CrcNext]_crcVars

(* crc32 of a buffer, once the loop is through.                            *)
crc32(x) == Xor(x, AllOnes)

-----------------------------------------------------------------------------
(* The reference: polynomials over two elements as sets of exponents.  The *)
(* lowest bit of the first byte is the highest power of the message, and   *)
(* bit b of the sum the power Width - 1 - b.                               *)
Generator == {Width} \cup {Width - 1 - b : b \in POLY}

OnesOf(len) ==
    LET ones == {p \in (0 .. len - 1) \X (0 .. ByteBits - 1) : p[2] \in buf[p[1] + 1]}
    IN  {len * ByteBits - 1 - (p[1] * ByteBits + p[2]) : p \in ones}

Times(S, k) == {e + k : e \in S}

Remainder(S, top) ==
    LET left[k \in 0 .. top + 1] ==
          IF k = 0 THEN S
          ELSE LET d == top + 1 - k
                   r == left[k - 1]
               IN IF d >= Width /\ d \in r THEN Xor(r, Times(Generator, d - Width)) ELSE r
    IN left[top + 1]

(* After read bytes the sum is the remainder of their polynomial times     *)
(* x^Width, with the initial ones in front, by the generator (update_crc). *)
SumIsRemainder ==
    LET whole == Xor(Times(OnesOf(read), Width), Times(AllOnes, read * ByteBits))
    IN {Width - 1 - b : b \in crc} = Remainder(whole, Width + read * ByteBits)

(* Two memories that differ in one byte have different sums (crc32): here  *)
(* byte stands in the place of the one that is read next.                  *)
SumWith(byte) ==
    LET after[k \in read .. Len(buf)] ==
          IF k = read THEN crc
          ELSE StepByte(after[k - 1], IF k = read + 1 THEN byte ELSE buf[k])
    IN  crc32(after[Len(buf)])

OneByteShows ==
    read < Len(buf) => \A byte \in Bytes \ {buf[read + 1]} : SumWith(byte) # SumWith(buf[read + 1])

(* The checksum of --hash is the one it is named for, and shows a changed  *)
(* byte wherever it lies (crc32).                                          *)
HashCorrect == SumIsRemainder /\ OneByteShows
=============================================================================
