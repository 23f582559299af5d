----------------------------- MODULE RiscvBits -----------------------------
(***************************************************************************)
(* Fixed-width integer values of the RV64 simulator.                       *)
(*                                                                         *)
(* The code works on u8/u16/u32/u64.  To keep TLC's integers small a       *)
(* "byte" here has ByteBits bits instead of 8; every value keeps its byte  *)
(* count (a u64 is still 8 bytes), so little-endian packing, truncation,   *)
(* wrap-around and sign extension keep the shape they have in the code:    *)
(* the sign bit of an n-byte value is the top bit of its top byte.         *)
(***************************************************************************)
EXTENDS Integers

CONSTANT ByteBits          \* bits per modelled byte (8 in the code)

ASSUME ByteBits \in 1..8

BYTE == 2^ByteBits                  \* number of distinct byte values
Byte == 0..(BYTE - 1)

\* The byte widths of MemAccessSize: Byte, HalfWord, Word, DoubleWord.
Sizes == {1, 2, 4, 8}
DOUBLE_WORD_SIZE == 8
WORD_SIZE == 4

\* Number of distinct values of an n-byte integer.
Span(n) == BYTE^n

U64 == 0..(Span(8) - 1)

\* Bits of a u64 (64 in the code).  A shift amount `b & 0x3f` keeps
\* log2(64) bits; here it keeps log2(XLEN): b % XLEN.
XLEN == 8 * ByteBits

\* Two's-complement wrap-around of u64 arithmetic (wrapping_add etc.).
Wrap(x) == x % Span(8)

\* `x as uN` for an n-byte N: keep the low n bytes.
Truncate(x, n) == x % Span(n)

\* `(x as iN) as i64 as u64`: sign-extend the low n bytes to a u64.
SignExtend(x, n) ==
    LET v == Truncate(x, n)
    IN  IF v >= Span(n) \div 2 THEN v + Span(8) - Span(n) ELSE v

\* data.to_le_bytes() of an n-byte value: byte i is the i-th digit.
ToLeBytes(x, n) == [i \in 0..(n - 1) |-> (x \div Span(i)) % BYTE]

\* uN::from_le_bytes(b) for a function b from 0..n-1 to bytes.
RECURSIVE LeValue(_, _)
LeValue(b, n) == IF n = 0 THEN 0 ELSE b[n - 1] * Span(n - 1) + LeValue(b, n - 1)

\* addr & align_mask == 0 for the power-of-two sizes of MemAccessSize.
Aligned(addr, n) == addr % n = 0

=============================================================================
