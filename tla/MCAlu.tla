------------------------------- MODULE MCAlu -------------------------------
(***************************************************************************)
(* Model-checking instance of Alu.  The products of the M extension need   *)
(* twice the width of a u64, and TLC's integers have 32 bits, so this      *)
(* instance uses one-bit bytes: a u64 has 8 bits and a u32 has 4.  The    *)
(* operands are the edges of both widths: 0..3, the u32 sign boundary and *)
(* its neighbours, the i64 extremes, -1, -2, -3 and one ordinary value.   *)
(***************************************************************************)
EXTENDS Alu

MCOperands ==
    {0, 1, 2, 3,
     Span(4) \div 2 - 1, Span(4) \div 2, Span(4) - 1, Span(4), Span(4) + 3,
     Span(8) \div 2 - 1, Span(8) \div 2, Span(8) \div 2 + 1,
     Span(8) - 3, Span(8) - 2, Span(8) - 1, 100}
=============================================================================
