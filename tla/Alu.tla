-------------------------------- MODULE Alu --------------------------------
(***************************************************************************)
(* The ALU closures of instruction_executor.rs (Instructions.AluOp and     *)
(* Addiw) checked against the arithmetic laws of spec sections 4.3 and 8.  *)
(* The behaviour is a loop that picks one pair of u64 operands per step,  *)
(* so every pair of Operands is a reachable state.                         *)
(***************************************************************************)
EXTENDS Instructions

CONSTANT Operands           \* u64 operand values, edge cases included

ASSUME Operands \subseteq U64

VARIABLES a, b

vars == <<a, b>>

Init == a \in Operands /\ b \in Operands

\* Take the next pair of operands.
Pick == a' \in Operands /\ b' \in Operands

Next == Pick

Spec == Init /\ [][Next]_vars

-----------------------------------------------------------------------------
(* Properties.                                                             *)

\* Spec 8 and the divide table of 4.3: for a divisor b # 0,
\* DIVU(a,b)*b + REMU(a,b) = a, and DIV/REM satisfy the same identity on
\* the signed values under two's-complement wrap, with the quotient
\* rounded toward zero (|rem| < |b|, rem has a's sign or is 0); a zero
\* divisor gives u64::MAX for DIV/DIVU and the dividend for REM/REMU
\* (the div, divu, rem, remu closures, instruction_executor.rs:673-676).
DivRemSpec ==
    LET q  == AluOp("div", a, b)
        r  == AluOp("rem", a, b)
        qu == AluOp("divu", a, b)
        ru == AluOp("remu", a, b)
        abs(x) == IF x < 0 THEN -x ELSE x
    IN  IF b = 0
        THEN q = Span(8) - 1 /\ qu = Span(8) - 1 /\ r = a /\ ru = a
        ELSE /\ qu * b + ru = a /\ ru < b
             /\ Wrap(q * b + r) = a
             /\ abs(Signed(r)) < abs(Signed(b))
             /\ Signed(r) = 0 \/ (Signed(r) < 0) = (Signed(a) < 0)

\* Spec 4.3: MUL is the low 64 bits and MULH, MULHU, MULHSU the high 64
\* bits of the signed*signed, unsigned*unsigned and signed*unsigned
\* products, so high * 2^64 + low is the exact product (the mul, mulh,
\* mulhu, mulhsu closures, instruction_executor.rs:667-670).
MulHighLow ==
    LET lo == AluOp("mul", a, b)
    IN  /\ AluOp("mulhu", a, b) * Span(8) + lo = a * b
        /\ Signed(AluOp("mulh", a, b)) * Span(8) + lo = Signed(a) * Signed(b)
        /\ Signed(AluOp("mulhsu", a, b)) * Span(8) + lo = Signed(a) * b

\* Spec 4.3's divide table: REMUW by a zero divisor returns the
\* zero-extended low 32 bits of the dividend.  A W instruction divides by
\* the low 32 bits of rs2, so the divisor is zero when they are; the remuw
\* closure (instruction_executor.rs:677) tests the whole u64 instead.
RemuwZeroDivisor ==
    Truncate(b, 4) = 0 =>
        /\ ~AluPanics("remuw", a, b)
        /\ AluOp("remuw", a, b) = Truncate(a, 4)

\* The high half of x replicates bit 31 (spec 8, "high 32 bits equal bit
\* 31 of low 32 bits replicated").
SignExtended32(x) ==
    x \div Span(4) = IF x % Span(4) >= Span(4) \div 2 THEN Span(4) - 1 ELSE 0

\* The RV64 word instructions produce sign-extended 32-bit results: ADDIW
\* (spec 8), MULW (spec 4.3, "low 32 of a32*b32, sign-extended") and
\* REMUW with a non-zero divisor, each equal to its 32-bit result
\* (process_addiw, the mulw and remuw closures).
WordOpsSignExtend ==
    /\ SignExtended32(Addiw(a, b)) /\ Addiw(a, b) % Span(4) = (a + b) % Span(4)
    /\ SignExtended32(AluOp("mulw", a, b))
    /\ AluOp("mulw", a, b) % Span(4) = (a * b) % Span(4)
    /\ Truncate(b, 4) # 0 =>
          /\ SignExtended32(AluOp("remuw", a, b))
          /\ AluOp("remuw", a, b) % Span(4) = Truncate(a, 4) % Truncate(b, 4)

=============================================================================
