---------------------------- MODULE Instructions ----------------------------
(***************************************************************************)
(* The value semantics of the instructions the models execute, from the    *)
(* closures given to the make_*_fn! macros of rrs-lib's                    *)
(* instruction_executor.rs.  An instruction is a record of its decoded     *)
(* fields; `kind` names the execute_* helper of the executor that runs it. *)
(***************************************************************************)
EXTENDS RiscvBits, Bitwise

CONSTANTS
    Syscall,    \* syscall records an ECALL can produce (model values)
    HALT,       \* the halting syscall, a member of Syscall
    NoInstr     \* no instruction fetched yet

ASSUME HALT \in Syscall

Kinds == {"reg_imm", "reg_imm_shamt", "reg_reg", "load", "store", "lr", "sc",
          "amo", "branch", "jal", "jalr", "addiw", "lui", "auipc", "rdtime",
          "fence", "ecall", "illegal"}

Instr(kind, op, rd, rs1, rs2, imm, size, signed, sys) ==
    [kind |-> kind, op |-> op, rd |-> rd, rs1 |-> rs1, rs2 |-> rs2,
     imm |-> imm, size |-> size, signed |-> signed, sys |-> sys]

\* `x as i64` read back as an integer.
Signed(x) == IF x >= Span(8) \div 2 THEN x - Span(8) ELSE x

\* `b & 0x3f` of the shift closures.
ShiftAmount(b) == b % XLEN

\* The closures of make_alu_op_fns! and make_shift_op_fns! (reg-reg and
\* reg-imm forms).  `as u64` of a negative integer is Wrap.
BaseAluOp(op, a, b) ==
    CASE op = "add"    -> Wrap(a + b)
      [] op = "sub"    -> Wrap(a + Span(8) - b)
      [] op = "slt"    -> IF Signed(a) < Signed(b) THEN 1 ELSE 0
      [] op = "sltu"   -> IF a < b THEN 1 ELSE 0
      [] op = "or"     -> a | b
      [] op = "and"    -> a & b
      [] op = "xor"    -> a ^^ b
      [] op = "sll"    -> Wrap(a * 2^ShiftAmount(b))
      [] op = "srl"    -> a \div 2^ShiftAmount(b)
      [] op = "sra"    -> Wrap(Signed(a) \div 2^ShiftAmount(b))

\* The closures of make_amow_op_reg_fn! / make_amod_op_reg_fn!.
AmoOp(op, a, b) == IF op = "swap" THEN b ELSE BaseAluOp(op, a, b)

\* Mutant: the signed quotient rounded down instead of toward zero.
FloorDiv(x, y) == x \div y

\* `(a as i64).wrapping_div(b as i64)` for b # 0 on the integers: the
\* quotient rounds toward zero.
TruncDiv(x, y) ==
    LET q == (IF x < 0 THEN -x ELSE x) \div (IF y < 0 THEN -y ELSE y)
    IN  IF (x < 0) = (y < 0) THEN q ELSE -q

\* Mutant: the high product rounded toward zero instead of down.
MulHighTrunc(x, y) == Wrap(TruncDiv(x * y, Span(8)))

\* `(x.wrapping_mul(y) >> 64) as u64` of the i128/u128 products of mulh,
\* mulhu and mulhsu: >> on i128 is arithmetic, so it rounds down.
MulHigh(x, y) == Wrap((x * y) \div Span(8))

\* The M-extension closures of make_alu_op_reg_fn!.
MulDivOp(op, a, b) ==
    CASE op = "mul"    -> Wrap(a * b)
      [] op = "mulh"   -> MulHigh(Signed(a), Signed(b))
      [] op = "mulhu"  -> MulHigh(a, b)
      [] op = "mulhsu" -> MulHigh(Signed(a), b)
      [] op = "mulw"   -> SignExtend(Truncate(a, 4) * Truncate(b, 4), 4)
      [] op = "div"    -> IF b = 0 THEN Span(8) - 1 ELSE Wrap(TruncDiv(Signed(a), Signed(b)))
      [] op = "divu"   -> IF b = 0 THEN Span(8) - 1 ELSE a \div b
      [] op = "rem"    -> IF b = 0 THEN a
                          ELSE Wrap(Signed(a) - Signed(b) * TruncDiv(Signed(a), Signed(b)))
      [] op = "remu"   -> IF b = 0 THEN a ELSE a % b
      [] op = "remuw"  -> IF b = 0 THEN Truncate(a, 4)
                          ELSE SignExtend(Truncate(a, 4) % Truncate(b, 4), 4)

\* The remuw closure tests `b == 0` on the whole u64, then computes
\* `% (b & 0xffffffff) as u32`, which panics when that low word is zero.
AluPanics(op, a, b) == op = "remuw" /\ b # 0 /\ Truncate(b, 4) = 0

MulDivOps == {"mul", "mulh", "mulhu", "mulhsu", "mulw", "div", "divu", "rem", "remu", "remuw"}

\* The closure of an ALU instruction.
AluOp(op, a, b) == IF op \in MulDivOps THEN MulDivOp(op, a, b) ELSE BaseAluOp(op, a, b)

\* Mutant: process_addiw without sign_extend_u32.
AddiwZeroExt(a, imm) == Wrap(a + imm) % Span(4)

\* process_addiw: the low 32 bits of a.wrapping_add(imm), sign-extended.
Addiw(a, imm) == SignExtend(Wrap(a + imm), 4)

\* The conditions of make_branch_op_fn!.
BranchTaken(op, a, b) ==
    CASE op = "eq"  -> a = b
      [] op = "ne"  -> a # b
      [] op = "lt"  -> Signed(a) < Signed(b)
      [] op = "ge"  -> Signed(a) >= Signed(b)
      [] op = "ltu" -> a < b
      [] op = "geu" -> a >= b

\* execute_load: sign-extend when the mnemonic is signed.
LoadExtend(v, n, signed) == IF signed THEN SignExtend(v, n) ELSE v

\* execute_amow sign-extends both operands from 32 bits; execute_amod does not.
AmoExtend(v, n) == IF n = WORD_SIZE THEN SignExtend(v, WORD_SIZE) ELSE v

\* JALR: target &= 0xfffffffffffffffe.
ClearLowBit(x) == x - (x % 2)

=============================================================================
