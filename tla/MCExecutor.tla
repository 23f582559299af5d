---------------------------- MODULE MCExecutor ----------------------------
(***************************************************************************)
(* Model-checking instance of Executor.  Two-bit bytes (a u64 is 8 of     *)
(* them, so values range over 0..65535).  One region of 56 bytes: text at *)
(* 0..15, data at 16..31 and the shadow of x0, x1, x2 at SYSTEM.start = 32. *)
(* The stack pointer starts at 24, inside the data.  The instructions are  *)
(* a function prologue and the loads, stores and atomics that use the      *)
(* stack pointer as their base, plus control flow, ECALLs and a bad word.  *)
(***************************************************************************)
EXTENDS Executor

CONSTANTS sysA, sysHalt     \* syscall records: an ordinary one and sys_halt

MCRegionAddr == 0..55

\* -8 as the u64 immediate of the decoded instruction.
MINUS8 == Span(8) - 8

I(kind, op, rd, rs1, rs2, imm, size, signed) == Instr(kind, op, rd, rs1, rs2, imm, size, signed, NoSyscall)

MCInstrs == {
    I("reg_imm", "add", 2, 2, 0, MINUS8, 8, FALSE),   \* addi sp, sp, -8
    I("reg_imm", "add", 1, 2, 0, 4, 8, FALSE),        \* addi ra, sp, 4
    I("reg_reg", "sub", 2, 2, 2, 0, 8, FALSE),        \* sub  sp, sp, sp
    I("reg_reg", "add", 1, 1, 2, 0, 8, FALSE),        \* add  ra, ra, sp
    I("store",   "",    0, 2, 1, 0, 8, FALSE),        \* sd   ra, 0(sp)
    I("store",   "",    0, 2, 1, 2, 4, FALSE),        \* sw   ra, 2(sp)   (misaligned)
    I("load",    "",    1, 2, 0, 0, 4, TRUE),         \* lw   ra, 0(sp)
    I("load",    "",    1, 2, 0, 4, 2, FALSE),        \* lhu  ra, 4(sp)
    I("lr",      "",    1, 2, 0, 0, 8, TRUE),         \* lr.d ra, (sp)
    I("sc",      "",    1, 2, 1, 0, 4, FALSE),        \* sc.w ra, ra, (sp)
    I("amo",     "add", 1, 2, 1, 0, 4, FALSE),        \* amoadd.w ra, ra, (sp)
    I("branch",  "eq",  0, 1, 0, 8, 8, FALSE),        \* beq  ra, zero, +8
    I("jalr",    "",    1, 2, 0, 0, 8, FALSE),        \* jalr ra, 0(sp)
    I("illegal", "",    0, 0, 0, 0, 8, FALSE),
    Instr("ecall", "", 0, 0, 0, 0, 8, FALSE, sysA),
    Instr("ecall", "", 0, 0, 0, 0, 8, FALSE, sysHalt)}

\* The first instructions of a function: they read x2 before anything has
\* been committed to its slot.
MCPrologue == {
    I("reg_imm", "add", 2, 2, 0, MINUS8, 8, FALSE),   \* addi sp, sp, -8
    I("reg_imm", "add", 1, 2, 0, 4, 8, FALSE),        \* addi ra, sp, 4
    I("store",   "",    0, 2, 1, 0, 8, FALSE)}        \* sd   ra, 0(sp)

\* The other instruction classes, writing ra and sp: LUI of a negative
\* upper immediate, AUIPC, shifts of ra by shamt, ADDIW (one sign-extending, one
\* moving sp down), XOR sp,sp,sp (a zero the x2 reset rewrites), SLT,
\* signed division and remainder, REMUW, MULW, RDTIME, FENCE, a store
\* through sp and the halt.  The 128-bit products of MUL/MULH* exceed
\* TLC's integers at this width and are checked in MCAlu instead.
MCAluInstrs == {
    I("lui",     "",      1, 0, 0, Span(8) - 16, 8, FALSE),  \* lui   ra, -1
    I("auipc",   "",      1, 0, 0, 16, 8, FALSE),           \* auipc ra, 16
    I("reg_imm_shamt", "sra", 1, 1, 0, 3, 8, FALSE),        \* srai  ra, ra, 3
    I("reg_imm_shamt", "sll", 1, 1, 0, 1, 8, FALSE),        \* slli  ra, ra, 1
    I("addiw",   "",      2, 2, 0, MINUS8, 8, FALSE),       \* addiw sp, sp, -8
    I("addiw",   "",      1, 1, 0, 0, 8, FALSE),            \* sext.w ra, ra
    I("reg_reg", "xor",   2, 2, 2, 0, 8, FALSE),            \* xor   sp, sp, sp
    I("reg_reg", "slt",   1, 1, 2, 0, 8, FALSE),            \* slt   ra, ra, sp
    I("reg_reg", "div",   1, 1, 2, 0, 8, FALSE),            \* div   ra, ra, sp
    I("reg_reg", "rem",   1, 1, 2, 0, 8, FALSE),            \* rem   ra, ra, sp
    I("reg_reg", "remuw", 1, 1, 2, 0, 8, FALSE),            \* remuw ra, ra, sp
    I("reg_reg", "mulw",  1, 1, 1, 0, 8, FALSE),            \* mulw  ra, ra, ra
    I("rdtime",  "",      1, 0, 0, 0, 8, FALSE),            \* rdtime ra
    I("fence",   "",      0, 0, 0, 0, 8, FALSE),            \* fence
    I("store",   "",      0, 2, 1, 0, 8, FALSE),            \* sd    ra, 0(sp)
    Instr("ecall", "", 0, 0, 0, 0, 8, FALSE, sysHalt)}

\* The refinement mix: both sets.  Every address it forms stays mapped:
\* sp only moves by -8 from 24 and a zero written to it becomes 24 again,
\* so the memory accesses through sp and the JALR to sp land in the data
\* and text, and the REMUW divisor sp is never a multiple of 2^32.  (An
\* unmapped access or that divisor aborts the process; executor_amo_panic
\* and alu_remuw show those.)  SLLI shifts ra, not sp: sp doubled from
\* 24 lands in the register shadow, where a store and a register write of
\* the same step collide at commit, the ordering defect that
\* MCExecutor_prologue.cfg already shows (sc.w ra, ra, (sp) at sp = 40).
MCRefineInstrs == MCInstrs \cup MCAluInstrs

\* A doubleword AMO on an address that is only word-aligned.
MCAmo == {
    I("reg_imm", "add", 1, 2, 0, 4, 8, FALSE),        \* addi ra, sp, 4
    I("amo",     "add", 1, 1, 1, 0, 8, FALSE)}        \* amoadd.d ra, ra, (ra)
=============================================================================
