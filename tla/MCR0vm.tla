------------------------------ MODULE MCR0vm ------------------------------
(***************************************************************************)
(* Model-checking instance of R0vm.  Two-bit bytes as in MCExecutor, and  *)
(* a 56-byte primary region (MEM_SIZE, the max_mem of from_elf) that     *)
(* holds the text at 0..15, the data at 16..31 and the register shadow of *)
(* x0, x1, x2 at SYSTEM.start = 32, with the stack pointer starting at 24. *)
(* The playground ends at the top of the u64 space.                       *)
(*                                                                         *)
(* The ELF files: one data segment at 16; the same with `runtime.doInit`  *)
(* (nA) at 16, which the loader patches with `ret`; and one whose entry   *)
(* is not word-aligned, which from_elf refuses.                           *)
(***************************************************************************)
EXTENDS R0vm

CONSTANTS nA, nB, noName, sysA, sysHalt

MCMemSize == 56
MCPlaygroundBase == Span(8) - MCMemSize

DataSeg == [p_type |-> "PT_LOAD", p_filesz |-> 8, p_memsz |-> 8, p_vaddr |-> 16, p_offset |-> 0]

MCElf(entry, syms) ==
    [parses |-> TRUE, class |-> "ELF64", machine |-> "EM_RISCV", type |-> "ET_EXEC",
     entry |-> entry, has_segments |-> TRUE, segments |-> <<DataSeg>>,
     symbol_table |-> "Some", symtab |-> syms, bytes |-> <<1, 2, 3, 0, 2, 1, 3, 1>>]

MCInputs ==
    {MCElf(0, <<>>), MCElf(0, <<[st_name |-> nA, st_value |-> 16]>>), MCElf(2, <<>>)}

MINUS8 == Span(8) - 8

\* The instruction records, taken from Instructions itself rather than
\* through Exec, whose Instrs this set becomes.
Ins == INSTANCE Instructions

I(kind, op, rd, rs1, rs2, imm, size, signed) ==
    Ins!Instr(kind, op, rd, rs1, rs2, imm, size, signed, NoSyscall)

\* A prologue, a misaligned store through sp, a doubleword AMO on a
\* word-aligned address (a panic of the monitor), a bad word and the two
\* ECALLs: every way exec.run() can return or abort.
MCInstrs == {
    I("reg_imm", "add", 2, 2, 0, MINUS8, 8, FALSE),   \* addi sp, sp, -8
    I("reg_imm", "add", 1, 2, 0, 4, 8, FALSE),        \* addi ra, sp, 4
    I("store",   "",    0, 2, 1, 0, 8, FALSE),        \* sd   ra, 0(sp)
    I("store",   "",    0, 2, 1, 2, 4, FALSE),        \* sw   ra, 2(sp)   (misaligned)
    I("amo",     "add", 1, 1, 1, 0, 8, FALSE),        \* amoadd.d ra, ra, (ra)
    I("illegal", "",    0, 0, 0, 0, 8, FALSE),
    Ins!Instr("ecall", "", 0, 0, 0, 0, 8, FALSE, sysA),
    Ins!Instr("ecall", "", 0, 0, 0, 0, 8, FALSE, sysHalt)}
=============================================================================
