----------------------------- MODULE MCDecoder -----------------------------
(***************************************************************************)
(* Model-checking instance of Decoder.  The immediate bits of funct7 and  *)
(* rs2 take a few values: 0, shamt[5] alone (1), bit 30 (32, the SUB/SRA  *)
(* bit) with and without shamt[5], and all ones.  The atomics' funct7 is   *)
(* funct5 followed by the aq/rl bits.                                     *)
(***************************************************************************)
EXTENDS Decoder

MCAnyFunct7 == {0, 1, 32, 33, 127}
MCAnyRs2 == {0, 1}

\* The words the table lists.
MCSpecWords == UNION {EncWords(e) : e \in SpecEncodings}

\* Every opcode of the outer match and one it does not list, with every
\* funct3, the funct7 values above and those of funct5 = 1..3, and the
\* rs2 values of ECALL, EBREAK and one more.
MCAllWords ==
    [opcode : {LOAD, OP_IMM, AUIPC, STORE, AMO, OP, LUI, BRANCH, JALR, OP_IMM_32,
               OP_32, JAL, SYSTEM, MISC_MEM, 127},
     funct3 : 0..7,
     funct7 : MCAnyFunct7 \cup {4, 8, 12},
     rs2    : {0, 1, 2}]
=============================================================================
