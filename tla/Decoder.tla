------------------------------ MODULE Decoder ------------------------------
(***************************************************************************)
(* OpCode::decode of risc0/zkvm/src/opcode.rs.                             *)
(*                                                                         *)
(* A word is given by the fields decode extracts from it: opcode          *)
(* (insn[6:0]), funct3 (insn[14:12]), funct7 (insn[31:25]) and rs2        *)
(* (insn[24:20]).  funct7_rv64 (insn[31:26]) and funct5 (insn[31:27]) are *)
(* the top bits of funct7, so they are funct7 shifted right by 1 and 2.   *)
(* The result is an OpCode record, the bail!("Illegal opcode") error, or  *)
(* a panic where an inner match reaches unreachable!() (or the unwrap of  *)
(* FromPrimitive fails).                                                   *)
(*                                                                         *)
(* The module's behaviour is a fetch loop: each step decodes one word of  *)
(* Words, as Executor's fetch returns any instruction of its text.        *)
(***************************************************************************)
EXTENDS Integers, TLC

CONSTANTS
    Words,          \* the words a fetch may return, as field records
    AnyFunct7,      \* funct7 values of words whose insn[31:25] is immediate bits
    AnyRs2          \* rs2 values of words whose insn[24:20] is immediate bits

VARIABLE word       \* the word decoded last

\* MajorType as its discriminant: Compute0 = 0 .. ECall = 8 .. MuxSize = 13.
ECall == 8
MuxSize == 13

\* The instruction opcodes of the outer match.
LOAD == 3
OP_IMM == 19
AUIPC == 23
STORE == 35
AMO == 47
OP == 51
LUI == 55
BRANCH == 99
JALR == 103
OP_IMM_32 == 27
OP_32 == 59
JAL == 111
SYSTEM == 115
MISC_MEM == 15

Panic == [kind |-> "panic"]
Illegal == [kind |-> "error"]

\* OpCode::with_major_minor and OpCode::new (major = idx / 8 through
\* FromPrimitive::from_u32(..).unwrap(), minor = idx % 8).
with_major_minor(m, major, minor, c) ==
    [kind |-> "op", mnemonic |-> m, major |-> major, minor |-> minor, cycles |-> c]
new(m, idx, c) ==
    IF idx \div 8 > MuxSize THEN Panic ELSE with_major_minor(m, idx \div 8, idx % 8, c)

\* An inner match: the arm for key k of table t (<<mnemonic, idx, cycles>>),
\* or unreachable!() when no arm matches.
Arm(t, k) == IF k \in DOMAIN t THEN new(t[k][1], t[k][2], t[k][3]) ELSE Panic

LoadArms ==
    0 :> <<"LB", 24, 1>> @@ 1 :> <<"LH", 25, 1>> @@ 2 :> <<"LW", 26, 1>> @@
    3 :> <<"LD", 27, 1>> @@ 4 :> <<"LBU", 28, 1>> @@ 5 :> <<"LHU", 29, 1>> @@
    6 :> <<"LWU", 30, 1>>

OpImmArms ==
    0 :> <<"ADDI", 7, 1>> @@ 1 :> <<"SLLI", 37, 1>> @@ 2 :> <<"SLTI", 11, 1>> @@
    3 :> <<"SLTIU", 12, 1>> @@ 4 :> <<"XORI", 8, 2>> @@ 6 :> <<"ORI", 9, 2>> @@
    7 :> <<"ANDI", 10, 2>>

StoreArms ==
    0 :> <<"SB", 29, 1>> @@ 1 :> <<"SH", 30, 1>> @@ 2 :> <<"SW", 31, 1>> @@
    3 :> <<"SD", 31, 1>>

\* Keyed by <<funct3, funct7>>.
OpArms ==
    <<0, 0>> :> <<"ADD", 0, 1>> @@ <<0, 32>> :> <<"SUB", 1, 1>> @@
    <<1, 0>> :> <<"SLL", 36, 1>> @@ <<2, 0>> :> <<"SLT", 5, 1>> @@
    <<3, 0>> :> <<"SLTU", 6, 1>> @@ <<4, 0>> :> <<"XOR", 2, 2>> @@
    <<5, 0>> :> <<"SRL", 44, 2>> @@ <<5, 32>> :> <<"SRA", 45, 2>> @@
    <<6, 0>> :> <<"OR", 3, 2>> @@ <<7, 0>> :> <<"AND", 4, 2>> @@
    <<0, 1>> :> <<"MUL", 32, 1>> @@ <<1, 1>> :> <<"MULH", 33, 1>> @@
    <<2, 1>> :> <<"MULSU", 34, 1>> @@ <<3, 1>> :> <<"MULU", 35, 1>> @@
    <<4, 1>> :> <<"DIV", 40, 2>> @@ <<5, 1>> :> <<"DIVU", 41, 2>> @@
    <<6, 1>> :> <<"REM", 42, 2>> @@ <<7, 1>> :> <<"REMU", 43, 2>>

\* Keyed by <<funct3, funct5>>.
AmoArms ==
    <<2, 1>> :> <<"AMOSWAP.W", 0, 1>> @@ <<2, 2>> :> <<"LR.W", 2, 1>> @@
    <<2, 3>> :> <<"SC.W", 3, 1>> @@ <<2, 8>> :> <<"AMOOR.W", 0, 1>> @@
    <<2, 0>> :> <<"AMOADD.W", 1, 1>> @@ <<2, 12>> :> <<"AMOAND.W", 0, 1>> @@
    <<3, 0>> :> <<"AMOADD.D", 1, 1>> @@ <<3, 1>> :> <<"AMOSWAP.D", 2, 1>> @@
    <<3, 2>> :> <<"LR.D", 3, 1>> @@ <<3, 3>> :> <<"SC.D", 4, 1>>

BranchArms ==
    0 :> <<"BEQ", 13, 1>> @@ 1 :> <<"BNE", 14, 1>> @@ 4 :> <<"BLT", 15, 1>> @@
    5 :> <<"BGE", 16, 1>> @@ 6 :> <<"BLTU", 17, 1>> @@ 7 :> <<"BGEU", 18, 1>>

Op32Arms == <<0, 1>> :> <<"MULW", 0, 1>> @@ <<7, 1>> :> <<"REMUW", 1, 1>>

\* Mutant: SRLI/SRAI told apart by funct7, as on RV32, so that shamt[5]
\* (bit 25) is taken for part of the function code.
decode_shift_imm_rv32(funct7) ==
    Arm(0 :> <<"SRLI", 46, 2>> @@ 32 :> <<"SRAI", 47, 2>>, funct7)

\* OP-IMM with funct3 = 5: SRLI and SRAI are told apart by funct7_rv64,
\* because on RV64 bit 25 is shamt[5].
decode_shift_imm(funct7) ==
    Arm(0 :> <<"SRLI", 46, 2>> @@ 16 :> <<"SRAI", 47, 2>>, funct7 \div 2)

\* SYSTEM: ECALL and EBREAK by <<rs2, funct7>> under funct3 = 0, RDTIME
\* under funct3 = 2.
decode_system(w) ==
    CASE w.funct3 = 0 /\ <<w.rs2, w.funct7>> = <<0, 0>> -> with_major_minor("ECALL", ECall, 0, 1)
      [] w.funct3 = 0 /\ <<w.rs2, w.funct7>> = <<1, 0>> -> with_major_minor("EBREAK", ECall, 1, 1)
      [] w.funct3 = 2 -> new("RDTIME", 0, 1)
      [] OTHER -> Panic

decode(w) ==
    LET f5 == w.funct7 \div 4 IN
    CASE w.opcode = LOAD      -> Arm(LoadArms, w.funct3)
      [] w.opcode = OP_IMM    -> IF w.funct3 = 5 THEN decode_shift_imm(w.funct7)
                                 ELSE Arm(OpImmArms, w.funct3)
      [] w.opcode = AUIPC     -> new("AUIPC", 22, 1)
      [] w.opcode = STORE     -> Arm(StoreArms, w.funct3)
      [] w.opcode = OP        -> Arm(OpArms, <<w.funct3, w.funct7>>)
      [] w.opcode = AMO       -> Arm(AmoArms, <<w.funct3, f5>>)
      [] w.opcode = LUI       -> new("LUI", 21, 1)
      [] w.opcode = BRANCH    -> Arm(BranchArms, w.funct3)
      [] w.opcode = JALR      -> Arm(0 :> <<"JALR", 20, 1>>, w.funct3)
      [] w.opcode = OP_IMM_32 -> Arm(0 :> <<"ADDIW", 0, 1>>, w.funct3)
      [] w.opcode = OP_32     -> Arm(Op32Arms, <<w.funct3, w.funct7>>)
      [] w.opcode = JAL       -> new("JAL", 19, 1)
      [] w.opcode = SYSTEM    -> decode_system(w)
      [] w.opcode = MISC_MEM  -> new("FENCE", 0, 1)
      [] OTHER                -> Illegal

Init == word \in Words

\* Fetch and decode the next word.
Fetch == \E w \in Words : word' = w

Next == Fetch

Spec == Init /\ [][Next]_word

-----------------------------------------------------------------------------
(* The specification's table (section 4.2) as a reference: each encoding  *)
(* it lists, by opcode, funct3, the funct7 and rs2 values it admits, the  *)
(* mnemonic and the <<major, minor>> tags where the table fixes them.     *)

Enc(op, f3, f7s, rs2s, m, tags) ==
    [opcode |-> op, funct3 |-> f3, funct7s |-> f7s, rs2s |-> rs2s, mnemonic |-> m, tags |-> tags]
Idx(i) == <<i \div 8, i % 8>>
\* An encoding whose funct7 and rs2 fields are immediate bits.
Imm(op, f3, m, tags) == Enc(op, f3, AnyFunct7, AnyRs2, m, tags)
\* An A-extension encoding: funct5 and the aq/rl bits.
Atomic(f3, f5, m) == Enc(AMO, f3, {4 * f5, 4 * f5 + 3}, AnyRs2, m, <<>>)
\* An R-type encoding.
RType(op, f3, f7, m, tags) == Enc(op, f3, {f7}, AnyRs2, m, tags)

SpecEncodings ==
    {Imm(LOAD, 0, "LB", Idx(24)), Imm(LOAD, 1, "LH", Idx(25)), Imm(LOAD, 2, "LW", Idx(26)),
     Imm(LOAD, 3, "LD", Idx(27)), Imm(LOAD, 4, "LBU", Idx(28)), Imm(LOAD, 5, "LHU", Idx(29)),
     Imm(LOAD, 6, "LWU", Idx(30)),
     Imm(OP_IMM, 0, "ADDI", Idx(7)), Imm(OP_IMM, 2, "SLTI", Idx(11)),
     Imm(OP_IMM, 3, "SLTIU", Idx(12)), Imm(OP_IMM, 4, "XORI", Idx(8)),
     Imm(OP_IMM, 6, "ORI", Idx(9)), Imm(OP_IMM, 7, "ANDI", Idx(10)),
     Enc(OP_IMM, 1, {0, 1}, AnyRs2, "SLLI", Idx(37)),
     Enc(OP_IMM, 5, {0, 1}, AnyRs2, "SRLI", Idx(46)),
     Enc(OP_IMM, 5, {32, 33}, AnyRs2, "SRAI", Idx(47)),
     Imm(STORE, 0, "SB", Idx(29)), Imm(STORE, 1, "SH", Idx(30)),
     Imm(STORE, 2, "SW", Idx(31)), Imm(STORE, 3, "SD", Idx(31)),
     RType(OP, 0, 0, "ADD", Idx(0)), RType(OP, 0, 32, "SUB", Idx(1)),
     RType(OP, 1, 0, "SLL", Idx(36)), RType(OP, 2, 0, "SLT", Idx(5)),
     RType(OP, 3, 0, "SLTU", Idx(6)), RType(OP, 4, 0, "XOR", Idx(2)),
     RType(OP, 5, 0, "SRL", Idx(44)), RType(OP, 5, 32, "SRA", Idx(45)),
     RType(OP, 6, 0, "OR", Idx(3)), RType(OP, 7, 0, "AND", Idx(4)),
     RType(OP, 0, 1, "MUL", Idx(32)), RType(OP, 1, 1, "MULH", Idx(33)),
     RType(OP, 2, 1, "MULSU", Idx(34)), RType(OP, 3, 1, "MULU", Idx(35)),
     RType(OP, 4, 1, "DIV", Idx(40)), RType(OP, 5, 1, "DIVU", Idx(41)),
     RType(OP, 6, 1, "REM", Idx(42)), RType(OP, 7, 1, "REMU", Idx(43)),
     Atomic(2, 1, "AMOSWAP.W"), Atomic(2, 2, "LR.W"), Atomic(2, 3, "SC.W"),
     Atomic(2, 8, "AMOOR.W"), Atomic(2, 0, "AMOADD.W"), Atomic(2, 12, "AMOAND.W"),
     Atomic(3, 0, "AMOADD.D"), Atomic(3, 1, "AMOSWAP.D"), Atomic(3, 2, "LR.D"),
     Atomic(3, 3, "SC.D"),
     Imm(BRANCH, 0, "BEQ", Idx(13)), Imm(BRANCH, 1, "BNE", Idx(14)),
     Imm(BRANCH, 4, "BLT", Idx(15)), Imm(BRANCH, 5, "BGE", Idx(16)),
     Imm(BRANCH, 6, "BLTU", Idx(17)), Imm(BRANCH, 7, "BGEU", Idx(18)),
     Imm(JALR, 0, "JALR", Idx(20)), Imm(OP_IMM_32, 0, "ADDIW", <<>>),
     RType(OP_32, 0, 1, "MULW", <<>>), RType(OP_32, 7, 1, "REMUW", <<>>),
     Enc(SYSTEM, 0, {0}, {0}, "ECALL", <<ECall, 0>>),
     Enc(SYSTEM, 0, {0}, {1}, "EBREAK", <<ECall, 1>>),
     Imm(SYSTEM, 2, "RDTIME", <<>>)}
    \cup {Imm(op, f3, m, Idx(i)) : <<op, m, i>> \in {<<AUIPC, "AUIPC", 22>>, <<LUI, "LUI", 21>>,
                                                  <<JAL, "JAL", 19>>, <<MISC_MEM, "FENCE", 0>>},
                                  f3 \in 0..7}

EncWords(e) == [opcode : {e.opcode}, funct3 : {e.funct3}, funct7 : e.funct7s, rs2 : e.rs2s]

-----------------------------------------------------------------------------
(* Properties.                                                             *)

\* Every word the specification's decoder table lists decodes to the
\* mnemonic of its row, with the row's major/minor tags where the table
\* gives them (OpCode::decode's nested matches, including the RV64 shift
\* discrimination by funct7_rv64 and the funct5 match of the atomics).
DecodeMatchesSpec ==
    \A e \in SpecEncodings :
        word \in EncWords(e) =>
            LET d == decode(word)
            IN  /\ d.kind = "op"
                /\ d.mnemonic = e.mnemonic
                /\ e.tags # <<>> => <<d.major, d.minor>> = e.tags

\* Spec section 4.2: a word the table does not match yields
\* Error("Illegal opcode ..."), which step() turns into IllegalInstruction;
\* decoding never aborts the simulator (the unreachable!() arms of
\* OpCode::decode).
DecodeNeverPanics == decode(word).kind # "panic"

=============================================================================
