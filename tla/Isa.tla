-------------------------------- MODULE Isa --------------------------------
(***************************************************************************)
(* What the executor promises (spec sections 4.3, 5 and 8): one RV64       *)
(* instruction per step, executed atomically on a byte memory that also    *)
(* holds the memory-mapped register file.                                  *)
(*                                                                         *)
(*  - every read of a step sees the state before the step;                *)
(*  - the step's writes take effect together, in program order, the last  *)
(*    write to a byte winning;                                             *)
(*  - x0 reads as 0 and ignores writes; x2 starts at the initial stack     *)
(*    pointer and a zero written to it becomes that value again;          *)
(*  - a faulting instruction changes nothing and ends the session;        *)
(*  - a store outside every region is dropped without failing the step.   *)
(*                                                                         *)
(* The instruction semantics (ALU results, widths, extension) are those    *)
(* of Instructions; what this module fixes is how reads, writes and        *)
(* faults compose.                                                         *)
(***************************************************************************)
EXTENDS Instructions, Sequences

CONSTANTS
    RegionAddr,             \* byte addresses inside some region
    SYSTEM_START,           \* base of the register shadow
    STACK_INITIAL_ADDRESS,  \* initial value of x2
    ENTRY,                  \* program entry point
    MaxCycles,              \* the session's step budget
    Instrs                  \* the instructions a fetch may return

VARIABLES mem, pc, status, syscalls, cycle,
    insn        \* the instruction the last step fetched (its trace entry)

vars == <<mem, pc, status, syscalls, cycle, insn>>

Slot(idx) == SYSTEM_START + idx * DOUBLE_WORD_SIZE

Value(a, n) == LeValue([k \in 0..(n - 1) |-> mem[a + k]], n)

InRegion(a, n) == \A k \in 0..(n - 1) : a + k \in RegionAddr

Reg(idx) == IF idx = 0 THEN 0 ELSE Value(Slot(idx), 8)

\* The ALU result spec 4.3 prescribes: the closures of Instructions, except
\* that REMUW by a divisor whose low 32 bits are zero returns the
\* zero-extended low word of the dividend.
IsaAluOp(op, a, b) ==
    IF op = "remuw" /\ Truncate(b, 4) = 0 THEN Truncate(a, 4) ELSE AluOp(op, a, b)

\* A write of value v, n bytes wide, at address a.
W(a, n, v) == [a |-> a, n |-> n, v |-> v]

RegWrite(idx, v) ==
    IF idx = 0 THEN <<>>
    ELSE <<W(Slot(idx), 8, IF idx = 2 /\ v = 0 THEN STACK_INITIAL_ADDRESS ELSE v)>>

ApplyWrite(m, w) ==
    [a \in DOMAIN m |->
        IF a \in w.a..(w.a + w.n - 1) THEN ToLeBytes(w.v, w.n)[a - w.a] ELSE m[a]]

RECURSIVE ApplyAll(_, _)
ApplyAll(m, ws) == IF ws = <<>> THEN m ELSE ApplyAll(ApplyWrite(m, Head(ws)), Tail(ws))

\* The outcome of instruction i at the current pc.
Fault == [fault |-> TRUE]
Done(ws, next) == [fault |-> FALSE, writes |-> ws, next |-> next]

Effect(i) ==
    LET a   == Reg(i.rs1)
        b   == Reg(i.rs2)
        ea  == Wrap(a + i.imm)
        seq == pc + 4
    IN CASE i.kind \in {"reg_imm", "reg_imm_shamt"} ->
                Done(RegWrite(i.rd, IsaAluOp(i.op, a, i.imm)), seq)
         [] i.kind = "reg_reg" -> Done(RegWrite(i.rd, IsaAluOp(i.op, a, b)), seq)
         [] i.kind = "load" ->
                IF ~Aligned(ea, i.size) \/ ~InRegion(ea, i.size) THEN Fault
                ELSE Done(RegWrite(i.rd, LoadExtend(Value(ea, i.size), i.size, i.signed)), seq)
         [] i.kind = "store" ->
                IF ~Aligned(ea, i.size) THEN Fault
                ELSE Done(<<W(ea, i.size, Truncate(b, i.size))>>, seq)
         [] i.kind = "lr" ->
                IF ~Aligned(a, i.size) \/ ~InRegion(a, i.size) THEN Fault
                ELSE Done(RegWrite(i.rd, SignExtend(Value(a, i.size), i.size)), seq)
         [] i.kind = "sc" ->
                IF ~Aligned(a, i.size) THEN Fault
                ELSE Done(<<W(a, i.size, Truncate(b, i.size))>> \o RegWrite(i.rd, 0), seq)
         [] i.kind = "amo" ->
                IF ~Aligned(a, i.size) \/ ~InRegion(a, i.size) THEN Fault
                ELSE LET old == AmoExtend(Value(a, i.size), i.size)
                     IN  Done(RegWrite(i.rd, old)
                              \o <<W(a, i.size, Truncate(AmoOp(i.op, old, AmoExtend(b, i.size)), i.size))>>,
                              seq)
         [] i.kind = "branch" -> Done(<<>>, IF BranchTaken(i.op, a, b) THEN Wrap(pc + i.imm) ELSE seq)
         [] i.kind = "jal" -> Done(RegWrite(i.rd, seq), Wrap(pc + i.imm))
         [] i.kind = "jalr" -> Done(RegWrite(i.rd, seq), ClearLowBit(ea))
         [] i.kind = "addiw" -> Done(RegWrite(i.rd, Addiw(a, i.imm)), seq)
         [] i.kind = "lui" -> Done(RegWrite(i.rd, i.imm), seq)
         [] i.kind = "auipc" -> Done(RegWrite(i.rd, Wrap(pc + i.imm)), seq)
         [] i.kind = "rdtime" -> Done(RegWrite(i.rd, 0), seq)
         [] i.kind \in {"ecall", "fence"} -> Done(<<>>, seq)
         [] OTHER -> Fault

Init ==
    /\ mem = [a \in RegionAddr |->
                IF a \in Slot(2)..(Slot(2) + 7)
                THEN ToLeBytes(STACK_INITIAL_ADDRESS, 8)[a - Slot(2)] ELSE 0]
    /\ pc = ENTRY
    /\ status = "running"
    /\ syscalls = <<>>
    /\ cycle = 0
    /\ insn = NoInstr

\* Fetch, decode and execute one instruction; a fetch outside the regions
\* or at a misaligned pc faults.
Step ==
    /\ status = "running"
    /\ cycle < MaxCycles
    /\ cycle' = cycle + 1
    /\ \E i \in Instrs :
        LET e == Effect(i) IN
        /\ insn' = i
        /\
           IF ~Aligned(pc, 4) \/ ~InRegion(pc, 4) \/ e.fault
           THEN /\ status' = "faulted"
                /\ UNCHANGED <<mem, pc, syscalls>>
           ELSE /\ mem' = ApplyAll(mem, e.writes)
                /\ pc' = e.next
                /\ syscalls' = IF i.kind = "ecall" THEN Append(syscalls, i.sys) ELSE syscalls
                /\ status' = IF i.kind = "ecall" /\ i.sys = HALT THEN "halted" ELSE "running"

SessionLimit ==
    /\ status = "running"
    /\ cycle = MaxCycles
    /\ status' = "SessionLimit"
    /\ UNCHANGED <<mem, pc, syscalls, cycle, insn>>

Next == Step \/ SessionLimit

Spec == Init /\ [][Next]_vars

=============================================================================
