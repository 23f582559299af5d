----------------------------- MODULE Executor -----------------------------
(***************************************************************************)
(* The step loop: rrs-lib's InstructionExecutor (instruction_executor.rs)  *)
(* running over the MemoryMonitor, with registers read and written through *)
(* the monitor's load_register/store_register (spec section 4.3), followed *)
(* by save_op and commit after every instruction that succeeds, and the    *)
(* session driver's step budget.                                            *)
(*                                                                         *)
(* One action is one call of step() together with the save_op/commit that *)
(* follows it.  Inside it, the reads and writes of the instruction are     *)
(* chained through the monitor in the order the executor makes them, so    *)
(* the pending writes and the x2 bootstrap behave as they do in the code.  *)
(* A fetch returns any instruction of Instrs: the text is not modelled.    *)
(***************************************************************************)
EXTENDS Instructions, Sequences

CONSTANTS
    RegionAddr, SYSTEM_START, STACK_INITIAL_ADDRESS, RegIdx, NoSyscall, NoOp,
    ENTRY,          \* Program.entry
    MaxCycles,      \* the session's step budget (SessionLimit)
    Instrs,         \* the instructions a fetch may return
    BOOTSTRAPPED,   \* start after x2 has been bootstrapped (initial = TRUE)
    NoReg           \* last_register_write = None

VARIABLES
    image, pending_writes, op_result, syscalls, initial,  \* the MemoryMonitor
    pc,             \* HartState.pc
    status,         \* "running", "halted", "SessionLimit", an InstructionException or "panic"
    cycle,          \* steps taken
    insn,           \* the instruction the last step fetched (the trace's opcode)
    last_register_write  \* HartState.last_register_write

vars == <<image, pending_writes, op_result, syscalls, initial, pc, status, cycle, insn,
          last_register_write>>

Mon == INSTANCE MemoryMonitor WITH txnLog <- <<>>, StoreAddr <- {}, StoreVal <- {}

Exceptions == {"AlignmentFault", "IllegalInstruction"}

-----------------------------------------------------------------------------
(* HartState register access, routed to the monitor.                       *)

\* read_register: x0 reads as 0 without touching memory.
read_register(s, idx) ==
    IF idx = 0 THEN [st |-> s, val |-> 0] ELSE Mon!load_register(s, idx)

\* write_register: writes to x0 are dropped; any other write is recorded
\* in last_register_write.
write_register(s, idx, v) ==
    IF idx = 0 THEN s
    ELSE [Mon!store_register(s, idx, v) EXCEPT !.last_register_write = idx]

\* The state a step works on: the monitor's fields and the hart's
\* last_register_write, which step() first resets to None.
StepStart ==
    [image |-> image, pending_writes |-> pending_writes, op_result |-> op_result,
     syscalls |-> syscalls, initial |-> initial, last_register_write |-> NoReg]

\* The result of process_instruction: the monitor state it leaves, and
\* Ok(pc_updated) with the new pc, or an exception, or a panic.
Ok(s, upd, npc) == [st |-> s, out |-> "ok", pcUpdated |-> upd, newPc |-> npc]
Err(s, e) == [st |-> s, out |-> e, pcUpdated |-> FALSE, newPc |-> 0]

-----------------------------------------------------------------------------
(* The execute_* helpers.  Mon!read_mem never returns None: it panics     *)
(* (assert or unwrap) where CanLoad fails, so the LoadAccessFault branches *)
(* of the code are dead, and so are the StoreAccessFault branches, since   *)
(* the monitor's write_mem always returns true.                           *)

execute_reg_imm_op(s, i) ==
    LET a == read_register(s, i.rs1)
    IN  Ok(write_register(a.st, i.rd, AluOp(i.op, a.val, i.imm)), FALSE, 0)

\* execute_reg_imm_shamt_op: the shift closure applied to the shamt field.
execute_reg_imm_shamt_op(s, i) ==
    LET a == read_register(s, i.rs1)
    IN  Ok(write_register(a.st, i.rd, AluOp(i.op, a.val, i.imm)), FALSE, 0)

\* execute_reg_reg_op: a closure that panics (remuw) aborts the process.
execute_reg_reg_op(s, i) ==
    LET a == read_register(s, i.rs1)
        b == read_register(a.st, i.rs2)
    IN  IF AluPanics(i.op, a.val, b.val) THEN Err(b.st, "panic")
        ELSE Ok(write_register(b.st, i.rd, AluOp(i.op, a.val, b.val)), FALSE, 0)

execute_load(s, i) ==
    LET a    == read_register(s, i.rs1)
        addr == Wrap(a.val + i.imm)
        m    == Mon!read_mem(a.st, addr, i.size)
    IN  CASE ~Aligned(addr, i.size) -> Err(a.st, "AlignmentFault")
          [] m.panic                -> Err(a.st, "panic")
          [] OTHER -> Ok(write_register(a.st, i.rd, LoadExtend(m.val, i.size, i.signed)),
                         FALSE, 0)

execute_store(s, i) ==
    LET a    == read_register(s, i.rs1)
        addr == Wrap(a.val + i.imm)
        d    == read_register(a.st, i.rs2)
    IN  IF ~Aligned(addr, i.size) THEN Err(d.st, "AlignmentFault")
        ELSE Ok(Mon!WriteMem(d.st, addr, i.size, d.val), FALSE, 0)

execute_amo_load(s, i) ==
    LET a == read_register(s, i.rs1)
        m == Mon!read_mem(a.st, a.val, i.size)
    IN  CASE ~Aligned(a.val, i.size) -> Err(a.st, "AlignmentFault")
          [] m.panic                 -> Err(a.st, "panic")
          [] OTHER -> Ok(write_register(a.st, i.rd, SignExtend(m.val, i.size)), FALSE, 0)

execute_amo_store(s, i) ==
    LET a == read_register(s, i.rs1)
        d == read_register(a.st, i.rs2)
    IN  IF ~Aligned(a.val, i.size) THEN Err(d.st, "AlignmentFault")
        ELSE Ok(write_register(Mon!WriteMem(d.st, a.val, i.size, d.val), i.rd, 0), FALSE, 0)

\* execute_amow / execute_amod: no alignment check before read_mem.
execute_amo(s, i) ==
    LET a == read_register(s, i.rs1)
        m == Mon!read_mem(a.st, a.val, i.size)
    IN  IF m.panic THEN Err(a.st, "panic")
        ELSE LET old == AmoExtend(m.val, i.size)
                 b   == read_register(a.st, i.rs2)
                 new == AmoOp(i.op, old, AmoExtend(b.val, i.size))
             IN  Ok(Mon!WriteMem(write_register(b.st, i.rd, old), a.val, i.size, new), FALSE, 0)

execute_branch(s, i) ==
    LET a == read_register(s, i.rs1)
        b == read_register(a.st, i.rs2)
    IN  IF BranchTaken(i.op, a.val, b.val) THEN Ok(b.st, TRUE, Wrap(pc + i.imm))
        ELSE Ok(b.st, FALSE, 0)

process_addiw(s, i) ==
    LET a == read_register(s, i.rs1)
    IN  Ok(write_register(a.st, i.rd, Addiw(a.val, i.imm)), FALSE, 0)

process_lui(s, i) == Ok(write_register(s, i.rd, i.imm), FALSE, 0)

\* Mutant: AUIPC relative to the next instruction instead of its own pc.
ProcessAuipcNextPc(s, i) == Ok(write_register(s, i.rd, Wrap(pc + 4 + i.imm)), FALSE, 0)

process_auipc(s, i) == Ok(write_register(s, i.rd, Wrap(pc + i.imm)), FALSE, 0)

process_rdtime(s, i) == Ok(write_register(s, i.rd, 0), FALSE, 0)

process_jal(s, i) == Ok(write_register(s, i.rd, pc + 4), TRUE, Wrap(pc + i.imm))

process_jalr(s, i) ==
    LET a == read_register(s, i.rs1)
    IN  Ok(write_register(a.st, i.rd, pc + 4), TRUE, ClearLowBit(Wrap(a.val + i.imm)))

\* process_instruction: dispatch on the decoded instruction; None (an
\* undecodable word) becomes IllegalInstruction in step().
process_instruction(s, i) ==
    CASE i.kind = "reg_imm" -> execute_reg_imm_op(s, i)
      [] i.kind = "reg_imm_shamt" -> execute_reg_imm_shamt_op(s, i)
      [] i.kind = "reg_reg" -> execute_reg_reg_op(s, i)
      [] i.kind = "load"    -> execute_load(s, i)
      [] i.kind = "store"   -> execute_store(s, i)
      [] i.kind = "lr"      -> execute_amo_load(s, i)
      [] i.kind = "sc"      -> execute_amo_store(s, i)
      [] i.kind = "amo"     -> execute_amo(s, i)
      [] i.kind = "branch"  -> execute_branch(s, i)
      [] i.kind = "jal"     -> process_jal(s, i)
      [] i.kind = "jalr"    -> process_jalr(s, i)
      [] i.kind = "addiw"   -> process_addiw(s, i)
      [] i.kind = "lui"     -> process_lui(s, i)
      [] i.kind = "auipc"   -> process_auipc(s, i)
      [] i.kind = "rdtime"  -> process_rdtime(s, i)
      [] i.kind = "fence"   -> Ok(s, FALSE, 0)
      [] i.kind = "ecall"   -> Ok(s, FALSE, 0)
      [] OTHER              -> Err(s, "IllegalInstruction")

-----------------------------------------------------------------------------

Init ==
    /\ image = [a \in RegionAddr |->
                 IF BOOTSTRAPPED /\ a \in Mon!get_register_addr(2)..(Mon!get_register_addr(2) + 7)
                 THEN ToLeBytes(STACK_INITIAL_ADDRESS, 8)[a - Mon!get_register_addr(2)]
                 ELSE 0]
    /\ pending_writes = {}
    /\ op_result = NoOp
    /\ syscalls = <<>>
    /\ initial = BOOTSTRAPPED
    /\ pc = ENTRY
    /\ status = "running"
    /\ cycle = 0
    /\ insn = NoInstr
    /\ last_register_write = NoReg

\* step(): last_register_write is reset to None, then the fetch goes
\* through the monitor's load_u32, which panics on a misaligned pc or one
\* outside every region (the FetchError branch is dead).  A successful
\* instruction advances the pc unless it set it, then its op result is
\* saved and the monitor commits.  An error ends the session with the
\* monitor as the failed instruction left it.
Step ==
    /\ status = "running"
    /\ cycle < MaxCycles
    /\ cycle' = cycle + 1
    /\ \E i \in Instrs :
       /\ insn' = i
       /\ IF Mon!read_mem(Mon!Mon, pc, WORD_SIZE).panic
          THEN /\ status' = "panic"
               /\ last_register_write' = NoReg
               /\ UNCHANGED <<image, pending_writes, op_result, syscalls, initial, pc>>
          ELSE \E r \in {process_instruction(StepStart, i)} :
                  /\ last_register_write' = r.st.last_register_write
                  /\ IF r.out = "ok"
                     THEN /\ \E st \in {Mon!commit(Mon!save_op(r.st,
                                [syscall |-> IF i.kind = "ecall" THEN i.sys ELSE NoSyscall]))} :
                                Mon!Become(st)
                          /\ pc' = IF r.pcUpdated THEN r.newPc ELSE pc + 4
                          /\ status' = IF i.kind = "ecall" /\ i.sys = HALT THEN "halted" ELSE "running"
                     ELSE /\ Mon!Become(r.st)
                          /\ status' = r.out
                          /\ UNCHANGED pc

\* The session driver stops at the step budget with ExitCode::SessionLimit.
SessionLimit ==
    /\ status = "running"
    /\ cycle = MaxCycles
    /\ status' = "SessionLimit"
    /\ UNCHANGED <<image, pending_writes, op_result, syscalls, initial, pc, cycle, insn,
                   last_register_write>>

Next == Step \/ SessionLimit

Spec == Init /\ [][Next]_vars

-----------------------------------------------------------------------------
(* Properties.                                                             *)

\* Spec sections 5 and 7: a failing instruction ends the session with an
\* InstructionException returned by step(), a misaligned access at every
\* width faulting with AlignmentFault; the simulator itself never aborts.
\* (execute_amow/execute_amod call read_mem with no alignment check, and
\* the monitor's load_u32/load_u64 assert alignment.)
NoPanic == status # "panic"

\* What the program can observe of the state: x2 reads as the initial stack
\* pointer until the bootstrap has run.  A halt or the step budget is the
\* same ending in both modules, an InstructionException is a fault, and a
\* panic of the process is "aborted", an ending the ISA machine never takes.
AbsMem ==
    [a \in RegionAddr |->
        IF ~initial /\ a \in Mon!get_register_addr(2)..(Mon!get_register_addr(2) + 7)
        THEN ToLeBytes(STACK_INITIAL_ADDRESS, 8)[a - Mon!get_register_addr(2)]
        ELSE image[a]]

AbsStatus ==
    CASE status \in {"running", "halted", "SessionLimit"} -> status
      [] status = "panic"                                -> "aborted"
      [] OTHER                                           -> "faulted"

Abstract == INSTANCE Isa WITH mem <- AbsMem, status <- AbsStatus

\* Every step of the executor over the transactional monitor is a step of
\* the atomic ISA machine of spec 4.3, 5 and 8: reads within an
\* instruction see the state before it (the AMO reads memory, then queues
\* rd and the store; SC queues the store, then rd), its writes become
\* visible together at commit, a write of zero to x2 becomes the stack
\* pointer, x0 ignores writes, branches and jumps set the pc, and an
\* instruction that faults (a misaligned store, an illegal word) changes
\* nothing.  An abort of the process is no ISA step, so a run that reaches
\* one fails.  The property says nothing of the first read of x2 (the
\* instances that check it start bootstrapped) or of two writes to one
\* byte in a step: executor_prologue shows both break it.
ImplementsIsa == Abstract!Spec

=============================================================================
