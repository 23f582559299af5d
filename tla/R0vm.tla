------------------------------- MODULE R0vm -------------------------------
(***************************************************************************)
(* The r0vm host binary (r0vm/src/bin/r0vm.rs) run end to end: main reads *)
(* the ELF and the --env arguments, builds the Executor with from_elf,    *)
(* runs the session and, on an execution error, dumps the registers       *)
(* through the monitor's load_registers before it panics.                 *)
(*                                                                         *)
(* The module composes the other components.  The ELF loader and          *)
(* MemoryImage::new build the memory, the Executor's steps run over the   *)
(* MemoryMonitor, and the Session records are the result.  from_elf and   *)
(* run live in zkvm/src/exec/mod.rs, which is not in the repository.  They *)
(* follow spec 4.5: load with max_mem = MEM_SIZE, a fresh monitor over    *)
(* the image, pc = entry, step until an exit, one Segment from the entry. *)
(***************************************************************************)
EXTENDS RiscvBits, SequencesExt

CONSTANTS
    Names, PatchSet, NoName, RetWord, MaxProgramHeaders, MEM_SIZE, PLAYGROUND_BASE,
    Inputs,         \* the ELF files --elf may name
    SYSTEM_START, STACK_INITIAL_ADDRESS, RegIdx, NoSyscall, NoOp, Syscall, HALT,
    NoInstr, MaxCycles, Instrs, NoReg,
    NoSession       \* exec.run() has not returned a Session

VARIABLES
    elf_contents,   \* the bytes fs::read returns for --elf
    readable,       \* fs::read succeeds
    env_ok,         \* every --env argument contains '='
    stdin_ok,       \* --initial-input is absent, or File::open of it succeeds
    image, pending_writes, op_result, syscalls, initial, pc, status, cycle, insn,
    last_register_write,
    process,        \* "start", "run", "exit0" (main returned) or "panicked"
    session,        \* the Session exec.run() returned
    dump,           \* the register values the error path printed, in index order
    before          \* history: the registers as seen before the last step

exeVars == <<image, pending_writes, op_result, syscalls, initial, pc, status, cycle, insn,
             last_register_write>>
vars == <<elf_contents, readable, env_ok, stdin_ok, exeVars, process, session, dump, before>>

Img == INSTANCE MemoryImage WITH input <- elf_contents, MaxMem <- MEM_SIZE

\* The regions of MemoryImage::new, which do not depend on the ELF file.
Layout == INSTANCE MemoryImage WITH input <- <<>>, MaxMem <- MEM_SIZE

\* Executor's ENTRY and BOOTSTRAPPED only shape its Init, which from_elf
\* replaces here: a fresh monitor never starts bootstrapped.
Exec == INSTANCE Executor WITH RegionAddr <- Layout!RegionAddr, ENTRY <- 0, BOOTSTRAPPED <- FALSE

Ses == INSTANCE Session

\* The order of array::from_fn(|idx| idx).
DumpOrder == SetToSortSeq(RegIdx, <)

\* The registers as the program sees them: x0 is 0, and x2 reads as the
\* initial stack pointer until it is bootstrapped.
RegView ==
    [k \in RegIdx |->
        IF k = 0 THEN 0
        ELSE LeValue([j \in 0..7 |-> Exec!AbsMem[Exec!Mon!get_register_addr(k) + j]], 8)]

-----------------------------------------------------------------------------
Init ==
    /\ elf_contents \in Inputs
    /\ readable \in BOOLEAN
    /\ env_ok \in BOOLEAN
    /\ stdin_ok \in BOOLEAN
    /\ image = [a \in Layout!RegionAddr |-> 0]
    /\ pending_writes = {} /\ op_result = NoOp /\ syscalls = <<>> /\ initial = FALSE
    /\ pc = 0 /\ status = "running" /\ cycle = 0 /\ insn = NoInstr
    /\ last_register_write = NoReg
    /\ process = "start"
    /\ session = NoSession
    /\ dump = <<>>
    /\ before = [k \in RegIdx |-> 0]

\* main up to from_elf, r0vm.rs:45-73: fs::read(..).unwrap(), the
\* split_once('=') .expect of every --env argument, the
\* fs::File::open(input).unwrap() of --initial-input when it is given,
\* then Executor::from_elf(..).unwrap(), which panics when load_elf fails.
\* Otherwise MemoryImage::new gives the memory, MemoryMonitor::new a fresh
\* monitor (that of Init), and pc is the entry.
Start ==
    /\ process = "start"
    /\ \E prog \in {Img!load_elf(elf_contents)} :
           IF readable /\ env_ok /\ stdin_ok /\ prog.kind = "ok"
           THEN /\ image' = Img!new(prog)
                /\ pc' = prog.entry
                /\ process' = "run"
           ELSE /\ process' = "panicked"
                /\ UNCHANGED <<image, pc>>
    /\ UNCHANGED <<elf_contents, readable, env_ok, stdin_ok, pending_writes, op_result,
                   syscalls, initial, status, cycle, insn, last_register_write, session,
                   dump, before>>

\* exec.run() (spec 4.5): one step of the Executor, or the step budget.
Run ==
    /\ process = "run"
    /\ Exec!Next
    /\ before' = RegView
    /\ UNCHANGED <<elf_contents, readable, env_ok, stdin_ok, process, session, dump>>

\* The Session run() returns (spec 4.5): a single Segment from the entry
\* with the exit code, Halted on the halt syscall, else SessionLimit.
RunSession(entry, st) ==
    LET code == IF st = "halted" THEN "Halted" ELSE "SessionLimit"
    IN  Ses!Session_new(<<Ses!Segment_new(image, entry, code)>>, code)

\* r0vm.rs:74-83: `match exec.run()`.  An exit returns the Session and
\* main returns.  An InstructionException is an Err: the monitor's
\* load_registers over 0..31 (here over RegIdx, in the same order) is
\* printed and main panics.  A panic inside
\* the run (status "panic") has already aborted the process.
Finish ==
    /\ process = "run"
    /\ status # "running"
    /\ CASE status \in {"halted", "SessionLimit"} ->
              /\ session' = RunSession(Img!load_elf(elf_contents).entry, status)
              /\ process' = "exit0"
              /\ UNCHANGED <<exeVars, dump>>
         [] status \in Exec!Exceptions ->
              /\ \E r \in {Exec!Mon!load_registers(Exec!Mon!Mon, DumpOrder)} :
                    /\ Exec!Mon!Become(r.st)
                    /\ dump' = r.vals
              /\ process' = "panicked"
              /\ UNCHANGED <<pc, status, cycle, insn, last_register_write, session>>
         [] OTHER ->
              /\ process' = "panicked"
              /\ UNCHANGED <<exeVars, session, dump>>
    /\ UNCHANGED <<elf_contents, readable, env_ok, stdin_ok, before>>

Next == Start \/ Run \/ Finish

Spec == Init /\ [][Next]_vars

-----------------------------------------------------------------------------
(* Properties.                                                             *)

\* Spec 6, 7 and 9: on an execution error the host prints the register
\* file, and a failing instruction changes nothing, so the dump that
\* r0vm.rs:77 prints through load_registers (monitor.rs:103) shows the
\* registers as the program saw them before the failing instruction.
DumpShowsRegisters ==
    dump # <<>> => dump = [i \in 1..Len(DumpOrder) |-> before[DumpOrder[i]]]

=============================================================================
