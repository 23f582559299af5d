# TLA+ models of the RV64 zkVM simulator

This directory holds TLA+ models of the simulator in `src/`: the rrs-lib
interpreter (`src/rrs/rrs-lib`) and the risc0 glue (`src/risc0-nova/risc0`).
The glue sits around it: a transactional memory monitor, an opcode decoder,
an ELF loader, a memory image and the session records. TLC checks them.
`PROJECT.json` lists the components, runs, mutants, the map from every
definition to the source lines it models, the findings and the hazards.

## The system

| Part | Source | State | Operations |
|---|---|---|---|
| MemoryMonitor | `zkvm/src/exec/monitor.rs` | image, `pending_writes` (BTreeSet of `(addr, byte)`), `op_result`, `syscalls`, `initial` | load_u8..u64, store_u8..u64, load_register (x2 bootstrap), store_register (x2 reset), save_op, commit, clear_segment, clear_session |
| InstructionExecutor | `rrs-lib/src/instruction_executor.rs` | HartState pc and registers, plus the memory | step(): fetch, process_instruction, pc update; one execute_* helper per instruction class |
| HartState | `rrs-lib/src/lib.rs` | 32 registers, pc, last_register_write | read_register / write_register (x0 hard-wired, the write recorded in last_register_write) |
| Decoder | `zkvm/src/opcode.rs` | none (pure) | OpCode::decode |
| ELF loader | `zkvm/src/binfmt/elf.rs` | none (pure) | Program::load_elf, symbol patching |
| MemoryImage | `zkvm/src/binfmt/image.rs` | MemorySpace with two regions | new |
| Session / Segment | `zkvm/src/session.rs` | exit code, segment pc | Segment::new, Session::new |
| r0vm | `r0vm/src/bin/r0vm.rs` | the process: started, running, exited, panicked | main: read the ELF, parse `--env`, from_elf, run, dump the registers with load_registers on error |

**How they interact.** Per spec section 4.3, the executor fetches through
the monitor. It decodes and runs one instruction. Register reads and
writes go through the monitor's `load_register`/`store_register`: the
register file is shadowed at `SYSTEM.start + 8*idx`. Memory writes only
add byte records to the pending set. After a successful instruction the
executor calls `save_op` and `commit`. Commit writes the set into the image
in the set's order and appends the syscall. A failed instruction ends the
session. Its pending writes are never committed.

r0vm's `main` drives all of it. It reads the ELF file and parses the
`--env` arguments, and any failure there panics. `Executor::from_elf` runs
`load_elf` with `max_mem = MEM_SIZE` and builds the `MemoryImage`, and its
`unwrap` panics on a loader error. It then runs the session. On `Ok`, the
process returns with the `Session`. On `Err`, it prints
`monitor.load_registers(0..32)` and panics.

The executor that connects rrs-lib to the monitor (`zkvm/src/exec/mod.rs`)
is not in the repository. Three things come from spec section 4.3 and are
marked `spec_modelled` in the map:
- the routing of registers through the monitor;
- the save_op/commit after each step;
- the step budget.

**Hard behaviours.**
- The pending writes of one step interact at commit.
- The x2 bootstrap is a pending write in the same transaction as the
  instruction that triggered it.
- A fault can land between that bootstrap and its commit.
- Assertions and unwraps in the monitor's read path turn access errors
  into panics.
- `unreachable!()` arms in the decoder panic.
- Arithmetic edges: wrap-around, sign extension, division by zero, and the
  low bit of JALR targets.

## Modules

- `RiscvBits`: fixed-width integers. A byte has `ByteBits` bits (2 in the
  runs) and a u64 is still 8 bytes. Little-endian packing
  (`ToLeBytes`, `LeValue`), `Truncate`, `Wrap` and `SignExtend` therefore
  keep the shape they have in the code.
- `Instructions`: an instruction is a record of its decoded fields. Also
  holds the ALU, branch, load-extension and AMO-extension closures of the
  `make_*_fn!` macros.
- `MemoryMonitor`: the monitor's fields as variables. Each method is an
  operator from a monitor record to the next one, so a caller can chain the
  calls of one instruction. The module's own specification lets a client:
  - store;
  - read and write registers;
  - save an op result and commit;
  - clear the segment or the session.

  These can happen in any order. Loads go through `read_mem`, which
  returns `Some` for every size and panics on a misaligned load or on an
  address outside every region. A history variable `txnLog` keeps the
  byte stores of the open transaction in call order.
- `Executor`: `step()` of `instruction_executor.rs` over the monitor. One
  action `Step` covers:
  - the reset of `last_register_write` to None, which `write_register`
    then sets to the register it writes (x0 excepted);
  - the fetch, a `read_mem` of a word at pc;
  - `process_instruction` with its `execute_*` helper, whose register and
    memory calls are chained through the monitor operators in code order;
  - the pc update;
  - `save_op` and `commit` (or, on an error, the status).

  `SessionLimit` stops at the step budget. Statuses are `running`,
  `halted`, `SessionLimit`, an `InstructionException`, or `panic` where the
  code aborts: the monitor's alignment asserts and the remuw closure's
  remainder by a zero low word (`AluPanics`).
- `Isa`: the abstract specification, i.e. what the executor promises (spec
  sections 4.3, 5 and 8):
  - one instruction per step on a byte memory that holds the register file;
  - reads see the state before the step;
  - writes land together, the last one winning;
  - x0 and x2 behave as specified;
  - a fault changes nothing.

  `Executor` maps to it by `AbsMem` (x2 reads as the initial stack pointer
  until it is bootstrapped) and `AbsStatus`. An `InstructionException`
  maps to `faulted`. A `panic` maps to `aborted`, which is no `Isa` status,
  so an abort is never an ISA step. `IsaAluOp` is the ALU of spec 4.3: the
  closures of `Instructions`, except that REMUW by a divisor whose low word
  is zero returns the zero-extended dividend. `Isa` shares the other
  closures with the executor, so the refinement checks how reads, writes
  and faults compose, not the arithmetic; the `alu_*` runs check that. Both modules record the fetched instruction in `insn`, so the
  abstract step must run the same instruction as the concrete one.
- `Decoder`: `OpCode::decode` over the fields it extracts (opcode, funct3,
  funct7, rs2; funct7_rv64 and funct5 are funct7 shifted right). The
  result is an OpCode, the illegal-opcode error, or a panic. The module's
  behaviour is a fetch loop that decodes one word per step. It also holds
  the decoder table of spec section 4.2 as a reference.
- `Alu`: the ALU closures on their own. Its behaviour picks two operands
  per step, so the algebraic laws of RISC-V multiply and divide can be
  checked on one-bit bytes (a u64 of 0..255). On larger bytes TLC's 32-bit
  integers cannot hold the 128-bit products of MULH*.
- `ElfLoader`: `Program::load_elf` as a pure operator over an abstract
  parsed file. The file is a record: the header fields, the program
  headers, a flag for the segment table, the state of the symbol table,
  the symbols, and the raw file bytes. The loader's loops are RECURSIVE
  operators:
  - `ReadWord`: the byte loop;
  - `LoadWords`: the word loop of one segment;
  - `LoadSegments`: the segment loop;
  - `PatchSymbols`: the symbol loop.

  Each stops at the first `?` error or panic, as the code does. The module
  also states the section 4.1 contract declaratively (`SpecValid`,
  `SpecImage`) as the reference to check against. Its behaviour loads one
  file per step.
- `MemoryImage`: `MemoryImage::new`, which builds a zeroed primary region
  at 0 and a playground region, then writes the program words in key order
  into the primary region only. `write_mem_word` is the word write of
  `VecMemory`, which is not under `src/`. It ignores a word outside its
  region.
- `Session`: `ExitCode`, `Segment` and `Session` as record types, with
  their constructors. Only the fields that are not commented out in the
  code are kept: the segment pc and the exit codes.
- `R0vm`: the composition, r0vm's `main` end to end. It instantiates
  `MemoryImage` (and through it `ElfLoader`) over the ELF file,
  `Executor` (and through it `MemoryMonitor`) over the memory layout of
  `MemoryImage::new`, and `Session`. Its actions:
  - `Start`: the file read, the `--env` parse, the open of
    `--initial-input` and `from_elf`, each of which can panic;
  - `Run`: one step of the executor (`Exec!Next`);
  - `Finish`: the match on the run's result, with the register dump of
    `load_registers` on an error.

  `before` is a history variable: the registers as the program saw them
  before the last step. The fetch is still abstract: a step runs any
  instruction of `Instrs`, not the loaded word. With the two-bit bytes of
  the runs, a memory word cannot hold a real encoding. The decoder is
  checked on its own instead.
- `MCMemoryMonitor`, `MCExecutor`, `MCDecoder`, `MCAlu`, `MCElfLoader`,
  `MCMemoryImage`, `MCR0vm`: the instances for TLC.

## Runs

| Run | Expect | What it shows |
|---|---|---|
| `monitor_commit` | pass | Any interleaving of stores, register bootstrap/reset, save_op, commit, clear_segment and clear_session: a commit writes each stored byte with one of the values stored there, and changes nothing else (`CommitAppliesTransaction`). 125k states. |
| `executor_refines` | pass | From a bootstrapped x2, five steps of a 32-instruction mix implement `Isa` (`ImplementsIsa`). The scope is stated in the property's comment. x2 starts bootstrapped and sp never enters the register shadow, so the first read of x2 and two writes to one byte in a step are out of scope; `executor_prologue` shows both. No step of the mix aborts: every address stays mapped and the REMUW divisor is never a multiple of 2^32. The mix is the union of `MCInstrs` and `MCAluInstrs`: prologue, every ALU class (shifts, LUI/AUIPC, ADDIW, XOR/SLT, DIV/REM/REMUW/MULW), loads, stores (one misaligned), LR/SC, AMO, branch, JALR, RDTIME, FENCE, an illegal word and ECALLs. 94658 states, about a minute. |
| `executor_prologue` | violation | Starting un-bootstrapped, `addi sp, sp, -8` reads x2, which queues the bootstrap value 24, and then queues 16. Commit iterates the BTreeSet ordered by `(addr, data)`, so the larger byte wins, not the later one (spec 4.4, 8), and x2 = 24. |
| `r0vm_dump` | violation | r0vm runs a program whose first instruction is `sw ra, 2(sp)`. It reads x2, which sets `initial` and queues the bootstrap store, and then faults. Nothing commits, so the register dump r0vm prints (`r0vm.rs:77`) shows x2 = 0 where the program saw 24 (`DumpShowsRegisters`). |
| `executor_amo_panic` | violation | `amoadd.d` on an address that is only word-aligned panics in the monitor's `load_u64` assert, where spec 5/7 require `AlignmentFault`. |
| `decode_table` | pass | Every encoding in the spec's decoder table decodes to its mnemonic and major/minor tags. This covers shifts with shamt[5] set and atomics with aq/rl bits. |
| `elf_spec` | pass | Over 1595 abstract files, `load_elf` succeeds exactly when the section 4.1 contract holds, and then returns its entry point and image. The files cover every header rejection, partial tail words, zero fill, overlapping segments, a vaddr at the top of u64, offsets past the file, and patch symbols. |
| `elf_patch` | violation | A patch symbol whose `st_value` is not in the image panics in the `image.get(..).unwrap()` of the println (`elf.rs:119`). Spec 4.1 says the loader returns an error. |
| `image_dropped` | violation | `load_elf` accepts a segment at a vaddr near 2^64, since only the checked add bounds it. `MemoryImage::new` writes only to region 0, so the word vanishes, even where the vaddr lies in the playground region. The property also fails, checked on those inputs alone, for accepted segments at vaddr 0 and 2: the loader never checks vaddr alignment, and the word at key 2 overwrites half of the word at key 0. |
| `alu_laws` | pass | Over all pairs of 16 edge operands (0, 1, -1, the i32/i64 extremes and neighbours): DIV/REM satisfy `q*b + r = a` with truncation toward zero, the remainder's sign and magnitude rule, and the divide-by-zero table. MULH/MULHU/MULHSU with MUL give the exact 128-bit product. ADDIW, MULW and REMUW are sign-extended 32-bit results. |
| `alu_remuw` | violation | The remuw closure (`instruction_executor.rs:677`) tests `b == 0` on the whole u64 and then takes `% (b as u32)`. For b = 2^32 (16 on one-bit bytes) the low word is zero, and the remainder panics. Spec 4.3 says REMUW by a zero divisor returns the zero-extended low word of the dividend, and a W instruction divides by the low 32 bits of rs2 (`RemuwZeroDivisor`). |
| `decode_panic` | violation | `LOAD` with funct3 = 7 reaches `unreachable!()`. So do the RV64I word ops (ADDW...) and CSR words. Spec 4.2 requires the illegal-opcode error. |

Every property of a passing run has a mutant in `PROJECT.json`. Each is a
plausible bug in the mapped code that TLC catches under the run's own
configuration. The mutants are:
- a byte store that loses its `as u8`;
- a commit that does not clear the pending set;
- `store_register` without the x2 reset;
- SRLI/SRAI decoded by funct7 as on RV32;
- a segment loop that reads four bytes even for a partial tail word;
- floor instead of truncating division;
- a truncating MULH;
- a zero-extending ADDIW;
- AUIPC relative to pc + 4.

## Bounds

- **Bytes.** Two-bit bytes give a u64 the range 0..65535 and keep
  carries, sign bits and byte order.
- **Monitor.**
  - Region of 32 bytes: data at 0..7 and the shadow of x0..x2 at 8.
  - Store addresses 0, 4 and 40. Address 40 is outside every region, so
    commit drops it.
  - Values: 1 and 2 (they differ in one byte).
  - Transactions of up to 4 byte stores, and up to one committed syscall.

  This reaches collisions at one byte, the bootstrap inside a
  transaction, clears between transactions, and stale pending writes.
- **Executor.**
  - Region of 56 bytes: text, data, and the shadow of x0..x2 at 32.
  - x2 starts at 24.
  - Five steps let every instruction class run after a change of sp, ra
    or memory (six steps take three minutes). The three-step runs only
    need the first step.
  - The mix shifts ra, never sp. Doubling sp from 24 puts it in the
    register shadow. There, a store and a register write of one step
    collide at commit: `sc.w ra, ra, (sp)` at sp = 40 keeps the stored
    word in x1, not the 0 that SC writes. That is the ordering defect
    `executor_prologue` already shows.
  - `remuw ra, ra, sp` divides by sp, which stays in {8, 16, 24}, so
    the panic of `alu_remuw` cannot fire there. `jalr` jumps to sp, a
    mapped address; a jump to an unmapped one aborts in the fetch.
- **ALU.** One-bit bytes, so u32 is 0..15 and u64 is 0..255. The 16
  operands are 0, 1, 2, -1, -2, the i64 minimum and maximum, the i32
  minimum and maximum, and their neighbours. Every overflow case of the
  laws (i64::MIN / -1, divisor zero, sign mixing) is among them.
- **ELF loader.** `max_mem` is 12 bytes and the header limit is 2 (for
  256). Loading is a per-segment loop, so more headers only repeat it.
  The file has 8 bytes. Segments have:
  - file sizes 0, 3, 6 and 12 (12 trips the file_size check);
  - memory sizes 4, 8 and 12;
  - vaddrs 0, 2, 4 and 2^64 - 4;
  - offsets 0, 5 and 2^64 - 2.

  This reaches a partial tail word, zero fill, a read past the file, a
  vaddr overflow and an unaligned vaddr. Overlapping pairs at vaddrs 0, 2
  and 4 cover replacement and the unaligned overlap of words, and symbol tables cover a patch inside, outside and after
  other symbols, plus an unresolvable name.
- **Memory image.** The playground base is 2^64 - 12 (for
  `0xd000000000`), so a vaddr the loader accepts can land in the
  playground.
- **r0vm.** `MEM_SIZE` is 56, so the layout of the executor runs is the
  primary region, with the playground at the top of u64. The data segment
  puts two words at 16 and 20. The entry of 2 is refused by `from_elf`.
  Five steps of the eight instructions reach every arm of `Finish`:
  - the halt and the step budget;
  - an `AlignmentFault` and an `IllegalInstruction`;
  - the monitor's panic on `amoadd.d ra, ra, (ra)` after `addi ra, sp, 4`.
- **Decoder.** Every opcode, every funct3, and funct7 values that exercise
  the SUB/SRA bit, shamt[5], all ones, and funct5 = 1..3.

## Fairness and deadlock

No property is a liveness property, and no specification assumes
fairness. The simulator is single-threaded and strictly sequential
(spec section 5). What would have to happen eventually is that a run
ends. That depends on the session driver's budget loop in `exec/mod.rs`,
which is not in the repository. `SessionLimit` models that budget from
the spec, so a termination property would check the model's own bound,
not the code.

The process ends when it exits or panics, so the executor and r0vm runs
set `CHECK_DEADLOCK FALSE`. The monitor, decoder, ALU and loader runs
check deadlock.

Some actions bind the results of `process_instruction`, of the committed
monitor and of `load_elf` with `\E x \in {e}`, not LET. This means the
same thing and evaluates each once. The commit loop, `WriteInOrder`, is
stated by its effect: each address ends with the greatest of its records
in BTreeSet order, the one the loop writes last. It is not a recursion
over the set.

## Not modelled

- Termination. The step budget lives in the session driver
  (`exec/mod.rs`), which is not in the repository (see above).

- The ELF parser of the elf crate. The loader model starts from what it
  returns.
- r0vm's argument parsing, logging, `--verbose`, `--receipt` and the
  contents of `--initial-input`. The guest's stdin is read by no modelled
  instruction. A failed file read, an `--env` without `=` and a failed
  open of `--initial-input` are kept, as the booleans `readable`,
  `env_ok` and `stdin_ok`.
- The fetch of the loaded word (see `R0vm` above).
- A second session on one monitor. `clear_session` (`monitor.rs:237`)
  leaves `initial` and `op_result` set. But no code under `src/` calls it:
  the driver that would (`exec/mod.rs`) is not in the repository, and
  r0vm runs one session. The operation is in `MemoryMonitor`'s own
  specification, and the hazard is not listed.
- `align_up` and the rest of the `zkvm` crate root (`lib.rs`): re-exports
  and the build's constants. Nothing under `src/` calls `align_up`.
- `load_string` and `restore_op` of the monitor. Both only read, and no
  code under `src/` calls them: the syscall handlers that would are in
  `exec/mod.rs`, which is not in the repository.
- The formatting helpers of the decoder.
- The rrs-lib `InstructionProcessor` trait and the RV32 decode paths of
  `lib.rs`, which the zkvm executor does not use. It decodes with
  `OpCode::decode`.
