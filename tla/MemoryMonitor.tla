--------------------------- MODULE MemoryMonitor ---------------------------
(***************************************************************************)
(* The MemoryMonitor of risc0/zkvm/src/exec/monitor.rs.                    *)
(*                                                                         *)
(* It sits between the executor and the MemoryImage: loads read the       *)
(* committed image, stores only add (addr, byte) records to the            *)
(* pending_writes BTreeSet, and commit() writes that set into the image in *)
(* the set's order, then appends the saved op result's syscall.  The       *)
(* register file lives in the image at SYSTEM.start + 8*idx, and the      *)
(* first read of x2 bootstraps the stack pointer.                          *)
(*                                                                         *)
(* Every operation is an operator from a monitor state s (a record with    *)
(* the struct's fields) to the next one, so that the executor can chain    *)
(* the calls one instruction makes.  The module's own specification lets  *)
(* a client call the operations in any order the executor can.            *)
(***************************************************************************)
EXTENDS RiscvBits, SequencesExt

CONSTANTS
    RegionAddr,             \* byte addresses that lie in some region of the MemorySpace
    SYSTEM_START,           \* SYSTEM.start(): base of the register shadow
    STACK_INITIAL_ADDRESS,  \* the value the x2 bootstrap stores
    RegIdx,                 \* register indices the model uses (a subset of 0..31)
    Syscall,                \* syscall records (model values)
    NoSyscall,              \* OpCodeResult.syscall = None
    NoOp                    \* op_result = None

ASSUME RegIdx \subseteq 0..31 /\ 2 \in RegIdx
ASSUME STACK_INITIAL_ADDRESS \in U64 \ {0}

VARIABLES
    image,           \* the MemoryImage: region byte address -> byte
    pending_writes,  \* BTreeSet<MemStore>: set of <<addr, data>>
    op_result,       \* Option<OpCodeResult>
    syscalls,        \* Vec<SyscallRecord>
    initial,         \* has x2 been bootstrapped
    txnLog           \* history: the byte stores of the open transaction, in call order

monVars == <<image, pending_writes, op_result, syscalls, initial>>
vars == <<monVars, txnLog>>

OpResult == [syscall : Syscall \cup {NoSyscall}]

\* The monitor's fields as one record, and the step that makes a record current.
Mon == [image |-> image, pending_writes |-> pending_writes, op_result |-> op_result,
        syscalls |-> syscalls, initial |-> initial]
Become(s) ==
    /\ image' = s.image
    /\ pending_writes' = s.pending_writes
    /\ op_result' = s.op_result
    /\ syscalls' = s.syscalls
    /\ initial' = s.initial

-----------------------------------------------------------------------------
(* Operations.                                                             *)

get_register_addr(idx) == SYSTEM_START + idx * DOUBLE_WORD_SIZE

\* load_u16/32/64 assert alignment and load_u8 unwraps the region lookup:
\* a load that fails this test panics.
CanLoad(addr, n) ==
    /\ Aligned(addr, n)
    /\ \A i \in 0..(n - 1) : addr + i \in RegionAddr

\* load_u8 .. load_u64 via load_array: little-endian bytes of the image.
LoadN(s, addr, n) == LeValue([i \in 0..(n - 1) |-> s.image[addr + i]], n)

\* <MemoryMonitor as Memory>::read_mem: Some(load_uN(addr)) by size, so it
\* never returns None; a load that CanLoad rejects panics instead.
read_mem(s, addr, n) ==
    IF CanLoad(addr, n) THEN [panic |-> FALSE, val |-> LoadN(s, addr, n)]
    ELSE [panic |-> TRUE, val |-> 0]

\* Mutant: the `as u8` of write_mem's Byte case and of to_le_bytes lost.
WriteMemUntruncated(s, addr, n, data) ==
    [s EXCEPT !.pending_writes =
        @ \cup {<<addr + i, data \div Span(i)>> : i \in 0..(n - 1)}]

\* write_mem -> store_u8 / store_u16..u64 -> store_region -> store_u8:
\* one pending record per byte of data.to_le_bytes().
WriteMem(s, addr, n, data) ==
    [s EXCEPT !.pending_writes =
        @ \cup {<<addr + i, ToLeBytes(data, n)[i]>> : i \in 0..(n - 1)}]

\* load_register: the first read of x2 stores STACK_INITIAL_ADDRESS as a
\* pending write and returns it; other reads load the committed slot.
load_register(s, idx) ==
    IF idx = 2 /\ ~s.initial
    THEN [st  |-> WriteMem([s EXCEPT !.initial = TRUE], get_register_addr(2),
                           DOUBLE_WORD_SIZE, STACK_INITIAL_ADDRESS),
          val |-> STACK_INITIAL_ADDRESS]
    ELSE [st |-> s, val |-> LoadN(s, get_register_addr(idx), DOUBLE_WORD_SIZE)]

\* load_registers: load_register of each index in array order, so a read
\* of x2 may bootstrap it part way through.
RECURSIVE load_registers(_, _)
load_registers(s, idxs) ==
    IF idxs = <<>> THEN [st |-> s, vals |-> <<>>]
    ELSE LET r    == load_register(s, Head(idxs))
             rest == load_registers(r.st, Tail(idxs))
         IN  [st |-> rest.st, vals |-> <<r.val>> \o rest.vals]

\* Mutant: store_register without the defensive reset of x2.
StoreRegisterNoReset(s, idx, data) ==
    WriteMem(s, get_register_addr(idx), DOUBLE_WORD_SIZE, data)

\* store_register: a zero stored to x2 is replaced by STACK_INITIAL_ADDRESS.
store_register(s, idx, data) ==
    WriteMem(s, get_register_addr(idx), DOUBLE_WORD_SIZE,
             IF idx = 2 /\ data = 0 THEN STACK_INITIAL_ADDRESS ELSE data)

save_op(s, op) == [s EXCEPT !.op_result = op]

\* MemStore derives Ord on (addr, data): the BTreeSet iterates in that order.
MemStoreLess(x, y) == x[1] < y[1] \/ (x[1] = y[1] /\ x[2] < y[2])

\* The record the for loop of commit writes last at address a: the loop
\* runs in BTreeSet order, so it is the greatest record at a.
LastWrite(S, a) == CHOOSE w \in S : w[1] = a /\ \A x \in S : x[1] = a => ~MemStoreLess(w, x)

\* The for loop of commit: memory_space.write_mem(addr, Byte, data) of
\* every record of S in order, each address ending with the byte written
\* last.  A record outside every region is not written (write_mem returns
\* false and the loop only logs it).
WriteInOrder(img, S) ==
    [a \in DOMAIN img |-> IF \E w \in S : w[1] = a THEN LastWrite(S, a)[2] ELSE img[a]]

\* Mutant: commit without pending_writes.clear().
CommitKeepPending(s) ==
    [s EXCEPT
        !.image = WriteInOrder(@, s.pending_writes),
        !.op_result = NoOp,
        !.syscalls = IF s.op_result.syscall = NoSyscall THEN @
                     ELSE Append(@, s.op_result.syscall)]

\* commit: write the pending set in BTreeSet order, clear it, take the op
\* result (unwrap: the executor always saved one) and append its syscall.
commit(s) ==
    [s EXCEPT
        !.image = WriteInOrder(@, s.pending_writes),
        !.pending_writes = {},
        !.op_result = NoOp,
        !.syscalls = IF s.op_result.syscall = NoSyscall THEN @
                     ELSE Append(@, s.op_result.syscall)]

clear_segment(s) == [s EXCEPT !.syscalls = <<>>]

clear_session(s) == [clear_segment(s) EXCEPT !.pending_writes = {}]

-----------------------------------------------------------------------------
(* The monitor driven by a client.  Stores are aligned, as the executor    *)
(* checks alignment before it calls write_mem; commit follows a save_op.   *)

CONSTANTS
    StoreAddr,      \* addresses a client stores to
    StoreVal        \* values a client stores

\* The byte stores a call adds to the open transaction, in call order.
ByteStores(addr, n, data) == [i \in 1..n |-> <<addr + i - 1, ToLeBytes(data, n)[i - 1]>>]

Init ==
    /\ image = [a \in RegionAddr |-> 0]
    /\ pending_writes = {}
    /\ op_result = NoOp
    /\ syscalls = <<>>
    /\ initial = FALSE
    /\ txnLog = <<>>

Store(addr, n, data) ==
    /\ Aligned(addr, n)
    /\ Become(WriteMem(Mon, addr, n, data))
    /\ txnLog' = txnLog \o ByteStores(addr, n, data)

LoadRegister(idx) ==
    /\ Become(load_register(Mon, idx).st)
    /\ txnLog' = IF idx = 2 /\ ~initial
                 THEN txnLog \o ByteStores(get_register_addr(2), 8, STACK_INITIAL_ADDRESS)
                 ELSE txnLog

StoreRegister(idx, data) ==
    /\ Become(store_register(Mon, idx, data))
    /\ txnLog' = txnLog \o ByteStores(get_register_addr(idx), 8,
                              IF idx = 2 /\ data = 0 THEN STACK_INITIAL_ADDRESS ELSE data)

SaveOp(op) ==
    /\ Become(save_op(Mon, op))
    /\ UNCHANGED txnLog

Commit ==
    /\ op_result # NoOp
    /\ Become(commit(Mon))
    /\ txnLog' = <<>>

ClearSegment ==
    /\ Become(clear_segment(Mon))
    /\ UNCHANGED txnLog

ClearSession ==
    /\ Become(clear_session(Mon))
    /\ txnLog' = <<>>

Next ==
    \/ \E a \in StoreAddr, n \in Sizes, d \in StoreVal : Store(a, n, d)
    \/ \E i \in RegIdx : LoadRegister(i)
    \/ \E i \in RegIdx, d \in StoreVal : StoreRegister(i, d)
    \/ \E op \in OpResult : SaveOp(op)
    \/ Commit
    \/ ClearSegment
    \/ ClearSession

Spec == Init /\ [][Next]_vars

-----------------------------------------------------------------------------
(* Properties.                                                             *)

TypeOK ==
    /\ image \in [RegionAddr -> Byte]
    /\ pending_writes \subseteq (Nat \X Byte)
    /\ op_result \in OpResult \cup {NoOp}
    /\ syscalls \in Seq(Syscall)
    /\ initial \in BOOLEAN

\* The bytes the open transaction stored at address a.
StoredAt(a) == {txnLog[k][2] : k \in {j \in DOMAIN txnLog : txnLog[j][1] = a}}

\* commit() publishes exactly the open transaction: every region byte it
\* stored to ends holding one of the bytes stored there, and every other
\* byte of the image keeps its value, however stores, register bootstraps,
\* clear_segment and clear_session interleave with earlier commits
\* (monitor.rs commit, store_u8, clear_session; spec section 4.4).
CommitAppliesTransaction ==
    [][Commit =>
        \A a \in RegionAddr :
            image'[a] \in IF StoredAt(a) = {} THEN {image[a]} ELSE StoredAt(a)]_vars

=============================================================================
