---------------------------- MODULE MemoryImage ----------------------------
(***************************************************************************)
(* MemoryImage::new of zkvm/src/binfmt/image.rs, composed with the ELF    *)
(* loader that produces its Program.                                      *)
(*                                                                         *)
(* The memory space has two regions of MEM_SIZE bytes: the primary region *)
(* at 0, into which every program word is written with write_mem of a     *)
(* MemAccessSize::Word, and the zeroed playground at PLAYGROUND_BASE       *)
(* (0xd000000000).  The return value of write_mem is discarded.  The       *)
(* memory is a function from the addresses of both regions to bytes.      *)
(***************************************************************************)
EXTENDS ElfLoader, SequencesExt

CONSTANTS MEM_SIZE, PLAYGROUND_BASE

ASSUME MEM_SIZE <= PLAYGROUND_BASE /\ PLAYGROUND_BASE + MEM_SIZE <= Span(8)

PrimaryAddr == 0..(MEM_SIZE - 1)
PlaygroundAddr == PLAYGROUND_BASE..(PLAYGROUND_BASE + MEM_SIZE - 1)
RegionAddr == PrimaryAddr \cup PlaygroundAddr

\* The bytes a Word access at addr touches.
WordAddrs(addr) == addr..(addr + WORD_SIZE - 1)

(***************************************************************************)
(* VecMemory::write_mem(addr, Word, data) on the memory of one region     *)
(* (spec 4.3, region dispatch): the four little-endian bytes when the     *)
(* word lies in the region; otherwise the write returns false and the     *)
(* memory is unchanged.                                                    *)
(***************************************************************************)
write_mem_word(mem, region, addr, data) ==
    IF WordAddrs(addr) \subseteq region
    THEN [a \in DOMAIN mem |->
            IF a \in WordAddrs(addr) THEN ToLeBytes(data, WORD_SIZE)[a - addr] ELSE mem[a]]
    ELSE mem

\* image.rs:64-66: `for (addr, data) in program.image.iter()`, in the
\* ascending key order of the BTreeMap, into the primary region.
RECURSIVE WriteProgram(_, _, _)
WriteProgram(mem, image, keys) ==
    IF keys = <<>> THEN mem
    ELSE WriteProgram(write_mem_word(mem, PrimaryAddr, Head(keys), image[Head(keys)]),
                      image, Tail(keys))

\* MemoryImage::new, image.rs:51-77: both regions zeroed, the program
\* written into the primary one.
new(program) ==
    WriteProgram([a \in RegionAddr |-> 0], program.image,
                 SetToSortSeq(DOMAIN program.image, <))

\* The u32 a Word read at addr returns from a memory.
WordAt(mem, addr) == LeValue([j \in 0..(WORD_SIZE - 1) |-> mem[addr + j]], WORD_SIZE)

-----------------------------------------------------------------------------
\* Every word of a loaded program is in the memory image that
\* MemoryImage::new builds from it (spec 3: the primary region is
\* "initialised from the program image"): the address is mapped and a Word
\* read there returns the program's word.  image.rs:65 drops the result of
\* write_mem, so a word the primary region cannot hold would vanish.
ProgramInMemoryImage ==
    LET r == load_elf(input)
    IN  r.kind = "ok" =>
            \A a \in DOMAIN r.image :
                /\ WordAddrs(a) \subseteq RegionAddr
                /\ WordAt(new(r), a) = r.image[a]

=============================================================================
