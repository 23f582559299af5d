----------------------------- MODULE ElfLoader -----------------------------
(***************************************************************************)
(* Program::load_elf of zkvm/src/binfmt/elf.rs.                            *)
(*                                                                         *)
(* The loader is a pure function from the ELF file to a Program (entry and *)
(* a BTreeMap from address to u32 word) or an error; its unwraps and       *)
(* expects panic.  The ELF parser (the elf crate) is not modelled: an      *)
(* input is the record of what the loader reads through it (header        *)
(* fields; has_segments: segments() is Some; the program headers;         *)
(* symbol_table: "Err", "None" or "Some" as symbol_table() returns; the   *)
(* symbols) and the raw file bytes that the segment loop indexes with     *)
(* input.get().  A file byte is a modelled Byte and a word is 4 of them   *)
(* (RiscvBits); addresses and sizes are u64.                              *)
(*                                                                         *)
(* The behaviour of the module is a loop that loads one input per step,   *)
(* so that every input of the model is an initial or reachable state.     *)
(***************************************************************************)
EXTENDS RiscvBits, Sequences, TLC

CONSTANTS
    MaxMem,             \* the max_mem argument
    MaxProgramHeaders,  \* the literal 256 of `segments.len() > 256`
    Names,              \* symbol names that the string table resolves
    PatchSet,           \* the names of the match arm at elf.rs:89-109
    NoName,             \* an st_name that strtab.get() does not resolve
    RetWord,            \* the u32 0x00008067 (`ret`)
    Inputs              \* the ELF files the model loads

ASSUME PatchSet \subseteq Names /\ NoName \notin Names
ASSUME RetWord \in 0..(Span(4) - 1)

VARIABLE input

(***************************************************************************)
(* Results: anyhow's Err, a panic, or Ok with the payload of the step.    *)
(***************************************************************************)
Err(why) == [kind |-> "error", why |-> why]
Panic(why) == [kind |-> "panic", why |-> why]
Ok(entry, image) == [kind |-> "ok", entry |-> entry, image |-> image]
Failed(r) == r.kind # "ok"

(***************************************************************************)
(* elf.rs:68-76: the little-endian word of the len <= 4 file bytes at     *)
(* offset + i, read with input.get(); `word |= byte << (j * 8)`.  The     *)
(* u64 sum offset + i + j cannot overflow: the read at offset + 0 comes   *)
(* first and succeeds only if offset < input.len().                       *)
(***************************************************************************)
RECURSIVE ReadWord(_, _, _, _, _, _)
ReadWord(bytes, offset, i, j, len, word) ==
    LET at == offset + i + j
    IN  CASE j = len                       -> [kind |-> "ok", word |-> word]
          [] at >= Len(bytes)              -> Err("Invalid segment offset")
          [] OTHER -> ReadWord(bytes, offset, i, j + 1, len,
                               word + bytes[at + 1] * Span(j))

(***************************************************************************)
(* elf.rs:62-78: `for i in (0..mem_size).step_by(4)` over one PT_LOAD     *)
(* segment, inserting one word per address (BTreeMap::insert replaces).   *)
(* The address is vaddr.checked_add(i); past file_size the word is zero.  *)
(***************************************************************************)
RECURSIVE LoadWords(_, _, _, _)

\* A loop that reads four file bytes even for the partial word at p_filesz.
LoadWordsNoMin(bytes, seg, i, image) ==
    LET addr == seg.p_vaddr + i
        read == ReadWord(bytes, seg.p_offset, i, 0, 4, 0)
    IN  CASE i >= seg.p_memsz       -> [kind |-> "ok", image |-> image]
          [] addr >= Span(8)        -> Err("Invalid segment vaddr")
          [] i >= seg.p_filesz      -> LoadWords(bytes, seg, i + 4, (addr :> 0) @@ image)
          [] Failed(read)           -> read
          [] OTHER -> LoadWords(bytes, seg, i + 4, (addr :> read.word) @@ image)

LoadWords(bytes, seg, i, image) ==
    LET addr == seg.p_vaddr + i
        len  == IF seg.p_filesz - i < 4 THEN seg.p_filesz - i ELSE 4
        read == ReadWord(bytes, seg.p_offset, i, 0, len, 0)
    IN  CASE i >= seg.p_memsz       -> [kind |-> "ok", image |-> image]
          [] addr >= Span(8)        -> Err("Invalid segment vaddr")
          [] i >= seg.p_filesz      -> LoadWords(bytes, seg, i + 4, (addr :> 0) @@ image)
          [] Failed(read)           -> read
          [] OTHER -> LoadWords(bytes, seg, i + 4, (addr :> read.word) @@ image)

\* elf.rs:51-59: the size checks of one PT_LOAD segment, then its words.
LoadSegment(bytes, seg, image) ==
    CASE seg.p_filesz >= MaxMem -> Err("Invalid segment file_size")
      [] seg.p_memsz >= MaxMem  -> Err("Invalid segment mem_size")
      [] OTHER                  -> LoadWords(bytes, seg, 0, image)

\* elf.rs:51: the segments that are loaded, in program-header order.
Loadable(segs) == SelectSeq(segs, LAMBDA seg : seg.p_type = "PT_LOAD")

\* elf.rs:51-79: the loop over the PT_LOAD segments, stopping at an error.
RECURSIVE LoadSegments(_, _, _)
LoadSegments(bytes, segs, image) ==
    IF segs = <<>> THEN [kind |-> "ok", image |-> image]
    ELSE LET r == LoadSegment(bytes, Head(segs), image)
         IN  IF Failed(r) THEN r ELSE LoadSegments(bytes, Tail(segs), r.image)

(***************************************************************************)
(* elf.rs:86-126: for each symbol in table order, `strtab.get(st_name)    *)
(* .unwrap()`; for a name of the patch set, `image.get(&st_value)         *)
(* .unwrap()` (evaluated for the println) and then the insert of `ret`.  *)
(***************************************************************************)
RECURSIVE PatchSymbols(_, _)
PatchSymbols(syms, image) ==
    LET sym == Head(syms)
    IN  CASE syms = <<>>                  -> [kind |-> "ok", image |-> image]
          [] sym.st_name = NoName         -> Panic("strtab.get unwrap on None")
          [] sym.st_name \notin PatchSet  -> PatchSymbols(Tail(syms), image)
          [] sym.st_value \notin DOMAIN image -> Panic("image.get unwrap on None")
          [] OTHER -> PatchSymbols(Tail(syms), (sym.st_value :> RetWord) @@ image)

(***************************************************************************)
(* Program::load_elf, elf.rs:31-129.  The header checks run in code order *)
(* and fail fast; symbol_table() is read only after the projection and    *)
(* its two expects panic.                                                  *)
(***************************************************************************)
load_elf(elf) ==
    LET loaded  == LoadSegments(elf.bytes, Loadable(elf.segments), <<>>)
        patched == PatchSymbols(elf.symtab, loaded.image)
    IN  CASE ~elf.parses                   -> Err("minimal_parse")
          [] elf.class # "ELF64"           -> Err("Not a 64-bit ELF")
          [] elf.machine # "EM_RISCV"      -> Err("Invalid machine type, must be RISC-V")
          [] elf.type # "ET_EXEC"          -> Err("Invalid ELF type, must be executable")
          [] elf.entry >= MaxMem \/ elf.entry % 4 # 0 -> Err("Invalid entrypoint")
          [] ~elf.has_segments             -> Err("Missing segment table")
          [] Len(elf.segments) > MaxProgramHeaders -> Err("Too many program headers")
          [] Failed(loaded)                -> loaded
          [] elf.symbol_table = "Err"      -> Panic("Failed to read symbol table")
          [] elf.symbol_table = "None"     -> Panic("Failed to find strtab table")
          [] Failed(patched)               -> patched
          [] OTHER                         -> Ok(elf.entry, patched.image)

-----------------------------------------------------------------------------
(***************************************************************************)
(* Reference: the contract of spec section 4.1, stated declaratively.     *)
(***************************************************************************)
SpecLoads(elf) == Loadable(elf.segments)

\* The offsets i = 0, 4, 8, ... below p_memsz that the projection walks.
Walk(seg) == {i \in 0..(seg.p_memsz - 1) : i % 4 = 0}

\* The file indices the projection reads for a segment.
FileReads(seg) ==
    UNION {{seg.p_offset + i + j : j \in {b \in 0..3 : i + b < seg.p_filesz}} :
              i \in Walk(seg)}

\* The addresses a segment projects to.
SegAddrs(seg) == {seg.p_vaddr + i : i \in Walk(seg)}

\* The word a segment projects to address a: zero past p_filesz, else the
\* little-endian value of at most four file bytes from p_offset + i.
SpecWord(bytes, seg, a) ==
    LET i == a - seg.p_vaddr
        n == IF seg.p_filesz - i < 4 THEN seg.p_filesz - i ELSE 4
    IN  IF i >= seg.p_filesz THEN 0
        ELSE LeValue([j \in 0..(n - 1) |-> bytes[seg.p_offset + i + j + 1]], n)

\* The addresses overwritten with `ret`.
PatchedAddrs(elf) ==
    {elf.symtab[k].st_value : k \in {k \in DOMAIN elf.symtab :
                                       elf.symtab[k].st_name \in PatchSet}}

\* Checks 1-5 of the contract and the bounds of the file reads.
SpecProjects(elf) ==
    /\ elf.parses /\ elf.class = "ELF64"
    /\ elf.machine = "EM_RISCV" /\ elf.type = "ET_EXEC"
    /\ elf.entry < MaxMem /\ elf.entry % 4 = 0
    /\ elf.has_segments /\ Len(elf.segments) <= MaxProgramHeaders
    /\ \A k \in DOMAIN SpecLoads(elf) :
          LET seg == SpecLoads(elf)[k]
          IN  /\ seg.p_filesz < MaxMem /\ seg.p_memsz < MaxMem
              /\ \A i \in Walk(seg) : seg.p_vaddr + i < Span(8)
              /\ \A f \in FileReads(seg) : f < Len(elf.bytes)

\* The symbol and string tables are present and resolve every name.
SymbolsResolve(elf) ==
    /\ elf.symbol_table = "Some"
    /\ \A k \in DOMAIN elf.symtab : elf.symtab[k].st_name # NoName

\* Every patched address is one the projection produced.
PatchesInImage(elf) ==
    PatchedAddrs(elf) \subseteq
        UNION {SegAddrs(SpecLoads(elf)[k]) : k \in DOMAIN SpecLoads(elf)}

SpecValid(elf) == SpecProjects(elf) /\ SymbolsResolve(elf) /\ PatchesInImage(elf)

\* The image: `ret` at a patched address, otherwise the word of the last
\* PT_LOAD segment that covers the address.
SpecImage(elf) ==
    LET segs  == SpecLoads(elf)
        addrs == UNION {SegAddrs(segs[k]) : k \in DOMAIN segs}
        last(a) == CHOOSE k \in DOMAIN segs :
                      /\ a \in SegAddrs(segs[k])
                      /\ \A m \in DOMAIN segs : a \in SegAddrs(segs[m]) => m <= k
    IN  [a \in addrs |-> IF a \in PatchedAddrs(elf) THEN RetWord
                         ELSE SpecWord(elf.bytes, segs[last(a)], a)]

-----------------------------------------------------------------------------
Init == input \in Inputs

\* Load the next file.
Load == input' \in Inputs

Next == Load

Spec == Init /\ [][Next]_input

-----------------------------------------------------------------------------
(***************************************************************************)
(* Properties.                                                             *)
(***************************************************************************)

\* load_elf (elf.rs:31-129) accepts exactly the files the contract of spec
\* 4.1 accepts, and then returns the entry point and the image the
\* contract's projection and patch table describe: words zero-filled past
\* p_filesz, partial tail words, later segments replacing earlier ones,
\* `ret` at every patched symbol.
LoadElfMatchesSpec ==
    LET r == load_elf(input)
    IN  /\ (r.kind = "ok") = SpecValid(input)
        /\ r.kind = "ok" => /\ r.entry = input.entry
                            /\ r.image = SpecImage(input)

\* A file that projects and whose symbols resolve, but which names a patch
\* symbol whose st_value is not in the image, makes the loader fail with an
\* error (spec 4.1: "the loader fails with a diagnostic error"), not abort
\* the process in the `image.get(&entry.st_value).unwrap()` of the
\* println at elf.rs:119.
MissingPatchSymbolIsError ==
    /\ SpecProjects(input) /\ SymbolsResolve(input) /\ ~PatchesInImage(input)
    => load_elf(input).kind = "error"

====
