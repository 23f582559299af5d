---------------------------- MODULE MCElfLoader ----------------------------
(***************************************************************************)
(* Model-checking instance of ElfLoader.  max_mem is 12, so sizes 0..11   *)
(* pass the size checks and 12 fails them; the program-header limit is 2  *)
(* instead of 256 so that a table of 3 headers exceeds it.  The file has  *)
(* 8 bytes; u64 addresses wrap at Span(8) = 65536.                        *)
(***************************************************************************)
EXTENDS ElfLoader

CONSTANTS nA, nB, noName

MCMaxMem == 12
MCFileBytes == <<1, 2, 3, 0, 2, 1, 3, 1>>

\* A valid header with the given program headers and symbol table.
MCElf(segs, syms) ==
    [parses |-> TRUE, class |-> "ELF64", machine |-> "EM_RISCV", type |-> "ET_EXEC",
     entry |-> 0, has_segments |-> TRUE, segments |-> segs,
     symbol_table |-> "Some", symtab |-> syms, bytes |-> MCFileBytes]

\* Program headers: PT_LOAD or not; file sizes 0, a partial word, past
\* the file from offset 5 and max_mem; memory sizes of 1 and 2 words and max_mem;
\* a word-aligned, an unaligned and an almost-overflowing vaddr; offsets
\* at the start, in the middle and past the end of the file.
MCSegs ==
    [p_type : {"PT_LOAD", "PT_NOTE"}, p_filesz : {0, 3, 6, 12}, p_memsz : {4, 8, 12},
     p_vaddr : {0, 2, 4, Span(8) - 4}, p_offset : {0, 5, Span(8) - 2}]

\* Overlapping loadable segments, for "later segments replace earlier";
\* vaddr 2 overlaps the words of a segment at 0 or 4 without sharing a key.
MCOverlap ==
    [p_type : {"PT_LOAD"}, p_filesz : {3, 6}, p_memsz : {8}, p_vaddr : {0, 2, 4},
     p_offset : {0, 2}]

Sym(name, value) == [st_name |-> name, st_value |-> value]

\* Symbol tables: none patched, a patched symbol at 0 and at 4 (in the
\* image when the segment is at 0 and 8 bytes long), an unresolved name.
MCSymtabs ==
    {<<>>, <<Sym(nB, 0)>>, <<Sym(nA, 0)>>, <<Sym(nB, 4), Sym(nA, 4)>>,
     <<Sym(noName, 0)>>}

MCInputs ==
    {MCElf(<<seg>>, syms) : seg \in MCSegs, syms \in MCSymtabs}
    \cup {MCElf(<<s1, s2>>, <<Sym(nA, 4)>>) : s1, s2 \in MCOverlap}
    \cup {MCElf(<<>>, <<>>), MCElf([k \in 1..3 |-> CHOOSE s \in MCOverlap : TRUE], <<>>)}
    \cup {[MCElf(<<>>, <<>>) EXCEPT !.symbol_table = r] : r \in {"Err", "None"}}
    \cup {[MCElf(<<>>, <<>>) EXCEPT !.has_segments = FALSE],
          [MCElf(<<>>, <<>>) EXCEPT !.parses = FALSE],
          [MCElf(<<>>, <<>>) EXCEPT !.class = "ELF32"],
          [MCElf(<<>>, <<>>) EXCEPT !.machine = "EM_X86_64"],
          [MCElf(<<>>, <<>>) EXCEPT !.type = "ET_DYN"],
          [MCElf(<<>>, <<>>) EXCEPT !.entry = 2],
          [MCElf(<<>>, <<>>) EXCEPT !.entry = MCMaxMem]}
=============================================================================
