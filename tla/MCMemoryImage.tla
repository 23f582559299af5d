--------------------------- MODULE MCMemoryImage ---------------------------
(***************************************************************************)
(* Model-checking instance of MemoryImage: the ELF files of MCElfLoader,  *)
(* a primary region as large as max_mem, and a playground whose last word *)
(* is the almost-overflowing vaddr of those files.                        *)
(***************************************************************************)
EXTENDS MemoryImage, MCElfLoader

MCPlaygroundBase == Span(8) - MCMaxMem
=============================================================================
