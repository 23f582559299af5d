-------------------------- MODULE MCMemoryMonitor --------------------------
(***************************************************************************)
(* Model-checking instance of MemoryMonitor.  Two-bit bytes; one region    *)
(* of 32 bytes: data at 0..7 and the shadow of x0..x2 at      *)
(* SYSTEM.start = 8; address 40 lies in no region.                         *)
(***************************************************************************)
EXTENDS MemoryMonitor

MCRegionAddr == 0..31
MCStoreAddr == {0, 4, 40}
\* Bounds of the run: two values that differ in their low byte, transactions of up to four
\* byte stores (a word store, or a byte store over a half-word one) and
\* one committed syscall keep every committed image within reach.
MCStoreValSmall == {1, 2}
CommitBound == Len(txnLog) <= 4 /\ Len(syscalls) <= 1
=============================================================================
