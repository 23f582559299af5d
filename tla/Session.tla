------------------------------ MODULE Session ------------------------------
(***************************************************************************)
(* The records of zkvm/src/session.rs that a run returns.  Only the       *)
(* fields that are not commented out in the code are kept: a Segment is    *)
(* its start pc and exit code (Segment::new takes the pre-image and drops  *)
(* it), and a Session is its segments and exit code.  Halted(u32) is the   *)
(* exit code "Halted"; the guest's code value is not modelled.            *)
(***************************************************************************)
EXTENDS Naturals, Sequences

\* ExitCode.
ExitCodes == {"SessionLimit", "Halted"}

\* Segment and Session as the types of their records.
Segments == [pc : Nat, exit_code : ExitCodes]
Sessions == [segments : Seq(Segments), exit_code : ExitCodes]

\* Segment::new(pre_image, pc, exit_code).
Segment_new(pre_image, pc, exit_code) == [pc |-> pc, exit_code |-> exit_code]

\* Session::new(segments, exit_code).
Session_new(segments, exit_code) == [segments |-> segments, exit_code |-> exit_code]

=============================================================================
