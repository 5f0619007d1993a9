------------------------------- MODULE MCPmm -------------------------------
(***************************************************************************)
(* A machine of at most nine frames of two bytes.  BIOS memory is frame 0, *)
(* the image ends in the middle of frame 1, and with a bitmap word of five *)
(* bits and one byte the bitmap ends in the middle of frame 2.             *)
(***************************************************************************)
EXTENDS Pmm

Entry(base, len, available) == [base |-> base, len |-> len, available |-> available]

(* All of memory, beyond what the bitmap can track; reserved memory in the *)
(* middle, in address order and against it; a reserved region that covers  *)
(* half of each of two frames called available before.                     *)
Maps == {
  <<Entry(0, 20, TRUE)>>,
  <<Entry(0, 2, FALSE), Entry(2, 8, TRUE), Entry(10, 2, FALSE), Entry(12, 4, TRUE)>>,
  <<Entry(12, 6, TRUE), Entry(10, 2, FALSE), Entry(0, 10, TRUE)>>,
  <<Entry(0, 16, TRUE), Entry(9, 2, FALSE)>> }

AnyRam == SUBSET (0 .. 8)
=============================================================================
