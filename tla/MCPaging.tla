------------------------------ MODULE MCPaging ------------------------------
(***************************************************************************)
(* Tables of three entries.  Frames 13 and up are seen through the scratch *)
(* page, which is the window of frame 12.                                  *)
(***************************************************************************)
EXTENDS Paging

(* A small machine with user spaces, all of its memory below the window; a *)
(* kernel without user spaces whose heap grows into high memory; and one   *)
(* whose free memory goes on across the window, as after pmm_init, with low*)
(* frames enough for its heap.                                             *)
BootMachines ==
  { [free |-> 4 .. 11, users |-> 2],
    [free |-> {4} \cup 13 .. 18, users |-> 0],
    [free |-> 4 .. 14, users |-> 0] }

(* A user space created when low memory is used up.                        *)
LateMachines == { [free |-> 13 .. 18, users |-> 1] }

(* The heap's first page is in pd_hi[1].                                   *)
HeapStart == 2 * 27 + 1 * 9 + 1 * 3

(* Two pages of one table, one of another, and one far away.               *)
ElfPages == {0, 1, 3, 27}

(* Pages of two bytes; 108 is the limit of user memory, 162 of memory.     *)
SomeAddrs == {0, 1, 2, 3, 7, 55, 107, 108, 161}
SomeLens == {0, 1, 2, 4, 55, 161}
=============================================================================
