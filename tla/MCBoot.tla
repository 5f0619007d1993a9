------------------------------- MODULE MCBoot -------------------------------
(***************************************************************************)
(* Tables of three entries and pages of two bytes.  Frame 99 is under the  *)
(* scratch window.                                                         *)
(***************************************************************************)
EXTENDS Boot

(* Frames in low memory only, from none free to more than enough; and from *)
(* low to high memory, enough of them low, or as many as Ample asks for.   *)
SomeMachines == { [free |-> S, users |-> 1] : S \in {4 .. n : n \in 3 .. 33} \cup {60 .. 103, 4 .. 103} }
HeapStart == 2 * 27 + 1 * 9 + 1 * 3
NoAddrs == {}

Phdr(load, offset, vaddr, filesz, memsz) ==
  [load |-> load, p_offset |-> offset, p_vaddr |-> vaddr, p_filesz |-> filesz, p_memsz |-> memsz]
Image(size, phdrs) == [valid |-> TRUE, phoff |-> 1, phentsize |-> 1, size |-> size, phdrs |-> phdrs]

(* The embedded image, whose p_filesz is larger than the file; two segments*)
(* with a note between them; segments that do not start on a page, or share*)
(* one; a header that is refused; a program header behind the end, and one *)
(* so far behind that the sum wraps around.                                *)
test_elf == Image(5, <<Phdr(TRUE, 2, 12, 6, 8)>>)
SomeImages ==
  { test_elf,
    Image(9, <<Phdr(TRUE, 4, 0, 3, 5), Phdr(FALSE, 0, 0, 9, 9), Phdr(TRUE, 7, 18, 2, 2)>>),
    Image(6, <<Phdr(TRUE, 2, 13, 3, 6)>>),
    Image(6, <<Phdr(TRUE, 3, 0, 3, 3), Phdr(TRUE, 4, 2, 2, 4)>>),
    [test_elf EXCEPT !.valid = FALSE],
    [Image(3, <<Phdr(TRUE, 1, 0, 1, 1), Phdr(TRUE, 1, 2, 1, 1)>>) EXCEPT !.phentsize = 2],
    [test_elf EXCEPT !.phoff = ADDRESSES - 1] }
=============================================================================
