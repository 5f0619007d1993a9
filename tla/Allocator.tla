----------------------------- MODULE Allocator -----------------------------
(***************************************************************************)
(* What kmalloc, kmalloc_aligned and kfree promise their callers: memory   *)
(* that overlaps nothing another caller holds, until it is freed.          *)
(***************************************************************************)
EXTENDS Naturals

VARIABLE live      \* the pieces of memory held: [ptr, asked]

Init == live = {}

Apart(p, q) == p.ptr + p.asked <= q.ptr \/ q.ptr + q.asked <= p.ptr

Alloc(p) ==
  /\ \A q \in live : Apart(p, q)
  /\ live' = live \cup {p}

FreePiece(p) == live' = live \ {p}

Next ==
  \/ \E p \in live' \ live : Alloc(p)
  \/ \E p \in live : FreePiece(p)

Spec == Init /\ [][Next]_live
=============================================================================
