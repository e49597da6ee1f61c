----------------------------- MODULE AllocSpec -----------------------------
(***************************************************************************)
(* What mm.h promises of malloc, free, realloc and calloc, without blocks, *)
(* headers or lists: the client holds regions of the heap that are aligned *)
(* to 16 bytes, lie inside it and never overlap; a region does not move or *)
(* change size while it is held, except by realloc; a call may always fail *)
(* and then takes nothing away; the heap grows and never shrinks until the *)
(* driver starts over.                                                     *)
(***************************************************************************)
EXTENDS Integers

CONSTANT MaxHeap

VARIABLES regions,   \* the regions the client holds: records [ptr, size]
          hi         \* the size of the heap

vars == << regions, hi >>

Apart(r, s) == r.ptr + r.size <= s.ptr \/ s.ptr + s.size <= r.ptr

(***************************************************************************)
(* A region that may be handed out beside the ones already held.           *)
(***************************************************************************)
Fresh(r) ==
  /\ r.ptr % 16 = 0 /\ 0 < r.ptr /\ 0 < r.size /\ r.ptr + r.size <= hi'
  /\ \A s \in regions : Apart(r, s)

Init == regions = {} /\ hi = 0

Grow == hi <= hi' /\ hi' <= MaxHeap

Allocate ==
  /\ Grow
  /\ \E r \in regions' : Fresh(r) /\ regions' = regions \cup {r}

Fail == Grow /\ regions' = regions

Release ==
  /\ hi' = hi
  /\ \E r \in regions : regions' = regions \ {r}

(***************************************************************************)
(* realloc: the new region is apart from the old one too, whose content it *)
(* takes over.                                                             *)
(***************************************************************************)
Move ==
  /\ Grow
  /\ \E old \in regions, new \in regions' :
       Fresh(new) /\ regions' = (regions \ {old}) \cup {new}

Restart == regions' = {} /\ 0 <= hi' /\ hi' <= MaxHeap

Next == Allocate \/ Fail \/ Release \/ Move \/ Restart

Spec == Init /\ [][Next]_vars

(***************************************************************************)
(* No two regions a client holds share a byte, and all lie in the heap.    *)
(***************************************************************************)
NoOverlap ==
  /\ \A r \in regions : 0 < r.ptr /\ 0 < r.size /\ r.ptr + r.size <= hi
  /\ \A r, s \in regions : r # s => Apart(r, s)
=============================================================================
