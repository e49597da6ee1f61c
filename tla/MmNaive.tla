------------------------------ MODULE MmNaive ------------------------------
(***************************************************************************)
(* The example allocator of mm-naive.c: a block is made by moving the      *)
(* break and is never given back.  The heap is a record of the cells that  *)
(* were written (one per byte of data, one for the size word of a header)  *)
(* and the break; a cell never written reads as 0, as fresh pages do.      *)
(***************************************************************************)
EXTENDS MmWord, FiniteSets

CONSTANT MaxHeap      \* size of the arena of memlib.c

HEADER_SIZE == 2 * wsize
ALIGNMENT == 2 * wsize

EmptyHeap == [mem |-> [a \in {} |-> 0], brk |-> 0]

Read(h, a) == IF a \in DOMAIN h.mem THEN h.mem[a] ELSE 0

(***************************************************************************)
(* The cells of the function new stored over those of the heap.            *)
(***************************************************************************)
Write(h, new) ==
  [h EXCEPT !.mem = [a \in DOMAIN h.mem \cup DOMAIN new |->
                       IF a \in DOMAIN new THEN new[a] ELSE h.mem[a]]]

mem_sbrk_fails(h, incr) ==
  incr >= SIZE_MOD \div 2 \/ h.brk + incr > MaxHeap

payload_to_header(bp) == bp - HEADER_SIZE
header_to_payload(block) == block + HEADER_SIZE

mm_init(h) == h                      \* and returns true

malloc(h, size) ==
  LET newsize == round_up((size + HEADER_SIZE) % SIZE_MOD, ALIGNMENT)
  IN  IF mem_sbrk_fails(h, newsize) THEN [h |-> h, bp |-> NULL]
      ELSE [h |-> [Write(h, [a \in {h.brk} |-> newsize])
                     EXCEPT !.brk = @ + newsize],
            bp |-> header_to_payload(h.brk)]

free(h, ptr) == h

memcpy(h, dst, src, n) ==
  LET copied == {a \in dst .. dst + n - 1 : src + (a - dst) \in DOMAIN h.mem}
      kept == DOMAIN h.mem \ (dst .. dst + n - 1)
  IN  [h EXCEPT !.mem = [a \in kept \cup copied |->
                           h.mem[IF a \in copied THEN src + (a - dst) ELSE a]]]

(***************************************************************************)
(* The length of the copy is taken from the size of the whole old block,   *)
(* header included.                                                        *)
(***************************************************************************)
copy_over(m, oldptr, size) ==
  LET old_size == Read(m.h, payload_to_header(oldptr))
      copysize == IF size < old_size THEN size ELSE old_size
  IN  IF oldptr = NULL \/ m.bp = NULL THEN m
      ELSE [h |-> free(memcpy(m.h, m.bp, oldptr, copysize), oldptr),
            bp |-> m.bp]

realloc(h, oldptr, size) ==
  IF size = 0 THEN [h |-> free(h, oldptr), bp |-> NULL]
  ELSE copy_over(malloc(h, size), oldptr, size)
=============================================================================
