--------------------------------- MODULE Mm ---------------------------------
(***************************************************************************)
(* The allocator of mm.c at the level of heap words, together with a       *)
(* client that owns the payloads it was given and writes to them.          *)
(*                                                                         *)
(* The heap is one record h: the words of the arena (mem), how much of it  *)
(* mem_sbrk has handed out (brk), and the three globals of mm.c.  Every C  *)
(* function is an operator of the same name that takes the heap and        *)
(* returns it changed, with the C result in a second field where there is  *)
(* one.  The program has one thread, so a call of the interface is one     *)
(* step.                                                                   *)
(*                                                                         *)
(* Nothing a block leaves behind in the arena is erased: stale footers,    *)
(* stale list pointers and the client's data stay in mem until something   *)
(* overwrites them, which is what the boundary-tag code must survive.      *)
(***************************************************************************)
EXTENDS MmWord, SequencesExt

CONSTANTS chunksize,     \* least number of bytes by which the heap grows
          MaxHeap,       \* size of the arena of memlib.c (MAX_DENSE_HEAP)
          Sizes,         \* sizes asked of malloc
          ReallocSizes,  \* sizes asked of realloc
          CallocArgs,    \* pairs <<elements, size>> asked of calloc
          Fills,         \* words the client writes all over a block
          MaxLive        \* bound on the blocks the client holds at once

ASSUME HeapAssumption ==
  /\ chunksize \in Nat /\ MaxHeap \in Nat /\ MaxHeap >= dsize
  /\ chunksize % dsize = 0 /\ MaxHeap % dsize = 0 /\ chunksize > 0
  /\ MaxHeap < SIZE_MOD \div 2 /\ chunksize < SIZE_MOD \div 2

VARIABLES heap,        \* the arena and the globals of mm.c
          live         \* the blocks the client holds: [ptr, size, fill]

vars == << heap, live >>

Addrs == {wsize * i : i \in 0 .. (MaxHeap \div wsize) - 1}
Nothing == [ptr |-> NULL, size |-> 0, fill |-> 0]   \* realloc's NULL pointer

-----------------------------------------------------------------------------
(***************************************************************************)
(* Words and headers.  A load outside the arena yields 0 and a store       *)
(* outside it is lost.                                                     *)
(***************************************************************************)
Word(h, a) == IF a \in DOMAIN h.mem THEN h.mem[a] ELSE 0
Store(h, a, w) == IF a \in DOMAIN h.mem THEN [h EXCEPT !.mem[a] = w] ELSE h

get_size(h, b) == extract_size(Word(h, b))
get_alloc(h, b) == extract_alloc(Word(h, b))
get_prev_alloc(h, b) == extract_prev_alloc(Word(h, b))
get_prev_mini(h, b) == extract_prev_mini(Word(h, b))
is_mini_block(h, b) == get_size(h, b) = min_block_size

payload_to_header(bp) == bp - wsize
header_to_payload(b) == b + wsize
header_to_footer(h, b) == b + get_size(h, b) - wsize
footer_to_header(h, f) == f + wsize - extract_size(Word(h, f))

find_next(h, b) == b + get_size(h, b)

(***************************************************************************)
(* The footer of the predecessor says where it starts, unless it is a mini *)
(* block, which has none.                                                  *)
(***************************************************************************)
find_prev(h, b) ==
  LET footer == b - wsize
  IN  IF get_prev_mini(h, b) THEN b - min_block_size
      ELSE IF extract_size(Word(h, footer)) = 0 THEN NULL
      ELSE footer_to_header(h, footer)

write_pack_always_footer(h, b, size, alloc, prev_alloc, prev_mini) ==
  LET w == pack_all(size, alloc, prev_alloc, prev_mini)
  IN  Store(Store(h, b, w), b + size - wsize, w)

write_pack_no_footer(h, b, size, alloc, prev_alloc, prev_mini) ==
  Store(h, b, pack_all(size, alloc, prev_alloc, prev_mini))

write_pack(h, b, size, alloc, prev_alloc, prev_mini) ==
  LET w == pack_all(size, alloc, prev_alloc, prev_mini)
      h1 == Store(h, b, w)
  IN  IF ~alloc /\ size # min_block_size
      THEN Store(h1, header_to_footer(h1, b), w)
      ELSE h1

write_epilogue(h, b, prev_alloc, prev_mini) ==
  Store(h, b, pack_all(0, TRUE, prev_alloc, prev_mini))

(***************************************************************************)
(* Sets the prev_alloc bit; called with FALSE it changes nothing.          *)
(***************************************************************************)
write_prev_alloc(h, b, prev_alloc) ==
  LET h1 == Store(h, b, SetBit(Word(h, b), prev_alloc_mask))
      f == header_to_footer(h1, b)
  IN  IF ~prev_alloc THEN h
      ELSE IF get_alloc(h1, b) \/ is_mini_block(h1, b) THEN h1
      ELSE Store(h1, f, SetBit(Word(h1, f), prev_alloc_mask))

-----------------------------------------------------------------------------
(***************************************************************************)
(* The free lists.  A free block keeps prev in its first payload word and  *)
(* next in its second; a mini block has only next, in its first.           *)
(***************************************************************************)
PrevField == wsize
NextField == 2 * wsize
MiniNextField == wsize

(***************************************************************************)
(* The addresses met when next is followed from first up to NULL, cut off  *)
(* at more of them than the arena has blocks.                              *)
(***************************************************************************)
MaxBlocks == MaxHeap \div min_block_size

Walk(first, next) ==
  LET go[s \in Seq(Int) \ {<< >>}] ==
        IF next[Last(s)] = NULL \/ Len(s) > MaxBlocks THEN s
        ELSE go[Append(s, next[Last(s)])]
  IN  IF first = NULL THEN << >> ELSE go[<< first >>]

(***************************************************************************)
(* A list followed from head through the word at offset link.              *)
(***************************************************************************)
Chain(h, head, link) ==
  Walk(head, [b \in Int |-> IF b = NULL THEN NULL ELSE Word(h, b + link)])

seg_chain(h, i) == Chain(h, h.seg_list[i], NextField)
mini_chain(h) == Chain(h, h.mini_list, MiniNextField)

is_head(h, b) == h.seg_list[find_class(get_size(h, b))] = b

insert_free_no_back_link(h, b) ==
  LET class == find_class(get_size(h, b))
  IN  IF is_mini_block(h, b)
      THEN [Store(h, b + MiniNextField, h.mini_list) EXCEPT !.mini_list = b]
      ELSE [Store(h, b + NextField, h.seg_list[class])
              EXCEPT !.seg_list[class] = b]

(***************************************************************************)
(* Pushes a block on its list.  On a non-empty list the prev word of the   *)
(* new head keeps whatever the client left there.                          *)
(***************************************************************************)
insert_free(h, b) ==
  LET class == find_class(get_size(h, b))
      curr == h.seg_list[class]
      h1 == [h EXCEPT !.seg_list[class] = b]
  IN  IF is_mini_block(h, b)
      THEN [Store(h, b + MiniNextField, h.mini_list) EXCEPT !.mini_list = b]
      ELSE IF curr # NULL
      THEN Store(Store(h1, curr + PrevField, b), b + NextField, curr)
      ELSE Store(Store(h1, b + NextField, NULL), b + PrevField, NULL)

(***************************************************************************)
(* Unlinks a mini block: the list is emptied when its head has no next     *)
(* (the code does not look whether that head is the block), otherwise the  *)
(* head moves on or the predecessor found by a walk skips the block.       *)
(***************************************************************************)
remove_mini(h, b) ==
  LET next == Word(h, b + MiniNextField)
      chain == mini_chain(h)
      at == {i \in 2 .. Len(chain) : chain[i] = b}
  IN  IF Word(h, h.mini_list + MiniNextField) = NULL
      THEN [h EXCEPT !.mini_list = NULL]
      ELSE IF b = h.mini_list
      THEN [h EXCEPT !.mini_list = next]
      ELSE IF at = {} THEN h
      ELSE Store(h, chain[Min(at) - 1] + MiniNextField, next)

remove_free_next_only(h, b) ==
  LET prev == Word(h, b + PrevField)
      next == Word(h, b + NextField)
  IN  IF is_mini_block(h, b) THEN remove_mini(h, b)
      ELSE IF is_head(h, b)
      THEN [h EXCEPT !.seg_list[find_class(get_size(h, b))] = next]
      ELSE Store(h, prev + NextField, next)

remove_free(h, b) ==
  LET prev == Word(h, b + PrevField)
      next == Word(h, b + NextField)
  IN  IF is_mini_block(h, b) THEN remove_mini(h, b)
      ELSE IF is_head(h, b)
      THEN [h EXCEPT !.seg_list[find_class(get_size(h, b))] = next]
      ELSE IF next = NULL
      THEN Store(h, prev + NextField, NULL)
      ELSE Store(Store(h, prev + NextField, next), next + PrevField, prev)

-----------------------------------------------------------------------------
(***************************************************************************)
(* Merges a free block that is on no list with its free neighbours, tells  *)
(* the block after the result that its predecessor is free, and puts the   *)
(* result on its list.  The four cases of the code, which differ in which  *)
(* neighbours are unlinked and where the result starts and ends.  Only     *)
(* case one, no free neighbour, leaves the header of the block alone.      *)
(***************************************************************************)
unlink(h, b, joins) == IF joins THEN remove_free(h, b) ELSE h

coalesce_stale_flags(h, block) ==
  LET next == find_next(h, block)
      joins_prev == ~get_prev_alloc(h, block)
      joins_next == ~get_alloc(h, next)
      first == IF joins_prev THEN find_prev(h, block) ELSE block
      total_size == (IF joins_next THEN find_next(h, next) ELSE next) - first
      h2 == unlink(unlink(h, first, joins_prev), next, joins_next)
  IN  [h |-> insert_free(write_pack(h2, first, total_size, FALSE,
                                    get_prev_alloc(h, first),
                                    get_prev_mini(h, first)), first),
       block |-> first]

coalesce_block(h, block) ==
  LET next == find_next(h, block)
      joins_prev == ~get_prev_alloc(h, block)
      joins_next == ~get_alloc(h, next)
      first == IF joins_prev THEN find_prev(h, block) ELSE block
      after == IF joins_next THEN find_next(h, next) ELSE next
      total_size == get_size(h, block)
                      + (IF joins_prev THEN get_size(h, first) ELSE 0)
                      + (IF joins_next THEN get_size(h, next) ELSE 0)
      alone == ~joins_prev /\ ~joins_next
      h2 == unlink(unlink(h, first, joins_prev), next, joins_next)
      h3 == IF alone THEN h
            ELSE write_pack(h2, first, total_size, FALSE,
                            get_prev_alloc(h, first), get_prev_mini(h, first))
      h4 == write_pack(h3, after, get_size(h, after), get_alloc(h, after),
                       FALSE, alone /\ is_mini_block(h, block))
  IN  [h |-> insert_free(h4, first), block |-> first]

mem_sbrk_no_limit(h, incr) == incr >= SIZE_MOD \div 2

(***************************************************************************)
(* mem_sbrk: fails on an increment that is negative as an intptr_t and on  *)
(* one that passes the end of the arena; the heap never shrinks.           *)
(***************************************************************************)
mem_sbrk_fails(h, incr) ==
  incr >= SIZE_MOD \div 2 \/ h.brk + incr > MaxHeap

(***************************************************************************)
(* The new area starts one word before the old break, in the word of the   *)
(* old epilogue, whose two prev flags become those of the new block.       *)
(***************************************************************************)
add_epilogue(h, block) ==
  write_epilogue(h, find_next(h, block), get_alloc(h, block),
                 is_mini_block(h, block))

extend_heap(h, size) ==
  LET asize == round_up(size, dsize)
      block == payload_to_header(h.brk)
      h2 == write_pack([h EXCEPT !.brk = @ + asize], block, asize, FALSE,
                       get_prev_alloc(h, block), get_prev_mini(h, block))
  IN  IF mem_sbrk_fails(h, asize) THEN [h |-> h, block |-> NULL]
      ELSE coalesce_block(add_epilogue(h2, block), block)

(***************************************************************************)
(* A header rewritten with another size and alloc bit and the flags it     *)
(* had, and the block after told whether its predecessor is allocated.     *)
(***************************************************************************)
repack(h, b, size, alloc) ==
  write_pack(h, b, size, alloc, get_prev_alloc(h, b), get_prev_mini(h, b))

tell_next(h, b, prev_alloc) == write_prev_alloc(h, find_next(h, b), prev_alloc)

split_block_mini_not_told(h, block, asize) ==
  LET rest == get_size(h, block) - asize
      h1 == repack(h, block, asize, TRUE)
  IN  IF rest < min_block_size THEN [h |-> h, block |-> NULL]
      ELSE [h |-> write_pack(h1, block + asize, rest, FALSE, TRUE, FALSE),
            block |-> block + asize]

(***************************************************************************)
(* Cuts an allocated block down to asize when what is left is a block.     *)
(***************************************************************************)
split_block(h, block, asize) ==
  LET rest == get_size(h, block) - asize
      h2 == write_pack(repack(h, block, asize, TRUE), block + asize, rest,
                       FALSE, TRUE, asize = min_block_size)
  IN  IF rest < min_block_size THEN [h |-> h, block |-> NULL]
      ELSE [h |-> tell_next(h2, block + asize, FALSE), block |-> block + asize]

(***************************************************************************)
(* Better fit: the fitting blocks of a list, given by their positions, are *)
(* taken in order as long as each is smaller than the ones before.         *)
(***************************************************************************)
better_fit(h, list, fits) ==
  list[Max({k \in fits : \A i, j \in fits :
              i < j /\ j <= k => get_size(h, list[j]) < get_size(h, list[i])})]

fits_in(h, list, asize) ==
  {k \in DOMAIN list : ~get_alloc(h, list[k]) /\ asize <= get_size(h, list[k])}

find_fit_own_class(h, asize) ==
  LET list == seg_chain(h, find_class(asize))
  IN  IF asize = min_block_size /\ h.mini_list # NULL THEN h.mini_list
      ELSE IF fits_in(h, list, asize) = {} THEN NULL
      ELSE better_fit(h, list, fits_in(h, list, asize))

find_fit(h, asize) ==
  LET fits(i) == fits_in(h, seg_chain(h, i), asize)
      classes == {i \in find_class(asize) .. LENGTH - 1 : fits(i) # {}}
      class == Min(classes)
  IN  IF asize = min_block_size /\ h.mini_list # NULL THEN h.mini_list
      ELSE IF classes = {} THEN NULL
      ELSE better_fit(h, seg_chain(h, class), fits(class))

-----------------------------------------------------------------------------
(***************************************************************************)
(* The heap before the first call, and mm_init.  When the first mem_sbrk   *)
(* succeeds and extend_heap fails, mm_init reports failure with heap_start *)
(* already set.                                                            *)
(***************************************************************************)
EmptyHeap == [mem |-> [a \in Addrs |-> 0], brk |-> 0, heap_start |-> NULL,
              seg_list |-> [i \in Classes |-> NULL], mini_list |-> NULL]

init_result(e) == [h |-> e.h, ok |-> e.block # NULL]

mm_init(h) ==
  LET start == h.brk
      h1 == [h EXCEPT !.brk = start + 2 * wsize,
                      !.seg_list = [i \in Classes |-> NULL],
                      !.mini_list = NULL,
                      !.heap_start = start + wsize]
      h2 == Store(h1, start, pack_all(0, TRUE, FALSE, FALSE))
      h3 == Store(h2, start + wsize, pack_all(0, TRUE, TRUE, FALSE))
  IN  IF mem_sbrk_fails(h, 2 * wsize) THEN [h |-> h, ok |-> FALSE]
      ELSE init_result(extend_heap(h3, chunksize))

(***************************************************************************)
(* The part of malloc after a block was found: take it off its list, mark  *)
(* it allocated in both headers, and give back what is too much.           *)
(***************************************************************************)
give_back(split) ==
  IF split.block = NULL THEN split.h
  ELSE coalesce_block(split.h, split.block).h

mark_allocated(h, block) ==
  tell_next(repack(h, block, get_size(h, block), TRUE), block, TRUE)

place(h, block, asize) ==
  give_back(split_block(mark_allocated(remove_free(h, block), block),
                        block, asize))

(***************************************************************************)
(* malloc in the order of the code: mm_init on first use, a return when it *)
(* failed or the size is 0, the search for a fit, else an extended heap,   *)
(* and the placement of the block in hand.                                 *)
(***************************************************************************)
fit_or_extend(h, asize, fit) ==
  IF fit # NULL THEN [h |-> h, block |-> fit]
  ELSE extend_heap(h, Max({asize, chunksize}))

place_if_found(got, asize) ==
  IF got.block = NULL THEN [h |-> got.h, bp |-> NULL]
  ELSE [h |-> place(got.h, got.block, asize),
        bp |-> header_to_payload(got.block)]

malloc_after_init(init, size, asize) ==
  IF ~init.ok \/ size = 0 THEN [h |-> init.h, bp |-> NULL]
  ELSE place_if_found(fit_or_extend(init.h, asize, find_fit(init.h, asize)),
                      asize)

malloc(h, size) ==
  malloc_after_init(IF h.heap_start = NULL THEN mm_init(h)
                    ELSE [h |-> h, ok |-> TRUE],
                    size, adjusted_size(size))

free(h, bp) ==
  LET block == payload_to_header(bp)
      h2 == tell_next(repack(h, block, get_size(h, block), FALSE), block, FALSE)
  IN  IF bp = NULL THEN h ELSE coalesce_block(h2, block).h

(***************************************************************************)
(* Stores to the words that n bytes at bp touch: by the client, by memcpy  *)
(* and by memset (in a driver build mem_memcpy and mem_memset of memlib.c, *)
(* which Memlib models by pieces).                                         *)
(***************************************************************************)
Span(bp, n) == {a \in Addrs : bp <= a /\ a < bp + n}
memset(h, bp, n, w) ==
  [h EXCEPT !.mem = [a \in Addrs |-> IF a \in Span(bp, n) THEN w ELSE @[a]]]
memcpy(h, dst, src, n) ==
  [h EXCEPT !.mem = [a \in Addrs |-> IF a \in Span(dst, n)
                                     THEN Word(h, src + (a - dst)) ELSE @[a]]]

realloc_free_first(h, ptr, size) ==
  LET copysize == Min({get_size(h, payload_to_header(ptr)) - wsize, size})
      copied(m) == IF m.bp = NULL THEN m
                   ELSE [h |-> memcpy(m.h, m.bp, ptr, copysize), bp |-> m.bp]
  IN  IF size = 0 THEN [h |-> free(h, ptr), bp |-> NULL]
      ELSE IF ptr = NULL THEN malloc(h, size)
      ELSE copied(malloc(free(h, ptr), size))

(***************************************************************************)
(* realloc to a non-zero size: the old block is copied, up to the smaller  *)
(* payload, and freed only when the new block was found.                   *)
(***************************************************************************)
move(m, ptr, size) ==
  LET copysize == Min({get_size(m.h, payload_to_header(ptr)) - wsize, size})
  IN  IF ptr = NULL \/ m.bp = NULL THEN m
      ELSE [h |-> free(memcpy(m.h, m.bp, ptr, copysize), ptr), bp |-> m.bp]

realloc(h, ptr, size) ==
  IF size = 0 THEN [h |-> free(h, ptr), bp |-> NULL]
  ELSE move(malloc(h, size), ptr, size)

clear(m, asize) ==
  IF m.bp = NULL THEN m
  ELSE [h |-> memset(m.h, m.bp, asize, 0), bp |-> m.bp]

calloc(h, elements, size) ==
  LET asize == (elements * size) % SIZE_MOD
  IN  IF elements = 0 THEN [h |-> h, bp |-> NULL]
      ELSE IF asize \div elements # size THEN [h |-> h, bp |-> NULL]
      ELSE clear(malloc(h, asize), asize)

-----------------------------------------------------------------------------
(***************************************************************************)
(* mm_checkheap, the heap checker of the debug build.                      *)
(***************************************************************************)
epilogue(h) == h.brk - wsize

(***************************************************************************)
(* The blocks from heap_start up to the epilogue, found through sizes.     *)
(***************************************************************************)
BlockWalk(h) ==
  LET here(b) == IF b >= epilogue(h) THEN NULL ELSE b
  IN  Walk(here(h.heap_start),
           [b \in Int |-> IF b = NULL THEN NULL ELSE here(find_next(h, b))])

Blocks(h) == ToSet(BlockWalk(h))

check_prologue_epilogue(h) ==
  /\ extract_alloc(Word(h, 0)) /\ extract_size(Word(h, 0)) = 0
  /\ get_alloc(h, epilogue(h)) /\ get_size(h, epilogue(h)) = 0

check_alignment(b) == header_to_payload(b) % 16 = 0
check_boundary(h, b) == 0 <= b /\ b <= h.brk - 1
check_block_size(h, b) ==
  get_size(h, b) >= min_block_size /\ get_size(h, b) % 16 = 0
check_header_footer_match(h, b) ==
  get_alloc(h, b) \/ get_prev_mini(h, find_next(h, b))
    \/ Word(h, b) = Word(h, header_to_footer(h, b))
check_non_consecutive_free(h, b) ==
  get_alloc(h, b) \/ get_alloc(h, find_next(h, b))

general_heap_checker(h) ==
  LET blocks == BlockWalk(h)
  IN  /\ check_prologue_epilogue(h)
      /\ \A i \in DOMAIN blocks :
           /\ check_alignment(blocks[i])
           /\ check_boundary(h, blocks[i])
           /\ check_block_size(h, blocks[i])
           /\ check_header_footer_match(h, blocks[i])
           /\ check_non_consecutive_free(h, blocks[i])
      /\ blocks # << >> => find_next(h, Last(blocks)) = epilogue(h)

check_list(h) ==
  \A i \in Classes : \A curr \in ToSet(seg_chain(h, i)) :
    LET next == Word(h, curr + NextField)
    IN  /\ 0 <= curr /\ curr <= h.brk - 1
        /\ next # NULL => Word(h, next + PrevField) = curr
        /\ find_class(get_size(h, curr)) = i

mm_checkheap(h) == general_heap_checker(h) /\ check_list(h)

-----------------------------------------------------------------------------
(***************************************************************************)
(* The client.  A new block is filled with the client's own word over its  *)
(* whole length; a block from calloc is left as it came; a block from      *)
(* realloc is filled only beyond what the old block held, so that its      *)
(* content stays right only if the copy was.  A failed call leaves the     *)
(* client with what it had.                                                *)
(***************************************************************************)
Held(bp, size, fill) == [ptr |-> bp, size |-> size, fill |-> fill]
CanHoldMore == Cardinality(live) < MaxLive

Init == heap = EmptyHeap /\ live = {}

Malloc(size, fill) ==
  /\ CanHoldMore
  /\ \E m \in {malloc(heap, size)} :
       IF m.bp = NULL
       THEN heap' = m.h /\ live' = live
       ELSE /\ heap' = memset(m.h, m.bp, size, fill)
            /\ live' = live \cup {Held(m.bp, size, fill)}

Free(r) ==
  /\ heap' = free(heap, r.ptr)
  /\ live' = live \ {r}

Realloc(r, size) ==
  LET kept == round_up(Min({r.size, size}), wsize)
  IN  /\ r = Nothing => CanHoldMore
      /\ \E m \in {realloc(heap, r.ptr, size)} :
           IF m.bp = NULL
           THEN /\ heap' = m.h
                /\ live' = IF size = 0 THEN live \ {r} ELSE live
           ELSE /\ heap' = memset(m.h, m.bp + kept, size - kept, r.fill)
                /\ live' = (live \ {r}) \cup {Held(m.bp, size, r.fill)}

Calloc(elements, size) ==
  /\ CanHoldMore
  /\ \E c \in {calloc(heap, elements, size)} :
       /\ heap' = c.h
       /\ live' = IF c.bp = NULL THEN live
                  ELSE live \cup {Held(c.bp, elements * size, 0)}

(***************************************************************************)
(* The driver starts every trace with mem_reset_brk, which maps the arena  *)
(* afresh, and mm_init; it forgets the blocks of the trace before.         *)
(***************************************************************************)
mem_reset_brk(h) == [h EXCEPT !.mem = [a \in Addrs |-> 0], !.brk = 0]

Reset ==
  /\ heap' = mm_init(mem_reset_brk(heap)).h
  /\ live' = {}

Next ==
  \/ \E size \in Sizes, fill \in Fills : Malloc(size, fill)
  \/ \E r \in live : Free(r)
  \/ \E r \in live \cup {Nothing}, size \in ReallocSizes : Realloc(r, size)
  \/ \E c \in CallocArgs : Calloc(c[1], c[2])
  \/ Reset

Spec == Init /\ [][Next]_vars

-----------------------------------------------------------------------------
(***************************************************************************)
(* Type correctness.                                                       *)
(***************************************************************************)
TypeOK ==
  /\ heap.mem \in [Addrs -> 0 .. SIZE_MOD - 1]
  /\ heap.brk \in 0 .. MaxHeap
  /\ heap.heap_start \in {NULL, wsize}
  /\ heap.seg_list \in [Classes -> Addrs]
  /\ heap.mini_list \in Addrs
  /\ \A r \in live : r.ptr \in Addrs /\ r.size \in Nat

(***************************************************************************)
(* The checker that mm.c runs before and after every call in a debug       *)
(* build accepts the heap after every sequence of calls.                   *)
(***************************************************************************)
HeapChecks == heap.heap_start # NULL => mm_checkheap(heap)

(***************************************************************************)
(* The free lists hold the free blocks and nothing else: every free block  *)
(* of the heap is met exactly once, on the list of its size class (mini    *)
(* blocks on mini_list), and every pointer that is followed leads to a     *)
(* free block.  The checker of mm.c looks neither at mini_list nor for     *)
(* free blocks that were lost.                                             *)
(***************************************************************************)
FreeListsExact ==
  LET free_blocks == {b \in Blocks(heap) : ~get_alloc(heap, b)}
      exactly(chain, set) == ToSet(chain) = set /\ Len(chain) = Cardinality(set)
  IN  heap.heap_start # NULL =>
        /\ exactly(mini_chain(heap),
                   {b \in free_blocks : is_mini_block(heap, b)})
        /\ \A i \in Classes :
             exactly(seg_chain(heap, i),
                     {b \in free_blocks : /\ ~is_mini_block(heap, b)
                                          /\ find_class(get_size(heap, b)) = i})

(***************************************************************************)
(* The two flags a header keeps about the block before it are right, for   *)
(* every block and for the epilogue, although write_prev_alloc can only    *)
(* set its bit.  free and coalesce_block decide from these flags alone     *)
(* whether the word before a block is a footer.                            *)
(***************************************************************************)
BoundaryFlags ==
  heap.heap_start # NULL =>
    /\ get_prev_alloc(heap, heap.heap_start)
    /\ \A b \in Blocks(heap) :
         LET next == find_next(heap, b)
         IN  /\ get_prev_alloc(heap, next) = get_alloc(heap, b)
             /\ get_prev_mini(heap, next) = is_mini_block(heap, b)

(***************************************************************************)
(* What the client wrote is still there: no header, footer or list pointer *)
(* of the allocator and no other client's data was written into a live     *)
(* block, realloc carried the old content over, and calloc's block is all  *)
(* zeros.                                                                  *)
(***************************************************************************)
ClientDataIntact ==
  \A r \in live : \A a \in Span(r.ptr, r.size) : heap.mem[a] = r.fill

(***************************************************************************)
(* The blocks marked allocated are exactly the ones the client holds, each *)
(* with room for what was asked: nothing leaks, be it in a realloc that    *)
(* fails or in one that moves.                                             *)
(***************************************************************************)
AllocatedIsHeld ==
  heap.heap_start # NULL =>
    /\ {payload_to_header(r.ptr) : r \in live}
         = {b \in Blocks(heap) : get_alloc(heap, b)}
    /\ \A r \in live : get_size(heap, payload_to_header(r.ptr)) - wsize >= r.size

(***************************************************************************)
(* No free block that would do is overlooked: malloc grows the heap or     *)
(* fails only when every free block is too small, and fails only when the  *)
(* arena has no room for another chunk.                                    *)
(***************************************************************************)
FitIsFound ==
  \A size \in Sizes \ {0} : \A m \in {malloc(heap, size)} :
    LET asize == adjusted_size(size)
        fits == {b \in Blocks(heap) :
                   ~get_alloc(heap, b) /\ get_size(heap, b) >= asize}
    IN  heap.heap_start # NULL =>
          /\ m.h.brk # heap.brk => fits = {}
          /\ m.bp = NULL =>
               fits = {} /\ heap.brk + Max({asize, chunksize}) > MaxHeap

(***************************************************************************)
(* mm.h: malloc allocates at least size bytes.  The block malloc returns   *)
(* is allocated and its payload has room for the request, whatever size_t  *)
(* value the request is.                                                   *)
(***************************************************************************)
AtLeastSize ==
  \A size \in Sizes : \A m \in {malloc(heap, size)} :
    LET b == payload_to_header(m.bp)
    IN  m.bp # NULL => get_alloc(m.h, b) /\ get_size(m.h, b) - wsize >= size

-----------------------------------------------------------------------------
(***************************************************************************)
(* The heap as BlockHeap sees it: the headers of the blocks met by walking *)
(* the heap, and the free lists as sets.                                   *)
(***************************************************************************)
HeaderAt(h, b) == [size |-> get_size(h, b), alloc |-> get_alloc(h, b),
                   prev_alloc |-> get_prev_alloc(h, b),
                   prev_mini |-> get_prev_mini(h, b)]

BlockView(h) ==
  LET heads == IF h.brk = 0 THEN {} ELSE Blocks(h) \cup {epilogue(h)}
  IN  [hdr |-> [b \in heads |-> HeaderAt(h, b)],
       bins |-> [k \in {-1} \cup Classes |->
                   ToSet(IF k = -1 THEN mini_chain(h) ELSE seg_chain(h, k))],
       brk |-> h.brk]

Block == INSTANCE BlockHeap
           WITH hp <- BlockView(heap),
                live <- {[ptr |-> r.ptr, size |-> r.size] : r \in live}

(***************************************************************************)
(* The words implement the blocks: every call of mm.c does to the headers  *)
(* and lists found in the arena what the block-level allocator does, so    *)
(* footers, list pointers and stale words never mislead it.                *)
(***************************************************************************)
ImplementsBlocks == Block!Spec
=============================================================================
