----------------------------- MODULE BlockHeap -----------------------------
(***************************************************************************)
(* The allocator of mm.c at the level of blocks.  The words of the arena   *)
(* are abstracted to the headers of the blocks that tile it, and the free  *)
(* lists to sets: list pointers, footers, payloads and stale words are     *)
(* left to module Mm, which implements this one.  What is kept is every    *)
(* decision the code takes from a header: flags that are set but not       *)
(* cleared, neighbours found through sizes, merging, splitting, growing.   *)
(*                                                                         *)
(* hp is a record: hdr maps the address of every block, epilogue included, *)
(* to its header; bins maps every free list to the blocks on it (mini_list *)
(* is list -1); brk is the size of the heap, 0 before mm_init.             *)
(***************************************************************************)
EXTENDS MmWord, FiniteSets

CONSTANTS chunksize,     \* least number of bytes by which the heap grows
          MaxHeap,       \* size of the arena
          Sizes,         \* sizes asked of malloc
          ReallocSizes,  \* sizes asked of realloc
          CallocArgs,    \* pairs <<elements, size>> asked of calloc
          MaxLive        \* bound on the blocks the client holds at once

ASSUME BlockHeapAssumption ==
  /\ chunksize \in Nat /\ chunksize % 16 = 0 /\ chunksize > 0
  /\ chunksize + 16 <= SIZE_MOD
  /\ MaxHeap \in Nat /\ MaxHeap >= 16

(***************************************************************************)
(* The requests of a client that leave room for the header and rounding    *)
(* below the greatest size_t.                                              *)
(***************************************************************************)
FitsWord(size) == size \in Nat /\ size + wsize + dsize <= SIZE_MOD

ASSUME RequestAssumption ==
  /\ \A size \in Sizes \cup ReallocSizes : FitsWord(size)
  /\ \A c \in CallocArgs :
       c[1] \in Nat /\ c[2] \in Nat /\ FitsWord((c[1] * c[2]) % SIZE_MOD)

VARIABLES hp,     \* the heap
          live    \* the blocks the client holds: records [ptr, size]

vars == << hp, live >>

mini_list == -1
BinIds == {mini_list} \cup Classes
BinOf(size) == IF size = min_block_size THEN mini_list ELSE find_class(size)

Header(size, alloc, prev_alloc, prev_mini) ==
  [size |-> size, alloc |-> alloc,
   prev_alloc |-> prev_alloc, prev_mini |-> prev_mini]

find_next(h, b) == b + h.hdr[b].size
epilogue(h) == h.brk - wsize

find_prev(h, b) ==
  IF h.hdr[b].prev_mini THEN b - min_block_size
  ELSE CHOOSE c \in DOMAIN h.hdr : c < b /\ find_next(h, c) = b

insert_free(bins, b, size) == [bins EXCEPT ![BinOf(size)] = @ \cup {b}]
remove_free_segregated_only(bins, b, size) ==
  [bins EXCEPT ![find_class(size)] = @ \ {b}]

remove_free(bins, b, size) == [bins EXCEPT ![BinOf(size)] = @ \ {b}]

-----------------------------------------------------------------------------
coalesce_block_never_merges(h, block) ==
  [hp |-> [h EXCEPT !.bins = insert_free(@, block, h.hdr[block].size)],
   block |-> block]

(***************************************************************************)
(* Merges block, free and on no list, with its free neighbours.  The block *)
(* that follows the result learns that its predecessor is free.            *)
(***************************************************************************)
coalesce_block(h, block) ==
  LET next == find_next(h, block)
      prev_free == ~h.hdr[block].prev_alloc
      next_free == ~h.hdr[next].alloc
      first == IF prev_free THEN find_prev(h, block) ELSE block
      after == IF next_free THEN find_next(h, next) ELSE next
      total_size == h.hdr[block].size
                      + (IF prev_free THEN h.hdr[first].size ELSE 0)
                      + (IF next_free THEN h.hdr[next].size ELSE 0)
      swallowed == (IF prev_free THEN {block} ELSE {})
                     \cup (IF next_free THEN {next} ELSE {})
      bins1 == IF prev_free THEN remove_free(h.bins, first, h.hdr[first].size)
               ELSE h.bins
      bins2 == IF next_free THEN remove_free(bins1, next, h.hdr[next].size)
               ELSE bins1
  IN  [hp |-> [hdr |-> [c \in DOMAIN h.hdr \ swallowed |->
                          IF c = first
                          THEN Header(total_size, FALSE, h.hdr[c].prev_alloc,
                                      h.hdr[c].prev_mini)
                          ELSE IF c = after
                          THEN Header(h.hdr[c].size, h.hdr[c].alloc, FALSE,
                                      total_size = min_block_size)
                          ELSE h.hdr[c]],
               bins |-> insert_free(bins2, first, total_size),
               brk |-> h.brk],
       block |-> first]

mem_sbrk_no_limit(h, incr) == incr >= SIZE_MOD \div 2

mem_sbrk_fails(h, incr) ==
  incr >= SIZE_MOD \div 2 \/ h.brk + incr > MaxHeap

(***************************************************************************)
(* The heap grows: the old epilogue becomes a free block that keeps its    *)
(* two prev flags, followed by a new epilogue.                             *)
(***************************************************************************)
grow(h, size) ==
  LET b == epilogue(h)
      e == b + size
  IN  [hdr |-> [c \in DOMAIN h.hdr \cup {e} |->
                  IF c = e THEN Header(0, TRUE, FALSE, size = min_block_size)
                  ELSE IF c = b THEN Header(size, FALSE, h.hdr[c].prev_alloc,
                                            h.hdr[c].prev_mini)
                  ELSE h.hdr[c]],
       bins |-> h.bins,
       brk |-> h.brk + size]

extend_heap(h, size) ==
  LET asize == round_up(size, dsize)
  IN  IF mem_sbrk_fails(h, asize) THEN [hp |-> h, block |-> NULL]
      ELSE coalesce_block(grow(h, asize), epilogue(h))

take_next_not_told(h, block) ==
  [h EXCEPT !.hdr[block].alloc = TRUE,
            !.bins = remove_free(@, block, h.hdr[block].size)]

take_still_listed(h, block) ==
  [h EXCEPT !.hdr[block].alloc = TRUE,
            !.hdr[find_next(h, block)].prev_alloc = TRUE]

(***************************************************************************)
(* The first half of placing a block: it leaves its list, is marked        *)
(* allocated, and its successor is told.                                   *)
(***************************************************************************)
take(h, block) ==
  LET next == find_next(h, block)
  IN  [hdr |-> [c \in DOMAIN h.hdr |->
                  IF c = block
                  THEN Header(h.hdr[c].size, TRUE, h.hdr[c].prev_alloc,
                              h.hdr[c].prev_mini)
                  ELSE IF c = next
                  THEN Header(h.hdr[c].size, h.hdr[c].alloc, TRUE,
                              h.hdr[c].prev_mini)
                  ELSE h.hdr[c]],
       bins |-> remove_free(h.bins, block, h.hdr[block].size),
       brk |-> h.brk]

(***************************************************************************)
(* Cuts an allocated block down to asize.  The rest is a free block on no  *)
(* list; the header that follows it still says that its predecessor is     *)
(* allocated.                                                              *)
(***************************************************************************)
split_block(h, block, asize) ==
  LET rest == block + asize
  IN  [hdr |-> [c \in DOMAIN h.hdr \cup {rest} |->
                  IF c = block
                  THEN Header(asize, TRUE, h.hdr[c].prev_alloc,
                              h.hdr[c].prev_mini)
                  ELSE IF c = rest
                  THEN Header(h.hdr[block].size - asize, FALSE, TRUE,
                              asize = min_block_size)
                  ELSE h.hdr[c]],
       bins |-> h.bins,
       brk |-> h.brk]

place_always_splits(h, block, asize) ==
  coalesce_block(split_block(take(h, block), block, asize), block + asize).hp

place(h, block, asize) ==
  LET t == take(h, block)
  IN  IF h.hdr[block].size - asize >= min_block_size
      THEN coalesce_block(split_block(t, block, asize), block + asize).hp
      ELSE t

find_fit_own_class(h, asize) ==
  {b \in h.bins[BinOf(asize)] : asize <= h.hdr[b].size}

(***************************************************************************)
(* find_fit looks through the list of mini blocks if a mini block is asked *)
(* for, and then through the classes from that of asize on.  It takes some *)
(* fitting block from the first list that has one; which one depends on    *)
(* the order of the list.                                                  *)
(***************************************************************************)
Searched(asize) ==
  LET class == find_class(asize)
  IN  {k \in BinIds : IF k = mini_list THEN asize = min_block_size
                      ELSE class <= k}

find_fit(h, asize) ==
  LET lists == Searched(asize)
  IN  {b \in DOMAIN h.hdr :
         /\ asize <= h.hdr[b].size
         /\ \E k \in lists :
              /\ b \in h.bins[k]
              /\ \A j \in lists : j < k =>
                   \A c \in h.bins[j] : h.hdr[c].size < asize}

-----------------------------------------------------------------------------
EmptyHeap == [hdr |-> [c \in {} |-> Header(0, TRUE, TRUE, FALSE)],
              bins |-> [k \in BinIds |-> {}], brk |-> 0]

BareHeap == [hdr |-> [c \in {wsize} |-> Header(0, TRUE, TRUE, FALSE)],
             bins |-> [k \in BinIds |-> {}], brk |-> 2 * wsize]

mm_init(h) == extend_heap(BareHeap, chunksize)

(***************************************************************************)
(* malloc: the heap it works on after a lazy mm_init, and the results that *)
(* it may have, one for each block find_fit may take.                      *)
(***************************************************************************)
initialised(h) == IF h.brk = 0 THEN mm_init(h).hp ELSE h
init_fails(h) == h.brk = 0 /\ mm_init(h).block = NULL

malloc(h, size) ==
  LET h1 == initialised(h)
      asize == adjusted_size(size)
      extendsize == IF asize > chunksize THEN asize ELSE chunksize
      ext == extend_heap(h1, extendsize)
  IN  IF init_fails(h) \/ size = 0 THEN {[hp |-> h1, bp |-> NULL]}
      ELSE IF find_fit(h1, asize) # {}
      THEN {[hp |-> place(h1, b, asize), bp |-> b + wsize] :
              b \in find_fit(h1, asize)}
      ELSE IF ext.block = NULL THEN {[hp |-> h1, bp |-> NULL]}
      ELSE {[hp |-> place(ext.hp, ext.block, asize),
             bp |-> ext.block + wsize]}

(***************************************************************************)
(* free marks the block free; its successor is not told until the merge.   *)
(***************************************************************************)
mark_free(h, block) ==
  [hdr |-> [c \in DOMAIN h.hdr |->
              IF c = block
              THEN Header(h.hdr[c].size, FALSE, h.hdr[c].prev_alloc,
                          h.hdr[c].prev_mini)
              ELSE h.hdr[c]],
   bins |-> h.bins,
   brk |-> h.brk]

free(h, bp) == coalesce_block(mark_free(h, bp - wsize), bp - wsize).hp

-----------------------------------------------------------------------------
(***************************************************************************)
(* The client.                                                             *)
(***************************************************************************)
Region(bp, size) == [ptr |-> bp, size |-> size]
CanHoldMore == Cardinality(live) < MaxLive

Init == hp = EmptyHeap /\ live = {}

Acquire(size) ==
  \E m \in malloc(hp, size) :
    /\ hp' = m.hp
    /\ live' = IF m.bp = NULL THEN live ELSE live \cup {Region(m.bp, size)}

Malloc(size) == CanHoldMore /\ Acquire(size)

Calloc(elements, size) ==
  LET asize == (elements * size) % SIZE_MOD
  IN  /\ CanHoldMore
      /\ elements # 0 /\ asize \div elements = size
      /\ Acquire(asize)

Free(r) == hp' = free(hp, r.ptr) /\ live' = live \ {r}

Realloc_frees_first(r, size) ==
  \/ /\ size = 0
     /\ Free(r)
  \/ /\ size # 0
     /\ \E m \in malloc(free(hp, r.ptr), size) :
          /\ hp' = m.hp
          /\ live' = (live \ {r}) \cup
                      (IF m.bp = NULL THEN {} ELSE {Region(m.bp, size)})

Realloc_keeps_old(r, size) ==
  \/ /\ size = 0
     /\ Free(r)
  \/ /\ size # 0
     /\ \E m \in malloc(hp, size) :
          /\ hp' = m.hp
          /\ live' = IF m.bp = NULL THEN live
                     ELSE (live \ {r}) \cup {Region(m.bp, size)}

Realloc(r, size) ==
  \/ /\ size = 0
     /\ Free(r)
  \/ /\ size # 0
     /\ \E m \in malloc(hp, size) :
          IF m.bp = NULL
          THEN hp' = m.hp /\ live' = live
          ELSE /\ hp' = free(m.hp, r.ptr)
               /\ live' = (live \ {r}) \cup {Region(m.bp, size)}

Reset == hp' = mm_init(hp).hp /\ live' = {}

Next ==
  \/ \E size \in Sizes : Malloc(size)
  \/ \E c \in CallocArgs : Calloc(c[1], c[2])
  \/ \E r \in live : Free(r)
  \/ \E r \in live, size \in ReallocSizes : Realloc(r, size)
  \/ \E size \in ReallocSizes \ {0} : Malloc(size)   \* realloc of NULL
  \/ Reset

Spec == Init /\ [][Next]_vars

-----------------------------------------------------------------------------
(***************************************************************************)
(* The parts of the invariant, for a heap h in which the blocks of X are   *)
(* pending: free, on no list, not yet merged, and unknown to the header    *)
(* that follows them.  Between two calls X is empty.                       *)
(***************************************************************************)

(***************************************************************************)
(* The blocks tile the heap from the first header to the epilogue, without *)
(* gap or overlap; every payload is aligned to 16 bytes.                   *)
(***************************************************************************)
TiledBy(h) ==
  LET D == DOMAIN h.hdr
      e == epilogue(h)
  IN  /\ wsize \in D /\ e \in D
      /\ \A c \in D : c \in wsize .. e /\ c % 16 = 8
      /\ h.hdr[e].size = 0 /\ h.hdr[e].alloc
      /\ \A c \in D \ {e} :
           /\ h.hdr[c].size >= min_block_size /\ h.hdr[c].size % 16 = 0
           /\ find_next(h, c) \in D
           /\ \A d \in D : d <= c \/ d >= find_next(h, c)
      /\ \A c \in D \ {wsize} : \E p \in D \ {e} : find_next(h, p) = c

(***************************************************************************)
(* A header knows whether the block before it is allocated and whether it  *)
(* is a mini block.                                                        *)
(***************************************************************************)
FlagsKnown(h, X) ==
  /\ h.hdr[wsize].prev_alloc /\ ~h.hdr[wsize].prev_mini
  /\ \A c \in DOMAIN h.hdr \ ({epilogue(h)} \cup X) :
       /\ h.hdr[find_next(h, c)].prev_alloc <=> h.hdr[c].alloc
       /\ h.hdr[find_next(h, c)].prev_mini <=> h.hdr[c].size = min_block_size

(***************************************************************************)
(* No two adjacent blocks are free.                                        *)
(***************************************************************************)
Merged(h, X) ==
  \A c \in DOMAIN h.hdr \ {epilogue(h)} :
    h.hdr[c].alloc \/ h.hdr[find_next(h, c)].alloc
      \/ c \in X \/ find_next(h, c) \in X

(***************************************************************************)
(* Every free block is on the list of its size, and only there.            *)
(***************************************************************************)
Binned(h, X) ==
  \A k \in BinIds :
    h.bins[k] = {c \in DOMAIN h.hdr \ X :
                   ~h.hdr[c].alloc /\ BinOf(h.hdr[c].size) = k}

(***************************************************************************)
(* The allocated blocks with their sizes.                                  *)
(***************************************************************************)
Entry(block, size) == [block |-> block, size |-> size]

Used(h) ==
  {Entry(c, h.hdr[c].size) :
     c \in {d \in DOMAIN h.hdr \ {epilogue(h)} : h.hdr[d].alloc}}

(***************************************************************************)
(* The regions L are the payloads of the allocated blocks U, one for one.  *)
(***************************************************************************)
Owns(L, U) ==
  /\ \A r \in L : \E u \in U :
       r.ptr = u.block + wsize /\ 0 < r.size /\ r.size + wsize <= u.size
  /\ \A u \in U : \E r \in L : r.ptr = u.block + wsize
  /\ \A r, s \in L : r.ptr = s.ptr => r = s

-----------------------------------------------------------------------------
(***************************************************************************)
(* Type correctness.                                                       *)
(***************************************************************************)
Headers == [size : Nat, alloc : BOOLEAN, prev_alloc : BOOLEAN,
            prev_mini : BOOLEAN]

HeapType(h) ==
  /\ h = [hdr |-> h.hdr, bins |-> h.bins, brk |-> h.brk]
  /\ h.brk \in 0 .. MaxHeap
  /\ DOMAIN h.hdr \subseteq 0 .. MaxHeap
  /\ h.hdr \in [DOMAIN h.hdr -> Headers]
  /\ h.bins \in [BinIds -> SUBSET (0 .. MaxHeap)]

TypeOK ==
  /\ HeapType(hp)
  /\ live \subseteq [ptr : Nat, size : Nat]

(***************************************************************************)
(* Between calls the blocks tile the heap, the boundary flags are right,   *)
(* free neighbours are merged and the free lists are exact.                *)
(***************************************************************************)
Tiled == hp.brk # 0 => TiledBy(hp)
Flags == hp.brk # 0 => FlagsKnown(hp, {})
Coalesced == hp.brk # 0 => Merged(hp, {})
Listed == hp.brk # 0 => Binned(hp, {})

(***************************************************************************)
(* The client's blocks and the allocated blocks correspond one to one, and *)
(* each has room for its request: nothing is handed out twice, nothing     *)
(* leaks.                                                                  *)
(***************************************************************************)
LiveIsUsed == Owns(live, Used(hp))

(***************************************************************************)
(* No two blocks the client holds share a byte.                            *)
(***************************************************************************)
NoOverlap ==
  \A r, s \in live :
    r # s => r.ptr + r.size <= s.ptr \/ s.ptr + s.size <= r.ptr

(***************************************************************************)
(* malloc fails or grows the heap only when no free block is large enough. *)
(***************************************************************************)
FitIsFound ==
  \A size \in Sizes \ {0} : \A m \in malloc(hp, size) :
    hp.brk # 0 /\ (m.bp = NULL \/ m.hp.brk # hp.brk) =>
      \A c \in DOMAIN hp.hdr : hp.hdr[c].alloc \/ hp.hdr[c].size < adjusted_size(size)

(***************************************************************************)
(* The contract of mm.h.                                                   *)
(***************************************************************************)
Contract == INSTANCE AllocSpec WITH regions <- live, hi <- hp.brk
ImplementsContract == Contract!Spec
=============================================================================
