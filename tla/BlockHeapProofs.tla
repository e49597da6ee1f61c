-------------------------- MODULE BlockHeapProofs --------------------------
(***************************************************************************)
(* Proofs about BlockHeap, for every arena, chunk size and set of          *)
(* requests.                                                               *)
(***************************************************************************)
EXTENDS BlockHeap, NatFacts, TLAPS

WF(h, X) ==
  HeapType(h) /\ TiledBy(h) /\ FlagsKnown(h, X) /\ Merged(h, X) /\ Binned(h, X)

-----------------------------------------------------------------------------
(***************************************************************************)
(* round_up leaves a multiple of 16 alone (mm.c:214), away from the end of *)
(* size_t.                                                                 *)
(***************************************************************************)
LEMMA RoundUpMultiple ==
  ASSUME NEW n \in Nat, n % 16 = 0, n + 16 <= SIZE_MOD
  PROVE  round_up(n, dsize) = n
<1>1. SIZE_MOD \in Nat
  BY SizeModAssumption
<1>2. (n + 15) % SIZE_MOD = n + 15
  BY <1>1
<1>3. 16 * ((n + 15) \div 16) = n
  OBVIOUS
<1>4. n % SIZE_MOD = n
  BY <1>1
<1> QED
  BY <1>2, <1>3, <1>4 DEF round_up, dsize, wsize

(***************************************************************************)
(* The block size malloc computes (mm.c:1284) is a multiple of 16 that     *)
(* holds the request and a header.                                         *)
(***************************************************************************)
LEMMA AdjustedSize ==
  ASSUME NEW size, FitsWord(size), size # 0
  PROVE  /\ adjusted_size(size) \in Nat
         /\ adjusted_size(size) % 16 = 0
         /\ adjusted_size(size) >= 16
         /\ size <= adjusted_size(size) - 8
         /\ adjusted_size(size) + 16 <= SIZE_MOD
<1>1. SIZE_MOD \in Nat /\ SIZE_MOD % 16 = 0
  BY SizeModAssumption
<1>2. size \in Nat /\ size + 24 <= SIZE_MOD
  BY DEF FitsWord, wsize, dsize
<1>3. (size + 8) % SIZE_MOD = size + 8
  BY <1>1, <1>2
<1>4. (size + 8 + 15) % SIZE_MOD = size + 23
  BY <1>1, <1>2
<1> DEFINE a == 16 * ((size + 23) \div 16)
<1>5. a \in Nat /\ a % 16 = 0 /\ a >= size + 8 /\ a <= size + 23
  BY <1>2
<1>6. a + 16 <= SIZE_MOD
  BY <1>1, <1>2, <1>5
<1>7. a % SIZE_MOD = a
  BY <1>1, <1>5, <1>6
<1>8. adjusted_size(size) = a
  BY <1>3, <1>4, <1>7 DEF adjusted_size, round_up, dsize, wsize
<1> QED
  BY <1>2, <1>5, <1>6, <1>8

-----------------------------------------------------------------------------
(***************************************************************************)
(* The types of the fields of a header.                                    *)
(***************************************************************************)
LEMMA HeapTypeFields ==
  ASSUME NEW h, HeapType(h), NEW c \in DOMAIN h.hdr
  PROVE  /\ c \in Nat /\ c \in 0 .. MaxHeap
         /\ h.hdr[c].size \in Nat /\ h.hdr[c].alloc \in BOOLEAN
         /\ h.hdr[c].prev_alloc \in BOOLEAN /\ h.hdr[c].prev_mini \in BOOLEAN
<1>1. h.hdr[c] \in Headers /\ c \in 0 .. MaxHeap
  BY DEF HeapType
<1> QED
  BY <1>1 DEF Headers

(***************************************************************************)
(* A header built from typed fields is a header.                           *)
(***************************************************************************)
LEMMA HeaderType ==
  ASSUME NEW size \in Nat, NEW alloc \in BOOLEAN, NEW prev_alloc \in BOOLEAN,
         NEW prev_mini \in BOOLEAN
  PROVE  Header(size, alloc, prev_alloc, prev_mini) \in Headers
BY DEF Header, Headers

(***************************************************************************)
(* A step down or up the heap from one block stays clear of another.       *)
(***************************************************************************)
LEMMA Order ==
  ASSUME NEW h, HeapType(h), TiledBy(h),
         NEW c \in DOMAIN h.hdr, NEW d \in DOMAIN h.hdr, c < d
  PROVE  /\ c \in Nat /\ d \in Nat /\ c # epilogue(h)
         /\ h.hdr[c].size \in Nat /\ h.hdr[c].size >= 16
         /\ find_next(h, c) \in DOMAIN h.hdr
         /\ find_next(h, c) <= d
         /\ c < find_next(h, c)
<1>1. c \in Nat /\ d \in Nat /\ h.brk \in Nat
  BY DEF HeapType
<1>2. d <= epilogue(h)
  BY DEF TiledBy
<1>3. c # epilogue(h)
  BY <1>1, <1>2 DEF epilogue, wsize
<1>4. h.hdr[c] \in Headers
  BY DEF HeapType
<1>5. h.hdr[c].size \in Nat
  BY <1>4 DEF Headers
<1>6. /\ h.hdr[c].size >= 16
      /\ find_next(h, c) \in DOMAIN h.hdr
      /\ d <= c \/ d >= find_next(h, c)
  BY <1>3 DEF TiledBy, min_block_size, dsize, wsize
<1> QED
  BY <1>1, <1>3, <1>5, <1>6 DEF find_next

(***************************************************************************)
(* Replacing the blocks from first up to after by one keeps the tiling:    *)
(* what the four cases of coalesce_block (mm.c:737) have in common.        *)
(***************************************************************************)
LEMMA MergeTiled ==
  ASSUME NEW h, HeapType(h), TiledBy(h),
         NEW first \in DOMAIN h.hdr, NEW after \in DOMAIN h.hdr, first < after,
         NEW g, HeapType(g), g.brk = h.brk,
         DOMAIN g.hdr = {c \in DOMAIN h.hdr : c <= first \/ c >= after},
         g.hdr[first].size = after - first,
         \A c \in DOMAIN g.hdr \ {first} : /\ g.hdr[c].size = h.hdr[c].size
                                           /\ g.hdr[c].alloc <=> h.hdr[c].alloc
  PROVE  TiledBy(g)
<1> DEFINE D == DOMAIN h.hdr
           G == DOMAIN g.hdr
           e == epilogue(h)
<1>1. e = epilogue(g) /\ e \in Nat
  BY DEF epilogue, HeapType, TiledBy
<1>2. \A c \in D : c \in Nat /\ h.hdr[c].size \in Nat
  BY DEF HeapType, Headers
<1>3. \A c \in D : c \in wsize .. e /\ c % 16 = 8
  BY DEF TiledBy
<1>4. wsize \in G /\ e \in G /\ first # e /\ first \in G /\ after \in G
  BY <1>1, <1>2, <1>3 DEF TiledBy, wsize
<1>5. g.hdr[e].size = 0 /\ g.hdr[e].alloc
  BY <1>4 DEF TiledBy
<1>6. ASSUME NEW c \in G \ {e}
      PROVE  /\ g.hdr[c].size >= min_block_size /\ g.hdr[c].size % 16 = 0
             /\ find_next(g, c) \in G
             /\ \A d \in G : d <= c \/ d >= find_next(g, c)
  <2>1. CASE c = first
    <3>1. first + h.hdr[first].size <= after /\ h.hdr[first].size >= 16
      BY Order DEF find_next
    <3>2. after - first >= 16 /\ (after - first) % 16 = 0
      BY <3>1, <1>2, <1>3
    <3>3. find_next(g, c) = after
      BY <2>1, <1>2 DEF find_next
    <3> QED
      BY <2>1, <3>2, <3>3, <1>4 DEF min_block_size, dsize, wsize
  <2>2. CASE c # first
    <3>1. c \in D \ {e} /\ find_next(g, c) = find_next(h, c)
      BY <2>2 DEF find_next
    <3>2. /\ h.hdr[c].size >= min_block_size /\ h.hdr[c].size % 16 = 0
          /\ find_next(h, c) \in D
          /\ \A d \in D : d <= c \/ d >= find_next(h, c)
      BY <3>1 DEF TiledBy
    <3>3. CASE c < first
      <4>1. find_next(h, c) <= first
        BY <3>3, Order
      <4> QED
        BY <3>1, <3>2, <4>1, <2>2
    <3>4. CASE c >= after
      <4>1. find_next(h, c) >= after
        BY <3>4, <3>2, <1>2 DEF find_next
      <4> QED
        BY <3>1, <3>2, <4>1, <2>2
    <3> QED
      BY <3>3, <3>4, <2>2, <1>2
  <2> QED
    BY <2>1, <2>2
<1>7. ASSUME NEW c \in G \ {wsize}
      PROVE  \E p \in G \ {e} : find_next(g, p) = c
  <2>1. CASE c = after
    BY <2>1, <1>2, <1>4 DEF find_next
  <2>2. PICK p \in D \ {e} : find_next(h, p) = c
    BY DEF TiledBy
  <2>3. p < c
    BY <2>2, <1>2 DEF find_next, TiledBy, min_block_size, dsize, wsize
  <2>4. CASE c <= first
    <3>1. p \in G /\ p # first
      BY <2>3, <2>4, <1>2
    <3> QED
      BY <2>2, <3>1 DEF find_next
  <2>5. CASE c > after
    <3>1. p >= after
      BY <2>2, <2>5, Order, <1>2
    <3>2. p \in G /\ p # first
      BY <3>1, <1>2
    <3> QED
      BY <2>2, <3>2 DEF find_next
  <2> QED
    BY <2>1, <2>4, <2>5, <1>2
<1> QED
  BY <1>1, <1>3, <1>4, <1>5, <1>6, <1>7 DEF TiledBy

(***************************************************************************)
(* g is h with the blocks from first up to after replaced by one free      *)
(* block, of which the header at after is told.                            *)
(***************************************************************************)
Merges(h, g, first, after) ==
  /\ first \in DOMAIN h.hdr /\ after \in DOMAIN h.hdr /\ first < after
  /\ g.brk = h.brk
  /\ DOMAIN g.hdr = {c \in DOMAIN h.hdr : c <= first \/ c >= after}
  /\ g.hdr[first].size = after - first /\ ~g.hdr[first].alloc
  /\ ~g.hdr[after].prev_alloc
  /\ g.hdr[after].prev_mini <=> after - first = 16
  /\ \A c \in DOMAIN g.hdr \ {first} : /\ g.hdr[c].size = h.hdr[c].size
                                       /\ g.hdr[c].alloc <=> h.hdr[c].alloc
  /\ \A c \in DOMAIN g.hdr \ {after} :
       /\ g.hdr[c].prev_alloc <=> h.hdr[c].prev_alloc
       /\ g.hdr[c].prev_mini <=> h.hdr[c].prev_mini

(***************************************************************************)
(* In a merged heap a block other than the merged one has the successor it *)
(* had.                                                                    *)
(***************************************************************************)
LEMMA MergeNext ==
  ASSUME NEW h, HeapType(h), TiledBy(h), NEW g, NEW first, NEW after,
         Merges(h, g, first, after),
         NEW c \in DOMAIN g.hdr, c # epilogue(h), c # first
  PROVE  /\ c \in DOMAIN h.hdr /\ c \in Nat
         /\ first \in Nat /\ after \in Nat /\ first < after
         /\ c < first \/ c >= after
         /\ find_next(g, c) = find_next(h, c)
         /\ find_next(h, c) \in DOMAIN g.hdr /\ find_next(h, c) # after
         /\ c < first => find_next(h, c) <= first
         /\ c >= after => find_next(h, c) > after
         /\ find_next(h, c) \in Nat
<1>1. /\ c \in DOMAIN h.hdr /\ first \in DOMAIN h.hdr /\ after \in DOMAIN h.hdr
      /\ first < after /\ (c <= first \/ c >= after)
  BY DEF Merges
<1>2. /\ \A d \in DOMAIN h.hdr : d \in Nat /\ h.hdr[d].size \in Nat
      /\ epilogue(h) \in DOMAIN h.hdr
      /\ \A d \in DOMAIN h.hdr : d <= epilogue(h)
  BY DEF HeapType, Headers, TiledBy
<1>3. c < epilogue(h) /\ (c < first \/ c >= after)
  BY <1>1, <1>2
<1>4. find_next(h, c) \in DOMAIN h.hdr /\ c < find_next(h, c)
  BY <1>1, <1>2, <1>3, Order
<1>5. c < first => find_next(h, c) <= first
  BY <1>1, Order
<1>6. c >= after => find_next(h, c) > after
  BY <1>1, <1>2, <1>4
<1>7. find_next(h, c) \in DOMAIN g.hdr
  BY <1>1, <1>2, <1>3, <1>4, <1>5, <1>6 DEF Merges
<1>8. find_next(g, c) = find_next(h, c)
  BY DEF Merges, find_next
<1> QED
  BY <1>1, <1>2, <1>3, <1>4, <1>5, <1>6, <1>7, <1>8

(***************************************************************************)
(* After a merge around the pending block b every header knows its         *)
(* predecessor again: coalesce_block (mm.c:737) rewrites the one header    *)
(* that did not.                                                           *)
(***************************************************************************)
LEMMA MergeFlags ==
  ASSUME NEW h, HeapType(h), TiledBy(h), NEW g, NEW first, NEW after,
         Merges(h, g, first, after),
         NEW b, first <= b, b < after, b \in DOMAIN h.hdr,
         FlagsKnown(h, {b})
  PROVE  FlagsKnown(g, {})
<1>1. /\ first \in Nat /\ after \in Nat /\ first < after /\ b \in Nat
      /\ first \in DOMAIN h.hdr
  BY DEF Merges, HeapType
<1>2. epilogue(g) = epilogue(h)
  BY DEF Merges, epilogue
<1>3. wsize \in DOMAIN g.hdr /\ wsize # after
  BY <1>1 DEF Merges, TiledBy, wsize
<1>4. g.hdr[wsize].prev_alloc /\ ~g.hdr[wsize].prev_mini
  BY <1>3 DEF Merges, FlagsKnown
<1>5. ASSUME NEW c \in DOMAIN g.hdr \ {epilogue(h)}
      PROVE  /\ g.hdr[find_next(g, c)].prev_alloc <=> g.hdr[c].alloc
             /\ g.hdr[find_next(g, c)].prev_mini
                  <=> g.hdr[c].size = min_block_size
  <2>1. CASE c = first
    <3>1. find_next(g, c) = after
      BY <2>1, <1>1 DEF find_next, Merges
    <3>2. /\ ~g.hdr[c].alloc
          /\ g.hdr[c].size = after - first
      BY <2>1 DEF Merges
    <3> QED
      BY <3>1, <3>2 DEF Merges, min_block_size, dsize, wsize
  <2>2. CASE c # first
    <3> DEFINE d == find_next(h, c)
    <3>1. /\ c \in DOMAIN h.hdr /\ c # b
          /\ find_next(g, c) = d /\ d \in DOMAIN g.hdr /\ d # after
      BY <2>2, <1>1, MergeNext
    <3>2. /\ h.hdr[d].prev_alloc <=> h.hdr[c].alloc
          /\ h.hdr[d].prev_mini <=> h.hdr[c].size = min_block_size
      BY <3>1 DEF FlagsKnown
    <3>3. /\ g.hdr[d].prev_alloc <=> h.hdr[d].prev_alloc
          /\ g.hdr[d].prev_mini <=> h.hdr[d].prev_mini
          /\ g.hdr[c].alloc <=> h.hdr[c].alloc
          /\ g.hdr[c].size = h.hdr[c].size
      BY <3>1, <2>2 DEF Merges
    <3> QED
      BY <3>1, <3>2, <3>3
  <2> QED
    BY <2>1, <2>2
<1> QED
  BY <1>2, <1>4, <1>5 DEF FlagsKnown

(***************************************************************************)
(* After a merge no two neighbours are free, because the block before the  *)
(* result is allocated (the flag says so) and so is the one after it.      *)
(***************************************************************************)
LEMMA MergeMerged ==
  ASSUME NEW h, HeapType(h), TiledBy(h), NEW g, NEW first, NEW after,
         Merges(h, g, first, after),
         NEW b, first <= b, b < after, b \in DOMAIN h.hdr,
         h.hdr[after].alloc, h.hdr[first].prev_alloc,
         FlagsKnown(h, {b}), Merged(h, {b})
  PROVE  Merged(g, {})
<1>1. /\ first \in Nat /\ after \in Nat /\ first < after /\ b \in Nat
      /\ first \in DOMAIN h.hdr /\ after \in DOMAIN g.hdr
  BY DEF Merges, HeapType
<1>2. epilogue(g) = epilogue(h)
  BY DEF Merges, epilogue
<1>3. ASSUME NEW c \in DOMAIN g.hdr \ {epilogue(h)}
      PROVE  g.hdr[c].alloc \/ g.hdr[find_next(g, c)].alloc
  <2>1. CASE c = first
    <3>1. find_next(g, c) = after
      BY <2>1, <1>1 DEF find_next, Merges
    <3>2. g.hdr[after].alloc
      BY <1>1 DEF Merges
    <3> QED
      BY <3>1, <3>2
  <2>2. CASE c # first
    <3> DEFINE d == find_next(h, c)
    <3>1. /\ c \in DOMAIN h.hdr /\ c # b
          /\ find_next(g, c) = d /\ d \in DOMAIN g.hdr
          /\ d # first => d # b
      BY <2>2, <1>1, MergeNext
    <3>2. g.hdr[c].alloc <=> h.hdr[c].alloc
      BY <2>2 DEF Merges
    <3>3. CASE d = first
      <4>1. h.hdr[d].prev_alloc <=> h.hdr[c].alloc
        BY <3>1 DEF FlagsKnown
      <4> QED
        BY <4>1, <3>3, <3>2
    <3>4. CASE d # first
      <4>1. h.hdr[c].alloc \/ h.hdr[d].alloc
        BY <3>1, <3>4 DEF Merged
      <4>2. g.hdr[d].alloc <=> h.hdr[d].alloc
        BY <3>1, <3>4 DEF Merges
      <4> QED
        BY <4>1, <4>2, <3>1, <3>2
    <3> QED
      BY <3>3, <3>4
  <2> QED
    BY <2>1, <2>2
<1> QED
  BY <1>2, <1>3 DEF Merged

(***************************************************************************)
(* Only free blocks disappear in a merge.                                  *)
(***************************************************************************)
LEMMA MergeUsed ==
  ASSUME NEW h, HeapType(h), TiledBy(h), NEW g, NEW first, NEW after,
         Merges(h, g, first, after),
         \A c \in DOMAIN h.hdr : first <= c /\ c < after => ~h.hdr[c].alloc
  PROVE  Used(g) = Used(h)
<1>1. epilogue(g) = epilogue(h)
  BY DEF Merges, epilogue
<1>2. \A c \in DOMAIN h.hdr : c \in Nat
  BY DEF HeapType
<1>3. first \in DOMAIN h.hdr /\ after \in DOMAIN h.hdr
  BY DEF Merges
<1>4. ASSUME NEW d
      PROVE  (d \in DOMAIN g.hdr /\ g.hdr[d].alloc)
               <=> (d \in DOMAIN h.hdr /\ h.hdr[d].alloc)
  <2>1. CASE d = first
    BY <2>1, <1>2, <1>3 DEF Merges
  <2>2. CASE d # first
    <3>1. d \in DOMAIN g.hdr => d \in DOMAIN h.hdr /\ (g.hdr[d].alloc <=> h.hdr[d].alloc)
      BY <2>2 DEF Merges
    <3>2. d \in DOMAIN h.hdr /\ h.hdr[d].alloc => d \in DOMAIN g.hdr
      BY <2>2, <1>2, <1>3 DEF Merges
    <3> QED
      BY <3>1, <3>2
  <2> QED
    BY <2>1, <2>2
<1>5. \A d \in DOMAIN g.hdr : g.hdr[d].alloc => g.hdr[d].size = h.hdr[d].size
  BY DEF Merges
<1>6. {d \in DOMAIN g.hdr \ {epilogue(g)} : g.hdr[d].alloc}
        = {d \in DOMAIN h.hdr \ {epilogue(h)} : h.hdr[d].alloc}
  BY <1>1, <1>4
<1>7. \A d \in {c \in DOMAIN g.hdr \ {epilogue(g)} : g.hdr[c].alloc} :
        g.hdr[d].size = h.hdr[d].size
  BY <1>5
<1> QED
  BY <1>6, <1>7 DEF Used

(***************************************************************************)
(* The merged block is put on the list of its size, the swallowed ones     *)
(* were taken off theirs.                                                  *)
(***************************************************************************)
LEMMA MergeBinned ==
  ASSUME NEW h, HeapType(h), TiledBy(h), NEW g, NEW first, NEW after,
         Merges(h, g, first, after),
         \A k \in BinIds : \A c : c \in g.bins[k] <=>
           \/ /\ c \in DOMAIN h.hdr /\ ~h.hdr[c].alloc
              /\ BinOf(h.hdr[c].size) = k /\ (c < first \/ c >= after)
           \/ c = first /\ BinOf(after - first) = k
  PROVE  Binned(g, {})
<1>1. /\ \A c \in DOMAIN h.hdr : c \in Nat
      /\ first \in DOMAIN h.hdr /\ after \in DOMAIN h.hdr /\ first < after
  BY DEF HeapType, Merges
<1>2. ASSUME NEW k \in BinIds, NEW c
      PROVE  c \in g.bins[k] <=>
               c \in DOMAIN g.hdr /\ ~g.hdr[c].alloc /\ BinOf(g.hdr[c].size) = k
  <2>1. CASE c = first
    BY <2>1, <1>1 DEF Merges
  <2>2. CASE c # first
    <3>1. c \in DOMAIN g.hdr <=> c \in DOMAIN h.hdr /\ (c < first \/ c >= after)
      BY <2>2, <1>1 DEF Merges
    <3>2. c \in DOMAIN g.hdr => /\ g.hdr[c].alloc <=> h.hdr[c].alloc
                                /\ g.hdr[c].size = h.hdr[c].size
      BY <2>2 DEF Merges
    <3> QED
      BY <2>2, <3>1, <3>2
  <2> QED
    BY <2>1, <2>2
<1> QED
  BY <1>2 DEF Binned

-----------------------------------------------------------------------------
(***************************************************************************)
(* find_prev (mm.c:515) on a block whose flag says that its predecessor is *)
(* free finds that predecessor, and the block before it is allocated.      *)
(***************************************************************************)
LEMMA FindPrev ==
  ASSUME NEW h, NEW b \in DOMAIN h.hdr, WF(h, {b}), ~h.hdr[b].prev_alloc
  PROVE  /\ find_prev(h, b) \in DOMAIN h.hdr
         /\ find_prev(h, b) < b
         /\ find_next(h, find_prev(h, b)) = b
         /\ ~h.hdr[find_prev(h, b)].alloc
         /\ h.hdr[find_prev(h, b)].prev_alloc
<1>1. HeapType(h) /\ TiledBy(h) /\ FlagsKnown(h, {b}) /\ Merged(h, {b})
  BY DEF WF
<1>2. \A c \in DOMAIN h.hdr : c \in Nat /\ h.hdr[c].size \in Nat
  BY <1>1, HeapTypeFields
<1>3. b # wsize
  BY <1>1 DEF FlagsKnown
<1>4. PICK p \in DOMAIN h.hdr \ {epilogue(h)} : find_next(h, p) = b
  BY <1>1, <1>3 DEF TiledBy
<1>5. p < b
  <2>1. h.hdr[p].size >= 16
    BY <1>1, <1>4 DEF TiledBy, min_block_size, dsize, wsize
  <2> QED
    BY <2>1, <1>2, <1>4 DEF find_next
<1>6. /\ ~h.hdr[p].alloc
      /\ h.hdr[b].prev_mini <=> h.hdr[p].size = 16
  <2>1. p \in DOMAIN h.hdr \ ({epilogue(h)} \cup {b})
    BY <1>2, <1>4, <1>5
  <2> QED
    BY <2>1, <1>1, <1>4 DEF FlagsKnown, min_block_size, dsize, wsize
<1>7. find_prev(h, b) = p
  <2>1. CASE h.hdr[b].prev_mini
    <3>1. b = p + 16
      BY <2>1, <1>4, <1>6 DEF find_next
    <3> QED
      BY <2>1, <3>1, <1>2 DEF find_prev, min_block_size, dsize, wsize
  <2>2. CASE ~h.hdr[b].prev_mini
    <3> DEFINE P(c) == c < b /\ find_next(h, c) = b
               q == CHOOSE c \in DOMAIN h.hdr : P(c)
    <3>1. q \in DOMAIN h.hdr /\ P(q)
      BY <1>4, <1>5
    <3>2. ~(q < p)
      BY <3>1, <1>1, <1>2, <1>4, <1>5, Order
    <3>3. ~(p < q)
      BY <3>1, <1>1, <1>2, <1>4, <1>5, Order
    <3>4. q = p
      BY <3>1, <3>2, <3>3, <1>2
    <3> QED
      BY <2>2, <3>4 DEF find_prev
  <2> QED
    BY <2>1, <2>2
<1>8. h.hdr[p].prev_alloc
  <2>1. CASE p = wsize
    BY <2>1, <1>1 DEF FlagsKnown
  <2>2. CASE p # wsize
    <3>1. PICK q \in DOMAIN h.hdr \ {epilogue(h)} : find_next(h, q) = p
      BY <2>2, <1>1, <1>4 DEF TiledBy
    <3>2. q < p
      <4>1. h.hdr[q].size >= 16
        BY <1>1, <3>1 DEF TiledBy, min_block_size, dsize, wsize
      <4> QED
        BY <4>1, <1>2, <3>1 DEF find_next
    <3>3. q # b /\ p # b
      BY <3>2, <1>2, <1>5
    <3>4. h.hdr[q].alloc
      BY <3>1, <3>3, <1>1, <1>6 DEF Merged
    <3>5. q \in DOMAIN h.hdr \ ({epilogue(h)} \cup {b})
      BY <3>1, <3>3
    <3> QED
      BY <3>1, <3>4, <3>5, <1>1 DEF FlagsKnown
  <2> QED
    BY <2>1, <2>2
<1> QED
  BY <1>4, <1>5, <1>6, <1>7, <1>8

(***************************************************************************)
(* A free block after the pending one is not the epilogue, and the block   *)
(* after it is allocated.                                                  *)
(***************************************************************************)
LEMMA FreeNext ==
  ASSUME NEW h, NEW b \in DOMAIN h.hdr \ {epilogue(h)}, WF(h, {b}),
         ~h.hdr[find_next(h, b)].alloc
  PROVE  /\ find_next(h, b) # epilogue(h)
         /\ find_next(h, find_next(h, b)) \in DOMAIN h.hdr
         /\ find_next(h, b) < find_next(h, find_next(h, b))
         /\ h.hdr[find_next(h, find_next(h, b))].alloc
<1> DEFINE n == find_next(h, b)
<1>1. HeapType(h) /\ TiledBy(h) /\ Merged(h, {b})
  BY DEF WF
<1>2. \A c \in DOMAIN h.hdr : c \in Nat /\ h.hdr[c].size \in Nat
  BY <1>1, HeapTypeFields
<1>3. n \in DOMAIN h.hdr \ {epilogue(h)}
  BY <1>1 DEF TiledBy
<1>4. h.hdr[b].size >= 16 /\ h.hdr[n].size >= 16 /\ find_next(h, n) \in DOMAIN h.hdr
  BY <1>1, <1>3 DEF TiledBy, min_block_size, dsize, wsize
<1>5. b < n /\ n < find_next(h, n)
  BY <1>2, <1>3, <1>4 DEF find_next
<1>6. n # b /\ find_next(h, n) # b
  BY <1>2, <1>3, <1>4, <1>5
<1> QED
  BY <1>1, <1>3, <1>4, <1>5, <1>6 DEF Merged

(***************************************************************************)
(* coalesce_block (mm.c:737) turns a heap with one pending block into one  *)
(* with nothing pending, touches no allocated block, and returns a free    *)
(* block at least as large as the one it was given.                        *)
(***************************************************************************)
LEMMA Coalesce ==
  ASSUME NEW h, NEW b \in DOMAIN h.hdr \ {epilogue(h)}, WF(h, {b}),
         ~h.hdr[b].alloc
  PROVE  LET r == coalesce_block(h, b)
         IN  /\ WF(r.hp, {}) /\ Used(r.hp) = Used(h) /\ r.hp.brk = h.brk
             /\ r.block \in DOMAIN r.hp.hdr /\ ~r.hp.hdr[r.block].alloc
             /\ r.hp.hdr[r.block].size >= h.hdr[b].size
<1> DEFINE D == DOMAIN h.hdr
           next == find_next(h, b)
           prev_free == ~h.hdr[b].prev_alloc
           next_free == ~h.hdr[next].alloc
           first == IF prev_free THEN find_prev(h, b) ELSE b
           after == IF next_free THEN find_next(h, next) ELSE next
           total == h.hdr[b].size
                      + (IF prev_free THEN h.hdr[first].size ELSE 0)
                      + (IF next_free THEN h.hdr[next].size ELSE 0)
           swallowed == (IF prev_free THEN {b} ELSE {})
                          \cup (IF next_free THEN {next} ELSE {})
           bins1 == IF prev_free
                    THEN remove_free(h.bins, first, h.hdr[first].size)
                    ELSE h.bins
           bins2 == IF next_free
                    THEN remove_free(bins1, next, h.hdr[next].size)
                    ELSE bins1
           bins3 == insert_free(bins2, first, total)
           hdr1 == [c \in D \ swallowed |->
                      IF c = first
                      THEN Header(total, FALSE, h.hdr[c].prev_alloc,
                                  h.hdr[c].prev_mini)
                      ELSE IF c = after
                      THEN Header(h.hdr[c].size, h.hdr[c].alloc, FALSE,
                                  total = min_block_size)
                      ELSE h.hdr[c]]
           g == [hdr |-> hdr1, bins |-> bins3, brk |-> h.brk]
<1>1. coalesce_block(h, b) = [hp |-> g, block |-> first]
  BY DEF coalesce_block
<1>2. /\ HeapType(h) /\ TiledBy(h) /\ FlagsKnown(h, {b})
      /\ Merged(h, {b}) /\ Binned(h, {b})
  BY DEF WF
<1>3. \A c \in D : /\ c \in Nat /\ c \in 0 .. MaxHeap /\ h.hdr[c].size \in Nat
                   /\ h.hdr[c] \in Headers
  BY <1>2, HeapTypeFields DEF HeapType
<1>4. /\ first \in D /\ first <= b /\ ~h.hdr[first].alloc
      /\ h.hdr[first].prev_alloc
      /\ prev_free => first < b /\ find_next(h, first) = b
      /\ ~prev_free => first = b
  BY <1>3, FindPrev
<1>5. /\ next \in D /\ b < next /\ h.hdr[b].size >= 16
      /\ \A c \in D : c <= b \/ c >= next
  <2>1. h.hdr[b].size >= 16 /\ next \in D /\ \A c \in D : c <= b \/ c >= next
    BY <1>2 DEF TiledBy, min_block_size, dsize, wsize
  <2> QED
    BY <2>1, <1>3 DEF find_next
<1>6. /\ after \in D /\ next <= after /\ h.hdr[after].alloc
      /\ next_free => /\ next < after /\ find_next(h, next) = after
                      /\ next # epilogue(h)
      /\ ~next_free => after = next
  BY <1>3, <1>5, FreeNext
<1>7. \A c \in D : first <= c /\ c < after =>
        \/ c = first \/ c = b
        \/ next_free /\ c = next
  <2> SUFFICES ASSUME NEW c \in D, first <= c, c < after,
                      c # first, c # b, ~(next_free /\ c = next)
               PROVE  FALSE
    OBVIOUS
  <2>1. CASE c < b
    <3>1. prev_free /\ first < c
      BY <2>1, <1>3, <1>4
    <3>2. b <= c
      BY <3>1, <1>2, <1>4, Order
    <3> QED
      BY <3>2, <2>1, <1>3
  <2>2. CASE c > b
    <3>1. c >= next
      BY <2>2, <1>3, <1>5
    <3>2. next_free /\ next < c
      BY <3>1, <1>3, <1>5, <1>6
    <3>3. after <= c
      BY <3>2, <1>2, <1>5, <1>6, Order
    <3> QED
      BY <3>3, <1>3, <1>6
  <2> QED
    BY <2>1, <2>2, <1>3
<1>8. \A c \in D : first <= c /\ c < after => ~h.hdr[c].alloc
  BY <1>4, <1>7
<1>9. D \ swallowed = {c \in D : c <= first \/ c >= after}
  <2>1. ASSUME NEW c \in D, c \in swallowed PROVE ~(c <= first \/ c >= after)
    <3>1. CASE prev_free /\ c = b
      BY <3>1, <1>3, <1>4, <1>5, <1>6
    <3>2. CASE next_free /\ c = next
      BY <3>2, <1>3, <1>4, <1>5, <1>6
    <3> QED
      BY <2>1, <3>1, <3>2
  <2>2. ASSUME NEW c \in D, ~(c <= first \/ c >= after) PROVE c \in swallowed
    <3>1. c # first /\ first <= c /\ c < after
      BY <2>2, <1>3, <1>4, <1>6
    <3>2. c = b \/ (next_free /\ c = next)
      BY <3>1, <1>7
    <3>3. c = b => prev_free
      BY <3>1, <1>4
    <3> QED
      BY <3>2, <3>3
  <2> QED
    BY <2>1, <2>2
<1>10. total = after - first /\ total \in Nat /\ total >= h.hdr[b].size
  <2>1. next = b + h.hdr[b].size
    BY DEF find_next
  <2>2. prev_free => b = first + h.hdr[first].size
    BY <1>4 DEF find_next
  <2>3. next_free => after = next + h.hdr[next].size
    BY DEF find_next
  <2>4. CASE prev_free /\ next_free
    BY <2>1, <2>2, <2>3, <2>4, <1>3, <1>4, <1>5
  <2>5. CASE prev_free /\ ~next_free
    BY <2>1, <2>2, <2>5, <1>3, <1>4, <1>5
  <2>6. CASE ~prev_free /\ next_free
    BY <2>1, <2>3, <2>6, <1>3, <1>4, <1>5
  <2>7. CASE ~prev_free /\ ~next_free
    BY <2>1, <2>7, <1>3, <1>4, <1>5
  <2> QED
    BY <2>4, <2>5, <2>6, <2>7
<1>11. first < after
  BY <1>3, <1>4, <1>5, <1>6
<1>12. /\ DOMAIN g.hdr = {c \in D : c <= first \/ c >= after}
       /\ first \in DOMAIN g.hdr /\ after \in DOMAIN g.hdr
       /\ g.brk = h.brk /\ g.bins = bins3
  BY <1>3, <1>4, <1>6, <1>9, <1>11
<1> HIDE DEF prev_free, next_free, first, after, total, swallowed
<1>13. /\ g.hdr[first] = Header(total, FALSE, h.hdr[first].prev_alloc,
                                h.hdr[first].prev_mini)
       /\ g.hdr[after] = Header(h.hdr[after].size, h.hdr[after].alloc, FALSE,
                                total = min_block_size)
       /\ \A c \in DOMAIN g.hdr \ {first, after} : g.hdr[c] = h.hdr[c]
       /\ g.hdr = [c \in DOMAIN g.hdr |-> g.hdr[c]]
  BY <1>12, <1>3, <1>4, <1>6, <1>11
<1> HIDE DEF g, hdr1
<1>14. Merges(h, g, first, after)
  <2>1. /\ g.hdr[first].size = after - first /\ ~g.hdr[first].alloc
        /\ ~g.hdr[after].prev_alloc
        /\ g.hdr[after].prev_mini <=> after - first = 16
    <3>1. /\ g.hdr[first].size = total /\ ~g.hdr[first].alloc
          /\ ~g.hdr[after].prev_alloc
      BY <1>13 DEF Header
    <3>2. g.hdr[after].prev_mini = (total = min_block_size)
      BY <1>13 DEF Header
    <3>3. min_block_size = 16
      BY DEF min_block_size, dsize, wsize
    <3> QED
      BY <3>1, <3>2, <3>3, <1>10
  <2>2. ASSUME NEW c \in DOMAIN g.hdr \ {first}
        PROVE  g.hdr[c].size = h.hdr[c].size /\ (g.hdr[c].alloc <=> h.hdr[c].alloc)
    BY <1>13 DEF Header
  <2>3. ASSUME NEW c \in DOMAIN g.hdr \ {after}
        PROVE  /\ g.hdr[c].prev_alloc <=> h.hdr[c].prev_alloc
               /\ g.hdr[c].prev_mini <=> h.hdr[c].prev_mini
    BY <1>13 DEF Header
  <2> QED
    BY <2>1, <2>2, <2>3, <1>4, <1>6, <1>11, <1>12 DEF Merges
<1>15. /\ bins3 \in [BinIds -> SUBSET (0 .. MaxHeap)]
       /\ \A k \in BinIds : \A c : c \in bins3[k] <=>
            \/ /\ c \in D /\ ~h.hdr[c].alloc
               /\ BinOf(h.hdr[c].size) = k /\ (c < first \/ c >= after)
            \/ c = first /\ BinOf(after - first) = k
  <2>1. h.bins \in [BinIds -> SUBSET (0 .. MaxHeap)]
    BY <1>2 DEF HeapType
  <2>2. \A k \in BinIds : \A c : c \in h.bins[k] <=>
          c \in D /\ c # b /\ ~h.hdr[c].alloc /\ BinOf(h.hdr[c].size) = k
    BY <1>2 DEF Binned
  <2>3. /\ bins1 \in [BinIds -> SUBSET (0 .. MaxHeap)]
        /\ \A k \in BinIds : \A c : c \in bins1[k] <=>
             c \in h.bins[k] /\ ~(prev_free /\ c = first)
    BY <2>1, <2>2 DEF remove_free
  <2> HIDE DEF bins1
  <2>4. /\ bins2 \in [BinIds -> SUBSET (0 .. MaxHeap)]
        /\ \A k \in BinIds : \A c : c \in bins2[k] <=>
             c \in bins1[k] /\ ~(next_free /\ c = next)
    BY <2>2, <2>3 DEF remove_free
  <2> HIDE DEF bins2
  <2>5. /\ bins3 \in [BinIds -> SUBSET (0 .. MaxHeap)]
        /\ \A k \in BinIds : \A c : c \in bins3[k] <=>
             c \in bins2[k] \/ (c = first /\ BinOf(total) = k)
    BY <2>4, <1>3, <1>4 DEF insert_free
  <2> HIDE DEF bins3
  <2>6. ASSUME NEW k \in BinIds, NEW c
        PROVE  c \in bins2[k] <=>
                 /\ c \in D /\ ~h.hdr[c].alloc
                 /\ BinOf(h.hdr[c].size) = k /\ (c < first \/ c >= after)
    <3>1. c \in bins2[k] <=>
            /\ c \in D /\ c # b /\ ~h.hdr[c].alloc /\ BinOf(h.hdr[c].size) = k
            /\ ~(prev_free /\ c = first) /\ ~(next_free /\ c = next)
      BY <2>2, <2>3, <2>4
    <3>2. ASSUME c \in D
          PROVE  /\ c # b /\ ~(prev_free /\ c = first) /\ ~(next_free /\ c = next)
                 <=> c < first \/ c >= after
      <4>1. first \in Nat /\ after \in Nat /\ next \in Nat /\ b \in Nat /\ c \in Nat
        BY <3>2, <1>3, <1>4, <1>5, <1>6
      <4>2. CASE c < first \/ c >= after
        BY <4>1, <4>2, <1>4, <1>5, <1>6, <1>11
      <4>3. CASE ~(c < first \/ c >= after)
        BY <3>2, <4>1, <4>3, <1>4, <1>7
      <4> QED
        BY <4>2, <4>3
    <3> QED
      BY <3>1, <3>2
  <2> QED
    BY <2>5, <2>6, <1>10
<1>16. HeapType(g)
  <2>1. \A c \in DOMAIN g.hdr : g.hdr[c] \in Headers
    <3> SUFFICES ASSUME NEW c \in DOMAIN g.hdr PROVE g.hdr[c] \in Headers
      OBVIOUS
    <3>1. c \in D /\ h.hdr[c] \in Headers
      BY <1>3, <1>12
    <3>2. CASE c = first
      BY <3>1, <3>2, <1>10, <1>13 DEF Header, Headers
    <3>3. CASE c = after
      BY <3>1, <3>3, <1>13 DEF Header, Headers
    <3>4. CASE c # first /\ c # after
      BY <3>1, <3>4, <1>13
    <3> QED
      BY <3>2, <3>3, <3>4
  <2>2. g.hdr \in [DOMAIN g.hdr -> Headers]
    BY <2>1, <1>13
  <2>3. g = [hdr |-> g.hdr, bins |-> g.bins, brk |-> g.brk]
    BY DEF g
  <2>4. DOMAIN g.hdr \subseteq 0 .. MaxHeap
    BY <1>3, <1>12
  <2>5. g.brk \in 0 .. MaxHeap
    BY <1>2, <1>12 DEF HeapType
  <2> QED
    BY <2>2, <2>3, <2>4, <2>5, <1>12, <1>15 DEF HeapType
<1> HIDE DEF bins1, bins2, bins3, next, D
<1> USE DEF D
<1>17. TiledBy(g)
  BY <1>2, <1>14, <1>16, MergeTiled DEF Merges
<1>18. FlagsKnown(g, {})
  BY <1>2, <1>4, <1>5, <1>6, <1>3, <1>14, MergeFlags
<1>19. Merged(g, {})
  BY <1>2, <1>4, <1>5, <1>6, <1>3, <1>14, MergeMerged
<1>20. Binned(g, {})
  BY <1>2, <1>12, <1>14, <1>15, MergeBinned
<1>21. Used(g) = Used(h)
  BY <1>2, <1>8, <1>14, MergeUsed
<1>22. first \in DOMAIN g.hdr /\ ~g.hdr[first].alloc /\ g.hdr[first].size >= h.hdr[b].size
  BY <1>10, <1>12, <1>13 DEF Header
<1> QED
  BY <1>1, <1>12, <1>16, <1>17, <1>18, <1>19, <1>20, <1>21, <1>22 DEF WF

-----------------------------------------------------------------------------
(***************************************************************************)
(* The tiling depends on addresses and sizes only.                         *)
(***************************************************************************)
LEMMA SameTiling ==
  ASSUME NEW h, TiledBy(h), NEW g, g.brk = h.brk, DOMAIN g.hdr = DOMAIN h.hdr,
         \A c \in DOMAIN h.hdr : g.hdr[c].size = h.hdr[c].size,
         g.hdr[epilogue(h)].alloc
  PROVE  TiledBy(g)
<1>1. epilogue(g) = epilogue(h)
  BY DEF epilogue
<1>2. \A c \in DOMAIN h.hdr : find_next(g, c) = find_next(h, c)
  BY DEF find_next
<1> QED
  BY <1>1, <1>2 DEF TiledBy

(***************************************************************************)
(* Marking a free block allocated and telling its successor (mm.c:1306):   *)
(* nothing is pending, and the block joins the allocated ones.             *)
(***************************************************************************)
LEMMA Take ==
  ASSUME NEW h, WF(h, {}), NEW b \in DOMAIN h.hdr, ~h.hdr[b].alloc
  PROVE  /\ WF(take(h, b), {}) /\ take(h, b).brk = h.brk
         /\ b \in DOMAIN take(h, b).hdr /\ b # epilogue(take(h, b))
         /\ take(h, b).hdr[b].alloc
         /\ take(h, b).hdr[b].size = h.hdr[b].size
         /\ Used(take(h, b))
              = Used(h) \cup {Entry(b, h.hdr[b].size)}
<1> DEFINE D == DOMAIN h.hdr
           e == epilogue(h)
           next == find_next(h, b)
           g == take(h, b)
<1>1. HeapType(h) /\ TiledBy(h) /\ FlagsKnown(h, {}) /\ Merged(h, {}) /\ Binned(h, {})
  BY DEF WF
<1>2. \A c \in D : /\ c \in Nat /\ h.hdr[c].size \in Nat /\ h.hdr[c] \in Headers
                   /\ h.hdr[c].alloc \in BOOLEAN /\ h.hdr[c].prev_alloc \in BOOLEAN
                   /\ h.hdr[c].prev_mini \in BOOLEAN
  BY <1>1, HeapTypeFields DEF HeapType
<1>3. b # e /\ next \in D /\ b < next
  <2>1. b # e
    BY <1>1 DEF TiledBy
  <2>2. next \in D /\ h.hdr[b].size >= 16
    BY <2>1, <1>1 DEF TiledBy, min_block_size, dsize, wsize
  <2> QED
    BY <2>1, <2>2, <1>2 DEF find_next
<1>a. b # next /\ next \in Nat
  BY <1>2, <1>3
<1>b. /\ DOMAIN g.hdr = D /\ g.brk = h.brk
      /\ g.bins = remove_free(h.bins, b, h.hdr[b].size)
  BY DEF take
<1>c. /\ g = [hdr |-> g.hdr, bins |-> g.bins, brk |-> g.brk]
      /\ g.hdr = [c \in D |-> g.hdr[c]]
  BY DEF take
<1>4. /\ g.hdr[b] = Header(h.hdr[b].size, TRUE, h.hdr[b].prev_alloc,
                           h.hdr[b].prev_mini)
      /\ g.hdr[next] = Header(h.hdr[next].size, h.hdr[next].alloc, TRUE,
                              h.hdr[next].prev_mini)
      /\ \A c \in D \ {b, next} : g.hdr[c] = h.hdr[c]
  BY <1>3, <1>a DEF take
<1> HIDE DEF g
<1>5. \A c \in D : /\ g.hdr[c].size = h.hdr[c].size
                   /\ g.hdr[c].prev_mini <=> h.hdr[c].prev_mini
                   /\ g.hdr[c].alloc <=> (h.hdr[c].alloc \/ c = b)
                   /\ g.hdr[c].prev_alloc <=> (h.hdr[c].prev_alloc \/ c = next)
  <2> SUFFICES ASSUME NEW c \in D
               PROVE  /\ g.hdr[c].size = h.hdr[c].size
                      /\ g.hdr[c].prev_mini <=> h.hdr[c].prev_mini
                      /\ g.hdr[c].alloc <=> (h.hdr[c].alloc \/ c = b)
                      /\ g.hdr[c].prev_alloc <=> (h.hdr[c].prev_alloc \/ c = next)
    OBVIOUS
  <2>1. CASE c = b
    BY <2>1, <1>2, <1>3, <1>4 DEF Header
  <2>2. CASE c = next
    BY <2>2, <1>2, <1>3, <1>4 DEF Header
  <2>3. CASE c # b /\ c # next
    BY <2>3, <1>4
  <2> QED
    BY <2>1, <2>2, <2>3
<1>6. epilogue(g) = e /\ \A c \in D : find_next(g, c) = find_next(h, c)
  BY <1>b, <1>5 DEF epilogue, find_next
<1>7. HeapType(g)
  <2>1. \A c \in D : g.hdr[c] \in Headers
    <3>1. \A c \in D : c # b /\ c # next => g.hdr[c] \in Headers
      BY <1>2, <1>4
    <3>2. g.hdr[b] \in Headers
      <4>1. Header(h.hdr[b].size, TRUE, h.hdr[b].prev_alloc, h.hdr[b].prev_mini)
              \in Headers
        BY <1>2, HeaderType
      <4> QED
        BY <1>4, <4>1
    <3>3. g.hdr[next] \in Headers
      <4>1. Header(h.hdr[next].size, h.hdr[next].alloc, TRUE,
                   h.hdr[next].prev_mini) \in Headers
        BY <1>2, <1>3, HeaderType
      <4> QED
        BY <1>4, <4>1
    <3> QED
      BY <3>1, <3>2, <3>3
  <2>2. g.hdr \in [D -> Headers]
    BY <2>1, <1>c
  <2>3. h.bins \in [BinIds -> SUBSET (0 .. MaxHeap)]
    BY <1>1 DEF HeapType
  <2>4. g.bins \in [BinIds -> SUBSET (0 .. MaxHeap)]
    BY <1>b, <2>3 DEF remove_free
  <2> QED
    BY <2>2, <2>4, <1>1, <1>b, <1>c DEF HeapType
<1>8. TiledBy(g)
  <2>1. e \in D /\ h.hdr[e].alloc
    BY <1>1 DEF TiledBy
  <2>2. g.hdr[e].alloc
    BY <2>1, <1>5
  <2>3. \A c \in D : g.hdr[c].size = h.hdr[c].size
    BY <1>5
  <2> QED
    BY <2>2, <2>3, <1>1, <1>b, SameTiling
<1>9. FlagsKnown(g, {})
  <2>1. wsize \in D
    BY <1>1 DEF TiledBy
  <2>2. g.hdr[wsize].prev_alloc /\ ~g.hdr[wsize].prev_mini
    BY <2>1, <1>1, <1>5 DEF FlagsKnown
  <2>3. ASSUME NEW c \in D \ {e}
        PROVE  /\ g.hdr[find_next(h, c)].prev_alloc <=> g.hdr[c].alloc
               /\ g.hdr[find_next(h, c)].prev_mini <=> g.hdr[c].size = min_block_size
    <3>1. find_next(h, c) \in D
      BY <1>1 DEF TiledBy
    <3>2. find_next(h, c) = next <=> c = b
      <4>1. CASE c < b
        BY <4>1, <1>1, <1>2, <1>3, Order
      <4>2. CASE b < c
        <5>1. next <= c /\ c < find_next(h, c)
          <6>1. h.hdr[c].size >= 16
            BY <1>1 DEF TiledBy, min_block_size, dsize, wsize
          <6> QED
            BY <6>1, <4>2, <1>1, <1>2, Order DEF find_next
        <5> QED
          BY <5>1, <4>2, <1>2, <1>3, <3>1
      <4> QED
        BY <4>1, <4>2, <1>2
    <3>3. /\ h.hdr[find_next(h, c)].prev_alloc <=> h.hdr[c].alloc
          /\ h.hdr[find_next(h, c)].prev_mini <=> h.hdr[c].size = min_block_size
      BY <1>1 DEF FlagsKnown
    <3> QED
      BY <3>1, <3>2, <3>3, <1>5
  <2> QED
    BY <2>2, <2>3, <1>b, <1>6 DEF FlagsKnown
<1>10. Merged(g, {})
  <2>1. ASSUME NEW c \in D \ {e}
        PROVE  g.hdr[c].alloc \/ g.hdr[find_next(h, c)].alloc
    <3>1. find_next(h, c) \in D
      BY <1>1 DEF TiledBy
    <3>2. h.hdr[c].alloc \/ h.hdr[find_next(h, c)].alloc
      BY <1>1 DEF Merged
    <3> QED
      BY <3>1, <3>2, <1>5
  <2> QED
    BY <2>1, <1>b, <1>6 DEF Merged
<1>11. Binned(g, {})
  <2>1. h.bins \in [BinIds -> SUBSET (0 .. MaxHeap)]
    BY <1>1 DEF HeapType
  <2>2. \A k \in BinIds : \A c : c \in h.bins[k] <=>
          c \in D /\ ~h.hdr[c].alloc /\ BinOf(h.hdr[c].size) = k
    BY <1>1 DEF Binned
  <2>3. \A k \in BinIds : \A c : c \in g.bins[k] <=> c \in h.bins[k] /\ c # b
    BY <2>1, <2>2, <1>b DEF remove_free
  <2>4. \A k \in BinIds : \A c : c \in g.bins[k] <=>
          c \in D /\ ~g.hdr[c].alloc /\ BinOf(g.hdr[c].size) = k
    BY <2>2, <2>3, <1>5
  <2> QED
    BY <2>4, <1>b DEF Binned
<1>12. Used(g) = Used(h) \cup {Entry(b, h.hdr[b].size)}
  <2>1. {d \in D \ {e} : g.hdr[d].alloc} = {d \in D \ {e} : h.hdr[d].alloc} \cup {b}
    BY <1>3, <1>5
  <2>2. \A d \in D : g.hdr[d].size = h.hdr[d].size
    BY <1>5
  <2>3. Used(g) = {Entry(c, g.hdr[c].size) :
                     c \in {d \in D \ {e} : g.hdr[d].alloc}}
    BY <1>b, <1>6 DEF Used
  <2>4. Used(g) = {Entry(c, h.hdr[c].size) :
                     c \in {d \in D \ {e} : h.hdr[d].alloc} \cup {b}}
    BY <2>1, <2>2, <2>3
  <2> QED
    BY <2>4 DEF Used
<1>13. g.hdr[b].alloc /\ g.hdr[b].size = h.hdr[b].size /\ b # epilogue(g)
  BY <1>3, <1>5, <1>6
<1> QED
  BY <1>b, <1>7, <1>8, <1>9, <1>10, <1>11, <1>12, <1>13 DEF WF, g

(***************************************************************************)
(* Marking an allocated block free without telling its successor, as free  *)
(* does (mm.c:1344), leaves exactly that block pending.                    *)
(***************************************************************************)
LEMMA MarkFree ==
  ASSUME NEW h, WF(h, {}), NEW b \in DOMAIN h.hdr \ {epilogue(h)},
         h.hdr[b].alloc
  PROVE  LET g == mark_free(h, b)
         IN  /\ WF(g, {b}) /\ g.brk = h.brk
             /\ b \in DOMAIN g.hdr \ {epilogue(g)} /\ ~g.hdr[b].alloc
             /\ Used(g) = Used(h) \ {Entry(b, h.hdr[b].size)}
<1> DEFINE D == DOMAIN h.hdr
           e == epilogue(h)
           g == mark_free(h, b)
<1>1. HeapType(h) /\ TiledBy(h) /\ FlagsKnown(h, {}) /\ Merged(h, {}) /\ Binned(h, {})
  BY DEF WF
<1>2. \A c \in D : /\ c \in Nat /\ h.hdr[c].size \in Nat /\ h.hdr[c] \in Headers
                   /\ h.hdr[c].prev_alloc \in BOOLEAN
                   /\ h.hdr[c].prev_mini \in BOOLEAN
  BY <1>1, HeapTypeFields DEF HeapType
<1>3. /\ DOMAIN g.hdr = D /\ g.brk = h.brk /\ g.bins = h.bins
      /\ g = [hdr |-> g.hdr, bins |-> g.bins, brk |-> g.brk]
      /\ g.hdr = [c \in D |-> g.hdr[c]]
      /\ g.hdr[b] = Header(h.hdr[b].size, FALSE, h.hdr[b].prev_alloc,
                           h.hdr[b].prev_mini)
      /\ \A c \in D \ {b} : g.hdr[c] = h.hdr[c]
  BY DEF mark_free
<1> HIDE DEF g
<1>4. \A c \in D : /\ g.hdr[c].size = h.hdr[c].size
                   /\ g.hdr[c].prev_mini <=> h.hdr[c].prev_mini
                   /\ g.hdr[c].alloc <=> (h.hdr[c].alloc /\ c # b)
                   /\ g.hdr[c].prev_alloc <=> h.hdr[c].prev_alloc
  <2>1. \A c \in D \ {b} : g.hdr[c] = h.hdr[c]
    BY <1>3
  <2>2. /\ g.hdr[b].size = h.hdr[b].size
        /\ g.hdr[b].prev_mini = h.hdr[b].prev_mini
        /\ g.hdr[b].alloc = FALSE
        /\ g.hdr[b].prev_alloc = h.hdr[b].prev_alloc
    BY <1>3 DEF Header
  <2> QED
    BY <2>1, <2>2
<1>5. epilogue(g) = e /\ \A c \in D : find_next(g, c) = find_next(h, c)
  BY <1>3, <1>4 DEF epilogue, find_next
<1>6. HeapType(g)
  <2>1. g.hdr[b] \in Headers
    <3>1. g.hdr[b] = Header(h.hdr[b].size, FALSE, h.hdr[b].prev_alloc,
                            h.hdr[b].prev_mini)
      BY <1>3
    <3>2. /\ h.hdr[b].size \in Nat /\ h.hdr[b].prev_alloc \in BOOLEAN
          /\ h.hdr[b].prev_mini \in BOOLEAN
      BY <1>2
    <3>3. Header(h.hdr[b].size, FALSE, h.hdr[b].prev_alloc, h.hdr[b].prev_mini)
            \in Headers
      BY <3>2, HeaderType
    <3> QED
      BY <3>1, <3>3
  <2>2. g.hdr \in [D -> Headers]
    BY <2>1, <1>2, <1>3
  <2> QED
    BY <2>2, <1>1, <1>3 DEF HeapType
<1>7. TiledBy(g)
  <2>1. e \in D /\ h.hdr[e].alloc
    BY <1>1 DEF TiledBy
  <2>2. g.hdr[e].alloc
    BY <2>1, <1>4
  <2>3. \A c \in D : g.hdr[c].size = h.hdr[c].size
    BY <1>4
  <2> QED
    BY <2>2, <2>3, <1>1, <1>3, SameTiling
<1>8. FlagsKnown(g, {b})
  <2>1. wsize \in D
    BY <1>1 DEF TiledBy
  <2>2. g.hdr[wsize].prev_alloc /\ ~g.hdr[wsize].prev_mini
    BY <2>1, <1>1, <1>4 DEF FlagsKnown
  <2>3. ASSUME NEW c \in D \ ({e} \cup {b})
        PROVE  /\ g.hdr[find_next(h, c)].prev_alloc <=> g.hdr[c].alloc
               /\ g.hdr[find_next(h, c)].prev_mini <=> g.hdr[c].size = min_block_size
    <3>1. find_next(h, c) \in D
      BY <1>1 DEF TiledBy
    <3>2. /\ h.hdr[find_next(h, c)].prev_alloc <=> h.hdr[c].alloc
          /\ h.hdr[find_next(h, c)].prev_mini <=> h.hdr[c].size = min_block_size
      BY <1>1 DEF FlagsKnown
    <3> QED
      BY <3>1, <3>2, <1>4
  <2> QED
    BY <2>2, <2>3, <1>3, <1>5 DEF FlagsKnown
<1>9. Merged(g, {b})
  <2>1. ASSUME NEW c \in D \ {e}
        PROVE  \/ g.hdr[c].alloc \/ g.hdr[find_next(h, c)].alloc
               \/ c = b \/ find_next(h, c) = b
    <3>1. find_next(h, c) \in D
      BY <1>1 DEF TiledBy
    <3>2. h.hdr[c].alloc \/ h.hdr[find_next(h, c)].alloc
      BY <1>1 DEF Merged
    <3> QED
      BY <3>1, <3>2, <1>4
  <2> QED
    BY <2>1, <1>3, <1>5 DEF Merged
<1>10. Binned(g, {b})
  <2>1. \A k \in BinIds : \A c : c \in h.bins[k] <=>
          c \in D /\ ~h.hdr[c].alloc /\ BinOf(h.hdr[c].size) = k
    BY <1>1 DEF Binned
  <2>2. \A k \in BinIds : \A c : c \in g.bins[k] <=>
          c \in D \ {b} /\ ~g.hdr[c].alloc /\ BinOf(g.hdr[c].size) = k
    BY <2>1, <1>3, <1>4
  <2> QED
    BY <2>2, <1>3 DEF Binned
<1>11. Used(g) = Used(h) \ {Entry(b, h.hdr[b].size)}
  <2>1. {d \in D \ {e} : g.hdr[d].alloc} = {d \in D \ {e} : h.hdr[d].alloc} \ {b}
    BY <1>4
  <2>2. \A d \in D : g.hdr[d].size = h.hdr[d].size
    BY <1>4
  <2>3. Used(g) = {Entry(c, g.hdr[c].size) :
                     c \in {d \in D \ {e} : g.hdr[d].alloc}}
    BY <1>3, <1>5 DEF Used
  <2>4. Used(g) = {Entry(c, h.hdr[c].size) :
                     c \in {d \in D \ {e} : h.hdr[d].alloc} \ {b}}
    BY <2>1, <2>2, <2>3
  <2> QED
    BY <2>4 DEF Used, Entry
<1> QED
  BY <1>3, <1>4, <1>5, <1>6, <1>7, <1>8, <1>9, <1>10, <1>11 DEF WF, g

(***************************************************************************)
(* The new area of extend_heap (mm.c:833) is a pending block in place of   *)
(* the old epilogue.                                                       *)
(***************************************************************************)
LEMMA Grow ==
  ASSUME NEW h, WF(h, {}), NEW n \in Nat, n % 16 = 0, n >= 16,
         h.brk + n <= MaxHeap
  PROVE  LET g == grow(h, n)
             b == epilogue(h)
         IN  /\ WF(g, {b}) /\ g.brk = h.brk + n
             /\ b \in DOMAIN g.hdr \ {epilogue(g)} /\ ~g.hdr[b].alloc
             /\ g.hdr[b].size = n
             /\ Used(g) = Used(h)
<1> DEFINE D == DOMAIN h.hdr
           e == epilogue(h)
           e2 == e + n
           g == grow(h, n)
<1>1. HeapType(h) /\ TiledBy(h) /\ FlagsKnown(h, {}) /\ Merged(h, {}) /\ Binned(h, {})
  BY DEF WF
<1>2. \A c \in D : /\ c \in Nat /\ h.hdr[c].size \in Nat /\ h.hdr[c] \in Headers
                   /\ h.hdr[c].prev_alloc \in BOOLEAN
                   /\ h.hdr[c].prev_mini \in BOOLEAN
  BY <1>1, HeapTypeFields DEF HeapType
<1>3. /\ e \in D /\ wsize \in D /\ h.hdr[e].alloc
      /\ \A c \in D : c \in wsize .. e /\ c % 16 = 8
      /\ h.brk \in Nat /\ MaxHeap \in Nat
  BY <1>1, BlockHeapAssumption DEF TiledBy, HeapType
<1>4. /\ e2 \notin D /\ e < e2 /\ e2 % 16 = 8 /\ e2 \in 0 .. MaxHeap
      /\ e = h.brk - 8
  BY <1>2, <1>3 DEF epilogue, wsize
<1>b. DOMAIN g.hdr = D \cup {e2} /\ g.brk = h.brk + n /\ g.bins = h.bins
  BY DEF grow
<1>c. /\ g = [hdr |-> g.hdr, bins |-> g.bins, brk |-> g.brk]
      /\ g.hdr = [c \in D \cup {e2} |-> g.hdr[c]]
  BY DEF grow
<1>5. /\ g.hdr[e2] = Header(0, TRUE, FALSE, n = min_block_size)
      /\ g.hdr[e] = Header(n, FALSE, h.hdr[e].prev_alloc, h.hdr[e].prev_mini)
      /\ \A c \in D \ {e} : g.hdr[c] = h.hdr[c]
  BY <1>2, <1>3, <1>4 DEF grow
<1>6. epilogue(g) = e2
  BY <1>b, <1>3, <1>4 DEF epilogue, wsize
<1> HIDE DEF g, e2
<1>7. /\ g.hdr[e2].size = 0 /\ g.hdr[e2].alloc
      /\ g.hdr[e].size = n /\ ~g.hdr[e].alloc
  BY <1>5 DEF Header
<1>8. \A c \in D : /\ g.hdr[c].prev_alloc <=> h.hdr[c].prev_alloc
                   /\ g.hdr[c].prev_mini <=> h.hdr[c].prev_mini
  <2>1. /\ g.hdr[e].prev_alloc = h.hdr[e].prev_alloc
        /\ g.hdr[e].prev_mini = h.hdr[e].prev_mini
    BY <1>5 DEF Header
  <2> QED
    BY <2>1, <1>5
<1>9. find_next(g, e) = e2 /\ \A c \in D \ {e} : find_next(g, c) = find_next(h, c)
  BY <1>5, <1>7 DEF find_next, e2
<1>10. \A c \in D \ {e} : /\ find_next(h, c) \in D
                          /\ h.hdr[c].size >= 16 /\ h.hdr[c].size % 16 = 0
                          /\ \A d \in D : d <= c \/ d >= find_next(h, c)
  BY <1>1 DEF TiledBy, min_block_size, dsize, wsize
<1>11. HeapType(g)
  <2>1. g.hdr[e2] \in Headers
    <3>1. Header(0, TRUE, FALSE, n = min_block_size) \in Headers
      BY HeaderType
    <3> QED
      BY <3>1, <1>5
  <2>2. g.hdr[e] \in Headers
    <3>1. Header(n, FALSE, h.hdr[e].prev_alloc, h.hdr[e].prev_mini) \in Headers
      BY <1>2, <1>3, HeaderType
    <3> QED
      BY <3>1, <1>5
  <2>3. \A c \in D \cup {e2} : g.hdr[c] \in Headers
    BY <2>1, <2>2, <1>2, <1>5
  <2>4. g.hdr \in [D \cup {e2} -> Headers]
    BY <2>3, <1>c
  <2>5. D \cup {e2} \subseteq 0 .. MaxHeap
    BY <1>1, <1>4 DEF HeapType
  <2>6. g.brk \in 0 .. MaxHeap
    BY <1>b, <1>3
  <2>7. g.bins \in [BinIds -> SUBSET (0 .. MaxHeap)]
    BY <1>b, <1>1 DEF HeapType
  <2> QED
    BY <2>4, <2>5, <2>6, <2>7, <1>b, <1>c DEF HeapType
<1>12. TiledBy(g)
  <2>1. \A c \in D \cup {e2} : c \in wsize .. e2 /\ c % 16 = 8
    BY <1>2, <1>3, <1>4 DEF wsize
  <2>2. ASSUME NEW c \in (D \cup {e2}) \ {e2}
        PROVE  /\ g.hdr[c].size >= min_block_size /\ g.hdr[c].size % 16 = 0
               /\ find_next(g, c) \in D \cup {e2}
               /\ \A d \in D \cup {e2} : d <= c \/ d >= find_next(g, c)
    <3>1. CASE c = e
      <4>1. \A d \in D \cup {e2} : d <= e \/ d >= e2
        BY <1>2, <1>3, <1>4
      <4> QED
        BY <3>1, <4>1, <1>7, <1>9 DEF min_block_size, dsize, wsize
    <3>2. CASE c # e
      <4>1. find_next(h, c) <= e
        BY <3>2, <1>3, <1>10
      <4>2. e2 >= find_next(h, c)
        BY <4>1, <3>2, <1>2, <1>3, <1>4, <1>10
      <4>3. g.hdr[c].size = h.hdr[c].size /\ find_next(g, c) = find_next(h, c)
        BY <3>2, <1>5, <1>9
      <4> QED
        BY <3>2, <4>2, <4>3, <1>10 DEF min_block_size, dsize, wsize
    <3> QED
      BY <3>1, <3>2
  <2>3. ASSUME NEW c \in (D \cup {e2}) \ {wsize}
        PROVE  \E p \in (D \cup {e2}) \ {e2} : find_next(g, p) = c
    <3>1. CASE c = e2
      BY <3>1, <1>3, <1>4, <1>9
    <3>2. CASE c # e2
      <4>1. PICK p \in D \ {e} : find_next(h, p) = c
        BY <3>2, <1>1 DEF TiledBy
      <4> QED
        BY <4>1, <1>4, <1>9
    <3> QED
      BY <3>1, <3>2
  <2> QED
    BY <2>1, <2>2, <2>3, <1>b, <1>3, <1>6, <1>7 DEF TiledBy
<1>13. FlagsKnown(g, {e})
  <2>1. g.hdr[wsize].prev_alloc /\ ~g.hdr[wsize].prev_mini
    BY <1>1, <1>3, <1>8 DEF FlagsKnown
  <2>2. ASSUME NEW c \in (D \cup {e2}) \ ({e2} \cup {e})
        PROVE  /\ g.hdr[find_next(g, c)].prev_alloc <=> g.hdr[c].alloc
               /\ g.hdr[find_next(g, c)].prev_mini <=> g.hdr[c].size = min_block_size
    <3>1. /\ h.hdr[find_next(h, c)].prev_alloc <=> h.hdr[c].alloc
          /\ h.hdr[find_next(h, c)].prev_mini <=> h.hdr[c].size = min_block_size
      BY <1>1 DEF FlagsKnown
    <3>2. g.hdr[c] = h.hdr[c] /\ find_next(g, c) = find_next(h, c)
      BY <1>5, <1>9
    <3>3. find_next(h, c) \in D
      BY <1>10
    <3> QED
      BY <3>1, <3>2, <3>3, <1>8
  <2> QED
    BY <2>1, <2>2, <1>b, <1>6 DEF FlagsKnown
<1>14. Merged(g, {e})
  <2>1. ASSUME NEW c \in (D \cup {e2}) \ {e2}
        PROVE  \/ g.hdr[c].alloc \/ g.hdr[find_next(g, c)].alloc
               \/ c \in {e} \/ find_next(g, c) \in {e}
    <3>1. CASE c # e /\ find_next(h, c) # e
      <4>1. h.hdr[c].alloc \/ h.hdr[find_next(h, c)].alloc
        BY <3>1, <1>1 DEF Merged
      <4> QED
        BY <3>1, <4>1, <1>5, <1>9, <1>10
    <3>2. CASE c # e /\ find_next(h, c) = e
      BY <3>2, <1>9
    <3> QED
      BY <3>1, <3>2
  <2> QED
    BY <2>1, <1>b, <1>6 DEF Merged
<1>15. Binned(g, {e})
  <2>1. \A k \in BinIds : \A c : c \in h.bins[k] <=>
          c \in D /\ ~h.hdr[c].alloc /\ BinOf(h.hdr[c].size) = k
    BY <1>1 DEF Binned
  <2>2. \A k \in BinIds : \A c : c \in h.bins[k] <=>
          c \in (D \cup {e2}) \ {e} /\ ~g.hdr[c].alloc /\ BinOf(g.hdr[c].size) = k
    <3> SUFFICES ASSUME NEW k \in BinIds, NEW c
                 PROVE  c \in h.bins[k] <=>
                          /\ c \in (D \cup {e2}) \ {e} /\ ~g.hdr[c].alloc
                          /\ BinOf(g.hdr[c].size) = k
      OBVIOUS
    <3>1. CASE c \in D \ {e}
      BY <3>1, <2>1, <1>5
    <3>2. CASE c = e
      BY <3>2, <2>1, <1>3
    <3>3. CASE c \notin D
      BY <3>3, <2>1, <1>7
    <3> QED
      BY <3>1, <3>2, <3>3
  <2> QED
    BY <2>2, <1>b DEF Binned
<1>16. Used(g) = Used(h)
  <2>1. {d \in (D \cup {e2}) \ {e2} : g.hdr[d].alloc} = {d \in D \ {e} : h.hdr[d].alloc}
    BY <1>4, <1>5, <1>7
  <2>2. \A d \in D \ {e} : g.hdr[d].size = h.hdr[d].size
    BY <1>5
  <2>3. Used(g) = {Entry(c, g.hdr[c].size) :
                     c \in {d \in (D \cup {e2}) \ {e2} : g.hdr[d].alloc}}
    BY <1>b, <1>6 DEF Used
  <2>4. Used(g) = {Entry(c, h.hdr[c].size) :
                     c \in {d \in D \ {e} : h.hdr[d].alloc}}
    BY <2>1, <2>2, <2>3
  <2> QED
    BY <2>4 DEF Used
<1>17. e \in DOMAIN g.hdr \ {epilogue(g)}
  BY <1>b, <1>3, <1>4, <1>6
<1> QED
  BY <1>b, <1>7, <1>11, <1>12, <1>13, <1>14, <1>15, <1>16, <1>17 DEF WF, g

(***************************************************************************)
(* The allocated blocks U after block b of size m has got size n.          *)
(***************************************************************************)
Resize(U, b, m, n) == (U \ {Entry(b, m)}) \cup {Entry(b, n)}

(***************************************************************************)
(* Cutting an allocated block in two (mm.c:870) leaves the rest pending,   *)
(* whatever the header after it says.                                      *)
(***************************************************************************)
LEMMA Split ==
  ASSUME NEW h, WF(h, {}), NEW b \in DOMAIN h.hdr \ {epilogue(h)},
         h.hdr[b].alloc, NEW a \in Nat, a % 16 = 0, a >= 16,
         h.hdr[b].size - a >= 16
  PROVE  LET g == split_block(h, b, a)
         IN  /\ WF(g, {b + a}) /\ g.brk = h.brk
             /\ b + a \in DOMAIN g.hdr \ {epilogue(g)} /\ ~g.hdr[b + a].alloc
             /\ Used(g) = Resize(Used(h), b, h.hdr[b].size, a)
<1> DEFINE D == DOMAIN h.hdr
           e == epilogue(h)
           r == b + a
           next == find_next(h, b)
           g == split_block(h, b, a)
<1>1. HeapType(h) /\ TiledBy(h) /\ FlagsKnown(h, {}) /\ Merged(h, {}) /\ Binned(h, {})
  BY DEF WF
<1>2. \A c \in D : /\ c \in Nat /\ h.hdr[c].size \in Nat /\ h.hdr[c] \in Headers
                   /\ h.hdr[c].prev_alloc \in BOOLEAN
                   /\ h.hdr[c].prev_mini \in BOOLEAN
  BY <1>1, HeapTypeFields DEF HeapType
<1>3. /\ e \in D /\ wsize \in D /\ h.hdr[e].alloc /\ h.hdr[e].size = 0
      /\ \A c \in D : c \in wsize .. e /\ c % 16 = 8
  BY <1>1 DEF TiledBy
<1>10. \A c \in D \ {e} : /\ find_next(h, c) \in D
                          /\ h.hdr[c].size >= 16 /\ h.hdr[c].size % 16 = 0
                          /\ \A d \in D : d <= c \/ d >= find_next(h, c)
  BY <1>1 DEF TiledBy, min_block_size, dsize, wsize
<1>4. /\ next \in D /\ b < r /\ r < next /\ next = b + h.hdr[b].size
      /\ r \notin D /\ r % 16 = 8 /\ r \in Nat /\ r < e
  <2>1. next \in D /\ h.hdr[b].size % 16 = 0 /\ \A d \in D : d <= b \/ d >= next
    BY <1>10
  <2>2. next = b + h.hdr[b].size /\ b \in Nat /\ h.hdr[b].size \in Nat /\ b % 16 = 8
    BY <1>2, <1>3 DEF find_next
  <2>3. b < r /\ r < next /\ r \in Nat /\ r % 16 = 8
    BY <2>2
  <2>4. r \notin D
    BY <2>1, <2>2, <2>3
  <2>5. next <= e /\ e \in Nat
    BY <2>1, <1>2, <1>3
  <2> QED
    BY <2>1, <2>2, <2>3, <2>4, <2>5
<1>b. DOMAIN g.hdr = D \cup {r} /\ g.brk = h.brk /\ g.bins = h.bins
  BY DEF split_block
<1>c. /\ g = [hdr |-> g.hdr, bins |-> g.bins, brk |-> g.brk]
      /\ g.hdr = [c \in D \cup {r} |-> g.hdr[c]]
  BY DEF split_block
<1>5. /\ g.hdr[b] = Header(a, TRUE, h.hdr[b].prev_alloc, h.hdr[b].prev_mini)
      /\ g.hdr[r] = Header(h.hdr[b].size - a, FALSE, TRUE, a = min_block_size)
      /\ \A c \in D \ {b} : g.hdr[c] = h.hdr[c]
  BY <1>4 DEF split_block
<1>6. epilogue(g) = e
  BY <1>b DEF epilogue
<1> HIDE DEF g, r
<1>7. /\ g.hdr[b].size = a /\ g.hdr[b].alloc
      /\ g.hdr[r].size = h.hdr[b].size - a /\ ~g.hdr[r].alloc
      /\ g.hdr[r].prev_alloc
  BY <1>5 DEF Header
<1>7a. g.hdr[r].prev_mini = (a = min_block_size)
  BY <1>5 DEF Header
<1>8. \A c \in D : /\ g.hdr[c].prev_alloc <=> h.hdr[c].prev_alloc
                   /\ g.hdr[c].prev_mini <=> h.hdr[c].prev_mini
                   /\ g.hdr[c].alloc <=> h.hdr[c].alloc
  <2>1. /\ g.hdr[b].prev_alloc = h.hdr[b].prev_alloc
        /\ g.hdr[b].prev_mini = h.hdr[b].prev_mini
    BY <1>5 DEF Header
  <2> QED
    BY <2>1, <1>5, <1>7
<1>9. /\ find_next(g, b) = r /\ find_next(g, r) = next
      /\ \A c \in D \ {b} : find_next(g, c) = find_next(h, c)
  <2>1. find_next(g, b) = r
    BY <1>7 DEF find_next, r
  <2>2. find_next(g, r) = next
    BY <1>2, <1>4, <1>7 DEF find_next, r
  <2>3. \A c \in D \ {b} : find_next(g, c) = find_next(h, c)
    BY <1>5 DEF find_next
  <2> QED
    BY <2>1, <2>2, <2>3
<1>11. HeapType(g)
  <2>1. g.hdr[b] \in Headers
    <3>1. Header(a, TRUE, h.hdr[b].prev_alloc, h.hdr[b].prev_mini) \in Headers
      BY <1>2, HeaderType
    <3> QED
      BY <3>1, <1>5
  <2>2. g.hdr[r] \in Headers
    <3>1. h.hdr[b].size - a \in Nat
      BY <1>2
    <3>2. Header(h.hdr[b].size - a, FALSE, TRUE, a = min_block_size) \in Headers
      BY <3>1, HeaderType
    <3> QED
      BY <3>2, <1>5
  <2>3. \A c \in D \cup {r} : g.hdr[c] \in Headers
    BY <2>1, <2>2, <1>2, <1>5
  <2>4. g.hdr \in [D \cup {r} -> Headers]
    BY <2>3, <1>c
  <2>5. D \cup {r} \subseteq 0 .. MaxHeap
    <3>1. D \subseteq 0 .. MaxHeap
      BY <1>1 DEF HeapType
    <3> QED
      BY <3>1, <1>2, <1>3, <1>4, BlockHeapAssumption
  <2>6. g.brk \in 0 .. MaxHeap
    BY <1>b, <1>1 DEF HeapType
  <2>7. g.bins \in [BinIds -> SUBSET (0 .. MaxHeap)]
    BY <1>b, <1>1 DEF HeapType
  <2> QED
    BY <2>4, <2>5, <2>6, <2>7, <1>b, <1>c DEF HeapType
<1>12. TiledBy(g)
  <2>1. \A c \in D \cup {r} : c \in wsize .. e /\ c % 16 = 8
    BY <1>2, <1>3, <1>4 DEF wsize
  <2>2. ASSUME NEW c \in (D \cup {r}) \ {e}
        PROVE  /\ g.hdr[c].size >= min_block_size /\ g.hdr[c].size % 16 = 0
               /\ find_next(g, c) \in D \cup {r}
               /\ \A d \in D \cup {r} : d <= c \/ d >= find_next(g, c)
    <3>0. \A d \in D : d <= b \/ d >= next
      BY <1>10
    <3>1. CASE c = b
      <4>1. \A d \in D \cup {r} : d <= b \/ d >= r
        BY <3>0, <1>2, <1>4
      <4> QED
        BY <3>1, <4>1, <1>7, <1>9 DEF min_block_size, dsize, wsize
    <3>2. CASE c = r
      <4>1. \A d \in D \cup {r} : d <= r \/ d >= next
        BY <3>0, <1>2, <1>4
      <4>2. (h.hdr[b].size - a) % 16 = 0
        BY <1>2, <1>10
      <4> QED
        BY <3>2, <4>1, <4>2, <1>4, <1>7, <1>9 DEF min_block_size, dsize, wsize
    <3>3. CASE c # b /\ c # r
      <4>1. find_next(h, c) \in D /\ \A d \in D : d <= c \/ d >= find_next(h, c)
        BY <3>3, <1>10
      <4>2. r <= c \/ r >= find_next(h, c)
        <5>1. CASE c < b
          <6>1. b >= find_next(h, c)
            BY <5>1, <4>1, <1>2, <3>3
          <6> QED
            BY <6>1, <4>1, <3>3, <1>2, <1>4
        <5>2. CASE c > b
          <6>1. c >= next
            BY <5>2, <3>0, <3>3, <1>2
          <6> QED
            BY <6>1, <3>3, <1>2, <1>4
        <5> QED
          BY <5>1, <5>2, <3>3, <1>2
      <4>3. g.hdr[c].size = h.hdr[c].size /\ find_next(g, c) = find_next(h, c)
        BY <3>3, <1>5, <1>9
      <4> QED
        BY <3>3, <4>1, <4>2, <4>3, <1>10 DEF min_block_size, dsize, wsize
    <3> QED
      BY <3>1, <3>2, <3>3
  <2>3. ASSUME NEW c \in (D \cup {r}) \ {wsize}
        PROVE  \E p \in (D \cup {r}) \ {e} : find_next(g, p) = c
    <3>1. CASE c = r
      BY <3>1, <1>9
    <3>2. CASE c = next
      BY <3>2, <1>9, <1>3, <1>4
    <3>3. CASE c # r /\ c # next
      <4>1. PICK p \in D \ {e} : find_next(h, p) = c
        BY <3>3, <1>1 DEF TiledBy
      <4>2. p # b
        BY <4>1, <3>3
      <4> QED
        BY <4>1, <4>2, <1>9
    <3> QED
      BY <3>1, <3>2, <3>3
  <2>4. g.hdr[e].size = 0 /\ g.hdr[e].alloc
    BY <1>3, <1>5
  <2> QED
    BY <2>1, <2>2, <2>3, <2>4, <1>b, <1>3, <1>6 DEF TiledBy
<1>13. FlagsKnown(g, {r})
  <2>1. g.hdr[wsize].prev_alloc /\ ~g.hdr[wsize].prev_mini
    BY <1>1, <1>3, <1>8 DEF FlagsKnown
  <2>2. ASSUME NEW c \in (D \cup {r}) \ ({e} \cup {r})
        PROVE  /\ g.hdr[find_next(g, c)].prev_alloc <=> g.hdr[c].alloc
               /\ g.hdr[find_next(g, c)].prev_mini <=> g.hdr[c].size = min_block_size
    <3>1. CASE c = b
      BY <3>1, <1>7, <1>7a, <1>9
    <3>2. CASE c # b
      <4>1. /\ h.hdr[find_next(h, c)].prev_alloc <=> h.hdr[c].alloc
            /\ h.hdr[find_next(h, c)].prev_mini <=> h.hdr[c].size = min_block_size
        BY <1>1 DEF FlagsKnown
      <4>2. g.hdr[c] = h.hdr[c] /\ find_next(g, c) = find_next(h, c)
        BY <3>2, <1>5, <1>9
      <4>3. find_next(h, c) \in D
        BY <1>10
      <4> QED
        BY <4>1, <4>2, <4>3, <1>8
    <3> QED
      BY <3>1, <3>2
  <2> QED
    BY <2>1, <2>2, <1>b, <1>6 DEF FlagsKnown
<1>14. Merged(g, {r})
  <2>1. ASSUME NEW c \in (D \cup {r}) \ {e}
        PROVE  \/ g.hdr[c].alloc \/ g.hdr[find_next(g, c)].alloc
               \/ c \in {r} \/ find_next(g, c) \in {r}
    <3>1. CASE c # r /\ c # b
      <4>1. h.hdr[c].alloc \/ h.hdr[find_next(h, c)].alloc
        BY <3>1, <1>1 DEF Merged
      <4>2. find_next(h, c) \in D
        BY <3>1, <1>10
      <4> QED
        BY <3>1, <4>1, <4>2, <1>8, <1>9
    <3>2. CASE c = b
      BY <3>2, <1>7
    <3> QED
      BY <3>1, <3>2
  <2> QED
    BY <2>1, <1>b, <1>6 DEF Merged
<1>15. Binned(g, {r})
  <2>1. \A k \in BinIds : \A c : c \in h.bins[k] <=>
          c \in D /\ ~h.hdr[c].alloc /\ BinOf(h.hdr[c].size) = k
    BY <1>1 DEF Binned
  <2>2. \A k \in BinIds : \A c : c \in h.bins[k] <=>
          c \in (D \cup {r}) \ {r} /\ ~g.hdr[c].alloc /\ BinOf(g.hdr[c].size) = k
    <3>1. TAKE k \in BinIds
    <3>2. TAKE c
    <3>3. CASE c = b
      BY <2>1, <3>3, <1>4, <1>7
    <3>4. CASE c \in D /\ c # b
      BY <2>1, <3>4, <1>4, <1>5, <1>7
    <3>5. CASE c \notin D
      BY <2>1, <3>5
    <3> QED
      BY <3>3, <3>4, <3>5
  <2> QED
    BY <2>2, <1>b DEF Binned
<1>16. Used(g) = Resize(Used(h), b, h.hdr[b].size, a)
  <2> DEFINE A == {d \in D \ {e} : h.hdr[d].alloc}
  <2>1. {d \in (D \cup {r}) \ {e} : g.hdr[d].alloc} = A
    BY <1>4, <1>7, <1>8
  <2>2. Used(g) = {Entry(c, g.hdr[c].size) : c \in A}
    BY <2>1, <1>b, <1>6 DEF Used
  <2>3. Used(h) = {Entry(c, h.hdr[c].size) : c \in A}
    BY DEF Used
  <2>4. b \in A /\ g.hdr[b].size = a /\ \A d \in A \ {b} : g.hdr[d].size = h.hdr[d].size
    BY <1>5, <1>7
  <2>5. {Entry(c, g.hdr[c].size) : c \in A}
          = {Entry(c, h.hdr[c].size) : c \in A \ {b}}
              \cup {Entry(b, a)}
    BY <2>4
  <2>6. {Entry(c, h.hdr[c].size) : c \in A}
           \ {Entry(b, h.hdr[b].size)}
          = {Entry(c, h.hdr[c].size) : c \in A \ {b}}
    BY DEF Entry
  <2> QED
    BY <2>2, <2>3, <2>5, <2>6 DEF Resize
<1>17. r \in DOMAIN g.hdr \ {epilogue(g)}
  BY <1>b, <1>3, <1>4, <1>6
<1> QED
  BY <1>b, <1>7, <1>11, <1>12, <1>13, <1>14, <1>15, <1>16, <1>17 DEF WF, g, r

-----------------------------------------------------------------------------
(***************************************************************************)
(* extend_heap (mm.c:833) either fails and changes nothing or returns a    *)
(* free block of at least the size asked for.                              *)
(***************************************************************************)
LEMMA Extend ==
  ASSUME NEW h, WF(h, {}), NEW n \in Nat, n % 16 = 0, n >= 16,
         n + 16 <= SIZE_MOD
  PROVE  LET r == extend_heap(h, n)
         IN  \/ r.hp = h /\ r.block = NULL
             \/ /\ WF(r.hp, {}) /\ Used(r.hp) = Used(h)
                /\ r.hp.brk = h.brk + n
                /\ r.block \in DOMAIN r.hp.hdr /\ ~r.hp.hdr[r.block].alloc
                /\ r.hp.hdr[r.block].size >= n
<1>1. round_up(n, dsize) = n
  BY RoundUpMultiple
<1>2. CASE mem_sbrk_fails(h, n)
  BY <1>1, <1>2 DEF extend_heap
<1>3. CASE ~mem_sbrk_fails(h, n)
  <2> DEFINE g == grow(h, n)
             b == epilogue(h)
  <2>1. h.brk + n <= MaxHeap
    <3>1. h.brk \in Nat /\ MaxHeap \in Nat
      BY BlockHeapAssumption DEF WF, HeapType
    <3>2. ~(h.brk + n > MaxHeap)
      BY <1>3 DEF mem_sbrk_fails
    <3> QED
      BY <3>1, <3>2
  <2>2. /\ WF(g, {b}) /\ g.brk = h.brk + n
        /\ b \in DOMAIN g.hdr \ {epilogue(g)} /\ ~g.hdr[b].alloc
        /\ g.hdr[b].size = n
        /\ Used(g) = Used(h)
    BY <2>1, Grow
  <2>3. extend_heap(h, n) = coalesce_block(g, b)
    BY <1>1, <1>3 DEF extend_heap
  <2> HIDE DEF g, b
  <2> QED
    BY <2>2, <2>3, Coalesce
<1> QED
  BY <1>2, <1>3

(***************************************************************************)
(* The heap mm_init (mm.c:1217) starts from, and the one it leaves, be it  *)
(* with or without the first chunk.                                        *)
(***************************************************************************)
LEMMA Bare == WF(BareHeap, {}) /\ Used(BareHeap) = {} /\ BareHeap.brk = 16
<1> DEFINE h == BareHeap
<1>1. /\ DOMAIN h.hdr = {8} /\ h.hdr[8] = Header(0, TRUE, TRUE, FALSE)
      /\ h.brk = 16 /\ h.bins = [k \in BinIds |-> {}]
  BY DEF BareHeap, wsize
<1>a. /\ h = [hdr |-> h.hdr, bins |-> h.bins, brk |-> h.brk]
      /\ h.hdr = [c \in {8} |-> h.hdr[c]]
  BY DEF BareHeap, wsize
<1>2. epilogue(h) = 8
  BY <1>1 DEF epilogue, wsize
<1>3. MaxHeap \in Nat /\ MaxHeap >= 16
  BY BlockHeapAssumption
<1> HIDE DEF h
<1>4. /\ h.hdr[8].size = 0 /\ h.hdr[8].alloc /\ h.hdr[8].prev_alloc
      /\ ~h.hdr[8].prev_mini
  BY <1>1 DEF Header
<1>5. HeapType(h)
  <2>1. Header(0, TRUE, TRUE, FALSE) \in Headers
    BY HeaderType
  <2>2. h.hdr \in [{8} -> Headers]
    BY <2>1, <1>1, <1>a
  <2>3. h.bins \in [BinIds -> SUBSET (0 .. MaxHeap)]
    BY <1>1
  <2> QED
    BY <2>2, <2>3, <1>1, <1>a, <1>3 DEF HeapType
<1>6. TiledBy(h)
  <2>1. \A c \in {8} : c \in 8 .. 8 /\ c % 16 = 8
    OBVIOUS
  <2>2. {8} \ {8} = {}
    OBVIOUS
  <2>3. DOMAIN h.hdr = {8} /\ h.hdr[8].size = 0 /\ h.hdr[8].alloc
    BY <1>1, <1>4
  <2> QED
    BY <2>1, <2>2, <2>3, <1>2 DEF TiledBy, wsize
<1>7. FlagsKnown(h, {})
  BY <1>1, <1>2, <1>4 DEF FlagsKnown, wsize
<1>8. Merged(h, {})
  BY <1>1, <1>2 DEF Merged
<1>9. Binned(h, {})
  BY <1>1, <1>4 DEF Binned
<1>10. Used(h) = {}
  BY <1>1, <1>2 DEF Used
<1> QED
  BY <1>1, <1>5, <1>6, <1>7, <1>8, <1>9, <1>10 DEF WF, h

(***************************************************************************)
(* mm_init (mm.c:1217) leaves a well-formed heap with nothing allocated,   *)
(* even when the first chunk cannot be had.                                *)
(***************************************************************************)
LEMMA MmInit ==
  ASSUME NEW h
  PROVE  /\ WF(mm_init(h).hp, {}) /\ Used(mm_init(h).hp) = {}
         /\ mm_init(h).hp.brk >= 16
<1>1. /\ chunksize \in Nat /\ chunksize % 16 = 0 /\ chunksize >= 16
      /\ chunksize + 16 <= SIZE_MOD
  BY BlockHeapAssumption
<1>2. mm_init(h) = extend_heap(BareHeap, chunksize)
  BY DEF mm_init
<1> QED
  BY <1>1, <1>2, Bare, Extend

(***************************************************************************)
(* Placing a request of block size a in a free block (mm.c:1298): one      *)
(* allocated block is added, and it is large enough.                       *)
(***************************************************************************)
LEMMA Place ==
  ASSUME NEW h, WF(h, {}), NEW b \in DOMAIN h.hdr, ~h.hdr[b].alloc,
         NEW a \in Nat, a % 16 = 0, a >= 16, a <= h.hdr[b].size
  PROVE  /\ WF(place(h, b, a), {}) /\ place(h, b, a).brk = h.brk
         /\ \E n \in Nat : /\ n >= a
                           /\ Used(place(h, b, a))
                                = Used(h) \cup {Entry(b, n)}
         /\ \A u \in Used(h) : u.block # b
<1> DEFINE t == take(h, b)
<1>1. /\ WF(t, {}) /\ t.brk = h.brk /\ b \in DOMAIN t.hdr /\ b # epilogue(t)
      /\ t.hdr[b].alloc /\ t.hdr[b].size = h.hdr[b].size
      /\ Used(t) = Used(h) \cup {Entry(b, h.hdr[b].size)}
  BY Take
<1>2. h.hdr[b].size \in Nat
  BY HeapTypeFields DEF WF
<1>3. \A u \in Used(h) : u.block # b
  BY DEF Used, Entry
<1>4. CASE h.hdr[b].size - a >= 16
  <2> DEFINE s == split_block(t, b, a)
  <2>1. /\ WF(s, {b + a}) /\ s.brk = t.brk
        /\ b + a \in DOMAIN s.hdr \ {epilogue(s)} /\ ~s.hdr[b + a].alloc
        /\ Used(s) = Resize(Used(t), b, h.hdr[b].size, a)
    <3> HIDE DEF t
    <3>1. /\ b \in DOMAIN t.hdr \ {epilogue(t)} /\ t.hdr[b].alloc /\ WF(t, {})
          /\ t.hdr[b].size - a >= 16
      BY <1>1, <1>4
    <3>2. /\ WF(s, {b + a}) /\ s.brk = t.brk
          /\ b + a \in DOMAIN s.hdr \ {epilogue(s)} /\ ~s.hdr[b + a].alloc
          /\ Used(s) = Resize(Used(t), b, t.hdr[b].size, a)
      BY <3>1, Split
    <3> QED
      BY <3>2, <1>1
  <2>2. Used(s) = Used(h) \cup {Entry(b, a)}
    <3>1. Entry(b, h.hdr[b].size) \notin Used(h)
      BY <1>3 DEF Entry
    <3> HIDE DEF t, s
    <3> QED
      BY <3>1, <2>1, <1>1 DEF Resize
  <2>3. place(h, b, a) = coalesce_block(s, b + a).hp
    BY <1>4 DEF place, min_block_size, dsize, wsize
  <2> HIDE DEF s, t
  <2>4. /\ WF(coalesce_block(s, b + a).hp, {})
        /\ Used(coalesce_block(s, b + a).hp) = Used(s)
        /\ coalesce_block(s, b + a).hp.brk = s.brk
    BY <2>1, Coalesce
  <2> QED
    BY <2>1, <2>2, <2>3, <2>4, <1>1, <1>3
<1>5. CASE ~(h.hdr[b].size - a >= 16)
  <2>1. place(h, b, a) = t
    BY <1>5 DEF place, min_block_size, dsize, wsize
  <2> HIDE DEF t
  <2> QED
    BY <2>1, <1>1, <1>2, <1>3
<1> QED
  BY <1>4, <1>5

(***************************************************************************)
(* free (mm.c:1328) takes exactly the given block from the allocated ones. *)
(***************************************************************************)
LEMMA FreeBlock ==
  ASSUME NEW h, WF(h, {}), NEW u \in Used(h)
  PROVE  /\ WF(free(h, u.block + wsize), {})
         /\ Used(free(h, u.block + wsize)) = Used(h) \ {u}
         /\ free(h, u.block + wsize).brk = h.brk
<1>1. PICK b \in DOMAIN h.hdr \ {epilogue(h)} :
         h.hdr[b].alloc /\ u = Entry(b, h.hdr[b].size)
  BY DEF Used
<1>2. b \in Nat /\ u.block = b /\ (b + wsize) - wsize = b
  BY <1>1, HeapTypeFields DEF WF, wsize, Entry
<1> DEFINE g == mark_free(h, b)
<1>3. /\ WF(g, {b}) /\ g.brk = h.brk
      /\ b \in DOMAIN g.hdr \ {epilogue(g)} /\ ~g.hdr[b].alloc
      /\ Used(g) = Used(h) \ {u}
  BY <1>1, MarkFree
<1>4. free(h, u.block + wsize) = coalesce_block(g, b).hp
  BY <1>2 DEF free
<1> HIDE DEF g
<1>5. /\ WF(coalesce_block(g, b).hp, {})
      /\ Used(coalesce_block(g, b).hp) = Used(g)
      /\ coalesce_block(g, b).hp.brk = g.brk
  BY <1>3, Coalesce
<1> QED
  BY <1>3, <1>4, <1>5

-----------------------------------------------------------------------------
(***************************************************************************)
(* The states of the heap between two calls: not yet initialised, or well  *)
(* formed with nothing pending.                                            *)
(***************************************************************************)
Good(h) == h = EmptyHeap \/ WF(h, {})

(***************************************************************************)
(* The heap before mm_init.                                                *)
(***************************************************************************)
LEMMA EmptyHeapFacts ==
  HeapType(EmptyHeap) /\ Used(EmptyHeap) = {} /\ EmptyHeap.brk = 0
<1>1. /\ DOMAIN EmptyHeap.hdr = {} /\ EmptyHeap.brk = 0
      /\ EmptyHeap.bins = [k \in BinIds |-> {}]
  BY DEF EmptyHeap
<1>2. EmptyHeap = [hdr |-> EmptyHeap.hdr, bins |-> EmptyHeap.bins,
                   brk |-> EmptyHeap.brk]
  BY DEF EmptyHeap
<1>3. EmptyHeap.hdr \in [{} -> Headers]
  BY DEF EmptyHeap
<1>4. MaxHeap \in Nat
  BY BlockHeapAssumption
<1>5. EmptyHeap.bins \in [BinIds -> SUBSET (0 .. MaxHeap)]
  BY <1>1
<1>6. HeapType(EmptyHeap)
  BY <1>1, <1>2, <1>3, <1>4, <1>5 DEF HeapType
<1>7. Used(EmptyHeap) = {}
  BY <1>1 DEF Used
<1> QED
  BY <1>1, <1>6, <1>7

(***************************************************************************)
(* A well-formed heap has at least its two boundary words.                 *)
(***************************************************************************)
LEMMA WFNotEmpty ==
  ASSUME NEW h, WF(h, {})
  PROVE  h.brk \in Nat /\ h.brk >= 16 /\ h.brk <= MaxHeap
<1>1. h.brk \in 0 .. MaxHeap /\ MaxHeap \in Nat
  BY BlockHeapAssumption DEF WF, HeapType
<1>2. epilogue(h) \in wsize .. epilogue(h)
  BY DEF WF, TiledBy
<1> QED
  BY <1>1, <1>2 DEF epilogue, wsize

(***************************************************************************)
(* malloc (mm.c:1258), whichever block find_fit takes and whether or not   *)
(* it had to initialise or grow the heap: on failure the allocated blocks  *)
(* are what they were; on success there is one more, at the address that   *)
(* is returned, with room for the request and a header.                    *)
(***************************************************************************)
LEMMA MallocResult ==
  ASSUME NEW h, Good(h), NEW size, FitsWord(size), NEW m \in malloc(h, size)
  PROVE  /\ WF(m.hp, {}) /\ h.brk <= m.hp.brk
         /\ m.bp = NULL => Used(m.hp) = Used(h)
         /\ m.bp # NULL =>
              \E b, n \in Nat :
                /\ m.bp = b + wsize /\ 0 < size /\ size + wsize <= n
                /\ Used(m.hp) = Used(h) \cup {Entry(b, n)}
                /\ \A u \in Used(h) : u.block # b
<1> DEFINE h1 == initialised(h)
           a == adjusted_size(size)
           extendsize == IF a > chunksize THEN a ELSE chunksize
           ext == extend_heap(h1, extendsize)
<1>1. /\ WF(h1, {}) /\ Used(h1) = Used(h) /\ h.brk <= h1.brk
  <2>1. CASE h = EmptyHeap
    <3>1. h.brk = 0 /\ Used(h) = {}
      BY <2>1, EmptyHeapFacts
    <3>2. h1 = mm_init(h).hp
      BY <3>1 DEF initialised
    <3>3. WF(h1, {}) /\ Used(h1) = {}
      BY <3>2, MmInit
    <3> QED
      BY <3>1, <3>3, WFNotEmpty
  <2>2. CASE h # EmptyHeap
    <3>1. WF(h, {})
      BY <2>2 DEF Good
    <3>2. h.brk # 0 /\ h.brk \in Nat
      BY <3>1, WFNotEmpty
    <3>3. h1 = h
      BY <3>2 DEF initialised
    <3> QED
      BY <3>1, <3>2, <3>3
  <2> QED
    BY <2>1, <2>2
<1>2. h.brk \in Nat /\ h1.brk \in Nat
  BY <1>1, EmptyHeapFacts, WFNotEmpty DEF Good
<1>3. CASE init_fails(h) \/ size = 0
  <2>1. m = [hp |-> h1, bp |-> NULL]
    BY <1>3 DEF malloc
  <2> QED
    BY <2>1, <1>1
<1>4. CASE ~(init_fails(h) \/ size = 0)
  <2>1. /\ a \in Nat /\ a % 16 = 0 /\ a >= 16 /\ size <= a - 8
        /\ a + 16 <= SIZE_MOD
    BY <1>4, AdjustedSize
  <2>2. size \in Nat /\ size # 0
    BY <1>4 DEF FitsWord
  <2>3. ASSUME NEW g, WF(g, {}), Used(g) = Used(h), g.brk \in Nat, h.brk <= g.brk,
               NEW b \in DOMAIN g.hdr, ~g.hdr[b].alloc, a <= g.hdr[b].size,
               m = [hp |-> place(g, b, a), bp |-> b + wsize]
        PROVE  /\ WF(m.hp, {}) /\ h.brk <= m.hp.brk /\ m.bp # NULL
               /\ \E c, n \in Nat :
                    /\ m.bp = c + wsize /\ 0 < size /\ size + wsize <= n
                    /\ Used(m.hp) = Used(h) \cup {Entry(c, n)}
                    /\ \A u \in Used(h) : u.block # c
    <3>1. WF(place(g, b, a), {}) /\ place(g, b, a).brk = g.brk
      BY <2>1, <2>3, Place
    <3>2. PICK n \in Nat : n >= a /\ Used(place(g, b, a)) = Used(g) \cup {Entry(b, n)}
      BY <2>1, <2>3, Place
    <3>3. \A u \in Used(g) : u.block # b
      BY <2>1, <2>3, Place
    <3>4. m.hp = place(g, b, a) /\ m.bp = b + wsize
      BY <2>3
    <3>5. b \in Nat
      BY <2>3, HeapTypeFields DEF WF
    <3>6. m.bp # NULL
      BY <3>4, <3>5 DEF NULL, wsize
    <3>7. 0 < size /\ size + wsize <= n
      BY <3>2, <2>1, <2>2 DEF wsize
    <3>8. /\ Used(m.hp) = Used(h) \cup {Entry(b, n)}
          /\ \A u \in Used(h) : u.block # b
      BY <3>2, <3>3, <3>4, <2>3
    <3> QED
      BY <3>1, <3>4, <3>5, <3>6, <3>7, <3>8, <2>3
  <2>4. CASE find_fit(h1, a) # {}
    <3>1. PICK b \in find_fit(h1, a) : m = [hp |-> place(h1, b, a), bp |-> b + wsize]
      BY <1>4, <2>4 DEF malloc
    <3>2. b \in DOMAIN h1.hdr /\ a <= h1.hdr[b].size /\ \E k \in BinIds : b \in h1.bins[k]
      BY <3>1 DEF find_fit, Searched
    <3>3. ~h1.hdr[b].alloc
      BY <3>2, <1>1 DEF WF, Binned
    <3> HIDE DEF h1, a
    <3> QED
      BY <3>1, <3>2, <3>3, <1>1, <1>2, <2>3
  <2>5. CASE find_fit(h1, a) = {} /\ ext.block = NULL
    <3>1. m = [hp |-> h1, bp |-> NULL]
      BY <1>4, <2>5 DEF malloc
    <3> QED
      BY <3>1, <1>1
  <2>6. CASE find_fit(h1, a) = {} /\ ext.block # NULL
    <3>1. m = [hp |-> place(ext.hp, ext.block, a), bp |-> ext.block + wsize]
      BY <1>4, <2>6 DEF malloc
    <3>2. /\ extendsize \in Nat /\ extendsize % 16 = 0 /\ extendsize >= 16
          /\ extendsize + 16 <= SIZE_MOD /\ extendsize >= a
      BY <2>1, BlockHeapAssumption
    <3> HIDE DEF h1, a, extendsize
    <3>3. /\ WF(ext.hp, {}) /\ Used(ext.hp) = Used(h1)
          /\ ext.hp.brk = h1.brk + extendsize
          /\ ext.block \in DOMAIN ext.hp.hdr /\ ~ext.hp.hdr[ext.block].alloc
          /\ ext.hp.hdr[ext.block].size >= extendsize
      BY <3>2, <2>6, <1>1, Extend
    <3> HIDE DEF ext
    <3>4. ext.hp.hdr[ext.block].size \in Nat
      BY <3>3, HeapTypeFields DEF WF
    <3>5. a <= ext.hp.hdr[ext.block].size
      BY <3>2, <3>3, <3>4, <2>1
    <3>6. ext.hp.brk \in Nat /\ h.brk <= ext.hp.brk
      BY <3>2, <3>3, <1>1, <1>2
    <3>7. Used(ext.hp) = Used(h)
      BY <3>3, <1>1
    <3> QED
      BY <3>1, <3>3, <3>5, <3>6, <3>7, <2>3
  <2> QED
    BY <2>4, <2>5, <2>6
<1> QED
  BY <1>3, <1>4

-----------------------------------------------------------------------------
(***************************************************************************)
(* Two entries of Used for one block are the same entry.                   *)
(***************************************************************************)
LEMMA UsedOnce ==
  ASSUME NEW h, NEW u \in Used(h), NEW v \in Used(h), u.block = v.block
  PROVE  u = v
BY DEF Used, Entry

(***************************************************************************)
(* The blocks of Used lie in the heap, apart from each other and aligned.  *)
(***************************************************************************)
LEMMA UsedApart ==
  ASSUME NEW h, WF(h, {}), NEW u \in Used(h)
  PROVE  /\ u.block \in Nat /\ u.size \in Nat
         /\ u.block % 16 = 8 /\ u.block >= 8
         /\ u.block + u.size + wsize <= h.brk
         /\ \A v \in Used(h) : u.block < v.block => u.block + u.size <= v.block
<1> USE DEF WF
<1>1. PICK b \in DOMAIN h.hdr \ {epilogue(h)} :
         h.hdr[b].alloc /\ u = Entry(b, h.hdr[b].size)
  BY DEF Used
<1>2. u.block = b /\ u.size = h.hdr[b].size
  BY <1>1 DEF Entry
<1>3. b \in Nat /\ h.hdr[b].size \in Nat /\ h.brk \in Nat
  BY HeapTypeFields DEF HeapType
<1>4. /\ b % 16 = 8 /\ b >= 8
      /\ find_next(h, b) \in DOMAIN h.hdr
      /\ find_next(h, b) <= epilogue(h)
  <2>1. find_next(h, b) \in DOMAIN h.hdr
    BY DEF TiledBy
  <2>2. \A c \in DOMAIN h.hdr : c \in wsize .. epilogue(h) /\ c % 16 = 8
    BY DEF TiledBy
  <2> QED
    BY <2>1, <2>2 DEF wsize
<1>5. b + h.hdr[b].size + wsize <= h.brk
  BY <1>3, <1>4 DEF find_next, epilogue, wsize
<1>6. ASSUME NEW v \in Used(h), u.block < v.block
      PROVE  u.block + u.size <= v.block
  <2>1. PICK c \in DOMAIN h.hdr : v = Entry(c, h.hdr[c].size)
    BY <1>6 DEF Used
  <2>2. v.block = c
    BY <2>1 DEF Entry
  <2>3. b < c
    BY <1>6, <2>2, <1>2
  <2>4. find_next(h, b) <= c
    BY <2>3, Order
  <2> QED
    BY <2>2, <2>4, <1>2 DEF find_next
<1> QED
  BY <1>2, <1>3, <1>4, <1>5, <1>6

(***************************************************************************)
(* What the client holds grows by one block, with the allocated ones.      *)
(***************************************************************************)
LEMMA OwnsAdd ==
  ASSUME NEW L, L \subseteq [ptr : Nat, size : Nat], NEW U, Owns(L, U),
         \A u \in U : u.block \in Nat,
         NEW b \in Nat, NEW n \in Nat, NEW size \in Nat,
         0 < size, size + wsize <= n, \A u \in U : u.block # b
  PROVE  Owns(L \cup {Region(b + wsize, size)}, U \cup {Entry(b, n)})
<1> DEFINE x == Region(b + wsize, size)
           y == Entry(b, n)
<1>1. x.ptr = b + wsize /\ x.size = size /\ y.block = b /\ y.size = n
  BY DEF Region, Entry
<1>2. \A r \in L : \E u \in U :
        r.ptr = u.block + wsize /\ 0 < r.size /\ r.size + wsize <= u.size
  BY DEF Owns
<1>3. \A u \in U : \E r \in L : r.ptr = u.block + wsize
  BY DEF Owns
<1>4. \A r, s \in L : r.ptr = s.ptr => r = s
  BY DEF Owns
<1> HIDE DEF x, y
<1>5. \A r \in L : r.ptr # x.ptr
  BY <1>1, <1>2 DEF wsize
<1>6. \A r \in L \cup {x} : \E u \in U \cup {y} :
        r.ptr = u.block + wsize /\ 0 < r.size /\ r.size + wsize <= u.size
  BY <1>1, <1>2
<1>7. \A u \in U \cup {y} : \E r \in L \cup {x} : r.ptr = u.block + wsize
  BY <1>1, <1>3
<1>8. \A r, s \in L \cup {x} : r.ptr = s.ptr => r = s
  BY <1>4, <1>5
<1> QED
  BY <1>6, <1>7, <1>8 DEF Owns, x, y

(***************************************************************************)
(* What the client holds shrinks by one block, with the allocated ones.    *)
(***************************************************************************)
LEMMA OwnsRemove ==
  ASSUME NEW L, NEW U, Owns(L, U),
         \A u \in U : u.block \in Nat,
         \A u, v \in U : u.block = v.block => u = v,
         NEW r \in L, NEW u \in U, r.ptr = u.block + wsize
  PROVE  Owns(L \ {r}, U \ {u})
<1>1. \A s \in L : \E v \in U :
        s.ptr = v.block + wsize /\ 0 < s.size /\ s.size + wsize <= v.size
  BY DEF Owns
<1>2. \A v \in U : \E s \in L : s.ptr = v.block + wsize
  BY DEF Owns
<1>3. \A s, t \in L : s.ptr = t.ptr => s = t
  BY DEF Owns
<1>4. \A s \in L \ {r} : \E v \in U \ {u} :
        s.ptr = v.block + wsize /\ 0 < s.size /\ s.size + wsize <= v.size
  BY <1>1, <1>3
<1>5. \A v \in U \ {u} : \E s \in L \ {r} : s.ptr = v.block + wsize
  <2> SUFFICES ASSUME NEW v \in U \ {u} PROVE \E s \in L \ {r} : s.ptr = v.block + wsize
    OBVIOUS
  <2>1. PICK s \in L : s.ptr = v.block + wsize
    BY <1>2
  <2>2. v.block # u.block /\ v.block \in Nat /\ u.block \in Nat
    OBVIOUS
  <2>3. s # r
    BY <2>1, <2>2 DEF wsize
  <2> QED
    BY <2>1, <2>3
<1> QED
  BY <1>3, <1>4, <1>5 DEF Owns

(***************************************************************************)
(* The client's regions are aligned, lie in the heap and do not overlap,   *)
(* because the blocks that hold them do not.                               *)
(***************************************************************************)
LEMMA RegionsApart ==
  ASSUME NEW h, WF(h, {}), NEW L, L \subseteq [ptr : Nat, size : Nat],
         Owns(L, Used(h)), NEW r \in L
  PROVE  /\ r.ptr \in Nat /\ r.size \in Nat /\ r.ptr % 16 = 0 /\ 0 < r.ptr
         /\ 0 < r.size /\ r.ptr + r.size <= h.brk
         /\ \A s \in L : r # s => \/ r.ptr + r.size <= s.ptr
                                  \/ s.ptr + s.size <= r.ptr
<1>1. \A s \in L : s.ptr \in Nat /\ s.size \in Nat
  OBVIOUS
<1>2. \A s \in L : \E v \in Used(h) :
        s.ptr = v.block + wsize /\ 0 < s.size /\ s.size + wsize <= v.size
  BY DEF Owns
<1>3. PICK u \in Used(h) :
        r.ptr = u.block + wsize /\ 0 < r.size /\ r.size + wsize <= u.size
  BY <1>2
<1>4. /\ u.block \in Nat /\ u.size \in Nat /\ u.block % 16 = 8
      /\ u.block + u.size + wsize <= h.brk
      /\ \A v \in Used(h) : u.block < v.block => u.block + u.size <= v.block
  BY UsedApart
<1>5. h.brk \in Nat
  BY WFNotEmpty
<1>6. r.ptr % 16 = 0 /\ 0 < r.ptr /\ r.ptr + r.size <= h.brk
  BY <1>1, <1>3, <1>4, <1>5 DEF wsize
<1>7. ASSUME NEW s \in L, r # s
      PROVE  r.ptr + r.size <= s.ptr \/ s.ptr + s.size <= r.ptr
  <2>1. PICK v \in Used(h) :
          s.ptr = v.block + wsize /\ 0 < s.size /\ s.size + wsize <= v.size
    BY <1>2
  <2>2. /\ v.block \in Nat /\ v.size \in Nat
        /\ \A w \in Used(h) : v.block < w.block => v.block + v.size <= w.block
    BY UsedApart
  <2>3. r.ptr # s.ptr
    BY <1>7 DEF Owns
  <2>4. CASE u.block < v.block
    BY <2>4, <2>1, <2>2, <1>1, <1>3, <1>4 DEF wsize
  <2>5. CASE v.block < u.block
    BY <2>5, <2>1, <2>2, <1>1, <1>3, <1>4 DEF wsize
  <2> QED
    BY <2>1, <2>2, <2>3, <2>4, <2>5, <1>3, <1>4
<1> QED
  BY <1>1, <1>3, <1>6, <1>7

-----------------------------------------------------------------------------
(***************************************************************************)
(* The inductive invariant.  None of the properties of BlockHeap is        *)
(* inductive alone: a merge is right only if the flags it reads are, the   *)
(* flags only if the sizes tile the heap, and a freed block is one of the  *)
(* heap only because the client holds allocated blocks and nothing else.   *)
(***************************************************************************)
Inv ==
  /\ Good(hp)
  /\ live \subseteq [ptr : Nat, size : Nat]
  /\ Owns(live, Used(hp))

(***************************************************************************)
(* The addresses of allocated blocks are numbers, with or without a heap.  *)
(***************************************************************************)
LEMMA UsedNat ==
  ASSUME NEW h, Good(h)
  PROVE  \A u \in Used(h) : u.block \in Nat
BY UsedApart, EmptyHeapFacts DEF Good

(***************************************************************************)
(* One region more, whether malloc (mm.c:1258) returned it or failed.      *)
(***************************************************************************)
LEMMA AcquireInv ==
  ASSUME Inv, NEW size, FitsWord(size), Acquire(size)
  PROVE  Inv'
<1>1. PICK m \in malloc(hp, size) :
        /\ hp' = m.hp
        /\ live' = IF m.bp = NULL THEN live
                   ELSE live \cup {Region(m.bp, size)}
  BY DEF Acquire
<1>2. WF(m.hp, {}) /\ (m.bp = NULL => Used(m.hp) = Used(hp))
  BY MallocResult DEF Inv
<1>3. CASE m.bp = NULL
  BY <1>1, <1>2, <1>3 DEF Inv, Good
<1>4. CASE m.bp # NULL
  <2>1. PICK b, n \in Nat :
          /\ m.bp = b + wsize /\ 0 < size /\ size + wsize <= n
          /\ Used(m.hp) = Used(hp) \cup {Entry(b, n)}
          /\ \A u \in Used(hp) : u.block # b
    BY <1>4, MallocResult DEF Inv
  <2>2. size \in Nat
    BY DEF FitsWord
  <2>3. Owns(live \cup {Region(b + wsize, size)}, Used(hp) \cup {Entry(b, n)})
    BY <2>1, <2>2, OwnsAdd, UsedNat DEF Inv
  <2>4. live' \subseteq [ptr : Nat, size : Nat]
    BY <1>1, <1>4, <2>1, <2>2 DEF Inv, Region, wsize
  <2> QED
    BY <1>1, <1>2, <1>4, <2>1, <2>3, <2>4 DEF Inv, Good
<1> QED
  BY <1>3, <1>4

(***************************************************************************)
(* The block under a held region, and the heap without it (mm.c:1328).     *)
(***************************************************************************)
LEMMA FreeOwned ==
  ASSUME NEW h, WF(h, {}), NEW L, Owns(L, Used(h)), NEW r \in L
  PROVE  /\ WF(free(h, r.ptr), {}) /\ free(h, r.ptr).brk = h.brk
         /\ Owns(L \ {r}, Used(free(h, r.ptr)))
<1>1. PICK u \in Used(h) : r.ptr = u.block + wsize
  BY DEF Owns
<1>2. /\ WF(free(h, r.ptr), {}) /\ free(h, r.ptr).brk = h.brk
      /\ Used(free(h, r.ptr)) = Used(h) \ {u}
  BY <1>1, FreeBlock
<1>3. Good(h)
  BY DEF Good
<1>4. Owns(L \ {r}, Used(h) \ {u})
  BY <1>1, <1>3, UsedNat, UsedOnce, OwnsRemove
<1> QED
  BY <1>2, <1>4

(***************************************************************************)
(* A heap in which something is held has been initialised.                 *)
(***************************************************************************)
LEMMA HeldIsInitialised ==
  ASSUME Inv, NEW r \in live
  PROVE  WF(hp, {})
<1>1. PICK u \in Used(hp) : r.ptr = u.block + wsize
  BY DEF Inv, Owns
<1>2. hp # EmptyHeap
  BY <1>1, EmptyHeapFacts
<1> QED
  BY <1>2 DEF Inv, Good

(***************************************************************************)
(* free of a held block (mm.c:1328).                                       *)
(***************************************************************************)
LEMMA FreeInv ==
  ASSUME Inv, NEW r \in live, Free(r)
  PROVE  Inv' /\ hp'.brk = hp.brk
<1>1. WF(hp, {})
  BY HeldIsInitialised
<1>2. hp' = free(hp, r.ptr) /\ live' = live \ {r}
  BY DEF Free
<1>3. WF(hp', {}) /\ Owns(live', Used(hp')) /\ hp'.brk = hp.brk
  BY <1>1, <1>2, FreeOwned DEF Inv
<1> QED
  BY <1>2, <1>3 DEF Inv, Good

(***************************************************************************)
(* realloc (mm.c:1363): the new block is taken before the old one is       *)
(* returned, and when it cannot be had the old one stays.                  *)
(***************************************************************************)
LEMMA ReallocInv ==
  ASSUME Inv, NEW r \in live, NEW size, FitsWord(size), Realloc(r, size)
  PROVE  Inv'
<1>1. CASE Free(r)
  BY <1>1, FreeInv
<1>2. ASSUME NEW m \in malloc(hp, size), m.bp = NULL, hp' = m.hp, live' = live
      PROVE  Inv'
  <2>1. WF(m.hp, {}) /\ Used(m.hp) = Used(hp)
    BY <1>2, MallocResult DEF Inv
  <2> QED
    BY <1>2, <2>1 DEF Inv, Good
<1>3. ASSUME NEW m \in malloc(hp, size), m.bp # NULL,
             hp' = free(m.hp, r.ptr),
             live' = (live \ {r}) \cup {Region(m.bp, size)}
      PROVE  Inv'
  <2>1. PICK b, n \in Nat :
          /\ m.bp = b + wsize /\ 0 < size /\ size + wsize <= n
          /\ Used(m.hp) = Used(hp) \cup {Entry(b, n)}
          /\ \A u \in Used(hp) : u.block # b
    BY <1>3, MallocResult DEF Inv
  <2>2. size \in Nat
    BY DEF FitsWord
  <2> DEFINE x == Region(b + wsize, size)
             L == live \cup {x}
  <2>3. Owns(L, Used(m.hp))
    BY <2>1, <2>2, OwnsAdd, UsedNat DEF Inv
  <2>4. WF(m.hp, {})
    BY MallocResult DEF Inv
  <2>5. r # x
    <3>1. PICK u \in Used(hp) : r.ptr = u.block + wsize
      BY DEF Inv, Owns
    <3>2. u.block \in Nat /\ u.block # b
      BY <2>1, UsedNat DEF Inv
    <3> QED
      BY <3>1, <3>2 DEF Region, wsize
  <2>6. live' = L \ {r}
    BY <1>3, <2>1, <2>5
  <2>7. x \in [ptr : Nat, size : Nat]
    BY <2>2 DEF Region, wsize
  <2> HIDE DEF x
  <2>8. live' \subseteq [ptr : Nat, size : Nat]
    BY <2>6, <2>7 DEF Inv
  <2>9. r \in L
    OBVIOUS
  <2> HIDE DEF L
  <2>10. WF(hp', {}) /\ Owns(live', Used(hp'))
    BY <1>3, <2>3, <2>4, <2>6, <2>9, FreeOwned
  <2> QED
    BY <2>8, <2>10 DEF Inv, Good
<1> QED
  BY <1>1, <1>2, <1>3 DEF Realloc

(***************************************************************************)
(* The invariant holds initially and every action keeps it.                *)
(***************************************************************************)
LEMMA InitInv == Init => Inv
<1> SUFFICES ASSUME Init PROVE Inv
  OBVIOUS
<1>1. hp = EmptyHeap /\ live = {}
  BY DEF Init
<1>2. Owns({}, {})
  BY DEF Owns
<1> QED
  BY <1>1, <1>2, EmptyHeapFacts DEF Inv, Good

(***************************************************************************)
(* The sizes that reach malloc fit, the product calloc computes included.  *)
(***************************************************************************)
LEMMA NextInv == Inv /\ [Next]_vars => Inv'
<1> SUFFICES ASSUME Inv, [Next]_vars PROVE Inv'
  OBVIOUS
<1>1. ASSUME NEW size \in Sizes, Malloc(size) PROVE Inv'
  BY <1>1, RequestAssumption, AcquireInv DEF Malloc
<1>2. ASSUME NEW c \in CallocArgs, Calloc(c[1], c[2]) PROVE Inv'
  <2>1. FitsWord((c[1] * c[2]) % SIZE_MOD)
    BY RequestAssumption
  <2>2. Acquire((c[1] * c[2]) % SIZE_MOD)
    BY <1>2 DEF Calloc
  <2> QED
    BY <2>1, <2>2, AcquireInv
<1>3. ASSUME NEW r \in live, Free(r) PROVE Inv'
  BY <1>3, FreeInv
<1>4. ASSUME NEW r \in live, NEW size \in ReallocSizes, Realloc(r, size)
      PROVE  Inv'
  BY <1>4, RequestAssumption, ReallocInv
<1>5. ASSUME NEW size \in ReallocSizes \ {0}, Malloc(size) PROVE Inv'
  BY <1>5, RequestAssumption, AcquireInv DEF Malloc
<1>6. CASE Reset
  <2>1. WF(hp', {}) /\ Used(hp') = {} /\ live' = {}
    BY <1>6, MmInit DEF Reset
  <2> QED
    BY <2>1 DEF Inv, Good, Owns
<1>7. CASE UNCHANGED vars
  BY <1>7 DEF vars, Inv
<1> QED
  BY <1>1, <1>2, <1>3, <1>4, <1>5, <1>6, <1>7 DEF Next

(***************************************************************************)
(* The invariant holds in every state of every behaviour.                  *)
(***************************************************************************)
THEOREM Invariance == Spec => []Inv
BY InitInv, NextInv, PTL DEF Spec

(***************************************************************************)
(* Type correctness of the heap and of what the client holds.              *)
(***************************************************************************)
THEOREM TypeCorrect == Spec => []TypeOK
<1>1. Inv => TypeOK
  BY EmptyHeapFacts DEF Inv, Good, WF, TypeOK
<1> QED
  BY <1>1, Invariance, PTL

(***************************************************************************)
(* Between calls the blocks tile the heap from the first header to the     *)
(* epilogue: what check_heap walks over (mm.c:1197).                       *)
(***************************************************************************)
THEOREM HeapTiled == Spec => []Tiled
<1>1. Inv => Tiled
  BY EmptyHeapFacts DEF Inv, Good, WF, Tiled
<1> QED
  BY <1>1, Invariance, PTL

(***************************************************************************)
(* Every header knows whether its predecessor is allocated and whether it  *)
(* is a mini block, after any sequence of calls.                           *)
(***************************************************************************)
THEOREM FlagsRight == Spec => []Flags
<1>1. Inv => Flags
  BY EmptyHeapFacts DEF Inv, Good, WF, Flags
<1> QED
  BY <1>1, Invariance, PTL

(***************************************************************************)
(* coalesce_block (mm.c:737) leaves no two free neighbours, whichever way  *)
(* blocks become free.                                                     *)
(***************************************************************************)
THEOREM AlwaysMerged == Spec => []Coalesced
<1>1. Inv => Coalesced
  BY EmptyHeapFacts DEF Inv, Good, WF, Coalesced
<1> QED
  BY <1>1, Invariance, PTL

(***************************************************************************)
(* Every free block is on the list of its class and on no other, and no    *)
(* allocated block is on a list.                                           *)
(***************************************************************************)
THEOREM ListsExact == Spec => []Listed
<1>1. Inv => Listed
  BY EmptyHeapFacts DEF Inv, Good, WF, Listed
<1> QED
  BY <1>1, Invariance, PTL

(***************************************************************************)
(* The client's blocks are exactly the allocated ones, each with room for  *)
(* its request: malloc never hands out a block twice and free and realloc  *)
(* never lose one.                                                         *)
(***************************************************************************)
THEOREM NothingLost == Spec => []LiveIsUsed
<1>1. Inv => LiveIsUsed
  BY DEF Inv, LiveIsUsed
<1> QED
  BY <1>1, Invariance, PTL

(***************************************************************************)
(* No two blocks the client holds share a byte.                            *)
(***************************************************************************)
THEOREM BlocksApart == Spec => []NoOverlap
<1>1. Inv => NoOverlap
  <2> SUFFICES ASSUME Inv, NEW r \in live, NEW s \in live, r # s
               PROVE  r.ptr + r.size <= s.ptr \/ s.ptr + s.size <= r.ptr
    BY DEF NoOverlap
  <2>1. WF(hp, {})
    BY HeldIsInitialised
  <2> QED
    BY <2>1, RegionsApart DEF Inv
<1> QED
  BY <1>1, Invariance, PTL

-----------------------------------------------------------------------------
(***************************************************************************)
(* The bounds of the classes increase (mm.c:554).                          *)
(***************************************************************************)
LEMMA BoundsIncrease ==
  /\ \A k \in 1 .. 13 : ClassBound[k] \in Nat
  /\ \A k \in 1 .. 13, m \in 1 .. 13 : k <= m => ClassBound[k] <= ClassBound[m]
<1>1. /\ ClassBound[1] = 32 /\ ClassBound[2] = 64 /\ ClassBound[3] = 128
      /\ ClassBound[4] = 256 /\ ClassBound[5] = 512 /\ ClassBound[6] = 1024
      /\ ClassBound[7] = 2048 /\ ClassBound[8] = 3072 /\ ClassBound[9] = 4096
      /\ ClassBound[10] = 6656 /\ ClassBound[11] = 8192
      /\ ClassBound[12] = 16384 /\ ClassBound[13] = 32768
  BY DEF ClassBound
<1>2. \A k \in 1 .. 13 :
        k \in {1, 2, 3, 4, 5, 6, 7, 8, 9, 10, 11, 12, 13}
  OBVIOUS
<1> QED
  BY <1>1, <1>2

(***************************************************************************)
(* find_class (mm.c:554) finds a class for every size.                     *)
(***************************************************************************)
LEMMA ClassFound ==
  ASSUME NEW n \in Nat
  PROVE  /\ find_class(n) \in Classes
         /\ find_class(n) > 0 => ClassBound[find_class(n)] <= n
         /\ find_class(n) < 13 => n < ClassBound[find_class(n) + 1]
<1> DEFINE T == {k \in 0 .. 13 : k < 13 => n < ClassBound[k + 1]}
<1>1. PICK k \in T : \A m \in T : k <= m
  <2>1. T \subseteq Nat /\ 13 \in T
    OBVIOUS
  <2> HIDE DEF T
  <2> QED
    BY <2>1, LeastNatural
<1>2. k \in 0 .. 13 /\ (k < 13 => n < ClassBound[k + 1])
  BY <1>1
<1>3. k > 0 => ClassBound[k] <= n
  <2>1. k > 0 => k - 1 \notin T
    BY <1>1, <1>2
  <2>2. k > 0 => ~ (n < ClassBound[k - 1 + 1]) /\ k - 1 + 1 = k
    BY <1>2, <2>1
  <2>3. k > 0 => ClassBound[k] \in Nat
    BY <1>2, BoundsIncrease
  <2> QED
    BY <2>2, <2>3
<1>4. \E i \in Classes : /\ i > 0 => ClassBound[i] <= n
                         /\ i < LENGTH - 1 => n < ClassBound[i + 1]
  BY <1>2, <1>3 DEF Classes, LENGTH
<1> QED
  BY <1>4 DEF find_class, LENGTH

(***************************************************************************)
(* A larger block is in the same class or in a later one.                  *)
(***************************************************************************)
LEMMA ClassMonotone ==
  ASSUME NEW m \in Nat, NEW n \in Nat, m <= n
  PROVE  find_class(m) <= find_class(n)
<1>1. /\ find_class(m) \in 0 .. 13 /\ find_class(n) \in 0 .. 13
      /\ find_class(m) > 0 => ClassBound[find_class(m)] <= m
      /\ find_class(n) < 13 => n < ClassBound[find_class(n) + 1]
  BY ClassFound DEF Classes, LENGTH
<1>2. SUFFICES ASSUME find_class(n) < find_class(m)
               PROVE  FALSE
  BY <1>1
<1> DEFINE p == find_class(n) + 1
           q == find_class(m)
<1>3. p \in 1 .. 13 /\ q \in 1 .. 13 /\ p <= q
  BY <1>1, <1>2
<1>4. n < ClassBound[p] /\ ClassBound[q] <= m
  BY <1>1, <1>2, <1>3
<1> HIDE DEF p, q
<1>5. ClassBound[p] <= ClassBound[q] /\ ClassBound[p] \in Nat /\ ClassBound[q] \in Nat
  BY <1>3, BoundsIncrease
<1> QED
  BY <1>4, <1>5

(***************************************************************************)
(* find_fit (mm.c:910) finds a block whenever a free one is large enough:  *)
(* the lists it looks through are all that such a block can be on.         *)
(***************************************************************************)
LEMMA FitFound ==
  ASSUME NEW h, WF(h, {}), NEW a \in Nat, a % 16 = 0, a >= 16,
         NEW c \in DOMAIN h.hdr, ~h.hdr[c].alloc, a <= h.hdr[c].size
  PROVE  find_fit(h, a) # {}
<1> DEFINE n == h.hdr[c].size
           fits(k) == \E b \in h.bins[k] : a <= h.hdr[b].size
           T == {k + 1 : k \in {j \in Searched(a) : fits(j)}}
<1>1. n \in Nat
  BY HeapTypeFields DEF WF
<1>2. find_class(a) \in 0 .. 13 /\ find_class(n) \in 0 .. 13
  BY <1>1, ClassFound DEF Classes, LENGTH
<1>3. BinOf(n) \in Searched(a)
  <2>1. find_class(a) <= find_class(n)
    BY <1>1, ClassMonotone
  <2>2. CASE n = 16
    BY <1>1, <2>2 DEF BinOf, Searched, BinIds, min_block_size, dsize, wsize
  <2>3. CASE n # 16
    BY <1>2, <2>1, <2>3
       DEF BinOf, Searched, BinIds, Classes, LENGTH, mini_list, min_block_size,
           dsize, wsize
  <2> QED
    BY <2>2, <2>3
<1>4. c \in h.bins[BinOf(n)]
  <2>1. BinOf(n) \in BinIds
    BY <1>3 DEF Searched
  <2> QED
    BY <2>1 DEF WF, Binned
<1>5. BinOf(n) \in Searched(a) /\ fits(BinOf(n))
  BY <1>3, <1>4
<1>6. \A k \in Searched(a) : k \in -1 .. 13
  BY DEF Searched, BinIds, Classes, LENGTH, mini_list
<1>7. T \subseteq Nat /\ T # {}
  <2> HIDE DEF fits
  <2>1. T # {}
    BY <1>5
  <2>2. \A k \in Searched(a) : k + 1 \in Nat
    BY <1>6
  <2> QED
    BY <2>1, <2>2
<1>8. PICK t \in T : \A u \in T : t <= u
  <2> HIDE DEF T
  <2> QED
    BY <1>7, LeastNatural
<1>9. PICK k \in Searched(a) : t = k + 1 /\ fits(k)
  <2> HIDE DEF fits
  <2> QED
    BY <1>8
<1>10. \A j \in Searched(a) : j < k => ~ fits(j)
  <2> HIDE DEF fits
  <2>1. \A j \in Searched(a) : fits(j) => k + 1 <= j + 1
    BY <1>8, <1>9
  <2> QED
    BY <1>6, <2>1
<1>11. k \in BinIds /\ \A j \in Searched(a) : j \in BinIds
  BY DEF Searched
<1>12. ASSUME NEW j \in BinIds, NEW b \in h.bins[j]
       PROVE  b \in DOMAIN h.hdr /\ h.hdr[b].size \in Nat
  <2>1. b \in DOMAIN h.hdr
    BY DEF WF, Binned
  <2> QED
    BY <2>1, HeapTypeFields DEF WF
<1>13. PICK b \in h.bins[k] : a <= h.hdr[b].size
  BY <1>9
<1>14. \A j \in Searched(a) : j < k => \A d \in h.bins[j] : h.hdr[d].size < a
  BY <1>10, <1>11, <1>12
<1>15. b \in find_fit(h, a)
  BY <1>11, <1>12, <1>13, <1>14 DEF find_fit
<1> QED
  BY <1>15

(***************************************************************************)
(* malloc fails or grows the heap only when no free block is large enough  *)
(* (mm.c:1284): the search is never cut short by a class or by a list.     *)
(***************************************************************************)
THEOREM NoFitMissed == Spec => []FitIsFound
<1>1. ASSUME Inv, NEW size \in Sizes \ {0}, NEW m \in malloc(hp, size),
             hp.brk # 0, m.bp = NULL \/ m.hp.brk # hp.brk,
             NEW c \in DOMAIN hp.hdr
      PROVE  hp.hdr[c].alloc \/ hp.hdr[c].size < adjusted_size(size)
  <2> DEFINE a == adjusted_size(size)
  <2>1. WF(hp, {})
    BY <1>1, EmptyHeapFacts DEF Inv, Good
  <2>2. a \in Nat /\ a % 16 = 0 /\ a >= 16
    BY RequestAssumption, AdjustedSize
  <2>3. hp.hdr[c].size \in Nat
    BY <2>1, HeapTypeFields DEF WF
  <2>4. find_fit(hp, a) = {}
    <3>1. SUFFICES ASSUME find_fit(hp, a) # {}
                   PROVE  FALSE
      OBVIOUS
    <3>2. initialised(hp) = hp /\ ~init_fails(hp)
      BY <1>1 DEF initialised, init_fails
    <3>3. PICK b \in find_fit(hp, a) : m = [hp |-> place(hp, b, a), bp |-> b + wsize]
      BY <3>1, <3>2 DEF malloc
    <3>4. b \in DOMAIN hp.hdr /\ a <= hp.hdr[b].size /\ \E k \in BinIds : b \in hp.bins[k]
      BY <3>3 DEF find_fit, Searched
    <3>5. ~hp.hdr[b].alloc
      BY <3>4, <2>1 DEF WF, Binned
    <3>6. place(hp, b, a).brk = hp.brk
      <4> HIDE DEF a
      <4> QED
        BY <2>1, <2>2, <3>4, <3>5, Place
    <3>7. b \in Nat
      BY <2>1, <3>4, HeapTypeFields DEF WF
    <3>8. m.bp # NULL
      BY <3>3, <3>7 DEF NULL, wsize
    <3> QED
      BY <1>1, <3>3, <3>6, <3>8
  <2> HIDE DEF a
  <2>5. hp.hdr[c].alloc \/ ~ (a <= hp.hdr[c].size)
    BY <2>1, <2>2, <2>4, FitFound
  <2>6. hp.hdr[c].alloc \/ hp.hdr[c].size < a
    BY <2>2, <2>3, <2>5
  <2> QED
    BY <2>6 DEF a
<1>2. Inv => FitIsFound
  BY <1>1 DEF FitIsFound
<1> QED
  BY <1>2, Invariance, PTL

-----------------------------------------------------------------------------
(***************************************************************************)
(* The size of the heap is a number within the arena.                      *)
(***************************************************************************)
LEMMA BrkBound ==
  ASSUME NEW h, Good(h)
  PROVE  h.brk \in Nat /\ h.brk <= MaxHeap
BY EmptyHeapFacts, WFNotEmpty, BlockHeapAssumption DEF Good

(***************************************************************************)
(* A region that malloc (mm.c:1258) returns is fresh in the sense of       *)
(* AllocSpec, and the heap has not shrunk.                                 *)
(***************************************************************************)
LEMMA MallocFresh ==
  ASSUME Inv, NEW size, FitsWord(size), NEW m \in malloc(hp, size),
         m.bp # NULL
  PROVE  LET x == Region(m.bp, size)
         IN  /\ x.ptr % 16 = 0 /\ 0 < x.ptr /\ 0 < x.size
             /\ x.ptr + x.size <= m.hp.brk
             /\ \A s \in live : \/ x.ptr + x.size <= s.ptr
                                \/ s.ptr + s.size <= x.ptr
<1>1. PICK b, n \in Nat :
        /\ m.bp = b + wsize /\ 0 < size /\ size + wsize <= n
        /\ Used(m.hp) = Used(hp) \cup {Entry(b, n)}
        /\ \A u \in Used(hp) : u.block # b
  BY MallocResult DEF Inv
<1>2. size \in Nat /\ WF(m.hp, {})
  BY MallocResult DEF FitsWord, Inv
<1> DEFINE x == Region(b + wsize, size)
           L == live \cup {x}
<1>3. Owns(L, Used(m.hp))
  BY <1>1, <1>2, OwnsAdd, UsedNat DEF Inv
<1>4. \A s \in live : s # x
  <2> SUFFICES ASSUME NEW s \in live PROVE s # x
    OBVIOUS
  <2>1. PICK u \in Used(hp) : s.ptr = u.block + wsize
    BY DEF Inv, Owns
  <2>2. u.block \in Nat /\ u.block # b
    BY <1>1, UsedNat DEF Inv
  <2> QED
    BY <2>1, <2>2 DEF Region, wsize
<1>5. x \in [ptr : Nat, size : Nat]
  BY <1>2 DEF Region, wsize
<1>6. Region(m.bp, size) = x
  BY <1>1
<1> HIDE DEF x
<1>7. L \subseteq [ptr : Nat, size : Nat] /\ x \in L
  BY <1>5 DEF Inv
<1> HIDE DEF L
<1>8. /\ x.ptr % 16 = 0 /\ 0 < x.ptr /\ 0 < x.size
      /\ x.ptr + x.size <= m.hp.brk
      /\ \A s \in L : x # s => \/ x.ptr + x.size <= s.ptr
                               \/ s.ptr + s.size <= x.ptr
  BY <1>2, <1>3, <1>7, RegionsApart
<1> QED
  BY <1>4, <1>6, <1>8 DEF L

(***************************************************************************)
(* Acquiring a block is Allocate or Fail of the contract.                  *)
(***************************************************************************)
LEMMA AcquireStep ==
  ASSUME Inv, Inv', NEW size, FitsWord(size), Acquire(size)
  PROVE  Contract!Allocate \/ Contract!Fail
<1>1. PICK m \in malloc(hp, size) :
        /\ hp' = m.hp
        /\ live' = IF m.bp = NULL THEN live
                   ELSE live \cup {Region(m.bp, size)}
  BY DEF Acquire
<1>2. hp.brk <= m.hp.brk /\ hp'.brk <= MaxHeap
  BY MallocResult, BrkBound DEF Inv
<1>3. Contract!Grow
  BY <1>1, <1>2 DEF Contract!Grow
<1>4. CASE m.bp = NULL
  BY <1>1, <1>3, <1>4 DEF Contract!Fail
<1>5. CASE m.bp # NULL
  <2> DEFINE x == Region(m.bp, size)
  <2>1. /\ x.ptr % 16 = 0 /\ 0 < x.ptr /\ 0 < x.size
        /\ x.ptr + x.size <= m.hp.brk
        /\ \A s \in live : \/ x.ptr + x.size <= s.ptr
                           \/ s.ptr + s.size <= x.ptr
    BY <1>5, MallocFresh
  <2>2. live' = live \cup {x}
    BY <1>1, <1>5
  <2> HIDE DEF x
  <2>3. Contract!Fresh(x)
    BY <1>1, <2>1 DEF Contract!Fresh, Contract!Apart
  <2> QED
    BY <1>3, <2>2, <2>3 DEF Contract!Allocate
<1> QED
  BY <1>4, <1>5

(***************************************************************************)
(* realloc is Release, Fail or Move of the contract.                       *)
(***************************************************************************)
LEMMA ReallocStep ==
  ASSUME Inv, Inv', NEW r \in live, NEW size, FitsWord(size), Realloc(r, size)
  PROVE  Contract!Release \/ Contract!Fail \/ Contract!Move
<1>1. CASE Free(r)
  <2>1. hp'.brk = hp.brk /\ live' = live \ {r}
    BY <1>1, FreeInv DEF Free
  <2> QED
    BY <2>1 DEF Contract!Release
<1>2. ASSUME NEW m \in malloc(hp, size), m.bp = NULL, hp' = m.hp, live' = live
      PROVE  Contract!Fail
  <2>1. hp.brk <= hp'.brk /\ hp'.brk <= MaxHeap
    BY <1>2, MallocResult, BrkBound DEF Inv
  <2> QED
    BY <1>2, <2>1 DEF Contract!Fail, Contract!Grow
<1>3. ASSUME NEW m \in malloc(hp, size), m.bp # NULL,
             hp' = free(m.hp, r.ptr),
             live' = (live \ {r}) \cup {Region(m.bp, size)}
      PROVE  Contract!Move
  <2>1. WF(m.hp, {}) /\ hp.brk <= m.hp.brk
    BY MallocResult DEF Inv
  <2>2. PICK b, n \in Nat :
          /\ m.bp = b + wsize
          /\ Used(m.hp) = Used(hp) \cup {Entry(b, n)}
    BY <1>3, MallocResult DEF Inv
  <2>3. hp'.brk = m.hp.brk
    <3>1. PICK u \in Used(hp) : r.ptr = u.block + wsize
      BY DEF Inv, Owns
    <3>2. u \in Used(m.hp)
      BY <3>1, <2>2
    <3> QED
      BY <3>1, <3>2, <2>1, <1>3, FreeBlock
  <2>4. hp'.brk <= MaxHeap
    BY BrkBound DEF Inv
  <2>5. Contract!Grow
    BY <2>1, <2>3, <2>4 DEF Contract!Grow
  <2> DEFINE x == Region(m.bp, size)
  <2>6. /\ x.ptr % 16 = 0 /\ 0 < x.ptr /\ 0 < x.size
        /\ x.ptr + x.size <= m.hp.brk
        /\ \A s \in live : \/ x.ptr + x.size <= s.ptr
                           \/ s.ptr + s.size <= x.ptr
    BY <1>3, MallocFresh
  <2>7. live' = (live \ {r}) \cup {x}
    BY <1>3
  <2> HIDE DEF x
  <2>8. Contract!Fresh(x)
    BY <2>3, <2>6 DEF Contract!Fresh, Contract!Apart
  <2> QED
    BY <2>5, <2>7, <2>8 DEF Contract!Move
<1> QED
  BY <1>1, <1>2, <1>3 DEF Realloc

(***************************************************************************)
(* The allocator implements the contract of mm.h: whatever the sequence of *)
(* calls, a block handed out is aligned, inside the heap, apart from every *)
(* block still held, and stays as it is until it is returned.              *)
(***************************************************************************)
THEOREM Implementation == Spec => ImplementsContract
<1>1. Init => Contract!Init
  BY EmptyHeapFacts DEF Init, Contract!Init
<1>2. Inv /\ Inv' /\ [Next]_vars => [Contract!Next]_(Contract!vars)
  <2> SUFFICES ASSUME Inv, Inv', [Next]_vars
               PROVE  [Contract!Next]_(Contract!vars)
    OBVIOUS
  <2>1. ASSUME NEW size \in Sizes, Malloc(size) PROVE Contract!Next
    BY <2>1, RequestAssumption, AcquireStep DEF Malloc, Contract!Next
  <2>2. ASSUME NEW c \in CallocArgs, Calloc(c[1], c[2]) PROVE Contract!Next
    <3>1. FitsWord((c[1] * c[2]) % SIZE_MOD)
      BY RequestAssumption
    <3>2. Acquire((c[1] * c[2]) % SIZE_MOD)
      BY <2>2 DEF Calloc
    <3> QED
      BY <3>1, <3>2, AcquireStep DEF Contract!Next
  <2>3. ASSUME NEW r \in live, Free(r) PROVE Contract!Next
    <3>1. hp'.brk = hp.brk /\ live' = live \ {r}
      BY <2>3, FreeInv DEF Free
    <3> QED
      BY <3>1 DEF Contract!Next, Contract!Release
  <2>4. ASSUME NEW r \in live, NEW size \in ReallocSizes, Realloc(r, size)
        PROVE  Contract!Next
    BY <2>4, RequestAssumption, ReallocStep DEF Contract!Next
  <2>5. ASSUME NEW size \in ReallocSizes \ {0}, Malloc(size)
        PROVE  Contract!Next
    BY <2>5, RequestAssumption, AcquireStep DEF Malloc, Contract!Next
  <2>6. CASE Reset
    <3>1. live' = {} /\ 0 <= hp'.brk /\ hp'.brk <= MaxHeap
      BY <2>6, BrkBound DEF Inv, Reset
    <3> QED
      BY <3>1 DEF Contract!Next, Contract!Restart
  <2>7. CASE UNCHANGED vars
    BY <2>7 DEF vars, Contract!vars
  <2> QED
    BY <2>1, <2>2, <2>3, <2>4, <2>5, <2>6, <2>7 DEF Next
<1> QED
  BY <1>1, <1>2, Invariance, PTL DEF Spec, ImplementsContract, Contract!Spec
=============================================================================
