------------------------------- MODULE Memlib -------------------------------
(***************************************************************************)
(* The memory system of memlib.c: a heap that only grows, kept either in   *)
(* one mapping of the operating system (dense) or in pages found through a *)
(* hash table (sparse, an emulation of a much larger heap).                *)
(*                                                                         *)
(* Addresses are offsets from the start of the heap and the contents of    *)
(* the memory are single bytes; a value of len bytes is a sequence.  The   *)
(* process may stop: status is "exit" when the emulation has no page left, *)
(* "abort" when a byte is read that was never written, and "fault" when    *)
(* the hardware refuses an access.                                         *)
(***************************************************************************)
EXTENDS Integers, Sequences

CONSTANTS MaxHeap,            \* mem_max_addr, dense or sparse
          SPARSE_PAGE_SIZE,
          num_pages,          \* pages of the emulation
          num_buckets,        \* buckets of its hash table
          mem_pagesize,       \* page size of the operating system
          WordSize,           \* sizeof(uint64_t)
          Bytes,              \* what a byte may hold; 0 is one of them
          Incrs,              \* increments asked of mem_sbrk
          Values,             \* values written: sequences of at most WordSize
          CopySizes,          \* lengths asked of mem_memcpy and mem_memset
          MaxInits            \* bound on the calls of mem_init

ASSUME MemlibAssumption ==
  /\ {MaxHeap, SPARSE_PAGE_SIZE, num_pages, num_buckets, mem_pagesize,
      WordSize, MaxInits} \subseteq Nat \ {0}
  /\ MaxHeap % mem_pagesize = 0 /\ WordSize <= SPARSE_PAGE_SIZE
  /\ Bytes \subseteq Nat /\ 0 \in Bytes
  /\ Incrs \subseteq Int /\ CopySizes \subseteq Nat
  /\ \A val \in Values : val \in Seq(Bytes) /\ Len(val) \in 1 .. WordSize

NIL == -1
Addresses == 0 .. MaxHeap - 1
Offsets == 0 .. SPARSE_PAGE_SIZE - 1
PageIds == 0 .. (MaxHeap - 1) \div SPARSE_PAGE_SIZE
Slots == 0 .. num_pages - 1          \* the page structures, in memory order
Buckets == 0 .. num_buckets - 1

VARIABLES mem,        \* the globals of memlib.c and the memory behind them
          mappings,   \* mappings asked of the operating system and not undone
          inits,      \* calls of mem_init so far
          flat        \* history: the byte last written to each address

vars == << mem, mappings, inits, flat >>

Unwritten == NIL

-----------------------------------------------------------------------------
page_id(addr) == addr \div SPARSE_PAGE_SIZE
page_start(id) == id * SPARSE_PAGE_SIZE

Lesser(a, b) == IF a < b THEN a ELSE b
Least(S) == CHOOSE x \in S : \A y \in S : x <= y

(***************************************************************************)
(* The page structure that holds page id, found along its hash chain.      *)
(***************************************************************************)
find_page(m, id) ==
  LET chain == m.page_table[id % num_buckets]
      at == {i \in DOMAIN chain : m.page[chain[i]].id = id}
  IN  IF at = {} THEN NIL ELSE chain[Least(at)]

TakePage_stale_init(m, id) ==
  LET slot == m.next_free_page
  IN  [m EXCEPT !.next_free_page = @ + 1, !.num_free_pages = @ - 1,
                !.page[slot] = [@ EXCEPT !.id = id],
                !.page_table[id % num_buckets] = << slot >> \o @]

TakePage_one_bucket(m, id) ==
  LET slot == m.next_free_page
  IN  [m EXCEPT !.next_free_page = @ + 1, !.num_free_pages = @ - 1,
                !.page[slot] = [@ EXCEPT !.id = id, !.initSet = {}],
                !.page_table[id % num_buckets] = << slot >>]

(***************************************************************************)
(* The next free page becomes page id and goes to the front of its chain.  *)
(* It keeps the bytes of its last use; only its initSet is cleared.        *)
(***************************************************************************)
TakePage(m, id) ==
  LET slot == m.next_free_page
  IN  [m EXCEPT !.next_free_page = @ + 1, !.num_free_pages = @ - 1,
                !.page[slot] = [@ EXCEPT !.id = id, !.initSet = {}],
                !.page_table[id % num_buckets] = << slot >> \o @]

PageIn(m, id) ==
  IF find_page(m, id) # NIL THEN m
  ELSE IF m.num_free_pages = 0 THEN [m EXCEPT !.status = "exit"]
  ELSE TakePage(m, id)

(***************************************************************************)
(* Makes the page of addr available, from the free pages if it is not in   *)
(* the table, and marks or checks the bytes of the access that lie in this *)
(* page.                                                                   *)
(***************************************************************************)
get_mem(m, addr, size, isWrite) ==
  LET id == page_id(addr)
      offset == addr - page_start(id)
      m1 == PageIn(m, id)
      p == find_page(m1, id)
      touched == Offsets \cap (offset .. offset + size - 1)
  IN  IF m1.status # "run" THEN m1
      ELSE IF isWrite THEN [m1 EXCEPT !.page[p].initSet = @ \cup touched]
      ELSE IF m1.checkUB /\ ~(touched \subseteq m1.page[p].initSet)
      THEN [m1 EXCEPT !.status = "abort"]
      ELSE m1

(***************************************************************************)
(* The bytes of a page from an address on, and a store to them.            *)
(***************************************************************************)
PageBytes(m, addr, n) ==
  LET id == page_id(addr)
  IN  [i \in 1 .. n |->
         m.page[find_page(m, id)].bytes[addr - page_start(id) + i - 1]]

PutPageBytes(m, addr, val) ==
  LET id == page_id(addr)
      first == addr - page_start(id)
      put(bytes) == [o \in Offsets |->
                       IF o \in first .. first + Len(val) - 1
                       THEN val[o - first + 1] ELSE bytes[o]]
  IN  IF m.status # "run" THEN m
      ELSE [m EXCEPT !.page[find_page(m, id)].bytes = put(@)]

-----------------------------------------------------------------------------
Emulated(m, addr, len) == m.sparse /\ addr + len <= m.mem_brk

(***************************************************************************)
(* A plain load or store: the dense heap is there as far as mprotect made  *)
(* it accessible, the addresses of the sparse heap are mapped nowhere.     *)
(***************************************************************************)
Accessible(m, addr, len) ==
  ~m.sparse /\ \A a \in addr .. addr + len - 1 : a \in m.writable

mem_read(m, addr, len) ==
  LET llen == SPARSE_PAGE_SIZE - (addr - page_start(page_id(addr)))
      m1 == get_mem(m, addr, len, FALSE)
      m2 == get_mem(m1, addr + llen, len - llen, FALSE)
      done == IF llen < len /\ m1.status = "run" THEN m2 ELSE m1
      split == PageBytes(m2, addr, llen) \o PageBytes(m2, addr + llen, len - llen)
  IN  IF Emulated(m, addr, len)
      THEN [m |-> done,
            val |-> IF done.status # "run" THEN << >>
                    ELSE IF llen < len THEN split
                    ELSE PageBytes(m1, addr, len)]
      ELSE IF Accessible(m, addr, len)
      THEN [m |-> m, val |-> [i \in 1 .. len |-> m.dense[addr + i - 1]]]
      ELSE [m |-> [m EXCEPT !.status = "fault"], val |-> << >>]

mem_write(m, addr, val) ==
  LET len == Len(val)
      llen == SPARSE_PAGE_SIZE - (addr - page_start(page_id(addr)))
      m1 == get_mem(m, addr, len, TRUE)
      m2 == PutPageBytes(m1, addr, SubSeq(val, 1, Lesser(llen, len)))
      m3 == get_mem(m2, addr + llen, len - llen, TRUE)
  IN  IF Emulated(m, addr, len)
      THEN IF llen < len /\ m1.status = "run"
           THEN PutPageBytes(m3, addr + llen, SubSeq(val, llen + 1, len))
           ELSE m2
      ELSE IF Accessible(m, addr, len)
      THEN [m EXCEPT !.dense = [a \in Addresses |->
                                  IF a \in addr .. addr + len - 1
                                  THEN val[a - addr + 1] ELSE @[a]]]
      ELSE [m EXCEPT !.status = "fault"]

(***************************************************************************)
(* mem_memcpy and mem_memset work on num_bytes bytes piece by piece: words *)
(* and what is left.  Nothing happens after an access that was refused.    *)
(***************************************************************************)
NumPieces(num_bytes) == (num_bytes + WordSize - 1) \div WordSize
PieceStart(k) == (k - 1) * WordSize
PieceLen(num_bytes, k) == Lesser(WordSize, num_bytes - PieceStart(k))

copy_piece(m, dst, src, len) ==
  LET r == mem_read(m, src, len)
  IN  IF m.status # "run" THEN m
      ELSE IF r.m.status # "run" THEN r.m
      ELSE mem_write(r.m, dst, r.val)

fill_piece(m, dst, c, len) ==
  IF m.status # "run" THEN m ELSE mem_write(m, dst, [i \in 1 .. len |-> c])

mem_memcpy(m, dst, src, num_bytes) ==
  LET after[k \in 0 .. NumPieces(num_bytes)] ==
        IF k = 0 THEN m
        ELSE copy_piece(after[k - 1], dst + PieceStart(k), src + PieceStart(k),
                        PieceLen(num_bytes, k))
  IN  after[NumPieces(num_bytes)]

mem_memset(m, dst, c, num_bytes) ==
  LET after[k \in 0 .. NumPieces(num_bytes)] ==
        IF k = 0 THEN m
        ELSE fill_piece(after[k - 1], dst + PieceStart(k), c,
                        PieceLen(num_bytes, k))
  IN  after[NumPieces(num_bytes)]

-----------------------------------------------------------------------------
EmptyTable == [b \in Buckets |-> << >>]
round_address_up(addr, align) == align * ((addr + align - 1) \div align)

Off == [up |-> FALSE, sparse |-> FALSE, mem_brk |-> 0, mem_brk_chunk |-> 0,
        writable |-> {}, dense |-> [a \in Addresses |-> 0],
        page_table |-> EmptyTable, next_free_page |-> 0, num_free_pages |-> 0,
        page |-> [s \in Slots |-> [id |-> 0, initSet |-> {},
                                   bytes |-> [o \in Offsets |-> 0]]],
        checkUB |-> TRUE, status |-> "run"]

(***************************************************************************)
(* mem_init maps fresh memory.  It leaves num_free_pages as mem_deinit     *)
(* left it: there are no pages until the first mem_reset_brk.              *)
(***************************************************************************)
mem_init(m, do_sparse) ==
  [Off EXCEPT !.up = TRUE, !.sparse = do_sparse,
              !.checkUB = do_sparse \/ m.checkUB]

mem_deinit(m) == [Off EXCEPT !.sparse = m.sparse, !.checkUB = m.checkUB]

mem_reset_brk(m) ==
  LET m1 == [m EXCEPT !.mem_brk = 0, !.mem_brk_chunk = 0]
  IN  IF m.sparse
      THEN [m1 EXCEPT !.page_table = EmptyTable, !.next_free_page = 0,
                      !.num_free_pages = num_pages]
      ELSE [m1 EXCEPT !.dense = [a \in Addresses |-> 0], !.writable = {}]

mem_sbrk_no_limit(m, incr) == incr < 0

mem_sbrk_fails(m, incr) == incr < 0 \/ m.mem_brk + incr > MaxHeap

mem_sbrk_protects_increment(m, incr) ==
  LET new_brk == m.mem_brk + incr
  IN  [m EXCEPT !.mem_brk = new_brk,
                !.mem_brk_chunk = round_address_up(new_brk, mem_pagesize),
                !.writable = @ \cup (m.mem_brk_chunk ..
                               m.mem_brk_chunk + mem_pagesize - 1)]

(***************************************************************************)
(* mem_sbrk when it does not fail: the pages of the new area that were not *)
(* accessible yet are made so.                                             *)
(***************************************************************************)
mem_sbrk(m, incr) ==
  LET new_brk == m.mem_brk + incr
      new_brk_chunk == round_address_up(new_brk, mem_pagesize)
  IN  [m EXCEPT !.mem_brk = new_brk, !.mem_brk_chunk = new_brk_chunk,
                !.writable = IF m.sparse THEN @
                             ELSE @ \cup (m.mem_brk_chunk .. new_brk_chunk - 1)]

-----------------------------------------------------------------------------
(***************************************************************************)
(* The callers: the driver, and the allocator and driver code that reads   *)
(* and writes the heap.                                                    *)
(***************************************************************************)
Blank(m) == [a \in Addresses |-> IF m.sparse THEN Unwritten ELSE 0]
Running == mem.up /\ mem.status = "run"

Wrote(addr, val) ==
  [a \in Addresses |-> IF a \in addr .. addr + Len(val) - 1
                       THEN val[a - addr + 1] ELSE flat[a]]

Init == mem = Off /\ mappings = 0 /\ inits = 0 /\ flat = Blank(Off)

MemInit(do_sparse) ==
  /\ ~mem.up /\ mem.status = "run" /\ inits < MaxInits
  /\ inits' = inits + 1
  /\ \/ /\ mem' = mem_init(mem, do_sparse)
        /\ mappings' = mappings + 1
        /\ flat' = Blank(mem')
     \/ /\ mem' = [mem EXCEPT !.status = "exit"]      \* mmap failed
        /\ UNCHANGED << mappings, flat >>

(***************************************************************************)
(* munmap is given the address of the heap, which is that of the mapping   *)
(* only when the heap is dense.                                            *)
(***************************************************************************)
MemDeinit ==
  /\ Running
  /\ mem' = mem_deinit(mem)
  /\ mappings' = IF mem.sparse THEN mappings ELSE mappings - 1
  /\ UNCHANGED << inits, flat >>

MemResetBrk ==
  /\ Running
  /\ \/ /\ mem' = mem_reset_brk(mem)
        /\ flat' = Blank(mem)
     \/ /\ ~mem.sparse                                \* mmap failed
        /\ mem' = [mem EXCEPT !.status = "exit"]
        /\ UNCHANGED flat
  /\ UNCHANGED << mappings, inits >>

MemSbrk(incr) ==
  /\ Running
  /\ ~mem_sbrk_fails(mem, incr)
  /\ mem' = mem_sbrk(mem, incr)
  /\ UNCHANGED << mappings, inits, flat >>

(***************************************************************************)
(* mem_sbrk returns -1: the increment is negative, the heap would pass its *)
(* limit, or mprotect refuses.                                             *)
(***************************************************************************)
MemSbrkFails(incr) ==
  /\ Running
  /\ mem_sbrk_fails(mem, incr) \/ ~mem.sparse
  /\ UNCHANGED vars

MemWrite(addr, val) ==
  /\ Running
  /\ mem' = mem_write(mem, addr, val)
  /\ flat' = IF mem'.status = "run" THEN Wrote(addr, val) ELSE flat
  /\ UNCHANGED << mappings, inits >>

MemRead(addr, len) ==
  /\ Running
  /\ mem' = mem_read(mem, addr, len).m
  /\ UNCHANGED << mappings, inits, flat >>

MemMemset(dst, c, num_bytes) ==
  /\ Running
  /\ mem' = mem_memset(mem, dst, c, num_bytes)
  /\ flat' = IF mem'.status = "run"
             THEN Wrote(dst, [i \in 1 .. num_bytes |-> c]) ELSE flat
  /\ UNCHANGED << mappings, inits >>

(***************************************************************************)
(* A byte copied without having been written is whatever its page holds.   *)
(***************************************************************************)
Peek(m, addr) == mem_read([m EXCEPT !.checkUB = FALSE], addr, 1).val[1]

MemMemcpy(dst, src, num_bytes) ==
  /\ Running
  /\ src + num_bytes <= dst \/ dst + num_bytes <= src
  /\ mem' = mem_memcpy(mem, dst, src, num_bytes)
  /\ flat' = IF mem'.status # "run" THEN flat
             ELSE Wrote(dst, [i \in 1 .. num_bytes |->
                    IF flat[src + i - 1] # Unwritten THEN flat[src + i - 1]
                    ELSE Peek(mem', src + i - 1)])
  /\ UNCHANGED << mappings, inits >>

SetUBCheck(val) ==
  /\ Running
  /\ mem' = [mem EXCEPT !.checkUB = val]
  /\ UNCHANGED << mappings, inits, flat >>

Next ==
  \/ \E do_sparse \in BOOLEAN : MemInit(do_sparse)
  \/ MemDeinit
  \/ MemResetBrk
  \/ \E incr \in Incrs : MemSbrk(incr) \/ MemSbrkFails(incr)
  \/ \E addr \in Addresses, val \in Values :
       addr + Len(val) <= MaxHeap /\ MemWrite(addr, val)
  \/ \E addr \in Addresses, len \in 1 .. WordSize :
       addr + len <= MaxHeap /\ MemRead(addr, len)
  \/ \E dst \in Addresses, c \in Bytes, n \in CopySizes :
       dst + n <= MaxHeap /\ MemMemset(dst, c, n)
  \/ \E dst, src \in Addresses, n \in CopySizes :
       dst + n <= MaxHeap /\ src + n <= MaxHeap /\ MemMemcpy(dst, src, n)
  \/ \E val \in BOOLEAN : SetUBCheck(val)

Spec == Init /\ [][Next]_vars

-----------------------------------------------------------------------------
(***************************************************************************)
(* Type correctness.                                                       *)
(***************************************************************************)
TypeOK ==
  /\ mem.mem_brk \in 0 .. MaxHeap /\ mem.mem_brk_chunk \in 0 .. MaxHeap
  /\ mem.writable \subseteq Addresses
  /\ mem.dense \in [Addresses -> Bytes]
  /\ mem.page_table \in [Buckets -> Seq(Slots)]
  /\ mem.page \in [Slots -> [id : PageIds, initSet : SUBSET Offsets,
                             bytes : [Offsets -> Bytes]]]
  /\ mem.next_free_page \in 0 .. num_pages
  /\ mem.num_free_pages \in 0 .. num_pages
  /\ mem.status \in {"run", "exit", "abort", "fault"}
  /\ flat \in [Addresses -> Bytes \cup {Unwritten}]

(***************************************************************************)
(* The page table of the emulation: the pages in use are the ones taken so *)
(* far, each is on the chain of its own bucket, and no two hold the same   *)
(* page of the heap.                                                       *)
(***************************************************************************)
PagesSound ==
  LET taken == 0 .. mem.next_free_page - 1
      chained(b) == {mem.page_table[b][k] : k \in DOMAIN mem.page_table[b]}
  IN  /\ UNION {chained(b) : b \in Buckets} = taken
      /\ \A b \in Buckets : \A s \in chained(b) : mem.page[s].id % num_buckets = b
      /\ \A s, t \in taken : mem.page[s].id = mem.page[t].id => s = t
      /\ mem.num_free_pages \in {0, num_pages - mem.next_free_page}

(***************************************************************************)
(* The heap reads back what was last written to it, across page boundaries *)
(* and hash collisions, by words or through mem_memset and mem_memcpy, and *)
(* whatever was in a page before the last reset; with the check for        *)
(* undefined behaviour on, a read goes through exactly when all its bytes  *)
(* were written since then.                                                *)
(***************************************************************************)
ReadsBack ==
  Running =>
    \A addr \in Addresses, len \in 1 .. WordSize :
      LET stretch == addr .. addr + len - 1
          written == \A a \in stretch : flat[a] # Unwritten
          r == mem_read([mem EXCEPT !.checkUB = TRUE], addr, len)
      IN  addr + len <= mem.mem_brk =>
            /\ r.m.status = "run" <=> written
            /\ written => r.val = [i \in 1 .. len |-> flat[addr + i - 1]]

(***************************************************************************)
(* In the dense heap every byte below the break can be used and no page    *)
(* beyond it, however the increments of mem_sbrk fall on page boundaries   *)
(* and also after a reset.                                                 *)
(***************************************************************************)
BreakIsAccessible ==
  mem.up /\ ~mem.sparse =>
    mem.writable = 0 .. round_address_up(mem.mem_brk, mem_pagesize) - 1

(***************************************************************************)
(* memlib.c:213: mem_deinit is to "free the storage used by the memory     *)
(* system model".  When the memory system is down nothing stays mapped.    *)
(***************************************************************************)
StorageFreed == ~mem.up => mappings = 0
=============================================================================
