---------------------------- MODULE MemlibProofs ----------------------------
(***************************************************************************)
(* Proofs about the memory system of Memlib, for every size of the heap,   *)
(* of its pages and of its hash table. The invariant says that the page    *)
(* table is sound, that the accessible part of the dense heap ends at the  *)
(* break, and that the byte kept for an address is the one last written to *)
(* it. It rests on what one access does: first to the page it needs, then  *)
(* to the bytes of a page, then to a word that may lie in two pages, and   *)
(* last to the words of mem_memset and mem_memcpy.                         *)
(***************************************************************************)
EXTENDS Memlib, NatFacts, TLAPS

(***************************************************************************)
(* The sizes are positive.                                                 *)
(***************************************************************************)
LEMMA Consts ==
  /\ MaxHeap \in Nat \ {0} /\ SPARSE_PAGE_SIZE \in Nat \ {0}
  /\ num_pages \in Nat \ {0} /\ num_buckets \in Nat \ {0}
  /\ mem_pagesize \in Nat \ {0} /\ WordSize \in Nat \ {0}
BY MemlibAssumption

(***************************************************************************)
(* A quotient is the one number whose multiple lies at or just below.      *)
(***************************************************************************)
LEMMA Division ==
  ASSUME NEW a \in Nat, NEW d \in Nat \ {0}
  PROVE  /\ a \div d \in Nat /\ d * (a \div d) <= a /\ a < d * (a \div d) + d
         /\ \A q \in Nat : d * q <= a /\ a < d * q + d => q = a \div d
<1>1. a \div d \in Nat /\ d * (a \div d) <= a /\ a < d * (a \div d) + d
  OBVIOUS
<1>2. ASSUME NEW q \in Nat, d * q <= a, a < d * q + d
      PROVE  q = a \div d
   <2> DEFINE p == a \div d
   <2>1. p \in Nat /\ d * p <= a /\ a < d * p + d
     BY <1>1
   <2> HIDE DEF p
   <2>2. CASE q < p
     <3>1. d * q + d <= d * p
       BY <2>1, <2>2
     <3> QED BY <3>1, <2>1, <1>2
   <2>3. CASE p < q
     <3>1. d * p + d <= d * q
       BY <2>1, <2>3
     <3> QED BY <3>1, <2>1, <1>2
   <2>4. p = q BY <2>1, <2>2, <2>3
   <2> QED BY <2>4 DEF p
<1> QED BY <1>1, <1>2

(***************************************************************************)
(* A remainder is less than the divisor; without one the division is       *)
(* exact.                                                                  *)
(***************************************************************************)
LEMMA Remainder ==
  ASSUME NEW a \in Nat, NEW d \in Nat \ {0}
  PROVE  a % d \in 0 .. d - 1 /\ (a % d = 0 => a = d * (a \div d))
OBVIOUS

(***************************************************************************)
(* Every address lies in its page, and the pages of the heap are PageIds.  *)
(***************************************************************************)
LEMMA PageOf ==
  ASSUME NEW a \in Nat
  PROVE  /\ page_id(a) \in Nat
         /\ page_start(page_id(a)) \in Nat
         /\ page_start(page_id(a)) <= a
         /\ a < page_start(page_id(a)) + SPARSE_PAGE_SIZE
         /\ a \in Addresses => page_id(a) \in PageIds
<1>1. SPARSE_PAGE_SIZE \in Nat \ {0} /\ MaxHeap \in Nat \ {0}
  BY Consts
<1>2. /\ page_id(a) \in Nat
      /\ SPARSE_PAGE_SIZE * page_id(a) <= a
      /\ a < SPARSE_PAGE_SIZE * page_id(a) + SPARSE_PAGE_SIZE
  BY <1>1, Division DEF page_id
<1>3. page_start(page_id(a)) = SPARSE_PAGE_SIZE * page_id(a)
  BY <1>1, <1>2 DEF page_start
<1>4. SPARSE_PAGE_SIZE * page_id(a) \in Nat
  BY <1>1, <1>2
<1>5. ASSUME a \in Addresses
      PROVE  page_id(a) \in PageIds
  <2> DEFINE last == (MaxHeap - 1) \div SPARSE_PAGE_SIZE
             p == page_id(a)
  <2>1. /\ last \in Nat /\ MaxHeap - 1 < SPARSE_PAGE_SIZE * last + SPARSE_PAGE_SIZE
    BY <1>1, Division
  <2>2. a <= MaxHeap - 1 /\ p \in Nat /\ SPARSE_PAGE_SIZE * p <= a
    BY <1>1, <1>2, <1>5 DEF Addresses
  <2>3. p <= last
    <3> HIDE DEF last, p
    <3>1. CASE last + 1 <= p
      <4>1. SPARSE_PAGE_SIZE * last + SPARSE_PAGE_SIZE <= SPARSE_PAGE_SIZE * p
        BY <1>1, <2>1, <2>2, <3>1
      <4>2. SPARSE_PAGE_SIZE * p \in Nat /\ SPARSE_PAGE_SIZE * last \in Nat
        BY <1>1, <2>1, <2>2
      <4> QED
        BY <1>1, <2>1, <2>2, <4>1, <4>2
    <3> QED
      BY <2>1, <2>2, <3>1
  <2> QED
    BY <2>1, <2>2, <2>3 DEF PageIds
<1> QED
  BY <1>2, <1>3, <1>4, <1>5

(***************************************************************************)
(* An address between the bounds of a page is in that page.                *)
(***************************************************************************)
LEMMA SamePage ==
  ASSUME NEW a \in Nat, NEW b \in Nat,
         page_start(page_id(a)) <= b, b < page_start(page_id(a)) + SPARSE_PAGE_SIZE
  PROVE  page_id(b) = page_id(a)
<1>1. SPARSE_PAGE_SIZE \in Nat \ {0} /\ page_id(a) \in Nat
  BY Consts, PageOf
<1>2. page_start(page_id(a)) = SPARSE_PAGE_SIZE * page_id(a)
  BY <1>1 DEF page_start
<1>3. page_id(a) = b \div SPARSE_PAGE_SIZE
  <2> DEFINE q == page_id(a)
  <2>1. q \in Nat /\ SPARSE_PAGE_SIZE * q <= b /\ b < SPARSE_PAGE_SIZE * q + SPARSE_PAGE_SIZE
    BY <1>1, <1>2
  <2> HIDE DEF q
  <2>2. q = b \div SPARSE_PAGE_SIZE
    BY <1>1, <2>1, Division
  <2> QED
    BY <2>2 DEF q
<1> QED
  BY <1>3 DEF page_id

(***************************************************************************)
(* The bytes from an address to the end of its page: llen in memlib.c.     *)
(***************************************************************************)
Rest(addr) == SPARSE_PAGE_SIZE - (addr - page_start(page_id(addr)))

(***************************************************************************)
(* An access of at most a page touches the page of its address and, past   *)
(* Rest(addr), the next one, which starts there.                           *)
(***************************************************************************)
LEMMA Split ==
  ASSUME NEW addr \in Nat, NEW a \in Nat, addr <= a,
         a < addr + SPARSE_PAGE_SIZE
  PROVE  /\ Rest(addr) \in 1 .. SPARSE_PAGE_SIZE
         /\ a < addr + Rest(addr) => page_id(a) = page_id(addr)
         /\ addr + Rest(addr) <= a =>
              /\ page_id(a) = page_id(addr + Rest(addr))
              /\ page_id(a) # page_id(addr)
         /\ page_start(page_id(addr + Rest(addr))) = addr + Rest(addr)
<1> DEFINE s == page_start(page_id(addr))
           n == addr + Rest(addr)
<1>1. SPARSE_PAGE_SIZE \in Nat \ {0}
  BY Consts
<1>2. s \in Nat /\ s <= addr /\ addr < s + SPARSE_PAGE_SIZE
  BY PageOf
<1>3. n = s + SPARSE_PAGE_SIZE /\ n \in Nat /\ Rest(addr) \in 1 .. SPARSE_PAGE_SIZE
  BY <1>1, <1>2 DEF Rest
<1>4. page_start(page_id(n)) = n
  <2>1. page_id(addr) \in Nat /\ page_id(n) \in Nat
    BY <1>3, PageOf
  <2>2. n = SPARSE_PAGE_SIZE * (page_id(addr) + 1)
    BY <1>1, <1>3, <2>1 DEF page_start
  <2>3. page_id(n) = page_id(addr) + 1
    <3> DEFINE q == page_id(addr) + 1
    <3>1. q \in Nat /\ SPARSE_PAGE_SIZE * q <= n /\ n < SPARSE_PAGE_SIZE * q + SPARSE_PAGE_SIZE
      BY <1>1, <1>3, <2>1, <2>2
    <3> HIDE DEF q
    <3>2. q = n \div SPARSE_PAGE_SIZE
      BY <1>1, <1>3, <3>1, Division
    <3> QED
      BY <3>2 DEF q, page_id
  <2> QED
    BY <1>1, <2>1, <2>2, <2>3 DEF page_start
<1>5. a < n => page_id(a) = page_id(addr)
  <2> HIDE DEF s
  <2>1. a < n => s <= a /\ a < s + SPARSE_PAGE_SIZE
    BY <1>1, <1>2, <1>3
  <2> QED
    BY <2>1, SamePage DEF s
<1>6. n <= a => page_id(a) = page_id(n)
  <2>1. n <= a => page_start(page_id(n)) <= a /\ a < page_start(page_id(n)) + SPARSE_PAGE_SIZE
    <3> HIDE DEF s, n
    <3> QED
      BY <1>1, <1>2, <1>3, <1>4
  <2> QED
    BY <1>3, <2>1, SamePage
<1>7. n <= a => page_id(a) # page_id(addr)
  <2>1. a < page_start(page_id(a)) + SPARSE_PAGE_SIZE
    BY PageOf
  <2> QED
    BY <1>1, <1>2, <1>3, <2>1
<1> QED
  BY <1>3, <1>4, <1>5, <1>6, <1>7

(***************************************************************************)
(* Rounding up to the page size of the operating system stays below the    *)
(* limit of the heap and keeps the order.                                  *)
(***************************************************************************)
LEMMA RoundUp ==
  ASSUME NEW a \in 0 .. MaxHeap
  PROVE  /\ round_address_up(a, mem_pagesize) \in a .. MaxHeap
         /\ \A b \in 0 .. a :
              round_address_up(b, mem_pagesize) <= round_address_up(a, mem_pagesize)
<1> DEFINE d == mem_pagesize
           up(x) == (x + d - 1) \div d
<1>1. d \in Nat \ {0} /\ MaxHeap \in Nat \ {0} /\ a \in Nat
  BY Consts
<1>2. ASSUME NEW x \in Nat
      PROVE  /\ up(x) \in Nat /\ d * up(x) \in Nat /\ x <= d * up(x)
             /\ d * up(x) <= x + d - 1
  <2> DEFINE y == x + d - 1
  <2>1. y \in Nat
    BY <1>1
  <2>2. y \div d \in Nat /\ d * (y \div d) <= y /\ y < d * (y \div d) + d
    <3> HIDE DEF y, d
    <3> QED BY <1>1, <2>1, Division
  <2>3. d * (y \div d) \in Nat
    BY <1>1, <2>2
  <2> QED
    BY <1>1, <2>2, <2>3
<1>3. round_address_up(a, d) \in Nat /\ a <= round_address_up(a, d)
  BY <1>1, <1>2 DEF round_address_up
<1>4. round_address_up(a, d) <= MaxHeap
  <2>1. PICK k \in Nat : MaxHeap = d * k
    <3>1. MaxHeap % d = 0
      BY MemlibAssumption
    <3>2. MaxHeap = d * (MaxHeap \div d) /\ MaxHeap \div d \in Nat
      BY <1>1, <3>1, Remainder
    <3> QED
      BY <3>2
  <2> DEFINE u == up(a)
  <2>2. u \in Nat /\ d * u <= a + d - 1 /\ a <= d * k
    <3>1. u \in Nat /\ d * u <= a + d - 1
      BY <1>1, <1>2
    <3>2. a <= d * k
      BY <1>1, <2>1
    <3> QED
      BY <3>1, <3>2
  <2>3. u <= k
    <3> HIDE DEF u, d
    <3>1. CASE k + 1 <= u
      <4>1. d * k + d <= d * u
        BY <1>1, <2>1, <2>2, <3>1
      <4>2. d * k \in Nat /\ d * u \in Nat
        BY <1>1, <2>1, <2>2
      <4> QED
        BY <1>1, <2>1, <2>2, <4>1, <4>2
    <3> QED
      BY <2>1, <2>2, <3>1
  <2>4. d * u <= d * k
    <3> HIDE DEF u, d
    <3> QED
      BY <1>1, <2>1, <2>2, <2>3
  <2> QED
    BY <2>1, <2>4 DEF round_address_up
<1>5. ASSUME NEW b \in 0 .. a
      PROVE  round_address_up(b, d) <= round_address_up(a, d)
  <2> DEFINE u == up(a)
             v == up(b)
  <2>1. /\ u \in Nat /\ v \in Nat /\ a <= d * u /\ d * v <= b + d - 1 /\ b <= a
        /\ b \in Nat
    <3>1. b \in Nat /\ b <= a
      BY <1>1
    <3>2. u \in Nat /\ a <= d * u
      BY <1>1, <1>2
    <3>3. v \in Nat /\ d * v <= b + d - 1
      BY <1>2, <3>1
    <3> QED
      BY <3>1, <3>2, <3>3
  <2>2. v <= u
    <3> HIDE DEF u, v, d
    <3>1. CASE u + 1 <= v
      <4>1. d * u + d <= d * v
        BY <1>1, <2>1, <3>1
      <4>2. d * v \in Nat /\ d * u \in Nat
        BY <1>1, <2>1
      <4> QED
        BY <1>1, <2>1, <4>1, <4>2
    <3> QED
      BY <2>1, <3>1
  <2>3. d * v <= d * u
    <3> HIDE DEF u, v, d
    <3> QED
      BY <1>1, <2>1, <2>2
  <2> QED
    BY <2>3 DEF round_address_up
<1> QED
  BY <1>1, <1>3, <1>4, <1>5

-----------------------------------------------------------------------------
(***************************************************************************)
(* What a page structure and the whole of mem may be.                      *)
(***************************************************************************)
PageType == [id : PageIds, initSet : SUBSET Offsets, bytes : [Offsets -> Bytes]]

MemType ==
  [up : BOOLEAN, sparse : BOOLEAN, mem_brk : 0 .. MaxHeap,
   mem_brk_chunk : 0 .. MaxHeap, writable : SUBSET Addresses,
   dense : [Addresses -> Bytes], page_table : [Buckets -> Seq(Slots)],
   next_free_page : 0 .. num_pages, num_free_pages : 0 .. num_pages,
   page : [Slots -> PageType], checkUB : BOOLEAN,
   status : {"run", "exit", "abort", "fault"}]

(***************************************************************************)
(* The slots in use, and the page table: every chain holds taken slots of  *)
(* its own bucket, every taken slot is on its chain, no page has two       *)
(* slots.                                                                  *)
(***************************************************************************)
Taken(m) == 0 .. m.next_free_page - 1

Tables(m) ==
  /\ \A b \in Buckets : \A k \in DOMAIN m.page_table[b] :
       /\ m.page_table[b][k] \in Taken(m)
       /\ m.page[m.page_table[b][k]].id % num_buckets = b
  /\ \A s \in Taken(m) :
       \E k \in DOMAIN m.page_table[m.page[s].id % num_buckets] :
         m.page_table[m.page[s].id % num_buckets][k] = s
  /\ \A s, t \in Taken(m) : m.page[s].id = m.page[t].id => s = t
  /\ m.num_free_pages \in {0, num_pages - m.next_free_page}

(***************************************************************************)
(* The memory is well typed and its page table is sound.                   *)
(***************************************************************************)
Good(m) == m \in MemType /\ Tables(m)

(***************************************************************************)
(* The hash of a page is a bucket.                                         *)
(***************************************************************************)
LEMMA BucketOf == \A id \in PageIds : id % num_buckets \in Buckets
<1>1. num_buckets \in Nat \ {0} /\ PageIds \subseteq Nat
  BY Consts DEF PageIds
<1> QED
  BY <1>1, Remainder DEF Buckets

(***************************************************************************)
(* The search along a chain finds the slot of a page exactly if there is   *)
(* one.                                                                    *)
(***************************************************************************)
LEMMA FindPage ==
  ASSUME NEW m, Good(m), NEW id \in PageIds
  PROVE  \/ find_page(m, id) = NIL /\ \A s \in Taken(m) : m.page[s].id # id
         \/ find_page(m, id) \in Taken(m) /\ m.page[find_page(m, id)].id = id
<1> DEFINE b == id % num_buckets
           chain == m.page_table[b]
           at == {i \in DOMAIN chain : m.page[chain[i]].id = id}
<1>1. b \in Buckets /\ chain \in Seq(Slots)
  BY BucketOf DEF Good, MemType
<1>2. CASE at = {}
  <2>1. find_page(m, id) = NIL
    BY <1>2 DEF find_page
  <2>2. ASSUME NEW s \in Taken(m), m.page[s].id = id
        PROVE  FALSE
    BY <1>2, <2>2 DEF Good, Tables
  <2> QED
    BY <2>1, <2>2
<1>3. CASE at # {}
  <2>1. at \subseteq Nat
    BY <1>1
  <2>2. \E x \in at : \A y \in at : x <= y
    <3> HIDE DEF at
    <3> QED
      BY <1>3, <2>1, LeastNatural
  <2>3. Least(at) \in at
    BY <2>2 DEF Least
  <2>4. find_page(m, id) = chain[Least(at)]
    BY <1>3 DEF find_page
  <2>5. Least(at) \in DOMAIN chain /\ m.page[chain[Least(at)]].id = id
    BY <2>3
  <2>6. \A k \in DOMAIN chain : chain[k] \in Taken(m)
    BY <1>1 DEF Good, Tables
  <2> QED
    <3> HIDE DEF at, chain
    <3> QED
      BY <2>4, <2>5, <2>6
<1> QED
  BY <1>2, <1>3

(***************************************************************************)
(* The slot that the search finds for the page of a taken slot is that     *)
(* slot.                                                                   *)
(***************************************************************************)
LEMMA FoundPage ==
  ASSUME NEW m, Good(m), NEW s \in Taken(m)
  PROVE  m.page[s].id \in PageIds /\ find_page(m, m.page[s].id) = s
<1>1. s \in Slots /\ m.page[s].id \in PageIds
  BY Consts DEF Good, MemType, Taken, Slots, PageType
<1> QED
  BY <1>1, FindPage DEF Good, Tables

(***************************************************************************)
(* What is in a chain after a slot is put at its front.                    *)
(***************************************************************************)
LEMMA Pushed ==
  ASSUME NEW c \in Seq(Slots), NEW s \in Slots
  PROVE  /\ << s >> \o c \in Seq(Slots)
         /\ DOMAIN (<< s >> \o c) = 1 .. Len(c) + 1
         /\ (<< s >> \o c)[1] = s
         /\ \A k \in DOMAIN c : k + 1 \in DOMAIN (<< s >> \o c)
                                /\ (<< s >> \o c)[k + 1] = c[k]
         /\ \A k \in DOMAIN (<< s >> \o c) : k = 1 \/ (k - 1 \in DOMAIN c /\ (<< s >> \o c)[k] = c[k - 1])
OBVIOUS

(***************************************************************************)
(* What no access changes.                                                 *)
(***************************************************************************)
Frame(m, n) ==
  /\ n.up = m.up /\ n.sparse = m.sparse /\ n.checkUB = m.checkUB
  /\ n.mem_brk = m.mem_brk /\ n.mem_brk_chunk = m.mem_brk_chunk
  /\ n.writable = m.writable

(***************************************************************************)
(* Taking a free page keeps the table sound, gives the page an empty       *)
(* initSet and leaves all other pages alone.                               *)
(***************************************************************************)
LEMMA PageTaken ==
  ASSUME NEW m, Good(m), NEW id \in PageIds, find_page(m, id) = NIL,
         m.num_free_pages # 0, NEW n, n = TakePage(m, id)
  PROVE  /\ Good(n) /\ Frame(m, n) /\ n.dense = m.dense /\ n.status = m.status
         /\ find_page(n, id) = m.next_free_page
         /\ n.page[m.next_free_page].initSet = {}
         /\ \A j \in PageIds \ {id} : find_page(n, j) = find_page(m, j)
         /\ \A s \in Taken(m) : n.page[s] = m.page[s]
<1> DEFINE slot == m.next_free_page
           b == id % num_buckets
           fresh == [m.page[slot] EXCEPT !.id = id, !.initSet = {}]
<1>1. /\ slot \in 0 .. num_pages - 1 /\ m.num_free_pages = num_pages - slot
      /\ m.num_free_pages \in 1 .. num_pages /\ m \in MemType
  BY Consts DEF Good, Tables, MemType
<1>2. b \in Buckets /\ m.page_table[b] \in Seq(Slots) /\ slot \in Slots
  BY <1>1, BucketOf DEF MemType, Slots
<1>3. m.page[slot] \in PageType
  BY <1>1, <1>2 DEF MemType
<1>4. /\ n.next_free_page = slot + 1 /\ n.num_free_pages = m.num_free_pages - 1
      /\ n.page = [m.page EXCEPT ![slot] = fresh]
      /\ n.page_table = [m.page_table EXCEPT ![b] = << slot >> \o m.page_table[b]]
      /\ Frame(m, n) /\ n.dense = m.dense /\ n.status = m.status
  <2>1. /\ n.next_free_page = slot + 1 /\ n.num_free_pages = m.num_free_pages - 1
        /\ n.page_table = [m.page_table EXCEPT ![b] = << slot >> \o m.page_table[b]]
    BY <1>1 DEF TakePage, MemType
  <2>2. Frame(m, n) /\ n.dense = m.dense /\ n.status = m.status
    BY <1>1 DEF TakePage, MemType, Frame
  <2>3. n.page = [m.page EXCEPT ![slot] = fresh]
    BY <1>1 DEF TakePage, MemType
  <2> QED
    BY <2>1, <2>2, <2>3
<1>5. n \in MemType
  <2>1. fresh \in PageType
    BY <1>3 DEF PageType
  <2>2. n.page \in [Slots -> PageType]
    BY <1>1, <1>2, <1>4, <2>1 DEF MemType
  <2>3. n.page_table \in [Buckets -> Seq(Slots)]
    BY <1>1, <1>2, <1>4, Pushed DEF MemType
  <2>4. n.next_free_page \in 0 .. num_pages /\ n.num_free_pages \in 0 .. num_pages
    <3>1. num_pages \in Nat
      BY Consts
    <3>2. slot + 1 \in 0 .. num_pages /\ m.num_free_pages - 1 \in 0 .. num_pages
      BY <1>1, <3>1
    <3> QED
      BY <1>4, <3>2
  <2>5. n = [m EXCEPT !.next_free_page = n.next_free_page, !.num_free_pages = n.num_free_pages,
                      !.page = n.page, !.page_table = n.page_table]
    <3>1. n = [m EXCEPT !.next_free_page = m.next_free_page + 1,
                        !.num_free_pages = m.num_free_pages - 1,
                        !.page = [m.page EXCEPT ![slot] = fresh],
                        !.page_table = [m.page_table EXCEPT ![b] = << slot >> \o m.page_table[b]]]
      BY <1>1 DEF TakePage, MemType
    <3> QED
      BY <3>1, <1>1 DEF MemType
  <2> QED
    <3> QED
      BY <1>1, <2>2, <2>3, <2>4, <2>5 DEF MemType
<1>6. n.page[slot].id = id /\ n.page[slot].initSet = {}
  <2>1. fresh.id = id /\ fresh.initSet = {}
    BY <1>3 DEF PageType
  <2>2. n.page[slot] = fresh
    BY <1>1, <1>2, <1>4 DEF MemType
  <2> QED
    BY <2>1, <2>2
<1>7. \A s \in Taken(m) : s \in Slots /\ n.page[s] = m.page[s] /\ s # slot
  <2>1. \A s \in Taken(m) : s \in Slots /\ s # slot
    BY <1>1, Consts DEF Taken, Slots
  <2> QED
    BY <1>1, <1>4, <2>1 DEF MemType
<1>8. Taken(n) = Taken(m) \cup {slot}
  BY <1>1, <1>4 DEF Taken
<1>9. \A s \in Taken(m) : m.page[s].id # id
  BY FindPage DEF Taken, NIL
<1>10. Tables(n)
  <2>1. ASSUME NEW c \in Buckets, NEW k \in DOMAIN n.page_table[c]
        PROVE  /\ n.page_table[c][k] \in Taken(n)
               /\ n.page[n.page_table[c][k]].id % num_buckets = c
    <3>1. CASE c # b
      <4>1. n.page_table[c] = m.page_table[c]
        BY <1>1, <1>4, <3>1 DEF MemType
      <4>2. /\ m.page_table[c][k] \in Taken(m)
            /\ m.page[m.page_table[c][k]].id % num_buckets = c
        BY <2>1, <4>1 DEF Good, Tables
      <4> QED
        BY <4>1, <4>2, <1>7, <1>8
    <3>2. CASE c = b
      <4>1. n.page_table[c] = << slot >> \o m.page_table[b]
        BY <1>1, <1>2, <1>4, <3>2 DEF MemType
      <4>2. k = 1 \/ (k - 1 \in DOMAIN m.page_table[b]
                      /\ n.page_table[c][k] = m.page_table[b][k - 1])
        BY <1>2, <2>1, <4>1, Pushed
      <4>3. n.page_table[c][1] = slot
        BY <1>2, <4>1, Pushed
      <4>4. ASSUME NEW j \in DOMAIN m.page_table[b]
            PROVE  /\ m.page_table[b][j] \in Taken(m)
                   /\ m.page[m.page_table[b][j]].id % num_buckets = b
        BY <1>2 DEF Good, Tables
      <4> HIDE DEF slot
      <4>5. CASE k = 1
        BY <3>2, <4>3, <4>5, <1>6, <1>8
      <4>6. CASE k # 1
        <5>1. PICK s : s = n.page_table[c][k]
          OBVIOUS
        <5>2. s \in Taken(m) /\ m.page[s].id % num_buckets = b
          BY <4>2, <4>4, <4>6, <5>1
        <5>3. n.page[s].id % num_buckets = b /\ s \in Taken(n)
          BY <1>7, <1>8, <5>2
        <5> QED
          BY <3>2, <5>1, <5>3
      <4> QED
        BY <4>5, <4>6
    <3> QED
      BY <3>1, <3>2
  <2>2. ASSUME NEW s \in Taken(n)
        PROVE  \E k \in DOMAIN n.page_table[n.page[s].id % num_buckets] :
                 n.page_table[n.page[s].id % num_buckets][k] = s
    <3>1. n.page_table[b] = << slot >> \o m.page_table[b]
      BY <1>1, <1>2, <1>4 DEF MemType
    <3>2. CASE s = slot
      <4>1. n.page[s].id % num_buckets = b
        BY <1>6, <3>2
      <4>2. 1 \in DOMAIN n.page_table[b] /\ n.page_table[b][1] = slot
        BY <1>2, <3>1, Pushed
      <4> QED
        BY <3>2, <4>1, <4>2
    <3>3. CASE s \in Taken(m)
      <4> DEFINE c == m.page[s].id % num_buckets
      <4>1. PICK k \in DOMAIN m.page_table[c] : m.page_table[c][k] = s
        BY <3>3 DEF Good, Tables
      <4>2. c \in Buckets /\ n.page[s].id % num_buckets = c
        BY <1>1, <1>7, <3>3, BucketOf DEF MemType, PageType
      <4>3. CASE c # b
        <5>1. n.page_table[c] = m.page_table[c]
          BY <1>1, <1>4, <4>2, <4>3 DEF MemType
        <5> QED
          BY <4>1, <4>2, <5>1
      <4>4. CASE c = b
        <5>1. k + 1 \in DOMAIN n.page_table[b] /\ n.page_table[b][k + 1] = s
          BY <1>2, <3>1, <4>1, <4>4, Pushed
        <5> QED
          BY <4>2, <4>4, <5>1
      <4> QED
        BY <4>3, <4>4
    <3> QED
      BY <1>8, <3>2, <3>3
  <2>3. \A s, t \in Taken(n) : n.page[s].id = n.page[t].id => s = t
    <3> HIDE DEF slot
    <3> QED
      BY <1>6, <1>7, <1>8, <1>9 DEF Good, Tables
  <2>4. n.num_free_pages \in {0, num_pages - n.next_free_page}
    BY <1>1, <1>4, Consts
  <2> QED
    BY <2>1, <2>2, <2>3, <2>4 DEF Tables
<1>11. Good(n)
  BY <1>5, <1>10 DEF Good
<1>12. find_page(n, id) = slot
  BY <1>6, <1>8, <1>11, FoundPage
<1>13. ASSUME NEW j \in PageIds \ {id}
       PROVE  find_page(n, j) = find_page(m, j)
  <2>1. CASE find_page(m, j) = NIL /\ \A s \in Taken(m) : m.page[s].id # j
    <3>1. \A s \in Taken(n) : n.page[s].id # j
      BY <1>6, <1>7, <1>8, <2>1
    <3> QED
      BY <1>11, <2>1, <3>1, FindPage
  <2>2. CASE find_page(m, j) \in Taken(m) /\ m.page[find_page(m, j)].id = j
    <3>1. find_page(m, j) \in Taken(n) /\ n.page[find_page(m, j)].id = j
      BY <1>7, <1>8, <2>2
    <3> QED
      BY <1>11, <3>1, FoundPage
  <2> QED
    BY <2>1, <2>2, FindPage
<1> QED
  BY <1>4, <1>6, <1>7, <1>11, <1>12, <1>13

-----------------------------------------------------------------------------
(***************************************************************************)
(* The place of an address in its page; whether it has a page, the byte    *)
(* kept for it, and whether that byte was written. In the dense heap every *)
(* address has its byte, which starts as 0.                                *)
(***************************************************************************)
Offset(a) == a - page_start(page_id(a))

Paged(m, a) == m.sparse => find_page(m, page_id(a)) # NIL

Byte(m, a) ==
  IF m.sparse THEN m.page[find_page(m, page_id(a))].bytes[Offset(a)] ELSE m.dense[a]

Kept(m, a) ==
  m.sparse => /\ find_page(m, page_id(a)) # NIL
              /\ Offset(a) \in m.page[find_page(m, page_id(a))].initSet

(***************************************************************************)
(* The place of an address in its page is below the page size.             *)
(***************************************************************************)
LEMMA OffsetOf ==
  ASSUME NEW a \in Nat
  PROVE  Offset(a) \in Offsets
BY PageOf, Consts DEF Offset, Offsets

(***************************************************************************)
(* The slot of an address that has a page is taken by that page.           *)
(***************************************************************************)
LEMMA SlotOf ==
  ASSUME NEW m, Good(m), NEW a \in Addresses, find_page(m, page_id(a)) # NIL
  PROVE  /\ find_page(m, page_id(a)) \in Taken(m)
         /\ find_page(m, page_id(a)) \in Slots
         /\ m.page[find_page(m, page_id(a))] \in PageType
         /\ m.page[find_page(m, page_id(a))].id = page_id(a)
<1>1. a \in Nat /\ page_id(a) \in PageIds
  BY Consts, PageOf DEF Addresses
<1>2. find_page(m, page_id(a)) \in Taken(m) /\ m.page[find_page(m, page_id(a))].id = page_id(a)
  BY <1>1, FindPage
<1>3. Taken(m) \subseteq Slots
  BY Consts DEF Good, MemType, Taken, Slots
<1> QED
  BY <1>2, <1>3 DEF Good, MemType

(***************************************************************************)
(* The byte of an address that has a page is a byte.                       *)
(***************************************************************************)
LEMMA ByteType ==
  ASSUME NEW m, Good(m), NEW a \in Addresses, Paged(m, a)
  PROVE  Byte(m, a) \in Bytes
<1>1. a \in Nat
  BY Consts DEF Addresses
<1>2. CASE m.sparse
  BY <1>1, <1>2, SlotOf, OffsetOf DEF Paged, Byte, PageType
<1>3. CASE ~m.sparse
  BY <1>3 DEF Good, MemType, Byte
<1> QED
  BY <1>2, <1>3

(***************************************************************************)
(* The bytes of an access that lie in the page of addr.                    *)
(***************************************************************************)
Touched(addr, size) == {a \in addr .. addr + size - 1 : page_id(a) = page_id(addr)}

(***************************************************************************)
(* The places that get_mem marks or checks in the page of addr are those   *)
(* of the bytes that the access touches there.                             *)
(***************************************************************************)
LEMMA TouchedOffsets ==
  ASSUME NEW addr \in Addresses, NEW size \in Nat \ {0}, addr + size <= MaxHeap
  PROVE  /\ addr \in Touched(addr, size) /\ Touched(addr, size) \subseteq Addresses
         /\ Offsets \cap (Offset(addr) .. Offset(addr) + size - 1)
              = {Offset(a) : a \in Touched(addr, size)}
         /\ \A a \in Addresses : page_id(a) = page_id(addr) =>
              (Offset(a) \in Offset(addr) .. Offset(addr) + size - 1
                 <=> a \in Touched(addr, size))
<1> DEFINE s == page_start(page_id(addr))
<1>1. addr \in Nat /\ MaxHeap \in Nat /\ SPARSE_PAGE_SIZE \in Nat \ {0}
  BY Consts DEF Addresses
<1>2. s \in Nat /\ s <= addr /\ addr < s + SPARSE_PAGE_SIZE
  BY <1>1, PageOf
<1>3. addr \in Touched(addr, size) /\ Touched(addr, size) \subseteq Addresses
  BY <1>1 DEF Touched, Addresses
<1>4. ASSUME NEW a \in Addresses, page_id(a) = page_id(addr)
      PROVE  /\ Offset(a) \in Offset(addr) .. Offset(addr) + size - 1
                  <=> a \in Touched(addr, size)
             /\ Offset(a) = a - s /\ Offset(a) \in Offsets
  <2>1. a \in Nat /\ Offset(a) = a - s /\ Offset(addr) = addr - s
    BY <1>1, <1>4 DEF Addresses, Offset
  <2>2. Offset(a) \in Offsets
    BY <2>1, OffsetOf
  <2>3. Offset(a) \in Offset(addr) .. Offset(addr) + size - 1 <=> a \in addr .. addr + size - 1
    <3> HIDE DEF s
    <3> QED
      BY <1>1, <1>2, <2>1
  <2> QED
    BY <1>4, <2>1, <2>2, <2>3 DEF Touched
<1>5. ASSUME NEW o \in Offsets, o \in Offset(addr) .. Offset(addr) + size - 1
      PROVE  s + o \in Touched(addr, size) /\ Offset(s + o) = o
  <2>1. o \in Nat /\ o < SPARSE_PAGE_SIZE /\ Offset(addr) = addr - s
    BY <1>1 DEF Offsets, Offset
  <2>2. s + o \in Nat /\ s + o \in addr .. addr + size - 1
    <3> HIDE DEF s
    <3> QED
      BY <1>1, <1>2, <1>5, <2>1
  <2>3. page_id(s + o) = page_id(addr)
    BY <1>1, <1>2, <2>1, <2>2, SamePage
  <2> QED
    BY <2>1, <2>2, <2>3, <1>2 DEF Touched, Offset
<1>6. Offsets \cap (Offset(addr) .. Offset(addr) + size - 1)
        = {Offset(a) : a \in Touched(addr, size)}
  <2>1. ASSUME NEW a \in Touched(addr, size)
        PROVE  Offset(a) \in Offsets \cap (Offset(addr) .. Offset(addr) + size - 1)
    BY <1>3, <1>4 DEF Touched
  <2> HIDE DEF s
  <2> QED
    BY <1>5, <2>1
<1> QED
  BY <1>3, <1>4, <1>6

(***************************************************************************)
(* The soundness of the page table depends on the pages and the table.     *)
(***************************************************************************)
LEMMA TablesAlike ==
  ASSUME NEW m, Tables(m), NEW n, n.page_table = m.page_table, n.page = m.page,
         n.next_free_page = m.next_free_page, n.num_free_pages = m.num_free_pages
  PROVE  Tables(n) /\ Taken(n) = Taken(m)
<1>1. Taken(n) = Taken(m)
  BY DEF Taken
<1>2. /\ \A b \in Buckets : \A k \in DOMAIN n.page_table[b] :
           /\ n.page_table[b][k] \in Taken(n)
           /\ n.page[n.page_table[b][k]].id % num_buckets = b
      /\ n.num_free_pages \in {0, num_pages - n.next_free_page}
  BY <1>1 DEF Tables
<1>3. ASSUME NEW s \in Taken(n)
      PROVE  \E k \in DOMAIN n.page_table[n.page[s].id % num_buckets] :
               n.page_table[n.page[s].id % num_buckets][k] = s
  BY <1>1, <1>3 DEF Tables
<1>4. \A s, t \in Taken(n) : n.page[s].id = n.page[t].id => s = t
  BY <1>1 DEF Tables
<1> QED
  BY <1>1, <1>2, <1>3, <1>4 DEF Tables

(***************************************************************************)
(* A new content of a taken page, for the same page of the heap, keeps the *)
(* table sound and changes no other page.                                  *)
(***************************************************************************)
LEMMA PageChanged ==
  ASSUME NEW m, Good(m), NEW p \in Taken(m), NEW q \in PageType,
         q.id = m.page[p].id, NEW n, n = [m EXCEPT !.page[p] = q]
  PROVE  /\ Good(n) /\ Frame(m, n) /\ n.dense = m.dense /\ n.status = m.status
         /\ \A id \in PageIds : find_page(n, id) = find_page(m, id)
         /\ n.page[p] = q /\ \A s \in Slots : s # p => n.page[s] = m.page[s]
         /\ n.num_free_pages = m.num_free_pages
<1>1. m \in MemType /\ p \in Slots /\ Taken(m) \subseteq Slots
  BY Consts DEF Good, MemType, Taken, Slots
<1>2. /\ n = [m EXCEPT !.page = n.page] /\ n.page = [m.page EXCEPT ![p] = q]
      /\ Frame(m, n) /\ n.dense = m.dense /\ n.status = m.status
      /\ n.page_table = m.page_table /\ n.next_free_page = m.next_free_page
      /\ n.num_free_pages = m.num_free_pages
  BY <1>1 DEF MemType, Frame
<1>3. n.page[p] = q /\ \A s \in Slots : s # p => n.page[s] = m.page[s]
  BY <1>1, <1>2 DEF MemType
<1>4. n \in MemType
  <2>1. n.page \in [Slots -> PageType]
    BY <1>1, <1>2 DEF MemType
  <2> QED
    BY <1>1, <1>2, <2>1 DEF MemType
<1>5. \A s \in Slots : n.page[s].id = m.page[s].id
  BY <1>3
<1>6. Taken(n) = Taken(m)
  BY <1>2 DEF Taken
<1>7. Tables(n)
  <2>1. \A b \in Buckets : \A k \in DOMAIN n.page_table[b] :
          /\ n.page_table[b][k] \in Taken(n)
          /\ n.page[n.page_table[b][k]].id % num_buckets = b
    <3> SUFFICES ASSUME NEW b \in Buckets, NEW k \in DOMAIN m.page_table[b]
                 PROVE  /\ m.page_table[b][k] \in Taken(m)
                        /\ n.page[m.page_table[b][k]].id % num_buckets = b
      BY <1>2, <1>6
    <3>1. /\ m.page_table[b][k] \in Taken(m)
          /\ m.page[m.page_table[b][k]].id % num_buckets = b
      BY DEF Good, Tables
    <3> QED
      BY <1>1, <1>5, <3>1
  <2>2. \A s \in Taken(n) : \E k \in DOMAIN n.page_table[n.page[s].id % num_buckets] :
          n.page_table[n.page[s].id % num_buckets][k] = s
    <3> SUFFICES ASSUME NEW s \in Taken(m)
                 PROVE  \E k \in DOMAIN n.page_table[n.page[s].id % num_buckets] :
                          n.page_table[n.page[s].id % num_buckets][k] = s
      BY <1>6
    <3>1. n.page[s].id = m.page[s].id
      BY <1>1, <1>5
    <3>2. \E k \in DOMAIN m.page_table[m.page[s].id % num_buckets] :
            m.page_table[m.page[s].id % num_buckets][k] = s
      BY DEF Good, Tables
    <3> QED
      BY <1>2, <3>1, <3>2
  <2>3. \A s, t \in Taken(n) : n.page[s].id = n.page[t].id => s = t
    BY <1>1, <1>5, <1>6 DEF Good, Tables
  <2>4. n.num_free_pages \in {0, num_pages - n.next_free_page}
    BY <1>2 DEF Good, Tables
  <2> QED
    BY <2>1, <2>2, <2>3, <2>4 DEF Tables
<1>8. Good(n)
  BY <1>4, <1>7 DEF Good
<1>9. ASSUME NEW id \in PageIds
      PROVE  find_page(n, id) = find_page(m, id)
  <2>1. CASE find_page(m, id) = NIL /\ \A s \in Taken(m) : m.page[s].id # id
    <3>1. \A s \in Taken(n) : n.page[s].id # id
      BY <1>1, <1>5, <1>6, <2>1
    <3> QED
      BY <1>8, <2>1, <3>1, FindPage
  <2>2. CASE find_page(m, id) \in Taken(m) /\ m.page[find_page(m, id)].id = id
    <3>1. find_page(m, id) \in Taken(n) /\ n.page[find_page(m, id)].id = id
      BY <1>1, <1>5, <1>6, <2>2
    <3> QED
      BY <1>8, <3>1, FoundPage
  <2> QED
    BY <2>1, <2>2, FindPage
<1> QED
  BY <1>2, <1>3, <1>8, <1>9

(***************************************************************************)
(* Setting the status alone changes nothing else.                          *)
(***************************************************************************)
LEMMA StatusChanged ==
  ASSUME NEW m, Good(m), NEW status \in {"run", "exit", "abort", "fault"},
         NEW n, n = [m EXCEPT !.status = status]
  PROVE  /\ Good(n) /\ Frame(m, n) /\ n.dense = m.dense /\ n.status = status
         /\ n.page = m.page /\ n.page_table = m.page_table
         /\ n.num_free_pages = m.num_free_pages
         /\ \A id \in PageIds : find_page(n, id) = find_page(m, id)
<1>1. m \in MemType /\ Tables(m)
  BY DEF Good
<1>2. /\ n \in MemType /\ n.status = status /\ n.dense = m.dense /\ n.page = m.page
      /\ n.page_table = m.page_table /\ n.num_free_pages = m.num_free_pages
      /\ n.next_free_page = m.next_free_page /\ Frame(m, n)
  BY <1>1 DEF MemType, Frame
<1>3. Tables(n)
  BY <1>1, <1>2, TablesAlike
<1>4. \A id \in PageIds : find_page(n, id) = find_page(m, id)
  <2>1. Good(n) /\ Taken(n) = Taken(m)
    BY <1>2, <1>3 DEF Good, Taken
  <2>2. ASSUME NEW id \in PageIds
        PROVE  find_page(n, id) = find_page(m, id)
    <3>1. CASE find_page(m, id) = NIL /\ \A s \in Taken(m) : m.page[s].id # id
      <4>1. \A s \in Taken(n) : n.page[s].id # id
        BY <1>2, <2>1, <3>1
      <4> QED
        BY <2>1, <3>1, <4>1, FindPage
    <3>2. CASE find_page(m, id) \in Taken(m) /\ m.page[find_page(m, id)].id = id
      <4>1. find_page(m, id) \in Taken(n) /\ n.page[find_page(m, id)].id = id
        BY <1>2, <2>1, <3>2
      <4> QED
        BY <2>1, <4>1, FoundPage
    <3> QED
      BY <3>1, <3>2, FindPage
  <2> QED
    BY <2>2
<1> QED
  BY <1>2, <1>3, <1>4 DEF Good

(***************************************************************************)
(* PageIn gives the page of addr if it has one or a page is free, and      *)
(* changes neither the byte of an address that had a page nor what counts  *)
(* as written.                                                             *)
(***************************************************************************)
LEMMA PageProvided ==
  ASSUME NEW m, Good(m), m.sparse, m.status = "run", NEW addr \in Addresses,
         NEW n, n = PageIn(m, page_id(addr))
  PROVE  /\ Good(n) /\ Frame(m, n) /\ n.dense = m.dense
         /\ n.status \in {"run", "exit"}
         /\ n.status = "run" <=> Paged(m, addr) \/ m.num_free_pages # 0
         /\ \A a \in Addresses :
              /\ Paged(n, a) <=> \/ Paged(m, a)
                                 \/ n.status = "run" /\ page_id(a) = page_id(addr)
              /\ Paged(m, a) => Byte(n, a) = Byte(m, a)
              /\ Kept(n, a) <=> Kept(m, a)
<1> DEFINE id == page_id(addr)
<1>1. id \in PageIds /\ \A a \in Addresses : page_id(a) \in PageIds
  BY Consts, PageOf DEF Addresses
<1>2. CASE find_page(m, id) # NIL
  <2>1. n = m
    BY <1>2 DEF PageIn
  <2> QED
    BY <1>2, <2>1 DEF Frame, Paged
<1>3. CASE find_page(m, id) = NIL /\ m.num_free_pages = 0
  <2>1. n = [m EXCEPT !.status = "exit"]
    BY <1>3 DEF PageIn
  <2>2. /\ Good(n) /\ Frame(m, n) /\ n.dense = m.dense /\ n.status = "exit"
        /\ n.page = m.page /\ \A j \in PageIds : find_page(n, j) = find_page(m, j)
    BY <2>1, StatusChanged
  <2> QED
    BY <1>1, <1>3, <2>2 DEF Frame, Paged, Byte, Kept
<1>4. CASE find_page(m, id) = NIL /\ m.num_free_pages # 0
  <2>1. n = TakePage(m, id)
    BY <1>4 DEF PageIn
  <2>2. /\ Good(n) /\ Frame(m, n) /\ n.dense = m.dense /\ n.status = "run"
        /\ find_page(n, id) = m.next_free_page
        /\ n.page[m.next_free_page].initSet = {}
        /\ \A j \in PageIds \ {id} : find_page(n, j) = find_page(m, j)
        /\ \A s \in Taken(m) : n.page[s] = m.page[s]
    BY <1>1, <1>4, <2>1, PageTaken
  <2>3. m.next_free_page # NIL
    BY DEF Good, MemType, NIL
  <2> HIDE DEF id
  <2>4. ASSUME NEW a \in Addresses
        PROVE  /\ Paged(n, a) <=> Paged(m, a) \/ page_id(a) = id
               /\ Paged(m, a) => Byte(n, a) = Byte(m, a)
               /\ Kept(n, a) <=> Kept(m, a)
    <3>1. CASE page_id(a) = id
      BY <1>4, <2>2, <2>3, <3>1 DEF Frame, Paged, Kept
    <3>2. CASE page_id(a) # id
      <4>1. find_page(n, page_id(a)) = find_page(m, page_id(a))
        BY <1>1, <2>2, <3>2
      <4>2. find_page(m, page_id(a)) # NIL => find_page(m, page_id(a)) \in Taken(m)
        BY SlotOf
      <4> QED
        BY <2>2, <3>2, <4>1, <4>2 DEF Frame, Paged, Byte, Kept
    <3> QED
      BY <3>1, <3>2
  <2> QED
    BY <1>4, <2>2, <2>4 DEF id
<1> QED
  BY <1>2, <1>3, <1>4

(***************************************************************************)
(* get_mem as mem_read and as mem_write call it.                           *)
(***************************************************************************)
ReadAccess(m, addr, size) == get_mem(m, addr, size, FALSE)
WriteAccess(m, addr, size) == get_mem(m, addr, size, TRUE)

(***************************************************************************)
(* An access to read goes through if there is a page for it and, when      *)
(* checked, all its bytes in this page were written; it writes nothing.    *)
(***************************************************************************)
LEMMA GetToRead ==
  ASSUME NEW m, Good(m), m.sparse, m.status = "run",
         NEW addr \in Addresses, NEW size \in Nat \ {0}, addr + size <= MaxHeap,
         NEW n, n = ReadAccess(m, addr, size)
  PROVE  /\ Good(n) /\ Frame(m, n) /\ n.status \in {"run", "exit", "abort"}
         /\ n.status = "run" <=>
              /\ Paged(m, addr) \/ m.num_free_pages # 0
              /\ m.checkUB => \A a \in Touched(addr, size) : Kept(m, a)
         /\ \A a \in Addresses :
              /\ Paged(m, a) => Paged(n, a) /\ Byte(n, a) = Byte(m, a)
              /\ n.status = "run" /\ page_id(a) = page_id(addr) => Paged(n, a)
              /\ Kept(n, a) <=> Kept(m, a)
<1> DEFINE id == page_id(addr)
           m1 == PageIn(m, id)
           p == find_page(m1, id)
           touched == Offsets \cap (Offset(addr) .. Offset(addr) + size - 1)
<1>1. id \in PageIds /\ \A a \in Addresses : a \in Nat /\ page_id(a) \in PageIds
  BY Consts, PageOf DEF Addresses
<1>2. n = IF m1.status # "run" THEN m1
          ELSE IF m1.checkUB /\ ~(touched \subseteq m1.page[p].initSet)
          THEN [m1 EXCEPT !.status = "abort"]
          ELSE m1
  BY DEF ReadAccess, get_mem, Offset
<1>3. /\ Good(m1) /\ Frame(m, m1) /\ m1.dense = m.dense
      /\ m1.status \in {"run", "exit"}
      /\ m1.status = "run" <=> Paged(m, addr) \/ m.num_free_pages # 0
  BY PageProvided
<1>4. \A a \in Addresses :
         /\ Paged(m1, a) <=> \/ Paged(m, a)
                             \/ m1.status = "run" /\ page_id(a) = page_id(addr)
         /\ Paged(m, a) => Byte(m1, a) = Byte(m, a)
         /\ Kept(m1, a) <=> Kept(m, a)
  BY PageProvided
<1> HIDE DEF m1
<1>5. CASE m1.status # "run"
  BY <1>2, <1>3, <1>4, <1>5
<1>6. CASE m1.status = "run"
  <2>1. Paged(m1, addr) /\ m1.sparse /\ m1.checkUB = m.checkUB
    BY <1>3, <1>4, <1>6 DEF Frame
  <2>2. p \in Taken(m1) /\ p \in Slots /\ m1.page[p] \in PageType /\ m1.page[p].id = id
    BY <1>3, <2>1, SlotOf DEF Paged
  <2>3. touched = {Offset(a) : a \in Touched(addr, size)}
    BY TouchedOffsets
  <2>4. \A a \in Touched(addr, size) : a \in Addresses /\ page_id(a) = id
    BY TouchedOffsets DEF Touched
  <2>5. touched \subseteq m1.page[p].initSet <=> \A a \in Touched(addr, size) : Kept(m, a)
    <3>1. \A a \in Touched(addr, size) : Kept(m, a) <=> Offset(a) \in m1.page[p].initSet
      BY <1>4, <2>1, <2>2, <2>4 DEF Kept, Paged
    <3> HIDE DEF touched, p
    <3> QED
      BY <2>3, <3>1
  <2>7. CASE m1.checkUB /\ ~(touched \subseteq m1.page[p].initSet)
    <3>1. n = [m1 EXCEPT !.status = "abort"]
      BY <1>2, <1>6, <2>7
    <3>2. /\ Good(n) /\ Frame(m1, n) /\ n.dense = m1.dense /\ n.status = "abort"
          /\ n.page = m1.page /\ \A j \in PageIds : find_page(n, j) = find_page(m1, j)
      BY <1>3, <3>1, StatusChanged
    <3>3. \A a \in Addresses : /\ Paged(n, a) <=> Paged(m1, a)
                               /\ Byte(n, a) = Byte(m1, a)
                               /\ Kept(n, a) <=> Kept(m1, a)
      BY <1>1, <3>2 DEF Frame, Paged, Byte, Kept
    <3>4. Frame(m, n)
      BY <1>3, <3>2 DEF Frame
    <3> QED
      BY <1>3, <1>4, <1>6, <2>1, <2>5, <2>7, <3>2, <3>3, <3>4
  <2>8. CASE ~ (m1.checkUB /\ ~(touched \subseteq m1.page[p].initSet))
    <3>1. n = m1
      BY <1>2, <1>6, <2>8
    <3> QED
      BY <1>3, <1>4, <1>6, <2>1, <2>5, <2>8, <3>1
  <2> QED
    BY <2>7, <2>8
<1> QED
  BY <1>5, <1>6

(***************************************************************************)
(* An access to write that goes through marks exactly its bytes in this    *)
(* page as written, and changes no byte yet.                               *)
(***************************************************************************)
LEMMA GetToWrite ==
  ASSUME NEW m, Good(m), m.sparse, m.status = "run",
         NEW addr \in Addresses, NEW size \in Nat \ {0}, addr + size <= MaxHeap,
         NEW n, n = WriteAccess(m, addr, size)
  PROVE  /\ Good(n) /\ Frame(m, n) /\ n.status \in {"run", "exit", "abort"}
         /\ \A a \in Addresses :
              /\ Paged(m, a) => Paged(n, a) /\ Byte(n, a) = Byte(m, a)
              /\ n.status = "run" /\ page_id(a) = page_id(addr) => Paged(n, a)
              /\ Kept(n, a) <=> \/ Kept(m, a)
                                \/ n.status = "run" /\ a \in Touched(addr, size)
<1> DEFINE id == page_id(addr)
           m1 == PageIn(m, id)
           p == find_page(m1, id)
           touched == Offsets \cap (Offset(addr) .. Offset(addr) + size - 1)
<1>1. id \in PageIds /\ \A a \in Addresses : a \in Nat /\ page_id(a) \in PageIds
  BY Consts, PageOf DEF Addresses
<1>2. n = IF m1.status # "run" THEN m1
          ELSE [m1 EXCEPT !.page[p].initSet = @ \cup touched]
  BY DEF WriteAccess, get_mem, Offset
<1>3. /\ Good(m1) /\ Frame(m, m1) /\ m1.dense = m.dense
      /\ m1.status \in {"run", "exit"}
      /\ m1.status = "run" <=> Paged(m, addr) \/ m.num_free_pages # 0
  BY PageProvided
<1>4. \A a \in Addresses :
         /\ Paged(m1, a) <=> \/ Paged(m, a)
                             \/ m1.status = "run" /\ page_id(a) = page_id(addr)
         /\ Paged(m, a) => Byte(m1, a) = Byte(m, a)
         /\ Kept(m1, a) <=> Kept(m, a)
  BY PageProvided
<1> HIDE DEF m1
<1>5. CASE m1.status # "run"
  BY <1>2, <1>3, <1>4, <1>5
<1>6. CASE m1.status = "run"
  <2>1. Paged(m1, addr) /\ m1.sparse /\ m1.checkUB = m.checkUB
    BY <1>3, <1>4, <1>6 DEF Frame
  <2>2. p \in Taken(m1) /\ p \in Slots /\ m1.page[p] \in PageType /\ m1.page[p].id = id
    BY <1>3, <2>1, SlotOf DEF Paged
  <2>3. touched = {Offset(a) : a \in Touched(addr, size)}
    BY TouchedOffsets
  <2>4. \A a \in Touched(addr, size) : a \in Addresses /\ page_id(a) = id
    BY TouchedOffsets DEF Touched
  <2>6. CASE TRUE
    <3> DEFINE q == [m1.page[p] EXCEPT !.initSet = @ \cup touched]
    <3>1. n = [m1 EXCEPT !.page[p] = q]
      BY <1>2, <1>6, <2>6
    <3>2. q \in PageType /\ q.id = m1.page[p].id /\ q.bytes = m1.page[p].bytes
          /\ q.initSet = m1.page[p].initSet \cup touched
      BY <2>2 DEF PageType
    <3> HIDE DEF q
    <3>3. /\ Good(n) /\ Frame(m1, n) /\ n.dense = m1.dense /\ n.status = m1.status
          /\ \A j \in PageIds : find_page(n, j) = find_page(m1, j)
          /\ n.page[p] = q /\ \A s \in Slots : s # p => n.page[s] = m1.page[s]
      BY <1>3, <2>2, <3>1, <3>2, PageChanged
    <3>4. ASSUME NEW a \in Addresses
          PROVE  /\ Paged(n, a) <=> Paged(m1, a)
                 /\ Paged(m1, a) => Byte(n, a) = Byte(m1, a)
                 /\ Kept(n, a) <=> Kept(m1, a) \/ a \in Touched(addr, size)
      <4>1. n.sparse /\ m1.sparse /\ find_page(n, page_id(a)) = find_page(m1, page_id(a))
        BY <1>1, <2>1, <3>3 DEF Frame
      <4>2. CASE page_id(a) = id
        <5>1. find_page(m1, page_id(a)) = p /\ p # NIL
          BY <2>1, <4>2 DEF Paged
        <5>2. Offset(a) \in touched <=> a \in Touched(addr, size)
          <6>1. Offset(a) \in Offsets
            BY <1>1, OffsetOf
          <6> QED
            BY <4>2, <6>1, TouchedOffsets
        <5> HIDE DEF p, touched, id
        <5> QED
          BY <3>2, <3>3, <4>1, <4>2, <5>1, <5>2 DEF Paged, Byte, Kept
      <4>3. CASE page_id(a) # id
        <5>1. a \notin Touched(addr, size)
          BY <4>3 DEF Touched
        <5>2. find_page(m1, page_id(a)) # NIL =>
                find_page(m1, page_id(a)) \in Slots /\ find_page(m1, page_id(a)) # p
          BY <1>3, <2>2, <4>3, SlotOf
        <5>3. find_page(m1, page_id(a)) # NIL =>
                n.page[find_page(m1, page_id(a))] = m1.page[find_page(m1, page_id(a))]
          BY <3>3, <5>2
        <5> QED
          BY <4>1, <5>1, <5>3 DEF Paged, Byte, Kept
      <4> QED
        BY <4>2, <4>3
    <3>5. Frame(m, n)
      BY <1>3, <3>3 DEF Frame
    <3> QED
      BY <1>3, <1>4, <1>6, <2>6, <3>3, <3>4, <3>5
  <2> QED
    BY <2>6
<1> QED
  BY <1>5, <1>6

-----------------------------------------------------------------------------
(***************************************************************************)
(* Addresses up to the end of a page follow each other in it.              *)
(***************************************************************************)
LEMMA NearAddress ==
  ASSUME NEW addr \in Addresses, NEW a \in Nat, addr <= a, a < addr + Rest(addr)
  PROVE  page_id(a) = page_id(addr) /\ Offset(a) = Offset(addr) + (a - addr)
<1>1. addr \in Nat /\ SPARSE_PAGE_SIZE \in Nat \ {0}
  BY Consts DEF Addresses
<1>2. page_start(page_id(addr)) \in Nat /\ page_start(page_id(addr)) <= addr
  BY <1>1, PageOf
<1>3. a < addr + SPARSE_PAGE_SIZE
  BY <1>1, <1>2 DEF Rest
<1>4. page_id(a) = page_id(addr)
  BY <1>1, <1>3, Split
<1> QED
  BY <1>1, <1>2, <1>4 DEF Offset

(***************************************************************************)
(* The bytes loaded from a page are those kept for the addresses.          *)
(***************************************************************************)
LEMMA LoadBytes ==
  ASSUME NEW m, Good(m), m.sparse, NEW addr \in Addresses, NEW k \in Nat,
         k <= Rest(addr)
  PROVE  PageBytes(m, addr, k) = [j \in 1 .. k |-> Byte(m, addr + j - 1)]
<1>1. addr \in Nat /\ Rest(addr) \in Nat
  <2>1. addr \in Nat /\ SPARSE_PAGE_SIZE \in Nat \ {0}
    BY Consts DEF Addresses
  <2> QED
    BY <2>1, Split
<1>2. ASSUME NEW j \in 1 .. k
      PROVE  m.page[find_page(m, page_id(addr))].bytes[addr - page_start(page_id(addr)) + j - 1]
               = Byte(m, addr + j - 1)
  <2>1. addr + j - 1 \in Nat /\ addr <= addr + j - 1 /\ addr + j - 1 < addr + Rest(addr)
    BY <1>1
  <2>2. /\ page_id(addr + j - 1) = page_id(addr)
        /\ Offset(addr + j - 1) = Offset(addr) + ((addr + j - 1) - addr)
    BY <2>1, NearAddress
  <2>3. Offset(addr) \in Int
    BY <1>1, OffsetOf DEF Offsets
  <2>4. Offset(addr + j - 1) = addr - page_start(page_id(addr)) + j - 1
    BY <1>1, <2>2, <2>3, PageOf DEF Offset
  <2> QED
    BY <2>2, <2>4 DEF Byte
<1> QED
  BY <1>2 DEF PageBytes

(***************************************************************************)
(* A store within one page changes the bytes of its addresses and no       *)
(* other.                                                                  *)
(***************************************************************************)
LEMMA StoreBytes ==
  ASSUME NEW m, Good(m), m.sparse, m.status = "run", NEW addr \in Addresses,
         Paged(m, addr), NEW val \in Seq(Bytes), Len(val) <= Rest(addr),
         NEW n, n = PutPageBytes(m, addr, val)
  PROVE  /\ Good(n) /\ Frame(m, n) /\ n.dense = m.dense /\ n.status = "run"
         /\ n.num_free_pages = m.num_free_pages
         /\ \A a \in Addresses :
              /\ Paged(n, a) <=> Paged(m, a)
              /\ Kept(n, a) <=> Kept(m, a)
              /\ a \in addr .. addr + Len(val) - 1 => Byte(n, a) = val[a - addr + 1]
              /\ a \notin addr .. addr + Len(val) - 1 /\ Paged(m, a)
                   => Byte(n, a) = Byte(m, a)
<1> DEFINE id == page_id(addr)
           p == find_page(m, id)
           first == addr - page_start(id)
           q == [m.page[p] EXCEPT !.bytes = [o \in Offsets |->
                       IF o \in first .. first + Len(val) - 1
                       THEN val[o - first + 1] ELSE m.page[p].bytes[o]]]
<1>1. n = [m EXCEPT !.page[p] = q]
  BY DEF PutPageBytes
<1>2. p \in Taken(m) /\ p \in Slots /\ m.page[p] \in PageType /\ m.page[p].id = id
  BY SlotOf DEF Paged
<1>3. addr \in Nat /\ id \in PageIds /\ \A a \in Addresses : a \in Nat /\ page_id(a) \in PageIds
  BY Consts, PageOf DEF Addresses
<1>4. first = Offset(addr) /\ first \in Offsets /\ first \in Nat
  BY <1>3, OffsetOf DEF Offset, Offsets
<1>5. q \in PageType /\ q.id = id /\ q.initSet = m.page[p].initSet
      /\ \A o \in Offsets : q.bytes[o] = IF o \in first .. first + Len(val) - 1
                                         THEN val[o - first + 1] ELSE m.page[p].bytes[o]
  <2>1. ASSUME NEW o \in Offsets
        PROVE  (IF o \in first .. first + Len(val) - 1
                THEN val[o - first + 1] ELSE m.page[p].bytes[o]) \in Bytes
    <3>1. o \in Nat
      BY DEF Offsets
    <3>2. o \in first .. first + Len(val) - 1 => o - first + 1 \in 1 .. Len(val)
      <4> HIDE DEF first
      <4> QED
        BY <1>4, <3>1
    <3> QED
      BY <1>2, <3>2 DEF PageType
  <2> HIDE DEF first, p
  <2> QED
    BY <1>2, <2>1 DEF PageType
<1> HIDE DEF q
<1>6. /\ Good(n) /\ Frame(m, n) /\ n.dense = m.dense /\ n.status = m.status
      /\ \A j \in PageIds : find_page(n, j) = find_page(m, j)
      /\ n.page[p] = q /\ \A s \in Slots : s # p => n.page[s] = m.page[s]
      /\ n.num_free_pages = m.num_free_pages
  BY <1>1, <1>2, <1>5, PageChanged
<1>7. ASSUME NEW a \in Addresses
      PROVE  /\ Paged(n, a) <=> Paged(m, a)
             /\ Kept(n, a) <=> Kept(m, a)
             /\ a \in addr .. addr + Len(val) - 1 => Byte(n, a) = val[a - addr + 1]
             /\ a \notin addr .. addr + Len(val) - 1 /\ Paged(m, a)
                  => Byte(n, a) = Byte(m, a)
  <2>1. n.sparse /\ find_page(n, page_id(a)) = find_page(m, page_id(a))
    BY <1>3, <1>6 DEF Frame
  <2>2. CASE page_id(a) = id
    <3>1. find_page(m, page_id(a)) = p /\ p # NIL
      BY <2>2 DEF Paged
    <3>2. Offset(a) = first + (a - addr) /\ Offset(a) \in Offsets
      <4>1. Offset(a) = a - page_start(id) /\ a \in Nat /\ page_start(id) \in Nat
        BY <1>3, <2>2, PageOf DEF Offset
      <4> QED
        BY <1>3, <4>1, OffsetOf
    <3>3. Byte(n, a) = q.bytes[Offset(a)] /\ Byte(m, a) = m.page[p].bytes[Offset(a)]
      BY <1>6, <2>1, <3>1 DEF Byte
    <3>4. Kept(n, a) <=> Kept(m, a)
      BY <1>5, <1>6, <2>1, <3>1 DEF Kept
    <3>5. a \in addr .. addr + Len(val) - 1 <=> Offset(a) \in first .. first + Len(val) - 1
      <4> HIDE DEF first
      <4> QED
        BY <1>3, <1>4, <3>2
    <3>6. Offset(a) - first + 1 = a - addr + 1
      <4> HIDE DEF first
      <4> QED
        BY <1>3, <1>4, <3>2
    <3> HIDE DEF first, p, id
    <3> QED
      BY <1>5, <2>1, <3>1, <3>2, <3>3, <3>4, <3>5, <3>6 DEF Paged
  <2>3. CASE page_id(a) # id
    <3>1. a \notin addr .. addr + Len(val) - 1
      <4>1. a \in addr .. addr + Len(val) - 1 => a < addr + Rest(addr)
        <5>1. Rest(addr) \in Nat
          BY <1>3, Split, Consts
        <5> QED
          BY <1>3, <5>1
      <4> QED
        BY <1>3, <2>3, <4>1, NearAddress
    <3>2. find_page(m, page_id(a)) # NIL =>
            find_page(m, page_id(a)) \in Slots /\ find_page(m, page_id(a)) # p
      BY <1>2, <2>3, SlotOf
    <3>3. find_page(m, page_id(a)) # NIL =>
            n.page[find_page(m, page_id(a))] = m.page[find_page(m, page_id(a))]
      BY <1>6, <3>2
    <3> HIDE DEF p
    <3> QED
      BY <2>1, <3>1, <3>3 DEF Paged, Byte, Kept
  <2> QED
    BY <2>2, <2>3
<1> QED
  BY <1>6, <1>7

-----------------------------------------------------------------------------
(***************************************************************************)
(* The addresses of an access, and whether memlib.c can perform it at all. *)
(***************************************************************************)
Stretch(addr, len) == addr .. addr + len - 1
Usable(m, addr, len) == Emulated(m, addr, len) \/ Accessible(m, addr, len)

(***************************************************************************)
(* An access of a word lies in one page or, split at Rest(addr), in two.   *)
(***************************************************************************)
LEMMA TouchedParts ==
  ASSUME NEW addr \in Addresses, NEW len \in 1 .. WordSize, addr + len <= MaxHeap
  PROVE  /\ Rest(addr) \in Nat \ {0} /\ Stretch(addr, len) \subseteq Addresses
         /\ len <= Rest(addr) => /\ Touched(addr, len) = Stretch(addr, len)
                                 /\ \A a \in Stretch(addr, len) : page_id(a) = page_id(addr)
         /\ Rest(addr) < len =>
              /\ addr + Rest(addr) \in Addresses
              /\ Touched(addr, len) = Stretch(addr, Rest(addr))
              /\ Touched(addr + Rest(addr), len - Rest(addr))
                   = Stretch(addr + Rest(addr), len - Rest(addr))
              /\ len - Rest(addr) <= Rest(addr + Rest(addr))
              /\ \A a \in Stretch(addr, len) :
                   page_id(a) \in {page_id(addr), page_id(addr + Rest(addr))}
<1> DEFINE n == addr + Rest(addr)
<1>1. /\ addr \in Nat /\ SPARSE_PAGE_SIZE \in Nat \ {0} /\ len \in Nat
      /\ len <= SPARSE_PAGE_SIZE /\ MaxHeap \in Nat
  BY Consts, MemlibAssumption DEF Addresses
<1>2. Rest(addr) \in 1 .. SPARSE_PAGE_SIZE /\ page_start(page_id(n)) = n
  BY <1>1, Split
<1>3. Stretch(addr, len) \subseteq Addresses
  BY <1>1 DEF Stretch, Addresses
<1>4. ASSUME NEW a \in Stretch(addr, len)
      PROVE  /\ a < n => page_id(a) = page_id(addr)
             /\ n <= a => page_id(a) = page_id(n) /\ page_id(a) # page_id(addr)
  <2>1. a \in Nat /\ addr <= a /\ a < addr + SPARSE_PAGE_SIZE
    BY <1>1 DEF Stretch
  <2> QED
    BY <1>1, <2>1, Split
<1>5. ASSUME len <= Rest(addr)
      PROVE  /\ Touched(addr, len) = Stretch(addr, len)
             /\ \A a \in Stretch(addr, len) : page_id(a) = page_id(addr)
  <2>1. \A a \in Stretch(addr, len) : a < n
    BY <1>1, <1>2, <1>5 DEF Stretch
  <2> HIDE DEF n
  <2>2. \A a \in Stretch(addr, len) : page_id(a) = page_id(addr)
    BY <1>4, <2>1
  <2> QED
    BY <2>2 DEF Touched, Stretch
<1>6. ASSUME Rest(addr) < len
      PROVE  /\ n \in Addresses
             /\ Touched(addr, len) = Stretch(addr, Rest(addr))
             /\ Touched(n, len - Rest(addr)) = Stretch(n, len - Rest(addr))
             /\ len - Rest(addr) <= Rest(n)
             /\ \A a \in Stretch(addr, len) : page_id(a) \in {page_id(addr), page_id(n)}
  <2>1. n \in Addresses /\ n \in Nat
    BY <1>1, <1>2, <1>6 DEF Addresses
  <2>2. Rest(n) = SPARSE_PAGE_SIZE
    <3> HIDE DEF n
    <3> QED
      BY <1>1, <1>2, <2>1 DEF Rest
  <2>3. \A a \in Stretch(addr, len) : a \in Nat /\ page_id(a) \in {page_id(addr), page_id(n)}
    <3>1. Stretch(addr, len) \subseteq Nat
      BY <1>1 DEF Stretch
    <3> HIDE DEF n
    <3> QED
      BY <1>4, <2>1, <3>1
  <2>4. Touched(addr, len) = {a \in Stretch(addr, len) : a < n}
    <3>1. \A a \in Stretch(addr, len) : page_id(a) = page_id(addr) <=> a < n
      <4> HIDE DEF n
      <4> QED
        BY <1>4, <2>1, <2>3
    <3> HIDE DEF n
    <3> QED
      BY <3>1 DEF Touched, Stretch
  <2>5. {a \in Stretch(addr, len) : a < n} = Stretch(addr, Rest(addr))
    BY <1>1, <1>2, <1>6 DEF Stretch
  <2>6. Touched(n, len - Rest(addr)) = Stretch(n, len - Rest(addr))
    <3>1. Stretch(n, len - Rest(addr)) \subseteq Stretch(addr, len)
          /\ \A a \in Stretch(n, len - Rest(addr)) : n <= a
      BY <1>1, <1>2, <1>6 DEF Stretch
    <3> HIDE DEF n
    <3>2. \A a \in Stretch(n, len - Rest(addr)) : page_id(a) = page_id(n)
      BY <1>4, <3>1
    <3> QED
      BY <3>2 DEF Touched, Stretch
  <2>7. len - Rest(addr) <= Rest(n)
    BY <1>1, <1>2, <2>2
  <2> QED
    BY <2>1, <2>3, <2>4, <2>5, <2>6, <2>7
<1> QED
  BY <1>2, <1>3, <1>5, <1>6

(***************************************************************************)
(* Two adjacent parts of a sequence make up the sequence.                  *)
(***************************************************************************)
LEMMA Joined ==
  ASSUME NEW n \in Nat, NEW k \in 0 .. n, NEW w, w = [j \in 1 .. n |-> w[j]],
         NEW u, u = [j \in 1 .. k |-> w[j]],
         NEW v, v = [j \in 1 .. n - k |-> w[k + j]]
  PROVE  u \o v = w
<1> DEFINE B == {w[j] : j \in 1 .. n}
<1>0. w \in [1 .. n -> B]
  OBVIOUS
<1> HIDE DEF B
<1>1. u \in Seq(B) /\ Len(u) = k
  BY <1>0
<1>2. v \in Seq(B) /\ Len(v) = n - k
  BY <1>0
<1>3. u \o v \in Seq(B) /\ Len(u \o v) = n
  BY <1>1, <1>2
<1>4. ASSUME NEW j \in 1 .. n
      PROVE  (u \o v)[j] = w[j]
  BY <1>1, <1>2
<1> QED
  BY <1>0, <1>3, <1>4

(***************************************************************************)
(* What a read does: it changes no byte and what counts as written, it     *)
(* returns the bytes kept for its addresses, and it goes through only if   *)
(* they could be accessed and, when checked, had been written; then it     *)
(* does go through if they have pages.                                     *)
(***************************************************************************)
Loaded(m, addr, len, r) ==
  /\ Good(r.m) /\ Frame(m, r.m)
  /\ \A a \in Addresses :
       /\ Paged(m, a) => Paged(r.m, a) /\ Byte(r.m, a) = Byte(m, a)
       /\ Kept(r.m, a) <=> Kept(m, a)
  /\ r.m.status = "run" =>
       /\ Usable(m, addr, len)
       /\ r.val = [j \in 1 .. len |-> Byte(r.m, addr + j - 1)]
       /\ \A a \in Stretch(addr, len) : Paged(r.m, a)
       /\ m.checkUB => \A a \in Stretch(addr, len) : Kept(m, a)
  /\ /\ Usable(m, addr, len)
     /\ \A a \in Stretch(addr, len) : Paged(m, a) /\ (m.checkUB => Kept(m, a))
     => r.m.status = "run"

(***************************************************************************)
(* mem_read does that, also for a word that lies in two pages.             *)
(***************************************************************************)
LEMMA ReadMem ==
  ASSUME NEW m, Good(m), m.status = "run", NEW addr \in Addresses,
         NEW len \in 1 .. WordSize, addr + len <= MaxHeap,
         NEW r, r = mem_read(m, addr, len)
  PROVE  Loaded(m, addr, len, r)
<1> DEFINE llen == Rest(addr)
<1>m. PICK m1 : m1 = ReadAccess(m, addr, len)
  OBVIOUS
<1>n. PICK m2 : m2 = ReadAccess(m1, addr + llen, len - llen)
  OBVIOUS
<1>1. /\ addr \in Nat /\ len \in Nat \ {0} /\ llen \in Nat \ {0}
      /\ Stretch(addr, len) \subseteq Addresses /\ MaxHeap \in Nat
  BY Consts, TouchedParts DEF Addresses
<1>2. CASE Emulated(m, addr, len)
  <2>1. m.sparse /\ Usable(m, addr, len)
    BY <1>2 DEF Emulated, Usable
  <2>2. /\ Good(m1) /\ Frame(m, m1) /\ m1.status \in {"run", "exit", "abort"}
        /\ m1.status = "run" <=>
             /\ Paged(m, addr) \/ m.num_free_pages # 0
             /\ ~m.checkUB \/ \A a \in Touched(addr, len) : Kept(m, a)
        /\ \A a \in Addresses :
             /\ Paged(m, a) => Paged(m1, a) /\ Byte(m1, a) = Byte(m, a)
             /\ m1.status = "run" /\ page_id(a) = page_id(addr) => Paged(m1, a)
             /\ Kept(m1, a) <=> Kept(m, a)
    BY <1>1, <1>m, <2>1, GetToRead
  <2>3. r.m = IF llen < len /\ m1.status = "run" THEN m2 ELSE m1
    BY <1>2, <1>m, <1>n DEF mem_read, ReadAccess, Rest
  <2>4. r.m.status = "run" =>
          r.val = IF llen < len
                  THEN PageBytes(m2, addr, llen) \o PageBytes(m2, addr + llen, len - llen)
                  ELSE PageBytes(m1, addr, len)
    BY <1>2, <1>m, <1>n DEF mem_read, ReadAccess, Rest
  <2>5. m1.sparse /\ m1.checkUB = m.checkUB
    BY <2>1, <2>2 DEF Frame
  <2>6. CASE m1.status # "run"
    <3>1. r.m = m1
      BY <2>3, <2>6
    <3>2. ~ \A a \in Stretch(addr, len) : Paged(m, a) /\ (m.checkUB => Kept(m, a))
      <4>1. addr \in Stretch(addr, len) /\ Touched(addr, len) \subseteq Stretch(addr, len)
        BY <1>1 DEF Stretch, Touched
      <4> QED
        BY <2>2, <2>6, <4>1
    <3> QED
      BY <2>2, <2>6, <3>1, <3>2 DEF Loaded
  <2>7. CASE m1.status = "run" /\ ~ (llen < len)
    <3>1. r.m = m1 /\ len <= llen
      BY <1>1, <2>3, <2>7
    <3>2. /\ Touched(addr, len) = Stretch(addr, len)
          /\ \A a \in Stretch(addr, len) : page_id(a) = page_id(addr)
      BY <3>1, TouchedParts
    <3>3. r.val = [j \in 1 .. len |-> Byte(m1, addr + j - 1)]
      <4>1. PageBytes(m1, addr, len) = [j \in 1 .. len |-> Byte(m1, addr + j - 1)]
        BY <1>1, <2>2, <2>5, <3>1, LoadBytes
      <4> QED
        BY <2>4, <2>7, <3>1, <4>1
    <3> QED
      BY <1>1, <2>1, <2>2, <2>7, <3>1, <3>2, <3>3 DEF Loaded
  <2>8. CASE m1.status = "run" /\ llen < len
    <3>1. r.m = m2
      BY <2>3, <2>8
    <3>2. /\ addr + llen \in Addresses /\ len - llen <= Rest(addr + llen)
          /\ Touched(addr, len) = Stretch(addr, llen)
          /\ Touched(addr + llen, len - llen) = Stretch(addr + llen, len - llen)
          /\ \A a \in Stretch(addr, len) :
               page_id(a) \in {page_id(addr), page_id(addr + llen)}
      BY <2>8, TouchedParts
    <3>3. len - llen \in Nat \ {0} /\ (addr + llen) + (len - llen) <= MaxHeap
      <4> HIDE DEF llen
      <4> QED
        BY <1>1, <2>8
    <3>4. Stretch(addr, len) = Stretch(addr, llen) \cup Stretch(addr + llen, len - llen)
      <4> HIDE DEF llen
      <4> QED
        BY <1>1, <2>8 DEF Stretch
    <3> HIDE DEF llen
    <3>5. /\ Good(m2) /\ Frame(m1, m2) /\ m2.status \in {"run", "exit", "abort"}
          /\ m2.status = "run" <=>
               /\ Paged(m1, addr + llen) \/ m1.num_free_pages # 0
               /\ ~m1.checkUB \/ \A a \in Touched(addr + llen, len - llen) : Kept(m1, a)
          /\ \A a \in Addresses :
               /\ Paged(m1, a) => Paged(m2, a) /\ Byte(m2, a) = Byte(m1, a)
               /\ m2.status = "run" /\ page_id(a) = page_id(addr + llen) => Paged(m2, a)
               /\ Kept(m2, a) <=> Kept(m1, a)
      BY <1>n, <2>2, <2>5, <2>8, <3>2, <3>3, GetToRead
    <3>6. m2.sparse /\ Frame(m, m2)
      BY <2>2, <2>5, <3>5 DEF Frame
    <3>7. r.m.status = "run" => r.val = [j \in 1 .. len |-> Byte(m2, addr + j - 1)]
      <4>1. PageBytes(m2, addr, llen) = [j \in 1 .. llen |-> Byte(m2, addr + j - 1)]
        BY <1>1, <3>5, <3>6, LoadBytes DEF llen
      <4>2. PageBytes(m2, addr + llen, len - llen)
              = [j \in 1 .. len - llen |-> Byte(m2, addr + llen + j - 1)]
        BY <1>1, <3>2, <3>3, <3>5, <3>6, LoadBytes
      <4>3. [j \in 1 .. llen |-> Byte(m2, addr + j - 1)]
              \o [j \in 1 .. len - llen |-> Byte(m2, addr + llen + j - 1)]
              = [j \in 1 .. len |-> Byte(m2, addr + j - 1)]
        <5> DEFINE w == [j \in 1 .. len |-> Byte(m2, addr + j - 1)]
        <5>1. llen \in 0 .. len /\ len \in Nat
          BY <1>1, <2>8
        <5>2. w = [j \in 1 .. len |-> w[j]]
          OBVIOUS
        <5>3. [j \in 1 .. llen |-> Byte(m2, addr + j - 1)] = [j \in 1 .. llen |-> w[j]]
          BY <5>1
        <5>4. [j \in 1 .. len - llen |-> Byte(m2, addr + llen + j - 1)]
                = [j \in 1 .. len - llen |-> w[llen + j]]
          <6>1. ASSUME NEW j \in 1 .. len - llen
                PROVE  w[llen + j] = Byte(m2, addr + llen + j - 1)
            <7>1. llen + j \in 1 .. len /\ addr + (llen + j) - 1 = addr + llen + j - 1
              BY <1>1, <5>1
            <7> QED
              BY <7>1
          <6> QED
            BY <6>1
        <5> HIDE DEF w
        <5>5. [j \in 1 .. llen |-> w[j]] \o [j \in 1 .. len - llen |-> w[llen + j]] = w
          BY <5>1, <5>2, Joined
        <5> QED
          BY <5>3, <5>4, <5>5 DEF w
      <4> QED
        BY <2>4, <2>8, <4>1, <4>2, <4>3
    <3>8. m2.status = "run" => \A a \in Stretch(addr, len) : Paged(m2, a)
      BY <1>1, <2>2, <2>8, <3>2, <3>5
    <3>9. addr + llen \in Stretch(addr, len)
      BY <1>1, <2>8 DEF Stretch
    <3>10. m2.status = "run" /\ m.checkUB => \A a \in Stretch(addr, len) : Kept(m, a)
      BY <1>1, <2>2, <2>5, <2>8, <3>2, <3>4, <3>5
    <3>11. (\A a \in Stretch(addr, len) : Paged(m, a) /\ (m.checkUB => Kept(m, a)))
             => m2.status = "run"
      BY <1>1, <2>2, <2>5, <2>8, <3>2, <3>4, <3>5, <3>9
    <3> QED
      BY <2>1, <2>2, <3>1, <3>5, <3>6, <3>7, <3>8, <3>10, <3>11 DEF Loaded
  <2> QED
    BY <2>6, <2>7, <2>8
<1>3. CASE ~Emulated(m, addr, len) /\ Accessible(m, addr, len)
  <2>1. r.m = m /\ r.val = [j \in 1 .. len |-> m.dense[addr + j - 1]]
    BY <1>3 DEF mem_read
  <2>2. ~m.sparse
    BY <1>3 DEF Accessible
  <2>3. [j \in 1 .. len |-> m.dense[addr + j - 1]] = [j \in 1 .. len |-> Byte(m, addr + j - 1)]
    BY <2>2 DEF Byte
  <2> QED
    BY <1>3, <2>1, <2>2, <2>3 DEF Frame, Paged, Kept, Usable, Loaded
<1>4. CASE ~Emulated(m, addr, len) /\ ~Accessible(m, addr, len)
  <2>1. r.m = [m EXCEPT !.status = "fault"]
    BY <1>4 DEF mem_read
  <2>2. /\ Good(r.m) /\ Frame(m, r.m) /\ r.m.dense = m.dense /\ r.m.status = "fault"
        /\ r.m.page = m.page /\ \A id \in PageIds : find_page(r.m, id) = find_page(m, id)
    BY <2>1, StatusChanged
  <2>3. \A a \in Addresses : page_id(a) \in PageIds
    BY Consts, PageOf DEF Addresses
  <2>4. \A a \in Addresses : /\ Paged(m, a) <=> Paged(r.m, a)
                             /\ Byte(r.m, a) = Byte(m, a)
                             /\ Kept(r.m, a) <=> Kept(m, a)
    BY <2>2, <2>3 DEF Frame, Paged, Byte, Kept
  <2> QED
    BY <1>4, <2>2, <2>4 DEF Usable, Loaded
<1> QED
  BY <1>2, <1>3, <1>4

(***************************************************************************)
(* What a store of w at addr does: its addresses are now written and hold  *)
(* w, all others are as before.                                            *)
(***************************************************************************)
Stored(m, n, addr, len, w) ==
  \A a \in Addresses :
    /\ Paged(m, a) => Paged(n, a)
    /\ Kept(n, a) <=> Kept(m, a) \/ a \in Stretch(addr, len)
    /\ a \in Stretch(addr, len) => Paged(n, a) /\ Byte(n, a) = w[a - addr + 1]
    /\ a \notin Stretch(addr, len) /\ Paged(m, a) => Byte(n, a) = Byte(m, a)

(***************************************************************************)
(* mem_write, when it goes through, stores its value, also across two      *)
(* pages.                                                                  *)
(***************************************************************************)
LEMMA WriteMem ==
  ASSUME NEW m, Good(m), m.status = "run", NEW addr \in Addresses,
         NEW val \in Seq(Bytes), Len(val) \in 1 .. WordSize,
         addr + Len(val) <= MaxHeap, NEW n, n = mem_write(m, addr, val)
  PROVE  /\ Good(n) /\ Frame(m, n)
         /\ n.status = "run" =>
              Usable(m, addr, Len(val)) /\ Stored(m, n, addr, Len(val), val)
<1> DEFINE llen == Rest(addr)
           len == Len(val)
           next == addr + llen
<1>m. PICK m1 : m1 = WriteAccess(m, addr, len)
  OBVIOUS
<1>u. PICK u : u = SubSeq(val, 1, Lesser(llen, len))
  OBVIOUS
<1>n. PICK m2 : m2 = PutPageBytes(m1, addr, u)
  OBVIOUS
<1>o. PICK m3 : m3 = WriteAccess(m2, next, len - llen)
  OBVIOUS
<1>v. PICK v : v = SubSeq(val, llen + 1, len)
  OBVIOUS
<1>1. /\ addr \in Nat /\ len \in Nat \ {0} /\ llen \in Nat \ {0}
      /\ Stretch(addr, len) \subseteq Addresses /\ MaxHeap \in Nat
  BY Consts, TouchedParts DEF Addresses
<1>2. CASE Emulated(m, addr, len)
  <2>1. m.sparse /\ Usable(m, addr, len)
    BY <1>2 DEF Emulated, Usable
  <2>2. n = IF llen < len /\ m1.status = "run" THEN PutPageBytes(m3, next, v) ELSE m2
    BY <1>2, <1>m, <1>u, <1>n, <1>o, <1>v DEF mem_write, WriteAccess, Rest
  <2>3. /\ Good(m1) /\ Frame(m, m1) /\ m1.status \in {"run", "exit", "abort"}
        /\ \A a \in Addresses :
             /\ Paged(m, a) => Paged(m1, a) /\ Byte(m1, a) = Byte(m, a)
             /\ m1.status = "run" /\ page_id(a) = page_id(addr) => Paged(m1, a)
             /\ Kept(m1, a) <=> \/ Kept(m, a)
                                \/ m1.status = "run" /\ a \in Touched(addr, len)
    BY <1>1, <1>m, <2>1, GetToWrite
  <2>4. CASE m1.status # "run"
    <3>1. n = m1
      BY <1>n, <2>2, <2>4 DEF PutPageBytes
    <3> QED
      BY <2>3, <2>4, <3>1
  <2>5. CASE m1.status = "run"
    <3>1. m1.sparse /\ Paged(m1, addr)
      BY <2>1, <2>3, <2>5 DEF Frame
    <3>2. u \in Seq(Bytes) /\ Len(u) = Lesser(llen, len) /\ Len(u) <= llen
          /\ \A j \in 1 .. Len(u) : u[j] = val[j]
      <4>1. Lesser(llen, len) \in 0 .. len /\ Lesser(llen, len) <= llen
        BY <1>1 DEF Lesser
      <4> QED
        BY <1>1, <1>u, <4>1
    <3>3. /\ Good(m2) /\ Frame(m1, m2) /\ m2.status = "run"
          /\ \A a \in Addresses :
               /\ Paged(m2, a) <=> Paged(m1, a)
               /\ Kept(m2, a) <=> Kept(m1, a)
               /\ a \in addr .. addr + Len(u) - 1 => Byte(m2, a) = u[a - addr + 1]
               /\ a \notin addr .. addr + Len(u) - 1 /\ Paged(m1, a)
                    => Byte(m2, a) = Byte(m1, a)
      BY <1>n, <2>3, <2>5, <3>1, <3>2, StoreBytes
    <3>4. Frame(m, m2) /\ m2.sparse
      BY <2>1, <2>3, <3>3 DEF Frame
    <3>5. CASE ~(llen < len)
      <4>1. n = m2 /\ Len(u) = len
        BY <1>1, <2>2, <3>2, <3>5 DEF Lesser
      <4>2. /\ Touched(addr, len) = Stretch(addr, len)
            /\ \A a \in Stretch(addr, len) : page_id(a) = page_id(addr)
        BY <1>1, <3>5, TouchedParts
      <4>3. \A a \in Stretch(addr, len) : a - addr + 1 \in 1 .. Len(u)
        BY <1>1, <4>1 DEF Stretch
      <4>4. Stretch(addr, len) = addr .. addr + Len(u) - 1
        BY <4>1 DEF Stretch
      <4> HIDE DEF len, llen
      <4>5. ASSUME NEW a \in Addresses
            PROVE  /\ Paged(m, a) => Paged(n, a)
                   /\ Kept(n, a) <=> Kept(m, a) \/ a \in Stretch(addr, len)
                   /\ a \in Stretch(addr, len) =>
                        Paged(n, a) /\ Byte(n, a) = val[a - addr + 1]
                   /\ a \notin Stretch(addr, len) /\ Paged(m, a) =>
                        Byte(n, a) = Byte(m, a)
        <5>1. Kept(n, a) <=> Kept(m, a) \/ a \in Stretch(addr, len)
          BY <2>3, <2>5, <3>3, <4>1, <4>2
        <5>2. Paged(m, a) => Paged(n, a)
          BY <2>3, <3>3, <4>1
        <5>3. a \in Stretch(addr, len) =>
                        Paged(n, a) /\ Byte(n, a) = val[a - addr + 1]
          BY <2>3, <2>5, <3>2, <3>3, <4>1, <4>2, <4>3, <4>4
        <5>4. a \notin Stretch(addr, len) /\ Paged(m, a) => Byte(n, a) = Byte(m, a)
          BY <2>3, <3>3, <4>1, <4>4
        <5> QED
          BY <5>1, <5>2, <5>3, <5>4
      <4> QED
        BY <2>1, <3>3, <3>4, <4>1, <4>5 DEF len, Stored
    <3>6. CASE llen < len
      <4>1. n = PutPageBytes(m3, next, v) /\ Len(u) = llen
        BY <1>1, <2>2, <2>5, <3>2, <3>6 DEF Lesser
      <4>2. /\ next \in Addresses /\ len - llen <= Rest(next)
            /\ Touched(addr, len) = Stretch(addr, llen)
            /\ Touched(next, len - llen) = Stretch(next, len - llen)
            /\ \A a \in Stretch(addr, len) : page_id(a) \in {page_id(addr), page_id(next)}
        BY <3>6, TouchedParts
      <4>3. len - llen \in Nat \ {0} /\ next + (len - llen) <= MaxHeap /\ next \in Nat
        <5> HIDE DEF llen
        <5> QED
          BY <1>1, <3>6
      <4>4. Stretch(addr, len) = Stretch(addr, llen) \cup Stretch(next, len - llen)
            /\ Stretch(addr, llen) \cap Stretch(next, len - llen) = {}
        <5> HIDE DEF llen
        <5> QED
          BY <1>1, <3>6 DEF Stretch
      <4>5. v \in Seq(Bytes) /\ Len(v) = len - llen
            /\ \A j \in 1 .. len - llen : v[j] = val[llen + j]
        <5>1. llen + 1 \in 1 .. len /\ len \in Nat
          BY <1>1, <3>6
        <5> HIDE DEF llen
        <5> QED
          BY <1>1, <1>v, <5>1
      <4> HIDE DEF len, llen, next
      <4>6. /\ Good(m3) /\ Frame(m2, m3) /\ m3.status \in {"run", "exit", "abort"}
            /\ \A a \in Addresses :
                 /\ Paged(m2, a) => Paged(m3, a) /\ Byte(m3, a) = Byte(m2, a)
                 /\ m3.status = "run" /\ page_id(a) = page_id(next) => Paged(m3, a)
                 /\ Kept(m3, a) <=> \/ Kept(m2, a)
                                    \/ m3.status = "run" /\ a \in Touched(next, len - llen)
        BY <1>o, <3>3, <3>4, <4>2, <4>3, GetToWrite
      <4>7. Frame(m, m3) /\ m3.sparse
        BY <3>4, <4>6 DEF Frame
      <4>8. CASE m3.status # "run"
        <5>1. n = m3
          BY <4>1, <4>8 DEF PutPageBytes
        <5> QED
          BY <4>6, <4>7, <4>8, <5>1
      <4>9. CASE m3.status = "run"
        <5>1. Paged(m3, next)
          BY <4>2, <4>6, <4>9
        <5>2. /\ Good(n) /\ Frame(m3, n) /\ n.status = "run"
              /\ \A a \in Addresses :
                   /\ Paged(n, a) <=> Paged(m3, a)
                   /\ Kept(n, a) <=> Kept(m3, a)
                   /\ a \in next .. next + Len(v) - 1 => Byte(n, a) = v[a - next + 1]
                   /\ a \notin next .. next + Len(v) - 1 /\ Paged(m3, a)
                        => Byte(n, a) = Byte(m3, a)
          BY <4>1, <4>2, <4>5, <4>6, <4>7, <4>9, <5>1, StoreBytes
        <5>3. Frame(m, n)
          BY <4>7, <5>2 DEF Frame
        <5>4. /\ Stretch(addr, llen) = addr .. addr + Len(u) - 1
              /\ Stretch(next, len - llen) = next .. next + Len(v) - 1
          BY <4>1, <4>5 DEF Stretch
        <5>5. ASSUME NEW a \in Stretch(addr, llen)
              PROVE  u[a - addr + 1] = val[a - addr + 1]
          <6>1. a - addr + 1 \in 1 .. Len(u)
            BY <1>1, <4>1 DEF Stretch
          <6> QED
            BY <3>2, <6>1
        <5>6. ASSUME NEW a \in Stretch(next, len - llen)
              PROVE  v[a - next + 1] = val[a - addr + 1]
          <6>1. a - next + 1 \in 1 .. len - llen /\ llen + (a - next + 1) = a - addr + 1
            BY <1>1, <4>3 DEF Stretch, next
          <6> QED
            BY <4>5, <6>1
        <5>7. ASSUME NEW a \in Addresses
              PROVE  /\ Paged(m, a) => Paged(n, a)
                     /\ Kept(n, a) <=> Kept(m, a) \/ a \in Stretch(addr, len)
                     /\ a \in Stretch(addr, len) =>
                          Paged(n, a) /\ Byte(n, a) = val[a - addr + 1]
                     /\ a \notin Stretch(addr, len) /\ Paged(m, a) =>
                          Byte(n, a) = Byte(m, a)
          <6>1. Paged(m, a) => Paged(n, a)
            BY <2>3, <3>3, <4>6, <5>2
          <6>2. Kept(n, a) <=> Kept(m, a) \/ a \in Stretch(addr, len)
            BY <2>3, <2>5, <3>3, <4>2, <4>4, <4>6, <4>9, <5>2
          <6>3. ASSUME a \in Stretch(addr, llen)
                PROVE  Paged(n, a) /\ Byte(n, a) = val[a - addr + 1]
            <7>1. page_id(a) = page_id(addr)
              BY <4>2, <6>3 DEF Touched
            <7>2. Paged(m1, a) /\ Paged(m2, a) /\ Paged(m3, a) /\ Paged(n, a)
              BY <2>3, <2>5, <3>3, <4>6, <5>2, <7>1
            <7>3. Byte(n, a) = Byte(m3, a)
              BY <4>4, <5>2, <5>4, <6>3, <7>2
            <7>4. Byte(m3, a) = Byte(m2, a)
              BY <4>6, <7>2
            <7>5. Byte(m2, a) = u[a - addr + 1]
              BY <3>3, <5>4, <6>3
            <7> QED
              BY <5>5, <6>3, <7>2, <7>3, <7>4, <7>5
          <6>4. ASSUME a \in Stretch(next, len - llen)
                PROVE  Paged(n, a) /\ Byte(n, a) = val[a - addr + 1]
            <7>1. page_id(a) = page_id(next)
              BY <4>2, <6>4 DEF Touched
            <7>2. Paged(n, a)
              BY <4>6, <4>9, <5>2, <7>1
            <7>3. Byte(n, a) = v[a - next + 1]
              BY <5>2, <5>4, <6>4
            <7> QED
              BY <5>6, <6>4, <7>2, <7>3
          <6>5. ASSUME a \notin Stretch(addr, len), Paged(m, a)
                PROVE  Byte(n, a) = Byte(m, a)
            <7>1. Paged(m1, a) /\ Byte(m1, a) = Byte(m, a)
              BY <2>3, <6>5
            <7>2. Paged(m2, a) /\ Byte(m2, a) = Byte(m1, a)
              BY <3>3, <4>4, <5>4, <6>5, <7>1
            <7>3. Paged(m3, a) /\ Byte(m3, a) = Byte(m2, a)
              BY <4>6, <7>2
            <7>4. Byte(n, a) = Byte(m3, a)
              BY <4>4, <5>2, <5>4, <6>5, <7>3
            <7> QED
              BY <7>1, <7>2, <7>3, <7>4
          <6> QED
            BY <4>4, <6>1, <6>2, <6>3, <6>4, <6>5
        <5> QED
          BY <2>1, <5>2, <5>3, <5>7 DEF len, Stored
      <4> QED
        BY <4>8, <4>9
    <3> QED
      BY <3>5, <3>6
  <2> QED
    BY <2>4, <2>5
<1>3. CASE ~Emulated(m, addr, len) /\ Accessible(m, addr, len)
  <2> DEFINE put == [a \in Addresses |-> IF a \in addr .. addr + len - 1
                                         THEN val[a - addr + 1] ELSE m.dense[a]]
  <2>1. m \in MemType /\ Tables(m) /\ ~m.sparse
    BY <1>3 DEF Good, Accessible
  <2>2. n = [m EXCEPT !.dense = put]
    BY <1>3 DEF mem_write
  <2>3. put \in [Addresses -> Bytes]
    <3>1. ASSUME NEW a \in Addresses
          PROVE  put[a] \in Bytes
      <4>1. a \in addr .. addr + len - 1 => a - addr + 1 \in 1 .. Len(val)
        BY <1>1
      <4>2. m.dense[a] \in Bytes
        BY <2>1 DEF MemType
      <4> QED
        BY <4>1, <4>2
    <3> QED
      BY <3>1
  <2> HIDE DEF put
  <2>4. /\ n \in MemType /\ n.dense = put /\ n.status = m.status /\ Frame(m, n)
        /\ n.page = m.page /\ n.page_table = m.page_table
        /\ n.next_free_page = m.next_free_page /\ n.num_free_pages = m.num_free_pages
    BY <2>1, <2>2, <2>3 DEF MemType, Frame
  <2>5. Good(n) /\ ~n.sparse
    BY <2>1, <2>4, TablesAlike DEF Good, Frame
  <2> QED
    BY <1>3, <2>1, <2>4, <2>5 DEF Paged, Kept, Byte, Usable, put, Stretch, Stored
<1>4. CASE ~Emulated(m, addr, len) /\ ~Accessible(m, addr, len)
  <2>1. n = [m EXCEPT !.status = "fault"]
    BY <1>4 DEF mem_write
  <2>2. Good(n) /\ Frame(m, n) /\ n.status = "fault"
    BY <2>1, StatusChanged
  <2> QED
    BY <2>2
<1> QED
  BY <1>2, <1>3, <1>4

-----------------------------------------------------------------------------
(***************************************************************************)
(* The bytes that the first k pieces of mem_memset or mem_memcpy cover.    *)
(***************************************************************************)
Finished(num_bytes, k) == Lesser(k * WordSize, num_bytes)

(***************************************************************************)
(* The pieces follow each other without gap and overlap, none is longer    *)
(* than a word, and together they cover exactly num_bytes bytes.           *)
(***************************************************************************)
LEMMA Pieces ==
  ASSUME NEW num_bytes \in Nat
  PROVE  /\ NumPieces(num_bytes) \in Nat
         /\ Finished(num_bytes, 0) = 0
         /\ Finished(num_bytes, NumPieces(num_bytes)) = num_bytes
         /\ \A k \in 1 .. NumPieces(num_bytes) :
              /\ PieceStart(k) = Finished(num_bytes, k - 1)
              /\ PieceStart(k) \in Nat
              /\ PieceLen(num_bytes, k) \in 1 .. WordSize
              /\ Finished(num_bytes, k) = PieceStart(k) + PieceLen(num_bytes, k)
              /\ Finished(num_bytes, k) \in 0 .. num_bytes
<1> DEFINE W == WordSize
           y == num_bytes + W - 1
           N == y \div W
<1>1. W \in Nat \ {0}
  BY Consts
<1>2. y \in Nat
  BY <1>1
<1>3. N \in Nat /\ W * N <= y /\ y < W * N + W
  <2> HIDE DEF W, y
  <2> QED
    BY <1>1, <1>2, Division
<1>4. W * N \in Nat /\ N * W = W * N
  <2> HIDE DEF W, N
  <2> QED
    BY <1>1, <1>3
<1>5. num_bytes <= W * N
  <2> HIDE DEF N, W
  <2> QED
    BY <1>1, <1>3, <1>4 DEF y
<1>6. ASSUME NEW k \in 1 .. N
      PROVE  /\ PieceStart(k) = Finished(num_bytes, k - 1)
             /\ PieceStart(k) \in Nat
             /\ PieceLen(num_bytes, k) \in 1 .. W
             /\ Finished(num_bytes, k) = PieceStart(k) + PieceLen(num_bytes, k)
             /\ Finished(num_bytes, k) \in 0 .. num_bytes
  <2>1. k \in Nat /\ k - 1 \in Nat /\ k <= N
    <3> HIDE DEF N
    <3> QED BY <1>3
  <2> DEFINE p == (k - 1) * W
  <2>2. p \in Nat /\ k * W = p + W
    <3> HIDE DEF W
    <3> QED BY <1>1, <2>1
  <2>3. p + W <= W * N
    <3> HIDE DEF W, N
    <3>1. W * k <= W * N /\ W * k = k * W
      BY <1>1, <1>3, <2>1
    <3> QED
      BY <2>2, <3>1
  <2>4. p < num_bytes
    <3> HIDE DEF p, N, W
    <3> QED
      BY <1>1, <1>3, <1>4, <2>2, <2>3 DEF y
  <2> HIDE DEF p, N, W
  <2> QED
    BY <1>1, <2>2, <2>4 DEF PieceStart, PieceLen, Finished, Lesser, p, W
<1>7. Finished(num_bytes, 0) = 0
  BY <1>1 DEF Finished, Lesser
<1>8. Finished(num_bytes, N) = num_bytes
  <2> HIDE DEF N
  <2> QED
    BY <1>1, <1>4, <1>5 DEF Finished, Lesser
<1>9. NumPieces(num_bytes) = N
  BY DEF NumPieces
<1> HIDE DEF N
<1> QED
  BY <1>3, <1>6, <1>7, <1>8, <1>9

(***************************************************************************)
(* The loop of mem_memset has a state after each piece.                    *)
(***************************************************************************)
LEMMA SetLoop ==
  ASSUME NEW m, NEW dst, NEW c, NEW num_bytes \in Nat
  PROVE  \E g : /\ g[0] = m /\ mem_memset(m, dst, c, num_bytes) = g[NumPieces(num_bytes)]
                /\ \A k \in 1 .. NumPieces(num_bytes) :
                    g[k] = fill_piece(g[k - 1], dst + PieceStart(k), c, PieceLen(num_bytes, k))
<1> DEFINE N == NumPieces(num_bytes)
           step(g, k) == IF k = 0 THEN m
                         ELSE fill_piece(g[k - 1], dst + PieceStart(k), c,
                                         PieceLen(num_bytes, k))
           T == {j \in 0 .. N : \E g : g = [k \in 0 .. j |-> step(g, k)]}
<1>1. N \in Nat
  BY Pieces
<1>2. 0 \in T
  <2> DEFINE g == [k \in 0 .. 0 |-> m]
  <2>1. g = [k \in 0 .. 0 |-> step(g, k)]
    OBVIOUS
  <2> HIDE DEF g
  <2> QED
    BY <1>1, <2>1
<1>3. ASSUME NEW j \in 0 .. N, j \in T, j < N
      PROVE  j + 1 \in T
  <2>1. PICK g : g = [k \in 0 .. j |-> step(g, k)]
    BY <1>3
  <2> DEFINE h == [k \in 0 .. j + 1 |-> IF k = j + 1 THEN step(g, k) ELSE g[k]]
  <2>2. ASSUME NEW k \in 0 .. j + 1
        PROVE  h[k] = step(h, k)
    <3>0. j \in Nat /\ k \in Nat
      BY <1>1
    <3>1. CASE k = 0
      <4>1. h[k] = g[0] /\ g[0] = m
        BY <1>1, <2>1, <3>1
      <4> QED
        BY <3>1, <4>1
    <3>2. CASE k \in 1 .. j
      <4>1. h[k] = g[k] /\ h[k - 1] = g[k - 1]
        BY <3>0, <3>2
      <4>2. g[k] = step(g, k)
        BY <2>1, <3>2
      <4> QED
        BY <3>2, <4>1, <4>2
    <3>3. CASE k = j + 1
      <4>1. h[k] = step(g, k) /\ h[k - 1] = g[k - 1]
        BY <3>0, <3>3
      <4> QED
        BY <4>1
    <3> QED
      BY <3>0, <3>1, <3>2, <3>3
  <2>3. h = [k \in 0 .. j + 1 |-> step(h, k)]
    BY <2>2
  <2>4. j + 1 \in 0 .. N
    BY <1>1, <1>3
  <2> HIDE DEF h
  <2> QED
    BY <2>3, <2>4
<1>4. N \in T
  <2> HIDE DEF T
  <2> QED
    BY <1>1, <1>2, <1>3, UpToBound
<1>5. PICK g : g = [k \in 0 .. N |-> step(g, k)]
  BY <1>4
<1> DEFINE f == CHOOSE h : h = [k \in 0 .. N |-> step(h, k)]
<1>6. f = [k \in 0 .. N |-> step(f, k)]
  BY <1>5
<1>7. mem_memset(m, dst, c, num_bytes) = f[N]
  BY DEF mem_memset
<1> HIDE DEF f
<1>8. f[0] = m /\ \A k \in 1 .. N : f[k] = step(f, k) /\ k # 0
  BY <1>1, <1>6
<1> QED
  BY <1>7, <1>8

(***************************************************************************)
(* The loop of mem_memcpy has a state after each piece.                    *)
(***************************************************************************)
LEMMA CopyLoop ==
  ASSUME NEW m, NEW dst, NEW src, NEW num_bytes \in Nat
  PROVE  \E g : /\ g[0] = m /\ mem_memcpy(m, dst, src, num_bytes) = g[NumPieces(num_bytes)]
                /\ \A k \in 1 .. NumPieces(num_bytes) :
                    g[k] = copy_piece(g[k - 1], dst + PieceStart(k), src + PieceStart(k),
                                      PieceLen(num_bytes, k))
<1> DEFINE N == NumPieces(num_bytes)
           step(g, k) == IF k = 0 THEN m
                         ELSE copy_piece(g[k - 1], dst + PieceStart(k), src + PieceStart(k),
                                         PieceLen(num_bytes, k))
           T == {j \in 0 .. N : \E g : g = [k \in 0 .. j |-> step(g, k)]}
<1>1. N \in Nat
  BY Pieces
<1>2. 0 \in T
  <2> DEFINE g == [k \in 0 .. 0 |-> m]
  <2>1. g = [k \in 0 .. 0 |-> step(g, k)]
    OBVIOUS
  <2> HIDE DEF g
  <2> QED
    BY <1>1, <2>1
<1>3. ASSUME NEW j \in 0 .. N, j \in T, j < N
      PROVE  j + 1 \in T
  <2>1. PICK g : g = [k \in 0 .. j |-> step(g, k)]
    BY <1>3
  <2> DEFINE h == [k \in 0 .. j + 1 |-> IF k = j + 1 THEN step(g, k) ELSE g[k]]
  <2>2. ASSUME NEW k \in 0 .. j + 1
        PROVE  h[k] = step(h, k)
    <3>0. j \in Nat /\ k \in Nat
      BY <1>1
    <3>1. CASE k = 0
      <4>1. h[k] = g[0] /\ g[0] = m
        BY <1>1, <2>1, <3>1
      <4> QED
        BY <3>1, <4>1
    <3>2. CASE k \in 1 .. j
      <4>1. h[k] = g[k] /\ h[k - 1] = g[k - 1]
        BY <3>0, <3>2
      <4>2. g[k] = step(g, k)
        BY <2>1, <3>2
      <4> QED
        BY <3>2, <4>1, <4>2
    <3>3. CASE k = j + 1
      <4>1. h[k] = step(g, k) /\ h[k - 1] = g[k - 1]
        BY <3>0, <3>3
      <4> QED
        BY <4>1
    <3> QED
      BY <3>0, <3>1, <3>2, <3>3
  <2>3. h = [k \in 0 .. j + 1 |-> step(h, k)]
    BY <2>2
  <2>4. j + 1 \in 0 .. N
    BY <1>1, <1>3
  <2> HIDE DEF h
  <2> QED
    BY <2>3, <2>4
<1>4. N \in T
  <2> HIDE DEF T
  <2> QED
    BY <1>1, <1>2, <1>3, UpToBound
<1>5. PICK g : g = [k \in 0 .. N |-> step(g, k)]
  BY <1>4
<1> DEFINE f == CHOOSE h : h = [k \in 0 .. N |-> step(h, k)]
<1>6. f = [k \in 0 .. N |-> step(f, k)]
  BY <1>5
<1>7. mem_memcpy(m, dst, src, num_bytes) = f[N]
  BY DEF mem_memcpy
<1> HIDE DEF f
<1>8. f[0] = m /\ \A k \in 1 .. N : f[k] = step(f, k) /\ k # 0
  BY <1>1, <1>6
<1> QED
  BY <1>7, <1>8

(***************************************************************************)
(* A store and one that continues where it ended are one store.            *)
(***************************************************************************)
LEMMA StoredOn ==
  ASSUME NEW m, NEW n, NEW o, NEW addr \in Nat, NEW l \in Nat, NEW k \in Nat,
         NEW w, NEW v, Stored(m, n, addr, l, w), Stored(n, o, addr + l, k, v),
         \A j \in 1 .. k : v[j] = w[l + j]
  PROVE  Stored(m, o, addr, l + k, w)
<1>1. /\ Stretch(addr, l + k) = Stretch(addr, l) \cup Stretch(addr + l, k)
      /\ Stretch(addr, l) \cap Stretch(addr + l, k) = {}
  BY DEF Stretch
<1>2. ASSUME NEW a \in Stretch(addr + l, k)
      PROVE  v[a - (addr + l) + 1] = w[a - addr + 1]
  <2>1. a - (addr + l) + 1 \in 1 .. k /\ l + (a - (addr + l) + 1) = a - addr + 1
    BY DEF Stretch
  <2> QED
    BY <2>1
<1> QED
  BY <1>1, <1>2 DEF Stored

(***************************************************************************)
(* A store of no byte changes nothing.                                     *)
(***************************************************************************)
LEMMA StoredNothing ==
  ASSUME NEW m, NEW addr \in Nat, NEW w
  PROVE  Stored(m, m, addr, 0, w)
<1>1. Stretch(addr, 0) = {}
  BY DEF Stretch
<1> QED
  BY <1>1 DEF Stored

(***************************************************************************)
(* mem_memset, when it goes through, stores num_bytes times its byte.      *)
(***************************************************************************)
LEMMA SetMem ==
  ASSUME NEW m, Good(m), m.status = "run", NEW dst \in Addresses, NEW c \in Bytes,
         NEW num_bytes \in Nat, dst + num_bytes <= MaxHeap,
         NEW n, n = mem_memset(m, dst, c, num_bytes)
  PROVE  /\ Good(n) /\ Frame(m, n)
         /\ n.status = "run" =>
              Stored(m, n, dst, num_bytes, [i \in 1 .. num_bytes |-> c])
<1> DEFINE N == NumPieces(num_bytes)
           w == [i \in 1 .. num_bytes |-> c]
<1>1. PICK g : /\ g[0] = m /\ n = g[N]
               /\ \A k \in 1 .. N :
                    g[k] = fill_piece(g[k - 1], dst + PieceStart(k), c, PieceLen(num_bytes, k))
  BY SetLoop
<1>2. N \in Nat /\ dst \in Nat /\ MaxHeap \in Nat
  BY Consts, Pieces DEF Addresses
<1>3. Finished(num_bytes, 0) = 0 /\ Finished(num_bytes, N) = num_bytes
  BY Pieces
<1> DEFINE Fine(k) == /\ Good(g[k]) /\ Frame(m, g[k])
                      /\ g[k].status = "run" =>
                           Stored(m, g[k], dst, Finished(num_bytes, k), w)
           T == {k \in 0 .. N : Fine(k)}
<1>4. 0 \in T
  BY <1>1, <1>2, <1>3, StoredNothing DEF Frame
<1>5. ASSUME NEW j \in 0 .. N - 1, j \in T
      PROVE  j + 1 \in T
  <2> DEFINE k == j + 1
             p == PieceStart(k)
             l == PieceLen(num_bytes, k)
             val == [i \in 1 .. l |-> c]
  <2>1. k \in 1 .. N /\ k - 1 = j /\ k \in 0 .. N
    BY <1>2
  <2>2. /\ p = Finished(num_bytes, j) /\ p \in Nat /\ l \in 1 .. WordSize
        /\ Finished(num_bytes, k) = p + l /\ p + l \in 0 .. num_bytes
    BY <2>1, Pieces
  <2>3. Fine(j)
    BY <1>5
  <2>4. g[k] = fill_piece(g[j], dst + p, c, l)
    BY <1>1, <2>1
  <2> HIDE DEF p, l, k
  <2>5. CASE g[j].status # "run"
    <3>1. g[k] = g[j]
      BY <2>4, <2>5 DEF fill_piece
    <3> QED
      BY <2>1, <2>3, <2>5, <3>1 DEF k
  <2>6. CASE g[j].status = "run"
    <3>1. g[k] = mem_write(g[j], dst + p, val)
      BY <2>4, <2>6 DEF fill_piece
    <3>2. val \in Seq(Bytes) /\ Len(val) = l
      BY <2>2, Consts
    <3>3. /\ dst + p \in Addresses /\ dst + p + l <= MaxHeap /\ l \in Nat
          /\ Len(val) \in 1 .. WordSize /\ dst + p + Len(val) <= MaxHeap
      BY <1>2, <2>2, <3>2, Consts DEF Addresses
    <3> HIDE DEF val, w
    <3>4. /\ Good(g[k]) /\ Frame(g[j], g[k])
          /\ g[k].status = "run" => Stored(g[j], g[k], dst + p, l, val)
      BY <2>3, <2>6, <3>1, <3>2, <3>3, WriteMem
    <3>5. Frame(m, g[k])
      BY <2>3, <3>4 DEF Frame
    <3>6. \A i \in 1 .. l : val[i] = w[p + i]
      BY <2>2, <3>3 DEF val, w
    <3>7. g[k].status = "run" => Stored(m, g[k], dst, p + l, w)
      <4>1. Stored(m, g[j], dst, p, w)
        BY <2>2, <2>3, <2>6
      <4> QED
        BY <1>2, <2>2, <3>3, <3>4, <3>6, <4>1, StoredOn
    <3> QED
      BY <2>1, <2>2, <3>4, <3>5, <3>7 DEF k
  <2> QED
    BY <2>5, <2>6
<1>6. N \in T
  <2> HIDE DEF T, N
  <2> QED
    BY <1>2, <1>4, <1>5, UpToBound
<1> QED
  BY <1>1, <1>3, <1>6

(***************************************************************************)
(* What a copy does: the bytes of its destination are those of its source. *)
(***************************************************************************)
Copied(m, n, dst, src, len) ==
  /\ \A a \in Addresses :
       /\ Paged(m, a) => Paged(n, a)
       /\ Kept(n, a) <=> Kept(m, a) \/ a \in Stretch(dst, len)
       /\ a \notin Stretch(dst, len) /\ Paged(m, a) => Byte(n, a) = Byte(m, a)
  /\ \A a \in Stretch(dst, len) :
       /\ Paged(n, a) /\ Paged(n, src + (a - dst))
       /\ Byte(n, a) = Byte(n, src + (a - dst))
       /\ Usable(m, src + (a - dst), 1)

(***************************************************************************)
(* Every byte of an access that could be performed can be accessed.        *)
(***************************************************************************)
LEMMA UsableParts ==
  ASSUME NEW m, NEW n, Good(m), Frame(m, n), NEW addr \in Nat, NEW len \in Nat,
         Usable(n, addr, len), NEW a \in Stretch(addr, len)
  PROVE  Usable(m, a, 1)
<1>1. a \in Nat /\ a + 1 <= addr + len /\ m.mem_brk \in Nat
  BY Consts DEF Stretch, Good, MemType
<1>2. CASE Emulated(n, addr, len)
  BY <1>1, <1>2 DEF Emulated, Usable, Frame
<1>3. CASE Accessible(n, addr, len)
  BY <1>1, <1>3 DEF Accessible, Usable, Frame, Stretch
<1> QED
  BY <1>2, <1>3 DEF Usable

(***************************************************************************)
(* mem_memcpy, when it goes through, has copied its source, if the two     *)
(* areas do not overlap.                                                   *)
(***************************************************************************)
LEMMA CopyMem ==
  ASSUME NEW m, Good(m), m.status = "run", NEW dst \in Addresses, NEW src \in Addresses,
         NEW num_bytes \in Nat, dst + num_bytes <= MaxHeap, src + num_bytes <= MaxHeap,
         src + num_bytes <= dst \/ dst + num_bytes <= src,
         NEW n, n = mem_memcpy(m, dst, src, num_bytes)
  PROVE  /\ Good(n) /\ Frame(m, n)
         /\ n.status = "run" => Copied(m, n, dst, src, num_bytes)
<1> DEFINE N == NumPieces(num_bytes)
<1>1. PICK g : /\ g[0] = m /\ n = g[N]
               /\ \A k \in 1 .. N :
                    g[k] = copy_piece(g[k - 1], dst + PieceStart(k), src + PieceStart(k),
                                      PieceLen(num_bytes, k))
  BY CopyLoop
<1>2. N \in Nat /\ dst \in Nat /\ src \in Nat /\ MaxHeap \in Nat
  BY Consts, Pieces DEF Addresses
<1>3. Finished(num_bytes, 0) = 0 /\ Finished(num_bytes, N) = num_bytes
  BY Pieces
<1> DEFINE Fine(k) == /\ Good(g[k]) /\ Frame(m, g[k])
                      /\ g[k].status = "run" =>
                           Copied(m, g[k], dst, src, Finished(num_bytes, k))
           T == {k \in 0 .. N : Fine(k)}
<1>4. 0 \in T
  <2>1. Stretch(dst, 0) = {}
    BY <1>2 DEF Stretch
  <2>2. Copied(m, m, dst, src, 0)
    BY <2>1 DEF Copied
  <2> QED
    BY <1>1, <1>2, <1>3, <2>2 DEF Frame
<1>5. ASSUME NEW j \in 0 .. N - 1, j \in T
      PROVE  j + 1 \in T
  <2> DEFINE k == j + 1
             p == PieceStart(k)
             l == PieceLen(num_bytes, k)
  <2>1. k \in 1 .. N /\ k - 1 = j /\ k \in 0 .. N
    BY <1>2
  <2>2. /\ p = Finished(num_bytes, j) /\ p \in Nat /\ l \in 1 .. WordSize
        /\ Finished(num_bytes, k) = p + l /\ p + l \in 0 .. num_bytes
    BY <2>1, Pieces
  <2>3. Fine(j)
    BY <1>5
  <2>4. g[k] = copy_piece(g[j], dst + p, src + p, l)
    BY <1>1, <2>1
  <2> HIDE DEF p, l, k
  <2>5. PICK r : r = mem_read(g[j], src + p, l)
    OBVIOUS
  <2>6. g[k] = IF g[j].status # "run" THEN g[j]
               ELSE IF r.m.status # "run" THEN r.m
               ELSE mem_write(r.m, dst + p, r.val)
    BY <2>4, <2>5 DEF copy_piece
  <2>7. CASE g[j].status # "run"
    <3>1. g[k] = g[j]
      BY <2>6, <2>7
    <3> QED
      BY <2>1, <2>3, <2>7, <3>1 DEF k
  <2>8. CASE g[j].status = "run"
    <3>1. /\ dst + p \in Addresses /\ dst + p + l <= MaxHeap /\ l \in Nat
          /\ src + p \in Addresses /\ src + p + l <= MaxHeap
      BY <1>2, <2>2, Consts DEF Addresses
    <3>2. /\ Good(r.m) /\ Frame(g[j], r.m)
          /\ \A a \in Addresses :
               /\ Paged(g[j], a) => Paged(r.m, a) /\ Byte(r.m, a) = Byte(g[j], a)
               /\ Kept(r.m, a) <=> Kept(g[j], a)
          /\ r.m.status = "run" =>
               /\ Usable(g[j], src + p, l)
               /\ r.val = [i \in 1 .. l |-> Byte(r.m, src + p + i - 1)]
               /\ \A a \in Stretch(src + p, l) : Paged(r.m, a)
      <4>1. Loaded(g[j], src + p, l, r)
        BY <2>2, <2>3, <2>5, <2>8, <3>1, ReadMem
      <4> QED
        BY <4>1 DEF Loaded
    <3>3. Frame(m, r.m)
      BY <2>3, <3>2 DEF Frame
    <3>4. CASE r.m.status # "run"
      <4>1. g[k] = r.m
        BY <2>6, <2>8, <3>4
      <4> QED
        BY <2>1, <3>2, <3>3, <3>4, <4>1 DEF k
    <3>5. CASE r.m.status = "run"
      <4>1. g[k] = mem_write(r.m, dst + p, r.val)
        BY <2>6, <2>8, <3>5
      <4>2. Stretch(src + p, l) \subseteq Addresses /\ Stretch(dst + p, l) \subseteq Addresses
        BY <1>2, <2>2, <3>1 DEF Stretch, Addresses
      <4>3. r.val \in Seq(Bytes) /\ Len(r.val) = l
        <5>1. ASSUME NEW i \in 1 .. l
              PROVE  Byte(r.m, src + p + i - 1) \in Bytes
          <6>1. src + p + i - 1 \in Stretch(src + p, l)
            BY <1>2, <2>2, <3>1 DEF Stretch
          <6> QED
            BY <3>2, <3>5, <4>2, <6>1, ByteType
        <5>2. r.val \in [1 .. l -> Bytes]
          BY <3>2, <3>5, <5>1
        <5> QED
          BY <3>1, <5>2
      <4>4. /\ Good(g[k]) /\ Frame(r.m, g[k])
            /\ g[k].status = "run" => Stored(r.m, g[k], dst + p, l, r.val)
        BY <2>2, <3>1, <3>2, <3>5, <4>1, <4>3, WriteMem
      <4>5. Frame(m, g[k])
        BY <3>3, <4>4 DEF Frame
      <4>6. ASSUME g[k].status = "run"
            PROVE  Copied(m, g[k], dst, src, p + l)
        <5>1. /\ Stretch(dst, p + l) = Stretch(dst, p) \cup Stretch(dst + p, l)
              /\ Stretch(dst, p) \cap Stretch(dst + p, l) = {}
              /\ Stretch(dst, p + l) \subseteq Addresses
          BY <1>2, <2>2, <3>1 DEF Stretch, Addresses
        <5>2. Copied(m, g[j], dst, src, p) /\ Stored(r.m, g[k], dst + p, l, r.val)
          BY <2>2, <2>3, <2>8, <4>4, <4>6
        <5>3. ASSUME NEW a \in Stretch(dst, p + l)
              PROVE  src + (a - dst) \in Addresses \ Stretch(dst, p + l)
          BY <1>2, <2>2, <3>1 DEF Stretch, Addresses
        <5>4. ASSUME NEW a \in Addresses
              PROVE  /\ Paged(m, a) => Paged(g[k], a)
                     /\ Kept(g[k], a) <=> Kept(m, a) \/ a \in Stretch(dst, p + l)
                     /\ a \notin Stretch(dst, p + l) /\ Paged(m, a) =>
                          Byte(g[k], a) = Byte(m, a)
          BY <3>2, <5>1, <5>2 DEF Copied, Stored
        <5>5. ASSUME NEW a \in Stretch(dst, p)
              PROVE  /\ Paged(g[k], a) /\ Paged(g[k], src + (a - dst))
                     /\ Byte(g[k], a) = Byte(g[k], src + (a - dst))
                     /\ Usable(m, src + (a - dst), 1)
          <6> DEFINE b == src + (a - dst)
          <6>1. /\ a \in Addresses /\ b \in Addresses
                /\ a \notin Stretch(dst + p, l) /\ b \notin Stretch(dst + p, l)
            BY <5>1, <5>3
          <6>2. /\ Paged(g[j], a) /\ Paged(g[j], b) /\ Byte(g[j], a) = Byte(g[j], b)
                /\ Usable(m, b, 1)
            BY <5>2 DEF Copied
          <6> HIDE DEF b
          <6>3. /\ Paged(r.m, a) /\ Paged(r.m, b) /\ Byte(r.m, a) = Byte(r.m, b)
            BY <3>2, <6>1, <6>2
          <6>4. /\ Paged(g[k], a) /\ Paged(g[k], b) /\ Byte(g[k], a) = Byte(g[k], b)
            BY <5>2, <6>1, <6>3 DEF Stored
          <6> QED
            BY <6>2, <6>4 DEF b
        <5>6. ASSUME NEW a \in Stretch(dst + p, l)
              PROVE  /\ Paged(g[k], a) /\ Paged(g[k], src + (a - dst))
                     /\ Byte(g[k], a) = Byte(g[k], src + (a - dst))
                     /\ Usable(m, src + (a - dst), 1)
          <6> DEFINE b == src + (a - dst)
                     i == a - (dst + p) + 1
          <6>1. /\ a \in Addresses /\ b \in Addresses /\ b \notin Stretch(dst + p, l)
            BY <5>1, <5>3
          <6>2. /\ b \in Stretch(src + p, l) /\ i \in 1 .. l /\ src + p + i - 1 = b
            BY <1>2, <2>2, <3>1 DEF Stretch
          <6>3. Paged(r.m, b) /\ r.val[i] = Byte(r.m, b)
            <7> HIDE DEF b, i
            <7> QED
              BY <3>2, <3>5, <6>2
          <6>4. Paged(g[k], a) /\ Byte(g[k], a) = r.val[i]
            BY <5>2, <6>1 DEF Stored
          <6>5. Paged(g[k], b) /\ Byte(g[k], b) = Byte(r.m, b)
            <7> HIDE DEF b
            <7> QED
              BY <5>2, <6>1, <6>3 DEF Stored
          <6>6. Usable(m, b, 1)
            <7> HIDE DEF b
            <7>1. src + p \in Nat
              BY <1>2, <2>2
            <7> QED
              BY <2>3, <3>1, <3>2, <3>5, <6>2, <7>1, UsableParts
          <6> QED
            BY <6>3, <6>4, <6>5, <6>6
        <5> QED
          BY <5>1, <5>4, <5>5, <5>6 DEF Copied
      <4> QED
        BY <2>1, <2>2, <4>4, <4>5, <4>6 DEF k
    <3> QED
      BY <3>4, <3>5
  <2> QED
    BY <2>7, <2>8
<1>6. N \in T
  <2> HIDE DEF T, N
  <2>1. \A j \in 0 .. N - 1 : j \in T => j + 1 \in T
    BY <1>5
  <2>2. 0 .. N \subseteq T
    BY <1>2, <1>4, <2>1, UpToBound
  <2> QED
    BY <1>2, <2>2
<1> QED
  BY <1>1, <1>3, <1>6

-----------------------------------------------------------------------------
(***************************************************************************)
(* What depends on the page table alone is the same for the same table.    *)
(***************************************************************************)
LEMMA SameTable ==
  ASSUME NEW m, Good(m), NEW n \in MemType, n.page_table = m.page_table,
         n.page = m.page, n.next_free_page = m.next_free_page,
         n.num_free_pages = m.num_free_pages, n.sparse = m.sparse
  PROVE  /\ Good(n)
         /\ \A a : /\ Paged(n, a) <=> Paged(m, a)
                   /\ Kept(n, a) <=> Kept(m, a)
                   /\ n.dense = m.dense => Byte(n, a) = Byte(m, a)
<1>1. Good(n)
  BY TablesAlike DEF Good
<1>2. ASSUME NEW id
      PROVE  find_page(n, id) = find_page(m, id)
  BY DEF find_page
<1> QED
  BY <1>1, <1>2 DEF Paged, Kept, Byte

(***************************************************************************)
(* With an empty table no address of the sparse heap is written.           *)
(***************************************************************************)
LEMMA EmptyTables ==
  ASSUME NEW m \in MemType, m.page_table = EmptyTable, m.next_free_page = 0,
         m.num_free_pages \in {0, num_pages}
  PROVE  Good(m) /\ \A a \in Addresses : Kept(m, a) <=> ~m.sparse
<1>1. Taken(m) = {}
  BY DEF Taken
<1>2. \A b \in Buckets : DOMAIN m.page_table[b] = {}
  BY DEF EmptyTable
<1>3. num_pages - m.next_free_page = num_pages
  BY Consts
<1>4. Good(m)
  BY <1>1, <1>2, <1>3 DEF Good, Tables
<1>5. \A a \in Addresses : page_id(a) \in PageIds
  BY Consts, PageOf DEF Addresses
<1> QED
  BY <1>1, <1>4, <1>5, FindPage DEF Kept

(***************************************************************************)
(* The memory system that is down is well typed.                           *)
(***************************************************************************)
LEMMA OffType == Off \in MemType
<1>1. /\ 0 \in PageIds /\ 0 \in 0 .. MaxHeap /\ 0 \in 0 .. num_pages
  <2>1. 0 \in Addresses /\ page_id(0) = 0
    <3>1. 0 \div SPARSE_PAGE_SIZE = 0
      BY Consts
    <3> QED
      BY <3>1, Consts DEF Addresses, page_id
  <2> QED
    BY <2>1, PageOf, Consts
<1>2. EmptyTable \in [Buckets -> Seq(Slots)]
  BY DEF EmptyTable
<1>3. 0 \in Bytes
  BY MemlibAssumption
<1>4. [s \in Slots |-> [id |-> 0, initSet |-> {}, bytes |-> [o \in Offsets |-> 0]]]
        \in [Slots -> PageType]
  BY <1>1, <1>3 DEF PageType
<1>5. [a \in Addresses |-> 0] \in [Addresses -> Bytes]
  BY <1>3
<1> QED
  BY <1>1, <1>2, <1>4, <1>5 DEF Off, MemType

(***************************************************************************)
(* f records what was written: where it has a byte, that is the byte kept. *)
(***************************************************************************)
Recorded(m, f) ==
  \A a \in Addresses : /\ f[a] # Unwritten <=> Kept(m, a)
                       /\ Kept(m, a) => Byte(m, a) = f[a]

(***************************************************************************)
(* What flat may be.                                                       *)
(***************************************************************************)
FlatType == [Addresses -> Bytes \cup {Unwritten}]

(***************************************************************************)
(* The dense heap can be accessed up to the break, rounded up to a page of *)
(* the operating system, which is what mem_brk_chunk remembers.            *)
(***************************************************************************)
BreakSound(m) ==
  m.up /\ ~m.sparse =>
    /\ m.mem_brk_chunk = round_address_up(m.mem_brk, mem_pagesize)
    /\ m.writable = 0 .. m.mem_brk_chunk - 1

(***************************************************************************)
(* The inductive invariant of the memory system.                           *)
(***************************************************************************)
Inv ==
  /\ Good(mem) /\ flat \in FlatType /\ BreakSound(mem)
  /\ Running => Recorded(mem, flat)

(***************************************************************************)
(* No byte is taken for one that was never written.                        *)
(***************************************************************************)
LEMMA UnwrittenIsNoByte == Unwritten \notin Bytes
BY MemlibAssumption DEF Unwritten, NIL

(***************************************************************************)
(* The break stays sound when an access is performed.                      *)
(***************************************************************************)
LEMMA FrameBreakSound ==
  ASSUME NEW m, NEW n, BreakSound(m), Frame(m, n)
  PROVE  BreakSound(n)
BY DEF BreakSound, Frame

(***************************************************************************)
(* After a reset nothing is written in the sparse heap, and the dense one  *)
(* is all zero: flat records that.                                         *)
(***************************************************************************)
LEMMA BlankRecorded ==
  ASSUME NEW m, NEW n \in MemType, n.page_table = EmptyTable, n.next_free_page = 0,
         n.num_free_pages \in {0, num_pages}, n.dense = [a \in Addresses |-> 0] \/ n.sparse,
         m.sparse = n.sparse
  PROVE  Good(n) /\ Blank(m) \in FlatType /\ Recorded(n, Blank(m))
<1>1. Good(n) /\ \A a \in Addresses : Kept(n, a) <=> ~n.sparse
  BY EmptyTables
<1>2. 0 \in Bytes /\ 0 # Unwritten
  BY MemlibAssumption, UnwrittenIsNoByte
<1>3. Blank(m) \in FlatType
  BY <1>2 DEF Blank, FlatType
<1>4. ~n.sparse => \A a \in Addresses : Byte(n, a) = 0
  BY DEF Byte
<1>5. \A a \in Addresses : Blank(m)[a] = IF n.sparse THEN Unwritten ELSE 0
  BY DEF Blank
<1>6. ASSUME NEW a \in Addresses
      PROVE  /\ Blank(m)[a] # Unwritten <=> Kept(n, a)
             /\ Kept(n, a) => Byte(n, a) = Blank(m)[a]
  <2>1. CASE n.sparse
    BY <1>1, <1>5, <2>1
  <2>2. CASE ~n.sparse
    BY <1>1, <1>2, <1>4, <1>5, <2>2
  <2> QED
    BY <2>1, <2>2
<1> QED
  BY <1>1, <1>3, <1>6 DEF Recorded

(***************************************************************************)
(* An empty heap needs no page of the operating system.                    *)
(***************************************************************************)
LEMMA RoundZero == round_address_up(0, mem_pagesize) = 0
<1> DEFINE d == mem_pagesize
<1>1. d \in Nat \ {0}
  BY Consts
<1>2. 0 = (d - 1) \div d
  <2>1. d - 1 \in Nat /\ d * 0 <= d - 1 /\ d - 1 < d * 0 + d
    BY <1>1
  <2> HIDE DEF d
  <2> QED
    BY <1>1, <2>1, Division
<1> QED
  BY <1>1, <1>2 DEF round_address_up

(***************************************************************************)
(* The invariant holds at the start.                                       *)
(***************************************************************************)
LEMMA InitHolds == Init => Inv
<1> SUFFICES ASSUME Init PROVE Inv
  OBVIOUS
<1>1. mem = Off /\ flat = Blank(Off)
  BY DEF Init
<1>2. /\ Off \in MemType /\ Off.page_table = EmptyTable /\ Off.next_free_page = 0
      /\ Off.num_free_pages = 0 /\ Off.dense = [a \in Addresses |-> 0] /\ ~Off.up
  BY OffType DEF Off
<1>3. Good(Off) /\ Blank(Off) \in FlatType
  BY <1>2, BlankRecorded
<1> QED
  BY <1>1, <1>2, <1>3 DEF Inv, BreakSound, Running

(***************************************************************************)
(* The end of the process keeps the invariant.                             *)
(***************************************************************************)
LEMMA ExitKeeps ==
  ASSUME Inv, mem' = [mem EXCEPT !.status = "exit"], flat' = flat
  PROVE  Inv'
<1>1. /\ Good(mem') /\ Frame(mem, mem') /\ mem'.status = "exit"
  BY StatusChanged DEF Inv
<1> QED
  BY <1>1, FrameBreakSound DEF Inv, Running

(***************************************************************************)
(* mem_init keeps the invariant: its table is empty.                       *)
(***************************************************************************)
LEMMA MemInitKeeps ==
  ASSUME Inv, NEW do_sparse \in BOOLEAN, MemInit(do_sparse)
  PROVE  Inv'
<1>1. CASE mem' = [mem EXCEPT !.status = "exit"] /\ flat' = flat
  BY <1>1, ExitKeeps
<1>2. CASE mem' = mem_init(mem, do_sparse) /\ flat' = Blank(mem')
  <2>1. mem.checkUB \in BOOLEAN
    BY DEF Inv, Good, MemType
  <2>2. /\ mem' \in MemType /\ mem'.page_table = EmptyTable /\ mem'.next_free_page = 0
        /\ mem'.num_free_pages = 0 /\ mem'.dense = [a \in Addresses |-> 0]
        /\ mem'.mem_brk = 0 /\ mem'.mem_brk_chunk = 0 /\ mem'.writable = {}
    <3>1. Off \in MemType /\ (do_sparse \/ mem.checkUB) \in BOOLEAN
      BY <2>1, OffType
    <3>2. mem' \in MemType
      BY <1>2, <3>1 DEF mem_init, MemType
    <3>3. /\ mem'.page_table = Off.page_table /\ mem'.next_free_page = Off.next_free_page
          /\ mem'.num_free_pages = Off.num_free_pages /\ mem'.dense = Off.dense
          /\ mem'.mem_brk = Off.mem_brk /\ mem'.mem_brk_chunk = Off.mem_brk_chunk
          /\ mem'.writable = Off.writable
      BY <1>2, <3>1 DEF mem_init, MemType
    <3> QED
      BY <3>2, <3>3 DEF Off
  <2>3. Good(mem') /\ Blank(mem') \in FlatType /\ Recorded(mem', Blank(mem'))
    BY <2>2, BlankRecorded
  <2>4. BreakSound(mem')
    BY <2>2, RoundZero DEF BreakSound
  <2> QED
    BY <1>2, <2>3, <2>4 DEF Inv
<1> QED
  BY <1>1, <1>2 DEF MemInit

(***************************************************************************)
(* mem_deinit keeps the invariant.                                         *)
(***************************************************************************)
LEMMA MemDeinitKeeps ==
  ASSUME Inv, MemDeinit
  PROVE  Inv'
<1>1. mem.checkUB \in BOOLEAN /\ mem.sparse \in BOOLEAN
  BY DEF Inv, Good, MemType
<1>2. Off \in MemType /\ Off.page_table = EmptyTable /\ Off.next_free_page = 0
      /\ Off.num_free_pages = 0 /\ Off.up = FALSE
  BY OffType DEF Off
<1>3. /\ mem' \in MemType /\ mem'.page_table = EmptyTable /\ mem'.next_free_page = 0
      /\ mem'.num_free_pages = 0 /\ ~mem'.up
  BY <1>1, <1>2 DEF MemDeinit, mem_deinit, MemType
<1>4. Good(mem')
  BY <1>3, EmptyTables
<1> QED
  BY <1>3, <1>4 DEF Inv, BreakSound, Running, MemDeinit

(***************************************************************************)
(* mem_reset_brk keeps the invariant. The pages keep their bytes but the   *)
(* table forgets them.                                                     *)
(***************************************************************************)
LEMMA MemResetBrkKeeps ==
  ASSUME Inv, MemResetBrk
  PROVE  Inv'
<1>1. CASE mem' = [mem EXCEPT !.status = "exit"] /\ flat' = flat
  BY <1>1, ExitKeeps
<1>2. CASE mem' = mem_reset_brk(mem) /\ flat' = Blank(mem)
  <2>1. mem \in MemType /\ Off \in MemType /\ num_pages \in 0 .. num_pages /\ 0 \in 0 .. MaxHeap
    BY OffType, Consts DEF Inv, Good
  <2>2. EmptyTable \in [Buckets -> Seq(Slots)] /\ [a \in Addresses |-> 0] \in [Addresses -> Bytes]
        /\ 0 \in 0 .. num_pages
    BY MemlibAssumption DEF EmptyTable
  <2>3. CASE mem.sparse
    <3>1. /\ mem' \in MemType /\ mem'.page_table = EmptyTable /\ mem'.next_free_page = 0
          /\ mem'.num_free_pages = num_pages /\ mem'.sparse = mem.sparse
      BY <1>2, <2>1, <2>2, <2>3 DEF mem_reset_brk, MemType
    <3>2. Good(mem') /\ Blank(mem) \in FlatType /\ Recorded(mem', Blank(mem))
      BY <2>3, <3>1, BlankRecorded
    <3> QED
      BY <1>2, <2>3, <3>1, <3>2 DEF Inv, BreakSound
  <2>4. CASE ~mem.sparse
    <3>1. /\ mem' \in MemType /\ mem'.page_table = mem.page_table
          /\ mem'.next_free_page = mem.next_free_page /\ mem'.page = mem.page
          /\ mem'.num_free_pages = mem.num_free_pages /\ mem'.sparse = mem.sparse
          /\ mem'.dense = [a \in Addresses |-> 0] /\ mem'.writable = {}
          /\ mem'.mem_brk = 0 /\ mem'.mem_brk_chunk = 0
      BY <1>2, <2>1, <2>2, <2>4 DEF mem_reset_brk, MemType
    <3>2. Good(mem')
      BY <3>1, SameTable DEF Inv
    <3>3. Blank(mem) \in FlatType /\ Recorded(mem', Blank(mem))
      <4>1. 0 \in Bytes /\ 0 # Unwritten
        BY MemlibAssumption, UnwrittenIsNoByte
      <4> QED
        BY <2>4, <3>1, <4>1 DEF Blank, FlatType, Recorded, Kept, Byte
    <3>4. BreakSound(mem')
      BY <3>1, RoundZero DEF BreakSound
    <3> QED
      BY <1>2, <3>2, <3>3, <3>4 DEF Inv
  <2> QED
    BY <2>3, <2>4
<1> QED
  BY <1>1, <1>2 DEF MemResetBrk

(***************************************************************************)
(* mem_sbrk keeps the invariant: what it makes accessible continues what   *)
(* was accessible, up to the new break rounded up.                         *)
(***************************************************************************)
LEMMA MemSbrkKeeps ==
  ASSUME Inv, NEW incr \in Incrs, MemSbrk(incr)
  PROVE  Inv'
<1> DEFINE brk == mem.mem_brk + incr
           chunk == round_address_up(brk, mem_pagesize)
<1>1. mem \in MemType /\ mem.mem_brk \in 0 .. MaxHeap /\ MaxHeap \in Nat /\ incr \in Int
  BY Consts, MemlibAssumption DEF Inv, Good, MemType
<1>2. brk \in 0 .. MaxHeap /\ mem.mem_brk \in 0 .. brk
  BY <1>1 DEF MemSbrk, mem_sbrk_fails
<1>3. chunk \in brk .. MaxHeap /\ round_address_up(mem.mem_brk, mem_pagesize) <= chunk
  BY <1>2, RoundUp
<1>4. chunk \in 0 .. MaxHeap
  BY <1>1, <1>2, <1>3
<1> HIDE DEF brk, chunk
<1>5. mem.mem_brk_chunk .. chunk - 1 \subseteq Addresses
  BY <1>1, <1>4 DEF Addresses, MemType
<1>6. mem' = [mem EXCEPT !.mem_brk = brk, !.mem_brk_chunk = chunk,
                !.writable = IF mem.sparse THEN @
                             ELSE @ \cup (mem.mem_brk_chunk .. chunk - 1)]
  BY DEF MemSbrk, mem_sbrk, brk, chunk
<1>7. /\ mem' \in MemType /\ mem'.page_table = mem.page_table
      /\ mem'.next_free_page = mem.next_free_page /\ mem'.page = mem.page
      /\ mem'.num_free_pages = mem.num_free_pages /\ mem'.sparse = mem.sparse
      /\ mem'.dense = mem.dense /\ mem'.up = mem.up /\ mem'.status = mem.status
      /\ mem'.mem_brk = brk /\ mem'.mem_brk_chunk = chunk
      /\ ~mem.sparse => mem'.writable = mem.writable \cup (mem.mem_brk_chunk .. chunk - 1)
  <2> DEFINE wr == IF mem.sparse THEN mem.writable
                   ELSE mem.writable \cup (mem.mem_brk_chunk .. chunk - 1)
  <2>1. wr \in SUBSET Addresses
    BY <1>1, <1>5 DEF MemType
  <2>2. mem' = [mem EXCEPT !.mem_brk = brk, !.mem_brk_chunk = chunk, !.writable = wr]
    BY <1>6
  <2>3. ~mem.sparse => wr = mem.writable \cup (mem.mem_brk_chunk .. chunk - 1)
    OBVIOUS
  <2> HIDE DEF wr
  <2> QED
    BY <1>1, <1>2, <1>4, <2>1, <2>2, <2>3 DEF MemType
<1>8. Good(mem') /\ \A a : /\ Paged(mem', a) <=> Paged(mem, a)
                           /\ Kept(mem', a) <=> Kept(mem, a)
                           /\ Byte(mem', a) = Byte(mem, a)
  BY <1>7, SameTable DEF Inv
<1>9. BreakSound(mem')
  <2> SUFFICES ASSUME mem.up, ~mem.sparse
               PROVE  mem'.writable = 0 .. chunk - 1
    BY <1>7 DEF BreakSound, chunk
  <2>1. mem.mem_brk_chunk <= chunk /\ mem.writable = 0 .. mem.mem_brk_chunk - 1
    BY <1>3 DEF Inv, BreakSound
  <2>2. mem.mem_brk_chunk \in Nat /\ chunk \in Nat
    BY <1>1, <1>4 DEF MemType
  <2>3. mem'.writable = mem.writable \cup (mem.mem_brk_chunk .. chunk - 1)
    BY <1>7
  <2> QED
    BY <2>1, <2>2, <2>3
<1>10. flat' = flat /\ Running
  BY DEF MemSbrk
<1> QED
  BY <1>7, <1>8, <1>9, <1>10 DEF Inv, Running, Recorded

(***************************************************************************)
(* A record extended by a store records the memory after the store.        *)
(***************************************************************************)
LEMMA StoredRecorded ==
  ASSUME NEW m, NEW n, NEW addr \in Nat, NEW len \in Nat, NEW w, NEW f, NEW g,
         addr + len <= MaxHeap, Good(m), Good(n), f \in FlatType, Recorded(m, f),
         Stored(m, n, addr, len, w), \A i \in 1 .. len : w[i] \in Bytes,
         g = [a \in Addresses |-> IF a \in addr .. addr + len - 1
                                  THEN w[a - addr + 1] ELSE f[a]]
  PROVE  g \in FlatType /\ Recorded(n, g)
<1>1. \A a \in addr .. addr + len - 1 : a - addr + 1 \in 1 .. len
  OBVIOUS
<1>2. ASSUME NEW a \in Addresses
      PROVE  /\ g[a] \in Bytes \cup {Unwritten}
             /\ g[a] # Unwritten <=> Kept(n, a)
             /\ Kept(n, a) => Byte(n, a) = g[a]
  <2>1. CASE a \in Stretch(addr, len)
    <3>1. g[a] = w[a - addr + 1] /\ w[a - addr + 1] \in Bytes
      BY <1>1, <2>1 DEF Stretch
    <3> QED
      BY <2>1, <3>1, UnwrittenIsNoByte DEF Stored
  <2>2. CASE a \notin Stretch(addr, len)
    <3>1. g[a] = f[a] /\ f[a] \in Bytes \cup {Unwritten}
      BY <2>2 DEF Stretch, FlatType
    <3>2. Kept(m, a) => Paged(m, a)
      BY DEF Kept, Paged
    <3>3. /\ Kept(n, a) <=> Kept(m, a)
          /\ Paged(m, a) => Byte(n, a) = Byte(m, a)
      BY <2>2 DEF Stored
    <3>4. /\ f[a] # Unwritten <=> Kept(m, a)
          /\ Kept(m, a) => Byte(m, a) = f[a]
      BY DEF Recorded
    <3> QED
      BY <3>1, <3>2, <3>3, <3>4
  <2> QED
    BY <2>1, <2>2
<1>3. g \in FlatType
  BY <1>2 DEF FlatType
<1> QED
  BY <1>2, <1>3 DEF Recorded

(***************************************************************************)
(* mem_write keeps the invariant.                                          *)
(***************************************************************************)
LEMMA MemWriteKeeps ==
  ASSUME Inv, NEW addr \in Addresses, NEW val \in Values, addr + Len(val) <= MaxHeap,
         MemWrite(addr, val)
  PROVE  Inv'
<1>1. Good(mem) /\ mem.status = "run" /\ Running /\ Recorded(mem, flat) /\ flat \in FlatType
  BY DEF Inv, MemWrite, Running
<1>2. val \in Seq(Bytes) /\ Len(val) \in 1 .. WordSize
  BY MemlibAssumption
<1>3. mem' = mem_write(mem, addr, val)
  BY DEF MemWrite
<1>4. /\ Good(mem') /\ Frame(mem, mem')
      /\ mem'.status = "run" => Stored(mem, mem', addr, Len(val), val)
  BY <1>1, <1>2, <1>3, WriteMem
<1>5. BreakSound(mem')
  BY <1>4, FrameBreakSound DEF Inv
<1>6. CASE mem'.status = "run"
  <2>1. flat' = [a \in Addresses |-> IF a \in addr .. addr + Len(val) - 1
                                     THEN val[a - addr + 1] ELSE flat[a]]
    BY <1>6 DEF MemWrite, Wrote
  <2>2. \A i \in 1 .. Len(val) : val[i] \in Bytes
    BY <1>2
  <2>3. addr \in Nat /\ Len(val) \in Nat
    BY <1>2, Consts DEF Addresses
  <2>4. flat' \in FlatType /\ Recorded(mem', flat')
    BY <1>1, <1>4, <1>6, <2>1, <2>2, <2>3, StoredRecorded
  <2> QED
    BY <1>4, <1>5, <2>4 DEF Inv
<1>7. CASE mem'.status # "run"
  <2>1. flat' = flat
    BY <1>7 DEF MemWrite
  <2> QED
    BY <1>1, <1>4, <1>5, <1>7, <2>1 DEF Inv, Running
<1> QED
  BY <1>6, <1>7

(***************************************************************************)
(* mem_read keeps the invariant, although it may take a page.              *)
(***************************************************************************)
LEMMA MemReadKeeps ==
  ASSUME Inv, NEW addr \in Addresses, NEW len \in 1 .. WordSize, addr + len <= MaxHeap,
         MemRead(addr, len)
  PROVE  Inv'
<1>1. Good(mem) /\ mem.status = "run" /\ Running /\ Recorded(mem, flat) /\ flat \in FlatType
  BY DEF Inv, MemRead, Running
<1>2. PICK r : r = mem_read(mem, addr, len)
  OBVIOUS
<1>3. mem' = r.m /\ flat' = flat
  BY <1>2 DEF MemRead
<1>4. /\ Good(r.m) /\ Frame(mem, r.m)
      /\ \A a \in Addresses :
           /\ Paged(mem, a) => Paged(r.m, a) /\ Byte(r.m, a) = Byte(mem, a)
           /\ Kept(r.m, a) <=> Kept(mem, a)
  <2>1. Loaded(mem, addr, len, r)
    BY <1>1, <1>2, ReadMem
  <2> QED
    BY <2>1 DEF Loaded
<1>5. BreakSound(r.m)
  BY <1>4, FrameBreakSound DEF Inv
<1>6. Recorded(r.m, flat)
  <2>1. \A a : Kept(mem, a) => Paged(mem, a)
    BY DEF Kept, Paged
  <2>2. ASSUME NEW a \in Addresses
        PROVE  /\ flat[a] # Unwritten <=> Kept(r.m, a)
               /\ Kept(r.m, a) => Byte(r.m, a) = flat[a]
    <3>1. /\ flat[a] # Unwritten <=> Kept(mem, a)
          /\ Kept(mem, a) => Byte(mem, a) = flat[a]
      BY <1>1 DEF Recorded
    <3> QED
      BY <1>4, <2>1, <3>1
  <2> QED
    BY <2>2 DEF Recorded
<1> QED
  BY <1>1, <1>3, <1>4, <1>5, <1>6 DEF Inv

(***************************************************************************)
(* mem_memset keeps the invariant.                                         *)
(***************************************************************************)
LEMMA MemMemsetKeeps ==
  ASSUME Inv, NEW dst \in Addresses, NEW c \in Bytes, NEW n \in CopySizes,
         dst + n <= MaxHeap, MemMemset(dst, c, n)
  PROVE  Inv'
<1>1. Good(mem) /\ mem.status = "run" /\ Running /\ Recorded(mem, flat) /\ flat \in FlatType
  BY DEF Inv, MemMemset, Running
<1>2. n \in Nat /\ dst \in Nat
  BY MemlibAssumption, Consts DEF Addresses
<1> DEFINE w == [i \in 1 .. n |-> c]
<1>3. Len(w) = n /\ \A i \in 1 .. n : w[i] \in Bytes
  BY <1>2
<1>4. mem' = mem_memset(mem, dst, c, n)
  BY DEF MemMemset
<1>5. /\ Good(mem') /\ Frame(mem, mem')
      /\ mem'.status = "run" => Stored(mem, mem', dst, n, w)
  BY <1>1, <1>2, <1>4, SetMem
<1>6. BreakSound(mem')
  BY <1>5, FrameBreakSound DEF Inv
<1>7. CASE mem'.status = "run"
  <2>1. flat' = [a \in Addresses |-> IF a \in dst .. dst + n - 1
                                     THEN w[a - dst + 1] ELSE flat[a]]
    <3>1. flat' = Wrote(dst, w)
      BY <1>7 DEF MemMemset
    <3> HIDE DEF w
    <3> QED
      BY <1>3, <3>1 DEF Wrote
  <2> HIDE DEF w
  <2>2. flat' \in FlatType /\ Recorded(mem', flat')
    BY <1>1, <1>2, <1>3, <1>5, <1>7, <2>1, StoredRecorded
  <2> QED
    BY <1>5, <1>6, <2>2 DEF Inv
<1>8. CASE mem'.status # "run"
  <2>1. flat' = flat
    BY <1>8 DEF MemMemset
  <2> QED
    BY <1>1, <1>5, <1>6, <1>8, <2>1 DEF Inv, Running
<1> QED
  BY <1>7, <1>8

(***************************************************************************)
(* Turning the check for undefined behaviour on or off keeps the           *)
(* invariant.                                                              *)
(***************************************************************************)
LEMMA SetUBCheckKeeps ==
  ASSUME Inv, NEW val \in BOOLEAN, SetUBCheck(val)
  PROVE  Inv'
<1>1. /\ mem' \in MemType /\ mem'.page_table = mem.page_table
      /\ mem'.next_free_page = mem.next_free_page /\ mem'.page = mem.page
      /\ mem'.num_free_pages = mem.num_free_pages /\ mem'.sparse = mem.sparse
      /\ mem'.dense = mem.dense /\ mem'.up = mem.up /\ mem'.status = mem.status
      /\ mem'.mem_brk = mem.mem_brk /\ mem'.mem_brk_chunk = mem.mem_brk_chunk
      /\ mem'.writable = mem.writable
  BY DEF SetUBCheck, Inv, Good, MemType
<1>2. Good(mem') /\ \A a : /\ Kept(mem', a) <=> Kept(mem, a)
                           /\ Byte(mem', a) = Byte(mem, a)
  BY <1>1, SameTable DEF Inv
<1>3. flat' = flat /\ Running
  BY DEF SetUBCheck
<1> QED
  BY <1>1, <1>2, <1>3 DEF Inv, Running, Recorded, BreakSound

(***************************************************************************)
(* Without the check a read returns the byte kept, written or not.         *)
(***************************************************************************)
LEMMA PeekIsByte ==
  ASSUME NEW m, Good(m), m.status = "run", NEW a \in Addresses, Usable(m, a, 1),
         Paged(m, a)
  PROVE  Peek(m, a) = Byte(m, a)
<1>1. PICK q : q = [m EXCEPT !.checkUB = FALSE]
  OBVIOUS
<1>2. /\ q \in MemType /\ q.page_table = m.page_table /\ q.page = m.page
      /\ q.next_free_page = m.next_free_page /\ q.num_free_pages = m.num_free_pages
      /\ q.sparse = m.sparse /\ q.dense = m.dense /\ q.status = m.status
      /\ q.mem_brk = m.mem_brk /\ q.writable = m.writable /\ q.checkUB = FALSE
  BY <1>1 DEF Good, MemType
<1>3. Good(q) /\ \A b : /\ Paged(q, b) <=> Paged(m, b)
                        /\ Byte(q, b) = Byte(m, b)
  BY <1>2, SameTable
<1>4. Usable(q, a, 1)
  BY <1>2 DEF Usable, Emulated, Accessible
<1>5. PICK r : r = mem_read(q, a, 1)
  OBVIOUS
<1>6. /\ 1 \in 1 .. WordSize /\ a + 1 <= MaxHeap /\ Stretch(a, 1) = {a}
  BY Consts DEF Addresses, Stretch
<1>7. /\ \A b \in Addresses : Paged(q, b) => Paged(r.m, b) /\ Byte(r.m, b) = Byte(q, b)
      /\ r.m.status = "run" => r.val = [j \in 1 .. 1 |-> Byte(r.m, a + j - 1)]
      /\ /\ Usable(q, a, 1)
         /\ \A b \in Stretch(a, 1) : Paged(q, b) /\ (q.checkUB => Kept(q, b))
         => r.m.status = "run"
  <2>1. Loaded(q, a, 1, r)
    BY <1>2, <1>3, <1>5, <1>6, ReadMem
  <2> QED
    BY <2>1 DEF Loaded
<1>8. r.m.status = "run"
  BY <1>2, <1>3, <1>4, <1>6, <1>7
<1>9. r.val[1] = Byte(r.m, a)
  <2>1. a + 1 - 1 = a
    BY Consts DEF Addresses
  <2> QED
    BY <1>7, <1>8, <2>1
<1>10. Byte(r.m, a) = Byte(m, a)
  BY <1>3, <1>7
<1> QED
  BY <1>1, <1>5, <1>9, <1>10 DEF Peek

(***************************************************************************)
(* mem_memcpy keeps the invariant, also when it copies bytes that were     *)
(* never written.                                                          *)
(***************************************************************************)
LEMMA MemMemcpyKeeps ==
  ASSUME Inv, NEW dst \in Addresses, NEW src \in Addresses, NEW n \in CopySizes,
         dst + n <= MaxHeap, src + n <= MaxHeap, MemMemcpy(dst, src, n)
  PROVE  Inv'
<1>1. Good(mem) /\ mem.status = "run" /\ Running /\ Recorded(mem, flat) /\ flat \in FlatType
  BY DEF Inv, MemMemcpy, Running
<1>2. n \in Nat /\ dst \in Nat /\ src \in Nat
  BY MemlibAssumption, Consts DEF Addresses
<1>3. mem' = mem_memcpy(mem, dst, src, n) /\ (src + n <= dst \/ dst + n <= src)
  BY DEF MemMemcpy
<1>4. /\ Good(mem') /\ Frame(mem, mem')
      /\ mem'.status = "run" => Copied(mem, mem', dst, src, n)
  BY <1>1, <1>2, <1>3, CopyMem
<1>5. BreakSound(mem')
  BY <1>4, FrameBreakSound DEF Inv
<1>6. CASE mem'.status = "run"
  <2> DEFINE w == [i \in 1 .. n |->
                    IF flat[src + i - 1] # Unwritten THEN flat[src + i - 1]
                    ELSE Peek(mem', src + i - 1)]
  <2>1. flat' = Wrote(dst, w)
    BY <1>6 DEF MemMemcpy
  <2>2. Copied(mem, mem', dst, src, n)
    BY <1>4, <1>6
  <2>3. ASSUME NEW i \in 1 .. n
        PROVE  /\ w[i] = Byte(mem', dst + (i - 1)) /\ w[i] \in Bytes
    <3> DEFINE a == dst + (i - 1)
               b == src + (i - 1)
    <3>1. /\ a \in Stretch(dst, n) /\ a \in Addresses /\ b \in Addresses
          /\ b \notin Stretch(dst, n) /\ src + (a - dst) = b /\ src + i - 1 = b
      BY <1>2, <1>3, Consts DEF Stretch, Addresses
    <3>2. w[i] = IF flat[b] # Unwritten THEN flat[b] ELSE Peek(mem', b)
      BY <3>1
    <3> HIDE DEF a, b, w
    <3>3. /\ Paged(mem', a) /\ Paged(mem', b) /\ Byte(mem', a) = Byte(mem', b)
          /\ Usable(mem, b, 1)
      BY <2>2, <3>1 DEF Copied
    <3>4. Byte(mem', a) \in Bytes
      BY <1>4, <3>1, <3>3, ByteType
    <3>5. w[i] = Byte(mem', b)
      <4>1. CASE flat[b] # Unwritten
        <5>1. Kept(mem, b) /\ Byte(mem, b) = flat[b]
          BY <1>1, <3>1, <4>1 DEF Recorded
        <5>2. Paged(mem, b)
          BY <5>1 DEF Kept, Paged
        <5>3. Byte(mem', b) = Byte(mem, b)
          BY <2>2, <3>1, <5>2 DEF Copied
        <5> QED
          BY <3>2, <4>1, <5>1, <5>3
      <4>2. CASE flat[b] = Unwritten
        <5>1. Usable(mem', b, 1)
          BY <1>4, <3>3 DEF Frame, Usable, Emulated, Accessible
        <5>2. Peek(mem', b) = Byte(mem', b)
          BY <1>4, <1>6, <3>1, <3>3, <5>1, PeekIsByte
        <5> QED
          BY <3>2, <4>2, <5>2
      <4> QED
        BY <4>1, <4>2
    <3> QED
      BY <3>3, <3>4, <3>5 DEF a
  <2>4. Len(w) = n
    BY <1>2
  <2> HIDE DEF w
  <2>5. flat' = [a \in Addresses |-> IF a \in dst .. dst + n - 1
                                     THEN w[a - dst + 1] ELSE flat[a]]
    BY <2>1, <2>4 DEF Wrote
  <2>6. Stored(mem, mem', dst, n, w)
    <3>1. ASSUME NEW a \in Stretch(dst, n)
          PROVE  Byte(mem', a) = w[a - dst + 1]
      <4>1. a - dst + 1 \in 1 .. n /\ dst + ((a - dst + 1) - 1) = a
        BY <1>2 DEF Stretch
      <4> QED
        BY <2>3, <4>1
    <3> QED
      BY <2>2, <3>1 DEF Copied, Stored
  <2>7. flat' \in FlatType /\ Recorded(mem', flat')
    BY <1>1, <1>2, <1>4, <2>3, <2>5, <2>6, StoredRecorded
  <2> QED
    BY <1>4, <1>5, <2>7 DEF Inv
<1>7. CASE mem'.status # "run"
  <2>1. flat' = flat
    BY <1>7 DEF MemMemcpy
  <2> QED
    BY <1>1, <1>4, <1>5, <1>7, <2>1 DEF Inv, Running
<1> QED
  BY <1>6, <1>7

(***************************************************************************)
(* Every step keeps the invariant.                                         *)
(***************************************************************************)
LEMMA NextKeeps == Inv /\ [Next]_vars => Inv'
<1> SUFFICES ASSUME Inv, [Next]_vars PROVE Inv'
  OBVIOUS
<1>1. CASE UNCHANGED vars
  BY <1>1 DEF vars, Inv, Running
<1>2. ASSUME NEW incr \in Incrs, MemSbrkFails(incr)
      PROVE  Inv'
  BY <1>2 DEF MemSbrkFails, vars, Inv, Running
<1> QED
  BY <1>1, <1>2, MemInitKeeps, MemDeinitKeeps, MemResetBrkKeeps, MemSbrkKeeps,
     MemWriteKeeps, MemReadKeeps, MemMemsetKeeps, MemMemcpyKeeps, SetUBCheckKeeps
     DEF Next

(***************************************************************************)
(* The invariant holds in every reachable state.                           *)
(***************************************************************************)
THEOREM Invariance == Spec => []Inv
<1>1. Init => Inv
  BY InitHolds
<1>2. Inv /\ [Next]_vars => Inv'
  BY NextKeeps
<1> QED
  BY <1>1, <1>2, PTL DEF Spec

(***************************************************************************)
(* The globals of memlib.c always have their types: the break stays below  *)
(* the limit, a chain never leaves the page structures.                    *)
(***************************************************************************)
THEOREM TypeCorrect == Spec => []TypeOK
<1>1. Inv => TypeOK
  BY DEF Inv, Good, MemType, PageType, FlatType, TypeOK
<1> QED
  BY <1>1, Invariance, PTL

(***************************************************************************)
(* The hash table of the emulation is always sound: each page taken is on  *)
(* the chain of its own bucket and no page of the heap is held twice,      *)
(* whatever accesses took the pages and whenever the heap was reset.       *)
(***************************************************************************)
THEOREM PageTableSound == Spec => []PagesSound
<1>1. ASSUME Inv PROVE PagesSound
  <2> DEFINE chained(b) == {mem.page_table[b][k] : k \in DOMAIN mem.page_table[b]}
  <2>1. mem \in MemType /\ Tables(mem)
    BY <1>1 DEF Inv, Good
  <2>2. ASSUME NEW b \in Buckets, NEW s \in chained(b)
        PROVE  s \in Taken(mem) /\ mem.page[s].id % num_buckets = b
    BY <2>1 DEF Tables
  <2>3. ASSUME NEW s \in Taken(mem)
        PROVE  \E b \in Buckets : s \in chained(b)
    <3>1. s \in Slots /\ mem.page[s].id \in PageIds
      BY <2>1, Consts DEF Taken, Slots, MemType, PageType
    <3>2. mem.page[s].id % num_buckets \in Buckets
      BY <3>1, BucketOf
    <3> QED
      BY <2>1, <3>2 DEF Tables
  <2>4. UNION {chained(b) : b \in Buckets} = Taken(mem)
    <3> HIDE DEF chained
    <3> QED
      BY <2>2, <2>3
  <2> QED
    BY <2>1, <2>2, <2>4 DEF PagesSound, Tables, Taken
<1> QED
  BY <1>1, Invariance, PTL

(***************************************************************************)
(* In the dense heap the bytes that can be accessed are always those below *)
(* the break, rounded up to a page, however the increments of mem_sbrk     *)
(* fall.                                                                   *)
(***************************************************************************)
THEOREM BreakUsable == Spec => []BreakIsAccessible
<1>1. Inv => BreakIsAccessible
  BY DEF Inv, BreakSound, BreakIsAccessible
<1> QED
  BY <1>1, Invariance, PTL

(***************************************************************************)
(* The memory always reads back what was last written to it, by words or   *)
(* through mem_memset and mem_memcpy, across page boundaries and hash      *)
(* collisions and after resets; with the check on, a read goes through     *)
(* exactly when every byte of it was written.                              *)
(***************************************************************************)
THEOREM HeapReadsBack == Spec => []ReadsBack
<1>1. ASSUME Inv PROVE ReadsBack
  <2> SUFFICES ASSUME Running, NEW addr \in Addresses, NEW len \in 1 .. WordSize,
                      NEW r, r = mem_read([mem EXCEPT !.checkUB = TRUE], addr, len),
                      addr + len <= mem.mem_brk
               PROVE  /\ r.m.status = "run" <=>
                           \A a \in Stretch(addr, len) : flat[a] # Unwritten
                      /\ (\A a \in Stretch(addr, len) : flat[a] # Unwritten) =>
                           r.val = [i \in 1 .. len |-> flat[addr + i - 1]]
    BY DEF ReadsBack, Stretch
  <2>1. PICK q : q = [mem EXCEPT !.checkUB = TRUE]
    OBVIOUS
  <2>2. /\ q \in MemType /\ q.page_table = mem.page_table /\ q.page = mem.page
        /\ q.next_free_page = mem.next_free_page /\ q.num_free_pages = mem.num_free_pages
        /\ q.sparse = mem.sparse /\ q.dense = mem.dense /\ q.status = "run"
        /\ q.mem_brk = mem.mem_brk /\ q.writable = mem.writable /\ q.checkUB = TRUE
    BY <1>1, <2>1 DEF Inv, Good, MemType, Running
  <2>3. Good(mem) /\ Recorded(mem, flat)
    BY <1>1 DEF Inv
  <2>4. Good(q)
    BY <2>2, <2>3, SameTable
  <2>5. \A a : /\ Paged(q, a) <=> Paged(mem, a)
               /\ Kept(q, a) <=> Kept(mem, a)
               /\ Byte(q, a) = Byte(mem, a)
    BY <2>2, <2>3, SameTable
  <2>6. /\ addr \in Nat /\ len \in Nat /\ addr + len <= MaxHeap
        /\ Stretch(addr, len) \subseteq Addresses /\ mem.mem_brk \in 0 .. MaxHeap
    <3>1. mem.mem_brk \in 0 .. MaxHeap
      BY <2>3 DEF Good, MemType
    <3> QED
      BY <3>1, Consts DEF Addresses, Stretch
  <2>7. Usable(q, addr, len)
    <3>1. CASE mem.sparse
      BY <2>2, <3>1 DEF Usable, Emulated
    <3>2. CASE ~mem.sparse
      <4>1. round_address_up(mem.mem_brk, mem_pagesize) \in mem.mem_brk .. MaxHeap
        BY <2>6, RoundUp
      <4>2. mem.writable = 0 .. round_address_up(mem.mem_brk, mem_pagesize) - 1
        BY <1>1, <3>2 DEF Inv, BreakSound, Running
      <4>3. \A a \in addr .. addr + len - 1 : a \in mem.writable
        <5>1. PICK R : R = round_address_up(mem.mem_brk, mem_pagesize)
          OBVIOUS
        <5>2. R \in mem.mem_brk .. MaxHeap /\ mem.writable = 0 .. R - 1
          BY <4>1, <4>2, <5>1
        <5>3. mem.mem_brk \in Nat /\ R \in Nat /\ addr + len <= R
          BY <2>6, <5>2, Consts
        <5> QED
          BY <2>6, <5>2, <5>3
      <4> QED
        BY <2>2, <3>2, <4>3 DEF Usable, Accessible
    <3> QED
      BY <3>1, <3>2
  <2>8. /\ \A a \in Addresses : Paged(q, a) => Paged(r.m, a) /\ Byte(r.m, a) = Byte(q, a)
        /\ r.m.status = "run" =>
             /\ r.val = [j \in 1 .. len |-> Byte(r.m, addr + j - 1)]
             /\ q.checkUB => \A a \in Stretch(addr, len) : Kept(q, a)
        /\ /\ Usable(q, addr, len)
           /\ \A a \in Stretch(addr, len) : Paged(q, a) /\ (q.checkUB => Kept(q, a))
           => r.m.status = "run"
    <3>1. r = mem_read(q, addr, len)
      BY <2>1
    <3>2. Loaded(q, addr, len, r)
      BY <2>2, <2>4, <2>6, <3>1, ReadMem
    <3> QED
      BY <3>2 DEF Loaded
  <2>9. ASSUME NEW a \in Stretch(addr, len)
        PROVE  /\ flat[a] # Unwritten <=> Kept(q, a)
               /\ Kept(q, a) => Paged(q, a) /\ Byte(q, a) = flat[a]
    <3>1. flat[a] # Unwritten <=> Kept(mem, a)
      BY <2>3, <2>6 DEF Recorded
    <3>2. Kept(mem, a) => Byte(mem, a) = flat[a]
      BY <2>3, <2>6 DEF Recorded
    <3>3. Kept(q, a) => Paged(q, a)
      BY DEF Kept, Paged
    <3> QED
      BY <2>5, <3>1, <3>2, <3>3
  <2>10. r.m.status = "run" <=> \A a \in Stretch(addr, len) : flat[a] # Unwritten
    BY <2>2, <2>7, <2>8, <2>9
  <2>11. ASSUME \A a \in Stretch(addr, len) : flat[a] # Unwritten
         PROVE  r.val = [i \in 1 .. len |-> flat[addr + i - 1]]
    <3>1. ASSUME NEW i \in 1 .. len
          PROVE  Byte(r.m, addr + i - 1) = flat[addr + i - 1]
      <4>1. addr + i - 1 \in Stretch(addr, len)
        BY <2>6 DEF Stretch
      <4> QED
        BY <2>6, <2>8, <2>9, <2>11, <4>1
    <3> QED
      BY <2>8, <2>10, <2>11, <3>1
  <2> QED
    BY <2>10, <2>11
<1> QED
  BY <1>1, Invariance, PTL
=============================================================================
