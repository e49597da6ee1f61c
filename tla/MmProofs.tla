-------------------------------- MODULE MmProofs ------------------------------
(***************************************************************************)
(* Proofs about Mm, the word-level allocator of mm.c: its boundary tags,   *)
(* its free lists in the payloads of free blocks, and its clients' data.   *)
(*                                                                         *)
(* The argument goes through BlockHeap, where the blocks are records and   *)
(* the lists are sets, and whose well-formedness is proved inductive in    *)
(* BlockHeapProofs.  Here every function of mm.c is shown to do to the     *)
(* words what the function of the same name in BlockHeap does to the       *)
(* blocks (the lemmas named ...Shows), without touching the payload of a   *)
(* block in use.  The words read back as the blocks they show, so the      *)
(* invariant needs no variable that the program does not have.             *)
(***************************************************************************)
EXTENDS Mm, NatFacts, FiniteSetTheorems, TLAPS

(***************************************************************************)
(* The block-level allocator of BlockHeap with its proved lemmas, read at  *)
(* the state that BlockView computes from the words of the heap. The       *)
(* lemmas used here are about the operators, so the request sets are left  *)
(* empty.                                                                  *)
(***************************************************************************)
BH == INSTANCE BlockHeapProofs
        WITH hp <- BlockView(heap),
             live <- {[ptr |-> r.ptr, size |-> r.size] : r \in live},
             Sizes <- {}, ReallocSizes <- {}, CallocArgs <- {}

-----------------------------------------------------------------------------
(***************************************************************************)
(* The values of a word_t.                                                 *)
(***************************************************************************)
Words == 0 .. SIZE_MOD - 1

(***************************************************************************)
(* The type of the heap: the words, the break, and the three globals of    *)
(* mm.c.                                                                   *)
(***************************************************************************)
HeapRec == [mem : [Addrs -> Words], brk : 0 .. MaxHeap, heap_start : {NULL, wsize},
            seg_list : [Classes -> Addrs], mini_list : Addrs]

(***************************************************************************)
(* The numbers of the module and what the constants are assumed to be.     *)
(***************************************************************************)
LEMMA Consts ==
  /\ wsize = 8 /\ dsize = 16 /\ min_block_size = 16 /\ NULL = 0
  /\ PrevField = 8 /\ NextField = 16 /\ MiniNextField = 8 /\ Classes = 0 .. 13
  /\ SIZE_MOD \in Nat /\ SIZE_MOD >= 64 /\ SIZE_MOD % 16 = 0
  /\ MaxHeap \in Nat /\ MaxHeap % 16 = 0 /\ MaxHeap >= 16 /\ 2 * MaxHeap < SIZE_MOD
  /\ chunksize \in Nat /\ chunksize % 16 = 0 /\ chunksize > 0 /\ 2 * chunksize < SIZE_MOD
BY SizeModAssumption, HeapAssumption
   DEF wsize, dsize, min_block_size, NULL, PrevField, NextField, MiniNextField, Classes, LENGTH

(***************************************************************************)
(* The assumptions of BlockHeap follow from those of this module, so its   *)
(* lemmas can be cited.                                                    *)
(***************************************************************************)
LEMMA Premises ==
  /\ BH!SizeModAssumption /\ BH!BlockHeapAssumption /\ BH!RequestAssumption
BY Consts DEF BH!SizeModAssumption, BH!BlockHeapAssumption, BH!RequestAssumption

(***************************************************************************)
(* An address is a multiple of 8 below the end of the heap.                *)
(***************************************************************************)
LEMMA AddrFact ==
  ASSUME NEW a
  PROVE  a \in Addrs <=> a \in Nat /\ a % 8 = 0 /\ a < MaxHeap
<1>1. ASSUME a \in Addrs
      PROVE  a \in Nat /\ a % 8 = 0 /\ a < MaxHeap
  <2>1. PICK i \in 0 .. (MaxHeap \div 8) - 1 : a = 8 * i
    BY <1>1 DEF Addrs, wsize
  <2> QED
    BY <2>1, Consts
<1>2. ASSUME a \in Nat, a % 8 = 0, a < MaxHeap
      PROVE  a \in Addrs
  <2>1. a \div 8 \in 0 .. (MaxHeap \div 8) - 1 /\ a = 8 * (a \div 8)
    BY <1>2, Consts
  <2> QED
    BY <2>1 DEF Addrs, wsize
<1> QED
  BY <1>1, <1>2

-----------------------------------------------------------------------------
(***************************************************************************)
(* u and h agree on everything but the words.                              *)
(***************************************************************************)
SameGlobals(u, h) ==
  /\ u.brk = h.brk /\ u.heap_start = h.heap_start
  /\ u.seg_list = h.seg_list /\ u.mini_list = h.mini_list

(***************************************************************************)
(* u is h with the word at a set to w.                                     *)
(***************************************************************************)
Stored(u, h, a, w) ==
  /\ u \in HeapRec /\ SameGlobals(u, h)
  /\ u.mem[a] = w /\ \A x \in Addrs : x # a => u.mem[x] = h.mem[x]

(***************************************************************************)
(* What one store does.                                                    *)
(***************************************************************************)
LEMMA StoreFact ==
  ASSUME NEW h \in HeapRec, NEW a \in Addrs, NEW w \in Words, NEW u, u = Store(h, a, w)
  PROVE  Stored(u, h, a, w)
<1>1. u = [h EXCEPT !.mem[a] = w]
  BY DEF Store, HeapRec
<1>2. u \in HeapRec /\ SameGlobals(u, h)
  BY <1>1 DEF HeapRec, SameGlobals
<1>3. u.mem = [h.mem EXCEPT ![a] = w]
  BY <1>1 DEF HeapRec
<1>4. h.mem \in [Addrs -> Words]
  BY DEF HeapRec
<1> QED
  BY <1>2, <1>3, <1>4 DEF Stored

(***************************************************************************)
(* What one load reads.                                                    *)
(***************************************************************************)
LEMMA WordFact ==
  ASSUME NEW h \in HeapRec, NEW a \in Addrs
  PROVE  Word(h, a) = h.mem[a] /\ h.mem[a] \in Words /\ h.mem[a] \in Nat
<1>1. h.mem \in [Addrs -> Words]
  BY DEF HeapRec
<1>2. h.mem[a] \in Words
  BY <1>1
<1>3. h.mem[a] \in Nat
  BY <1>2, Consts DEF Words
<1> QED
  BY <1>1, <1>2, <1>3 DEF Word

-----------------------------------------------------------------------------
(***************************************************************************)
(* The four things a header word records.                                  *)
(***************************************************************************)
Hdrs == [size : Nat, alloc : BOOLEAN, prev_alloc : BOOLEAN, prev_mini : BOOLEAN]

(***************************************************************************)
(* pack_all applied to a header record.                                    *)
(***************************************************************************)
Pack(r) == pack_all(r.size, r.alloc, r.prev_alloc, r.prev_mini)

(***************************************************************************)
(* A header record.                                                        *)
(***************************************************************************)
Hdr(size, alloc, prev_alloc, prev_mini) ==
  [size |-> size, alloc |-> alloc, prev_alloc |-> prev_alloc, prev_mini |-> prev_mini]

(***************************************************************************)
(* The fields of a header record.                                          *)
(***************************************************************************)
LEMMA HdrFields ==
  ASSUME NEW s \in Nat, NEW a \in BOOLEAN, NEW p \in BOOLEAN, NEW m \in BOOLEAN
  PROVE  /\ Hdr(s, a, p, m) \in Hdrs /\ Hdr(s, a, p, m).size = s
         /\ Hdr(s, a, p, m).alloc = a /\ Hdr(s, a, p, m).prev_alloc = p
         /\ Hdr(s, a, p, m).prev_mini = m
BY DEF Hdr, Hdrs

(***************************************************************************)
(* w is a multiple s of 16 with the low bits x, y, z.                      *)
(***************************************************************************)
SumBits(w, s, x, y, z) ==
  /\ w \in Nat /\ w - (w % 16) = s
  /\ (w \div 1) % 2 = x /\ (w \div 2) % 2 = y /\ (w \div 4) % 2 = z

(***************************************************************************)
(* The low four bits of a multiple of 16 are free to hold the flags.       *)
(***************************************************************************)
LEMMA BitsOfSum ==
  ASSUME NEW s \in Nat, s % 16 = 0, NEW x \in 0 .. 1, NEW y \in 0 .. 1, NEW z \in 0 .. 1,
         NEW w, w = s + x + 2 * y + 4 * z
  PROVE  SumBits(w, s, x, y, z)
<1>1. PICK k \in Nat : s = 16 * k
  <2>1. s = 16 * (s \div 16) /\ s \div 16 \in Nat
    OBVIOUS
  <2> QED
    BY <2>1
<1>2. w = 16 * k + x + 2 * y + 4 * z /\ w \in Nat
  BY <1>1
<1>3. w % 16 = x + 2 * y + 4 * z
  BY <1>2
<1>4. w \div 1 = w /\ w % 2 = x
  BY <1>2
<1>5. w \div 2 = 8 * k + y + 2 * z
  BY <1>2
<1>6. w \div 4 = 4 * k + z
  BY <1>2
<1>7. (8 * k + y + 2 * z) % 2 = y /\ (4 * k + z) % 2 = z
  BY <1>1
<1> QED
  BY <1>1, <1>2, <1>3, <1>4, <1>5, <1>6, <1>7 DEF SumBits

(***************************************************************************)
(* A flag as the number pack_all adds.                                     *)
(***************************************************************************)
Bit(b) == IF b THEN 1 ELSE 0

(***************************************************************************)
(* What the extract functions read from a packed word is what pack_all put *)
(* in.                                                                     *)
(***************************************************************************)
LEMMA Unpack ==
  ASSUME NEW r \in Hdrs, r.size % 16 = 0, NEW w, w = Pack(r)
  PROVE  /\ w \in Nat /\ extract_size(w) = r.size
         /\ extract_alloc(w) <=> r.alloc
         /\ extract_prev_alloc(w) <=> r.prev_alloc
         /\ extract_prev_mini(w) <=> r.prev_mini
         /\ w < r.size + 16
<1> DEFINE x == Bit(r.alloc)
           y == Bit(r.prev_alloc)
           z == Bit(r.prev_mini)
<1>1. x \in 0 .. 1 /\ y \in 0 .. 1 /\ z \in 0 .. 1 /\ r.size \in Nat
  BY DEF Bit, Hdrs
<1>2. w = r.size + x + 2 * y + 4 * z
  BY <1>1 DEF Pack, pack_all, alloc_mask, prev_alloc_mask, prev_mini_mask, Bit
<1>3. (x = 1 <=> r.alloc) /\ (y = 1 <=> r.prev_alloc) /\ (z = 1 <=> r.prev_mini)
  BY DEF Bit
<1> HIDE DEF x, y, z
<1>4. /\ w \in Nat /\ w - (w % 16) = r.size
      /\ (w \div 1) % 2 = x /\ (w \div 2) % 2 = y /\ (w \div 4) % 2 = z
  <2> DEFINE s == r.size
  <2>1. s \in Nat /\ s % 16 = 0 /\ w = s + x + 2 * y + 4 * z
    BY <1>1, <1>2
  <2> HIDE DEF s
  <2>2. SumBits(w, s, x, y, z)
    BY <1>1, <2>1, BitsOfSum
  <2> QED
    BY <2>2 DEF s, SumBits
<1>5. w < r.size + 16
  BY <1>1, <1>2
<1> QED
  BY <1>3, <1>4, <1>5 DEF extract_size, extract_alloc, extract_prev_alloc, extract_prev_mini,
                          HasBit, alloc_mask, prev_alloc_mask, prev_mini_mask

(***************************************************************************)
(* write_prev_alloc's bit operation on a packed word is packing again with *)
(* prev_alloc set.                                                         *)
(***************************************************************************)
LEMMA SetPrevBit ==
  ASSUME NEW r \in Hdrs, r.size % 16 = 0
  PROVE  SetBit(Pack(r), prev_alloc_mask) = Pack(Hdr(r.size, r.alloc, TRUE, r.prev_mini))
<1> DEFINE w == Pack(r)
           q == Hdr(r.size, r.alloc, TRUE, r.prev_mini)
<1>1. HasBit(w, prev_alloc_mask) <=> r.prev_alloc
  BY Unpack DEF extract_prev_alloc
<1>2. /\ r.size \in Nat /\ r.alloc \in BOOLEAN
      /\ r.prev_mini \in BOOLEAN /\ r.prev_alloc \in BOOLEAN
      /\ r = Hdr(r.size, r.alloc, r.prev_alloc, r.prev_mini)
  BY DEF Hdrs, Hdr
<1>3. q.size = r.size /\ q.alloc = r.alloc /\ q.prev_alloc = TRUE /\ q.prev_mini = r.prev_mini
  BY DEF Hdr
<1> HIDE DEF q
<1>4. Pack(q) = r.size + Bit(r.alloc) + 2 + 4 * Bit(r.prev_mini)
  BY <1>2, <1>3 DEF Pack, pack_all, Bit, alloc_mask, prev_alloc_mask, prev_mini_mask
<1>5. w = r.size + Bit(r.alloc) + 2 * Bit(r.prev_alloc) + 4 * Bit(r.prev_mini)
  BY <1>2 DEF Pack, pack_all, Bit, alloc_mask, prev_alloc_mask, prev_mini_mask
<1>6. /\ Bit(r.alloc) \in Nat /\ Bit(r.prev_mini) \in Nat
      /\ Bit(r.prev_alloc) = IF r.prev_alloc THEN 1 ELSE 0
  BY DEF Bit
<1> HIDE DEF w
<1>7. SetBit(w, prev_alloc_mask) = IF r.prev_alloc THEN w ELSE w + 2
  BY <1>1 DEF SetBit, prev_alloc_mask
<1>8. SetBit(w, prev_alloc_mask) = Pack(q)
  BY <1>2, <1>4, <1>5, <1>6, <1>7
<1> QED
  BY <1>8 DEF w, q

-----------------------------------------------------------------------------
(***************************************************************************)
(* n is the node after b when the nodes of S are listed by falling rank:   *)
(* the next lower one, or NULL at the lowest.                              *)
(***************************************************************************)
Follows(S, rk, b, n) ==
  \/ n = 0 /\ \A c \in S : rk[b] <= rk[c]
  \/ n \in S /\ rk[n] < rk[b] /\ \A c \in S : rk[c] <= rk[n] \/ rk[b] <= rk[c]

(***************************************************************************)
(* The nodes of S are non-null and no two have the same rank.              *)
(***************************************************************************)
Ranked(S, rk) ==
  /\ \A b \in S : b \in Nat /\ b # 0 /\ rk[b] \in Nat
  /\ \A b, c \in S : rk[b] = rk[c] => b = c

(***************************************************************************)
(* first is the node of the highest rank, or NULL in an empty list.        *)
(***************************************************************************)
Heads(S, rk, first) ==
  \/ S = {} /\ first = 0
  \/ first \in S /\ \A c \in S : rk[c] <= rk[first]

(***************************************************************************)
(* From first, the pointers next lead through the nodes of S by falling    *)
(* rank: a linked list that has exactly the nodes S. A list that is pushed *)
(* at its head and unlinked anywhere keeps the ranks of the nodes that     *)
(* stay.                                                                   *)
(***************************************************************************)
Linked(S, rk, first, next) ==
  /\ Ranked(S, rk) /\ Heads(S, rk, first)
  /\ \A b \in S : Follows(S, rk, b, next[b])

(***************************************************************************)
(* s lists the nodes of S once each, in the order of the pointers, down to *)
(* NULL.                                                                   *)
(***************************************************************************)
Walked(s, S, first, next) ==
  /\ s \in Seq(S)
  /\ \A i, j \in 1 .. Len(s) : s[i] = s[j] => i = j
  /\ \A c \in S : \E i \in 1 .. Len(s) : s[i] = c
  /\ \A i \in 1 .. Len(s) - 1 : s[i + 1] = next[s[i]]
  /\ s # << >> => s[1] = first /\ next[s[Len(s)]] = 0

(***************************************************************************)
(* s is a walk from first that has met every node ranked as high as its    *)
(* last.                                                                   *)
(***************************************************************************)
Partly(s, S, rk, first, next) ==
  /\ s \in Seq(S) /\ Len(s) >= 1 /\ s[1] = first
  /\ \A i \in 1 .. Len(s) - 1 : s[i + 1] = next[s[i]]
  /\ \A i, j \in 1 .. Len(s) : i < j => rk[s[j]] < rk[s[i]]
  /\ \A c \in S : rk[c] >= rk[s[Len(s)]] => \E i \in 1 .. Len(s) : s[i] = c

(***************************************************************************)
(* No node twice.                                                          *)
(***************************************************************************)
Once(s) == \A i, j \in 1 .. Len(s) : s[i] = s[j] => i = j

(***************************************************************************)
(* A walk in progress is no longer than the number of nodes.               *)
(***************************************************************************)
LEMMA PartlyShort ==
  ASSUME NEW S, IsFiniteSet(S), NEW rk, Ranked(S, rk), NEW first, NEW next,
         NEW s, Partly(s, S, rk, first, next)
  PROVE  Len(s) <= Cardinality(S) /\ Once(s)
<1>1. Len(s) \in Nat /\ s \in [1 .. Len(s) -> S]
  BY DEF Partly
<1>2. ASSUME NEW i \in 1 .. Len(s), NEW j \in 1 .. Len(s), s[i] = s[j]
      PROVE  i = j
  <2>1. s[i] \in S /\ rk[s[i]] \in Nat
    BY <1>1 DEF Ranked
  <2>2. ~ (i < j) /\ ~ (j < i)
    BY <1>2, <2>1 DEF Partly
  <2> QED
    BY <1>1, <2>2
<1>3. s \in Injection(1 .. Len(s), S)
  BY <1>1, <1>2 DEF Injection, IsInjective
<1>4. Cardinality(1 .. Len(s)) <= Cardinality(S)
  BY <1>3, FS_Injection
<1>5. Cardinality(1 .. Len(s)) = Len(s)
  BY <1>1, FS_Interval
<1>6. Once(s)
  BY <1>2 DEF Once
<1> QED
  BY <1>4, <1>5, <1>6

(***************************************************************************)
(* One more step of a walk.                                                *)
(***************************************************************************)
LEMMA PartlyStep ==
  ASSUME NEW S, NEW rk, NEW first, NEW next, Linked(S, rk, first, next),
         NEW s, Partly(s, S, rk, first, next), next[s[Len(s)]] # 0
  PROVE  Partly(Append(s, next[s[Len(s)]]), S, rk, first, next)
<1> DEFINE n == Len(s)
           b == s[n]
           d == next[b]
           t == Append(s, d)
<1>1. n \in Nat /\ n >= 1 /\ s \in Seq(S) /\ b \in S
  BY DEF Partly
<1>2. d \in S /\ rk[d] < rk[b] /\ \A c \in S : rk[c] <= rk[d] \/ rk[b] <= rk[c]
  BY <1>1 DEF Linked, Follows
<1>3. /\ t \in Seq(S) /\ Len(t) = n + 1 /\ t[n + 1] = d
      /\ \A i \in 1 .. n : t[i] = s[i]
  BY <1>1, <1>2
<1>4. t[1] = first
  BY <1>1, <1>3 DEF Partly
<1>5. \A i \in 1 .. n : s[i + 1] = s[i + 1] /\ s[i] \in S /\ rk[s[i]] \in Nat
  BY <1>1 DEF Linked, Ranked
<1>6. ASSUME NEW i \in 1 .. n
      PROVE  t[i + 1] = next[t[i]]
  <2>1. CASE i = n
    BY <1>1, <1>3, <2>1
  <2>2. CASE i \in 1 .. n - 1
    BY <1>1, <1>3, <2>2 DEF Partly
  <2> QED
    BY <1>1, <2>1, <2>2
<1>7. ASSUME NEW i \in 1 .. n + 1, NEW j \in 1 .. n + 1, i < j
      PROVE  rk[t[j]] < rk[t[i]]
  <2>1. i \in 1 .. n /\ t[i] = s[i] /\ rk[s[i]] \in Nat /\ rk[b] \in Nat /\ rk[d] \in Nat
    BY <1>1, <1>2, <1>3, <1>5, <1>7 DEF Linked, Ranked
  <2>2. CASE j = n + 1
    <3>1. rk[b] <= rk[s[i]]
      <4>1. CASE i = n
        BY <4>1, <2>1
      <4>2. CASE i < n
        <5>1. rk[s[n]] < rk[s[i]]
          BY <4>2, <2>1, <1>1 DEF Partly
        <5> QED
          BY <5>1, <2>1
      <4> QED
        BY <1>1, <2>1, <4>1, <4>2
    <3> HIDE DEF t, b
    <3> QED
      BY <1>2, <1>3, <2>1, <2>2, <3>1
  <2>3. CASE j \in 1 .. n
    BY <1>1, <1>3, <2>1, <2>3, <1>7 DEF Partly
  <2> QED
    BY <1>1, <2>2, <2>3
<1>8. ASSUME NEW c \in S, rk[c] >= rk[d]
      PROVE  \E i \in 1 .. n + 1 : t[i] = c
  <2>0. rk[c] \in Nat /\ rk[d] \in Nat /\ rk[b] \in Nat
    BY <1>1, <1>2 DEF Linked, Ranked
  <2>1. CASE rk[b] <= rk[c]
    <3>1. PICK i \in 1 .. n : s[i] = c
      BY <2>0, <2>1 DEF Partly
    <3> QED
      BY <1>1, <1>3, <3>1
  <2>2. CASE rk[c] <= rk[d]
    <3>1. rk[c] = rk[d]
      BY <2>0, <2>2, <1>8
    <3>2. c = d
      BY <3>1, <1>2 DEF Linked, Ranked
    <3> QED
      BY <1>1, <1>3, <3>2
  <2> QED
    BY <1>2, <2>1, <2>2
<1> HIDE DEF t, n
<1>9. Partly(t, S, rk, first, next)
  BY <1>1, <1>3, <1>4, <1>6, <1>7, <1>8 DEF Partly
<1> QED
  BY <1>9 DEF t, n

(***************************************************************************)
(* Walk, the loop over a linked list that the checkers and the searches of *)
(* mm.c run, visits exactly the nodes of the list and stops at NULL before *)
(* its bound.                                                              *)
(***************************************************************************)
LEMMA WalkIs ==
  ASSUME NEW S, IsFiniteSet(S), Cardinality(S) <= MaxBlocks, NEW rk, NEW first,
         NEW next \in [Int -> Int], Linked(S, rk, first, next)
  PROVE  Walked(Walk(first, next), S, first, next)
<1> DEFINE Q == Seq(Int) \ {<< >>}
           D == {s \in Q : next[s[Len(s)]] = 0 \/ Len(s) > MaxBlocks}
           G == [s \in Q |-> Append(s, next[s[Len(s)]])]
           O == [s \in Q |-> s]
           body(f) == [s \in Q |-> IF next[Last(s)] = NULL \/ Len(s) > MaxBlocks THEN s
                                   ELSE f[Append(s, next[Last(s)])]]
           go == CHOOSE f : f = body(f)
<1>1. ASSUME NEW s \in Q
      PROVE  Len(s) \in Nat /\ Len(s) >= 1 /\ Append(s, next[s[Len(s)]]) \in Q
  <2>1. s \in Seq(Int) /\ Len(s) \in Nat /\ Len(s) >= 1
    OBVIOUS
  <2> HIDE DEF Q
  <2>2. s[Len(s)] \in Int
    BY <2>1
  <2>3. next[s[Len(s)]] \in Int
    BY <2>2
  <2> DEFINE t == Append(s, next[s[Len(s)]])
  <2>4. t \in Seq(Int) /\ Len(t) = Len(s) + 1
    BY <2>1, <2>3
  <2> HIDE DEF t
  <2>5. t # << >>
    BY <2>1, <2>4
  <2>6. t \in Q
    BY <2>4, <2>5 DEF Q
  <2> QED
    BY <2>1, <2>6 DEF t
<1>2. G \in [Q -> Q]
  BY <1>1
<1>3. ASSUME NEW f
      PROVE  body(f) = LoopBody(Q, D, G, O, f)
  BY <1>1 DEF LoopBody, Last, NULL
<1>4. go = LoopBody(Q, D, G, O, go)
  <2> HIDE DEF Q, D, G, O
  <2>1. PICK f : f = LoopBody(Q, D, G, O, f)
    BY <1>2, LoopExists
  <2>2. f = body(f)
    BY <2>1, <1>3
  <2> HIDE DEF body
  <2>3. go = body(go)
    BY <2>2
  <2> QED
    BY <1>3, <2>3
<1>5. Walk(first, next) = IF first = NULL THEN << >> ELSE go[<< first >>]
  BY DEF Walk
<1>6. CASE S = {}
  <2>1. first = 0
    BY <1>6 DEF Linked, Heads
  <2>2. Walk(first, next) = << >>
    BY <1>5, <2>1 DEF NULL
  <2> QED
    BY <1>6, <2>2 DEF Walked
<1>7. CASE S # {}
  <2>1. first \in S /\ first # 0 /\ \A c \in S : rk[c] <= rk[first]
    BY <1>7 DEF Linked, Heads, Ranked
  <2>2. Ranked(S, rk) /\ S \subseteq Int /\ MaxBlocks \in Nat /\ Cardinality(S) \in Nat
    BY FS_CardinalityType, Consts DEF Linked, Ranked, MaxBlocks
  <2> DEFINE J == [n \in Nat |-> {s \in Q : Partly(s, S, rk, first, next)
                                            /\ n = MaxBlocks - Len(s)}]
  <2>3. J \in [Nat -> SUBSET Q]
    BY DEF J
  <2>4. ASSUME NEW n \in Nat, NEW s \in J[n], s \notin D
        PROVE  \E m \in 0 .. n - 1 : G[s] \in J[m]
    <3>1. s \in Q /\ Partly(s, S, rk, first, next) /\ n = MaxBlocks - Len(s) /\ Len(s) \in Nat
      BY <1>1
    <3>2. next[s[Len(s)]] # 0
      BY <2>4, <3>1
    <3>3. Partly(G[s], S, rk, first, next) /\ G[s] \in Q
      BY <1>2, <3>1, <3>2, PartlyStep
    <3>4. Len(G[s]) = Len(s) + 1
      BY <3>1
    <3>5. Len(G[s]) <= Cardinality(S)
      BY <2>2, <3>3, PartlyShort
    <3>6. n - 1 \in 0 .. n - 1 /\ n - 1 = MaxBlocks - Len(G[s]) /\ n - 1 \in Nat
      <4> HIDE DEF G
      <4> QED
        BY <2>2, <3>1, <3>4, <3>5
    <3> QED
      BY <3>3, <3>6
  <2> DEFINE s0 == << first >>
             n0 == MaxBlocks - 1
  <2>5. Partly(s0, S, rk, first, next)
    <3>1. s0 \in Seq(S) /\ Len(s0) = 1 /\ s0[1] = first
      BY <2>1
    <3>2. ASSUME NEW c \in S, rk[c] >= rk[first]
          PROVE  c = first
      <4>1. rk[c] <= rk[first] /\ rk[c] \in Nat /\ rk[first] \in Nat
        BY <2>1, <2>2 DEF Ranked
      <4>2. rk[c] = rk[first]
        BY <3>2, <4>1
      <4> QED
        BY <2>1, <2>2, <4>2 DEF Ranked
    <3> HIDE DEF s0
    <3>3. \A c \in S : rk[c] >= rk[s0[Len(s0)]] => \E i \in 1 .. Len(s0) : s0[i] = c
      BY <3>1, <3>2
    <3> QED
      BY <3>1, <3>3 DEF Partly
  <2>6. s0 \in Q /\ Len(s0) = 1
    BY <2>1, <2>2
  <2>7. 1 <= MaxBlocks
    <3> HIDE DEF s0, Q
    <3>1. Len(s0) <= Cardinality(S)
      BY <2>2, <2>5, PartlyShort
    <3> QED
      BY <2>2, <2>6, <3>1
  <2>8. n0 \in Nat /\ s0 \in J[n0]
    <3>1. n0 \in Nat /\ n0 = MaxBlocks - Len(s0)
      BY <2>2, <2>6, <2>7
    <3> HIDE DEF s0, n0
    <3> QED
      BY <2>5, <2>6, <3>1
  <2>9. PICK m \in Nat : \E u \in J[m] : u \in D /\ go[s0] = O[u]
    <3> HIDE DEF Q, D, G, O, go, J, s0, n0
    <3> QED
      BY <1>4, <2>3, <2>4, <2>8, LoopEnds
  <2>10. PICK u \in J[m] : u \in D /\ go[s0] = O[u]
    BY <2>9
  <2>11. /\ u \in Q /\ Partly(u, S, rk, first, next) /\ go[s0] = u
         /\ (next[u[Len(u)]] = 0 \/ Len(u) > MaxBlocks)
    BY <2>10
  <2>12. Len(u) <= Cardinality(S) /\ Once(u)
    BY <2>2, <2>11, PartlyShort
  <2>13. Len(u) \in Nat /\ Len(u) >= 1 /\ u \in Seq(S) /\ u[Len(u)] \in S
    <3> HIDE DEF Q, O, J, D, go
    <3>1. Len(u) \in Nat /\ Len(u) >= 1 /\ u \in Seq(S)
      BY <2>11 DEF Partly
    <3> QED
      BY <3>1
  <2>14. next[u[Len(u)]] = 0
    BY <2>2, <2>11, <2>12, <2>13
  <2>15. \A c \in S : rk[u[Len(u)]] <= rk[c]
    <3>1. Follows(S, rk, u[Len(u)], 0)
      BY <2>13, <2>14 DEF Linked
    <3>2. 0 \notin S
      BY <2>2 DEF Ranked
    <3> QED
      BY <3>1, <3>2 DEF Follows
  <2>16. \A c \in S : \E i \in 1 .. Len(u) : u[i] = c
    <3> TAKE c \in S
    <3>1. rk[c] >= rk[u[Len(u)]]
      BY <2>2, <2>13, <2>15 DEF Ranked
    <3> QED
      BY <2>11, <3>1 DEF Partly
  <2>17. Walk(first, next) = u
    BY <1>5, <2>1, <2>11 DEF NULL
  <2>18. Walked(u, S, first, next)
    BY <2>11, <2>12, <2>13, <2>14, <2>16 DEF Walked, Partly, Once
  <2> QED
    BY <2>17, <2>18
<1> QED
  BY <1>6, <1>7

(***************************************************************************)
(* The nodes a full walk has seen.                                         *)
(***************************************************************************)
LEMMA WalkedSet ==
  ASSUME NEW S, NEW s, NEW first, NEW next, Walked(s, S, first, next)
  PROVE  ToSet(s) = S /\ Len(s) = Cardinality(S) /\ IsFiniteSet(S)
<1>1. Len(s) \in Nat /\ DOMAIN s = 1 .. Len(s) /\ s \in [1 .. Len(s) -> S]
  BY DEF Walked
<1>2. ToSet(s) = S
  BY <1>1 DEF Walked, ToSet
<1>3. s \in Bijection(1 .. Len(s), S)
  <2>1. s \in Injection(1 .. Len(s), S)
    BY <1>1 DEF Walked, Injection, IsInjective
  <2>2. s \in Surjection(1 .. Len(s), S)
    BY <1>1 DEF Walked, Surjection
  <2> QED
    BY <2>1, <2>2 DEF Bijection
<1>4. IsFiniteSet(1 .. Len(s)) /\ Cardinality(1 .. Len(s)) = Len(s)
  BY <1>1, FS_Interval
<1>5. IsFiniteSet(S) /\ Cardinality(S) = Cardinality(1 .. Len(s))
  <2>1. ExistsBijection(1 .. Len(s), S)
    BY <1>3 DEF ExistsBijection
  <2> QED
    BY <1>4, <2>1, FS_Bijection
<1> QED
  BY <1>2, <1>4, <1>5

-----------------------------------------------------------------------------
(***************************************************************************)
(* Every node but the head has a predecessor.                              *)
(***************************************************************************)
LEMMA LinkedPred ==
  ASSUME NEW S, NEW rk, NEW first, NEW next, Linked(S, rk, first, next),
         NEW b \in S, b # first
  PROVE  \E p \in S : next[p] = b
<1>1. /\ \A c \in S : rk[c] \in Nat /\ c # 0
      /\ first \in S /\ \A c \in S : rk[c] <= rk[first]
      /\ \A c, d \in S : rk[c] = rk[d] => c = d
  BY DEF Linked, Heads, Ranked
<1> DEFINE T == {rk[c] : c \in {d \in S : rk[b] < rk[d]}}
<1>2. T \subseteq Nat /\ T # {}
  <2>1. rk[b] < rk[first]
    BY <1>1
  <2> QED
    BY <1>1, <2>1
<1>3. PICK x \in T : \A y \in T : x <= y
  <2> HIDE DEF T
  <2> QED
    BY <1>2, LeastNatural
<1>4. PICK p \in S : x = rk[p] /\ rk[b] < rk[p]
  BY <1>3
<1>5. Follows(S, rk, p, next[p])
  BY DEF Linked
<1>6. next[p] \in S /\ rk[next[p]] < rk[p] /\ rk[b] <= rk[next[p]]
  BY <1>1, <1>4, <1>5 DEF Follows
<1>7. ~ (rk[b] < rk[next[p]])
  <2>1. ASSUME rk[b] < rk[next[p]]
        PROVE  FALSE
    <3>1. rk[next[p]] \in T
      BY <1>6, <2>1
    <3>2. x <= rk[next[p]]
      BY <1>3, <3>1
    <3> QED
      BY <1>1, <1>4, <1>6, <3>2
  <2> QED
    BY <2>1
<1>8. rk[b] = rk[next[p]]
  BY <1>1, <1>6, <1>7
<1> QED
  BY <1>1, <1>6, <1>8

(***************************************************************************)
(* The two ways of taking b out: the head moves on, or the predecessor of  *)
(* b is linked past it.                                                    *)
(***************************************************************************)
Unlinked(S, b, first, next, first1, next1) ==
  \/ /\ b = first /\ first1 = next[b]
     /\ \A c \in S : c # b => next1[c] = next[c]
  \/ /\ first1 = first /\ b # first
     /\ \E p \in S : /\ next[p] = b /\ p # b /\ next1[p] = next[b]
                     /\ \A c \in S : c # b /\ c # p => next1[c] = next[c]

(***************************************************************************)
(* Taking a node out leaves a list of the other nodes.                     *)
(***************************************************************************)
LEMMA LinkedRemove ==
  ASSUME NEW S, NEW rk, NEW first, NEW next, Linked(S, rk, first, next),
         NEW b \in S, NEW first1, NEW next1, Unlinked(S, b, first, next, first1, next1)
  PROVE  Linked(S \ {b}, rk, first1, next1)
<1> DEFINE R == S \ {b}
<1>1. /\ \A c \in S : rk[c] \in Nat /\ c # 0
      /\ \A c, d \in S : rk[c] = rk[d] => c = d
      /\ \A c \in S : Follows(S, rk, c, next[c])
  BY DEF Linked, Ranked
<1>2. Ranked(R, rk)
  BY DEF Linked, Ranked
<1>3. ASSUME NEW c \in R, next[c] # b
      PROVE  Follows(R, rk, c, next[c])
  <2>1. Follows(S, rk, c, next[c])
    BY <1>1
  <2> QED
    BY <2>1, <1>3 DEF Follows
<1>4. CASE b = first /\ first1 = next[b] /\ \A c \in S : c # b => next1[c] = next[c]
  <2>1. Heads(R, rk, first1)
    <3>1. \A c \in S : rk[c] <= rk[b]
      BY <1>4 DEF Linked, Heads
    <3>2. Follows(S, rk, b, next[b])
      BY <1>1
    <3>3. CASE next[b] = 0 /\ \A c \in S : rk[b] <= rk[c]
      <4>1. \A c \in S : rk[b] = rk[c]
        BY <3>1, <3>3, <1>1
      <4>2. R = {}
        BY <4>1, <1>1
      <4> QED
        BY <4>2, <3>3, <1>4 DEF Heads
    <3>4. CASE next[b] \in S /\ rk[next[b]] < rk[b]
               /\ \A c \in S : rk[c] <= rk[next[b]] \/ rk[b] <= rk[c]
      <4>1. next[b] \in R
        BY <3>4, <1>1
      <4>2. ASSUME NEW c \in R
            PROVE  rk[c] <= rk[next[b]]
        <5>1. rk[c] # rk[b] /\ rk[c] <= rk[b] /\ rk[c] \in Nat /\ rk[b] \in Nat
          BY <1>1, <3>1
        <5> QED
          BY <5>1, <3>4
      <4> QED
        BY <4>1, <4>2, <1>4 DEF Heads
    <3> QED
      BY <3>2, <3>3, <3>4 DEF Follows
  <2>2. ASSUME NEW c \in R
        PROVE  Follows(R, rk, c, next1[c])
    <3>1. next[c] # b
      <4>1. ASSUME next[c] = b
            PROVE  FALSE
        <5>1. Follows(S, rk, c, b)
          BY <1>1, <4>1
        <5>2. rk[b] < rk[c]
          BY <5>1, <1>1 DEF Follows
        <5>3. rk[c] <= rk[b]
          BY <1>4 DEF Linked, Heads
        <5> QED
          BY <5>2, <5>3, <1>1
      <4> QED
        BY <4>1
    <3> QED
      BY <1>3, <1>4, <3>1
  <2> QED
    BY <1>2, <2>1, <2>2 DEF Linked
<1>5. CASE /\ first1 = first /\ b # first
           /\ \E p \in S : /\ next[p] = b /\ p # b /\ next1[p] = next[b]
                           /\ \A c \in S : c # b /\ c # p => next1[c] = next[c]
  <2>1. PICK p \in S : /\ next[p] = b /\ p # b /\ next1[p] = next[b]
                       /\ \A c \in S : c # b /\ c # p => next1[c] = next[c]
    BY <1>5
  <2>2. Heads(R, rk, first1)
    BY <1>5 DEF Linked, Heads
  <2>3. rk[b] < rk[p] /\ \A c \in S : rk[c] <= rk[b] \/ rk[p] <= rk[c]
    <3>1. Follows(S, rk, p, b)
      BY <1>1, <2>1
    <3> QED
      BY <1>1, <3>1 DEF Follows
  <2>4. Follows(R, rk, p, next[b])
    <3>1. Follows(S, rk, b, next[b])
      BY <1>1
    <3>2. CASE next[b] = 0 /\ \A c \in S : rk[b] <= rk[c]
      <4>1. ASSUME NEW c \in R
            PROVE  rk[p] <= rk[c]
        <5>1. rk[c] # rk[b] /\ rk[b] <= rk[c] /\ rk[c] \in Nat /\ rk[b] \in Nat /\ rk[p] \in Nat
          BY <1>1, <3>2
        <5> QED
          BY <5>1, <2>3
      <4> QED
        BY <3>2, <4>1 DEF Follows
    <3>3. CASE next[b] \in S /\ rk[next[b]] < rk[b]
               /\ \A c \in S : rk[c] <= rk[next[b]] \/ rk[b] <= rk[c]
      <4>1. next[b] \in R /\ rk[next[b]] < rk[p]
        BY <3>3, <2>3, <1>1
      <4>2. ASSUME NEW c \in R
            PROVE  rk[c] <= rk[next[b]] \/ rk[p] <= rk[c]
        <5>1. rk[c] # rk[b] /\ rk[c] \in Nat /\ rk[b] \in Nat /\ rk[p] \in Nat
          BY <1>1
        <5> QED
          BY <5>1, <2>3, <3>3
      <4> QED
        BY <4>1, <4>2 DEF Follows
    <3> QED
      BY <3>1, <3>2, <3>3 DEF Follows
  <2>5. ASSUME NEW c \in R
        PROVE  Follows(R, rk, c, next1[c])
    <3>1. CASE c = p
      BY <3>1, <2>1, <2>4
    <3>2. CASE c # p
      <4>1. next[c] # b
        <5>1. ASSUME next[c] = b
              PROVE  FALSE
          <6>1. Follows(S, rk, c, b)
            BY <1>1, <5>1
          <6>2. rk[b] < rk[c] /\ (rk[p] <= rk[b] \/ rk[c] <= rk[p])
            BY <6>1, <1>1 DEF Follows
          <6>3. rk[p] <= rk[c]
            BY <6>2, <2>3, <1>1
          <6>4. rk[p] = rk[c]
            BY <6>2, <6>3, <2>3, <1>1
          <6> QED
            BY <6>4, <1>1, <3>2
        <5> QED
          BY <5>1
      <4> QED
        BY <1>3, <2>1, <3>2, <4>1
    <3> QED
      BY <3>1, <3>2
  <2> QED
    BY <1>2, <2>2, <2>5 DEF Linked
<1> QED
  BY <1>4, <1>5 DEF Unlinked

(***************************************************************************)
(* Pushing a new node at the head gives a list of all the nodes.           *)
(***************************************************************************)
LEMMA LinkedInsert ==
  ASSUME NEW S, NEW rk, NEW first, NEW next, Linked(S, rk, first, next),
         NEW b \in Nat, b # 0, b \notin S, NEW next1, next1[b] = first,
         \A c \in S : next1[c] = next[c]
  PROVE  \E rk1 : Linked(S \cup {b}, rk1, b, next1)
<1> DEFINE N == IF S = {} THEN 0 ELSE rk[first] + 1
           R == S \cup {b}
           q == [c \in R |-> IF c = b THEN N ELSE rk[c]]
<1>1. /\ \A c \in S : rk[c] \in Nat /\ c \in Nat /\ c # 0
      /\ \A c, d \in S : rk[c] = rk[d] => c = d
      /\ \A c \in S : Follows(S, rk, c, next[c])
      /\ Heads(S, rk, first)
  BY DEF Linked, Ranked
<1>2. N \in Nat /\ \A c \in S : rk[c] < N
  BY <1>1 DEF Heads
<1>3. q[b] = N /\ \A c \in S : q[c] = rk[c]
  OBVIOUS
<1> HIDE DEF N, q
<1>4. Ranked(R, q)
  BY <1>1, <1>2, <1>3 DEF Ranked
<1>5. Heads(R, q, b)
  BY <1>1, <1>2, <1>3 DEF Heads
<1>6. ASSUME NEW c \in S
      PROVE  Follows(R, q, c, next1[c])
  <2>1. Follows(S, rk, c, next1[c])
    BY <1>1
  <2> QED
    BY <2>1, <1>1, <1>2, <1>3 DEF Follows
<1>7. Follows(R, q, b, first)
  BY <1>1, <1>2, <1>3 DEF Follows, Heads
<1>8. Linked(R, q, b, next1)
  BY <1>4, <1>5, <1>6, <1>7 DEF Linked
<1> QED
  BY <1>8

(***************************************************************************)
(* A list whose pointers are unchanged is the same list.                   *)
(***************************************************************************)
LEMMA LinkedSame ==
  ASSUME NEW S, NEW rk, NEW first, NEW next, Linked(S, rk, first, next), NEW next1,
         \A c \in S : next1[c] = next[c]
  PROVE  Linked(S, rk, first, next1)
BY DEF Linked

-----------------------------------------------------------------------------
(***************************************************************************)
(* The headers H tile the heap from heap_start to the epilogue at e: every *)
(* block ends where another starts, and none starts inside another.        *)
(***************************************************************************)
Tiling(H, e) ==
  /\ H \in [DOMAIN H -> Hdrs] /\ 8 \in DOMAIN H /\ e \in DOMAIN H /\ e + 8 <= MaxHeap
  /\ \A c \in DOMAIN H : c \in Nat /\ 8 <= c /\ c <= e /\ c % 16 = 8
  /\ H[e].size = 0 /\ H[e].alloc
  /\ \A c \in DOMAIN H \ {e} :
       /\ H[c].size >= 16 /\ H[c].size % 16 = 0 /\ c + H[c].size \in DOMAIN H
       /\ \A d \in DOMAIN H : d <= c \/ d >= c + H[c].size

(***************************************************************************)
(* A well-formed block-level heap is a tiling.                             *)
(***************************************************************************)
LEMMA TilingOf ==
  ASSUME NEW g, NEW X, BH!WF(g, X)
  PROVE  Tiling(g.hdr, g.brk - 8) /\ g.brk \in Nat /\ g.brk >= 16 /\ g.brk <= MaxHeap
<1>1. /\ g.brk \in 0 .. MaxHeap /\ g.hdr \in [DOMAIN g.hdr -> Hdrs]
  BY DEF BH!WF, BH!HeapType, BH!Headers, Hdrs
<1>2. BH!TiledBy(g)
  BY DEF BH!WF
<1>3. BH!epilogue(g) = g.brk - 8 /\ BH!wsize = 8 /\ BH!min_block_size = 16
  BY DEF BH!epilogue, BH!wsize, BH!min_block_size, BH!dsize
<1>4. DOMAIN g.hdr \subseteq Nat
  BY Consts DEF BH!WF, BH!HeapType
<1> DEFINE e == g.brk - 8
           H == g.hdr
<1>5. /\ 8 \in DOMAIN H /\ e \in DOMAIN H
      /\ \A c \in DOMAIN H : c \in Nat /\ 8 <= c /\ c <= e /\ c % 16 = 8
      /\ H[e].size = 0 /\ H[e].alloc
  BY <1>2, <1>3, <1>4 DEF BH!TiledBy
<1>6. ASSUME NEW c \in DOMAIN H \ {e}
      PROVE  /\ H[c].size >= 16 /\ H[c].size % 16 = 0 /\ c + H[c].size \in DOMAIN H
             /\ \A d \in DOMAIN H : d <= c \/ d >= c + H[c].size
  BY <1>2, <1>3 DEF BH!TiledBy, BH!find_next
<1>7. e + 8 <= MaxHeap /\ g.brk >= 16 /\ g.brk \in Nat /\ g.brk <= MaxHeap
  BY <1>1, <1>5, Consts
<1> HIDE DEF e, H
<1>8. Tiling(H, e)
  BY <1>1, <1>5, <1>6, <1>7 DEF Tiling, H
<1> QED
  BY <1>7, <1>8 DEF e, H

(***************************************************************************)
(* Where the words of a block lie: header, payload, footer and the next    *)
(* header are addresses inside the heap.                                   *)
(***************************************************************************)
BlockAt(H, c, e) ==
  /\ c \in Nat /\ 8 <= c /\ c % 16 = 8 /\ c + H[c].size <= e
  /\ H[c].size \in Nat /\ H[c].size >= 16 /\ H[c].size % 16 = 0
  /\ H[c].alloc \in BOOLEAN /\ H[c].prev_alloc \in BOOLEAN /\ H[c].prev_mini \in BOOLEAN
  /\ c + H[c].size \in DOMAIN H
  /\ c \in Addrs /\ c + 8 \in Addrs /\ c + H[c].size - 8 \in Addrs /\ c + H[c].size \in Addrs
  /\ H[c].size # 16 => H[c].size >= 32 /\ c + 16 \in Addrs

(***************************************************************************)
(* Every block of a tiling that is not the epilogue is laid out like that. *)
(***************************************************************************)
LEMMA BlockFacts ==
  ASSUME NEW H, NEW e, Tiling(H, e), NEW c \in DOMAIN H, c # e
  PROVE  BlockAt(H, c, e)
<1>1. /\ c \in Nat /\ 8 <= c /\ c % 16 = 8 /\ H[c] \in Hdrs
      /\ H[c].size >= 16 /\ H[c].size % 16 = 0 /\ c + H[c].size \in DOMAIN H
      /\ e \in Nat /\ e + 8 <= MaxHeap /\ c + H[c].size <= e
  BY DEF Tiling
<1>2. /\ H[c].size \in Nat /\ H[c].alloc \in BOOLEAN /\ H[c].prev_alloc \in BOOLEAN
      /\ H[c].prev_mini \in BOOLEAN
  BY <1>1 DEF Hdrs
<1> DEFINE s == H[c].size
<1>3. s \in Nat /\ s >= 16 /\ s % 16 = 0 /\ c + s <= e
  BY <1>1, <1>2
<1> HIDE DEF s
<1>4. s # 16 => s >= 32
  BY <1>3
<1>5. c \in Addrs /\ c + 8 \in Addrs /\ c + s - 8 \in Addrs /\ c + s \in Addrs
  <2>1. c % 8 = 0 /\ (c + 8) % 8 = 0 /\ (c + s - 8) % 8 = 0 /\ (c + s) % 8 = 0
    BY <1>1, <1>3
  <2>2. c < MaxHeap /\ c + 8 < MaxHeap /\ c + s - 8 < MaxHeap /\ c + s < MaxHeap
    BY <1>1, <1>3, Consts
  <2>3. c + 8 \in Nat /\ c + s - 8 \in Nat /\ c + s \in Nat
    BY <1>1, <1>3
  <2> QED
    BY <1>1, <2>1, <2>2, <2>3, AddrFact
<1>6. s # 16 => c + 16 \in Addrs
  <2>1. c + 16 \in Nat /\ (c + 16) % 8 = 0
    BY <1>1
  <2>2. s # 16 => c + 16 < MaxHeap
    BY <1>1, <1>3, <1>4, Consts
  <2> QED
    BY <2>1, <2>2, AddrFact
<1> QED
  BY <1>1, <1>2, <1>4, <1>5, <1>6 DEF BlockAt, s

(***************************************************************************)
(* The epilogue of a tiling.                                               *)
(***************************************************************************)
LEMMA EpilogueFacts ==
  ASSUME NEW H, NEW e, Tiling(H, e)
  PROVE  /\ e \in Nat /\ e % 16 = 8 /\ 8 <= e /\ e \in Addrs /\ e \in DOMAIN H
         /\ H[e].size = 0 /\ H[e].alloc /\ H[e] \in Hdrs /\ e + 8 <= MaxHeap
         /\ 8 \in DOMAIN H
<1>1. e \in Nat /\ e % 16 = 8 /\ 8 <= e /\ e + 8 <= MaxHeap
  BY DEF Tiling
<1>2. e % 8 = 0 /\ e < MaxHeap
  BY <1>1, Consts
<1>3. e \in Addrs
  BY <1>1, <1>2, AddrFact
<1>4. H[e] \in Hdrs
  BY DEF Tiling
<1> QED
  BY <1>1, <1>3, <1>4 DEF Tiling

(***************************************************************************)
(* A header that a word can hold.                                          *)
(***************************************************************************)
HeaderOK(r) ==
  /\ r \in Hdrs /\ r.size \in Nat /\ r.size % 16 = 0
  /\ r.alloc \in BOOLEAN /\ r.prev_alloc \in BOOLEAN /\ r.prev_mini \in BOOLEAN

(***************************************************************************)
(* Every header of a tiling is one.                                        *)
(***************************************************************************)
LEMMA HeaderFacts ==
  ASSUME NEW H, NEW e, Tiling(H, e), NEW c \in DOMAIN H
  PROVE  HeaderOK(H[c]) /\ c \in Addrs /\ c \in Nat /\ c # 0
<1>1. H[c] \in Hdrs
  BY DEF Tiling
<1>2. CASE c = e
  <2>1. H[c].size = 0
    BY <1>2, EpilogueFacts
  <2>2. 0 % 16 = 0
    OBVIOUS
  <2> QED
    BY <1>1, <1>2, <2>1, <2>2, EpilogueFacts DEF HeaderOK, Hdrs
<1>3. CASE c # e
  <2>1. BlockAt(H, c, e)
    BY <1>3, BlockFacts
  <2> QED
    BY <1>1, <2>1 DEF BlockAt, HeaderOK
<1> QED
  BY <1>2, <1>3

(***************************************************************************)
(* The bytes that belong to a header: its block, or the one word of the    *)
(* epilogue.                                                               *)
(***************************************************************************)
Extent(H, c, e) == IF c = e THEN 8 ELSE H[c].size

(***************************************************************************)
(* A byte belongs to one block only.                                       *)
(***************************************************************************)
LEMMA Zones ==
  ASSUME NEW H, NEW e, Tiling(H, e), NEW c \in DOMAIN H, NEW d \in DOMAIN H,
         NEW i \in Nat, NEW j \in Nat, i < Extent(H, c, e), j < Extent(H, d, e),
         c + i = d + j
  PROVE  c = d /\ i = j
<1>1. c \in Nat /\ d \in Nat /\ e \in Nat /\ c <= e /\ d <= e
  BY DEF Tiling
<1>2. ASSUME NEW a \in DOMAIN H, NEW b \in DOMAIN H, a < b
      PROVE  Extent(H, a, e) \in Nat /\ a + Extent(H, a, e) <= b
  <2>1. a # e /\ a \in Nat /\ b \in Nat
    BY <1>2 DEF Tiling
  <2>2. BlockAt(H, a, e)
    BY <2>1, BlockFacts
  <2>3. b >= a + H[a].size
    BY <1>2, <2>1 DEF Tiling
  <2> QED
    BY <2>1, <2>2, <2>3 DEF Extent, BlockAt
<1>3. ~ (c < d)
  <2>1. ASSUME c < d
        PROVE  FALSE
    BY <1>1, <1>2, <2>1
  <2> QED
    BY <2>1
<1>4. ~ (d < c)
  <2>1. ASSUME d < c
        PROVE  FALSE
    BY <1>1, <1>2, <2>1
  <2> QED
    BY <2>1
<1> QED
  BY <1>1, <1>3, <1>4

-----------------------------------------------------------------------------
(***************************************************************************)
(* The boundary tags of a block in memory: the header word, and the footer *)
(* word of a free block that is not a mini block.                          *)
(***************************************************************************)
Tag(mem, c, r) ==
  /\ mem[c] = Pack(r)
  /\ ~ r.alloc /\ r.size # 16 => mem[c + r.size - 8] = Pack(r)

(***************************************************************************)
(* The addresses of those words.                                           *)
(***************************************************************************)
TagWords(c, r) == IF ~ r.alloc /\ r.size # 16 THEN {c, c + r.size - 8} ELSE {c}

(***************************************************************************)
(* The memory holds the tags of all the blocks of H.                       *)
(***************************************************************************)
Tags(h, H) == \A c \in DOMAIN H : Tag(h.mem, c, H[c])

(***************************************************************************)
(* The get functions on a header word.                                     *)
(***************************************************************************)
LEMMA ReadWord ==
  ASSUME NEW h \in HeapRec, NEW c \in Addrs, NEW r, HeaderOK(r), h.mem[c] = Pack(r)
  PROVE  /\ get_size(h, c) = r.size
         /\ get_alloc(h, c) <=> r.alloc
         /\ get_prev_alloc(h, c) <=> r.prev_alloc
         /\ get_prev_mini(h, c) <=> r.prev_mini
         /\ is_mini_block(h, c) <=> r.size = 16
<1>1. Word(h, c) = Pack(r)
  BY WordFact
<1>2. /\ extract_size(Pack(r)) = r.size
      /\ extract_alloc(Pack(r)) <=> r.alloc
      /\ extract_prev_alloc(Pack(r)) <=> r.prev_alloc
      /\ extract_prev_mini(Pack(r)) <=> r.prev_mini
  BY Unpack DEF HeaderOK
<1> QED
  BY <1>1, <1>2, Consts DEF get_size, get_alloc, get_prev_alloc, get_prev_mini, is_mini_block

(***************************************************************************)
(* The get functions read the header r at c.                               *)
(***************************************************************************)
HeaderRead(h, c, r) ==
  /\ get_size(h, c) = r.size
  /\ get_alloc(h, c) = r.alloc
  /\ get_prev_alloc(h, c) = r.prev_alloc
  /\ get_prev_mini(h, c) = r.prev_mini
  /\ is_mini_block(h, c) = (r.size = 16)

(***************************************************************************)
(* The flags read are booleans.                                            *)
(***************************************************************************)
LEMMA Flags ==
  ASSUME NEW h, NEW c
  PROVE  /\ get_alloc(h, c) \in BOOLEAN /\ get_prev_alloc(h, c) \in BOOLEAN
         /\ get_prev_mini(h, c) \in BOOLEAN /\ is_mini_block(h, c) \in BOOLEAN
BY DEF get_alloc, get_prev_alloc, get_prev_mini, is_mini_block, extract_alloc,
       extract_prev_alloc, extract_prev_mini, HasBit

(***************************************************************************)
(* The get functions read every header of the tiling.                      *)
(***************************************************************************)
LEMMA ReadHeader ==
  ASSUME NEW h \in HeapRec, NEW H, NEW e, Tiling(H, e), Tags(h, H), NEW c \in DOMAIN H
  PROVE  HeaderRead(h, c, H[c])
<1>1. HeaderOK(H[c]) /\ c \in Addrs
  BY HeaderFacts
<1>2. h.mem[c] = Pack(H[c])
  BY DEF Tags, Tag
<1> DEFINE r == H[c]
<1>3. HeaderOK(r) /\ h.mem[c] = Pack(r)
  BY <1>1, <1>2
<1> HIDE DEF r
<1>4. /\ get_size(h, c) = r.size
      /\ get_alloc(h, c) <=> r.alloc
      /\ get_prev_alloc(h, c) <=> r.prev_alloc
      /\ get_prev_mini(h, c) <=> r.prev_mini
      /\ is_mini_block(h, c) <=> r.size = 16
  BY <1>1, <1>3, ReadWord
<1>5. /\ get_alloc(h, c) \in BOOLEAN /\ get_prev_alloc(h, c) \in BOOLEAN
      /\ get_prev_mini(h, c) \in BOOLEAN /\ is_mini_block(h, c) \in BOOLEAN
  BY Flags
<1>6. r.alloc \in BOOLEAN /\ r.prev_alloc \in BOOLEAN /\ r.prev_mini \in BOOLEAN
  BY <1>3 DEF HeaderOK
<1>7. HeaderRead(h, c, r)
  BY <1>4, <1>5, <1>6 DEF HeaderRead
<1> QED
  BY <1>7 DEF r

-----------------------------------------------------------------------------
(***************************************************************************)
(* u differs from h at most in the words W.                                *)
(***************************************************************************)
Touched(u, h, W) ==
  /\ u \in HeapRec /\ SameGlobals(u, h)
  /\ \A x \in Addrs : x \in W \/ u.mem[x] = h.mem[x]

(***************************************************************************)
(* A packed header fits a word.                                            *)
(***************************************************************************)
LEMMA PackWord ==
  ASSUME NEW r, HeaderOK(r), r.size + 16 <= SIZE_MOD
  PROVE  Pack(r) \in Words
<1>1. Pack(r) \in Nat /\ Pack(r) < r.size + 16
  BY Unpack DEF HeaderOK
<1> QED
  BY <1>1, Consts DEF Words, HeaderOK

(***************************************************************************)
(* write_pack writes the header and, for a free block that is not a mini   *)
(* block, the footer, and nothing else.                                    *)
(***************************************************************************)
LEMMA WritePack ==
  ASSUME NEW h \in HeapRec, NEW b \in Addrs, NEW r, HeaderOK(r), r.size <= MaxHeap,
         ~ r.alloc /\ r.size # 16 => r.size >= 32 /\ b + r.size - 8 \in Addrs,
         NEW u, u = write_pack(h, b, r.size, r.alloc, r.prev_alloc, r.prev_mini)
  PROVE  Tag(u.mem, b, r) /\ Touched(u, h, TagWords(b, r))
<1> DEFINE w == Pack(r)
           h1 == Store(h, b, w)
           f == header_to_footer(h1, b)
<1>1. w \in Words
  <2>1. r.size + 16 <= SIZE_MOD
    BY Consts DEF HeaderOK
  <2> QED
    BY <2>1, PackWord
<1>2. u = IF ~ r.alloc /\ r.size # 16 THEN Store(h1, f, w) ELSE h1
  BY Consts DEF write_pack, Pack
<1>3. Stored(h1, h, b, w)
  <2> HIDE DEF w
  <2> QED
    BY <1>1, StoreFact
<1> HIDE DEF h1
<1>4. h1 \in HeapRec /\ h1.mem[b] = w
  BY <1>3 DEF Stored
<1>5. f = b + r.size - 8
  <2>1. get_size(h1, b) = r.size
    BY <1>4, ReadWord
  <2> QED
    BY <2>1, Consts DEF header_to_footer
<1> HIDE DEF f, w
<1>6. b \in Nat /\ r.size \in Nat
  BY AddrFact DEF HeaderOK
<1>7. CASE ~ r.alloc /\ r.size # 16
  <2>1. u = Store(h1, f, w) /\ f \in Addrs /\ f # b
    BY <1>2, <1>5, <1>6, <1>7
  <2>2. Stored(u, h1, f, w)
    BY <1>1, <1>4, <2>1, StoreFact
  <2>3. u.mem[f] = w /\ u.mem[b] = w
    BY <1>4, <2>1, <2>2 DEF Stored
  <2>4. Tag(u.mem, b, r)
    BY <2>3, <1>5 DEF Tag, w
  <2>5. Touched(u, h, {b, f})
    BY <1>3, <2>2 DEF Stored, Touched, SameGlobals
  <2>6. TagWords(b, r) = {b, f}
    BY <1>5, <1>7 DEF TagWords
  <2> QED
    BY <2>4, <2>5, <2>6
<1>8. CASE ~ (~ r.alloc /\ r.size # 16)
  <2>1. u = h1
    BY <1>2, <1>8
  <2>2. Tag(u.mem, b, r)
    BY <1>4, <1>8, <2>1 DEF Tag, w
  <2>3. Touched(u, h, {b})
    BY <1>3, <2>1 DEF Stored, Touched
  <2>4. TagWords(b, r) = {b}
    BY <1>8 DEF TagWords
  <2> QED
    BY <2>2, <2>3, <2>4
<1> QED
  BY <1>7, <1>8

(***************************************************************************)
(* write_prev_alloc on an allocated block writes its header only.          *)
(***************************************************************************)
LEMMA WritePrev ==
  ASSUME NEW h \in HeapRec, NEW b \in Addrs, NEW r, HeaderOK(r), r.size <= MaxHeap, r.alloc,
         h.mem[b] = Pack(r), NEW u, u = write_prev_alloc(h, b, TRUE),
         NEW q, q = Hdr(r.size, r.alloc, TRUE, r.prev_mini)
  PROVE  Tag(u.mem, b, q) /\ Touched(u, h, {b})
<1>1. Word(h, b) = Pack(r)
  BY WordFact
<1>2. SetBit(Word(h, b), prev_alloc_mask) = Pack(q)
  BY <1>1, SetPrevBit DEF HeaderOK
<1>3. /\ HeaderOK(q) /\ q.size = r.size /\ q.alloc
  <2>1. /\ q.size = r.size /\ q.alloc = r.alloc /\ q.prev_alloc = TRUE
        /\ q.prev_mini = r.prev_mini
    BY DEF Hdr
  <2>2. r.size \in Nat /\ r.alloc \in BOOLEAN /\ r.prev_mini \in BOOLEAN /\ r.size % 16 = 0
    BY DEF HeaderOK
  <2>3. q \in Hdrs
    BY <2>2 DEF Hdr, Hdrs
  <2> QED
    BY <2>1, <2>2, <2>3 DEF HeaderOK
<1>4. Pack(q) \in Words
  <2>0. r.size \in Nat /\ q.size = r.size
    BY <1>3 DEF HeaderOK
  <2>1. q.size + 16 <= SIZE_MOD
    <3> DEFINE n == r.size
    <3>1. n \in Nat /\ n <= MaxHeap
      BY <2>0
    <3> HIDE DEF n
    <3>2. n + 16 <= SIZE_MOD
      BY <3>1, Consts
    <3> QED
      BY <2>0, <3>2 DEF n
  <2> HIDE DEF HeaderOK
  <2> QED
    BY <1>3, <2>1, PackWord
<1> DEFINE h1 == Store(h, b, SetBit(Word(h, b), prev_alloc_mask))
<1>5. Stored(h1, h, b, Pack(q))
  <2> DEFINE w == Pack(q)
  <2>1. h1 = Store(h, b, w) /\ w \in Words
    BY <1>2, <1>4
  <2> HIDE DEF w, h1
  <2>2. Stored(h1, h, b, w)
    BY <2>1, StoreFact
  <2> QED
    BY <2>2 DEF w
<1>6. u = IF get_alloc(h1, b) \/ is_mini_block(h1, b) THEN h1
          ELSE Store(h1, header_to_footer(h1, b),
                     SetBit(Word(h1, header_to_footer(h1, b)), prev_alloc_mask))
  BY DEF write_prev_alloc
<1> HIDE DEF h1
<1>7. h1 \in HeapRec /\ h1.mem[b] = Pack(q)
  BY <1>5 DEF Stored
<1>8. get_alloc(h1, b)
  BY <1>3, <1>7, ReadWord
<1>9. u = h1
  BY <1>6, <1>8
<1> QED
  BY <1>3, <1>5, <1>7, <1>9 DEF Stored, Touched, Tag

(***************************************************************************)
(* Two writes one after the other.                                         *)
(***************************************************************************)
LEMMA TouchedAgain ==
  ASSUME NEW h, NEW u, NEW v, NEW W, NEW Z, Touched(u, h, W), Touched(v, u, Z)
  PROVE  Touched(v, h, W \cup Z)
BY DEF Touched, SameGlobals

-----------------------------------------------------------------------------
(***************************************************************************)
(* The mini list, called -1, and the segregated lists.                     *)
(***************************************************************************)
Bins == {-1} \cup Classes

(***************************************************************************)
(* The global that heads a list.                                           *)
(***************************************************************************)
HeadOf(h, k) == IF k = -1 THEN h.mini_list ELSE h.seg_list[k]

(***************************************************************************)
(* The offset of the next field in a block of a list.                      *)
(***************************************************************************)
LinkOff(k) == IF k = -1 THEN 8 ELSE 16

(***************************************************************************)
(* The next pointers, as the loops of mm.c follow them.                    *)
(***************************************************************************)
NextOf(h, link) == [b \in Int |-> IF b = NULL THEN NULL ELSE Word(h, b + link)]

(***************************************************************************)
(* The nodes are block addresses whose link words lie in the heap.         *)
(***************************************************************************)
NodesOK(S, k) ==
  \A c \in S : c \in Nat /\ c # 0 /\ c % 16 = 8 /\ c \in Addrs /\ c + 8 \in Addrs
               /\ c + LinkOff(k) \in Addrs

(***************************************************************************)
(* The previous field of a node's successor points back at it.             *)
(***************************************************************************)
BackLinks(h, S) ==
  \A c \in S : h.mem[c + 16] # 0 => h.mem[h.mem[c + 16] + 8] = c

(***************************************************************************)
(* The words of h hold the list k with exactly the nodes S: singly linked  *)
(* for the mini list, doubly linked for a class.                           *)
(***************************************************************************)
ListRep(h, k, S) ==
  /\ \E rk : Linked(S, rk, HeadOf(h, k), NextOf(h, LinkOff(k)))
  /\ k # -1 => BackLinks(h, S)

(***************************************************************************)
(* x is the address of a link word of the block c of the list k.           *)
(***************************************************************************)
IsLink(k, c, x) == x = c + 8 \/ (k # -1 /\ x = c + 16)

(***************************************************************************)
(* u is h after an operation on the list k, which has the nodes S now;     *)
(* only link words of blocks in N were written.                            *)
(***************************************************************************)
Relinked(u, h, k, S, N) ==
  /\ u \in HeapRec /\ u.brk = h.brk /\ u.heap_start = h.heap_start
  /\ \A j \in Bins : j # k => HeadOf(u, j) = HeadOf(h, j)
  /\ ListRep(u, k, S)
  /\ \A x \in Addrs : u.mem[x] = h.mem[x] \/ \E c \in N : IsLink(k, c, x)

(***************************************************************************)
(* The next pointers are words read from memory.                           *)
(***************************************************************************)
LEMMA NextValue ==
  ASSUME NEW h \in HeapRec, NEW off \in Nat
  PROVE  /\ NextOf(h, off) \in [Int -> Int]
         /\ \A c \in Nat : c # 0 /\ c + off \in Addrs => NextOf(h, off)[c] = h.mem[c + off]
<1>1. ASSUME NEW a
      PROVE  Word(h, a) \in Int
  <2>1. CASE a \in Addrs
    BY <2>1, WordFact
  <2>2. CASE a \notin Addrs
    <3>1. DOMAIN h.mem = Addrs
      BY DEF HeapRec
    <3> QED
      BY <2>2, <3>1 DEF Word
  <2> QED
    BY <2>1, <2>2
<1>2. NextOf(h, off) \in [Int -> Int]
  BY <1>1 DEF NextOf, NULL
<1>3. ASSUME NEW c \in Nat, c # 0, c + off \in Addrs
      PROVE  NextOf(h, off)[c] = h.mem[c + off]
  <2>1. Word(h, c + off) = h.mem[c + off]
    BY <1>3, WordFact
  <2> QED
    BY <1>3, <2>1 DEF NextOf, NULL
<1> QED
  BY <1>2, <1>3

(***************************************************************************)
(* The next pointer of a node.                                             *)
(***************************************************************************)
LEMMA NodeNext ==
  ASSUME NEW h \in HeapRec, NEW k, NEW S, NodesOK(S, k), NEW c \in S
  PROVE  /\ NextOf(h, LinkOff(k))[c] = h.mem[c + LinkOff(k)]
         /\ h.mem[c + LinkOff(k)] \in Nat
<1>1. LinkOff(k) \in Nat
  BY DEF LinkOff
<1>2. c \in Nat /\ c # 0 /\ c + LinkOff(k) \in Addrs
  BY DEF NodesOK
<1> QED
  BY <1>1, <1>2, NextValue, WordFact

(***************************************************************************)
(* The next word of a node leads to a node or is NULL.                     *)
(***************************************************************************)
LEMMA NextNode ==
  ASSUME NEW h \in HeapRec, NEW k, NEW S, NodesOK(S, k), ListRep(h, k, S), NEW c \in S
  PROVE  h.mem[c + LinkOff(k)] \in S \cup {0}
<1>1. PICK rk : Linked(S, rk, HeadOf(h, k), NextOf(h, LinkOff(k)))
  BY DEF ListRep
<1>2. Follows(S, rk, c, h.mem[c + LinkOff(k)])
  BY <1>1, NodeNext DEF Linked
<1> QED
  BY <1>2 DEF Follows

(***************************************************************************)
(* The head of a list is a node, or NULL when there is none.               *)
(***************************************************************************)
LEMMA HeadNode ==
  ASSUME NEW h, NEW k, NEW S, ListRep(h, k, S)
  PROVE  (S = {} /\ HeadOf(h, k) = 0) \/ HeadOf(h, k) \in S
BY DEF ListRep, Linked, Heads

(***************************************************************************)
(* The head of a list is an address.                                       *)
(***************************************************************************)
LEMMA HeadType ==
  ASSUME NEW h \in HeapRec, NEW k \in Bins
  PROVE  HeadOf(h, k) \in Addrs /\ HeadOf(h, k) \in Nat
<1>1. HeadOf(h, k) \in Addrs
  BY DEF HeadOf, HeapRec, Bins
<1> QED
  BY <1>1, AddrFact

(***************************************************************************)
(* A list whose head and link words are unchanged is the same list.        *)
(***************************************************************************)
LEMMA ListFrame ==
  ASSUME NEW h \in HeapRec, NEW u \in HeapRec, NEW k, NEW S, NodesOK(S, k),
         ListRep(h, k, S), HeadOf(u, k) = HeadOf(h, k),
         \A c \in S : u.mem[c + 8] = h.mem[c + 8] /\ u.mem[c + LinkOff(k)] = h.mem[c + LinkOff(k)]
  PROVE  ListRep(u, k, S)
<1>1. PICK rk : Linked(S, rk, HeadOf(h, k), NextOf(h, LinkOff(k)))
  BY DEF ListRep
<1>2. \A c \in S : NextOf(u, LinkOff(k))[c] = NextOf(h, LinkOff(k))[c]
  BY NodeNext
<1>3. Linked(S, rk, HeadOf(u, k), NextOf(u, LinkOff(k)))
  BY <1>1, <1>2, LinkedSame
<1>4. ASSUME k # -1
      PROVE  BackLinks(u, S)
  <2>1. LinkOff(k) = 16 /\ BackLinks(h, S)
    BY <1>4 DEF LinkOff, ListRep
  <2>2. ASSUME NEW c \in S, u.mem[c + 16] # 0
        PROVE  u.mem[u.mem[c + 16] + 8] = c
    <3>1. u.mem[c + 16] = h.mem[c + 16]
      BY <2>1
    <3>2. h.mem[c + 16] \in S
      BY <2>1, <2>2, <3>1, NextNode
    <3>3. h.mem[h.mem[c + 16] + 8] = c
      BY <2>1, <2>2, <3>1 DEF BackLinks
    <3> QED
      BY <3>1, <3>2, <3>3
  <2> QED
    BY <2>2 DEF BackLinks
<1> QED
  BY <1>3, <1>4 DEF ListRep

-----------------------------------------------------------------------------
(***************************************************************************)
(* u is h with the head of the list k set to n.                            *)
(***************************************************************************)
SetHead(u, h, k, n) ==
  /\ u \in HeapRec /\ u.brk = h.brk /\ u.heap_start = h.heap_start /\ u.mem = h.mem
  /\ HeadOf(u, k) = n /\ \A j \in Bins : j # k => HeadOf(u, j) = HeadOf(h, j)

(***************************************************************************)
(* Setting the head of a class.                                            *)
(***************************************************************************)
LEMMA SetSeg ==
  ASSUME NEW h \in HeapRec, NEW k \in Classes, NEW n \in Addrs, NEW u,
         u = [h EXCEPT !.seg_list[k] = n]
  PROVE  SetHead(u, h, k, n)
<1>1. h.seg_list \in [Classes -> Addrs]
  BY DEF HeapRec
<1>2. u.seg_list = [h.seg_list EXCEPT ![k] = n]
  BY DEF HeapRec
<1>3. u \in HeapRec /\ u.brk = h.brk /\ u.heap_start = h.heap_start /\ u.mem = h.mem
      /\ u.mini_list = h.mini_list
  BY <1>1, <1>2 DEF HeapRec
<1>4. -1 \notin Classes
  BY Consts
<1>5. u.seg_list[k] = n /\ \A j \in Classes : j # k => u.seg_list[j] = h.seg_list[j]
  BY <1>1, <1>2
<1> QED
  BY <1>3, <1>4, <1>5 DEF SetHead, HeadOf, Bins

(***************************************************************************)
(* Setting the head of the mini list.                                      *)
(***************************************************************************)
LEMMA SetMini ==
  ASSUME NEW h \in HeapRec, NEW n \in Addrs, NEW u, u = [h EXCEPT !.mini_list = n]
  PROVE  SetHead(u, h, -1, n)
<1>1. u \in HeapRec /\ u.brk = h.brk /\ u.heap_start = h.heap_start /\ u.mem = h.mem
      /\ u.seg_list = h.seg_list /\ u.mini_list = n
  BY DEF HeapRec
<1> QED
  BY <1>1 DEF SetHead, HeadOf, Bins

(***************************************************************************)
(* A store leaves the heads alone.                                         *)
(***************************************************************************)
LEMMA StoredHeads ==
  ASSUME NEW h, NEW u, SameGlobals(u, h), NEW k
  PROVE  HeadOf(u, k) = HeadOf(h, k)
BY DEF SameGlobals, HeadOf

(***************************************************************************)
(* NULL is an address and a word.                                          *)
(***************************************************************************)
LEMMA ZeroAddr == 0 \in Addrs /\ 0 \in Words
<1>1. 0 % 8 = 0
  OBVIOUS
<1> QED
  BY <1>1, Consts, AddrFact DEF Words

(***************************************************************************)
(* An address fits a word.                                                 *)
(***************************************************************************)
LEMMA AddrIsWord ==
  ASSUME NEW a \in Addrs
  PROVE  a \in Words /\ a \in Nat
BY AddrFact, Consts DEF Words

-----------------------------------------------------------------------------
(***************************************************************************)
(* Unlinking the head of a list.                                           *)
(***************************************************************************)
LEMMA RemoveHead ==
  ASSUME NEW h \in HeapRec, NEW k \in Bins, NEW S, NodesOK(S, k), ListRep(h, k, S),
         NEW b \in S, b = HeadOf(h, k), NEW u, SetHead(u, h, k, h.mem[b + LinkOff(k)])
  PROVE  Relinked(u, h, k, S \ {b}, S)
<1>1. PICK rk : Linked(S, rk, HeadOf(h, k), NextOf(h, LinkOff(k)))
  BY DEF ListRep
<1>2. u \in HeapRec /\ u.mem = h.mem /\ HeadOf(u, k) = h.mem[b + LinkOff(k)]
  BY DEF SetHead
<1>3. NextOf(u, LinkOff(k)) = NextOf(h, LinkOff(k))
  BY <1>2 DEF NextOf, Word
<1>4. Unlinked(S, b, HeadOf(h, k), NextOf(h, LinkOff(k)), HeadOf(u, k), NextOf(u, LinkOff(k)))
  BY <1>2, <1>3, NodeNext DEF Unlinked
<1>5. Linked(S \ {b}, rk, HeadOf(u, k), NextOf(u, LinkOff(k)))
  BY <1>1, <1>4, LinkedRemove
<1>6. k # -1 => BackLinks(u, S \ {b})
  BY <1>2 DEF ListRep, BackLinks
<1>7. ListRep(u, k, S \ {b})
  BY <1>5, <1>6 DEF ListRep
<1> QED
  BY <1>2, <1>7 DEF Relinked, SetHead

(***************************************************************************)
(* u is h with p, the predecessor of b, linked to the successor of b, and  *)
(* in a class the successor linked back to p.                              *)
(***************************************************************************)
Bypassed(u, h, k, S, b, p, off) ==
  /\ u \in HeapRec /\ SameGlobals(u, h)
  /\ h.mem[p + off] = b /\ u.mem[p + off] = h.mem[b + off]
  /\ \A c \in S : c # p => u.mem[c + off] = h.mem[c + off]
  /\ k # -1 => /\ h.mem[b + 16] # 0 => u.mem[h.mem[b + 16] + 8] = p
               /\ \A c \in S : c # h.mem[b + 16] => u.mem[c + 8] = h.mem[c + 8]
  /\ \A x \in Addrs : u.mem[x] = h.mem[x] \/ \E c \in S : IsLink(k, c, x)

(***************************************************************************)
(* Unlinking a block that has a predecessor.                               *)
(***************************************************************************)
LEMMA RemoveInner ==
  ASSUME NEW h \in HeapRec, NEW k \in Bins, NEW S, NodesOK(S, k), ListRep(h, k, S),
         NEW b \in S, b # HeadOf(h, k), NEW p \in S, NEW u, NEW off, off = LinkOff(k),
         Bypassed(u, h, k, S, b, p, off)
  PROVE  Relinked(u, h, k, S \ {b}, S)
<1>0. /\ h.mem[p + LinkOff(k)] = b
      /\ u \in HeapRec /\ SameGlobals(u, h)
      /\ u.mem[p + LinkOff(k)] = h.mem[b + LinkOff(k)]
      /\ \A c \in S : c # p => u.mem[c + LinkOff(k)] = h.mem[c + LinkOff(k)]
      /\ k # -1 => /\ h.mem[b + 16] # 0 => u.mem[h.mem[b + 16] + 8] = p
                   /\ \A c \in S : c # h.mem[b + 16] => u.mem[c + 8] = h.mem[c + 8]
      /\ \A x \in Addrs : u.mem[x] = h.mem[x] \/ \E c \in S : IsLink(k, c, x)
  BY DEF Bypassed
<1>1. PICK rk : Linked(S, rk, HeadOf(h, k), NextOf(h, LinkOff(k)))
  BY DEF ListRep
<1>2. HeadOf(u, k) = HeadOf(h, k) /\ \A j \in Bins : HeadOf(u, j) = HeadOf(h, j)
  BY <1>0, StoredHeads
<1>3. \A c \in S : /\ NextOf(h, LinkOff(k))[c] = h.mem[c + LinkOff(k)]
                   /\ NextOf(u, LinkOff(k))[c] = u.mem[c + LinkOff(k)]
  BY <1>0, NodeNext
<1>4. p # b
  <2>1. Follows(S, rk, p, b)
    BY <1>0, <1>1, <1>3 DEF Linked
  <2>2. b # 0 /\ rk[b] \in Nat
    BY <1>1 DEF Linked, Ranked
  <2> QED
    BY <2>1, <2>2 DEF Follows
<1>5. Unlinked(S, b, HeadOf(h, k), NextOf(h, LinkOff(k)), HeadOf(u, k), NextOf(u, LinkOff(k)))
  BY <1>0, <1>2, <1>3, <1>4 DEF Unlinked
<1>6. Linked(S \ {b}, rk, HeadOf(u, k), NextOf(u, LinkOff(k)))
  BY <1>1, <1>5, LinkedRemove
<1>7. ASSUME k # -1
      PROVE  BackLinks(u, S \ {b})
  <2>1. LinkOff(k) = 16 /\ BackLinks(h, S)
    BY <1>7 DEF LinkOff, ListRep
  <2>2. ASSUME NEW c \in S \ {b}, u.mem[c + 16] # 0
        PROVE  u.mem[u.mem[c + 16] + 8] = c
    <3>1. CASE c = p
      BY <2>1, <2>2, <3>1, <1>7, <1>0
    <3>2. CASE c # p
      <4>1. u.mem[c + 16] = h.mem[c + 16]
        BY <1>0, <2>1, <3>2
      <4> DEFINE d == h.mem[c + 16]
      <4>2. d \in S /\ h.mem[d + 8] = c
        <5>1. d \in S \cup {0}
          BY <2>1, NextNode
        <5> QED
          BY <5>1, <4>1, <2>1, <2>2 DEF BackLinks
      <4>3. d # h.mem[b + 16]
        <5>1. ASSUME d = h.mem[b + 16]
              PROVE  FALSE
          <6>1. h.mem[b + 16] # 0
            BY <5>1, <4>1, <2>2
          <6>2. h.mem[h.mem[b + 16] + 8] = b
            BY <6>1, <2>1 DEF BackLinks
          <6> QED
            BY <5>1, <6>2, <4>2, <2>2
        <5> QED
          BY <5>1
      <4>4. u.mem[d + 8] = h.mem[d + 8]
        BY <1>0, <4>2, <4>3, <1>7
      <4> QED
        BY <4>1, <4>2, <4>4
    <3> QED
      BY <3>1, <3>2
  <2> QED
    BY <2>2 DEF BackLinks
<1>8. ListRep(u, k, S \ {b})
  BY <1>6, <1>7 DEF ListRep
<1> QED
  BY <1>0, <1>2, <1>8 DEF Relinked, SameGlobals

(***************************************************************************)
(* What remove_free does to a segregated list.                             *)
(***************************************************************************)
SegRemoved(h, k, b) ==
  IF h.seg_list[k] = b THEN [h EXCEPT !.seg_list[k] = Word(h, b + 16)]
  ELSE IF Word(h, b + 16) = 0 THEN Store(h, Word(h, b + 8) + 16, 0)
  ELSE Store(Store(h, Word(h, b + 8) + 16, Word(h, b + 16)), Word(h, b + 16) + 8, Word(h, b + 8))

(***************************************************************************)
(* remove_free on a segregated list: the back links find the predecessor   *)
(* in one step, and both neighbours are told.                              *)
(***************************************************************************)
LEMMA RemoveSeg ==
  ASSUME NEW h \in HeapRec, NEW k \in Classes, NEW S, NodesOK(S, k), ListRep(h, k, S),
         NEW b \in S, NEW u, u = SegRemoved(h, k, b)
  PROVE  Relinked(u, h, k, S \ {b}, S)
<1>1. k \in Bins /\ k # -1 /\ LinkOff(k) = 16 /\ HeadOf(h, k) = h.seg_list[k]
  BY Consts DEF Bins, LinkOff, HeadOf
<1>2. /\ b + 8 \in Addrs /\ b + 16 \in Addrs /\ b \in Addrs /\ b \in Nat
      /\ Word(h, b + 16) = h.mem[b + 16] /\ Word(h, b + 8) = h.mem[b + 8]
  BY <1>1, WordFact DEF NodesOK
<1> DEFINE n == h.mem[b + 16]
           p == h.mem[b + 8]
<1>3. n \in S \cup {0}
  BY <1>1, NextNode
<1>4. CASE h.seg_list[k] = b
  <2>1. u = [h EXCEPT !.seg_list[k] = n]
    BY <1>2, <1>4 DEF SegRemoved
  <2>2. n \in Addrs
    BY <1>3, ZeroAddr DEF NodesOK
  <2>3. SetHead(u, h, k, n)
    <3> HIDE DEF n
    <3> QED
      BY <2>1, <2>2, SetSeg
  <2> QED
    BY <1>1, <1>4, <2>3, RemoveHead
<1>5. CASE h.seg_list[k] # b
  <2>1. PICK q \in S : h.mem[q + 16] = b
    <3>1. PICK rk : Linked(S, rk, HeadOf(h, k), NextOf(h, LinkOff(k)))
      BY DEF ListRep
    <3>2. PICK q \in S : NextOf(h, LinkOff(k))[q] = b
      BY <1>1, <1>5, <3>1, LinkedPred
    <3> QED
      BY <1>1, <3>2, NodeNext
  <2>2. p = q
    <3>1. b # 0 /\ BackLinks(h, S)
      BY <1>1 DEF NodesOK, ListRep
    <3> QED
      BY <2>1, <3>1 DEF BackLinks
  <2>3. p \in S /\ p + 16 \in Addrs /\ h.mem[p + 16] = b
    BY <2>1, <2>2, <1>1 DEF NodesOK
  <2>4. \A c, d \in S : c + 8 # d + 16 /\ (c + 16 = d + 16 => c = d) /\ (c + 8 = d + 8 => c = d)
    BY DEF NodesOK
  <2>5. \A c \in S : c + 8 \in Addrs /\ c + 16 \in Addrs /\ c \in Addrs
    BY <1>1 DEF NodesOK
  <2>6. CASE n = 0
    <3>1. u = Store(h, p + 16, 0)
      BY <1>2, <1>5, <2>6 DEF SegRemoved
    <3> HIDE DEF p, n
    <3>2. Stored(u, h, p + 16, 0)
      BY <2>3, <3>1, ZeroAddr, StoreFact
    <3>3. u \in HeapRec /\ SameGlobals(u, h) /\ u.mem[p + 16] = 0
          /\ \A x \in Addrs : x # p + 16 => u.mem[x] = h.mem[x]
      BY <3>2 DEF Stored
    <3>4. \A c \in S : /\ c # p => u.mem[c + 16] = h.mem[c + 16]
                       /\ u.mem[c + 8] = h.mem[c + 8]
      BY <2>3, <2>4, <2>5, <3>3
    <3>5. \A x \in Addrs : u.mem[x] = h.mem[x] \/ \E c \in S : IsLink(k, c, x)
      BY <1>1, <2>3, <3>3 DEF IsLink
    <3>6. u.mem[p + 16] = h.mem[b + 16] /\ h.mem[b + 16] = 0
      BY <2>6, <3>3 DEF n
    <3>7. Bypassed(u, h, k, S, b, p, 16)
      BY <1>1, <2>3, <3>3, <3>4, <3>5, <3>6 DEF Bypassed
    <3> QED
      BY <1>1, <1>5, <2>3, <3>7, RemoveInner
  <2>7. CASE n # 0
    <3>1. u = Store(Store(h, p + 16, n), n + 8, p)
      BY <1>2, <1>5, <2>7 DEF SegRemoved
    <3>2. n \in S /\ n + 8 \in Addrs /\ n \in Words /\ p \in Words
      BY <1>3, <2>3, <2>5, <2>7, AddrIsWord
    <3> DEFINE h1 == Store(h, p + 16, n)
    <3> HIDE DEF p, n
    <3>3. Stored(h1, h, p + 16, n)
      BY <2>3, <3>2, StoreFact
    <3> HIDE DEF h1
    <3>4. h1 \in HeapRec /\ SameGlobals(h1, h) /\ h1.mem[p + 16] = n
          /\ \A x \in Addrs : x # p + 16 => h1.mem[x] = h.mem[x]
      BY <3>3 DEF Stored
    <3>5. u = Store(h1, n + 8, p)
      BY <3>1 DEF h1
    <3>6. Stored(u, h1, n + 8, p)
      BY <3>2, <3>4, <3>5, StoreFact
    <3>7. u \in HeapRec /\ SameGlobals(u, h1) /\ u.mem[n + 8] = p
          /\ \A x \in Addrs : x # n + 8 => u.mem[x] = h1.mem[x]
      BY <3>6 DEF Stored
    <3>8. SameGlobals(u, h)
      BY <3>4, <3>7 DEF SameGlobals
    <3>9. u.mem[p + 16] = n
      BY <2>3, <2>4, <3>2, <3>4, <3>7
    <3>10. \A c \in S : /\ c # p => u.mem[c + 16] = h.mem[c + 16]
                        /\ c # n => u.mem[c + 8] = h.mem[c + 8]
      BY <2>3, <2>4, <2>5, <3>2, <3>4, <3>7
    <3>11. \A x \in Addrs : u.mem[x] = h.mem[x] \/ \E c \in S : IsLink(k, c, x)
      BY <1>1, <2>3, <3>2, <3>4, <3>7 DEF IsLink
    <3>12. n = h.mem[b + 16]
      BY DEF n
    <3>13. Bypassed(u, h, k, S, b, p, 16)
      BY <1>1, <2>3, <3>7, <3>8, <3>9, <3>10, <3>11, <3>12 DEF Bypassed
    <3> QED
      BY <1>1, <1>5, <2>3, <3>13, RemoveInner
  <2> QED
    BY <2>6, <2>7
<1> QED
  BY <1>4, <1>5

(***************************************************************************)
(* remove_mini: the predecessor is found by walking the list. The shortcut *)
(* that empties the list when its head has no next is right because the    *)
(* block is then the only one.                                             *)
(***************************************************************************)
LEMMA RemoveMini ==
  ASSUME NEW h \in HeapRec, NEW S, NodesOK(S, -1), ListRep(h, -1, S), IsFiniteSet(S),
         Cardinality(S) <= MaxBlocks, NEW b \in S, NEW u, u = remove_mini(h, b)
  PROVE  Relinked(u, h, -1, S \ {b}, S)
<1>1. -1 \in Bins /\ LinkOff(-1) = 8 /\ HeadOf(h, -1) = h.mini_list
  BY DEF Bins, LinkOff, HeadOf
<1>2. b + 8 \in Addrs /\ b \in Addrs /\ b \in Nat /\ Word(h, b + 8) = h.mem[b + 8] /\ b # 0
  BY <1>1, WordFact DEF NodesOK
<1> DEFINE n == h.mem[b + 8]
           chain == mini_chain(h)
           f == h.mini_list
           nx == NextOf(h, 8)
           at == {i \in 2 .. Len(chain) : chain[i] = b}
<1>3. n \in S \cup {0}
  BY <1>1, NextNode
<1>4. n \in Addrs /\ n \in Words
  BY <1>3, ZeroAddr, AddrIsWord DEF NodesOK
<1>5. PICK rk : Linked(S, rk, f, nx)
  BY <1>1 DEF ListRep
<1>6. Walked(chain, S, f, nx)
  <2>1. chain = Walk(f, nx)
    BY Consts DEF mini_chain, Chain, NextOf
  <2>2. nx \in [Int -> Int]
    BY NextValue
  <2> HIDE DEF chain, f, nx
  <2> QED
    BY <1>5, <2>1, <2>2, WalkIs
<1>7. f \in S /\ f + 8 \in Addrs /\ Word(h, f + 8) = h.mem[f + 8] /\ nx[f] = h.mem[f + 8]
  <2>1. f \in S
    BY <1>1, HeadNode
  <2> QED
    BY <1>1, <2>1, WordFact, NodeNext DEF NodesOK
<1>8. u = IF h.mem[f + 8] = 0 THEN [h EXCEPT !.mini_list = 0]
          ELSE IF b = f THEN [h EXCEPT !.mini_list = n]
          ELSE IF at = {} THEN h
          ELSE Store(h, chain[Min(at) - 1] + 8, n)
  BY <1>2, <1>7, Consts DEF remove_mini
<1> HIDE DEF chain, n
<1>9. CASE h.mem[f + 8] = 0
  <2>1. \A c \in S : c = f
    <3>1. Follows(S, rk, f, 0) /\ 0 \notin S
      BY <1>5, <1>7, <1>9 DEF Linked, Ranked
    <3>2. \A c \in S : rk[f] <= rk[c] /\ rk[c] <= rk[f] /\ rk[c] \in Nat
      BY <1>5, <1>7, <3>1 DEF Follows, Linked, Heads, Ranked
    <3>3. \A c \in S : rk[f] = rk[c]
      BY <1>7, <3>2
    <3> QED
      BY <1>5, <1>7, <3>3 DEF Linked, Ranked
  <2>2. b = f /\ n = 0
    BY <2>1, <1>9 DEF n
  <2>3. u = [h EXCEPT !.mini_list = n]
    BY <1>8, <1>9, <2>2
  <2>4. SetHead(u, h, -1, n)
    BY <1>4, <2>3, SetMini
  <2> QED
    BY <1>1, <2>2, <2>4, RemoveHead DEF n
<1>10. CASE h.mem[f + 8] # 0 /\ b = f
  <2>1. u = [h EXCEPT !.mini_list = n]
    BY <1>8, <1>10
  <2>2. SetHead(u, h, -1, n)
    BY <1>4, <2>1, SetMini
  <2> QED
    BY <1>1, <1>10, <2>2, RemoveHead DEF n
<1>11. CASE h.mem[f + 8] # 0 /\ b # f
  <2>1. chain \in Seq(S) /\ Len(chain) \in Nat
    BY <1>6 DEF Walked
  <2>2. PICK i \in 1 .. Len(chain) : chain[i] = b
    BY <1>6 DEF Walked
  <2>3. i # 1
    <3>1. chain # << >>
      BY <2>1, <2>2
    <3>2. chain[1] = f
      BY <1>6, <3>1 DEF Walked
    <3> QED
      BY <3>2, <2>2, <1>11
  <2>4. at = {i}
    <3>1. \A j \in 2 .. Len(chain) : chain[j] = b => j = i
      <4>1. \A j, m \in 1 .. Len(chain) : chain[j] = chain[m] => j = m
        BY <1>6 DEF Walked
      <4>2. \A j \in 2 .. Len(chain) : j \in 1 .. Len(chain)
        BY <2>1
      <4> QED
        BY <4>1, <4>2, <2>2
    <3>2. i \in 2 .. Len(chain)
      BY <2>1, <2>2, <2>3
    <3> QED
      BY <3>1, <3>2, <2>2
  <2>5. Min(at) = i
    <3> HIDE DEF at
    <3>1. i \in Int /\ i <= i
      BY <2>1
    <3> QED
      BY <2>4, <3>1 DEF Min
  <2> DEFINE p == chain[i - 1]
  <2>6. p \in S /\ nx[p] = b
    <3>1. i - 1 \in 1 .. Len(chain) - 1 /\ (i - 1) + 1 = i
      BY <2>1, <2>2, <2>3
    <3>2. chain[(i - 1) + 1] = nx[chain[i - 1]]
      BY <1>6, <3>1 DEF Walked
    <3>3. chain[i - 1] \in S
      BY <2>1, <3>1
    <3> QED
      BY <2>2, <3>1, <3>2, <3>3
  <2>7. u = Store(h, p + 8, n)
    <3>1. at # {}
      BY <2>4
    <3> QED
      BY <1>8, <1>11, <2>5, <3>1
  <2>8. p + 8 \in Addrs /\ h.mem[p + 8] = b
    <3> HIDE DEF p
    <3>1. p + 8 \in Addrs
      BY <1>1, <2>6 DEF NodesOK
    <3>2. nx[p] = h.mem[p + 8]
      BY <1>1, <2>6, NodeNext
    <3> QED
      BY <2>6, <3>1, <3>2
  <2> HIDE DEF p
  <2>9. Stored(u, h, p + 8, n)
    BY <1>4, <2>7, <2>8, StoreFact
  <2>10. u \in HeapRec /\ SameGlobals(u, h) /\ u.mem[p + 8] = n
         /\ \A x \in Addrs : x # p + 8 => u.mem[x] = h.mem[x]
    BY <2>9 DEF Stored
  <2>11. \A c \in S : c # p => u.mem[c + 8] = h.mem[c + 8]
    <3>1. \A c \in S : c + 8 \in Addrs /\ c \in Nat
      BY DEF NodesOK
    <3> QED
      BY <2>6, <2>10, <3>1
  <2>12. \A x \in Addrs : u.mem[x] = h.mem[x] \/ \E c \in S : IsLink(-1, c, x)
    BY <2>6, <2>10 DEF IsLink
  <2>13. Bypassed(u, h, -1, S, b, p, 8)
    BY <2>8, <2>10, <2>11, <2>12 DEF Bypassed, n
  <2> HIDE DEF f, nx, at
  <2>14. b # HeadOf(h, -1)
    BY <1>1, <1>11 DEF f
  <2> QED
    BY <1>1, <2>6, <2>13, <2>14, RemoveInner
<1> QED
  BY <1>9, <1>10, <1>11

-----------------------------------------------------------------------------
(***************************************************************************)
(* u is h with b in front of the list k, and in a class the old head       *)
(* linked back to b.                                                       *)
(***************************************************************************)
Pushed(u, h, k, S, b, off) ==
  /\ u \in HeapRec /\ u.brk = h.brk /\ u.heap_start = h.heap_start
  /\ HeadOf(u, k) = b /\ \A j \in Bins : j # k => HeadOf(u, j) = HeadOf(h, j)
  /\ u.mem[b + off] = HeadOf(h, k)
  /\ \A c \in S : u.mem[c + off] = h.mem[c + off]
  /\ k # -1 => /\ HeadOf(h, k) # 0 => u.mem[HeadOf(h, k) + 8] = b
               /\ \A c \in S : c # HeadOf(h, k) => u.mem[c + 8] = h.mem[c + 8]
  /\ \A x \in Addrs : u.mem[x] = h.mem[x] \/ \E c \in S \cup {b} : IsLink(k, c, x)

(***************************************************************************)
(* Pushing a block on a list.                                              *)
(***************************************************************************)
LEMMA Insert ==
  ASSUME NEW h \in HeapRec, NEW k \in Bins, NEW S, NEW b, b \notin S, NodesOK(S \cup {b}, k),
         ListRep(h, k, S), NEW u, NEW off, off = LinkOff(k), Pushed(u, h, k, S, b, off)
  PROVE  Relinked(u, h, k, S \cup {b}, S \cup {b})
<1>1. PICK rk : Linked(S, rk, HeadOf(h, k), NextOf(h, LinkOff(k)))
  BY DEF ListRep
<1>2. u \in HeapRec /\ b \in S \cup {b} /\ b \in Nat /\ b # 0 /\ NodesOK(S, k)
  BY DEF Pushed, NodesOK
<1>3. \A c \in S \cup {b} : /\ NextOf(h, LinkOff(k))[c] = h.mem[c + LinkOff(k)]
                            /\ NextOf(u, LinkOff(k))[c] = u.mem[c + LinkOff(k)]
  BY <1>2, NodeNext
<1>4. NextOf(u, LinkOff(k))[b] = HeadOf(h, k)
      /\ \A c \in S : NextOf(u, LinkOff(k))[c] = NextOf(h, LinkOff(k))[c]
  BY <1>3 DEF Pushed
<1>5. \E rk1 : Linked(S \cup {b}, rk1, b, NextOf(u, LinkOff(k)))
  BY <1>1, <1>2, <1>4, LinkedInsert
<1>6. ASSUME k # -1
      PROVE  BackLinks(u, S \cup {b})
  <2>1. LinkOff(k) = 16 /\ BackLinks(h, S)
    BY <1>6 DEF LinkOff, ListRep
  <2>2. u.mem[b + 16] # 0 => u.mem[u.mem[b + 16] + 8] = b
    BY <1>6, <2>1 DEF Pushed
  <2>3. ASSUME NEW c \in S, u.mem[c + 16] # 0
        PROVE  u.mem[u.mem[c + 16] + 8] = c
    <3> DEFINE d == h.mem[c + 16]
    <3>1. u.mem[c + 16] = d
      BY <2>1 DEF Pushed
    <3>2. d \in S /\ h.mem[d + 8] = c
      <4>1. d \in S \cup {0}
        BY <1>2, <2>1, NextNode
      <4> QED
        BY <4>1, <3>1, <2>1, <2>3 DEF BackLinks
    <3>3. d # HeadOf(h, k)
      <4>1. Follows(S, rk, c, d)
        BY <1>1, <1>3, <2>1 DEF Linked
      <4>2. rk[d] < rk[c]
        BY <3>1, <2>3, <4>1 DEF Follows
      <4>3. rk[c] \in Nat /\ rk[d] \in Nat /\ (HeadOf(h, k) \in S => rk[c] <= rk[HeadOf(h, k)])
        BY <1>1, <3>2 DEF Linked, Ranked, Heads
      <4> HIDE DEF d
      <4> QED
        BY <3>2, <4>2, <4>3
    <3>4. u.mem[d + 8] = h.mem[d + 8]
      BY <3>2, <3>3, <1>6 DEF Pushed
    <3> QED
      BY <3>1, <3>2, <3>4
  <2> QED
    BY <2>2, <2>3 DEF BackLinks
<1>7. ListRep(u, k, S \cup {b})
  BY <1>5, <1>6 DEF ListRep, Pushed
<1> QED
  BY <1>7 DEF Relinked, Pushed

(***************************************************************************)
(* insert_free on the mini list.                                           *)
(***************************************************************************)
LEMMA InsertMini ==
  ASSUME NEW h \in HeapRec, NEW S, NEW b, b \notin S, NodesOK(S \cup {b}, -1),
         ListRep(h, -1, S), NEW u, u = [Store(h, b + 8, h.mini_list) EXCEPT !.mini_list = b]
  PROVE  Relinked(u, h, -1, S \cup {b}, S \cup {b})
<1>1. -1 \in Bins /\ LinkOff(-1) = 8 /\ HeadOf(h, -1) = h.mini_list
  BY DEF Bins, LinkOff, HeadOf
<1>2. \A c \in S \cup {b} : c + 8 \in Addrs /\ c \in Addrs /\ c \in Nat
  BY DEF NodesOK
<1> DEFINE f == h.mini_list
           h1 == Store(h, b + 8, f)
<1>3. f \in Words
  BY <1>1, HeadType, AddrIsWord
<1>4. Stored(h1, h, b + 8, f)
  <2> HIDE DEF f
  <2> QED
    BY <1>2, <1>3, StoreFact
<1>5. u = [h1 EXCEPT !.mini_list = b]
  OBVIOUS
<1> HIDE DEF h1, f
<1>6. h1 \in HeapRec /\ SameGlobals(h1, h) /\ h1.mem[b + 8] = f
      /\ \A x \in Addrs : x # b + 8 => h1.mem[x] = h.mem[x]
  BY <1>4 DEF Stored
<1>7. SetHead(u, h1, -1, b)
  BY <1>2, <1>5, <1>6, SetMini
<1>8. \A j \in Bins : HeadOf(h1, j) = HeadOf(h, j)
  BY <1>6, StoredHeads
<1>9. \A c \in S : c + 8 # b + 8
  BY <1>2
<1>10. Pushed(u, h, -1, S, b, 8)
  BY <1>1, <1>2, <1>6, <1>7, <1>8, <1>9 DEF Pushed, SetHead, SameGlobals, IsLink, f
<1> QED
  BY <1>1, <1>10, Insert

(***************************************************************************)
(* What insert_free does to a segregated list.                             *)
(***************************************************************************)
SegInserted(h, k, b) ==
  LET h1 == [h EXCEPT !.seg_list[k] = b]
  IN  IF h.seg_list[k] # 0
      THEN Store(Store(h1, h.seg_list[k] + 8, b), b + 16, h.seg_list[k])
      ELSE Store(Store(h1, b + 16, 0), b + 8, 0)

(***************************************************************************)
(* insert_free on a segregated list. The previous field of the new head is *)
(* left alone when the list is not empty; no reader of the list depends on *)
(* it.                                                                     *)
(***************************************************************************)
LEMMA InsertSeg ==
  ASSUME NEW h \in HeapRec, NEW k \in Classes, NEW S, NEW b, b \notin S,
         NodesOK(S \cup {b}, k), ListRep(h, k, S), NEW u, u = SegInserted(h, k, b)
  PROVE  Relinked(u, h, k, S \cup {b}, S \cup {b})
<1>1. k \in Bins /\ k # -1 /\ LinkOff(k) = 16 /\ HeadOf(h, k) = h.seg_list[k]
  BY Consts DEF Bins, LinkOff, HeadOf
<1>2. \A c \in S \cup {b} : /\ c + 8 \in Addrs /\ c + 16 \in Addrs /\ c \in Addrs
                            /\ c \in Nat /\ c % 16 = 8
  BY <1>1 DEF NodesOK
<1> DEFINE f == h.seg_list[k]
           h1 == [h EXCEPT !.seg_list[k] = b]
<1>3. b \in Words /\ f \in Words /\ f \in Nat
  BY <1>1, <1>2, HeadType, AddrIsWord
<1>4. SetHead(h1, h, k, b)
  BY <1>2, SetSeg
<1>5. u = IF f # 0 THEN Store(Store(h1, f + 8, b), b + 16, f)
          ELSE Store(Store(h1, b + 16, 0), b + 8, 0)
  BY DEF SegInserted
<1> HIDE DEF h1
<1>6. h1 \in HeapRec /\ h1.mem = h.mem
  BY <1>4 DEF SetHead
<1>7. \A c, d \in S \cup {b} : /\ c + 8 # d + 16
                               /\ (c + 16 = d + 16 => c = d) /\ (c + 8 = d + 8 => c = d)
  BY <1>2
<1>8. CASE f # 0
  <2>1. f \in S
    BY <1>1, <1>8, HeadNode
  <2> DEFINE h2 == Store(h1, f + 8, b)
  <2>2. Stored(h2, h1, f + 8, b)
    <3> HIDE DEF f
    <3> QED
      BY <1>2, <1>3, <1>6, <2>1, StoreFact
  <2>3. u = Store(h2, b + 16, f)
    BY <1>5, <1>8
  <2> HIDE DEF h2, f
  <2>4. h2 \in HeapRec /\ SameGlobals(h2, h1) /\ h2.mem[f + 8] = b
        /\ \A x \in Addrs : x # f + 8 => h2.mem[x] = h.mem[x]
    BY <1>6, <2>2 DEF Stored
  <2>5. Stored(u, h2, b + 16, f)
    BY <1>2, <1>3, <2>3, <2>4, StoreFact
  <2>6. u \in HeapRec /\ SameGlobals(u, h2) /\ u.mem[b + 16] = f
        /\ \A x \in Addrs : x # b + 16 => u.mem[x] = h2.mem[x]
    BY <2>5 DEF Stored
  <2>7. \A j \in Bins : HeadOf(u, j) = HeadOf(h1, j)
    BY <2>4, <2>6, StoredHeads
  <2>8. u.mem[f + 8] = b
    BY <1>2, <1>7, <2>1, <2>4, <2>6
  <2>9. \A c \in S : /\ u.mem[c + 16] = h.mem[c + 16]
                     /\ c # f => u.mem[c + 8] = h.mem[c + 8]
    BY <1>2, <1>7, <2>1, <2>4, <2>6
  <2>10. \A x \in Addrs : u.mem[x] = h.mem[x] \/ \E c \in S \cup {b} : IsLink(k, c, x)
    BY <1>1, <2>1, <2>4, <2>6 DEF IsLink
  <2>11. Pushed(u, h, k, S, b, 16)
    BY <1>1, <1>4, <2>4, <2>6, <2>7, <2>8, <2>9, <2>10 DEF Pushed, SetHead, SameGlobals, f
  <2> QED
    BY <1>1, <2>11, Insert
<1>9. CASE f = 0
  <2>1. S = {}
    <3>1. 0 \notin S
      BY <1>2
    <3> QED
      BY <1>1, <1>9, <3>1, HeadNode
  <2> DEFINE h2 == Store(h1, b + 16, 0)
  <2>2. Stored(h2, h1, b + 16, 0)
    BY <1>2, <1>6, ZeroAddr, StoreFact
  <2>3. u = Store(h2, b + 8, 0)
    BY <1>5, <1>9
  <2> HIDE DEF h2, f
  <2>4. h2 \in HeapRec /\ SameGlobals(h2, h1) /\ h2.mem[b + 16] = 0
        /\ \A x \in Addrs : x # b + 16 => h2.mem[x] = h.mem[x]
    BY <1>6, <2>2 DEF Stored
  <2>5. Stored(u, h2, b + 8, 0)
    BY <1>2, <2>3, <2>4, ZeroAddr, StoreFact
  <2>6. u \in HeapRec /\ SameGlobals(u, h2) /\ u.mem[b + 8] = 0
        /\ \A x \in Addrs : x # b + 8 => u.mem[x] = h2.mem[x]
    BY <2>5 DEF Stored
  <2>7. \A j \in Bins : HeadOf(u, j) = HeadOf(h1, j)
    BY <2>4, <2>6, StoredHeads
  <2>8. u.mem[b + 16] = f
    BY <1>2, <1>7, <1>9, <2>4, <2>6
  <2>9. \A x \in Addrs : u.mem[x] = h.mem[x] \/ \E c \in S \cup {b} : IsLink(k, c, x)
    BY <1>1, <2>4, <2>6 DEF IsLink
  <2>10. Pushed(u, h, k, S, b, 16)
    BY <1>1, <1>4, <1>9, <2>1, <2>4, <2>6, <2>7, <2>8, <2>9
       DEF Pushed, SetHead, SameGlobals, f
  <2> QED
    BY <1>1, <2>10, Insert
<1> QED
  BY <1>8, <1>9

-----------------------------------------------------------------------------
(***************************************************************************)
(* The list a free block of a size belongs to.                             *)
(***************************************************************************)
Bin(s) == IF s = 16 THEN -1 ELSE find_class(s)

(***************************************************************************)
(* c is a free block that belongs to the list k.                           *)
(***************************************************************************)
Node(H, k, c) == c \in DOMAIN H /\ ~ H[c].alloc /\ Bin(H[c].size) = k

(***************************************************************************)
(* Every list has free blocks of its own sizes only.                       *)
(***************************************************************************)
Binny(H, B) == \A k \in Bins : \A c \in B[k] : Node(H, k, c)

(***************************************************************************)
(* x is a payload byte of an allocated block.                              *)
(***************************************************************************)
InUse(H, e, x) ==
  \E c \in DOMAIN H : c # e /\ H[c].alloc /\ c < x /\ x < c + H[c].size

(***************************************************************************)
(* The header at the bottom of the heap.                                   *)
(***************************************************************************)
Prologue == Hdr(0, TRUE, FALSE, FALSE)

(***************************************************************************)
(* The words of h show the blocks H and the lists B: the tags of every     *)
(* block, the links of every list, the prologue and heap_start.            *)
(***************************************************************************)
Rep(h, H, B) ==
  /\ h \in HeapRec /\ h.heap_start = 8 /\ h.mem[0] = Pack(Prologue)
  /\ Tags(h, H)
  /\ \A k \in Bins : ListRep(h, k, B[k])

(***************************************************************************)
(* find_class yields a class.                                              *)
(***************************************************************************)
LEMMA ClassOf ==
  ASSUME NEW n \in Nat
  PROVE  find_class(n) \in Classes /\ find_class(n) # -1 /\ find_class(n) \in Nat
<1>1. BH!find_class(n) = find_class(n) /\ BH!Classes = Classes
  BY DEF BH!find_class, find_class, BH!Classes, Classes, BH!LENGTH, LENGTH,
         BH!ClassBound, ClassBound
<1>2. BH!find_class(n) \in BH!Classes
  BY Premises, BH!ClassFound
<1> QED
  BY <1>1, <1>2, Consts

(***************************************************************************)
(* The layout of a block that is on a list.                                *)
(***************************************************************************)
LEMMA NodeFacts ==
  ASSUME NEW H, NEW e, Tiling(H, e), NEW k \in Bins, NEW c, Node(H, k, c)
  PROVE  /\ c \in DOMAIN H /\ c # e /\ ~ H[c].alloc /\ BlockAt(H, c, e)
         /\ k = -1 <=> H[c].size = 16
         /\ NodesOK({c}, k) /\ c \in Nat /\ c % 16 = 8
         /\ k # -1 => k = find_class(H[c].size)
<1>1. c \in DOMAIN H /\ c # e /\ ~ H[c].alloc
  BY EpilogueFacts DEF Node
<1>2. BlockAt(H, c, e)
  BY <1>1, BlockFacts
<1>3. k = -1 <=> H[c].size = 16
  BY <1>2, ClassOf DEF Node, Bin, BlockAt
<1>4. NodesOK({c}, k)
  BY <1>2, <1>3 DEF NodesOK, BlockAt, LinkOff
<1>5. k # -1 => k = find_class(H[c].size)
  BY DEF Node, Bin
<1> QED
  BY <1>1, <1>2, <1>3, <1>4, <1>5 DEF BlockAt

(***************************************************************************)
(* There are no more blocks than MaxBlocks, the bound of Walk.             *)
(***************************************************************************)
LEMMA NodesFew ==
  ASSUME NEW H, NEW e, Tiling(H, e), NEW S, S \subseteq DOMAIN H \ {e}
  PROVE  IsFiniteSet(S) /\ Cardinality(S) <= MaxBlocks
<1> DEFINE f == [c \in S |-> c \div 16]
           T == 0 .. MaxBlocks - 1
<1>1. MaxBlocks \in Nat /\ MaxBlocks = MaxHeap \div 16 /\ MaxHeap = 16 * MaxBlocks
  BY Consts DEF MaxBlocks
<1>2. ASSUME NEW c \in S
      PROVE  c \in Nat /\ c % 16 = 8 /\ c + 24 <= MaxHeap
  <2>1. BlockAt(H, c, e) /\ e + 8 <= MaxHeap /\ e \in Nat
    BY BlockFacts, EpilogueFacts
  <2> QED
    BY <2>1, Consts DEF BlockAt
<1>3. \A c \in S : c \div 16 \in T
  BY <1>1, <1>2
<1>4. \A c, d \in S : c \div 16 = d \div 16 => c = d
  BY <1>2
<1>5. f \in Injection(S, T)
  BY <1>3, <1>4 DEF Injection, IsInjective
<1>6. IsFiniteSet(T) /\ Cardinality(T) = MaxBlocks
  BY <1>1, FS_Interval
<1>7. IsFiniteSet(S) /\ Cardinality(S) <= Cardinality(T)
  <2> HIDE DEF f, T
  <2> QED
    BY <1>5, <1>6, FS_Injection
<1> QED
  BY <1>6, <1>7

(***************************************************************************)
(* The blocks S belong to the list k.                                      *)
(***************************************************************************)
Nodes(H, k, S) == \A c \in S : Node(H, k, c)

(***************************************************************************)
(* The blocks of a list: few enough, with their links in the heap.         *)
(***************************************************************************)
LEMMA NodesFacts ==
  ASSUME NEW H, NEW e, Tiling(H, e), NEW k \in Bins, NEW S, Nodes(H, k, S)
  PROVE  NodesOK(S, k) /\ S \subseteq DOMAIN H \ {e} /\ IsFiniteSet(S)
         /\ Cardinality(S) <= MaxBlocks
<1>1. NodesOK(S, k)
  BY NodeFacts DEF NodesOK, Nodes
<1>2. S \subseteq DOMAIN H \ {e}
  BY NodeFacts DEF Nodes
<1> QED
  BY <1>1, <1>2, NodesFew

(***************************************************************************)
(* A link word of a free block is no boundary tag of any block and no      *)
(* payload in use.                                                         *)
(***************************************************************************)
LEMMA LinkClear ==
  ASSUME NEW H, NEW e, Tiling(H, e), NEW k \in Bins, NEW c, Node(H, k, c), NEW x, IsLink(k, c, x)
  PROVE  /\ x # 0 /\ x \in Nat
         /\ \A d \in DOMAIN H : x \notin TagWords(d, H[d])
         /\ ~ InUse(H, e, x)
<1>1. /\ c \in DOMAIN H /\ c # e /\ ~ H[c].alloc /\ BlockAt(H, c, e)
      /\ k = -1 <=> H[c].size = 16
  BY NodeFacts
<1>2. PICK i \in {8, 16} : x = c + i /\ i < H[c].size /\ (i = 16 => H[c].size >= 32)
  BY <1>1 DEF IsLink, BlockAt
<1>3. x \in Nat /\ x # 0 /\ i \in Nat /\ i < Extent(H, c, e)
  BY <1>1, <1>2 DEF BlockAt, Extent
<1>4. ASSUME NEW d \in DOMAIN H, x \in TagWords(d, H[d])
      PROVE  FALSE
  <2>0. d \in Nat /\ d % 16 = 8 /\ HeaderOK(H[d]) /\ c \in Nat /\ c % 16 = 8
    BY <1>1, HeaderFacts DEF Tiling, BlockAt
  <2>1. CASE x = d
    <3>1. 0 < Extent(H, d, e)
      BY BlockFacts DEF Extent, BlockAt
    <3>2. c + i = d + 0
      BY <1>2, <2>1, <2>0
    <3>3. i = 0
      BY <1>1, <1>3, <3>1, <3>2, Zones
    <3> QED
      BY <3>3, <1>2
  <2>2. CASE ~ H[d].alloc /\ H[d].size # 16 /\ x = d + H[d].size - 8
    <3>1. d # e /\ BlockAt(H, d, e)
      BY <2>2, BlockFacts, EpilogueFacts
    <3> DEFINE j == H[d].size - 8
    <3>2. j \in Nat /\ j < Extent(H, d, e) /\ c + i = d + j
      BY <1>2, <2>2, <3>1 DEF Extent, BlockAt
    <3> HIDE DEF j
    <3>3. c = d /\ i = j
      BY <1>1, <1>3, <3>2, Zones
    <3>4. i = H[c].size - 8
      BY <3>3 DEF j
    <3> QED
      BY <1>1, <1>2, <2>2, <3>3, <3>4 DEF BlockAt
  <2> QED
    BY <1>4, <2>1, <2>2 DEF TagWords
<1>5. ASSUME InUse(H, e, x)
      PROVE  FALSE
  <2>1. PICK d \in DOMAIN H : d # e /\ H[d].alloc /\ d < x /\ x < d + H[d].size
    BY <1>5 DEF InUse
  <2>2. BlockAt(H, d, e)
    BY <2>1, BlockFacts
  <2> DEFINE j == x - d
  <2>3. j \in Nat /\ j < Extent(H, d, e) /\ c + i = d + j
    BY <1>2, <1>3, <2>1, <2>2 DEF Extent, BlockAt
  <2> HIDE DEF j
  <2>4. c = d
    BY <1>1, <1>3, <2>3, Zones
  <2> QED
    BY <1>1, <2>1, <2>4
<1> QED
  BY <1>3, <1>4, <1>5

(***************************************************************************)
(* B1 is B with the list k made S.                                         *)
(***************************************************************************)
Relists(B1, B, k, S) == B1[k] = S /\ \A j \in Bins : j # k => B1[j] = B[j]

(***************************************************************************)
(* u and h agree on the payload of every allocated block.                  *)
(***************************************************************************)
Kept(u, h, H, e) == \A x \in Addrs : InUse(H, e, x) => u.mem[x] = h.mem[x]

(***************************************************************************)
(* An operation on one list leaves the tags, the other lists and the       *)
(* payload in use alone.                                                   *)
(***************************************************************************)
LEMMA RelinkRep ==
  ASSUME NEW H, NEW e, Tiling(H, e), NEW B, Binny(H, B), NEW h, Rep(h, H, B), NEW k \in Bins,
         NEW N, Nodes(H, k, N), NEW S, NEW u, Relinked(u, h, k, S, N),
         NEW B1, Relists(B1, B, k, S)
  PROVE  Rep(u, H, B1) /\ Kept(u, h, H, e) /\ u.brk = h.brk
<1>1. /\ u \in HeapRec /\ u.brk = h.brk /\ u.heap_start = h.heap_start
      /\ \A j \in Bins : j # k => HeadOf(u, j) = HeadOf(h, j)
      /\ ListRep(u, k, S)
      /\ \A x \in Addrs : u.mem[x] = h.mem[x] \/ \E c \in N : IsLink(k, c, x)
  BY DEF Relinked
<1>2. ASSUME NEW x \in Addrs, u.mem[x] # h.mem[x]
      PROVE  x # 0 /\ (\A d \in DOMAIN H : x \notin TagWords(d, H[d])) /\ ~ InUse(H, e, x)
  <2>1. PICK c \in N : IsLink(k, c, x)
    BY <1>1, <1>2
  <2> QED
    BY <2>1, LinkClear DEF Nodes
<1>3. u.mem[0] = Pack(Prologue)
  BY <1>2, ZeroAddr DEF Rep
<1>4. Tags(u, H)
  <2> SUFFICES ASSUME NEW d \in DOMAIN H
               PROVE  Tag(u.mem, d, H[d])
    BY DEF Tags
  <2>1. Tag(h.mem, d, H[d])
    BY DEF Rep, Tags
  <2>2. d \in Addrs /\ d \in TagWords(d, H[d])
    BY HeaderFacts DEF TagWords
  <2>3. u.mem[d] = h.mem[d]
    BY <1>2, <2>2
  <2>4. ASSUME ~ H[d].alloc, H[d].size # 16
        PROVE  u.mem[d + H[d].size - 8] = h.mem[d + H[d].size - 8]
    <3>1. d # e /\ BlockAt(H, d, e)
      BY <2>4, BlockFacts, EpilogueFacts
    <3>2. d + H[d].size - 8 \in Addrs /\ d + H[d].size - 8 \in TagWords(d, H[d])
      BY <2>4, <3>1 DEF TagWords, BlockAt
    <3> QED
      BY <1>2, <3>2
  <2> QED
    BY <2>1, <2>3, <2>4 DEF Tag
<1>5. ASSUME NEW j \in Bins, j # k
      PROVE  ListRep(u, j, B[j])
  <2>1. NodesOK(B[j], j) /\ Nodes(H, j, B[j])
    BY NodesFacts DEF Binny, Nodes
  <2>2. ASSUME NEW d \in B[j]
        PROVE  u.mem[d + 8] = h.mem[d + 8] /\ u.mem[d + LinkOff(j)] = h.mem[d + LinkOff(j)]
    <3>1. d + 8 \in Addrs /\ d + LinkOff(j) \in Addrs /\ d \in Nat /\ d % 16 = 8
      BY <2>1 DEF NodesOK
    <3>2. ASSUME NEW y \in {8, 16}, d + y \in Addrs, u.mem[d + y] # h.mem[d + y]
          PROVE  FALSE
      <4>1. PICK c \in N : IsLink(k, c, d + y)
        BY <1>1, <3>2
      <4>2. c \in Nat /\ c % 16 = 8 /\ Node(H, k, c) /\ Node(H, j, d)
        BY <2>1, NodeFacts DEF Nodes
      <4>3. c = d
        BY <3>1, <4>1, <4>2 DEF IsLink
      <4> QED
        BY <4>2, <4>3, <1>5 DEF Node
    <3> QED
      BY <3>1, <3>2 DEF LinkOff
  <2> QED
    BY <1>1, <1>5, <2>1, <2>2, ListFrame DEF Rep
<1>6. \A j \in Bins : ListRep(u, j, B1[j])
  BY <1>1, <1>5 DEF Relists
<1>7. Kept(u, h, H, e)
  BY <1>2 DEF Kept
<1> QED
  BY <1>1, <1>3, <1>4, <1>6, <1>7 DEF Rep

-----------------------------------------------------------------------------
(***************************************************************************)
(* remove_free on the list of a free block takes it out of that list and   *)
(* does nothing else.                                                      *)
(***************************************************************************)
LEMMA RemoveFree ==
  ASSUME NEW H, NEW e, Tiling(H, e), NEW B, Binny(H, B), NEW h, Rep(h, H, B), NEW k \in Bins,
         NEW b \in B[k], NEW u, u = remove_free(h, b), NEW B1, Relists(B1, B, k, B[k] \ {b})
  PROVE  Rep(u, H, B1) /\ Kept(u, h, H, e) /\ u.brk = h.brk
<1>1. Nodes(H, k, B[k]) /\ NodesOK(B[k], k) /\ IsFiniteSet(B[k]) /\ Cardinality(B[k]) <= MaxBlocks
  BY NodesFacts DEF Binny, Nodes
<1>2. /\ b \in DOMAIN H /\ BlockAt(H, b, e) /\ (k = -1 <=> H[b].size = 16)
      /\ k # -1 => k = find_class(H[b].size)
  BY <1>1, NodeFacts DEF Nodes
<1>3. HeaderRead(h, b, H[b]) /\ h \in HeapRec /\ ListRep(h, k, B[k])
  BY <1>2, ReadHeader DEF Rep
<1>4. CASE k = -1
  <2>1. u = remove_mini(h, b)
    BY <1>2, <1>3, <1>4 DEF remove_free, HeaderRead
  <2>2. Relinked(u, h, k, B[k] \ {b}, B[k])
    BY <1>1, <1>3, <1>4, <2>1, RemoveMini
  <2> QED
    BY <1>1, <2>2, RelinkRep
<1>5. CASE k # -1
  <2>1. k \in Classes
    BY <1>5 DEF Bins
  <2>2. u = SegRemoved(h, k, b)
    BY <1>2, <1>3, <1>5, Consts DEF remove_free, HeaderRead, SegRemoved, is_head
  <2>3. Relinked(u, h, k, B[k] \ {b}, B[k])
    BY <1>1, <1>3, <2>1, <2>2, RemoveSeg
  <2> QED
    BY <1>1, <2>3, RelinkRep
<1> QED
  BY <1>4, <1>5

(***************************************************************************)
(* insert_free puts a free block on the list of its size and does nothing  *)
(* else.                                                                   *)
(***************************************************************************)
LEMMA InsertFree ==
  ASSUME NEW H, NEW e, Tiling(H, e), NEW B, Binny(H, B), NEW h, Rep(h, H, B), NEW k \in Bins,
         NEW b, Node(H, k, b), b \notin B[k], NEW u, u = insert_free(h, b),
         NEW B1, Relists(B1, B, k, B[k] \cup {b})
  PROVE  Rep(u, H, B1) /\ Kept(u, h, H, e) /\ u.brk = h.brk
<1>1. Nodes(H, k, B[k] \cup {b}) /\ NodesOK(B[k] \cup {b}, k)
  <2>1. Nodes(H, k, B[k] \cup {b})
    BY DEF Binny, Nodes
  <2> QED
    BY <2>1, NodesFacts
<1>2. /\ b \in DOMAIN H /\ BlockAt(H, b, e) /\ (k = -1 <=> H[b].size = 16)
      /\ k # -1 => k = find_class(H[b].size)
  BY NodeFacts
<1>3. HeaderRead(h, b, H[b]) /\ h \in HeapRec /\ ListRep(h, k, B[k])
  BY <1>2, ReadHeader DEF Rep
<1>4. CASE k = -1
  <2>1. u = [Store(h, b + 8, h.mini_list) EXCEPT !.mini_list = b]
    BY <1>2, <1>3, <1>4, Consts DEF insert_free, HeaderRead
  <2>2. Relinked(u, h, k, B[k] \cup {b}, B[k] \cup {b})
    BY <1>1, <1>3, <1>4, <2>1, InsertMini
  <2> QED
    BY <1>1, <2>2, RelinkRep
<1>5. CASE k # -1
  <2>1. k \in Classes
    BY <1>5 DEF Bins
  <2>2. u = SegInserted(h, k, b)
    BY <1>2, <1>3, <1>5, Consts DEF insert_free, HeaderRead, SegInserted
  <2>3. Relinked(u, h, k, B[k] \cup {b}, B[k] \cup {b})
    BY <1>1, <1>3, <2>1, <2>2, InsertSeg
  <2> QED
    BY <1>1, <2>3, RelinkRep
<1> QED
  BY <1>4, <1>5

-----------------------------------------------------------------------------
(***************************************************************************)
(* The tags of a block lie in the block.                                   *)
(***************************************************************************)
LEMMA TagPlace ==
  ASSUME NEW H, NEW e, Tiling(H, e), NEW c \in DOMAIN H, NEW x, x \in TagWords(c, H[c])
  PROVE  \E i \in Nat : x = c + i /\ i < Extent(H, c, e) /\ x \in Addrs /\ x # 0
                        /\ (H[c].alloc => i = 0)
<1>1. c \in Addrs /\ c \in Nat /\ c # 0
  BY HeaderFacts
<1>2. CASE x = c
  <2>1. 0 < Extent(H, c, e) /\ x = c + 0
    BY <1>1, <1>2, BlockFacts DEF Extent, BlockAt
  <2> QED
    BY <1>1, <1>2, <2>1
<1>3. CASE ~ H[c].alloc /\ H[c].size # 16 /\ x = c + H[c].size - 8
  <2>1. c # e /\ BlockAt(H, c, e)
    BY <1>3, BlockFacts, EpilogueFacts
  <2> DEFINE i == H[c].size - 8
  <2>2. i \in Nat /\ i < Extent(H, c, e) /\ x = c + i /\ x \in Addrs /\ x # 0
    BY <1>3, <2>1 DEF BlockAt, Extent
  <2> HIDE DEF i
  <2> QED
    BY <1>3, <2>2
<1> QED
  BY <1>2, <1>3 DEF TagWords

(***************************************************************************)
(* The tags of two blocks are different words.                             *)
(***************************************************************************)
LEMMA TagsApart ==
  ASSUME NEW H, NEW e, Tiling(H, e), NEW c \in DOMAIN H, NEW d \in DOMAIN H, c # d,
         NEW x, x \in TagWords(c, H[c])
  PROVE  x \notin TagWords(d, H[d])
<1>1. ASSUME x \in TagWords(d, H[d])
      PROVE  FALSE
  <2>1. PICK i \in Nat : x = c + i /\ i < Extent(H, c, e)
    BY TagPlace
  <2>2. PICK j \in Nat : x = d + j /\ j < Extent(H, d, e)
    BY <1>1, TagPlace
  <2> QED
    BY <2>1, <2>2, Zones
<1> QED
  BY <1>1

(***************************************************************************)
(* A tag is not payload in use.                                            *)
(***************************************************************************)
LEMMA TagClear ==
  ASSUME NEW H, NEW e, Tiling(H, e), NEW c \in DOMAIN H, NEW x, x \in TagWords(c, H[c])
  PROVE  x # 0 /\ x \in Addrs /\ ~ InUse(H, e, x)
<1>1. PICK i \in Nat : x = c + i /\ i < Extent(H, c, e) /\ x \in Addrs /\ x # 0
                       /\ (H[c].alloc => i = 0)
  BY TagPlace
<1>2. ASSUME InUse(H, e, x)
      PROVE  FALSE
  <2>1. PICK d \in DOMAIN H : d # e /\ H[d].alloc /\ d < x /\ x < d + H[d].size
    BY <1>2 DEF InUse
  <2>2. BlockAt(H, d, e) /\ x \in Nat
    BY <1>1, <2>1, BlockFacts, AddrFact
  <2> DEFINE j == x - d
  <2>3. j \in Nat /\ j > 0 /\ j < Extent(H, d, e) /\ c + i = d + j
    BY <1>1, <2>1, <2>2 DEF Extent, BlockAt
  <2> HIDE DEF j
  <2>4. c = d /\ i = j
    BY <1>1, <2>3, Zones
  <2> QED
    BY <1>1, <2>1, <2>3, <2>4
<1> QED
  BY <1>1, <1>2

(***************************************************************************)
(* u is h with the tags of the blocks N rewritten, so that the blocks      *)
(* become H1.                                                              *)
(***************************************************************************)
Retagged(u, h, H, H1, N) ==
  /\ u \in HeapRec /\ u.heap_start = h.heap_start
  /\ u.seg_list = h.seg_list /\ u.mini_list = h.mini_list
  /\ N \subseteq DOMAIN H1 /\ \A c \in N : Tag(u.mem, c, H1[c])
  /\ \A c \in DOMAIN H1 : c \in N \/ (c \in DOMAIN H /\ H1[c] = H[c])
  /\ \A x \in Addrs : u.mem[x] = h.mem[x] \/ \E d \in N : x \in TagWords(d, H1[d])

(***************************************************************************)
(* Rewriting tags leaves the lists and the payload in use alone, provided  *)
(* the blocks on the lists are still free blocks of the new tiling.        *)
(***************************************************************************)
LEMMA Retag ==
  ASSUME NEW H, NEW H1, NEW e1, Tiling(H1, e1), NEW B, Binny(H1, B), NEW h, Rep(h, H, B),
         NEW u, NEW N, Retagged(u, h, H, H1, N)
  PROVE  Rep(u, H1, B) /\ Kept(u, h, H1, e1)
<1>1. /\ u \in HeapRec /\ u.heap_start = h.heap_start
      /\ u.seg_list = h.seg_list /\ u.mini_list = h.mini_list
      /\ N \subseteq DOMAIN H1 /\ \A c \in N : Tag(u.mem, c, H1[c])
      /\ \A c \in DOMAIN H1 : c \in N \/ (c \in DOMAIN H /\ H1[c] = H[c])
      /\ \A x \in Addrs : u.mem[x] = h.mem[x] \/ \E d \in N : x \in TagWords(d, H1[d])
  BY DEF Retagged
<1>2. h \in HeapRec /\ h.heap_start = 8 /\ h.mem[0] = Pack(Prologue) /\ Tags(h, H)
      /\ \A k \in Bins : ListRep(h, k, B[k])
  BY DEF Rep
<1>3. Kept(u, h, H1, e1)
  BY <1>1, TagClear DEF Kept
<1>4. u.mem[0] = Pack(Prologue)
  BY <1>1, <1>2, TagClear, ZeroAddr
<1>5. Tags(u, H1)
  <2> SUFFICES ASSUME NEW d \in DOMAIN H1, d \notin N
               PROVE  Tag(u.mem, d, H1[d])
    BY <1>1 DEF Tags
  <2>1. d \in DOMAIN H /\ H1[d] = H[d] /\ Tag(h.mem, d, H1[d])
    BY <1>1, <1>2 DEF Tags
  <2>2. ASSUME NEW x, x \in TagWords(d, H1[d])
        PROVE  u.mem[x] = h.mem[x]
    <3>1. x \in Addrs
      BY <2>2, TagClear
    <3>2. ASSUME NEW c \in N, x \in TagWords(c, H1[c])
          PROVE  FALSE
      <4>1. c \in DOMAIN H1 /\ c # d
        BY <1>1
      <4> QED
        BY <2>2, <3>2, <4>1, TagsApart
    <3> QED
      BY <1>1, <3>1, <3>2
  <2>3. d \in TagWords(d, H1[d])
        /\ (~ H1[d].alloc /\ H1[d].size # 16 => d + H1[d].size - 8 \in TagWords(d, H1[d]))
    BY DEF TagWords
  <2> QED
    BY <2>1, <2>2, <2>3 DEF Tag
<1>6. ASSUME NEW k \in Bins
      PROVE  ListRep(u, k, B[k])
  <2>1. Nodes(H1, k, B[k]) /\ NodesOK(B[k], k)
    BY NodesFacts DEF Binny, Nodes
  <2>2. HeadOf(u, k) = HeadOf(h, k)
    BY <1>1 DEF HeadOf
  <2>3. ASSUME NEW c \in B[k], NEW x \in Addrs, IsLink(k, c, x)
        PROVE  u.mem[x] = h.mem[x]
    <3>1. \A d \in DOMAIN H1 : x \notin TagWords(d, H1[d])
      BY <2>1, <2>3, LinkClear DEF Nodes
    <3> QED
      BY <1>1, <3>1
  <2>4. ASSUME NEW c \in B[k]
        PROVE  u.mem[c + 8] = h.mem[c + 8] /\ u.mem[c + LinkOff(k)] = h.mem[c + LinkOff(k)]
    <3>1. c + 8 \in Addrs /\ c + LinkOff(k) \in Addrs
      BY <2>1 DEF NodesOK
    <3>2. IsLink(k, c, c + 8) /\ IsLink(k, c, c + LinkOff(k))
      BY DEF IsLink, LinkOff
    <3> QED
      BY <2>3, <3>1, <3>2
  <2> QED
    BY <1>1, <1>2, <2>1, <2>2, <2>4, ListFrame
<1> QED
  BY <1>1, <1>2, <1>3, <1>4, <1>5, <1>6 DEF Rep

-----------------------------------------------------------------------------
(***************************************************************************)
(* The words of h show the blocks of the block-level heap g.               *)
(***************************************************************************)
Shows(h, g) == Rep(h, g.hdr, g.bins) /\ h.brk = g.brk

(***************************************************************************)
(* u and h agree on the payload of the blocks U.                           *)
(***************************************************************************)
Keeps(u, h, U) ==
  \A x \in Addrs : (\E v \in U : v.block < x /\ x < v.block + v.size) => u.mem[x] = h.mem[x]

(***************************************************************************)
(* The constants of BlockHeap under their instance.                        *)
(***************************************************************************)
LEMMA Bridge ==
  /\ BH!wsize = 8 /\ BH!dsize = 16 /\ BH!min_block_size = 16 /\ BH!NULL = 0
  /\ BH!BinIds = Bins /\ BH!mini_list = -1 /\ BH!Classes = Classes
BY DEF BH!wsize, BH!dsize, BH!min_block_size, BH!NULL, BH!BinIds, Bins, BH!mini_list,
       BH!Classes, Classes, BH!LENGTH, LENGTH

(***************************************************************************)
(* find_class is the same function at both levels.                         *)
(***************************************************************************)
LEMMA BridgeClass ==
  ASSUME NEW n
  PROVE  BH!find_class(n) = find_class(n)
BY DEF BH!find_class, find_class, BH!Classes, Classes, BH!LENGTH, LENGTH, BH!ClassBound, ClassBound

(***************************************************************************)
(* So is the choice of the list.                                           *)
(***************************************************************************)
LEMMA BridgeBin ==
  ASSUME NEW n
  PROVE  BH!BinOf(n) = Bin(n)
BY Bridge, BridgeClass DEF BH!BinOf, Bin

(***************************************************************************)
(* The next block and the epilogue at the block level.                     *)
(***************************************************************************)
LEMMA BridgeHeap ==
  ASSUME NEW g, NEW c
  PROVE  BH!epilogue(g) = g.brk - 8 /\ BH!find_next(g, c) = c + g.hdr[c].size
BY Bridge DEF BH!epilogue, BH!find_next

(***************************************************************************)
(* A header record is the same at both levels.                             *)
(***************************************************************************)
LEMMA BridgeHeader ==
  ASSUME NEW s, NEW a, NEW p, NEW m
  PROVE  BH!Header(s, a, p, m) = Hdr(s, a, p, m)
BY DEF BH!Header, Hdr

(***************************************************************************)
(* Keeping the payload of the blocks in use, in the two ways it is said.   *)
(***************************************************************************)
LEMMA KeepsUsed ==
  ASSUME NEW u, NEW h, NEW g
  PROVE  Keeps(u, h, BH!Used(g)) <=> Kept(u, h, g.hdr, g.brk - 8)
<1>1. ASSUME NEW x
      PROVE  InUse(g.hdr, g.brk - 8, x)
               <=> \E v \in BH!Used(g) : v.block < x /\ x < v.block + v.size
  <2>1. ASSUME InUse(g.hdr, g.brk - 8, x)
        PROVE  \E v \in BH!Used(g) : v.block < x /\ x < v.block + v.size
    <3>1. PICK c \in DOMAIN g.hdr : /\ c # g.brk - 8 /\ g.hdr[c].alloc
                                    /\ c < x /\ x < c + g.hdr[c].size
      BY <2>1 DEF InUse
    <3> DEFINE v == BH!Entry(c, g.hdr[c].size)
    <3>2. v \in BH!Used(g)
      BY <3>1, BridgeHeap DEF BH!Used
    <3>3. v.block = c /\ v.size = g.hdr[c].size
      BY DEF BH!Entry
    <3> QED
      BY <3>1, <3>2, <3>3
  <2>2. ASSUME NEW v \in BH!Used(g), v.block < x, x < v.block + v.size
        PROVE  InUse(g.hdr, g.brk - 8, x)
    <3>1. PICK c \in DOMAIN g.hdr : /\ c # g.brk - 8 /\ g.hdr[c].alloc
                                    /\ v = BH!Entry(c, g.hdr[c].size)
      BY <2>2, BridgeHeap DEF BH!Used
    <3>2. v.block = c /\ v.size = g.hdr[c].size
      BY <3>1 DEF BH!Entry
    <3> QED
      BY <2>2, <3>1, <3>2 DEF InUse
  <2> QED
    BY <2>1, <2>2
<1> QED
  BY <1>1 DEF Keeps, Kept

(***************************************************************************)
(* What the well-formedness of BlockHeap says of the lists, in the terms   *)
(* of this module. X are blocks in transit, free and on no list yet.       *)
(***************************************************************************)
LEMMA BinsOf ==
  ASSUME NEW g, NEW X, BH!WF(g, X)
  PROVE  /\ Binny(g.hdr, g.bins)
         /\ \A k \in Bins : \A c \in g.bins[k] : c \notin X
         /\ \A c \in DOMAIN g.hdr : ~ g.hdr[c].alloc /\ c \notin X => c \in g.bins[Bin(g.hdr[c].size)]
         /\ g.bins \in [Bins -> SUBSET (0 .. MaxHeap)]
<1>1. BH!Binned(g, X) /\ g.bins \in [Bins -> SUBSET (0 .. MaxHeap)]
  BY Bridge DEF BH!WF, BH!HeapType
<1>2. \A k \in Bins : g.bins[k] = {c \in DOMAIN g.hdr \ X : ~ g.hdr[c].alloc /\ Bin(g.hdr[c].size) = k}
  BY <1>1, Bridge, BridgeBin DEF BH!Binned
<1>3. Binny(g.hdr, g.bins)
  BY <1>2 DEF Binny, Node
<1>4. ASSUME NEW c \in DOMAIN g.hdr, ~ g.hdr[c].alloc, c \notin X
      PROVE  c \in g.bins[Bin(g.hdr[c].size)]
  <2>1. Tiling(g.hdr, g.brk - 8)
    BY TilingOf
  <2>2. HeaderOK(g.hdr[c])
    BY <2>1, HeaderFacts
  <2>3. Bin(g.hdr[c].size) \in Bins
    BY <2>2, ClassOf DEF Bin, Bins, HeaderOK
  <2> QED
    BY <1>2, <1>4, <2>3
<1> QED
  BY <1>1, <1>2, <1>3, <1>4

(***************************************************************************)
(* The list of a size is a list.                                           *)
(***************************************************************************)
LEMMA BinIn ==
  ASSUME NEW n \in Nat
  PROVE  Bin(n) \in Bins
BY ClassOf DEF Bin, Bins

(***************************************************************************)
(* Taking b out of the list of size s.                                     *)
(***************************************************************************)
Unbin(B, b, s) == [B EXCEPT ![Bin(s)] = @ \ {b}]

(***************************************************************************)
(* Adding b to the list of size s.                                         *)
(***************************************************************************)
Enbin(B, b, s) == [B EXCEPT ![Bin(s)] = @ \cup {b}]

(***************************************************************************)
(* What these two do.                                                      *)
(***************************************************************************)
LEMMA UnbinFacts ==
  ASSUME NEW D, NEW B \in [Bins -> SUBSET D], NEW b \in D, NEW s \in Nat
  PROVE  /\ Unbin(B, b, s) \in [Bins -> SUBSET D]
         /\ Relists(Unbin(B, b, s), B, Bin(s), B[Bin(s)] \ {b})
         /\ Enbin(B, b, s) \in [Bins -> SUBSET D]
         /\ Relists(Enbin(B, b, s), B, Bin(s), B[Bin(s)] \cup {b})
<1>1. Bin(s) \in Bins
  BY BinIn
<1> QED
  BY <1>1 DEF Unbin, Enbin, Relists

(***************************************************************************)
(* They are what BlockHeap does with its lists.                            *)
(***************************************************************************)
LEMMA BridgeBins ==
  ASSUME NEW B, NEW b, NEW s
  PROVE  BH!remove_free(B, b, s) = Unbin(B, b, s) /\ BH!insert_free(B, b, s) = Enbin(B, b, s)
BY BridgeBin DEF BH!remove_free, BH!insert_free, Unbin, Enbin

-----------------------------------------------------------------------------
(***************************************************************************)
(* find_prev reads the block below b from words that are there to be read: *)
(* the footer of a free block, or the mini block 16 bytes below. It relies *)
(* on the two flags of b being right.                                      *)
(***************************************************************************)
LEMMA FindPrevWord ==
  ASSUME NEW g, NEW b \in DOMAIN g.hdr, BH!WF(g, {b}), ~ g.hdr[b].prev_alloc,
         NEW h \in HeapRec, Tags(h, g.hdr)
  PROVE  find_prev(h, b) = BH!find_prev(g, b)
<1> DEFINE p == BH!find_prev(g, b)
           H == g.hdr
           e == g.brk - 8
<1>1. /\ p \in DOMAIN H /\ p < b /\ BH!find_next(g, p) = b
      /\ ~ H[p].alloc /\ H[p].prev_alloc
  BY Premises, BH!FindPrev
<1>2. Tiling(H, e)
  BY TilingOf
<1>3. p # e /\ p + H[p].size = b /\ b \in Nat
  BY <1>1, <1>2, BridgeHeap, EpilogueFacts, HeaderFacts
<1>4. BlockAt(H, p, e)
  BY <1>1, <1>2, <1>3, BlockFacts
<1>5. H[b].prev_mini <=> H[p].size = 16
  <2>1. BH!FlagsKnown(g, {b})
    BY DEF BH!WF
  <2>2. p \in DOMAIN g.hdr \ ({BH!epilogue(g)} \cup {b})
    BY <1>1, <1>3, <1>4, BridgeHeap DEF BlockAt
  <2>3. H[BH!find_next(g, p)].prev_mini <=> H[p].size = BH!min_block_size
    <3> HIDE DEF p
    <3> QED
      BY <2>1, <2>2 DEF BH!FlagsKnown
  <2> QED
    BY <1>1, <2>3, Bridge
<1>6. HeaderRead(h, b, H[b])
  BY <1>2, ReadHeader
<1> HIDE DEF p, e
<1>7. CASE H[b].prev_mini
  <2>1. find_prev(h, b) = b - 16
    BY <1>6, <1>7, Consts DEF find_prev, HeaderRead
  <2>2. b - 16 = p
    BY <1>3, <1>4, <1>5, <1>7 DEF BlockAt
  <2> QED
    BY <2>1, <2>2 DEF p
<1>8. CASE ~ H[b].prev_mini
  <2>1. H[p].size # 16 /\ Tag(h.mem, p, H[p])
    BY <1>1, <1>5, <1>8 DEF Tags
  <2>2. p + H[p].size - 8 = b - 8
    BY <1>3, <1>4 DEF BlockAt
  <2>3. b - 8 \in Addrs /\ h.mem[b - 8] = Pack(H[p])
    BY <1>1, <1>4, <2>1, <2>2 DEF Tag, BlockAt
  <2>4. HeaderOK(H[p])
    BY <1>1, <1>2, HeaderFacts
  <2>5. get_size(h, b - 8) = H[p].size
    <3> DEFINE r == H[p]
    <3>1. HeaderOK(r) /\ h.mem[b - 8] = Pack(r)
      BY <2>3, <2>4
    <3> HIDE DEF r
    <3>2. get_size(h, b - 8) = r.size
      BY <2>3, <3>1, ReadWord
    <3> QED
      BY <3>2 DEF r
  <2>6. extract_size(Word(h, b - 8)) = H[p].size
    BY <2>5 DEF get_size
  <2>7. find_prev(h, b) = (b - 8) + 8 - H[p].size
    <3>1. H[p].size # 0 /\ ~ get_prev_mini(h, b)
      BY <1>4, <1>6, <1>8 DEF BlockAt, HeaderRead
    <3> QED
      BY <2>6, <3>1, Consts DEF find_prev, footer_to_header
  <2>8. (b - 8) + 8 - H[p].size = p
    BY <1>3, <1>4 DEF BlockAt
  <2> QED
    BY <2>7, <2>8 DEF p
<1> QED
  BY <1>7, <1>8

-----------------------------------------------------------------------------
(***************************************************************************)
(* B1 has no block more than B, and c on no list.                          *)
(***************************************************************************)
Without(B1, B, c) == \A k \in Bins : B1[k] \subseteq B[k] /\ c \notin B1[k]

(***************************************************************************)
(* remove_free, seen from the caller.                                      *)
(***************************************************************************)
LEMMA RemoveShows ==
  ASSUME NEW H, NEW e, Tiling(H, e), NEW D, NEW B \in [Bins -> SUBSET D], Binny(H, B),
         NEW h, Rep(h, H, B), NEW c \in D, c \in DOMAIN H, c \in B[Bin(H[c].size)],
         NEW u, u = remove_free(h, c), NEW B1, B1 = Unbin(B, c, H[c].size)
  PROVE  /\ Rep(u, H, B1) /\ Kept(u, h, H, e) /\ u.brk = h.brk
         /\ B1 \in [Bins -> SUBSET D] /\ Binny(H, B1) /\ Without(B1, B, c)
<1>1. HeaderOK(H[c])
  BY HeaderFacts
<1> DEFINE k == Bin(H[c].size)
<1>2. k \in Bins /\ c \in B[k] /\ H[c].size \in Nat
  BY <1>1, BinIn DEF HeaderOK
<1>3. B1 \in [Bins -> SUBSET D] /\ Relists(B1, B, k, B[k] \ {c})
  <2> DEFINE s == H[c].size
  <2>1. s \in Nat /\ B1 = Unbin(B, c, s) /\ k = Bin(s)
    BY <1>2
  <2> HIDE DEF s, k
  <2>2. Unbin(B, c, s) \in [Bins -> SUBSET D] /\ Relists(Unbin(B, c, s), B, Bin(s), B[Bin(s)] \ {c})
    BY <2>1, UnbinFacts
  <2> QED
    BY <2>1, <2>2
<1> HIDE DEF k
<1>4. Rep(u, H, B1) /\ Kept(u, h, H, e) /\ u.brk = h.brk
  BY <1>2, <1>3, RemoveFree
<1>5. \A j \in Bins : B1[j] \subseteq B[j]
  BY <1>2, <1>3 DEF Relists
<1>6. Binny(H, B1)
  BY <1>5 DEF Binny
<1>7. ASSUME NEW j \in Bins, c \in B1[j]
      PROVE  FALSE
  <2>1. CASE j = k
    BY <1>3, <1>7, <2>1 DEF Relists
  <2>2. CASE j # k
    <3>1. c \in B[j]
      BY <1>5, <1>7
    <3>2. Bin(H[c].size) = j
      BY <3>1 DEF Binny, Node
    <3> QED
      BY <3>2, <2>2 DEF k
  <2> QED
    BY <2>1, <2>2
<1> QED
  BY <1>3, <1>4, <1>5, <1>6, <1>7 DEF Without

(***************************************************************************)
(* Two steps that keep the payload in use.                                 *)
(***************************************************************************)
LEMMA KeptAgain ==
  ASSUME NEW H, NEW e, NEW h, NEW u, NEW v, Kept(u, h, H, e), Kept(v, u, H, e)
  PROVE  Kept(v, h, H, e)
BY DEF Kept

(***************************************************************************)
(* The same for a set of blocks.                                           *)
(***************************************************************************)
LEMMA KeepsAgain ==
  ASSUME NEW U, NEW h, NEW u, NEW v, Keeps(u, h, U), Keeps(v, u, U)
  PROVE  Keeps(v, h, U)
BY DEF Keeps

(***************************************************************************)
(* coalesce_block, in each of its four cases, does to the words what       *)
(* BlockHeap's coalesce_block does to the blocks, and touches no payload   *)
(* in use.                                                                 *)
(***************************************************************************)
LEMMA CoalesceShows ==
  ASSUME NEW g, NEW b \in DOMAIN g.hdr, b # g.brk - 8, BH!WF(g, {b}), ~ g.hdr[b].alloc,
         NEW h, Shows(h, g), NEW r, r = coalesce_block(h, b), NEW q, q = BH!coalesce_block(g, b)
  PROVE  Shows(r.h, q.hp) /\ r.block = q.block /\ Keeps(r.h, h, BH!Used(g))
<1> DEFINE H == g.hdr
           B == g.bins
           e == g.brk - 8
           next == BH!find_next(g, b)
           jp == ~ H[b].prev_alloc
           jn == ~ H[next].alloc
           first == IF jp THEN BH!find_prev(g, b) ELSE b
           after == IF jn THEN BH!find_next(g, next) ELSE next
           total == H[b].size + (IF jp THEN H[first].size ELSE 0)
                              + (IF jn THEN H[next].size ELSE 0)
           gone == (IF jp THEN {b} ELSE {}) \cup (IF jn THEN {next} ELSE {})
           B1 == IF jp THEN BH!remove_free(B, first, H[first].size) ELSE B
           B2 == IF jn THEN BH!remove_free(B1, next, H[next].size) ELSE B1
           H1 == [c \in DOMAIN H \ gone |->
                    IF c = first
                    THEN BH!Header(total, FALSE, H[c].prev_alloc, H[c].prev_mini)
                    ELSE IF c = after
                    THEN BH!Header(H[c].size, H[c].alloc, FALSE, total = BH!min_block_size)
                    ELSE H[c]]
           B3 == BH!insert_free(B2, first, total)
<1>1. q = [hp |-> [hdr |-> H1, bins |-> B3, brk |-> g.brk], block |-> first]
  BY DEF BH!coalesce_block
<1>2. q.hp.hdr = H1 /\ q.hp.bins = B3 /\ q.hp.brk = g.brk /\ q.block = first
  <2> HIDE DEF H1, B3, first
  <2> QED
    BY <1>1
<1>3. BH!WF(q.hp, {}) /\ BH!Used(q.hp) = BH!Used(g)
  <2>1. b \in DOMAIN g.hdr \ {BH!epilogue(g)}
    BY BridgeHeap
  <2> QED
    BY <2>1, Premises, BH!Coalesce
<1>4. /\ Tiling(H, e) /\ Binny(H, B) /\ B \in [Bins -> SUBSET (0 .. MaxHeap)]
      /\ \A k \in Bins : b \notin B[k]
      /\ \A c \in DOMAIN H : ~ H[c].alloc /\ c # b => c \in B[Bin(H[c].size)]
  BY TilingOf, BinsOf
<1>5. Tiling(H1, e) /\ Binny(H1, B3)
  <2> HIDE DEF H1, B3
  <2>1. Tiling(q.hp.hdr, q.hp.brk - 8) /\ Binny(q.hp.hdr, q.hp.bins)
    BY <1>3, TilingOf, BinsOf
  <2> QED
    BY <1>2, <2>1
<1>6. BlockAt(H, b, e) /\ next = b + H[b].size /\ next \in DOMAIN H /\ next \in Nat /\ b < next
  <2>1. BlockAt(H, b, e)
    BY <1>4, BlockFacts
  <2> QED
    BY <2>1, BridgeHeap DEF BlockAt
<1>7. jp => /\ first \in DOMAIN H /\ first < b /\ first + H[first].size = b
            /\ ~ H[first].alloc
  BY Premises, BH!FindPrev, BridgeHeap
<1>8. jn => /\ next # e /\ after \in DOMAIN H /\ next < after
            /\ H[after].alloc /\ after = next + H[next].size
  <2>1. b \in DOMAIN g.hdr \ {BH!epilogue(g)}
    BY BridgeHeap
  <2> QED
    BY <2>1, Premises, BH!FreeNext, BridgeHeap
<1>9. /\ first \in DOMAIN H /\ first <= b /\ ~ H[first].alloc /\ first \in Nat /\ first # e
      /\ after \in DOMAIN H /\ next <= after /\ H[after].alloc /\ after \in Nat
      /\ first \notin gone /\ after \notin gone /\ first # after
  <2>1. first \in DOMAIN H /\ first <= b /\ ~ H[first].alloc /\ first \in Nat
    BY <1>4, <1>6, <1>7, HeaderFacts DEF BlockAt
  <2>2. after \in DOMAIN H /\ next <= after /\ H[after].alloc /\ after \in Nat
    BY <1>4, <1>6, <1>8, HeaderFacts
  <2>3. first # e
    BY <1>4, <2>1, EpilogueFacts
  <2>4. first \notin gone /\ after \notin gone /\ first # after
    BY <1>6, <1>7, <1>8, <2>1, <2>2 DEF BlockAt
  <2> QED
    BY <2>1, <2>2, <2>3, <2>4
<1>10. h \in HeapRec /\ Tags(h, H) /\ Rep(h, H, B) /\ h.brk = g.brk
  BY DEF Shows, Rep
<1>11. /\ HeaderRead(h, b, H[b]) /\ HeaderRead(h, next, H[next])
       /\ HeaderRead(h, first, H[first]) /\ HeaderRead(h, after, H[after])
  BY <1>4, <1>6, <1>9, <1>10, ReadHeader
<1>12. /\ find_next(h, b) = next /\ find_next(h, next) = next + H[next].size
       /\ jp => find_prev(h, b) = first
  <2>1. jp => find_prev(h, b) = BH!find_prev(g, b)
    BY <1>10, FindPrevWord
  <2> QED
    BY <1>6, <1>11, <2>1 DEF find_next, HeaderRead
<1> DEFINE h1 == unlink(h, first, jp)
           h2 == unlink(h1, next, jn)
           alone == ~ jp /\ ~ jn
           h3 == IF alone THEN h
                 ELSE write_pack(h2, first, total, FALSE, H[first].prev_alloc, H[first].prev_mini)
           h4 == write_pack(h3, after, H[after].size, H[after].alloc, FALSE,
                            alone /\ H[b].size = 16)
<1>13. r = [h |-> insert_free(h4, first), block |-> first]
  <2>1. /\ get_prev_alloc(h, b) = H[b].prev_alloc /\ get_size(h, b) = H[b].size
        /\ get_alloc(h, next) = H[next].alloc /\ get_size(h, next) = H[next].size
        /\ get_size(h, first) = H[first].size /\ get_prev_alloc(h, first) = H[first].prev_alloc
        /\ get_prev_mini(h, first) = H[first].prev_mini
        /\ get_size(h, after) = H[after].size /\ get_alloc(h, after) = H[after].alloc
        /\ is_mini_block(h, b) = (H[b].size = 16)
    BY <1>11 DEF HeaderRead
  <2>2. (IF ~ get_prev_alloc(h, b) THEN find_prev(h, b) ELSE b) = first
    BY <1>12, <2>1
  <2>3. (IF ~ get_alloc(h, next) THEN find_next(h, next) ELSE next) = after
    BY <1>8, <1>12, <2>1
  <2> HIDE DEF next, first, after, H
  <2> QED
    BY <2>1, <2>2, <2>3, <1>12 DEF coalesce_block
<1>14. /\ H1[first] = Hdr(total, FALSE, H[first].prev_alloc, H[first].prev_mini)
       /\ H1[after] = Hdr(H[after].size, H[after].alloc, FALSE, total = 16)
       /\ first \in DOMAIN H1 /\ after \in DOMAIN H1
       /\ \A c \in DOMAIN H1 : c \in DOMAIN H /\ (c \in {first, after} \/ H1[c] = H[c])
  <2> HIDE DEF first, after, total, gone, H
  <2> QED
    BY <1>9, Bridge, BridgeHeader
<1> HIDE DEF H1, B3
<1>15. total \in Nat /\ total >= H[b].size /\ (alone => total = H[b].size /\ first = b)
       /\ (~ alone => total >= 32 /\ total # 16)
  <2>1. jp => BlockAt(H, first, e)
    BY <1>4, <1>9, BlockFacts
  <2>2. jn => BlockAt(H, next, e)
    BY <1>4, <1>6, <1>8, BlockFacts
  <2> DEFINE s == H[b].size
             m == IF jp THEN H[first].size ELSE 0
             n == IF jn THEN H[next].size ELSE 0
  <2>3. /\ s \in Nat /\ s >= 16 /\ m \in Nat /\ n \in Nat
        /\ (jp => m >= 16) /\ (~ jp => m = 0) /\ (jn => n >= 16) /\ (~ jn => n = 0)
    <3> HIDE DEF first, next, jp, jn, H
    <3> QED
      BY <1>6, <2>1, <2>2 DEF BlockAt
  <2>4. total = s + m + n /\ (~ jp => first = b)
    OBVIOUS
  <2> HIDE DEF s, m, n, jp, jn, total, first
  <2>5. s = H[b].size
    BY DEF s
  <2> QED
    BY <2>3, <2>4, <2>5
<1>16. /\ BlockAt(H1, first, e) /\ H1[first].size = total /\ ~ H1[first].alloc
       /\ H1[after].alloc /\ HeaderOK(H1[first]) /\ HeaderOK(H1[after])
  <2>1. BlockAt(H1, first, e) /\ HeaderOK(H1[first]) /\ HeaderOK(H1[after])
    BY <1>5, <1>9, <1>14, BlockFacts, HeaderFacts
  <2>2. H1[first].size = total /\ ~ H1[first].alloc /\ H1[after].alloc
    BY <1>9, <1>14 DEF Hdr
  <2> QED
    BY <2>1, <2>2
<1>17. first \in 0 .. MaxHeap /\ next \in 0 .. MaxHeap
  <2>1. first \in Addrs /\ next \in Addrs
    BY <1>4, <1>6, <1>9, HeaderFacts
  <2> QED
    BY <2>1, AddrFact, Consts
<1>18. /\ B1 = (IF jp THEN Unbin(B, first, H[first].size) ELSE B)
       /\ B2 = (IF jn THEN Unbin(B1, next, H[next].size) ELSE B1)
       /\ B3 = Enbin(B2, first, total)
  BY BridgeBins DEF B3
<1> HIDE DEF h1, h2, h3, h4, B1, B2, jp, jn, first, after, next, total, gone, H, B, e
<1>19. /\ Rep(h1, H, B1) /\ Kept(h1, h, H, e) /\ h1.brk = h.brk
       /\ B1 \in [Bins -> SUBSET (0 .. MaxHeap)] /\ Binny(H, B1)
       /\ \A k \in Bins : B1[k] \subseteq B[k] /\ (jp => first \notin B1[k])
  <2>1. jp => first \in DOMAIN H /\ first \in B[Bin(H[first].size)]
    BY <1>4, <1>6, <1>7 DEF BlockAt
  <2>2. h1 = unlink(h, first, jp)
    BY DEF h1
  <2>3. B1 = IF jp THEN Unbin(B, first, H[first].size) ELSE B
    BY <1>18
  <2>4. Tiling(H, e) /\ B \in [Bins -> SUBSET (0 .. MaxHeap)] /\ Binny(H, B)
    BY <1>4
  <2>5. Rep(h, H, B) /\ first \in 0 .. MaxHeap
    BY <1>10, <1>17
  <2>6. CASE jp
    <3>1. h1 = remove_free(h, first)
      BY <2>2, <2>6 DEF unlink
    <3>2. /\ Rep(h1, H, B1) /\ Kept(h1, h, H, e) /\ h1.brk = h.brk
          /\ B1 \in [Bins -> SUBSET (0 .. MaxHeap)] /\ Binny(H, B1) /\ Without(B1, B, first)
      <4> DEFINE D == 0 .. MaxHeap
      <4>1. first \in DOMAIN H /\ first \in B[Bin(H[first].size)]
        BY <2>1, <2>6
      <4>2. B1 = Unbin(B, first, H[first].size)
        BY <2>3, <2>6
      <4>3. first \in D /\ B \in [Bins -> SUBSET D]
        BY <2>4, <2>5
      <4> HIDE DEF D
      <4>4. /\ Rep(h1, H, B1) /\ Kept(h1, h, H, e) /\ h1.brk = h.brk
            /\ B1 \in [Bins -> SUBSET D] /\ Binny(H, B1) /\ Without(B1, B, first)
        BY <2>4, <2>5, <3>1, <4>1, <4>2, <4>3, RemoveShows
      <4> QED
        BY <4>4 DEF D
    <3> QED
      BY <3>2 DEF Without
  <2>7. CASE ~ jp
    <3>1. h1 = h /\ B1 = B
      BY <2>2, <2>3, <2>7 DEF unlink
    <3> QED
      BY <2>4, <2>5, <2>7, <3>1 DEF Kept
  <2> QED
    BY <2>6, <2>7
<1>20. /\ Rep(h2, H, B2) /\ Kept(h2, h1, H, e) /\ h2.brk = h1.brk
       /\ B2 \in [Bins -> SUBSET (0 .. MaxHeap)] /\ Binny(H, B2)
       /\ \A k \in Bins : B2[k] \subseteq B1[k]
  <2>1. jn => next \in DOMAIN H /\ next \in B1[Bin(H[next].size)]
    <3>1. ASSUME jn
          PROVE  next \in B1[Bin(H[next].size)]
      <4>1. next # b /\ next # first /\ next \in DOMAIN H /\ ~ H[next].alloc
        BY <1>6, <1>9, <3>1 DEF BlockAt, jn
      <4>2. next \in B[Bin(H[next].size)]
        BY <1>4, <4>1
      <4>3. CASE ~ jp
        BY <1>18, <4>2, <4>3
      <4>4. CASE jp
        <5>1. HeaderOK(H[first]) /\ HeaderOK(H[next])
          BY <1>4, <1>9, <4>1, HeaderFacts
        <5> DEFINE s == H[first].size
                   t == H[next].size
        <5>2. s \in Nat /\ t \in Nat
          BY <5>1 DEF HeaderOK
        <5>3. B1 = Unbin(B, first, s)
          BY <1>18, <4>4
        <5> HIDE DEF s, t
        <5>4. Relists(B1, B, Bin(s), B[Bin(s)] \ {first})
          BY <1>4, <1>17, <5>2, <5>3, UnbinFacts
        <5>5. Bin(t) \in Bins
          BY <5>2, BinIn
        <5>6. next \in B[Bin(t)]
          BY <4>2 DEF t
        <5>7. next \in B1[Bin(t)]
          BY <4>1, <5>4, <5>5, <5>6 DEF Relists
        <5> QED
          BY <5>7 DEF t
      <4> QED
        BY <4>3, <4>4
    <3> QED
      BY <1>6, <3>1
  <2>2. h2 = unlink(h1, next, jn)
    BY DEF h2
  <2>3. B2 = IF jn THEN Unbin(B1, next, H[next].size) ELSE B1
    BY <1>18
  <2>4. Tiling(H, e) /\ B1 \in [Bins -> SUBSET (0 .. MaxHeap)] /\ Binny(H, B1)
    BY <1>4, <1>19
  <2>5. Rep(h1, H, B1) /\ next \in 0 .. MaxHeap
    BY <1>17, <1>19
  <2>6. CASE jn
    <3>1. h2 = remove_free(h1, next)
      BY <2>2, <2>6 DEF unlink
    <3>2. /\ Rep(h2, H, B2) /\ Kept(h2, h1, H, e) /\ h2.brk = h1.brk
          /\ B2 \in [Bins -> SUBSET (0 .. MaxHeap)] /\ Binny(H, B2) /\ Without(B2, B1, next)
      <4> DEFINE D == 0 .. MaxHeap
      <4>1. next \in DOMAIN H /\ next \in B1[Bin(H[next].size)]
        BY <2>1, <2>6
      <4>2. B2 = Unbin(B1, next, H[next].size)
        BY <2>3, <2>6
      <4>3. next \in D /\ B1 \in [Bins -> SUBSET D]
        BY <2>4, <2>5
      <4> HIDE DEF D
      <4>4. /\ Rep(h2, H, B2) /\ Kept(h2, h1, H, e) /\ h2.brk = h1.brk
            /\ B2 \in [Bins -> SUBSET D] /\ Binny(H, B2) /\ Without(B2, B1, next)
        BY <2>4, <2>5, <3>1, <4>1, <4>2, <4>3, RemoveShows
      <4> QED
        BY <4>4 DEF D
    <3> QED
      BY <3>2 DEF Without
  <2>7. CASE ~ jn
    <3>1. h2 = h1 /\ B2 = B1
      BY <2>2, <2>3, <2>7 DEF unlink
    <3> QED
      BY <2>4, <2>5, <3>1 DEF Kept
  <2> QED
    BY <2>6, <2>7
<1>21. \A k \in Bins : B2[k] \subseteq B[k] /\ first \notin B2[k]
  <2>1. ~ jp => first = b
    BY DEF first
  <2> QED
    BY <1>4, <1>19, <1>20, <2>1
<1>22. Kept(h2, h, H, e) /\ h2.brk = h.brk /\ h2 \in HeapRec /\ Tags(h2, H)
  BY <1>19, <1>20, KeptAgain DEF Rep
<1> DEFINE W == TagWords(first, H1[first])
<1>23. Tag(h3.mem, first, H1[first]) /\ Touched(h3, h2, W)
  <2>1. CASE alone
    <3>1. h3 = h /\ h2 = h
      BY <2>1 DEF h3, h2, h1, unlink
    <3>2. H1[first] = H[first]
      <4>1. total = H[first].size /\ ~ H[first].alloc /\ H[first] \in Hdrs
        BY <1>4, <1>9, <1>15, <2>1, HeaderFacts DEF HeaderOK
      <4> QED
        BY <4>1, <1>14 DEF Hdr, Hdrs
    <3>3. Tag(h3.mem, first, H1[first])
      BY <1>9, <1>22, <3>1, <3>2 DEF Tags
    <3>4. Touched(h3, h2, W)
      BY <1>22, <3>1 DEF Touched, SameGlobals
    <3> QED
      BY <3>3, <3>4
  <2>2. CASE ~ alone
    <3> DEFINE t == H1[first]
    <3>1. h3 = write_pack(h2, first, t.size, t.alloc, t.prev_alloc, t.prev_mini)
      <4>1. t.size = total /\ t.alloc = FALSE /\ t.prev_alloc = H[first].prev_alloc
            /\ t.prev_mini = H[first].prev_mini
        BY <1>14 DEF Hdr
      <4>2. h3 = write_pack(h2, first, total, FALSE, H[first].prev_alloc, H[first].prev_mini)
        BY <2>2 DEF h3
      <4> HIDE DEF t
      <4> QED
        BY <4>1, <4>2
    <3>2. /\ HeaderOK(t) /\ first \in Addrs /\ t.size <= MaxHeap
          /\ t.size # 16 => t.size >= 32 /\ first + t.size - 8 \in Addrs
      <4>1. e + 8 <= MaxHeap /\ e \in Nat
        BY <1>4, EpilogueFacts
      <4> QED
        BY <1>16, <4>1, Consts DEF BlockAt
    <3> HIDE DEF t
    <3>3. Tag(h3.mem, first, t) /\ Touched(h3, h2, TagWords(first, t))
      BY <1>22, <3>1, <3>2, WritePack
    <3> QED
      BY <3>3 DEF t
  <2> QED
    BY <2>1, <2>2
<1>24. Tag(h4.mem, after, H1[after]) /\ Touched(h4, h3, {after})
  <2> DEFINE t == H1[after]
  <2>1. h4 = write_pack(h3, after, t.size, t.alloc, t.prev_alloc, t.prev_mini)
    <3>1. t.size = H[after].size /\ t.alloc = H[after].alloc /\ t.prev_alloc = FALSE
          /\ t.prev_mini = (total = 16)
      BY <1>14 DEF Hdr
    <3>2. (alone /\ H[b].size = 16) = (total = 16)
      BY <1>15
    <3>3. h4 = write_pack(h3, after, H[after].size, H[after].alloc, FALSE, total = 16)
      BY <3>2 DEF h4
    <3> HIDE DEF t
    <3> QED
      BY <3>1, <3>3
  <2>2. HeaderOK(t) /\ t.alloc /\ after \in Addrs /\ t.size <= MaxHeap
    <3>1. HeaderOK(t) /\ t.alloc /\ after \in Addrs /\ e + 8 <= MaxHeap /\ e \in Nat
      BY <1>4, <1>9, <1>16, HeaderFacts, EpilogueFacts
    <3>2. CASE after = e
      BY <1>5, <3>1, <3>2, EpilogueFacts, Consts
    <3>3. CASE after # e
      <4>1. BlockAt(H1, after, e)
        BY <1>5, <1>14, <3>3, BlockFacts
      <4> QED
        BY <3>1, <4>1, Consts DEF BlockAt
    <3> QED
      BY <3>1, <3>2, <3>3
  <2>3. h3 \in HeapRec
    BY <1>23 DEF Touched
  <2> HIDE DEF t
  <2>4. Tag(h4.mem, after, t) /\ Touched(h4, h3, TagWords(after, t))
    BY <2>1, <2>2, <2>3, WritePack
  <2>5. TagWords(after, t) = {after}
    BY <2>2 DEF TagWords
  <2> QED
    BY <2>4, <2>5 DEF t
<1>25. Retagged(h4, h2, H, H1, {first, after})
  <2>1. h4 \in HeapRec /\ SameGlobals(h4, h2)
    BY <1>23, <1>24 DEF Touched, SameGlobals
  <2>2. Tag(h4.mem, first, H1[first])
    <3>1. ASSUME NEW x \in W
          PROVE  h4.mem[x] = h3.mem[x]
      <4>1. x \in Addrs
        BY <1>5, <1>14, <3>1, TagClear
      <4>2. x \notin TagWords(after, H1[after])
        BY <1>5, <1>9, <1>14, <3>1, TagsApart
      <4>3. x # after
        BY <4>2 DEF TagWords
      <4> QED
        BY <1>24, <4>1, <4>3 DEF Touched
    <3>2. first \in W /\ (~ H1[first].alloc /\ H1[first].size # 16 => first + H1[first].size - 8 \in W)
      BY DEF TagWords
    <3> HIDE DEF W
    <3> QED
      BY <1>23, <3>1, <3>2 DEF Tag
  <2>3. after \in TagWords(after, H1[after])
    BY DEF TagWords
  <2>4. \A x \in Addrs : \/ h4.mem[x] = h2.mem[x]
                         \/ \E d \in {first, after} : x \in TagWords(d, H1[d])
    BY <1>23, <1>24, <2>3 DEF Touched
  <2> QED
    BY <1>14, <1>24, <2>1, <2>2, <2>4 DEF Retagged, SameGlobals
<1>26. B3 \in [Bins -> SUBSET (0 .. MaxHeap)]
       /\ Relists(B3, B2, Bin(total), B2[Bin(total)] \cup {first})
  <2> DEFINE D == 0 .. MaxHeap
  <2>1. total \in Nat /\ first \in D /\ B2 \in [Bins -> SUBSET D] /\ B3 = Enbin(B2, first, total)
    BY <1>15, <1>17, <1>18, <1>20
  <2> HIDE DEF D
  <2>2. /\ Enbin(B2, first, total) \in [Bins -> SUBSET D]
        /\ Relists(Enbin(B2, first, total), B2, Bin(total), B2[Bin(total)] \cup {first})
    BY <2>1, UnbinFacts
  <2> QED
    BY <2>1, <2>2 DEF D
<1>27. Bin(total) \in Bins
  BY <1>15, BinIn
<1>28. Binny(H1, B2)
  <2>1. \A k \in Bins : B2[k] \subseteq B3[k]
    BY <1>26, <1>27 DEF Relists
  <2> QED
    BY <1>5, <2>1 DEF Binny
<1>29. Rep(h4, H1, B2) /\ Kept(h4, h2, H1, e)
  BY <1>5, <1>20, <1>25, <1>28, Retag
<1>30. h4.brk = h.brk
  BY <1>22, <1>23, <1>24 DEF Touched, SameGlobals
<1>31. Node(H1, Bin(total), first)
  BY <1>14, <1>16 DEF Node
<1>32. r.h = insert_free(h4, first) /\ r.block = first
  BY <1>13
<1>33. Rep(r.h, H1, B3) /\ Kept(r.h, h4, H1, e) /\ r.h.brk = h4.brk
  BY <1>5, <1>21, <1>26, <1>27, <1>28, <1>29, <1>31, <1>32, InsertFree
<1>34. Shows(r.h, q.hp)
  BY <1>2, <1>10, <1>30, <1>33 DEF Shows
<1>35. Kept(r.h, h2, H1, e)
  BY <1>29, <1>33, KeptAgain
<1>36. Keeps(r.h, h2, BH!Used(q.hp))
  BY <1>2, <1>35, KeepsUsed DEF e
<1>37. Keeps(h2, h, BH!Used(g))
  BY <1>22, KeepsUsed DEF e, H
<1>38. Keeps(r.h, h, BH!Used(g))
  BY <1>3, <1>36, <1>37, KeepsAgain
<1> QED
  BY <1>2, <1>32, <1>34, <1>38

-----------------------------------------------------------------------------
(***************************************************************************)
(* Keeping the payload of fewer blocks is less.                            *)
(***************************************************************************)
LEMMA KeepsLess ==
  ASSUME NEW U, NEW V, V \subseteq U, NEW u, NEW h, Keeps(u, h, U)
  PROVE  Keeps(u, h, V)
BY DEF Keeps

(***************************************************************************)
(* Rewriting tags, seen at the block level.                                *)
(***************************************************************************)
LEMMA RetagShows ==
  ASSUME NEW g, NEW X, BH!WF(g, X), NEW h, NEW H, Rep(h, H, g.bins), NEW u, NEW N,
         Retagged(u, h, H, g.hdr, N), u.brk = g.brk
  PROVE  Shows(u, g) /\ Keeps(u, h, BH!Used(g))
<1> DEFINE e == g.brk - 8
<1>1. Tiling(g.hdr, e) /\ Binny(g.hdr, g.bins)
  BY TilingOf, BinsOf
<1> HIDE DEF e
<1>2. Rep(u, g.hdr, g.bins) /\ Kept(u, h, g.hdr, e)
  BY <1>1, Retag
<1> QED
  BY <1>2, KeepsUsed DEF Shows, e

(***************************************************************************)
(* repack writes the size and the allocation bit and keeps the flags about *)
(* the previous block.                                                     *)
(***************************************************************************)
LEMMA RepackIs ==
  ASSUME NEW h, NEW b, NEW r, HeaderRead(h, b, r), NEW s, NEW a,
         NEW q, q = Hdr(s, a, r.prev_alloc, r.prev_mini)
  PROVE  repack(h, b, s, a) = write_pack(h, b, q.size, q.alloc, q.prev_alloc, q.prev_mini)
BY DEF repack, HeaderRead, Hdr

(***************************************************************************)
(* The block at b rewritten as allocated: one word.                        *)
(***************************************************************************)
LEMMA TagAllocated ==
  ASSUME NEW h \in HeapRec, NEW b \in Addrs, NEW r, HeaderOK(r), r.size <= MaxHeap, r.alloc,
         NEW u, u = write_pack(h, b, r.size, r.alloc, r.prev_alloc, r.prev_mini)
  PROVE  Tag(u.mem, b, r) /\ Touched(u, h, {b})
<1>1. Tag(u.mem, b, r) /\ Touched(u, h, TagWords(b, r))
  BY WritePack
<1>2. TagWords(b, r) = {b}
  BY DEF TagWords
<1> QED
  BY <1>1, <1>2

(***************************************************************************)
(* A block is no larger than the heap.                                     *)
(***************************************************************************)
LEMMA SizeBound ==
  ASSUME NEW H, NEW e, Tiling(H, e), NEW c \in DOMAIN H
  PROVE  H[c].size \in Nat /\ H[c].size <= MaxHeap
<1>1. e \in Nat /\ e + 8 <= MaxHeap /\ H[e].size = 0
  BY EpilogueFacts
<1>2. CASE c = e
  BY <1>1, <1>2, Consts
<1>3. CASE c # e
  <2>1. BlockAt(H, c, e)
    BY <1>3, BlockFacts
  <2> QED
    BY <1>1, <2>1, Consts DEF BlockAt
<1> QED
  BY <1>2, <1>3

(***************************************************************************)
(* Taking a free block: remove_free, the allocated header, and the flags   *)
(* of the next block.                                                      *)
(***************************************************************************)
LEMMA TakeShows ==
  ASSUME NEW g, BH!WF(g, {}), NEW b \in DOMAIN g.hdr, ~ g.hdr[b].alloc,
         NEW h, Shows(h, g), NEW u, u = mark_allocated(remove_free(h, b), b),
         NEW t, t = BH!take(g, b)
  PROVE  Shows(u, t) /\ Keeps(u, h, BH!Used(g))
<1> DEFINE H == g.hdr
           B == g.bins
           e == g.brk - 8
           T == t.hdr
           next == b + H[b].size
           h1 == remove_free(h, b)
           h2 == repack(h1, b, get_size(h1, b), TRUE)
<1>1. BH!WF(t, {}) /\ t.brk = g.brk /\ BH!Used(g) \subseteq BH!Used(t)
  BY Premises, BH!Take
<1>2. /\ Tiling(H, e) /\ Binny(H, B) /\ B \in [Bins -> SUBSET (0 .. MaxHeap)]
      /\ b \in B[Bin(H[b].size)] /\ Tiling(T, e)
  BY <1>1, TilingOf, BinsOf
<1>3. /\ T = [c \in DOMAIN H |-> IF c = b THEN Hdr(H[c].size, TRUE, H[c].prev_alloc, H[c].prev_mini)
                                ELSE IF c = next
                                THEN Hdr(H[c].size, H[c].alloc, TRUE, H[c].prev_mini) ELSE H[c]]
      /\ t.bins = Unbin(B, b, H[b].size)
  BY BridgeHeap, BridgeHeader, BridgeBins DEF BH!take
<1>4. BlockAt(H, b, e) /\ next \in DOMAIN H /\ next # b /\ next \in Addrs
  <2>1. b # e
    BY <1>2, EpilogueFacts
  <2>2. BlockAt(H, b, e)
    BY <1>2, <2>1, BlockFacts
  <2> QED
    BY <2>2 DEF BlockAt
<1>5. H[next].alloc
  <2>1. b \in DOMAIN g.hdr \ {BH!epilogue(g)} /\ BH!find_next(g, b) = next
    BY <1>2, BridgeHeap, EpilogueFacts
  <2>2. BH!Merged(g, {})
    BY DEF BH!WF
  <2> HIDE DEF next
  <2> QED
    BY <2>1, <2>2 DEF BH!Merged
<1>6. /\ T[b] = Hdr(H[b].size, TRUE, H[b].prev_alloc, H[b].prev_mini)
      /\ T[next] = Hdr(H[next].size, H[next].alloc, TRUE, H[next].prev_mini)
      /\ b \in DOMAIN T /\ next \in DOMAIN T
      /\ \A c \in DOMAIN T : c \in DOMAIN H /\ (c \in {b, next} \/ T[c] = H[c])
  <2>1. b \in DOMAIN H
    OBVIOUS
  <2> HIDE DEF next, H, T
  <2> QED
    BY <1>3, <1>4, <2>1
<1>7. Rep(h, H, B) /\ h.brk = g.brk
  BY DEF Shows
<1>8. b \in 0 .. MaxHeap
  BY <1>4, AddrFact, Consts DEF BlockAt
<1> HIDE DEF T, next, e
<1>9. Rep(h1, H, t.bins) /\ Kept(h1, h, H, e) /\ h1.brk = h.brk
  <2> DEFINE D == 0 .. MaxHeap
             B1 == t.bins
  <2>1. B \in [Bins -> SUBSET D] /\ b \in D /\ B1 = Unbin(B, b, H[b].size)
    BY <1>2, <1>3, <1>8
  <2> HIDE DEF D, B1, H, B, h1
  <2>2. b \in DOMAIN H /\ h1 = remove_free(h, b)
    BY DEF H, h1
  <2>3. Rep(h1, H, B1) /\ Kept(h1, h, H, e) /\ h1.brk = h.brk
    BY <1>2, <1>7, <2>1, <2>2, RemoveShows
  <2> QED
    BY <2>3 DEF B1
<1> HIDE DEF h1
<1>10. h1 \in HeapRec /\ Tags(h1, H) /\ HeaderRead(h1, b, H[b])
  <2>1. h1 \in HeapRec /\ Tags(h1, H)
    BY <1>9 DEF Rep
  <2> QED
    BY <1>2, <2>1, ReadHeader
<1>11. Tag(h2.mem, b, T[b]) /\ Touched(h2, h1, {b})
  <2> DEFINE q == T[b]
  <2>1. HeaderOK(q) /\ q.size <= MaxHeap /\ b \in Addrs
    BY <1>2, <1>6, HeaderFacts, SizeBound
  <2>2. q.alloc
    BY <1>6 DEF Hdr
  <2>3. h2 = write_pack(h1, b, q.size, q.alloc, q.prev_alloc, q.prev_mini)
    <3> DEFINE r == H[b]
    <3>1. HeaderRead(h1, b, r) /\ q = Hdr(r.size, TRUE, r.prev_alloc, r.prev_mini)
      BY <1>6, <1>10
    <3>2. h2 = repack(h1, b, r.size, TRUE)
      BY <3>1 DEF HeaderRead
    <3> HIDE DEF r, q, h2
    <3> QED
      BY <3>1, <3>2, RepackIs
  <2> HIDE DEF q, h2
  <2>4. Tag(h2.mem, b, q) /\ Touched(h2, h1, {b})
    BY <1>10, <2>1, <2>2, <2>3, TagAllocated
  <2> QED
    BY <2>4 DEF q
<1>12. u = write_prev_alloc(h2, next, TRUE)
  <2>1. u = tell_next(h2, b, TRUE)
    BY DEF mark_allocated, h1
  <2> HIDE DEF h2
  <2>2. get_size(h2, b) = H[b].size
    <3> DEFINE q == T[b]
    <3>1. HeaderOK(q) /\ b \in Addrs
      BY <1>2, <1>6, HeaderFacts
    <3>2. q.size = H[b].size
      BY <1>6 DEF Hdr
    <3>3. h2.mem[b] = Pack(q) /\ h2 \in HeapRec
      BY <1>11 DEF Tag, Touched
    <3> HIDE DEF q
    <3> QED
      BY <3>1, <3>2, <3>3, ReadWord
  <2> QED
    BY <2>1, <2>2 DEF tell_next, find_next, next
<1> HIDE DEF h2
<1>13. Tag(u.mem, next, T[next]) /\ Touched(u, h2, {next})
  <2> DEFINE r == H[next]
             q == T[next]
  <2>1. HeaderOK(r) /\ r.size <= MaxHeap /\ r.alloc /\ q = Hdr(r.size, r.alloc, TRUE, r.prev_mini)
    BY <1>2, <1>4, <1>5, <1>6, HeaderFacts, SizeBound
  <2>2. h2.mem[next] = Pack(r)
    BY <1>4, <1>10, <1>11 DEF Touched, Tags, Tag
  <2>3. h2 \in HeapRec
    BY <1>11 DEF Touched
  <2> HIDE DEF r, q
  <2>4. Tag(u.mem, next, q) /\ Touched(u, h2, {next})
    BY <1>4, <1>12, <2>1, <2>2, <2>3, WritePrev
  <2> QED
    BY <2>4 DEF q
<1>14. Retagged(u, h1, H, T, {b, next})
  <2>1. u \in HeapRec /\ SameGlobals(u, h1)
    BY <1>11, <1>13 DEF Touched, SameGlobals
  <2>2. T[b].alloc
    BY <1>6 DEF Hdr
  <2>3. Tag(u.mem, b, T[b])
    BY <1>4, <1>11, <1>13, <2>2 DEF Touched, Tag, BlockAt
  <2>4. b \in TagWords(b, T[b]) /\ next \in TagWords(next, T[next])
    BY DEF TagWords
  <2>5. \A x \in Addrs : u.mem[x] = h1.mem[x] \/ \E d \in {b, next} : x \in TagWords(d, T[d])
    BY <1>11, <1>13, <2>4 DEF Touched
  <2> QED
    BY <1>6, <1>13, <2>1, <2>3, <2>5 DEF Retagged, SameGlobals
<1>15. u.brk = t.brk
  BY <1>1, <1>7, <1>9, <1>11, <1>13 DEF Touched, SameGlobals
<1>16. Shows(u, t) /\ Keeps(u, h1, BH!Used(t))
  BY <1>1, <1>9, <1>14, <1>15, RetagShows DEF T
<1>17. Keeps(u, h1, BH!Used(g)) /\ Keeps(h1, h, BH!Used(g))
  BY <1>1, <1>9, <1>16, KeepsLess, KeepsUsed DEF e
<1> QED
  BY <1>16, <1>17, KeepsAgain

-----------------------------------------------------------------------------
(***************************************************************************)
(* write_prev_alloc only ever sets the bit: tell_next with FALSE writes    *)
(* nothing, and the header of the next block is corrected by               *)
(* coalesce_block.                                                         *)
(***************************************************************************)
LEMMA NotTold ==
  ASSUME NEW h, NEW b
  PROVE  tell_next(h, b, FALSE) = h
BY DEF tell_next, write_prev_alloc

(***************************************************************************)
(* The tag of a block survives a write to the tag of another.              *)
(***************************************************************************)
LEMMA TagKept ==
  ASSUME NEW H, NEW e, Tiling(H, e), NEW c \in DOMAIN H, NEW d \in DOMAIN H, c # d,
         NEW u, NEW v, Tag(u.mem, c, H[c]), Touched(v, u, TagWords(d, H[d]))
  PROVE  Tag(v.mem, c, H[c])
<1>1. ASSUME NEW x \in TagWords(c, H[c])
      PROVE  v.mem[x] = u.mem[x]
  <2>1. x \in Addrs
    BY <1>1, TagClear
  <2>2. x \notin TagWords(d, H[d])
    BY <1>1, TagsApart
  <2> QED
    BY <2>1, <2>2 DEF Touched
<1>2. c \in TagWords(c, H[c])
      /\ (~ H[c].alloc /\ H[c].size # 16 => c + H[c].size - 8 \in TagWords(c, H[c]))
  BY DEF TagWords
<1> QED
  BY <1>1, <1>2 DEF Tag

(***************************************************************************)
(* Writing the header of a block of a tiling.                              *)
(***************************************************************************)
LEMMA TagBlock ==
  ASSUME NEW H, NEW e, Tiling(H, e), NEW c \in DOMAIN H, NEW h \in HeapRec, NEW r, r = H[c],
         NEW u, u = write_pack(h, c, r.size, r.alloc, r.prev_alloc, r.prev_mini)
  PROVE  Tag(u.mem, c, r) /\ Touched(u, h, TagWords(c, r))
<1>1. HeaderOK(r) /\ c \in Addrs /\ r.size <= MaxHeap
  BY HeaderFacts, SizeBound
<1>2. ~ r.alloc /\ r.size # 16 => r.size >= 32 /\ c + r.size - 8 \in Addrs
  <2>1. ASSUME ~ r.alloc
        PROVE  BlockAt(H, c, e)
    <3>1. c # e
      BY <2>1, EpilogueFacts
    <3> QED
      BY <3>1, BlockFacts
  <2> QED
    BY <2>1 DEF BlockAt
<1> QED
  BY <1>1, <1>2, WritePack

(***************************************************************************)
(* split_block cuts a block in two as BlockHeap's does; the block after    *)
(* the rest is not told yet.                                               *)
(***************************************************************************)
LEMMA SplitShows ==
  ASSUME NEW g, BH!WF(g, {}), NEW b \in DOMAIN g.hdr, b # g.brk - 8, g.hdr[b].alloc,
         NEW a \in Nat, a % 16 = 0, a >= 16, g.hdr[b].size - a >= 16,
         NEW h, Shows(h, g), NEW r, r = split_block(h, b, a),
         NEW s, s = BH!split_block(g, b, a)
  PROVE  Shows(r.h, s) /\ r.block = b + a /\ Keeps(r.h, h, BH!Used(s))
<1> DEFINE H == g.hdr
           e == g.brk - 8
           S == s.hdr
           c == b + a
           h1 == repack(h, b, a, TRUE)
           h2 == write_pack(h1, c, H[b].size - a, FALSE, TRUE, a = 16)
<1>1. BH!WF(s, {c}) /\ s.brk = g.brk /\ c \in DOMAIN S
  <2>1. b \in DOMAIN g.hdr \ {BH!epilogue(g)}
    BY BridgeHeap
  <2> QED
    BY <2>1, Premises, BH!Split
<1>2. Tiling(H, e) /\ Tiling(S, e)
  BY <1>1, TilingOf
<1>3. /\ S = [d \in DOMAIN H \cup {c} |->
                IF d = b THEN Hdr(a, TRUE, H[d].prev_alloc, H[d].prev_mini)
                ELSE IF d = c THEN Hdr(H[b].size - a, FALSE, TRUE, a = 16) ELSE H[d]]
      /\ s.bins = g.bins
  BY Bridge, BridgeHeader DEF BH!split_block
<1>4. BlockAt(H, b, e) /\ c # b /\ b \in DOMAIN H
  <2>1. BlockAt(H, b, e)
    BY <1>2, BlockFacts
  <2> QED
    BY <2>1 DEF BlockAt
<1> HIDE DEF H, S, e, c
<1>5. /\ S[b] = Hdr(a, TRUE, H[b].prev_alloc, H[b].prev_mini)
      /\ S[c] = Hdr(H[b].size - a, FALSE, TRUE, a = 16)
      /\ b \in DOMAIN S /\ c \in DOMAIN S
      /\ \A d \in DOMAIN S : d \in {b, c} \/ (d \in DOMAIN H /\ S[d] = H[d])
  BY <1>3, <1>4
<1>6. h \in HeapRec /\ Tags(h, H) /\ h.brk = g.brk /\ Rep(h, H, s.bins)
  BY <1>3 DEF Shows, Rep, H
<1>7. HeaderRead(h, b, H[b])
  BY <1>2, <1>4, <1>6, ReadHeader
<1>8. r = [h |-> h2, block |-> c]
  <2>1. get_size(h, b) = H[b].size
    BY <1>7 DEF HeaderRead
  <2>2. ~ (H[b].size - a < 16)
    <3>1. H[b].size \in Nat /\ H[b].size - a >= 16
      BY <1>4 DEF BlockAt, H
    <3> QED
      BY <3>1
  <2>3. r = [h |-> tell_next(h2, c, FALSE), block |-> c]
    BY <2>1, <2>2, Consts DEF split_block, c
  <2> QED
    BY <2>3, NotTold
<1>9. Tag(h1.mem, b, S[b]) /\ Touched(h1, h, TagWords(b, S[b]))
  <2> DEFINE q == S[b]
             p == H[b]
  <2>1. HeaderRead(h, b, p) /\ q = Hdr(a, TRUE, p.prev_alloc, p.prev_mini)
    BY <1>5, <1>7
  <2> HIDE DEF p, q
  <2>2. h1 = write_pack(h, b, q.size, q.alloc, q.prev_alloc, q.prev_mini)
    BY <2>1, RepackIs
  <2>3. q = S[b]
    BY DEF q
  <2> HIDE DEF h1
  <2>4. Tag(h1.mem, b, q) /\ Touched(h1, h, TagWords(b, q))
    BY <1>2, <1>5, <1>6, <2>2, <2>3, TagBlock
  <2> QED
    BY <2>3, <2>4
<1> HIDE DEF h1
<1>10. Tag(h2.mem, c, S[c]) /\ Touched(h2, h1, TagWords(c, S[c]))
  <2> DEFINE q == S[c]
  <2>1. q.size = H[b].size - a /\ q.alloc = FALSE /\ q.prev_alloc = TRUE /\ q.prev_mini = (a = 16)
    BY <1>5 DEF Hdr
  <2>2. q = S[c] /\ h1 \in HeapRec
    BY <1>9 DEF Touched
  <2> HIDE DEF q
  <2>3. h2 = write_pack(h1, c, q.size, q.alloc, q.prev_alloc, q.prev_mini)
    BY <2>1
  <2> HIDE DEF h2
  <2>4. Tag(h2.mem, c, q) /\ Touched(h2, h1, TagWords(c, q))
    BY <1>2, <1>5, <2>2, <2>3, TagBlock
  <2> QED
    BY <2>2, <2>4
<1> HIDE DEF h2
<1>11. Retagged(h2, h, H, S, {b, c})
  <2>1. h2 \in HeapRec /\ SameGlobals(h2, h)
    BY <1>9, <1>10 DEF Touched, SameGlobals
  <2>2. Tag(h2.mem, b, S[b])
    BY <1>2, <1>4, <1>5, <1>9, <1>10, TagKept
  <2>3. \A x \in Addrs : h2.mem[x] = h.mem[x] \/ \E d \in {b, c} : x \in TagWords(d, S[d])
    BY <1>9, <1>10 DEF Touched
  <2> QED
    BY <1>5, <1>10, <2>1, <2>2, <2>3 DEF Retagged, SameGlobals
<1>12. h2.brk = s.brk
  BY <1>1, <1>6, <1>9, <1>10 DEF Touched, SameGlobals
<1>13. Shows(h2, s) /\ Keeps(h2, h, BH!Used(s))
  BY <1>1, <1>6, <1>11, <1>12, RetagShows DEF S
<1> QED
  BY <1>8, <1>13 DEF c

(***************************************************************************)
(* The first half of free: the header and the footer of the block become   *)
(* free; the next block is not told yet.                                   *)
(***************************************************************************)
LEMMA MarkFreeShows ==
  ASSUME NEW g, BH!WF(g, {}), NEW b \in DOMAIN g.hdr, b # g.brk - 8, g.hdr[b].alloc,
         NEW h, Shows(h, g), NEW u, u = tell_next(repack(h, b, get_size(h, b), FALSE), b, FALSE),
         NEW s, s = BH!mark_free(g, b)
  PROVE  Shows(u, s) /\ Keeps(u, h, BH!Used(s))
<1> DEFINE H == g.hdr
           e == g.brk - 8
           S == s.hdr
<1>1. BH!WF(s, {b}) /\ s.brk = g.brk
  <2>1. b \in DOMAIN g.hdr \ {BH!epilogue(g)}
    BY BridgeHeap
  <2> QED
    BY <2>1, Premises, BH!MarkFree
<1>2. Tiling(H, e) /\ Tiling(S, e) /\ b \in DOMAIN H
  BY <1>1, TilingOf
<1>3. /\ S = [d \in DOMAIN H |->
                IF d = b THEN Hdr(H[d].size, FALSE, H[d].prev_alloc, H[d].prev_mini) ELSE H[d]]
      /\ s.bins = g.bins
  BY Bridge, BridgeHeader DEF BH!mark_free
<1> HIDE DEF H, S, e
<1>5. /\ S[b] = Hdr(H[b].size, FALSE, H[b].prev_alloc, H[b].prev_mini)
      /\ b \in DOMAIN S
      /\ \A d \in DOMAIN S : d \in {b} \/ (d \in DOMAIN H /\ S[d] = H[d])
  BY <1>2, <1>3
<1>6. h \in HeapRec /\ Tags(h, H) /\ h.brk = g.brk /\ Rep(h, H, s.bins)
  BY <1>3 DEF Shows, Rep, H
<1>7. HeaderRead(h, b, H[b])
  BY <1>2, <1>6, ReadHeader
<1>8. u = repack(h, b, H[b].size, FALSE)
  <2>1. get_size(h, b) = H[b].size
    BY <1>7 DEF HeaderRead
  <2> QED
    BY <2>1, NotTold
<1>9. Tag(u.mem, b, S[b]) /\ Touched(u, h, TagWords(b, S[b]))
  <2> DEFINE q == S[b]
             p == H[b]
  <2>1. /\ HeaderRead(h, b, p) /\ q = Hdr(p.size, FALSE, p.prev_alloc, p.prev_mini)
        /\ u = repack(h, b, p.size, FALSE)
    BY <1>5, <1>7, <1>8
  <2> HIDE DEF p, q
  <2>2. u = write_pack(h, b, q.size, q.alloc, q.prev_alloc, q.prev_mini)
    BY <2>1, RepackIs
  <2>3. q = S[b]
    BY DEF q
  <2>4. Tag(u.mem, b, q) /\ Touched(u, h, TagWords(b, q))
    BY <1>2, <1>5, <1>6, <2>2, <2>3, TagBlock
  <2> QED
    BY <2>3, <2>4
<1>10. Retagged(u, h, H, S, {b})
  BY <1>5, <1>9 DEF Touched, Retagged, SameGlobals
<1>11. u.brk = s.brk
  BY <1>1, <1>6, <1>9 DEF Touched, SameGlobals
<1> QED
  BY <1>1, <1>6, <1>10, <1>11, RetagShows DEF S

(***************************************************************************)
(* Growing the heap: the old epilogue becomes the header of the new block  *)
(* and a new epilogue is written behind it.                                *)
(***************************************************************************)
LEMMA GrowShows ==
  ASSUME NEW g, BH!WF(g, {}), NEW n \in Nat, n % 16 = 0, n >= 16, g.brk + n <= MaxHeap,
         NEW h, Shows(h, g), NEW b, b = epilogue(h),
         NEW h2, h2 = write_pack([h EXCEPT !.brk = @ + n], b, n, FALSE,
                                 get_prev_alloc(h, b), get_prev_mini(h, b)),
         NEW u, u = add_epilogue(h2, b), NEW s, s = BH!grow(g, n)
  PROVE  Shows(u, s) /\ Keeps(u, h, BH!Used(g))
<1> DEFINE H == g.hdr
           e == g.brk - 8
           S == s.hdr
           c == b + n
           h1 == [h EXCEPT !.brk = @ + n]
<1>1. BH!WF(s, {b}) /\ s.brk = g.brk + n /\ BH!Used(s) = BH!Used(g) /\ b = e
  <2>1. h.brk = g.brk
    BY DEF Shows
  <2>2. BH!epilogue(g) = b
    BY <2>1, BridgeHeap, Consts DEF epilogue
  <2>3. b = e
    BY <2>2, BridgeHeap
  <2> QED
    BY <2>2, <2>3, Premises, BH!Grow
<1>2. Tiling(H, e) /\ Tiling(S, c) /\ g.brk \in Nat
  <2>1. Tiling(H, e) /\ Tiling(S, s.brk - 8) /\ g.brk \in Nat
    BY <1>1, TilingOf
  <2> QED
    BY <1>1, <2>1
<1>3. /\ S = [d \in DOMAIN H \cup {c} |->
                IF d = c THEN Hdr(0, TRUE, FALSE, n = 16)
                ELSE IF d = b THEN Hdr(n, FALSE, H[d].prev_alloc, H[d].prev_mini) ELSE H[d]]
      /\ s.bins = g.bins
  BY <1>1, Bridge, BridgeHeap, BridgeHeader DEF BH!grow
<1> HIDE DEF H, S, c
<1>4. b \in DOMAIN H /\ b \in Nat /\ c # b
  <2>1. b \in DOMAIN H /\ b \in Nat
    BY <1>1, <1>2, EpilogueFacts
  <2> QED
    BY <2>1 DEF c
<1> HIDE DEF e
<1>5. /\ S[b] = Hdr(n, FALSE, H[b].prev_alloc, H[b].prev_mini)
      /\ S[c] = Hdr(0, TRUE, FALSE, n = 16)
      /\ b \in DOMAIN S /\ c \in DOMAIN S
      /\ \A d \in DOMAIN S : d \in {b, c} \/ (d \in DOMAIN H /\ S[d] = H[d])
  BY <1>3, <1>4
<1>6. h \in HeapRec /\ Tags(h, H) /\ h.brk = g.brk /\ Rep(h, H, s.bins)
  BY <1>3 DEF Shows, Rep, H
<1>7. HeaderRead(h, b, H[b])
  BY <1>2, <1>4, <1>6, ReadHeader
<1>8. /\ h1 \in HeapRec /\ h1.brk = g.brk + n /\ h1.mem = h.mem /\ h1.heap_start = h.heap_start
      /\ h1.seg_list = h.seg_list /\ h1.mini_list = h.mini_list
  <2>1. h.brk + n \in 0 .. MaxHeap
    BY <1>2, <1>6, Consts
  <2> QED
    BY <1>6, <2>1 DEF HeapRec
<1>9. Tag(h2.mem, b, S[b]) /\ Touched(h2, h1, TagWords(b, S[b]))
  <2> DEFINE q == S[b]
  <2>1. /\ q.size = n /\ q.alloc = FALSE
        /\ q.prev_alloc = H[b].prev_alloc /\ q.prev_mini = H[b].prev_mini
    BY <1>5 DEF Hdr
  <2>2. q = S[b]
    OBVIOUS
  <2> HIDE DEF q
  <2>3. h2 = write_pack(h1, b, q.size, q.alloc, q.prev_alloc, q.prev_mini)
    BY <1>7, <2>1 DEF HeaderRead
  <2> HIDE DEF h1
  <2>4. Tag(h2.mem, b, q) /\ Touched(h2, h1, TagWords(b, q))
    BY <1>2, <1>5, <1>8, <2>2, <2>3, TagBlock
  <2> QED
    BY <2>2, <2>4
<1> HIDE DEF h1
<1>10. Tag(u.mem, c, S[c]) /\ Touched(u, h2, TagWords(c, S[c]))
  <2> DEFINE q == S[c]
             p == S[b]
  <2>0. h2 \in HeapRec /\ b \in Addrs /\ HeaderOK(p) /\ h2.mem[b] = Pack(p)
    BY <1>2, <1>5, <1>9, HeaderFacts DEF Touched, Tag
  <2>1. p.size = n /\ p.alloc = FALSE /\ q.size = 0 /\ q.alloc = TRUE /\ q.prev_alloc = FALSE
        /\ q.prev_mini = (n = 16)
    BY <1>5 DEF Hdr
  <2>2. q = S[c]
    OBVIOUS
  <2> HIDE DEF q, p
  <2>3. get_size(h2, b) = n /\ ~ get_alloc(h2, b) /\ (is_mini_block(h2, b) <=> n = 16)
    BY <2>0, <2>1, ReadWord
  <2>4. u = Store(h2, c, pack_all(0, TRUE, get_alloc(h2, b), is_mini_block(h2, b)))
    BY <2>3 DEF add_epilogue, write_epilogue, find_next, c
  <2>5. u = Store(h2, c, pack_all(0, TRUE, FALSE, n = 16))
    BY <2>3, <2>4 DEF pack_all
  <2>6. u = write_pack(h2, c, q.size, q.alloc, q.prev_alloc, q.prev_mini)
    BY <2>1, <2>5 DEF write_pack
  <2>7. Tag(u.mem, c, q) /\ Touched(u, h2, TagWords(c, q))
    BY <1>2, <1>5, <2>0, <2>2, <2>6, TagBlock
  <2> QED
    BY <2>2, <2>7
<1>11. Retagged(u, h, H, S, {b, c})
  <2>1. u \in HeapRec /\ SameGlobals(u, h1)
    BY <1>9, <1>10 DEF Touched, SameGlobals
  <2>2. Tag(u.mem, b, S[b])
    <3>1. Tiling(S, c) /\ b \in DOMAIN S /\ c \in DOMAIN S /\ b # c
      BY <1>2, <1>4, <1>5
    <3>2. Tag(h2.mem, b, S[b]) /\ Touched(u, h2, TagWords(c, S[c]))
      BY <1>9, <1>10
    <3>3. ASSUME NEW x, NEW y, x = h2, y = u
          PROVE  Tag(y.mem, b, S[b])
      <4>1. Tag(x.mem, b, S[b]) /\ Touched(y, x, TagWords(c, S[c]))
        BY <3>2, <3>3
      <4> QED
        BY ONLY <3>1, <4>1, TagKept
    <3> QED
      BY <3>3
  <2>3. \A x \in Addrs : u.mem[x] = h.mem[x] \/ \E d \in {b, c} : x \in TagWords(d, S[d])
    BY <1>8, <1>9, <1>10 DEF Touched
  <2> QED
    BY <1>5, <1>8, <1>10, <2>1, <2>2, <2>3 DEF Retagged, SameGlobals
<1>12. u.brk = s.brk
  BY <1>1, <1>8, <1>9, <1>10 DEF Touched, SameGlobals
<1>13. Shows(u, s) /\ Keeps(u, h, BH!Used(s))
  BY <1>1, <1>6, <1>11, <1>12, RetagShows DEF S
<1> QED
  BY <1>1, <1>13

-----------------------------------------------------------------------------
(***************************************************************************)
(* Rounding is the same at both levels.                                    *)
(***************************************************************************)
LEMMA BridgeRound ==
  ASSUME NEW n
  PROVE  BH!round_up(n, BH!dsize) = round_up(n, dsize) /\ BH!adjusted_size(n) = adjusted_size(n)
BY DEF BH!round_up, round_up, BH!dsize, dsize, BH!adjusted_size, adjusted_size, BH!wsize, wsize

(***************************************************************************)
(* A multiple of 16 is rounded to itself.                                  *)
(***************************************************************************)
LEMMA RoundMultiple ==
  ASSUME NEW n \in Nat, n % 16 = 0, n + 16 <= SIZE_MOD
  PROVE  round_up(n, dsize) = n /\ BH!round_up(n, BH!dsize) = n
<1>1. BH!round_up(n, BH!dsize) = n
  BY Premises, BH!RoundUpMultiple
<1> QED
  BY <1>1, BridgeRound

(***************************************************************************)
(* extend_heap, when the break may move and when it may not, follows       *)
(* BlockHeap's.                                                            *)
(***************************************************************************)
LEMMA ExtendShows ==
  ASSUME NEW g, BH!WF(g, {}), NEW n \in Nat, n % 16 = 0, n >= 16, n + 16 <= SIZE_MOD,
         NEW h, Shows(h, g), NEW r, r = extend_heap(h, n), NEW q, q = BH!extend_heap(g, n)
  PROVE  Shows(r.h, q.hp) /\ r.block = q.block /\ Keeps(r.h, h, BH!Used(g))
<1> DEFINE b == epilogue(h)
           h2 == write_pack([h EXCEPT !.brk = @ + n], b, n, FALSE,
                            get_prev_alloc(h, b), get_prev_mini(h, b))
           u == add_epilogue(h2, b)
           s == BH!grow(g, n)
           fails == mem_sbrk_fails(h, n)
<1>1. h.brk = g.brk
  BY DEF Shows
<1>2. BH!mem_sbrk_fails(g, n) <=> fails
  BY <1>1 DEF BH!mem_sbrk_fails, mem_sbrk_fails
<1>3. b = BH!epilogue(g) /\ b = payload_to_header(h.brk)
  BY <1>1, BridgeHeap, Consts DEF epilogue, payload_to_header
<1>4. r = IF fails THEN [h |-> h, block |-> NULL] ELSE coalesce_block(u, b)
  <2>1. round_up(n, dsize) = n
    BY RoundMultiple
  <2> QED
    BY <1>3, <2>1 DEF extend_heap
<1>5. q = IF fails THEN [hp |-> g, block |-> 0] ELSE BH!coalesce_block(s, b)
  <2>1. BH!round_up(n, BH!dsize) = n
    BY RoundMultiple
  <2> HIDE DEF b, fails
  <2> QED
    BY <1>2, <1>3, <2>1, Bridge DEF BH!extend_heap
<1>6. CASE fails
  <2>1. r.h = h /\ r.block = 0 /\ q.hp = g /\ q.block = 0
    BY <1>4, <1>5, <1>6, Consts
  <2> QED
    BY <2>1 DEF Keeps
<1>7. CASE ~ fails
  <2>1. g.brk + n <= MaxHeap
    <3>1. g.brk \in Nat
      BY TilingOf
    <3>2. ~ (h.brk + n > MaxHeap)
      BY <1>7 DEF mem_sbrk_fails
    <3> QED
      BY <1>1, <3>1, <3>2, Consts
  <2>2. Shows(u, s) /\ Keeps(u, h, BH!Used(g))
    <3> HIDE DEF b
    <3>1. b = epilogue(h)
      BY DEF b
    <3> QED
      BY <2>1, <3>1, GrowShows
  <2>3. /\ BH!WF(s, {b}) /\ b \in DOMAIN s.hdr /\ b # BH!epilogue(s) /\ ~ s.hdr[b].alloc
        /\ BH!Used(s) = BH!Used(g)
    <3> DEFINE d == BH!epilogue(g)
    <3>1. /\ BH!WF(s, {d}) /\ d \in DOMAIN s.hdr \ {BH!epilogue(s)} /\ ~ s.hdr[d].alloc
          /\ BH!Used(s) = BH!Used(g)
      BY <2>1, Premises, BH!Grow
    <3>2. b = d
      BY <1>3
    <3> HIDE DEF b, d, s
    <3> QED
      BY <3>1, <3>2
  <2>4. r = coalesce_block(u, b) /\ q = BH!coalesce_block(s, b)
    BY <1>4, <1>5, <1>7
  <2>5. b # s.brk - 8
    BY <2>3, BridgeHeap
  <2> HIDE DEF b, u, s
  <2>6. Shows(r.h, q.hp) /\ r.block = q.block /\ Keeps(r.h, u, BH!Used(s))
    BY ONLY <2>2, <2>3, <2>4, <2>5, CoalesceShows
  <2>7. Keeps(r.h, h, BH!Used(g))
    BY <2>2, <2>3, <2>6, KeepsAgain
  <2> QED
    BY <2>6, <2>7
<1> QED
  BY <1>6, <1>7

(***************************************************************************)
(* place, with and without a split, follows BlockHeap's.                   *)
(***************************************************************************)
LEMMA PlaceShows ==
  ASSUME NEW g, BH!WF(g, {}), NEW b \in DOMAIN g.hdr, ~ g.hdr[b].alloc,
         NEW a \in Nat, a % 16 = 0, a >= 16, a <= g.hdr[b].size,
         NEW h, Shows(h, g), NEW u, u = place(h, b, a), NEW t, t = BH!place(g, b, a)
  PROVE  Shows(u, t) /\ Keeps(u, h, BH!Used(g))
<1> DEFINE h1 == mark_allocated(remove_free(h, b), b)
           k == BH!take(g, b)
           n == g.hdr[b].size
           sp == split_block(h1, b, a)
           s == BH!split_block(k, b, a)
           c == b + a
<1>1. Shows(h1, k) /\ Keeps(h1, h, BH!Used(g))
  BY TakeShows
<1>2. /\ BH!WF(k, {}) /\ k.brk = g.brk /\ b \in DOMAIN k.hdr /\ b # k.brk - 8
      /\ k.hdr[b].alloc /\ k.hdr[b].size = n /\ BH!Used(k) = BH!Used(g) \cup {BH!Entry(b, n)}
  <2>1. /\ BH!WF(k, {}) /\ k.brk = g.brk /\ b \in DOMAIN k.hdr /\ b # BH!epilogue(k)
        /\ k.hdr[b].alloc /\ k.hdr[b].size = n /\ BH!Used(k) = BH!Used(g) \cup {BH!Entry(b, n)}
    BY Premises, BH!Take
  <2> QED
    BY <2>1, BridgeHeap
<1>3. u = give_back(sp) /\ t = IF n - a >= 16 THEN BH!coalesce_block(s, c).hp ELSE k
  BY Bridge DEF place, BH!place
<1>4. n \in Nat /\ get_size(h1, b) = n
  <2>1. Tiling(k.hdr, k.brk - 8)
    BY <1>2, TilingOf
  <2>2. HeaderRead(h1, b, k.hdr[b]) /\ k.hdr[b].size \in Nat
    BY <1>1, <1>2, <2>1, ReadHeader, SizeBound DEF Shows, Rep
  <2> HIDE DEF k, n, h1
  <2> QED
    BY <1>2, <2>2 DEF HeaderRead
<1> HIDE DEF h1, k, n, s, c
<1>5. CASE ~ (n - a >= 16)
  <2>1. sp.block = 0 /\ sp.h = h1
    <3>1. get_size(h1, b) - a < min_block_size
      BY <1>4, <1>5, Consts
    <3>2. sp = [h |-> h1, block |-> NULL]
      BY <3>1 DEF split_block
    <3> HIDE DEF sp
    <3> QED
      BY <3>2, Consts
  <2>2. u = h1 /\ t = k
    BY <1>3, <1>5, <2>1, Consts DEF give_back
  <2> QED
    BY <1>1, <2>2
<1>6. CASE n - a >= 16
  <2>0. s = BH!split_block(k, b, a) /\ k.hdr[b].size - a >= 16 /\ c = b + a
    BY <1>2, <1>6 DEF s, c
  <2>1. Shows(sp.h, s) /\ sp.block = c /\ Keeps(sp.h, h1, BH!Used(s))
    <3> DEFINE r == sp
    <3>1. r = split_block(h1, b, a)
      OBVIOUS
    <3> HIDE DEF sp
    <3>2. Shows(r.h, s) /\ r.block = b + a /\ Keeps(r.h, h1, BH!Used(s))
      BY <1>1, <1>2, <2>0, <3>1, SplitShows
    <3> QED
      BY <2>0, <3>2
  <2>2. /\ BH!WF(s, {c}) /\ c \in DOMAIN s.hdr /\ c # s.brk - 8 /\ ~ s.hdr[c].alloc
        /\ BH!Used(s) = BH!Resize(BH!Used(k), b, n, a)
    <3>1. b \in DOMAIN k.hdr \ {BH!epilogue(k)}
      BY <1>2, BridgeHeap
    <3>2. /\ BH!WF(s, {b + a}) /\ b + a \in DOMAIN s.hdr \ {BH!epilogue(s)} /\ ~ s.hdr[b + a].alloc
          /\ BH!Used(s) = BH!Resize(BH!Used(k), b, k.hdr[b].size, a)
      BY <1>2, <2>0, <3>1, Premises, BH!Split
    <3> QED
      BY <1>2, <2>0, <3>2, BridgeHeap
  <2>3. BH!Used(g) \subseteq BH!Used(s)
    <3>1. \A v \in BH!Used(g) : v.block # b
      BY Premises, BH!Place
    <3>2. BH!Entry(b, n).block = b
      BY DEF BH!Entry
    <3> QED
      BY <1>2, <2>2, <3>1, <3>2 DEF BH!Resize
  <2>4. Keeps(sp.h, h, BH!Used(g))
    BY <1>1, <2>1, <2>3, KeepsLess, KeepsAgain
  <2> DEFINE r == coalesce_block(sp.h, c)
             q == BH!coalesce_block(s, c)
  <2>5. c # 0
    <3>1. c \in Nat /\ c # 0
      BY <2>2, TilingOf, HeaderFacts
    <3> QED
      BY <3>1
  <2>6. u = r.h /\ t = q.hp
    BY <1>3, <1>6, <2>1, <2>5, Consts DEF give_back
  <2>7. r = coalesce_block(sp.h, c) /\ q = BH!coalesce_block(s, c)
    OBVIOUS
  <2> HIDE DEF r, q, sp
  <2>8. Shows(r.h, q.hp) /\ Keeps(r.h, sp.h, BH!Used(s))
    <3> DEFINE v == sp.h
    <3>1. Shows(v, s) /\ r = coalesce_block(v, c)
      BY <2>1, <2>7
    <3> HIDE DEF v
    <3>2. Shows(r.h, q.hp) /\ Keeps(r.h, v, BH!Used(s))
      BY ONLY <2>2, <2>7, <3>1, CoalesceShows
    <3> QED
      BY <3>2 DEF v
  <2>9. Keeps(r.h, h, BH!Used(g))
    BY <2>3, <2>4, <2>8, KeepsLess, KeepsAgain
  <2> QED
    BY <2>6, <2>8, <2>9
<1> QED
  BY <1>5, <1>6

(***************************************************************************)
(* free follows BlockHeap's and touches the payload of no other block in   *)
(* use.                                                                    *)
(***************************************************************************)
LEMMA FreeShows ==
  ASSUME NEW g, BH!WF(g, {}), NEW v \in BH!Used(g), NEW h, Shows(h, g),
         NEW bp, bp = v.block + 8, NEW u, u = free(h, bp), NEW t, t = BH!free(g, bp)
  PROVE  Shows(u, t) /\ Keeps(u, h, BH!Used(g) \ {v})
<1> DEFINE b == v.block
           h1 == tell_next(repack(h, b, get_size(h, b), FALSE), b, FALSE)
           s == BH!mark_free(g, b)
           r == coalesce_block(h1, b)
           q == BH!coalesce_block(s, b)
<1>1. PICK c \in DOMAIN g.hdr : c # g.brk - 8 /\ g.hdr[c].alloc /\ v = BH!Entry(c, g.hdr[c].size)
  BY BridgeHeap DEF BH!Used
<1>2. c = b /\ v = BH!Entry(b, g.hdr[b].size)
  <2>1. v.block = c
    BY <1>1 DEF BH!Entry
  <2> QED
    BY <1>1, <2>1
<1>3. b \in Nat /\ b # 0
  BY <1>1, <1>2, TilingOf, HeaderFacts
<1>4. u = r.h /\ t = q.hp
  <2>1. bp - 8 = b /\ bp # 0
    BY <1>3
  <2>2. u = r.h
    <3> HIDE DEF b
    <3> QED
      BY <2>1, Consts DEF free, payload_to_header
  <2>3. t = q.hp
    <3> HIDE DEF b
    <3> QED
      BY <2>1, Bridge DEF BH!free
  <2> QED
    BY <2>2, <2>3
<1>5. b \in DOMAIN g.hdr /\ b # g.brk - 8 /\ g.hdr[b].alloc
  BY <1>1, <1>2
<1>6. /\ h1 = tell_next(repack(h, b, get_size(h, b), FALSE), b, FALSE)
      /\ s = BH!mark_free(g, b) /\ r = coalesce_block(h1, b) /\ q = BH!coalesce_block(s, b)
  OBVIOUS
<1> HIDE DEF b, h1, s, r, q
<1>7. Shows(h1, s) /\ Keeps(h1, h, BH!Used(s))
  BY <1>5, <1>6, MarkFreeShows
<1>8. /\ BH!WF(s, {b}) /\ b \in DOMAIN s.hdr /\ b # s.brk - 8 /\ ~ s.hdr[b].alloc
      /\ BH!Used(s) = BH!Used(g) \ {v}
  <2>1. b \in DOMAIN g.hdr \ {BH!epilogue(g)}
    BY <1>5, BridgeHeap
  <2>2. /\ BH!WF(s, {b}) /\ b \in DOMAIN s.hdr \ {BH!epilogue(s)} /\ ~ s.hdr[b].alloc
        /\ BH!Used(s) = BH!Used(g) \ {BH!Entry(b, g.hdr[b].size)}
    BY <1>5, <1>6, <2>1, Premises, BH!MarkFree
  <2> QED
    BY <1>2, <2>2, BridgeHeap
<1>9. Shows(r.h, q.hp) /\ Keeps(r.h, h1, BH!Used(s))
  BY ONLY <1>6, <1>7, <1>8, CoalesceShows
<1> QED
  BY <1>4, <1>7, <1>8, <1>9, KeepsAgain

-----------------------------------------------------------------------------
(***************************************************************************)
(* mm_init on a memory system that was just reset follows BlockHeap's.     *)
(***************************************************************************)
LEMMA InitShows ==
  ASSUME NEW h \in HeapRec, h.brk = 0, NEW r, r = mm_init(h), NEW x, NEW q, q = BH!mm_init(x)
  PROVE  Shows(r.h, q.hp) /\ (r.ok <=> q.block # 0)
<1> DEFINE g == BH!BareHeap
           p == Hdr(0, TRUE, TRUE, FALSE)
           h1 == [h EXCEPT !.brk = 0 + 2 * wsize, !.seg_list = [i \in Classes |-> NULL],
                           !.mini_list = NULL, !.heap_start = 0 + wsize]
           h2 == Store(h1, 0, pack_all(0, TRUE, FALSE, FALSE))
           h3 == Store(h2, 0 + wsize, pack_all(0, TRUE, TRUE, FALSE))
           ex == extend_heap(h3, chunksize)
<1>1. BH!WF(g, {}) /\ BH!Used(g) = {} /\ g.brk = 16
  BY Premises, BH!Bare
<1>2. g.hdr = [c \in {8} |-> p] /\ g.bins = [k \in Bins |-> {}]
  BY Bridge, BridgeHeader DEF BH!BareHeap
<1>3. 0 \in Addrs /\ 8 \in Addrs
  BY AddrFact, Consts
<1>4. /\ h1 \in HeapRec /\ h1.brk = 16 /\ h1.heap_start = 8 /\ h1.mem = h.mem
      /\ h1.seg_list = [i \in Classes |-> 0] /\ h1.mini_list = 0
  <2>1. 16 \in 0 .. MaxHeap /\ 0 + 2 * wsize = 16 /\ 0 + wsize = 8 /\ wsize = 8 /\ NULL = 0
    BY Consts
  <2> QED
    BY <1>3, <2>1 DEF HeapRec
<1>5. /\ pack_all(0, TRUE, FALSE, FALSE) = Pack(Prologue) /\ Pack(Prologue) \in Words
      /\ pack_all(0, TRUE, TRUE, FALSE) = Pack(p) /\ Pack(p) \in Words
  <2>1. Pack(Prologue) = 1 /\ Pack(p) = 3
    BY DEF Pack, Prologue, Hdr, pack_all, alloc_mask, prev_alloc_mask
  <2>2. pack_all(0, TRUE, FALSE, FALSE) = 1 /\ pack_all(0, TRUE, TRUE, FALSE) = 3
    BY DEF pack_all, alloc_mask, prev_alloc_mask
  <2>3. 1 \in Words /\ 3 \in Words
    BY Consts DEF Words
  <2> QED
    BY <2>1, <2>2, <2>3
<1> HIDE DEF h1, p
<1>6. Stored(h2, h1, 0, Pack(Prologue))
  <2> DEFINE w == pack_all(0, TRUE, FALSE, FALSE)
  <2>1. h2 = Store(h1, 0, w) /\ w \in Words /\ w = Pack(Prologue)
    BY <1>5
  <2> HIDE DEF w, h2
  <2>2. Stored(h2, h1, 0, w)
    BY <1>3, <1>4, <2>1, StoreFact
  <2> QED
    BY <2>1, <2>2
<1> HIDE DEF h2
<1>7. Stored(h3, h2, 8, Pack(p))
  <2> DEFINE w == pack_all(0, TRUE, TRUE, FALSE)
  <2>1. h3 = Store(h2, 8, w) /\ w \in Words /\ w = Pack(p) /\ h2 \in HeapRec
    <3>1. 0 + wsize = 8
      BY Consts
    <3>2. h2 \in HeapRec
      BY <1>6 DEF Stored
    <3> QED
      BY <1>5, <3>1, <3>2
  <2> HIDE DEF w, h3
  <2>2. Stored(h3, h2, 8, w)
    BY <1>3, <2>1, StoreFact
  <2> QED
    BY <2>1, <2>2
<1> HIDE DEF h3
<1>8. /\ h3 \in HeapRec /\ h3.heap_start = 8 /\ h3.brk = 16 /\ h3.mem[8] = Pack(p)
      /\ h3.mem[0] = Pack(Prologue)
      /\ h3.seg_list = [i \in Classes |-> 0] /\ h3.mini_list = 0
  BY <1>3, <1>4, <1>6, <1>7 DEF Stored, SameGlobals
<1>9. Tags(h3, g.hdr)
  <2>1. p.alloc
    BY DEF p, Hdr
  <2> QED
    BY <1>2, <1>8, <2>1 DEF Tags, Tag
<1>10. ASSUME NEW k \in Bins
       PROVE  ListRep(h3, k, {})
  <2>1. HeadOf(h3, k) = 0
    BY <1>8, <1>10 DEF HeadOf, Bins
  <2> QED
    BY <2>1 DEF ListRep, Linked, Ranked, Heads, BackLinks
<1>11. \A k \in Bins : ListRep(h3, k, g.bins[k])
  BY <1>2, <1>10
<1> HIDE DEF g
<1>12. Shows(h3, g)
  BY <1>1, <1>8, <1>9, <1>11 DEF Shows, Rep
<1>13. ~ mem_sbrk_fails(h, 2 * wsize)
  BY Consts DEF mem_sbrk_fails
<1>14. r = init_result(ex)
  <2>1. h3 = Store(Store(h1, h.brk, pack_all(0, TRUE, FALSE, FALSE)), h.brk + wsize,
                   pack_all(0, TRUE, TRUE, FALSE))
    BY DEF h3, h2
  <2>2. h1 = [h EXCEPT !.brk = h.brk + 2 * wsize, !.seg_list = [i \in Classes |-> NULL],
                       !.mini_list = NULL, !.heap_start = h.brk + wsize]
    BY DEF h1
  <2> HIDE DEF h1, h3
  <2> QED
    BY <1>13, <2>1, <2>2 DEF mm_init
<1>15. q = BH!extend_heap(g, chunksize)
  BY DEF BH!mm_init, g
<1>16. ex = extend_heap(h3, chunksize)
  OBVIOUS
<1>17. chunksize \in Nat /\ chunksize % 16 = 0 /\ chunksize >= 16 /\ chunksize + 16 <= SIZE_MOD
  BY Consts
<1> HIDE DEF ex
<1>18. Shows(ex.h, q.hp) /\ ex.block = q.block
  BY ONLY <1>1, <1>12, <1>15, <1>16, <1>17, ExtendShows
<1> QED
  <2>1. r.h = ex.h /\ r.ok = (ex.block # 0)
    BY <1>14, Consts DEF init_result
  <2> QED
    BY <1>18, <2>1

-----------------------------------------------------------------------------
(***************************************************************************)
(* The list k as the loops of mm.c read it.                                *)
(***************************************************************************)
ListOf(h, k) == IF k = -1 THEN mini_chain(h) ELSE seg_chain(h, k)

(***************************************************************************)
(* The loops over a free list visit exactly the blocks that belong on it.  *)
(***************************************************************************)
LEMMA ChainOf ==
  ASSUME NEW H, NEW e, Tiling(H, e), NEW B, Binny(H, B), NEW h, Rep(h, H, B), NEW k \in Bins
  PROVE  Walked(ListOf(h, k), B[k], HeadOf(h, k), NextOf(h, LinkOff(k)))
<1>1. ListOf(h, k) = Walk(HeadOf(h, k), NextOf(h, LinkOff(k)))
  BY Consts DEF ListOf, mini_chain, seg_chain, Chain, HeadOf, NextOf, LinkOff
<1>2. Nodes(H, k, B[k])
  BY DEF Binny, Nodes
<1>3. IsFiniteSet(B[k]) /\ Cardinality(B[k]) <= MaxBlocks
  BY <1>2, NodesFacts
<1>4. h \in HeapRec /\ ListRep(h, k, B[k])
  BY DEF Rep
<1>5. NextOf(h, LinkOff(k)) \in [Int -> Int]
  BY <1>4, NextValue DEF LinkOff
<1> DEFINE next == NextOf(h, LinkOff(k))
           S == B[k]
           first == HeadOf(h, k)
<1>6. PICK rk : Linked(S, rk, first, next)
  BY <1>4 DEF ListRep
<1>7. IsFiniteSet(S) /\ Cardinality(S) <= MaxBlocks /\ next \in [Int -> Int]
  BY <1>3, <1>5
<1> HIDE DEF next, S, first
<1>8. Walked(Walk(first, next), S, first, next)
  BY <1>6, <1>7, WalkIs
<1> QED
  BY <1>1, <1>8 DEF next, S, first

(***************************************************************************)
(* The least element of a set of numbers.                                  *)
(***************************************************************************)
LEMMA MinIn ==
  ASSUME NEW S, S \subseteq Nat, S # {}
  PROVE  Min(S) \in S /\ \A y \in S : Min(S) <= y
<1>1. \E x \in S : \A y \in S : x <= y
  BY LeastNatural
<1> QED
  BY <1>1 DEF Min

(***************************************************************************)
(* The greatest element of a bounded set of numbers.                       *)
(***************************************************************************)
LEMMA MaxIn ==
  ASSUME NEW S, S \subseteq Nat, S # {}, NEW n \in Nat, \A y \in S : y <= n
  PROVE  Max(S) \in S /\ \A y \in S : y <= Max(S)
<1>1. \E x \in S : \A y \in S : y <= x
  BY GreatestNatural
<1>2. PICK x \in S : \A y \in S : x >= y
  <2>1. PICK x \in S : \A y \in S : y <= x
    BY <1>1
  <2>2. \A y \in S : x >= y
    BY <2>1
  <2> QED
    BY <2>2
<1>3. Max(S) \in S /\ \A y \in S : Max(S) >= y
  BY <1>2 DEF Max
<1> QED
  BY <1>3

(***************************************************************************)
(* better_fit takes some fitting block of the list.                        *)
(***************************************************************************)
LEMMA BetterFits ==
  ASSUME NEW h, NEW list, NEW n \in Nat, NEW fits, fits \subseteq 1 .. n, fits # {}
  PROVE  \E k \in fits : better_fit(h, list, fits) = list[k]
<1> DEFINE K == {k \in fits : \A i, j \in fits :
                   i < j /\ j <= k => get_size(h, list[j]) < get_size(h, list[i])}
<1>1. fits \subseteq Nat
  OBVIOUS
<1>2. PICK m \in fits : \A y \in fits : m <= y
  BY <1>1, LeastNatural
<1>3. m \in K
  <2> SUFFICES ASSUME NEW i \in fits, NEW j \in fits, i < j, j <= m
               PROVE  FALSE
    BY <1>2
  <2> QED
    BY <1>1, <1>2
<1>4. K \subseteq Nat /\ K # {} /\ \A y \in K : y <= n
  <2>1. \A y \in fits : y \in Nat /\ y <= n
    OBVIOUS
  <2>2. \A y \in K : y \in fits
    OBVIOUS
  <2> HIDE DEF K
  <2> QED
    BY <1>3, <2>1, <2>2
<1>5. K \subseteq fits
  OBVIOUS
<1>6. better_fit(h, list, fits) = list[Max(K)]
  BY DEF better_fit
<1> HIDE DEF K
<1>7. Max(K) \in K
  BY <1>4, MaxIn
<1> QED
  BY <1>5, <1>6, <1>7

(***************************************************************************)
(* The blocks of S that are large enough.                                  *)
(***************************************************************************)
Fitting(H, S, a) == {c \in S : a <= H[c].size}

(***************************************************************************)
(* The positions that fits_in finds are those of the fitting blocks of the *)
(* list.                                                                   *)
(***************************************************************************)
LEMMA FitsIn ==
  ASSUME NEW H, NEW e, Tiling(H, e), NEW B, Binny(H, B), NEW h, Rep(h, H, B), NEW k \in Classes,
         NEW a
  PROVE  LET list == seg_chain(h, k)
             fits == fits_in(h, list, a)
         IN  /\ Len(list) \in Nat /\ fits \subseteq 1 .. Len(list)
             /\ \A i \in fits : list[i] \in Fitting(H, B[k], a)
             /\ fits = {} => Fitting(H, B[k], a) = {}
<1> DEFINE list == seg_chain(h, k)
           fits == fits_in(h, list, a)
<1>1. k \in Bins /\ k # -1
  BY Consts DEF Bins
<1>2. Walked(list, B[k], HeadOf(h, k), NextOf(h, LinkOff(k)))
  BY <1>1, ChainOf DEF ListOf
<1>3. /\ list \in Seq(B[k]) /\ \A c \in B[k] : \E i \in 1 .. Len(list) : list[i] = c
  BY <1>2 DEF Walked
<1>4. ASSUME NEW c \in B[k]
      PROVE  ~ get_alloc(h, c) /\ get_size(h, c) = H[c].size
  <2>1. c \in DOMAIN H /\ ~ H[c].alloc
    BY <1>1, <1>4 DEF Binny, Node
  <2>2. HeaderRead(h, c, H[c])
    BY <2>1, ReadHeader DEF Rep
  <2> QED
    BY <2>1, <2>2 DEF HeaderRead
<1> HIDE DEF list
<1>5. Len(list) \in Nat /\ DOMAIN list = 1 .. Len(list) /\ \A i \in 1 .. Len(list) : list[i] \in B[k]
  BY <1>3
<1>6. fits = {i \in 1 .. Len(list) : a <= H[list[i]].size}
  BY <1>4, <1>5 DEF fits_in
<1>7. fits = {} => Fitting(H, B[k], a) = {}
  <2>1. ASSUME NEW c \in Fitting(H, B[k], a)
        PROVE  fits # {}
    <3>1. PICK i \in 1 .. Len(list) : list[i] = c
      BY <1>3, <2>1 DEF Fitting
    <3>2. i \in fits
      BY <1>6, <2>1, <3>1 DEF Fitting
    <3> QED
      BY <3>2
  <2> QED
    BY <2>1
<1> QED
  BY <1>5, <1>6, <1>7 DEF Fitting, list

(***************************************************************************)
(* The lists that find_fit searches.                                       *)
(***************************************************************************)
LEMMA BridgeSearch ==
  ASSUME NEW a
  PROVE  BH!Searched(a) = {k \in Bins : IF k = -1 THEN a = 16 ELSE find_class(a) <= k}
BY Bridge, BridgeClass DEF BH!Searched

(***************************************************************************)
(* find_fit returns one of the blocks BlockHeap allows, or NULL when       *)
(* BlockHeap has none: no free block that is large enough is missed.       *)
(***************************************************************************)
LEMMA FindFit ==
  ASSUME NEW g, BH!WF(g, {}), NEW h, Shows(h, g), NEW a \in Nat,
         NEW f, f = find_fit(h, a)
  PROVE  (f = 0 /\ BH!find_fit(g, a) = {}) \/ (f # 0 /\ f \in BH!find_fit(g, a))
<1> DEFINE H == g.hdr
           B == g.bins
           e == g.brk - 8
           L == BH!Searched(a)
           fits(i) == fits_in(h, seg_chain(h, i), a)
           classes == {i \in find_class(a) .. 13 : fits(i) # {}}
           class == Min(classes)
<1>1. Tiling(H, e) /\ Binny(H, B) /\ Rep(h, H, B)
  BY TilingOf, BinsOf DEF Shows
<1>2. L = {k \in Bins : IF k = -1 THEN a = 16 ELSE find_class(a) <= k}
  BY BridgeSearch
<1>3. find_class(a) \in Nat
  BY ClassOf
<1>4. f = IF a = 16 /\ h.mini_list # 0 THEN h.mini_list
          ELSE IF classes = {} THEN 0 ELSE better_fit(h, seg_chain(h, class), fits(class))
  BY Consts DEF find_fit, LENGTH
<1>5. BH!find_fit(g, a) = {b \in DOMAIN H : /\ a <= H[b].size
                                            /\ \E k \in L : /\ b \in B[k]
                                                 /\ \A j \in L : j < k => \A c \in B[j] : H[c].size < a}
  BY DEF BH!find_fit
<1>6. -1 \in Bins /\ HeadOf(h, -1) = h.mini_list /\ ListRep(h, -1, B[-1])
  BY <1>1 DEF Bins, HeadOf, Rep
<1>7. (B[-1] = {} /\ h.mini_list = 0) \/ h.mini_list \in B[-1]
  BY <1>6, HeadNode
<1>8. \A k \in Bins : \A c \in B[k] : Node(H, k, c) /\ c \in DOMAIN H /\ c # 0 /\ H[c].size \in Nat
                                      /\ (k = -1 <=> H[c].size = 16)
  <2> SUFFICES ASSUME NEW k \in Bins, NEW c \in B[k]
               PROVE  Node(H, k, c) /\ c \in DOMAIN H /\ c # 0 /\ H[c].size \in Nat
                      /\ (k = -1 <=> H[c].size = 16)
    OBVIOUS
  <2>1. Node(H, k, c)
    BY <1>1 DEF Binny
  <2>2. c \in DOMAIN H /\ BlockAt(H, c, e) /\ (k = -1 <=> H[c].size = 16)
    BY <1>1, <2>1, NodeFacts
  <2> QED
    BY <2>1, <2>2 DEF BlockAt
<1> HIDE DEF H, B, e, L
<1>9. CASE a = 16 /\ h.mini_list # 0
  <2>1. f = h.mini_list /\ f \in B[-1]
    BY <1>4, <1>7, <1>9
  <2>2. f \in DOMAIN H /\ f # 0 /\ H[f].size = 16
    BY <1>6, <1>8, <2>1
  <2>3. -1 \in L /\ \A j \in L : ~ (j < -1)
    BY <1>2, <1>6, <1>9, Consts DEF Bins
  <2>4. a <= H[f].size
    BY <1>9, <2>2
  <2> QED
    BY <1>5, <2>1, <2>2, <2>3, <2>4
<1>10. ASSUME ~ (a = 16 /\ h.mini_list # 0), -1 \in L
       PROVE  B[-1] = {}
  <2>1. a = 16
    BY <1>2, <1>10
  <2>2. h.mini_list = 0
    BY <1>10, <2>1
  <2>3. 0 \notin B[-1]
    BY <1>6, <1>8
  <2> QED
    BY <1>7, <2>2, <2>3
<1>11. ASSUME NEW k \in L, k # -1
       PROVE  k \in Classes /\ k \in find_class(a) .. 13
  BY <1>2, <1>3, <1>11, Consts DEF Bins
<1>12. ASSUME NEW k \in L, k # -1, k \notin classes
       PROVE  \A c \in B[k] : H[c].size < a
  <2>1. k \in Classes /\ fits(k) = {}
    BY <1>11, <1>12
  <2>2. Fitting(H, B[k], a) = {}
    BY <1>1, <2>1, FitsIn
  <2>3. k \in Bins
    BY <2>1 DEF Bins
  <2> SUFFICES ASSUME NEW c \in B[k]
               PROVE  H[c].size < a
    OBVIOUS
  <2>4. ~ (a <= H[c].size)
    BY <2>2 DEF Fitting
  <2>5. H[c].size \in Nat
    BY <1>8, <2>3
  <2> QED
    BY <2>4, <2>5
<1>13. CASE ~ (a = 16 /\ h.mini_list # 0) /\ classes = {}
  <2>1. f = 0
    BY <1>4, <1>13
  <2>2. ASSUME NEW b \in BH!find_fit(g, a)
        PROVE  FALSE
    <3>1. PICK k \in L : b \in B[k] /\ a <= H[b].size
      BY <1>5, <2>2
    <3>2. k # -1
      BY <1>10, <1>13, <3>1
    <3>3. k \notin classes
      BY <1>13
    <3>4. H[b].size < a
      BY <1>12, <3>1, <3>2, <3>3
    <3>5. k \in Bins
      BY <1>2
    <3>6. H[b].size \in Nat
      BY <1>8, <3>1, <3>5
    <3> QED
      BY <3>1, <3>4, <3>6
  <2> QED
    BY <2>1, <2>2
<1>14. CASE ~ (a = 16 /\ h.mini_list # 0) /\ classes # {}
  <2>1. classes \subseteq Nat
    BY <1>3
  <2>2. class \in classes /\ \A y \in classes : class <= y
    <3> HIDE DEF classes
    <3> QED
      BY <1>14, <2>1, MinIn
  <2>3. f = better_fit(h, seg_chain(h, class), fits(class))
    BY <1>4, <1>14
  <2>4. class \in find_class(a) .. 13 /\ fits(class) # {} /\ class \in Nat
    <3> HIDE DEF class
    <3> QED
      BY <1>3, <2>2
  <2> HIDE DEF class
  <2>5. class \in Classes /\ class \in L /\ class \in Bins /\ class # -1
    BY <1>2, <1>3, <2>4, Consts DEF Bins
  <2> DEFINE list == seg_chain(h, class)
             F == fits(class)
  <2>6. /\ Len(list) \in Nat /\ F \subseteq 1 .. Len(list)
        /\ \A i \in F : list[i] \in Fitting(H, B[class], a)
    BY <1>1, <2>5, FitsIn
  <2>7. F # {} /\ f = better_fit(h, list, F)
    BY <2>3, <2>4
  <2> HIDE DEF F, list
  <2>8. PICK i \in F : f = list[i]
    <3> DEFINE n == Len(list)
    <3>1. n \in Nat /\ F \subseteq 1 .. n
      BY <2>6
    <3> HIDE DEF n
    <3> QED
      BY ONLY <2>7, <3>1, BetterFits
  <2>9. f \in B[class] /\ a <= H[f].size
    BY <2>6, <2>8 DEF Fitting
  <2>10. f \in DOMAIN H /\ f # 0
    BY <1>8, <2>5, <2>9
  <2>11. ASSUME NEW j \in L, j < class, NEW c \in B[j]
         PROVE  H[c].size < a
    <3>1. j # -1
      BY <1>10, <1>14, <2>11
    <3>2. j \notin classes
      <4>1. ASSUME j \in classes
            PROVE  FALSE
        <5>1. class <= j /\ j \in Nat
          BY <2>1, <2>2, <4>1
        <5> QED
          BY <2>4, <2>11, <5>1
      <4> QED
        BY <4>1
    <3> QED
      BY <1>12, <2>11, <3>1, <3>2
  <2> HIDE DEF classes
  <2> QED
    BY <1>5, <2>5, <2>9, <2>10, <2>11
<1> QED
  BY <1>9, <1>13, <1>14

-----------------------------------------------------------------------------
(***************************************************************************)
(* The words of h show the blocks of g, or there is no heap yet.           *)
(***************************************************************************)
Stands(h, g) ==
  \/ /\ h \in HeapRec /\ h.heap_start = 0 /\ h.brk = 0 /\ g = BH!EmptyHeap
     /\ \A k \in Bins : HeadOf(h, k) = 0
  \/ BH!WF(g, {}) /\ Shows(h, g)

(***************************************************************************)
(* In both cases g is a heap the block-level lemmas speak of.              *)
(***************************************************************************)
LEMMA StandsGood ==
  ASSUME NEW h, NEW g, Stands(h, g)
  PROVE  BH!Good(g)
BY DEF Stands, BH!Good

(***************************************************************************)
(* The larger of two numbers.                                              *)
(***************************************************************************)
LEMMA MaxOfTwo ==
  ASSUME NEW a \in Nat, NEW c \in Nat
  PROVE  Max({a, c}) = IF a > c THEN a ELSE c
<1> DEFINE S == {a, c}
           m == IF a > c THEN a ELSE c
<1>1. m \in S /\ \A y \in S : m >= y
  OBVIOUS
<1>2. \A x \in S : (\A y \in S : x >= y) => x = m
  OBVIOUS
<1> HIDE DEF S, m
<1>3. Max(S) = m
  BY <1>1, <1>2 DEF Max
<1> QED
  BY <1>3 DEF S, m

(***************************************************************************)
(* The smaller of two numbers.                                             *)
(***************************************************************************)
LEMMA MinOfTwo ==
  ASSUME NEW a \in Nat, NEW c \in Nat
  PROVE  Min({a, c}) = IF a < c THEN a ELSE c
<1> DEFINE S == {a, c}
           m == IF a < c THEN a ELSE c
<1>1. m \in S /\ \A y \in S : m <= y
  OBVIOUS
<1>2. \A x \in S : (\A y \in S : x <= y) => x = m
  OBVIOUS
<1> HIDE DEF S, m
<1>3. Min(S) = m
  BY <1>1, <1>2 DEF Min
<1> QED
  BY <1>3 DEF S, m

(***************************************************************************)
(* The first lines of malloc: mm_init when there is no heap.               *)
(***************************************************************************)
LEMMA Initialised ==
  ASSUME NEW h, NEW g, Stands(h, g), NEW i,
         i = IF h.heap_start = NULL THEN mm_init(h) ELSE [h |-> h, ok |-> TRUE]
  PROVE  /\ Shows(i.h, BH!initialised(g)) /\ (i.ok <=> ~ BH!init_fails(g))
         /\ BH!WF(BH!initialised(g), {}) /\ Keeps(i.h, h, BH!Used(g))
         /\ BH!Used(BH!initialised(g)) = BH!Used(g)
<1>1. CASE h \in HeapRec /\ h.heap_start = 0 /\ h.brk = 0 /\ g = BH!EmptyHeap
  <2>1. i = mm_init(h)
    BY <1>1, Consts
  <2>2. g.brk = 0 /\ BH!Used(g) = {}
    BY <1>1, Premises, BH!EmptyHeapFacts
  <2> DEFINE q == BH!mm_init(g)
  <2>3. Shows(i.h, q.hp) /\ (i.ok <=> q.block # 0)
    BY <1>1, <2>1, InitShows
  <2>4. BH!initialised(g) = q.hp /\ (BH!init_fails(g) <=> q.block = 0)
    BY <2>2, Bridge DEF BH!initialised, BH!init_fails
  <2>5. BH!WF(q.hp, {}) /\ BH!Used(q.hp) = {}
    BY Premises, BH!MmInit
  <2> HIDE DEF q
  <2> QED
    BY <2>2, <2>3, <2>4, <2>5 DEF Keeps
<1>2. CASE BH!WF(g, {}) /\ Shows(h, g)
  <2>1. h.heap_start = 8
    BY <1>2 DEF Shows, Rep
  <2>2. i = [h |-> h, ok |-> TRUE]
    BY <2>1, Consts
  <2>3. g.brk # 0
    BY <1>2, TilingOf
  <2>4. BH!initialised(g) = g /\ ~ BH!init_fails(g)
    BY <2>3 DEF BH!initialised, BH!init_fails
  <2> QED
    BY <1>2, <2>2, <2>4 DEF Keeps
<1> QED
  BY <1>1, <1>2 DEF Stands

(***************************************************************************)
(* What a fitting block is at the block level.                             *)
(***************************************************************************)
LEMMA FitTakes ==
  ASSUME NEW g, BH!WF(g, {}), NEW a, NEW f \in BH!find_fit(g, a)
  PROVE  f \in DOMAIN g.hdr /\ ~ g.hdr[f].alloc /\ a <= g.hdr[f].size
<1>1. f \in DOMAIN g.hdr /\ a <= g.hdr[f].size /\ \E k \in BH!Searched(a) : f \in g.bins[k]
  BY DEF BH!find_fit
<1>2. PICK k \in Bins : f \in g.bins[k]
  BY <1>1, BridgeSearch
<1>3. Node(g.hdr, k, f)
  BY <1>2, BinsOf DEF Binny
<1> QED
  BY <1>1, <1>3 DEF Node

(***************************************************************************)
(* The result of malloc on the words is one of the results BlockHeap       *)
(* allows, with the payload in use kept.                                   *)
(***************************************************************************)
MallocShown(m, h, g, size) ==
  \E n \in BH!malloc(g, size) :
    Shows(m.h, n.hp) /\ m.bp = n.bp /\ Keeps(m.h, h, BH!Used(g))

(***************************************************************************)
(* malloc on every path (no heap yet, size 0, a fit, an extension, out of  *)
(* memory) follows BlockHeap's.                                            *)
(***************************************************************************)
LEMMA MallocShows ==
  ASSUME NEW h, NEW g, Stands(h, g), NEW size, BH!FitsWord(size), NEW m, m = malloc(h, size)
  PROVE  MallocShown(m, h, g, size)
<1> DEFINE i == IF h.heap_start = NULL THEN mm_init(h) ELSE [h |-> h, ok |-> TRUE]
           g1 == BH!initialised(g)
           a == adjusted_size(size)
           v == i.h
<1>1. i = IF h.heap_start = NULL THEN mm_init(h) ELSE [h |-> h, ok |-> TRUE]
  OBVIOUS
<1>2. m = malloc_after_init(i, size, a)
  BY DEF malloc
<1> HIDE DEF i
<1>3. /\ Shows(v, g1) /\ (i.ok <=> ~ BH!init_fails(g)) /\ BH!WF(g1, {})
      /\ Keeps(v, h, BH!Used(g)) /\ BH!Used(g1) = BH!Used(g)
  BY <1>1, Initialised
<1> HIDE DEF v, g1
<1> DEFINE x == IF a > chunksize THEN a ELSE chunksize
           q == BH!extend_heap(g1, x)
<1>4. BH!malloc(g, size) =
        IF BH!init_fails(g) \/ size = 0 THEN {[hp |-> g1, bp |-> 0]}
        ELSE IF BH!find_fit(g1, a) # {}
        THEN {[hp |-> BH!place(g1, b, a), bp |-> b + 8] : b \in BH!find_fit(g1, a)}
        ELSE IF q.block = 0 THEN {[hp |-> g1, bp |-> 0]}
        ELSE {[hp |-> BH!place(q.hp, q.block, a), bp |-> q.block + 8]}
  BY Bridge, BridgeRound DEF BH!malloc, g1
<1>5. CASE ~ i.ok \/ size = 0
  <2>1. m = [h |-> v, bp |-> 0]
    BY <1>2, <1>5, Consts DEF malloc_after_init, v
  <2>2. [hp |-> g1, bp |-> 0] \in BH!malloc(g, size)
    BY <1>3, <1>4, <1>5
  <2> DEFINE n == [hp |-> g1, bp |-> 0]
  <2>3. m.h = v /\ m.bp = 0 /\ n.hp = g1 /\ n.bp = 0
    BY <2>1
  <2> QED
    BY <1>3, <2>2, <2>3 DEF MallocShown
<1>6. CASE i.ok /\ size # 0
  <2> DEFINE f == find_fit(v, a)
             got == fit_or_extend(v, a, f)
  <2>0. m = place_if_found(got, a)
    BY <1>2, <1>6 DEF malloc_after_init, v
  <2>1. a \in Nat /\ a % 16 = 0 /\ a >= 16 /\ a + 16 <= SIZE_MOD
    BY <1>6, Premises, BH!AdjustedSize, BridgeRound
  <2>2. (f = 0 /\ BH!find_fit(g1, a) = {}) \/ (f # 0 /\ f \in BH!find_fit(g1, a))
    <3> HIDE DEF a
    <3> QED
      BY <1>3, <2>1, FindFit
  <2> HIDE DEF a, f
  <2>3. CASE f # 0
    <3>1. f \in BH!find_fit(g1, a)
      BY <2>2, <2>3
    <3>2. f \in DOMAIN g1.hdr /\ ~ g1.hdr[f].alloc /\ a <= g1.hdr[f].size
      BY <1>3, <3>1, FitTakes
    <3>3. m = [h |-> place(v, f, a), bp |-> f + 8]
      BY <2>0, <2>3, Consts DEF fit_or_extend, place_if_found, header_to_payload
    <3> DEFINE n == [hp |-> BH!place(g1, f, a), bp |-> f + 8]
    <3>4. n \in BH!malloc(g, size)
      BY <1>3, <1>4, <1>6, <3>1
    <3>5. Shows(m.h, n.hp) /\ Keeps(m.h, v, BH!Used(g1))
      <4> DEFINE w == m.h
                 t == n.hp
      <4>1. w = place(v, f, a) /\ t = BH!place(g1, f, a)
        BY <3>3
      <4> HIDE DEF w, t
      <4>2. Shows(w, t) /\ Keeps(w, v, BH!Used(g1))
        BY <1>3, <2>1, <3>2, <4>1, PlaceShows
      <4> QED
        BY <4>2 DEF w, t
    <3>6. Keeps(m.h, h, BH!Used(g))
      <4> DEFINE w == m.h
      <4> HIDE DEF w
      <4>1. Keeps(w, v, BH!Used(g))
        BY <1>3, <3>5 DEF w
      <4>2. Keeps(w, h, BH!Used(g))
        BY <1>3, <4>1, KeepsAgain
      <4> QED
        BY <4>2 DEF w
    <3>7. m.bp = n.bp
      BY <3>3
    <3> QED
      BY <3>4, <3>5, <3>6, <3>7 DEF MallocShown
  <2>4. CASE f = 0
    <3> DEFINE ex == extend_heap(v, x)
    <3>1. /\ x = Max({a, chunksize}) /\ x \in Nat /\ x % 16 = 0
          /\ x >= 16 /\ x + 16 <= SIZE_MOD /\ x >= a
      BY <2>1, MaxOfTwo, Consts
    <3>2. m = place_if_found(ex, a)
      BY <2>0, <2>4, <3>1, Consts DEF fit_or_extend
    <3>3. ex = extend_heap(v, x) /\ q = BH!extend_heap(g1, x)
      OBVIOUS
    <3> HIDE DEF ex, q, x
    <3>4. Shows(ex.h, q.hp) /\ ex.block = q.block /\ Keeps(ex.h, v, BH!Used(g1))
      BY ONLY <1>3, <3>1, <3>3, ExtendShows
    <3>5. \/ q.hp = g1 /\ q.block = 0
          \/ /\ BH!WF(q.hp, {}) /\ BH!Used(q.hp) = BH!Used(g1)
             /\ q.block \in DOMAIN q.hp.hdr /\ ~ q.hp.hdr[q.block].alloc
             /\ q.hp.hdr[q.block].size >= x
      BY <1>3, <3>1, <3>3, Premises, BH!Extend, Bridge
    <3>6. BH!find_fit(g1, a) = {}
      BY <2>2, <2>4
    <3> DEFINE y == ex.h
    <3>7. Keeps(y, h, BH!Used(g)) /\ Shows(y, q.hp)
      <4>1. Keeps(y, v, BH!Used(g))
        BY <1>3, <3>4
      <4> HIDE DEF y
      <4> QED
        BY <1>3, <3>4, <4>1, KeepsAgain DEF y
    <3>8. CASE q.block = 0
      <4>1. q.hp = g1
        <5>1. ASSUME BH!WF(q.hp, {}), q.block \in DOMAIN q.hp.hdr
              PROVE  FALSE
          BY <3>8, <5>1, TilingOf, HeaderFacts
        <5> QED
          BY <3>5, <5>1
      <4>2. m = [h |-> y, bp |-> 0]
        BY <3>2, <3>4, <3>8, Consts DEF place_if_found
      <4> DEFINE n == [hp |-> g1, bp |-> 0]
      <4>3. n \in BH!malloc(g, size)
        BY <1>3, <1>4, <1>6, <3>6, <3>8
      <4> HIDE DEF y
      <4>4. m.h = y /\ m.bp = 0 /\ n.hp = g1 /\ n.bp = 0
        BY <4>2
      <4> QED
        BY <3>7, <4>1, <4>3, <4>4 DEF MallocShown
    <3>9. CASE q.block # 0
      <4> DEFINE b == q.block
                 p == q.hp
                 n == [hp |-> BH!place(p, b, a), bp |-> b + 8]
      <4>1. /\ BH!WF(p, {}) /\ BH!Used(p) = BH!Used(g) /\ b \in DOMAIN p.hdr /\ ~ p.hdr[b].alloc
            /\ p.hdr[b].size >= x
        BY <1>3, <3>5, <3>9
      <4>2. a <= p.hdr[b].size
        <5>1. p.hdr[b].size \in Nat
          BY <4>1, TilingOf, SizeBound
        <5> QED
          BY <2>1, <3>1, <4>1, <5>1
      <4>3. m = [h |-> place(y, b, a), bp |-> b + 8]
        BY <3>2, <3>4, <3>9, Consts DEF place_if_found, header_to_payload
      <4>4. n \in BH!malloc(g, size)
        BY <1>3, <1>4, <1>6, <3>6, <3>9
      <4> DEFINE w == m.h
                 t == n.hp
      <4>5. w = place(y, b, a) /\ t = BH!place(p, b, a) /\ Shows(y, p) /\ Keeps(y, h, BH!Used(p))
            /\ m.bp = n.bp
        BY <3>7, <4>1, <4>3
      <4> HIDE DEF w, t, b, p, y, n
      <4>6. Shows(w, t) /\ Keeps(w, y, BH!Used(p))
        BY ONLY <2>1, <4>1, <4>2, <4>5, PlaceShows
      <4>7. Keeps(w, h, BH!Used(g))
        BY <4>1, <4>5, <4>6, KeepsAgain
      <4> QED
        BY <4>4, <4>5, <4>6, <4>7 DEF MallocShown, w, t
    <3> QED
      BY <3>8, <3>9
  <2> QED
    BY <2>3, <2>4
<1> QED
  BY <1>5, <1>6

-----------------------------------------------------------------------------
(***************************************************************************)
(* memset writes its range.                                                *)
(***************************************************************************)
LEMMA MemsetFact ==
  ASSUME NEW h \in HeapRec, NEW bp, NEW n, NEW w \in Words, NEW u, u = memset(h, bp, n, w)
  PROVE  Touched(u, h, Span(bp, n)) /\ \A x \in Span(bp, n) : u.mem[x] = w
<1> DEFINE S == Span(bp, n)
           M == [x \in Addrs |-> IF x \in S THEN w ELSE h.mem[x]]
<1>1. S \subseteq Addrs
  BY DEF Span
<1>2. u = [h EXCEPT !.mem = M]
  BY DEF memset
<1> HIDE DEF S
<1>3. M \in [Addrs -> Words]
  <2>1. \A x \in Addrs : h.mem[x] \in Words
    BY WordFact
  <2> QED
    BY <2>1
<1>4. \A x \in Addrs : M[x] = IF x \in S THEN w ELSE h.mem[x]
  OBVIOUS
<1> HIDE DEF M
<1>5. u \in HeapRec /\ SameGlobals(u, h) /\ u.mem = M
  BY <1>2, <1>3 DEF HeapRec, SameGlobals
<1> QED
  BY <1>1, <1>4, <1>5 DEF Touched, S

(***************************************************************************)
(* memcpy copies its range.                                                *)
(***************************************************************************)
LEMMA MemcpyFact ==
  ASSUME NEW h \in HeapRec, NEW dst, NEW src, NEW n, NEW u, u = memcpy(h, dst, src, n)
  PROVE  Touched(u, h, Span(dst, n)) /\ \A x \in Span(dst, n) : u.mem[x] = Word(h, src + (x - dst))
<1> DEFINE S == Span(dst, n)
           M == [x \in Addrs |-> IF x \in S THEN Word(h, src + (x - dst)) ELSE h.mem[x]]
<1>1. S \subseteq Addrs
  BY DEF Span
<1>2. u = [h EXCEPT !.mem = M]
  BY DEF memcpy
<1> HIDE DEF S
<1>3. M \in [Addrs -> Words]
  <2>1. \A x \in Addrs : h.mem[x] \in Words
    BY WordFact
  <2>2. \A y : Word(h, y) \in Words
    <3>1. \A y : y \in DOMAIN h.mem => h.mem[y] \in Words
      BY DEF HeapRec
    <3>2. 0 \in Words
      BY Consts DEF Words
    <3> QED
      BY <3>1, <3>2 DEF Word
  <2> QED
    BY <2>1, <2>2
<1>4. \A x \in Addrs : M[x] = IF x \in S THEN Word(h, src + (x - dst)) ELSE h.mem[x]
  OBVIOUS
<1> HIDE DEF M
<1>5. u \in HeapRec /\ SameGlobals(u, h) /\ u.mem = M
  BY <1>2, <1>3 DEF HeapRec, SameGlobals
<1> QED
  BY <1>1, <1>4, <1>5 DEF Touched, S

(***************************************************************************)
(* Writes to payload in use change no tag and no link.                     *)
(***************************************************************************)
LEMMA DataRep ==
  ASSUME NEW H, NEW e, Tiling(H, e), NEW B, Binny(H, B), NEW h, Rep(h, H, B), NEW u, NEW W,
         Touched(u, h, W), \A x \in W : InUse(H, e, x)
  PROVE  Rep(u, H, B)
<1>1. u \in HeapRec /\ SameGlobals(u, h) /\ \A x \in Addrs : ~ InUse(H, e, x) => u.mem[x] = h.mem[x]
  BY DEF Touched
<1>2. /\ h \in HeapRec /\ h.heap_start = 8 /\ h.mem[0] = Pack(Prologue)
      /\ Tags(h, H) /\ \A k \in Bins : ListRep(h, k, B[k])
  BY DEF Rep
<1>3. u.mem[0] = Pack(Prologue)
  <2>1. ~ InUse(H, e, 0)
    <3>1. \A c \in DOMAIN H : c \in Nat
      BY HeaderFacts
    <3>2. \A c \in DOMAIN H : ~ (c < 0)
      BY <3>1
    <3> QED
      BY <3>2 DEF InUse
  <2> QED
    BY <1>1, <1>2, <2>1, ZeroAddr
<1>4. Tags(u, H)
  <2> SUFFICES ASSUME NEW d \in DOMAIN H
               PROVE  Tag(u.mem, d, H[d])
    BY DEF Tags
  <2>1. Tag(h.mem, d, H[d])
    BY <1>2 DEF Tags
  <2>2. \A x \in TagWords(d, H[d]) : u.mem[x] = h.mem[x]
    BY <1>1, TagClear
  <2>3. d \in TagWords(d, H[d])
        /\ (~ H[d].alloc /\ H[d].size # 16 => d + H[d].size - 8 \in TagWords(d, H[d]))
    BY DEF TagWords
  <2> QED
    BY <2>1, <2>2, <2>3 DEF Tag
<1>5. ASSUME NEW k \in Bins
      PROVE  ListRep(u, k, B[k])
  <2>1. Nodes(H, k, B[k]) /\ NodesOK(B[k], k)
    BY NodesFacts DEF Binny, Nodes
  <2>2. HeadOf(u, k) = HeadOf(h, k)
    BY <1>1 DEF HeadOf, SameGlobals
  <2>3. ASSUME NEW c \in B[k]
        PROVE  u.mem[c + 8] = h.mem[c + 8] /\ u.mem[c + LinkOff(k)] = h.mem[c + LinkOff(k)]
    <3>1. c + 8 \in Addrs /\ c + LinkOff(k) \in Addrs
      BY <2>1 DEF NodesOK
    <3>2. IsLink(k, c, c + 8) /\ IsLink(k, c, c + LinkOff(k))
      BY DEF IsLink, LinkOff
    <3>3. ~ InUse(H, e, c + 8) /\ ~ InUse(H, e, c + LinkOff(k))
      BY <2>1, <3>2, LinkClear DEF Nodes
    <3> QED
      BY <1>1, <3>1, <3>3
  <2> QED
    BY <1>1, <1>2, <2>1, <2>2, <2>3, ListFrame
<1> QED
  BY <1>1, <1>2, <1>3, <1>4, <1>5 DEF Rep, SameGlobals

(***************************************************************************)
(* The payload words of a block in use.                                    *)
(***************************************************************************)
Body(v) == {x \in Addrs : v.block < x /\ x < v.block + v.size}

(***************************************************************************)
(* Two blocks in use share no payload word.                                *)
(***************************************************************************)
LEMMA BodyApart ==
  ASSUME NEW g, BH!WF(g, {}), NEW v \in BH!Used(g), NEW w \in BH!Used(g), v # w,
         NEW x \in Body(v)
  PROVE  x \notin Body(w)
<1>1. /\ v.block \in Nat /\ v.size \in Nat /\ w.block \in Nat /\ w.size \in Nat
      /\ v.block < w.block => v.block + v.size <= w.block
      /\ w.block < v.block => w.block + w.size <= v.block
  BY Premises, BH!UsedApart
<1>2. v.block # w.block
  BY Premises, BH!UsedOnce
<1>3. x \in Nat
  BY AddrFact DEF Body
<1> QED
  BY <1>1, <1>2, <1>3 DEF Body

(***************************************************************************)
(* What a client writes into its block changes nothing else.               *)
(***************************************************************************)
LEMMA FillShows ==
  ASSUME NEW g, BH!WF(g, {}), NEW h, Shows(h, g), NEW v \in BH!Used(g), NEW W, W \subseteq Body(v),
         NEW u, Touched(u, h, W)
  PROVE  Shows(u, g) /\ Keeps(u, h, BH!Used(g) \ {v})
<1> DEFINE H == g.hdr
           e == g.brk - 8
<1>1. Tiling(H, e) /\ Binny(H, g.bins)
  BY TilingOf, BinsOf
<1>2. PICK c \in DOMAIN H : c # e /\ H[c].alloc /\ v = BH!Entry(c, H[c].size)
  BY BridgeHeap DEF BH!Used
<1>3. v.block = c /\ v.size = H[c].size
  BY <1>2 DEF BH!Entry
<1>4. \A x \in W : InUse(H, e, x)
  BY <1>2, <1>3 DEF InUse, Body
<1>5. Shows(u, g)
  <2>1. Rep(h, H, g.bins) /\ h.brk = g.brk
    BY DEF Shows
  <2> HIDE DEF H, e
  <2>2. Rep(u, H, g.bins)
    BY <1>1, <1>4, <2>1, DataRep
  <2>3. u.brk = g.brk
    BY <2>1 DEF Touched, SameGlobals
  <2> QED
    BY <2>2, <2>3 DEF Shows, H
<1>6. ASSUME NEW x \in Addrs, NEW w \in BH!Used(g) \ {v}, w.block < x, x < w.block + w.size
      PROVE  u.mem[x] = h.mem[x]
  <2>1. x \in Body(w)
    BY <1>6 DEF Body
  <2>2. x \notin Body(v)
    BY <1>6, <2>1, BodyApart
  <2> QED
    BY <1>6, <2>2 DEF Touched
<1> QED
  BY <1>5, <1>6 DEF Keeps

-----------------------------------------------------------------------------
(***************************************************************************)
(* What the client remembers of a block: pointer, size, and the value it   *)
(* filled it with.                                                         *)
(***************************************************************************)
Records == [ptr : Nat, size : Nat, fill : Words]

(***************************************************************************)
(* The block still holds that value.                                       *)
(***************************************************************************)
Data(h, r) == \A x \in Span(r.ptr, r.size) : h.mem[x] = r.fill

(***************************************************************************)
(* The client's records are the blocks in use, one record each, and every  *)
(* block holds what the client wrote.                                      *)
(***************************************************************************)
Client(h, L, U) ==
  /\ L \subseteq Records /\ IsFiniteSet(L) /\ BH!Owns(L, U)
  /\ \A r \in L : Data(h, r)

(***************************************************************************)
(* A range inside a block is payload of that block.                        *)
(***************************************************************************)
LEMMA SpanBody ==
  ASSUME NEW v, v.block \in Nat, v.size \in Nat, NEW p, p = v.block + 8, NEW i \in Nat,
         NEW n \in Int, i + n + 8 <= v.size
  PROVE  Span(p + i, n) \subseteq Body(v)
<1> SUFFICES ASSUME NEW x \in Span(p + i, n)
             PROVE  x \in Body(v)
  OBVIOUS
<1>1. x \in Addrs /\ x \in Nat /\ p + i <= x /\ x < p + i + n
  BY AddrFact DEF Span
<1> DEFINE b == v.block
           s == v.size
<1>2. b \in Nat /\ s \in Nat /\ p = b + 8 /\ i + n + 8 <= s
  OBVIOUS
<1> HIDE DEF b, s
<1>3. b < x /\ x < b + s
  BY <1>1, <1>2
<1> QED
  BY <1>1, <1>3 DEF Body, b, s

(***************************************************************************)
(* Every record of the client is backed by a block in use that is large    *)
(* enough.                                                                 *)
(***************************************************************************)
LEMMA OwnerOf ==
  ASSUME NEW h, NEW L, NEW g, BH!Good(g), Client(h, L, BH!Used(g)), NEW r \in L
  PROVE  \E v \in BH!Used(g) :
           /\ r.ptr = v.block + 8 /\ 0 < r.size /\ r.size + 8 <= v.size
           /\ r.ptr \in Nat /\ r.ptr # 0
           /\ r.size \in Nat /\ r.fill \in Words /\ v.block \in Nat /\ v.size \in Nat
           /\ v.block % 16 = 8 /\ BH!WF(g, {}) /\ Span(r.ptr, r.size) \subseteq Body(v)
<1>1. PICK v \in BH!Used(g) : r.ptr = v.block + 8 /\ 0 < r.size /\ r.size + 8 <= v.size
  BY Bridge DEF Client, BH!Owns
<1>2. r.ptr \in Nat /\ r.size \in Nat /\ r.fill \in Words
  BY DEF Client, Records
<1>3. BH!WF(g, {})
  BY <1>1, Premises, BH!EmptyHeapFacts DEF BH!Good
<1>4. v.block \in Nat /\ v.size \in Nat /\ v.block % 16 = 8 /\ v.block >= 8
  BY <1>3, Premises, BH!UsedApart
<1>5. Span(r.ptr + 0, r.size) \subseteq Body(v)
  <2> DEFINE n == r.size
             p == r.ptr
  <2>1. p = v.block + 8 /\ n \in Int /\ 0 + n + 8 <= v.size
    BY <1>1, <1>2
  <2> HIDE DEF n, p
  <2>2. Span(p + 0, n) \subseteq Body(v)
    BY <1>4, <2>1, SpanBody
  <2> QED
    BY <2>2 DEF n, p
<1>6. r.ptr + 0 = r.ptr /\ r.ptr # 0
  BY <1>1, <1>2, <1>4
<1> QED
  BY <1>1, <1>2, <1>3, <1>4, <1>5, <1>6

(***************************************************************************)
(* Data in kept payload is kept.                                           *)
(***************************************************************************)
LEMMA DataKept ==
  ASSUME NEW h, NEW u, NEW U, Keeps(u, h, U), NEW v \in U, NEW r, Data(h, r),
         Span(r.ptr, r.size) \subseteq Body(v)
  PROVE  Data(u, r)
BY DEF Data, Keeps, Body

(***************************************************************************)
(* A step that keeps the payload in use keeps the client's data.           *)
(***************************************************************************)
LEMMA ClientKeeps ==
  ASSUME NEW h, NEW L, NEW g, BH!Good(g), Client(h, L, BH!Used(g)), NEW u, Keeps(u, h, BH!Used(g))
  PROVE  Client(u, L, BH!Used(g))
<1>1. ASSUME NEW r \in L
      PROVE  Data(u, r)
  <2>1. PICK v \in BH!Used(g) : Span(r.ptr, r.size) \subseteq Body(v)
    BY OwnerOf
  <2>2. Data(h, r)
    BY DEF Client
  <2> QED
    BY <2>1, <2>2, DataKept
<1> QED
  BY <1>1 DEF Client

(***************************************************************************)
(* The client with one block more.                                         *)
(***************************************************************************)
LEMMA ClientAdd ==
  ASSUME NEW h, NEW L, NEW U, Client(h, L, U), NEW b \in Nat, NEW n \in Nat, NEW size \in Nat,
         NEW fill \in Words, 0 < size, size + 8 <= n, \A v \in U : v.block # b,
         \A v \in U : v.block \in Nat, NEW r, r = Held(b + 8, size, fill), Data(h, r),
         NEW y, y = BH!Entry(b, n)
  PROVE  Client(h, L \cup {r}, U \cup {y})
<1>1. r.ptr = b + 8 /\ r.size = size /\ r.fill = fill /\ y.block = b /\ y.size = n
  BY DEF Held, BH!Entry
<1>2. r \in Records
  BY DEF Held, Records
<1>3. L \subseteq Records /\ IsFiniteSet(L) /\ BH!Owns(L, U) /\ \A s \in L : Data(h, s)
  BY DEF Client
<1>4. IsFiniteSet(L \cup {r})
  BY <1>3, FS_AddElement
<1>5. \A s \in L : \E u \in U :
        s.ptr = u.block + 8 /\ 0 < s.size /\ s.size + 8 <= u.size
  BY <1>3, Bridge DEF BH!Owns
<1>6. \A u \in U : \E s \in L : s.ptr = u.block + 8
  BY <1>3, Bridge DEF BH!Owns
<1>7. \A s, t \in L : s.ptr = t.ptr => s = t
  BY <1>3 DEF BH!Owns
<1>8. \A s \in L : s.ptr # r.ptr
  BY <1>1, <1>5
<1>9. \A s \in L \cup {r} : \E u \in U \cup {y} :
        s.ptr = u.block + 8 /\ 0 < s.size /\ s.size + 8 <= u.size
  BY <1>1, <1>5
<1>10. \A u \in U \cup {y} : \E s \in L \cup {r} : s.ptr = u.block + 8
  BY <1>1, <1>6
<1>11. \A s, t \in L \cup {r} : s.ptr = t.ptr => s = t
  BY <1>7, <1>8
<1>12. BH!Owns(L \cup {r}, U \cup {y})
  BY <1>9, <1>10, <1>11, Bridge DEF BH!Owns
<1> QED
  BY <1>2, <1>3, <1>4, <1>12 DEF Client

(***************************************************************************)
(* The client with one block less.                                         *)
(***************************************************************************)
LEMMA ClientRemove ==
  ASSUME NEW h, NEW L, NEW g, BH!Good(g), Client(h, L, BH!Used(g)), NEW r \in L,
         NEW v \in BH!Used(g), r.ptr = v.block + 8, NEW u, Keeps(u, h, BH!Used(g) \ {v})
  PROVE  Client(u, L \ {r}, BH!Used(g) \ {v})
<1> DEFINE U == BH!Used(g)
<1>1. L \subseteq Records /\ IsFiniteSet(L) /\ BH!Owns(L, U) /\ \A s \in L : Data(h, s)
  BY DEF Client
<1>2. IsFiniteSet(L \ {r})
  BY <1>1, FS_RemoveElement
<1>3. BH!WF(g, {})
  BY OwnerOf
<1>4. (\A x \in U : x.block \in Nat) /\ (\A x, y \in U : x.block = y.block => x = y)
  BY <1>3, Premises, BH!UsedApart, BH!UsedOnce
<1>5. BH!Owns(L \ {r}, U \ {v})
  <2> HIDE DEF U
  <2>1. v \in U /\ r.ptr = v.block + BH!wsize
    BY Bridge DEF U
  <2> QED
    BY <1>1, <1>4, <2>1, Premises, BH!OwnsRemove
<1>6. ASSUME NEW s \in L \ {r}
      PROVE  Data(u, s)
  <2>1. PICK w \in U : s.ptr = w.block + 8 /\ Span(s.ptr, s.size) \subseteq Body(w)
    BY <1>6, OwnerOf
  <2>2. s.ptr # r.ptr
    BY <1>1, <1>6 DEF BH!Owns
  <2>3. w # v
    BY <2>1, <2>2
  <2>4. Data(h, s)
    BY <1>1
  <2> QED
    BY <2>1, <2>3, <2>4, DataKept
<1> QED
  BY <1>1, <1>2, <1>5, <1>6 DEF Client

-----------------------------------------------------------------------------
(***************************************************************************)
(* malloc's result: one block more in use, large enough, and new.          *)
(***************************************************************************)
New(g1, g, bp, size, b, k) ==
  /\ bp = b + 8 /\ 0 < size /\ size + 8 <= k
  /\ BH!Used(g1) = BH!Used(g) \cup {BH!Entry(b, k)}
  /\ \A v \in BH!Used(g) : v.block # b

(***************************************************************************)
(* The result m of malloc on the words, with the result n of BlockHeap's   *)
(* malloc it follows.                                                      *)
(***************************************************************************)
Got(m, n, h, g, size) ==
  /\ m.bp = n.bp /\ BH!WF(n.hp, {}) /\ Shows(m.h, n.hp) /\ Keeps(m.h, h, BH!Used(g))
  /\ m.bp = 0 => BH!Used(n.hp) = BH!Used(g)
  /\ m.bp # 0 => \E b, k \in Nat : New(n.hp, g, m.bp, size, b, k)

(***************************************************************************)
(* malloc delivers such a result.                                          *)
(***************************************************************************)
LEMMA Acquired ==
  ASSUME NEW h, NEW g, Stands(h, g), NEW size, BH!FitsWord(size), NEW m, m = malloc(h, size)
  PROVE  \E n \in BH!malloc(g, size) : Got(m, n, h, g, size)
<1>1. PICK n \in BH!malloc(g, size) :
        Shows(m.h, n.hp) /\ m.bp = n.bp /\ Keeps(m.h, h, BH!Used(g))
  BY MallocShows DEF MallocShown
<1>2. BH!Good(g)
  BY StandsGood
<1>3. /\ BH!WF(n.hp, {})
      /\ n.bp = 0 => BH!Used(n.hp) = BH!Used(g)
      /\ n.bp # 0 => \E b, k \in Nat : New(n.hp, g, n.bp, size, b, k)
  BY <1>2, Premises, Bridge, BH!MallocResult DEF New
<1> QED
  BY <1>1, <1>3 DEF Got

(***************************************************************************)
(* The entry of a new block, and what it does not disturb.                 *)
(***************************************************************************)
LEMMA NewEntry ==
  ASSUME NEW G, BH!WF(G, {}), NEW g, NEW p, NEW size \in Nat, NEW c \in Nat, NEW k \in Nat,
         New(G, g, p, size, c, k), NEW e, e = BH!Entry(c, k)
  PROVE  /\ e \in BH!Used(G) /\ BH!Used(g) \subseteq BH!Used(G) \ {e} /\ e.block = c /\ e.size = k
         /\ p % 16 = 0 /\ p \in Nat /\ p # 0
<1>1. e.block = c /\ e.size = k
  BY DEF BH!Entry
<1>2. e \in BH!Used(G) /\ BH!Used(g) \subseteq BH!Used(G) \ {e} /\ p = c + 8
  BY <1>1 DEF New
<1>3. c % 16 = 8
  BY <1>1, <1>2, Premises, BH!UsedApart
<1> QED
  BY <1>1, <1>2, <1>3

(***************************************************************************)
(* The client fills a new block and adds it to its records.                *)
(***************************************************************************)
LEMMA FillNew ==
  ASSUME NEW h, NEW L, NEW g, BH!Good(g), Client(h, L, BH!Used(g)), NEW m, NEW n,
         NEW size \in Nat, Got(m, n, h, g, size), m.bp # 0, NEW fill \in Words,
         NEW u, u = memset(m.h, m.bp, size, fill), NEW r, r = Held(m.bp, size, fill)
  PROVE  Shows(u, n.hp) /\ Client(u, L \cup {r}, BH!Used(n.hp))
<1> DEFINE g1 == n.hp
           v == m.h
           bp == m.bp
           U == BH!Used(g)
<1>1. BH!WF(g1, {}) /\ Shows(v, g1) /\ Keeps(v, h, U)
  BY DEF Got
<1>2. PICK b \in Nat, k \in Nat : New(g1, g, bp, size, b, k)
  BY DEF Got
<1> DEFINE y == BH!Entry(b, k)
<1> HIDE DEF g1, v, bp, y
<1>3. /\ y \in BH!Used(g1) /\ U \subseteq BH!Used(g1) \ {y} /\ y.block = b /\ y.size = k
  <2>1. y.block = b /\ y.size = k
    BY DEF y, BH!Entry
  <2>2. BH!Used(g1) = U \cup {y} /\ \A w \in U : w.block # b
    BY <1>2 DEF New, y
  <2> QED
    BY <2>1, <2>2
<1>4. /\ bp = b + 8 /\ 0 < size /\ size + 8 <= k /\ BH!Used(g1) = U \cup {y}
      /\ \A w \in U : w.block # b
  BY <1>2 DEF New, y
<1>5. Span(bp, size) \subseteq Body(y)
  <2>1. Span(bp + 0, size) \subseteq Body(y)
    <3>1. y.block \in Nat /\ y.size \in Nat /\ bp = y.block + 8 /\ 0 + size + 8 <= y.size
      BY <1>3, <1>4
    <3> QED
      BY <3>1, SpanBody
  <2>2. bp + 0 = bp
    BY <1>4
  <2> QED
    BY <2>1, <2>2
<1>6. Touched(u, v, Span(bp, size)) /\ \A x \in Span(bp, size) : u.mem[x] = fill
  <2>1. v \in HeapRec /\ u = memset(v, bp, size, fill)
    BY <1>1 DEF Shows, Rep, v, bp
  <2> QED
    BY <2>1, MemsetFact
<1>7. Shows(u, g1) /\ Keeps(u, v, BH!Used(g1) \ {y})
  BY <1>1, <1>3, <1>5, <1>6, FillShows
<1>8. Keeps(u, h, U)
  <2>1. Keeps(u, v, U)
    BY <1>3, <1>7, KeepsLess
  <2> QED
    BY <1>1, <2>1, KeepsAgain
<1>9. Client(u, L, U)
  BY <1>8, ClientKeeps
<1>10. r = Held(b + 8, size, fill) /\ Data(u, r)
  <2>1. r = Held(b + 8, size, fill)
    BY <1>4 DEF bp
  <2>2. r.ptr = bp /\ r.size = size /\ r.fill = fill
    BY <1>4, <2>1 DEF Held
  <2> QED
    BY <1>6, <2>1, <2>2 DEF Data
<1>11. \A w \in U : w.block \in Nat
  BY Premises, BH!UsedNat
<1>12. Client(u, L \cup {r}, U \cup {y})
  <2> HIDE DEF U
  <2>1. y = BH!Entry(b, k)
    BY DEF y
  <2> QED
    BY <1>4, <1>9, <1>10, <1>11, <2>1, ClientAdd
<1> QED
  BY <1>4, <1>7, <1>12 DEF g1

-----------------------------------------------------------------------------
(***************************************************************************)
(* free takes the block from the client and leaves the others' data.       *)
(***************************************************************************)
LEMMA FreeStep ==
  ASSUME NEW h, NEW L, NEW g, Stands(h, g), Client(h, L, BH!Used(g)), NEW r \in L,
         NEW u, u = free(h, r.ptr), NEW t, t = BH!free(g, r.ptr)
  PROVE  BH!WF(t, {}) /\ Shows(u, t) /\ Client(u, L \ {r}, BH!Used(t))
<1>1. BH!Good(g)
  BY StandsGood
<1>2. PICK v \in BH!Used(g) : r.ptr = v.block + 8 /\ BH!WF(g, {})
  BY <1>1, OwnerOf
<1>3. Shows(h, g)
  <2>1. g # BH!EmptyHeap
    BY <1>2, Premises, BH!EmptyHeapFacts
  <2> QED
    BY <2>1 DEF Stands
<1> DEFINE p == r.ptr
<1>4. p = v.block + 8 /\ u = free(h, p) /\ t = BH!free(g, p)
  BY <1>2
<1> HIDE DEF p
<1>5. Shows(u, t) /\ Keeps(u, h, BH!Used(g) \ {v})
  BY <1>2, <1>3, <1>4, FreeShows
<1>6. BH!WF(t, {}) /\ BH!Used(t) = BH!Used(g) \ {v}
  BY <1>2, <1>4, Premises, Bridge, BH!FreeBlock
<1>7. Client(u, L \ {r}, BH!Used(g) \ {v})
  BY <1>1, <1>2, <1>5, ClientRemove
<1> QED
  BY <1>5, <1>6, <1>7

(***************************************************************************)
(* The size that realloc keeps, in whole words.                            *)
(***************************************************************************)
LEMMA KeptSize ==
  ASSUME NEW x \in Nat, x + 24 <= SIZE_MOD, NEW k, k = round_up(x, wsize)
  PROVE  k \in Nat /\ k % 8 = 0 /\ x <= k /\ k < x + 8
<1>1. (x + 7) % SIZE_MOD = x + 7
  BY Consts
<1> DEFINE d == (x + 7) \div 8
<1>2. d \in Nat /\ 8 * d <= x + 7 /\ x + 7 < 8 * d + 8
  OBVIOUS
<1>3. k = (8 * d) % SIZE_MOD
  BY <1>1, Consts DEF round_up
<1> HIDE DEF d
<1>4. 8 * d \in Nat /\ 8 * d < SIZE_MOD
  BY <1>2, Consts
<1>5. k = 8 * d
  <2> DEFINE w == 8 * d
  <2>1. w \in Nat /\ w < SIZE_MOD
    BY <1>4
  <2> HIDE DEF w
  <2>2. w % SIZE_MOD = w
    BY <2>1, Consts
  <2> QED
    BY <1>3, <2>2 DEF w
<1> QED
  BY <1>2, <1>5

(***************************************************************************)
(* The header of a block in use.                                           *)
(***************************************************************************)
LEMMA UsedHeader ==
  ASSUME NEW g, BH!WF(g, {}), NEW h, Shows(h, g), NEW v \in BH!Used(g)
  PROVE  get_size(h, v.block) = v.size /\ get_alloc(h, v.block)
<1>1. PICK c \in DOMAIN g.hdr : g.hdr[c].alloc /\ v = BH!Entry(c, g.hdr[c].size)
  BY DEF BH!Used
<1>2. v.block = c /\ v.size = g.hdr[c].size
  BY <1>1 DEF BH!Entry
<1>3. HeaderRead(h, c, g.hdr[c])
  BY TilingOf, ReadHeader DEF Shows, Rep
<1> QED
  BY <1>1, <1>2, <1>3 DEF HeaderRead

(***************************************************************************)
(* The words of a moved block come from words of the old one.              *)
(***************************************************************************)
LEMMA Copied ==
  ASSUME NEW x \in Addrs, NEW bp \in Nat, bp % 16 = 0, bp <= x,
         NEW k \in Nat, k % 8 = 0, x < bp + k, NEW j \in Nat, k < j + 8,
         NEW p \in Nat, p % 8 = 0, NEW s \in Nat, j <= s, p + s <= MaxHeap,
         NEW z, z = p + (x - bp)
  PROVE  z \in Span(p, s) /\ z \in Addrs /\ x < bp + j
<1>1. x \in Nat /\ x % 8 = 0
  BY AddrFact
<1> DEFINE d == x - bp
<1>2. d \in Nat /\ d % 8 = 0 /\ d < k /\ x = bp + d
  BY <1>1
<1> HIDE DEF d
<1>3. d < j
  <2>1. d + 8 <= k
    BY <1>2
  <2> QED
    BY <1>2, <2>1
<1>4. z = p + d
  BY <1>2 DEF d
<1>5. z \in Nat /\ z % 8 = 0 /\ z < MaxHeap /\ p <= z /\ z < p + s
  BY <1>2, <1>3, <1>4, Consts
<1>6. z \in Addrs
  BY <1>5, AddrFact
<1> QED
  BY <1>2, <1>3, <1>5, <1>6 DEF Span

-----------------------------------------------------------------------------
(***************************************************************************)
(* realloc after its malloc has succeeded: the copy into the new block,    *)
(* the free of the old one and the client's fill leave the words showing   *)
(* the blocks, and every record holding its data, the moved one included.  *)
(***************************************************************************)
LEMMA MovedTo ==
  ASSUME NEW h, NEW L, NEW g, BH!WF(g, {}), Shows(h, g), Client(h, L, BH!Used(g)), NEW r \in L,
         NEW m, NEW n, NEW size \in Nat, BH!FitsWord(size), Got(m, n, h, g, size), m.bp # 0,
         NEW w, w = move(m, r.ptr, size), NEW k, k = round_up(Min({r.size, size}), wsize),
         NEW u, u = memset(w.h, m.bp + k, size - k, r.fill),
         NEW s, s = Held(m.bp, size, r.fill), NEW t, t = BH!free(n.hp, r.ptr)
  PROVE  /\ w.bp = m.bp /\ BH!WF(t, {}) /\ Shows(u, t)
         /\ Client(u, (L \ {r}) \cup {s}, BH!Used(t))
<1> DEFINE g1 == n.hp
           hm == m.h
           bp == m.bp
           U == BH!Used(g)
           p == r.ptr
           rs == r.size
           fill == r.fill
           j == IF rs < size THEN rs ELSE size
<1>0. BH!Good(g)
  BY DEF BH!Good
<1>1. BH!WF(g1, {}) /\ Shows(hm, g1) /\ Keeps(hm, h, U) /\ bp # 0
  BY DEF Got
<1>2. PICK b \in Nat, len \in Nat : New(g1, g, bp, size, b, len)
  BY DEF Got
<1>3. PICK v \in U : /\ p = v.block + 8 /\ 0 < rs /\ rs + 8 <= v.size /\ p \in Nat /\ p # 0
                     /\ rs \in Nat /\ fill \in Words /\ v.block \in Nat /\ v.size \in Nat
                     /\ v.block % 16 = 8 /\ Span(p, rs) \subseteq Body(v)
  BY <1>0, OwnerOf
<1> DEFINE y == BH!Entry(b, len)
<1>4. Data(h, r) /\ s = Held(bp, size, fill) /\ t = BH!free(g1, p) /\ w = move(m, p, size)
      /\ u = memset(w.h, bp + k, size - k, fill) /\ k = round_up(Min({rs, size}), wsize)
  BY DEF Client
<1>5. \A x \in Span(p, rs) : h.mem[x] = fill
  BY <1>4 DEF Data
<1> HIDE DEF g1, bp, p, rs, fill, y, U
<1>6. /\ y \in BH!Used(g1) /\ U \subseteq BH!Used(g1) \ {y} /\ y.block = b /\ y.size = len
      /\ bp % 16 = 0 /\ bp \in Nat
  <2>1. y = BH!Entry(b, len) /\ size \in Nat
    BY DEF y
  <2> QED
    BY ONLY <1>1, <1>2, <2>1, NewEntry DEF U
<1>7. /\ bp = b + 8 /\ 0 < size /\ size + 8 <= len /\ BH!Used(g1) = U \cup {y}
      /\ \A x \in U : x.block # b
  BY <1>2 DEF New, y, U
<1>8. j = Min({rs, size}) /\ j \in Nat /\ j <= rs /\ j <= size
  BY <1>3, MinOfTwo
<1>9. k \in Nat /\ k % 8 = 0 /\ j <= k /\ k < j + 8
  <2>1. size + 24 <= SIZE_MOD
    BY Bridge DEF BH!FitsWord
  <2>2. j + 24 <= SIZE_MOD
    BY <1>8, <2>1, Consts
  <2>3. k = round_up(j, wsize)
    BY <1>4, <1>8
  <2> HIDE DEF j
  <2> QED
    BY <1>8, <2>2, <2>3, KeptSize
<1>10. v \in BH!Used(g1) \ {y} /\ v # y /\ v.block # b
  BY <1>3, <1>6, <1>7
<1> DEFINE cs == IF v.size - 8 < size THEN v.size - 8 ELSE size
           h2 == memcpy(hm, bp, p, cs)
           f == free(h2, p)
<1>11. w = [h |-> f, bp |-> bp]
  <2>1. get_size(hm, v.block) = v.size
    BY <1>1, <1>10, UsedHeader
  <2>2. p - 8 = v.block
    BY <1>3
  <2>3. get_size(hm, payload_to_header(p)) - wsize = v.size - 8
    BY <2>1, <2>2, Consts DEF payload_to_header
  <2>4. Min({v.size - 8, size}) = cs
    <3>1. v.size - 8 \in Nat
      BY <1>3
    <3> QED
      BY <3>1, MinOfTwo
  <2>5. p # NULL /\ m.bp # NULL /\ m.bp = bp
    BY <1>1, <1>3, Consts DEF bp
  <2> HIDE DEF cs
  <2>6. move(m, p, size) = [h |-> free(memcpy(m.h, bp, p, cs), p), bp |-> bp]
    BY <2>3, <2>4, <2>5 DEF move
  <2> QED
    BY <1>4, <2>6
<1>12. cs \in Nat /\ cs <= size /\ j <= cs
  BY <1>3, <1>8
<1> HIDE DEF hm, cs, j
<1>13. Span(bp, cs) \subseteq Body(y)
  <2>1. y.block \in Nat /\ y.size \in Nat /\ bp = y.block + 8 /\ 0 + cs + 8 <= y.size /\ cs \in Int
    BY <1>6, <1>7, <1>12
  <2>2. Span(bp + 0, cs) \subseteq Body(y)
    BY <2>1, SpanBody
  <2>3. bp + 0 = bp
    BY <1>6
  <2> QED
    BY <2>2, <2>3
<1>14. /\ Touched(h2, hm, Span(bp, cs))
       /\ \A x \in Span(bp, cs) : h2.mem[x] = Word(hm, p + (x - bp))
  <2>1. hm \in HeapRec
    BY <1>1 DEF Shows, Rep
  <2> QED
    BY <2>1, MemcpyFact
<1> HIDE DEF h2
<1>15. Shows(h2, g1) /\ Keeps(h2, hm, BH!Used(g1) \ {y})
  BY <1>1, <1>6, <1>13, <1>14, FillShows
<1>16. Shows(f, t) /\ Keeps(f, h2, BH!Used(g1) \ {v})
  <2>1. f = free(h2, p) /\ t = BH!free(g1, p) /\ v \in BH!Used(g1) /\ p = v.block + 8
    BY <1>3, <1>4, <1>10
  <2> HIDE DEF f
  <2> QED
    BY ONLY <1>1, <1>15, <2>1, FreeShows
<1> HIDE DEF f
<1>17. BH!WF(t, {}) /\ BH!Used(t) = BH!Used(g1) \ {v}
  <2>1. v \in BH!Used(g1) /\ p = v.block + BH!wsize /\ t = BH!free(g1, p)
    BY <1>3, <1>4, <1>10, Bridge
  <2> QED
    BY <1>1, <2>1, Premises, BH!FreeBlock
<1>18. y \in BH!Used(t)
  BY <1>6, <1>10, <1>17
<1>19. Span(bp + k, size - k) \subseteq Body(y)
  <2>1. y.block \in Nat /\ y.size \in Nat /\ bp = y.block + 8 /\ k + (size - k) + 8 <= y.size
        /\ size - k \in Int
    BY <1>6, <1>7, <1>9
  <2> QED
    BY <1>9, <2>1, SpanBody
<1>20. /\ Touched(u, f, Span(bp + k, size - k))
       /\ \A x \in Span(bp + k, size - k) : u.mem[x] = fill
  <2> DEFINE a == bp + k
             e == size - k
  <2>1. f \in HeapRec /\ u = memset(f, a, e, fill) /\ fill \in Words
    BY <1>3, <1>4, <1>11, <1>16 DEF Shows, Rep
  <2> HIDE DEF a, e
  <2>2. Touched(u, f, Span(a, e)) /\ \A x \in Span(a, e) : u.mem[x] = fill
    BY ONLY <2>1, MemsetFact
  <2> QED
    BY <2>2 DEF a, e
<1>21. Shows(u, t) /\ Keeps(u, f, BH!Used(t) \ {y})
  BY <1>16, <1>17, <1>18, <1>19, <1>20, FillShows
<1>22. Keeps(u, h, U \ {v})
  <2>1. U \ {v} \subseteq BH!Used(g1) \ {y} /\ U \ {v} \subseteq BH!Used(g1) \ {v}
        /\ U \ {v} \subseteq BH!Used(t) \ {y} /\ U \ {v} \subseteq U
    BY <1>6, <1>17
  <2>2. Keeps(hm, h, U \ {v})
    BY <1>1, <2>1, KeepsLess
  <2>3. Keeps(h2, hm, U \ {v})
    BY <1>15, <2>1, KeepsLess
  <2>4. Keeps(f, h2, U \ {v})
    BY <1>16, <2>1, KeepsLess
  <2>5. Keeps(u, f, U \ {v})
    BY <1>21, <2>1, KeepsLess
  <2>6. Keeps(h2, h, U \ {v})
    BY <2>2, <2>3, KeepsAgain
  <2>7. Keeps(f, h, U \ {v})
    BY <2>4, <2>6, KeepsAgain
  <2> QED
    BY <2>5, <2>7, KeepsAgain
<1>23. Client(u, L \ {r}, U \ {v})
  <2>1. r.ptr = v.block + 8
    BY <1>3 DEF p
  <2> QED
    BY <1>0, <1>3, <1>22, <2>1, ClientRemove DEF U
<1>24. ASSUME NEW x \in Span(bp, size)
       PROVE  u.mem[x] = fill
  <2>1. x \in Addrs /\ x \in Nat /\ bp <= x /\ x < bp + size
    BY AddrFact DEF Span
  <2>2. CASE x >= bp + k
    <3>0. size \in Nat /\ bp \in Nat /\ k \in Nat
      BY <1>6, <1>9
    <3>1. x < bp + k + (size - k)
      BY ONLY <3>0, <2>1
    <3>2. x \in Span(bp + k, size - k)
      BY <1>6, <1>9, <2>1, <2>2, <3>1 DEF Span
    <3> QED
      BY <1>20, <3>2
  <2>3. CASE x < bp + k
    <3> DEFINE z == p + (x - bp)
    <3>1. p % 8 = 0 /\ p + rs <= MaxHeap
      <4>1. v.block + v.size + 8 <= g1.brk /\ g1.brk \in Nat /\ g1.brk <= MaxHeap
        BY <1>1, <1>10, Premises, Bridge, BH!UsedApart, TilingOf
      <4> QED
        BY <1>3, <4>1, Consts
    <3>2. z \in Span(p, rs) /\ z \in Addrs /\ x < bp + j
      <4>1. z = p + (x - bp) /\ p \in Nat /\ rs \in Nat
        BY <1>3
      <4> HIDE DEF z
      <4> QED
        BY ONLY <4>1, <1>6, <1>8, <1>9, <2>1, <2>3, <3>1, Copied
    <3> HIDE DEF z
    <3>3. x \in Span(bp, cs)
      <4>1. x < bp + cs
        BY <1>6, <1>8, <1>12, <2>1, <3>2
      <4> QED
        BY <2>1, <4>1 DEF Span
    <3>4. x \notin Span(bp + k, size - k)
      <4>1. ~ (bp + k <= x)
        BY ONLY <1>6, <1>9, <2>1, <2>3
      <4> QED
        BY <4>1 DEF Span
    <3>5. u.mem[x] = f.mem[x]
      BY <1>20, <2>1, <3>4 DEF Touched
    <3>6. f.mem[x] = h2.mem[x]
      <4>1. y \in BH!Used(g1) \ {v} /\ x \in Body(y)
        BY <1>6, <1>10, <1>13, <3>3
      <4> QED
        BY <1>16, <4>1 DEF Keeps, Body
    <3>7. h2.mem[x] = Word(hm, z)
      BY <1>14, <3>3 DEF z
    <3>8. Word(hm, z) = hm.mem[z]
      BY <1>1, <3>2, WordFact DEF Shows, Rep
    <3>9. hm.mem[z] = h.mem[z]
      <4>1. z \in Body(v)
        BY <1>3, <3>2
      <4> QED
        BY <1>1, <1>3, <4>1 DEF Keeps, Body
    <3>10. h.mem[z] = fill
      BY <1>5, <3>2
    <3> QED
      BY <3>5, <3>6, <3>7, <3>8, <3>9, <3>10
  <2> QED
    BY <1>6, <1>9, <2>1, <2>2, <2>3
<1>25. Data(u, s)
  <2>1. s.ptr = bp /\ s.size = size /\ s.fill = fill
    BY <1>4 DEF Held
  <2> QED
    BY <1>24, <2>1 DEF Data
<1>26. Client(u, (L \ {r}) \cup {s}, (U \ {v}) \cup {y})
  <2> DEFINE V == U \ {v}
             M == L \ {r}
  <2>1. \A x \in V : x.block \in Nat /\ x.block # b
    BY <1>0, <1>7, Premises, BH!UsedNat DEF U
  <2>2. Client(u, M, V) /\ s = Held(b + 8, size, fill) /\ y = BH!Entry(b, len)
    BY <1>4, <1>7, <1>23 DEF y
  <2> HIDE DEF V, M
  <2>3. Client(u, M \cup {s}, V \cup {y})
    BY <1>3, <1>7, <1>25, <2>1, <2>2, ClientAdd
  <2> QED
    BY <2>3 DEF V, M
<1>27. BH!Used(t) = (U \ {v}) \cup {y}
  BY <1>7, <1>10, <1>17
<1>28. w.bp = m.bp
  BY <1>11 DEF bp
<1> QED
  BY <1>17, <1>21, <1>26, <1>27, <1>28

-----------------------------------------------------------------------------
(***************************************************************************)
(* The words of h show the blocks of g and the client's records fit them.  *)
(***************************************************************************)
Standing(h, L, g) == Stands(h, g) /\ Client(h, L, BH!Used(g))

(***************************************************************************)
(* A record without its contents.                                          *)
(***************************************************************************)
Region(r) == [ptr |-> r.ptr, size |-> r.size]

(***************************************************************************)
(* What the block level knows of the client's records.                     *)
(***************************************************************************)
Regions(L) == {Region(r) : r \in L}

(***************************************************************************)
(* What the block-level allocator does in a call that yields a block.      *)
(***************************************************************************)
Acquires(g, L, g1, L1, size) ==
  \E n \in BH!malloc(g, size) :
    /\ g1 = n.hp
    /\ IF n.bp = 0 THEN L1 = L
       ELSE \E fill : L1 = L \cup {Held(n.bp, size, fill)}

(***************************************************************************)
(* What it does in a realloc that moves a block.                           *)
(***************************************************************************)
Moves(g, L, g1, L1, r, size) ==
  \E n \in BH!malloc(g, size) :
    IF n.bp = 0 THEN g1 = n.hp /\ L1 = L
    ELSE /\ g1 = BH!free(n.hp, r.ptr)
         /\ \E fill : L1 = (L \ {r}) \cup {Held(n.bp, size, fill)}

(***************************************************************************)
(* A malloc of the client with its fill.                                   *)
(***************************************************************************)
LEMMA MallocStep ==
  ASSUME NEW h, NEW L, NEW g, Standing(h, L, g), NEW size, BH!FitsWord(size), NEW fill \in Words,
         NEW m, m = malloc(h, size),
         NEW u, u = IF m.bp = 0 THEN m.h ELSE memset(m.h, m.bp, size, fill),
         NEW M, M = IF m.bp = 0 THEN L ELSE L \cup {Held(m.bp, size, fill)}
  PROVE  \E g1 : Standing(u, M, g1) /\ Acquires(g, L, g1, M, size)
<1>1. Stands(h, g) /\ Client(h, L, BH!Used(g)) /\ BH!Good(g) /\ size \in Nat
  BY StandsGood DEF Standing, BH!FitsWord
<1>2. PICK n \in BH!malloc(g, size) : Got(m, n, h, g, size)
  BY <1>1, Acquired
<1>3. m.bp = n.bp /\ BH!WF(n.hp, {}) /\ Shows(m.h, n.hp) /\ Keeps(m.h, h, BH!Used(g))
  BY <1>2 DEF Got
<1>4. Shows(u, n.hp) /\ Client(u, M, BH!Used(n.hp))
  <2>1. CASE m.bp = 0
    <3>1. u = m.h /\ M = L /\ BH!Used(n.hp) = BH!Used(g)
      BY <1>2, <2>1 DEF Got
    <3>2. Client(u, L, BH!Used(g))
      BY <1>1, <1>3, <3>1, ClientKeeps
    <3> QED
      BY <1>3, <3>1, <3>2
  <2>2. CASE m.bp # 0
    <3> DEFINE r == Held(m.bp, size, fill)
    <3>1. u = memset(m.h, m.bp, size, fill) /\ r = Held(m.bp, size, fill) /\ M = L \cup {r}
      BY <2>2
    <3> HIDE DEF r
    <3>2. fill \in Words /\ size \in Nat
      BY <1>1
    <3>3. Shows(u, n.hp) /\ Client(u, L \cup {r}, BH!Used(n.hp))
      BY ONLY <1>1, <1>2, <2>2, <3>1, <3>2, FillNew
    <3> QED
      BY <3>1, <3>3
  <2> QED
    BY <2>1, <2>2
<1>5. Standing(u, M, n.hp)
  BY <1>3, <1>4 DEF Standing, Stands
<1>6. Acquires(g, L, n.hp, M, size)
  BY <1>2, <1>3 DEF Acquires
<1> QED
  BY <1>5, <1>6

(***************************************************************************)
(* A free of the client.                                                   *)
(***************************************************************************)
LEMMA FreeStanding ==
  ASSUME NEW h, NEW L, NEW g, Standing(h, L, g), NEW r \in L, NEW u, u = free(h, r.ptr),
         NEW t, t = BH!free(g, r.ptr)
  PROVE  Standing(u, L \ {r}, t)
BY FreeStep DEF Standing, Stands

(***************************************************************************)
(* The fields of the record that stands for no block.                      *)
(***************************************************************************)
LEMMA NothingFacts == Nothing.ptr = 0 /\ Nothing.size = 0 /\ Nothing.fill = 0
BY Consts DEF Nothing

(***************************************************************************)
(* The client holds no such record.                                        *)
(***************************************************************************)
LEMMA NothingNotHeld ==
  ASSUME NEW h, NEW L, NEW g, Standing(h, L, g)
  PROVE  Nothing \notin L
<1>1. ASSUME Nothing \in L
      PROVE  FALSE
  <2> DEFINE r == Nothing
  <2>1. r.ptr = 0 /\ r \in L
    BY <1>1, NothingFacts
  <2>2. BH!Good(g) /\ Client(h, L, BH!Used(g))
    BY StandsGood DEF Standing
  <2> HIDE DEF r
  <2>3. r.ptr # 0
    BY <2>1, <2>2, OwnerOf
  <2> QED
    BY <2>1, <2>3
<1> QED
  BY <1>1

(***************************************************************************)
(* A realloc of the client that moves a block, or fails and leaves it.     *)
(***************************************************************************)
LEMMA MoveStep ==
  ASSUME NEW h, NEW L, NEW g, Standing(h, L, g), NEW r \in L, NEW size, BH!FitsWord(size),
         NEW w, w = move(malloc(h, size), r.ptr, size),
         NEW k, k = round_up(Min({r.size, size}), wsize),
         NEW u, u = IF w.bp = 0 THEN w.h ELSE memset(w.h, w.bp + k, size - k, r.fill),
         NEW M, M = IF w.bp = 0 THEN L ELSE (L \ {r}) \cup {Held(w.bp, size, r.fill)}
  PROVE  \E g1 : Standing(u, M, g1) /\ Moves(g, L, g1, M, r, size)
<1>1. Stands(h, g) /\ Client(h, L, BH!Used(g)) /\ BH!Good(g) /\ size \in Nat
  BY StandsGood DEF Standing, BH!FitsWord
<1>2. BH!WF(g, {}) /\ Shows(h, g)
  <2>1. PICK v \in BH!Used(g) : BH!WF(g, {})
    BY <1>1, OwnerOf
  <2>2. g # BH!EmptyHeap
    BY <2>1, Premises, BH!EmptyHeapFacts
  <2> QED
    BY <1>1, <2>1, <2>2 DEF Stands
<1> DEFINE m == malloc(h, size)
<1>3. m = malloc(h, size) /\ w = move(m, r.ptr, size)
  OBVIOUS
<1> HIDE DEF m
<1>4. PICK n \in BH!malloc(g, size) : Got(m, n, h, g, size)
  BY <1>1, <1>3, Acquired
<1>5. m.bp = n.bp /\ BH!WF(n.hp, {}) /\ Shows(m.h, n.hp) /\ Keeps(m.h, h, BH!Used(g))
  BY <1>4 DEF Got
<1>6. CASE m.bp = 0
  <2>1. w = m /\ BH!Used(n.hp) = BH!Used(g)
    BY <1>3, <1>4, <1>6, Consts DEF move, Got
  <2>2. u = m.h /\ M = L
    BY <1>6, <2>1
  <2>3. Client(u, L, BH!Used(n.hp))
    BY <1>1, <1>5, <2>1, <2>2, ClientKeeps
  <2>4. Standing(u, M, n.hp)
    BY <1>5, <2>2, <2>3 DEF Standing, Stands
  <2>5. Moves(g, L, n.hp, M, r, size)
    BY <1>4, <1>5, <1>6, <2>2 DEF Moves
  <2> QED
    BY <2>4, <2>5
<1>7. CASE m.bp # 0
  <2> DEFINE s == Held(m.bp, size, r.fill)
             t == BH!free(n.hp, r.ptr)
             x == memset(w.h, m.bp + k, size - k, r.fill)
  <2>0. s = Held(m.bp, size, r.fill) /\ t = BH!free(n.hp, r.ptr) /\ size \in Nat
        /\ x = memset(w.h, m.bp + k, size - k, r.fill) /\ r \in L /\ BH!FitsWord(size)
        /\ k = round_up(Min({r.size, size}), wsize)
    BY <1>1
  <2> HIDE DEF s, t, x
  <2>1. w.bp = m.bp /\ BH!WF(t, {}) /\ Shows(x, t) /\ Client(x, (L \ {r}) \cup {s}, BH!Used(t))
    BY ONLY <1>1, <1>2, <1>3, <1>4, <1>7, <2>0, MovedTo
  <2>2. u = x /\ M = (L \ {r}) \cup {s}
    BY <1>7, <2>0, <2>1
  <2>3. Standing(u, M, t)
    BY <2>1, <2>2 DEF Standing, Stands
  <2>4. Moves(g, L, t, M, r, size)
    BY <1>4, <1>5, <1>7, <2>0, <2>2 DEF Moves
  <2> QED
    BY <2>3, <2>4
<1> QED
  BY <1>6, <1>7

-----------------------------------------------------------------------------
(***************************************************************************)
(* A size read is a number.                                                *)
(***************************************************************************)
LEMMA SizeNat ==
  ASSUME NEW h \in HeapRec, NEW b
  PROVE  get_size(h, b) \in Nat
<1>1. Word(h, b) \in Nat
  <2>1. \A y : y \in DOMAIN h.mem => h.mem[y] \in Words
    BY DEF HeapRec
  <2>2. \A y \in Words : y \in Nat
    BY Consts DEF Words
  <2> QED
    BY <2>1, <2>2 DEF Word
<1> DEFINE w == Word(h, b)
<1>2. w \in Nat
  BY <1>1
<1> HIDE DEF w
<1>3. w - (w % 16) \in Nat
  BY <1>2
<1> QED
  BY <1>3 DEF w, get_size, extract_size

(***************************************************************************)
(* The walk of mm_checkheap has met the blocks of the tiling once each.    *)
(***************************************************************************)
Toured(h, H, e) ==
  \E next : /\ Walked(BlockWalk(h), DOMAIN H \ {e}, IF 8 >= e THEN 0 ELSE 8, next)
            /\ \A c \in DOMAIN H \ {e} :
                 next[c] = IF c + H[c].size >= e THEN 0 ELSE c + H[c].size

(***************************************************************************)
(* The walk through the heap by sizes, from heap_start to the epilogue,    *)
(* meets exactly the blocks of the tiling.                                 *)
(***************************************************************************)
LEMMA WalkBlocks ==
  ASSUME NEW H, NEW e, Tiling(H, e), NEW h \in HeapRec, Tags(h, H), h.heap_start = 8,
         epilogue(h) = e
  PROVE  Toured(h, H, e)
<1> DEFINE S == DOMAIN H \ {e}
           rk == [c \in S |-> e - c]
           here(b) == IF b >= e THEN 0 ELSE b
           next == [b \in Int |-> IF b = 0 THEN 0 ELSE here(find_next(h, b))]
           first == here(8)
<1>1. BlockWalk(h) = Walk(first, next)
  BY Consts DEF BlockWalk
<1>2. e \in Nat /\ e % 16 = 8 /\ 8 <= e /\ 8 \in DOMAIN H
  BY EpilogueFacts
<1>3. next \in [Int -> Int]
  <2>1. \A b \in Int : find_next(h, b) \in Int
    BY SizeNat DEF find_next
  <2> HIDE DEF find_next
  <2> QED
    BY <2>1
<1>4. ASSUME NEW c \in S
      PROVE  next[c] = here(c + H[c].size)
  <2>1. c \in Nat /\ c # 0 /\ get_size(h, c) = H[c].size
    BY HeaderFacts, ReadHeader DEF HeaderRead
  <2> QED
    BY <2>1 DEF find_next
<1>5. \A c \in S : BlockAt(H, c, e)
  BY BlockFacts
<1>6. \A c \in S : c < e /\ c \in Nat /\ c >= 8
  BY <1>2 DEF Tiling
<1>7. Ranked(S, rk)
  BY <1>2, <1>6 DEF Ranked
<1>8. Heads(S, rk, first)
  <2>1. CASE 8 = e
    <3>1. S = {}
      BY <1>6, <2>1
    <3> QED
      BY <2>1, <3>1 DEF Heads
  <2>2. CASE 8 # e
    <3>1. 8 \in S /\ first = 8
      BY <1>2, <2>2
    <3> QED
      BY <1>2, <1>6, <3>1 DEF Heads
  <2> QED
    BY <2>1, <2>2
<1>9. ASSUME NEW b \in S
      PROVE  Follows(S, rk, b, next[b])
  <2> DEFINE n == b + H[b].size
  <2>1. n \in DOMAIN H /\ n \in Nat /\ n <= e /\ b < n /\ b \in Nat
    BY <1>5, <1>9 DEF BlockAt
  <2>2. \A d \in S : d <= b \/ d >= n
    BY <1>9 DEF Tiling
  <2>3. next[b] = here(n)
    BY <1>4, <1>9
  <2> HIDE DEF n, next
  <2>4. CASE n = e
    <3>1. next[b] = 0
      BY <2>3, <2>4, <1>2
    <3>2. \A d \in S : d <= b
      BY <1>2, <1>6, <2>2, <2>4
    <3>3. \A d \in S : rk[b] <= rk[d]
      BY <1>2, <1>6, <3>2
    <3> QED
      BY <3>1, <3>3 DEF Follows
  <2>5. CASE n # e
    <3>1. next[b] = n /\ n \in S
      BY <1>2, <2>1, <2>3, <2>5
    <3>2. rk[n] < rk[b] /\ \A d \in S : rk[d] <= rk[n] \/ rk[b] <= rk[d]
      BY <1>2, <1>6, <2>1, <2>2, <3>1
    <3> HIDE DEF rk, S
    <3> QED
      BY <3>1, <3>2 DEF Follows
  <2> QED
    BY <2>4, <2>5
<1>10. IsFiniteSet(S) /\ Cardinality(S) <= MaxBlocks
  BY NodesFew
<1> HIDE DEF S, rk, next, first
<1>11. Linked(S, rk, first, next)
  BY <1>7, <1>8, <1>9 DEF Linked
<1>12. Walked(BlockWalk(h), S, first, next)
  BY <1>1, <1>3, <1>10, <1>11, WalkIs
<1>13. \A c \in S : next[c] = IF c + H[c].size >= e THEN 0 ELSE c + H[c].size
  BY <1>4
<1> QED
  BY <1>12, <1>13 DEF S, first, Toured

(***************************************************************************)
(* Everything the block view reads from the words of h is what g has.      *)
(***************************************************************************)
ReadBack(h, g) ==
  /\ Blocks(h) = DOMAIN g.hdr \ {g.brk - 8} /\ epilogue(h) = g.brk - 8
  /\ \A c \in DOMAIN g.hdr : HeaderRead(h, c, g.hdr[c])
  /\ \A k \in Bins : ToSet(ListOf(h, k)) = g.bins[k]
                     /\ Len(ListOf(h, k)) = Cardinality(g.bins[k])

(***************************************************************************)
(* A heap that shows the blocks of g reads back as g.                      *)
(***************************************************************************)
LEMMA ReadsBack ==
  ASSUME NEW g, BH!WF(g, {}), NEW h, Shows(h, g)
  PROVE  ReadBack(h, g)
<1> DEFINE H == g.hdr
           e == g.brk - 8
           B == g.bins
<1>1. Tiling(H, e) /\ Binny(H, B)
  BY TilingOf, BinsOf
<1>2. Rep(h, H, B) /\ h.brk = g.brk
  BY DEF Shows
<1>3. epilogue(h) = e /\ h \in HeapRec /\ Tags(h, H) /\ h.heap_start = 8
  BY <1>2, Consts DEF epilogue, Rep
<1> HIDE DEF H, e, B
<1>4. Blocks(h) = DOMAIN H \ {e}
  <2>1. PICK next : Walked(BlockWalk(h), DOMAIN H \ {e}, IF 8 >= e THEN 0 ELSE 8, next)
    BY <1>1, <1>3, WalkBlocks DEF Toured
  <2> DEFINE S == DOMAIN H \ {e}
             first == IF 8 >= e THEN 0 ELSE 8
             s == BlockWalk(h)
  <2>2. Walked(s, S, first, next)
    BY <2>1
  <2> HIDE DEF S, first, s
  <2>3. ToSet(s) = S
    BY <2>2, WalkedSet
  <2> QED
    BY <2>3 DEF Blocks, S, s
<1>5. \A c \in DOMAIN H : HeaderRead(h, c, H[c])
  BY <1>1, <1>3, ReadHeader
<1>6. ASSUME NEW k \in Bins
      PROVE  ToSet(ListOf(h, k)) = B[k] /\ Len(ListOf(h, k)) = Cardinality(B[k])
  <2> DEFINE s == ListOf(h, k)
             S == B[k]
             first == HeadOf(h, k)
             next == NextOf(h, LinkOff(k))
  <2>1. Walked(s, S, first, next)
    BY <1>1, <1>2, <1>6, ChainOf
  <2> HIDE DEF s, S, first, next
  <2>2. ToSet(s) = S /\ Len(s) = Cardinality(S)
    BY <2>1, WalkedSet
  <2> QED
    BY <2>2 DEF s, S
<1> QED
  BY <1>3, <1>4, <1>5, <1>6 DEF ReadBack, H, e, B

(***************************************************************************)
(* The block view, field by field.                                         *)
(***************************************************************************)
LEMMA ViewForm ==
  ASSUME NEW h, NEW D, D = IF h.brk = 0 THEN {} ELSE Blocks(h) \cup {epilogue(h)}
  PROVE  BlockView(h) = [hdr |-> [b \in D |-> HeaderAt(h, b)],
                         bins |-> [k \in Bins |-> ToSet(ListOf(h, k))], brk |-> h.brk]
BY DEF BlockView, Bins, ListOf

(***************************************************************************)
(* The words determine the blocks: BlockView computes the g that the words *)
(* show.                                                                   *)
(***************************************************************************)
LEMMA ViewIs ==
  ASSUME NEW h, NEW g, Stands(h, g)
  PROVE  BlockView(h) = g
<1> DEFINE D == IF h.brk = 0 THEN {} ELSE Blocks(h) \cup {epilogue(h)}
           F == [b \in D |-> HeaderAt(h, b)]
           G == [k \in Bins |-> ToSet(ListOf(h, k))]
<1>0. BlockView(h) = [hdr |-> F, bins |-> G, brk |-> h.brk]
  BY ViewForm
<1>1. CASE BH!WF(g, {}) /\ Shows(h, g)
  <2>1. g = [hdr |-> g.hdr, bins |-> g.bins, brk |-> g.brk] /\ g.brk = h.brk
    BY <1>1 DEF BH!WF, BH!HeapType, Shows
  <2>2. ReadBack(h, g)
    BY <1>1, ReadsBack
  <2>3. Tiling(g.hdr, g.brk - 8) /\ g.brk \in Nat /\ g.brk >= 16
    BY <1>1, TilingOf
  <2>4. D = DOMAIN g.hdr
    <3>1. Blocks(h) = DOMAIN g.hdr \ {g.brk - 8} /\ epilogue(h) = g.brk - 8
      BY <2>2 DEF ReadBack
    <3>2. g.brk - 8 \in DOMAIN g.hdr
      BY <2>3 DEF Tiling
    <3>3. h.brk # 0
      BY <2>1, <2>3
    <3>4. D = Blocks(h) \cup {epilogue(h)}
      BY <3>3
    <3> HIDE DEF D
    <3> DEFINE e == g.brk - 8
    <3>5. D = (DOMAIN g.hdr \ {e}) \cup {e} /\ e \in DOMAIN g.hdr
      BY <3>1, <3>2, <3>4
    <3> HIDE DEF e
    <3> QED
      BY ONLY <3>5
  <2>5. ASSUME NEW c \in DOMAIN g.hdr
        PROVE  HeaderAt(h, c) = g.hdr[c]
    <3>1. HeaderRead(h, c, g.hdr[c])
      BY <2>2 DEF ReadBack
    <3>2. g.hdr[c] \in Hdrs
      BY <2>3 DEF Tiling
    <3> DEFINE r == g.hdr[c]
    <3>3. r \in Hdrs /\ HeaderRead(h, c, r)
      BY <3>1, <3>2
    <3> HIDE DEF r
    <3>4. r = [size |-> r.size, alloc |-> r.alloc, prev_alloc |-> r.prev_alloc,
               prev_mini |-> r.prev_mini]
      BY <3>3 DEF Hdrs
    <3>5. HeaderAt(h, c) = r
      BY <3>3, <3>4 DEF HeaderAt, HeaderRead
    <3> QED
      BY <3>5 DEF r
  <2>6. F = g.hdr
    <3>1. g.hdr = [c \in DOMAIN g.hdr |-> g.hdr[c]]
      BY <2>3 DEF Tiling
    <3> HIDE DEF D
    <3> QED
      BY <2>4, <2>5, <3>1
  <2>7. G = g.bins
    <3>1. \A k \in Bins : ToSet(ListOf(h, k)) = g.bins[k]
      BY <2>2 DEF ReadBack
    <3>2. g.bins = [k \in Bins |-> g.bins[k]]
      BY <1>1, BinsOf
    <3> QED
      BY <3>1, <3>2
  <2> HIDE DEF F, G
  <2> QED
    BY <1>0, <2>1, <2>6, <2>7
<1>2. CASE /\ h \in HeapRec /\ h.heap_start = 0 /\ h.brk = 0 /\ g = BH!EmptyHeap
           /\ \A k \in Bins : HeadOf(h, k) = 0
  <2>1. g = [hdr |-> [c \in {} |-> Hdr(0, TRUE, TRUE, FALSE)], bins |-> [k \in Bins |-> {}], brk |-> 0]
    BY <1>2, Bridge, BridgeHeader DEF BH!EmptyHeap
  <2>2. F = [c \in {} |-> Hdr(0, TRUE, TRUE, FALSE)]
    BY <1>2
  <2>3. ASSUME NEW k \in Bins
        PROVE  ToSet(ListOf(h, k)) = {}
    <3>1. ListOf(h, k) = << >>
      <4>1. k = -1 => h.mini_list = 0
        BY <1>2, <2>3 DEF HeadOf
      <4>2. k # -1 => h.seg_list[k] = 0
        BY <1>2, <2>3 DEF HeadOf
      <4>3. \A next : Walk(0, next) = << >>
        BY Consts DEF Walk
      <4> QED
        BY <4>1, <4>2, <4>3 DEF ListOf, mini_chain, seg_chain, Chain
    <3> QED
      BY <3>1 DEF ToSet
  <2>4. G = [k \in Bins |-> {}]
    BY <2>3
  <2> HIDE DEF F, G
  <2> QED
    BY <1>0, <1>2, <2>1, <2>2, <2>4
<1> QED
  BY <1>1, <1>2 DEF Stands

-----------------------------------------------------------------------------
(***************************************************************************)
(* The inductive invariant. The words of the heap show the well-formed     *)
(* block-level heap that BlockView reads from them (or there is no heap    *)
(* yet), the client's records are exactly the blocks in use, and every     *)
(* block holds what its client wrote.                                      *)
(***************************************************************************)
Inv == Standing(heap, live, BlockView(heap))

(***************************************************************************)
(* The invariant, once there is a heap.                                    *)
(***************************************************************************)
LEMMA InvHeap ==
  ASSUME Inv, heap.heap_start # NULL
  PROVE  BH!WF(BlockView(heap), {}) /\ Shows(heap, BlockView(heap))
BY Consts DEF Inv, Standing, Stands

(***************************************************************************)
(* The invariant gives the type invariant.                                 *)
(***************************************************************************)
LEMMA InvType ==
  ASSUME Inv
  PROVE  TypeOK
<1> DEFINE g == BlockView(heap)
<1>1. Stands(heap, g) /\ Client(heap, live, BH!Used(g)) /\ BH!Good(g)
  BY StandsGood DEF Inv, Standing
<1> HIDE DEF g
<1>2. heap \in HeapRec
  BY <1>1 DEF Stands, Shows, Rep
<1>3. ASSUME NEW r \in live
      PROVE  r.ptr \in Addrs /\ r.size \in Nat
  <2>1. PICK v \in BH!Used(g) : /\ r.ptr = v.block + 8 /\ r.size + 8 <= v.size /\ r.size \in Nat
                                /\ v.block \in Nat /\ v.size \in Nat
                                /\ v.block % 16 = 8 /\ BH!WF(g, {})
    BY <1>1, <1>3, OwnerOf
  <2>2. v.block + v.size + 8 <= g.brk /\ g.brk \in Nat /\ g.brk <= MaxHeap
    BY <2>1, Premises, Bridge, BH!UsedApart, TilingOf
  <2> DEFINE p == r.ptr
  <2>3. p \in Nat /\ p % 8 = 0 /\ p < MaxHeap
    BY <2>1, <2>2, Consts
  <2> HIDE DEF p
  <2>4. p \in Addrs
    BY <2>3, AddrFact
  <2> QED
    BY <2>1, <2>4 DEF p
<1>4. /\ heap.mem \in [Addrs -> Words] /\ heap.brk \in 0 .. MaxHeap
      /\ heap.heap_start \in {NULL, wsize} /\ heap.seg_list \in [Classes -> Addrs]
      /\ heap.mini_list \in Addrs
  BY <1>2 DEF HeapRec
<1> QED
  BY <1>3, <1>4 DEF TypeOK, Words

(***************************************************************************)
(* The flags a block has about the block below it, and no two free         *)
(* neighbours.                                                             *)
(***************************************************************************)
Neighbours(g, c, n) ==
  /\ n = c + g.hdr[c].size /\ n \in DOMAIN g.hdr
  /\ g.hdr[n].prev_alloc <=> g.hdr[c].alloc
  /\ g.hdr[n].prev_mini <=> g.hdr[c].size = 16
  /\ g.hdr[c].alloc \/ g.hdr[n].alloc

(***************************************************************************)
(* A block and the one that follows it.                                    *)
(***************************************************************************)
LEMMA NeighbourFacts ==
  ASSUME NEW g, BH!WF(g, {}), NEW c \in DOMAIN g.hdr, c # g.brk - 8
  PROVE  BlockAt(g.hdr, c, g.brk - 8) /\ Neighbours(g, c, c + g.hdr[c].size)
<1> DEFINE H == g.hdr
           e == g.brk - 8
           n == c + H[c].size
<1>1. BlockAt(H, c, e)
  BY TilingOf, BlockFacts
<1>2. BH!find_next(g, c) = n /\ BH!epilogue(g) = e
  BY BridgeHeap
<1>3. n \in DOMAIN H
  BY <1>1 DEF BlockAt
<1>4. (H[n].prev_alloc <=> H[c].alloc) /\ (H[n].prev_mini <=> H[c].size = 16)
  BY <1>2, Bridge DEF BH!WF, BH!FlagsKnown
<1>5. H[c].alloc \/ H[n].alloc
  BY <1>2 DEF BH!WF, BH!Merged
<1> QED
  BY <1>1, <1>3, <1>4, <1>5 DEF Neighbours

(***************************************************************************)
(* find_next reads the next block.                                         *)
(***************************************************************************)
LEMMA ReadNext ==
  ASSUME NEW g, BH!WF(g, {}), NEW h, Shows(h, g), NEW c \in DOMAIN g.hdr, c # g.brk - 8
  PROVE  find_next(h, c) = c + g.hdr[c].size
<1>1. HeaderRead(h, c, g.hdr[c])
  BY ReadsBack DEF ReadBack
<1> QED
  BY <1>1 DEF find_next, HeaderRead

(***************************************************************************)
(* The invariant gives the flags of the next block.                        *)
(***************************************************************************)
LEMMA InvFlags ==
  ASSUME Inv
  PROVE  BoundaryFlags
<1> SUFFICES ASSUME heap.heap_start # NULL
             PROVE  /\ get_prev_alloc(heap, heap.heap_start)
                    /\ \A b \in Blocks(heap) :
                         LET next == find_next(heap, b)
                         IN  /\ get_prev_alloc(heap, next) = get_alloc(heap, b)
                             /\ get_prev_mini(heap, next) = is_mini_block(heap, b)
  BY DEF BoundaryFlags
<1> DEFINE g == BlockView(heap)
<1>1. BH!WF(g, {}) /\ Shows(heap, g)
  BY InvHeap
<1> HIDE DEF g
<1>2. ReadBack(heap, g)
  BY <1>1, ReadsBack
<1>3. get_prev_alloc(heap, heap.heap_start)
  <2>1. heap.heap_start = 8
    BY <1>1 DEF Shows, Rep
  <2>2. 8 \in DOMAIN g.hdr /\ g.hdr[8].prev_alloc
    BY <1>1, Bridge DEF BH!WF, BH!FlagsKnown, BH!TiledBy
  <2>3. HeaderRead(heap, 8, g.hdr[8])
    BY <1>2, <2>2 DEF ReadBack
  <2> QED
    BY <2>1, <2>2, <2>3 DEF HeaderRead
<1>4. ASSUME NEW c \in Blocks(heap)
      PROVE  /\ get_prev_alloc(heap, find_next(heap, c)) = get_alloc(heap, c)
             /\ get_prev_mini(heap, find_next(heap, c)) = is_mini_block(heap, c)
  <2>1. c \in DOMAIN g.hdr /\ c # g.brk - 8
    BY <1>2, <1>4 DEF ReadBack
  <2> DEFINE n == c + g.hdr[c].size
  <2>2. Neighbours(g, c, n)
    BY <1>1, <2>1, NeighbourFacts
  <2>3. find_next(heap, c) = n
    BY <1>1, <2>1, ReadNext
  <2> HIDE DEF n
  <2>4. HeaderRead(heap, c, g.hdr[c]) /\ HeaderRead(heap, n, g.hdr[n])
    BY <1>2, <2>1, <2>2 DEF ReadBack, Neighbours
  <2>5. /\ get_prev_alloc(heap, n) <=> get_alloc(heap, c)
        /\ get_prev_mini(heap, n) <=> is_mini_block(heap, c)
    BY <2>2, <2>4 DEF HeaderRead, Neighbours
  <2> QED
    BY <2>3, <2>5, Flags
<1> QED
  BY <1>3, <1>4

(***************************************************************************)
(* The invariant gives the exact free lists.                               *)
(***************************************************************************)
LEMMA InvLists ==
  ASSUME Inv
  PROVE  FreeListsExact
<1> DEFINE free_blocks == {b \in Blocks(heap) : ~get_alloc(heap, b)}
           exactly(chain, set) == ToSet(chain) = set /\ Len(chain) = Cardinality(set)
           minis == {b \in free_blocks : is_mini_block(heap, b)}
           class(i) == {b \in free_blocks : /\ ~is_mini_block(heap, b)
                                            /\ find_class(get_size(heap, b)) = i}
<1> SUFFICES ASSUME heap.heap_start # NULL
             PROVE  /\ exactly(mini_chain(heap), minis)
                    /\ \A i \in Classes : exactly(seg_chain(heap, i), class(i))
  BY DEF FreeListsExact
<1> DEFINE g == BlockView(heap)
           H == g.hdr
           e == g.brk - 8
<1>1. BH!WF(g, {}) /\ Shows(heap, g)
  BY InvHeap
<1>2. ReadBack(heap, g) /\ Tiling(H, e)
  BY <1>1, ReadsBack, TilingOf
<1>3. \A k \in Bins : g.bins[k] = {c \in DOMAIN H : ~ H[c].alloc /\ Bin(H[c].size) = k}
  BY <1>1, Bridge, BridgeBin DEF BH!WF, BH!Binned
<1> HIDE DEF g
<1>4. \A c \in DOMAIN H : ~ H[c].alloc => c # e
  BY <1>2 DEF Tiling
<1>5. free_blocks = {c \in DOMAIN H : ~ H[c].alloc}
  <2>1. Blocks(heap) = DOMAIN H \ {e}
    BY <1>2 DEF ReadBack
  <2>2. \A c \in DOMAIN H : get_alloc(heap, c) = H[c].alloc
    BY <1>2 DEF ReadBack, HeaderRead
  <2> HIDE DEF H, e
  <2> QED
    BY <1>4, <2>1, <2>2
<1>6. \A c \in free_blocks : /\ c \in DOMAIN H /\ get_size(heap, c) = H[c].size
                             /\ is_mini_block(heap, c) <=> H[c].size = 16
                             /\ H[c].size \in Nat
  <2>1. \A c \in DOMAIN H : /\ get_size(heap, c) = H[c].size
                            /\ is_mini_block(heap, c) <=> H[c].size = 16
    BY <1>2 DEF ReadBack, HeaderRead
  <2>2. \A c \in DOMAIN H : H[c].size \in Nat
    BY <1>2, HeaderFacts DEF HeaderOK
  <2> HIDE DEF free_blocks, H
  <2>3. \A c \in free_blocks : c \in DOMAIN H
    BY <1>5
  <2> QED
    BY <2>1, <2>2, <2>3
<1>7. \A k \in Bins : /\ ToSet(ListOf(heap, k)) = g.bins[k]
                      /\ Len(ListOf(heap, k)) = Cardinality(g.bins[k])
  BY <1>2 DEF ReadBack
<1> HIDE DEF free_blocks, H, e
<1>8. \A k \in Bins : g.bins[k] = {c \in free_blocks : Bin(H[c].size) = k}
  BY <1>3, <1>5
<1>9. minis = g.bins[-1]
  <2>1. \A c \in free_blocks : is_mini_block(heap, c) <=> Bin(H[c].size) = -1
    BY <1>6, ClassOf DEF Bin
  <2>2. -1 \in Bins
    BY DEF Bins
  <2> QED
    BY <1>8, <2>1, <2>2
<1>10. ASSUME NEW i \in Classes
       PROVE  class(i) = g.bins[i]
  <2>0. i # -1 /\ i \in Bins
    BY Consts DEF Bins
  <2>1. \A c \in free_blocks : (~is_mini_block(heap, c) /\ find_class(get_size(heap, c)) = i)
                                 <=> Bin(H[c].size) = i
    BY <1>6, <2>0 DEF Bin
  <2> QED
    BY <1>8, <2>0, <2>1
<1>11. exactly(mini_chain(heap), minis)
  <2>1. ListOf(heap, -1) = mini_chain(heap) /\ -1 \in Bins
    BY DEF ListOf, Bins
  <2> HIDE DEF minis
  <2> QED
    BY <1>7, <1>9, <2>1
<1>12. ASSUME NEW i \in Classes
       PROVE  exactly(seg_chain(heap, i), class(i))
  <2>1. ListOf(heap, i) = seg_chain(heap, i) /\ i \in Bins
    BY Consts DEF ListOf, Bins
  <2> HIDE DEF class
  <2> QED
    BY <1>7, <1>10, <2>1
<1> QED
  BY <1>11, <1>12

(***************************************************************************)
(* The invariant gives the client's data.                                  *)
(***************************************************************************)
LEMMA InvData ==
  ASSUME Inv
  PROVE  ClientDataIntact
BY DEF Inv, Standing, Client, Data, ClientDataIntact

(***************************************************************************)
(* The invariant gives that what is allocated is held by the client.       *)
(***************************************************************************)
LEMMA InvHeld ==
  ASSUME Inv
  PROVE  AllocatedIsHeld
<1> SUFFICES ASSUME heap.heap_start # NULL
             PROVE  /\ {payload_to_header(r.ptr) : r \in live}
                         = {b \in Blocks(heap) : get_alloc(heap, b)}
                    /\ \A r \in live : get_size(heap, payload_to_header(r.ptr)) - wsize >= r.size
  BY DEF AllocatedIsHeld
<1> DEFINE g == BlockView(heap)
           U == BH!Used(g)
<1>1. BH!WF(g, {}) /\ Shows(heap, g) /\ Client(heap, live, U) /\ BH!Good(g)
  BY InvHeap DEF Inv, Standing, BH!Good
<1> HIDE DEF g
<1>2. ReadBack(heap, g)
  BY <1>1, ReadsBack
<1>3. ASSUME NEW r \in live
      PROVE  \E v \in U : /\ payload_to_header(r.ptr) = v.block /\ get_size(heap, v.block) = v.size
                          /\ r.size + 8 <= v.size /\ v.size \in Nat /\ r.size \in Nat
  <2>1. PICK v \in U : /\ r.ptr = v.block + 8 /\ r.size + 8 <= v.size /\ r.size \in Nat
                       /\ v.block \in Nat /\ v.size \in Nat
    BY <1>1, <1>3, OwnerOf
  <2>2. get_size(heap, v.block) = v.size
    BY <1>1, UsedHeader
  <2>3. payload_to_header(r.ptr) = v.block
    BY <2>1, Consts DEF payload_to_header
  <2> QED
    BY <2>1, <2>2, <2>3
<1>4. \A r \in live : get_size(heap, payload_to_header(r.ptr)) - wsize >= r.size
  BY <1>3, Consts
<1>5. ASSUME NEW v \in U
      PROVE  \E r \in live : payload_to_header(r.ptr) = v.block
  <2>1. PICK r \in live : r.ptr = v.block + 8
    BY <1>1, Bridge DEF Client, BH!Owns
  <2>2. v.block \in Nat
    BY <1>1, Premises, BH!UsedNat
  <2> QED
    BY <2>1, <2>2, Consts DEF payload_to_header
<1>6. \A c : c \in Blocks(heap) /\ get_alloc(heap, c) <=> \E v \in U : v.block = c
  <2>1. Blocks(heap) = DOMAIN g.hdr \ {g.brk - 8}
    BY <1>2 DEF ReadBack
  <2>2. \A c \in DOMAIN g.hdr : get_alloc(heap, c) = g.hdr[c].alloc
    BY <1>2 DEF ReadBack, HeaderRead
  <2>3. BH!epilogue(g) = g.brk - 8
    BY BridgeHeap
  <2>4. \A a, b : BH!Entry(a, b).block = a
    BY DEF BH!Entry
  <2> DEFINE H == g.hdr
             e == g.brk - 8
             A == {d \in DOMAIN H \ {e} : H[d].alloc}
  <2>5. U = {BH!Entry(d, H[d].size) : d \in A}
    BY <2>3 DEF BH!Used
  <2>6. \A c : c \in Blocks(heap) /\ get_alloc(heap, c) <=> c \in A
    BY <2>1, <2>2
  <2> HIDE DEF A, H, U
  <2>7. \A c : (\E v \in U : v.block = c) <=> c \in A
    BY ONLY <2>4, <2>5
  <2> QED
    BY ONLY <2>6, <2>7
<1> HIDE DEF U
<1> QED
  BY <1>3, <1>4, <1>5, <1>6

-----------------------------------------------------------------------------
(***************************************************************************)
(* check_prologue_epilogue accepts.                                        *)
(***************************************************************************)
LEMMA PrologueReads ==
  ASSUME NEW g, BH!WF(g, {}), NEW h, Shows(h, g)
  PROVE  check_prologue_epilogue(h)
<1>1. h \in HeapRec /\ h.mem[0] = Pack(Prologue)
  BY DEF Shows, Rep
<1>2. 0 \in Addrs
  BY ZeroAddr
<1>3. Prologue \in Hdrs /\ Prologue.size = 0 /\ Prologue.alloc
  BY HdrFields DEF Prologue
<1>4. Word(h, 0) = Pack(Prologue)
  BY <1>1, <1>2, WordFact
<1>5. extract_alloc(Word(h, 0)) /\ extract_size(Word(h, 0)) = 0
  <2> DEFINE r == Prologue
             w == Pack(r)
  <2>1. r \in Hdrs /\ r.size % 16 = 0 /\ w = Pack(r) /\ r.alloc /\ r.size = 0 /\ Word(h, 0) = w
    BY <1>3, <1>4
  <2> HIDE DEF r, w
  <2>2. extract_size(w) = r.size /\ (extract_alloc(w) <=> r.alloc)
    BY <2>1, Unpack
  <2> QED
    BY <2>1, <2>2
<1> DEFINE e == g.brk - 8
<1>6. Tiling(g.hdr, e) /\ ReadBack(h, g)
  BY TilingOf, ReadsBack
<1>7. epilogue(h) = e /\ HeaderRead(h, e, g.hdr[e]) /\ g.hdr[e].alloc /\ g.hdr[e].size = 0
  BY <1>6, EpilogueFacts DEF ReadBack
<1> QED
  BY <1>5, <1>7 DEF check_prologue_epilogue, HeaderRead

(***************************************************************************)
(* The checks of one block accept.                                         *)
(***************************************************************************)
LEMMA BlockChecks ==
  ASSUME NEW g, BH!WF(g, {}), NEW h, Shows(h, g), NEW c \in DOMAIN g.hdr, c # g.brk - 8
  PROVE  /\ check_alignment(c) /\ check_boundary(h, c) /\ check_block_size(h, c)
         /\ check_header_footer_match(h, c) /\ check_non_consecutive_free(h, c)
<1> DEFINE H == g.hdr
           n == c + H[c].size
           e == g.brk - 8
<1>1. BlockAt(H, c, e) /\ Neighbours(g, c, n) /\ find_next(h, c) = n
  BY NeighbourFacts, ReadNext
<1>2. ReadBack(h, g) /\ h \in HeapRec /\ Tags(h, H) /\ h.brk = g.brk /\ g.brk \in Nat
  BY ReadsBack, TilingOf DEF Shows, Rep
<1>3. HeaderRead(h, c, H[c]) /\ n \in DOMAIN H
  BY <1>1, <1>2 DEF ReadBack, Neighbours
<1> HIDE DEF n
<1>4. HeaderRead(h, n, H[n])
  BY <1>2, <1>3 DEF ReadBack
<1>5. check_alignment(c)
  BY <1>1, Consts DEF BlockAt, check_alignment, header_to_payload
<1>6. check_boundary(h, c)
  BY <1>1, <1>2 DEF BlockAt, check_boundary
<1>7. check_block_size(h, c)
  BY <1>1, <1>3, Consts DEF BlockAt, check_block_size, HeaderRead
<1>8. check_header_footer_match(h, c)
  <2>1. CASE H[c].alloc
    BY <1>3, <2>1 DEF check_header_footer_match, HeaderRead
  <2>2. CASE ~ H[c].alloc /\ H[c].size = 16
    <3>1. H[n].prev_mini
      BY <1>1, <2>2 DEF Neighbours
    <3> QED
      BY <1>1, <1>4, <3>1 DEF check_header_footer_match, HeaderRead
  <2>3. CASE ~ H[c].alloc /\ H[c].size # 16
    <3> DEFINE f == c + H[c].size - 8
    <3>1. h.mem[c] = Pack(H[c]) /\ h.mem[f] = Pack(H[c])
      BY <1>2, <2>3 DEF Tags, Tag
    <3>2. c \in Addrs /\ f \in Addrs
      BY <1>1 DEF BlockAt
    <3>3. header_to_footer(h, c) = f
      BY <1>3, Consts DEF header_to_footer, HeaderRead
    <3> HIDE DEF f
    <3>4. Word(h, c) = Word(h, f)
      BY <1>2, <3>1, <3>2, WordFact
    <3> QED
      BY <3>3, <3>4 DEF check_header_footer_match
  <2> QED
    BY <1>1, <2>1, <2>2, <2>3 DEF BlockAt
<1>9. check_non_consecutive_free(h, c)
  BY <1>1, <1>3, <1>4 DEF Neighbours, HeaderRead, check_non_consecutive_free
<1> QED
  BY <1>5, <1>6, <1>7, <1>8, <1>9

(***************************************************************************)
(* general_heap_checker accepts.                                           *)
(***************************************************************************)
LEMMA HeapAccepted ==
  ASSUME NEW g, BH!WF(g, {}), NEW h, Shows(h, g)
  PROVE  general_heap_checker(h)
<1> DEFINE H == g.hdr
           e == g.brk - 8
           S == DOMAIN H \ {e}
           s == BlockWalk(h)
           first == IF 8 >= e THEN 0 ELSE 8
<1>1. Tiling(H, e) /\ h \in HeapRec /\ Tags(h, H) /\ h.heap_start = 8 /\ epilogue(h) = e
  BY TilingOf, ReadsBack DEF Shows, Rep, ReadBack
<1>2. PICK next : /\ Walked(s, S, first, next)
                  /\ \A c \in S : next[c] = IF c + H[c].size >= e THEN 0 ELSE c + H[c].size
  <2> HIDE DEF H, e
  <2>1. Toured(h, H, e)
    BY ONLY <1>1, WalkBlocks
  <2> QED
    BY <2>1 DEF Toured
<1>3. \A c \in S : /\ check_alignment(c) /\ check_boundary(h, c) /\ check_block_size(h, c)
                   /\ check_header_footer_match(h, c) /\ check_non_consecutive_free(h, c)
  BY BlockChecks
<1>4. \A c \in S : /\ c + H[c].size \in Nat /\ c + H[c].size <= e
                   /\ c + H[c].size # 0 /\ find_next(h, c) = c + H[c].size
  <2>1. ASSUME NEW c \in S
        PROVE  BlockAt(H, c, e) /\ find_next(h, c) = c + H[c].size
    BY <2>1, NeighbourFacts, ReadNext
  <2> QED
    BY <2>1 DEF BlockAt
<1>5. e \in Nat
  BY <1>1, EpilogueFacts
<1> HIDE DEF S, s, first, H, e
<1>6. s \in Seq(S) /\ (s # << >> => next[s[Len(s)]] = 0)
  BY <1>2 DEF Walked
<1>7. \A i \in DOMAIN s : s[i] \in S
  BY <1>6
<1>8. s # << >> => find_next(h, Last(s)) = epilogue(h)
  <2> SUFFICES ASSUME s # << >>
               PROVE  find_next(h, Last(s)) = epilogue(h)
    OBVIOUS
  <2> DEFINE c == s[Len(s)]
  <2>1. Last(s) = c /\ c \in S /\ next[c] = 0
    BY <1>6 DEF Last
  <2> HIDE DEF c
  <2>2. c + H[c].size >= e
    BY <1>2, <1>4, <2>1
  <2> DEFINE n == c + H[c].size
  <2>3. n \in Nat /\ n <= e /\ n >= e /\ find_next(h, c) = n
    BY <1>4, <2>1, <2>2
  <2> HIDE DEF n
  <2>4. find_next(h, c) = e
    BY <1>5, <2>3
  <2> QED
    BY <1>1, <2>1, <2>4
<1>9. check_prologue_epilogue(h)
  BY PrologueReads
<1> QED
  BY <1>3, <1>7, <1>8, <1>9 DEF general_heap_checker, s

(***************************************************************************)
(* check_list accepts: every listed block is free and in range, links      *)
(* agree in both directions, each block is on the list of its size, and    *)
(* the lists have as many blocks as the heap has free ones.                *)
(***************************************************************************)
LEMMA ListsAccepted ==
  ASSUME NEW g, BH!WF(g, {}), NEW h, Shows(h, g)
  PROVE  check_list(h)
<1> DEFINE H == g.hdr
           e == g.brk - 8
           B == g.bins
<1>1. Tiling(H, e) /\ Binny(H, B) /\ Rep(h, H, B) /\ ReadBack(h, g) /\ h.brk = g.brk
  BY TilingOf, BinsOf, ReadsBack DEF Shows
<1>2. h \in HeapRec /\ \A k \in Bins : ListRep(h, k, B[k])
  BY <1>1 DEF Rep
<1>3. ASSUME NEW i \in Classes, NEW c \in ToSet(seg_chain(h, i))
      PROVE  /\ 0 <= c /\ c <= h.brk - 1
             /\ Word(h, c + NextField) # NULL => Word(h, Word(h, c + NextField) + PrevField) = c
             /\ find_class(get_size(h, c)) = i
  <2>1. i \in Bins /\ i # -1 /\ LinkOff(i) = 16
    BY <1>3, Consts DEF Bins, LinkOff
  <2>2. ToSet(seg_chain(h, i)) = B[i]
    <3>1. ListOf(h, i) = seg_chain(h, i)
      BY <2>1 DEF ListOf
    <3> QED
      BY <1>1, <2>1, <3>1 DEF ReadBack
  <2> DEFINE S == B[i]
  <2>3. c \in S /\ ListRep(h, i, S) /\ Nodes(H, i, S)
    BY <1>1, <1>2, <1>3, <2>1, <2>2 DEF Binny, Nodes
  <2> HIDE DEF S, H, e, B
  <2>4. NodesOK(S, i)
    BY <1>1, <2>1, <2>3, NodesFacts
  <2>5. /\ c \in DOMAIN H /\ c # e /\ BlockAt(H, c, e) /\ i = find_class(H[c].size)
    <3>1. Node(H, i, c)
      BY <2>3 DEF Nodes
    <3> QED
      BY <1>1, <2>1, <3>1, NodeFacts
  <2>6. get_size(h, c) = H[c].size
    BY <1>1, <2>5 DEF ReadBack, HeaderRead, H
  <2>7. 0 <= c /\ c <= h.brk - 1
    <3>1. g.brk \in Nat
      BY TilingOf
    <3> QED
      BY <1>1, <2>5, <3>1 DEF BlockAt, e
  <2>8. Word(h, c + 16) # 0 => Word(h, Word(h, c + 16) + 8) = c
    <3>1. c + 16 \in Addrs
      BY <2>1, <2>3, <2>4 DEF NodesOK
    <3> DEFINE n == h.mem[c + 16]
    <3>2. Word(h, c + 16) = n
      BY <1>2, <3>1, WordFact
    <3>3. n \in S \cup {0}
      BY <1>2, <2>1, <2>3, <2>4, NextNode
    <3>4. n # 0 => h.mem[n + 8] = c
      BY <2>1, <2>3 DEF ListRep, BackLinks
    <3> HIDE DEF n
    <3>5. n # 0 => n + 8 \in Addrs
      BY <2>4, <3>3 DEF NodesOK
    <3> DEFINE a == n + 8
    <3>6. n # 0 => a \in Addrs /\ h.mem[a] = c
      BY <3>4, <3>5
    <3> HIDE DEF a
    <3>7. n # 0 => Word(h, a) = c
      BY <1>2, <3>6, WordFact
    <3> QED
      BY <3>2, <3>7 DEF a
  <2> QED
    BY <2>5, <2>6, <2>7, <2>8, Consts
<1> QED
  BY <1>3 DEF check_list

(***************************************************************************)
(* The invariant gives that mm_checkheap accepts.                          *)
(***************************************************************************)
LEMMA InvChecks ==
  ASSUME Inv
  PROVE  HeapChecks
BY InvHeap, HeapAccepted, ListsAccepted DEF HeapChecks, mm_checkheap

(***************************************************************************)
(* extend_heap fails only when the heap has no room.                       *)
(***************************************************************************)
LEMMA NoRoom ==
  ASSUME NEW g, BH!WF(g, {}), NEW n \in Nat, n % 16 = 0, n >= 16, n + 16 <= SIZE_MOD,
         BH!extend_heap(g, n).block = 0
  PROVE  g.brk + n > MaxHeap
<1> SUFFICES ASSUME ~ (g.brk + n > MaxHeap)
             PROVE  FALSE
  OBVIOUS
<1>1. g.brk \in Nat /\ g.brk >= 16 /\ g.brk <= MaxHeap
  BY TilingOf
<1>2. ~ BH!mem_sbrk_fails(g, n)
  <2>1. n < SIZE_MOD \div 2
    BY <1>1, Consts
  <2> QED
    BY <1>1, <2>1, Consts DEF BH!mem_sbrk_fails
<1>3. BH!extend_heap(g, n) = BH!coalesce_block(BH!grow(g, n), BH!epilogue(g))
  BY <1>2, RoundMultiple DEF BH!extend_heap
<1> DEFINE G == BH!grow(g, n)
           b == BH!epilogue(g)
           r == BH!coalesce_block(G, b)
<1>4. BH!WF(G, {b}) /\ b \in DOMAIN G.hdr \ {BH!epilogue(G)} /\ ~ G.hdr[b].alloc
  <2>1. n \in Nat /\ n % 16 = 0 /\ n >= 16 /\ g.brk + n <= MaxHeap /\ BH!WF(g, {})
    BY <1>1, Consts
  <2> QED
    BY ONLY <2>1, Premises, BH!Grow
<1> HIDE DEF G, b
<1>5. BH!WF(r.hp, {}) /\ r.block \in DOMAIN r.hp.hdr
  BY <1>4, Premises, BH!Coalesce
<1>6. r.block = 0
  BY <1>3 DEF G, b
<1> HIDE DEF r
<1>7. \A c \in DOMAIN r.hp.hdr : c >= 8 /\ c \in Nat
  BY <1>5, TilingOf DEF Tiling
<1> QED
  BY <1>5, <1>6, <1>7

(***************************************************************************)
(* When malloc grows the heap or fails, no free block was large enough,    *)
(* and when it fails the heap could not grow either.                       *)
(***************************************************************************)
LEMMA MallocSearches ==
  ASSUME NEW g, BH!WF(g, {}), NEW size, BH!FitsWord(size), size # 0, NEW n \in BH!malloc(g, size),
         NEW a, a = adjusted_size(size), NEW x, x = IF a > chunksize THEN a ELSE chunksize
  PROVE  /\ n.hp.brk # g.brk \/ n.bp = 0 =>
              \A c \in DOMAIN g.hdr : g.hdr[c].alloc \/ g.hdr[c].size < a
         /\ n.bp = 0 => g.brk + x > MaxHeap
<1>1. g.brk \in Nat /\ g.brk >= 16
  BY TilingOf
<1>2. a \in Nat /\ a % 16 = 0 /\ a >= 16 /\ a + 16 <= SIZE_MOD /\ a = BH!adjusted_size(size)
  BY BridgeRound, Premises, BH!AdjustedSize
<1>3. x \in Nat /\ x % 16 = 0 /\ x >= 16 /\ x + 16 <= SIZE_MOD
  BY <1>2, Consts
<1>4. BH!initialised(g) = g /\ ~ BH!init_fails(g)
  BY <1>1 DEF BH!initialised, BH!init_fails
<1> DEFINE fit == BH!find_fit(g, a)
           ext == BH!extend_heap(g, x)
<1>5. BH!malloc(g, size) = IF fit # {}
        THEN {[hp |-> BH!place(g, b, a), bp |-> b + 8] : b \in fit}
        ELSE IF ext.block = 0 THEN {[hp |-> g, bp |-> 0]}
        ELSE {[hp |-> BH!place(ext.hp, ext.block, a), bp |-> ext.block + 8]}
  BY <1>2, <1>4, Bridge DEF BH!malloc
<1>6. CASE fit # {}
  <2>1. PICK b \in fit : n = [hp |-> BH!place(g, b, a), bp |-> b + 8]
    BY <1>5, <1>6
  <2>2. b \in DOMAIN g.hdr /\ ~ g.hdr[b].alloc /\ a <= g.hdr[b].size
    BY <2>1, FitTakes
  <2>3. BH!place(g, b, a).brk = g.brk
    BY <1>2, <2>2, Premises, BH!Place
  <2>4. b \in Nat
    BY <2>2, TilingOf DEF Tiling
  <2> QED
    BY <2>1, <2>3, <2>4
<1>7. CASE fit = {}
  <2>1. \A c \in DOMAIN g.hdr : g.hdr[c].alloc \/ g.hdr[c].size < a
    <3>1. ASSUME NEW c \in DOMAIN g.hdr, ~ g.hdr[c].alloc, a <= g.hdr[c].size
          PROVE  FALSE
      BY <1>2, <1>7, <3>1, Premises, BH!FitFound
    <3>2. \A c \in DOMAIN g.hdr : g.hdr[c].size \in Nat
      BY TilingOf, SizeBound
    <3> QED
      BY <1>2, <3>1, <3>2
  <2>2. n.bp = 0 => ext.block = 0
    <3>1. ASSUME ext.block # 0
          PROVE  n.bp # 0
      <4>1. n.bp = ext.block + 8
        BY <1>5, <1>7, <3>1
      <4>2. ext.block \in Nat
        <5>1. BH!WF(ext.hp, {}) /\ ext.block \in DOMAIN ext.hp.hdr
          BY <1>3, <3>1, Premises, Bridge, BH!Extend
        <5> HIDE DEF ext
        <5> QED
          BY <5>1, TilingOf DEF Tiling
      <4> QED
        BY <4>1, <4>2
    <3> QED
      BY <3>1
  <2>3. ext.block = 0 => g.brk + x > MaxHeap
    BY <1>3, NoRoom
  <2> QED
    BY <2>1, <2>2, <2>3
<1> QED
  BY <1>6, <1>7

(***************************************************************************)
(* The invariant gives that a fit that exists is found.                    *)
(***************************************************************************)
LEMMA InvFit ==
  ASSUME Inv, \A size \in Sizes : BH!FitsWord(size)
  PROVE  FitIsFound
<1> SUFFICES ASSUME NEW size \in Sizes \ {0}, heap.heap_start # NULL
             PROVE  LET m == malloc(heap, size)
                        asize == adjusted_size(size)
                        fits == {b \in Blocks(heap) :
                                   ~get_alloc(heap, b) /\ get_size(heap, b) >= asize}
                    IN  /\ m.h.brk # heap.brk => fits = {}
                        /\ m.bp = NULL =>
                             fits = {} /\ heap.brk + Max({asize, chunksize}) > MaxHeap
  BY DEF FitIsFound
<1> DEFINE g == BlockView(heap)
           m == malloc(heap, size)
           a == adjusted_size(size)
           x == IF a > chunksize THEN a ELSE chunksize
           fits == {b \in Blocks(heap) : ~get_alloc(heap, b) /\ get_size(heap, b) >= a}
<1>1. BH!WF(g, {}) /\ Shows(heap, g) /\ Stands(heap, g)
  BY InvHeap DEF Inv, Standing
<1>2. BH!FitsWord(size) /\ size # 0
  OBVIOUS
<1>3. PICK n \in BH!malloc(g, size) : Shows(m.h, n.hp) /\ m.bp = n.bp
  BY <1>1, <1>2, MallocShows DEF MallocShown
<1>4. m.h.brk = n.hp.brk /\ heap.brk = g.brk
  BY <1>1, <1>3 DEF Shows
<1>5. a \in Nat
  BY <1>2, BridgeRound, Premises, BH!AdjustedSize
<1>6. Max({a, chunksize}) = x
  BY <1>5, Consts, MaxOfTwo
<1> HIDE DEF g
<1>7. /\ n.hp.brk # g.brk \/ n.bp = 0 =>
           \A c \in DOMAIN g.hdr : g.hdr[c].alloc \/ g.hdr[c].size < a
      /\ n.bp = 0 => g.brk + x > MaxHeap
  <2>1. a = adjusted_size(size) /\ x = IF a > chunksize THEN a ELSE chunksize
    OBVIOUS
  <2> HIDE DEF a, x
  <2> QED
    BY <1>1, <1>2, <2>1, MallocSearches
<1>8. (\A c \in DOMAIN g.hdr : g.hdr[c].alloc \/ g.hdr[c].size < a) => fits = {}
  <2>1. ReadBack(heap, g) /\ Tiling(g.hdr, g.brk - 8)
    BY <1>1, ReadsBack, TilingOf
  <2>2. \A c \in Blocks(heap) : /\ c \in DOMAIN g.hdr /\ get_alloc(heap, c) = g.hdr[c].alloc
                                /\ get_size(heap, c) = g.hdr[c].size
    BY <2>1 DEF ReadBack, HeaderRead
  <2>3. \A c \in DOMAIN g.hdr : g.hdr[c].size \in Nat
    BY <2>1, SizeBound
  <2> HIDE DEF a
  <2> QED
    BY <1>5, <2>2, <2>3
<1> HIDE DEF m, a, x, fits
<1> QED
  BY <1>3, <1>4, <1>6, <1>7, <1>8, Consts DEF m, a, fits

-----------------------------------------------------------------------------
(***************************************************************************)
(* No request is so large that its arithmetic wraps: every size that is    *)
(* asked for leaves room for the rounding and the header in a word.        *)
(* MCMmWrap shows what goes wrong without it. The client fills its blocks  *)
(* with word values.                                                       *)
(***************************************************************************)
NoWrap ==
  /\ \A size \in Sizes \cup ReallocSizes : Block!FitsWord(size)
  /\ \A c \in CallocArgs :
       c[1] \in Nat /\ c[2] \in Nat /\ Block!FitsWord((c[1] * c[2]) % SIZE_MOD)
  /\ Fills \subseteq Words

(***************************************************************************)
(* Fitting a word is the same at both levels.                              *)
(***************************************************************************)
LEMMA BridgeFits ==
  ASSUME NEW size
  PROVE  Block!FitsWord(size) <=> BH!FitsWord(size)
BY DEF Block!FitsWord, BH!FitsWord, Block!wsize, Block!dsize, BH!wsize, BH!dsize

(***************************************************************************)
(* The block-level step from g and the records L to g1 and L1, over the    *)
(* inputs of the specification.                                            *)
(***************************************************************************)
Stepped(g, L, g1, L1) ==
  \/ \E size \in Sizes \cup (ReallocSizes \ {0}) : CanHoldMore /\ Acquires(g, L, g1, L1, size)
  \/ \E c \in CallocArgs : /\ CanHoldMore /\ c[1] # 0
                           /\ ((c[1] * c[2]) % SIZE_MOD) \div c[1] = c[2]
                           /\ Acquires(g, L, g1, L1, (c[1] * c[2]) % SIZE_MOD)
  \/ \E r \in L : g1 = BH!free(g, r.ptr) /\ L1 = L \ {r}
  \/ \E r \in L, size \in ReallocSizes \ {0} : Moves(g, L, g1, L1, r, size)
  \/ g1 = g /\ L1 = L
  \/ g1 = BH!mm_init(g).hp /\ L1 = {}

(***************************************************************************)
(* The heap u and records M are reached by a block-level step and satisfy  *)
(* the invariant.                                                          *)
(***************************************************************************)
Goes(u, M) ==
  \E g1 : Standing(u, M, g1) /\ Stepped(BlockView(heap), live, g1, M)

(***************************************************************************)
(* Zero is a word.                                                         *)
(***************************************************************************)
LEMMA ZeroWord == 0 \in Words
BY ZeroAddr

(***************************************************************************)
(* Malloc preserves the invariant along a block-level step.                *)
(***************************************************************************)
LEMMA MallocGoes ==
  ASSUME NoWrap, Inv, NEW size \in Sizes, NEW fill \in Fills, Malloc(size, fill)
  PROVE  Goes(heap', live')
<1> DEFINE g == BlockView(heap)
           m == malloc(heap, size)
<1>1. CanHoldMore /\ IF m.bp = 0
        THEN heap' = m.h /\ live' = live
        ELSE heap' = memset(m.h, m.bp, size, fill) /\ live' = live \cup {Held(m.bp, size, fill)}
  BY Consts DEF Malloc
<1>2. Standing(heap, live, g) /\ BH!FitsWord(size) /\ fill \in Words /\ m = malloc(heap, size)
  BY BridgeFits DEF Inv, NoWrap
<1> HIDE DEF g, m
<1>3. /\ heap' = IF m.bp = 0 THEN m.h ELSE memset(m.h, m.bp, size, fill)
      /\ live' = IF m.bp = 0 THEN live ELSE live \cup {Held(m.bp, size, fill)}
  BY <1>1
<1>4. \E g1 : Standing(heap', live', g1) /\ Acquires(g, live, g1, live', size)
  BY <1>2, <1>3, MallocStep
<1> QED
  BY <1>1, <1>4 DEF Goes, Stepped, g

(***************************************************************************)
(* So does Free.                                                           *)
(***************************************************************************)
LEMMA FreeGoes ==
  ASSUME Inv, NEW r \in live, heap' = free(heap, r.ptr), live' = live \ {r}
  PROVE  Goes(heap', live')
<1> DEFINE g == BlockView(heap)
           t == BH!free(g, r.ptr)
           u == heap'
<1>1. Standing(heap, live, g) /\ t = BH!free(g, r.ptr) /\ u = free(heap, r.ptr)
  BY DEF Inv
<1> HIDE DEF g, t, u
<1>2. Standing(u, live \ {r}, t)
  BY <1>1, FreeStanding
<1>3. Stepped(g, live, t, live \ {r})
  BY <1>1 DEF Stepped
<1>4. Goes(u, live \ {r})
  BY <1>2, <1>3 DEF Goes, g
<1> QED
  BY <1>4 DEF u

(***************************************************************************)
(* So does Calloc, whose product may be refused or zero.                   *)
(***************************************************************************)
LEMMA CallocGoes ==
  ASSUME NoWrap, Inv, NEW c \in CallocArgs, Calloc(c[1], c[2])
  PROVE  Goes(heap', live')
<1> DEFINE g == BlockView(heap)
           k == c[1]
           s == c[2]
           a == (k * s) % SIZE_MOD
           m == malloc(heap, a)
           d == calloc(heap, k, s)
<1>1. Standing(heap, live, g) /\ BH!FitsWord(a) /\ k \in Nat /\ s \in Nat /\ 0 \in Words
  BY BridgeFits, ZeroWord DEF Inv, NoWrap
<1>2. CanHoldMore /\ heap' = d.h /\ live' = IF d.bp = 0 THEN live ELSE live \cup {Held(d.bp, k * s, 0)}
  BY Consts DEF Calloc
<1>3. CASE k = 0 \/ a \div k # s
  <2>1. d = [h |-> heap, bp |-> 0]
    BY <1>3, Consts DEF calloc
  <2>2. heap' = heap /\ live' = live
    BY <1>2, <2>1
  <2> HIDE DEF g
  <2>3. Stepped(g, live, g, live)
    BY DEF Stepped
  <2> QED
    BY <1>1, <2>2, <2>3 DEF Goes, g
<1>4. CASE k # 0 /\ a \div k = s
  <2>1. d = clear(m, a)
    BY <1>4 DEF calloc
  <2>2. k * s = a
    <3> HIDE DEF k, s
    <3> DEFINE q == k * s
    <3>1. q \in Nat
      BY <1>1
    <3>2. a = q % SIZE_MOD /\ a \in Nat /\ a <= q
      <4> HIDE DEF q
      <4>1. q % SIZE_MOD \in Nat /\ q % SIZE_MOD <= q
        BY <3>1, Consts
      <4> QED
        BY <4>1 DEF q
    <3> HIDE DEF a
    <3>3. k * (a \div k) <= a
      BY <1>1, <1>4, <3>2
    <3>4. q <= a
      BY <1>4, <3>3 DEF q
    <3> HIDE DEF q
    <3> QED
      BY <3>1, <3>2, <3>4 DEF q
  <2> DEFINE u == heap'
             M == live'
  <2>3. /\ u = IF m.bp = 0 THEN m.h ELSE memset(m.h, m.bp, a, 0)
        /\ M = IF m.bp = 0 THEN live ELSE live \cup {Held(m.bp, a, 0)}
    <3>1. d.bp = m.bp /\ d.h = IF m.bp = 0 THEN m.h ELSE memset(m.h, m.bp, a, 0)
      <4> HIDE DEF m, a, d
      <4> QED
        BY <2>1, Consts DEF clear
    <3> HIDE DEF m, a, d, k, s
    <3> QED
      BY <1>2, <2>2, <3>1
  <2>4. m = malloc(heap, a)
    OBVIOUS
  <2>5. CanHoldMore
    BY <1>2
  <2> HIDE DEF m, a, d, k, s, g, u, M
  <2>6. \E g1 : Standing(u, M, g1) /\ Acquires(g, live, g1, M, a)
    BY ONLY <1>1, <2>3, <2>4, MallocStep
  <2>7. ASSUME NEW g1, Acquires(g, live, g1, M, a)
        PROVE  Stepped(g, live, g1, M)
    BY <1>4, <2>5, <2>7 DEF Stepped, a, k, s
  <2>8. Goes(u, M)
    BY <2>6, <2>7 DEF Goes, g
  <2> QED
    BY <2>8 DEF u, M
<1> QED
  BY <1>3, <1>4

(***************************************************************************)
(* So does Reset: mem_reset_brk and mm_init, which forget the client's     *)
(* blocks.                                                                 *)
(***************************************************************************)
LEMMA ResetGoes ==
  ASSUME Inv, Reset
  PROVE  Goes(heap', live')
<1> DEFINE g == BlockView(heap)
           h == mem_reset_brk(heap)
           r == mm_init(h)
           q == BH!mm_init(g)
           u == heap'
<1>1. heap \in HeapRec
  BY DEF Inv, Standing, Stands, Shows, Rep
<1>2. h \in HeapRec /\ h.brk = 0
  <2>1. [x \in Addrs |-> 0] \in [Addrs -> Words] /\ 0 \in 0 .. MaxHeap
    BY ZeroWord, Consts
  <2> QED
    BY <1>1, <2>1 DEF mem_reset_brk, HeapRec
<1>3. u = r.h /\ live' = {} /\ r = mm_init(h) /\ q = BH!mm_init(g)
  BY DEF Reset
<1>4. BH!WF(q.hp, {}) /\ BH!Used(q.hp) = {}
  BY Premises, BH!MmInit
<1> HIDE DEF g, h, r, q, u
<1>5. Shows(r.h, q.hp)
  BY <1>2, <1>3, InitShows
<1>6. Client(u, {}, {})
  BY FS_EmptySet DEF Client, BH!Owns
<1>7. Standing(u, {}, q.hp)
  BY <1>3, <1>4, <1>5, <1>6 DEF Standing, Stands
<1>8. Stepped(g, live, q.hp, {})
  BY <1>3 DEF Stepped
<1>9. Goes(u, {})
  BY <1>7, <1>8 DEF Goes, g
<1> QED
  BY <1>3, <1>9 DEF u

-----------------------------------------------------------------------------
(***************************************************************************)
(* So does a realloc of a held block to a size that is not zero.           *)
(***************************************************************************)
LEMMA ReallocMoves ==
  ASSUME NoWrap, Inv, NEW r \in live, NEW size \in ReallocSizes, size # 0, Realloc(r, size)
  PROVE  Goes(heap', live')
<1> DEFINE g == BlockView(heap)
           k == round_up(Min({r.size, size}), wsize)
           w == move(malloc(heap, size), r.ptr, size)
           u == heap'
           M == live'
<1>1. realloc(heap, r.ptr, size) = w
  BY DEF realloc
<1>2. /\ u = IF w.bp = 0 THEN w.h ELSE memset(w.h, w.bp + k, size - k, r.fill)
      /\ M = IF w.bp = 0 THEN live ELSE (live \ {r}) \cup {Held(w.bp, size, r.fill)}
  <2> HIDE DEF w, k
  <2> QED
    BY <1>1, Consts DEF Realloc, k
<1>3. /\ Standing(heap, live, g) /\ r \in live /\ BH!FitsWord(size)
      /\ w = move(malloc(heap, size), r.ptr, size) /\ k = round_up(Min({r.size, size}), wsize)
  BY BridgeFits DEF Inv, NoWrap
<1> HIDE DEF g, k, w, u, M
<1>4. \E g1 : Standing(u, M, g1) /\ Moves(g, live, g1, M, r, size)
  BY ONLY <1>2, <1>3, MoveStep
<1>5. ASSUME NEW g1, Moves(g, live, g1, M, r, size)
      PROVE  Stepped(g, live, g1, M)
  BY <1>5 DEF Stepped
<1>6. Goes(u, M)
  BY <1>4, <1>5 DEF Goes, g
<1> QED
  BY <1>6 DEF u, M

(***************************************************************************)
(* A realloc of NULL is a malloc.                                          *)
(***************************************************************************)
LEMMA ReallocAcquires ==
  ASSUME NoWrap, Inv, NEW size \in ReallocSizes, size # 0, Realloc(Nothing, size)
  PROVE  Goes(heap', live')
<1> DEFINE g == BlockView(heap)
           r == Nothing
           k == round_up(Min({r.size, size}), wsize)
           m == malloc(heap, size)
           u == heap'
           M == live'
<1>1. r.ptr = 0 /\ r.size = 0 /\ r.fill = 0 /\ r \notin live
  BY NothingFacts, NothingNotHeld DEF Inv
<1>2. Standing(heap, live, g) /\ BH!FitsWord(size) /\ 0 \in Words /\ m = malloc(heap, size)
  BY BridgeFits, ZeroWord DEF Inv, NoWrap
<1>3. size \in Nat /\ size + 24 <= SIZE_MOD
  BY <1>2, Bridge DEF BH!FitsWord
<1>4. k = 0
  <2>1. Min({0, size}) = 0
    BY <1>3, MinOfTwo
  <2>2. k = round_up(0, wsize)
    BY <1>1, <2>1
  <2>3. 0 + 24 <= SIZE_MOD
    BY Consts
  <2> HIDE DEF k
  <2>4. k \in Nat /\ k % 8 = 0 /\ k < 0 + 8
    BY <2>2, <2>3, KeptSize
  <2> QED
    BY <2>4
<1>5. realloc(heap, r.ptr, size) = m
  BY <1>1, Consts DEF realloc, move
<1> HIDE DEF k, m, r
<1>6. CanHoldMore /\ IF m.bp = 0 THEN u = m.h /\ M = live
                     ELSE /\ u = memset(m.h, m.bp + k, size - k, r.fill)
                          /\ M = (live \ {r}) \cup {Held(m.bp, size, r.fill)}
  BY <1>5, Consts DEF Realloc, k, r
<1>7. m.bp # 0 => m.bp \in Nat
  <2>1. Stands(heap, g)
    BY <1>2 DEF Standing
  <2>2. PICK n \in BH!malloc(g, size) : Got(m, n, heap, g, size)
    <3> HIDE DEF g
    <3> QED
      BY <1>2, <2>1, Acquired
  <2> QED
    BY <2>2 DEF Got, New
<1>8. /\ u = IF m.bp = 0 THEN m.h ELSE memset(m.h, m.bp, size, 0)
      /\ M = IF m.bp = 0 THEN live ELSE live \cup {Held(m.bp, size, 0)}
  <2>1. CASE m.bp = 0
    BY <1>6, <2>1
  <2>2. CASE m.bp # 0
    <3>1. m.bp + k = m.bp /\ size - k = size
      BY <1>3, <1>4, <1>7, <2>2
    <3>2. live \ {r} = live
      BY <1>1
    <3> QED
      BY <1>1, <1>6, <2>2, <3>1, <3>2
  <2> QED
    BY <2>1, <2>2
<1> HIDE DEF g, u, M
<1>9. \E g1 : Standing(u, M, g1) /\ Acquires(g, live, g1, M, size)
  BY ONLY <1>2, <1>8, MallocStep
<1>10. ASSUME NEW g1, Acquires(g, live, g1, M, size)
       PROVE  Stepped(g, live, g1, M)
  BY <1>6, <1>10 DEF Stepped
<1>11. Goes(u, M)
  BY <1>9, <1>10 DEF Goes, g
<1> QED
  BY <1>11 DEF u, M

(***************************************************************************)
(* So does Realloc in all its cases; a size of zero frees.                 *)
(***************************************************************************)
LEMMA ReallocGoes ==
  ASSUME NoWrap, Inv, NEW r \in live \cup {Nothing}, NEW size \in ReallocSizes, Realloc(r, size)
  PROVE  Goes(heap', live')
<1>1. CASE size = 0
  <2>1. heap' = free(heap, r.ptr) /\ live' = live \ {r}
    BY <1>1, Consts DEF Realloc, realloc
  <2>2. CASE r \in live
    BY <2>1, <2>2, FreeGoes
  <2>3. CASE r = Nothing
    <3>1. r.ptr = 0 /\ r \notin live
      BY <2>3, NothingFacts, NothingNotHeld DEF Inv
    <3>2. heap' = heap
      BY <2>1, <3>1, Consts DEF free
    <3>3. live' = live
      BY <2>1, <3>1
    <3> DEFINE g == BlockView(heap)
    <3>4. Standing(heap, live, g)
      BY DEF Inv
    <3> HIDE DEF g
    <3>5. Stepped(g, live, g, live)
      BY DEF Stepped
    <3> QED
      BY <3>2, <3>3, <3>4, <3>5 DEF Goes, g
  <2> QED
    BY <2>2, <2>3
<1>2. CASE size # 0
  BY <1>2, ReallocMoves, ReallocAcquires
<1> QED
  BY <1>1, <1>2

(***************************************************************************)
(* So does every step.                                                     *)
(***************************************************************************)
LEMMA NextGoes ==
  ASSUME NoWrap, Inv, Next
  PROVE  Goes(heap', live')
<1>1. ASSUME NEW size \in Sizes, NEW fill \in Fills, Malloc(size, fill)
      PROVE  Goes(heap', live')
  BY <1>1, MallocGoes
<1>2. ASSUME NEW r \in live, Free(r)
      PROVE  Goes(heap', live')
  BY <1>2, FreeGoes DEF Free
<1>3. ASSUME NEW r \in live \cup {Nothing}, NEW size \in ReallocSizes, Realloc(r, size)
      PROVE  Goes(heap', live')
  BY <1>3, ReallocGoes
<1>4. ASSUME NEW c \in CallocArgs, Calloc(c[1], c[2])
      PROVE  Goes(heap', live')
  BY <1>4, CallocGoes
<1>5. CASE Reset
  BY <1>5, ResetGoes
<1> QED
  BY <1>1, <1>2, <1>3, <1>4, <1>5 DEF Next

(***************************************************************************)
(* What has been shown of a step, in the primed variables.                 *)
(***************************************************************************)
LEMMA GoesInv ==
  ASSUME Goes(heap', live')
  PROVE  Inv' /\ Stepped(BlockView(heap), live, BlockView(heap)', live')
<1>1. PICK g1 : Standing(heap', live', g1) /\ Stepped(BlockView(heap), live, g1, live')
  BY DEF Goes
<1> DEFINE u == heap'
<1>2. Stands(u, g1)
  BY <1>1 DEF Standing
<1> HIDE DEF u
<1>3. BlockView(u) = g1
  BY <1>2, ViewIs
<1>4. BlockView(heap)' = BlockView(heap')
  OBVIOUS
<1>5. BlockView(heap)' = g1
  BY <1>3, <1>4 DEF u
<1>6. Standing(heap', live', BlockView(heap)')
  BY <1>1, <1>5
<1> QED
  BY <1>1, <1>5, <1>6 DEF Inv

(***************************************************************************)
(* Initially there is no heap and the client holds nothing.                *)
(***************************************************************************)
LEMMA InitInv == Init => Inv
<1> SUFFICES ASSUME Init
             PROVE  Inv
  OBVIOUS
<1> DEFINE g == BH!EmptyHeap
<1>1. heap = EmptyHeap /\ live = {}
  BY DEF Init
<1>2. heap \in HeapRec /\ heap.heap_start = 0 /\ heap.brk = 0 /\ \A k \in Bins : HeadOf(heap, k) = 0
  <2>1. [x \in Addrs |-> 0] \in [Addrs -> Words] /\ 0 \in 0 .. MaxHeap /\ 0 \in Addrs /\ NULL = 0
    BY ZeroAddr, Consts
  <2>2. [i \in Classes |-> 0] \in [Classes -> Addrs]
    BY <2>1
  <2>3. heap = [mem |-> [x \in Addrs |-> 0], brk |-> 0, heap_start |-> 0,
                seg_list |-> [i \in Classes |-> 0], mini_list |-> 0]
    BY <1>1, <2>1 DEF EmptyHeap
  <2>4. heap \in HeapRec
    BY <2>1, <2>2, <2>3 DEF HeapRec
  <2>5. \A k \in Bins : HeadOf(heap, k) = 0
    BY <2>3 DEF Bins, HeadOf
  <2> QED
    BY <2>3, <2>4, <2>5
<1>3. Stands(heap, g)
  BY <1>2 DEF Stands
<1> HIDE DEF g
<1>4. BlockView(heap) = g
  BY <1>3, ViewIs
<1>5. BH!Used(g) = {}
  BY Premises, BH!EmptyHeapFacts DEF g
<1>6. Client(heap, live, BH!Used(g))
  BY <1>1, <1>5, FS_EmptySet DEF Client, BH!Owns
<1> QED
  BY <1>3, <1>4, <1>6 DEF Inv, Standing

(***************************************************************************)
(* The invariant is inductive.                                             *)
(***************************************************************************)
LEMMA NextInv ==
  ASSUME NoWrap
  PROVE  Inv /\ [Next]_vars => Inv'
<1> SUFFICES ASSUME Inv, [Next]_vars
             PROVE  Inv'
  OBVIOUS
<1>1. CASE Next
  BY <1>1, NextGoes, GoesInv
<1>2. CASE UNCHANGED vars
  BY <1>2 DEF vars, Inv
<1> QED
  BY <1>1, <1>2

(***************************************************************************)
(* The inductive invariant holds of every behaviour whose requests do not  *)
(* wrap: at every return of malloc, free, realloc and calloc the words of  *)
(* the heap show a well-formed heap, for every heap size, chunk size and   *)
(* word width.                                                             *)
(***************************************************************************)
THEOREM Invariance ==
  ASSUME NoWrap
  PROVE  Spec => []Inv
BY InitInv, NextInv, PTL DEF Spec

(***************************************************************************)
(* The heap and the client's records have their types in every state.      *)
(***************************************************************************)
THEOREM TypeCorrect ==
  ASSUME NoWrap
  PROVE  Spec => []TypeOK
BY Invariance, InvType, PTL

(***************************************************************************)
(* mm_checkheap, with all its parts, accepts the heap after every call:    *)
(* the checker of mm.c raises no alarm on a correct run.                   *)
(***************************************************************************)
THEOREM CheckerAccepts ==
  ASSUME NoWrap
  PROVE  Spec => []HeapChecks
BY Invariance, InvChecks, PTL

(***************************************************************************)
(* After every call the free lists hold exactly the free blocks, each on   *)
(* the list that find_class or the mini rule assigns to its size, once,    *)
(* with links that agree in both directions.                               *)
(***************************************************************************)
THEOREM ListsExact ==
  ASSUME NoWrap
  PROVE  Spec => []FreeListsExact
BY Invariance, InvLists, PTL

(***************************************************************************)
(* After every call the prev_alloc and prev_mini bits of each header       *)
(* describe the block below it, on which find_prev and the missing footers *)
(* of allocated and mini blocks rely.                                      *)
(***************************************************************************)
THEOREM FlagsRight ==
  ASSUME NoWrap
  PROVE  Spec => []BoundaryFlags
BY Invariance, InvFlags, PTL

(***************************************************************************)
(* No call of the allocator changes a word of a block that the client      *)
(* holds: what the client wrote is there until it frees the block, and     *)
(* realloc carries the common prefix over.                                 *)
(***************************************************************************)
THEOREM DataKeptIntact ==
  ASSUME NoWrap
  PROVE  Spec => []ClientDataIntact
BY Invariance, InvData, PTL

(***************************************************************************)
(* Every allocated block of the heap is one the client holds: no block is  *)
(* lost by a split, a coalesce, a failed realloc or a calloc.              *)
(***************************************************************************)
THEOREM NothingLost ==
  ASSUME NoWrap
  PROVE  Spec => []AllocatedIsHeld
BY Invariance, InvHeld, PTL

(***************************************************************************)
(* The invariant gives that a fit is found, for the requests of the        *)
(* specification.                                                          *)
(***************************************************************************)
LEMMA InvFitUnderNoWrap ==
  ASSUME NoWrap, Inv
  PROVE  FitIsFound
BY InvFit, BridgeFits DEF NoWrap

(***************************************************************************)
(* malloc grows the heap or returns NULL only when no free block on any    *)
(* list is large enough: find_fit, which starts at the class of the        *)
(* request and takes the first class that has a fit, misses none.          *)
(***************************************************************************)
THEOREM NoFitMissed ==
  ASSUME NoWrap
  PROVE  Spec => []FitIsFound
BY Invariance, InvFitUnderNoWrap, PTL

-----------------------------------------------------------------------------
(***************************************************************************)
(* BlockHeap under the refinement mapping, Block, and under the instance   *)
(* BH have the same operators; the lemmas from here to SameFree say so,    *)
(* one operator after another.                                             *)
(***************************************************************************)
LEMMA SameWords ==
  /\ Block!wsize = BH!wsize /\ Block!dsize = BH!dsize /\ Block!min_block_size = BH!min_block_size
  /\ Block!NULL = BH!NULL /\ Block!BinIds = BH!BinIds /\ Block!mini_list = BH!mini_list
BY DEF Block!wsize, BH!wsize, Block!dsize, BH!dsize, Block!min_block_size, BH!min_block_size,
       Block!NULL, BH!NULL, Block!BinIds, BH!BinIds, Block!mini_list, BH!mini_list,
       Block!Classes, BH!Classes, Block!LENGTH, BH!LENGTH

(***************************************************************************)
(* The class of a size.                                                    *)
(***************************************************************************)
LEMMA SameClass ==
  ASSUME NEW n
  PROVE  Block!find_class(n) = BH!find_class(n) /\ Block!BinOf(n) = BH!BinOf(n)
<1>2. Block!find_class(n) = BH!find_class(n)
  BY DEF Block!find_class, BH!find_class, Block!Classes, BH!Classes, Block!LENGTH, BH!LENGTH,
         Block!ClassBound, BH!ClassBound
<1> QED
  BY <1>2, SameWords DEF Block!BinOf, BH!BinOf

(***************************************************************************)
(* Rounding.                                                               *)
(***************************************************************************)
LEMMA SameRounding ==
  ASSUME NEW n, NEW k
  PROVE  Block!round_up(n, k) = BH!round_up(n, k) /\ Block!adjusted_size(n) = BH!adjusted_size(n)
BY DEF Block!round_up, BH!round_up, Block!adjusted_size, BH!adjusted_size, Block!wsize, BH!wsize,
       Block!dsize, BH!dsize

(***************************************************************************)
(* Header records.                                                         *)
(***************************************************************************)
LEMMA SameHeader ==
  ASSUME NEW s, NEW a, NEW p, NEW m
  PROVE  Block!Header(s, a, p, m) = BH!Header(s, a, p, m)
BY DEF Block!Header, BH!Header

(***************************************************************************)
(* The neighbours of a block.                                              *)
(***************************************************************************)
LEMMA SameSteps ==
  ASSUME NEW h, NEW b
  PROVE  /\ Block!find_next(h, b) = BH!find_next(h, b) /\ Block!epilogue(h) = BH!epilogue(h)
         /\ Block!find_prev(h, b) = BH!find_prev(h, b)
<1>1. \A c : Block!find_next(h, c) = BH!find_next(h, c)
  BY DEF Block!find_next, BH!find_next
<1>2. Block!epilogue(h) = BH!epilogue(h)
  BY SameWords DEF Block!epilogue, BH!epilogue
<1>3. Block!find_prev(h, b) = BH!find_prev(h, b)
  <2>1. (CHOOSE c \in DOMAIN h.hdr : c < b /\ Block!find_next(h, c) = b)
          = (CHOOSE c \in DOMAIN h.hdr : c < b /\ BH!find_next(h, c) = b)
    BY DEF Block!find_next, BH!find_next
  <2>2. Block!min_block_size = BH!min_block_size
    BY SameWords
  <2> DEFINE p == CHOOSE c \in DOMAIN h.hdr : c < b /\ Block!find_next(h, c) = b
             q == CHOOSE c \in DOMAIN h.hdr : c < b /\ BH!find_next(h, c) = b
  <2>3. Block!find_prev(h, b) = IF h.hdr[b].prev_mini THEN b - Block!min_block_size ELSE p
    BY DEF Block!find_prev
  <2>4. BH!find_prev(h, b) = IF h.hdr[b].prev_mini THEN b - BH!min_block_size ELSE q
    BY DEF BH!find_prev
  <2>5. p = q
    BY <2>1
  <2> HIDE DEF p, q
  <2> QED
    BY <2>2, <2>3, <2>4, <2>5
<1> QED
  BY <1>1, <1>2, <1>3

(***************************************************************************)
(* The lists.                                                              *)
(***************************************************************************)
LEMMA SameBins ==
  ASSUME NEW B, NEW b, NEW s
  PROVE  /\ Block!insert_free(B, b, s) = BH!insert_free(B, b, s)
         /\ Block!remove_free(B, b, s) = BH!remove_free(B, b, s)
BY SameClass DEF Block!insert_free, BH!insert_free, Block!remove_free, BH!remove_free

(***************************************************************************)
(* coalesce_block.                                                         *)
(***************************************************************************)
LEMMA SameCoalesce ==
  ASSUME NEW h, NEW b
  PROVE  Block!coalesce_block(h, b) = BH!coalesce_block(h, b)
BY SameSteps, SameBins, SameHeader, SameWords DEF Block!coalesce_block, BH!coalesce_block

(***************************************************************************)
(* The growth of the heap.                                                 *)
(***************************************************************************)
LEMMA SameGrow ==
  ASSUME NEW h, NEW n
  PROVE  Block!grow(h, n) = BH!grow(h, n)
<1>1. Block!epilogue(h) = BH!epilogue(h)
  BY SameSteps
<1> DEFINE b == BH!epilogue(h)
           e == b + n
           D == DOMAIN h.hdr \cup {e}
<1>2. Block!grow(h, n) =
        [hdr |-> [c \in D |->
                    IF c = e THEN BH!Header(0, TRUE, FALSE, n = BH!min_block_size)
                    ELSE IF c = b THEN BH!Header(n, FALSE, h.hdr[c].prev_alloc, h.hdr[c].prev_mini)
                    ELSE h.hdr[c]],
         bins |-> h.bins, brk |-> h.brk + n]
  BY <1>1, SameHeader, SameWords DEF Block!grow
<1> QED
  BY <1>2 DEF BH!grow

(***************************************************************************)
(* extend_heap.                                                            *)
(***************************************************************************)
LEMMA SameExtend ==
  ASSUME NEW h, NEW n
  PROVE  Block!extend_heap(h, n) = BH!extend_heap(h, n)
BY SameSteps, SameCoalesce, SameGrow, SameRounding, SameWords
   DEF Block!extend_heap, BH!extend_heap, Block!mem_sbrk_fails, BH!mem_sbrk_fails

(***************************************************************************)
(* place and its parts.                                                    *)
(***************************************************************************)
LEMMA SamePlace ==
  ASSUME NEW h, NEW b, NEW a
  PROVE  /\ Block!take(h, b) = BH!take(h, b)
         /\ Block!split_block(h, b, a) = BH!split_block(h, b, a)
         /\ Block!place(h, b, a) = BH!place(h, b, a)
<1>1. \A g, x : Block!take(g, x) = BH!take(g, x)
  BY SameSteps, SameBins, SameHeader DEF Block!take, BH!take
<1>2. ASSUME NEW g, NEW x, NEW y
      PROVE  Block!split_block(g, x, y) = BH!split_block(g, x, y)
  <2> DEFINE z == x + y
             D == DOMAIN g.hdr \cup {z}
  <2>1. Block!split_block(g, x, y) =
          [hdr |-> [c \in D |->
                      IF c = x THEN BH!Header(y, TRUE, g.hdr[c].prev_alloc, g.hdr[c].prev_mini)
                      ELSE IF c = z
                      THEN BH!Header(g.hdr[x].size - y, FALSE, TRUE, y = BH!min_block_size)
                      ELSE g.hdr[c]],
           bins |-> g.bins, brk |-> g.brk]
    BY SameHeader, SameWords DEF Block!split_block
  <2> QED
    BY <2>1 DEF BH!split_block
<1>3. Block!place(h, b, a) = BH!place(h, b, a)
  BY <1>1, <1>2, SameCoalesce, SameWords DEF Block!place, BH!place
<1> QED
  BY <1>1, <1>2, <1>3

(***************************************************************************)
(* find_fit.                                                               *)
(***************************************************************************)
LEMMA SameFit ==
  ASSUME NEW h, NEW a
  PROVE  Block!find_fit(h, a) = BH!find_fit(h, a)
<1>1. Block!Searched(a) = BH!Searched(a)
  BY SameClass, SameWords DEF Block!Searched, BH!Searched
<1> QED
  BY <1>1 DEF Block!find_fit, BH!find_fit

(***************************************************************************)
(* mm_init.                                                                *)
(***************************************************************************)
LEMMA SameInit ==
  ASSUME NEW h
  PROVE  /\ Block!EmptyHeap = BH!EmptyHeap /\ Block!mm_init(h) = BH!mm_init(h)
         /\ Block!initialised(h) = BH!initialised(h)
         /\ Block!init_fails(h) = BH!init_fails(h)
<1>1. Block!EmptyHeap = BH!EmptyHeap /\ Block!BareHeap = BH!BareHeap
  BY SameHeader, SameWords DEF Block!EmptyHeap, BH!EmptyHeap, Block!BareHeap, BH!BareHeap
<1>2. Block!mm_init(h) = BH!mm_init(h)
  BY <1>1, SameExtend DEF Block!mm_init, BH!mm_init
<1> QED
  BY <1>1, <1>2, SameWords DEF Block!initialised, BH!initialised, Block!init_fails, BH!init_fails

(***************************************************************************)
(* malloc.                                                                 *)
(***************************************************************************)
LEMMA SameMalloc ==
  ASSUME NEW h, NEW size
  PROVE  Block!malloc(h, size) = BH!malloc(h, size)
<1> DEFINE h1 == BH!initialised(h)
           a == BH!adjusted_size(size)
           x == IF a > chunksize THEN a ELSE chunksize
           ext == BH!extend_heap(h1, x)
           fit == BH!find_fit(h1, a)
<1>1. /\ Block!initialised(h) = h1 /\ Block!adjusted_size(size) = a
      /\ Block!extend_heap(h1, x) = ext /\ Block!find_fit(h1, a) = fit
      /\ Block!init_fails(h) = BH!init_fails(h) /\ Block!NULL = BH!NULL /\ Block!wsize = BH!wsize
  BY SameInit, SameRounding, SameExtend, SameFit, SameWords
<1>2. \A g, b, n : Block!place(g, b, n) = BH!place(g, b, n)
  BY SamePlace
<1>3. {[hp |-> Block!place(h1, b, a), bp |-> b + BH!wsize] : b \in fit}
        = {[hp |-> BH!place(h1, b, a), bp |-> b + BH!wsize] : b \in fit}
  BY <1>2
<1>4. Block!malloc(h, size) =
        IF BH!init_fails(h) \/ size = 0 THEN {[hp |-> h1, bp |-> BH!NULL]}
        ELSE IF fit # {} THEN {[hp |-> Block!place(h1, b, a), bp |-> b + BH!wsize] : b \in fit}
        ELSE IF ext.block = BH!NULL THEN {[hp |-> h1, bp |-> BH!NULL]}
        ELSE {[hp |-> Block!place(ext.hp, ext.block, a), bp |-> ext.block + BH!wsize]}
  <2> HIDE DEF h1, a, ext, fit
  <2> QED
    BY <1>1 DEF Block!malloc
<1>5. BH!malloc(h, size) =
        IF BH!init_fails(h) \/ size = 0 THEN {[hp |-> h1, bp |-> BH!NULL]}
        ELSE IF fit # {} THEN {[hp |-> BH!place(h1, b, a), bp |-> b + BH!wsize] : b \in fit}
        ELSE IF ext.block = BH!NULL THEN {[hp |-> h1, bp |-> BH!NULL]}
        ELSE {[hp |-> BH!place(ext.hp, ext.block, a), bp |-> ext.block + BH!wsize]}
  BY DEF BH!malloc
<1> HIDE DEF h1, a, ext, fit
<1>6. Block!place(ext.hp, ext.block, a) = BH!place(ext.hp, ext.block, a)
  BY <1>2
<1> QED
  BY <1>3, <1>4, <1>5, <1>6

(***************************************************************************)
(* free.                                                                   *)
(***************************************************************************)
LEMMA SameFree ==
  ASSUME NEW h, NEW bp
  PROVE  Block!free(h, bp) = BH!free(h, bp)
<1>1. \A g, b : Block!mark_free(g, b) = BH!mark_free(g, b)
  BY SameHeader DEF Block!mark_free, BH!mark_free
<1> QED
  BY <1>1, SameCoalesce, SameWords DEF Block!free, BH!free

-----------------------------------------------------------------------------
(***************************************************************************)
(* No two records have the same pointer.                                   *)
(***************************************************************************)
Named(L) == \A r, s \in L : r.ptr = s.ptr => r = s

(***************************************************************************)
(* The client's records are told apart by their pointers.                  *)
(***************************************************************************)
LEMMA InvNamed ==
  ASSUME Inv
  PROVE  Named(live) /\ IsFiniteSet(live)
BY DEF Inv, Standing, Client, BH!Owns, Named

(***************************************************************************)
(* The regions after a record is dropped.                                  *)
(***************************************************************************)
LEMMA RegionsLess ==
  ASSUME NEW L, Named(L), NEW r \in L
  PROVE  Regions(L \ {r}) = Regions(L) \ {Region(r)}
<1>1. \A s : Region(s).ptr = s.ptr
  BY DEF Region
<1>2. \A s \in L : Region(s) = Region(r) => s = r
  BY <1>1 DEF Named
<1> QED
  BY <1>2 DEF Regions

(***************************************************************************)
(* The regions after a record is added.                                    *)
(***************************************************************************)
LEMMA RegionsMore ==
  ASSUME NEW L, NEW bp, NEW size, NEW fill
  PROVE  Regions(L \cup {Held(bp, size, fill)}) = Regions(L) \cup {[ptr |-> bp, size |-> size]}
<1>1. Region(Held(bp, size, fill)) = [ptr |-> bp, size |-> size]
  BY DEF Region, Held
<1> QED
  BY <1>1 DEF Regions

(***************************************************************************)
(* There are as many regions as records.                                   *)
(***************************************************************************)
LEMMA RegionsCount ==
  ASSUME NEW L, Named(L), IsFiniteSet(L)
  PROVE  Cardinality(Regions(L)) = Cardinality(L)
<1> DEFINE T == Regions(L)
           f == [r \in L |-> Region(r)]
<1>1. \A r, s \in L : Region(r) = Region(s) => r = s
  <2>1. \A s : Region(s).ptr = s.ptr
    BY DEF Region
  <2> QED
    BY <2>1 DEF Named
<1>2. f \in [L -> T] /\ \A t \in T : \E r \in L : f[r] = t
  BY DEF Regions
<1>3. \A r, s \in L : f[r] = f[s] => r = s
  BY <1>1
<1> HIDE DEF f, T
<1>4. f \in Bijection(L, T)
  BY <1>2, <1>3 DEF Bijection, Injection, Surjection, IsInjective
<1>5. ExistsBijection(L, T)
  BY <1>4 DEF ExistsBijection
<1>6. Cardinality(T) = Cardinality(L)
  BY <1>5, FS_Bijection
<1> QED
  BY <1>6 DEF T

(***************************************************************************)
(* The refinement mapping of the records.                                  *)
(***************************************************************************)
LEMMA BlockState ==
  ASSUME NEW L
  PROVE  {[ptr |-> r.ptr, size |-> r.size] : r \in L} = Regions(L)
BY DEF Regions, Region

(***************************************************************************)
(* The bound on the client's blocks is the same at both levels.            *)
(***************************************************************************)
LEMMA MayHold ==
  ASSUME Inv, CanHoldMore
  PROVE  Block!CanHoldMore
<1> DEFINE T == {[ptr |-> r.ptr, size |-> r.size] : r \in live}
<1>1. T = Regions(live) /\ Cardinality(Regions(live)) < MaxLive
  BY InvNamed, RegionsCount, BlockState DEF CanHoldMore
<1> HIDE DEF T
<1>2. Block!Cardinality(T) = Cardinality(T)
  BY DEF Block!Cardinality, Cardinality
<1>3. Block!Cardinality(T) < MaxLive
  BY <1>1, <1>2
<1> QED
  BY <1>3 DEF Block!CanHoldMore, T

(***************************************************************************)
(* A call that yields a block is BlockHeap's.                              *)
(***************************************************************************)
LEMMA AcquireIs ==
  ASSUME NEW size, Acquires(BlockView(heap), live, BlockView(heap)', live', size)
  PROVE  Block!Acquire(size)
<1> DEFINE g == BlockView(heap)
<1>1. PICK n \in BH!malloc(g, size) :
        /\ BlockView(heap)' = n.hp
        /\ IF n.bp = 0 THEN live' = live
           ELSE \E fill : live' = live \cup {Held(n.bp, size, fill)}
  BY DEF Acquires
<1>2. n \in Block!malloc(g, size) /\ Block!NULL = 0
  BY SameMalloc, SameWords, Bridge
<1>3. Regions(live') = IF n.bp = 0 THEN Regions(live)
                       ELSE Regions(live) \cup {Block!Region(n.bp, size)}
  BY <1>1, RegionsMore DEF Block!Region
<1> HIDE DEF g
<1>4. {[ptr |-> r.ptr, size |-> r.size] : r \in live}' = Regions(live')
      /\ {[ptr |-> r.ptr, size |-> r.size] : r \in live} = Regions(live)
  BY BlockState
<1> QED
  BY <1>1, <1>2, <1>3, <1>4 DEF Block!Acquire, g

(***************************************************************************)
(* A free is BlockHeap's.                                                  *)
(***************************************************************************)
LEMMA FreeIs ==
  ASSUME Inv, NEW r \in live, BlockView(heap)' = BH!free(BlockView(heap), r.ptr), live' = live \ {r}
  PROVE  \E s \in {[ptr |-> x.ptr, size |-> x.size] : x \in live} : Block!Free(s)
<1> DEFINE s == Region(r)
<1>1. s \in Regions(live) /\ s.ptr = r.ptr
  BY DEF Regions, Region
<1>2. Regions(live') = Regions(live) \ {s}
  BY InvNamed, RegionsLess
<1>3. BlockView(heap)' = Block!free(BlockView(heap), s.ptr)
  BY <1>1, SameFree
<1> HIDE DEF s
<1>4. {[ptr |-> x.ptr, size |-> x.size] : x \in live}' = Regions(live')
      /\ {[ptr |-> x.ptr, size |-> x.size] : x \in live} = Regions(live)
  BY BlockState
<1>5. Block!Free(s)
  BY <1>2, <1>3, <1>4 DEF Block!Free
<1> QED
  BY <1>1, <1>4, <1>5

(***************************************************************************)
(* A realloc that moves is BlockHeap's.                                    *)
(***************************************************************************)
LEMMA MoveIs ==
  ASSUME Inv, NEW r \in live, NEW size, size # 0,
         Moves(BlockView(heap), live, BlockView(heap)', live', r, size)
  PROVE  \E s \in {[ptr |-> x.ptr, size |-> x.size] : x \in live} : Block!Realloc(s, size)
<1> DEFINE s == Region(r)
           g == BlockView(heap)
<1>1. s \in Regions(live) /\ s.ptr = r.ptr
  BY DEF Regions, Region
<1>2. PICK n \in BH!malloc(g, size) :
        IF n.bp = 0 THEN BlockView(heap)' = n.hp /\ live' = live
        ELSE /\ BlockView(heap)' = BH!free(n.hp, r.ptr)
             /\ \E fill : live' = (live \ {r}) \cup {Held(n.bp, size, fill)}
  BY DEF Moves
<1>3. n \in Block!malloc(g, size) /\ Block!NULL = 0
  BY SameMalloc, SameWords, Bridge
<1>4. Regions(live \ {r}) = Regions(live) \ {s}
  BY InvNamed, RegionsLess
<1> HIDE DEF s, g
<1>5. IF n.bp = 0 THEN BlockView(heap)' = n.hp /\ Regions(live') = Regions(live)
      ELSE /\ BlockView(heap)' = Block!free(n.hp, s.ptr)
           /\ Regions(live') = (Regions(live) \ {s}) \cup {Block!Region(n.bp, size)}
  <2>1. CASE n.bp = 0
    BY <1>2, <2>1
  <2>2. CASE n.bp # 0
    <3>1. PICK fill : live' = (live \ {r}) \cup {Held(n.bp, size, fill)}
      BY <1>2, <2>2
    <3>2. Regions(live') = (Regions(live) \ {s}) \cup {Block!Region(n.bp, size)}
      BY <1>4, <3>1, RegionsMore DEF Block!Region
    <3>3. BlockView(heap)' = Block!free(n.hp, s.ptr)
      BY <1>1, <1>2, <2>2, SameFree
    <3> QED
      BY <2>2, <3>2, <3>3
  <2> QED
    BY <2>1, <2>2
<1>6. {[ptr |-> x.ptr, size |-> x.size] : x \in live}' = Regions(live')
      /\ {[ptr |-> x.ptr, size |-> x.size] : x \in live} = Regions(live)
  BY BlockState
<1>7. Block!Realloc(s, size)
  BY <1>3, <1>5, <1>6 DEF Block!Realloc, g
<1> QED
  BY <1>1, <1>6, <1>7

(***************************************************************************)
(* Every step shown above is a step of BlockHeap or a stutter.             *)
(***************************************************************************)
LEMMA SteppedIs ==
  ASSUME Inv, Stepped(BlockView(heap), live, BlockView(heap)', live')
  PROVE  [Block!Next]_(Block!vars)
<1>1. ASSUME NEW size \in Sizes \cup (ReallocSizes \ {0}), CanHoldMore,
             Acquires(BlockView(heap), live, BlockView(heap)', live', size)
      PROVE  Block!Next
  <2>1. Block!Malloc(size)
    BY <1>1, MayHold, AcquireIs DEF Block!Malloc
  <2> QED
    BY <1>1, <2>1 DEF Block!Next
<1>2. ASSUME NEW c \in CallocArgs, CanHoldMore, c[1] # 0,
             ((c[1] * c[2]) % SIZE_MOD) \div c[1] = c[2],
             Acquires(BlockView(heap), live, BlockView(heap)', live', (c[1] * c[2]) % SIZE_MOD)
      PROVE  Block!Next
  <2> DEFINE a == (c[1] * c[2]) % SIZE_MOD
  <2>1. Block!Acquire(a) /\ Block!CanHoldMore
    BY <1>2, MayHold, AcquireIs
  <2>2. Block!Calloc(c[1], c[2])
    BY <1>2, <2>1 DEF Block!Calloc
  <2> QED
    BY <2>2 DEF Block!Next
<1>3. ASSUME NEW r \in live, BlockView(heap)' = BH!free(BlockView(heap), r.ptr), live' = live \ {r}
      PROVE  Block!Next
  BY <1>3, FreeIs DEF Block!Next
<1>4. ASSUME NEW r \in live, NEW size \in ReallocSizes \ {0},
             Moves(BlockView(heap), live, BlockView(heap)', live', r, size)
      PROVE  Block!Next
  BY <1>4, MoveIs DEF Block!Next
<1>5. ASSUME BlockView(heap)' = BlockView(heap), live' = live
      PROVE  UNCHANGED Block!vars
  BY <1>5 DEF Block!vars
<1>6. ASSUME BlockView(heap)' = BH!mm_init(BlockView(heap)).hp, live' = {}
      PROVE  Block!Next
  <2>1. Block!Reset
    BY <1>6, SameInit DEF Block!Reset
  <2> QED
    BY <2>1 DEF Block!Next
<1> QED
  BY <1>1, <1>2, <1>3, <1>4, <1>5, <1>6 DEF Stepped

(***************************************************************************)
(* The initial states map to initial states.                               *)
(***************************************************************************)
LEMMA InitIs == Init => Block!Init
<1> SUFFICES ASSUME Init
             PROVE  Block!Init
  OBVIOUS
<1>1. Inv /\ live = {} /\ heap.brk = 0
  BY InitInv DEF Init, EmptyHeap
<1>2. BlockView(heap) = BH!EmptyHeap
  <2> DEFINE g == BlockView(heap)
  <2>1. Stands(heap, g)
    BY <1>1 DEF Inv, Standing
  <2> HIDE DEF g
  <2>2. g # BH!EmptyHeap => BH!WF(g, {}) /\ Shows(heap, g)
    BY <2>1 DEF Stands
  <2>3. BH!WF(g, {}) /\ Shows(heap, g) => heap.brk >= 16
    BY TilingOf DEF Shows
  <2> QED
    BY <1>1, <2>2, <2>3 DEF g
<1> QED
  BY <1>1, <1>2, SameInit DEF Block!Init

(***************************************************************************)
(* Every step maps to a step or a stutter.                                 *)
(***************************************************************************)
LEMMA NextIs ==
  ASSUME NoWrap
  PROVE  Inv /\ [Next]_vars => [Block!Next]_(Block!vars)
<1> SUFFICES ASSUME Inv, [Next]_vars
             PROVE  [Block!Next]_(Block!vars)
  OBVIOUS
<1>1. CASE Next
  BY <1>1, NextGoes, GoesInv, SteppedIs
<1>2. CASE UNCHANGED vars
  BY <1>2 DEF vars, Block!vars
<1> QED
  BY <1>1, <1>2

(***************************************************************************)
(* The word-level allocator implements the block-level one: under the      *)
(* mapping that reads the blocks and the lists from the words, every       *)
(* behaviour of Mm is a behaviour of BlockHeap, whose own theorems (blocks *)
(* tile the heap, no two free neighbours, allocated blocks never overlap)  *)
(* then hold of mm.c's words.                                              *)
(***************************************************************************)
THEOREM Implementation ==
  ASSUME NoWrap
  PROVE  Spec => ImplementsBlocks
BY Invariance, InitIs, NextIs, PTL DEF Spec, ImplementsBlocks, Block!Spec
=============================================================================
