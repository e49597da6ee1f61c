--------------------------- MODULE EvaluateProofs ---------------------------
(***************************************************************************)
(* Proofs about the evaluation of an allocator on a trace, for every set   *)
(* of requests, heap and amount of random data.                            *)
(***************************************************************************)
EXTENDS Evaluate, NatFacts, FiniteSetTheorems, TLAPS

RP == INSTANCE RangeSetProofs
        WITH HeapSize <- MaxHeap, RangeSizes <- Nat \ {0}, MaxBlocks <- 0,
             blocks <- held

Passes == ValidPasses \cup MeasurePasses

(***************************************************************************)
(* The record of a trace, with arrays as long as it has ids and addresses  *)
(* no higher than the arena.                                               *)
(***************************************************************************)
TraceType(t) ==
  /\ t = [num_ids |-> t.num_ids, num_ops |-> t.num_ops, ops |-> t.ops,
          blocks |-> t.blocks, block_sizes |-> t.block_sizes,
          block_rand_base |-> t.block_rand_base]
  /\ t.num_ids \in 0 .. UINT_MOD - 1 /\ t.num_ops \in Nat
  /\ t.ops \in Seq(Lines)
  /\ t.blocks \in [Ids(t) -> 0 .. MaxHeap]
  /\ t.block_sizes \in [Ids(t) -> 0 .. SIZE_MOD - 1]
  /\ t.block_rand_base \in [Ids(t) -> Nat]

(***************************************************************************)
(* A heap record of mm-naive.c: its break is in the arena and aligned.     *)
(***************************************************************************)
HeapGood(m) ==
  /\ m = [mem |-> m.mem, brk |-> m.brk]
  /\ m.brk \in 0 .. MaxHeap /\ m.brk % 16 = 0

(***************************************************************************)
(* How far read_trace is. Until the file is closed the evaluation has not  *)
(* begun; then all requests are there and name ids of the trace, unless it *)
(* has none.                                                               *)
(***************************************************************************)
Reading ==
  /\ reader \in {"header", "lines", "closed", "exit"}
  /\ max_id_used \in 0 .. UINT_MOD - 1
  /\ reader = "lines" =>
       /\ Len(trace.ops) <= trace.num_ops
       /\ \A k \in DOMAIN trace.ops : trace.ops[k].index <= max_id_used
  /\ reader = "closed" =>
       /\ Len(trace.ops) = trace.num_ops
       /\ trace.num_ids > 0 =>
            \A k \in DOMAIN trace.ops : trace.ops[k].index \in Ids(trace)
  /\ reader # "closed" => at = "start" /\ pass = "valid_1" /\ i = 0

Running ==
  /\ debug_mode \in DebugModes
  /\ at \in {"start", "ops", "over"} /\ pass \in Passes
  /\ i \in 0 .. trace.num_ops + 1 /\ (at = "ops" => i > 0)

(***************************************************************************)
(* The regions handed out end below the break and begin at different       *)
(* addresses.                                                              *)
(***************************************************************************)
HeldSound(H, brk) ==
  /\ \A r \in H :
       /\ r = [ptr |-> r.ptr, size |-> r.size]
       /\ r.ptr \in Nat \ {0} /\ r.size \in Nat \ {0} /\ r.ptr + r.size <= brk
  /\ \A r, s \in H : r.ptr = s.ptr => r = s

Counters ==
  /\ RS!Tracked(ranges) = DOMAIN range_index
  /\ total_size \in 0 .. SIZE_MOD - 1 /\ max_total_size \in 0 .. SIZE_MOD - 1
  /\ allCheck \in BOOLEAN /\ damage \in BOOLEAN /\ faults \in 0 .. 1

(***************************************************************************)
(* The inductive type invariant.                                           *)
(***************************************************************************)
TypeInv ==
  /\ TraceType(trace) /\ HeapGood(h)
  /\ Reading /\ Running /\ Counters
  /\ HeldSound(held, h.brk)

(***************************************************************************)
(* The requests so far that name an id; the last of them says whether the  *)
(* id has a block and, when it was not FREE, of what size.                 *)
(***************************************************************************)
Uses(id) == {j \in 1 .. i - 1 : trace.ops[j].index = id}
IsLast(j, id) == j \in Uses(id) /\ \A l \in Uses(id) : l <= j
Kept(id, size) ==
  \E j \in Uses(id) :
    IsLast(j, id) /\ trace.ops[j].type # "FREE" /\ trace.ops[j].size = size

(***************************************************************************)
(* The ids with a block of at least one byte, and those that never had one *)
(* or gave it up for realloc of 0 bytes. An id that was freed is neither:  *)
(* its entries in the arrays are stale.                                    *)
(***************************************************************************)
Live == {id \in Ids(trace) : \E size \in Nat \ {0} : Kept(id, size)}
Vacant == {id \in Ids(trace) : Uses(id) = {} \/ Kept(id, 0)}

Block(id) == trace.blocks[id]
Size(id) == trace.block_sizes[id]

(***************************************************************************)
(* The arrays of the trace and the regions handed out say the same. Blocks *)
(* have different addresses; that they do not overlap is not needed here,  *)
(* mm-naive.c only makes blocks above the break.                           *)
(***************************************************************************)
Placed ==
  /\ \A id \in Vacant : Block(id) = NULL /\ Size(id) = 0
  /\ \A id \in Live :
       /\ HEADER_SIZE <= Block(id)
       /\ Size(id) > 0 /\ Block(id) + Size(id) <= h.brk
  /\ \A id, jd \in Live : Block(id) = Block(jd) => id = jd
  /\ held = {[ptr |-> Block(id), size |-> Size(id)] : id \in Live}

(***************************************************************************)
(* A sound range set in which only the first range has no predecessor, so  *)
(* that the walk along next meets all of them.                             *)
(***************************************************************************)
Ordered(s) ==
  /\ RP!Sound(s)
  /\ \A a \in RS!Tracked(s) : s.rec[a].prev = RS!NIL => a = s.list

(***************************************************************************)
(* The range set has one range for each live block, over all of its bytes  *)
(* and with its id; with DBG_NONE it stays empty.                          *)
(***************************************************************************)
Ranged ==
  /\ debug_mode = "DBG_NONE" => ranges = RS!new_range_set
  /\ debug_mode # "DBG_NONE" =>
       /\ Ordered(ranges)
       /\ RS!Tracked(ranges) = {Block(id) : id \in Live}
       /\ \A id \in Live :
            /\ ranges.rec[Block(id)].hi = Block(id) + Size(id) - 1
            /\ range_index[Block(id)] = id

(***************************************************************************)
(* The bytes that were left in each live block are the random data that    *)
(* the arrays of the trace lead one to expect.                             *)
(***************************************************************************)
Noted ==
  \A id \in Live :
    /\ Block(id) \in DOMAIN wrote
    /\ debug_mode # "DBG_NONE" =>
         \A k \in Filled(Size(id)) : wrote[Block(id)][k] = Expected(trace, id, k)

(***************************************************************************)
(* The header in front of each live block holds at least its size, and the *)
(* heap still holds its random data. This is what a mistake of the         *)
(* allocator breaks.                                                       *)
(***************************************************************************)
Intact ==
  \A id \in Live :
    /\ Read(h, payload_to_header(Block(id))) \in Nat
    /\ Size(id) <= Read(h, payload_to_header(Block(id)))
    /\ debug_mode # "DBG_NONE" =>
         \A k \in Filled(Size(id)) : Read(h, Block(id) + k) = Expected(trace, id, k)

(***************************************************************************)
(* Checks have failed exactly when bytes that were left have changed.      *)
(***************************************************************************)
Agree == damage <=> ~allCheck

(***************************************************************************)
(* What holds on a well-formed trace whatever mistake the allocator makes. *)
(***************************************************************************)
Followed ==
  /\ reader # "closed" => allCheck /\ ~damage
  /\ WellFormed(trace) /\ pass \in ValidPasses =>
       /\ Agree
       /\ at = "ops" => Placed /\ Ranged /\ Noted

(***************************************************************************)
(* What holds on a well-formed trace when the allocator makes no mistake.  *)
(***************************************************************************)
Undamaged ==
  WellFormed(trace) /\ faults = 0 =>
    /\ allCheck
    /\ at = "ops" /\ pass \in ValidPasses => Intact
    /\ at = "over" => why = "no memory" /\ pass = "valid_1"

-----------------------------------------------------------------------------
(***************************************************************************)
(* The constants as numbers.                                               *)
(***************************************************************************)
LEMMA Consts ==
  /\ MaxHeap \in Nat /\ MaxHeap < SIZE_MOD /\ maxfill \in Nat /\ maxfill > 0
  /\ SIZE_MOD \in Nat /\ SIZE_MOD >= 64 /\ SIZE_MOD % 16 = 0
  /\ UINT_MOD \in Nat /\ UINT_MOD > 0
  /\ wsize = 8 /\ HEADER_SIZE = 16 /\ ALIGNMENT = 16 /\ NULL = 0
  /\ RS!NIL = -1 /\ RP!NIL = -1
<1>1. wsize = 8 /\ HEADER_SIZE = 16 /\ ALIGNMENT = 16 /\ NULL = 0
  BY DEF wsize, HEADER_SIZE, ALIGNMENT, NULL
<1>2. RS!NIL = -1 /\ RP!NIL = -1
  BY DEF RS!NIL, RP!NIL
<1>3. /\ MaxHeap \in Nat /\ MaxHeap < SIZE_MOD /\ maxfill \in Nat /\ maxfill > 0
      /\ SIZE_MOD \in Nat /\ SIZE_MOD >= 64 /\ SIZE_MOD % 16 = 0
      /\ UINT_MOD \in Nat /\ UINT_MOD > 0
  BY EvaluateAssumption, SizeModAssumption, TraceAssumption
<1> QED
  BY <1>1, <1>2, <1>3

(***************************************************************************)
(* The fields of a request.                                                *)
(***************************************************************************)
LEMMA LineFacts ==
  ASSUME NEW line \in Lines
  PROVE  /\ line.type \in Opcodes /\ line.index \in 0 .. UINT_MOD - 1
         /\ line.index \in Nat /\ line.size \in Nat /\ line.size + 32 <= SIZE_MOD
<1>1. line \in [type : Opcodes, index : 0 .. UINT_MOD - 1, size : Nat]
  BY TraceAssumption
<1>2. line.size + HEADER_SIZE + ALIGNMENT <= SIZE_MOD
  BY EvaluateAssumption
<1> QED
  BY <1>1, <1>2, Consts

(***************************************************************************)
(* The size of the block malloc makes: a multiple of 16 with room for the  *)
(* header and the request.                                                 *)
(***************************************************************************)
NewSize(size) == round_up((size + HEADER_SIZE) % SIZE_MOD, ALIGNMENT)

(***************************************************************************)
(* It has room for header and payload, and does not wrap.                  *)
(***************************************************************************)
LEMMA Rounded ==
  ASSUME NEW size \in Nat, size + 32 <= SIZE_MOD
  PROVE  /\ NewSize(size) \in Nat /\ NewSize(size) % 16 = 0
         /\ size + 16 <= NewSize(size)
<1>1. SIZE_MOD \in Nat /\ SIZE_MOD >= 64 /\ HEADER_SIZE = 16 /\ ALIGNMENT = 16
  BY Consts
<1>2. (size + 16) % SIZE_MOD = size + 16 /\ (size + 31) % SIZE_MOD = size + 31
  BY <1>1
<1>3. PICK q \in Nat : q = (size + 31) \div 16 /\ 16 * q <= size + 31 /\ size + 31 < 16 * q + 16
  OBVIOUS
<1>4. (16 * q) % SIZE_MOD = 16 * q
  BY <1>1, <1>3
<1>5. NewSize(size) = 16 * q
  BY <1>1, <1>2, <1>3, <1>4 DEF NewSize, round_up
<1> QED
  BY <1>3, <1>5

(***************************************************************************)
(* malloc of mm-naive.c: it fails and changes nothing, or the block comes  *)
(* from above the break.  No cell below the break changes.                 *)
(***************************************************************************)
LEMMA MallocFacts ==
  ASSUME NEW m, HeapGood(m), NEW size \in Nat, size + 32 <= SIZE_MOD,
         NEW r, r = malloc(m, size)
  PROVE  /\ r = [h |-> r.h, bp |-> r.bp] /\ HeapGood(r.h)
         /\ \A a \in Nat : a < m.brk => Read(r.h, a) = Read(m, a)
         /\ \/ /\ r.bp = NULL /\ r.h = m
               /\ NewSize(size) >= SIZE_MOD \div 2 \/ m.brk + NewSize(size) > MaxHeap
            \/ /\ r.bp = m.brk + 16 /\ r.h.brk = m.brk + NewSize(size)
               /\ NewSize(size) < SIZE_MOD \div 2
               /\ r.bp % 16 = 0 /\ r.bp + size <= r.h.brk
               /\ Read(r.h, m.brk) = NewSize(size)
<1> DEFINE n == NewSize(size)
<1>1. n \in Nat /\ n % 16 = 0 /\ size + 16 <= n
  BY Rounded
<1>2. m.brk \in Nat /\ m.brk <= MaxHeap /\ m.brk % 16 = 0 /\ MaxHeap \in Nat /\ SIZE_MOD \in Nat
  BY Consts DEF HeapGood
<1>3. r = IF n >= SIZE_MOD \div 2 \/ m.brk + n > MaxHeap THEN [h |-> m, bp |-> NULL]
          ELSE [h |-> [Write(m, [a \in {m.brk} |-> n]) EXCEPT !.brk = @ + n],
                bp |-> m.brk + 16]
  BY Consts DEF malloc, mem_sbrk_fails, NewSize, header_to_payload
<1> HIDE DEF n
<1>4. CASE n >= SIZE_MOD \div 2 \/ m.brk + n > MaxHeap
  BY <1>3, <1>4 DEF n
<1>5. CASE ~(n >= SIZE_MOD \div 2 \/ m.brk + n > MaxHeap)
  <2> DEFINE new == [a \in {m.brk} |-> n]
             mem == [a \in DOMAIN m.mem \cup DOMAIN new |->
                       IF a \in DOMAIN new THEN new[a] ELSE m.mem[a]]
  <2>1. Write(m, new) = [mem |-> mem, brk |-> m.brk]
    BY DEF Write, HeapGood
  <2>2. r = [h |-> [mem |-> mem, brk |-> m.brk + n], bp |-> m.brk + 16]
    <3> HIDE DEF mem
    <3> QED
      BY <1>3, <1>5, <2>1
  <2>3. Read(r.h, m.brk) = n
    BY <2>2 DEF Read
  <2>4. ASSUME NEW a \in Nat, a < m.brk
        PROVE  Read(r.h, a) = Read(m, a)
    <3>1. a # m.brk
      BY <1>2, <2>4
    <3> QED
      BY <2>2, <3>1 DEF Read
  <2> HIDE DEF mem
  <2>5. m.brk + n \in 0 .. MaxHeap /\ (m.brk + n) % 16 = 0 /\ (m.brk + 16) % 16 = 0
    BY <1>1, <1>2, <1>5
  <2>6. HeapGood(r.h)
    BY <2>2, <2>5 DEF HeapGood
  <2>7. n < SIZE_MOD \div 2 /\ m.brk + 16 + size <= m.brk + n
    BY <1>1, <1>2, <1>5
  <2> QED
    BY <2>2, <2>3, <2>4, <2>5, <2>6, <2>7 DEF n
<1> QED
  BY <1>4, <1>5

(***************************************************************************)
(* realloc of mm-naive.c: for 0 bytes it does nothing; else it fails and   *)
(* changes nothing, or the block comes from above the break.               *)
(***************************************************************************)
LEMMA ReallocFacts ==
  ASSUME NEW m, HeapGood(m), NEW size \in Nat, size + 32 <= SIZE_MOD, NEW old,
         NEW r, r = realloc(m, old, size)
  PROVE  /\ r = [h |-> r.h, bp |-> r.bp] /\ HeapGood(r.h)
         /\ size = 0 => r.h = m /\ r.bp = NULL
         /\ size # 0 =>
              \/ /\ r.bp = NULL /\ r.h = m
                 /\ NewSize(size) >= SIZE_MOD \div 2 \/ m.brk + NewSize(size) > MaxHeap
              \/ /\ r.bp = m.brk + 16 /\ r.h.brk = m.brk + NewSize(size)
                 /\ NewSize(size) < SIZE_MOD \div 2
                 /\ r.bp % 16 = 0 /\ r.bp + size <= r.h.brk
<1>1. CASE size = 0
  BY <1>1 DEF realloc, free
<1>2. CASE size # 0
  <2>1. PICK q : q = malloc(m, size)
    OBVIOUS
  <2>2. r = copy_over(q, old, size)
    BY <1>2, <2>1 DEF realloc
  <2>3. /\ q = [h |-> q.h, bp |-> q.bp] /\ HeapGood(q.h)
        /\ \/ /\ q.bp = NULL /\ q.h = m
              /\ NewSize(size) >= SIZE_MOD \div 2 \/ m.brk + NewSize(size) > MaxHeap
           \/ /\ q.bp = m.brk + 16 /\ q.h.brk = m.brk + NewSize(size)
              /\ NewSize(size) < SIZE_MOD \div 2
              /\ q.bp % 16 = 0 /\ q.bp + size <= q.h.brk
    BY <2>1, MallocFacts
  <2>4. CASE old = NULL \/ q.bp = NULL
    <3>1. r = q
      BY <2>2, <2>4 DEF copy_over
    <3> QED
      BY <1>2, <2>3, <3>1
  <2>5. CASE ~(old = NULL \/ q.bp = NULL)
    <3>1. PICK n : r = [h |-> memcpy(q.h, q.bp, old, n), bp |-> q.bp]
      BY <2>2, <2>5 DEF copy_over, free
    <3>2. PICK f : memcpy(q.h, q.bp, old, n) = [q.h EXCEPT !.mem = f]
      BY DEF memcpy
    <3>3. r = [h |-> [mem |-> f, brk |-> q.h.brk], bp |-> q.bp]
      BY <2>3, <3>1, <3>2 DEF HeapGood
    <3>4. HeapGood(r.h) /\ r.h.brk = q.h.brk /\ r.bp = q.bp
      BY <2>3, <3>3 DEF HeapGood
    <3> QED
      BY <1>2, <2>3, <2>5, <3>3, <3>4
  <2> QED
    BY <2>4, <2>5
<1> QED
  BY <1>1, <1>2

(***************************************************************************)
(* The data that realloc takes along: as many bytes of the old payload as  *)
(* fit, although the length is taken from the whole old block.             *)
(***************************************************************************)
LEMMA ReallocData ==
  ASSUME NEW m, HeapGood(m), NEW size \in Nat \ {0}, size + 32 <= SIZE_MOD,
         NEW old \in Nat, NEW len \in Nat,
         old # NULL => /\ 16 <= old /\ old + len <= m.brk /\ 0 < len
                       /\ Read(m, old - 16) \in Nat /\ len <= Read(m, old - 16),
         NEW r, r = realloc(m, old, size), r.bp # NULL
  PROVE  /\ \A a \in Nat : a < m.brk => Read(r.h, a) = Read(m, a)
         /\ Read(r.h, m.brk) = NewSize(size)
         /\ old # NULL => \A k \in 0 .. len - 1 :
              k < size => Read(r.h, r.bp + k) = Read(m, old + k)
<1>1. PICK q : q = malloc(m, size)
  OBVIOUS
<1>2. r = copy_over(q, old, size)
  BY <1>1 DEF realloc
<1>3. q.bp # NULL /\ q = [h |-> q.h, bp |-> q.bp]
  BY <1>1, <1>2, MallocFacts DEF copy_over
<1>4. /\ HeapGood(q.h) /\ q.bp = m.brk + 16
      /\ \A a \in Nat : a < m.brk => Read(q.h, a) = Read(m, a)
      /\ Read(q.h, m.brk) = NewSize(size)
  BY <1>1, <1>3, MallocFacts
<1>5. CASE old = NULL
  <2>1. r = q
    BY <1>2, <1>5 DEF copy_over
  <2> QED
    BY <1>4, <1>5, <2>1
<1>6. CASE old # NULL
  <2>1. m.brk \in Nat
    BY Consts DEF HeapGood
  <2>2. /\ old - 16 \in Nat /\ old - 16 < m.brk
        /\ Read(q.h, old - 16) = Read(m, old - 16)
    BY <1>4, <1>6, <2>1
  <2>3. PICK n \in Nat : /\ n = IF size < Read(m, old - 16) THEN size ELSE Read(m, old - 16)
                         /\ \A k \in 0 .. len - 1 : k < size => k < n
    BY <1>6
  <2>4. r = [h |-> memcpy(q.h, q.bp, old, n), bp |-> q.bp]
    BY <1>2, <1>3, <1>6, <2>2, <2>3, Consts DEF copy_over, free, payload_to_header
  <2> DEFINE dst == q.bp .. q.bp + n - 1
             copied == {a \in dst : old + (a - q.bp) \in DOMAIN q.h.mem}
             kept == DOMAIN q.h.mem \ dst
             f == [a \in kept \cup copied |->
                     q.h.mem[IF a \in copied THEN old + (a - q.bp) ELSE a]]
  <2>5. r.h.mem = f /\ r.bp = q.bp
    <3>1. memcpy(q.h, q.bp, old, n) = [q.h EXCEPT !.mem = f]
      BY DEF memcpy
    <3> HIDE DEF f
    <3> QED
      BY <1>4, <2>4, <3>1 DEF HeapGood
  <2>6. ASSUME NEW a \in Nat, a \notin dst
        PROVE  Read(r.h, a) = Read(q.h, a)
    BY <2>5, <2>6 DEF Read
  <2>7. ASSUME NEW k \in 0 .. n - 1
        PROVE  Read(r.h, q.bp + k) = Read(q.h, old + k)
    <3>1. q.bp + k \in dst /\ old + ((q.bp + k) - q.bp) = old + k
      BY <1>4, <2>1
    <3>2. q.bp + k \in copied <=> old + k \in DOMAIN q.h.mem
      BY <3>1
    <3>3. q.bp + k \notin kept
      BY <3>1
    <3>4. CASE old + k \in DOMAIN q.h.mem
      <4>1. f[q.bp + k] = q.h.mem[old + k]
        BY <3>1, <3>2, <3>4
      <4> QED
        BY <2>5, <3>2, <3>4, <4>1 DEF Read
    <3>5. CASE old + k \notin DOMAIN q.h.mem
      BY <2>5, <3>2, <3>3, <3>5 DEF Read
    <3> QED
      BY <3>4, <3>5
  <2>8. \A a \in Nat : a <= m.brk => a \notin dst
    BY <1>4, <2>1
  <2> HIDE DEF f, kept, copied, dst
  <2>9. ASSUME NEW k \in 0 .. len - 1, k < size
        PROVE  Read(r.h, r.bp + k) = Read(m, old + k)
    <3>1. k \in 0 .. n - 1 /\ old + k \in Nat /\ old + k < m.brk
      BY <1>6, <2>1, <2>3, <2>9
    <3> QED
      BY <1>4, <2>5, <2>7, <3>1
  <2>10. ASSUME NEW a \in Nat, a < m.brk
         PROVE  Read(r.h, a) = Read(m, a)
    BY <1>4, <2>1, <2>6, <2>8, <2>10
  <2>11. Read(r.h, m.brk) = NewSize(size)
    BY <1>4, <2>1, <2>6, <2>8
  <2> QED
    BY <2>9, <2>10, <2>11
<1> QED
  BY <1>5, <1>6

(***************************************************************************)
(* A mistake of the allocator does not move the break; it is the first and *)
(* it is counted.                                                          *)
(***************************************************************************)
LEMMA ScribbleFacts ==
  ASSUME NEW r, r = [h |-> r.h, bp |-> r.bp], HeapGood(r.h),
         NEW m \in Scribbles(r)
  PROVE  /\ m = [h |-> m.h, bp |-> m.bp] /\ HeapGood(m.h)
         /\ m.h.brk = r.h.brk /\ m.bp = r.bp
         /\ m = r \/ faults = 0
<1>1. CASE m = r
  BY <1>1
<1>2. CASE m # r
  <2>1. PICK b \in DOMAIN r.h.mem : m = [r EXCEPT !.h = Write(@, [a \in {b} |-> 0])]
    BY <1>2 DEF Scribbles
  <2>2. faults = 0
    BY <1>2 DEF Scribbles, MayErr
  <2>3. PICK f : Write(r.h, [a \in {b} |-> 0]) = [r.h EXCEPT !.mem = f]
    BY DEF Write
  <2>4. m = [h |-> [mem |-> f, brk |-> r.h.brk], bp |-> r.bp]
    BY <2>1, <2>3 DEF HeapGood
  <2> QED
    BY <2>2, <2>4 DEF HeapGood
<1> QED
  BY <1>1, <1>2

(***************************************************************************)
(* What a call may come to, mistake included: the break is that of the     *)
(* true result, and the address is the true one, NULL, or 8 more.          *)
(***************************************************************************)
LEMMA ResultFacts ==
  ASSUME NEW r, r = [h |-> r.h, bp |-> r.bp], HeapGood(r.h),
         NEW m \in Results(r), faults \in 0 .. 1, CountFault(r, m)
  PROVE  /\ m = [h |-> m.h, bp |-> m.bp] /\ HeapGood(m.h) /\ m.h.brk = r.h.brk
         /\ m.bp = r.bp \/ m.bp = NULL \/ (m.bp = r.bp + 8 /\ pass \in ValidPasses)
         /\ faults' \in 0 .. 1 /\ faults <= faults' /\ (faults' = 0 => m = r)
<1>1. CASE m \in Scribbles(r)
  BY <1>1, ScribbleFacts DEF CountFault
<1>2. CASE m = [r EXCEPT !.bp = @ + wsize] /\ MayErr(ValidPasses)
  <2>1. m = [h |-> r.h, bp |-> r.bp + 8]
    BY <1>2, Consts
  <2> QED
    BY <1>2, <2>1 DEF CountFault, MayErr
<1>3. CASE m = [r EXCEPT !.bp = NULL] /\ faults = 0
  <2>1. m = [h |-> r.h, bp |-> NULL]
    BY <1>3
  <2> QED
    BY <1>3, <2>1 DEF CountFault
<1> QED
  BY <1>1, <1>2, <1>3 DEF Results

-----------------------------------------------------------------------------
(***************************************************************************)
(* Storing a block in the trace.                                           *)
(***************************************************************************)
SameTrace(t, u) == u.num_ids = t.num_ids /\ u.num_ops = t.num_ops /\ u.ops = t.ops

(***************************************************************************)
(* Setting the entries of one id leaves those of all others.               *)
(***************************************************************************)
LEMMA SetBlockFacts ==
  ASSUME NEW t, TraceType(t), NEW index, NEW ptr \in 0 .. MaxHeap,
         NEW size \in 0 .. SIZE_MOD - 1, NEW u, u = SetBlock(t, index, ptr, size)
  PROVE  /\ TraceType(u) /\ SameTrace(t, u)
         /\ u.block_rand_base = t.block_rand_base
         /\ index \in Ids(t) => u.blocks[index] = ptr /\ u.block_sizes[index] = size
         /\ \A id \in Ids(t) : id # index =>
              u.blocks[id] = t.blocks[id] /\ u.block_sizes[id] = t.block_sizes[id]
<1>1. u = [num_ids |-> t.num_ids, num_ops |-> t.num_ops, ops |-> t.ops,
           blocks |-> [t.blocks EXCEPT ![index] = ptr],
           block_sizes |-> [t.block_sizes EXCEPT ![index] = size],
           block_rand_base |-> t.block_rand_base]
  BY DEF SetBlock, TraceType
<1>2. SameTrace(t, u) /\ u.block_rand_base = t.block_rand_base /\ Ids(u) = Ids(t)
  BY <1>1 DEF SameTrace, Ids
<1>3. /\ u.blocks = [t.blocks EXCEPT ![index] = ptr]
      /\ u.block_sizes = [t.block_sizes EXCEPT ![index] = size]
  BY <1>1
<1>4. /\ t.blocks \in [Ids(t) -> 0 .. MaxHeap]
      /\ t.block_sizes \in [Ids(t) -> 0 .. SIZE_MOD - 1]
  BY DEF TraceType
<1>5. /\ u.blocks \in [Ids(u) -> 0 .. MaxHeap]
      /\ u.block_sizes \in [Ids(u) -> 0 .. SIZE_MOD - 1]
  <2>1. u.blocks \in [Ids(t) -> 0 .. MaxHeap]
    BY <1>3, <1>4
  <2>2. u.block_sizes \in [Ids(t) -> 0 .. SIZE_MOD - 1]
    BY <1>3, <1>4
  <2> QED
    BY <1>2, <2>1, <2>2
<1>6. TraceType(u)
  BY <1>1, <1>2, <1>5 DEF TraceType, SameTrace
<1> QED
  BY <1>2, <1>3, <1>4, <1>6

(***************************************************************************)
(* What a read sees after a write.                                         *)
(***************************************************************************)
LEMMA WriteFacts ==
  ASSUME NEW m, HeapGood(m), NEW new, NEW w, w = Write(m, new)
  PROVE  /\ HeapGood(w) /\ w.brk = m.brk
         /\ \A a \in DOMAIN new : Read(w, a) = new[a]
         /\ \A a : a \notin DOMAIN new => Read(w, a) = Read(m, a)
<1> DEFINE mem == [a \in DOMAIN m.mem \cup DOMAIN new |->
                     IF a \in DOMAIN new THEN new[a] ELSE m.mem[a]]
<1>1. w = [mem |-> mem, brk |-> m.brk]
  BY DEF Write, HeapGood
<1>2. /\ \A a \in DOMAIN new : Read(w, a) = new[a]
      /\ \A a : a \notin DOMAIN new => Read(w, a) = Read(m, a)
  BY <1>1 DEF Read
<1> HIDE DEF mem
<1> QED
  BY <1>1, <1>2 DEF HeapGood

(***************************************************************************)
(* randomize_block writes the bytes that check_index will look for, and no *)
(* others; it does not touch the other blocks of the trace.                *)
(***************************************************************************)
LEMMA FillFacts ==
  ASSUME NEW t, TraceType(t), NEW m, HeapGood(m), NEW index \in Ids(t),
         NEW base \in Bases, debug_mode \in DebugModes,
         NEW f, f = randomize_block(t, m, index, base)
  PROVE  /\ TraceType(f.t) /\ SameTrace(t, f.t)
         /\ f.t.blocks = t.blocks /\ f.t.block_sizes = t.block_sizes
         /\ \A id \in Ids(t) : id # index =>
              f.t.block_rand_base[id] = t.block_rand_base[id]
         /\ HeapGood(f.h) /\ f.h.brk = m.brk
         /\ \A a : (\A k \in Filled(t.block_sizes[index]) : a # t.blocks[index] + k)
                     => Read(f.h, a) = Read(m, a)
         /\ debug_mode # "DBG_NONE" =>
              \A k \in Filled(t.block_sizes[index]) :
                Read(f.h, t.blocks[index] + k) = Expected(f.t, index, k)
<1>1. CASE debug_mode = "DBG_NONE"
  <2>1. f = [t |-> t, h |-> m]
    BY <1>1 DEF randomize_block
  <2> QED
    BY <1>1, <2>1 DEF SameTrace
<1>2. CASE debug_mode # "DBG_NONE"
  <2> DEFINE u == [t EXCEPT !.block_rand_base[index] = base]
             block == t.blocks[index]
             bytes == {block + k : k \in Filled(t.block_sizes[index])}
             new == [a \in bytes |-> Expected(u, index, a - block)]
  <2>1. f = [t |-> u, h |-> Write(m, new)]
    BY <1>2 DEF randomize_block
  <2>2. f.t = u /\ f.h = Write(m, new)
    <3> HIDE DEF new, u
    <3> QED
      BY <2>1
  <2>3. base \in Nat
    BY Consts DEF Bases, RANDOM_DATA_LEN
  <2>4. /\ u = [num_ids |-> t.num_ids, num_ops |-> t.num_ops, ops |-> t.ops,
                blocks |-> t.blocks, block_sizes |-> t.block_sizes,
                block_rand_base |-> [t.block_rand_base EXCEPT ![index] = base]]
        /\ t.block_rand_base \in [Ids(t) -> Nat]
    <3> HIDE DEF new, bytes
    <3>1. PICK g : g = [t.block_rand_base EXCEPT ![index] = base]
      OBVIOUS
    <3>2. u = [t EXCEPT !.block_rand_base = g]
      BY <3>1
    <3> HIDE DEF u
    <3> QED
      BY <3>1, <3>2 DEF TraceType
  <2> HIDE DEF u
  <2>5. /\ SameTrace(t, u) /\ Ids(u) = Ids(t)
        /\ u.blocks = t.blocks /\ u.block_sizes = t.block_sizes
        /\ u.block_rand_base = [t.block_rand_base EXCEPT ![index] = base]
    BY <2>4 DEF SameTrace, Ids
  <2>6. /\ u.block_rand_base \in [Ids(u) -> Nat]
        /\ \A id \in Ids(t) : id # index =>
             u.block_rand_base[id] = t.block_rand_base[id]
    BY <2>3, <2>4, <2>5
  <2>7. TraceType(u)
    BY <2>4, <2>5, <2>6 DEF TraceType, SameTrace
  <2>8. block \in Nat /\ Filled(t.block_sizes[index]) \subseteq Int
    BY Consts DEF TraceType, Filled
  <2>9. ASSUME NEW k \in Filled(t.block_sizes[index])
        PROVE  Read(f.h, block + k) = Expected(u, index, k)
    <3>1. block + k \in bytes /\ (block + k) - block = k
      BY <2>8
    <3>2. block + k \in DOMAIN new /\ new[block + k] = Expected(u, index, k)
      BY <3>1
    <3> HIDE DEF new
    <3> QED
      BY <2>2, <3>2, WriteFacts
  <2>10. ASSUME NEW a, \A k \in Filled(t.block_sizes[index]) : a # block + k
         PROVE  Read(f.h, a) = Read(m, a)
    <3>1. a \notin DOMAIN new
      BY <2>10
    <3> HIDE DEF new
    <3> QED
      BY <2>2, <3>1, WriteFacts
  <2> HIDE DEF new
  <2>11. HeapGood(f.h) /\ f.h.brk = m.brk
    BY <2>2, WriteFacts
  <2> QED
    BY <2>2, <2>5, <2>6, <2>7, <2>9, <2>10, <2>11
<1> QED
  BY <1>1, <1>2

-----------------------------------------------------------------------------
(***************************************************************************)
(* The regions at an address are at most one.                              *)
(***************************************************************************)
LEMMA AtMostOne ==
  ASSUME HeldSound(held, h.brk), NEW old
  PROVE  RegionAt(old) = {} \/ \E r \in held : RegionAt(old) = {r}
BY DEF HeldSound, RegionAt

(***************************************************************************)
(* Nothing has been handed out above the break.                            *)
(***************************************************************************)
LEMMA NoneAbove ==
  ASSUME HeldSound(held, h.brk), HeapGood(h), NEW old \in Nat, old >= h.brk \/ old = 0
  PROVE  RegionAt(old) = {}
<1>1. h.brk \in Nat
  BY Consts DEF HeapGood
<1> QED
  BY <1>1 DEF HeldSound, RegionAt

(***************************************************************************)
(* A call that fails, or gives nothing, keeps the regions in order and     *)
(* follows the contract.                                                   *)
(***************************************************************************)
LEMMA NothingGiven ==
  ASSUME HeldSound(held, h.brk), HeapGood(h), HeapGood(h'), h.brk <= h'.brk,
         held' = held
  PROVE  HeldSound(held', h'.brk) /\ Contract!Next
<1>1. h.brk \in Nat /\ h'.brk \in Nat /\ h'.brk <= MaxHeap
  BY Consts DEF HeapGood
<1>2. HeldSound(held', h'.brk)
  BY <1>1 DEF HeldSound
<1>3. Contract!Fail
  BY <1>1 DEF Contract!Fail, Contract!Grow
<1> QED
  BY <1>2, <1>3 DEF Contract!Next

(***************************************************************************)
(* So does a call that takes back what is at old.                          *)
(***************************************************************************)
LEMMA TakenBack ==
  ASSUME HeldSound(held, h.brk), HeapGood(h), h'.brk = h.brk, HeapGood(h'), NEW old,
         held' = held \ RegionAt(old)
  PROVE  HeldSound(held', h'.brk) /\ Contract!Next
<1>1. HeldSound(held', h'.brk)
  BY DEF HeldSound
<1>2. CASE RegionAt(old) = {}
  <2>1. held' = held /\ h.brk <= h'.brk
    BY <1>2 DEF HeapGood
  <2> QED
    BY <2>1, NothingGiven
<1>3. CASE \E r \in held : RegionAt(old) = {r}
  <2>1. Contract!Release
    BY <1>3 DEF Contract!Release
  <2> QED
    BY <1>1, <2>1 DEF Contract!Next
<1> QED
  BY <1>2, <1>3, AtMostOne

(***************************************************************************)
(* And a call that makes a block above the old break, in place of the      *)
(* block at old if there is one.                                           *)
(***************************************************************************)
LEMMA BlockGiven ==
  ASSUME HeldSound(held, h.brk), HeapGood(h), HeapGood(h'), NEW old,
         NEW size \in Nat \ {0}, NEW ptr \in Nat, ptr = h.brk + 16,
         ptr % 16 = 0, ptr + size <= h'.brk,
         held' = (held \ RegionAt(old)) \cup {[ptr |-> ptr, size |-> size]}
  PROVE  HeldSound(held', h'.brk) /\ Contract!Next
<1> DEFINE x == [ptr |-> ptr, size |-> size]
<1>1. h.brk \in Nat /\ h'.brk \in Nat /\ h'.brk <= MaxHeap /\ h.brk <= h'.brk
  BY Consts DEF HeapGood
<1>2. x.ptr = ptr /\ x.size = size /\ x = [ptr |-> x.ptr, size |-> x.size]
  OBVIOUS
<1> HIDE DEF x
<1>3. ASSUME NEW r \in held
      PROVE  /\ r = [ptr |-> r.ptr, size |-> r.size]
             /\ r.ptr \in Nat \ {0} /\ r.size \in Nat \ {0}
             /\ r.ptr + r.size <= h.brk
  BY DEF HeldSound
<1>4. held' = (held \ RegionAt(old)) \cup {x}
  BY DEF x
<1>5. ASSUME NEW r \in held'
      PROVE  /\ r = [ptr |-> r.ptr, size |-> r.size]
             /\ r.ptr \in Nat \ {0} /\ r.size \in Nat \ {0}
             /\ r.ptr + r.size <= h'.brk
             /\ r # x => r \in held /\ r.ptr < x.ptr
  <2>1. CASE r = x
    BY <1>1, <1>2, <2>1
  <2>2. CASE r # x
    <3>1. r \in held
      BY <1>4, <2>2
    <3> QED
      BY <1>1, <1>2, <1>3, <3>1
  <2> QED
    BY <2>1, <2>2
<1>6. ASSUME NEW r \in held', NEW s \in held', r.ptr = s.ptr
      PROVE  r = s
  <2>1. CASE r = x \/ s = x
    BY <1>2, <1>5, <1>6, <2>1
  <2>2. CASE r # x /\ s # x
    BY <1>5, <1>6, <2>2 DEF HeldSound
  <2> QED
    BY <2>1, <2>2
<1>7. HeldSound(held', h'.brk)
  BY <1>5, <1>6 DEF HeldSound
<1>8. Contract!Fresh(x)
  <2>1. \A s \in held : s.ptr + s.size <= x.ptr
    BY <1>1, <1>2, <1>3
  <2> QED
    BY <1>1, <1>2, <2>1 DEF Contract!Fresh, Contract!Apart
<1>9. Contract!Grow
  BY <1>1 DEF Contract!Grow
<1>10. x \in held'
  BY <1>4
<1>11. CASE RegionAt(old) = {}
  <2>1. held' = held \cup {x}
    BY <1>4, <1>11
  <2>2. Contract!Allocate
    BY <1>8, <1>9, <1>10, <2>1 DEF Contract!Allocate
  <2> QED
    BY <1>7, <2>2 DEF Contract!Next
<1>12. CASE \E r \in held : RegionAt(old) = {r}
  <2>1. PICK r \in held : RegionAt(old) = {r}
    BY <1>12
  <2>2. held' = (held \ {r}) \cup {x}
    BY <1>4, <2>1
  <2>3. Contract!Move
    BY <1>8, <1>9, <1>10, <2>2 DEF Contract!Move
  <2> QED
    BY <1>7, <2>3 DEF Contract!Next
<1> QED
  BY <1>11, <1>12, AtMostOne

-----------------------------------------------------------------------------
(***************************************************************************)
(* The request at hand.                                                    *)
(***************************************************************************)
LEMMA OpFacts ==
  ASSUME TypeInv, at = "ops", i <= trace.num_ops
  PROVE  /\ reader = "closed" /\ i \in 1 .. trace.num_ops /\ i \in DOMAIN trace.ops
         /\ op \in Lines /\ op.type \in Opcodes /\ op.index \in 0 .. UINT_MOD - 1
         /\ op.size \in Nat /\ op.size + 32 <= SIZE_MOD
         /\ op.size \in 0 .. SIZE_MOD - 1
<1>1. reader = "closed"
  BY DEF TypeInv, Reading
<1>2. /\ Len(trace.ops) = trace.num_ops /\ trace.num_ops \in Nat
      /\ trace.ops \in Seq(Lines)
  BY <1>1 DEF TypeInv, Reading, TraceType
<1>3. i \in 1 .. trace.num_ops
  BY <1>2 DEF TypeInv, Running
<1>4. i \in DOMAIN trace.ops /\ op \in Lines
  BY <1>2, <1>3 DEF op
<1> QED
  BY <1>1, <1>3, <1>4, Consts, LineFacts

(***************************************************************************)
(* The initial state is of the right type and an initial state of the      *)
(* contract.                                                               *)
(***************************************************************************)
LEMMA InitType == Init => TypeInv /\ Contract!Init
<1> SUFFICES ASSUME Init
             PROVE  TypeInv /\ Contract!Init
  OBVIOUS
<1>1. TraceType(trace)
  BY Consts DEF Init, TraceInit, NoTrace, TraceType, Ids
<1>2. HeapGood(h) /\ h.brk = 0
  BY Consts DEF Init, EmptyHeap, HeapGood
<1>3. Reading
  BY Consts DEF Init, TraceInit, Reading
<1>4. Running
  BY <1>1 DEF Init, Running, TraceType, Passes, ValidPasses
<1>5. Counters
  <2>1. RS!Tracked(RS!new_range_set) = {}
    BY DEF RS!Tracked, RS!new_range_set
  <2>2. DOMAIN << >> = {}
    OBVIOUS
  <2>3. ranges = RS!new_range_set /\ range_index = << >>
    BY DEF Init
  <2>4. RS!Tracked(ranges) = DOMAIN range_index
    <3> QED
      BY <2>1, <2>2, <2>3, Zenon
  <2>5. /\ 0 \in 0 .. SIZE_MOD - 1 /\ TRUE \in BOOLEAN /\ FALSE \in BOOLEAN
        /\ 0 \in 0 .. 1
    BY Consts
  <2> QED
    BY <2>4, <2>5, Zenon DEF Init, Counters
<1>6. HeldSound(held, h.brk) /\ Contract!Init
  BY <1>2 DEF Init, HeldSound, Contract!Init
<1> QED
  BY <1>1, <1>2, <1>3, <1>4, <1>5, <1>6 DEF TypeInv

(***************************************************************************)
(* The steps of read_trace. The two checks at the end of the file give     *)
(* every id of a request its place in the arrays.                          *)
(***************************************************************************)
LEMMA ReadKeepsType ==
  ASSUME TypeInv, ReadTrace
  PROVE  TypeInv' /\ at = "start" /\ pass = "valid_1" /\ UNCHANGED << held, h, pass, at >>
<1>1. reader \in {"header", "lines"}
  BY DEF ReadTrace, read_trace, ReadHeader, BadHeader, ReadLine, ReadMalformed, EndOfFile
<1>2. at = "start" /\ pass = "valid_1" /\ i = 0
  BY <1>1 DEF TypeInv, Reading
<1>3. /\ UNCHANGED << debug_mode, at, pass, i, why, h, ranges, range_index, allCheck,
                     total_size, max_total_size, held, wrote, damage, faults >>
  BY DEF ReadTrace, run_vars, range_vars, total_vars, history_vars
<1>4. HeapGood(h') /\ Counters' /\ HeldSound(held', h'.brk)
  BY <1>3 DEF TypeInv, Counters
<1>5. ASSUME app_error
      PROVE  TraceType(trace') /\ Reading'
  BY <1>2, <1>3, <1>5, Consts DEF app_error, NoTrace, TraceType, Ids, Reading
<1>6. TraceType(trace') /\ Reading'
  <2>1. ASSUME ReadHeader
        PROVE  TraceType(trace') /\ Reading'
    <3>1. PICK n \in NumIds, k \in NumOps : trace' = NewTrace(n, k)
      BY <2>1 DEF ReadHeader
    <3>2. n \in 0 .. UINT_MOD - 1 /\ k \in Nat /\ 0 \in 0 .. MaxHeap /\ 0 \in 0 .. SIZE_MOD - 1
      BY Consts, TraceAssumption
    <3>3. TraceType(trace') /\ trace'.ops = << >>
      BY <3>1, <3>2 DEF NewTrace, TraceType, Ids
    <3>4. reader' = "lines" /\ max_id_used' = max_id_used
      BY <2>1 DEF ReadHeader
    <3>5. Reading'
      BY <1>2, <1>3, <3>3, <3>4 DEF Reading, TypeInv, TraceType
    <3> QED
      BY <3>3, <3>5
  <2>2. ASSUME NEW line \in Lines, ReadLine(line)
        PROVE  TraceType(trace') /\ Reading'
    <3>1. CASE Len(trace.ops) = trace.num_ops
      BY <1>5, <2>2, <3>1 DEF ReadLine
    <3>2. CASE Len(trace.ops) # trace.num_ops
      <4>1. /\ reader = "lines" /\ reader' = "lines"
            /\ trace' = [trace EXCEPT !.ops = Append(trace.ops, line)]
            /\ max_id_used' = IF line.index > max_id_used THEN line.index
                              ELSE max_id_used
        BY <2>2, <3>2 DEF ReadLine
      <4>2. /\ trace'.ops = Append(trace.ops, line) /\ trace'.num_ops = trace.num_ops
            /\ TraceType(trace')
        <5>1. Append(trace.ops, line) \in Seq(Lines)
          BY DEF TypeInv, TraceType
        <5>2. PICK s \in Seq(Lines) : s = Append(trace.ops, line)
          BY <5>1
        <5>3. trace' = [trace EXCEPT !.ops = s]
          BY <4>1, <5>2
        <5> QED
          BY <5>2, <5>3 DEF TypeInv, TraceType, Ids
      <4>3. /\ line.index \in 0 .. UINT_MOD - 1 /\ max_id_used \in 0 .. UINT_MOD - 1
            /\ trace.ops \in Seq(Lines) /\ trace.num_ops \in Nat
            /\ Len(trace.ops) <= trace.num_ops
            /\ \A k \in DOMAIN trace.ops : trace.ops[k].index <= max_id_used
        BY <4>1, LineFacts DEF TypeInv, Reading, TraceType
      <4>4. max_id_used' \in 0 .. UINT_MOD - 1 /\ Len(trace'.ops) <= trace'.num_ops
        BY <3>2, <4>1, <4>2, <4>3
      <4>5. ASSUME NEW k \in DOMAIN trace'.ops
            PROVE  trace'.ops[k].index <= max_id_used'
        <5>1. CASE k = Len(trace.ops) + 1
          BY <4>1, <4>2, <4>3, <5>1
        <5>2. CASE k # Len(trace.ops) + 1
          <6>1. k \in DOMAIN trace.ops /\ trace'.ops[k] = trace.ops[k]
            BY <4>2, <4>3, <5>2
          <6>2. trace.ops[k].index \in Nat
            <7>1. trace.ops[k] \in Lines
              BY <4>3, <6>1
            <7> QED
              BY <7>1, LineFacts
          <6>3. trace.ops[k].index <= max_id_used
            BY <4>3, <6>1
          <6>4. max_id_used <= max_id_used' /\ max_id_used \in Nat /\ max_id_used' \in Nat
            BY <4>1, <4>3
          <6> QED
            BY <6>1, <6>2, <6>3, <6>4
        <5> QED
          BY <5>1, <5>2
      <4> QED
        BY <1>2, <1>3, <4>1, <4>2, <4>4, <4>5 DEF Reading
    <3> QED
      BY <3>1, <3>2
  <2>3. ASSUME EndOfFile
        PROVE  TraceType(trace') /\ Reading'
    <3>1. CASE \/ Len(trace.ops) < trace.num_ops
               \/ max_id_used # (trace.num_ids - 1) % UINT_MOD
      BY <1>5, <2>3, <3>1 DEF EndOfFile
    <3>2. CASE ~ (\/ Len(trace.ops) < trace.num_ops
                  \/ max_id_used # (trace.num_ids - 1) % UINT_MOD)
      <4>1. /\ reader = "lines" /\ reader' = "closed" /\ max_id_used' = 0
            /\ trace' = trace
        BY <2>3, <3>2 DEF EndOfFile
      <4>2. /\ trace.ops \in Seq(Lines) /\ trace.num_ops \in Nat
            /\ trace.num_ids \in 0 .. UINT_MOD - 1
            /\ Len(trace.ops) <= trace.num_ops
            /\ \A k \in DOMAIN trace.ops : trace.ops[k].index <= max_id_used
        BY <4>1 DEF TypeInv, Reading, TraceType
      <4>3. Len(trace.ops) = trace.num_ops /\ max_id_used = (trace.num_ids - 1) % UINT_MOD
        BY <3>2, <4>2
      <4>4. ASSUME trace.num_ids > 0, NEW k \in DOMAIN trace.ops
            PROVE  trace.ops[k].index \in Ids(trace)
        <5>1. (trace.num_ids - 1) % UINT_MOD = trace.num_ids - 1
          <6>1. trace.num_ids - 1 \in 0 .. UINT_MOD - 1 /\ UINT_MOD \in Nat
            BY <4>2, <4>4, Consts
          <6>2. ASSUME NEW n \in Nat, NEW d \in 0 .. n - 1
                PROVE  d % n = d
            OBVIOUS
          <6> QED
            BY <6>1, <6>2
        <5>2. trace.ops[k].index \in Nat
          <6>1. trace.ops[k] \in Lines
            BY <4>2
          <6> QED
            BY <6>1, LineFacts
        <5> QED
          BY <4>2, <4>3, <5>1, <5>2 DEF Ids
      <4> QED
        BY <4>1, <4>3, <4>4, Consts DEF TypeInv, Reading
    <3> QED
      BY <3>1, <3>2
  <2> QED
    BY <1>5, <2>1, <2>2, <2>3 DEF ReadTrace, read_trace, BadHeader, ReadMalformed
<1>7. Running'
  BY <1>2, <1>3, <1>6 DEF Running, TypeInv, TraceType
<1> QED
  BY <1>2, <1>3, <1>4, <1>6, <1>7 DEF TypeInv

-----------------------------------------------------------------------------
(***************************************************************************)
(* The result m of a call that made a block for size bytes.                *)
(***************************************************************************)
Grown(m, size) ==
  /\ HeapGood(m.h) /\ m.bp = h.brk + 16 /\ m.bp % 16 = 0
  /\ m.bp + size <= m.h.brk /\ m.h.brk = h.brk + NewSize(size)
  /\ NewSize(size) < SIZE_MOD \div 2

(***************************************************************************)
(* The result m of any call.                                               *)
(***************************************************************************)
Called(m) == HeapGood(m.h) /\ h.brk <= m.h.brk /\ faults' \in 0 .. 1 /\ faults <= faults'

(***************************************************************************)
(* An evaluation that ends before its time has taken nothing from the      *)
(* allocator.                                                              *)
(***************************************************************************)
LEMMA StopKeepsType ==
  ASSUME TypeInv, at = "ops", NEW reason, Stop(reason), HeapGood(h'),
         h.brk <= h'.brk, faults' \in 0 .. 1
  PROVE  TypeInv' /\ Contract!Next /\ SameTrace(trace, trace')
<1>1. /\ UNCHANGED << trace, reader, max_id_used, debug_mode, pass, i, ranges,
                     range_index, allCheck, total_size, max_total_size, held, damage >>
      /\ at' = "over"
  BY DEF Stop, trace_vars, range_vars, total_vars
<1>2. Reading' /\ Running' /\ Counters'
  BY <1>1 DEF TypeInv, Reading, Running, Counters
<1>3. HeldSound(held', h'.brk) /\ Contract!Next
  BY <1>1, NothingGiven DEF TypeInv
<1> QED
  BY <1>1, <1>2, <1>3 DEF TypeInv, SameTrace

(***************************************************************************)
(* Going on to the next request stays within the trace.                    *)
(***************************************************************************)
LEMMA AdvanceKeeps ==
  ASSUME TypeInv, at = "ops", i <= trace.num_ops, Advance, TraceType(trace'),
         SameTrace(trace, trace')
  PROVE  Reading' /\ Running'
<1>1. /\ UNCHANGED << reader, max_id_used, debug_mode, at, pass, why >> /\ i' = i + 1
      /\ Ids(trace') = Ids(trace) /\ trace'.ops = trace.ops
      /\ trace'.num_ops = trace.num_ops /\ trace'.num_ids = trace.num_ids
  BY DEF Advance, SameTrace, Ids
<1>2. reader = "closed" /\ i \in 1 .. trace.num_ops
  BY OpFacts
<1>3. trace.num_ops \in Nat
  BY DEF TypeInv, TraceType
<1> QED
  BY <1>1, <1>2, <1>3 DEF TypeInv, Reading, Running

(***************************************************************************)
(* The end of a request in eval_mm_valid that left a new block, or none.   *)
(***************************************************************************)
LEMMA GivenKeepsType ==
  ASSUME TypeInv, at = "ops", i <= trace.num_ops, op.index \in Ids(trace),
         NEW m, Grown(m, op.size), op.size > 0, NEW old, NEW s,
         SetRange(s, m.bp, op.index),
         Fill(SetBlock(trace, op.index, m.bp, op.size), m.h, m.bp, old, op.size),
         Advance, UNCHANGED total_vars,
         allCheck' \in BOOLEAN, damage' \in BOOLEAN, faults' \in 0 .. 1
  PROVE  TypeInv' /\ Contract!Next /\ SameTrace(trace, trace') /\ h'.brk = m.h.brk
<1> DEFINE t == SetBlock(trace, op.index, m.bp, op.size)
<1>1. m.bp \in 0 .. MaxHeap /\ op.size \in Nat /\ op.size \in 0 .. SIZE_MOD - 1
  BY OpFacts, Consts DEF Grown, HeapGood, TypeInv
<1>2. TraceType(t) /\ SameTrace(trace, t) /\ op.index \in Ids(t)
  <2>1. TraceType(t) /\ SameTrace(trace, t)
    BY <1>1, SetBlockFacts DEF TypeInv
  <2> QED
    BY <2>1 DEF SameTrace, Ids
<1>3. PICK base \in Bases : \E f \in {randomize_block(t, m.h, op.index, base)} :
        /\ trace' = f.t /\ h' = f.h
        /\ held' = (held \ RegionAt(old)) \cup {[ptr |-> m.bp, size |-> op.size]}
  BY <1>1 DEF Fill
<1> HIDE DEF t
<1>4. /\ TraceType(trace') /\ SameTrace(t, trace') /\ HeapGood(h') /\ h'.brk = m.h.brk
  BY <1>2, <1>3, FillFacts DEF Grown, TypeInv, Running
<1>5. SameTrace(trace, trace')
  BY <1>2, <1>4 DEF SameTrace
<1>6. Reading' /\ Running'
  BY <1>4, <1>5, AdvanceKeeps
<1>7. HeldSound(held', h'.brk) /\ Contract!Next
  <2>1. op.size \in Nat \ {0} /\ m.bp \in Nat
    BY <1>1
  <2>2. m.bp = h.brk + 16 /\ m.bp % 16 = 0 /\ m.bp + op.size <= h'.brk
    BY <1>4 DEF Grown
  <2>3. held' = (held \ RegionAt(old)) \cup {[ptr |-> m.bp, size |-> op.size]}
    BY <1>3
  <2> QED
    BY <1>4, <2>1, <2>2, <2>3, BlockGiven DEF TypeInv
<1>8. Counters'
  BY DEF SetRange, total_vars, Counters, TypeInv, RS!Tracked
<1> QED
  BY <1>4, <1>5, <1>6, <1>7, <1>8 DEF TypeInv

(***************************************************************************)
(* A realloc to 0 bytes: for the contract a free, or nothing.              *)
(***************************************************************************)
LEMMA NoneKeepsType ==
  ASSUME TypeInv, at = "ops", i <= trace.num_ops, op.index \in Ids(trace),
         NEW m, HeapGood(m.h), m.h.brk = h.brk, op.size = 0, NEW old, NEW s,
         SetRange(s, NULL, op.index),
         Fill(SetBlock(trace, op.index, NULL, 0), m.h, NULL, old, 0),
         Advance, UNCHANGED total_vars,
         allCheck' \in BOOLEAN, damage' \in BOOLEAN, faults' \in 0 .. 1
  PROVE  TypeInv' /\ Contract!Next /\ SameTrace(trace, trace') /\ h'.brk = m.h.brk
<1> DEFINE t == SetBlock(trace, op.index, NULL, 0)
<1>1. NULL \in 0 .. MaxHeap /\ 0 \in 0 .. SIZE_MOD - 1
  BY Consts
<1>2. TraceType(t) /\ SameTrace(trace, t) /\ op.index \in Ids(t)
  <2>1. TraceType(t) /\ SameTrace(trace, t)
    BY <1>1, SetBlockFacts DEF TypeInv
  <2> QED
    BY <2>1 DEF SameTrace, Ids
<1>3. PICK base \in Bases : \E f \in {randomize_block(t, m.h, op.index, base)} :
        /\ trace' = f.t /\ h' = f.h
        /\ held' = held \ RegionAt(old)
  BY <1>1 DEF Fill
<1> HIDE DEF t
<1>4. /\ TraceType(trace') /\ SameTrace(t, trace') /\ HeapGood(h') /\ h'.brk = m.h.brk
  BY <1>2, <1>3, FillFacts DEF TypeInv, Running
<1>5. SameTrace(trace, trace')
  BY <1>2, <1>4 DEF SameTrace
<1>6. Reading' /\ Running'
  BY <1>4, <1>5, AdvanceKeeps
<1>7. HeldSound(held', h'.brk) /\ Contract!Next
  BY <1>3, <1>4, TakenBack DEF TypeInv
<1>8. Counters'
  BY DEF SetRange, total_vars, Counters, TypeInv, RS!Tracked
<1> QED
  BY <1>4, <1>5, <1>6, <1>7, <1>8 DEF TypeInv

-----------------------------------------------------------------------------
(***************************************************************************)
(* What a request does in eval_mm_valid.  The block of an aligned address  *)
(* is one that mm-naive.c made.                                            *)
(***************************************************************************)
LEMMA AlignedIsMade ==
  ASSUME NEW r, NEW m, m.bp = r.bp \/ m.bp = NULL \/ m.bp = r.bp + 8,
         r.bp \in Nat, r.bp % 16 = 0, m.bp # NULL, NEW s, NEW size,
         accepts(s, m.h, m.bp, size)
  PROVE  m.bp = r.bp
<1>1. m.bp % 16 = 0
  BY Consts DEF accepts, RS!accepts, RS!IS_ALIGNED
<1> QED
  BY <1>1, Consts

(***************************************************************************)
(* The outcomes of ALLOC in a correctness run, with what is known about    *)
(* the result of malloc in each of them.                                   *)
(***************************************************************************)
LEMMA AllocCases ==
  ASSUME TypeInv, ValidAlloc
  PROVE  /\ at = "ops" /\ i <= trace.num_ops /\ op.type = "ALLOC" /\ pass \in ValidPasses
         /\ \E m :
              /\ Called(m) /\ (faults' = 0 => m = malloc(h, op.size))
              /\ \/ m.bp = NULL /\ Stop("no memory") /\ h' = m.h
                 \/ op.size = 0 /\ Stop("assert") /\ h' = m.h
                 \/ m.bp # NULL /\ op.size > 0 /\ ~accepts(ranges, m.h, m.bp, op.size)
                    /\ Stop("bad payload") /\ h' = m.h
                 \/ op.index \notin Ids(trace) /\ Stop("undefined") /\ h' = m.h
                 \/ /\ Grown(m, op.size) /\ op.size > 0 /\ op.index \in Ids(trace)
                    /\ accepts(ranges, m.h, m.bp, op.size)
                    /\ SetRange(RS!add_range(ranges, m.bp, op.size), m.bp, op.index)
                    /\ Fill(SetBlock(trace, op.index, m.bp, op.size), m.h, m.bp, m.bp,
                            op.size)
                    /\ allCheck' = (allCheck /\ check_all)
                    /\ damage' = (damage \/ ChangedHeld)
                    /\ Advance /\ UNCHANGED total_vars
<1>1. at = "ops" /\ i <= trace.num_ops /\ op.type = "ALLOC" /\ pass \in ValidPasses
  BY DEF ValidAlloc, At
<1>2. op.size \in Nat /\ op.size + 32 <= SIZE_MOD
  BY <1>1, OpFacts
<1>3. PICK r : r = malloc(h, op.size)
  OBVIOUS
<1>4. /\ r = [h |-> r.h, bp |-> r.bp] /\ HeapGood(r.h)
      /\ \/ r.bp = NULL /\ r.h = h
         \/ /\ r.bp = h.brk + 16 /\ r.h.brk = h.brk + NewSize(op.size)
            /\ NewSize(op.size) < SIZE_MOD \div 2
            /\ r.bp % 16 = 0 /\ r.bp + op.size <= r.h.brk
  BY <1>2, <1>3, MallocFacts DEF TypeInv
<1>5. /\ r.bp \in Nat /\ r.bp % 16 = 0 /\ h.brk <= r.h.brk
  BY <1>2, <1>4, Consts, Rounded DEF TypeInv, HeapGood
<1>6. PICK m \in Results(r) :
       /\ CountFault(r, m)
       /\ \/ m.bp = NULL /\ Stop("no memory") /\ h' = m.h
          \/ m.bp # NULL /\ op.size = 0 /\ Stop("assert") /\ h' = m.h
          \/ m.bp # NULL /\ op.size > 0 /\ ~accepts(ranges, m.h, m.bp, op.size)
             /\ Stop("bad payload") /\ h' = m.h
          \/ m.bp # NULL /\ op.size > 0 /\ accepts(ranges, m.h, m.bp, op.size)
             /\ op.index \notin Ids(trace) /\ Stop("undefined") /\ h' = m.h
          \/ /\ m.bp # NULL /\ op.size > 0 /\ op.index \in Ids(trace)
             /\ accepts(ranges, m.h, m.bp, op.size)
             /\ SetRange(RS!add_range(ranges, m.bp, op.size), m.bp, op.index)
             /\ Fill(SetBlock(trace, op.index, m.bp, op.size), m.h, m.bp, m.bp,
                     op.size)
             /\ allCheck' = (allCheck /\ check_all)
             /\ damage' = (damage \/ ChangedHeld)
             /\ Advance /\ UNCHANGED total_vars
  BY <1>3, Zenon DEF ValidAlloc
<1>7. /\ HeapGood(m.h) /\ m.h.brk = r.h.brk /\ faults' \in 0 .. 1 /\ faults <= faults'
      /\ m.bp = r.bp \/ m.bp = NULL \/ m.bp = r.bp + 8
      /\ faults' = 0 => m = r
  BY <1>4, <1>6, ResultFacts DEF TypeInv, Counters
<1>8. Called(m) /\ (faults' = 0 => m = malloc(h, op.size))
  BY <1>3, <1>5, <1>7 DEF Called
<1>9. m.bp # NULL /\ accepts(ranges, m.h, m.bp, op.size) => Grown(m, op.size)
  <2> SUFFICES ASSUME m.bp # NULL, accepts(ranges, m.h, m.bp, op.size)
               PROVE  Grown(m, op.size)
    OBVIOUS
  <2>1. m.bp = r.bp
    BY <1>5, <1>7, AlignedIsMade
  <2> QED
    BY <1>4, <1>7, <2>1 DEF Grown
<1> QED
  BY <1>1, <1>6, <1>8, <1>9, Zenon

(***************************************************************************)
(* The outcomes of REALLOC in a correctness run.                           *)
(***************************************************************************)
LEMMA ReallocCases ==
  ASSUME TypeInv, ValidRealloc
  PROVE  /\ at = "ops" /\ i <= trace.num_ops /\ op.type = "REALLOC"
         /\ pass \in ValidPasses /\ op.index \in Ids(trace)
         /\ \E m, oldp, s :
              /\ oldp = trace.blocks[op.index] /\ s = RS!remove_range(ranges, oldp)
              /\ Called(m) /\ (faults' = 0 => m = realloc(h, oldp, op.size))
              /\ \/ m.bp = NULL /\ op.size # 0 /\ Stop("no memory") /\ h' = m.h
                 \/ m.bp # NULL /\ op.size = 0 /\ Stop("not NULL") /\ h' = m.h
                 \/ m.bp = NULL /\ op.size = 0 /\ m.h.brk = h.brk /\ Moved(m, oldp, s)
                 \/ m.bp # NULL /\ op.size # 0 /\ ~accepts(s, m.h, m.bp, op.size)
                    /\ Stop("bad payload") /\ h' = m.h
                 \/ /\ Grown(m, op.size) /\ op.size > 0
                    /\ accepts(s, m.h, m.bp, op.size)
                    /\ Moved(m, oldp, RS!add_range(s, m.bp, op.size))
<1>1. /\ at = "ops" /\ i <= trace.num_ops /\ op.type = "REALLOC"
      /\ pass \in ValidPasses /\ op.index \in Ids(trace)
  BY DEF ValidRealloc, At
<1>2. op.size \in Nat /\ op.size + 32 <= SIZE_MOD
  BY <1>1, OpFacts
<1>a. PICK oldp, s : oldp = trace.blocks[op.index] /\ s = RS!remove_range(ranges, oldp)
  OBVIOUS
<1>3. PICK r : r = realloc(h, oldp, op.size)
  OBVIOUS
<1>4. /\ r = [h |-> r.h, bp |-> r.bp] /\ HeapGood(r.h)
      /\ op.size = 0 => r.h = h /\ r.bp = NULL
      /\ op.size # 0 =>
           \/ r.bp = NULL /\ r.h = h
           \/ /\ r.bp = h.brk + 16 /\ r.h.brk = h.brk + NewSize(op.size)
              /\ NewSize(op.size) < SIZE_MOD \div 2
              /\ r.bp % 16 = 0 /\ r.bp + op.size <= r.h.brk
  BY <1>2, <1>3, ReallocFacts DEF TypeInv
<1>5. /\ r.bp \in Nat /\ r.bp % 16 = 0 /\ h.brk <= r.h.brk
  BY <1>2, <1>4, Consts, Rounded DEF TypeInv, HeapGood
<1>6. PICK m \in Results(r) :
       /\ CountFault(r, m)
       /\ \/ m.bp = NULL /\ op.size # 0 /\ Stop("no memory") /\ h' = m.h
          \/ m.bp # NULL /\ op.size = 0 /\ Stop("not NULL") /\ h' = m.h
          \/ m.bp = NULL /\ op.size = 0 /\ Moved(m, oldp, s)
          \/ m.bp # NULL /\ op.size # 0 /\ ~accepts(s, m.h, m.bp, op.size)
             /\ Stop("bad payload") /\ h' = m.h
          \/ m.bp # NULL /\ op.size # 0 /\ accepts(s, m.h, m.bp, op.size)
             /\ Moved(m, oldp, RS!add_range(s, m.bp, op.size))
  BY <1>3, <1>a, Zenon DEF ValidRealloc
<1>7. /\ HeapGood(m.h) /\ m.h.brk = r.h.brk /\ faults' \in 0 .. 1 /\ faults <= faults'
      /\ m.bp = r.bp \/ m.bp = NULL \/ m.bp = r.bp + 8
      /\ faults' = 0 => m = r
  BY <1>4, <1>6, ResultFacts DEF TypeInv, Counters
<1>8. Called(m) /\ (faults' = 0 => m = realloc(h, oldp, op.size))
  BY <1>3, <1>5, <1>7 DEF Called
<1>9. m.bp # NULL /\ op.size # 0 /\ accepts(s, m.h, m.bp, op.size)
        => Grown(m, op.size) /\ op.size > 0
  <2> SUFFICES ASSUME m.bp # NULL, op.size # 0, accepts(s, m.h, m.bp, op.size)
               PROVE  Grown(m, op.size) /\ op.size > 0
    OBVIOUS
  <2>1. m.bp = r.bp
    BY <1>5, <1>7, AlignedIsMade
  <2> QED
    BY <1>2, <1>4, <1>7, <2>1 DEF Grown
<1>10. op.size = 0 => m.h.brk = h.brk
  BY <1>4, <1>7
<1> QED
  BY <1>1, <1>a, <1>6, <1>8, <1>9, <1>10, Zenon

(***************************************************************************)
(* The one outcome of FREE in a correctness run.                           *)
(***************************************************************************)
LEMMA FreeCases ==
  ASSUME TypeInv, ValidFree
  PROVE  /\ at = "ops" /\ i <= trace.num_ops /\ op.type = "FREE"
         /\ pass \in ValidPasses /\ op.index \in Ids(trace) \cup {NULL_ID}
         /\ \E p :
              /\ p = IF op.index = NULL_ID THEN NULL ELSE trace.blocks[op.index]
              /\ HeapGood(h') /\ h'.brk = h.brk
              /\ faults' \in 0 .. 1 /\ faults <= faults' /\ (faults' = 0 => h' = h)
              /\ IF op.index = NULL_ID THEN UNCHANGED range_vars
                 ELSE SetRange(RS!remove_range(ranges, p), RS!NIL, op.index)
              /\ allCheck' = (allCheck /\ check_all /\ check_index(trace, h, op.index))
              /\ damage' = (\/ damage \/ ChangedHeld
                            \/ debug_mode # "DBG_NONE" /\ Changed(h, p, p, SIZE_MOD))
              /\ held' = held \ RegionAt(p) /\ wrote' = Forget(p)
              /\ Advance /\ UNCHANGED << trace, total_vars >>
<1>1. /\ at = "ops" /\ i <= trace.num_ops /\ op.type = "FREE"
      /\ pass \in ValidPasses /\ op.index \in Ids(trace) \cup {NULL_ID}
  BY DEF ValidFree, At
<1>2. PICK p : p = IF op.index = NULL_ID THEN NULL ELSE trace.blocks[op.index]
  OBVIOUS
<1>3. PICK r : r = [h |-> h, bp |-> NULL]
  OBVIOUS
<1>4. r = [h |-> free(h, p), bp |-> NULL]
  BY <1>3 DEF free
<1>5. PICK m \in Scribbles(r) :
       /\ CountFault(r, m)
       /\ h' = m.h
       /\ IF op.index = NULL_ID THEN UNCHANGED range_vars
          ELSE SetRange(RS!remove_range(ranges, p), RS!NIL, op.index)
       /\ allCheck' = (allCheck /\ check_all /\ check_index(trace, h, op.index))
       /\ damage' = (\/ damage \/ ChangedHeld
                     \/ debug_mode # "DBG_NONE" /\ Changed(h, p, p, SIZE_MOD))
       /\ held' = held \ RegionAt(p) /\ wrote' = Forget(p)
       /\ Advance /\ UNCHANGED << trace, total_vars >>
  BY <1>2, <1>4, Zenon DEF ValidFree
<1>6. r.h = h /\ r.bp = NULL /\ r = [h |-> r.h, bp |-> r.bp]
  BY <1>3
<1>7. HeapGood(m.h) /\ m.h.brk = h.brk /\ (m = r \/ faults = 0)
  BY <1>5, <1>6, ScribbleFacts DEF TypeInv
<1>8. faults' \in 0 .. 1 /\ faults <= faults' /\ (faults' = 0 => h' = h)
  BY <1>5, <1>6, <1>7 DEF CountFault, TypeInv, Counters
<1> QED
  BY <1>1, <1>2, <1>5, <1>7, <1>8, Zenon

-----------------------------------------------------------------------------
(***************************************************************************)
(* The actions of eval_mm_valid keep the types and follow the contract.    *)
(***************************************************************************)
LEMMA AllocKeepsType ==
  ASSUME TypeInv, ValidAlloc
  PROVE  TypeInv' /\ Contract!Next /\ SameTrace(trace, trace')
<1>1. PICK m :
              /\ Called(m)
              /\ \/ /\ h' = m.h /\ \E reason : Stop(reason)
                 \/ /\ Grown(m, op.size) /\ op.size > 0 /\ op.index \in Ids(trace)
                    /\ SetRange(RS!add_range(ranges, m.bp, op.size), m.bp, op.index)
                    /\ Fill(SetBlock(trace, op.index, m.bp, op.size), m.h, m.bp, m.bp,
                            op.size)
                    /\ allCheck' = (allCheck /\ check_all)
                    /\ damage' = (damage \/ ChangedHeld)
                    /\ Advance /\ UNCHANGED total_vars
  BY AllocCases, Zenon
<1>2. at = "ops" /\ i <= trace.num_ops
  BY AllocCases
<1>3. CASE h' = m.h /\ \E reason : Stop(reason)
  BY <1>1, <1>2, <1>3, StopKeepsType DEF Called
<1>4. CASE Advance
  <2>1. /\ Grown(m, op.size) /\ op.size > 0 /\ op.index \in Ids(trace)
        /\ SetRange(RS!add_range(ranges, m.bp, op.size), m.bp, op.index)
        /\ Fill(SetBlock(trace, op.index, m.bp, op.size), m.h, m.bp, m.bp, op.size)
        /\ allCheck' = (allCheck /\ check_all)
        /\ damage' = (damage \/ ChangedHeld)
        /\ Advance /\ UNCHANGED total_vars
    BY <1>1, <1>2, <1>4 DEF Stop, Advance
  <2>2. allCheck' \in BOOLEAN /\ damage' \in BOOLEAN /\ faults' \in 0 .. 1
    BY <1>1, <2>1 DEF Called
  <2> QED
    BY <1>2, <2>1, <2>2, GivenKeepsType
<1> QED
  BY <1>1, <1>3, <1>4

(***************************************************************************)
(* REALLOC in a correctness run takes the type along and is a step of the  *)
(* contract.                                                               *)
(***************************************************************************)
LEMMA ReallocKeepsType ==
  ASSUME TypeInv, ValidRealloc
  PROVE  TypeInv' /\ Contract!Next /\ SameTrace(trace, trace')
<1>1. PICK m, oldp, s :
        /\ Called(m)
        /\ \/ h' = m.h /\ \E reason : Stop(reason)
           \/ m.bp = NULL /\ op.size = 0 /\ m.h.brk = h.brk /\ Moved(m, oldp, s)
           \/ Grown(m, op.size) /\ op.size > 0 /\ Moved(m, oldp, s)
  BY ReallocCases, Zenon
<1>2. at = "ops" /\ i <= trace.num_ops /\ op.index \in Ids(trace)
  BY ReallocCases
<1>3. CASE h' = m.h /\ \E reason : Stop(reason)
  BY <1>1, <1>2, <1>3, StopKeepsType DEF Called
<1>4. CASE Moved(m, oldp, s) /\ (\/ m.bp = NULL /\ op.size = 0 /\ m.h.brk = h.brk
                                 \/ Grown(m, op.size) /\ op.size > 0)
  <2>1. /\ SetRange(s, m.bp, op.index) /\ Advance /\ UNCHANGED total_vars
        /\ Fill(SetBlock(trace, op.index, m.bp, op.size), m.h, m.bp, oldp, op.size)
    BY <1>4 DEF Moved
  <2>2. allCheck' \in BOOLEAN /\ damage' \in BOOLEAN
    BY <1>4 DEF Moved
  <2>3. faults' \in 0 .. 1 /\ HeapGood(m.h)
    BY <1>1 DEF Called
  <2>4. CASE m.bp = NULL /\ op.size = 0 /\ m.h.brk = h.brk
    <3>1. /\ SetRange(s, NULL, op.index)
          /\ Fill(SetBlock(trace, op.index, NULL, 0), m.h, NULL, oldp, 0)
      BY <2>1, <2>4
    <3> QED
      BY <1>2, <2>1, <2>2, <2>3, <2>4, <3>1, NoneKeepsType
  <2>5. CASE Grown(m, op.size) /\ op.size > 0
    BY <1>2, <2>1, <2>2, <2>3, <2>5, GivenKeepsType
  <2> QED
    BY <1>4, <2>4, <2>5
<1> QED
  BY <1>1, <1>3, <1>4

(***************************************************************************)
(* FREE in a correctness run takes the type along and is a step of the     *)
(* contract.                                                               *)
(***************************************************************************)
LEMMA FreeKeepsType ==
  ASSUME TypeInv, ValidFree
  PROVE  TypeInv' /\ Contract!Next /\ SameTrace(trace, trace')
<1>1. at = "ops" /\ i <= trace.num_ops
  BY FreeCases
<1>2. PICK p :
              /\ HeapGood(h') /\ h'.brk = h.brk /\ faults' \in 0 .. 1
              /\ IF op.index = NULL_ID THEN UNCHANGED range_vars
                 ELSE SetRange(RS!remove_range(ranges, p), RS!NIL, op.index)
              /\ allCheck' = (allCheck /\ check_all /\ check_index(trace, h, op.index))
              /\ damage' = (\/ damage \/ ChangedHeld
                            \/ debug_mode # "DBG_NONE" /\ Changed(h, p, p, SIZE_MOD))
              /\ held' = held \ RegionAt(p)
              /\ Advance /\ UNCHANGED << trace, total_vars >>
  BY FreeCases, Zenon
<1>3. TraceType(trace') /\ SameTrace(trace, trace')
  BY <1>2 DEF SameTrace, TypeInv
<1>4. Reading' /\ Running'
  BY <1>1, <1>2, <1>3, AdvanceKeeps
<1>5. HeldSound(held', h'.brk) /\ Contract!Next
  BY <1>2, TakenBack DEF TypeInv
<1>6. allCheck' \in BOOLEAN /\ damage' \in BOOLEAN
  BY <1>2
<1>7. RS!Tracked(ranges') = DOMAIN range_index'
  BY <1>2 DEF SetRange, range_vars, TypeInv, Counters, RS!Tracked
<1>8. Counters'
  BY <1>2, <1>6, <1>7 DEF Counters, total_vars, TypeInv
<1> QED
  BY <1>2, <1>3, <1>4, <1>5, <1>8 DEF TypeInv

-----------------------------------------------------------------------------
(***************************************************************************)
(* The requests of eval_mm_util and eval_mm_speed.                         *)
(***************************************************************************)
LEMMA SetMeasuredFacts ==
  ASSUME NEW t, TraceType(t), NEW index, NEW ptr \in 0 .. MaxHeap,
         NEW size \in 0 .. SIZE_MOD - 1, NEW u, u = SetMeasured(t, index, ptr, size)
  PROVE  TraceType(u) /\ SameTrace(t, u)
<1>1. CASE pass = "util"
  BY <1>1, SetBlockFacts DEF SetMeasured
<1>2. CASE pass # "util"
  <2>1. u = [num_ids |-> t.num_ids, num_ops |-> t.num_ops, ops |-> t.ops,
             blocks |-> [t.blocks EXCEPT ![index] = ptr],
             block_sizes |-> t.block_sizes, block_rand_base |-> t.block_rand_base]
    BY <1>2 DEF SetMeasured, TraceType
  <2>2. SameTrace(t, u) /\ Ids(u) = Ids(t) /\ u.blocks = [t.blocks EXCEPT ![index] = ptr]
    BY <2>1 DEF SameTrace, Ids
  <2>3. u.blocks \in [Ids(u) -> 0 .. MaxHeap]
    BY <2>2 DEF TraceType
  <2>4. /\ u.num_ids = t.num_ids /\ u.num_ops = t.num_ops /\ u.ops = t.ops
        /\ u.block_sizes = t.block_sizes /\ u.block_rand_base = t.block_rand_base
        /\ u = [num_ids |-> u.num_ids, num_ops |-> u.num_ops, ops |-> u.ops,
                blocks |-> u.blocks, block_sizes |-> u.block_sizes,
                block_rand_base |-> u.block_rand_base]
    BY <2>1
  <2>5. /\ t.num_ids \in 0 .. UINT_MOD - 1 /\ t.num_ops \in Nat /\ t.ops \in Seq(Lines)
        /\ t.block_sizes \in [Ids(t) -> 0 .. SIZE_MOD - 1]
        /\ t.block_rand_base \in [Ids(t) -> Nat]
    BY DEF TraceType
  <2>6. TraceType(u)
    BY <2>2, <2>3, <2>4, <2>5, Zenon DEF TraceType
  <2> QED
    BY <2>2, <2>6
<1> QED
  BY <1>1, <1>2

(***************************************************************************)
(* The totals stay numbers of the width of size_t.                         *)
(***************************************************************************)
LEMMA AddTotalFacts ==
  ASSUME Counters, NEW n \in Int, AddTotal(n)
  PROVE  total_size' \in 0 .. SIZE_MOD - 1 /\ max_total_size' \in 0 .. SIZE_MOD - 1
<1>1. /\ SIZE_MOD \in Nat /\ SIZE_MOD > 0
      /\ total_size \in 0 .. SIZE_MOD - 1 /\ max_total_size \in 0 .. SIZE_MOD - 1
  BY Consts DEF Counters
<1>2. (total_size + n) % SIZE_MOD \in 0 .. SIZE_MOD - 1
  <2>1. ASSUME NEW d \in Int, NEW k \in Nat, k > 0
        PROVE  d % k \in 0 .. k - 1
    BY <2>1
  <2> QED
    BY <1>1, <2>1
<1> QED
  BY <1>1, <1>2 DEF AddTotal, total_vars, Greater

(***************************************************************************)
(* The outcomes of ALLOC in eval_mm_util and eval_mm_speed.                *)
(***************************************************************************)
LEMMA MeasureAllocCases ==
  ASSUME TypeInv, MeasureAlloc
  PROVE  /\ at = "ops" /\ i <= trace.num_ops /\ op.type = "ALLOC" /\ pass \in MeasurePasses
         /\ \E m :
              /\ Called(m) /\ h' = m.h /\ (faults' = 0 => m = malloc(h, op.size))
              /\ \/ m.bp = NULL /\ Stop("no memory")
                 \/ /\ Grown(m, op.size)
                    /\ trace' = SetMeasured(trace, op.index, m.bp, op.size)
                    /\ AddTotal(op.size)
                    /\ NewRegion(m.bp, m.bp, op.size)
                    /\ Advance /\ Unchecked
<1>1. at = "ops" /\ i <= trace.num_ops /\ op.type = "ALLOC" /\ pass \in MeasurePasses
  BY DEF MeasureAlloc, At
<1>2. op.size \in Nat /\ op.size + 32 <= SIZE_MOD
  BY <1>1, OpFacts
<1>3. PICK r : r = malloc(h, op.size)
  OBVIOUS
<1>4. /\ r = [h |-> r.h, bp |-> r.bp] /\ HeapGood(r.h)
      /\ \/ r.bp = NULL /\ r.h = h
         \/ /\ r.bp = h.brk + 16 /\ r.h.brk = h.brk + NewSize(op.size)
            /\ NewSize(op.size) < SIZE_MOD \div 2
            /\ r.bp % 16 = 0 /\ r.bp + op.size <= r.h.brk
  BY <1>2, <1>3, MallocFacts DEF TypeInv
<1>5. h.brk <= r.h.brk
  BY <1>2, <1>4, Consts, Rounded DEF TypeInv, HeapGood
<1>6. PICK m \in Results(r) :
       /\ CountFault(r, m) /\ h' = m.h
       /\ \/ m.bp = NULL /\ Stop("no memory")
          \/ /\ m.bp # NULL
             /\ trace' = SetMeasured(trace, op.index, m.bp, op.size)
             /\ AddTotal(op.size)
             /\ NewRegion(m.bp, m.bp, op.size)
             /\ Advance /\ Unchecked
  BY <1>3, Zenon DEF MeasureAlloc
<1>7. /\ HeapGood(m.h) /\ m.h.brk = r.h.brk /\ faults' \in 0 .. 1 /\ faults <= faults'
      /\ m.bp = r.bp \/ m.bp = NULL \/ pass \in ValidPasses
      /\ faults' = 0 => m = r
  BY <1>4, <1>6, ResultFacts DEF TypeInv, Counters
<1>8. Called(m) /\ (faults' = 0 => m = malloc(h, op.size))
  BY <1>3, <1>5, <1>7 DEF Called
<1>9. m.bp # NULL => Grown(m, op.size)
  BY <1>1, <1>4, <1>7 DEF Grown, MeasurePasses, ValidPasses
<1> QED
  BY <1>1, <1>6, <1>8, <1>9, Zenon

(***************************************************************************)
(* The outcomes of REALLOC in eval_mm_util and eval_mm_speed.              *)
(***************************************************************************)
LEMMA MeasureReallocCases ==
  ASSUME TypeInv, MeasureRealloc
  PROVE  /\ at = "ops" /\ i <= trace.num_ops /\ op.type = "REALLOC"
         /\ pass \in MeasurePasses /\ op.index \in Ids(trace)
         /\ \E m, oldp :
              /\ oldp = trace.blocks[op.index]
              /\ Called(m) /\ h' = m.h /\ (faults' = 0 => m = realloc(h, oldp, op.size))
              /\ \/ m.bp = NULL /\ op.size # 0 /\ Stop("no memory")
                 \/ /\ \/ m.bp = NULL /\ op.size = 0 /\ m.h.brk = h.brk
                       \/ Grown(m, op.size) /\ op.size > 0
                    /\ trace' = SetMeasured(trace, op.index, m.bp, op.size)
                    /\ AddTotal(op.size - old_size(trace))
                    /\ NewRegion(m.bp, oldp, op.size)
                    /\ Advance /\ Unchecked
<1>1. /\ at = "ops" /\ i <= trace.num_ops /\ op.type = "REALLOC"
      /\ pass \in MeasurePasses /\ op.index \in Ids(trace)
  BY DEF MeasureRealloc, At
<1>2. op.size \in Nat /\ op.size + 32 <= SIZE_MOD
  BY <1>1, OpFacts
<1>a. PICK oldp : oldp = trace.blocks[op.index]
  OBVIOUS
<1>3. PICK r : r = realloc(h, oldp, op.size)
  OBVIOUS
<1>4. /\ r = [h |-> r.h, bp |-> r.bp] /\ HeapGood(r.h)
      /\ op.size = 0 => r.h = h /\ r.bp = NULL
      /\ op.size # 0 =>
           \/ r.bp = NULL /\ r.h = h
           \/ /\ r.bp = h.brk + 16 /\ r.h.brk = h.brk + NewSize(op.size)
              /\ NewSize(op.size) < SIZE_MOD \div 2
              /\ r.bp % 16 = 0 /\ r.bp + op.size <= r.h.brk
  BY <1>2, <1>3, ReallocFacts DEF TypeInv
<1>5. h.brk <= r.h.brk
  BY <1>2, <1>4, Consts, Rounded DEF TypeInv, HeapGood
<1>6. PICK m \in Results(r) :
       /\ CountFault(r, m) /\ h' = m.h
       /\ \/ m.bp = NULL /\ op.size # 0 /\ Stop("no memory")
          \/ /\ m.bp # NULL \/ op.size = 0
             /\ trace' = SetMeasured(trace, op.index, m.bp, op.size)
             /\ AddTotal(op.size - old_size(trace))
             /\ NewRegion(m.bp, oldp, op.size)
             /\ Advance /\ Unchecked
  BY <1>3, <1>a, Zenon DEF MeasureRealloc
<1>7. /\ HeapGood(m.h) /\ m.h.brk = r.h.brk /\ faults' \in 0 .. 1 /\ faults <= faults'
      /\ m.bp = r.bp \/ m.bp = NULL \/ pass \in ValidPasses
      /\ faults' = 0 => m = r
  BY <1>4, <1>6, ResultFacts DEF TypeInv, Counters
<1>8. Called(m) /\ (faults' = 0 => m = realloc(h, oldp, op.size))
  BY <1>3, <1>5, <1>7 DEF Called
<1>b. m.bp = r.bp \/ m.bp = NULL
  BY <1>1, <1>7 DEF MeasurePasses, ValidPasses
<1>9. m.bp # NULL \/ op.size = 0 => \/ m.bp = NULL /\ op.size = 0 /\ m.h.brk = h.brk
                                    \/ Grown(m, op.size) /\ op.size > 0
  BY <1>2, <1>4, <1>7, <1>b DEF Grown
<1> QED
  BY <1>1, <1>a, <1>6, <1>8, <1>9, Zenon

(***************************************************************************)
(* A request of eval_mm_util or eval_mm_speed takes the type along and is  *)
(* a step of the contract.                                                 *)
(***************************************************************************)
LEMMA MeasureKeepsType ==
  ASSUME TypeInv, Measure
  PROVE  TypeInv' /\ Contract!Next /\ SameTrace(trace, trace')
<1>1. at = "ops" /\ i <= trace.num_ops
  BY DEF Measure, MeasureAlloc, MeasureRealloc, MeasureFree, At
<1>2. op.size \in Nat /\ op.size \in 0 .. SIZE_MOD - 1 /\ op.index \in Nat
  BY <1>1, OpFacts, LineFacts
<1>3. ASSUME Advance, Unchecked, TraceType(trace'), SameTrace(trace, trace'),
             NEW n \in Int, AddTotal(n), faults' \in 0 .. 1, HeapGood(h'),
             HeldSound(held', h'.brk)
      PROVE  TypeInv'
  <2>1. Reading' /\ Running'
    BY <1>1, <1>3, AdvanceKeeps
  <2>2. total_size' \in 0 .. SIZE_MOD - 1 /\ max_total_size' \in 0 .. SIZE_MOD - 1
    BY <1>3, AddTotalFacts DEF TypeInv
  <2>3. Counters'
    BY <1>3, <2>2 DEF Counters, TypeInv, Unchecked, range_vars, RS!Tracked
  <2> QED
    BY <1>3, <2>1, <2>3 DEF TypeInv
<1>4. ASSUME op.index \in Ids(trace)
      PROVE  old_size(trace) \in Int
  BY <1>4 DEF old_size, TypeInv, TraceType
<1>5. ASSUME NEW m, Called(m), h' = m.h, Grown(m, op.size)
      PROVE  m.bp \in 0 .. MaxHeap /\ m.bp \in Nat /\ m.bp >= h.brk /\ HeapGood(h')
  BY <1>2, <1>5, Consts DEF Grown, HeapGood, TypeInv
<1>6. CASE MeasureAlloc
  <2>1. PICK m : /\ Called(m) /\ h' = m.h
                 /\ \/ m.bp = NULL /\ Stop("no memory")
                    \/ /\ Grown(m, op.size)
                       /\ trace' = SetMeasured(trace, op.index, m.bp, op.size)
                       /\ AddTotal(op.size)
                       /\ NewRegion(m.bp, m.bp, op.size)
                       /\ Advance /\ Unchecked
    BY <1>6, MeasureAllocCases, Zenon
  <2>2. CASE Stop("no memory")
    BY <1>1, <2>1, <2>2, StopKeepsType DEF Called
  <2>3. CASE /\ Grown(m, op.size)
             /\ trace' = SetMeasured(trace, op.index, m.bp, op.size)
             /\ AddTotal(op.size)
             /\ NewRegion(m.bp, m.bp, op.size)
             /\ Advance /\ Unchecked
    <3>1. m.bp \in 0 .. MaxHeap /\ m.bp \in Nat /\ m.bp >= h.brk /\ HeapGood(h')
      BY <1>5, <2>1, <2>3
    <3>2. TraceType(trace') /\ SameTrace(trace, trace')
      BY <1>2, <2>3, <3>1, SetMeasuredFacts DEF TypeInv
    <3>3. RegionAt(m.bp) = {}
      BY <3>1, NoneAbove DEF TypeInv
    <3>4. HeldSound(held', h'.brk) /\ Contract!Next
      <4>1. CASE op.size = 0
        <5>1. held' = held
          BY <2>3, <3>3, <4>1 DEF NewRegion
        <5> QED
          BY <2>1, <3>1, <5>1, NothingGiven DEF TypeInv, Called
      <4>2. CASE op.size # 0
        <5>1. held' = (held \ RegionAt(m.bp)) \cup {[ptr |-> m.bp, size |-> op.size]}
          BY <2>3, <4>2 DEF NewRegion
        <5>2. m.bp = h.brk + 16 /\ m.bp % 16 = 0 /\ m.bp + op.size <= h'.brk
          BY <2>1, <2>3 DEF Grown
        <5>3. op.size \in Nat \ {0}
          BY <1>2, <4>2
        <5> QED
          BY <3>1, <5>1, <5>2, <5>3, BlockGiven DEF TypeInv
      <4> QED
        BY <4>1, <4>2
    <3> QED
      BY <1>2, <1>3, <2>1, <2>3, <3>1, <3>2, <3>4 DEF Called
  <2> QED
    BY <2>1, <2>2, <2>3
<1>7. CASE MeasureRealloc
  <2>1. PICK m, oldp :
                 /\ Called(m) /\ h' = m.h
                 /\ \/ m.bp = NULL /\ op.size # 0 /\ Stop("no memory")
                    \/ /\ \/ m.bp = NULL /\ op.size = 0 /\ m.h.brk = h.brk
                          \/ Grown(m, op.size) /\ op.size > 0
                       /\ trace' = SetMeasured(trace, op.index, m.bp, op.size)
                       /\ AddTotal(op.size - old_size(trace))
                       /\ NewRegion(m.bp, oldp, op.size)
                       /\ Advance /\ Unchecked
    BY <1>7, MeasureReallocCases, Zenon
  <2>2. CASE Stop("no memory")
    BY <1>1, <2>1, <2>2, StopKeepsType DEF Called
  <2>3. CASE /\ \/ m.bp = NULL /\ op.size = 0 /\ m.h.brk = h.brk
                \/ Grown(m, op.size) /\ op.size > 0
             /\ trace' = SetMeasured(trace, op.index, m.bp, op.size)
             /\ AddTotal(op.size - old_size(trace))
             /\ NewRegion(m.bp, oldp, op.size)
             /\ Advance /\ Unchecked
    <3>1. HeapGood(h') /\ m.bp \in 0 .. MaxHeap
      <4>1. CASE m.bp = NULL
        <5>1. m.bp \in 0 .. MaxHeap
          BY <4>1, Consts
        <5>2. HeapGood(h')
          BY <2>1 DEF Called
        <5> QED
          BY <5>1, <5>2
      <4>2. CASE Grown(m, op.size)
        BY <1>5, <2>1, <4>2
      <4> QED
        BY <2>3, <4>1, <4>2
    <3>2. TraceType(trace') /\ SameTrace(trace, trace')
      BY <1>2, <2>3, <3>1, SetMeasuredFacts DEF TypeInv
    <3>3. HeldSound(held', h'.brk) /\ Contract!Next
      <4>1. CASE m.bp = NULL /\ op.size = 0 /\ m.h.brk = h.brk
        <5>1. held' = held \ RegionAt(oldp)
          BY <2>3, <4>1 DEF NewRegion
        <5> QED
          BY <2>1, <3>1, <4>1, <5>1, TakenBack DEF TypeInv
      <4>2. CASE Grown(m, op.size) /\ op.size > 0
        <5>1. held' = (held \ RegionAt(oldp)) \cup {[ptr |-> m.bp, size |-> op.size]}
          BY <1>2, <2>3, <4>2 DEF NewRegion
        <5>2. m.bp = h.brk + 16 /\ m.bp % 16 = 0 /\ m.bp + op.size <= h'.brk
          BY <2>1, <4>2 DEF Grown
        <5>3. op.size \in Nat \ {0} /\ m.bp \in Nat
          BY <1>2, <3>1, <4>2
        <5> QED
          BY <3>1, <5>1, <5>2, <5>3, BlockGiven DEF TypeInv
      <4> QED
        BY <2>3, <4>1, <4>2
    <3>4. op.size - old_size(trace) \in Int
      <4>1. op.index \in Ids(trace)
        BY <1>7, MeasureReallocCases
      <4>2. old_size(trace) \in Int
        BY <1>4, <4>1
      <4> QED
        BY <1>2, <4>2
    <3> QED
      BY <1>3, <2>1, <2>3, <3>1, <3>2, <3>3, <3>4 DEF Called
  <2> QED
    BY <2>1, <2>2, <2>3
<1>8. CASE MeasureFree
  <2>1. PICK p : /\ h' = free(h, p)
                 /\ AddTotal(IF op.index = NULL_ID THEN 0 ELSE - old_size(trace))
                 /\ held' = held \ RegionAt(p)
    BY <1>8 DEF MeasureFree
  <2>2. /\ h' = h /\ trace' = trace /\ faults' = faults /\ Advance /\ Unchecked
        /\ op.index \in Ids(trace) \cup {NULL_ID}
    BY <1>8 DEF MeasureFree, free
  <2>3. HeldSound(held', h'.brk) /\ Contract!Next /\ HeapGood(h')
    BY <2>1, <2>2, TakenBack DEF TypeInv
  <2>4. (IF op.index = NULL_ID THEN 0 ELSE - old_size(trace)) \in Int
    BY <1>4, <2>2
  <2>5. TraceType(trace') /\ SameTrace(trace, trace') /\ faults' \in 0 .. 1
    BY <2>2 DEF TypeInv, SameTrace, Counters
  <2> QED
    BY <1>3, <2>1, <2>2, <2>3, <2>4, <2>5
<1> QED
  BY <1>6, <1>7, <1>8 DEF Measure

-----------------------------------------------------------------------------
(***************************************************************************)
(* The beginning of an evaluation: the heap is empty, and so is everything *)
(* kept of an earlier one.                                                 *)
(***************************************************************************)
LEMMA StartFacts ==
  ASSUME TypeInv, StartPass
  PROVE  /\ TraceType(trace') /\ SameTrace(trace, trace')
         /\ \A id \in Ids(trace) : trace'.blocks[id] = NULL /\ trace'.block_sizes[id] = 0
         /\ HeapGood(h') /\ h'.brk = 0 /\ held' = {}
         /\ \/ at' = "ops" /\ i' = 1 /\ faults' = faults /\ why' = why
            \/ at' = "over" /\ faults' = 1 /\ i' = i
<1>1. trace' = reinit_trace(trace) /\ h' = mm_init(EmptyHeap) /\ held' = {}
  BY DEF StartPass
<1>2. HeapGood(h') /\ h'.brk = 0
  BY <1>1, Consts DEF mm_init, EmptyHeap, HeapGood
<1>3. PICK f, g : /\ f = [id \in Ids(trace) |-> 0] /\ g = [id \in Ids(trace) |-> NULL]
  OBVIOUS
<1>4. trace' = [trace EXCEPT !.blocks = g, !.block_sizes = f]
  BY <1>1, <1>3, Consts DEF reinit_trace
<1>5. trace' = [num_ids |-> trace.num_ids, num_ops |-> trace.num_ops, ops |-> trace.ops,
                blocks |-> g, block_sizes |-> f,
                block_rand_base |-> trace.block_rand_base]
  BY <1>4 DEF TypeInv, TraceType
<1>6. SameTrace(trace, trace') /\ Ids(trace') = Ids(trace)
  BY <1>5 DEF SameTrace, Ids
<1>7. /\ g \in [Ids(trace) -> 0 .. MaxHeap] /\ f \in [Ids(trace) -> 0 .. SIZE_MOD - 1]
      /\ \A id \in Ids(trace) : g[id] = NULL /\ f[id] = 0
  BY <1>3, Consts
<1>8. TraceType(trace')
  BY <1>5, <1>6, <1>7 DEF TraceType, TypeInv
<1>9. \/ at' = "ops" /\ i' = 1 /\ faults' = faults /\ why' = why
      \/ at' = "over" /\ faults' = 1 /\ i' = i
  BY DEF StartPass
<1> QED
  BY <1>1, <1>2, <1>5, <1>6, <1>7, <1>8, <1>9

(***************************************************************************)
(* mem_reset_brk takes all regions back, which the contract calls a reset. *)
(***************************************************************************)
LEMMA StartKeepsType ==
  ASSUME TypeInv, StartPass
  PROVE  TypeInv' /\ Contract!Restart /\ SameTrace(trace, trace')
<1>1. /\ TraceType(trace') /\ SameTrace(trace, trace')
      /\ HeapGood(h') /\ h'.brk = 0 /\ held' = {}
      /\ \/ at' = "ops" /\ i' = 1 /\ faults' = faults
         \/ at' = "over" /\ faults' = 1 /\ i' = i
  BY StartFacts
<1>2. /\ reader = "closed" /\ reader' = reader /\ max_id_used' = max_id_used
      /\ debug_mode' = debug_mode /\ pass' = pass
      /\ ranges' = RS!new_range_set /\ range_index' = << >> /\ allCheck' = TRUE
      /\ total_size' = 0 /\ max_total_size' = 0 /\ damage' = FALSE
  BY DEF StartPass
<1>3. Reading'
  BY <1>1, <1>2 DEF Reading, TypeInv, SameTrace, Ids
<1>4. Running'
  BY <1>1, <1>2 DEF Running, TypeInv, SameTrace, TraceType
<1>5. Counters'
  <2>1. RS!Tracked(ranges)' = {}
    BY <1>2 DEF RS!Tracked, RS!new_range_set
  <2>2. DOMAIN range_index' = {}
    BY <1>2
  <2>3. 0 \in 0 .. SIZE_MOD - 1 /\ faults' \in 0 .. 1
    BY <1>1, Consts DEF TypeInv, Counters
  <2> QED
    BY <1>2, <2>1, <2>2, <2>3 DEF Counters
<1>6. HeldSound(held', h'.brk)
  BY <1>1 DEF HeldSound
<1>7. Contract!Restart
  BY <1>1, Consts DEF Contract!Restart
<1> QED
  BY <1>1, <1>3, <1>4, <1>5, <1>6, <1>7 DEF TypeInv

(***************************************************************************)
(* The end of an evaluation touches neither heap nor regions.              *)
(***************************************************************************)
LEMMA EndKeepsType ==
  ASSUME TypeInv, EndPass
  PROVE  TypeInv' /\ UNCHANGED << trace, held, h >>
<1>1. UNCHANGED << trace, reader, max_id_used, debug_mode, h, ranges, range_index,
                   allCheck, total_size, max_total_size, held, wrote, damage, faults >>
  BY DEF EndPass, trace_vars, range_vars, total_vars, history_vars
<1>2. at = "ops" /\ reader = "closed"
  BY DEF EndPass, TypeInv, Reading
<1>3. \/ at' = "start" /\ pass' = Following[pass] /\ i' = 0
      \/ at' = "over" /\ pass' = pass /\ i' = i
  BY DEF EndPass
<1>4. pass' \in Passes
  BY <1>3 DEF TypeInv, Running, Passes, ValidPasses, MeasurePasses, Following
<1>5. Running'
  BY <1>1, <1>3, <1>4 DEF Running, TypeInv, TraceType
<1>6. Reading' /\ Counters'
  BY <1>1, <1>2 DEF Reading, Counters, TypeInv
<1> QED
  BY <1>1, <1>5, <1>6 DEF TypeInv

(***************************************************************************)
(* Every step keeps the type invariant and is a step of the contract.      *)
(***************************************************************************)
LEMMA NextKeepsType ==
  ASSUME TypeInv, [Next]_vars
  PROVE  TypeInv' /\ [Contract!Next]_(Contract!vars)
<1>1. CASE ReadTrace
  BY <1>1, ReadKeepsType DEF Contract!vars
<1>2. CASE StartPass
  BY <1>2, StartKeepsType DEF Contract!Next
<1>3. CASE mm_checkheap_fails \/ OutOfBounds
  <2>1. PICK reason : Stop(reason)
    BY <1>3 DEF mm_checkheap_fails, OutOfBounds
  <2>a. faults \in 0 .. 1
    BY DEF TypeInv, Counters
  <2>2. at = "ops" /\ h' = h /\ faults' \in 0 .. 1
    <3>1. CASE mm_checkheap_fails
      <4>1. at = "ops" /\ h' = h /\ faults' = 1
        BY <3>1, Zenon DEF mm_checkheap_fails
      <4> QED
        BY <4>1
    <3>2. CASE OutOfBounds
      BY <2>a, <3>2 DEF OutOfBounds, At
    <3> QED
      BY <1>3, <3>1, <3>2
  <2>3. HeapGood(h') /\ h.brk <= h'.brk
    BY <2>2 DEF TypeInv, HeapGood
  <2> QED
    BY <2>1, <2>2, <2>3, StopKeepsType
<1>4. CASE ValidAlloc
  BY <1>4, AllocKeepsType
<1>5. CASE ValidRealloc
  BY <1>5, ReallocKeepsType
<1>6. CASE ValidFree
  BY <1>6, FreeKeepsType
<1>7. CASE Measure
  BY <1>7, MeasureKeepsType
<1>8. CASE EndPass
  BY <1>8, EndKeepsType DEF Contract!vars
<1>9. CASE UNCHANGED vars
  <2>1. UNCHANGED << trace, reader, max_id_used, debug_mode, at, pass, i, why, h, ranges,
                     range_index, allCheck, total_size, max_total_size, held, wrote,
                     damage, faults >>
    BY <1>9 DEF vars, trace_vars, run_vars, range_vars, total_vars, history_vars
  <2>2. TypeInv'
    BY <2>1 DEF TypeInv, Reading, Running, Counters
  <2> QED
    BY <2>1, <2>2 DEF Contract!vars
<1> QED
  BY <1>1, <1>2, <1>3, <1>4, <1>5, <1>6, <1>7, <1>8, <1>9 DEF Next

(***************************************************************************)
(* The type invariant is one.                                              *)
(***************************************************************************)
LEMMA TypeInvariance == Spec => []TypeInv
<1>1. TypeInv /\ [Next]_vars => TypeInv'
  BY NextKeepsType
<1> QED
  BY <1>1, InitType, PTL DEF Spec

(***************************************************************************)
(* Every id of a request that passed read_trace is an index of the arrays, *)
(* addresses and break stay in the arena, sizes and totals fit size_t and  *)
(* every range has an index, for every set of request lines, arena and     *)
(* amount of random data, and with a mistake of the allocator too.         *)
(***************************************************************************)
THEOREM TypeCorrect == Spec => []TypeOK
<1>1. TypeInv => TypeOK
  BY DEF TypeInv, TypeOK, Reading, Running, Counters, TraceType, HeapGood
<1> QED
  BY <1>1, TypeInvariance, PTL

(***************************************************************************)
(* What the driver takes from mm-naive.c and gives back to it follows the  *)
(* contract of mm.h, whatever the trace asks for: blocks are aligned,      *)
(* inside the heap and apart from all others, in correctness runs and in   *)
(* measurements.                                                           *)
(***************************************************************************)
THEOREM Implementation == Spec => ImplementsContract
<1>1. TypeInv /\ [Next]_vars => [Contract!Next]_(Contract!vars)
  BY NextKeepsType
<1>2. Init => Contract!Init
  BY InitType
<1> QED
  BY <1>1, <1>2, TypeInvariance, PTL DEF ImplementsContract, Contract!Spec, Spec

-----------------------------------------------------------------------------
(***************************************************************************)
(* The range set of an evaluation is the one RangeSetProofs speaks of.     *)
(***************************************************************************)
LEMMA SameRangeSet ==
  ASSUME NEW s, NEW lo, NEW size
  PROVE  /\ RP!RangeAssumption
         /\ RS!Tracked(s) = RP!Tracked(s)
         /\ RS!Predecessor(s, lo) = RP!Predecessor(s, lo)
         /\ RS!accepts(s, lo, size) <=> RP!accepts(s, lo, size)
         /\ RS!add_range(s, lo, size) = RP!add_range(s, lo, size)
         /\ RS!remove_range(s, lo) = RP!remove_range(s, lo)
         /\ RS!new_range_set = RP!new_range_set
<1>0. RP!RangeAssumption
  BY Consts DEF RP!RangeAssumption
<1>1. RS!Tracked(s) = RP!Tracked(s) /\ RS!NIL = RP!NIL
  BY DEF RS!Tracked, RP!Tracked, RS!NIL, RP!NIL
<1>2. RS!Predecessor(s, lo) = RP!Predecessor(s, lo)
  BY DEF RS!Predecessor, RP!Predecessor, RS!lo_tree!nearest, RP!lo_tree!nearest,
         RS!lo_tree!Greatest, RP!lo_tree!Greatest, RS!Tracked, RP!Tracked, RS!NIL, RP!NIL
<1>3. \A p : RS!Successor(s, p) = RP!Successor(s, p)
  BY DEF RS!Successor, RP!Successor, RS!NIL, RP!NIL
<1>4. \A a, b, c, d : RS!Relink(s, a, b, c, d) = RP!Relink(s, a, b, c, d)
  BY DEF RS!Relink, RP!Relink, RS!Tracked, RP!Tracked
<1>5. RS!accepts(s, lo, size) <=> RP!accepts(s, lo, size)
  BY <1>1, <1>2, <1>3 DEF RS!accepts, RP!accepts, RS!IS_ALIGNED, RP!IS_ALIGNED,
     RS!InHeap, RP!InHeap, RS!Addresses, RP!Addresses
<1>6. RS!add_range(s, lo, size) = RP!add_range(s, lo, size)
  <2>1. PICK P : P = RS!Predecessor(s, lo) /\ P = RP!Predecessor(s, lo)
    BY <1>2
  <2>2. PICK N : N = RS!Successor(s, P) /\ N = RP!Successor(s, P)
    BY <1>3
  <2>3. PICK R : R = RS!Relink(s, P, lo, N, lo) /\ R = RP!Relink(s, P, lo, N, lo)
    BY <1>4
  <2>4. PICK T : T = RS!Tracked(s) /\ T = RP!Tracked(s)
    BY <1>1
  <2> DEFINE p == [hi |-> lo + size - 1, next |-> N, prev |-> P]
             u(nil) == IF debug_mode = "DBG_NONE" THEN s
                       ELSE [list |-> IF P = nil THEN lo ELSE s.list,
                             rec |-> [a \in T \cup {lo} |-> IF a = lo THEN p ELSE R[a]]]
  <2>5. RS!add_range(s, lo, size) = u(RS!NIL)
    BY <2>1, <2>2, <2>3, <2>4 DEF RS!add_range
  <2>6. RP!add_range(s, lo, size) = u(RP!NIL)
    BY <2>1, <2>2, <2>3, <2>4 DEF RP!add_range
  <2> HIDE DEF u
  <2> QED
    BY <1>1, <2>5, <2>6
<1>7. RS!remove_range(s, lo) = RP!remove_range(s, lo)
  BY <1>1, <1>4, Zenon DEF RS!remove_range, RP!remove_range
<1>8. RS!new_range_set = RP!new_range_set
  BY DEF RS!new_range_set, RP!new_range_set, RS!NIL, RP!NIL
<1> QED
  BY <1>0, <1>1, <1>2, <1>5, <1>6, <1>7, <1>8

(***************************************************************************)
(* A block above all tracked ranges is accepted, and added at the end of   *)
(* the list.                                                               *)
(***************************************************************************)
LEMMA AboveAll ==
  ASSUME NEW s, RP!Sound(s), NEW lo \in Nat, lo < MaxHeap,
         \A a \in RS!Tracked(s) : s.rec[a].hi < lo
  PROVE  LET P == RS!Predecessor(s, lo)
         IN  \/ P = RS!NIL /\ RS!Tracked(s) = {} /\ RS!Successor(s, P) = RS!NIL
             \/ /\ P \in RS!Tracked(s) /\ P # RS!NIL
                /\ RS!Successor(s, P) = RS!NIL
<1> DEFINE T == RS!Tracked(s)
           P == RS!Predecessor(s, lo)
<1>0. MaxHeap \in Nat /\ ALIGNMENT \in Nat \ {0}
  BY Consts
<1>1. T = RP!Tracked(s) /\ P = RP!Predecessor(s, lo) /\ RS!NIL = RP!NIL
  BY SameRangeSet, Consts
<1>2. lo \in RP!Addresses
  BY <1>0 DEF RP!Addresses
<1>3. RP!Tracked(s) \subseteq RP!Addresses
  BY DEF RP!Sound
<1>4. \/ P = RP!NIL /\ \A k \in T : lo < k
      \/ /\ P \in T /\ P <= lo
         /\ \A k \in T : k <= lo => k <= P
  BY <1>0, <1>1, <1>2, <1>3, RP!Nearest
<1>5. ASSUME NEW a \in T
      PROVE  /\ a \in Nat /\ s.rec[a].hi \in Nat /\ a <= s.rec[a].hi /\ a < lo
             /\ a # RS!NIL /\ s.rec[a].next \in T \cup {RS!NIL}
             /\ s.rec[a].next # RS!NIL => s.rec[a].hi < s.rec[a].next
  <2>1. /\ a \in Nat /\ a # RP!NIL /\ s.rec[a].hi \in Nat /\ a <= s.rec[a].hi
        /\ s.rec[a].next \in RP!Links(s)
    BY <1>0, <1>1, RP!RangeFields
  <2>2. s.rec[a].next # RP!NIL => s.rec[a].hi < s.rec[a].next
    BY <1>1 DEF RP!Sound
  <2>3. a < lo
    BY <2>1
  <2> QED
    BY <1>1, <2>1, <2>2, <2>3 DEF RP!Links
<1> HIDE DEF T, P
<1>6. CASE P = RS!NIL
  <2>1. \A k \in T : lo < k
    BY <1>1, <1>4, <1>5, <1>6
  <2>2. T = {}
    BY <1>5, <2>1
  <2> QED
    BY <1>6, <2>2 DEF T, P, RS!Successor
<1>7. CASE P \in T
  <2>1. s.rec[P].next = RS!NIL
    <3> SUFFICES ASSUME s.rec[P].next # RS!NIL
                 PROVE  FALSE
      OBVIOUS
    <3>1. s.rec[P].next \in T
      BY <1>5, <1>7
    <3>2. PICK n \in T : n = s.rec[P].next
      BY <3>1
    <3>3. n \in Nat /\ n < lo /\ P \in Nat /\ P < n
      <4>1. n \in Nat /\ n < lo /\ P \in Nat
        BY <1>5, <1>7
      <4>2. P <= s.rec[P].hi /\ s.rec[P].hi \in Nat /\ s.rec[P].hi < n
        BY <1>5, <1>7, <3>2
      <4> QED
        BY <4>1, <4>2
    <3>4. n <= P
      BY <1>1, <1>4, <1>5, <1>7, <3>3
    <3> QED
      BY <3>3, <3>4
  <2>2. P # RS!NIL
    BY <1>5, <1>7
  <2> QED
    BY <1>7, <2>1, <2>2 DEF T, P, RS!Successor
<1> QED
  BY <1>1, <1>4, <1>6, <1>7 DEF T, P

(***************************************************************************)
(* add_range finds no overlap for a payload above all ranges.              *)
(***************************************************************************)
LEMMA RangeFree ==
  ASSUME NEW s, NEW lo \in Nat, lo % 16 = 0, NEW size \in Nat \ {0},
         lo + size <= MaxHeap,
         debug_mode # "DBG_NONE" =>
           RP!Sound(s) /\ \A a \in RS!Tracked(s) : s.rec[a].hi < lo
  PROVE  RS!accepts(s, lo, size)
<1>1. RS!IS_ALIGNED(lo) /\ RS!InHeap(lo) /\ RS!InHeap(lo + size - 1) /\ lo < MaxHeap
  BY Consts DEF RS!IS_ALIGNED, RS!InHeap, RS!Addresses
<1>2. CASE debug_mode = "DBG_NONE"
  BY <1>1, <1>2 DEF RS!accepts
<1>3. CASE debug_mode # "DBG_NONE"
  <2> DEFINE P == RS!Predecessor(s, lo)
  <2>1. /\ P # RS!NIL => P \in RS!Tracked(s)
        /\ RS!Successor(s, P) = RS!NIL
    BY <1>1, <1>3, AboveAll
  <2>2. P # RS!NIL => lo > s.rec[P].hi
    BY <1>3, <2>1
  <2> QED
    BY <1>1, <2>1, <2>2 DEF RS!accepts
<1> QED
  BY <1>2, <1>3

(***************************************************************************)
(* What add_range does to the set for a payload above all ranges.          *)
(***************************************************************************)
LEMMA RangeAdded ==
  ASSUME NEW s, Ordered(s), debug_mode # "DBG_NONE",
         NEW lo \in Nat, NEW size \in Nat \ {0}, lo + size <= MaxHeap,
         \A a \in RS!Tracked(s) : s.rec[a].hi < lo, RS!accepts(s, lo, size),
         NEW u, u = RS!add_range(s, lo, size)
  PROVE  /\ Ordered(u) /\ RS!Tracked(u) = RS!Tracked(s) \cup {lo}
         /\ lo \notin RS!Tracked(s) /\ u.rec[lo].hi = lo + size - 1
         /\ \A a \in RS!Tracked(s) : u.rec[a].hi = s.rec[a].hi
<1> DEFINE P == RS!Predecessor(s, lo)
           N == RS!Successor(s, P)
           R == RS!Relink(s, P, lo, N, lo)
           T == RS!Tracked(s)
<1>0. MaxHeap \in Nat /\ ALIGNMENT \in Nat \ {0} /\ RP!NIL = RS!NIL
  BY Consts
<1>1. /\ RP!Sound(u) /\ lo \notin T /\ RS!Tracked(u) = T \cup {lo}
      /\ u.rec[lo].hi = lo + size - 1
      /\ \A a \in T : u.rec[a].hi = s.rec[a].hi
  <2>1. lo \in RP!Addresses
    BY <1>0 DEF RP!Addresses
  <2>2. RP!accepts(s, lo, size) /\ u = RP!add_range(s, lo, size)
    BY SameRangeSet
  <2>3. RP!Sound(s)
    BY DEF Ordered
  <2>4. /\ RP!Sound(u)
        /\ lo \notin RP!Tracked(s) /\ RP!Tracked(u) = RP!Tracked(s) \cup {lo}
        /\ u.rec[lo].hi = lo + size - 1
        /\ \A a \in RP!Tracked(s) : u.rec[a].hi = s.rec[a].hi
    BY <1>0, <2>1, <2>2, <2>3, RP!Add
  <2> QED
    BY <2>4, SameRangeSet
<1>2. \/ P = RS!NIL /\ T = {} /\ N = RS!NIL
      \/ P \in T /\ P # RS!NIL /\ N = RS!NIL
  <2>1. RP!Sound(s) /\ lo < MaxHeap
    BY <1>0 DEF Ordered
  <2> QED
    BY <2>1, AboveAll
<1>3. \A a \in T : a # N => R[a].prev = s.rec[a].prev
  BY DEF RS!Relink
<1>4. RS!NIL \notin T
  BY <1>0, RP!RangeFields, SameRangeSet DEF Ordered
<1>5. u = [list |-> IF P = RS!NIL THEN lo ELSE s.list,
           rec |-> [a \in T \cup {lo} |->
                      IF a = lo THEN [hi |-> lo + size - 1, next |-> N, prev |-> P]
                      ELSE R[a]]]
  BY DEF RS!add_range
<1> HIDE DEF R, N, P
<1>6. /\ u.list = IF P = RS!NIL THEN lo ELSE s.list
      /\ u.rec[lo].prev = P
      /\ \A a \in T : a # lo => u.rec[a] = R[a]
  BY <1>5
<1> HIDE DEF T
<1>7. ASSUME NEW a \in T \cup {lo}, u.rec[a].prev = RS!NIL
      PROVE  a = u.list
  <2>1. CASE a = lo
    BY <1>6, <1>7, <2>1
  <2>2. CASE a # lo
    <3>1. a \in T /\ u.rec[a].prev = s.rec[a].prev /\ P # RS!NIL
      BY <1>2, <1>3, <1>4, <1>6, <2>2
    <3> QED
      BY <1>6, <1>7, <3>1 DEF Ordered, T
  <2> QED
    BY <2>1, <2>2
<1> QED
  BY <1>1, <1>7 DEF Ordered, T

(***************************************************************************)
(* What remove_range does to the set, for a range of it and for another    *)
(* address.                                                                *)
(***************************************************************************)
LEMMA RangeRemoved ==
  ASSUME NEW s, Ordered(s), NEW lo, NEW u, u = RS!remove_range(s, lo)
  PROVE  /\ Ordered(u) /\ RS!Tracked(u) = RS!Tracked(s) \ {lo}
         /\ \A a \in RS!Tracked(u) : u.rec[a].hi = s.rec[a].hi
<1> DEFINE T == RS!Tracked(s)
<1>0. MaxHeap \in Nat /\ ALIGNMENT \in Nat \ {0} /\ RP!NIL = RS!NIL /\ RP!Sound(s)
  BY Consts DEF Ordered
<1>1. CASE lo \notin T
  <2>1. u = s
    BY <1>1 DEF RS!remove_range
  <2> QED
    BY <1>1, <2>1
<1>2. CASE lo \in T
  <2>1. /\ RP!Sound(u) /\ RS!Tracked(u) = T \ {lo}
        /\ \A a \in RS!Tracked(u) : u.rec[a].hi = s.rec[a].hi
    <3>1. lo \in RP!Tracked(s) /\ u = RP!remove_range(s, lo)
      BY <1>2, SameRangeSet
    <3>2. /\ RP!Sound(u) /\ RP!Tracked(u) = RP!Tracked(s) \ {lo}
          /\ \A a \in RP!Tracked(u) : u.rec[a].hi = s.rec[a].hi
      BY <1>0, <3>1, RP!Remove
    <3> QED
      BY <3>2, SameRangeSet
  <2>2. PICK p, n : p = s.rec[lo].prev /\ n = s.rec[lo].next
    OBVIOUS
  <2> DEFINE R == RS!Relink(s, p, n, n, p)
  <2>3. u = [list |-> IF p = RS!NIL THEN n ELSE s.list,
             rec |-> [a \in T \ {lo} |-> R[a]]]
    BY <1>2, <2>2 DEF RS!remove_range
  <2>4. \A a \in T : R[a].prev = IF a = n THEN p ELSE s.rec[a].prev
    BY DEF RS!Relink
  <2> HIDE DEF R
  <2>5. /\ u.list = IF p = RS!NIL THEN n ELSE s.list
        /\ \A a \in T \ {lo} : u.rec[a] = R[a]
    BY <2>3
  <2>6. p = RS!NIL => lo = s.list
    BY <1>2, <2>2 DEF Ordered
  <2>7. \A a \in T : s.rec[a].prev = RS!NIL => a = s.list
    BY DEF Ordered
  <2> HIDE DEF T
  <2>8. ASSUME NEW a \in T \ {lo}, u.rec[a].prev = RS!NIL
        PROVE  a = u.list
    <3>1. CASE a = n
      BY <2>4, <2>5, <2>8, <3>1
    <3>2. CASE a # n
      BY <2>4, <2>5, <2>6, <2>7, <2>8, <3>2
    <3> QED
      BY <3>1, <3>2
  <2> QED
    BY <2>1, <2>8 DEF Ordered, T
<1> QED
  BY <1>1, <1>2

(***************************************************************************)
(* The list from its head meets every tracked range: by the least address  *)
(* that a set closed under next would miss.                                *)
(***************************************************************************)
LEMMA WholeWalk ==
  ASSUME NEW s, Ordered(s)
  PROVE  Walk(s) = RS!Tracked(s)
<1> DEFINE T == RS!Tracked(s)
<1>0. MaxHeap \in Nat /\ ALIGNMENT \in Nat \ {0} /\ RP!NIL = RS!NIL /\ RP!Sound(s)
  BY Consts DEF Ordered
<1>1. T = RP!Tracked(s)
  BY SameRangeSet
<1>2. ASSUME NEW S \in SUBSET T, s.list \in S \cup {RS!NIL},
             \A a \in S : s.rec[a].next \in S \cup {RS!NIL}
      PROVE  T \subseteq S
  <2> SUFFICES ASSUME T \ S # {}
               PROVE  FALSE
    OBVIOUS
  <2>1. ASSUME NEW a \in T
        PROVE  /\ a \in Nat /\ a # RS!NIL
               /\ s.rec[a].prev # RS!NIL =>
                    /\ s.rec[a].prev \in T /\ s.rec[s.rec[a].prev].next = a
                    /\ s.rec[a].prev < a
    <3>1. a \in Nat /\ a # RS!NIL
      BY <1>0, <1>1, RP!RangeFields
    <3>2. s.rec[a].prev # RS!NIL =>
              /\ s.rec[a].prev \in T /\ s.rec[s.rec[a].prev].next = a
              /\ s.rec[s.rec[a].prev].hi < a
      BY <1>0, <1>1, RP!Neighbours
    <3>3. ASSUME NEW b \in T, s.rec[b].hi < a
          PROVE  b < a
      <4>1. b \in Nat /\ s.rec[b].hi \in Nat /\ b <= s.rec[b].hi
        BY <1>0, <1>1, RP!RangeFields
      <4> QED
        BY <3>1, <3>3, <4>1
    <3> QED
      BY <3>1, <3>2, <3>3
  <2>2. PICK a \in T \ S : \A b \in T \ S : a <= b
    <3>1. T \ S \subseteq Nat
      BY <2>1
    <3> HIDE DEF T
    <3> QED
      BY <3>1, LeastNatural
  <2> HIDE DEF T
  <2>3. CASE s.rec[a].prev = RS!NIL
    <3>1. a = s.list
      BY <2>2, <2>3 DEF Ordered, T
    <3> QED
      BY <1>2, <2>1, <2>2, <3>1
  <2>4. CASE s.rec[a].prev # RS!NIL
    <3>1. PICK p \in T : p = s.rec[a].prev /\ s.rec[p].next = a /\ p < a
      BY <2>1, <2>2, <2>4
    <3>2. p \in S
      BY <2>1, <2>2, <3>1
    <3> QED
      BY <1>2, <2>1, <2>2, <3>1, <3>2
  <2> QED
    BY <2>3, <2>4
<1> HIDE DEF T
<1>3. \A a \in T : \A S \in SUBSET T :
        /\ s.list \in S \cup {RS!NIL}
        /\ \A b \in S : s.rec[b].next \in S \cup {RS!NIL}
        => a \in S
  BY <1>2
<1> QED
  BY <1>3 DEF Walk, T

-----------------------------------------------------------------------------
(***************************************************************************)
(* What a request says of the blocks to come: only the id it names may get *)
(* or lose a block.                                                        *)
(***************************************************************************)
LEMMA KeptStep ==
  ASSUME TypeInv, at = "ops", i <= trace.num_ops, i' = i + 1, SameTrace(trace, trace'),
         NEW id, NEW size
  PROVE  /\ id # op.index => /\ Kept(id, size)' <=> Kept(id, size)
                             /\ Uses(id)' = {} <=> Uses(id) = {}
         /\ id = op.index => /\ Kept(id, size)' <=> op.type # "FREE" /\ op.size = size
                             /\ Uses(id)' # {}
<1>1. i \in Nat /\ i >= 1
  BY OpFacts
<1>2. trace'.ops = trace.ops
  BY DEF SameTrace
<1>3. PICK ops, n : ops = trace.ops /\ n = i
  OBVIOUS
<1>4. /\ Uses(id) = {j \in 1 .. n - 1 : ops[j].index = id}
      /\ Uses(id)' = {j \in 1 .. n : ops[j].index = id}
  BY <1>1, <1>2, <1>3 DEF Uses
<1>5. CASE id # op.index
  <2>1. Uses(id)' = Uses(id)
    BY <1>1, <1>3, <1>4, <1>5 DEF op
  <2>2. \A j : IsLast(j, id)' <=> IsLast(j, id)
    BY <2>1 DEF IsLast
  <2>3. Kept(id, size)' <=> Kept(id, size)
    BY <1>2, <2>1, <2>2 DEF Kept
  <2> QED
    BY <1>5, <2>1, <2>3
<1>6. CASE id = op.index
  <2>1. n \in Uses(id)' /\ \A l \in Uses(id)' : l \in Nat /\ l <= n
    BY <1>1, <1>3, <1>4, <1>6 DEF op
  <2>2. IsLast(n, id)'
    BY <2>1 DEF IsLast
  <2>3. ASSUME NEW j \in Uses(id)', IsLast(j, id)'
        PROVE  j = n
    <3>1. j \in Nat /\ j <= n /\ n <= j
      BY <2>1, <2>3 DEF IsLast
    <3> QED
      BY <1>1, <1>3, <3>1
  <2>4. Kept(id, size)' <=> ops[n].type # "FREE" /\ ops[n].size = size
    BY <1>2, <1>3, <2>1, <2>2, <2>3 DEF Kept
  <2> QED
    BY <1>3, <1>6, <2>1, <2>4 DEF op
<1> QED
  BY <1>5, <1>6

(***************************************************************************)
(* Who has a block after a request.                                        *)
(***************************************************************************)
LEMMA LiveStep ==
  ASSUME TypeInv, at = "ops", i <= trace.num_ops, i' = i + 1, SameTrace(trace, trace'),
         NEW id
  PROVE  /\ id # op.index => /\ id \in Live' <=> id \in Live
                             /\ id \in Vacant' <=> id \in Vacant
         /\ id = op.index =>
              /\ id \in Live' <=> id \in Ids(trace) /\ op.type # "FREE" /\ op.size > 0
              /\ id \in Vacant' <=> id \in Ids(trace) /\ op.type # "FREE" /\ op.size = 0
<1>1. Ids(trace') = Ids(trace)
  BY DEF SameTrace, Ids
<1>2. op.size \in Nat
  BY OpFacts
<1>3. /\ id \in Live' <=> id \in Ids(trace) /\ \E size \in Nat \ {0} : Kept(id, size)'
      /\ id \in Vacant' <=> id \in Ids(trace) /\ (Uses(id)' = {} \/ Kept(id, 0)')
  BY <1>1 DEF Live, Vacant
<1>4. CASE id # op.index
  BY <1>3, <1>4, KeptStep DEF Live, Vacant
<1>5. CASE id = op.index
  <2>1. /\ Uses(id)' # {}
        /\ \A size : Kept(id, size)' <=> op.type # "FREE" /\ op.size = size
    BY <1>5, KeptStep
  <2> QED
    BY <1>2, <1>3, <1>5, <2>1
<1> QED
  BY <1>4, <1>5

(***************************************************************************)
(* What a well-formed trace asks: malloc for an id without a block, the    *)
(* others for one that was not freed.                                      *)
(***************************************************************************)
LEMMA WellFormedStep ==
  ASSUME TypeInv, WellFormed(trace), at = "ops", i <= trace.num_ops
  PROVE  /\ op.index \in Ids(trace) \/ (op.type = "FREE" /\ op.index = NULL_ID)
         /\ NULL_ID \notin Ids(trace)
         /\ op.type = "ALLOC" => /\ op.size > 0 /\ op.index \in Ids(trace)
                                 /\ op.index \notin Live
         /\ op.type # "ALLOC" /\ op.index # NULL_ID => op.index \in Live \cup Vacant
<1> DEFINE J == Before(trace.ops, i)
           last == trace.ops[Latest(J)]
<1>1. /\ i \in DOMAIN trace.ops /\ i \in Nat /\ i >= 1 /\ op = trace.ops[i]
      /\ trace.ops \in Seq(Lines) /\ i - 1 < Len(trace.ops)
  <2>1. i \in DOMAIN trace.ops /\ i \in 1 .. trace.num_ops
    BY OpFacts
  <2>2. trace.ops \in Seq(Lines)
    BY DEF TypeInv, TraceType
  <2> QED
    BY <2>1, <2>2 DEF op
<1>2. /\ NamesId(trace, op)
      /\ op.type = "ALLOC" => op.size > 0 /\ (J = {} \/ last.size = 0)
      /\ op.type # "ALLOC" /\ op.index # NULL_ID => J = {} \/ last.type # "FREE"
  BY <1>1 DEF WellFormed
<1>3. J = Uses(op.index)
  BY <1>1 DEF Before, Uses
<1>4. J \subseteq Nat /\ \A j \in J : j <= i
  BY <1>1 DEF Before
<1> HIDE DEF J
<1>5. ASSUME J # {}
      PROVE  Latest(J) \in J /\ \A l \in J : l <= Latest(J)
  <2>1. \E j \in J : \A l \in J : l <= j
    BY <1>1, <1>4, <1>5, GreatestNatural
  <2> QED
    BY <2>1 DEF Latest
<1>6. ASSUME NEW j \in J, IsLast(j, op.index)
      PROVE  j = Latest(J)
  <2>1. Latest(J) \in Nat /\ j \in Nat /\ j <= Latest(J) /\ Latest(J) <= j
    BY <1>3, <1>4, <1>5, <1>6 DEF IsLast
  <2> QED
    BY <2>1
<1>7. NULL_ID \notin Ids(trace)
  BY Consts DEF NULL_ID, Ids, TypeInv, TraceType
<1>8. ASSUME op.type = "ALLOC"
      PROVE  op.size > 0 /\ op.index \in Ids(trace) /\ op.index \notin Live
  <2>1. op.index \in Ids(trace) /\ op.size > 0
    BY <1>2, <1>8 DEF NamesId
  <2>2. SUFFICES ASSUME op.index \in Live
                 PROVE  FALSE
    BY <2>1
  <2>3. PICK size \in Nat \ {0}, j \in J :
          IsLast(j, op.index) /\ trace.ops[j].size = size
    BY <1>3, <2>2 DEF Live, Kept
  <2> QED
    BY <1>2, <1>6, <1>8, <2>3
<1>9. ASSUME op.type # "ALLOC", op.index # NULL_ID
      PROVE  op.index \in Live \cup Vacant
  <2>1. op.index \in Ids(trace)
    BY <1>2, <1>9 DEF NamesId
  <2>2. CASE J = {}
    BY <1>3, <2>1, <2>2 DEF Vacant
  <2>3. CASE J # {}
    <3>1. IsLast(Latest(J), op.index) /\ Latest(J) \in J
      BY <1>3, <1>5, <2>3 DEF IsLast
    <3>2. last.size \in Nat
      <4>1. Latest(J) \in DOMAIN trace.ops
        BY <1>1, <3>1 DEF J, Before
      <4>2. last \in Lines
        BY <1>1, <4>1
      <4> QED
        BY <4>2, LineFacts
    <3>3. Kept(op.index, last.size)
      BY <1>2, <1>3, <1>9, <2>3, <3>1 DEF Kept
    <3> QED
      BY <2>1, <3>2, <3>3 DEF Live, Vacant
  <2> QED
    BY <2>2, <2>3
<1> QED
  BY <1>2, <1>7, <1>8, <1>9 DEF NamesId

-----------------------------------------------------------------------------
(***************************************************************************)
(* The blocks of a well-formed trace.                                      *)
(***************************************************************************)
LEMMA BlockFacts ==
  ASSUME TypeInv, Placed, NEW id \in Live
  PROVE  /\ id \in Ids(trace) /\ Block(id) \in Nat /\ Size(id) \in Nat
         /\ h.brk \in Nat /\ h.brk <= MaxHeap
         /\ 16 <= Block(id) /\ Size(id) > 0 /\ Size(id) < SIZE_MOD
         /\ Block(id) + Size(id) <= h.brk
         /\ RegionAt(Block(id)) = {[ptr |-> Block(id), size |-> Size(id)]}
<1>1. id \in Ids(trace)
  BY DEF Live
<1>2. /\ Block(id) \in Nat /\ Size(id) \in Nat /\ Size(id) < SIZE_MOD
      /\ h.brk \in Nat /\ h.brk <= MaxHeap
  <2>1. /\ trace.blocks \in [Ids(trace) -> 0 .. MaxHeap]
        /\ trace.block_sizes \in [Ids(trace) -> 0 .. SIZE_MOD - 1]
    BY DEF TypeInv, TraceType
  <2>2. Block(id) \in 0 .. MaxHeap /\ Size(id) \in 0 .. SIZE_MOD - 1
    BY <1>1, <2>1 DEF Block, Size
  <2>3. h.brk \in 0 .. MaxHeap
    BY DEF TypeInv, HeapGood
  <2> QED
    BY <2>2, <2>3, Consts
<1>3. 16 <= Block(id) /\ Size(id) > 0 /\ Block(id) + Size(id) <= h.brk
  BY Consts DEF Placed
<1>4. RegionAt(Block(id)) = {[ptr |-> Block(id), size |-> Size(id)]}
  <2>1. [ptr |-> Block(id), size |-> Size(id)] \in held
    BY DEF Placed
  <2>2. ASSUME NEW r \in RegionAt(Block(id))
        PROVE  r = [ptr |-> Block(id), size |-> Size(id)]
    <3>1. r \in held /\ r.ptr = Block(id)
      BY DEF RegionAt
    <3>2. PICK x \in held : x = [ptr |-> Block(id), size |-> Size(id)]
      BY <2>1
    <3>3. x.ptr = r.ptr
      BY <3>1, <3>2
    <3> QED
      BY <3>1, <3>2, <3>3 DEF TypeInv, HeldSound
  <2>3. [ptr |-> Block(id), size |-> Size(id)].ptr = Block(id)
    OBVIOUS
  <2>4. [ptr |-> Block(id), size |-> Size(id)] \in RegionAt(Block(id))
    BY <2>1, <2>3 DEF RegionAt
  <2> QED
    BY <2>2, <2>4
<1> QED
  BY <1>1, <1>2, <1>3, <1>4

(***************************************************************************)
(* Only the first maxfill bytes of a block carry random data.              *)
(***************************************************************************)
LEMMA FilledFacts ==
  ASSUME NEW a \in Nat, NEW b \in Nat
  PROVE  /\ Filled(0) = {} /\ Lesser(a, b) \in Nat
         /\ Filled(Lesser(a, b)) \subseteq Filled(b)
         /\ b <= a => Lesser(a, b) = b
         /\ Lesser(a, 0) = 0
         /\ \A k \in Filled(a) : k \in Nat /\ k < a
BY Consts DEF Filled, Lesser

(***************************************************************************)
(* The bytes the driver remembers are those check_index looks for.         *)
(***************************************************************************)
LEMMA ChangedMeans ==
  ASSUME TypeInv, Placed, Noted, debug_mode # "DBG_NONE", NEW id \in Live,
         NEW m, NEW ptr, NEW size \in Nat
  PROVE  Changed(m, ptr, Block(id), size) <=>
           \E k \in Filled(Lesser(size, Size(id))) : Read(m, ptr + k) # Expected(trace, id, k)
<1>1. PICK x : x = [ptr |-> Block(id), size |-> Size(id)]
  OBVIOUS
<1>2. x.size = Size(id) /\ RegionAt(Block(id)) = {x} /\ Size(id) \in Nat
  BY <1>1, BlockFacts
<1>3. \A k \in Filled(Lesser(size, Size(id))) : wrote[Block(id)][k] = Expected(trace, id, k)
  BY <1>2, FilledFacts DEF Noted
<1>4. Changed(m, ptr, Block(id), size) <=>
        \E k \in Filled(Lesser(size, Size(id))) : Read(m, ptr + k) # wrote[Block(id)][k]
  BY <1>2 DEF Changed
<1> QED
  BY <1>3, <1>4

(***************************************************************************)
(* check_index on a live block fails exactly when the block does not hold  *)
(* the bytes that were left in it.                                         *)
(***************************************************************************)
LEMMA CheckIndexExact ==
  ASSUME TypeInv, Placed, Noted, debug_mode # "DBG_NONE", NEW id \in Live,
         NEW size \in Nat, Size(id) <= size
  PROVE  check_index(trace, h, id) <=> ~Changed(h, Block(id), Block(id), size)
<1>1. Lesser(size, Size(id)) = Size(id) /\ id # NULL_ID
  <2>1. Size(id) \in Nat /\ id \in Ids(trace)
    BY BlockFacts
  <2>2. id # NULL_ID
    <3>1. trace.num_ids \in 0 .. UINT_MOD - 1
      BY DEF TypeInv, TraceType
    <3> QED
      BY <2>1, <3>1, Consts DEF NULL_ID, Ids
  <2>3. Lesser(size, Size(id)) = Size(id)
    BY <2>1, FilledFacts
  <2> QED
    BY <2>2, <2>3
<1>2. Changed(h, Block(id), Block(id), size) <=>
        \E k \in Filled(Size(id)) : Read(h, Block(id) + k) # Expected(trace, id, k)
  BY <1>1, ChangedMeans
<1> QED
  BY <1>1, <1>2 DEF check_index, Block, Size

(***************************************************************************)
(* The check of all blocks before a request fails exactly when a live      *)
(* block has changed.                                                      *)
(***************************************************************************)
LEMMA CheckAllExact ==
  ASSUME TypeInv, Placed, Ranged, Noted
  PROVE  check_all <=> ~ChangedHeld
<1>1. CASE debug_mode # "DBG_EXPENSIVE"
  BY <1>1 DEF check_all, ChangedHeld
<1>2. CASE debug_mode = "DBG_EXPENSIVE"
  <2>1. Walk(ranges) = {Block(id) : id \in Live}
    BY <1>2, WholeWalk DEF Ranged
  <2>2. \A id \in Live : range_index[Block(id)] = id
    BY <1>2 DEF Ranged
  <2>3. check_all <=> \A id \in Live : check_index(trace, h, id)
    BY <1>2, <2>1, <2>2 DEF check_all
  <2>4. ChangedHeld <=> \E id \in Live : Changed(h, Block(id), Block(id), Size(id))
    <3>1. held = {[ptr |-> Block(id), size |-> Size(id)] : id \in Live}
      BY DEF Placed
    <3>2. \A id \in Live : LET r == [ptr |-> Block(id), size |-> Size(id)]
                           IN  r.ptr = Block(id) /\ r.size = Size(id)
      OBVIOUS
    <3> QED
      BY <1>2, <3>1, <3>2 DEF ChangedHeld
  <2>5. \A id \in Live : check_index(trace, h, id) <=>
                           ~Changed(h, Block(id), Block(id), Size(id))
    <3> TAKE id \in Live
    <3>1. Size(id) \in Nat /\ Size(id) <= Size(id)
      BY BlockFacts
    <3> QED
      BY <1>2, <3>1, CheckIndexExact
  <2> QED
    BY <2>3, <2>4, <2>5
<1> QED
  BY <1>1, <1>2

(***************************************************************************)
(* An id without a block: nothing to check and nothing that could change.  *)
(***************************************************************************)
LEMMA VacantFacts ==
  ASSUME TypeInv, Placed, NEW id \in Vacant
  PROVE  /\ id \in Ids(trace) /\ Block(id) = NULL /\ Size(id) = 0
         /\ RegionAt(NULL) = {} /\ check_index(trace, h, id)
<1>1. id \in Ids(trace) /\ Block(id) = NULL /\ Size(id) = 0
  BY DEF Vacant, Placed
<1>2. RegionAt(NULL) = {}
  BY Consts, NoneAbove DEF TypeInv
<1>3. check_index(trace, h, id)
  <2>1. trace.block_sizes[id] = 0 /\ Filled(0) = {}
    BY <1>1, FilledFacts DEF Size
  <2> QED
    BY <2>1 DEF check_index
<1> QED
  BY <1>1, <1>2, <1>3

(***************************************************************************)
(* The check of a block before it is freed or resized, and of its data     *)
(* after realloc has moved them.                                           *)
(***************************************************************************)
LEMMA DataChecked ==
  ASSUME TypeInv, Placed, Noted, debug_mode # "DBG_NONE", NEW id \in Live \cup Vacant
  PROVE  check_index(trace, h, id) <=> ~Changed(h, Block(id), Block(id), SIZE_MOD)
<1>1. CASE id \in Live
  <2>1. Size(id) \in Nat /\ Size(id) < SIZE_MOD /\ SIZE_MOD \in Nat
    BY <1>1, BlockFacts, Consts
  <2>2. Size(id) <= SIZE_MOD
    BY <2>1
  <2> QED
    BY <1>1, <2>1, <2>2, CheckIndexExact
<1>2. CASE id \in Vacant
  BY <1>2, VacantFacts DEF Changed
<1> QED
  BY <1>1, <1>2

(***************************************************************************)
(* The check after realloc, on the lesser of the two sizes, fails exactly  *)
(* when the bytes that were left at the old address are not at the new     *)
(* one.                                                                    *)
(***************************************************************************)
LEMMA CopyChecked ==
  ASSUME TypeInv, Placed, Noted, debug_mode # "DBG_NONE", NEW id \in Live \cup Vacant,
         NEW m, NEW ptr \in 0 .. MaxHeap, NEW size \in 0 .. SIZE_MOD - 1,
         NEW u, u = SetBlock(trace, id, ptr, Lesser(size, Size(id)))
  PROVE  check_index(u, m, id) <=> ~Changed(m, ptr, Block(id), size)
<1>1. id \in Ids(trace) /\ Size(id) \in 0 .. SIZE_MOD - 1 /\ Size(id) \in Nat /\ size \in Nat
  <2>1. id \in Ids(trace)
    BY DEF Live, Vacant
  <2> QED
    BY <2>1, Consts DEF Size, TypeInv, TraceType
<1>2. id # NULL_ID
  <2>1. trace.num_ids \in 0 .. UINT_MOD - 1
    BY DEF TypeInv, TraceType
  <2> QED
    BY <1>1, <2>1, Consts DEF NULL_ID, Ids
<1>3. Lesser(size, Size(id)) \in 0 .. SIZE_MOD - 1
  BY <1>1 DEF Lesser
<1>4. /\ u.blocks[id] = ptr /\ u.block_sizes[id] = Lesser(size, Size(id))
      /\ u.block_rand_base = trace.block_rand_base
  BY <1>1, <1>3, SetBlockFacts DEF TypeInv
<1>5. \A k : Expected(u, id, k) = Expected(trace, id, k)
  BY <1>4 DEF Expected
<1>6. check_index(u, m, id) <=>
        \A k \in Filled(Lesser(size, Size(id))) : Read(m, ptr + k) = Expected(trace, id, k)
  BY <1>2, <1>4, <1>5 DEF check_index
<1>7. CASE id \in Live
  BY <1>1, <1>6, <1>7, ChangedMeans
<1>8. CASE id \in Vacant
  <2>1. Lesser(size, Size(id)) = 0 /\ Filled(0) = {}
    BY <1>1, <1>8, VacantFacts, FilledFacts
  <2> QED
    BY <1>6, <1>8, <2>1, VacantFacts DEF Changed
<1> QED
  BY <1>7, <1>8

-----------------------------------------------------------------------------
(***************************************************************************)
(* What the end of a request does to the trace, the heap and the history.  *)
(***************************************************************************)
Others(id) ==
  \A jd \in Ids(trace) : jd # id =>
    /\ Block(jd)' = Block(jd) /\ Size(jd)' = Size(jd)
    /\ trace'.block_rand_base[jd] = trace.block_rand_base[jd]

(***************************************************************************)
(* The end of a request in which an id gets ptr and size.                  *)
(***************************************************************************)
LEMMA FillStep ==
  ASSUME TypeInv, op.index \in Ids(trace), NEW id, id = op.index,
         NEW ptr \in 0 .. MaxHeap, NEW size \in 0 .. SIZE_MOD - 1, NEW old,
         NEW m, HeapGood(m), Fill(SetBlock(trace, id, ptr, size), m, ptr, old, size)
  PROVE  /\ SameTrace(trace, trace') /\ Others(id)
         /\ Block(id)' = ptr /\ Size(id)' = size /\ h'.brk = m.brk
         /\ held' = (held \ RegionAt(old)) \cup
                    (IF size = 0 THEN {} ELSE {[ptr |-> ptr, size |-> size]})
         /\ wrote' = IF size = 0 THEN Forget(old)
                     ELSE Remember(ptr, old, Left(h', ptr, size))
         /\ \A a : (\A k \in Filled(size) : a # ptr + k) => Read(h', a) = Read(m, a)
         /\ debug_mode # "DBG_NONE" =>
              \A k \in Filled(size) : Read(h', ptr + k) = Expected(trace', id, k)
<1>1. PICK t : t = SetBlock(trace, id, ptr, size)
  OBVIOUS
<1>2. /\ TraceType(t) /\ SameTrace(trace, t)
      /\ t.block_rand_base = trace.block_rand_base
      /\ t.blocks[id] = ptr /\ t.block_sizes[id] = size
      /\ \A jd \in Ids(trace) : jd # id =>
           t.blocks[jd] = trace.blocks[jd] /\ t.block_sizes[jd] = trace.block_sizes[jd]
  BY <1>1, SetBlockFacts DEF TypeInv
<1>3. Ids(t) = Ids(trace)
  BY <1>2 DEF SameTrace, Ids
<1>4. PICK base \in Bases : \E f \in {randomize_block(t, m, id, base)} :
        /\ trace' = f.t /\ h' = f.h
        /\ held' = (held \ RegionAt(old)) \cup
                   (IF size = 0 THEN {} ELSE {[ptr |-> ptr, size |-> size]})
        /\ wrote' = IF size = 0 THEN Forget(old)
                    ELSE Remember(ptr, old, Left(f.h, ptr, size))
  BY <1>1 DEF Fill
<1>5. /\ SameTrace(t, trace')
      /\ trace'.blocks = t.blocks /\ trace'.block_sizes = t.block_sizes
      /\ \A jd \in Ids(t) : jd # id =>
           trace'.block_rand_base[jd] = t.block_rand_base[jd]
      /\ h'.brk = m.brk
      /\ \A a : (\A k \in Filled(t.block_sizes[id]) : a # t.blocks[id] + k)
                  => Read(h', a) = Read(m, a)
      /\ debug_mode # "DBG_NONE" =>
           \A k \in Filled(t.block_sizes[id]) :
             Read(h', t.blocks[id] + k) = Expected(trace', id, k)
  <2>1. PICK f : f = randomize_block(t, m, id, base)
    OBVIOUS
  <2>2. f.t = trace' /\ f.h = h'
    BY <1>4, <2>1
  <2>3. debug_mode \in DebugModes
    BY DEF TypeInv, Running
  <2>4. /\ SameTrace(t, f.t)
        /\ f.t.blocks = t.blocks /\ f.t.block_sizes = t.block_sizes
        /\ \A jd \in Ids(t) : jd # id =>
             f.t.block_rand_base[jd] = t.block_rand_base[jd]
        /\ f.h.brk = m.brk
        /\ \A a : (\A k \in Filled(t.block_sizes[id]) : a # t.blocks[id] + k)
                    => Read(f.h, a) = Read(m, a)
        /\ debug_mode # "DBG_NONE" =>
             \A k \in Filled(t.block_sizes[id]) :
               Read(f.h, t.blocks[id] + k) = Expected(f.t, id, k)
    BY <1>2, <1>3, <2>1, <2>3, FillFacts
  <2> QED
    BY <2>2, <2>4
<1>6. SameTrace(trace, trace')
  BY <1>2, <1>5 DEF SameTrace
<1>7. Others(id)
  BY <1>2, <1>3, <1>5 DEF Others, Block, Size
<1>8. Block(id)' = ptr /\ Size(id)' = size
  BY <1>2, <1>5 DEF Block, Size
<1>9. wrote' = IF size = 0 THEN Forget(old) ELSE Remember(ptr, old, Left(h', ptr, size))
  BY <1>4
<1> QED
  BY <1>2, <1>4, <1>5, <1>6, <1>7, <1>8, <1>9

-----------------------------------------------------------------------------
(***************************************************************************)
(* The blocks L are those left once the one at old is taken back, and s is *)
(* the range set then.                                                     *)
(***************************************************************************)
Cleared(L, s, old) ==
  /\ held \ RegionAt(old) = {[ptr |-> Block(jd), size |-> Size(jd)] : jd \in L}
  /\ \A jd \in L : Block(jd) # old
  /\ debug_mode = "DBG_NONE" => s = RS!new_range_set
  /\ debug_mode # "DBG_NONE" =>
       /\ Ordered(s) /\ RS!Tracked(s) = {Block(jd) : jd \in L}
       /\ \A jd \in L : s.rec[Block(jd)].hi = Block(jd) + Size(jd) - 1

(***************************************************************************)
(* Before ALLOC no range has to leave: that of no other block is touched.  *)
(***************************************************************************)
LEMMA NothingToClear ==
  ASSUME TypeInv, Placed, Ranged, NEW id, id \notin Live, NEW ptr \in Nat,
         ptr >= h.brk \/ ptr = 0
  PROVE  Cleared(Live \ {id}, ranges, ptr)
<1>1. Live \ {id} = Live
  OBVIOUS
<1>2. RegionAt(ptr) = {}
  BY NoneAbove DEF TypeInv
<1>3. \A jd \in Live : Block(jd) # ptr
  <2> TAKE jd \in Live
  <2>1. /\ Block(jd) \in Nat /\ Size(jd) \in Nat /\ h.brk \in Nat
        /\ 16 <= Block(jd) /\ Size(jd) > 0 /\ Block(jd) + Size(jd) <= h.brk
    BY BlockFacts
  <2> QED
    BY <2>1
<1> QED
  BY <1>1, <1>2, <1>3 DEF Cleared, Placed, Ranged

(***************************************************************************)
(* Taking back the block of an id leaves the blocks of the others.         *)
(***************************************************************************)
LEMMA BlockLeaves ==
  ASSUME TypeInv, Placed, NEW id \in Live \cup Vacant
  PROVE  /\ \A jd \in Live \ {id} : Block(jd) # Block(id)
         /\ held \ RegionAt(Block(id)) =
              {[ptr |-> Block(jd), size |-> Size(jd)] : jd \in Live \ {id}}
<1>1. \A jd \in Live \ {id} : Block(jd) # Block(id)
  <2>1. CASE id \in Live
    BY <2>1 DEF Placed
  <2>2. CASE id \in Vacant
    <3>1. Block(id) = 0
      BY <2>2, VacantFacts, Consts
    <3>2. \A jd \in Live : Block(jd) \in Nat /\ 16 <= Block(jd)
      BY BlockFacts
    <3> QED
      BY <3>1, <3>2
  <2> QED
    BY <2>1, <2>2
<1>2. held \ RegionAt(Block(id)) =
        {[ptr |-> Block(jd), size |-> Size(jd)] : jd \in Live \ {id}}
  <2>1. held = {[ptr |-> Block(jd), size |-> Size(jd)] : jd \in Live}
    BY DEF Placed
  <2>2. \A jd \in Live : [ptr |-> Block(jd), size |-> Size(jd)].ptr = Block(jd)
    OBVIOUS
  <2>3. CASE id \in Live
    <3>1. \A jd \in Live \ {id} : [ptr |-> Block(jd), size |-> Size(jd)]
                                    # [ptr |-> Block(id), size |-> Size(id)]
      BY <1>1
    <3>2. RegionAt(Block(id)) = {[ptr |-> Block(id), size |-> Size(id)]}
      BY <2>3, BlockFacts
    <3> QED
      BY <2>1, <2>3, <3>1, <3>2
  <2>4. CASE id \notin Live
    <3>1. RegionAt(Block(id)) = {} /\ Live \ {id} = Live
      BY <2>4, VacantFacts
    <3> QED
      BY <2>1, <3>1
  <2> QED
    BY <2>3, <2>4
<1> QED
  BY <1>1, <1>2

(***************************************************************************)
(* Before the check of REALLOC the range of the old block has left the     *)
(* set, and no other.                                                      *)
(***************************************************************************)
LEMMA BlockCleared ==
  ASSUME TypeInv, Placed, Ranged, NEW id \in Live \cup Vacant
  PROVE  Cleared(Live \ {id}, RS!remove_range(ranges, Block(id)), Block(id))
<1> DEFINE s == RS!remove_range(ranges, Block(id))
<1>1. ASSUME debug_mode = "DBG_NONE"
      PROVE  s = RS!new_range_set
  BY <1>1 DEF Ranged, RS!remove_range, RS!new_range_set, RS!Tracked
<1>2. ASSUME debug_mode # "DBG_NONE"
      PROVE  /\ Ordered(s) /\ RS!Tracked(s) = RS!Tracked(ranges) \ {Block(id)}
             /\ \A a \in RS!Tracked(s) : s.rec[a].hi = ranges.rec[a].hi
  BY <1>2, RangeRemoved DEF Ranged
<1> HIDE DEF s
<1>3. /\ \A jd \in Live \ {id} : Block(jd) # Block(id)
      /\ held \ RegionAt(Block(id)) =
           {[ptr |-> Block(jd), size |-> Size(jd)] : jd \in Live \ {id}}
  BY BlockLeaves
<1>4. ASSUME debug_mode # "DBG_NONE"
      PROVE  /\ RS!Tracked(s) = {Block(jd) : jd \in Live \ {id}}
             /\ \A jd \in Live \ {id} : s.rec[Block(jd)].hi = Block(jd) + Size(jd) - 1
  <2>1. /\ RS!Tracked(ranges) = {Block(jd) : jd \in Live}
        /\ \A jd \in Live : ranges.rec[Block(jd)].hi = Block(jd) + Size(jd) - 1
    BY <1>4 DEF Ranged
  <2>2. RS!Tracked(s) = {Block(jd) : jd \in Live \ {id}}
    <3>1. \A jd \in Live \ {id} : Block(jd) \in RS!Tracked(s)
      BY <1>2, <1>3, <1>4, <2>1
    <3>2. ASSUME NEW a \in RS!Tracked(s)
          PROVE  a \in {Block(jd) : jd \in Live \ {id}}
      <4>1. a \in RS!Tracked(ranges) /\ a # Block(id)
        BY <1>2, <1>4
      <4>2. PICK jd \in Live : a = Block(jd)
        BY <2>1, <4>1
      <4> QED
        BY <4>1, <4>2
    <3> QED
      BY <3>1, <3>2
  <2> QED
    BY <1>2, <1>4, <2>1, <2>2
<1> QED
  BY <1>1, <1>2, <1>3, <1>4 DEF Cleared, s

(***************************************************************************)
(* The entries and the expected data of the other ids stay.                *)
(***************************************************************************)
LEMMA SameExpected ==
  ASSUME TypeInv, NEW id, Others(id), NEW jd \in Ids(trace), jd # id
  PROVE  /\ Block(jd)' = Block(jd) /\ Size(jd)' = Size(jd)
         /\ \A k : Expected(trace', jd, k) = Expected(trace, jd, k)
BY DEF Others, Expected

(***************************************************************************)
(* The arrays and the regions still say the same after a request that      *)
(* leaves no block, a free or a realloc to 0 bytes, and after one that     *)
(* leaves a new block above the break.                                     *)
(***************************************************************************)
LEMMA PlacedWithout ==
  ASSUME TypeInv, Placed, at = "ops", i <= trace.num_ops, i' = i + 1,
         SameTrace(trace, trace'), NEW id, id = op.index, Others(id), NEW old,
         held \ RegionAt(old) =
           {[ptr |-> Block(jd), size |-> Size(jd)] : jd \in Live \ {id}},
         held' = held \ RegionAt(old), h'.brk = h.brk,
         op.type = "FREE" \/ (op.size = 0 /\ Block(id)' = NULL /\ Size(id)' = 0)
  PROVE  Placed'
<1>1. PICK L : L = Live \ {id}
  OBVIOUS
<1>2. Live' = L
  <2>1. \A jd : jd # id => (jd \in Live' <=> jd \in Live)
    BY LiveStep
  <2>2. id \notin Live'
    BY LiveStep
  <2> QED
    BY <1>1, <2>1, <2>2
<1>3. ASSUME NEW jd \in L
      PROVE  jd \in Live /\ Block(jd)' = Block(jd) /\ Size(jd)' = Size(jd)
  <2>1. jd \in Live /\ jd \in Ids(trace) /\ jd # id
    BY <1>1 DEF Live
  <2> QED
    BY <2>1, SameExpected
<1>4. ASSUME NEW jd \in Vacant'
      PROVE  Block(jd)' = NULL /\ Size(jd)' = 0
  <2>1. CASE jd = id
    BY <1>4, <2>1, LiveStep
  <2>2. CASE jd # id
    <3>1. jd \in Vacant
      BY <1>4, <2>2, LiveStep
    <3>2. jd \in Ids(trace) /\ Block(jd) = NULL /\ Size(jd) = 0
      BY <3>1, VacantFacts
    <3> QED
      BY <2>2, <3>2, SameExpected
  <2> QED
    BY <2>1, <2>2
<1>5. \A jd \in L : /\ HEADER_SIZE <= Block(jd)' /\ Size(jd)' > 0
                    /\ Block(jd)' + Size(jd)' <= h'.brk
  BY <1>3 DEF Placed
<1>6. \A jd, kd \in L : Block(jd)' = Block(kd)' => jd = kd
  BY <1>3 DEF Placed
<1>7. held' = {[ptr |-> Block(jd)', size |-> Size(jd)'] : jd \in L}
  <2>1. held' = {[ptr |-> Block(jd), size |-> Size(jd)] : jd \in L}
    BY <1>1
  <2> QED
    BY <1>3, <2>1
<1> QED
  BY <1>2, <1>4, <1>5, <1>6, <1>7 DEF Placed

LEMMA PlacedWith ==
  ASSUME TypeInv, Placed, at = "ops", i <= trace.num_ops, i' = i + 1,
         SameTrace(trace, trace'), NEW id \in Ids(trace), id = op.index, Others(id),
         op.type # "FREE", NEW size \in Nat \ {0}, size = op.size, NEW old,
         held \ RegionAt(old) =
           {[ptr |-> Block(jd), size |-> Size(jd)] : jd \in Live \ {id}},
         NEW m, Grown(m, size), h'.brk = m.h.brk,
         Block(id)' = m.bp, Size(id)' = size,
         held' = (held \ RegionAt(old)) \cup {[ptr |-> m.bp, size |-> size]}
  PROVE  Placed'
<1>1. PICK L : L = Live \ {id}
  OBVIOUS
<1>2. Live' = L \cup {id} /\ id \notin L
  <2>1. \A jd : jd # id => (jd \in Live' <=> jd \in Live)
    BY LiveStep
  <2>2. id \in Live'
    BY LiveStep
  <2> QED
    BY <1>1, <2>1, <2>2
<1>3. PICK b, p : b = h.brk /\ p = m.bp
  OBVIOUS
<1>4. /\ b \in Nat /\ p = b + 16 /\ p \in Nat /\ p + size <= h'.brk /\ h'.brk \in Nat
      /\ b <= h'.brk
  BY <1>3, Consts DEF TypeInv, HeapGood, Grown
<1>5. ASSUME NEW jd \in L
      PROVE  /\ jd \in Live /\ Block(jd)' = Block(jd) /\ Size(jd)' = Size(jd)
             /\ Block(jd) \in Nat /\ Size(jd) \in Nat /\ Block(jd) + Size(jd) <= b
             /\ Block(jd) # p
  <2>1. jd \in Live /\ jd \in Ids(trace) /\ jd # id
    BY <1>1 DEF Live
  <2>2. Block(jd) \in Nat /\ Size(jd) \in Nat /\ Block(jd) + Size(jd) <= b
    BY <1>3, <2>1, BlockFacts
  <2>3. Block(jd) # p
    BY <1>4, <2>2
  <2> QED
    BY <2>1, <2>2, <2>3, SameExpected
<1>6. ASSUME NEW jd \in Vacant'
      PROVE  Block(jd)' = NULL /\ Size(jd)' = 0
  <2>1. jd # id
    BY <1>6, LiveStep
  <2>2. jd \in Vacant
    BY <1>6, <2>1, LiveStep
  <2>3. jd \in Ids(trace) /\ Block(jd) = NULL /\ Size(jd) = 0
    BY <2>2, VacantFacts
  <2> QED
    BY <2>1, <2>3, SameExpected
<1>7. ASSUME NEW jd \in L \cup {id}
      PROVE  /\ HEADER_SIZE <= Block(jd)' /\ Size(jd)' > 0
             /\ Block(jd)' + Size(jd)' <= h'.brk
  <2>1. CASE jd = id
    BY <1>3, <1>4, <2>1, Consts
  <2>2. CASE jd \in L
    <3>1. HEADER_SIZE <= Block(jd) /\ Size(jd) > 0
      BY <1>5, <2>2 DEF Placed
    <3> QED
      BY <1>4, <1>5, <2>2, <3>1
  <2> QED
    BY <2>1, <2>2
<1>8. ASSUME NEW jd \in L \cup {id}, NEW kd \in L \cup {id}, Block(jd)' = Block(kd)'
      PROVE  jd = kd
  <2>1. CASE jd \in L /\ kd \in L
    BY <1>5, <1>8, <2>1 DEF Placed
  <2>2. CASE jd = id \/ kd = id
    BY <1>3, <1>5, <1>8, <2>2
  <2> QED
    BY <2>1, <2>2
<1>9. held' = {[ptr |-> Block(jd)', size |-> Size(jd)'] : jd \in L \cup {id}}
  <2>1. held' = {[ptr |-> Block(jd), size |-> Size(jd)] : jd \in L}
                  \cup {[ptr |-> p, size |-> size]}
    BY <1>1, <1>3
  <2>2. [ptr |-> Block(id)', size |-> Size(id)'] = [ptr |-> p, size |-> size]
    BY <1>3
  <2> QED
    BY <1>5, <2>1, <2>2
<1> QED
  BY <1>2, <1>6, <1>7, <1>8, <1>9 DEF Placed

(***************************************************************************)
(* A request that leaves no block: a free, or a realloc to 0 bytes.        *)
(***************************************************************************)
LEMMA NoBlockStep ==
  ASSUME TypeInv, Placed, Ranged, Noted, at = "ops", i <= trace.num_ops,
         Advance, SameTrace(trace, trace'), NEW id, id = op.index, Others(id),
         NEW s, NEW old, Cleared(Live \ {id}, s, old),
         held' = held \ RegionAt(old), wrote' = Forget(old), ranges' = s,
         debug_mode # "DBG_NONE" =>
           \A jd \in Live \ {id} : range_index'[Block(jd)] = jd,
         h'.brk = h.brk,
         op.type = "FREE" \/ (op.size = 0 /\ Block(id)' = NULL /\ Size(id)' = 0)
  PROVE  Placed' /\ Ranged' /\ Noted'
<1>0. i' = i + 1 /\ debug_mode' = debug_mode
  BY DEF Advance
<1>1. PICK L : L = Live \ {id}
  OBVIOUS
<1>2. Live' = L
  <2>1. \A jd : jd # id => (jd \in Live' <=> jd \in Live)
    BY <1>0, LiveStep
  <2>2. id \notin Live'
    BY <1>0, LiveStep
  <2> QED
    BY <1>1, <2>1, <2>2
<1>3. ASSUME NEW jd \in L
      PROVE  /\ jd \in Live /\ jd \in Ids(trace) /\ jd # id
             /\ Block(jd)' = Block(jd) /\ Size(jd)' = Size(jd) /\ Block(jd) # old
             /\ \A k : Expected(trace', jd, k) = Expected(trace, jd, k)
  <2>1. jd \in Live /\ jd \in Ids(trace) /\ jd # id
    BY <1>1 DEF Live
  <2> QED
    BY <1>1, <2>1, SameExpected DEF Cleared
<1>4. Placed'
  BY <1>0, PlacedWithout DEF Cleared
<1>5. Ranged'
  <2>1. CASE debug_mode = "DBG_NONE"
    BY <1>0, <2>1 DEF Cleared, Ranged
  <2>2. CASE debug_mode # "DBG_NONE"
    <3>1. /\ Ordered(s) /\ RS!Tracked(s) = {Block(jd) : jd \in L}
          /\ \A jd \in L : s.rec[Block(jd)].hi = Block(jd) + Size(jd) - 1
      BY <1>1, <2>2 DEF Cleared
    <3>2. Ordered(ranges)'
      BY <3>1 DEF Ordered, RP!Sound, RP!Links, RP!Tracked, RP!Addresses, RP!NIL,
                  RS!Tracked, RS!NIL
    <3>3. RS!Tracked(ranges)' = RS!Tracked(s)
      BY DEF RS!Tracked
    <3>4. RS!Tracked(ranges)' = {Block(jd)' : jd \in L}
      BY <1>3, <3>1, <3>3
    <3>5. \A jd \in L : /\ ranges'.rec[Block(jd)'].hi = Block(jd)' + Size(jd)' - 1
                        /\ range_index'[Block(jd)'] = jd
      BY <1>1, <1>3, <2>2, <3>1
    <3> QED
      BY <1>0, <1>2, <2>2, <3>2, <3>4, <3>5 DEF Ranged
  <2> QED
    BY <2>1, <2>2
<1>6. Noted'
  <2>1. ASSUME NEW jd \in L
        PROVE  /\ Block(jd)' \in DOMAIN wrote'
               /\ debug_mode # "DBG_NONE" =>
                    \A k \in Filled(Size(jd)') :
                      wrote'[Block(jd)'][k] = Expected(trace', jd, k)
    <3>1. Block(jd) \in DOMAIN wrote /\ Block(jd) # old
      BY <1>3 DEF Noted
    <3>2. Block(jd) \in DOMAIN wrote' /\ wrote'[Block(jd)] = wrote[Block(jd)]
      BY <3>1 DEF Forget
    <3> QED
      BY <1>3, <3>2 DEF Noted
  <2>2. \A n : Filled(n)' = Filled(n)
    BY DEF Filled, Lesser
  <2>3. \A jd, k : Expected(trace, jd, k)' = Expected(trace', jd, k)
    BY DEF Expected, random_data, RANDOM_DATA_LEN
  <2> QED
    BY <1>0, <1>2, <2>1, <2>2, <2>3 DEF Noted
<1> QED
  BY <1>4, <1>5, <1>6

(***************************************************************************)
(* A request that leaves a new block, above all others.                    *)
(***************************************************************************)
LEMMA NewBlockStep ==
  ASSUME TypeInv, Placed, Ranged, Noted, at = "ops", i <= trace.num_ops,
         Advance, SameTrace(trace, trace'), NEW id \in Ids(trace), id = op.index,
         Others(id), op.type # "FREE", NEW size \in Nat \ {0}, size = op.size,
         NEW s, NEW old, Cleared(Live \ {id}, s, old),
         NEW m, Grown(m, size), h'.brk = m.h.brk,
         Block(id)' = m.bp, Size(id)' = size,
         held' = (held \ RegionAt(old)) \cup {[ptr |-> m.bp, size |-> size]},
         wrote' = Remember(m.bp, old, Left(h', m.bp, size)),
         RS!accepts(s, m.bp, size),
         SetRange(RS!add_range(s, m.bp, size), m.bp, id),
         debug_mode # "DBG_NONE" =>
           \A k \in Filled(size) : Read(h', m.bp + k) = Expected(trace', id, k)
  PROVE  Placed' /\ Ranged' /\ Noted'
<1>0. i' = i + 1 /\ debug_mode' = debug_mode
  BY DEF Advance
<1>1. PICK L : L = Live \ {id}
  OBVIOUS
<1>2. Live' = L \cup {id} /\ id \notin L
  <2>1. \A jd : jd # id => (jd \in Live' <=> jd \in Live)
    BY <1>0, LiveStep
  <2>2. id \in Live'
    BY <1>0, LiveStep
  <2> QED
    BY <1>1, <2>1, <2>2
<1>a. PICK b, p : b = h.brk /\ p = m.bp
  OBVIOUS
<1>b. /\ b \in Nat /\ p = b + 16 /\ p \in Nat /\ p + size <= h'.brk /\ h'.brk \in Nat
      /\ b <= h'.brk /\ p + size <= MaxHeap
  BY <1>a, Consts DEF TypeInv, HeapGood, Grown
<1>3. ASSUME NEW jd \in L
      PROVE  /\ jd \in Live /\ jd \in Ids(trace) /\ jd # id
             /\ Block(jd)' = Block(jd) /\ Size(jd)' = Size(jd) /\ Block(jd) # old
             /\ \A k : Expected(trace', jd, k) = Expected(trace, jd, k)
             /\ Block(jd) \in Nat /\ Size(jd) \in Nat /\ Block(jd) + Size(jd) <= b
             /\ Block(jd) # p
  <2>1. jd \in Live /\ jd \in Ids(trace) /\ jd # id
    BY <1>1 DEF Live
  <2>2. Block(jd) \in Nat /\ Size(jd) \in Nat /\ Block(jd) + Size(jd) <= b
    BY <1>a, <2>1, BlockFacts
  <2>3. Block(jd) # p
    BY <1>b, <2>2
  <2> QED
    BY <1>1, <2>1, <2>2, <2>3, SameExpected DEF Cleared
<1>4. Placed'
  BY <1>0, PlacedWith DEF Cleared
<1>5. Ranged'
  <2>1. PICK u : u = RS!add_range(s, p, size)
    OBVIOUS
  <2>2. /\ ranges' = u
        /\ range_index' = [a \in RS!Tracked(u) |-> IF a = p THEN id ELSE range_index[a]]
    BY <1>a, <2>1 DEF SetRange
  <2>3. CASE debug_mode = "DBG_NONE"
    <3>1. s = RS!new_range_set
      BY <2>3 DEF Cleared
    <3>2. u = s
      BY <2>1, <2>3 DEF RS!add_range
    <3> QED
      BY <1>0, <2>2, <2>3, <3>1, <3>2 DEF Ranged
  <2>4. CASE debug_mode # "DBG_NONE"
    <3>1. /\ Ordered(s) /\ RS!Tracked(s) = {Block(jd) : jd \in L}
          /\ \A jd \in L : s.rec[Block(jd)].hi = Block(jd) + Size(jd) - 1
      BY <1>1, <2>4 DEF Cleared
    <3>2. \A a \in RS!Tracked(s) : s.rec[a].hi < p
      <4> TAKE a \in RS!Tracked(s)
      <4>1. PICK jd \in L : a = Block(jd)
        BY <3>1
      <4> QED
        BY <1>3, <1>b, <3>1, <4>1
    <3>3. /\ Ordered(u) /\ RS!Tracked(u) = RS!Tracked(s) \cup {p}
          /\ u.rec[p].hi = p + size - 1
          /\ \A a \in RS!Tracked(s) : u.rec[a].hi = s.rec[a].hi
      <4>1. Ordered(s) /\ RS!accepts(s, p, size)
        BY <1>a, <3>1
      <4>2. p \in Nat /\ p + size <= MaxHeap
        BY <1>b
      <4> QED
        BY <2>1, <2>4, <3>2, <4>1, <4>2, RangeAdded
    <3>4. Ordered(ranges)'
      BY <2>2, <3>3 DEF Ordered, RP!Sound, RP!Links, RP!Tracked, RP!Addresses, RP!NIL,
                  RS!Tracked, RS!NIL
    <3>5. RS!Tracked(ranges)' = RS!Tracked(u)
      BY <2>2 DEF RS!Tracked
    <3>6. RS!Tracked(ranges)' = {Block(jd)' : jd \in L \cup {id}}
      <4>1. {Block(jd)' : jd \in L \cup {id}} = {Block(jd) : jd \in L} \cup {p}
        BY <1>3, <1>a
      <4> QED
        BY <3>1, <3>3, <3>5, <4>1
    <3>7. ASSUME NEW jd \in L \cup {id}
          PROVE  /\ ranges'.rec[Block(jd)'].hi = Block(jd)' + Size(jd)' - 1
                 /\ range_index'[Block(jd)'] = jd
      <4>1. CASE jd = id
        BY <1>a, <2>2, <3>3, <4>1
      <4>2. CASE jd \in L
        <5>1. Block(jd) \in RS!Tracked(s) /\ Block(jd) # p
          BY <1>3, <3>1, <4>2
        <5>2. range_index'[Block(jd)] = range_index[Block(jd)]
          BY <2>2, <3>3, <5>1
        <5>3. range_index[Block(jd)] = jd
          BY <1>3, <2>4, <4>2 DEF Ranged
        <5> QED
          BY <1>3, <2>2, <3>1, <3>3, <4>2, <5>1, <5>2, <5>3
      <4> QED
        BY <4>1, <4>2
    <3> QED
      BY <1>0, <1>2, <2>4, <3>4, <3>6, <3>7 DEF Ranged
  <2> QED
    BY <2>3, <2>4
<1>6. Noted'
  <2>0. wrote' = [q \in (DOMAIN wrote \ {old}) \cup {p} |->
                    IF q = p THEN Left(h', p, size) ELSE wrote[q]]
    BY <1>a DEF Remember
  <2>1. ASSUME NEW jd \in L \cup {id}
        PROVE  /\ Block(jd)' \in DOMAIN wrote'
               /\ debug_mode # "DBG_NONE" =>
                    \A k \in Filled(Size(jd)') :
                      wrote'[Block(jd)'][k] = Expected(trace', jd, k)
    <3>1. CASE jd = id
      <4>1. p \in DOMAIN wrote' /\ wrote'[p] = Left(h', p, size)
        BY <2>0
      <4>2. \A k \in Filled(size) : Left(h', p, size)[k] = Read(h', p + k)
        BY DEF Left
      <4> QED
        BY <1>a, <3>1, <4>1, <4>2
    <3>2. CASE jd \in L
      <4>1. Block(jd) \in DOMAIN wrote /\ Block(jd) # old /\ Block(jd) # p
        BY <1>3, <3>2 DEF Noted
      <4>2. Block(jd) \in DOMAIN wrote' /\ wrote'[Block(jd)] = wrote[Block(jd)]
        BY <2>0, <4>1
      <4> QED
        BY <1>3, <3>2, <4>2 DEF Noted
    <3> QED
      BY <3>1, <3>2
  <2>2. \A n : Filled(n)' = Filled(n)
    BY DEF Filled, Lesser
  <2>3. \A jd, k : Expected(trace, jd, k)' = Expected(trace', jd, k)
    BY DEF Expected, random_data, RANDOM_DATA_LEN
  <2> QED
    BY <1>0, <1>2, <2>1, <2>2, <2>3 DEF Noted
<1> QED
  BY <1>4, <1>5, <1>6

-----------------------------------------------------------------------------
(***************************************************************************)
(* The checks of eval_mm_valid and the history agree after each request.   *)
(***************************************************************************)
LEMMA AllocAgrees ==
  ASSUME TypeInv, WellFormed(trace), Agree, Placed, Ranged, Noted, ValidAlloc
  PROVE  Agree' /\ (at' = "ops" => Placed' /\ Ranged' /\ Noted')
<1>1. at = "ops" /\ i <= trace.num_ops /\ op.type = "ALLOC"
  BY AllocCases
<1>2. /\ op.size \in Nat /\ op.size \in 0 .. SIZE_MOD - 1 /\ op.size > 0
      /\ op.index \in Ids(trace) /\ op.index \notin Live
  BY <1>1, OpFacts, WellFormedStep
<1>3. PICK id, size : id = op.index /\ size = op.size
  OBVIOUS
<1>4. CASE \E reason : Stop(reason)
  <2>1. at' = "over" /\ UNCHANGED << allCheck, damage >>
    BY <1>4 DEF Stop
  <2> QED
    BY <2>1 DEF Agree
<1>5. CASE ~ \E reason : Stop(reason)
  <2>1. PICK m : /\ Called(m) /\ Grown(m, size)
                 /\ accepts(ranges, m.h, m.bp, size)
                 /\ SetRange(RS!add_range(ranges, m.bp, size), m.bp, id)
                 /\ Fill(SetBlock(trace, id, m.bp, size), m.h, m.bp, m.bp, size)
                 /\ allCheck' = (allCheck /\ check_all)
                 /\ damage' = (damage \/ ChangedHeld)
                 /\ Advance /\ UNCHANGED total_vars
    BY <1>3, <1>5, AllocCases, Zenon
  <2>2. Agree'
    BY <2>1, CheckAllExact DEF Agree
  <2>3. /\ m.bp \in 0 .. MaxHeap /\ m.bp \in Nat /\ m.bp >= h.brk /\ HeapGood(m.h)
    BY <1>2, <1>3, <2>1, Consts DEF Grown, HeapGood, TypeInv
  <2>4. /\ SameTrace(trace, trace') /\ Others(id)
        /\ Block(id)' = m.bp /\ Size(id)' = size /\ h'.brk = m.h.brk
        /\ held' = (held \ RegionAt(m.bp)) \cup {[ptr |-> m.bp, size |-> size]}
        /\ wrote' = Remember(m.bp, m.bp, Left(h', m.bp, size))
        /\ debug_mode # "DBG_NONE" =>
             \A k \in Filled(size) : Read(h', m.bp + k) = Expected(trace', id, k)
    BY <1>2, <1>3, <2>1, <2>3, FillStep
  <2>5. Cleared(Live \ {id}, ranges, m.bp)
    BY <1>2, <1>3, <2>3, NothingToClear
  <2>6. RS!accepts(ranges, m.bp, size)
    BY <2>1 DEF accepts
  <2>7. size \in Nat \ {0} /\ id \in Ids(trace) /\ op.type # "FREE"
    BY <1>1, <1>2, <1>3
  <2>8. Placed' /\ Ranged' /\ Noted'
    BY <1>1, <1>3, <2>1, <2>4, <2>5, <2>6, <2>7, NewBlockStep
  <2> QED
    BY <2>2, <2>8
<1> QED
  BY <1>4, <1>5

(***************************************************************************)
(* REALLOC in a correctness run: the checks see exactly what changed, and  *)
(* the invariant holds again.                                              *)
(***************************************************************************)
LEMMA ReallocAgrees ==
  ASSUME TypeInv, WellFormed(trace), Agree, Placed, Ranged, Noted, ValidRealloc
  PROVE  Agree' /\ (at' = "ops" => Placed' /\ Ranged' /\ Noted')
<1>1. at = "ops" /\ i <= trace.num_ops /\ op.type = "REALLOC" /\ op.index \in Ids(trace)
  BY ReallocCases
<1>2. /\ op.size \in Nat /\ op.size \in 0 .. SIZE_MOD - 1
      /\ op.index \in Live \cup Vacant
  BY <1>1, OpFacts, WellFormedStep
<1>3. PICK id, size, oldp, r : /\ id = op.index /\ size = op.size /\ oldp = Block(id)
                               /\ r = RS!remove_range(ranges, oldp)
  OBVIOUS
<1>4. CASE \E reason : Stop(reason)
  <2>1. at' = "over" /\ UNCHANGED << allCheck, damage >>
    BY <1>4 DEF Stop
  <2> QED
    BY <2>1 DEF Agree
<1>5. CASE ~ \E reason : Stop(reason)
  <2>1. PICK m : /\ Called(m)
                 /\ \/ m.bp = NULL /\ size = 0 /\ m.h.brk = h.brk /\ Moved(m, oldp, r)
                    \/ /\ Grown(m, size) /\ size > 0 /\ accepts(r, m.h, m.bp, size)
                       /\ Moved(m, oldp, RS!add_range(r, m.bp, size))
    BY <1>3, <1>5, ReallocCases, Zenon DEF Block
  <2>2. PICK s : /\ Moved(m, oldp, s)
                 /\ \/ m.bp = NULL /\ size = 0 /\ m.h.brk = h.brk /\ s = r
                    \/ /\ Grown(m, size) /\ size > 0 /\ accepts(r, m.h, m.bp, size)
                       /\ s = RS!add_range(r, m.bp, size)
    BY <2>1
  <2>3. m.bp \in 0 .. MaxHeap /\ m.bp \in Nat /\ HeapGood(m.h)
    <3>1. HeapGood(m.h)
      BY <2>1 DEF Called
    <3>2. CASE m.bp = NULL
      BY <3>1, <3>2, Consts
    <3>3. CASE Grown(m, size)
      BY <1>2, <1>3, <3>1, <3>3, Consts DEF Grown, HeapGood, TypeInv
    <3> QED
      BY <2>2, <3>1, <3>2, <3>3
  <2>4. /\ SetRange(s, m.bp, id)
        /\ Fill(SetBlock(trace, id, m.bp, size), m.h, m.bp, oldp, size)
        /\ allCheck' = (/\ allCheck /\ check_all
                        /\ check_index(trace, h, id)
                        /\ check_index(SetBlock(trace, id, m.bp, Lesser(size, Size(id))), m.h, id))
        /\ damage' = (\/ damage \/ ChangedHeld
                      \/ debug_mode # "DBG_NONE" /\
                           \/ Changed(h, oldp, oldp, SIZE_MOD)
                           \/ Changed(m.h, m.bp, oldp, size))
        /\ Advance
    BY <1>3, <2>2 DEF Moved, Size
  <2>5. Agree'
    <3>1. check_all <=> ~ChangedHeld
      BY CheckAllExact
    <3>2. CASE debug_mode = "DBG_NONE"
      <4>1. \A t, n : check_index(t, n, id)
        BY <3>2 DEF check_index
      <4> QED
        BY <2>4, <3>1, <3>2, <4>1 DEF Agree
    <3>3. CASE debug_mode # "DBG_NONE"
      <4>1. check_index(trace, h, id) <=> ~Changed(h, oldp, oldp, SIZE_MOD)
        BY <1>2, <1>3, <3>3, DataChecked
      <4>2. check_index(SetBlock(trace, id, m.bp, Lesser(size, Size(id))), m.h, id)
              <=> ~Changed(m.h, m.bp, oldp, size)
        BY <1>2, <1>3, <2>3, <3>3, CopyChecked
      <4> QED
        BY <2>4, <3>1, <3>3, <4>1, <4>2 DEF Agree
    <3> QED
      BY <3>2, <3>3
  <2>6. /\ SameTrace(trace, trace') /\ Others(id)
        /\ Block(id)' = m.bp /\ Size(id)' = size /\ h'.brk = m.h.brk
        /\ held' = (held \ RegionAt(oldp)) \cup
                   (IF size = 0 THEN {} ELSE {[ptr |-> m.bp, size |-> size]})
        /\ wrote' = IF size = 0 THEN Forget(oldp)
                    ELSE Remember(m.bp, oldp, Left(h', m.bp, size))
        /\ debug_mode # "DBG_NONE" =>
             \A k \in Filled(size) : Read(h', m.bp + k) = Expected(trace', id, k)
    BY <1>1, <1>2, <1>3, <2>3, <2>4, FillStep
  <2>7. Cleared(Live \ {id}, r, oldp)
    BY <1>2, <1>3, BlockCleared
  <2>8. Placed' /\ Ranged' /\ Noted'
    <3>1. CASE m.bp = NULL /\ size = 0 /\ m.h.brk = h.brk /\ s = r
      <4>1. held' = held \ RegionAt(oldp) /\ wrote' = Forget(oldp) /\ ranges' = r
        BY <2>4, <2>6, <3>1 DEF SetRange
      <4>2. ASSUME debug_mode # "DBG_NONE", NEW jd \in Live \ {id}
            PROVE  range_index'[Block(jd)] = jd
        <5>1. Block(jd) \in RS!Tracked(r) /\ range_index[Block(jd)] = jd
          BY <2>7, <4>2 DEF Cleared, Ranged
        <5>2. Block(jd) # m.bp
          <6>1. Block(jd) \in Nat /\ 16 <= Block(jd)
            BY BlockFacts
          <6> QED
            BY <3>1, <6>1, Consts
        <5> QED
          BY <2>4, <3>1, <5>1, <5>2 DEF SetRange
      <4>3. op.size = 0 /\ Block(id)' = NULL /\ Size(id)' = 0 /\ h'.brk = h.brk
        BY <1>3, <2>6, <3>1
      <4> QED
        BY <1>1, <1>3, <2>4, <2>6, <2>7, <4>1, <4>2, <4>3, NoBlockStep
    <3>2. CASE /\ Grown(m, size) /\ size > 0 /\ accepts(r, m.h, m.bp, size)
               /\ s = RS!add_range(r, m.bp, size)
      <4>1. RS!accepts(r, m.bp, size)
        BY <3>2 DEF accepts
      <4>2. size \in Nat \ {0} /\ id \in Ids(trace) /\ op.type # "FREE"
        BY <1>1, <1>2, <1>3, <3>2
      <4>3. /\ held' = (held \ RegionAt(oldp)) \cup {[ptr |-> m.bp, size |-> size]}
            /\ wrote' = Remember(m.bp, oldp, Left(h', m.bp, size))
        BY <2>6, <4>2
      <4> QED
        BY <1>1, <1>3, <2>4, <2>6, <2>7, <3>2, <4>1, <4>2, <4>3, NewBlockStep
    <3> QED
      BY <2>2, <3>1, <3>2
  <2> QED
    BY <2>5, <2>8
<1> QED
  BY <1>4, <1>5

(***************************************************************************)
(* FREE in a correctness run: the checks see exactly what changed, and the *)
(* invariant holds again.                                                  *)
(***************************************************************************)
LEMMA FreeAgrees ==
  ASSUME TypeInv, WellFormed(trace), Agree, Placed, Ranged, Noted, ValidFree
  PROVE  Agree' /\ (at' = "ops" => Placed' /\ Ranged' /\ Noted')
<1>1. /\ at = "ops" /\ i <= trace.num_ops /\ op.type = "FREE"
      /\ op.index \in Ids(trace) \cup {NULL_ID}
  BY FreeCases
<1>2. op.index = NULL_ID \/ op.index \in Live \cup Vacant
  BY <1>1, WellFormedStep
<1>3. NULL_ID \notin Live
  BY <1>1, WellFormedStep DEF Live
<1>4. PICK id : id = op.index
  OBVIOUS
<1>5. PICK p : /\ p = IF op.index = NULL_ID THEN NULL ELSE trace.blocks[op.index]
               /\ h'.brk = h.brk
               /\ IF op.index = NULL_ID THEN UNCHANGED range_vars
                  ELSE SetRange(RS!remove_range(ranges, p), RS!NIL, op.index)
               /\ allCheck' = (allCheck /\ check_all /\ check_index(trace, h, op.index))
               /\ damage' = (\/ damage \/ ChangedHeld
                             \/ debug_mode # "DBG_NONE" /\ Changed(h, p, p, SIZE_MOD))
               /\ held' = held \ RegionAt(p) /\ wrote' = Forget(p)
               /\ Advance /\ UNCHANGED << trace, total_vars >>
  BY FreeCases, Zenon
<1>6. SameTrace(trace, trace') /\ Others(id)
  BY <1>5 DEF SameTrace, Others, Block, Size
<1>7. check_all <=> ~ChangedHeld
  BY CheckAllExact
<1>8. CASE op.index = NULL_ID
  <2>1. check_index(trace, h, op.index)
    BY <1>8 DEF check_index
  <2>2. p = 0 /\ RegionAt(p) = {}
    BY <1>5, <1>8, Consts, NoneAbove DEF TypeInv
  <2>3. ~Changed(h, p, p, SIZE_MOD)
    BY <2>2 DEF Changed
  <2>4. Agree'
    BY <1>5, <1>7, <2>1, <2>3 DEF Agree
  <2>5. ranges' = ranges /\ range_index' = range_index
    BY <1>5, <1>8 DEF range_vars
  <2>6. Cleared(Live \ {id}, ranges, p)
    <3>1. id \notin Live
      BY <1>3, <1>4, <1>8
    <3> QED
      BY <2>2, <3>1, NothingToClear
  <2>7. debug_mode # "DBG_NONE" => \A jd \in Live \ {id} : range_index'[Block(jd)] = jd
    BY <2>5 DEF Ranged
  <2>8. Placed' /\ Ranged' /\ Noted'
    BY <1>1, <1>4, <1>5, <1>6, <2>5, <2>6, <2>7, NoBlockStep
  <2> QED
    BY <2>4, <2>8
<1>9. CASE op.index # NULL_ID
  <2>1. id \in Live \cup Vacant /\ p = Block(id)
    BY <1>2, <1>4, <1>5, <1>9 DEF Block
  <2>2. Agree'
    <3>1. CASE debug_mode = "DBG_NONE"
      <4>1. check_index(trace, h, op.index)
        BY <3>1 DEF check_index
      <4> QED
        BY <1>5, <1>7, <3>1, <4>1 DEF Agree
    <3>2. CASE debug_mode # "DBG_NONE"
      <4>1. check_index(trace, h, id) <=> ~Changed(h, p, p, SIZE_MOD)
        BY <2>1, <3>2, DataChecked
      <4> QED
        BY <1>4, <1>5, <1>7, <3>2, <4>1 DEF Agree
    <3> QED
      BY <3>1, <3>2
  <2>3. PICK r : r = RS!remove_range(ranges, p)
    OBVIOUS
  <2>4. Cleared(Live \ {id}, r, p)
    BY <2>1, <2>3, BlockCleared
  <2>5. SetRange(r, RS!NIL, id)
    BY <1>4, <1>5, <1>9, <2>3
  <2>6. ASSUME debug_mode # "DBG_NONE", NEW jd \in Live \ {id}
        PROVE  range_index'[Block(jd)] = jd
    <3>1. Block(jd) \in RS!Tracked(r) /\ range_index[Block(jd)] = jd
      BY <2>4, <2>6 DEF Cleared, Ranged
    <3>2. Block(jd) # RS!NIL
      <4>1. Block(jd) \in Nat
        BY BlockFacts
      <4> QED
        BY <4>1, Consts
    <3> QED
      BY <2>5, <3>1, <3>2 DEF SetRange
  <2>7. ranges' = r
    BY <2>5 DEF SetRange
  <2>8. Placed' /\ Ranged' /\ Noted'
    BY <1>1, <1>4, <1>5, <1>6, <2>4, <2>6, <2>7, NoBlockStep
  <2> QED
    BY <2>2, <2>8
<1> QED
  BY <1>8, <1>9

(***************************************************************************)
(* At the first request no id has a block yet.                             *)
(***************************************************************************)
LEMMA StartAgrees ==
  ASSUME TypeInv, StartPass
  PROVE  Agree' /\ (at' = "ops" => Live' = {} /\ Placed' /\ Ranged' /\ Noted')
<1>1. /\ SameTrace(trace, trace') /\ h'.brk = 0 /\ held' = {}
      /\ \A id \in Ids(trace) : trace'.blocks[id] = NULL /\ trace'.block_sizes[id] = 0
      /\ at' = "ops" => i' = 1
  BY StartFacts
<1>2. /\ ranges' = RS!new_range_set /\ debug_mode' = debug_mode
      /\ allCheck' = TRUE /\ damage' = FALSE
  BY DEF StartPass
<1>3. Agree'
  BY <1>2 DEF Agree
<1>4. ASSUME at' = "ops"
      PROVE  Live' = {} /\ Placed' /\ Ranged' /\ Noted'
  <2>1. \A id : Uses(id)' = {}
    BY <1>1, <1>4 DEF Uses
  <2>2. Live' = {}
    BY <2>1 DEF Live, Kept
  <2>3. Ids(trace)' = Ids(trace)
    BY <1>1 DEF SameTrace, Ids
  <2>4. \A id \in Vacant' : Block(id)' = NULL /\ Size(id)' = 0
    BY <1>1, <2>3 DEF Vacant, Block, Size
  <2>5. Placed'
    BY <1>1, <2>2, <2>4 DEF Placed
  <2>6. Ordered(ranges)' /\ RS!Tracked(ranges)' = {}
    <3>1. RP!Sound(RP!new_range_set)
      BY Consts, RP!EmptySet
    <3>2. RS!new_range_set = RP!new_range_set
      BY SameRangeSet
    <3>3. RS!Tracked(RS!new_range_set) = {}
      BY DEF RS!Tracked, RS!new_range_set
    <3>4. Ordered(RS!new_range_set)
      BY <3>1, <3>2, <3>3 DEF Ordered
    <3> QED
      BY <1>2, <3>3, <3>4 DEF Ordered, RP!Sound, RP!Links, RP!Tracked, RP!Addresses,
                  RP!NIL, RS!Tracked, RS!NIL
  <2>7. Ranged'
    <3>1. RS!new_range_set' = RS!new_range_set
      BY DEF RS!new_range_set
    <3>2. {Block(id)' : id \in Live'} = {}
      BY <2>2
    <3> QED
      BY <1>2, <2>2, <2>6, <3>1, <3>2 DEF Ranged
  <2>8. Noted'
    BY <2>2 DEF Noted
  <2> QED
    BY <2>2, <2>5, <2>7, <2>8
<1> QED
  BY <1>3, <1>4

(***************************************************************************)
(* Well-formedness is a matter of the requests alone.                      *)
(***************************************************************************)
LEMMA WellFormedSame ==
  ASSUME NEW t, NEW u, SameTrace(t, u)
  PROVE  WellFormed(u) <=> WellFormed(t)
BY DEF SameTrace, WellFormed, NamesId, Ids

(***************************************************************************)
(* A step that changes nothing.                                            *)
(***************************************************************************)
LEMMA NothingMoves ==
  ASSUME UNCHANGED vars
  PROVE  /\ WellFormed(trace)' <=> WellFormed(trace)
         /\ Placed' <=> Placed
         /\ Ranged' <=> Ranged
         /\ Noted' <=> Noted
         /\ Intact' <=> Intact
<1>1. UNCHANGED << trace, debug_mode, i, h, ranges, range_index, held, wrote >>
  BY DEF vars, trace_vars, run_vars, range_vars, history_vars
<1>2. Ids(trace)' = Ids(trace) /\ (WellFormed(trace)' <=> WellFormed(trace))
  BY <1>1 DEF Ids, WellFormed, NamesId, NULL_ID
<1>3. \A id : Uses(id)' = Uses(id)
  BY <1>1 DEF Uses
<1>4. \A id, size : Kept(id, size)' <=> Kept(id, size)
  BY <1>1, <1>3 DEF Kept, IsLast
<1>5. Live' = Live /\ Vacant' = Vacant
  BY <1>2, <1>3, <1>4 DEF Live, Vacant
<1>6. \A id : Block(id)' = Block(id) /\ Size(id)' = Size(id)
  BY <1>1 DEF Block, Size
<1>7. Ordered(ranges)' <=> Ordered(ranges)
  BY <1>1 DEF Ordered, RP!Sound, RP!Links, RP!Tracked, RP!Addresses, RP!NIL,
              RS!Tracked, RS!NIL
<1>8. \A id, k : Expected(trace, id, k)' = Expected(trace, id, k)
  BY <1>1 DEF Expected, random_data, RANDOM_DATA_LEN
<1>9. \A n : Filled(n)' = Filled(n)
  BY DEF Filled, Lesser
<1>10. \A a : Read(h, a)' = Read(h, a)
  BY <1>1 DEF Read
<1>11. Placed' <=> Placed
  BY <1>1, <1>5, <1>6 DEF Placed
<1>12. Ranged' <=> Ranged
  <2>1. RS!Tracked(ranges)' = RS!Tracked(ranges) /\ RS!new_range_set' = RS!new_range_set
    BY <1>1 DEF RS!Tracked, RS!new_range_set
  <2> QED
    BY <1>1, <1>5, <1>6, <1>7, <2>1 DEF Ranged
<1>13. Noted' <=> Noted
  BY <1>1, <1>5, <1>6, <1>8, <1>9 DEF Noted
<1>14. Intact' <=> Intact
  BY <1>1, <1>5, <1>6, <1>8, <1>9, <1>10 DEF Intact, payload_to_header
<1> QED
  BY <1>2, <1>11, <1>12, <1>13, <1>14

(***************************************************************************)
(* Every step keeps what holds with or without a mistake.                  *)
(***************************************************************************)
LEMMA NextFollowed ==
  ASSUME TypeInv, Followed, [Next]_vars
  PROVE  Followed'
<1>0. allCheck \in BOOLEAN /\ damage \in BOOLEAN
  BY DEF TypeInv, Counters
<1>1. CASE ReadTrace
  <2>1. at = "start" /\ UNCHANGED << pass, at, allCheck, damage >>
    BY <1>1, ReadKeepsType DEF ReadTrace, history_vars
  <2>2. reader # "closed"
    BY <1>1 DEF ReadTrace, read_trace, ReadHeader, BadHeader, ReadLine, ReadMalformed, EndOfFile
  <2>3. allCheck' /\ ~damage'
    BY <2>1, <2>2 DEF Followed
  <2> QED
    BY <2>1, <2>3 DEF Followed, Agree
<1>3. CASE StartPass
  <2>1. reader' = "closed"
    BY <1>3 DEF StartPass
  <2>2. Agree' /\ (at' = "ops" => Placed' /\ Ranged' /\ Noted')
    BY <1>3, StartAgrees
  <2> QED
    BY <2>1, <2>2 DEF Followed
<1>4. ASSUME at = "ops", reader' = reader, SameTrace(trace, trace'), pass' = pass,
             \/ pass \notin ValidPasses
             \/ WellFormed(trace) =>
                  Agree' /\ (at' = "ops" => Placed' /\ Ranged' /\ Noted')
      PROVE  Followed'
  <2>1. reader = "closed"
    BY <1>4 DEF TypeInv, Reading
  <2>2. WellFormed(trace)' <=> WellFormed(trace)
    <3>1. WellFormed(trace') <=> WellFormed(trace)
      BY <1>4, WellFormedSame
    <3> QED
      BY <3>1 DEF WellFormed, NamesId, Ids, NULL_ID
  <2>3. ValidPasses' = ValidPasses
    BY DEF ValidPasses
  <2> QED
    BY <1>4, <2>1, <2>2, <2>3 DEF Followed
<1>5. ASSUME at = "ops", Advance \/ \E reason : Stop(reason)
      PROVE  reader' = reader /\ pass' = pass
  BY <1>5 DEF Advance, Stop, trace_vars
<1>6. CASE mm_checkheap_fails \/ OutOfBounds
  <2>1. PICK reason : Stop(reason)
    BY <1>6 DEF mm_checkheap_fails, OutOfBounds
  <2>2. at = "ops" /\ pass \in ValidPasses
    BY <1>6, Zenon DEF mm_checkheap_fails, OutOfBounds, At
  <2>3. at' = "over" /\ UNCHANGED << trace, allCheck, damage, reader, pass >>
    BY <2>1 DEF Stop, trace_vars
  <2>4. SameTrace(trace, trace')
    BY <2>3 DEF SameTrace
  <2>5. WellFormed(trace) => Agree'
    BY <2>2, <2>3 DEF Followed, Agree
  <2> QED
    BY <1>4, <2>2, <2>3, <2>4, <2>5
<1>7. CASE ValidAlloc
  <2>1. at = "ops" /\ pass \in ValidPasses /\ SameTrace(trace, trace')
    BY <1>7, AllocCases, AllocKeepsType
  <2>2. reader' = reader /\ pass' = pass
    BY <1>5, <1>7, <2>1, AllocCases
  <2>3. WellFormed(trace) => Agree' /\ (at' = "ops" => Placed' /\ Ranged' /\ Noted')
    BY <1>7, <2>1, AllocAgrees DEF Followed
  <2> QED
    BY <1>4, <2>1, <2>2, <2>3
<1>8. CASE ValidRealloc
  <2>1. at = "ops" /\ pass \in ValidPasses /\ SameTrace(trace, trace')
    BY <1>8, ReallocCases, ReallocKeepsType
  <2>2. Advance \/ \E reason : Stop(reason)
    <3>1. ASSUME NEW m, NEW oldp, NEW s, Moved(m, oldp, s)
          PROVE  Advance
      BY <3>1 DEF Moved
    <3>2. \/ \E reason : Stop(reason)
          \/ \E m, oldp, s : Moved(m, oldp, s)
      BY <1>8, Zenon DEF ValidRealloc
    <3> QED
      BY <3>1, <3>2
  <2>3. reader' = reader /\ pass' = pass
    BY <1>5, <2>1, <2>2
  <2>4. WellFormed(trace) => Agree' /\ (at' = "ops" => Placed' /\ Ranged' /\ Noted')
    BY <1>8, <2>1, ReallocAgrees DEF Followed
  <2> QED
    BY <1>4, <2>1, <2>3, <2>4
<1>9. CASE ValidFree
  <2>1. at = "ops" /\ pass \in ValidPasses /\ SameTrace(trace, trace')
    BY <1>9, FreeCases, FreeKeepsType
  <2>2. reader' = reader /\ pass' = pass
    BY <1>5, <1>9, <2>1, FreeCases
  <2>3. WellFormed(trace) => Agree' /\ (at' = "ops" => Placed' /\ Ranged' /\ Noted')
    BY <1>9, <2>1, FreeAgrees DEF Followed
  <2> QED
    BY <1>4, <2>1, <2>2, <2>3
<1>10. CASE Measure
  <2>1. at = "ops" /\ pass \notin ValidPasses
    BY <1>10 DEF Measure, MeasureAlloc, MeasureRealloc, MeasureFree, At, MeasurePasses, ValidPasses
  <2>2. Advance \/ \E reason : Stop(reason)
    BY <1>10, Zenon DEF Measure, MeasureAlloc, MeasureRealloc, MeasureFree
  <2>3. SameTrace(trace, trace')
    BY <1>10, MeasureKeepsType
  <2> QED
    BY <1>4, <1>5, <2>1, <2>2, <2>3
<1>11. CASE EndPass
  <2>1. UNCHANGED << trace, reader, allCheck, damage >> /\ at' # "ops"
    BY <1>11 DEF EndPass, trace_vars, history_vars
  <2>2. pass' \in ValidPasses => pass \in ValidPasses
    BY <1>11 DEF EndPass, Following, ValidPasses, TypeInv, Running, Passes, MeasurePasses
  <2>3. WellFormed(trace)' <=> WellFormed(trace)
    BY <2>1 DEF WellFormed, NamesId, Ids, NULL_ID
  <2> QED
    BY <2>1, <2>2, <2>3 DEF Followed, Agree, ValidPasses
<1>12. CASE UNCHANGED vars
  <2>1. UNCHANGED << trace, reader, max_id_used, debug_mode, at, pass, i, why, h, ranges,
                     range_index, allCheck, total_size, max_total_size, held, wrote,
                     damage, faults >>
    BY <1>12 DEF vars, trace_vars, run_vars, range_vars, total_vars, history_vars
  <2> QED
    BY <1>12, <2>1, NothingMoves DEF Followed, Agree, ValidPasses
<1> QED
  BY <1>1, <1>3, <1>6, <1>7, <1>8, <1>9, <1>10, <1>11, <1>12 DEF Next

-----------------------------------------------------------------------------
(***************************************************************************)
(* mm-naive.c never gives a block back, so how far the heap grows is a     *)
(* matter of the requests alone: f[k] is the break before request k.       *)
(***************************************************************************)
Need(line) ==
  IF line.type = "FREE" \/ (line.type = "REALLOC" /\ line.size = 0) THEN 0
  ELSE NewSize(line.size)

Course(f, n) ==
  /\ f \in [1 .. n -> 0 .. MaxHeap] /\ f[1] = 0
  /\ \A k \in 1 .. n - 1 : /\ f[k + 1] = f[k] + Need(trace.ops[k])
                           /\ Need(trace.ops[k]) < SIZE_MOD \div 2

(***************************************************************************)
(* Without a mistake of the allocator the first run finds the course of    *)
(* the heap, and all later ones follow it.                                 *)
(***************************************************************************)
Growth ==
  faults = 0 =>
    /\ pass = "valid_1" /\ at = "ops" => \E f : Course(f, i) /\ f[i] = h.brk
    /\ pass # "valid_1" =>
         \E f : Course(f, trace.num_ops + 1) /\ (at = "ops" => f[i] = h.brk)

(***************************************************************************)
(* The course is a matter of the requests alone.                           *)
(***************************************************************************)
LEMMA CourseSame ==
  ASSUME SameTrace(trace, trace'), NEW f, NEW n
  PROVE  Course(f, n)' <=> Course(f, n)
<1>1. trace'.ops = trace.ops
  BY DEF SameTrace
<1> QED
  BY <1>1 DEF Course

(***************************************************************************)
(* Every request that is answered moves the break by its need, mistake or  *)
(* not, in a correctness run as in a measurement.                          *)
(***************************************************************************)
LEMMA HeapAdvances ==
  ASSUME TypeInv, ValidAlloc \/ ValidRealloc \/ ValidFree \/ Measure
  PROVE  /\ at = "ops" /\ i <= trace.num_ops /\ faults' \in 0 .. 1 /\ faults <= faults'
         /\ \/ \E reason : Stop(reason)
            \/ /\ Advance /\ h'.brk = h.brk + Need(op)
               /\ Need(op) < SIZE_MOD \div 2
<1>0. h.brk \in Nat /\ 0 < SIZE_MOD \div 2 /\ faults \in 0 .. 1
  BY Consts DEF TypeInv, HeapGood, Counters
<1>1. CASE ValidAlloc
  <2>1. /\ at = "ops" /\ i <= trace.num_ops /\ op.type = "ALLOC"
    BY <1>1, AllocCases
  <2>2. PICK m : /\ Called(m)
                 /\ \/ \E reason : Stop(reason)
                    \/ /\ Grown(m, op.size) /\ op.size > 0 /\ op.index \in Ids(trace)
                       /\ SetRange(RS!add_range(ranges, m.bp, op.size), m.bp, op.index)
                       /\ Fill(SetBlock(trace, op.index, m.bp, op.size), m.h, m.bp, m.bp,
                               op.size)
                       /\ allCheck' = (allCheck /\ check_all)
                       /\ damage' = (damage \/ ChangedHeld)
                       /\ Advance /\ UNCHANGED total_vars
    BY <1>1, AllocCases, Zenon
  <2>3. faults' \in 0 .. 1 /\ faults <= faults'
    BY <2>2 DEF Called
  <2>4. CASE \E reason : Stop(reason)
    BY <2>1, <2>3, <2>4
  <2>5. CASE ~ \E reason : Stop(reason)
    <3>1. allCheck' \in BOOLEAN /\ damage' \in BOOLEAN
      BY <2>2, <2>5
    <3>2. h'.brk = m.h.brk
      BY <2>1, <2>2, <2>3, <2>5, <3>1, GivenKeepsType
    <3> QED
      BY <2>1, <2>2, <2>3, <2>5, <3>2 DEF Grown, Need
  <2> QED
    BY <2>4, <2>5
<1>2. CASE ValidRealloc
  <2>1. /\ at = "ops" /\ i <= trace.num_ops /\ op.type = "REALLOC" /\ op.index \in Ids(trace)
    BY <1>2, ReallocCases
  <2>2. PICK m, oldp, s :
          /\ Called(m)
          /\ \/ \E reason : Stop(reason)
             \/ m.bp = NULL /\ op.size = 0 /\ m.h.brk = h.brk /\ Moved(m, oldp, s)
             \/ Grown(m, op.size) /\ op.size > 0 /\ Moved(m, oldp, s)
    BY <1>2, ReallocCases, Zenon
  <2>3. faults' \in 0 .. 1 /\ faults <= faults' /\ HeapGood(m.h)
    BY <2>2 DEF Called
  <2>4. CASE \E reason : Stop(reason)
    BY <2>1, <2>3, <2>4
  <2>5. ASSUME Moved(m, oldp, s)
        PROVE  /\ SetRange(s, m.bp, op.index) /\ Advance /\ UNCHANGED total_vars
               /\ Fill(SetBlock(trace, op.index, m.bp, op.size), m.h, m.bp, oldp, op.size)
               /\ allCheck' \in BOOLEAN /\ damage' \in BOOLEAN
    BY <2>5 DEF Moved
  <2>6. CASE m.bp = NULL /\ op.size = 0 /\ m.h.brk = h.brk /\ Moved(m, oldp, s)
    <3>1. /\ SetRange(s, NULL, op.index)
          /\ Fill(SetBlock(trace, op.index, NULL, 0), m.h, NULL, oldp, 0)
      BY <2>5, <2>6
    <3>2. h'.brk = m.h.brk
      BY <2>1, <2>3, <2>5, <2>6, <3>1, NoneKeepsType
    <3>3. Need(op) = 0
      BY <2>1, <2>6 DEF Need
    <3> QED
      BY <1>0, <2>1, <2>3, <2>5, <2>6, <3>2, <3>3
  <2>7. CASE Grown(m, op.size) /\ op.size > 0 /\ Moved(m, oldp, s)
    <3>1. h'.brk = m.h.brk
      BY <2>1, <2>3, <2>5, <2>7, GivenKeepsType
    <3>2. Need(op) = NewSize(op.size)
      BY <2>1, <2>7 DEF Need
    <3> QED
      BY <2>1, <2>3, <2>5, <2>7, <3>1, <3>2 DEF Grown
  <2> QED
    BY <2>2, <2>4, <2>6, <2>7
<1>3. CASE ValidFree
  <2>1. at = "ops" /\ i <= trace.num_ops /\ op.type = "FREE"
    BY <1>3, FreeCases
  <2>2. h'.brk = h.brk /\ Advance /\ faults' \in 0 .. 1 /\ faults <= faults'
    BY <1>3, FreeCases
  <2>3. Need(op) = 0
    BY <2>1 DEF Need
  <2> QED
    BY <1>0, <2>1, <2>2, <2>3
<1>4. CASE MeasureAlloc
  <2>1. at = "ops" /\ i <= trace.num_ops /\ op.type = "ALLOC"
    BY <1>4, MeasureAllocCases
  <2>2. PICK m : /\ Called(m) /\ h' = m.h
                 /\ \/ \E reason : Stop(reason)
                    \/ Grown(m, op.size) /\ Advance
    BY <1>4, MeasureAllocCases, Zenon
  <2>3. Need(op) = NewSize(op.size)
    BY <2>1 DEF Need
  <2> QED
    BY <2>1, <2>2, <2>3 DEF Grown, Called
<1>5. CASE MeasureRealloc
  <2>1. at = "ops" /\ i <= trace.num_ops /\ op.type = "REALLOC"
    BY <1>5, MeasureReallocCases
  <2>2. PICK m : /\ Called(m) /\ h' = m.h
                 /\ \/ \E reason : Stop(reason)
                    \/ op.size = 0 /\ m.h.brk = h.brk /\ Advance
                    \/ Grown(m, op.size) /\ op.size > 0 /\ Advance
    BY <1>5, MeasureReallocCases, Zenon
  <2>3. faults' \in 0 .. 1 /\ faults <= faults'
    BY <2>2 DEF Called
  <2>4. Need(op) = IF op.size = 0 THEN 0 ELSE NewSize(op.size)
    BY <2>1 DEF Need
  <2>5. CASE \E reason : Stop(reason)
    BY <2>1, <2>3, <2>5
  <2>6. CASE op.size = 0 /\ m.h.brk = h.brk /\ Advance
    BY <1>0, <2>1, <2>2, <2>3, <2>4, <2>6
  <2>7. CASE Grown(m, op.size) /\ op.size > 0 /\ Advance
    BY <2>1, <2>2, <2>3, <2>4, <2>7 DEF Grown
  <2> QED
    BY <2>2, <2>5, <2>6, <2>7
<1>6. CASE MeasureFree
  <2>1. at = "ops" /\ i <= trace.num_ops /\ op.type = "FREE" /\ Advance
    BY <1>6 DEF MeasureFree, At
  <2>2. h'.brk = h.brk /\ faults' = faults
    BY <1>6 DEF MeasureFree, free
  <2>3. Need(op) = 0
    BY <2>1 DEF Need
  <2> QED
    BY <1>0, <2>1, <2>2, <2>3
<1> QED
  BY <1>1, <1>2, <1>3, <1>4, <1>5, <1>6 DEF Measure

(***************************************************************************)
(* Every step keeps to the course.                                         *)
(***************************************************************************)
LEMMA NextGrowth ==
  ASSUME TypeInv, TypeInv', Growth, [Next]_vars
  PROVE  Growth'
<1>0. /\ faults \in 0 .. 1 /\ i \in Nat /\ trace.num_ops \in Nat
      /\ h'.brk \in 0 .. MaxHeap /\ MaxHeap \in Nat
  BY Consts DEF TypeInv, Counters, Running, TraceType, HeapGood
<1>1. CASE ReadTrace
  <2>1. at = "start" /\ pass = "valid_1" /\ UNCHANGED << pass, at >>
    BY <1>1, ReadKeepsType
  <2> QED
    BY <2>1 DEF Growth
<1>2. CASE StartPass
  <2>1. /\ SameTrace(trace, trace') /\ h'.brk = 0
        /\ \/ at' = "ops" /\ i' = 1 /\ faults' = faults
           \/ at' = "over" /\ faults' = 1
    BY <1>2, StartFacts
  <2>2. pass' = pass /\ trace'.num_ops = trace.num_ops
    BY <1>2, <2>1 DEF StartPass, SameTrace
  <2>3. CASE pass = "valid_1"
    <3>1. PICK f : f = [k \in 1 .. 1 |-> 0]
      OBVIOUS
    <3>2. Course(f, 1)' /\ f[1] = 0
      BY <1>0, <3>1 DEF Course
    <3>3. ASSUME at' = "ops"
          PROVE  Course(f, i)' /\ f[i'] = h'.brk
      <4>1. i' = 1
        BY <2>1, <3>3
      <4>2. Course(f, i)' <=> Course(f, 1)'
        BY <4>1 DEF Course
      <4> QED
        BY <2>1, <3>2, <4>1, <4>2
    <3> QED
      BY <2>2, <2>3, <3>3 DEF Growth
  <2>4. CASE pass # "valid_1" /\ faults' = 0
    <3>1. PICK f : Course(f, trace.num_ops + 1)
      BY <1>0, <2>1, <2>4 DEF Growth
    <3>2. f[1] = 0
      BY <3>1 DEF Course
    <3>3. Course(f, trace.num_ops + 1)'
      <4>1. trace'.ops = trace.ops
        BY <2>1 DEF SameTrace
      <4> QED
        BY <2>2, <3>1, <4>1 DEF Course
    <3>4. at' = "ops" => f[i'] = h'.brk
      BY <2>1, <3>2
    <3> QED
      BY <2>2, <2>4, <3>3, <3>4 DEF Growth
  <2> QED
    BY <2>3, <2>4 DEF Growth
<1>3. ASSUME at' # "ops", pass' = pass, SameTrace(trace, trace'), faults' = 0 => faults = 0
      PROVE  Growth'
  <2> SUFFICES ASSUME faults' = 0, pass # "valid_1"
               PROVE  \E f : Course(f, trace.num_ops + 1)'
    BY <1>3 DEF Growth
  <2>1. PICK f : Course(f, trace.num_ops + 1)
    BY <1>3 DEF Growth
  <2>2. trace'.num_ops = trace.num_ops
    BY <1>3 DEF SameTrace
  <2>3. Course(f, trace.num_ops + 1)'
    BY <1>3, <2>1, <2>2, CourseSame DEF Course
  <2> QED
    BY <2>3
<1>4. CASE mm_checkheap_fails \/ OutOfBounds
  <2>1. PICK reason : Stop(reason)
    BY <1>4 DEF mm_checkheap_fails, OutOfBounds
  <2>2. at' = "over" /\ UNCHANGED << trace, pass >>
    BY <2>1 DEF Stop, trace_vars
  <2>3. faults' = 1 \/ faults' = faults
    BY <1>4 DEF mm_checkheap_fails, OutOfBounds
  <2>4. SameTrace(trace, trace')
    BY <2>2 DEF SameTrace
  <2> QED
    BY <1>3, <2>2, <2>3, <2>4
<1>5. CASE ValidAlloc \/ ValidRealloc \/ ValidFree \/ Measure
  <2>1. SameTrace(trace, trace')
    BY <1>5, AllocKeepsType, ReallocKeepsType, FreeKeepsType, MeasureKeepsType
  <2>2. /\ at = "ops" /\ i <= trace.num_ops /\ faults' \in 0 .. 1 /\ faults <= faults'
        /\ \/ \E reason : Stop(reason)
           \/ /\ Advance /\ h'.brk = h.brk + Need(op)
              /\ Need(op) < SIZE_MOD \div 2
    BY <1>5, HeapAdvances
  <2>3. CASE \E reason : Stop(reason)
    <3>1. at' = "over" /\ pass' = pass
      BY <2>3 DEF Stop
    <3> QED
      BY <1>0, <1>3, <2>1, <2>2, <3>1
  <2>4. CASE Advance /\ h'.brk = h.brk + Need(op) /\ Need(op) < SIZE_MOD \div 2
    <3>1. i' = i + 1 /\ at' = at /\ pass' = pass /\ i \in 1 .. trace.num_ops
      BY <2>2, <2>4, OpFacts DEF Advance
    <3>2. trace'.num_ops = trace.num_ops /\ trace'.ops = trace.ops /\ op = trace.ops[i]
      BY <2>1 DEF SameTrace, op
    <3>3. SUFFICES ASSUME faults' = 0
                   PROVE  Growth'
      BY DEF Growth
    <3>4. faults = 0
      BY <1>0, <2>2, <3>3
    <3>5. CASE pass = "valid_1"
      <4>1. PICK f : Course(f, i) /\ f[i] = h.brk
        BY <2>2, <3>4, <3>5 DEF Growth
      <4>2. PICK n : n = i /\ n \in Nat /\ n >= 1
        BY <3>1
      <4>3. PICK g : g = [k \in 1 .. n + 1 |-> IF k <= n THEN f[k] ELSE h'.brk]
        OBVIOUS
      <4>4. f \in [1 .. n -> 0 .. MaxHeap] /\ f[1] = 0
        BY <4>1, <4>2 DEF Course
      <4>5. g \in [1 .. n + 1 -> 0 .. MaxHeap] /\ g[1] = 0 /\ g[n + 1] = h'.brk
        BY <1>0, <4>2, <4>3, <4>4
      <4>6. ASSUME NEW k \in 1 .. n
            PROVE  /\ g[k + 1] = g[k] + Need(trace.ops[k])
                   /\ Need(trace.ops[k]) < SIZE_MOD \div 2
        <5>1. g[k] = f[k]
          BY <4>2, <4>3
        <5>2. CASE k = n
          BY <2>4, <3>2, <4>1, <4>2, <4>5, <5>1, <5>2
        <5>3. CASE k # n
          <6>1. k \in 1 .. n - 1 /\ g[k + 1] = f[k + 1]
            BY <4>2, <4>3, <5>3
          <6> QED
            BY <4>1, <4>2, <5>1, <6>1 DEF Course
        <5> QED
          BY <5>2, <5>3
      <4>7. Course(g, i)'
        <5>1. (n + 1) - 1 = n /\ i' = n + 1
          BY <3>1, <4>2
        <5> QED
          BY <3>2, <4>5, <4>6, <5>1 DEF Course
      <4>8. g[i'] = h'.brk
        BY <3>1, <4>2, <4>5
      <4> QED
        BY <3>1, <3>5, <4>7, <4>8 DEF Growth
    <3>6. CASE pass # "valid_1"
      <4>1. PICK f : Course(f, trace.num_ops + 1) /\ f[i] = h.brk
        BY <2>2, <3>4, <3>6 DEF Growth
      <4>2. f[i + 1] = f[i] + Need(op)
        BY <1>0, <3>1, <3>2, <4>1 DEF Course
      <4>3. Course(f, trace.num_ops + 1)'
        BY <2>1, <3>2, <4>1, CourseSame DEF Course
      <4>4. f[i'] = h'.brk
        BY <2>4, <3>1, <4>1, <4>2
      <4> QED
        BY <3>1, <3>6, <4>3, <4>4 DEF Growth
    <3> QED
      BY <3>5, <3>6
  <2> QED
    BY <2>2, <2>3, <2>4
<1>6. CASE EndPass
  <2>1. UNCHANGED << trace, faults >> /\ at = "ops" /\ at' # "ops" /\ i > trace.num_ops
    BY <1>6 DEF EndPass, trace_vars, history_vars
  <2>2. SameTrace(trace, trace')
    BY <2>1 DEF SameTrace
  <2>3. CASE pass' = pass
    BY <1>3, <2>1, <2>2, <2>3
  <2>4. CASE pass' # pass
    <3> SUFFICES ASSUME faults' = 0
                 PROVE  \E f : Course(f, trace.num_ops + 1)'
      BY <2>1 DEF Growth
    <3>1. i = trace.num_ops + 1
      BY <1>0, <2>1 DEF TypeInv, Running
    <3>2. PICK f : Course(f, trace.num_ops + 1)
      <4>1. CASE pass = "valid_1"
        <5>1. PICK f : Course(f, i)
          BY <2>1, <4>1 DEF Growth
        <5>2. Course(f, trace.num_ops + 1)
          BY <3>1, <5>1
        <5> QED
          BY <5>2
      <4>2. CASE pass # "valid_1"
        BY <2>1, <4>2 DEF Growth
      <4> QED
        BY <4>1, <4>2
    <3>3. Course(f, trace.num_ops + 1)'
      BY <2>1, <2>2, <3>2, CourseSame DEF Course
    <3> QED
      BY <3>3
  <2> QED
    BY <2>3, <2>4
<1>7. CASE UNCHANGED vars
  <2>1. UNCHANGED << trace, at, pass, i, h, faults >>
    BY <1>7 DEF vars, trace_vars, run_vars, history_vars
  <2> QED
    BY <2>1 DEF Growth, Course
<1> QED
  BY <1>1, <1>2, <1>4, <1>5, <1>6, <1>7 DEF Next

-----------------------------------------------------------------------------
(***************************************************************************)
(* An allocator without a mistake.                                         *)
(***************************************************************************)
Fits == h.brk + Need(op) <= MaxHeap /\ Need(op) < SIZE_MOD \div 2

(***************************************************************************)
(* What the first run had room for, a later run has too.                   *)
(***************************************************************************)
LEMMA LaterRunsFit ==
  ASSUME TypeInv, Growth, faults = 0, pass # "valid_1", at = "ops", i <= trace.num_ops
  PROVE  Fits
<1>1. i \in 1 .. trace.num_ops /\ trace.num_ops \in Nat /\ MaxHeap \in Nat
  BY OpFacts, Consts DEF TypeInv, TraceType
<1>2. PICK f : Course(f, trace.num_ops + 1) /\ f[i] = h.brk
  BY DEF Growth
<1>3. f[i + 1] = f[i] + Need(op) /\ Need(op) < SIZE_MOD \div 2 /\ f[i + 1] \in 0 .. MaxHeap
  BY <1>1, <1>2 DEF Course, op
<1> QED
  BY <1>1, <1>2, <1>3 DEF Fits

(***************************************************************************)
(* On an intact heap no check of the data fails.                           *)
(***************************************************************************)
LEMMA CheckAllPasses ==
  ASSUME TypeInv, Placed, Ranged, Intact
  PROVE  check_all /\ \A id \in Live \cup Vacant : check_index(trace, h, id)
<1>1. ASSUME NEW id \in Live
      PROVE  check_index(trace, h, id)
  BY DEF check_index, Intact, Block, Size
<1>2. ASSUME NEW id \in Vacant
      PROVE  check_index(trace, h, id)
  BY VacantFacts
<1>3. check_all
  <2>1. CASE debug_mode # "DBG_EXPENSIVE"
    BY <2>1 DEF check_all
  <2>2. CASE debug_mode = "DBG_EXPENSIVE"
    <3>1. Walk(ranges) = {Block(id) : id \in Live}
      BY <2>2, WholeWalk DEF Ranged
    <3>2. \A id \in Live : range_index[Block(id)] = id
      BY <2>2 DEF Ranged
    <3> QED
      BY <1>1, <3>1, <3>2 DEF check_all
  <2> QED
    BY <2>1, <2>2
<1> QED
  BY <1>1, <1>2, <1>3

(***************************************************************************)
(* A block that mm-naive.c made is accepted: it is aligned, inside the     *)
(* heap and above the ranges of all others.                                *)
(***************************************************************************)
LEMMA MadeIsAccepted ==
  ASSUME TypeInv, Placed, NEW L, L \subseteq Live, NEW s, NEW old, Cleared(L, s, old),
         NEW m, NEW size \in Nat \ {0}, Grown(m, size)
  PROVE  accepts(s, m.h, m.bp, size)
<1>1. PICK p, b : p = m.bp /\ b = m.h.brk
  OBVIOUS
<1>2. /\ p \in Nat /\ p % 16 = 0 /\ p + size <= b /\ b <= MaxHeap /\ b \in Nat
      /\ p = h.brk + 16 /\ h.brk \in Nat /\ MaxHeap \in Nat
  BY <1>1, Consts DEF Grown, HeapGood, TypeInv
<1>3. ASSUME debug_mode # "DBG_NONE"
      PROVE  RP!Sound(s) /\ \A a \in RS!Tracked(s) : s.rec[a].hi < p
  <2>1. /\ Ordered(s) /\ RS!Tracked(s) = {Block(jd) : jd \in L}
        /\ \A jd \in L : s.rec[Block(jd)].hi = Block(jd) + Size(jd) - 1
    BY <1>3 DEF Cleared
  <2>2. ASSUME NEW a \in RS!Tracked(s)
        PROVE  s.rec[a].hi < p
    <3>1. PICK jd \in L : a = Block(jd)
      BY <2>1
    <3>2. Block(jd) \in Nat /\ Size(jd) \in Nat /\ Block(jd) + Size(jd) <= h.brk
      BY BlockFacts
    <3> QED
      BY <1>2, <2>1, <3>1, <3>2
  <2> QED
    BY <2>1, <2>2 DEF Ordered
<1>4. p + size <= MaxHeap
  BY <1>2
<1>5. RS!accepts(s, p, size)
  BY <1>2, <1>3, <1>4, RangeFree
<1>6. p < b /\ p + size - 1 < b
  BY <1>2
<1> QED
  BY <1>1, <1>5, <1>6 DEF accepts

(***************************************************************************)
(* A request leaves the bytes and the headers of all blocks intact.        *)
(***************************************************************************)
LEMMA NewIsIntact ==
  ASSUME TypeInv, Placed, Intact, at = "ops", i <= trace.num_ops, i' = i + 1,
         debug_mode' = debug_mode,
         SameTrace(trace, trace'), NEW id \in Ids(trace), id = op.index, Others(id),
         op.type # "FREE", NEW size \in Nat \ {0}, size = op.size, size + 32 <= SIZE_MOD,
         NEW m, m.bp = h.brk + 16, Block(id)' = m.bp, Size(id)' = size,
         \A a \in Nat : a < h.brk => Read(m.h, a) = Read(h, a),
         Read(m.h, h.brk) = NewSize(size),
         \A a : (\A k \in Filled(size) : a # m.bp + k) => Read(h', a) = Read(m.h, a),
         debug_mode # "DBG_NONE" =>
           \A k \in Filled(size) : Read(h', m.bp + k) = Expected(trace', id, k)
  PROVE  Intact'
<1>1. PICK b, p : b = h.brk /\ p = m.bp
  OBVIOUS
<1>2. b \in Nat /\ p = b + 16
  BY <1>1, Consts DEF TypeInv, HeapGood
<1>3. Live' = (Live \ {id}) \cup {id}
  <2>1. \A jd : jd # id => (jd \in Live' <=> jd \in Live)
    BY LiveStep
  <2>2. id \in Live'
    BY LiveStep
  <2> QED
    BY <2>1, <2>2
<1>4. ASSUME NEW a \in Nat, a <= b
      PROVE  Read(h', a) = Read(m.h, a)
  <2>1. \A k \in Filled(size) : a # p + k
    <3> TAKE k \in Filled(size)
    <3>1. k \in Nat
      BY FilledFacts
    <3> QED
      BY <1>2, <1>4, <3>1
  <2> QED
    BY <1>1, <2>1
<1>5. ASSUME NEW jd \in Live \ {id}
      PROVE  /\ Read(h', Block(jd)' - 16) \in Nat
             /\ Size(jd)' <= Read(h', Block(jd)' - 16)
             /\ debug_mode # "DBG_NONE" =>
                  \A k \in Filled(Size(jd)') : Read(h', Block(jd)' + k) = Expected(trace', jd, k)
  <2>1. /\ jd \in Ids(trace) /\ Block(jd) \in Nat /\ Size(jd) \in Nat
        /\ 16 <= Block(jd) /\ Size(jd) > 0 /\ Block(jd) + Size(jd) <= b
    BY <1>1, BlockFacts
  <2>2. /\ Block(jd)' = Block(jd) /\ Size(jd)' = Size(jd)
        /\ \A k : Expected(trace', jd, k) = Expected(trace, jd, k)
    BY <2>1, SameExpected
  <2>3. ASSUME NEW a \in Nat, a < b
        PROVE  Read(h', a) = Read(h, a)
    BY <1>1, <1>2, <1>4, <2>3
  <2>4. Block(jd) - 16 \in Nat /\ Block(jd) - 16 < b
    BY <1>2, <2>1
  <2>5. ASSUME NEW k \in Filled(Size(jd))
        PROVE  Block(jd) + k \in Nat /\ Block(jd) + k < b
    <3>1. k \in Nat /\ k < Size(jd)
      BY <2>1, FilledFacts
    <3> QED
      BY <1>2, <2>1, <3>1
  <2>6. payload_to_header(Block(jd)) = Block(jd) - 16
    BY Consts DEF payload_to_header
  <2> QED
    BY <2>2, <2>3, <2>4, <2>5, <2>6 DEF Intact
<1>6. /\ Read(h', p - 16) \in Nat /\ size <= Read(h', p - 16)
  <2>1. NewSize(size) \in Nat /\ size + 16 <= NewSize(size)
    BY Rounded
  <2>2. p - 16 = b /\ Read(h', b) = NewSize(size)
    BY <1>1, <1>2, <1>4
  <2> QED
    BY <2>1, <2>2
<1>7. ASSUME NEW jd \in Live'
      PROVE  /\ Read(h', Block(jd)' - 16) \in Nat
             /\ Size(jd)' <= Read(h', Block(jd)' - 16)
             /\ debug_mode # "DBG_NONE" =>
                  \A k \in Filled(Size(jd)') : Read(h', Block(jd)' + k) = Expected(trace', jd, k)
  <2>1. CASE jd = id
    BY <1>1, <1>6, <2>1
  <2>2. CASE jd # id
    BY <1>3, <1>5, <2>2
  <2> QED
    BY <2>1, <2>2
<1>8. /\ \A n : Filled(n)' = Filled(n)
      /\ \A jd, k : Expected(trace, jd, k)' = Expected(trace', jd, k)
      /\ \A jd : payload_to_header(Block(jd))' = Block(jd)' - 16
      /\ \A a : Read(h', a) = Read(h', a)
  BY Consts DEF Filled, Lesser, Expected, random_data, RANDOM_DATA_LEN, payload_to_header
<1> QED
  BY <1>7, <1>8 DEF Intact

(***************************************************************************)
(* A request that makes no block and writes nothing leaves the others      *)
(* intact.                                                                 *)
(***************************************************************************)
LEMMA RestIsIntact ==
  ASSUME TypeInv, Placed, Intact, at = "ops", i <= trace.num_ops, i' = i + 1,
         debug_mode' = debug_mode,
         SameTrace(trace, trace'), NEW id, id = op.index, Others(id),
         op.type = "FREE" \/ op.size = 0,
         \A a : Read(h', a) = Read(h, a)
  PROVE  Intact'
<1>1. Live' = Live \ {id}
  <2>1. \A jd : jd # id => (jd \in Live' <=> jd \in Live)
    BY LiveStep
  <2>2. id \notin Live'
    BY LiveStep
  <2> QED
    BY <2>1, <2>2
<1>2. ASSUME NEW jd \in Live \ {id}
      PROVE  /\ Block(jd)' = Block(jd) /\ Size(jd)' = Size(jd)
             /\ \A k : Expected(trace', jd, k) = Expected(trace, jd, k)
  <2>1. jd \in Ids(trace)
    BY DEF Live
  <2> QED
    BY <2>1, SameExpected
<1>3. /\ \A n : Filled(n)' = Filled(n)
      /\ \A jd, k : Expected(trace, jd, k)' = Expected(trace', jd, k)
      /\ \A jd : payload_to_header(Block(jd))' = payload_to_header(Block(jd)')
  BY DEF Filled, Lesser, Expected, random_data, RANDOM_DATA_LEN, payload_to_header
<1> QED
  BY <1>1, <1>2, <1>3 DEF Intact

(***************************************************************************)
(* A call that was no mistake and gave NULL found the arena too small.     *)
(***************************************************************************)
LEMMA MallocFits ==
  ASSUME TypeInv, at = "ops", i <= trace.num_ops, Fits \/ pass = "valid_1",
         op.type = "ALLOC" \/ (op.type = "REALLOC" /\ op.size # 0),
         NEW m, NEW old, m = malloc(h, op.size) \/ (op.size # 0 /\ m = realloc(h, old, op.size))
  PROVE  /\ m.bp = NULL => pass = "valid_1"
         /\ m.bp # NULL => Grown(m, op.size)
<1>1. PICK size, n, b : size = op.size /\ n = NewSize(size) /\ b = h.brk
  OBVIOUS
<1>2. /\ size \in Nat /\ size + 32 <= SIZE_MOD /\ n \in Nat /\ b \in Nat /\ MaxHeap \in Nat
      /\ SIZE_MOD \div 2 \in Nat
  <2>1. size \in Nat /\ size + 32 <= SIZE_MOD
    BY <1>1, OpFacts
  <2>2. n \in Nat
    BY <1>1, <2>1, Rounded
  <2> QED
    BY <1>1, <2>1, <2>2, Consts DEF TypeInv, HeapGood
<1>3. Need(op) = n
  BY <1>1 DEF Need
<1>4. /\ HeapGood(m.h)
      /\ \/ /\ m.bp = NULL
            /\ n >= SIZE_MOD \div 2 \/ b + n > MaxHeap
         \/ /\ m.bp = b + 16 /\ m.h.brk = b + n /\ n < SIZE_MOD \div 2
            /\ m.bp % 16 = 0 /\ m.bp + size <= m.h.brk
  <2>1. CASE m = malloc(h, op.size)
    BY <1>1, <1>2, <2>1, MallocFacts DEF TypeInv
  <2>2. CASE op.size # 0 /\ m = realloc(h, old, op.size)
    BY <1>1, <1>2, <2>2, ReallocFacts DEF TypeInv
  <2> QED
    BY <2>1, <2>2
<1>5. m.bp # NULL => Grown(m, op.size)
  BY <1>1, <1>4 DEF Grown
<1>6. m.bp = NULL => pass = "valid_1"
  BY <1>1, <1>2, <1>3, <1>4, Consts DEF Fits
<1> QED
  BY <1>5, <1>6

(***************************************************************************)
(* ALLOC by an allocator without mistake.                                  *)
(***************************************************************************)
LEMMA AllocUndamaged ==
  ASSUME TypeInv, WellFormed(trace), allCheck, Placed, Ranged, Noted, Intact,
         Fits \/ pass = "valid_1", ValidAlloc, faults' = 0
  PROVE  /\ allCheck'
         /\ at' = "ops" => Intact'
         /\ at' = "over" => why' = "no memory" /\ pass' = "valid_1"
<1>1. at = "ops" /\ i <= trace.num_ops /\ op.type = "ALLOC"
  BY AllocCases
<1>2. /\ op.size \in Nat /\ op.size \in 0 .. SIZE_MOD - 1 /\ op.size > 0
      /\ op.size + 32 <= SIZE_MOD /\ op.index \in Ids(trace) /\ op.index \notin Live
  BY <1>1, OpFacts, WellFormedStep
<1>3. PICK id, size : id = op.index /\ size = op.size
  OBVIOUS
<1>4. PICK m :
        /\ m = malloc(h, size)
        /\ \/ m.bp = NULL /\ Stop("no memory")
           \/ m.bp # NULL /\ ~accepts(ranges, m.h, m.bp, size) /\ Stop("bad payload")
           \/ /\ Grown(m, size)
              /\ Fill(SetBlock(trace, id, m.bp, size), m.h, m.bp, m.bp, size)
              /\ allCheck' = (allCheck /\ check_all)
              /\ Advance
  <2>1. PICK m :
              /\ (faults' = 0 => m = malloc(h, op.size))
              /\ \/ m.bp = NULL /\ Stop("no memory")
                 \/ op.size = 0
                 \/ m.bp # NULL /\ ~accepts(ranges, m.h, m.bp, op.size)
                    /\ Stop("bad payload")
                 \/ op.index \notin Ids(trace)
                 \/ /\ Grown(m, op.size)
                    /\ Fill(SetBlock(trace, op.index, m.bp, op.size), m.h, m.bp, m.bp,
                            op.size)
                    /\ allCheck' = (allCheck /\ check_all)
                    /\ Advance
    BY AllocCases, Zenon
  <2>2. op.size # 0
    BY <1>2
  <2> QED
    BY <1>2, <1>3, <2>1, <2>2
<1>5. /\ m.bp = NULL => pass = "valid_1"
      /\ m.bp # NULL => Grown(m, size)
  BY <1>1, <1>3, <1>4, MallocFits
<1>6. CASE m.bp = NULL /\ Stop("no memory")
  BY <1>5, <1>6 DEF Stop
<1>7. CASE m.bp # NULL /\ ~accepts(ranges, m.h, m.bp, size)
  <2>1. size \in Nat \ {0}
    BY <1>2, <1>3
  <2>2. 0 \in Nat /\ Live \ {id} \subseteq Live /\ id \notin Live
    BY <1>2, <1>3
  <2>3. Cleared(Live \ {id}, ranges, 0)
    BY <2>2, NothingToClear
  <2>4. accepts(ranges, m.h, m.bp, size)
    BY <1>5, <1>7, <2>1, <2>2, <2>3, MadeIsAccepted
  <2> QED
    BY <1>7, <2>4
<1>8. CASE /\ Grown(m, size)
           /\ Fill(SetBlock(trace, id, m.bp, size), m.h, m.bp, m.bp, size)
           /\ allCheck' = (allCheck /\ check_all)
           /\ Advance
  <2>1. allCheck' /\ at' = "ops"
    BY <1>1, <1>8, CheckAllPasses DEF Advance
  <2>2. /\ m.bp \in 0 .. MaxHeap /\ HeapGood(m.h) /\ m.bp = h.brk + 16 /\ m.bp # NULL
    BY <1>2, <1>3, <1>8, Consts DEF Grown, HeapGood, TypeInv
  <2>3. /\ SameTrace(trace, trace') /\ Others(id)
        /\ Block(id)' = m.bp /\ Size(id)' = size
        /\ \A a : (\A k \in Filled(size) : a # m.bp + k) => Read(h', a) = Read(m.h, a)
        /\ debug_mode # "DBG_NONE" =>
             \A k \in Filled(size) : Read(h', m.bp + k) = Expected(trace', id, k)
    BY <1>2, <1>3, <1>8, <2>2, FillStep
  <2>4. /\ \A a \in Nat : a < h.brk => Read(m.h, a) = Read(h, a)
        /\ Read(m.h, h.brk) = NewSize(size)
    <3>1. size \in Nat /\ size + 32 <= SIZE_MOD
      BY <1>2, <1>3
    <3>2. HeapGood(h)
      BY DEF TypeInv
    <3>3. m = malloc(h, size)
      BY <1>4
    <3>4. /\ \A a \in Nat : a < h.brk => Read(m.h, a) = Read(h, a)
          /\ m.bp = NULL \/ Read(m.h, h.brk) = NewSize(size)
      BY <3>1, <3>2, <3>3, MallocFacts
    <3> QED
      BY <2>2, <3>4
  <2>5. size \in Nat \ {0} /\ size + 32 <= SIZE_MOD /\ id \in Ids(trace) /\ op.type # "FREE"
    BY <1>1, <1>2, <1>3
  <2>6. i' = i + 1 /\ debug_mode' = debug_mode
    BY <1>8 DEF Advance
  <2>7. Intact'
    BY <1>1, <1>3, <2>2, <2>3, <2>4, <2>5, <2>6, NewIsIntact
  <2> QED
    BY <2>1, <2>7
<1> QED
  BY <1>4, <1>6, <1>7, <1>8

(***************************************************************************)
(* FREE by an allocator without mistake.                                   *)
(***************************************************************************)
LEMMA FreeUndamaged ==
  ASSUME TypeInv, WellFormed(trace), allCheck, Placed, Ranged, Noted, Intact,
         ValidFree, faults' = 0
  PROVE  allCheck' /\ at' = "ops" /\ Intact'
<1>1. /\ at = "ops" /\ i <= trace.num_ops /\ op.type = "FREE"
      /\ op.index \in Ids(trace) \cup {NULL_ID}
  BY FreeCases
<1>2. op.index = NULL_ID \/ op.index \in Live \cup Vacant
  BY <1>1, WellFormedStep
<1>3. /\ allCheck' = (allCheck /\ check_all /\ check_index(trace, h, op.index))
      /\ h' = h /\ Advance /\ trace' = trace
  BY FreeCases
<1>4. PICK id : id = op.index
  OBVIOUS
<1>5. SameTrace(trace, trace') /\ Others(id)
  BY <1>3 DEF SameTrace, Others, Block, Size
<1>6. check_index(trace, h, op.index)
  <2>1. CASE op.index = NULL_ID
    BY <2>1 DEF check_index
  <2>2. CASE op.index \in Live \cup Vacant
    BY <2>2, CheckAllPasses
  <2> QED
    BY <1>2, <2>1, <2>2
<1>7. allCheck'
  BY <1>3, <1>6, CheckAllPasses
<1>8. i' = i + 1 /\ debug_mode' = debug_mode /\ at' = "ops"
  BY <1>1, <1>3 DEF Advance
<1>9. \A a : Read(h', a) = Read(h, a)
  BY <1>3
<1> QED
  BY <1>1, <1>4, <1>5, <1>7, <1>8, <1>9, RestIsIntact

(***************************************************************************)
(* REALLOC by an allocator without mistake. The data that are checked      *)
(* after it are those realloc took along, up to the lesser of the sizes.   *)
(***************************************************************************)
LEMMA ReallocUndamaged ==
  ASSUME TypeInv, WellFormed(trace), allCheck, Placed, Ranged, Noted, Intact,
         Fits \/ pass = "valid_1", ValidRealloc, faults' = 0
  PROVE  /\ allCheck'
         /\ at' = "ops" => Intact'
         /\ at' = "over" => why' = "no memory" /\ pass' = "valid_1"
<1>1. at = "ops" /\ i <= trace.num_ops /\ op.type = "REALLOC" /\ op.index \in Ids(trace)
  BY ReallocCases
<1>2. /\ op.size \in Nat /\ op.size \in 0 .. SIZE_MOD - 1 /\ op.size + 32 <= SIZE_MOD
      /\ op.index \in Live \cup Vacant
  BY <1>1, OpFacts, WellFormedStep
<1>3. PICK id, size, oldp, r : /\ id = op.index /\ size = op.size /\ oldp = Block(id)
                               /\ r = RS!remove_range(ranges, oldp)
  OBVIOUS
<1>a. HeapGood(h) /\ h.brk \in Nat
  BY Consts DEF TypeInv, HeapGood
<1>4. PICK m :
        /\ m = realloc(h, oldp, size)
        /\ \/ m.bp = NULL /\ size # 0 /\ Stop("no memory")
           \/ m.bp # NULL /\ size = 0
           \/ m.bp = NULL /\ size = 0 /\ \E s : Moved(m, oldp, s)
           \/ m.bp # NULL /\ size # 0 /\ ~accepts(r, m.h, m.bp, size)
           \/ Grown(m, size) /\ size > 0 /\ \E s : Moved(m, oldp, s)
  BY <1>3, ReallocCases, Zenon DEF Block
<1>5. ASSUME size # 0
      PROVE  /\ m.bp = NULL => pass = "valid_1"
             /\ m.bp # NULL => Grown(m, size)
  BY <1>1, <1>3, <1>4, <1>5, MallocFits
<1>6. CASE m.bp = NULL /\ size # 0 /\ Stop("no memory")
  BY <1>5, <1>6 DEF Stop
<1>7. CASE m.bp # NULL /\ size = 0
  <2>1. m = realloc(h, oldp, size)
    BY <1>4
  <2>2. size = 0 => m.bp = NULL
    BY <2>1 DEF realloc, free
  <2> QED
    BY <1>7, <2>2
<1>8. CASE m.bp # NULL /\ size # 0 /\ ~accepts(r, m.h, m.bp, size)
  <2>1. size \in Nat \ {0} /\ Live \ {id} \subseteq Live
    BY <1>2, <1>3, <1>8
  <2>2. Cleared(Live \ {id}, r, oldp)
    BY <1>2, <1>3, BlockCleared
  <2>3. accepts(r, m.h, m.bp, size)
    BY <1>5, <1>8, <2>1, <2>2, MadeIsAccepted
  <2> QED
    BY <1>8, <2>3
<1>9. ASSUME \E s : Moved(m, oldp, s),
             (m.bp = NULL /\ size = 0) \/ (Grown(m, size) /\ size > 0)
      PROVE  allCheck' /\ at' = "ops" /\ Intact'
  <2>1. /\ Fill(SetBlock(trace, id, m.bp, size), m.h, m.bp, oldp, size)
        /\ allCheck' = (/\ allCheck /\ check_all
                        /\ check_index(trace, h, id)
                        /\ check_index(SetBlock(trace, id, m.bp, Lesser(size, Size(id))), m.h, id))
        /\ Advance
    BY <1>3, <1>9 DEF Moved, Size
  <2>2. /\ m.bp \in 0 .. MaxHeap /\ HeapGood(m.h)
        /\ size # 0 => m.bp = h.brk + 16 /\ m.bp # NULL
    <3>1. CASE m.bp = NULL /\ size = 0
      <4>1. HeapGood(m.h)
        BY <1>2, <1>3, <1>4, <1>a, ReallocFacts
      <4> QED
        BY <3>1, <4>1, Consts
    <3>2. CASE Grown(m, size) /\ size > 0
      BY <1>2, <1>3, <1>a, <3>2, Consts DEF Grown, HeapGood
    <3> QED
      BY <1>9, <3>1, <3>2
  <2>3. /\ SameTrace(trace, trace') /\ Others(id)
        /\ Block(id)' = m.bp /\ Size(id)' = size
        /\ \A a : (\A k \in Filled(size) : a # m.bp + k) => Read(h', a) = Read(m.h, a)
        /\ debug_mode # "DBG_NONE" =>
             \A k \in Filled(size) : Read(h', m.bp + k) = Expected(trace', id, k)
    BY <1>1, <1>2, <1>3, <2>1, <2>2, FillStep
  <2>4. i' = i + 1 /\ debug_mode' = debug_mode /\ at' = "ops"
    BY <1>1, <2>1 DEF Advance
  <2>5. PICK len : len = Size(id)
    OBVIOUS
  <2>6. /\ oldp \in Nat /\ len \in Nat
        /\ id \in Live => /\ oldp # NULL /\ 16 <= oldp /\ oldp + len <= h.brk /\ 0 < len
                          /\ Read(h, oldp - 16) \in Nat /\ len <= Read(h, oldp - 16)
        /\ id \notin Live => oldp = NULL /\ len = 0
    <3>1. CASE id \in Live
      <4>1. /\ oldp \in Nat /\ len \in Nat /\ 16 <= oldp /\ oldp + len <= h.brk /\ 0 < len
        BY <1>3, <2>5, <3>1, BlockFacts
      <4>2. Read(h, oldp - 16) \in Nat /\ len <= Read(h, oldp - 16)
        BY <1>3, <2>5, <3>1, Consts DEF Intact, payload_to_header
      <4>3. oldp # NULL
        BY <4>1, Consts
      <4> QED
        BY <3>1, <4>1, <4>2, <4>3
    <3>2. CASE id \notin Live
      BY <1>2, <1>3, <2>5, <3>2, VacantFacts, Consts
    <3> QED
      BY <3>1, <3>2
  <2>7. ASSUME size # 0
        PROVE  /\ \A a \in Nat : a < h.brk => Read(m.h, a) = Read(h, a)
               /\ Read(m.h, h.brk) = NewSize(size)
               /\ oldp # NULL => \A k \in 0 .. len - 1 :
                    k < size => Read(m.h, m.bp + k) = Read(h, oldp + k)
    <3>1. size \in Nat \ {0} /\ size + 32 <= SIZE_MOD /\ m.bp # NULL
      BY <1>2, <1>3, <2>2, <2>7
    <3>2. oldp # NULL => /\ 16 <= oldp /\ oldp + len <= h.brk /\ 0 < len
                         /\ Read(h, oldp - 16) \in Nat /\ len <= Read(h, oldp - 16)
      BY <2>6
    <3>3. m = realloc(h, oldp, size)
      BY <1>4
    <3>4. HeapGood(h)
      BY <1>a
    <3>5. oldp \in Nat /\ len \in Nat
      BY <2>6
    <3> QED
      BY <3>1, <3>2, <3>3, <3>4, <3>5, ReallocData
  <2>8. check_index(SetBlock(trace, id, m.bp, Lesser(size, Size(id))), m.h, id)
    <3>1. CASE debug_mode = "DBG_NONE"
      BY <3>1 DEF check_index
    <3>2. CASE debug_mode # "DBG_NONE"
      <4>1. PICK u : u = SetBlock(trace, id, m.bp, Lesser(size, len))
        OBVIOUS
      <4>2. size \in Nat /\ Lesser(size, len) \in 0 .. SIZE_MOD - 1
        <5>1. len \in 0 .. SIZE_MOD - 1
          <6>1. op.index \in Ids(trace)
            BY <1>1
          <6>2. trace.block_sizes \in [Ids(trace) -> 0 .. SIZE_MOD - 1]
            BY DEF TypeInv, TraceType
          <6> QED
            BY <1>3, <2>5, <6>1, <6>2 DEF Size
        <5>2. size \in Nat /\ size \in 0 .. SIZE_MOD - 1
          BY <1>2, <1>3
        <5> QED
          BY <5>1, <5>2 DEF Lesser
      <4>3. /\ u.blocks[id] = m.bp /\ u.block_sizes[id] = Lesser(size, len)
            /\ u.block_rand_base = trace.block_rand_base
        BY <1>1, <1>3, <2>2, <4>1, <4>2, SetBlockFacts DEF TypeInv
      <4>4. ASSUME NEW k \in Filled(Lesser(size, len))
            PROVE  Read(m.h, m.bp + k) = Expected(u, id, k)
        <5>1. k \in Nat /\ k < size /\ k < len
          <6>1. k \in Nat /\ k < Lesser(size, len)
            BY <2>6, <4>2, <4>4, FilledFacts
          <6> QED
            BY <2>6, <4>2, <6>1 DEF Lesser
        <5>2. id \in Live /\ size # 0 /\ k \in 0 .. len - 1 /\ k \in Filled(len)
          <6>1. id \in Live /\ size # 0 /\ k \in 0 .. len - 1
            BY <2>6, <4>2, <5>1
          <6>2. k \in Filled(len)
            BY <2>6, <4>2, <4>4, FilledFacts
          <6> QED
            BY <6>1, <6>2
        <5>3. Read(m.h, m.bp + k) = Read(h, oldp + k)
          BY <2>6, <2>7, <5>1, <5>2
        <5>4. Read(h, oldp + k) = Expected(trace, id, k)
          BY <1>3, <2>5, <3>2, <5>2 DEF Intact
        <5>5. Expected(u, id, k) = Expected(trace, id, k)
          BY <4>3 DEF Expected
        <5> QED
          BY <5>3, <5>4, <5>5
      <4> QED
        BY <2>5, <4>1, <4>3, <4>4 DEF check_index
    <3> QED
      BY <3>1, <3>2
  <2>9. allCheck'
    BY <1>2, <1>3, <2>1, <2>8, CheckAllPasses
  <2>10. Intact'
    <3>1. CASE size = 0
      <4>1. m.h = h
        BY <1>2, <1>3, <1>4, <1>a, <3>1, ReallocFacts
      <4>2. \A a : Read(h', a) = Read(h, a)
        <5>1. Filled(0) = {}
          BY FilledFacts
        <5> QED
          BY <2>3, <3>1, <4>1, <5>1
      <4> QED
        BY <1>1, <1>3, <2>3, <2>4, <3>1, <4>2, RestIsIntact
    <3>2. CASE size # 0
      <4>1. size \in Nat \ {0} /\ size + 32 <= SIZE_MOD /\ id \in Ids(trace) /\ op.type # "FREE"
        BY <1>1, <1>2, <1>3, <3>2
      <4> QED
        BY <1>1, <1>3, <2>2, <2>3, <2>4, <2>7, <3>2, <4>1, NewIsIntact
    <3> QED
      BY <3>1, <3>2
  <2> QED
    BY <2>4, <2>9, <2>10
<1>10. CASE m.bp = NULL /\ size = 0 /\ \E s : Moved(m, oldp, s)
  <2>1. allCheck' /\ at' = "ops" /\ Intact'
    <3>1. \E s : Moved(m, oldp, s)
      BY <1>10
    <3>2. (m.bp = NULL /\ size = 0) \/ (Grown(m, size) /\ size > 0)
      BY <1>10
    <3> QED
      BY <1>9, <3>1, <3>2
  <2> QED
    BY <2>1
<1>11. CASE Grown(m, size) /\ size > 0 /\ \E s : Moved(m, oldp, s)
  <2>1. allCheck' /\ at' = "ops" /\ Intact'
    BY <1>9, <1>11, Zenon
  <2> QED
    BY <2>1
<1> QED
  BY <1>4, <1>6, <1>7, <1>8, <1>10, <1>11, Zenon

(***************************************************************************)
(* A measurement never runs out of memory: the first run asked for the     *)
(* same.                                                                   *)
(***************************************************************************)
LEMMA MeasureUndamaged ==
  ASSUME TypeInv, Growth, WellFormed(trace), Measure, faults = 0, faults' = 0
  PROVE  allCheck' = allCheck /\ at' = "ops"
<1>1. at = "ops" /\ i <= trace.num_ops /\ pass \in MeasurePasses
  BY DEF Measure, MeasureAlloc, MeasureRealloc, MeasureFree, At
<1>2. pass # "valid_1"
  BY <1>1 DEF MeasurePasses
<1>3. Fits
  BY <1>1, <1>2, LaterRunsFit
<1>4. ASSUME Advance, Unchecked
      PROVE  allCheck' = allCheck /\ at' = "ops"
  BY <1>1, <1>4 DEF Advance, Unchecked
<1>5. CASE MeasureAlloc
  <2>1. PICK m : /\ m = malloc(h, op.size)
                 /\ \/ m.bp = NULL
                    \/ Advance /\ Unchecked
    BY <1>5, MeasureAllocCases, Zenon
  <2>2. op.type = "ALLOC"
    BY <1>5, MeasureAllocCases
  <2>3. m.bp # NULL
    BY <1>1, <1>2, <1>3, <2>1, <2>2, MallocFits
  <2> QED
    BY <1>4, <2>1, <2>3
<1>6. CASE MeasureRealloc
  <2>1. PICK m, oldp : /\ m = realloc(h, oldp, op.size)
                       /\ \/ m.bp = NULL /\ op.size # 0
                          \/ Advance /\ Unchecked
    BY <1>6, MeasureReallocCases, Zenon
  <2>2. op.type = "REALLOC"
    BY <1>6, MeasureReallocCases
  <2>3. op.size # 0 => m.bp # NULL
    BY <1>1, <1>2, <1>3, <2>1, <2>2, MallocFits
  <2> QED
    BY <1>4, <2>1, <2>3
<1>7. CASE MeasureFree
  <2>1. Advance /\ Unchecked
    BY <1>7 DEF MeasureFree
  <2> QED
    BY <1>4, <2>1
<1> QED
  BY <1>5, <1>6, <1>7 DEF Measure

(***************************************************************************)
(* Every step of an allocator without mistake passes all checks.           *)
(***************************************************************************)
LEMMA NextUndamaged ==
  ASSUME TypeInv, Followed, Growth, Undamaged, [Next]_vars
  PROVE  Undamaged'
<1> DEFINE Good == /\ allCheck'
                   /\ at' = "ops" /\ pass' \in ValidPasses => Intact'
                   /\ at' = "over" => why' = "no memory" /\ pass' = "valid_1"
<1>0. /\ allCheck \in BOOLEAN /\ faults \in 0 .. 1 /\ ValidPasses' = ValidPasses
      /\ pass \in ValidPasses \cup MeasurePasses
  BY DEF TypeInv, Counters, Running, Passes, ValidPasses
<1>1. ASSUME SameTrace(trace, trace'), faults' = 0 => faults = 0,
             WellFormed(trace) /\ faults = 0 /\ faults' = 0 => Good
      PROVE  Undamaged'
  <2>1. WellFormed(trace)' <=> WellFormed(trace)
    <3>1. WellFormed(trace') <=> WellFormed(trace)
      BY <1>1, WellFormedSame
    <3> QED
      BY <3>1 DEF WellFormed, NamesId, Ids, NULL_ID
  <2> QED
    BY <1>0, <1>1, <2>1 DEF Undamaged
<1>2. CASE ReadTrace
  <2>1. at = "start" /\ UNCHANGED << at, allCheck >>
    BY <1>2, ReadKeepsType DEF ReadTrace
  <2>2. reader # "closed"
    BY <1>2 DEF ReadTrace, read_trace, ReadHeader, BadHeader, ReadLine, ReadMalformed, EndOfFile
  <2>3. allCheck'
    BY <2>1, <2>2 DEF Followed
  <2> QED
    BY <2>1, <2>3 DEF Undamaged
<1>3. CASE StartPass
  <2>1. /\ SameTrace(trace, trace')
        /\ (at' = "ops" /\ faults' = faults) \/ faults' = 1
    BY <1>3, StartFacts
  <2>2. allCheck'
    BY <1>3 DEF StartPass
  <2>3. at' = "ops" => Intact'
    <3>1. at' = "ops" => Live' = {}
      BY <1>3, StartAgrees
    <3> QED
      BY <3>1 DEF Intact
  <2>4. faults' = 0 => faults = 0 /\ at' = "ops"
    BY <2>1
  <2>5. faults' = 0 => Good
    BY <2>2, <2>3, <2>4
  <2> HIDE DEF Good
  <2> QED
    BY <1>1, <2>1, <2>4, <2>5
<1>4. CASE mm_checkheap_fails
  <2>1. faults' = 1
    BY <1>4 DEF mm_checkheap_fails
  <2>2. ~(faults' = 0)
    BY <2>1
  <2> QED
    BY <2>2 DEF Undamaged
<1>5. CASE OutOfBounds
  <2>1. at = "ops" /\ i <= trace.num_ops /\ faults' = faults
    BY <1>5, Zenon DEF OutOfBounds, At
  <2>2. \/ op.type = "REALLOC" /\ op.index \notin Ids(trace)
        \/ op.type = "FREE" /\ op.index \notin Ids(trace) \cup {NULL_ID}
    BY <1>5, Zenon DEF OutOfBounds, At
  <2>3. ~WellFormed(trace)
    BY <2>1, <2>2, WellFormedStep
  <2>4. SameTrace(trace, trace')
    BY <1>5 DEF OutOfBounds, Stop, trace_vars, SameTrace
  <2> QED
    BY <1>1, <2>1, <2>3, <2>4
<1>6. ASSUME ValidAlloc \/ ValidRealloc \/ ValidFree
      PROVE  Undamaged'
  <2>1. /\ at = "ops" /\ i <= trace.num_ops /\ faults' \in 0 .. 1 /\ faults <= faults'
        /\ Advance \/ \E reason : Stop(reason)
    BY <1>6, HeapAdvances
  <2>2. SameTrace(trace, trace')
    BY <1>6, AllocKeepsType, ReallocKeepsType, FreeKeepsType
  <2>3. pass \in ValidPasses /\ pass' = pass
    BY <1>6, <2>1, Zenon DEF ValidAlloc, ValidRealloc, ValidFree, At, Advance, Stop
  <2>4. ASSUME WellFormed(trace), faults = 0, faults' = 0
        PROVE  Good
    <3>1. /\ allCheck /\ Intact /\ Placed /\ Ranged /\ Noted
      BY <2>1, <2>3, <2>4 DEF Undamaged, Followed
    <3>2. Fits \/ pass = "valid_1"
      BY <2>1, <2>4, LaterRunsFit
    <3>3. CASE ValidAlloc
      BY <2>3, <2>4, <3>1, <3>2, <3>3, AllocUndamaged
    <3>4. CASE ValidRealloc
      BY <2>3, <2>4, <3>1, <3>2, <3>4, ReallocUndamaged
    <3>5. CASE ValidFree
      BY <2>3, <2>4, <3>1, <3>2, <3>5, FreeUndamaged
    <3> QED
      BY <1>6, <3>3, <3>4, <3>5
  <2>5. faults' = 0 => faults = 0
    BY <1>0, <2>1
  <2> QED
    BY <1>1, <2>2, <2>4, <2>5
<1>7. CASE Measure
  <2>1. /\ at = "ops" /\ faults' \in 0 .. 1 /\ faults <= faults'
        /\ Advance \/ \E reason : Stop(reason)
    BY <1>7, HeapAdvances
  <2>2. SameTrace(trace, trace')
    BY <1>7, MeasureKeepsType
  <2>3. pass \notin ValidPasses /\ pass' = pass
    <3>1. pass' = pass
      BY <2>1 DEF Advance, Stop
    <3> QED
      BY <1>7, <3>1 DEF Measure, MeasureAlloc, MeasureRealloc, MeasureFree, At,
                        MeasurePasses, ValidPasses
  <2>4. ASSUME WellFormed(trace), faults = 0, faults' = 0
        PROVE  Good
    <3>1. allCheck' = allCheck /\ at' = "ops"
      BY <1>7, <2>4, MeasureUndamaged
    <3> QED
      BY <2>3, <2>4, <3>1 DEF Undamaged
  <2>5. faults' = 0 => faults = 0
    BY <1>0, <2>1
  <2> QED
    BY <1>1, <2>2, <2>4, <2>5
<1>8. CASE EndPass
  <2>1. /\ UNCHANGED << trace, allCheck, faults >>
        /\ allCheck => at' = "start"
    BY <1>8 DEF EndPass, trace_vars, history_vars
  <2>2. SameTrace(trace, trace')
    BY <2>1 DEF SameTrace
  <2>3. WellFormed(trace) /\ faults = 0 /\ faults' = 0 => Good
    BY <2>1 DEF Undamaged
  <2> QED
    BY <1>1, <2>1, <2>2, <2>3
<1>9. CASE UNCHANGED vars
  <2>1. UNCHANGED << trace, at, pass, why, allCheck, faults >>
    BY <1>9 DEF vars, trace_vars, run_vars, history_vars
  <2> QED
    BY <1>9, <2>1, NothingMoves DEF Undamaged, ValidPasses
<1> QED
  BY <1>2, <1>3, <1>4, <1>5, <1>6, <1>7, <1>8, <1>9 DEF Next

-----------------------------------------------------------------------------
(***************************************************************************)
(* The sum of the sizes of a set of regions, as SizesHeld takes it.        *)
(***************************************************************************)
TotalOf(S) == MapThenSumSet(LAMBDA r : r.size, S)

(***************************************************************************)
(* MapThenSumSet takes one member after the other by CHOOSE, as a function *)
(* on the subsets of the set that refers to itself.                        *)
(***************************************************************************)
Some(s) == CHOOSE x \in s : TRUE

Adds(f, s) == IF s = {} THEN 0 ELSE Some(s).size + f[s \ {Some(s)}]

IsSum(f, S) == f = [s \in SUBSET S |-> Adds(f, s)]

(***************************************************************************)
(* What CHOOSE gives is a member.                                          *)
(***************************************************************************)
LEMMA SomeIn ==
  ASSUME NEW s, s # {}
  PROVE  Some(s) \in s
BY DEF Some

(***************************************************************************)
(* Without one member a finite set is smaller by one.                      *)
(***************************************************************************)
LEMMA FewerLeft ==
  ASSUME NEW s, IsFiniteSet(s), NEW x \in s
  PROVE  /\ Cardinality(s) \in Nat /\ IsFiniteSet(s \ {x})
         /\ Cardinality(s \ {x}) \in Nat /\ Cardinality(s \ {x}) = Cardinality(s) - 1
BY FS_RemoveElement, FS_CardinalityType

(***************************************************************************)
(* There is such a function: begin with one that is right on the empty set *)
(* and make it right on sets of one member more, as often as the set has   *)
(* members.                                                                *)
(***************************************************************************)
LEMMA SumExists ==
  ASSUME NEW S, IsFiniteSet(S)
  PROVE  \E f : IsSum(f, S)
<1> DEFINE Good(f, n) == \A s \in SUBSET S : Cardinality(s) <= n => f[s] = Adds(f, s)
           N == {n \in Nat : \E f : Good(f, n)}
<1>1. /\ Cardinality(S) \in Nat
      /\ \A s \in SUBSET S : /\ IsFiniteSet(s) /\ Cardinality(s) \in Nat
                            /\ Cardinality(s) <= Cardinality(S)
  BY FS_Subset, FS_CardinalityType
<1>2. 0 \in N
  <2> DEFINE f == [s \in SUBSET S |-> 0]
  <2>1. ASSUME NEW s \in SUBSET S, Cardinality(s) <= 0
        PROVE  f[s] = Adds(f, s)
    <3>1. s = {}
      BY <1>1, <2>1, FS_EmptySet
    <3> QED
      BY <3>1 DEF Adds
  <2> HIDE DEF f
  <2>2. Good(f, 0)
    BY <2>1
  <2> QED
    BY <2>2
<1>3. ASSUME NEW n \in Nat, n \in N
      PROVE  n + 1 \in N
  <2>1. PICK f : Good(f, n)
    BY <1>3
  <2> DEFINE g == [s \in SUBSET S |-> Adds(f, s)]
  <2>2. ASSUME NEW s \in SUBSET S, Cardinality(s) <= n + 1
        PROVE  g[s] = Adds(g, s)
    <3>1. CASE s = {}
      BY <3>1 DEF Adds
    <3>2. CASE s # {}
      <4> DEFINE t == s \ {Some(s)}
      <4>1. Some(s) \in s
        BY <3>2, SomeIn
      <4>2. t \in SUBSET S /\ Cardinality(t) <= n
        BY <1>1, <2>2, <4>1, FewerLeft
      <4>3. f[t] = Adds(f, t)
        BY <2>1, <4>2
      <4>4. g[t] = Adds(f, t) /\ g[s] = Adds(f, s)
        BY <4>2
      <4>5. Adds(f, s) = Some(s).size + f[t] /\ Adds(g, s) = Some(s).size + g[t]
        BY <3>2 DEF Adds
      <4> QED
        BY <4>3, <4>4, <4>5
    <3> QED
      BY <3>1, <3>2
  <2> HIDE DEF g
  <2>3. Good(g, n + 1)
    BY <2>2
  <2> QED
    BY <2>3
<1>4. Cardinality(S) \in N
  <2> HIDE DEF N
  <2>1. \A k \in 0 .. Cardinality(S) - 1 : k \in N => k + 1 \in N
    BY <1>1, <1>3
  <2>2. 0 .. Cardinality(S) \subseteq N
    BY <1>1, <1>2, <2>1, UpToBound
  <2> QED
    BY <1>1, <2>2
<1>5. PICK f : Good(f, Cardinality(S))
  BY <1>4
<1>6. \A s \in SUBSET S : f[s] = Adds(f, s)
  BY <1>1, <1>5
<1> DEFINE g == [s \in SUBSET S |-> f[s]]
<1>7. ASSUME NEW s \in SUBSET S
      PROVE  g[s] = Adds(g, s)
  <2>1. CASE s = {}
    BY <1>6, <2>1 DEF Adds
  <2>2. CASE s # {}
    <3>1. s \ {Some(s)} \in SUBSET S
      OBVIOUS
    <3>2. g[s] = f[s] /\ g[s \ {Some(s)}] = f[s \ {Some(s)}]
      BY <3>1
    <3> QED
      BY <1>6, <2>2, <3>2 DEF Adds
  <2> QED
    BY <2>1, <2>2
<1>8. g = [s \in SUBSET S |-> Adds(g, s)]
  <2>1. g = [s \in SUBSET S |-> g[s]]
    OBVIOUS
  <2> HIDE DEF g
  <2> QED
    BY <1>7, <2>1
<1> HIDE DEF g
<1> QED
  BY <1>8 DEF IsSum

(***************************************************************************)
(* There is only one: two of them differ on no smallest set.               *)
(***************************************************************************)
LEMMA SumUnique ==
  ASSUME NEW S, NEW T, NEW f, NEW g, IsSum(f, S), IsSum(g, T),
         NEW s \in SUBSET S, s \in SUBSET T, IsFiniteSet(s)
  PROVE  f[s] = g[s]
<1> DEFINE Bad(t) == t \in SUBSET s /\ f[t] # g[t]
           N == {n \in Nat : \E t : Bad(t) /\ Cardinality(t) = n}
<1>1. SUFFICES ASSUME f[s] # g[s]
               PROVE  FALSE
  OBVIOUS
<1>2. \A t \in SUBSET s : IsFiniteSet(t) /\ Cardinality(t) \in Nat
  BY FS_Subset, FS_CardinalityType
<1>3. Cardinality(s) \in N
  BY <1>1, <1>2
<1>4. PICK n \in N : \A k \in N : n <= k
  <2>1. N \subseteq Nat
    OBVIOUS
  <2> HIDE DEF N
  <2> QED
    BY <1>3, <2>1, LeastNatural
<1>5. PICK t : Bad(t) /\ Cardinality(t) = n
  BY <1>4
<1>6. f[t] = Adds(f, t) /\ g[t] = Adds(g, t)
  BY <1>5 DEF IsSum
<1>7. t # {}
  BY <1>5, <1>6 DEF Adds
<1> DEFINE u == t \ {Some(t)}
<1>8. u \in SUBSET s /\ Cardinality(u) \in Nat /\ Cardinality(u) < n
  BY <1>2, <1>5, <1>7, SomeIn, FewerLeft
<1>9. f[u] = g[u]
  BY <1>4, <1>8
<1> QED
  BY <1>5, <1>6, <1>7, <1>9 DEF Adds

(***************************************************************************)
(* The sum is the value of such a function.                                *)
(***************************************************************************)
LEMMA TotalForm ==
  ASSUME NEW S
  PROVE  TotalOf(S) = (CHOOSE f : IsSum(f, S))[S]
BY DEF TotalOf, MapThenSumSet, MapThenFoldSet, IsSum, Adds, Some

(***************************************************************************)
(* So the sum is 0 or the size of the chosen member and the sum of the     *)
(* rest.                                                                   *)
(***************************************************************************)
LEMMA TotalSteps ==
  ASSUME NEW S, IsFiniteSet(S)
  PROVE  /\ S = {} => TotalOf(S) = 0
         /\ S # {} => TotalOf(S) = Some(S).size + TotalOf(S \ {Some(S)})
<1>1. PICK f : f = CHOOSE e : IsSum(e, S)
  OBVIOUS
<1>2. IsSum(f, S)
  BY <1>1, SumExists
<1>3. TotalOf(S) = f[S] /\ f[S] = Adds(f, S)
  BY <1>1, <1>2, TotalForm DEF IsSum
<1>4. ASSUME S # {}
      PROVE  TotalOf(S) = Some(S).size + TotalOf(S \ {Some(S)})
  <2> DEFINE T == S \ {Some(S)}
  <2>1. IsFiniteSet(T)
    BY FS_RemoveElement
  <2>2. PICK g : g = CHOOSE e : IsSum(e, T)
    OBVIOUS
  <2>3. IsSum(g, T)
    BY <2>1, <2>2, SumExists
  <2>4. TotalOf(T) = g[T]
    BY <2>2, TotalForm
  <2>5. T \in SUBSET S
    OBVIOUS
  <2> HIDE DEF T
  <2>6. f[T] = g[T]
    BY <1>2, <2>1, <2>3, <2>5, SumUnique
  <2> QED
    BY <1>3, <1>4, <2>4, <2>6 DEF Adds, T
<1> QED
  BY <1>3, <1>4 DEF Adds

(***************************************************************************)
(* A finite set of regions whose sizes are numbers, and a set whose sum    *)
(* can be taken by removing any member, not only the chosen one.           *)
(***************************************************************************)
Sized(S) == IsFiniteSet(S) /\ \A r \in S : r.size \in Nat

Splits(S) == TotalOf(S) \in Nat /\ \A r \in S : TotalOf(S) = r.size + TotalOf(S \ {r})

(***************************************************************************)
(* Every such set can be summed in any order: a smallest one that cannot   *)
(* would have to differ from the sum of its chosen member and the rest.    *)
(***************************************************************************)
LEMMA TotalSplits ==
  ASSUME NEW S, Sized(S)
  PROVE  Splits(S)
<1> DEFINE N == {n \in Nat : \E T : Sized(T) /\ Cardinality(T) = n /\ ~ Splits(T)}
<1>1. SUFFICES ASSUME ~ Splits(S)
               PROVE  FALSE
  OBVIOUS
<1>2. Cardinality(S) \in N
  BY <1>1, FS_CardinalityType DEF Sized
<1>3. PICK n \in N : \A k \in N : n <= k
  <2>1. N \subseteq Nat
    OBVIOUS
  <2> HIDE DEF N
  <2> QED
    BY <1>2, <2>1, LeastNatural
<1>4. PICK T : Sized(T) /\ Cardinality(T) = n /\ ~ Splits(T)
  BY <1>3
<1>5. ASSUME NEW r \in T
      PROVE  Sized(T \ {r}) /\ Splits(T \ {r})
  <2>1. Sized(T \ {r}) /\ Cardinality(T \ {r}) \in Nat /\ Cardinality(T \ {r}) < n
    BY <1>4, FewerLeft DEF Sized
  <2> QED
    BY <1>3, <2>1
<1>6. CASE T = {}
  <2>1. TotalOf(T) = 0
    BY <1>4, <1>6, TotalSteps DEF Sized
  <2> QED
    BY <1>4, <1>6, <2>1 DEF Splits
<1>7. CASE T # {}
  <2>1. PICK c \in T : c = Some(T)
    BY <1>7, SomeIn
  <2>2. TotalOf(T) = c.size + TotalOf(T \ {c})
    BY <1>4, <1>7, <2>1, TotalSteps DEF Sized
  <2>3. c.size \in Nat /\ TotalOf(T \ {c}) \in Nat /\ TotalOf(T) \in Nat
    <3>1. c.size \in Nat
      BY <1>4 DEF Sized
    <3>2. TotalOf(T \ {c}) \in Nat
      BY <1>5 DEF Splits
    <3> QED
      BY <2>2, <3>1, <3>2
  <2>4. ASSUME NEW r \in T
        PROVE  TotalOf(T) = r.size + TotalOf(T \ {r})
    <3>1. CASE r = c
      BY <2>2, <3>1
    <3>2. CASE r # c
      <4>1. r \in T \ {c} /\ c \in T \ {r} /\ (T \ {c}) \ {r} = (T \ {r}) \ {c}
        BY <3>2
      <4>2. TotalOf(T \ {c}) = r.size + TotalOf((T \ {c}) \ {r})
        BY <1>5, <4>1 DEF Splits
      <4>3. TotalOf(T \ {r}) = c.size + TotalOf((T \ {r}) \ {c})
        BY <1>5, <4>1 DEF Splits
      <4>4. r.size \in Nat /\ TotalOf((T \ {c}) \ {r}) \in Nat
        <5>1. Sized(T \ {c}) /\ Splits(T \ {c})
          BY <1>5
        <5>2. Sized((T \ {c}) \ {r}) /\ Cardinality((T \ {c}) \ {r}) \in Nat
              /\ Cardinality((T \ {c}) \ {r}) < n
          <6>1. Cardinality(T \ {c}) = n - 1 /\ n \in Nat /\ IsFiniteSet(T \ {c})
            BY <1>4, FewerLeft DEF Sized
          <6>2. Cardinality((T \ {c}) \ {r}) \in Nat /\ Cardinality((T \ {c}) \ {r}) = n - 1 - 1
                /\ IsFiniteSet((T \ {c}) \ {r})
            BY <4>1, <6>1, FewerLeft
          <6> QED
            BY <5>1, <6>1, <6>2 DEF Sized
        <5>3. Splits((T \ {c}) \ {r})
          BY <1>3, <5>2
        <5> QED
          BY <1>4, <5>3 DEF Sized, Splits
      <4> QED
        BY <2>2, <2>3, <4>1, <4>2, <4>3, <4>4
    <3> QED
      BY <3>1, <3>2
  <2> QED
    BY <1>4, <2>3, <2>4 DEF Splits
<1> QED
  BY <1>6, <1>7

(***************************************************************************)
(* The sum with one region more, and with one region less.                 *)
(***************************************************************************)
LEMMA TotalWith ==
  ASSUME NEW S, Sized(S), NEW r, r \notin S, r.size \in Nat
  PROVE  Sized(S \cup {r}) /\ TotalOf(S \cup {r}) = TotalOf(S) + r.size
<1>1. Sized(S \cup {r})
  BY FS_AddElement DEF Sized
<1>2. Splits(S \cup {r}) /\ Splits(S)
  BY <1>1, TotalSplits
<1>3. (S \cup {r}) \ {r} = S
  OBVIOUS
<1>4. TotalOf(S) \in Nat
  BY <1>2 DEF Splits
<1>5. TotalOf(S \cup {r}) = r.size + TotalOf(S)
  BY <1>2, <1>3 DEF Splits
<1> QED
  BY <1>1, <1>4, <1>5

LEMMA TotalWithout ==
  ASSUME NEW S, Sized(S), NEW r \in S
  PROVE  /\ Sized(S \ {r}) /\ TotalOf(S \ {r}) \in Nat /\ r.size \in Nat
         /\ TotalOf(S) = TotalOf(S \ {r}) + r.size
<1>1. Sized(S \ {r}) /\ r.size \in Nat
  BY FS_RemoveElement DEF Sized
<1>2. Splits(S \ {r}) /\ Splits(S)
  BY <1>1, TotalSplits
<1>3. TotalOf(S \ {r}) \in Nat
  BY <1>2 DEF Splits
<1>4. TotalOf(S) = r.size + TotalOf(S \ {r})
  BY <1>2 DEF Splits
<1> QED
  BY <1>1, <1>3, <1>4

(***************************************************************************)
(* The property of Evaluate speaks of this sum, before a step and after.   *)
(***************************************************************************)
LEMMA TotalPrimed ==
  /\ SizesHeld = TotalOf(held)
  /\ SizesHeld' = TotalOf(held')
  /\ Sized(held)' <=> Sized(held')
<1>1. SizesHeld = TotalOf(held)
  BY DEF SizesHeld, TotalOf, MapThenSumSet, MapThenFoldSet
<1>2. SizesHeld' = TotalOf(held')
  BY DEF SizesHeld, TotalOf, MapThenSumSet, MapThenFoldSet
<1>3. Sized(held)' <=> Sized(held')
  BY DEF Sized
<1> QED
  BY <1>1, <1>2, <1>3

(***************************************************************************)
(* What eval_mm_util counts, and what it may count.                        *)
(***************************************************************************)
Totals ==
  /\ Sized(held) /\ total_size = SizesHeld
  /\ total_size <= max_total_size /\ max_total_size <= h.brk

(***************************************************************************)
(* Invariant of eval_mm_util on a well-formed trace, whatever mistake the  *)
(* allocator makes: the arrays say which regions are handed out, and the   *)
(* totals are theirs.                                                      *)
(***************************************************************************)
Measured ==
  WellFormed(trace) /\ pass = "util" /\ at = "ops" => Placed /\ Totals

(***************************************************************************)
(* Within the width of size_t the totals are added without wrapping.       *)
(***************************************************************************)
LEMMA AddTotalExact ==
  ASSUME Counters, pass = "util", NEW n \in Int, AddTotal(n),
         0 <= total_size + n, total_size + n < SIZE_MOD
  PROVE  /\ total_size' = total_size + n
         /\ max_total_size' = Greater(total_size + n, max_total_size)
<1>1. SIZE_MOD \in Nat /\ SIZE_MOD > 0 /\ total_size \in Int
  BY Consts DEF Counters
<1>2. ASSUME NEW a \in Int, NEW k \in Nat, 0 <= a, a < k
      PROVE  a % k = a
  BY <1>2
<1>3. (total_size + n) % SIZE_MOD = total_size + n
  BY <1>1, <1>2
<1> QED
  BY <1>3 DEF AddTotal, Greater

(***************************************************************************)
(* A request takes back at most one region and hands out at most one, for  *)
(* which the break moves up by at least its size: the total stays exact,   *)
(* and its maximum below the break.                                        *)
(***************************************************************************)
LEMMA TotalsStep ==
  ASSUME TypeInv, pass = "util", Totals,
         NEW R, NEW old \in Nat,
         \/ R = {} /\ old = 0
         \/ \E r \in held : R = {r} /\ r.size = old,
         NEW N, NEW size \in Nat,
         \/ N = {} /\ size = 0
         \/ \E r : r \notin held /\ N = {r} /\ r.size = size,
         held' = (held \ R) \cup N, NEW n, n = size - old, AddTotal(n),
         HeapGood(h'), h.brk + size <= h'.brk
  PROVE  Totals'
<1>1. /\ Counters /\ SIZE_MOD \in Nat /\ h.brk \in Nat /\ h'.brk \in Nat /\ h'.brk < SIZE_MOD
      /\ total_size \in Nat /\ max_total_size \in Nat
  <2>1. h.brk \in 0 .. MaxHeap /\ h'.brk \in 0 .. MaxHeap
    BY DEF TypeInv, HeapGood
  <2>2. total_size \in 0 .. SIZE_MOD - 1 /\ max_total_size \in 0 .. SIZE_MOD - 1 /\ Counters
    BY DEF TypeInv, Counters
  <2> QED
    BY <2>1, <2>2, Consts
<1>2. Sized(held) /\ total_size = TotalOf(held)
  BY TotalPrimed DEF Totals
<1>3. /\ Sized(held \ R) /\ TotalOf(held \ R) \in Nat
      /\ total_size = TotalOf(held \ R) + old
  <2>1. CASE R = {} /\ old = 0
    BY <1>1, <1>2, <2>1
  <2>2. CASE \E r \in held : R = {r} /\ r.size = old
    BY <1>2, <2>2, TotalWithout
  <2> QED
    BY <2>1, <2>2
<1>4. Sized(held') /\ TotalOf(held') = TotalOf(held \ R) + size
  <2>1. CASE N = {} /\ size = 0
    <3>1. held' = held \ R
      BY <2>1
    <3> QED
      BY <1>3, <2>1, <3>1
  <2>2. CASE \E r : r \notin held /\ N = {r} /\ r.size = size
    <3>1. PICK r : r \notin held /\ N = {r} /\ r.size = size
      BY <2>2
    <3>2. PICK S : S = held \ R
      OBVIOUS
    <3>3. r \notin S /\ held' = S \cup {r} /\ r.size \in Nat /\ Sized(S)
      BY <1>3, <3>1, <3>2
    <3>4. Sized(S \cup {r}) /\ TotalOf(S \cup {r}) = TotalOf(S) + r.size
      BY <3>3, TotalWith
    <3> QED
      BY <3>1, <3>2, <3>3, <3>4
  <2> QED
    BY <2>1, <2>2
<1>5. n \in Int /\ total_size + n = TotalOf(held')
  BY <1>1, <1>3, <1>4
<1>6. total_size <= max_total_size /\ max_total_size <= h.brk
  BY DEF Totals
<1>7. total_size + n \in Nat /\ total_size + n <= h'.brk /\ max_total_size <= h'.brk
  BY <1>1, <1>3, <1>4, <1>5, <1>6
<1>8. /\ total_size' = total_size + n
      /\ max_total_size' = Greater(total_size + n, max_total_size)
  BY <1>1, <1>5, <1>7, AddTotalExact
<1>9. total_size' <= max_total_size' /\ max_total_size' <= h'.brk
  BY <1>1, <1>7, <1>8 DEF Greater
<1> QED
  BY <1>4, <1>5, <1>8, <1>9, TotalPrimed DEF Totals

(***************************************************************************)
(* A block that was just made lies above the break, where nothing has been *)
(* handed out.                                                             *)
(***************************************************************************)
LEMMA NoneNew ==
  ASSUME TypeInv, NEW m, op.size \in Nat, Grown(m, op.size)
  PROVE  /\ m.bp \in 0 .. MaxHeap /\ m.bp \in Nat /\ m.bp >= h.brk /\ RegionAt(m.bp) = {}
         /\ \A size : [ptr |-> m.bp, size |-> size] \notin held
<1>1. /\ h.brk \in Nat /\ m.h.brk \in Nat /\ MaxHeap \in Nat
      /\ m.bp = h.brk + 16 /\ m.h.brk <= MaxHeap /\ m.bp + op.size <= m.h.brk
  BY Consts DEF TypeInv, HeapGood, Grown
<1>2. m.bp \in Nat /\ m.bp >= h.brk
  BY <1>1
<1>3. RegionAt(m.bp) = {}
  BY <1>2, NoneAbove DEF TypeInv
<1>4. ASSUME NEW size, [ptr |-> m.bp, size |-> size] \in held
      PROVE  FALSE
  <2>1. PICK r \in held : r = [ptr |-> m.bp, size |-> size]
    BY <1>4
  <2>2. r.ptr = m.bp
    BY <2>1
  <2> QED
    BY <1>3, <2>2 DEF RegionAt
<1> QED
  BY <1>1, <1>2, <1>3, <1>4

(***************************************************************************)
(* eval_mm_util stores the block in the arrays of the trace.               *)
(***************************************************************************)
LEMMA EntrySet ==
  ASSUME TypeInv, pass = "util", op.index \in Ids(trace), NEW ptr \in 0 .. MaxHeap,
         NEW size \in 0 .. SIZE_MOD - 1,
         trace' = SetMeasured(trace, op.index, ptr, size), NEW id, id = op.index
  PROVE  /\ SameTrace(trace, trace') /\ Others(id)
         /\ Block(id)' = ptr /\ Size(id)' = size
<1>1. PICK u : u = SetBlock(trace, id, ptr, size)
  OBVIOUS
<1>2. trace' = u
  BY <1>1 DEF SetMeasured
<1>3. /\ SameTrace(trace, u)
      /\ u.block_rand_base = trace.block_rand_base
      /\ u.blocks[id] = ptr /\ u.block_sizes[id] = size
      /\ \A jd \in Ids(trace) : jd # id =>
           u.blocks[jd] = trace.blocks[jd] /\ u.block_sizes[jd] = trace.block_sizes[jd]
  BY <1>1, SetBlockFacts DEF TypeInv
<1> QED
  BY <1>2, <1>3 DEF Others, Block, Size

(***************************************************************************)
(* The region of an id is the one its entries speak of, if it has one.     *)
(***************************************************************************)
LEMMA RegionOf ==
  ASSUME TypeInv, Placed, NEW id \in Live \cup Vacant
  PROVE  /\ Size(id) \in Nat
         /\ \/ RegionAt(Block(id)) = {} /\ Size(id) = 0
            \/ \E r \in held : RegionAt(Block(id)) = {r} /\ r.size = Size(id)
<1>1. CASE id \in Vacant
  BY <1>1, VacantFacts
<1>2. CASE id \in Live
  <2>1. Size(id) \in Nat
    BY <1>2, BlockFacts
  <2>2. PICK r : r = [ptr |-> Block(id), size |-> Size(id)]
    OBVIOUS
  <2>3. RegionAt(Block(id)) = {r} /\ r.size = Size(id)
    BY <1>2, <2>2, BlockFacts
  <2>4. r \in held
    BY <2>3 DEF RegionAt
  <2> QED
    BY <2>1, <2>3, <2>4
<1> QED
  BY <1>1, <1>2

(***************************************************************************)
(* The requests of eval_mm_util keep the arrays and the totals right.      *)
(***************************************************************************)
LEMMA AllocMeasured ==
  ASSUME TypeInv, WellFormed(trace), pass = "util", Placed, Totals, MeasureAlloc,
         at' = "ops"
  PROVE  Placed' /\ Totals'
<1>1. at = "ops" /\ i <= trace.num_ops /\ op.type = "ALLOC"
  BY MeasureAllocCases
<1>2. PICK m : /\ Called(m) /\ h' = m.h
               /\ Grown(m, op.size)
               /\ trace' = SetMeasured(trace, op.index, m.bp, op.size)
               /\ AddTotal(op.size)
               /\ NewRegion(m.bp, m.bp, op.size)
               /\ Advance
  <2>1. ~ Stop("no memory")
    BY DEF Stop
  <2> QED
    BY <2>1, MeasureAllocCases, Zenon
<1>3. PICK id, size : id = op.index /\ size = op.size
  OBVIOUS
<1>4. /\ id \in Ids(trace) /\ id \notin Live /\ size \in Nat \ {0}
      /\ size \in 0 .. SIZE_MOD - 1 /\ i' = i + 1
  BY <1>1, <1>2, <1>3, WellFormedStep, OpFacts DEF Advance
<1>5. /\ m.bp \in 0 .. MaxHeap /\ m.bp \in Nat /\ m.bp >= h.brk /\ RegionAt(m.bp) = {}
      /\ [ptr |-> m.bp, size |-> size] \notin held
  BY <1>2, <1>3, <1>4, NoneNew
<1>6. SameTrace(trace, trace') /\ Others(id) /\ Block(id)' = m.bp /\ Size(id)' = size
  BY <1>2, <1>3, <1>4, <1>5, EntrySet
<1>7. held' = (held \ RegionAt(m.bp)) \cup {[ptr |-> m.bp, size |-> size]}
  BY <1>2, <1>3, <1>4 DEF NewRegion
<1>8. Placed'
  <2>1. held \ RegionAt(m.bp) =
          {[ptr |-> Block(jd), size |-> Size(jd)] : jd \in Live \ {id}}
    BY <1>4, <1>5 DEF Placed
  <2>2. Grown(m, size) /\ h'.brk = m.h.brk /\ op.type # "FREE"
    BY <1>1, <1>2, <1>3
  <2> QED
    BY <1>1, <1>3, <1>4, <1>6, <1>7, <2>1, <2>2, PlacedWith
<1>9. Totals'
  <2>1. PICK r : r = [ptr |-> m.bp, size |-> size]
    OBVIOUS
  <2>2. r.size = size /\ r \notin held /\ held' = (held \ {}) \cup {r}
    BY <1>5, <1>7, <2>1
  <2>3. HeapGood(h') /\ h.brk + size <= h'.brk
    BY <1>2, <1>3, <1>4, Consts DEF Grown, HeapGood, TypeInv
  <2>4. AddTotal(op.size) /\ op.size = size - 0
    BY <1>2, <1>3, <1>4
  <2> QED
    BY <1>4, <2>2, <2>3, <2>4, TotalsStep
<1> QED
  BY <1>8, <1>9

LEMMA ReallocMeasured ==
  ASSUME TypeInv, WellFormed(trace), pass = "util", Placed, Totals, MeasureRealloc,
         at' = "ops"
  PROVE  Placed' /\ Totals'
<1>1. at = "ops" /\ i <= trace.num_ops /\ op.type = "REALLOC" /\ op.index \in Ids(trace)
  BY MeasureReallocCases
<1>2. PICK m, oldp :
         /\ oldp = trace.blocks[op.index]
         /\ Called(m) /\ h' = m.h
         /\ \/ m.bp = NULL /\ op.size = 0 /\ m.h.brk = h.brk
            \/ Grown(m, op.size) /\ op.size > 0
         /\ trace' = SetMeasured(trace, op.index, m.bp, op.size)
         /\ AddTotal(op.size - old_size(trace))
         /\ NewRegion(m.bp, oldp, op.size)
         /\ Advance
  <2>1. ~ Stop("no memory")
    BY DEF Stop
  <2> QED
    BY <2>1, MeasureReallocCases, Zenon
<1>3. PICK id, size, old : id = op.index /\ size = op.size /\ old = Size(id)
  OBVIOUS
<1>4. /\ id \in Ids(trace) /\ id \in Live \cup Vacant /\ size \in Nat
      /\ size \in 0 .. SIZE_MOD - 1 /\ i' = i + 1
  BY <1>1, <1>2, <1>3, WellFormedStep, OpFacts DEF Advance
<1>5. oldp = Block(id) /\ old_size(trace) = old
  BY <1>2, <1>3 DEF Block, Size, old_size
<1>6. /\ old \in Nat
      /\ \/ RegionAt(oldp) = {} /\ old = 0
         \/ \E r \in held : RegionAt(oldp) = {r} /\ r.size = old
  BY <1>3, <1>4, <1>5, RegionOf
<1>7. held \ RegionAt(oldp) =
        {[ptr |-> Block(jd), size |-> Size(jd)] : jd \in Live \ {id}}
  BY <1>4, <1>5, BlockLeaves
<1>8. PICK n : n = size - old /\ AddTotal(n)
  BY <1>2, <1>3, <1>5
<1>9. CASE m.bp = NULL /\ op.size = 0 /\ m.h.brk = h.brk
  <2>1. held' = held \ RegionAt(oldp) /\ size = 0
    BY <1>2, <1>3, <1>9 DEF NewRegion
  <2>2. SameTrace(trace, trace') /\ Others(id) /\ Block(id)' = NULL /\ Size(id)' = 0
    <3>1. m.bp \in 0 .. MaxHeap
      BY <1>9, Consts
    <3> QED
      BY <1>2, <1>3, <1>4, <1>9, <2>1, <3>1, EntrySet
  <2>3. h'.brk = h.brk
    BY <1>2, <1>9
  <2>4. Placed'
    BY <1>1, <1>3, <1>4, <1>7, <1>9, <2>1, <2>2, <2>3, PlacedWithout
  <2>5. HeapGood(h') /\ h.brk + size <= h'.brk
    BY <1>2, <2>1, <2>3, Consts DEF Called, HeapGood
  <2>6. Totals'
    <3>1. held' = (held \ RegionAt(oldp)) \cup {}
      BY <2>1
    <3> QED
      BY <1>4, <1>6, <1>8, <2>1, <2>5, <3>1, TotalsStep
  <2> QED
    BY <2>4, <2>6
<1>10. CASE Grown(m, op.size) /\ op.size > 0
  <2>1. size \in Nat \ {0}
    BY <1>3, <1>4, <1>10
  <2>2. /\ m.bp \in 0 .. MaxHeap
        /\ [ptr |-> m.bp, size |-> size] \notin held
    BY <1>3, <1>4, <1>10, NoneNew
  <2>3. SameTrace(trace, trace') /\ Others(id) /\ Block(id)' = m.bp /\ Size(id)' = size
    BY <1>2, <1>3, <1>4, <2>2, EntrySet
  <2>4. held' = (held \ RegionAt(oldp)) \cup {[ptr |-> m.bp, size |-> size]}
    BY <1>2, <1>3, <2>1 DEF NewRegion
  <2>5. Placed'
    <3>1. Grown(m, size) /\ h'.brk = m.h.brk /\ op.type # "FREE"
      BY <1>1, <1>2, <1>3, <1>10
    <3> QED
      BY <1>1, <1>3, <1>4, <1>7, <2>1, <2>3, <2>4, <3>1, PlacedWith
  <2>6. HeapGood(h') /\ h.brk + size <= h'.brk
    BY <1>2, <1>3, <1>4, <1>10, Consts DEF Grown, HeapGood, TypeInv
  <2>7. Totals'
    <3>1. PICK r : r = [ptr |-> m.bp, size |-> size]
      OBVIOUS
    <3>2. r.size = size /\ r \notin held /\ held' = (held \ RegionAt(oldp)) \cup {r}
      BY <2>2, <2>4, <3>1
    <3>3. \E s : s \notin held /\ {r} = {s} /\ s.size = size
      BY <3>2
    <3> QED
      BY <1>4, <1>6, <1>8, <2>6, <3>2, <3>3, TotalsStep
  <2> QED
    BY <2>5, <2>7
<1> QED
  BY <1>2, <1>9, <1>10

LEMMA FreeMeasured ==
  ASSUME TypeInv, WellFormed(trace), pass = "util", Placed, Totals, MeasureFree
  PROVE  Placed' /\ Totals'
<1>1. /\ at = "ops" /\ i <= trace.num_ops /\ op.type = "FREE" /\ i' = i + 1
      /\ op.index \in Ids(trace) \cup {NULL_ID} /\ trace' = trace
  BY DEF MeasureFree, At, Advance
<1>2. PICK p : /\ p = IF op.index = NULL_ID THEN NULL ELSE trace.blocks[op.index]
               /\ h' = free(h, p)
               /\ AddTotal(IF op.index = NULL_ID THEN 0 ELSE - old_size(trace))
               /\ held' = held \ RegionAt(p)
  BY DEF MeasureFree
<1>3. h' = h /\ HeapGood(h') /\ h.brk + 0 <= h'.brk
  BY <1>2, Consts DEF free, TypeInv, HeapGood
<1>4. PICK id : id = op.index
  OBVIOUS
<1>5. NULL_ID \notin Ids(trace) /\ (id # NULL_ID => id \in Live \cup Vacant)
  BY <1>1, <1>4, WellFormedStep
<1>6. SameTrace(trace, trace') /\ Others(id)
  BY <1>1 DEF SameTrace, Others, Block, Size
<1>7. PICK old : old = IF id = NULL_ID THEN 0 ELSE Size(id)
  OBVIOUS
<1>8. /\ old \in Nat
      /\ \/ RegionAt(p) = {} /\ old = 0
         \/ \E r \in held : RegionAt(p) = {r} /\ r.size = old
      /\ held \ RegionAt(p) =
           {[ptr |-> Block(jd), size |-> Size(jd)] : jd \in Live \ {id}}
  <2>1. CASE id = NULL_ID
    <3>1. RegionAt(p) = {}
      BY <1>2, <1>4, <2>1, Consts, NoneAbove DEF TypeInv
    <3>2. Live \ {id} = Live
      BY <1>5, <2>1 DEF Live
    <3> QED
      BY <1>7, <2>1, <3>1, <3>2 DEF Placed
  <2>2. CASE id # NULL_ID
    <3>1. id \in Live \cup Vacant /\ p = Block(id) /\ old = Size(id)
      BY <1>2, <1>4, <1>5, <1>7, <2>2 DEF Block
    <3> QED
      BY <3>1, RegionOf, BlockLeaves
  <2> QED
    BY <2>1, <2>2
<1>9. Placed'
  BY <1>1, <1>2, <1>3, <1>4, <1>6, <1>8, PlacedWithout
<1>10. PICK n : n = 0 - old /\ AddTotal(n)
  <2>1. (IF op.index = NULL_ID THEN 0 ELSE - old_size(trace)) = 0 - old
    BY <1>4, <1>7, <1>8 DEF old_size, Size
  <2> QED
    BY <1>2, <2>1
<1>11. held' = (held \ RegionAt(p)) \cup {}
  BY <1>2
<1>12. Totals'
  BY <1>3, <1>8, <1>10, <1>11, TotalsStep
<1> QED
  BY <1>9, <1>12

(***************************************************************************)
(* So does every other step: the totals begin at 0 with no region, and no  *)
(* other evaluation is eval_mm_util.                                       *)
(***************************************************************************)
LEMMA NextMeasured ==
  ASSUME TypeInv, Measured, [Next]_vars
  PROVE  Measured'
<1>1. SUFFICES ASSUME WellFormed(trace)', pass' = "util", at' = "ops"
               PROVE  Placed' /\ Totals'
  BY DEF Measured
<1>2. CASE ReadTrace
  BY <1>1, <1>2, ReadKeepsType DEF ReadTrace, run_vars, TypeInv, Reading
<1>3. CASE StartPass
  <2>1. /\ SameTrace(trace, trace')
        /\ \A id \in Ids(trace) : trace'.blocks[id] = NULL /\ trace'.block_sizes[id] = 0
        /\ HeapGood(h') /\ h'.brk = 0 /\ held' = {} /\ i' = 1
    BY <1>1, <1>3, StartFacts
  <2>2. Ids(trace)' = Ids(trace)
    BY <2>1 DEF SameTrace, Ids
  <2>3. \A id : Uses(id)' = {}
    BY <2>1 DEF Uses
  <2>4. Live' = {} /\ Vacant' \subseteq Ids(trace)
    BY <2>2, <2>3 DEF Live, Vacant, Kept
  <2>5. \A id \in Ids(trace) : Block(id)' = NULL /\ Size(id)' = 0
    BY <2>1 DEF Block, Size
  <2>6. Placed'
    BY <2>1, <2>4, <2>5 DEF Placed
  <2>7. total_size' = 0 /\ max_total_size' = 0
    BY <1>3 DEF StartPass
  <2>8. Sized({}) /\ TotalOf({}) = 0
    BY FS_EmptySet, TotalSteps DEF Sized
  <2>9. Totals'
    BY <2>1, <2>7, <2>8, TotalPrimed DEF Totals
  <2> QED
    BY <2>6, <2>9
<1>4. CASE mm_checkheap_fails \/ OutOfBounds
  BY <1>1, <1>4, Zenon DEF mm_checkheap_fails, OutOfBounds, Stop
<1>5. CASE ValidAlloc \/ ValidRealloc \/ ValidFree
  <2>1. pass \in ValidPasses
    BY <1>5, Zenon DEF ValidAlloc, ValidRealloc, ValidFree, At
  <2>2. Advance \/ \E reason : Stop(reason)
    <3>1. ASSUME NEW m, NEW oldp, NEW s, Moved(m, oldp, s)
          PROVE  Advance
      BY <3>1 DEF Moved
    <3>2. \/ Advance \/ \E reason : Stop(reason)
          \/ \E m, oldp, s : Moved(m, oldp, s)
      BY <1>5, Zenon DEF ValidAlloc, ValidRealloc, ValidFree
    <3> QED
      BY <3>1, <3>2
  <2>3. pass' = pass
    BY <2>2 DEF Advance, Stop
  <2> QED
    BY <1>1, <2>1, <2>3 DEF ValidPasses
<1>6. CASE Measure
  <2>1. Advance \/ \E reason : Stop(reason)
    BY <1>6, Zenon DEF Measure, MeasureAlloc, MeasureRealloc, MeasureFree
  <2>2. at = "ops" /\ pass = "util"
    BY <1>1, <1>6, <2>1 DEF Measure, MeasureAlloc, MeasureRealloc, MeasureFree, At, Advance, Stop
  <2>3. WellFormed(trace)
    <3>1. WellFormed(trace') <=> WellFormed(trace)
      BY <1>6, MeasureKeepsType, WellFormedSame
    <3> QED
      BY <1>1, <3>1 DEF WellFormed, NamesId, Ids, NULL_ID
  <2>4. Placed /\ Totals
    BY <2>2, <2>3 DEF Measured
  <2> QED
    BY <1>1, <1>6, <2>2, <2>3, <2>4, AllocMeasured, ReallocMeasured, FreeMeasured DEF Measure
<1>7. CASE EndPass
  BY <1>1, <1>7 DEF EndPass
<1>8. CASE UNCHANGED vars
  <2>1. UNCHANGED << trace, at, pass, h, total_size, max_total_size, held >>
    BY <1>8 DEF vars, trace_vars, run_vars, range_vars, total_vars, history_vars
  <2>2. WellFormed(trace) /\ (Placed' <=> Placed)
    BY <1>1, <1>8, NothingMoves
  <2>3. Placed /\ Totals
    BY <1>1, <2>1, <2>2 DEF Measured
  <2>4. Totals'
    BY <2>1, <2>3, TotalPrimed DEF Totals
  <2> QED
    BY <2>2, <2>3, <2>4
<1> QED
  BY <1>2, <1>3, <1>4, <1>5, <1>6, <1>7, <1>8 DEF Next

-----------------------------------------------------------------------------
(***************************************************************************)
(* The inductive invariant.                                                *)
(***************************************************************************)
Inv == TypeInv /\ Followed /\ Growth /\ Undamaged /\ Measured

(***************************************************************************)
(* It holds at first.                                                      *)
(***************************************************************************)
LEMMA InitInv == Init => Inv
<1> SUFFICES ASSUME Init PROVE Inv
  OBVIOUS
<1>1. TypeInv
  BY InitType
<1>2. /\ at = "start" /\ pass = "valid_1" /\ reader = "header" /\ allCheck = TRUE
      /\ damage = FALSE
  BY DEF Init, TraceInit
<1>3. Followed
  BY <1>2 DEF Followed, Agree
<1>4. Growth
  BY <1>2 DEF Growth
<1>5. Undamaged
  BY <1>2 DEF Undamaged
<1>6. Measured
  BY <1>2 DEF Measured
<1> QED
  BY <1>1, <1>3, <1>4, <1>5, <1>6 DEF Inv

(***************************************************************************)
(* Every step keeps it.                                                    *)
(***************************************************************************)
LEMMA Invariance == Spec => []Inv
<1>1. Inv /\ [Next]_vars => Inv'
  <2> SUFFICES ASSUME Inv, [Next]_vars PROVE Inv'
    OBVIOUS
  <2>1. TypeInv /\ Followed /\ Growth /\ Undamaged /\ Measured
    BY DEF Inv
  <2>2. TypeInv'
    BY <2>1, NextKeepsType
  <2>3. Followed'
    BY <2>1, NextFollowed
  <2>4. Growth'
    BY <2>1, <2>2, NextGrowth
  <2>5. Undamaged'
    BY <2>1, NextUndamaged
  <2>6. Measured'
    BY <2>1, NextMeasured
  <2> QED
    BY <2>2, <2>3, <2>4, <2>5, <2>6 DEF Inv
<1> QED
  BY <1>1, InitInv, PTL DEF Spec

(***************************************************************************)
(* On a well-formed trace the data checks of eval_mm_valid fail exactly    *)
(* when a block that was freed or resized (with DBG_EXPENSIVE, any live    *)
(* block at the start of a request) did not hold the bytes the driver had  *)
(* left in it, whatever the one mistake of the allocator is.               *)
(***************************************************************************)
THEOREM GarblingSeen == Spec => []GarblingExact
<1>1. Inv => GarblingExact
  BY DEF Inv, Followed, GarblingExact, Agree
<1> QED
  BY <1>1, Invariance, PTL

(***************************************************************************)
(* On a well-formed trace an allocator without mistake passes: all checks  *)
(* of both correctness runs hold, and when memory is short the first run   *)
(* says so; eval_mm_util and eval_mm_speed never end the process.          *)
(***************************************************************************)
THEOREM CorrectPasses == Spec => []CorrectIsValid
<1>1. Inv => CorrectIsValid
  BY DEF Inv, Undamaged, CorrectIsValid
<1> QED
  BY <1>1, Invariance, PTL

(***************************************************************************)
(* On a well-formed trace eval_mm_util counts exactly the bytes the client *)
(* holds, and its high-water mark is never above the break: whatever the   *)
(* trace, no total wraps and utilization is at most 1.                     *)
(***************************************************************************)
THEOREM UtilizationRight == Spec => []UtilizationSound
<1>1. Inv => UtilizationSound
  BY DEF Inv, Measured, Totals, UtilizationSound
<1> QED
  BY <1>1, Invariance, PTL

=============================================================================
