------------------------------ MODULE Evaluate ------------------------------
(***************************************************************************)
(* The evaluation of an allocator on one trace: read_trace, two runs of    *)
(* eval_mm_valid, then eval_mm_util and eval_mm_speed as often as the      *)
(* timing asks for (mdriver.c), with the allocator of mm-naive.c linked    *)
(* in.  Each request of the trace is one step.                             *)
(*                                                                         *)
(* So that the checks have something to find, the allocator may make one   *)
(* mistake: in a correctness run a call overwrites a byte that was written *)
(* before or returns a misaligned address; in any run a call returns NULL  *)
(* for no reason, or mm_init or mm_checkheap return false.                 *)
(***************************************************************************)
EXTENDS TraceFile, MmNaive, FiniteSetsExt

CONSTANT maxfill         \* bytes of a block that carry random data

(***************************************************************************)
(* mm-naive.c does not look for overflow: a request leaves room for the    *)
(* header and rounding below the greatest size_t, in which the size of the *)
(* arena fits.                                                             *)
(***************************************************************************)
ASSUME EvaluateAssumption ==
  /\ maxfill \in Nat \ {0} /\ MaxHeap \in Nat /\ MaxHeap < SIZE_MOD
  /\ \A line \in Lines : line.size + HEADER_SIZE + ALIGNMENT <= SIZE_MOD

DebugModes == {"DBG_NONE", "DBG_CHEAP", "DBG_EXPENSIVE"}
ValidPasses == {"valid_1", "valid_2"}
MeasurePasses == {"util", "speed"}

VARIABLES debug_mode,
          at,               \* "start" of an evaluation, its "ops", or "over"
          pass,             \* the evaluation
          i,                \* the request it has reached
          why,              \* why it is over
          h,                \* the heap of the allocator
          ranges,           \* the range set
          range_index,      \* the index field of the ranges
          allCheck,
          total_size, max_total_size,
          held,             \* history: the regions handed out and not freed
          wrote,            \* history: the bytes left in each of them
          damage,           \* history: a change of them met by a request
          faults            \* history: mistakes of the allocator so far

run_vars == << debug_mode, at, pass, i, why >>
range_vars == << ranges, range_index >>
total_vars == << total_size, max_total_size >>
history_vars == << held, wrote, damage, faults >>
vars == << trace_vars, run_vars, h, range_vars, allCheck, total_vars,
           history_vars >>

RS == INSTANCE RangeSet WITH HeapSize <- MaxHeap, RangeSizes <- {},
                             MaxBlocks <- 0, blocks <- held

Lesser(a, b) == IF a < b THEN a ELSE b
Greater(a, b) == IF a > b THEN a ELSE b

-----------------------------------------------------------------------------
(***************************************************************************)
(* The random data.  Its bytes are all different here and never 0.         *)
(***************************************************************************)
RANDOM_DATA_LEN == maxfill
random_data == [k \in 0 .. RANDOM_DATA_LEN - 1 |-> k + 1]
Bases == IF debug_mode = "DBG_NONE" THEN {0} ELSE 0 .. RANDOM_DATA_LEN - 1

Filled(size) == 0 .. Lesser(size, maxfill) - 1
Expected(t, index, k) ==
  random_data[(t.block_rand_base[index] + k) % RANDOM_DATA_LEN]

randomize_block(t, m, index, base) ==
  LET t1 == [t EXCEPT !.block_rand_base[index] = base]
      block == t.blocks[index]
      bytes == {block + k : k \in Filled(t.block_sizes[index])}
  IN  IF debug_mode = "DBG_NONE" THEN [t |-> t, h |-> m]
      ELSE [t |-> t1,
            h |-> Write(m, [a \in bytes |-> Expected(t1, index, a - block)])]

check_index_first_byte(t, m, index) ==
  \/ index = NULL_ID \/ debug_mode = "DBG_NONE" \/ t.block_sizes[index] = 0
  \/ Read(m, t.blocks[index]) = Expected(t, index, 0)

check_index(t, m, index) ==
  \/ index = NULL_ID \/ debug_mode = "DBG_NONE"
  \/ \A k \in Filled(t.block_sizes[index]) :
       Read(m, t.blocks[index] + k) = Expected(t, index, k)

(***************************************************************************)
(* The ranges met from ranges->list along next: those of every set that    *)
(* holds the first one and the next one of each of its members.            *)
(***************************************************************************)
Walk(s) ==
  LET follows(S) == /\ s.list \in S \cup {RS!NIL}
                    /\ \A a \in S : s.rec[a].next \in S \cup {RS!NIL}
  IN  {a \in RS!Tracked(s) :
         \A S \in SUBSET RS!Tracked(s) : follows(S) => a \in S}

(***************************************************************************)
(* With DBG_EXPENSIVE all blocks are checked before each request.          *)
(***************************************************************************)
check_all ==
  debug_mode = "DBG_EXPENSIVE" =>
    \A lo \in Walk(ranges) : check_index(trace, h, range_index[lo])

accepts_misaligned(s, m, lo, size) == lo < m.brk /\ lo + size - 1 < m.brk

(***************************************************************************)
(* The checks of add_range, with the heap as far as the break.             *)
(***************************************************************************)
accepts(s, m, lo, size) ==
  RS!accepts(s, lo, size) /\ lo < m.brk /\ lo + size - 1 < m.brk

-----------------------------------------------------------------------------
(***************************************************************************)
(* What a call of the allocator may come to: its result m, or that with    *)
(* the one mistake.                                                        *)
(***************************************************************************)
MayErr(passes) == faults = 0 /\ pass \in passes
Scribbles(m) ==
  {m} \cup {r \in {[m EXCEPT !.h = Write(@, [a \in {b} |-> 0])] :
                  b \in DOMAIN m.h.mem} : MayErr(ValidPasses)}
Results(m) ==
  Scribbles(m)
    \cup {r \in {[m EXCEPT !.bp = @ + wsize]} : MayErr(ValidPasses)}
    \cup {r \in {[m EXCEPT !.bp = NULL]} : faults = 0}

CountFault(m, result) == faults' = IF result = m THEN faults ELSE faults + 1

(***************************************************************************)
(* History: the regions at an address, the bytes left in a new one, and    *)
(* whether bytes that were left at src are not at ptr.                     *)
(***************************************************************************)
RegionAt(ptr) == {r \in held : r.ptr = ptr}
Left(m, ptr, size) == [k \in Filled(size) |-> Read(m, ptr + k)]
Forget(ptr) == [p \in DOMAIN wrote \ {ptr} |-> wrote[p]]
Remember(ptr, old, bytes) ==
  [p \in (DOMAIN wrote \ {old}) \cup {ptr} |->
     IF p = ptr THEN bytes ELSE wrote[p]]
Changed(m, ptr, src, size) ==
  \E r \in RegionAt(src) :
    \E k \in Filled(Lesser(size, r.size)) : Read(m, ptr + k) # wrote[src][k]

ChangedHeld ==
  debug_mode = "DBG_EXPENSIVE" /\ \E r \in held : Changed(h, r.ptr, r.ptr, r.size)

-----------------------------------------------------------------------------
Init ==
  /\ TraceInit
  /\ debug_mode \in DebugModes
  /\ at = "start" /\ pass = "valid_1" /\ i = 0 /\ why = "none"
  /\ h = EmptyHeap
  /\ ranges = RS!new_range_set /\ range_index = << >> /\ allCheck = TRUE
  /\ total_size = 0 /\ max_total_size = 0
  /\ held = {} /\ wrote = << >> /\ damage = FALSE /\ faults = 0

ReadTrace ==
  /\ read_trace
  /\ UNCHANGED << run_vars, h, range_vars, allCheck, total_vars, history_vars >>

(***************************************************************************)
(* The evaluation ends before its time: malloc_error is called and it      *)
(* returns, an assertion or unix_error ends the process, or C does not     *)
(* define what happens.  Driver counts the errors.                         *)
(***************************************************************************)
Stop(reason) ==
  /\ at' = "over" /\ why' = reason
  /\ UNCHANGED << trace_vars, debug_mode, pass, i, range_vars, allCheck,
                  total_vars, held, wrote, damage >>

(***************************************************************************)
(* The beginning of each evaluation: mem_reset_brk, reinit_trace, mm_init. *)
(* The two correctness runs are given a new range set each.                *)
(***************************************************************************)
StartPass ==
  /\ reader = "closed" /\ at = "start"
  /\ trace' = reinit_trace(trace)
  /\ h' = mm_init(EmptyHeap)
  /\ \/ at' = "ops" /\ i' = 1 /\ UNCHANGED << why, faults >>
     \/ faults = 0 /\ faults' = 1 /\ at' = "over" /\ why' = "mm_init failed"
        /\ UNCHANGED i
  /\ ranges' = RS!new_range_set /\ range_index' = << >> /\ allCheck' = TRUE
  /\ total_size' = 0 /\ max_total_size' = 0
  /\ held' = {} /\ wrote' = << >> /\ damage' = FALSE
  /\ UNCHANGED << reader, max_id_used, debug_mode, pass >>

op == trace.ops[i]
At(passes, type) ==
  at = "ops" /\ pass \in passes /\ i <= trace.num_ops /\ op.type = type
Advance == i' = i + 1 /\ UNCHANGED << reader, max_id_used, debug_mode, at, pass, why >>

mm_checkheap_fails ==
  /\ at = "ops" /\ pass \in ValidPasses /\ i <= trace.num_ops
  /\ debug_mode = "DBG_EXPENSIVE" /\ faults = 0
  /\ Stop("mm_checkheap returned false")
  /\ faults' = 1 /\ UNCHANGED h

(***************************************************************************)
(* The end of a request that left a new block at ptr, in eval_mm_valid:    *)
(* the block is remembered and filled with random data.                    *)
(***************************************************************************)
Fill(t, m, ptr, old, size) ==
  \E base \in Bases :
    \E f \in {randomize_block(t, m, op.index, base)} :
      /\ trace' = f.t /\ h' = f.h
      /\ held' = (held \ RegionAt(old)) \cup
                 (IF size = 0 THEN {} ELSE {[ptr |-> ptr, size |-> size]})
      /\ wrote' = IF size = 0 THEN Forget(old)
                  ELSE Remember(ptr, old, Left(f.h, ptr, size))

SetBlock(t, index, ptr, size) ==
  [t EXCEPT !.blocks[index] = ptr, !.block_sizes[index] = size]

SetRange(s, lo, index) ==
  /\ ranges' = s
  /\ range_index' = [a \in RS!Tracked(s) |->
                       IF a = lo THEN index ELSE range_index[a]]

ValidAlloc ==
  /\ At(ValidPasses, "ALLOC")
  /\ \E m \in Results(malloc(h, op.size)) :
       /\ CountFault(malloc(h, op.size), m)
       /\ \/ m.bp = NULL /\ Stop("no memory") /\ h' = m.h
          \/ m.bp # NULL /\ op.size = 0 /\ Stop("assert") /\ h' = m.h
          \/ m.bp # NULL /\ op.size > 0 /\ ~accepts(ranges, m.h, m.bp, op.size)
             /\ Stop("bad payload") /\ h' = m.h
          \/ m.bp # NULL /\ op.size > 0 /\ accepts(ranges, m.h, m.bp, op.size)
             /\ op.index \notin Ids(trace) /\ Stop("undefined") /\ h' = m.h
          \/ /\ m.bp # NULL /\ op.size > 0 /\ op.index \in Ids(trace)
             /\ accepts(ranges, m.h, m.bp, op.size)
             /\ SetRange(RS!add_range(ranges, m.bp, op.size), m.bp, op.index)
             /\ Fill(SetBlock(trace, op.index, m.bp, op.size), m.h, m.bp, m.bp,
                     op.size)
             /\ allCheck' = (allCheck /\ check_all)
             /\ damage' = (damage \/ ChangedHeld)
             /\ Advance /\ UNCHANGED total_vars

(***************************************************************************)
(* REALLOC, once mm_realloc has returned m: the old range leaves the set   *)
(* before the new one is checked, and the data are compared up to the      *)
(* lesser of the two sizes before new ones are written.                    *)
(***************************************************************************)
Moved(m, oldp, s) ==
  LET oldsize == trace.block_sizes[op.index]
      copied == SetBlock(trace, op.index, m.bp, Lesser(op.size, oldsize))
  IN  /\ SetRange(s, m.bp, op.index)
      /\ Fill(SetBlock(trace, op.index, m.bp, op.size), m.h, m.bp, oldp, op.size)
      /\ allCheck' = (/\ allCheck /\ check_all
                      /\ check_index(trace, h, op.index)
                      /\ check_index(copied, m.h, op.index))
      /\ damage' = (\/ damage \/ ChangedHeld
                    \/ debug_mode # "DBG_NONE" /\
                         \/ Changed(h, oldp, oldp, SIZE_MOD)
                         \/ Changed(m.h, m.bp, oldp, op.size))
      /\ Advance /\ UNCHANGED total_vars

ValidRealloc ==
  /\ At(ValidPasses, "REALLOC") /\ op.index \in Ids(trace)
  /\ \E oldp \in {trace.blocks[op.index]}, s \in
          {RS!remove_range(ranges, trace.blocks[op.index])} :
     \E m \in Results(realloc(h, oldp, op.size)) :
       /\ CountFault(realloc(h, oldp, op.size), m)
       /\ \/ m.bp = NULL /\ op.size # 0 /\ Stop("no memory") /\ h' = m.h
          \/ m.bp # NULL /\ op.size = 0 /\ Stop("not NULL") /\ h' = m.h
          \/ m.bp = NULL /\ op.size = 0 /\ Moved(m, oldp, s)
          \/ m.bp # NULL /\ op.size # 0 /\ ~accepts(s, m.h, m.bp, op.size)
             /\ Stop("bad payload") /\ h' = m.h
          \/ m.bp # NULL /\ op.size # 0 /\ accepts(s, m.h, m.bp, op.size)
             /\ Moved(m, oldp, RS!add_range(s, m.bp, op.size))

(***************************************************************************)
(* FREE.  blocks and block_sizes keep the entries of the freed block.      *)
(***************************************************************************)
ValidFree ==
  /\ At(ValidPasses, "FREE") /\ op.index \in Ids(trace) \cup {NULL_ID}
  /\ \E p \in {IF op.index = NULL_ID THEN NULL ELSE trace.blocks[op.index]} :
     \E m \in Scribbles([h |-> free(h, p), bp |-> NULL]) :
       /\ CountFault([h |-> free(h, p), bp |-> NULL], m)
       /\ h' = m.h
       /\ IF op.index = NULL_ID THEN UNCHANGED range_vars
          ELSE SetRange(RS!remove_range(ranges, p), RS!NIL, op.index)
       /\ allCheck' = (allCheck /\ check_all /\ check_index(trace, h, op.index))
       /\ damage' = (\/ damage \/ ChangedHeld
                     \/ debug_mode # "DBG_NONE" /\ Changed(h, p, p, SIZE_MOD))
       /\ held' = held \ RegionAt(p) /\ wrote' = Forget(p)
       /\ Advance /\ UNCHANGED << trace, total_vars >>

(***************************************************************************)
(* A trace without ids passes read_trace when it frees NULL_ID; an id in   *)
(* another request of it is out of bounds.                                 *)
(***************************************************************************)
OutOfBounds ==
  /\ \/ At(ValidPasses, "REALLOC") /\ op.index \notin Ids(trace)
     \/ At(ValidPasses, "FREE") /\ op.index \notin Ids(trace) \cup {NULL_ID}
  /\ Stop("undefined") /\ UNCHANGED << h, faults >>

-----------------------------------------------------------------------------
(***************************************************************************)
(* eval_mm_util and eval_mm_speed make the same calls and look at nothing  *)
(* but NULL, for which they end the process.  Only eval_mm_util keeps      *)
(* sizes and totals.                                                       *)
(***************************************************************************)
old_size_forgotten(t) == 0
old_size(t) == IF pass = "util" THEN t.block_sizes[op.index] ELSE 0

SetMeasured(t, index, ptr, size) ==
  IF pass = "util" THEN SetBlock(t, index, ptr, size)
  ELSE [t EXCEPT !.blocks[index] = ptr]

AddTotal(n) ==
  IF pass = "util"
  THEN /\ total_size' = (total_size + n) % SIZE_MOD
       /\ max_total_size' = Greater(total_size', max_total_size)
  ELSE UNCHANGED total_vars

NewRegion(ptr, old, size) ==
  held' = (held \ RegionAt(old)) \cup
          (IF size = 0 THEN {} ELSE {[ptr |-> ptr, size |-> size]})

Unchecked == UNCHANGED << range_vars, allCheck, wrote, damage >>

MeasureAlloc ==
  /\ At(MeasurePasses, "ALLOC")
  /\ \E m \in Results(malloc(h, op.size)) :
       /\ CountFault(malloc(h, op.size), m) /\ h' = m.h
       /\ \/ m.bp = NULL /\ Stop("no memory")
          \/ /\ m.bp # NULL
             /\ trace' = SetMeasured(trace, op.index, m.bp, op.size)
             /\ AddTotal(op.size)
             /\ NewRegion(m.bp, m.bp, op.size)
             /\ Advance /\ Unchecked

MeasureRealloc ==
  /\ At(MeasurePasses, "REALLOC") /\ op.index \in Ids(trace)
  /\ \E oldp \in {trace.blocks[op.index]} :
     \E m \in Results(realloc(h, oldp, op.size)) :
       /\ CountFault(realloc(h, oldp, op.size), m) /\ h' = m.h
       /\ \/ m.bp = NULL /\ op.size # 0 /\ Stop("no memory")
          \/ /\ m.bp # NULL \/ op.size = 0
             /\ trace' = SetMeasured(trace, op.index, m.bp, op.size)
             /\ AddTotal(op.size - old_size(trace))
             /\ NewRegion(m.bp, oldp, op.size)
             /\ Advance /\ Unchecked

MeasureFree ==
  /\ At(MeasurePasses, "FREE") /\ op.index \in Ids(trace) \cup {NULL_ID}
  /\ \E p \in {IF op.index = NULL_ID THEN NULL ELSE trace.blocks[op.index]} :
       /\ h' = free(h, p)
       /\ AddTotal(IF op.index = NULL_ID THEN 0 ELSE - old_size(trace))
       /\ held' = held \ RegionAt(p)
  /\ UNCHANGED << trace, faults >>
  /\ Advance /\ Unchecked

Measure == MeasureAlloc \/ MeasureRealloc \/ MeasureFree

-----------------------------------------------------------------------------
(***************************************************************************)
(* The end of the trace.  A garbled block ends the evaluation of the trace *)
(* here; eval_mm_speed is run again for the next measurement.              *)
(***************************************************************************)
Following == [valid_1 |-> "valid_2", valid_2 |-> "util", util |-> "speed",
              speed |-> "speed"]

EndPass ==
  /\ at = "ops" /\ i > trace.num_ops
  /\ IF allCheck
     THEN at' = "start" /\ pass' = Following[pass] /\ i' = 0 /\ UNCHANGED why
     ELSE at' = "over" /\ why' = "garbled" /\ UNCHANGED << pass, i >>
  /\ UNCHANGED << trace_vars, debug_mode, h, range_vars, allCheck, total_vars,
                  history_vars >>

Next ==
  \/ ReadTrace
  \/ StartPass
  \/ mm_checkheap_fails
  \/ ValidAlloc \/ ValidRealloc \/ ValidFree
  \/ OutOfBounds
  \/ Measure
  \/ EndPass

Spec == Init /\ [][Next]_vars

-----------------------------------------------------------------------------
(***************************************************************************)
(* Type correctness.  In particular every id of a trace that passed        *)
(* read_trace, if it has any, is an index of its arrays.                   *)
(***************************************************************************)
TypeOK ==
  /\ reader = "closed" =>
       /\ Len(trace.ops) = trace.num_ops
       /\ trace.num_ids > 0 =>
            \A k \in DOMAIN trace.ops : trace.ops[k].index \in Ids(trace)
  /\ trace.blocks \in [Ids(trace) -> 0 .. MaxHeap]
  /\ trace.block_sizes \in [Ids(trace) -> 0 .. SIZE_MOD - 1]
  /\ h.brk \in 0 .. MaxHeap
  /\ i \in 0 .. trace.num_ops + 1
  /\ RS!Tracked(ranges) = DOMAIN range_index
  /\ total_size \in 0 .. SIZE_MOD - 1 /\ max_total_size \in 0 .. SIZE_MOD - 1
  /\ allCheck \in BOOLEAN /\ damage \in BOOLEAN /\ faults \in 0 .. 1

(***************************************************************************)
(* A correct allocator passes: on a well-formed trace, and without a       *)
(* mistake, no check of eval_mm_valid fails, in the first run or in the    *)
(* second; only the arena may be too small, and then the first run shows   *)
(* it and eval_mm_util and eval_mm_speed never end the process.            *)
(***************************************************************************)
CorrectIsValid ==
  WellFormed(trace) /\ faults = 0 =>
    /\ allCheck
    /\ at = "over" => why = "no memory" /\ pass = "valid_1"

(***************************************************************************)
(* On a well-formed trace the data checks of eval_mm_valid say exactly     *)
(* what happened: a check has failed if and only if a block that was freed *)
(* or resized (with DBG_EXPENSIVE, any live block at the start of a        *)
(* request) did not hold the bytes the driver had left in it, or resizing  *)
(* did not take them along.                                                *)
(***************************************************************************)
GarblingExact ==
  /\ reader = "closed" /\ pass \in ValidPasses
  /\ WellFormed(trace)
  => (damage <=> ~allCheck)

SizesHeld == MapThenSumSet(LAMBDA r : r.size, held)

(***************************************************************************)
(* eval_mm_util counts the bytes the client holds, and its high-water mark *)
(* is never above the size of the heap: utilization is at most 1.          *)
(***************************************************************************)
UtilizationSound ==
  pass = "util" /\ at = "ops" /\ WellFormed(trace) =>
    /\ total_size = SizesHeld
    /\ total_size <= max_total_size /\ max_total_size <= h.brk

(***************************************************************************)
(* What the driver takes from the naive allocator, and gives back to it,   *)
(* follows the contract of mm.h, whatever the trace asks for.              *)
(***************************************************************************)
Contract == INSTANCE AllocSpec WITH regions <- held, hi <- h.brk
ImplementsContract == Contract!Spec
=============================================================================
