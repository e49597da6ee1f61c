------------------------------ MODULE RangeSet ------------------------------
(***************************************************************************)
(* The range set of mdriver.c, with which eval_mm_valid follows the blocks *)
(* an allocator hands out and looks for overlaps: a doubly linked list of  *)
(* ranges and a tree of them keyed by low address (the tree of Stree, seen *)
(* as the set of its keys).  A range is named by its low address.          *)
(*                                                                         *)
(* The allocator under test is not trusted: it may return any address.     *)
(***************************************************************************)
EXTENDS Integers, FiniteSets

CONSTANTS HeapSize,      \* bytes between mem_heap_lo and mem_heap_hi
          ALIGNMENT,     \* alignment asked of a payload address
          RangeSizes,    \* payload sizes a trace asks for
          MaxBlocks      \* bound on the blocks a trace holds at once

ASSUME RangeAssumption ==
  /\ HeapSize \in Nat /\ ALIGNMENT \in Nat \ {0}
  /\ RangeSizes \subseteq Nat \ {0}
  /\ MaxBlocks \in Nat

NIL == -1
Addresses == 0 .. HeapSize - 1

VARIABLES ranges,        \* list: the head; rec: [hi, next, prev] of each range
          debug_mode,
          blocks         \* the blocks of the trace: records [lo, size]

vars == << ranges, debug_mode, blocks >>

new_range_set == [list |-> NIL, rec |-> [lo \in {} |-> NIL]]

Tracked(s) == DOMAIN s.rec

lo_tree == INSTANCE OrderedKeys

(***************************************************************************)
(* The records once the range at before, if there is one, has n as its     *)
(* next and the range at after, if there is one, has p as its prev.        *)
(***************************************************************************)
Relink(s, before, n, after, p) ==
  [a \in Tracked(s) |->
     [hi |-> s.rec[a].hi,
      next |-> IF a = before THEN n ELSE s.rec[a].next,
      prev |-> IF a = after THEN p ELSE s.rec[a].prev]]

-----------------------------------------------------------------------------
IS_ALIGNED(lo) == lo % ALIGNMENT = 0
InHeap(a) == a \in Addresses

(***************************************************************************)
(* The list position of a new range: after its predecessor in the tree and *)
(* before the range that follows that one, or alone when the tree has no   *)
(* smaller address.                                                        *)
(***************************************************************************)
Predecessor(s, lo) == lo_tree!nearest(Tracked(s), lo, NIL)
Successor(s, prev) == IF prev # NIL THEN s.rec[prev].next ELSE NIL

accepts_hi_one_too_far(s, lo, size) ==
  LET hi == lo + size
      prev == Predecessor(s, lo)
      next == Successor(s, prev)
  IN  /\ IS_ALIGNED(lo) /\ InHeap(lo) /\ InHeap(hi)
      /\ debug_mode # "DBG_NONE" =>
           /\ prev # NIL => lo > s.rec[prev].hi
           /\ next # NIL => hi < next

(***************************************************************************)
(* The checks of add_range.                                                *)
(***************************************************************************)
accepts(s, lo, size) ==
  LET hi == lo + size - 1
      prev == Predecessor(s, lo)
      next == Successor(s, prev)
  IN  /\ IS_ALIGNED(lo) /\ InHeap(lo) /\ InHeap(hi)
      /\ debug_mode # "DBG_NONE" =>
           /\ prev # NIL => lo > s.rec[prev].hi
           /\ next # NIL => hi < next

(***************************************************************************)
(* The rest of add_range, for a block that passed them.  Without debugging *)
(* nothing is recorded.                                                    *)
(***************************************************************************)
add_range(s, lo, size) ==
  LET prev == Predecessor(s, lo)
      next == Successor(s, prev)
      p == [hi |-> lo + size - 1, next |-> next, prev |-> prev]
      rec == Relink(s, prev, lo, next, lo)
  IN  IF debug_mode = "DBG_NONE" THEN s
      ELSE [list |-> IF prev = NIL THEN lo ELSE s.list,
            rec |-> [a \in Tracked(s) \cup {lo} |->
                       IF a = lo THEN p ELSE rec[a]]]

remove_range_one_way(s, lo) ==
  LET p == s.rec[lo]
      rec == Relink(s, p.prev, p.next, NIL, NIL)
  IN  IF lo \notin Tracked(s) THEN s
      ELSE [list |-> IF p.prev = NIL THEN p.next ELSE s.list,
            rec |-> [a \in Tracked(s) \ {lo} |-> rec[a]]]

remove_range_keeps_head(s, lo) ==
  LET p == s.rec[lo]
      rec == Relink(s, p.prev, p.next, p.next, p.prev)
  IN  IF lo \notin Tracked(s) THEN s
      ELSE [list |-> s.list,
            rec |-> [a \in Tracked(s) \ {lo} |-> rec[a]]]

remove_range(s, lo) ==
  LET p == s.rec[lo]
      rec == Relink(s, p.prev, p.next, p.next, p.prev)
  IN  IF lo \notin Tracked(s) THEN s
      ELSE [list |-> IF p.prev = NIL THEN p.next ELSE s.list,
            rec |-> [a \in Tracked(s) \ {lo} |-> rec[a]]]

-----------------------------------------------------------------------------
(***************************************************************************)
(* The requests of a trace as eval_mm_valid carries them out.  When        *)
(* add_range reports an error the trace is given up: its range set is      *)
(* freed and the next one starts with a new one.                           *)
(***************************************************************************)
Block(lo, size) == [lo |-> lo, size |-> size]
GiveUp == ranges' = new_range_set /\ blocks' = {}

Init ==
  /\ ranges = new_range_set
  /\ debug_mode \in {"DBG_NONE", "DBG_CHEAP", "DBG_EXPENSIVE"}
  /\ blocks = {}

Alloc(lo, size) ==
  /\ Cardinality(blocks) < MaxBlocks
  /\ UNCHANGED debug_mode
  /\ IF accepts(ranges, lo, size)
     THEN /\ ranges' = add_range(ranges, lo, size)
          /\ blocks' = blocks \cup {Block(lo, size)}
     ELSE GiveUp

Realloc_old_stays(b, lo, size) ==
  /\ UNCHANGED debug_mode
  /\ IF accepts(ranges, lo, size)
     THEN /\ ranges' = add_range(ranges, lo, size)
          /\ blocks' = (blocks \ {b}) \cup {Block(lo, size)}
     ELSE GiveUp

Realloc(b, lo, size) ==
  LET s == remove_range(ranges, b.lo)
  IN  /\ UNCHANGED debug_mode
      /\ IF accepts(s, lo, size)
         THEN /\ ranges' = add_range(s, lo, size)
              /\ blocks' = (blocks \ {b}) \cup {Block(lo, size)}
         ELSE GiveUp

(***************************************************************************)
(* FREE, and REALLOC to size 0.                                            *)
(***************************************************************************)
Free(b) ==
  /\ ranges' = remove_range(ranges, b.lo)
  /\ blocks' = blocks \ {b}
  /\ UNCHANGED debug_mode

EndOfTrace == GiveUp /\ UNCHANGED debug_mode

Next ==
  \/ \E lo \in Addresses, size \in RangeSizes : Alloc(lo, size)
  \/ \E b \in blocks, lo \in Addresses, size \in RangeSizes : Realloc(b, lo, size)
  \/ \E b \in blocks : Free(b)
  \/ EndOfTrace

Spec == Init /\ [][Next]_vars

-----------------------------------------------------------------------------
(***************************************************************************)
(* Type correctness.                                                       *)
(***************************************************************************)
TypeOK ==
  LET Ptr == Tracked(ranges) \cup {NIL}
  IN  /\ Tracked(ranges) \subseteq Addresses
      /\ ranges.rec \in [Tracked(ranges) ->
                           [hi : Addresses, next : Ptr, prev : Ptr]]
      /\ ranges.list \in Ptr
      /\ blocks \subseteq [lo : Addresses, size : RangeSizes]

(***************************************************************************)
(* Every block of the trace has its range and every range its block, so    *)
(* that remove_range always finds the range of a block that is freed.      *)
(***************************************************************************)
TrackedAreBlocks ==
  debug_mode # "DBG_NONE" =>
    /\ \A a \in Tracked(ranges) :
         Block(a, ranges.rec[a].hi - a + 1) \in blocks
    /\ \A b \in blocks : b.lo \in Tracked(ranges)

(***************************************************************************)
(* next and prev are inverse to each other, a range lies wholly before the *)
(* one it is linked to, and ranges.list is a range with nothing before it, *)
(* also after the list has lost ranges and ranges it lost were freed.      *)
(***************************************************************************)
LinksSound ==
  /\ \A a, b \in Tracked(ranges) :
       ranges.rec[a].next = b <=> ranges.rec[b].prev = a
  /\ \A a \in Tracked(ranges) :
       ranges.rec[a].next # NIL => ranges.rec[a].hi < ranges.rec[a].next
  /\ ranges.list # NIL => ranges.rec[ranges.list].prev = NIL

(***************************************************************************)
(* No false alarm: a block that is aligned, in the heap and apart from all *)
(* blocks of the trace passes add_range, also after the list lost ranges.  *)
(***************************************************************************)
NoFalseAlarm ==
  \A lo \in Addresses, size \in RangeSizes :
    /\ IS_ALIGNED(lo) /\ lo + size <= HeapSize
    /\ \A b \in blocks : lo + size <= b.lo \/ b.lo + b.size <= lo
    => accepts(ranges, lo, size)

(***************************************************************************)
(* mdriver.c:1003: a new block "must not overlap any currently allocated   *)
(* block".  No two blocks that passed add_range overlap.                   *)
(***************************************************************************)
OverlapCaught ==
  debug_mode # "DBG_NONE" =>
    \A b, c \in blocks :
      b # c => b.lo + b.size <= c.lo \/ c.lo + c.size <= b.lo
=============================================================================
