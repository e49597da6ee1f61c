--------------------------- MODULE RangeSetProofs ---------------------------
(***************************************************************************)
(* Proofs about the range set of mdriver.c, for every heap, alignment and  *)
(* set of request sizes.                                                   *)
(***************************************************************************)
EXTENDS RangeSet, NatFacts, TLAPS

-----------------------------------------------------------------------------
(***************************************************************************)
(* tree_find_nearest (stree.c:90) as add_range uses it: the greatest       *)
(* tracked address that is not above key, or none.                         *)
(***************************************************************************)
LEMMA Nearest ==
  ASSUME NEW s, Tracked(s) \subseteq Addresses, NEW key \in Addresses
  PROVE  \/ Predecessor(s, key) = NIL /\ \A k \in Tracked(s) : key < k
         \/ /\ Predecessor(s, key) \in Tracked(s)
            /\ Predecessor(s, key) <= key
            /\ \A k \in Tracked(s) : k <= key => k <= Predecessor(s, key)
<1> DEFINE below == {k \in Tracked(s) : k <= key}
<1>1. key \in Nat /\ Tracked(s) \subseteq Nat
  BY DEF Addresses
<1>2. CASE below = {}
  BY <1>1, <1>2 DEF Predecessor, lo_tree!nearest
<1>3. CASE below # {}
  <2>1. below \subseteq Nat /\ \A k \in below : k <= key
    BY <1>1
  <2>2. \E x \in below : \A y \in below : y <= x
    <3> HIDE DEF below
    <3> QED
      BY <1>1, <1>3, <2>1, GreatestNatural
  <2>3. /\ lo_tree!Greatest(below) \in below
        /\ \A y \in below : y <= lo_tree!Greatest(below)
    BY <2>2 DEF lo_tree!Greatest
  <2>4. Predecessor(s, key) = lo_tree!Greatest(below)
    BY <1>3 DEF Predecessor, lo_tree!nearest
  <2> QED
    BY <2>3, <2>4
<1> QED
  BY <1>2, <1>3

-----------------------------------------------------------------------------
(***************************************************************************)
(* A range set is sound when its links are: typed, inverse to each other,  *)
(* upwards, and with nothing before the head.                              *)
(***************************************************************************)
Links(s) == Tracked(s) \cup {NIL}

Sound(s) ==
  /\ Tracked(s) \subseteq Addresses
  /\ s.rec \in [Tracked(s) -> [hi : Addresses, next : Links(s), prev : Links(s)]]
  /\ s.list \in Links(s)
  /\ \A a \in Tracked(s) : a <= s.rec[a].hi
  /\ \A a, b \in Tracked(s) : s.rec[a].next = b <=> s.rec[b].prev = a
  /\ \A a \in Tracked(s) : s.rec[a].next # NIL => s.rec[a].hi < s.rec[a].next
  /\ s.list # NIL => s.rec[s.list].prev = NIL

(***************************************************************************)
(* The ranges of s are exactly those of the blocks in B.                   *)
(***************************************************************************)
Follows(s, B) ==
  /\ \A a \in Tracked(s) : Block(a, s.rec[a].hi - a + 1) \in B
  /\ \A b \in B : b.lo \in Tracked(s) /\ b.size = s.rec[b.lo].hi - b.lo + 1

(***************************************************************************)
(* The inductive invariant.  LinksSound alone is not inductive: that a new *)
(* range is not one the set has already needs a <= hi, and that freeing a  *)
(* block removes its range needs the blocks to determine the ranges.       *)
(***************************************************************************)
Inv ==
  /\ blocks \subseteq [lo : Addresses, size : RangeSizes]
  /\ debug_mode = "DBG_NONE" => ranges = new_range_set
  /\ debug_mode # "DBG_NONE" => Sound(ranges) /\ Follows(ranges, blocks)

(***************************************************************************)
(* new_range_set makes a sound set of no ranges.                           *)
(***************************************************************************)
LEMMA EmptySet == Sound(new_range_set) /\ Follows(new_range_set, {})
<1>1. Tracked(new_range_set) = {}
  BY DEF new_range_set, Tracked
<1>2. /\ new_range_set.rec \in [{} -> [hi : Addresses, next : {NIL}, prev : {NIL}]]
      /\ new_range_set.list = NIL
  BY DEF new_range_set
<1> QED
  BY <1>1, <1>2 DEF Sound, Follows, Links

(***************************************************************************)
(* The types of the fields of a range.                                     *)
(***************************************************************************)
LEMMA RangeFields ==
  ASSUME NEW s, Sound(s), NEW a \in Tracked(s)
  PROVE  /\ a \in Nat /\ a # NIL /\ a \in Addresses
         /\ s.rec[a].hi \in Nat /\ s.rec[a].hi \in Addresses /\ a <= s.rec[a].hi
         /\ s.rec[a].next \in Links(s) /\ s.rec[a].prev \in Links(s)
<1>1. s.rec[a] \in [hi : Addresses, next : Links(s), prev : Links(s)]
  BY DEF Sound
<1> QED
  BY <1>1 DEF Sound, Addresses, NIL

(***************************************************************************)
(* The ranges on both sides of a link.                                     *)
(***************************************************************************)
LEMMA Neighbours ==
  ASSUME NEW s, Sound(s), NEW a \in Tracked(s)
  PROVE  /\ s.rec[a].next # NIL =>
              /\ s.rec[a].next \in Tracked(s) /\ s.rec[s.rec[a].next].prev = a
              /\ s.rec[a].hi < s.rec[a].next /\ s.rec[a].next # a
         /\ s.rec[a].prev # NIL =>
              /\ s.rec[a].prev \in Tracked(s) /\ s.rec[s.rec[a].prev].next = a
              /\ s.rec[s.rec[a].prev].hi < a /\ s.rec[a].prev # a
<1>1. ASSUME s.rec[a].next # NIL
      PROVE  /\ s.rec[a].next \in Tracked(s) /\ s.rec[s.rec[a].next].prev = a
             /\ s.rec[a].hi < s.rec[a].next /\ s.rec[a].next # a
  <2>1. s.rec[a].next \in Tracked(s)
    BY <1>1, RangeFields DEF Links
  <2>2. s.rec[s.rec[a].next].prev = a /\ s.rec[a].hi < s.rec[a].next
    BY <1>1, <2>1 DEF Sound
  <2> QED
    BY <2>1, <2>2, RangeFields
<1>2. ASSUME s.rec[a].prev # NIL
      PROVE  /\ s.rec[a].prev \in Tracked(s) /\ s.rec[s.rec[a].prev].next = a
             /\ s.rec[s.rec[a].prev].hi < a /\ s.rec[a].prev # a
  <2>1. s.rec[a].prev \in Tracked(s)
    BY <1>2, RangeFields DEF Links
  <2>2. s.rec[s.rec[a].prev].next = a
    BY <2>1 DEF Sound
  <2>3. s.rec[s.rec[a].prev].hi < a
    BY <2>1, <2>2, RangeFields DEF Sound
  <2> QED
    BY <2>1, <2>2, <2>3, RangeFields
<1> QED
  BY <1>1, <1>2

(***************************************************************************)
(* next and prev are inverse to each other.                                *)
(***************************************************************************)
LEMMA Inverse ==
  ASSUME NEW s, Sound(s), NEW a \in Tracked(s), NEW b \in Tracked(s)
  PROVE  s.rec[a].next = b <=> s.rec[b].prev = a
BY DEF Sound

-----------------------------------------------------------------------------
(***************************************************************************)
(* remove_range (mdriver.c:811): the range leaves the list and its         *)
(* neighbours are linked to each other.                                    *)
(***************************************************************************)
LEMMA Remove ==
  ASSUME NEW s, Sound(s), NEW lo \in Tracked(s)
  PROVE  LET t == remove_range(s, lo)
         IN  /\ Sound(t)
             /\ Tracked(t) = Tracked(s) \ {lo}
             /\ \A a \in Tracked(t) : t.rec[a].hi = s.rec[a].hi
<1> DEFINE p == s.rec[lo]
           t == remove_range(s, lo)
<1>1. /\ t.list = IF p.prev = NIL THEN p.next ELSE s.list
      /\ t.rec = [a \in Tracked(s) \ {lo} |->
                    [hi |-> s.rec[a].hi,
                     next |-> IF a = p.prev THEN p.next ELSE s.rec[a].next,
                     prev |-> IF a = p.next THEN p.prev ELSE s.rec[a].prev]]
  BY DEF remove_range, Relink
<1>2. Tracked(t) = Tracked(s) \ {lo}
  BY <1>1 DEF Tracked
<1>3. ASSUME NEW a \in Tracked(t)
      PROVE  /\ a \in Tracked(s) /\ a # lo
             /\ t.rec[a] = [hi |-> s.rec[a].hi,
                            next |-> IF a = p.prev THEN p.next ELSE s.rec[a].next,
                            prev |-> IF a = p.next THEN p.prev ELSE s.rec[a].prev]
             /\ t.rec[a].hi = s.rec[a].hi
             /\ t.rec[a].next = IF a = p.prev THEN p.next ELSE s.rec[a].next
             /\ t.rec[a].prev = IF a = p.next THEN p.prev ELSE s.rec[a].prev
  BY <1>1, <1>2
<1> HIDE DEF t
<1>4. /\ p.next = NIL \/ p.next \in Tracked(t)
      /\ p.prev = NIL \/ p.prev \in Tracked(t)
  BY <1>2, Neighbours
<1>5. ASSUME NEW a \in Tracked(t)
      PROVE  t.rec[a].next \in Links(t) /\ t.rec[a].prev \in Links(t)
  <2>1. s.rec[a].next \in Links(s) /\ s.rec[a].prev \in Links(s)
    BY <1>3, RangeFields
  <2>2. a \in Tracked(s)
    BY <1>3
  <2>3. /\ s.rec[a].next = lo => a = p.prev
        /\ s.rec[a].prev = lo => a = p.next
    BY <2>2, Inverse
  <2> QED
    BY <1>2, <1>3, <1>4, <2>1, <2>3 DEF Links
<1>6. t.rec \in [Tracked(t) -> [hi : Addresses, next : Links(t), prev : Links(t)]]
  <2>1. \A a \in Tracked(t) :
          t.rec[a] \in [hi : Addresses, next : Links(t), prev : Links(t)]
    <3> TAKE a \in Tracked(t)
    <3>1. s.rec[a].hi \in Addresses
      BY <1>3, RangeFields
    <3>2. t.rec[a] = [hi |-> t.rec[a].hi, next |-> t.rec[a].next,
                      prev |-> t.rec[a].prev]
      BY <1>3
    <3>3. t.rec[a].hi \in Addresses
      BY <1>3, <3>1
    <3> QED
      BY <1>5, <3>2, <3>3
  <2>2. t.rec = [a \in Tracked(t) |-> t.rec[a]]
    BY <1>1, <1>2
  <2> QED
    BY <2>1, <2>2
<1>7. t.list \in Links(t) /\ (t.list # NIL => t.rec[t.list].prev = NIL)
  <2>1. CASE p.prev = NIL
    <3>1. t.list = p.next
      BY <1>1, <2>1
    <3> QED
      BY <1>3, <1>4, <2>1, <3>1 DEF Links
  <2>2. CASE p.prev # NIL
    <3>1. t.list = s.list
      BY <1>1, <2>2
    <3>2. s.list # NIL => s.list \in Tracked(s) /\ s.rec[s.list].prev = NIL
      BY DEF Sound, Links
    <3>3. lo # NIL /\ (p.next # NIL => s.rec[p.next].prev = lo)
      BY RangeFields, Neighbours
    <3>4. s.list # NIL => s.list # lo /\ s.list # p.next
      BY <2>2, <3>2, <3>3
    <3>5. s.list # NIL => s.list \in Tracked(t)
      BY <1>2, <3>2, <3>4
    <3>6. s.list # NIL => t.rec[s.list].prev = s.rec[s.list].prev
      BY <1>3, <3>4, <3>5
    <3> QED
      BY <3>1, <3>2, <3>5, <3>6 DEF Links
  <2> QED
    BY <2>1, <2>2
<1>8. ASSUME NEW a \in Tracked(t), NEW b \in Tracked(t)
      PROVE  t.rec[a].next = b <=> t.rec[b].prev = a
  <2>1. s.rec[a].next = b <=> s.rec[b].prev = a
    BY <1>3 DEF Sound
  <2>2. /\ a # NIL /\ b # NIL
    BY <1>3, RangeFields
  <2>3. a = p.prev => s.rec[a].next = lo
    BY <1>3, <2>2, Neighbours
  <2>4. b = p.next => s.rec[b].prev = lo
    BY <1>3, <2>2, Neighbours
  <2>5. t.rec[a].next = IF a = p.prev THEN p.next ELSE s.rec[a].next
    BY <1>3
  <2>6. t.rec[b].prev = IF b = p.next THEN p.prev ELSE s.rec[b].prev
    BY <1>3
  <2>7. a # lo /\ b # lo
    BY <1>3
  <2> QED
    BY <2>1, <2>3, <2>4, <2>5, <2>6, <2>7
<1>9. ASSUME NEW a \in Tracked(t), t.rec[a].next # NIL
      PROVE  t.rec[a].hi < t.rec[a].next
  <2>1. CASE a = p.prev
    <3>1. t.rec[a].next = p.next /\ t.rec[a].hi = s.rec[a].hi
      BY <1>3, <2>1
    <3>2. a # NIL
      BY <1>3, RangeFields
    <3>3. s.rec[a].hi < lo /\ lo <= p.hi /\ p.hi < p.next /\ p.next \in Tracked(s)
      BY <1>9, <2>1, <3>1, <3>2, Neighbours, RangeFields
    <3>4. s.rec[a].hi \in Nat /\ lo \in Nat /\ p.hi \in Nat /\ p.next \in Nat
      BY <1>3, <3>3, RangeFields
    <3> QED
      BY <3>1, <3>3, <3>4
  <2>2. CASE a # p.prev
    <3>1. t.rec[a].next = s.rec[a].next /\ t.rec[a].hi = s.rec[a].hi
      BY <1>3, <2>2
    <3>2. a \in Tracked(s) /\ s.rec[a].next # NIL
      BY <1>3, <1>9, <3>1
    <3>3. s.rec[a].hi < s.rec[a].next
      BY <3>2, Neighbours
    <3> QED
      BY <3>1, <3>3
  <2> QED
    BY <2>1, <2>2
<1>10. \A a \in Tracked(t) : a <= t.rec[a].hi
  BY <1>3, RangeFields
<1>11. Tracked(t) \subseteq Addresses
  BY <1>2 DEF Sound
<1>12. Sound(t)
  BY <1>6, <1>7, <1>8, <1>9, <1>10, <1>11 DEF Sound
<1> QED
  BY <1>2, <1>3, <1>12 DEF t

-----------------------------------------------------------------------------
(***************************************************************************)
(* What the checks of add_range (mdriver.c:741) establish: the predecessor *)
(* ends before the block, the successor starts after it, the two are       *)
(* linked to each other, and the address is not one of the set.            *)
(***************************************************************************)
LEMMA Accepted ==
  ASSUME NEW s, Sound(s), NEW lo \in Addresses, NEW size \in RangeSizes,
         debug_mode # "DBG_NONE", accepts(s, lo, size)
  PROVE  LET P == Predecessor(s, lo)
             N == Successor(s, P)
         IN  /\ lo \in Nat /\ lo # NIL /\ lo \notin Tracked(s)
             /\ lo + size - 1 \in Addresses /\ lo <= lo + size - 1
             /\ P = NIL => N = NIL
             /\ P # NIL => /\ P \in Tracked(s) /\ s.rec[P].next = N
                           /\ s.rec[P].hi < lo
             /\ N # NIL => /\ N \in Tracked(s) /\ s.rec[N].prev = P
                           /\ lo + size - 1 < N
<1> DEFINE P == Predecessor(s, lo)
           N == Successor(s, P)
<1>1. lo \in Nat /\ lo # NIL /\ size \in Nat /\ size # 0
  BY RangeAssumption DEF Addresses, NIL
<1>2. /\ lo + size - 1 \in Addresses
      /\ P # NIL => s.rec[P].hi < lo
      /\ N # NIL => lo + size - 1 < N
  BY DEF accepts, InHeap
<1>3. Tracked(s) \subseteq Addresses
  BY DEF Sound
<1>4. P # NIL => P \in Tracked(s)
  BY <1>3, Nearest
<1>5. P = NIL => N = NIL
  BY DEF Successor
<1>6. P # NIL => s.rec[P].next = N
  BY DEF Successor
<1>7. N # NIL => N \in Tracked(s) /\ s.rec[N].prev = P
  <2> HIDE DEF P, N
  <2> QED
    BY <1>4, <1>5, <1>6, Neighbours
<1>8. lo \notin Tracked(s)
  <2>1. SUFFICES ASSUME lo \in Tracked(s)
                 PROVE  FALSE
    OBVIOUS
  <2>2. P \in Tracked(s) /\ P <= lo /\ lo <= P
    BY <1>1, <1>3, <2>1, Nearest
  <2>3. P = lo
    BY <1>1, <1>3, <2>2 DEF Addresses
  <2>4. lo <= s.rec[lo].hi /\ s.rec[lo].hi \in Nat
    BY <2>1, RangeFields
  <2>5. s.rec[lo].hi < lo
    BY <1>1, <1>2, <2>3
  <2> QED
    BY <1>1, <2>4, <2>5
<1> QED
  BY <1>1, <1>2, <1>4, <1>5, <1>6, <1>7, <1>8

(***************************************************************************)
(* The rest of add_range (mdriver.c:786): the new range takes its place    *)
(* between the two.                                                        *)
(***************************************************************************)
LEMMA Add ==
  ASSUME NEW s, Sound(s), NEW lo \in Addresses, NEW size \in RangeSizes,
         debug_mode # "DBG_NONE", accepts(s, lo, size)
  PROVE  LET t == add_range(s, lo, size)
         IN  /\ Sound(t)
             /\ lo \notin Tracked(s) /\ Tracked(t) = Tracked(s) \cup {lo}
             /\ t.rec[lo].hi = lo + size - 1
             /\ \A a \in Tracked(s) : t.rec[a].hi = s.rec[a].hi
<1> DEFINE P == Predecessor(s, lo)
           N == Successor(s, P)
           t == add_range(s, lo, size)
<1>1. /\ lo \in Nat /\ lo # NIL /\ lo \notin Tracked(s)
      /\ lo + size - 1 \in Addresses /\ lo <= lo + size - 1
      /\ P = NIL => N = NIL
      /\ P # NIL => P \in Tracked(s) /\ s.rec[P].next = N /\ s.rec[P].hi < lo
      /\ N # NIL => N \in Tracked(s) /\ s.rec[N].prev = P /\ lo + size - 1 < N
  BY Accepted
<1>2. /\ t.list = IF P = NIL THEN lo ELSE s.list
      /\ t.rec = [a \in Tracked(s) \cup {lo} |->
                    IF a = lo
                    THEN [hi |-> lo + size - 1, next |-> N, prev |-> P]
                    ELSE Relink(s, P, lo, N, lo)[a]]
  BY DEF add_range
<1>3. Tracked(t) = Tracked(s) \cup {lo}
  BY <1>2 DEF Tracked
<1>4. /\ t.rec[lo] = [hi |-> lo + size - 1, next |-> N, prev |-> P]
      /\ t.rec[lo].hi = lo + size - 1 /\ t.rec[lo].next = N /\ t.rec[lo].prev = P
  BY <1>2
<1> HIDE DEF P, N
<1>5. ASSUME NEW a \in Tracked(s)
      PROVE  /\ a # lo
             /\ t.rec[a] = [hi |-> s.rec[a].hi,
                            next |-> IF a = P THEN lo ELSE s.rec[a].next,
                            prev |-> IF a = N THEN lo ELSE s.rec[a].prev]
             /\ t.rec[a].hi = s.rec[a].hi
             /\ t.rec[a].next = IF a = P THEN lo ELSE s.rec[a].next
             /\ t.rec[a].prev = IF a = N THEN lo ELSE s.rec[a].prev
  <2>1. a # lo
    BY <1>1
  <2>2. t.rec[a] = Relink(s, P, lo, N, lo)[a]
    BY <1>2, <2>1
  <2>3. t.rec[a] = [hi |-> s.rec[a].hi,
                    next |-> IF a = P THEN lo ELSE s.rec[a].next,
                    prev |-> IF a = N THEN lo ELSE s.rec[a].prev]
    BY <2>2 DEF Relink
  <2> QED
    BY <2>1, <2>3
<1> HIDE DEF t
<1>6. Tracked(t) \subseteq Addresses
  BY <1>3 DEF Sound
<1>7. ASSUME NEW a \in Tracked(t)
      PROVE  /\ t.rec[a].hi \in Addresses /\ a <= t.rec[a].hi
             /\ t.rec[a].next \in Links(t) /\ t.rec[a].prev \in Links(t)
             /\ t.rec[a] = [hi |-> t.rec[a].hi, next |-> t.rec[a].next,
                            prev |-> t.rec[a].prev]
  <2>1. CASE a = lo
    BY <1>1, <1>3, <1>4, <2>1 DEF Links
  <2>2. CASE a # lo
    <3>1. a \in Tracked(s)
      BY <1>3, <2>2
    <3>2. /\ s.rec[a].hi \in Addresses /\ a <= s.rec[a].hi
          /\ s.rec[a].next \in Links(s) /\ s.rec[a].prev \in Links(s)
      BY <3>1, RangeFields
    <3>3. Links(s) \subseteq Links(t) /\ lo \in Links(t)
      BY <1>3 DEF Links
    <3> QED
      BY <1>5, <3>1, <3>2, <3>3
  <2> QED
    BY <2>1, <2>2
<1>8. t.rec \in [Tracked(t) -> [hi : Addresses, next : Links(t), prev : Links(t)]]
  <2>1. \A a \in Tracked(t) :
          t.rec[a] \in [hi : Addresses, next : Links(t), prev : Links(t)]
    <3> TAKE a \in Tracked(t)
    <3>1. /\ t.rec[a].hi \in Addresses
          /\ t.rec[a].next \in Links(t) /\ t.rec[a].prev \in Links(t)
      BY <1>7
    <3>2. t.rec[a] = [hi |-> t.rec[a].hi, next |-> t.rec[a].next,
                      prev |-> t.rec[a].prev]
      BY <1>7
    <3> QED
      BY <3>1, <3>2
  <2>2. t.rec = [a \in Tracked(t) |-> t.rec[a]]
    BY <1>2, <1>3
  <2> QED
    BY <2>1, <2>2
<1>9. t.list \in Links(t) /\ (t.list # NIL => t.rec[t.list].prev = NIL)
  <2>1. CASE P = NIL
    BY <1>2, <1>3, <1>4, <2>1 DEF Links
  <2>2. CASE P # NIL
    <3>1. t.list = s.list
      BY <1>2, <2>2
    <3>2. s.list # NIL => s.list \in Tracked(s) /\ s.rec[s.list].prev = NIL
      BY DEF Sound, Links
    <3>3. s.list # NIL => s.list # N
      BY <1>1, <2>2, <3>2
    <3> QED
      BY <1>3, <1>5, <3>1, <3>2, <3>3 DEF Links
  <2> QED
    BY <2>1, <2>2
<1>10. ASSUME NEW a \in Tracked(t), NEW b \in Tracked(t)
       PROVE  t.rec[a].next = b <=> t.rec[b].prev = a
  <2>1. CASE a = lo /\ b = lo
    BY <1>1, <1>4, <2>1
  <2>2. CASE a = lo /\ b # lo
    <3>1. b \in Tracked(s) /\ b # NIL
      BY <1>3, <2>2, RangeFields
    <3>2. t.rec[a].next = N
      BY <1>4, <2>2
    <3>3. t.rec[b].prev = IF b = N THEN lo ELSE s.rec[b].prev
      BY <1>5, <3>1
    <3>4. s.rec[b].prev # lo
      BY <1>1, <3>1, RangeFields DEF Links
    <3> QED
      BY <2>2, <3>2, <3>3, <3>4
  <2>3. CASE a # lo /\ b = lo
    <3>1. a \in Tracked(s) /\ a # NIL
      BY <1>3, <2>3, RangeFields
    <3>2. t.rec[b].prev = P
      BY <1>4, <2>3
    <3>3. t.rec[a].next = IF a = P THEN lo ELSE s.rec[a].next
      BY <1>5, <3>1
    <3>4. s.rec[a].next # lo
      BY <1>1, <3>1, RangeFields DEF Links
    <3> QED
      BY <2>3, <3>2, <3>3, <3>4
  <2>4. CASE a # lo /\ b # lo
    <3>1. a \in Tracked(s) /\ b \in Tracked(s) /\ a # NIL /\ b # NIL
      BY <1>3, <2>4, RangeFields
    <3>2. s.rec[a].next = b <=> s.rec[b].prev = a
      BY <3>1 DEF Sound
    <3>3. t.rec[a].next = IF a = P THEN lo ELSE s.rec[a].next
      BY <1>5, <3>1
    <3>4. t.rec[b].prev = IF b = N THEN lo ELSE s.rec[b].prev
      BY <1>5, <3>1
    <3>5. a = P => s.rec[a].next = N
      BY <1>1, <3>1
    <3>6. b = N => s.rec[b].prev = P
      BY <1>1, <3>1
    <3> QED
      BY <2>4, <3>2, <3>3, <3>4, <3>5, <3>6
  <2> QED
    BY <2>1, <2>2, <2>3, <2>4
<1>11. ASSUME NEW a \in Tracked(t), t.rec[a].next # NIL
       PROVE  t.rec[a].hi < t.rec[a].next
  <2>1. CASE a = lo
    BY <1>1, <1>4, <1>11, <2>1
  <2>2. CASE a # lo
    <3>1. a \in Tracked(s)
      BY <1>3, <2>2
    <3>2. CASE a = P
      BY <1>1, <1>5, <3>1, <3>2, RangeFields
    <3>3. CASE a # P
      <4>1. t.rec[a].next = s.rec[a].next /\ t.rec[a].hi = s.rec[a].hi
        BY <1>5, <3>1, <3>3
      <4>2. s.rec[a].hi < s.rec[a].next
        BY <1>11, <3>1, <4>1, Neighbours
      <4> QED
        BY <4>1, <4>2
    <3> QED
      BY <3>2, <3>3
  <2> QED
    BY <2>1, <2>2
<1>12. Sound(t)
  BY <1>6, <1>7, <1>8, <1>9, <1>10, <1>11 DEF Sound
<1> QED
  BY <1>1, <1>3, <1>4, <1>5, <1>12 DEF t

-----------------------------------------------------------------------------
(***************************************************************************)
(* Freeing a block takes its range out of the set and nothing else.        *)
(***************************************************************************)
LEMMA RemoveFollows ==
  ASSUME NEW s, NEW B, B \subseteq [lo : Addresses, size : RangeSizes],
         Sound(s), Follows(s, B), NEW b \in B
  PROVE  LET t == remove_range(s, b.lo)
         IN  Sound(t) /\ Follows(t, B \ {b})
<1> DEFINE t == remove_range(s, b.lo)
<1>1. b.lo \in Tracked(s)
  BY DEF Follows
<1>2. /\ Sound(t) /\ Tracked(t) = Tracked(s) \ {b.lo}
      /\ \A a \in Tracked(t) : t.rec[a].hi = s.rec[a].hi
  BY <1>1, Remove
<1> HIDE DEF t
<1>3. \A a \in Tracked(t) : Block(a, t.rec[a].hi - a + 1) \in B \ {b}
  <2> TAKE a \in Tracked(t)
  <2>1. Block(a, t.rec[a].hi - a + 1) \in B
    BY <1>2 DEF Follows
  <2>2. Block(a, t.rec[a].hi - a + 1).lo = a /\ a # b.lo
    BY <1>2 DEF Block
  <2> QED
    BY <2>1, <2>2
<1>4. ASSUME NEW c \in B \ {b}
      PROVE  c.lo \in Tracked(t) /\ c.size = t.rec[c.lo].hi - c.lo + 1
  <2>1. c.lo \in Tracked(s) /\ c.size = s.rec[c.lo].hi - c.lo + 1
    BY DEF Follows
  <2>2. b.size = s.rec[b.lo].hi - b.lo + 1
    BY DEF Follows
  <2>3. c.lo = b.lo => c = b
    <3>1. c = [lo |-> c.lo, size |-> c.size] /\ b = [lo |-> b.lo, size |-> b.size]
      OBVIOUS
    <3> QED
      BY <2>1, <2>2, <3>1
  <2> QED
    BY <1>2, <2>1, <2>3
<1> QED
  BY <1>2, <1>3, <1>4 DEF Follows, t

(***************************************************************************)
(* A block that passes add_range is the one more that the set follows.     *)
(***************************************************************************)
LEMMA AddFollows ==
  ASSUME NEW s, NEW B, B \subseteq [lo : Addresses, size : RangeSizes],
         Sound(s), Follows(s, B), NEW lo \in Addresses, NEW size \in RangeSizes,
         debug_mode # "DBG_NONE", accepts(s, lo, size)
  PROVE  LET t == add_range(s, lo, size)
         IN  Sound(t) /\ Follows(t, B \cup {Block(lo, size)})
<1> DEFINE t == add_range(s, lo, size)
<1>1. /\ Sound(t) /\ lo \notin Tracked(s) /\ Tracked(t) = Tracked(s) \cup {lo}
      /\ t.rec[lo].hi = lo + size - 1
      /\ \A a \in Tracked(s) : t.rec[a].hi = s.rec[a].hi
  BY Add
<1> HIDE DEF t
<1>2. lo \in Nat /\ size \in Nat
  BY RangeAssumption DEF Addresses
<1>3. \A a \in Tracked(t) : Block(a, t.rec[a].hi - a + 1) \in B \cup {Block(lo, size)}
  <2> TAKE a \in Tracked(t)
  <2>1. CASE a = lo
    <3>1. t.rec[a].hi - a + 1 = size
      BY <1>1, <1>2, <2>1
    <3> QED
      BY <2>1, <3>1
  <2>2. CASE a # lo
    BY <1>1, <2>2 DEF Follows
  <2> QED
    BY <2>1, <2>2
<1>4. ASSUME NEW c \in B \cup {Block(lo, size)}
      PROVE  c.lo \in Tracked(t) /\ c.size = t.rec[c.lo].hi - c.lo + 1
  <2>1. CASE c = Block(lo, size)
    <3>1. c.lo = lo /\ c.size = size
      BY <2>1 DEF Block
    <3> QED
      BY <1>1, <1>2, <3>1
  <2>2. CASE c \in B
    BY <1>1, <2>2 DEF Follows
  <2> QED
    BY <2>1, <2>2
<1> QED
  BY <1>1, <1>3, <1>4 DEF Follows, t

-----------------------------------------------------------------------------
(***************************************************************************)
(* The empty range set is sound.                                           *)
(***************************************************************************)
LEMMA InitInv == Init => Inv
BY EmptySet DEF Init, Inv

(***************************************************************************)
(* A rejected payload and the end of a trace delete the range set and give *)
(* all blocks up.                                                          *)
(***************************************************************************)
LEMMA GiveUpInv ==
  ASSUME GiveUp, UNCHANGED debug_mode
  PROVE  Inv'
BY EmptySet DEF GiveUp, Inv, Sound, Follows

(***************************************************************************)
(* Without debugging the range set stays empty.                            *)
(***************************************************************************)
LEMMA NotFollowed ==
  /\ debug_mode = "DBG_NONE" =>
       \A s, lo, size : add_range(s, lo, size) = s
  /\ \A lo : remove_range(new_range_set, lo) = new_range_set
<1>1. Tracked(new_range_set) = {}
  BY DEF new_range_set, Tracked
<1> QED
  BY <1>1 DEF add_range, remove_range

(***************************************************************************)
(* The record of a block.                                                  *)
(***************************************************************************)
LEMMA BlockType ==
  ASSUME NEW lo \in Addresses, NEW size \in RangeSizes
  PROVE  Block(lo, size) \in [lo : Addresses, size : RangeSizes]
BY DEF Block

(***************************************************************************)
(* A new block: rejected, or added to the range set and to the blocks.     *)
(***************************************************************************)
LEMMA AllocInv ==
  ASSUME Inv, NEW lo \in Addresses, NEW size \in RangeSizes, Alloc(lo, size)
  PROVE  Inv'
<1>1. debug_mode' = debug_mode
  BY DEF Alloc
<1>2. CASE ~ accepts(ranges, lo, size)
  BY <1>1, <1>2, GiveUpInv DEF Alloc
<1>3. CASE accepts(ranges, lo, size)
  <2>1. /\ ranges' = add_range(ranges, lo, size)
        /\ blocks' = blocks \cup {Block(lo, size)}
    BY <1>3 DEF Alloc
  <2>2. blocks' \subseteq [lo : Addresses, size : RangeSizes]
    BY <2>1, BlockType DEF Inv
  <2>3. CASE debug_mode = "DBG_NONE"
    BY <1>1, <2>1, <2>2, <2>3, NotFollowed DEF Inv
  <2>4. CASE debug_mode # "DBG_NONE"
    <3>1. Sound(ranges') /\ Follows(ranges', blocks')
      BY <1>3, <2>1, <2>4, AddFollows DEF Inv
    <3> QED
      BY <1>1, <2>2, <2>4, <3>1 DEF Inv, Sound, Follows
  <2> QED
    BY <2>3, <2>4
<1> QED
  BY <1>2, <1>3

(***************************************************************************)
(* The range of a freed block leaves the set, and no other.                *)
(***************************************************************************)
LEMMA FreeInv ==
  ASSUME Inv, NEW b \in blocks, Free(b)
  PROVE  Inv'
<1>1. /\ debug_mode' = debug_mode
      /\ ranges' = remove_range(ranges, b.lo)
      /\ blocks' = blocks \ {b}
  BY DEF Free
<1>2. CASE debug_mode = "DBG_NONE"
  BY <1>1, <1>2, NotFollowed DEF Inv
<1>3. CASE debug_mode # "DBG_NONE"
  <2>1. Sound(ranges') /\ Follows(ranges', blocks')
    BY <1>1, <1>3, RemoveFollows DEF Inv
  <2> QED
    BY <1>1, <1>3, <2>1 DEF Inv
<1> QED
  BY <1>2, <1>3

(***************************************************************************)
(* A resized block: its old range leaves the set before the new one is     *)
(* checked.                                                                *)
(***************************************************************************)
LEMMA ReallocInv ==
  ASSUME Inv, NEW b \in blocks, NEW lo \in Addresses, NEW size \in RangeSizes,
         Realloc(b, lo, size)
  PROVE  Inv'
<1> DEFINE s == remove_range(ranges, b.lo)
<1>1. debug_mode' = debug_mode
  BY DEF Realloc
<1>2. CASE ~ accepts(s, lo, size)
  BY <1>1, <1>2, GiveUpInv DEF Realloc
<1>3. CASE accepts(s, lo, size)
  <2>1. /\ ranges' = add_range(s, lo, size)
        /\ blocks' = (blocks \ {b}) \cup {Block(lo, size)}
    BY <1>3 DEF Realloc
  <2>2. blocks' \subseteq [lo : Addresses, size : RangeSizes]
    BY <2>1, BlockType DEF Inv
  <2>3. CASE debug_mode = "DBG_NONE"
    BY <1>1, <2>1, <2>2, <2>3, NotFollowed DEF Inv
  <2>4. CASE debug_mode # "DBG_NONE"
    <3>1. Sound(s) /\ Follows(s, blocks \ {b})
      BY <2>4, RemoveFollows DEF Inv
    <3>2. blocks \ {b} \subseteq [lo : Addresses, size : RangeSizes]
      BY DEF Inv
    <3> HIDE DEF s
    <3>3. Sound(ranges') /\ Follows(ranges', blocks')
      BY <1>3, <2>1, <2>4, <3>1, <3>2, AddFollows
    <3> QED
      BY <1>1, <2>2, <2>4, <3>3 DEF Inv
  <2> QED
    BY <2>3, <2>4
<1> QED
  BY <1>2, <1>3

(***************************************************************************)
(* Every step keeps the invariant.                                         *)
(***************************************************************************)
LEMMA NextInv == Inv /\ [Next]_vars => Inv'
<1> SUFFICES ASSUME Inv, [Next]_vars
             PROVE  Inv'
  OBVIOUS
<1>1. CASE \E lo \in Addresses, size \in RangeSizes : Alloc(lo, size)
  BY <1>1, AllocInv
<1>2. CASE \E b \in blocks, lo \in Addresses, size \in RangeSizes : Realloc(b, lo, size)
  BY <1>2, ReallocInv
<1>3. CASE \E b \in blocks : Free(b)
  BY <1>3, FreeInv
<1>4. CASE EndOfTrace
  BY <1>4, GiveUpInv DEF EndOfTrace
<1>5. CASE UNCHANGED vars
  BY <1>5 DEF Inv, vars
<1> QED
  BY <1>1, <1>2, <1>3, <1>4, <1>5 DEF Next

(***************************************************************************)
(* Inv is an invariant of the range set.                                   *)
(***************************************************************************)
THEOREM Invariance == Spec => []Inv
BY InitInv, NextInv, PTL DEF Spec

(***************************************************************************)
(* Sound holds of the range set in every debug mode.                       *)
(***************************************************************************)
LEMMA AlwaysSound == Inv => Sound(ranges)
BY EmptySet DEF Inv

(***************************************************************************)
(* The range set keeps its types: no link leads to a range that is freed.  *)
(***************************************************************************)
THEOREM TypeCorrect == Spec => []TypeOK
<1>1. Inv => TypeOK
  BY AlwaysSound DEF Inv, TypeOK, Sound, Links
<1> QED
  BY <1>1, Invariance, PTL

(***************************************************************************)
(* next and prev are inverse to each other and lead upwards, and nothing   *)
(* is before the head, after any sequence of requests (mdriver.c:786-824). *)
(***************************************************************************)
THEOREM ListSound == Spec => []LinksSound
<1>1. Inv => LinksSound
  BY AlwaysSound DEF LinksSound, Sound
<1> QED
  BY <1>1, Invariance, PTL

(***************************************************************************)
(* The range set follows the blocks of the trace exactly.                  *)
(***************************************************************************)
THEOREM BlocksFollowed == Spec => []TrackedAreBlocks
<1>1. Inv => TrackedAreBlocks
  BY DEF Inv, TrackedAreBlocks, Follows
<1> QED
  BY <1>1, Invariance, PTL

(***************************************************************************)
(* add_range raises no false alarm (mdriver.c:741): with a range set that  *)
(* follows the blocks, the predecessor and the successor are blocks of the *)
(* trace, and one that is apart from both passes.                          *)
(***************************************************************************)
THEOREM AlarmsJustified == Spec => []NoFalseAlarm
<1>1. ASSUME Inv, NEW lo \in Addresses, NEW size \in RangeSizes,
             IS_ALIGNED(lo), lo + size <= HeapSize,
             \A b \in blocks : lo + size <= b.lo \/ b.lo + b.size <= lo
      PROVE  accepts(ranges, lo, size)
  <2> DEFINE P == Predecessor(ranges, lo)
             N == Successor(ranges, P)
  <2>1. lo \in Nat /\ size \in Nat \ {0} /\ HeapSize \in Nat
    BY RangeAssumption DEF Addresses
  <2>2. InHeap(lo) /\ InHeap(lo + size - 1)
    BY <1>1, <2>1 DEF InHeap, Addresses
  <2>3. ASSUME debug_mode # "DBG_NONE"
        PROVE  /\ P # NIL => lo > ranges.rec[P].hi
               /\ N # NIL => lo + size - 1 < N
    <3>1. Sound(ranges) /\ Follows(ranges, blocks)
      BY <1>1, <2>3 DEF Inv
    <3>2. ASSUME NEW a \in Tracked(ranges)
          PROVE  /\ a \in Nat /\ ranges.rec[a].hi \in Nat
                 /\ a <= ranges.rec[a].hi
                 /\ lo + size <= a \/ ranges.rec[a].hi + 1 <= lo
      <4>1. a \in Nat /\ ranges.rec[a].hi \in Nat /\ a <= ranges.rec[a].hi
        BY <3>1, RangeFields
      <4>2. Block(a, ranges.rec[a].hi - a + 1) \in blocks
        BY <3>1 DEF Follows
      <4>3. lo + size <= a \/ a + (ranges.rec[a].hi - a + 1) <= lo
        BY <1>1, <4>2 DEF Block
      <4> QED
        BY <2>1, <4>1, <4>3
    <3>3. P # NIL => P \in Tracked(ranges) /\ P <= lo
                     /\ \A k \in Tracked(ranges) : k <= lo => k <= P
      BY <3>1, Nearest DEF Sound
    <3>4. P # NIL => lo > ranges.rec[P].hi
      <4> HIDE DEF P
      <4> QED
        BY <2>1, <3>2, <3>3
    <3>5. N # NIL => P # NIL /\ N = ranges.rec[P].next
      BY DEF Successor
    <3>6. ASSUME N # NIL
          PROVE  lo + size - 1 < N
      <4> HIDE DEF P, N
      <4>1. N \in Tracked(ranges) /\ ranges.rec[P].hi < N
        BY <3>1, <3>3, <3>5, <3>6, Neighbours
      <4>2. P < N
        BY <3>2, <3>3, <3>5, <3>6, <4>1
      <4>3. lo < N
        BY <2>1, <3>2, <3>3, <3>5, <3>6, <4>1, <4>2
      <4> QED
        BY <2>1, <3>2, <4>1, <4>3
    <3> QED
      BY <3>4, <3>6
  <2> QED
    BY <1>1, <2>2, <2>3 DEF accepts
<1>2. Inv => NoFalseAlarm
  BY <1>1 DEF NoFalseAlarm
<1> QED
  BY <1>2, Invariance, PTL
=============================================================================
