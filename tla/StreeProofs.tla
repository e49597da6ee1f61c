---------------------------- MODULE StreeProofs ----------------------------
(***************************************************************************)
(* The proofs about the splay tree: Stree is type correct, its links are   *)
(* sound, tree_find_nearest is the predecessor, and the tree implements    *)
(* OrderedMap, for every finite set of keys.                               *)
(*                                                                         *)
(* The invariant gives every node an interval of keys, and relates each    *)
(* node to its parent and children only: a child has the half of its       *)
(* parent's interval on its side. A rotation moves two nodes, so it        *)
(* disturbs a handful of these local conditions, whereas order and         *)
(* connectedness speak of whole subtrees. They follow from the intervals,  *)
(* because two intervals that meet are nested (Nested): a node that could  *)
(* lie only where a link is NIL does not exist (Vacant).                   *)
(*                                                                         *)
(* The loops of the code are recursive functions in the model. Their       *)
(* measure is the width of the interval of the node they are at, which is  *)
(* smaller for a child than for its parent: LoopExists and LoopEnds turn   *)
(* that into the result of the loop.                                       *)
(***************************************************************************)
EXTENDS Stree, FiniteSetTheorems, NatFacts

-----------------------------------------------------------------------------
(***************************************************************************)
(* Finitely many keys have a bound above them, which serves as the upper   *)
(* end of the root's interval.                                             *)
(***************************************************************************)
LEMMA KeysBounded ==
  \E B \in Nat : 0 < B /\ \A k \in Keys : k < B
<1> DEFINE n == Cardinality(Keys)
<1>1. n \in Nat /\ ExistsBijection(1 .. n, Keys)
  BY KeysAssumption, FS_CardinalityType
<1>2. PICK q \in [1 .. n -> Keys] : \A k \in Keys : \E i \in 1 .. n : q[i] = k
  <2> HIDE DEF n
  <2> QED
    BY <1>1 DEF ExistsBijection, Bijection, Surjection, Injection
<1> HIDE DEF n
<1> DEFINE T == {j \in 0 .. n : \E B \in Nat : 0 < B /\ \A i \in 1 .. j : q[i] < B}
<1>3. 0 \in T
  <2>1. 0 \in 0 .. n /\ 1 \in Nat /\ 0 < 1 /\ 1 .. 0 = {}
    BY <1>1
  <2> QED
    BY <2>1
<1>4. ASSUME NEW j \in 0 .. n - 1, j \in T
      PROVE  j + 1 \in T
  <2>1. PICK B \in Nat : 0 < B /\ \A i \in 1 .. j : q[i] < B
    BY <1>4
  <2>2. j + 1 \in 1 .. n /\ j + 1 \in 0 .. n /\ j \in Nat
    BY <1>1
  <2>3. q[j + 1] \in Nat
    BY <2>2, KeysAssumption
  <2> DEFINE C == B + q[j + 1] + 1
  <2>4. C \in Nat /\ 0 < C /\ B < C /\ q[j + 1] < C
    BY <2>1, <2>3
  <2>5. ASSUME NEW i \in 1 .. j + 1
        PROVE  q[i] < C
    <3>1. CASE i = j + 1
      BY <2>4, <3>1
    <3>2. CASE i # j + 1
      <4>1. i \in 1 .. j /\ i \in 1 .. n
        BY <1>1, <2>2, <3>2
      <4>2. q[i] < B /\ q[i] \in Nat
        BY <4>1, <2>1, KeysAssumption
      <4> QED
        BY <4>2, <2>4
    <3> QED
      BY <3>1, <3>2
  <2> HIDE DEF C
  <2> QED
    BY <2>2, <2>4, <2>5
<1>5. n \in T
  <2> HIDE DEF T
  <2>1. 0 .. n \subseteq T
    BY <1>1, <1>3, <1>4, UpToBound
  <2> QED
    BY <1>1, <2>1
<1> QED
  BY <1>2, <1>5

-----------------------------------------------------------------------------
(***************************************************************************)
(* Node x of a sound tree: its key lies inside its interval; a child       *)
(* points back at x and gets the part of the interval on its side of x;    *)
(* and a node other than the root is a child of its parent.                *)
(***************************************************************************)
NodeSound(t, lo, hi, x) ==
  /\ lo[x] < x /\ x < hi[x]
  /\ t.left[x] # NIL =>
       /\ t.left[x] \in t.nodes /\ t.parent[t.left[x]] = x
       /\ lo[t.left[x]] = lo[x] /\ hi[t.left[x]] = x
  /\ t.right[x] # NIL =>
       /\ t.right[x] \in t.nodes /\ t.parent[t.right[x]] = x
       /\ lo[t.right[x]] = x /\ hi[t.right[x]] = hi[x]
  /\ x # t.root =>
       t.parent[x] \in t.nodes /\ x \in {t.left[t.parent[x]], t.right[t.parent[x]]}

(***************************************************************************)
(* The tree t with an interval lo[x] .. hi[x], ends excluded, for every    *)
(* node x. The root's is 0 .. B; links of keys that have no node are NIL.  *)
(* Only neighbours are related: that the tree is ordered, connected and    *)
(* without cycles follows.                                                 *)
(***************************************************************************)
Sound(t, lo, hi, B) ==
  /\ t \in Trees
  /\ lo \in [Keys -> 0 .. B] /\ hi \in [Keys -> 0 .. B]
  /\ t.root = NIL => t.nodes = {}
  /\ t.root # NIL =>
       /\ t.root \in t.nodes /\ t.parent[t.root] = NIL
       /\ lo[t.root] = 0 /\ hi[t.root] = B
  /\ \A x \in t.nodes : NodeSound(t, lo, hi, x)
  /\ \A x \in Keys \ t.nodes : t.left[x] = NIL /\ t.right[x] = NIL /\ t.parent[x] = NIL

(***************************************************************************)
(* What Sound says of one node, with the types that the arithmetic on its  *)
(* interval needs.                                                         *)
(***************************************************************************)
LEMMA SoundNode ==
  ASSUME NEW B \in Nat, NEW lo, NEW hi, NEW t, Sound(t, lo, hi, B), NEW x \in t.nodes
  PROVE  /\ x \in Keys /\ x \in Nat /\ x # NIL /\ t.root # NIL
         /\ lo[x] \in Nat /\ hi[x] \in Nat /\ hi[x] <= B /\ lo[x] < x /\ x < hi[x]
         /\ t.left[x] \in Ptr /\ t.right[x] \in Ptr /\ t.parent[x] \in Ptr
         /\ t.left[x] # NIL =>
              /\ t.left[x] \in t.nodes /\ t.parent[t.left[x]] = x
              /\ lo[t.left[x]] = lo[x] /\ hi[t.left[x]] = x
         /\ t.right[x] # NIL =>
              /\ t.right[x] \in t.nodes /\ t.parent[t.right[x]] = x
              /\ lo[t.right[x]] = x /\ hi[t.right[x]] = hi[x]
         /\ x # t.root =>
              /\ t.parent[x] \in t.nodes /\ t.parent[x] # NIL
              /\ x \in {t.left[t.parent[x]], t.right[t.parent[x]]}
         /\ x = t.root => t.parent[x] = NIL /\ lo[x] = 0 /\ hi[x] = B
<1>1. t \in Trees /\ lo \in [Keys -> 0 .. B] /\ hi \in [Keys -> 0 .. B]
  BY DEF Sound
<1>2. t.nodes \subseteq Keys /\ t.left \in [Keys -> Ptr] /\ t.right \in [Keys -> Ptr]
        /\ t.parent \in [Keys -> Ptr]
  BY <1>1 DEF Trees
<1>3. x \in Keys /\ x \in Nat /\ x # NIL
  BY <1>2, KeysAssumption DEF NIL
<1>4. NodeSound(t, lo, hi, x)
  BY DEF Sound
<1>5. t.root # NIL
  BY DEF Sound
<1>6. lo[x] \in Nat /\ hi[x] \in Nat /\ hi[x] <= B
  BY <1>1, <1>3
<1>7. t.left[x] \in Ptr /\ t.right[x] \in Ptr /\ t.parent[x] \in Ptr
  BY <1>2, <1>3
<1>8. x = t.root => t.parent[x] = NIL /\ lo[x] = 0 /\ hi[x] = B
  BY <1>5 DEF Sound
<1>9. t.parent[x] \in t.nodes => t.parent[x] # NIL
  BY <1>2, KeysAssumption DEF NIL
<1> QED
  BY <1>3, <1>4, <1>5, <1>6, <1>7, <1>8, <1>9 DEF NodeSound

(***************************************************************************)
(* A node other than the root is the left or the right child of its        *)
(* parent, and has the matching half of the parent's interval.             *)
(***************************************************************************)
LEMMA Below ==
  ASSUME NEW B \in Nat, NEW lo, NEW hi, NEW t, Sound(t, lo, hi, B), NEW x \in t.nodes,
         x # t.root, NEW p, p = t.parent[x]
  PROVE  /\ p \in t.nodes /\ p \in Nat
         /\ \/ x = t.left[p] /\ lo[x] = lo[p] /\ hi[x] = p
            \/ x = t.right[p] /\ lo[x] = p /\ hi[x] = hi[p]
         /\ lo[p] < p /\ p < hi[p] /\ lo[p] \in Nat /\ hi[p] \in Nat
<1>1. p \in t.nodes /\ p # NIL /\ x \in {t.left[p], t.right[p]} /\ x # NIL
  BY SoundNode
<1>2. /\ p \in Nat /\ lo[p] < p /\ p < hi[p] /\ lo[p] \in Nat /\ hi[p] \in Nat
      /\ t.left[p] # NIL => lo[t.left[p]] = lo[p] /\ hi[t.left[p]] = p
      /\ t.right[p] # NIL => lo[t.right[p]] = p /\ hi[t.right[p]] = hi[p]
  BY <1>1, SoundNode
<1> QED
  BY <1>1, <1>2

(***************************************************************************)
(* The width of a node's interval. It shrinks from parent to child, and is *)
(* the measure of every loop of stree.c: down for the searches, up for     *)
(* splay.                                                                  *)
(***************************************************************************)
Wide(lo, hi, x) == hi[x] - lo[x]

(***************************************************************************)
(* The interval of v lies in one of the two halves into which the key of u *)
(* divides the interval of u.                                              *)
(***************************************************************************)
Inside(lo, hi, v, u) ==
  (lo[u] <= lo[v] /\ hi[v] <= u) \/ (u <= lo[v] /\ hi[v] <= hi[u])

(***************************************************************************)
(* Two nodes whose intervals meet are one above the other: the narrower    *)
(* interval lies in a half of the wider one. Of the exceptions take one    *)
(* whose narrower interval is widest: the parents have wider ones and are  *)
(* no exception, and their nesting gives that of the children.             *)
(***************************************************************************)
LEMMA Nested ==
  ASSUME NEW B \in Nat, NEW lo, NEW hi, NEW t, Sound(t, lo, hi, B),
         NEW u0 \in t.nodes, NEW v0 \in t.nodes, u0 # v0,
         Wide(lo, hi, v0) <= Wide(lo, hi, u0), lo[u0] < hi[v0], lo[v0] < hi[u0]
  PROVE  Inside(lo, hi, v0, u0)
<1> DEFINE W(x) == Wide(lo, hi, x)
           Bad(u, v) == /\ u # v /\ W(v) <= W(u) /\ lo[u] < hi[v] /\ lo[v] < hi[u]
                        /\ ~ Inside(lo, hi, v, u)
           T == {k \in 0 .. B : \E u \in t.nodes, v \in t.nodes : Bad(u, v) /\ k = W(v)}
<1>1. \A x \in t.nodes : /\ x \in Nat /\ lo[x] \in Nat /\ hi[x] \in Nat
                         /\ lo[x] < x /\ x < hi[x] /\ hi[x] <= B
  BY SoundNode
<1>2. ASSUME NEW x \in t.nodes
      PROVE  W(x) \in 0 .. B /\ (x = t.root => W(x) = B)
  <2>1. x = t.root => lo[x] = 0 /\ hi[x] = B
    BY SoundNode
  <2>2. lo[x] \in Nat /\ hi[x] \in Nat /\ lo[x] < x /\ x < hi[x] /\ hi[x] <= B /\ x \in Nat
    BY <1>1
  <2> QED
    BY <2>1, <2>2 DEF Wide
<1>3. ASSUME NEW x \in t.nodes, x # t.root
      PROVE  \E p \in t.nodes :
               /\ W(x) < W(p)
               /\ \/ x = t.left[p] /\ lo[x] = lo[p] /\ hi[x] = p
                  \/ x = t.right[p] /\ lo[x] = p /\ hi[x] = hi[p]
  <2> DEFINE p == t.parent[x]
  <2>1. /\ p \in t.nodes /\ p \in Nat
        /\ \/ x = t.left[p] /\ lo[x] = lo[p] /\ hi[x] = p
           \/ x = t.right[p] /\ lo[x] = p /\ hi[x] = hi[p]
        /\ lo[p] < p /\ p < hi[p] /\ lo[p] \in Nat /\ hi[p] \in Nat
    BY <1>3, Below
  <2> HIDE DEF p
  <2>2. W(x) < W(p)
    BY <2>1 DEF Wide
  <2> QED
    BY <2>1, <2>2
<1>4. SUFFICES ASSUME T # {}
               PROVE  FALSE
  BY <1>2
<1>5. PICK k \in T : \A j \in T : j <= k
  <2>1. T \subseteq Nat /\ \A j \in T : j <= B
    OBVIOUS
  <2> HIDE DEF T
  <2> QED
    BY <1>4, <2>1, GreatestNatural
<1>6. PICK u \in t.nodes, v \in t.nodes : Bad(u, v) /\ k = W(v)
  BY <1>5
<1>7. ASSUME NEW a \in t.nodes, NEW b \in t.nodes, a # b, W(v) < W(b), W(b) <= W(a),
             lo[a] < hi[b], lo[b] < hi[a]
      PROVE  Inside(lo, hi, b, a)
  <2>1. W(b) \in 0 .. B /\ W(v) \in 0 .. B
    BY <1>2
  <2>2. W(b) \notin T
    BY <1>5, <1>6, <1>7, <2>1
  <2> HIDE DEF W
  <2> QED
    BY <1>7, <2>1, <2>2
<1> HIDE DEF T
<1>8. v # t.root
  <2>1. SUFFICES ASSUME v = t.root
                 PROVE  FALSE
    OBVIOUS
  <2>2. u # t.root
    BY <1>6, <2>1
  <2>3. PICK p \in t.nodes : W(u) < W(p)
    BY <1>3, <2>2
  <2>4. W(v) = B
    BY <1>2, <2>1
  <2>5. W(u) \in 0 .. B /\ W(p) \in 0 .. B /\ W(v) <= W(u)
    BY <1>2, <1>6
  <2> HIDE DEF W
  <2> QED
    BY <2>3, <2>4, <2>5
<1>9. PICK p \in t.nodes : /\ W(v) < W(p)
                           /\ \/ v = t.left[p] /\ lo[v] = lo[p] /\ hi[v] = p
                              \/ v = t.right[p] /\ lo[v] = p /\ hi[v] = hi[p]
  BY <1>3, <1>8
<1>10. p # u
  BY <1>6, <1>9, <1>1 DEF Inside
<1>11. CASE W(v) < W(u)
  <2>1. CASE W(p) <= W(u)
    <3>1. Inside(lo, hi, p, u)
      <4>1. lo[u] < hi[p] /\ lo[p] < hi[u]
        BY <1>1, <1>6, <1>9
      <4> QED
        BY <1>7, <1>9, <1>10, <2>1, <4>1
    <3> QED
      BY <1>1, <1>6, <1>9, <3>1 DEF Inside
  <2>2. CASE ~ (W(p) <= W(u))
    <3>1. Inside(lo, hi, u, p)
      <4>1. lo[u] < hi[p] /\ lo[p] < hi[u]
        BY <1>1, <1>6, <1>9
      <4>2. W(u) \in 0 .. B /\ W(p) \in 0 .. B
        BY <1>2
      <4>3. W(u) <= W(p)
        <5> HIDE DEF W
        <5> QED
          BY <2>2, <4>2
      <4> QED
        BY <1>7, <1>10, <1>11, <4>1, <4>3
    <3> QED
      BY <1>1, <1>6, <1>9, <1>11, <3>1 DEF Inside, Wide
  <2> QED
    BY <2>1, <2>2
<1>12. CASE ~ (W(v) < W(u))
  <2>1. W(u) = W(v)
    <3>1. W(u) \in 0 .. B /\ W(v) \in 0 .. B /\ W(v) <= W(u)
      BY <1>2, <1>6
    <3> HIDE DEF W
    <3> QED
      BY <1>12, <3>1
  <2>2. u # t.root
    <3>1. SUFFICES ASSUME u = t.root
                   PROVE  FALSE
      OBVIOUS
    <3>2. W(u) = B
      BY <1>2, <3>1
    <3>3. W(p) \in 0 .. B
      BY <1>2
    <3> HIDE DEF W
    <3> QED
      BY <2>1, <3>2, <3>3, <1>9
  <2>3. PICK q \in t.nodes : /\ W(u) < W(q)
                             /\ \/ u = t.left[q] /\ lo[u] = lo[q] /\ hi[u] = q
                                \/ u = t.right[q] /\ lo[u] = q /\ hi[u] = hi[q]
    BY <1>3, <2>2
  <2>4. lo[q] < hi[p] /\ lo[p] < hi[q]
    BY <1>1, <1>6, <1>9, <2>3
  <2>5. p # q
    BY <1>1, <1>6, <1>9, <2>3
  <2>6. Inside(lo, hi, p, q) \/ Inside(lo, hi, q, p)
    <3>1. W(q) \in 0 .. B /\ W(p) \in 0 .. B
      BY <1>2
    <3>2. W(p) <= W(q) \/ W(q) <= W(p)
      <4> HIDE DEF W
      <4> QED
        BY <3>1
    <3>3. W(v) < W(q)
      BY <2>1, <2>3
    <3> QED
      BY <1>7, <1>9, <2>4, <2>5, <3>2, <3>3
  <2> QED
    BY <1>1, <1>6, <1>9, <2>1, <2>3, <2>6 DEF Inside, Wide
<1> QED
  BY <1>11, <1>12

(***************************************************************************)
(* Where a child is missing there is no node anywhere in the tree with a   *)
(* key in that half of the interval.                                       *)
(***************************************************************************)
LEMMA Vacant ==
  ASSUME NEW B \in Nat, NEW lo, NEW hi, NEW t, Sound(t, lo, hi, B),
         NEW x \in t.nodes, NEW z0 \in t.nodes
  PROVE  /\ t.left[x] = NIL => ~ (lo[x] < z0 /\ z0 < x)
         /\ t.right[x] = NIL => ~ (x < z0 /\ z0 < hi[x])
<1> DEFINE W(z) == Wide(lo, hi, z)
           Gap(z) == \/ t.left[x] = NIL /\ lo[x] < z /\ z < x
                     \/ t.right[x] = NIL /\ x < z /\ z < hi[x]
           T == {k \in 0 .. B : \E z \in t.nodes : Gap(z) /\ k = W(z)}
<1>1. \A z \in t.nodes : /\ z \in Nat /\ lo[z] \in Nat /\ hi[z] \in Nat
                         /\ lo[z] < z /\ z < hi[z] /\ hi[z] <= B
  BY SoundNode
<1>2. \A z \in t.nodes : W(z) \in 0 .. B
  BY <1>1 DEF Wide
<1>3. SUFFICES ASSUME T # {}
               PROVE  FALSE
  BY <1>2
<1>4. PICK k \in T : \A j \in T : j <= k
  <2>1. T \subseteq Nat /\ \A j \in T : j <= B
    OBVIOUS
  <2> HIDE DEF T
  <2> QED
    BY <1>3, <2>1, GreatestNatural
<1>5. PICK z \in t.nodes : Gap(z) /\ k = W(z)
  BY <1>4
<1>6. ASSUME NEW q \in t.nodes, W(z) < W(q)
      PROVE  ~ Gap(q)
  <2>1. W(q) \in 0 .. B /\ W(z) \in 0 .. B
    BY <1>2
  <2>2. W(q) \notin T
    BY <1>4, <1>5, <1>6, <2>1
  <2> HIDE DEF W
  <2> QED
    BY <2>1, <2>2
<1> HIDE DEF T
<1>7. z # x /\ lo[x] < z /\ z < hi[x]
  BY <1>1, <1>5
<1>8. ASSUME NEW q \in t.nodes, q # x, lo[q] < z, z < hi[q]
      PROVE  Inside(lo, hi, q, x) \/ Inside(lo, hi, x, q)
  <2>1. lo[q] < hi[x] /\ lo[x] < hi[q]
    BY <1>1, <1>7, <1>8
  <2>2. W(q) <= W(x) \/ W(x) <= W(q)
    <3>1. W(q) \in 0 .. B /\ W(x) \in 0 .. B
      BY <1>2
    <3> HIDE DEF W
    <3> QED
      BY <3>1
  <2> QED
    BY <1>8, <2>1, <2>2, Nested
<1>9. Inside(lo, hi, z, x)
  <2>1. Inside(lo, hi, z, x) \/ Inside(lo, hi, x, z)
    BY <1>1, <1>7, <1>8
  <2> QED
    BY <1>1, <1>7, <2>1 DEF Inside
<1>10. W(z) < W(x)
  BY <1>1, <1>9 DEF Inside, Wide
<1>11. z # t.root
  <2>1. SUFFICES ASSUME z = t.root
                 PROVE  FALSE
    OBVIOUS
  <2>2. lo[z] = 0 /\ hi[z] = B
    BY <2>1, SoundNode
  <2> QED
    BY <1>1, <1>10, <2>2 DEF Wide
<1> DEFINE p == t.parent[z]
<1>12. /\ p \in t.nodes /\ p \in Nat
       /\ \/ z = t.left[p] /\ lo[z] = lo[p] /\ hi[z] = p
          \/ z = t.right[p] /\ lo[z] = p /\ hi[z] = hi[p]
       /\ lo[p] < p /\ p < hi[p] /\ lo[p] \in Nat /\ hi[p] \in Nat
  BY <1>11, Below
<1> HIDE DEF p
<1>13. W(z) < W(p) /\ lo[p] < z /\ z < hi[p]
  BY <1>1, <1>12 DEF Wide
<1>14. p # x
  <2>1. SUFFICES ASSUME p = x
                 PROVE  FALSE
    OBVIOUS
  <2>2. z # NIL
    BY SoundNode
  <2> QED
    BY <1>1, <1>5, <1>12, <2>1, <2>2
<1>15. Inside(lo, hi, p, x) \/ Inside(lo, hi, x, p)
  BY <1>8, <1>12, <1>13, <1>14
<1>16. CASE Inside(lo, hi, p, x)
  <2>1. Gap(p)
    BY <1>1, <1>5, <1>12, <1>13, <1>16 DEF Inside
  <2> QED
    BY <1>6, <1>12, <1>13, <2>1
<1>17. CASE Inside(lo, hi, x, p)
  BY <1>1, <1>5, <1>7, <1>9, <1>12, <1>17 DEF Inside
<1> QED
  BY <1>15, <1>16, <1>17

-----------------------------------------------------------------------------
(***************************************************************************)
(* A search that goes on below z meets a node whose interval still holds   *)
(* the key and is narrower.                                                *)
(***************************************************************************)
LEMMA TowardsNode ==
  ASSUME NEW B \in Nat, NEW lo, NEW hi, NEW t, Sound(t, lo, hi, B),
         NEW key \in Keys, NEW z \in t.nodes, lo[z] < key, key < hi[z], z # key,
         NEW c, c = Towards(t, z, key), c # NIL
  PROVE  /\ c \in t.nodes /\ lo[c] < key /\ key < hi[c]
         /\ Wide(lo, hi, c) \in 0 .. Wide(lo, hi, z) - 1
         /\ key > z => lo[c] = z
         /\ ~ (key > z) => lo[c] = lo[z]
<1>1. z \in Nat /\ lo[z] \in Nat /\ hi[z] \in Nat /\ lo[z] < z /\ z < hi[z]
  BY SoundNode
<1>2. key \in Nat
  BY KeysAssumption
<1>3. CASE key > z
  <2>1. c = t.right[z]
    BY <1>3 DEF Towards
  <2>2. c \in t.nodes /\ lo[c] = z /\ hi[c] = hi[z]
    BY <2>1, SoundNode
  <2> QED
    BY <1>1, <1>2, <1>3, <2>2 DEF Wide
<1>4. CASE ~ (key > z)
  <2>1. c = t.left[z]
    BY <1>4 DEF Towards
  <2>2. c \in t.nodes /\ lo[c] = lo[z] /\ hi[c] = z
    BY <2>1, SoundNode
  <2> QED
    BY <1>1, <1>2, <1>4, <2>2 DEF Wide
<1> QED
  BY <1>3, <1>4

(***************************************************************************)
(* The next node of a search is a node or NIL.                             *)
(***************************************************************************)
LEMMA TowardsType ==
  ASSUME NEW t \in Trees, NEW z \in Keys, NEW key
  PROVE  Towards(t, z, key) \in Ptr
BY DEF Towards, Trees

(***************************************************************************)
(* In a tree that is not empty the search shared by insert, find and       *)
(* remove ends at a node whose interval holds the key: the key's own node, *)
(* or the one below which it belongs.                                      *)
(***************************************************************************)
LEMMA SearchEnds ==
  ASSUME NEW B \in Nat, NEW lo, NEW hi, NEW t, Sound(t, lo, hi, B),
         NEW key \in Keys, key < B, t.root # NIL, NEW s, s = search(t, key)
  PROVE  /\ s \in t.nodes /\ lo[s] < key /\ key < hi[s]
         /\ s = key \/ Towards(t, s, key) = NIL
<1> DEFINE D == {z \in Keys : z = key \/ Towards(t, z, key) = NIL}
           G == [z \in Keys |-> IF z \in D THEN z ELSE Towards(t, z, key)]
           O == [z \in Keys |-> z]
           J == [n \in Nat |-> {z \in t.nodes : /\ lo[z] < key /\ key < hi[z]
                                                /\ Wide(lo, hi, z) = n}]
           body(h) == [z \in Keys |-> IF z = key \/ Towards(t, z, key) = NIL THEN z
                                      ELSE h[Towards(t, z, key)]]
           f == CHOOSE h : h = body(h)
<1>1. t \in Trees /\ t.nodes \subseteq Keys /\ t.root \in t.nodes
  BY DEF Sound, Trees
<1>2. G \in [Keys -> Keys]
  BY <1>1, TowardsType DEF Ptr
<1>3. ASSUME NEW h
      PROVE  body(h) = LoopBody(Keys, D, G, O, h)
  BY DEF LoopBody
<1>4. \E h : h = body(h)
  <2>1. \E h : h = LoopBody(Keys, D, G, O, h)
    <3> HIDE DEF D, G, O
    <3> QED
      BY <1>2, LoopExists
  <2> HIDE DEF D, G, O, body
  <2> QED
    BY <1>3, <2>1
<1>5. f = body(f)
  <2> HIDE DEF body
  <2> QED
    BY <1>4
<1>6. s = f[t.root]
  BY DEF search
<1> HIDE DEF f
<1>7. f = LoopBody(Keys, D, G, O, f)
  <2> HIDE DEF D, G, O, body
  <2> QED
    BY <1>3, <1>5
<1> HIDE DEF body
<1>8. J \in [Nat -> SUBSET Keys]
  BY <1>1
<1>9. ASSUME NEW n \in Nat, NEW z \in J[n], z \notin D
      PROVE  \E m \in 0 .. n - 1 : G[z] \in J[m]
  <2>1. /\ z \in t.nodes /\ z \in Keys /\ lo[z] < key /\ key < hi[z]
        /\ Wide(lo, hi, z) = n
    BY <1>1
  <2> DEFINE c == Towards(t, z, key)
  <2>2. z # key /\ c # NIL /\ G[z] = c
    BY <1>9, <2>1
  <2> HIDE DEF c
  <2>3. /\ c \in t.nodes /\ lo[c] < key /\ key < hi[c]
        /\ Wide(lo, hi, c) \in 0 .. n - 1
    BY <2>1, <2>2, TowardsNode DEF c
  <2>4. G[z] \in J[Wide(lo, hi, c)]
    BY <2>2, <2>3
  <2> QED
    BY <2>3, <2>4
<1>10. t.root \in J[B]
  <2>1. lo[t.root] = 0 /\ hi[t.root] = B
    BY DEF Sound
  <2>2. 0 < key /\ key \in Nat
    BY KeysAssumption
  <2> QED
    BY <1>1, <2>1, <2>2 DEF Wide
<1>11. \E m \in Nat : \E u \in J[m] : u \in D /\ f[t.root] = O[u]
  <2> HIDE DEF D, G, O, J
  <2> QED
    BY <1>7, <1>8, <1>9, <1>10, LoopEnds
<1> QED
  BY <1>1, <1>6, <1>11

(***************************************************************************)
(* tree_find finds the key exactly if it has a node.                       *)
(***************************************************************************)
LEMMA FindIsMember ==
  ASSUME NEW B \in Nat, NEW lo, NEW hi, NEW t, Sound(t, lo, hi, B),
         NEW key \in Keys, key < B
  PROVE  tree_find(t, key) = IF key \in t.nodes THEN key ELSE NIL
<1> DEFINE s == search(t, key)
<1>1. key # NIL /\ key \in Nat
  BY KeysAssumption DEF NIL
<1>2. CASE t.root = NIL
  <2>1. s = NIL /\ t.nodes = {}
    BY <1>2 DEF search, Sound
  <2> QED
    BY <1>1, <2>1 DEF tree_find
<1>3. CASE t.root # NIL
  <2>1. /\ s \in t.nodes /\ lo[s] < key /\ key < hi[s]
        /\ s = key \/ Towards(t, s, key) = NIL
    BY <1>3, SearchEnds
  <2> HIDE DEF s
  <2>2. CASE s = key
    BY <2>1, <2>2 DEF tree_find, s
  <2>3. CASE s # key
    <3>1. key \notin t.nodes
      <4>1. SUFFICES ASSUME key \in t.nodes
                     PROVE  FALSE
        OBVIOUS
      <4>2. s \in Nat /\ lo[s] \in Nat /\ hi[s] \in Nat
        BY <2>1, SoundNode
      <4>3. CASE key > s
        <5>1. t.right[s] = NIL
          BY <2>1, <2>3, <4>3 DEF Towards
        <5>2. ~ (s < key /\ key < hi[s])
          BY <2>1, <4>1, <5>1, Vacant
        <5> QED
          BY <1>1, <2>1, <4>2, <4>3, <5>2
      <4>4. CASE ~ (key > s)
        <5>1. t.left[s] = NIL
          BY <2>1, <2>3, <4>4 DEF Towards
        <5>2. ~ (lo[s] < key /\ key < s)
          BY <2>1, <4>1, <5>1, Vacant
        <5> QED
          BY <1>1, <2>1, <2>3, <4>2, <4>4, <5>2
      <4> QED
        BY <4>3, <4>4
    <3> QED
      BY <2>3, <3>1 DEF tree_find, s
  <2> QED
    BY <2>2, <2>3
<1> QED
  BY <1>2, <1>3

(***************************************************************************)
(* tree_find_nearest ends with NIL or a node at most the key, and no node  *)
(* at most the key is above its result: the candidate n that the loop      *)
(* keeps is the greatest of the keys to the left of the interval it is     *)
(* still looking at.                                                       *)
(***************************************************************************)
LEMMA NearestEnds ==
  ASSUME NEW B \in Nat, NEW lo, NEW hi, NEW t, Sound(t, lo, hi, B),
         NEW key \in Keys, key < B, NEW r, r = tree_find_nearest(t, key)
  PROVE  /\ r = NIL \/ (r \in t.nodes /\ r <= key)
         /\ \A w \in t.nodes : w <= key => r # NIL /\ w <= r
<1> DEFINE S == Ptr \X Ptr
           D == {s \in S : s[1] = NIL \/ s[1] = key}
           O == [s \in S |-> IF s[1] = NIL THEN s[2] ELSE s[1]]
           G == [s \in S |->
                  IF s \in D THEN s
                  ELSE IF key < s[1] THEN << t.left[s[1]], s[2] >>
                  ELSE << t.right[s[1]], IF s[2] = NIL \/ s[2] < s[1] THEN s[1] ELSE s[2] >>]
           Final(m) == /\ m = NIL \/ (m \in t.nodes /\ m < key)
                       /\ \A w \in t.nodes : w <= key => m # NIL /\ w <= m
           Under(s, n) == /\ s[1] \in t.nodes /\ lo[s[1]] < key /\ key < hi[s[1]]
                          /\ s[2] = lo[s[1]] /\ s[2] \in t.nodes \cup {NIL}
                          /\ Wide(lo, hi, s[1]) = n
           J == [n \in Nat |-> {s \in S : \/ s[1] = NIL /\ Final(s[2]) /\ n = 0
                                         \/ Under(s, n)}]
           body(h) == [s \in Ptr \X Ptr |->
                        IF s[1] = NIL THEN s[2]
                        ELSE IF s[1] = key THEN s[1]
                        ELSE IF key < s[1] THEN h[<< t.left[s[1]], s[2] >>]
                        ELSE h[<< t.right[s[1]],
                                  IF s[2] = NIL \/ s[2] < s[1] THEN s[1] ELSE s[2] >>]]
           f == CHOOSE h : h = body(h)
<1>1. /\ t \in Trees /\ t.nodes \subseteq Keys /\ t.root \in Ptr
      /\ t.left \in [Keys -> Ptr] /\ t.right \in [Keys -> Ptr]
  BY DEF Sound, Trees
<1>2. key \in Nat /\ 0 < key /\ key # NIL /\ NIL \notin Keys /\ Keys \subseteq Nat
  BY KeysAssumption DEF NIL
<1>3. G \in [S -> S]
  <2>1. ASSUME NEW s \in S
        PROVE  G[s] \in S
    <3>1. s[1] \in Ptr /\ s[2] \in Ptr /\ s = << s[1], s[2] >>
      OBVIOUS
    <3>2. s \notin D => s[1] \in Keys
      BY <3>1 DEF Ptr
    <3> QED
      BY <1>1, <3>1, <3>2
  <2> QED
    BY <2>1
<1>4. ASSUME NEW h
      PROVE  body(h) = LoopBody(S, D, G, O, h)
  <2>1. ASSUME NEW s \in S
        PROVE  body(h)[s] = LoopBody(S, D, G, O, h)[s]
    BY DEF LoopBody
  <2> QED
    BY <2>1 DEF LoopBody
<1>5. \E h : h = body(h)
  <2>1. \E h : h = LoopBody(S, D, G, O, h)
    <3> HIDE DEF S, D, G, O
    <3> QED
      BY <1>3, LoopExists
  <2> HIDE DEF S, D, G, O, body
  <2> QED
    BY <1>4, <2>1
<1>6. f = body(f)
  <2> HIDE DEF body
  <2> QED
    BY <1>5
<1>7. r = f[<< t.root, NIL >>]
  BY DEF tree_find_nearest
<1> HIDE DEF f
<1>8. f = LoopBody(S, D, G, O, f)
  <2> HIDE DEF S, D, G, O, body
  <2> QED
    BY <1>4, <1>6
<1> HIDE DEF body
<1>9. J \in [Nat -> SUBSET S]
  <2> HIDE DEF S
  <2> QED
    OBVIOUS
<1>10. ASSUME NEW n \in Nat, NEW s \in J[n], s \notin D
       PROVE  \E m \in 0 .. n - 1 : G[s] \in J[m]
  <2> DEFINE z == s[1]
             c == Towards(t, z, key)
             m == G[s][2]
  <2>1. s \in S /\ z # NIL /\ z # key
    BY <1>10
  <2>2. Under(s, n)
    BY <1>10, <2>1
  <2>3. /\ z \in t.nodes /\ z \in Nat /\ lo[z] \in Nat /\ hi[z] \in Nat
        /\ lo[z] < z /\ z < hi[z] /\ lo[z] < key /\ key < hi[z] /\ s[2] = lo[z]
        /\ lo[z] \in t.nodes \cup {NIL} /\ Wide(lo, hi, z) = n
    BY <2>2, SoundNode
  <2>4. G[s] = << c, IF key > z THEN z ELSE lo[z] >>
    <3>1. key < z <=> ~ (key > z)
      BY <1>2, <2>1, <2>3
    <3>2. CASE key > z
      BY <1>10, <2>1, <2>3, <3>1, <3>2 DEF Towards
    <3>3. CASE ~ (key > z)
      BY <1>10, <2>1, <2>3, <3>1, <3>3 DEF Towards
    <3> QED
      BY <3>2, <3>3
  <2>5. G[s] \in S
    <3> HIDE DEF G, S
    <3> QED
      BY <1>3, <2>1
  <2> HIDE DEF G, z, c
  <2>6. G[s][1] = c /\ m = IF key > z THEN z ELSE lo[z]
    BY <2>4
  <2> HIDE DEF m
  <2>7. CASE c # NIL
    <3>1. /\ c \in t.nodes /\ lo[c] < key /\ key < hi[c]
          /\ Wide(lo, hi, c) \in 0 .. n - 1 /\ lo[c] = m
      BY <2>1, <2>3, <2>6, <2>7, TowardsNode DEF c
    <3>2. Under(G[s], Wide(lo, hi, c))
      BY <2>3, <2>6, <3>1 DEF m
    <3>3. G[s] \in J[Wide(lo, hi, c)]
      BY <2>5, <3>1, <3>2
    <3> QED
      BY <3>1, <3>3
  <2>8. CASE c = NIL
    <3>1. m < key /\ m \in t.nodes \cup {NIL}
      BY <1>2, <2>3, <2>6
    <3>2. ASSUME NEW w \in t.nodes, w <= key
          PROVE  m # NIL /\ w <= m
      <4>1. w \in Nat /\ w # 0
        BY <1>1, KeysAssumption
      <4>2. CASE key > z
        <5>1. t.right[z] = NIL
          BY <2>8, <4>2 DEF c, Towards
        <5>2. ~ (z < w /\ w < hi[z])
          BY <2>3, <5>1, Vacant
        <5> QED
          BY <1>2, <2>1, <2>3, <2>6, <3>2, <4>1, <4>2, <5>2
      <4>3. CASE ~ (key > z)
        <5>1. t.left[z] = NIL
          BY <2>8, <4>3 DEF c, Towards
        <5>2. ~ (lo[z] < w /\ w < z)
          BY <2>3, <5>1, Vacant
        <5>3. w <= m
          BY <1>2, <2>1, <2>3, <2>6, <3>2, <4>1, <4>3, <5>2
        <5>4. m \in Nat
          BY <2>3, <2>6, <4>3
        <5> QED
          BY <4>1, <5>3, <5>4 DEF NIL
      <4> QED
        BY <4>2, <4>3
    <3>3. Final(m)
      BY <3>1, <3>2
    <3>4. 0 \in 0 .. n - 1
      BY <2>3 DEF Wide
    <3>5. G[s] \in J[0]
      BY <2>5, <2>6, <2>8, <3>3 DEF m
    <3> QED
      BY <3>4, <3>5
  <2> QED
    BY <2>7, <2>8
<1> DEFINE s0 == << t.root, NIL >>
<1>11. \E n \in Nat : s0 \in J[n]
  <2>1. s0 \in S /\ s0[1] = t.root /\ s0[2] = NIL
    BY <1>1 DEF Ptr
  <2> HIDE DEF s0
  <2>2. CASE t.root = NIL
    <3>1. t.nodes = {}
      BY <2>2 DEF Sound
    <3>2. s0 \in J[0]
      BY <2>1, <2>2, <3>1
    <3> QED
      BY <3>2
  <2>3. CASE t.root # NIL
    <3>1. t.root \in t.nodes /\ lo[t.root] = 0 /\ hi[t.root] = B
      BY <2>3 DEF Sound
    <3>2. Under(s0, B)
      BY <1>2, <2>1, <3>1 DEF Wide, NIL
    <3>3. s0 \in J[B]
      BY <2>1, <3>2
    <3> QED
      BY <3>3
  <2> QED
    BY <2>2, <2>3
<1>12. \E m \in Nat : \E u \in J[m] : u \in D /\ f[s0] = O[u]
  <2> HIDE DEF S, D, G, O, J, s0
  <2> QED
    BY <1>8, <1>9, <1>10, <1>11, LoopEnds
<1>13. PICK n \in Nat : \E u \in J[n] : u \in D /\ f[s0] = O[u]
  <2> HIDE DEF S, D, G, O, J, s0
  <2> QED
    BY <1>12
<1>14. PICK u \in J[n] : u \in D /\ f[s0] = O[u]
  <2> HIDE DEF S, D, G, O, J, s0
  <2> QED
    BY <1>13
<1>15. r = O[u] /\ u \in S
  BY <1>7, <1>14
<1>16. CASE u[1] = NIL
  <2>1. r = u[2]
    BY <1>15, <1>16
  <2>2. Final(u[2])
    BY <1>1, <1>2, <1>14, <1>16
  <2>3. u[2] \in t.nodes => u[2] \in Nat
    BY <1>1, <1>2
  <2> QED
    BY <1>2, <2>1, <2>2, <2>3
<1>17. CASE u[1] # NIL
  <2>1. r = u[1] /\ u[1] = key
    BY <1>14, <1>15, <1>17
  <2>2. u[1] \in t.nodes
    BY <1>14, <1>17
  <2>3. \A w \in t.nodes : w \in Nat
    BY <1>1, <1>2
  <2> QED
    BY <1>2, <2>1, <2>2, <2>3
<1> QED
  BY <1>16, <1>17

-----------------------------------------------------------------------------

(***************************************************************************)
(* Stores to the three links, named so that the lemmas about them have no  *)
(* string arguments.                                                       *)
(***************************************************************************)
PutLeft(t, n, v) == Link(t, "left", n, v)
PutRight(t, n, v) == Link(t, "right", n, v)
PutParent(t, n, v) == Link(t, "parent", n, v)

(***************************************************************************)
(* u is t with left[n] set to v and nothing else changed.                  *)
(***************************************************************************)
LeftSet(u, t, n, v) ==
  /\ u \in Trees /\ u.root = t.root /\ u.right = t.right /\ u.parent = t.parent
  /\ u.nodes = t.nodes /\ u.node_count = t.node_count
  /\ u.left[n] = v /\ \A k \in Keys : k # n => u.left[k] = t.left[k]

(***************************************************************************)
(* A store to a left link changes that link only.                          *)
(***************************************************************************)
LEMMA LinkLeft ==
  ASSUME NEW t \in Trees, NEW n \in Keys, NEW v \in Ptr, NEW u, u = PutLeft(t, n, v)
  PROVE  LeftSet(u, t, n, v)
<1>1. n # NIL
  BY KeysAssumption DEF NIL
<1>2. u = [t EXCEPT !["left"][n] = v]
  BY <1>1 DEF Link, PutLeft, PutRight, PutParent
<1> QED
  BY <1>2 DEF Trees, LeftSet

(***************************************************************************)
(* u is t with right[n] set to v and nothing else changed.                 *)
(***************************************************************************)
RightSet(u, t, n, v) ==
  /\ u \in Trees /\ u.root = t.root /\ u.left = t.left /\ u.parent = t.parent
  /\ u.nodes = t.nodes /\ u.node_count = t.node_count
  /\ u.right[n] = v /\ \A k \in Keys : k # n => u.right[k] = t.right[k]

(***************************************************************************)
(* A store to a right link changes that link only.                         *)
(***************************************************************************)
LEMMA LinkRight ==
  ASSUME NEW t \in Trees, NEW n \in Keys, NEW v \in Ptr, NEW u, u = PutRight(t, n, v)
  PROVE  RightSet(u, t, n, v)
<1>1. n # NIL
  BY KeysAssumption DEF NIL
<1>2. u = [t EXCEPT !["right"][n] = v]
  BY <1>1 DEF Link, PutLeft, PutRight, PutParent
<1> QED
  BY <1>2 DEF Trees, RightSet

(***************************************************************************)
(* u is t with parent[n] set to v, if n is a node, and nothing else        *)
(* changed.                                                                *)
(***************************************************************************)
ParentSet(u, t, n, v) ==
  /\ u \in Trees /\ u.root = t.root /\ u.left = t.left /\ u.right = t.right
  /\ u.nodes = t.nodes /\ u.node_count = t.node_count
  /\ n # NIL => u.parent[n] = v
  /\ \A k \in Keys : k # n => u.parent[k] = t.parent[k]

(***************************************************************************)
(* A store to a parent link changes that link only, and none when the node *)
(* is NIL.                                                                 *)
(***************************************************************************)
LEMMA LinkParent ==
  ASSUME NEW t \in Trees, NEW n \in Ptr, NEW v \in Ptr, NEW u, u = PutParent(t, n, v)
  PROVE  ParentSet(u, t, n, v)
<1>1. CASE n = NIL
  BY <1>1 DEF Link, PutLeft, PutRight, PutParent, ParentSet
<1>2. CASE n # NIL
  <2>1. n \in Keys
    BY <1>2 DEF Ptr
  <2>2. u = [t EXCEPT !["parent"][n] = v]
    BY <1>2 DEF Link, PutLeft, PutRight, PutParent
  <2> QED
    BY <1>2, <2>1, <2>2 DEF Trees, ParentSet
<1> QED
  BY <1>1, <1>2

(***************************************************************************)
(* What Hang does to the root and to every link.                           *)
(***************************************************************************)
LEMMA HangForm ==
  ASSUME NEW t \in Trees, NEW x \in Keys, NEW v \in Ptr, NEW p, p = t.parent[x],
         NEW u, u = Hang(t, x, v)
  PROVE  /\ u \in Trees /\ u.parent = t.parent
         /\ u.nodes = t.nodes /\ u.node_count = t.node_count
         /\ u.root = IF p = NIL THEN v ELSE t.root
         /\ \A k \in Keys : /\ u.left[k] = IF k = p /\ x = t.left[p] THEN v ELSE t.left[k]
                            /\ u.right[k] = IF k = p /\ x # t.left[p] THEN v ELSE t.right[k]
<1>1. CASE p = NIL
  <2>1. u = [t EXCEPT !.root = v]
    BY <1>1 DEF Hang
  <2>2. \A k \in Keys : k # p
    BY <1>1, KeysAssumption DEF NIL
  <2> QED
    BY <1>1, <2>1, <2>2 DEF Trees
<1>2. CASE p # NIL /\ x = t.left[p]
  <2>1. u = [t EXCEPT !.left[p] = v]
    BY <1>2 DEF Hang
  <2>2. p \in Keys
    BY <1>2 DEF Trees, Ptr
  <2>3. /\ u \in Trees /\ u.parent = t.parent /\ u.right = t.right
        /\ u.nodes = t.nodes /\ u.node_count = t.node_count /\ u.root = t.root
    BY <2>1, <2>2 DEF Trees
  <2>4. \A k \in Keys : u.left[k] = IF k = p THEN v ELSE t.left[k]
    BY <2>1, <2>2 DEF Trees
  <2> QED
    BY <1>2, <2>3, <2>4
<1>3. CASE p # NIL /\ x # t.left[p]
  <2>1. u = [t EXCEPT !.right[p] = v]
    BY <1>3 DEF Hang
  <2>2. p \in Keys
    BY <1>3 DEF Trees, Ptr
  <2>3. /\ u \in Trees /\ u.parent = t.parent /\ u.left = t.left
        /\ u.nodes = t.nodes /\ u.node_count = t.node_count /\ u.root = t.root
    BY <2>1, <2>2 DEF Trees
  <2>4. \A k \in Keys : u.right[k] = IF k = p THEN v ELSE t.right[k]
    BY <2>1, <2>2 DEF Trees
  <2> QED
    BY <1>3, <2>3, <2>4
<1> QED
  BY <1>1, <1>2, <1>3

(***************************************************************************)
(* n is t after right_rotate at x, whose left child is y, with the inner   *)
(* subtree a and the parent p of x.                                        *)
(***************************************************************************)
RightRotated(n, t, x, y, a, p) ==
  /\ n \in Trees /\ n.nodes = t.nodes /\ n.node_count = t.node_count
  /\ n.root = IF p = NIL THEN y ELSE t.root
  /\ n.left[x] = a /\ n.right[y] = x /\ n.parent[x] = y /\ n.parent[y] = p
  /\ n.right[x] = t.right[x] /\ n.left[y] = t.left[y]
  /\ a # NIL => n.parent[a] = x
  /\ \A k \in Keys :
       /\ k \notin {x, y, a} => n.parent[k] = t.parent[k]
       /\ k \notin {x, y} =>
            /\ n.left[k] = IF k = p /\ x = t.left[p] THEN y ELSE t.left[k]
            /\ n.right[k] = IF k = p /\ x # t.left[p] THEN y ELSE t.right[k]

(***************************************************************************)
(* The links after right_rotate at x, its left child y and the inner       *)
(* subtree a, when these and the parent of x are different nodes.          *)
(***************************************************************************)
LEMMA RightRotateForm ==
  ASSUME NEW t \in Trees, NEW x \in Keys, NEW y \in Keys, y = t.left[x],
         NEW a, a = t.right[y], NEW p, p = t.parent[x],
         x # y, a # x, a # y, p # x, p # y, NEW n, n = right_rotate(t, x)
  PROVE  RightRotated(n, t, x, y, a, p)
<1> DEFINE t1 == PutLeft(t, x, a)
           t2 == PutParent(t1, a, x)
           t3 == PutParent(t2, y, p)
           t4 == Hang(t3, x, y)
           t5 == PutRight(t4, y, x)
<1>1. y # NIL /\ x # NIL /\ x \in Ptr /\ y \in Ptr
  BY KeysAssumption DEF NIL, Ptr
<1>2. a \in Ptr /\ p \in Ptr
  BY DEF Trees
<1>3. n = PutParent(t5, x, y)
  <2>1. t["left"][x] = y /\ t["right"][y] = a
    OBVIOUS
  <2>2. Other("left") = "right"
    BY DEF Other
  <2> QED
    BY <1>1, <2>1, <2>2 DEF right_rotate, rotate, PutLeft, PutRight, PutParent
<1>4. /\ t1 \in Trees /\ t1.root = t.root /\ t1.right = t.right /\ t1.parent = t.parent
      /\ t1.nodes = t.nodes /\ t1.node_count = t.node_count
      /\ t1.left[x] = a /\ \A k \in Keys : k # x => t1.left[k] = t.left[k]
  <2>1. LeftSet(t1, t, x, a)
    BY <1>2, LinkLeft
  <2> HIDE DEF t1
  <2> QED
    BY <1>2, <2>1 DEF LeftSet
<1> HIDE DEF t1
<1>5. /\ t2 \in Trees /\ t2.root = t.root /\ t2.right = t.right /\ t2.left = t1.left
      /\ t2.nodes = t.nodes /\ t2.node_count = t.node_count
      /\ a # NIL => t2.parent[a] = x
      /\ \A k \in Keys : k # a => t2.parent[k] = t.parent[k]
  <2>1. ParentSet(t2, t1, a, x)
    BY <1>1, <1>2, <1>4, LinkParent
  <2> HIDE DEF t2
  <2> QED
    BY <1>1, <1>2, <1>4, <2>1 DEF ParentSet
<1> HIDE DEF t2
<1>6. /\ t3 \in Trees /\ t3.root = t.root /\ t3.right = t.right /\ t3.left = t1.left
      /\ t3.nodes = t.nodes /\ t3.node_count = t.node_count
      /\ t3.parent[y] = p
      /\ \A k \in Keys : k # y => t3.parent[k] = t2.parent[k]
  <2>1. ParentSet(t3, t2, y, p)
    BY <1>1, <1>2, <1>5, LinkParent
  <2> HIDE DEF t3
  <2> QED
    BY <1>1, <1>2, <1>5, <2>1 DEF ParentSet
<1> HIDE DEF t3
<1>7. t3.parent[x] = p
  BY <1>5, <1>6
<1>8. /\ t4 \in Trees /\ t4.parent = t3.parent
      /\ t4.nodes = t.nodes /\ t4.node_count = t.node_count
      /\ t4.root = IF p = NIL THEN y ELSE t.root
      /\ \A k \in Keys : /\ t4.left[k] = IF k = p /\ x = t3.left[p] THEN y ELSE t3.left[k]
                         /\ t4.right[k] = IF k = p /\ x # t3.left[p] THEN y ELSE t3.right[k]
  BY <1>1, <1>6, <1>7, HangForm
<1> HIDE DEF t4
<1>9. /\ t5 \in Trees /\ t5.parent = t3.parent
      /\ t5.nodes = t.nodes /\ t5.node_count = t.node_count
      /\ t5.root = t4.root /\ t5.left = t4.left
      /\ t5.right[y] = x /\ \A k \in Keys : k # y => t5.right[k] = t4.right[k]
  <2>1. RightSet(t5, t4, y, x)
    BY <1>1, <1>8, LinkRight
  <2> HIDE DEF t5
  <2> QED
    BY <1>1, <1>8, <2>1 DEF RightSet
<1> HIDE DEF t5
<1>10. /\ n \in Trees /\ n.root = t5.root /\ n.left = t5.left /\ n.right = t5.right
       /\ n.nodes = t.nodes /\ n.node_count = t.node_count
       /\ n.parent[x] = y
       /\ \A k \in Keys : k # x => n.parent[k] = t5.parent[k]
  <2>1. ParentSet(n, t5, x, y)
    BY <1>1, <1>3, <1>9, LinkParent
  <2> HIDE DEF t5
  <2> QED
    BY <1>1, <1>9, <2>1 DEF ParentSet
<1>11. p # NIL => p \in Keys
  BY <1>2 DEF Ptr
<1>12. a # NIL => a \in Keys
  BY <1>2 DEF Ptr
<1>13. \A k \in Keys : k = p => (x = t3.left[p] <=> x = t.left[p])
  BY <1>4, <1>6
<1>14. n.left[x] = a /\ n.right[y] = x /\ n.right[x] = t.right[x] /\ n.left[y] = t.left[y]
  BY <1>4, <1>6, <1>8, <1>9, <1>10
<1>15. n.parent[y] = p /\ (a # NIL => n.parent[a] = x)
  BY <1>5, <1>6, <1>9, <1>10, <1>12
<1>16. ASSUME NEW k \in Keys
       PROVE  /\ k \notin {x, y, a} => n.parent[k] = t.parent[k]
              /\ k \notin {x, y} =>
                   /\ n.left[k] = IF k = p /\ x = t.left[p] THEN y ELSE t.left[k]
                   /\ n.right[k] = IF k = p /\ x # t.left[p] THEN y ELSE t.right[k]
  <2>1. k \notin {x, y, a} => n.parent[k] = t.parent[k]
    BY <1>5, <1>6, <1>9, <1>10
  <2>2. k \notin {x, y} => t3.left[k] = t.left[k] /\ t3.right[k] = t.right[k]
    BY <1>4, <1>6
  <2> QED
    BY <1>8, <1>9, <1>10, <1>13, <2>1, <2>2
<1> QED
  BY <1>8, <1>9, <1>10, <1>14, <1>15, <1>16 DEF RightRotated

(***************************************************************************)
(* n is t after left_rotate at x, whose right child is y, with the inner   *)
(* subtree a and the parent p of x.                                        *)
(***************************************************************************)
LeftRotated(n, t, x, y, a, p) ==
  /\ n \in Trees /\ n.nodes = t.nodes /\ n.node_count = t.node_count
  /\ n.root = IF p = NIL THEN y ELSE t.root
  /\ n.right[x] = a /\ n.left[y] = x /\ n.parent[x] = y /\ n.parent[y] = p
  /\ n.left[x] = t.left[x] /\ n.right[y] = t.right[y]
  /\ a # NIL => n.parent[a] = x
  /\ \A k \in Keys :
       /\ k \notin {x, y, a} => n.parent[k] = t.parent[k]
       /\ k \notin {x, y} =>
            /\ n.left[k] = IF k = p /\ x = t.left[p] THEN y ELSE t.left[k]
            /\ n.right[k] = IF k = p /\ x # t.left[p] THEN y ELSE t.right[k]

(***************************************************************************)
(* The links after left_rotate, the mirror image.                          *)
(***************************************************************************)
LEMMA LeftRotateForm ==
  ASSUME NEW t \in Trees, NEW x \in Keys, NEW y \in Keys, y = t.right[x],
         NEW a, a = t.left[y], NEW p, p = t.parent[x],
         x # y, a # x, a # y, p # x, p # y, NEW n, n = left_rotate(t, x)
  PROVE  LeftRotated(n, t, x, y, a, p)
<1> DEFINE t1 == PutRight(t, x, a)
           t2 == PutParent(t1, a, x)
           t3 == PutParent(t2, y, p)
           t4 == Hang(t3, x, y)
           t5 == PutLeft(t4, y, x)
<1>1. y # NIL /\ x # NIL /\ x \in Ptr /\ y \in Ptr
  BY KeysAssumption DEF NIL, Ptr
<1>2. a \in Ptr /\ p \in Ptr
  BY DEF Trees
<1>3. n = PutParent(t5, x, y)
  <2>1. t["right"][x] = y /\ t["left"][y] = a
    OBVIOUS
  <2>2. Other("right") = "left"
    BY DEF Other
  <2> QED
    BY <1>1, <2>1, <2>2 DEF left_rotate, rotate, PutLeft, PutRight, PutParent
<1>4. /\ t1 \in Trees /\ t1.root = t.root /\ t1.left = t.left /\ t1.parent = t.parent
      /\ t1.nodes = t.nodes /\ t1.node_count = t.node_count
      /\ t1.right[x] = a /\ \A k \in Keys : k # x => t1.right[k] = t.right[k]
  <2>1. RightSet(t1, t, x, a)
    BY <1>2, LinkRight
  <2> HIDE DEF t1
  <2> QED
    BY <1>2, <2>1 DEF RightSet
<1> HIDE DEF t1
<1>5. /\ t2 \in Trees /\ t2.root = t.root /\ t2.left = t.left /\ t2.right = t1.right
      /\ t2.nodes = t.nodes /\ t2.node_count = t.node_count
      /\ a # NIL => t2.parent[a] = x
      /\ \A k \in Keys : k # a => t2.parent[k] = t.parent[k]
  <2>1. ParentSet(t2, t1, a, x)
    BY <1>1, <1>2, <1>4, LinkParent
  <2> HIDE DEF t2
  <2> QED
    BY <1>1, <1>2, <1>4, <2>1 DEF ParentSet
<1> HIDE DEF t2
<1>6. /\ t3 \in Trees /\ t3.root = t.root /\ t3.left = t.left /\ t3.right = t1.right
      /\ t3.nodes = t.nodes /\ t3.node_count = t.node_count
      /\ t3.parent[y] = p
      /\ \A k \in Keys : k # y => t3.parent[k] = t2.parent[k]
  <2>1. ParentSet(t3, t2, y, p)
    BY <1>1, <1>2, <1>5, LinkParent
  <2> HIDE DEF t3
  <2> QED
    BY <1>1, <1>2, <1>5, <2>1 DEF ParentSet
<1> HIDE DEF t3
<1>7. t3.parent[x] = p
  BY <1>5, <1>6
<1>8. /\ t4 \in Trees /\ t4.parent = t3.parent
      /\ t4.nodes = t.nodes /\ t4.node_count = t.node_count
      /\ t4.root = IF p = NIL THEN y ELSE t.root
      /\ \A k \in Keys : /\ t4.left[k] = IF k = p /\ x = t3.left[p] THEN y ELSE t3.left[k]
                         /\ t4.right[k] = IF k = p /\ x # t3.left[p] THEN y ELSE t3.right[k]
  BY <1>1, <1>6, <1>7, HangForm
<1> HIDE DEF t4
<1>9. /\ t5 \in Trees /\ t5.parent = t3.parent
      /\ t5.nodes = t.nodes /\ t5.node_count = t.node_count
      /\ t5.root = t4.root /\ t5.right = t4.right
      /\ t5.left[y] = x /\ \A k \in Keys : k # y => t5.left[k] = t4.left[k]
  <2>1. LeftSet(t5, t4, y, x)
    BY <1>1, <1>8, LinkLeft
  <2> HIDE DEF t5
  <2> QED
    BY <1>1, <1>8, <2>1 DEF LeftSet
<1> HIDE DEF t5
<1>10. /\ n \in Trees /\ n.root = t5.root /\ n.left = t5.left /\ n.right = t5.right
       /\ n.nodes = t.nodes /\ n.node_count = t.node_count
       /\ n.parent[x] = y
       /\ \A k \in Keys : k # x => n.parent[k] = t5.parent[k]
  <2>1. ParentSet(n, t5, x, y)
    BY <1>1, <1>3, <1>9, LinkParent
  <2> HIDE DEF t5
  <2> QED
    BY <1>1, <1>9, <2>1 DEF ParentSet
<1>11. p # NIL => p \in Keys
  BY <1>2 DEF Ptr
<1>12. a # NIL => a \in Keys
  BY <1>2 DEF Ptr
<1>13. \A k \in Keys : k = p => (x = t3.left[p] <=> x = t.left[p])
  BY <1>4, <1>6
<1>14. n.right[x] = a /\ n.left[y] = x /\ n.left[x] = t.left[x] /\ n.right[y] = t.right[y]
  BY <1>4, <1>6, <1>8, <1>9, <1>10
<1>15. n.parent[y] = p /\ (a # NIL => n.parent[a] = x)
  BY <1>5, <1>6, <1>9, <1>10, <1>12
<1>16. ASSUME NEW k \in Keys
       PROVE  /\ k \notin {x, y, a} => n.parent[k] = t.parent[k]
              /\ k \notin {x, y} =>
                   /\ n.left[k] = IF k = p /\ x = t.left[p] THEN y ELSE t.left[k]
                   /\ n.right[k] = IF k = p /\ x # t.left[p] THEN y ELSE t.right[k]
  <2>1. k \notin {x, y, a} => n.parent[k] = t.parent[k]
    BY <1>5, <1>6, <1>9, <1>10
  <2>2. k \notin {x, y} => t3.left[k] = t.left[k] /\ t3.right[k] = t.right[k]
    BY <1>4, <1>6
  <2> QED
    BY <1>8, <1>9, <1>10, <1>13, <2>1, <2>2
<1> QED
  BY <1>8, <1>9, <1>10, <1>14, <1>15, <1>16 DEF LeftRotated

(***************************************************************************)
(* The interval function after a rotation at the end where y takes over    *)
(* the bound of x.                                                         *)
(***************************************************************************)
Taken(f, x, y) == [f EXCEPT ![y] = f[x]]
(***************************************************************************)
(* The interval function after a rotation at the end where y takes over    *)
(* the bound of x, and x is cut off at y.                                  *)
(***************************************************************************)
Pushed(f, x, y) == [f EXCEPT ![y] = f[x], ![x] = y]

(***************************************************************************)
(* The link that led to x leads to y.                                      *)
(***************************************************************************)
Rehung(n, t, x, y) ==
  \A q \in t.nodes : /\ t.left[q] = x => n.left[q] = y
                     /\ t.right[q] = x => n.right[q] = y

(***************************************************************************)
(* right_rotate keeps a tree sound, with the interval of x passed on to y, *)
(* and the left subtree of y in its place: the zig-zig step rotates at it  *)
(* next.                                                                   *)
(***************************************************************************)
LEMMA RightRotateSound ==
  ASSUME NEW B \in Nat, NEW lo, NEW hi, NEW t, Sound(t, lo, hi, B),
         NEW x \in t.nodes, NEW y, y = t.left[x], y # NIL, NEW n, n = right_rotate(t, x),
         NEW lo2, NEW hi2, lo2 = Pushed(lo, x, y), hi2 = Taken(hi, x, y)
  PROVE  /\ Sound(n, lo2, hi2, B)
         /\ n.nodes = t.nodes /\ n.node_count = t.node_count
         /\ lo2[y] = lo[x] /\ hi2[y] = hi[x] /\ n.left[y] = t.left[y]
         /\ Rehung(n, t, x, y)
<1> DEFINE a == t.right[y]
           p == t.parent[x]
<1>1. /\ t \in Trees /\ t.nodes \subseteq Keys /\ lo \in [Keys -> 0 .. B]
      /\ hi \in [Keys -> 0 .. B] /\ t.root # NIL /\ NIL \notin t.nodes
  BY KeysAssumption DEF Sound, Trees, NIL
<1>2. /\ x \in Keys /\ x \in Nat /\ x # NIL /\ lo[x] \in Nat /\ hi[x] \in Nat /\ hi[x] <= B
      /\ lo[x] < x /\ x < hi[x] /\ y \in t.nodes /\ t.parent[y] = x
      /\ t.right[x] # NIL => t.right[x] \in t.nodes /\ t.parent[t.right[x]] = x
  BY SoundNode
<1>3. lo[y] = lo[x] /\ hi[y] = x
  BY SoundNode
<1>4. /\ y \in Keys /\ y \in Nat /\ lo[y] < y /\ y < hi[y]
      /\ t.left[y] # NIL => t.left[y] \in t.nodes /\ t.parent[t.left[y]] = y
      /\ a # NIL => a \in t.nodes /\ t.parent[a] = y
  BY <1>2, SoundNode
<1>5. a # NIL => lo[a] = y /\ hi[a] = x
  BY <1>2, SoundNode
<1>6. x # t.root => /\ p \in t.nodes /\ p \in Nat /\ lo[p] <= lo[x] /\ hi[x] <= hi[p]
                    /\ p <= lo[x] \/ hi[x] <= p
                    /\ x = t.left[p] \/ x = t.right[p]
  <2>1. SUFFICES ASSUME x # t.root
                 PROVE  /\ p \in t.nodes /\ p \in Nat /\ lo[p] <= lo[x] /\ hi[x] <= hi[p]
                        /\ p <= lo[x] \/ hi[x] <= p
                        /\ x = t.left[p] \/ x = t.right[p]
    OBVIOUS
  <2>2. /\ p \in t.nodes /\ p \in Nat
        /\ \/ x = t.left[p] /\ lo[x] = lo[p] /\ hi[x] = p
           \/ x = t.right[p] /\ lo[x] = p /\ hi[x] = hi[p]
        /\ lo[p] < p /\ p < hi[p] /\ lo[p] \in Nat /\ hi[p] \in Nat
    BY <2>1, Below
  <2> HIDE DEF p
  <2> QED
    BY <2>2
<1>7. x = t.root <=> p = NIL
  BY <1>1, <1>6, SoundNode
<1>8. x # y /\ p # x /\ p # y
  <2>1. x # y
    BY <1>2, <1>3, <1>4
  <2>2. p = NIL => p # x /\ p # y
    BY <1>1, <1>2
  <2>3. p # NIL => p # x /\ p # y
    <3> HIDE DEF p
    <3> QED
      BY <1>2, <1>3, <1>4, <1>6, <1>7
  <2> QED
    BY <2>1, <2>2, <2>3
<1>9. a # x /\ a # y
  <2>1. a = NIL => a # x /\ a # y
    BY <1>1, <1>2
  <2>2. a # NIL => a # x /\ a # y
    <3>1. a # NIL => lo[a] < a /\ a < hi[a] /\ a \in Nat
      BY <1>4, SoundNode
    <3> HIDE DEF a
    <3> QED
      BY <1>2, <1>3, <1>4, <1>5, <3>1
  <2> QED
    BY <2>1, <2>2
<1>10. /\ n \in Trees /\ n.nodes = t.nodes /\ n.node_count = t.node_count
       /\ n.root = IF p = NIL THEN y ELSE t.root
       /\ n.left[x] = a /\ n.right[y] = x /\ n.parent[x] = y /\ n.parent[y] = p
       /\ n.right[x] = t.right[x] /\ n.left[y] = t.left[y]
       /\ a # NIL => n.parent[a] = x
       /\ \A k \in Keys :
            /\ k \notin {x, y, a} => n.parent[k] = t.parent[k]
            /\ k \notin {x, y} =>
                 /\ n.left[k] = IF k = p /\ x = t.left[p] THEN y ELSE t.left[k]
                 /\ n.right[k] = IF k = p /\ x # t.left[p] THEN y ELSE t.right[k]
  <2>1. RightRotated(n, t, x, y, a, p)
    BY <1>1, <1>2, <1>4, <1>8, <1>9, RightRotateForm
  <2> HIDE DEF a, p
  <2> QED
    BY <2>1 DEF RightRotated
<1> HIDE DEF a, p
<1>11. n.nodes = t.nodes /\ n.parent[y] = p
  BY <1>10
<1>12. /\ lo2 \in [Keys -> 0 .. B] /\ hi2 \in [Keys -> 0 .. B]
       /\ lo2[y] = lo[x] /\ hi2[y] = hi[x] /\ lo2[x] = y /\ hi2[x] = hi[x]
       /\ \A k \in Keys : k \notin {x, y} => lo2[k] = lo[k] /\ hi2[k] = hi[k]
  BY <1>1, <1>2, <1>3, <1>4, <1>8 DEF Taken, Pushed
<1>13. NodeSound(n, lo2, hi2, x)
  <2>1. a # NIL => n.parent[a] = x /\ a \in n.nodes /\ lo2[a] = lo[a] /\ hi2[a] = hi[a]
    BY <1>1, <1>4, <1>9, <1>10, <1>12
  <2> DEFINE c == t.right[x]
  <2>2. c # NIL => /\ c \in t.nodes /\ t.parent[c] = x /\ c \in Keys /\ c # x
                   /\ lo[c] = x /\ hi[c] = hi[x]
    <3>1. c # NIL => lo[c] = x /\ hi[c] = hi[x]
      BY SoundNode
    <3>2. c # NIL => lo[c] < c /\ c < hi[c] /\ c \in Nat
      BY <1>2, SoundNode
    <3> HIDE DEF c
    <3> QED
      BY <1>1, <1>2, <3>1, <3>2 DEF c
  <2>3. c # NIL => c # y
    <3> HIDE DEF c
    <3> QED
      BY <1>2, <1>3, <2>2
  <2>4. c # NIL => c # a
    <3> HIDE DEF c
    <3> QED
      BY <1>4, <1>8, <2>2
  <2>5. c # NIL => n.parent[c] = x /\ c \in n.nodes /\ lo2[c] = lo[c] /\ hi2[c] = hi[c]
    <3> HIDE DEF c
    <3> QED
      BY <1>10, <1>12, <2>2, <2>3, <2>4
  <2>6. lo2[x] < x /\ x < hi2[x]
    BY <1>2, <1>3, <1>4, <1>12
  <2>7. n.right[x] = c /\ n.left[x] = a /\ n.parent[x] \in n.nodes /\ n.right[n.parent[x]] = x
    BY <1>2, <1>10
  <2> HIDE DEF c
  <2> QED
    BY <1>3, <1>5, <1>12, <2>1, <2>2, <2>5, <2>6, <2>7 DEF NodeSound
<1>14. NodeSound(n, lo2, hi2, y)
  <2> DEFINE c == t.left[y]
  <2>1. c # NIL => /\ c \in t.nodes /\ t.parent[c] = y /\ c \in Keys /\ c # y
                   /\ lo[c] = lo[y] /\ hi[c] = y
    <3>1. c # NIL => lo[c] = lo[y] /\ hi[c] = y
      BY <1>2, SoundNode
    <3>2. c # NIL => lo[c] < c /\ c < hi[c] /\ c \in Nat
      BY <1>4, SoundNode
    <3> HIDE DEF c
    <3> QED
      BY <1>1, <1>4, <3>1, <3>2 DEF c
  <2>2. c # NIL => c # x
    <3>1. c # NIL => lo[c] < c /\ c < hi[c] /\ c \in Nat
      BY <1>4, SoundNode
    <3> HIDE DEF c
    <3> QED
      BY <1>2, <1>3, <1>4, <2>1, <3>1
  <2>3. c # NIL => c # a
    <3>1. c # NIL => lo[c] < c /\ c < hi[c] /\ c \in Nat
      BY <1>4, SoundNode
    <3>2. a # NIL => lo[a] < a /\ a < hi[a] /\ a \in Nat
      BY <1>4, SoundNode
    <3> HIDE DEF c
    <3> QED
      BY <1>4, <1>5, <2>1, <3>1, <3>2
  <2>4. c # NIL => n.parent[c] = y /\ c \in n.nodes /\ lo2[c] = lo[c] /\ hi2[c] = hi[c]
    <3> HIDE DEF c
    <3> QED
      BY <1>10, <1>12, <2>1, <2>2, <2>3
  <2>5. lo2[y] < y /\ y < hi2[y]
    BY <1>2, <1>3, <1>4, <1>12
  <2>6. n.left[y] = c /\ n.right[y] = x /\ x \in n.nodes /\ n.parent[x] = y
    BY <1>10
  <2>7. y # n.root => /\ n.parent[y] \in n.nodes
                      /\ y \in {n.left[n.parent[y]], n.right[n.parent[y]]}
    BY <1>1, <1>6, <1>7, <1>8, <1>10
  <2> HIDE DEF c
  <2>8. lo2[x] = y /\ hi2[x] = hi[x]
    BY <1>3, <1>8, <1>12
  <2> QED
    BY <1>2, <1>3, <1>8, <1>12, <2>1, <2>4, <2>5, <2>6, <2>7, <2>8 DEF NodeSound
<1>15. ASSUME NEW k \in t.nodes, k # x, k # y
       PROVE  NodeSound(n, lo2, hi2, k)
  <2>1. /\ k \in Keys /\ lo[k] < k /\ k < hi[k] /\ k \in Nat /\ k # NIL
        /\ t.left[k] # NIL =>
             /\ t.left[k] \in t.nodes /\ t.parent[t.left[k]] = k
             /\ lo[t.left[k]] = lo[k] /\ hi[t.left[k]] = k
        /\ t.right[k] # NIL =>
             /\ t.right[k] \in t.nodes /\ t.parent[t.right[k]] = k
             /\ lo[t.right[k]] = k /\ hi[t.right[k]] = hi[k]
        /\ k # t.root =>
             t.parent[k] \in t.nodes /\ k \in {t.left[t.parent[k]], t.right[t.parent[k]]}
    BY SoundNode
  <2>2. lo2[k] = lo[k] /\ hi2[k] = hi[k]
    BY <1>12, <1>15, <2>1
  <2>3. /\ n.left[k] = IF k = p /\ x = t.left[p] THEN y ELSE t.left[k]
        /\ n.right[k] = IF k = p /\ x # t.left[p] THEN y ELSE t.right[k]
    BY <1>10, <1>15, <2>1
  <2>4. ASSUME NEW c \in t.nodes, t.parent[c] = k, c # x
        PROVE  n.parent[c] = k /\ lo2[c] = lo[c] /\ hi2[c] = hi[c] /\ c # y
    <3>1. c \in Keys /\ c # y /\ c # NIL
      BY <1>1, <1>2, <1>15, <2>4
    <3>2. c # a
      BY <1>4, <1>15, <2>4, <3>1
    <3> QED
      BY <1>10, <1>12, <2>4, <3>1, <3>2
  <2>5. n.left[k] # NIL =>
             /\ n.left[k] \in n.nodes /\ n.parent[n.left[k]] = k
             /\ lo2[n.left[k]] = lo2[k] /\ hi2[n.left[k]] = k
    <3>1. CASE k = p /\ x = t.left[p]
      <4>1. n.left[k] = y /\ t.left[k] = x
        BY <2>3, <3>1
      <4>2. lo[x] = lo[k] /\ hi[x] = k
        BY <1>2, <2>1, <4>1
      <4>3. y \in n.nodes /\ n.parent[y] = k
        BY <1>2, <1>11, <3>1
      <4> QED
        BY <1>12, <2>2, <4>1, <4>2, <4>3
    <3>2. CASE ~ (k = p /\ x = t.left[p])
      <4>1. n.left[k] = t.left[k]
        BY <2>3, <3>2
      <4>2. t.left[k] # NIL => t.left[k] # x
        BY <2>1, <3>2 DEF p
      <4> DEFINE c == t.left[k]
      <4>3. c # NIL => c \in t.nodes /\ t.parent[c] = k /\ lo[c] = lo[k] /\ hi[c] = k
        BY <2>1
      <4> HIDE DEF c
      <4>4. c # NIL => n.parent[c] = k /\ lo2[c] = lo[c] /\ hi2[c] = hi[c]
        BY <2>4, <4>2, <4>3 DEF c
      <4>5. n.left[k] = c
        BY <4>1 DEF c
      <4> QED
        BY <1>11, <2>2, <4>3, <4>4, <4>5
    <3> QED
      BY <3>1, <3>2
  <2>6. n.right[k] # NIL =>
             /\ n.right[k] \in n.nodes /\ n.parent[n.right[k]] = k
             /\ lo2[n.right[k]] = k /\ hi2[n.right[k]] = hi2[k]
    <3>1. CASE k = p /\ x # t.left[p]
      <4>1. x = t.right[p]
        BY <1>6, <1>7, <2>1, <3>1
      <4>2. n.right[k] = y /\ t.right[k] = x
        BY <2>3, <3>1, <4>1
      <4>3. lo[x] = k /\ hi[x] = hi[k]
        BY <1>2, <2>1, <4>2
      <4>4. y \in n.nodes /\ n.parent[y] = k
        BY <1>2, <1>11, <3>1
      <4> QED
        BY <1>12, <2>2, <4>2, <4>3, <4>4
    <3>2. CASE ~ (k = p /\ x # t.left[p])
      <4>1. n.right[k] = t.right[k]
        BY <2>3, <3>2
      <4>2. t.right[k] # NIL => t.right[k] # x
        <5>1. SUFFICES ASSUME t.right[k] # NIL, t.right[k] = x
                       PROVE  FALSE
          OBVIOUS
        <5>2. k = p /\ x = t.left[p]
          BY <2>1, <3>2, <5>1 DEF p
        <5>3. hi[x] = k /\ lo[x] = k
          BY <1>2, <2>1, <5>1, <5>2
        <5> QED
          BY <1>2, <2>1, <5>3
      <4> DEFINE c == t.right[k]
      <4>3. c # NIL => c \in t.nodes /\ t.parent[c] = k /\ lo[c] = k /\ hi[c] = hi[k]
        BY <2>1
      <4> HIDE DEF c
      <4>4. c # NIL => n.parent[c] = k /\ lo2[c] = lo[c] /\ hi2[c] = hi[c]
        BY <2>4, <4>2, <4>3 DEF c
      <4>5. n.right[k] = c
        BY <4>1 DEF c
      <4> QED
        BY <1>11, <2>2, <4>3, <4>4, <4>5
    <3> QED
      BY <3>1, <3>2
  <2>7. k # n.root => n.parent[k] \in n.nodes /\ k \in {n.left[n.parent[k]], n.right[n.parent[k]]}
    <3>1. CASE k = a
      BY <1>2, <1>10, <2>1, <3>1
    <3>2. CASE k # a
      <4> DEFINE q == t.parent[k]
      <4>1. n.parent[k] = q /\ n.nodes = t.nodes
        BY <1>10, <1>15, <2>1, <3>2
      <4>2. SUFFICES ASSUME k # n.root
                     PROVE  q \in t.nodes /\ k \in {n.left[q], n.right[q]}
        BY <4>1
      <4>3. k # t.root
        <5>1. CASE p = NIL
          BY <1>7, <1>15, <5>1
        <5>2. CASE p # NIL
          BY <1>10, <4>2, <5>2
        <5> QED
          BY <5>1, <5>2
      <4>4. q \in t.nodes /\ q \in Keys /\ k \in {t.left[q], t.right[q]}
        BY <1>1, <2>1, <4>3
      <4>5. CASE q = x
        BY <1>10, <1>15, <4>4, <4>5
      <4>6. CASE q = y
        BY <1>10, <3>2, <4>4, <4>6 DEF a
      <4>7. CASE q # x /\ q # y
        <5>1. /\ n.left[q] = IF q = p /\ x = t.left[p] THEN y ELSE t.left[q]
              /\ n.right[q] = IF q = p /\ x # t.left[p] THEN y ELSE t.right[q]
          BY <1>10, <4>4, <4>7
        <5>2. CASE q # p
          BY <4>4, <5>1, <5>2
        <5>3. CASE q = p
          <6>1. x = t.left[p] \/ x = t.right[p]
            BY <1>1, <1>6, <1>7, <4>4, <5>3
          <6> QED
            BY <1>15, <4>4, <5>1, <5>3, <6>1
        <5> QED
          BY <5>2, <5>3
      <4> QED
        BY <4>5, <4>6, <4>7
    <3> QED
      BY <3>1, <3>2
  <2> QED
    BY <2>1, <2>2, <2>5, <2>6, <2>7 DEF NodeSound
<1>16. n.root # NIL /\ n.root \in n.nodes /\ n.parent[n.root] = NIL /\ lo2[n.root] = 0 /\ hi2[n.root] = B
  <2>1. lo[t.root] = 0 /\ hi[t.root] = B /\ t.root \in t.nodes /\ t.parent[t.root] = NIL
    BY <1>1 DEF Sound
  <2>2. CASE p = NIL
    BY <1>1, <1>2, <1>7, <1>10, <1>12, <2>1, <2>2
  <2>3. CASE p # NIL
    <3>1. n.root = t.root /\ t.root # x
      BY <1>7, <1>10, <2>3
    <3>2. t.root # y /\ t.root # a
      BY <1>1, <1>2, <1>4, <2>1
    <3> QED
      BY <1>1, <1>10, <1>12, <2>1, <3>1, <3>2
  <2> QED
    BY <2>2, <2>3
<1>17. ASSUME NEW k \in Keys \ n.nodes
       PROVE  n.left[k] = NIL /\ n.right[k] = NIL /\ n.parent[k] = NIL
  <2>1. k \notin t.nodes /\ t.left[k] = NIL /\ t.right[k] = NIL /\ t.parent[k] = NIL
    BY <1>10 DEF Sound
  <2>2. k # x /\ k # y /\ k # a /\ k # p
    BY <1>1, <1>2, <1>4, <1>6, <1>7, <2>1, KeysAssumption DEF NIL
  <2> QED
    BY <1>10, <2>1, <2>2
<1>18. Sound(n, lo2, hi2, B)
  BY <1>10, <1>12, <1>13, <1>14, <1>15, <1>16, <1>17 DEF Sound
<1>19. ASSUME NEW q \in t.nodes
       PROVE  /\ t.left[q] = x => n.left[q] = y
              /\ t.right[q] = x => n.right[q] = y
  <2>1. /\ q \in Keys /\ q \in Nat
        /\ t.left[q] = x => p = q /\ hi[x] = q
        /\ t.right[q] = x => p = q /\ lo[x] = q
    BY <1>2, SoundNode DEF p
  <2>2. SUFFICES ASSUME p = q
                 PROVE  /\ t.left[q] = x => n.left[q] = y
                        /\ t.right[q] = x => n.right[q] = y
    BY <2>1
  <2>3. t.right[q] = x => x # t.left[q]
    BY <1>2, <2>1
  <2> QED
    BY <1>8, <1>10, <2>1, <2>2, <2>3
<1> QED
  BY <1>10, <1>12, <1>18, <1>19 DEF Rehung

(***************************************************************************)
(* left_rotate keeps a tree sound, the mirror image.                       *)
(***************************************************************************)
LEMMA LeftRotateSound ==
  ASSUME NEW B \in Nat, NEW lo, NEW hi, NEW t, Sound(t, lo, hi, B),
         NEW x \in t.nodes, NEW y, y = t.right[x], y # NIL, NEW n, n = left_rotate(t, x),
         NEW lo2, NEW hi2, lo2 = Taken(lo, x, y), hi2 = Pushed(hi, x, y)
  PROVE  /\ Sound(n, lo2, hi2, B)
         /\ n.nodes = t.nodes /\ n.node_count = t.node_count
         /\ lo2[y] = lo[x] /\ hi2[y] = hi[x] /\ n.right[y] = t.right[y]
         /\ Rehung(n, t, x, y)
<1> DEFINE a == t.left[y]
           p == t.parent[x]
<1>1. /\ t \in Trees /\ t.nodes \subseteq Keys /\ lo \in [Keys -> 0 .. B]
      /\ hi \in [Keys -> 0 .. B] /\ t.root # NIL /\ NIL \notin t.nodes
  BY KeysAssumption DEF Sound, Trees, NIL
<1>2. /\ x \in Keys /\ x \in Nat /\ x # NIL /\ lo[x] \in Nat /\ hi[x] \in Nat /\ hi[x] <= B
      /\ lo[x] < x /\ x < hi[x] /\ y \in t.nodes /\ t.parent[y] = x
      /\ t.left[x] # NIL => t.left[x] \in t.nodes /\ t.parent[t.left[x]] = x
  BY SoundNode
<1>3. lo[y] = x /\ hi[y] = hi[x]
  BY SoundNode
<1>4. /\ y \in Keys /\ y \in Nat /\ lo[y] < y /\ y < hi[y]
      /\ t.right[y] # NIL => t.right[y] \in t.nodes /\ t.parent[t.right[y]] = y
      /\ a # NIL => a \in t.nodes /\ t.parent[a] = y
  BY <1>2, SoundNode
<1>5. a # NIL => lo[a] = x /\ hi[a] = y
  BY <1>2, SoundNode
<1>6. x # t.root => /\ p \in t.nodes /\ p \in Nat /\ lo[p] <= lo[x] /\ hi[x] <= hi[p]
                    /\ p <= lo[x] \/ hi[x] <= p
                    /\ x = t.left[p] \/ x = t.right[p]
  <2>1. SUFFICES ASSUME x # t.root
                 PROVE  /\ p \in t.nodes /\ p \in Nat /\ lo[p] <= lo[x] /\ hi[x] <= hi[p]
                        /\ p <= lo[x] \/ hi[x] <= p
                        /\ x = t.left[p] \/ x = t.right[p]
    OBVIOUS
  <2>2. /\ p \in t.nodes /\ p \in Nat
        /\ \/ x = t.left[p] /\ lo[x] = lo[p] /\ hi[x] = p
           \/ x = t.right[p] /\ lo[x] = p /\ hi[x] = hi[p]
        /\ lo[p] < p /\ p < hi[p] /\ lo[p] \in Nat /\ hi[p] \in Nat
    BY <2>1, Below
  <2> HIDE DEF p
  <2> QED
    BY <2>2
<1>7. x = t.root <=> p = NIL
  BY <1>1, <1>6, SoundNode
<1>8. x # y /\ p # x /\ p # y
  <2>1. x # y
    BY <1>2, <1>3, <1>4
  <2>2. p = NIL => p # x /\ p # y
    BY <1>1, <1>2
  <2>3. p # NIL => p # x /\ p # y
    <3> HIDE DEF p
    <3> QED
      BY <1>2, <1>3, <1>4, <1>6, <1>7
  <2> QED
    BY <2>1, <2>2, <2>3
<1>9. a # x /\ a # y
  <2>1. a = NIL => a # x /\ a # y
    BY <1>1, <1>2
  <2>2. a # NIL => a # x /\ a # y
    <3>1. a # NIL => lo[a] < a /\ a < hi[a] /\ a \in Nat
      BY <1>4, SoundNode
    <3> HIDE DEF a
    <3> QED
      BY <1>2, <1>3, <1>4, <1>5, <3>1
  <2> QED
    BY <2>1, <2>2
<1>10. /\ n \in Trees /\ n.nodes = t.nodes /\ n.node_count = t.node_count
       /\ n.root = IF p = NIL THEN y ELSE t.root
       /\ n.right[x] = a /\ n.left[y] = x /\ n.parent[x] = y /\ n.parent[y] = p
       /\ n.left[x] = t.left[x] /\ n.right[y] = t.right[y]
       /\ a # NIL => n.parent[a] = x
       /\ \A k \in Keys :
            /\ k \notin {x, y, a} => n.parent[k] = t.parent[k]
            /\ k \notin {x, y} =>
                 /\ n.left[k] = IF k = p /\ x = t.left[p] THEN y ELSE t.left[k]
                 /\ n.right[k] = IF k = p /\ x # t.left[p] THEN y ELSE t.right[k]
  <2>1. LeftRotated(n, t, x, y, a, p)
    BY <1>1, <1>2, <1>4, <1>8, <1>9, LeftRotateForm
  <2> HIDE DEF a, p
  <2> QED
    BY <2>1 DEF LeftRotated
<1> HIDE DEF a, p
<1>11. n.nodes = t.nodes /\ n.parent[y] = p
  BY <1>10
<1>12. /\ lo2 \in [Keys -> 0 .. B] /\ hi2 \in [Keys -> 0 .. B]
       /\ lo2[y] = lo[x] /\ hi2[y] = hi[x] /\ lo2[x] = lo[x] /\ hi2[x] = y
       /\ \A k \in Keys : k \notin {x, y} => lo2[k] = lo[k] /\ hi2[k] = hi[k]
  BY <1>1, <1>2, <1>3, <1>4, <1>8 DEF Taken, Pushed
<1>13. NodeSound(n, lo2, hi2, x)
  <2>1. a # NIL => n.parent[a] = x /\ a \in n.nodes /\ lo2[a] = lo[a] /\ hi2[a] = hi[a]
    BY <1>1, <1>4, <1>9, <1>10, <1>12
  <2> DEFINE c == t.left[x]
  <2>2. c # NIL => /\ c \in t.nodes /\ t.parent[c] = x /\ c \in Keys /\ c # x
                   /\ lo[c] = lo[x] /\ hi[c] = x
    <3>1. c # NIL => lo[c] = lo[x] /\ hi[c] = x
      BY SoundNode
    <3>2. c # NIL => lo[c] < c /\ c < hi[c] /\ c \in Nat
      BY <1>2, SoundNode
    <3> HIDE DEF c
    <3> QED
      BY <1>1, <1>2, <3>1, <3>2 DEF c
  <2>3. c # NIL => c # y
    <3> HIDE DEF c
    <3> QED
      BY <1>2, <1>3, <2>2
  <2>4. c # NIL => c # a
    <3> HIDE DEF c
    <3> QED
      BY <1>4, <1>8, <2>2
  <2>5. c # NIL => n.parent[c] = x /\ c \in n.nodes /\ lo2[c] = lo[c] /\ hi2[c] = hi[c]
    <3> HIDE DEF c
    <3> QED
      BY <1>10, <1>12, <2>2, <2>3, <2>4
  <2>6. lo2[x] < x /\ x < hi2[x]
    BY <1>2, <1>3, <1>4, <1>12
  <2>7. n.left[x] = c /\ n.right[x] = a /\ n.parent[x] \in n.nodes /\ n.left[n.parent[x]] = x
    BY <1>2, <1>10
  <2> HIDE DEF c
  <2> QED
    BY <1>3, <1>5, <1>12, <2>1, <2>2, <2>5, <2>6, <2>7 DEF NodeSound
<1>14. NodeSound(n, lo2, hi2, y)
  <2> DEFINE c == t.right[y]
  <2>1. c # NIL => /\ c \in t.nodes /\ t.parent[c] = y /\ c \in Keys /\ c # y
                   /\ lo[c] = y /\ hi[c] = hi[y]
    <3>1. c # NIL => lo[c] = y /\ hi[c] = hi[y]
      BY <1>2, SoundNode
    <3>2. c # NIL => lo[c] < c /\ c < hi[c] /\ c \in Nat
      BY <1>4, SoundNode
    <3> HIDE DEF c
    <3> QED
      BY <1>1, <1>4, <3>1, <3>2 DEF c
  <2>2. c # NIL => c # x
    <3>1. c # NIL => lo[c] < c /\ c < hi[c] /\ c \in Nat
      BY <1>4, SoundNode
    <3> HIDE DEF c
    <3> QED
      BY <1>2, <1>3, <1>4, <2>1, <3>1
  <2>3. c # NIL => c # a
    <3>1. c # NIL => lo[c] < c /\ c < hi[c] /\ c \in Nat
      BY <1>4, SoundNode
    <3>2. a # NIL => lo[a] < a /\ a < hi[a] /\ a \in Nat
      BY <1>4, SoundNode
    <3> HIDE DEF c
    <3> QED
      BY <1>4, <1>5, <2>1, <3>1, <3>2
  <2>4. c # NIL => n.parent[c] = y /\ c \in n.nodes /\ lo2[c] = lo[c] /\ hi2[c] = hi[c]
    <3> HIDE DEF c
    <3> QED
      BY <1>10, <1>12, <2>1, <2>2, <2>3
  <2>5. lo2[y] < y /\ y < hi2[y]
    BY <1>2, <1>3, <1>4, <1>12
  <2>6. n.right[y] = c /\ n.left[y] = x /\ x \in n.nodes /\ n.parent[x] = y
    BY <1>10
  <2>7. y # n.root => /\ n.parent[y] \in n.nodes
                      /\ y \in {n.left[n.parent[y]], n.right[n.parent[y]]}
    BY <1>1, <1>6, <1>7, <1>8, <1>10
  <2> HIDE DEF c
  <2>8. lo2[x] = lo[x] /\ hi2[x] = y
    BY <1>3, <1>8, <1>12
  <2> QED
    BY <1>2, <1>3, <1>8, <1>12, <2>1, <2>4, <2>5, <2>6, <2>7, <2>8 DEF NodeSound
<1>15. ASSUME NEW k \in t.nodes, k # x, k # y
       PROVE  NodeSound(n, lo2, hi2, k)
  <2>1. /\ k \in Keys /\ lo[k] < k /\ k < hi[k] /\ k \in Nat /\ k # NIL
        /\ t.left[k] # NIL =>
             /\ t.left[k] \in t.nodes /\ t.parent[t.left[k]] = k
             /\ lo[t.left[k]] = lo[k] /\ hi[t.left[k]] = k
        /\ t.right[k] # NIL =>
             /\ t.right[k] \in t.nodes /\ t.parent[t.right[k]] = k
             /\ lo[t.right[k]] = k /\ hi[t.right[k]] = hi[k]
        /\ k # t.root =>
             t.parent[k] \in t.nodes /\ k \in {t.left[t.parent[k]], t.right[t.parent[k]]}
    BY SoundNode
  <2>2. lo2[k] = lo[k] /\ hi2[k] = hi[k]
    BY <1>12, <1>15, <2>1
  <2>3. /\ n.left[k] = IF k = p /\ x = t.left[p] THEN y ELSE t.left[k]
        /\ n.right[k] = IF k = p /\ x # t.left[p] THEN y ELSE t.right[k]
    BY <1>10, <1>15, <2>1
  <2>4. ASSUME NEW c \in t.nodes, t.parent[c] = k, c # x
        PROVE  n.parent[c] = k /\ lo2[c] = lo[c] /\ hi2[c] = hi[c] /\ c # y
    <3>1. c \in Keys /\ c # y /\ c # NIL
      BY <1>1, <1>2, <1>15, <2>4
    <3>2. c # a
      BY <1>4, <1>15, <2>4, <3>1
    <3> QED
      BY <1>10, <1>12, <2>4, <3>1, <3>2
  <2>5. n.left[k] # NIL =>
             /\ n.left[k] \in n.nodes /\ n.parent[n.left[k]] = k
             /\ lo2[n.left[k]] = lo2[k] /\ hi2[n.left[k]] = k
    <3>1. CASE k = p /\ x = t.left[p]
      <4>1. n.left[k] = y /\ t.left[k] = x
        BY <2>3, <3>1
      <4>2. lo[x] = lo[k] /\ hi[x] = k
        BY <1>2, <2>1, <4>1
      <4>3. y \in n.nodes /\ n.parent[y] = k
        BY <1>2, <1>11, <3>1
      <4> QED
        BY <1>12, <2>2, <4>1, <4>2, <4>3
    <3>2. CASE ~ (k = p /\ x = t.left[p])
      <4>1. n.left[k] = t.left[k]
        BY <2>3, <3>2
      <4>2. t.left[k] # NIL => t.left[k] # x
        BY <2>1, <3>2 DEF p
      <4> DEFINE c == t.left[k]
      <4>3. c # NIL => c \in t.nodes /\ t.parent[c] = k /\ lo[c] = lo[k] /\ hi[c] = k
        BY <2>1
      <4> HIDE DEF c
      <4>4. c # NIL => n.parent[c] = k /\ lo2[c] = lo[c] /\ hi2[c] = hi[c]
        BY <2>4, <4>2, <4>3 DEF c
      <4>5. n.left[k] = c
        BY <4>1 DEF c
      <4> QED
        BY <1>11, <2>2, <4>3, <4>4, <4>5
    <3> QED
      BY <3>1, <3>2
  <2>6. n.right[k] # NIL =>
             /\ n.right[k] \in n.nodes /\ n.parent[n.right[k]] = k
             /\ lo2[n.right[k]] = k /\ hi2[n.right[k]] = hi2[k]
    <3>1. CASE k = p /\ x # t.left[p]
      <4>1. x = t.right[p]
        BY <1>6, <1>7, <2>1, <3>1
      <4>2. n.right[k] = y /\ t.right[k] = x
        BY <2>3, <3>1, <4>1
      <4>3. lo[x] = k /\ hi[x] = hi[k]
        BY <1>2, <2>1, <4>2
      <4>4. y \in n.nodes /\ n.parent[y] = k
        BY <1>2, <1>11, <3>1
      <4> QED
        BY <1>12, <2>2, <4>2, <4>3, <4>4
    <3>2. CASE ~ (k = p /\ x # t.left[p])
      <4>1. n.right[k] = t.right[k]
        BY <2>3, <3>2
      <4>2. t.right[k] # NIL => t.right[k] # x
        <5>1. SUFFICES ASSUME t.right[k] # NIL, t.right[k] = x
                       PROVE  FALSE
          OBVIOUS
        <5>2. k = p /\ x = t.left[p]
          BY <2>1, <3>2, <5>1 DEF p
        <5>3. hi[x] = k /\ lo[x] = k
          BY <1>2, <2>1, <5>1, <5>2
        <5> QED
          BY <1>2, <2>1, <5>3
      <4> DEFINE c == t.right[k]
      <4>3. c # NIL => c \in t.nodes /\ t.parent[c] = k /\ lo[c] = k /\ hi[c] = hi[k]
        BY <2>1
      <4> HIDE DEF c
      <4>4. c # NIL => n.parent[c] = k /\ lo2[c] = lo[c] /\ hi2[c] = hi[c]
        BY <2>4, <4>2, <4>3 DEF c
      <4>5. n.right[k] = c
        BY <4>1 DEF c
      <4> QED
        BY <1>11, <2>2, <4>3, <4>4, <4>5
    <3> QED
      BY <3>1, <3>2
  <2>7. k # n.root => n.parent[k] \in n.nodes /\ k \in {n.left[n.parent[k]], n.right[n.parent[k]]}
    <3>1. CASE k = a
      BY <1>2, <1>10, <2>1, <3>1
    <3>2. CASE k # a
      <4> DEFINE q == t.parent[k]
      <4>1. n.parent[k] = q /\ n.nodes = t.nodes
        BY <1>10, <1>15, <2>1, <3>2
      <4>2. SUFFICES ASSUME k # n.root
                     PROVE  q \in t.nodes /\ k \in {n.left[q], n.right[q]}
        BY <4>1
      <4>3. k # t.root
        <5>1. CASE p = NIL
          BY <1>7, <1>15, <5>1
        <5>2. CASE p # NIL
          BY <1>10, <4>2, <5>2
        <5> QED
          BY <5>1, <5>2
      <4>4. q \in t.nodes /\ q \in Keys /\ k \in {t.left[q], t.right[q]}
        BY <1>1, <2>1, <4>3
      <4>5. CASE q = x
        BY <1>10, <1>15, <4>4, <4>5
      <4>6. CASE q = y
        BY <1>10, <3>2, <4>4, <4>6 DEF a
      <4>7. CASE q # x /\ q # y
        <5>1. /\ n.left[q] = IF q = p /\ x = t.left[p] THEN y ELSE t.left[q]
              /\ n.right[q] = IF q = p /\ x # t.left[p] THEN y ELSE t.right[q]
          BY <1>10, <4>4, <4>7
        <5>2. CASE q # p
          BY <4>4, <5>1, <5>2
        <5>3. CASE q = p
          <6>1. x = t.left[p] \/ x = t.right[p]
            BY <1>1, <1>6, <1>7, <4>4, <5>3
          <6> QED
            BY <1>15, <4>4, <5>1, <5>3, <6>1
        <5> QED
          BY <5>2, <5>3
      <4> QED
        BY <4>5, <4>6, <4>7
    <3> QED
      BY <3>1, <3>2
  <2> QED
    BY <2>1, <2>2, <2>5, <2>6, <2>7 DEF NodeSound
<1>16. n.root # NIL /\ n.root \in n.nodes /\ n.parent[n.root] = NIL /\ lo2[n.root] = 0 /\ hi2[n.root] = B
  <2>1. lo[t.root] = 0 /\ hi[t.root] = B /\ t.root \in t.nodes /\ t.parent[t.root] = NIL
    BY <1>1 DEF Sound
  <2>2. CASE p = NIL
    BY <1>1, <1>2, <1>7, <1>10, <1>12, <2>1, <2>2
  <2>3. CASE p # NIL
    <3>1. n.root = t.root /\ t.root # x
      BY <1>7, <1>10, <2>3
    <3>2. t.root # y /\ t.root # a
      BY <1>1, <1>2, <1>4, <2>1
    <3> QED
      BY <1>1, <1>10, <1>12, <2>1, <3>1, <3>2
  <2> QED
    BY <2>2, <2>3
<1>17. ASSUME NEW k \in Keys \ n.nodes
       PROVE  n.left[k] = NIL /\ n.right[k] = NIL /\ n.parent[k] = NIL
  <2>1. k \notin t.nodes /\ t.left[k] = NIL /\ t.right[k] = NIL /\ t.parent[k] = NIL
    BY <1>10 DEF Sound
  <2>2. k # x /\ k # y /\ k # a /\ k # p
    BY <1>1, <1>2, <1>4, <1>6, <1>7, <2>1, KeysAssumption DEF NIL
  <2> QED
    BY <1>10, <2>1, <2>2
<1>18. Sound(n, lo2, hi2, B)
  BY <1>10, <1>12, <1>13, <1>14, <1>15, <1>16, <1>17 DEF Sound
<1>19. ASSUME NEW q \in t.nodes
       PROVE  /\ t.left[q] = x => n.left[q] = y
              /\ t.right[q] = x => n.right[q] = y
  <2>1. /\ q \in Keys /\ q \in Nat
        /\ t.left[q] = x => p = q /\ hi[x] = q
        /\ t.right[q] = x => p = q /\ lo[x] = q
    BY <1>2, SoundNode DEF p
  <2>2. SUFFICES ASSUME p = q
                 PROVE  /\ t.left[q] = x => n.left[q] = y
                        /\ t.right[q] = x => n.right[q] = y
    BY <2>1
  <2>3. t.right[q] = x => x # t.left[q]
    BY <1>2, <2>1
  <2> QED
    BY <1>8, <1>10, <2>1, <2>2, <2>3
<1> QED
  BY <1>10, <1>12, <1>18, <1>19 DEF Rehung

-----------------------------------------------------------------------------

(***************************************************************************)
(* The six cases of one turn of the loop of splay: zig, zig-zig            *)
(* (grandparent first) and zig-zag (parent first), each with its mirror    *)
(* image.                                                                  *)
(***************************************************************************)
LEMMA SplayStepForm ==
  ASSUME NEW t, NEW x, NEW p, p = t.parent[x], p # NIL, NEW g, g = t.parent[p],
         NEW n, n = splay_step(t, x)
  PROVE  /\ g = NIL /\ t.left[p] = x => n = right_rotate(t, p)
         /\ g = NIL /\ t.left[p] # x => n = left_rotate(t, p)
         /\ g # NIL /\ t.left[p] = x /\ t.left[g] = p => n = right_rotate(right_rotate(t, g), p)
         /\ g # NIL /\ t.left[p] # x /\ t.left[g] # p => n = left_rotate(left_rotate(t, g), p)
         /\ g # NIL /\ t.left[p] = x /\ t.left[g] # p => n = left_rotate(right_rotate(t, p), g)
         /\ g # NIL /\ t.left[p] # x /\ t.left[g] = p => n = right_rotate(left_rotate(t, p), g)
BY DEF splay_step

(***************************************************************************)
(* n is a sound tree of the nodes of t in which x has the interval that u  *)
(* had in t.                                                               *)
(***************************************************************************)
Raised(n, t, lo, hi, B, x, u) ==
  /\ n.nodes = t.nodes /\ n.node_count = t.node_count
  /\ \E lo2, hi2 : Sound(n, lo2, hi2, B) /\ lo2[x] = lo[u] /\ hi2[x] = hi[u]

(***************************************************************************)
(* Two rotations that raise first p to the place of g and then x to the    *)
(* place of p raise x to the place of g.                                   *)
(***************************************************************************)
LEMMA TwoUp ==
  ASSUME NEW B, NEW lo, NEW hi, NEW t, NEW n1, NEW n, NEW x, NEW p, NEW g, NEW lo1, NEW hi1,
         n1.nodes = t.nodes, n1.node_count = t.node_count,
         lo1[p] = lo[g], hi1[p] = hi[g], Raised(n, n1, lo1, hi1, B, x, p)
  PROVE  Raised(n, t, lo, hi, B, x, g)
BY DEF Raised

(***************************************************************************)
(* right_rotate at u raises its left child to the place of u.              *)
(***************************************************************************)
LEMMA RightLift ==
  ASSUME NEW B \in Nat, NEW lo, NEW hi, NEW t, Sound(t, lo, hi, B),
         NEW u \in t.nodes, NEW x, x = t.left[u], x # NIL, NEW n, n = right_rotate(t, u)
  PROVE  Raised(n, t, lo, hi, B, x, u)
<1> DEFINE lo2 == Pushed(lo, u, x)
           hi2 == Taken(hi, u, x)
<1>1. /\ Sound(n, lo2, hi2, B) /\ n.nodes = t.nodes /\ n.node_count = t.node_count
      /\ lo2[x] = lo[u] /\ hi2[x] = hi[u]
  BY RightRotateSound
<1> HIDE DEF lo2, hi2
<1> QED
  BY <1>1 DEF Raised

(***************************************************************************)
(* left_rotate at u raises its right child to the place of u.              *)
(***************************************************************************)
LEMMA LeftLift ==
  ASSUME NEW B \in Nat, NEW lo, NEW hi, NEW t, Sound(t, lo, hi, B),
         NEW u \in t.nodes, NEW x, x = t.right[u], x # NIL, NEW n, n = left_rotate(t, u)
  PROVE  Raised(n, t, lo, hi, B, x, u)
<1> DEFINE lo2 == Taken(lo, u, x)
           hi2 == Pushed(hi, u, x)
<1>1. /\ Sound(n, lo2, hi2, B) /\ n.nodes = t.nodes /\ n.node_count = t.node_count
      /\ lo2[x] = lo[u] /\ hi2[x] = hi[u]
  BY LeftRotateSound
<1> HIDE DEF lo2, hi2
<1> QED
  BY <1>1 DEF Raised

(***************************************************************************)
(* One turn of the loop of splay keeps the tree sound and gives x the      *)
(* wider interval of its parent or grandparent.                            *)
(***************************************************************************)
LEMMA StepSound ==
  ASSUME NEW B \in Nat, NEW lo, NEW hi, NEW t, Sound(t, lo, hi, B),
         NEW x \in t.nodes, x # t.root, NEW n, n = splay_step(t, x)
  PROVE  \E u \in t.nodes : /\ Raised(n, t, lo, hi, B, x, u)
                            /\ Wide(lo, hi, x) < Wide(lo, hi, u)
<1> DEFINE p == t.parent[x]
           g == t.parent[p]
<1>1. /\ p \in t.nodes /\ p \in Nat /\ p # NIL
      /\ \/ x = t.left[p] /\ lo[x] = lo[p] /\ hi[x] = p
         \/ x = t.right[p] /\ lo[x] = p /\ hi[x] = hi[p]
      /\ lo[p] < p /\ p < hi[p] /\ lo[p] \in Nat /\ hi[p] \in Nat
  BY Below, SoundNode
<1>2. x # NIL
  BY SoundNode
<1>3. Wide(lo, hi, x) < Wide(lo, hi, p)
  BY <1>1 DEF Wide
<1>4. t.left[p] # x => t.right[p] = x
  BY <1>1
<1>5. /\ g = NIL /\ t.left[p] = x => n = right_rotate(t, p)
      /\ g = NIL /\ t.left[p] # x => n = left_rotate(t, p)
      /\ g # NIL /\ t.left[p] = x /\ t.left[g] = p => n = right_rotate(right_rotate(t, g), p)
      /\ g # NIL /\ t.left[p] # x /\ t.left[g] # p => n = left_rotate(left_rotate(t, g), p)
      /\ g # NIL /\ t.left[p] = x /\ t.left[g] # p => n = left_rotate(right_rotate(t, p), g)
      /\ g # NIL /\ t.left[p] # x /\ t.left[g] = p => n = right_rotate(left_rotate(t, p), g)
  BY <1>1, SplayStepForm
<1> HIDE DEF p, g
<1>6. CASE g = NIL
  <2>1. Raised(n, t, lo, hi, B, x, p)
    BY <1>1, <1>2, <1>4, <1>5, <1>6, RightLift, LeftLift
  <2> QED
    BY <1>1, <1>3, <2>1
<1>7. CASE g # NIL
  <2>1. p # t.root
    BY <1>1, <1>7, SoundNode DEF g
  <2>2. /\ g \in t.nodes /\ g \in Nat /\ g # NIL
        /\ \/ p = t.left[g] /\ lo[p] = lo[g] /\ hi[p] = g
           \/ p = t.right[g] /\ lo[p] = g /\ hi[p] = hi[g]
        /\ lo[g] < g /\ g < hi[g] /\ lo[g] \in Nat /\ hi[g] \in Nat
    BY <1>1, <1>7, <2>1, Below DEF g
  <2>3. Wide(lo, hi, x) < Wide(lo, hi, g)
    BY <1>1, <2>2 DEF Wide
  <2>4. t.left[g] # p => t.right[g] = p
    BY <2>2
  <2>5. CASE t.left[p] = x /\ t.left[g] = p
    <3> DEFINE n1 == right_rotate(t, g)
               lo1 == Pushed(lo, g, p)
               hi1 == Taken(hi, g, p)
    <3>1. /\ Sound(n1, lo1, hi1, B) /\ n1.nodes = t.nodes /\ n1.node_count = t.node_count
          /\ lo1[p] = lo[g] /\ hi1[p] = hi[g] /\ n1.left[p] = t.left[p]
      BY <1>1, <2>2, <2>5, RightRotateSound
    <3>2. n = right_rotate(n1, p)
      BY <1>5, <1>7, <2>5
    <3> HIDE DEF n1, lo1, hi1
    <3>3. Raised(n, n1, lo1, hi1, B, x, p)
      BY <1>1, <1>2, <2>5, <3>1, <3>2, RightLift
    <3>4. Raised(n, t, lo, hi, B, x, g)
      BY <3>1, <3>3, TwoUp
    <3> QED
      BY <2>2, <2>3, <3>4
  <2>6. CASE t.left[p] # x /\ t.left[g] # p
    <3> DEFINE n1 == left_rotate(t, g)
               lo1 == Taken(lo, g, p)
               hi1 == Pushed(hi, g, p)
    <3>1. /\ Sound(n1, lo1, hi1, B) /\ n1.nodes = t.nodes /\ n1.node_count = t.node_count
          /\ lo1[p] = lo[g] /\ hi1[p] = hi[g] /\ n1.right[p] = t.right[p]
      BY <1>1, <2>2, <2>4, <2>6, LeftRotateSound
    <3>2. n = left_rotate(n1, p)
      BY <1>5, <1>7, <2>6
    <3> HIDE DEF n1, lo1, hi1
    <3>3. Raised(n, n1, lo1, hi1, B, x, p)
      BY <1>1, <1>2, <1>4, <2>6, <3>1, <3>2, LeftLift
    <3>4. Raised(n, t, lo, hi, B, x, g)
      BY <3>1, <3>3, TwoUp
    <3> QED
      BY <2>2, <2>3, <3>4
  <2>7. CASE t.left[p] = x /\ t.left[g] # p
    <3> DEFINE n1 == right_rotate(t, p)
               lo1 == Pushed(lo, p, x)
               hi1 == Taken(hi, p, x)
    <3>1. x = t.left[p] /\ t.right[g] = p
      BY <2>4, <2>7
    <3>2. Sound(n1, lo1, hi1, B) /\ n1.nodes = t.nodes /\ n1.node_count = t.node_count
      BY <1>1, <1>2, <3>1, RightRotateSound
    <3>3. n1.right[g] = x
      <4>1. Rehung(n1, t, p, x)
        BY <1>1, <1>2, <3>1, RightRotateSound
      <4> QED
        BY <2>2, <3>1, <4>1 DEF Rehung
    <3>4. n = left_rotate(n1, g) /\ n1.right[g] = x
      BY <1>5, <1>7, <2>7, <3>3
    <3>5. lo1[g] = lo[g] /\ hi1[g] = hi[g]
      <4>1. g # x /\ g # p
        BY <1>1, <2>2, SoundNode
      <4>2. g \in Keys /\ lo \in [Keys -> 0 .. B] /\ hi \in [Keys -> 0 .. B]
        BY <2>2, SoundNode DEF Sound
      <4> QED
        BY <4>1, <4>2 DEF Taken, Pushed
    <3> HIDE DEF n1, lo1, hi1
    <3>6. Raised(n, n1, lo1, hi1, B, x, g)
      BY <1>2, <2>2, <3>2, <3>4, LeftLift
    <3>7. Raised(n, t, lo, hi, B, x, g)
      BY <3>2, <3>5, <3>6, TwoUp
    <3> QED
      BY <2>2, <2>3, <3>7
  <2>8. CASE t.left[p] # x /\ t.left[g] = p
    <3> DEFINE n1 == left_rotate(t, p)
               lo1 == Taken(lo, p, x)
               hi1 == Pushed(hi, p, x)
    <3>1. x = t.right[p] /\ t.left[g] = p
      BY <1>4, <2>4, <2>8
    <3>2. Sound(n1, lo1, hi1, B) /\ n1.nodes = t.nodes /\ n1.node_count = t.node_count
      BY <1>1, <1>2, <3>1, LeftRotateSound
    <3>3. n1.left[g] = x
      <4>1. Rehung(n1, t, p, x)
        BY <1>1, <1>2, <3>1, LeftRotateSound
      <4> QED
        BY <2>2, <3>1, <4>1 DEF Rehung
    <3>4. n = right_rotate(n1, g) /\ n1.left[g] = x
      BY <1>5, <1>7, <2>8, <3>3
    <3>5. lo1[g] = lo[g] /\ hi1[g] = hi[g]
      <4>1. g # x /\ g # p
        BY <1>1, <2>2, SoundNode
      <4>2. g \in Keys /\ lo \in [Keys -> 0 .. B] /\ hi \in [Keys -> 0 .. B]
        BY <2>2, SoundNode DEF Sound
      <4> QED
        BY <4>1, <4>2 DEF Taken, Pushed
    <3> HIDE DEF n1, lo1, hi1
    <3>6. Raised(n, n1, lo1, hi1, B, x, g)
      BY <1>2, <2>2, <3>2, <3>4, RightLift
    <3>7. Raised(n, t, lo, hi, B, x, g)
      BY <3>2, <3>5, <3>6, TwoUp
    <3> QED
      BY <2>2, <2>3, <3>7
  <2> QED
    BY <2>5, <2>6, <2>7, <2>8
<1> QED
  BY <1>6, <1>7

(***************************************************************************)
(* A store of a link keeps the type of the tree.                           *)
(***************************************************************************)
LEMMA PutType ==
  ASSUME NEW t \in Trees, NEW n \in Ptr, NEW v \in Ptr
  PROVE  PutLeft(t, n, v) \in Trees /\ PutRight(t, n, v) \in Trees /\ PutParent(t, n, v) \in Trees
<1>1. CASE n = NIL
  BY <1>1 DEF PutLeft, PutRight, PutParent, Link
<1>2. CASE n # NIL
  <2>1. n \in Keys
    BY <1>2 DEF Ptr
  <2>2. LeftSet(PutLeft(t, n, v), t, n, v)
    BY <2>1, LinkLeft
  <2>3. RightSet(PutRight(t, n, v), t, n, v)
    BY <2>1, LinkRight
  <2>4. ParentSet(PutParent(t, n, v), t, n, v)
    BY LinkParent
  <2> QED
    BY <2>2, <2>3, <2>4 DEF LeftSet, RightSet, ParentSet
<1> QED
  BY <1>1, <1>2

(***************************************************************************)
(* right_rotate of any node of any tree, sound or not, is a tree: splay is *)
(* a function on all of them.                                              *)
(***************************************************************************)
LEMMA RightRotateType ==
  ASSUME NEW t \in Trees, NEW x \in Keys
  PROVE  right_rotate(t, x) \in Trees
<1> DEFINE y == t.left[x]
           a == IF y = NIL THEN NIL ELSE t.right[y]
           t1 == PutParent(PutLeft(t, x, a), a, x)
           t2 == PutParent(t1, y, t.parent[x])
           t3 == Hang(t2, x, y)
           t4 == PutRight(t3, y, x)
<1>1. y \in Ptr /\ a \in Ptr /\ x \in Ptr /\ t.parent[x] \in Ptr
  BY DEF Trees, Ptr
<1>2. right_rotate(t, x) = PutParent(t4, x, y)
  <2>1. t["left"][x] = y
    OBVIOUS
  <2>2. Other("left") = "right"
    BY DEF Other
  <2> QED
    BY <2>1, <2>2 DEF right_rotate, rotate, PutLeft, PutRight, PutParent
<1> HIDE DEF y, a
<1>3. t1 \in Trees
  BY <1>1, PutType
<1> HIDE DEF t1
<1>4. t2 \in Trees
  BY <1>1, <1>3, PutType
<1> HIDE DEF t2
<1>5. t3 \in Trees
  BY <1>1, <1>4, HangForm
<1> HIDE DEF t3
<1>6. t4 \in Trees
  BY <1>1, <1>5, PutType
<1> HIDE DEF t4
<1> QED
  BY <1>1, <1>2, <1>6, PutType

(***************************************************************************)
(* left_rotate of any node of any tree is a tree.                          *)
(***************************************************************************)
LEMMA LeftRotateType ==
  ASSUME NEW t \in Trees, NEW x \in Keys
  PROVE  left_rotate(t, x) \in Trees
<1> DEFINE y == t.right[x]
           a == IF y = NIL THEN NIL ELSE t.left[y]
           t1 == PutParent(PutRight(t, x, a), a, x)
           t2 == PutParent(t1, y, t.parent[x])
           t3 == Hang(t2, x, y)
           t4 == PutLeft(t3, y, x)
<1>1. y \in Ptr /\ a \in Ptr /\ x \in Ptr /\ t.parent[x] \in Ptr
  BY DEF Trees, Ptr
<1>2. left_rotate(t, x) = PutParent(t4, x, y)
  <2>1. t["right"][x] = y
    OBVIOUS
  <2>2. Other("right") = "left"
    BY DEF Other
  <2> QED
    BY <2>1, <2>2 DEF left_rotate, rotate, PutLeft, PutRight, PutParent
<1> HIDE DEF y, a
<1>3. t1 \in Trees
  BY <1>1, PutType
<1> HIDE DEF t1
<1>4. t2 \in Trees
  BY <1>1, <1>3, PutType
<1> HIDE DEF t2
<1>5. t3 \in Trees
  BY <1>1, <1>4, HangForm
<1> HIDE DEF t3
<1>6. t4 \in Trees
  BY <1>1, <1>5, PutType
<1> HIDE DEF t4
<1> QED
  BY <1>1, <1>2, <1>6, PutType

(***************************************************************************)
(* One turn of the loop of splay is a function from trees to trees.        *)
(***************************************************************************)
LEMMA SplayStepType ==
  ASSUME NEW t \in Trees, NEW x \in Keys
  PROVE  splay_step(t, x) \in Trees
<1> DEFINE p == t.parent[x]
           g == t.parent[p]
<1>1. CASE p = NIL
  BY <1>1 DEF splay_step
<1>2. CASE p # NIL
  <2>1. p \in Keys
    BY <1>2 DEF Trees, Ptr
  <2>2. g # NIL => g \in Keys
    BY <2>1 DEF Trees, Ptr
  <2>3. right_rotate(t, p) \in Trees /\ left_rotate(t, p) \in Trees
    BY <2>1, RightRotateType, LeftRotateType
  <2>4. g # NIL => right_rotate(t, g) \in Trees /\ left_rotate(t, g) \in Trees
    BY <2>2, RightRotateType, LeftRotateType
  <2>5. /\ g # NIL => left_rotate(right_rotate(t, p), g) \in Trees
        /\ g # NIL => right_rotate(left_rotate(t, p), g) \in Trees
    BY <2>2, <2>3, RightRotateType, LeftRotateType
  <2>6. /\ g # NIL => left_rotate(left_rotate(t, g), p) \in Trees
        /\ g # NIL => right_rotate(right_rotate(t, g), p) \in Trees
    BY <2>1, <2>4, RightRotateType, LeftRotateType
  <2>7. /\ g = NIL /\ t.left[p] = x => splay_step(t, x) = right_rotate(t, p)
        /\ g = NIL /\ t.left[p] # x => splay_step(t, x) = left_rotate(t, p)
        /\ g # NIL /\ t.left[p] = x /\ t.left[g] = p => splay_step(t, x) = right_rotate(right_rotate(t, g), p)
        /\ g # NIL /\ t.left[p] # x /\ t.left[g] # p => splay_step(t, x) = left_rotate(left_rotate(t, g), p)
        /\ g # NIL /\ t.left[p] = x /\ t.left[g] # p => splay_step(t, x) = left_rotate(right_rotate(t, p), g)
        /\ g # NIL /\ t.left[p] # x /\ t.left[g] = p => splay_step(t, x) = right_rotate(left_rotate(t, p), g)
    BY <1>2, SplayStepForm
  <2> HIDE DEF p, g
  <2> QED
    BY <2>3, <2>5, <2>6, <2>7
<1> QED
  BY <1>1, <1>2

(***************************************************************************)
(* splay ends, since the interval of x only gets wider, with x at the root *)
(* of a sound tree of the same nodes.                                      *)
(***************************************************************************)
LEMMA SplaySound ==
  ASSUME NEW B \in Nat, NEW lo, NEW hi, NEW t, Sound(t, lo, hi, B),
         NEW x \in t.nodes, NEW n, n = splay(t, x)
  PROVE  /\ n.nodes = t.nodes /\ n.node_count = t.node_count /\ n.root = x
         /\ \E lo2, hi2 : Sound(n, lo2, hi2, B)
<1> DEFINE D == {u \in Trees : u.parent[x] = NIL}
           G == [u \in Trees |-> splay_step(u, x)]
           O == [u \in Trees |-> u]
           Like(u) == u.nodes = t.nodes /\ u.node_count = t.node_count
           At(u, k) == \E lo2, hi2 : Sound(u, lo2, hi2, B) /\ Wide(lo2, hi2, x) = B - k
           J == [k \in Nat |-> {u \in Trees : Like(u) /\ At(u, k)}]
           body(h) == [u \in Trees |-> IF u.parent[x] = NIL THEN u ELSE h[splay_step(u, x)]]
           f == CHOOSE h : h = body(h)
<1>1. t \in Trees /\ x \in Keys
  BY SoundNode DEF Sound
<1>2. G \in [Trees -> Trees]
  BY <1>1, SplayStepType
<1>3. ASSUME NEW h
      PROVE  body(h) = LoopBody(Trees, D, G, O, h)
  BY DEF LoopBody
<1>4. \E h : h = body(h)
  <2>1. \E h : h = LoopBody(Trees, D, G, O, h)
    <3> HIDE DEF D, G, O
    <3> QED
      BY <1>2, LoopExists
  <2> HIDE DEF D, G, O, body
  <2> QED
    BY <1>3, <2>1
<1>5. f = body(f)
  <2> HIDE DEF body
  <2> QED
    BY <1>4
<1>6. n = f[t]
  BY DEF splay
<1> HIDE DEF f
<1>7. f = LoopBody(Trees, D, G, O, f)
  <2> HIDE DEF D, G, O, body
  <2> QED
    BY <1>3, <1>5
<1> HIDE DEF body
<1>8. J \in [Nat -> SUBSET Trees]
  <2> HIDE DEF Like, At
  <2> QED
    OBVIOUS
<1>9. ASSUME NEW k \in Nat, NEW u \in J[k], u \notin D
      PROVE  \E m \in 0 .. k - 1 : G[u] \in J[m]
  <2>1. u \in Trees /\ Like(u) /\ At(u, k)
    <3> HIDE DEF Like, At
    <3> QED
      OBVIOUS
  <2>2. PICK lo1, hi1 : Sound(u, lo1, hi1, B) /\ Wide(lo1, hi1, x) = B - k
    BY <2>1
  <2>3. u.parent[x] # NIL /\ x \in u.nodes
    BY <1>9, <2>1
  <2>4. x # u.root
    BY <2>2, <2>3, SoundNode
  <2> DEFINE w == splay_step(u, x)
  <2>5. PICK v \in u.nodes : /\ Raised(w, u, lo1, hi1, B, x, v)
                             /\ Wide(lo1, hi1, x) < Wide(lo1, hi1, v)
    BY <2>2, <2>3, <2>4, StepSound
  <2> HIDE DEF w
  <2>6. PICK lo2, hi2 : Sound(w, lo2, hi2, B) /\ lo2[x] = lo1[v] /\ hi2[x] = hi1[v]
    BY <2>5 DEF Raised
  <2>7. Like(w)
    BY <2>1, <2>5 DEF Raised
  <2> DEFINE m == B - Wide(lo2, hi2, x)
  <2>8. /\ lo1[v] \in Nat /\ hi1[v] \in Nat /\ lo1[v] < v /\ v < hi1[v] /\ hi1[v] <= B /\ v \in Nat
    BY <2>2, SoundNode
  <2>9. m \in 0 .. k - 1 /\ Wide(lo2, hi2, x) = B - m
    BY <2>2, <2>5, <2>6, <2>8 DEF Wide
  <2> HIDE DEF m
  <2>10. At(w, m)
    BY <2>6, <2>9
  <2>11. G[u] = w /\ w \in Trees
    BY <1>1, <2>1, SplayStepType DEF w
  <2> HIDE DEF Like, At, G
  <2>12. m \in Nat
    BY <2>9
  <2>13. w \in J[m]
    BY <2>7, <2>10, <2>11, <2>12
  <2> HIDE DEF J
  <2> QED
    BY <2>9, <2>11, <2>13
<1>10. \E k \in Nat : t \in J[k]
  <2>1. /\ lo[x] \in Nat /\ hi[x] \in Nat /\ lo[x] < x /\ x < hi[x] /\ hi[x] <= B /\ x \in Nat
    BY SoundNode
  <2> DEFINE k == B - Wide(lo, hi, x)
  <2>2. k \in Nat /\ Wide(lo, hi, x) = B - k
    BY <2>1 DEF Wide
  <2> HIDE DEF k
  <2>3. At(t, k) /\ Like(t)
    BY <2>2
  <2> HIDE DEF At, Like
  <2> QED
    BY <1>1, <2>2, <2>3
<1>11. \E m \in Nat : \E u \in J[m] : u \in D /\ f[t] = O[u]
  <2> HIDE DEF D, G, O, J
  <2> QED
    BY <1>7, <1>8, <1>9, <1>10, LoopEnds
<1>12. PICK m \in Nat : \E u \in J[m] : u \in D /\ f[t] = O[u]
  <2> HIDE DEF D, G, O, J
  <2> QED
    BY <1>11
<1>13. PICK u \in J[m] : u \in D /\ f[t] = O[u]
  <2> HIDE DEF D, G, O, J
  <2> QED
    BY <1>12
<1>14. u \in Trees /\ Like(u) /\ At(u, m) /\ n = u /\ u.parent[x] = NIL
  <2> HIDE DEF Like, At
  <2> QED
    BY <1>6, <1>13
<1>15. PICK lo1, hi1 : Sound(n, lo1, hi1, B)
  BY <1>14
<1>16. x \in n.nodes /\ n.parent[x] = NIL
  BY <1>14
<1>17. n.root = x
  BY <1>15, <1>16, SoundNode
<1> QED
  BY <1>14, <1>15, <1>17

-----------------------------------------------------------------------------

(***************************************************************************)
(* What tree_insert has done before it splays: the new node hangs below p, *)
(* or is the root.                                                         *)
(***************************************************************************)
Attached(t, key, p) ==
  LET t1 == [t EXCEPT !.nodes = @ \cup {key}, !.parent[key] = p]
  IN  IF p = NIL THEN [t1 EXCEPT !.root = key]
      ELSE IF p < key THEN PutRight(t1, p, key)
      ELSE PutLeft(t1, p, key)

(***************************************************************************)
(* The first node of a tree.                                               *)
(***************************************************************************)
LEMMA AttachRoot ==
  ASSUME NEW B \in Nat, NEW lo, NEW hi, NEW t, Sound(t, lo, hi, B), t.root = NIL,
         NEW key \in Keys, key < B, NEW n, n = Attached(t, key, NIL)
  PROVE  /\ n.nodes = t.nodes \cup {key} /\ n.node_count = t.node_count
         /\ \E lo2, hi2 : Sound(n, lo2, hi2, B)
<1>1. t \in Trees /\ t.nodes = {} /\ \A k \in Keys : /\ t.left[k] = NIL /\ t.right[k] = NIL
                                                     /\ t.parent[k] = NIL
  BY DEF Sound
<1> DEFINE t1 == [t EXCEPT !.nodes = @ \cup {key}, !.parent[key] = NIL]
<1>2. n = [t1 EXCEPT !.root = key]
  BY DEF Attached
<1>3. /\ t1 \in Trees /\ t1.nodes = {key} /\ t1.left = t.left /\ t1.right = t.right
      /\ t1.node_count = t.node_count /\ \A k \in Keys : t1.parent[k] = NIL
  BY <1>1 DEF Trees, Ptr
<1> HIDE DEF t1
<1>4. /\ n \in Trees /\ n.nodes = {key} /\ n.left = t.left /\ n.right = t.right
      /\ n.parent = t1.parent /\ n.root = key /\ n.node_count = t.node_count
  BY <1>2, <1>3 DEF Trees, Ptr
<1> DEFINE lo2 == [k \in Keys |-> 0]
           hi2 == [k \in Keys |-> B]
<1>5. lo2 \in [Keys -> 0 .. B] /\ hi2 \in [Keys -> 0 .. B] /\ lo2[key] = 0 /\ hi2[key] = B
  OBVIOUS
<1> HIDE DEF lo2, hi2
<1>6. key # NIL /\ 0 < key
  BY KeysAssumption DEF NIL
<1>7. NodeSound(n, lo2, hi2, key)
  BY <1>1, <1>4, <1>5, <1>6 DEF NodeSound
<1>8. Sound(n, lo2, hi2, B)
  BY <1>1, <1>3, <1>4, <1>5, <1>6, <1>7 DEF Sound
<1> QED
  BY <1>1, <1>4, <1>8

(***************************************************************************)
(* A new leaf at the place where the search ended: its interval is the     *)
(* vacant half of its parent's.                                            *)
(***************************************************************************)
LEMMA AttachBelow ==
  ASSUME NEW B \in Nat, NEW lo, NEW hi, NEW t, Sound(t, lo, hi, B),
         NEW key \in Keys, key \notin t.nodes, NEW p \in t.nodes,
         lo[p] < key, key < hi[p], Towards(t, p, key) = NIL, NEW n, n = Attached(t, key, p)
  PROVE  /\ n.nodes = t.nodes \cup {key} /\ n.node_count = t.node_count
         /\ \E lo2, hi2 : Sound(n, lo2, hi2, B)
<1>1. /\ t \in Trees /\ t.nodes \subseteq Keys /\ lo \in [Keys -> 0 .. B]
      /\ hi \in [Keys -> 0 .. B] /\ t.root # NIL /\ t.root \in t.nodes
      /\ t.left[key] = NIL /\ t.right[key] = NIL /\ t.parent[t.root] = NIL
      /\ lo[t.root] = 0 /\ hi[t.root] = B
  BY SoundNode DEF Sound, Trees
<1>2. /\ p \in Keys /\ p \in Nat /\ p # NIL /\ p # key /\ lo[p] \in Nat /\ hi[p] \in Nat
      /\ hi[p] <= B /\ lo[p] < p /\ p < hi[p]
  BY SoundNode
<1>3. key \in Nat /\ key # NIL /\ p \in Ptr /\ key \in Ptr
  BY <1>2, KeysAssumption DEF NIL, Ptr
<1> DEFINE t1 == [t EXCEPT !.nodes = @ \cup {key}, !.parent[key] = p]
<1>4. /\ t1 \in Trees /\ t1.nodes = t.nodes \cup {key} /\ t1.left = t.left /\ t1.right = t.right
      /\ t1.node_count = t.node_count /\ t1.root = t.root /\ t1.parent[key] = p
      /\ \A k \in Keys : k # key => t1.parent[k] = t.parent[k]
  BY <1>1, <1>3 DEF Trees
<1>5. n = IF p < key THEN PutRight(t1, p, key) ELSE PutLeft(t1, p, key)
  BY <1>2 DEF Attached
<1> HIDE DEF t1
<1>6. CASE p < key
  <2>1. t.right[p] = NIL
    BY <1>2, <1>3, <1>6 DEF Towards
  <2>2. RightSet(n, t1, p, key)
    BY <1>2, <1>3, <1>4, <1>5, <1>6, LinkRight
  <2>3. /\ n \in Trees /\ n.root = t.root /\ n.left = t.left /\ n.parent = t1.parent
        /\ n.nodes = t.nodes \cup {key} /\ n.node_count = t.node_count
        /\ n.right[p] = key /\ \A k \in Keys : k # p => n.right[k] = t.right[k]
    BY <1>4, <2>2 DEF RightSet
  <2> DEFINE lo2 == [lo EXCEPT ![key] = p]
             hi2 == [hi EXCEPT ![key] = hi[p]]
  <2>4. /\ lo2 \in [Keys -> 0 .. B] /\ hi2 \in [Keys -> 0 .. B]
        /\ lo2[key] = p /\ hi2[key] = hi[p]
        /\ \A k \in t.nodes : lo2[k] = lo[k] /\ hi2[k] = hi[k]
    BY <1>1, <1>2
  <2> HIDE DEF lo2, hi2
  <2>5. NodeSound(n, lo2, hi2, key)
    BY <1>1, <1>2, <1>4, <1>6, <2>3, <2>4 DEF NodeSound
  <2>6. ASSUME NEW k \in t.nodes
        PROVE  NodeSound(n, lo2, hi2, k)
    <3>1. NodeSound(t, lo, hi, k) /\ k \in Keys /\ k # key
      BY <1>1 DEF Sound
    <3>2. n.left[k] # NIL =>
            /\ n.left[k] \in n.nodes /\ n.parent[n.left[k]] = k
            /\ lo2[n.left[k]] = lo2[k] /\ hi2[n.left[k]] = k
      BY <1>1, <1>4, <2>3, <2>4, <3>1 DEF NodeSound
    <3>3. n.right[k] # NIL =>
            /\ n.right[k] \in n.nodes /\ n.parent[n.right[k]] = k
            /\ lo2[n.right[k]] = k /\ hi2[n.right[k]] = hi2[k]
      <4>1. CASE k = p
        BY <1>2, <1>4, <2>3, <2>4, <4>1
      <4>2. CASE k # p
        BY <1>1, <1>4, <2>3, <2>4, <3>1, <4>2 DEF NodeSound
      <4> QED
        BY <4>1, <4>2
    <3>4. k # n.root => n.parent[k] \in n.nodes /\ k \in {n.left[n.parent[k]], n.right[n.parent[k]]}
      <4>1. SUFFICES ASSUME k # t.root
                     PROVE  n.parent[k] \in n.nodes /\ k \in {n.left[n.parent[k]], n.right[n.parent[k]]}
        BY <2>3
      <4> DEFINE q == t.parent[k]
      <4>2. q \in t.nodes /\ q \in Keys /\ k \in {t.left[q], t.right[q]} /\ n.parent[k] = q
        BY <1>1, <1>4, <2>3, <3>1, <4>1 DEF NodeSound
      <4>3. k # NIL
        BY SoundNode
      <4> HIDE DEF q
      <4> QED
        BY <2>1, <2>3, <4>2, <4>3
    <3> QED
      BY <2>4, <3>1, <3>2, <3>3, <3>4 DEF NodeSound
  <2>7. ASSUME NEW k \in Keys \ n.nodes
        PROVE  n.left[k] = NIL /\ n.right[k] = NIL /\ n.parent[k] = NIL
    BY <1>4, <2>3 DEF Sound
  <2>8. n.parent[n.root] = NIL
    BY <1>1, <1>4, <2>3
  <2>9. lo2[n.root] = 0 /\ hi2[n.root] = B /\ n.root # NIL /\ n.root \in n.nodes
    BY <1>1, <2>3, <2>4
  <2>10. Sound(n, lo2, hi2, B)
    BY <2>3, <2>4, <2>5, <2>6, <2>7, <2>8, <2>9 DEF Sound
  <2> QED
    BY <2>3, <2>10
<1>7. CASE ~ (p < key)
  <2>1. t.left[p] = NIL /\ key < p
    BY <1>2, <1>3, <1>7 DEF Towards
  <2>2. LeftSet(n, t1, p, key)
    BY <1>2, <1>3, <1>4, <1>5, <1>7, LinkLeft
  <2>3. /\ n \in Trees /\ n.root = t.root /\ n.right = t.right /\ n.parent = t1.parent
        /\ n.nodes = t.nodes \cup {key} /\ n.node_count = t.node_count
        /\ n.left[p] = key /\ \A k \in Keys : k # p => n.left[k] = t.left[k]
    BY <1>4, <2>2 DEF LeftSet
  <2> DEFINE lo2 == [lo EXCEPT ![key] = lo[p]]
             hi2 == [hi EXCEPT ![key] = p]
  <2>4. /\ lo2 \in [Keys -> 0 .. B] /\ hi2 \in [Keys -> 0 .. B]
        /\ lo2[key] = lo[p] /\ hi2[key] = p
        /\ \A k \in t.nodes : lo2[k] = lo[k] /\ hi2[k] = hi[k]
    BY <1>1, <1>2
  <2> HIDE DEF lo2, hi2
  <2>5. NodeSound(n, lo2, hi2, key)
    BY <1>1, <1>2, <1>4, <2>1, <2>3, <2>4 DEF NodeSound
  <2>6. ASSUME NEW k \in t.nodes
        PROVE  NodeSound(n, lo2, hi2, k)
    <3>1. NodeSound(t, lo, hi, k) /\ k \in Keys /\ k # key
      BY <1>1 DEF Sound
    <3>2. n.right[k] # NIL =>
            /\ n.right[k] \in n.nodes /\ n.parent[n.right[k]] = k
            /\ lo2[n.right[k]] = k /\ hi2[n.right[k]] = hi2[k]
      BY <1>1, <1>4, <2>3, <2>4, <3>1 DEF NodeSound
    <3>3. n.left[k] # NIL =>
            /\ n.left[k] \in n.nodes /\ n.parent[n.left[k]] = k
            /\ lo2[n.left[k]] = lo2[k] /\ hi2[n.left[k]] = k
      <4>1. CASE k = p
        BY <1>2, <1>4, <2>3, <2>4, <4>1
      <4>2. CASE k # p
        BY <1>1, <1>4, <2>3, <2>4, <3>1, <4>2 DEF NodeSound
      <4> QED
        BY <4>1, <4>2
    <3>4. k # n.root => n.parent[k] \in n.nodes /\ k \in {n.left[n.parent[k]], n.right[n.parent[k]]}
      <4>1. SUFFICES ASSUME k # t.root
                     PROVE  n.parent[k] \in n.nodes /\ k \in {n.left[n.parent[k]], n.right[n.parent[k]]}
        BY <2>3
      <4> DEFINE q == t.parent[k]
      <4>2. q \in t.nodes /\ q \in Keys /\ k \in {t.left[q], t.right[q]} /\ n.parent[k] = q
        BY <1>1, <1>4, <2>3, <3>1, <4>1 DEF NodeSound
      <4>3. k # NIL
        BY SoundNode
      <4> HIDE DEF q
      <4> QED
        BY <2>1, <2>3, <4>2, <4>3
    <3> QED
      BY <2>4, <3>1, <3>2, <3>3, <3>4 DEF NodeSound
  <2>7. ASSUME NEW k \in Keys \ n.nodes
        PROVE  n.left[k] = NIL /\ n.right[k] = NIL /\ n.parent[k] = NIL
    BY <1>4, <2>3 DEF Sound
  <2>8. n.parent[n.root] = NIL
    BY <1>1, <1>4, <2>3
  <2>9. lo2[n.root] = 0 /\ hi2[n.root] = B /\ n.root # NIL /\ n.root \in n.nodes
    BY <1>1, <2>3, <2>4
  <2>10. Sound(n, lo2, hi2, B)
    BY <2>3, <2>4, <2>5, <2>6, <2>7, <2>8, <2>9 DEF Sound
  <2> QED
    BY <2>3, <2>10
<1> QED
  BY <1>6, <1>7

(***************************************************************************)
(* subtree_minimum ends at a node without left child that shares the lower *)
(* bound of the subtree.                                                   *)
(***************************************************************************)
LEMMA MinimumEnds ==
  ASSUME NEW B \in Nat, NEW lo, NEW hi, NEW t, Sound(t, lo, hi, B),
         NEW u \in t.nodes, NEW y, y = subtree_minimum(t, u)
  PROVE  y \in t.nodes /\ lo[y] = lo[u] /\ t.left[y] = NIL
<1> DEFINE D == {x \in Keys : t.left[x] = NIL}
           G == [x \in Keys |-> IF x \in D THEN x ELSE t.left[x]]
           O == [x \in Keys |-> x]
           J == [n \in Nat |-> {x \in t.nodes : lo[x] = lo[u] /\ Wide(lo, hi, x) = n}]
           body(h) == [x \in Keys |-> IF t.left[x] = NIL THEN x ELSE h[t.left[x]]]
           f == CHOOSE h : h = body(h)
<1>1. t.nodes \subseteq Keys /\ t.left \in [Keys -> Ptr]
  BY DEF Sound, Trees
<1>2. G \in [Keys -> Keys]
  BY <1>1 DEF Ptr
<1>3. ASSUME NEW h
      PROVE  body(h) = LoopBody(Keys, D, G, O, h)
  BY DEF LoopBody
<1>4. \E h : h = body(h)
  <2>1. \E h : h = LoopBody(Keys, D, G, O, h)
    <3> HIDE DEF D, G, O
    <3> QED
      BY <1>2, LoopExists
  <2> HIDE DEF D, G, O, body
  <2> QED
    BY <1>3, <2>1
<1>5. f = body(f)
  <2> HIDE DEF body
  <2> QED
    BY <1>4
<1>6. y = f[u]
  BY DEF subtree_minimum
<1> HIDE DEF f
<1>7. f = LoopBody(Keys, D, G, O, f)
  <2> HIDE DEF D, G, O, body
  <2> QED
    BY <1>3, <1>5
<1> HIDE DEF body
<1>8. J \in [Nat -> SUBSET Keys]
  BY <1>1
<1>9. ASSUME NEW n \in Nat, NEW x \in J[n], x \notin D
      PROVE  \E m \in 0 .. n - 1 : G[x] \in J[m]
  <2>1. x \in t.nodes /\ x \in Keys /\ lo[x] = lo[u] /\ Wide(lo, hi, x) = n
    BY <1>1
  <2> DEFINE c == t.left[x]
  <2>2. c # NIL /\ G[x] = c
    BY <1>9, <2>1
  <2>3. /\ c \in t.nodes /\ lo[c] = lo[x] /\ hi[c] = x
        /\ lo[x] < x /\ x < hi[x] /\ lo[x] \in Nat /\ hi[x] \in Nat /\ x \in Nat
    BY <2>1, <2>2, SoundNode
  <2> HIDE DEF c
  <2>4. Wide(lo, hi, c) \in 0 .. n - 1
    BY <2>1, <2>3 DEF Wide
  <2>5. G[x] \in J[Wide(lo, hi, c)]
    BY <2>1, <2>2, <2>3, <2>4
  <2> QED
    BY <2>4, <2>5
<1>10. \E n \in Nat : u \in J[n]
  <2>1. Wide(lo, hi, u) \in Nat
    BY SoundNode DEF Wide
  <2> QED
    BY <2>1
<1>11. \E m \in Nat : \E x \in J[m] : x \in D /\ f[u] = O[x]
  <2> HIDE DEF D, G, O, J
  <2> QED
    BY <1>7, <1>8, <1>9, <1>10, LoopEnds
<1> QED
  BY <1>1, <1>6, <1>11

(***************************************************************************)
(* n is t after replace(t, z, v): the parent of z leads to v and v back to *)
(* it.                                                                     *)
(***************************************************************************)
Replaced(n, t, z, v) ==
  /\ n \in Trees /\ n.nodes = t.nodes /\ n.node_count = t.node_count
  /\ v # NIL => n.parent[v] = t.parent[z]
  /\ \A k \in Keys : k # v => n.parent[k] = t.parent[k]
  /\ n.root = IF t.parent[z] = NIL THEN v ELSE t.root
  /\ \A k \in Keys : /\ n.left[k] = IF k = t.parent[z] /\ z = t.left[k] THEN v ELSE t.left[k]
                     /\ n.right[k] = IF k = t.parent[z] /\ z # t.left[k] THEN v ELSE t.right[k]

(***************************************************************************)
(* replace changes the links that Replaced names and no other.             *)
(***************************************************************************)
LEMMA ReplaceForm ==
  ASSUME NEW t \in Trees, NEW z \in Keys, NEW v \in Ptr, NEW n, n = replace(t, z, v)
  PROVE  Replaced(n, t, z, v)
<1> DEFINE p == t.parent[z]
           h == Hang(t, z, v)
<1>1. p \in Ptr
  BY DEF Trees
<1>2. /\ h \in Trees /\ h.parent = t.parent
      /\ h.nodes = t.nodes /\ h.node_count = t.node_count
      /\ h.root = IF p = NIL THEN v ELSE t.root
      /\ \A k \in Keys : /\ h.left[k] = IF k = p /\ z = t.left[p] THEN v ELSE t.left[k]
                         /\ h.right[k] = IF k = p /\ z # t.left[p] THEN v ELSE t.right[k]
  BY HangForm
<1>3. n = PutParent(h, v, p)
  BY DEF replace, PutParent
<1> HIDE DEF h, p
<1>4. ParentSet(n, h, v, p)
  BY <1>1, <1>2, <1>3, LinkParent
<1>5. /\ n \in Trees /\ n.root = h.root /\ n.left = h.left /\ n.right = h.right
      /\ n.nodes = h.nodes /\ n.node_count = h.node_count
      /\ v # NIL => n.parent[v] = p
      /\ \A k \in Keys : k # v => n.parent[k] = h.parent[k]
  BY <1>4 DEF ParentSet
<1>6. \A k \in Keys : /\ n.left[k] = IF k = p /\ z = t.left[k] THEN v ELSE t.left[k]
                      /\ n.right[k] = IF k = p /\ z # t.left[k] THEN v ELSE t.right[k]
  BY <1>2, <1>5
<1>7. /\ n \in Trees /\ n.root = IF p = NIL THEN v ELSE t.root
      /\ n.nodes = t.nodes /\ n.node_count = t.node_count
      /\ v # NIL => n.parent[v] = p
      /\ \A k \in Keys : k # v => n.parent[k] = t.parent[k]
  BY <1>2, <1>5
<1> USE DEF p
<1> QED
  BY <1>6, <1>7 DEF Replaced

(***************************************************************************)
(* The removed node is freed: no links, not a node, one less in the count. *)
(***************************************************************************)
Freed(n, z) ==
  [n EXCEPT !.node_count = @ - 1, !.nodes = @ \ {z},
            !.left[z] = NIL, !.right[z] = NIL, !.parent[z] = NIL]

(***************************************************************************)
(* What Freed leaves of every link.                                        *)
(***************************************************************************)
FreedFrom(m, n, z) ==
  /\ m.root = n.root /\ m.nodes = n.nodes \ {z} /\ m.node_count = n.node_count - 1
  /\ m.left \in [Keys -> Ptr] /\ m.right \in [Keys -> Ptr] /\ m.parent \in [Keys -> Ptr]
  /\ m.left[z] = NIL /\ m.right[z] = NIL /\ m.parent[z] = NIL
  /\ \A k \in Keys : k # z => /\ m.left[k] = n.left[k] /\ m.right[k] = n.right[k]
                              /\ m.parent[k] = n.parent[k]
  /\ n.node_count - 1 \in Nat => m \in Trees

(***************************************************************************)
(* Freeing node z changes its own links only.                              *)
(***************************************************************************)
LEMMA FreedForm ==
  ASSUME NEW n \in Trees, NEW z \in Keys, NEW m, m = Freed(n, z)
  PROVE  FreedFrom(m, n, z)
<1>1. NIL \in Ptr
  BY DEF Ptr
<1> QED
  BY <1>1 DEF Freed, FreedFrom, Trees

-----------------------------------------------------------------------------

(***************************************************************************)
(* A root without left child is replaced by its right child, whose         *)
(* subtree's leftmost nodes get the lower bound of the root.               *)
(***************************************************************************)
LEMMA CutNoLeft ==
  ASSUME NEW B \in Nat, NEW lo, NEW hi, NEW t, Sound(t, lo, hi, B),
         NEW z, z = t.root, z # NIL, t.left[z] = NIL, NEW r, r = t.right[z],
         NEW n, n = replace(t, z, r), NEW m \in Trees, FreedFrom(m, n, z)
  PROVE  \E lo2, hi2 : Sound(m, lo2, hi2, B)
<1>1. /\ t \in Trees /\ t.nodes \subseteq Keys /\ lo \in [Keys -> 0 .. B]
      /\ hi \in [Keys -> 0 .. B] /\ z \in t.nodes
  BY DEF Sound, Trees
<1>2. /\ z \in Keys /\ z \in Nat /\ t.parent[z] = NIL /\ r \in Ptr /\ lo[z] = 0 /\ hi[z] = B
      /\ 0 < z /\ z < B
      /\ r # NIL => r \in t.nodes /\ t.parent[r] = z
  BY <1>1, SoundNode
<1>3. r # NIL => lo[r] = z /\ hi[r] = B
  BY <1>1, <1>2, SoundNode
<1>4. Replaced(n, t, z, r)
  BY <1>1, <1>2, ReplaceForm
<1>5. NIL \notin Keys
  BY KeysAssumption DEF NIL
<1>6. /\ n.nodes = t.nodes /\ n.root = r
      /\ r # NIL => n.parent[r] = NIL
      /\ \A k \in Keys : k # r => n.parent[k] = t.parent[k]
      /\ \A k \in Keys : n.left[k] = t.left[k] /\ n.right[k] = t.right[k]
  BY <1>2, <1>4, <1>5 DEF Replaced
<1>7. /\ m.nodes = t.nodes \ {z} /\ m.root = r
      /\ r # NIL /\ r # z => m.parent[r] = NIL
      /\ \A k \in Keys : k # r /\ k # z => m.parent[k] = t.parent[k]
      /\ \A k \in Keys : k # z => m.left[k] = t.left[k] /\ m.right[k] = t.right[k]
      /\ m.left[z] = NIL /\ m.right[z] = NIL /\ m.parent[z] = NIL
  <2>1. r # NIL => r \in Keys
    BY <1>2 DEF Ptr
  <2> QED
    BY <1>6, <2>1 DEF FreedFrom
<1>8. r # z
  BY <1>2
<1> DEFINE lo2 == [k \in Keys |-> (IF lo[k] = z THEN 0 ELSE lo[k])]
           hi2 == [k \in Keys |-> hi[k]]
<1>9. /\ lo2 \in [Keys -> 0 .. B] /\ hi2 \in [Keys -> 0 .. B]
      /\ \A k \in Keys : lo2[k] = (IF lo[k] = z THEN 0 ELSE lo[k]) /\ hi2[k] = hi[k]
  BY <1>1
<1> HIDE DEF lo2, hi2
<1>10. ASSUME NEW k \in t.nodes, k # z
       PROVE  NodeSound(m, lo2, hi2, k)
  <2>1. /\ k \in Keys /\ lo[k] < k /\ k < hi[k] /\ k \in Nat /\ k # NIL
        /\ lo[k] \in Nat /\ hi[k] \in Nat /\ hi[k] <= B
        /\ t.left[k] # NIL =>
             /\ t.left[k] \in t.nodes /\ t.parent[t.left[k]] = k
             /\ lo[t.left[k]] = lo[k] /\ hi[t.left[k]] = k
        /\ t.right[k] # NIL =>
             /\ t.right[k] \in t.nodes /\ t.parent[t.right[k]] = k
             /\ lo[t.right[k]] = k /\ hi[t.right[k]] = hi[k]
        /\ t.parent[k] \in t.nodes /\ k \in {t.left[t.parent[k]], t.right[t.parent[k]]}
    BY <1>10, SoundNode
  <2>2. m.left[k] = t.left[k] /\ m.right[k] = t.right[k]
    BY <1>7, <1>10, <2>1
  <2>3. ASSUME NEW c \in t.nodes, t.parent[c] = k
        PROVE  c \in m.nodes /\ m.parent[c] = k /\ c \in Keys
    <3>1. c # z
      BY <1>2, <2>1, <2>3
    <3>2. c # r
      BY <1>2, <1>10, <2>1, <2>3, <1>5, <1>1
    <3> QED
      BY <1>1, <1>7, <2>3, <3>1, <3>2
  <2>4. lo2[k] < k /\ k < hi2[k]
    BY <1>9, <2>1
  <2> DEFINE a == t.left[k]
             b == t.right[k]
  <2>5. a # NIL => a \in m.nodes /\ m.parent[a] = k /\ lo2[a] = lo2[k] /\ hi2[a] = k
    <3>1. a # NIL => /\ a \in t.nodes /\ t.parent[a] = k /\ lo[a] = lo[k] /\ hi[a] = k
      BY <2>1
    <3> HIDE DEF a
    <3> QED
      BY <1>9, <1>10, <2>1, <2>3, <3>1
  <2>6. b # NIL => b \in m.nodes /\ m.parent[b] = k /\ lo2[b] = k /\ hi2[b] = hi2[k]
    <3>1. b # NIL => /\ b \in t.nodes /\ t.parent[b] = k /\ lo[b] = k /\ hi[b] = hi[k]
      BY <2>1
    <3> HIDE DEF b
    <3> QED
      BY <1>9, <1>10, <2>1, <2>3, <3>1
  <2>7. k # m.root => m.parent[k] \in m.nodes /\ k \in {m.left[m.parent[k]], m.right[m.parent[k]]}
    <3>1. SUFFICES ASSUME k # r
                   PROVE  m.parent[k] \in m.nodes /\ k \in {m.left[m.parent[k]], m.right[m.parent[k]]}
      BY <1>7
    <3> DEFINE q == t.parent[k]
    <3>2. q \in t.nodes /\ q \in Keys /\ k \in {t.left[q], t.right[q]} /\ m.parent[k] = q
      BY <1>1, <1>7, <1>10, <2>1, <3>1
    <3> HIDE DEF q
    <3>3. q # z
      BY <2>1, <3>1, <3>2
    <3> QED
      BY <1>7, <3>2, <3>3
  <2> HIDE DEF a, b
  <2>8. m.left[k] = a /\ m.right[k] = b
    BY <2>2 DEF a, b
  <2> QED
    BY <2>4, <2>5, <2>6, <2>7, <2>8 DEF NodeSound
<1>11. r = NIL => m.nodes = {}
  <2>1. SUFFICES ASSUME r = NIL, NEW k \in t.nodes, k # z
                 PROVE  FALSE
    BY <1>7
  <2>2. k \in Nat /\ lo[k] < k /\ k < hi[k] /\ hi[k] <= B /\ lo[k] \in Nat /\ hi[k] \in Nat
    BY <2>1, SoundNode
  <2>3. ~ (lo[z] < k /\ k < z) /\ ~ (z < k /\ k < hi[z])
    BY <1>1, <2>1, Vacant
  <2> QED
    BY <1>2, <2>1, <2>2, <2>3
<1>12. r # NIL => r \in m.nodes /\ m.parent[r] = NIL /\ lo2[r] = 0 /\ hi2[r] = B
  BY <1>1, <1>2, <1>3, <1>7, <1>8, <1>9
<1>13. ASSUME NEW k \in Keys \ m.nodes
       PROVE  m.left[k] = NIL /\ m.right[k] = NIL /\ m.parent[k] = NIL
  <2>1. CASE k = z
    BY <1>7, <2>1
  <2>2. CASE k # z
    <3>1. k \notin t.nodes /\ t.left[k] = NIL /\ t.right[k] = NIL /\ t.parent[k] = NIL
      BY <1>7, <2>2 DEF Sound
    <3>2. k # r
      BY <1>2, <1>5, <3>1
    <3> QED
      BY <1>7, <2>2, <3>1, <3>2
  <2> QED
    BY <2>1, <2>2
<1>14. \A k \in m.nodes : NodeSound(m, lo2, hi2, k)
  BY <1>7, <1>10
<1>15. Sound(m, lo2, hi2, B)
  BY <1>7, <1>9, <1>11, <1>12, <1>13, <1>14 DEF Sound
<1> QED
  BY <1>15

(***************************************************************************)
(* A root without right child is replaced by its left child, whose         *)
(* subtree's rightmost nodes get the upper bound of the root.              *)
(***************************************************************************)
LEMMA CutNoRight ==
  ASSUME NEW B \in Nat, NEW lo, NEW hi, NEW t, Sound(t, lo, hi, B),
         NEW z, z = t.root, z # NIL, t.right[z] = NIL, NEW r, r = t.left[z],
         NEW n, n = replace(t, z, r), NEW m \in Trees, FreedFrom(m, n, z)
  PROVE  \E lo2, hi2 : Sound(m, lo2, hi2, B)
<1>1. /\ t \in Trees /\ t.nodes \subseteq Keys /\ lo \in [Keys -> 0 .. B]
      /\ hi \in [Keys -> 0 .. B] /\ z \in t.nodes
  BY DEF Sound, Trees
<1>2. /\ z \in Keys /\ z \in Nat /\ t.parent[z] = NIL /\ r \in Ptr /\ lo[z] = 0 /\ hi[z] = B
      /\ 0 < z /\ z < B
      /\ r # NIL => r \in t.nodes /\ t.parent[r] = z
  BY <1>1, SoundNode
<1>3. r # NIL => lo[r] = 0 /\ hi[r] = z
  BY <1>1, <1>2, SoundNode
<1>4. Replaced(n, t, z, r)
  BY <1>1, <1>2, ReplaceForm
<1>5. NIL \notin Keys
  BY KeysAssumption DEF NIL
<1>6. /\ n.nodes = t.nodes /\ n.root = r
      /\ r # NIL => n.parent[r] = NIL
      /\ \A k \in Keys : k # r => n.parent[k] = t.parent[k]
      /\ \A k \in Keys : n.left[k] = t.left[k] /\ n.right[k] = t.right[k]
  BY <1>2, <1>4, <1>5 DEF Replaced
<1>7. /\ m.nodes = t.nodes \ {z} /\ m.root = r
      /\ r # NIL /\ r # z => m.parent[r] = NIL
      /\ \A k \in Keys : k # r /\ k # z => m.parent[k] = t.parent[k]
      /\ \A k \in Keys : k # z => m.left[k] = t.left[k] /\ m.right[k] = t.right[k]
      /\ m.left[z] = NIL /\ m.right[z] = NIL /\ m.parent[z] = NIL
  <2>1. r # NIL => r \in Keys
    BY <1>2 DEF Ptr
  <2> QED
    BY <1>6, <2>1 DEF FreedFrom
<1>8. r # z
  BY <1>2
<1> DEFINE lo2 == [k \in Keys |-> lo[k]]
           hi2 == [k \in Keys |-> (IF hi[k] = z THEN B ELSE hi[k])]
<1>9. /\ lo2 \in [Keys -> 0 .. B] /\ hi2 \in [Keys -> 0 .. B]
      /\ \A k \in Keys : lo2[k] = lo[k] /\ hi2[k] = (IF hi[k] = z THEN B ELSE hi[k])
  BY <1>1
<1> HIDE DEF lo2, hi2
<1>10. ASSUME NEW k \in t.nodes, k # z
       PROVE  NodeSound(m, lo2, hi2, k)
  <2>1. /\ k \in Keys /\ lo[k] < k /\ k < hi[k] /\ k \in Nat /\ k # NIL
        /\ lo[k] \in Nat /\ hi[k] \in Nat /\ hi[k] <= B
        /\ t.left[k] # NIL =>
             /\ t.left[k] \in t.nodes /\ t.parent[t.left[k]] = k
             /\ lo[t.left[k]] = lo[k] /\ hi[t.left[k]] = k
        /\ t.right[k] # NIL =>
             /\ t.right[k] \in t.nodes /\ t.parent[t.right[k]] = k
             /\ lo[t.right[k]] = k /\ hi[t.right[k]] = hi[k]
        /\ t.parent[k] \in t.nodes /\ k \in {t.left[t.parent[k]], t.right[t.parent[k]]}
    BY <1>10, SoundNode
  <2>2. m.left[k] = t.left[k] /\ m.right[k] = t.right[k]
    BY <1>7, <1>10, <2>1
  <2>3. ASSUME NEW c \in t.nodes, t.parent[c] = k
        PROVE  c \in m.nodes /\ m.parent[c] = k /\ c \in Keys
    <3>1. c # z
      BY <1>2, <2>1, <2>3
    <3>2. c # r
      BY <1>2, <1>10, <2>1, <2>3, <1>5, <1>1
    <3> QED
      BY <1>1, <1>7, <2>3, <3>1, <3>2
  <2>4. lo2[k] < k /\ k < hi2[k]
    BY <1>9, <2>1
  <2> DEFINE a == t.left[k]
             b == t.right[k]
  <2>5. a # NIL => a \in m.nodes /\ m.parent[a] = k /\ lo2[a] = lo2[k] /\ hi2[a] = k
    <3>1. a # NIL => /\ a \in t.nodes /\ t.parent[a] = k /\ lo[a] = lo[k] /\ hi[a] = k
      BY <2>1
    <3> HIDE DEF a
    <3> QED
      BY <1>9, <1>10, <2>1, <2>3, <3>1
  <2>6. b # NIL => b \in m.nodes /\ m.parent[b] = k /\ lo2[b] = k /\ hi2[b] = hi2[k]
    <3>1. b # NIL => /\ b \in t.nodes /\ t.parent[b] = k /\ lo[b] = k /\ hi[b] = hi[k]
      BY <2>1
    <3> HIDE DEF b
    <3> QED
      BY <1>9, <1>10, <2>1, <2>3, <3>1
  <2>7. k # m.root => m.parent[k] \in m.nodes /\ k \in {m.left[m.parent[k]], m.right[m.parent[k]]}
    <3>1. SUFFICES ASSUME k # r
                   PROVE  m.parent[k] \in m.nodes /\ k \in {m.left[m.parent[k]], m.right[m.parent[k]]}
      BY <1>7
    <3> DEFINE q == t.parent[k]
    <3>2. q \in t.nodes /\ q \in Keys /\ k \in {t.left[q], t.right[q]} /\ m.parent[k] = q
      BY <1>1, <1>7, <1>10, <2>1, <3>1
    <3> HIDE DEF q
    <3>3. q # z
      BY <2>1, <3>1, <3>2
    <3> QED
      BY <1>7, <3>2, <3>3
  <2> HIDE DEF a, b
  <2>8. m.left[k] = a /\ m.right[k] = b
    BY <2>2 DEF a, b
  <2> QED
    BY <2>4, <2>5, <2>6, <2>7, <2>8 DEF NodeSound
<1>11. r = NIL => m.nodes = {}
  <2>1. SUFFICES ASSUME r = NIL, NEW k \in t.nodes, k # z
                 PROVE  FALSE
    BY <1>7
  <2>2. k \in Nat /\ lo[k] < k /\ k < hi[k] /\ hi[k] <= B /\ lo[k] \in Nat /\ hi[k] \in Nat
    BY <2>1, SoundNode
  <2>3. ~ (lo[z] < k /\ k < z) /\ ~ (z < k /\ k < hi[z])
    BY <1>1, <2>1, Vacant
  <2> QED
    BY <1>2, <2>1, <2>2, <2>3
<1>12. r # NIL => r \in m.nodes /\ m.parent[r] = NIL /\ lo2[r] = 0 /\ hi2[r] = B
  BY <1>1, <1>2, <1>3, <1>7, <1>8, <1>9
<1>13. ASSUME NEW k \in Keys \ m.nodes
       PROVE  m.left[k] = NIL /\ m.right[k] = NIL /\ m.parent[k] = NIL
  <2>1. CASE k = z
    BY <1>7, <2>1
  <2>2. CASE k # z
    <3>1. k \notin t.nodes /\ t.left[k] = NIL /\ t.right[k] = NIL /\ t.parent[k] = NIL
      BY <1>7, <2>2 DEF Sound
    <3>2. k # r
      BY <1>2, <1>5, <3>1
    <3> QED
      BY <1>7, <2>2, <3>1, <3>2
  <2> QED
    BY <2>1, <2>2
<1>14. \A k \in m.nodes : NodeSound(m, lo2, hi2, k)
  BY <1>7, <1>10
<1>15. Sound(m, lo2, hi2, B)
  BY <1>7, <1>9, <1>11, <1>12, <1>13, <1>14 DEF Sound
<1> QED
  BY <1>15

-----------------------------------------------------------------------------

(***************************************************************************)
(* n is t after y took the place of the root z and its left subtree.       *)
(***************************************************************************)
Topped(n, t, z, y) ==
  /\ n \in Trees /\ n.nodes = t.nodes /\ n.node_count = t.node_count /\ n.root = y
  /\ \A k \in Keys :
       /\ n.left[k] = IF k = y THEN t.left[z] ELSE t.left[k]
       /\ n.right[k] = t.right[k]
       /\ n.parent[k] = IF k = t.left[z] THEN y ELSE IF k = y THEN NIL ELSE t.parent[k]

(***************************************************************************)
(* The last three stores of tree_remove: y takes the place of z and of its *)
(* left subtree.                                                           *)
(***************************************************************************)
LEMMA TopForm ==
  ASSUME NEW t \in Trees, NEW z \in Keys, t.parent[z] = NIL, NEW y \in Keys,
         t.left[z] \in Keys, t.left[z] # y,
         NEW u, u = PutLeft(replace(t, z, y), y, t.left[z]),
         NEW n, n = PutParent(u, u.left[y], y)
  PROVE  Topped(n, t, z, y)
<1> DEFINE h == replace(t, z, y)
           l == t.left[z]
<1>1. y \in Ptr /\ l \in Ptr /\ y # NIL /\ l # NIL /\ NIL \notin Keys
  BY KeysAssumption DEF Ptr, NIL
<1>2. Replaced(h, t, z, y)
  BY <1>1, ReplaceForm
<1>3. u = PutLeft(h, y, l)
  OBVIOUS
<1> HIDE DEF h, l
<1>4. /\ h \in Trees /\ h.nodes = t.nodes /\ h.node_count = t.node_count /\ h.root = y
      /\ h.parent[y] = NIL
      /\ \A k \in Keys : k # y => h.parent[k] = t.parent[k]
      /\ \A k \in Keys : h.left[k] = t.left[k] /\ h.right[k] = t.right[k]
  BY <1>1, <1>2 DEF Replaced
<1>5. LeftSet(u, h, y, l)
  BY <1>1, <1>3, <1>4, LinkLeft
<1>6. /\ u \in Trees /\ u.root = y /\ u.right = h.right /\ u.parent = h.parent
      /\ u.nodes = t.nodes /\ u.node_count = t.node_count
      /\ u.left[y] = l /\ \A k \in Keys : k # y => u.left[k] = h.left[k]
  BY <1>4, <1>5 DEF LeftSet
<1>7. ParentSet(n, u, l, y)
  BY <1>1, <1>6, LinkParent
<1>8. /\ n \in Trees /\ n.root = y /\ n.left = u.left /\ n.right = u.right
      /\ n.nodes = t.nodes /\ n.node_count = t.node_count /\ n.parent[l] = y
      /\ \A k \in Keys : k # l => n.parent[k] = u.parent[k]
  BY <1>1, <1>6, <1>7 DEF ParentSet
<1>9. ASSUME NEW k \in Keys
      PROVE  /\ n.left[k] = IF k = y THEN l ELSE t.left[k]
             /\ n.right[k] = t.right[k]
             /\ n.parent[k] = IF k = l THEN y ELSE IF k = y THEN NIL ELSE t.parent[k]
  BY <1>4, <1>6, <1>8
<1> QED
  BY <1>8, <1>9 DEF Topped, l

(***************************************************************************)
(* n is t after y, a left child, left its place to its right child and     *)
(* took r for its own right subtree.                                       *)
(***************************************************************************)
Unhooked(n, t, y, r) ==
  /\ n \in Trees /\ n.nodes = t.nodes /\ n.node_count = t.node_count /\ n.root = t.root
  /\ \A k \in Keys :
       /\ n.left[k] = IF k = t.parent[y] THEN t.right[y] ELSE t.left[k]
       /\ n.right[k] = IF k = y THEN r ELSE t.right[k]
       /\ n.parent[k] = IF k = r THEN y
                        ELSE IF k = t.right[y] THEN t.parent[y] ELSE t.parent[k]

(***************************************************************************)
(* The stores of tree_remove for a successor that is not the child of the  *)
(* removed node.                                                           *)
(***************************************************************************)
LEMMA UnhookForm ==
  ASSUME NEW t \in Trees, NEW y \in Keys, t.parent[y] \in Keys, t.parent[y] # y,
         t.left[t.parent[y]] = y,
         NEW r \in Keys, r # t.right[y], r # y,
         NEW u, u = PutRight(replace(t, y, t.right[y]), y, r),
         NEW n, n = PutParent(u, u.right[y], y)
  PROVE  Unhooked(n, t, y, r)
<1> DEFINE v == t.right[y]
           h == replace(t, y, v)
           q == t.parent[y]
<1>1. v \in Ptr /\ r \in Ptr /\ y \in Ptr /\ r # NIL /\ q # NIL /\ NIL \notin Keys
  BY KeysAssumption DEF Ptr, NIL, Trees
<1>2. Replaced(h, t, y, v)
  BY <1>1, ReplaceForm
<1>3. u = PutRight(h, y, r)
  OBVIOUS
<1>4. /\ h \in Trees /\ h.nodes = t.nodes /\ h.node_count = t.node_count
      /\ h.root = IF q = NIL THEN v ELSE t.root
      /\ v # NIL => h.parent[v] = q
      /\ \A k \in Keys : k # v => h.parent[k] = t.parent[k]
      /\ \A k \in Keys : /\ h.left[k] = IF k = q /\ y = t.left[k] THEN v ELSE t.left[k]
                         /\ h.right[k] = IF k = q /\ y # t.left[k] THEN v ELSE t.right[k]
  <2> HIDE DEF h
  <2> QED
    BY <1>2 DEF Replaced
<1>5. q \in Keys /\ q # y /\ t.left[q] = y /\ r # v
  OBVIOUS
<1> HIDE DEF v, h, q
<1>6. RightSet(u, h, y, r)
  BY <1>1, <1>3, <1>4, LinkRight
<1>7. /\ u \in Trees /\ u.root = h.root /\ u.left = h.left /\ u.parent = h.parent
      /\ u.nodes = t.nodes /\ u.node_count = t.node_count
      /\ u.right[y] = r /\ \A k \in Keys : k # y => u.right[k] = h.right[k]
  BY <1>4, <1>6 DEF RightSet
<1>8. ParentSet(n, u, r, y)
  BY <1>1, <1>7, LinkParent
<1>9. /\ n \in Trees /\ n.root = u.root /\ n.left = u.left /\ n.right = u.right
      /\ n.nodes = t.nodes /\ n.node_count = t.node_count /\ n.parent[r] = y
      /\ \A k \in Keys : k # r => n.parent[k] = u.parent[k]
  BY <1>1, <1>7, <1>8 DEF ParentSet
<1>10. n.root = t.root
  BY <1>1, <1>4, <1>7, <1>9
<1>11. ASSUME NEW k \in Keys
       PROVE  /\ n.left[k] = IF k = q THEN v ELSE t.left[k]
              /\ n.right[k] = IF k = y THEN r ELSE t.right[k]
              /\ n.parent[k] = IF k = r THEN y ELSE IF k = v THEN q ELSE t.parent[k]
  <2>1. n.left[k] = IF k = q THEN v ELSE t.left[k]
    BY <1>4, <1>5, <1>7, <1>9
  <2>2. n.right[k] = IF k = y THEN r ELSE t.right[k]
    BY <1>4, <1>5, <1>7, <1>9
  <2>3. n.parent[k] = IF k = r THEN y ELSE IF k = v THEN q ELSE t.parent[k]
    BY <1>1, <1>4, <1>5, <1>7, <1>9
  <2> QED
    BY <2>1, <2>2, <2>3
<1> QED
  BY <1>9, <1>10, <1>11 DEF Unhooked, v, q

(***************************************************************************)
(* n is t after the least node y of the right subtree took the place of    *)
(* the root z, for both shapes the code tells apart: y the child of z, or  *)
(* deeper.                                                                 *)
(***************************************************************************)
Succeeded(n, t, z, y) ==
  LET q == t.parent[y]
  IN  /\ n \in Trees /\ n.nodes = t.nodes /\ n.node_count = t.node_count /\ n.root = y
      /\ \A k \in Keys \ {z} :
           /\ n.left[k] = IF k = y THEN t.left[z]
                          ELSE IF k = q THEN t.right[y] ELSE t.left[k]
           /\ n.right[k] = IF k = y /\ q # z THEN t.right[z] ELSE t.right[k]
           /\ n.parent[k] = IF k = y THEN NIL
                            ELSE IF k = t.left[z] \/ k = t.right[z] THEN y
                            ELSE IF k = t.right[y] /\ q # z THEN q ELSE t.parent[k]

(***************************************************************************)
(* The nodes that tree_remove works on and how they lie: root z with       *)
(* children l and r, successor y with parent q.                            *)
(***************************************************************************)
Successor(t, lo, hi, z, y, l, r, q) ==
  /\ l = t.left[z] /\ r = t.right[z] /\ q = t.parent[y]
  /\ l \in t.nodes /\ t.parent[l] = z /\ lo[l] = 0 /\ hi[l] = z
  /\ r \in t.nodes /\ t.parent[r] = z /\ lo[r] = z
  /\ y \in t.nodes /\ lo[y] = z /\ t.left[y] = NIL /\ y # z /\ l # y /\ l # r
  /\ q \in t.nodes /\ q # y
  /\ q = z <=> r = y
  /\ q # z => t.left[q] = y

(***************************************************************************)
(* The least node of the right subtree has no left child, lies directly    *)
(* above z in the order, and is a left child unless it is the child of z.  *)
(***************************************************************************)
LEMMA SuccessorFacts ==
  ASSUME NEW B \in Nat, NEW lo, NEW hi, NEW t, Sound(t, lo, hi, B),
         NEW z, z = t.root, z # NIL, t.left[z] # NIL, t.right[z] # NIL,
         NEW y, y = subtree_minimum(t, t.right[z])
  PROVE  Successor(t, lo, hi, z, y, t.left[z], t.right[z], t.parent[y])
<1> DEFINE l == t.left[z]
           r == t.right[z]
           q == t.parent[y]
<1>1. z \in t.nodes
  BY DEF Sound
<1>2. /\ l \in t.nodes /\ t.parent[l] = z /\ lo[l] = lo[z] /\ hi[l] = z /\ lo[z] = 0
      /\ r \in t.nodes /\ t.parent[r] = z /\ lo[r] = z /\ z \in Nat /\ t.parent[z] = NIL
  BY <1>1, SoundNode
<1>3. y \in t.nodes /\ lo[y] = z /\ t.left[y] = NIL
  BY <1>2, MinimumEnds
<1>4. y \in Nat /\ z < y /\ y # NIL
  BY <1>3, SoundNode
<1>5. l \in Nat /\ l < z
  BY <1>2, SoundNode
<1>6. y # t.root /\ y # z
  BY <1>2, <1>4
<1>7. /\ q \in t.nodes /\ q \in Nat
      /\ \/ y = t.left[q] /\ lo[y] = lo[q] /\ hi[y] = q
         \/ y = t.right[q] /\ lo[y] = q /\ hi[y] = hi[q]
      /\ lo[q] < q /\ q < hi[q] /\ lo[q] \in Nat /\ hi[q] \in Nat
  BY <1>3, <1>6, Below
<1>8. y < hi[y]
  BY <1>3, SoundNode
<1>9. q # y
  <2> HIDE DEF q
  <2> QED
    BY <1>3, <1>4, <1>7, <1>8
<1>10. q = z => r = y
  <2>1. SUFFICES ASSUME q = z
                 PROVE  r = y
    OBVIOUS
  <2>2. y # l
    <3> HIDE DEF l
    <3> QED
      BY <1>2, <1>4, <1>5
  <2> QED
    BY <1>7, <2>1, <2>2
<1>11. r = y => q = z
  BY <1>2
<1>12. q # z => t.left[q] = y
  BY <1>3, <1>7
<1>13. l # y
  <2> HIDE DEF l
  <2> QED
    BY <1>2, <1>4, <1>5
<1>14. r # l
  <2>1. r \in Nat /\ z < r
    BY <1>2, SoundNode
  <2> HIDE DEF l, r
  <2> QED
    BY <1>2, <1>5, <2>1
<1> QED
  BY <1>2, <1>3, <1>6, <1>7, <1>9, <1>10, <1>11, <1>12, <1>13, <1>14 DEF Successor

(***************************************************************************)
(* cut_root makes the change Succeeded describes.                          *)
(***************************************************************************)
LEMMA CutForm ==
  ASSUME NEW B \in Nat, NEW lo, NEW hi, NEW t, Sound(t, lo, hi, B),
         NEW z, z = t.root, z # NIL, t.left[z] # NIL, t.right[z] # NIL,
         NEW y, y = subtree_minimum(t, t.right[z]), NEW n, n = cut_root(t, z)
  PROVE  Succeeded(n, t, z, y)
<1> DEFINE l == t.left[z]
           r == t.right[z]
           q == t.parent[y]
<1>1. /\ z \in Keys /\ t \in Trees /\ t.nodes \subseteq Keys /\ t.parent[z] = NIL /\ NIL \notin Keys
  BY KeysAssumption DEF Sound, Trees, NIL
<1>2. Successor(t, lo, hi, z, y, l, r, q)
  BY SuccessorFacts
<1>3. /\ l \in Keys /\ r \in Keys /\ y \in Keys /\ q \in Keys /\ l # y /\ l # r /\ q # y /\ y # z
      /\ q = z <=> r = y
      /\ q # z => t.left[q] = y
      /\ t.parent[l] = z /\ t.parent[r] = z
  BY <1>1, <1>2 DEF Successor
<1>4. CASE q = z
  <2> DEFINE u == PutLeft(replace(t, z, y), y, t.left[z])
  <2>1. n = PutParent(u, u.left[y], y)
    BY <1>4 DEF cut_root, PutLeft, PutParent
  <2>2. Topped(n, t, z, y)
    <3> HIDE DEF u
    <3> QED
      BY <1>1, <1>3, <2>1, TopForm DEF u
  <2> HIDE DEF u
  <2>3. r = y
    BY <1>3, <1>4
  <2> QED
    BY <1>3, <1>4, <2>2, <2>3 DEF Topped, Succeeded
<1>5. CASE q # z
  <2> DEFINE t1 == PutRight(replace(t, y, t.right[y]), y, t.right[z])
             t2 == PutParent(t1, t1.right[y], y)
             u == PutLeft(replace(t2, z, y), y, t2.left[z])
  <2>1. n = PutParent(u, u.left[y], y)
    BY <1>5 DEF cut_root, PutLeft, PutRight, PutParent
  <2>2. r # t.right[y] /\ r # y
    <3>1. t.right[y] # NIL => t.parent[t.right[y]] = y
      BY <1>2, SoundNode DEF Successor
    <3> QED
      BY <1>1, <1>3, <1>5, <3>1
  <2>3. Unhooked(t2, t, y, r)
    <3>1. t1 = PutRight(replace(t, y, t.right[y]), y, r)
      OBVIOUS
    <3> HIDE DEF t1, r, q
    <3>2. t.parent[y] \in Keys /\ t.parent[y] # y /\ t.left[t.parent[y]] = y
      BY <1>3, <1>5 DEF q
    <3> QED
      BY <1>1, <1>3, <2>2, <3>1, <3>2, UnhookForm
  <2> HIDE DEF t2
  <2>4. t2 \in Trees /\ t2.parent[z] = NIL /\ t2.left[z] = l
    <3>1. z # r /\ z # t.right[y]
      <4>1. t.right[y] # NIL => t.parent[t.right[y]] = y
        BY <1>2, SoundNode DEF Successor
      <4> QED
        BY <1>1, <1>3, <4>1
    <3> QED
      BY <1>1, <1>3, <1>5, <2>3, <3>1 DEF Unhooked
  <2>5. Topped(n, t2, z, y)
    <3> HIDE DEF u, l
    <3> QED
      BY <1>1, <1>3, <2>1, <2>4, TopForm DEF u
  <2> HIDE DEF u
  <2>6. ASSUME NEW k \in Keys \ {z}
        PROVE  /\ n.left[k] = IF k = y THEN l
                              ELSE IF k = q THEN t.right[y] ELSE t.left[k]
               /\ n.right[k] = IF k = y /\ q # z THEN r ELSE t.right[k]
               /\ n.parent[k] = IF k = y THEN NIL
                                ELSE IF k = l \/ k = r THEN y
                                ELSE IF k = t.right[y] /\ q # z THEN q ELSE t.parent[k]
    <3>1. /\ t2.left[k] = IF k = q THEN t.right[y] ELSE t.left[k]
          /\ t2.right[k] = IF k = y THEN r ELSE t.right[k]
          /\ t2.parent[k] = IF k = r THEN y ELSE IF k = t.right[y] THEN q ELSE t.parent[k]
      BY <2>3 DEF Unhooked
    <3>2. /\ n.left[k] = IF k = y THEN l ELSE t2.left[k]
          /\ n.right[k] = t2.right[k]
          /\ n.parent[k] = IF k = l THEN y ELSE IF k = y THEN NIL ELSE t2.parent[k]
      BY <2>4, <2>5 DEF Topped
    <3> HIDE DEF l, r, q
    <3> QED
      BY <1>3, <1>5, <3>1, <3>2
  <2>7. /\ n \in Trees /\ n.nodes = t.nodes /\ n.node_count = t.node_count /\ n.root = y
    BY <2>3, <2>5 DEF Topped, Unhooked
  <2> QED
    BY <2>6, <2>7 DEF Succeeded
<1> QED
  BY <1>4, <1>5

(***************************************************************************)
(* The root with two children taken out: y gets its interval, the          *)
(* intervals that began at z begin at y, and the tree without z is sound.  *)
(***************************************************************************)
LEMMA CutBoth ==
  ASSUME NEW B \in Nat, NEW lo, NEW hi, NEW t, Sound(t, lo, hi, B),
         NEW z, z = t.root, z # NIL, t.left[z] # NIL, t.right[z] # NIL,
         NEW n, n = cut_root(t, z), NEW m \in Trees, FreedFrom(m, n, z)
  PROVE  \E lo2, hi2 : Sound(m, lo2, hi2, B)
<1> DEFINE y == subtree_minimum(t, t.right[z])
           l == t.left[z]
           r == t.right[z]
           q == t.parent[y]
           b == t.right[y]
<1>1. /\ t \in Trees /\ t.nodes \subseteq Keys /\ lo \in [Keys -> 0 .. B]
      /\ hi \in [Keys -> 0 .. B] /\ z \in t.nodes /\ NIL \notin Keys
  BY KeysAssumption DEF Sound, Trees, NIL
<1>2. Successor(t, lo, hi, z, y, l, r, q)
  BY SuccessorFacts
<1>3. Succeeded(n, t, z, y)
  BY CutForm
<1> HIDE DEF y
<1>4. /\ z \in Keys /\ z \in Nat /\ t.parent[z] = NIL /\ lo[z] = 0 /\ hi[z] = B
      /\ 0 < z /\ z < B /\ hi[r] = B
  BY <1>1, SoundNode
<1>5. /\ l \in t.nodes /\ t.parent[l] = z /\ lo[l] = 0 /\ hi[l] = z
      /\ r \in t.nodes /\ t.parent[r] = z /\ lo[r] = z
      /\ y \in t.nodes /\ lo[y] = z /\ t.left[y] = NIL /\ y # z /\ l # y /\ l # r
      /\ q \in t.nodes /\ q # y
      /\ q = z <=> r = y
      /\ q # z => t.left[q] = y
      /\ t.parent[y] = q
  BY <1>2 DEF Successor
<1>6. /\ y \in Nat /\ z < y /\ y < hi[y] /\ hi[y] <= B /\ y # NIL /\ hi[y] \in Nat
      /\ b # NIL => b \in t.nodes /\ t.parent[b] = y /\ lo[b] = y /\ hi[b] = hi[y]
  BY <1>5, SoundNode
<1>7. b # y /\ b # l /\ b # r /\ b # z
  <2>1. b = NIL => b # y /\ b # l /\ b # r /\ b # z
    BY <1>1, <1>4, <1>5
  <2>2. b # NIL => b # y /\ b # l /\ b # r /\ b # z
    <3> HIDE DEF b, l, r, q
    <3> QED
      BY <1>1, <1>4, <1>5, <1>6
  <2> QED
    BY <2>1, <2>2
<1>8. q # z => lo[q] = z /\ hi[y] = q
  BY <1>5, <1>6, SoundNode
<1>9. /\ m.nodes = t.nodes \ {z} /\ m.root = y
      /\ m.left[z] = NIL /\ m.right[z] = NIL /\ m.parent[z] = NIL
  BY <1>3 DEF Succeeded, FreedFrom
<1>10. ASSUME NEW k \in Keys, k # z
       PROVE  /\ m.left[k] = IF k = y THEN l ELSE IF k = q THEN b ELSE t.left[k]
              /\ m.right[k] = IF k = y /\ q # z THEN r ELSE t.right[k]
              /\ m.parent[k] = IF k = y THEN NIL
                               ELSE IF k = l \/ k = r THEN y
                               ELSE IF k = b /\ q # z THEN q ELSE t.parent[k]
  <2>1. m.left[k] = n.left[k] /\ m.right[k] = n.right[k] /\ m.parent[k] = n.parent[k]
    BY <1>10 DEF FreedFrom
  <2> QED
    BY <1>3, <1>10, <2>1 DEF Succeeded
<1> HIDE DEF l, r, q, b
<1> DEFINE lo2 == [k \in Keys |-> IF k = y THEN 0 ELSE IF lo[k] = z THEN y ELSE lo[k]]
           hi2 == [k \in Keys |-> IF k = y THEN B ELSE IF hi[k] = z THEN y ELSE hi[k]]
<1>11. /\ lo2 \in [Keys -> 0 .. B] /\ hi2 \in [Keys -> 0 .. B]
       /\ lo2[y] = 0 /\ hi2[y] = B
       /\ \A k \in Keys : k # y => /\ lo2[k] = IF lo[k] = z THEN y ELSE lo[k]
                                   /\ hi2[k] = IF hi[k] = z THEN y ELSE hi[k]
  BY <1>1, <1>5, <1>6
<1> HIDE DEF lo2, hi2
<1>12. NodeSound(m, lo2, hi2, y)
  <2>1. m.left[y] = l /\ l \in m.nodes /\ m.parent[l] = y /\ lo2[l] = 0 /\ hi2[l] = y
    <3>1. l \in Keys /\ l # z /\ y \in Keys
      BY <1>1, <1>4, <1>5
    <3> QED
      BY <1>4, <1>5, <1>9, <1>10, <1>11, <3>1
  <2>2. lo2[y] < y /\ y < hi2[y] /\ y = m.root /\ lo2[y] = 0 /\ hi2[y] = B
    BY <1>4, <1>6, <1>9, <1>11
  <2>3. CASE q # z
    <3>1. r \in Keys /\ r # z /\ y \in Keys /\ r # y
      BY <1>1, <1>4, <1>5, <2>3
    <3>2. m.right[y] = r /\ r \in m.nodes /\ m.parent[r] = y /\ lo2[r] = y /\ hi2[r] = B
      BY <1>4, <1>5, <1>9, <1>10, <1>11, <2>3, <3>1
    <3> QED
      BY <2>1, <2>2, <3>2 DEF NodeSound
  <2>4. CASE q = z
    <3>1. m.right[y] = b
      BY <1>1, <1>5, <1>10, <2>4 DEF b
    <3>2. b # NIL => b \in m.nodes /\ m.parent[b] = y /\ lo2[b] = y /\ hi2[b] = B
      <4>1. b # NIL => b \in Keys /\ b # z /\ b # y
        BY <1>1, <1>6, <1>7
      <4>2. hi[y] = B
        BY <1>4, <1>5, <2>4
      <4> QED
        BY <1>4, <1>6, <1>7, <1>9, <1>10, <1>11, <2>4, <4>1, <4>2
    <3> QED
      BY <2>1, <2>2, <3>1, <3>2 DEF NodeSound
  <2> QED
    BY <2>3, <2>4
<1>13. ASSUME NEW k \in t.nodes, k # z, k # y
       PROVE  NodeSound(m, lo2, hi2, k)
  <2>1. /\ k \in Keys /\ lo[k] < k /\ k < hi[k] /\ k \in Nat /\ k # NIL
        /\ lo[k] \in Nat /\ hi[k] \in Nat /\ hi[k] <= B
        /\ t.left[k] # NIL =>
             /\ t.left[k] \in t.nodes /\ t.parent[t.left[k]] = k
             /\ lo[t.left[k]] = lo[k] /\ hi[t.left[k]] = k
        /\ t.right[k] # NIL =>
             /\ t.right[k] \in t.nodes /\ t.parent[t.right[k]] = k
             /\ lo[t.right[k]] = k /\ hi[t.right[k]] = hi[k]
        /\ t.parent[k] \in t.nodes /\ k \in {t.left[t.parent[k]], t.right[t.parent[k]]}
    BY <1>13, SoundNode
  <2>2. lo2[k] < k /\ k < hi2[k] /\ lo2[k] = (IF lo[k] = z THEN y ELSE lo[k])
          /\ hi2[k] = (IF hi[k] = z THEN y ELSE hi[k])
    <3>1. ~ (lo[y] < k /\ k < y)
      BY <1>5, Vacant
    <3>2. lo2[k] = (IF lo[k] = z THEN y ELSE lo[k]) /\ hi2[k] = (IF hi[k] = z THEN y ELSE hi[k])
      BY <1>11, <1>13, <2>1
    <3> QED
      BY <1>4, <1>5, <1>6, <1>13, <2>1, <3>1, <3>2
  <2>3. ASSUME NEW c \in t.nodes, t.parent[c] = k, c # y
        PROVE  /\ c \in m.nodes /\ m.parent[c] = k /\ c \in Keys
               /\ lo2[c] = (IF lo[c] = z THEN y ELSE lo[c])
               /\ hi2[c] = (IF hi[c] = z THEN y ELSE hi[c])
    <3>1. c # z /\ c \in Keys
      BY <1>1, <1>4, <2>1, <2>3
    <3>2. c # l /\ c # r
      BY <1>5, <1>13, <2>3
    <3>3. c # b
      BY <1>1, <1>6, <1>13, <2>3
    <3> QED
      BY <1>9, <1>10, <1>11, <2>3, <3>1, <3>2, <3>3
  <2>4. m.left[k] # NIL =>
          /\ m.left[k] \in m.nodes /\ m.parent[m.left[k]] = k
          /\ lo2[m.left[k]] = lo2[k] /\ hi2[m.left[k]] = k
    <3>1. CASE k = q
      <4>1. m.left[k] = b
        BY <1>10, <1>13, <2>1, <3>1
      <4>2. b # NIL => b \in Keys /\ b \in m.nodes /\ m.parent[b] = k
        <5>1. b # NIL => b \in Keys
          BY <1>1, <1>6
        <5> QED
          BY <1>6, <1>7, <1>9, <1>10, <1>13, <3>1, <5>1
      <4>3. b # NIL => lo2[b] = y /\ hi2[b] = k
        BY <1>6, <1>7, <1>8, <1>11, <1>13, <3>1, <4>2
      <4>4. lo2[k] = y
        BY <1>8, <1>13, <2>2, <3>1
      <4> QED
        BY <4>1, <4>2, <4>3, <4>4
    <3>2. CASE k # q
      <4> DEFINE c == t.left[k]
      <4>1. m.left[k] = c
        BY <1>10, <1>13, <2>1, <3>2
      <4>2. c # NIL => c \in t.nodes /\ t.parent[c] = k /\ lo[c] = lo[k] /\ hi[c] = k
        BY <2>1
      <4> HIDE DEF c
      <4>3. c # NIL => c # y
        BY <1>5, <3>2, <4>2
      <4> QED
        BY <1>13, <2>2, <2>3, <4>1, <4>2, <4>3
    <3> QED
      BY <3>1, <3>2
  <2>5. m.right[k] # NIL =>
          /\ m.right[k] \in m.nodes /\ m.parent[m.right[k]] = k
          /\ lo2[m.right[k]] = k /\ hi2[m.right[k]] = hi2[k]
    <3> DEFINE c == t.right[k]
    <3>1. m.right[k] = c
      BY <1>10, <1>13, <2>1
    <3>2. c # NIL => c \in t.nodes /\ t.parent[c] = k /\ lo[c] = k /\ hi[c] = hi[k]
      BY <2>1
    <3> HIDE DEF c
    <3>3. c # NIL => c # y
      BY <1>5, <1>13, <3>2
    <3> QED
      BY <1>13, <2>2, <2>3, <3>1, <3>2, <3>3
  <2>6. m.parent[k] \in m.nodes /\ k \in {m.left[m.parent[k]], m.right[m.parent[k]]}
    <3>1. CASE k = l
      <4>1. m.parent[k] = y
        BY <1>10, <1>13, <2>1, <3>1
      <4>2. y \in Keys /\ y \in m.nodes
        BY <1>1, <1>5, <1>9
      <4>3. m.left[y] = l
        BY <1>5, <1>10, <4>2
      <4> QED
        BY <3>1, <4>1, <4>2, <4>3
    <3>2. CASE k = r
      <4>1. q # z
        BY <1>5, <1>13, <3>2
      <4>2. m.parent[k] = y
        BY <1>10, <1>13, <2>1, <3>2
      <4>3. y \in Keys /\ y \in m.nodes
        BY <1>1, <1>5, <1>9
      <4>4. m.right[y] = r
        BY <1>5, <1>10, <4>1, <4>3
      <4> QED
        BY <3>2, <4>2, <4>3, <4>4
    <3>3. CASE k # l /\ k # r /\ k = b /\ q # z
      <4>1. m.parent[k] = q /\ q \in Keys
        BY <1>1, <1>5, <1>10, <1>13, <2>1, <3>3
      <4>2. m.left[q] = b
        BY <1>5, <1>10, <3>3, <4>1
      <4> QED
        BY <1>5, <1>9, <3>3, <4>1, <4>2
    <3>4. CASE k # l /\ k # r /\ ~ (k = b /\ q # z)
      <4> DEFINE w == t.parent[k]
      <4>1. m.parent[k] = w
        BY <1>10, <1>13, <2>1, <3>4
      <4>2. w \in t.nodes /\ w \in Keys /\ k \in {t.left[w], t.right[w]}
        BY <1>1, <2>1
      <4> HIDE DEF w
      <4>3. w # z
        BY <3>4, <4>2 DEF l, r
      <4>4. CASE w = y
        <5>1. k = b /\ q = z
          BY <1>5, <2>1, <3>4, <4>2, <4>4 DEF b
        <5>2. m.right[y] = b
          BY <1>10, <4>2, <4>3, <4>4, <5>1 DEF b
        <5> QED
          BY <1>5, <1>9, <4>1, <4>3, <4>4, <5>1, <5>2
      <4>5. CASE w # y
        <5>1. m.right[w] = t.right[w] /\ (w # q => m.left[w] = t.left[w])
          BY <1>10, <4>2, <4>3, <4>5
        <5>2. w = q => k = t.right[w]
          BY <1>5, <1>13, <4>2, <4>3
        <5> QED
          BY <1>9, <4>1, <4>2, <4>3, <5>1, <5>2
      <4> QED
        BY <4>4, <4>5
    <3> QED
      BY <3>1, <3>2, <3>3, <3>4
  <2> QED
    BY <2>2, <2>4, <2>5, <2>6 DEF NodeSound
<1>14. ASSUME NEW k \in Keys \ m.nodes
       PROVE  m.left[k] = NIL /\ m.right[k] = NIL /\ m.parent[k] = NIL
  <2>1. CASE k = z
    BY <1>9, <2>1
  <2>2. CASE k # z
    <3>1. k \notin t.nodes /\ t.left[k] = NIL /\ t.right[k] = NIL /\ t.parent[k] = NIL
      BY <1>9, <2>2 DEF Sound
    <3>2. k # y /\ k # l /\ k # r /\ k # q /\ k # b
      BY <1>1, <1>5, <1>6, <3>1
    <3> QED
      BY <1>10, <2>2, <3>1, <3>2
  <2> QED
    BY <2>1, <2>2
<1>15. \A k \in m.nodes : NodeSound(m, lo2, hi2, k)
  BY <1>9, <1>12, <1>13
<1>16. m.root # NIL /\ m.root \in m.nodes /\ m.parent[m.root] = NIL /\ lo2[m.root] = 0 /\ hi2[m.root] = B
  BY <1>1, <1>5, <1>6, <1>9, <1>10, <1>11
<1>17. Sound(m, lo2, hi2, B)
  BY <1>11, <1>14, <1>15, <1>16 DEF Sound
<1> QED
  BY <1>17

-----------------------------------------------------------------------------

(***************************************************************************)
(* free_subtree from the root reaches every node: below each node lie      *)
(* exactly the nodes with keys in its interval. By descent on the width of *)
(* the interval.                                                           *)
(***************************************************************************)
LEMMA FreeReachesAll ==
  ASSUME NEW B \in Nat, NEW lo, NEW hi, NEW t, Sound(t, lo, hi, B)
  PROVE  free_subtree(t, t.root) = t.nodes
<1> DEFINE In(y) == {z \in t.nodes : lo[y] < z /\ z < hi[y]}
           F == [y \in Ptr |-> IF y = NIL THEN {} ELSE IF y \in t.nodes THEN In(y) ELSE {y}]
           body(h) == [y \in Ptr |-> IF y = NIL THEN {}
                                     ELSE {y} \cup h[t.left[y]] \cup h[t.right[y]]]
           f == CHOOSE h : h = body(h)
           W(y) == Wide(lo, hi, y)
           T == {k \in Nat : \E y \in t.nodes : f[y] # In(y) /\ W(y) = k}
<1>1. /\ t \in Trees /\ t.nodes \subseteq Keys /\ NIL \notin Keys /\ t.root \in Ptr
      /\ t.left \in [Keys -> Ptr] /\ t.right \in [Keys -> Ptr]
  BY KeysAssumption DEF Sound, Trees, NIL
<1>2. ASSUME NEW y \in t.nodes
      PROVE  /\ y \in Keys /\ y \in Nat /\ y # NIL /\ lo[y] \in Nat /\ hi[y] \in Nat
             /\ lo[y] < y /\ y < hi[y]
             /\ t.left[y] # NIL => /\ t.left[y] \in t.nodes
                                   /\ lo[t.left[y]] = lo[y] /\ hi[t.left[y]] = y
             /\ t.right[y] # NIL => /\ t.right[y] \in t.nodes
                                    /\ lo[t.right[y]] = y /\ hi[t.right[y]] = hi[y]
  BY SoundNode
<1>3. ASSUME NEW y \in t.nodes, NEW L, NEW R,
             L = IF t.left[y] = NIL THEN {} ELSE In(t.left[y]),
             R = IF t.right[y] = NIL THEN {} ELSE In(t.right[y])
      PROVE  In(y) = {y} \cup L \cup R
  <2>1. L = {z \in t.nodes : lo[y] < z /\ z < y}
    <3>1. CASE t.left[y] = NIL
      BY <1>3, <3>1, Vacant
    <3>2. CASE t.left[y] # NIL
      BY <1>2, <1>3, <3>2
    <3> QED
      BY <3>1, <3>2
  <2>2. R = {z \in t.nodes : y < z /\ z < hi[y]}
    <3>1. CASE t.right[y] = NIL
      BY <1>3, <3>1, Vacant
    <3>2. CASE t.right[y] # NIL
      BY <1>2, <1>3, <3>2
    <3> QED
      BY <3>1, <3>2
  <2>3. ASSUME NEW z \in t.nodes
        PROVE  lo[y] < z /\ z < hi[y] <=> z = y \/ (lo[y] < z /\ z < y) \/ (y < z /\ z < hi[y])
    BY <1>2
  <2> QED
    BY <2>1, <2>2, <2>3
<1>4. F = body(F)
  <2>1. ASSUME NEW y \in Ptr
        PROVE  F[y] = IF y = NIL THEN {} ELSE {y} \cup F[t.left[y]] \cup F[t.right[y]]
    <3>1. CASE y = NIL
      BY <3>1
    <3>2. CASE y \in t.nodes
      <4> DEFINE a == t.left[y]
                 b == t.right[y]
      <4>1. a \in Ptr /\ b \in Ptr /\ y # NIL
        BY <1>1, <3>2
      <4>2. a # NIL => a \in t.nodes
        BY <1>2, <3>2
      <4>3. b # NIL => b \in t.nodes
        BY <1>2, <3>2
      <4>4. F[a] = IF a = NIL THEN {} ELSE In(a)
        <5> HIDE DEF In, a
        <5> QED
          BY <4>1, <4>2
      <4>5. F[b] = IF b = NIL THEN {} ELSE In(b)
        <5> HIDE DEF In, b
        <5> QED
          BY <4>1, <4>3
      <4>6. F[y] = In(y)
        <5> HIDE DEF In
        <5> QED
          BY <3>2, <4>1
      <4>7. In(y) = {y} \cup F[a] \cup F[b]
        <5> HIDE DEF In, F
        <5> QED
          BY <1>3, <3>2, <4>4, <4>5
      <4> HIDE DEF F, In
      <4> QED
        BY <4>1, <4>6, <4>7
    <3>3. CASE y \notin t.nodes /\ y # NIL
      <4>1. y \in Keys
        BY <3>3 DEF Ptr
      <4>2. t.left[y] = NIL /\ t.right[y] = NIL
        BY <3>3, <4>1 DEF Sound
      <4>3. NIL \in Ptr
        BY DEF Ptr
      <4>4. F[NIL] = {} /\ F[y] = {y}
        <5> HIDE DEF In
        <5> QED
          BY <3>3, <4>3
      <4> HIDE DEF F
      <4> QED
        BY <3>3, <4>2, <4>4
    <3> QED
      BY <3>1, <3>2, <3>3
  <2>2. F = [y \in Ptr |-> F[y]]
    <3> HIDE DEF In
    <3> QED
      OBVIOUS
  <2> HIDE DEF F
  <2> QED
    BY <2>1, <2>2
<1>5. f = body(f)
  <2> HIDE DEF F, body
  <2> QED
    BY <1>4
<1>6. free_subtree(t, t.root) = f[t.root]
  BY DEF free_subtree
<1> HIDE DEF F, f
<1>7. NIL \in Ptr /\ f[NIL] = {}
  BY <1>5 DEF Ptr
<1>8. ASSUME NEW y \in t.nodes
      PROVE  f[y] = {y} \cup f[t.left[y]] \cup f[t.right[y]]
  <2>1. y \in Ptr /\ y # NIL
    BY <1>1 DEF Ptr
  <2> QED
    BY <1>5, <2>1
<1> HIDE DEF body
<1>9. T = {}
  <2>1. SUFFICES ASSUME T # {}
                 PROVE  FALSE
    OBVIOUS
  <2>2. PICK k \in T : \A j \in T : k <= j
    <3>1. T \subseteq Nat
      OBVIOUS
    <3> HIDE DEF T
    <3> QED
      BY <2>1, <3>1, LeastNatural
  <2>3. PICK y \in t.nodes : f[y] # In(y) /\ W(y) = k
    <3> HIDE DEF In, W
    <3> QED
      BY <2>2
  <2>4. ASSUME NEW c \in t.nodes, W(c) < W(y), W(c) \in Nat, W(y) \in Nat
        PROVE  f[c] = In(c)
    <3> HIDE DEF In, W
    <3> QED
      BY <2>2, <2>3, <2>4
  <2> DEFINE a == t.left[y]
             b == t.right[y]
  <2>5. f[a] = IF a = NIL THEN {} ELSE In(a)
    <3>1. CASE a = NIL
      BY <1>7, <3>1
    <3>2. CASE a # NIL
      <4>1. a \in t.nodes /\ lo[a] = lo[y] /\ hi[a] = y /\ a \in Nat /\ lo[a] < a /\ a < hi[a]
        BY <1>2, <3>2
      <4>2. W(a) < W(y) /\ W(a) \in Nat /\ W(y) \in Nat
        <5> HIDE DEF a
        <5> QED
          BY <1>2, <4>1 DEF Wide
      <4> HIDE DEF a, In, W
      <4> QED
        BY <2>4, <3>2, <4>1, <4>2
    <3> QED
      BY <3>1, <3>2
  <2>6. f[b] = IF b = NIL THEN {} ELSE In(b)
    <3>1. CASE b = NIL
      BY <1>7, <3>1
    <3>2. CASE b # NIL
      <4>1. b \in t.nodes /\ lo[b] = y /\ hi[b] = hi[y] /\ b \in Nat /\ lo[b] < b /\ b < hi[b]
        BY <1>2, <3>2
      <4>2. W(b) < W(y) /\ W(b) \in Nat /\ W(y) \in Nat
        <5> HIDE DEF b
        <5> QED
          BY <1>2, <4>1 DEF Wide
      <4> HIDE DEF b, In, W
      <4> QED
        BY <2>4, <3>2, <4>1, <4>2
    <3> QED
      BY <3>1, <3>2
  <2>7. In(y) = {y} \cup f[a] \cup f[b]
    <3> HIDE DEF In
    <3> QED
      BY <1>3, <2>5, <2>6
  <2> HIDE DEF In
  <2> QED
    BY <1>8, <2>3, <2>7
<1>10. CASE t.root = NIL
  <2>1. t.nodes = {}
    BY <1>10 DEF Sound
  <2> QED
    BY <1>6, <1>7, <1>10, <2>1
<1>11. CASE t.root # NIL
  <2>1. t.root \in t.nodes /\ lo[t.root] = 0 /\ hi[t.root] = B
    BY <1>11 DEF Sound
  <2>2. W(t.root) \in Nat
    BY <2>1 DEF Wide
  <2>3. f[t.root] = In(t.root)
    <3> HIDE DEF In, W
    <3> QED
      BY <1>9, <2>1, <2>2
  <2>4. \A z \in t.nodes : 0 < z /\ z < B
    BY SoundNode
  <2>5. In(t.root) = t.nodes
    BY <2>1, <2>4
  <2> QED
    BY <1>6, <2>3, <2>5
<1> QED
  BY <1>10, <1>11

-----------------------------------------------------------------------------
(***************************************************************************)
(* A bound above every key.                                                *)
(***************************************************************************)
Top == CHOOSE B \in Nat : 0 < B /\ \A k \in Keys : k < B

(***************************************************************************)
(* The inductive invariant of the tree: intervals exist that make it       *)
(* sound, and node_count counts its nodes.                                 *)
(***************************************************************************)
Good(t) ==
  /\ \E lo, hi : Sound(t, lo, hi, Top)
  /\ t.node_count = Cardinality(t.nodes)

(***************************************************************************)
(* The bound exists.                                                       *)
(***************************************************************************)
LEMMA TopFact ==
  Top \in Nat /\ 0 < Top /\ \A k \in Keys : k < Top
BY KeysBounded DEF Top

(***************************************************************************)
(* The nodes of a tree are a finite set, so their number is a natural      *)
(* number.                                                                 *)
(***************************************************************************)
LEMMA FiniteNodes ==
  ASSUME NEW t \in Trees
  PROVE  IsFiniteSet(t.nodes) /\ Cardinality(t.nodes) \in Nat
<1>1. t.nodes \in SUBSET Keys
  BY DEF Trees
<1>2. IsFiniteSet(t.nodes)
  BY <1>1, KeysAssumption, FS_Subset
<1> QED
  BY <1>2, FS_CardinalityType

(***************************************************************************)
(* A change of node_count alone keeps a tree sound.                        *)
(***************************************************************************)
LEMMA Recount ==
  ASSUME NEW B \in Nat, NEW lo, NEW hi, NEW t, Sound(t, lo, hi, B), NEW u \in Trees,
         u.root = t.root, u.left = t.left, u.right = t.right, u.parent = t.parent,
         u.nodes = t.nodes
  PROVE  Sound(u, lo, hi, B)
<1>1. \A x \in u.nodes : NodeSound(u, lo, hi, x)
  BY DEF Sound, NodeSound
<1> QED
  BY <1>1 DEF Sound

(***************************************************************************)
(* tree_new returns a good tree without nodes.                             *)
(***************************************************************************)
LEMMA NewGood == Good(tree_new) /\ tree_new.nodes = {}
<1> DEFINE z == [k \in Keys |-> 0]
<1>1. Top \in Nat
  BY TopFact
<1>2. tree_new \in Trees
  BY DEF tree_new, Trees, Ptr
<1>3. /\ tree_new.root = NIL /\ tree_new.nodes = {} /\ tree_new.node_count = 0
      /\ \A k \in Keys : /\ tree_new.left[k] = NIL /\ tree_new.right[k] = NIL
                         /\ tree_new.parent[k] = NIL
  BY DEF tree_new
<1>4. z \in [Keys -> 0 .. Top]
  BY <1>1
<1> HIDE DEF z
<1>5. Sound(tree_new, z, z, Top)
  BY <1>2, <1>3, <1>4 DEF Sound
<1> QED
  BY <1>3, <1>5, FS_EmptySet DEF Good

(***************************************************************************)
(* tree_insert of any key into a good tree returns a good tree with that   *)
(* key added.                                                              *)
(***************************************************************************)
LEMMA InsertGood ==
  ASSUME NEW t, Good(t), NEW key \in Keys, NEW n, n = tree_insert(t, key)
  PROVE  Good(n) /\ n.nodes = t.nodes \cup {key}
<1>1. PICK lo, hi : Sound(t, lo, hi, Top)
  BY DEF Good
<1>2. Top \in Nat /\ 0 < Top /\ key < Top /\ key # NIL
  BY TopFact, KeysAssumption DEF NIL
<1>3. tree_find(t, key) = IF key \in t.nodes THEN key ELSE NIL
  BY <1>1, <1>2, FindIsMember
<1>4. CASE key \in t.nodes
  <2>1. n = t
    BY <1>2, <1>3, <1>4 DEF tree_insert
  <2> QED
    BY <1>4, <2>1
<1>5. CASE key \notin t.nodes
  <2> DEFINE p == search(t, key)
             u == Attached(t, key, p)
             w == splay(u, key)
  <2>1. n = [w EXCEPT !.node_count = @ + 1]
    <3>1. ~ (tree_find(t, key) # NIL)
      BY <1>3, <1>5
    <3> QED
      BY <3>1 DEF tree_insert, Attached, PutLeft, PutRight
  <2>2. /\ u.nodes = t.nodes \cup {key} /\ u.node_count = t.node_count
        /\ \E lo2, hi2 : Sound(u, lo2, hi2, Top)
    <3>1. CASE t.root = NIL
      <4>1. p = NIL
        BY <3>1 DEF search
      <4> HIDE DEF p
      <4> QED
        BY <1>1, <1>2, <3>1, <4>1, AttachRoot
    <3>2. CASE t.root # NIL
      <4>1. /\ p \in t.nodes /\ lo[p] < key /\ key < hi[p]
            /\ p = key \/ Towards(t, p, key) = NIL
        BY <1>1, <1>2, <3>2, SearchEnds
      <4> HIDE DEF p
      <4> QED
        BY <1>1, <1>2, <1>5, <4>1, AttachBelow
    <3> QED
      BY <3>1, <3>2
  <2> HIDE DEF p, u
  <2>3. PICK lo1, hi1 : Sound(u, lo1, hi1, Top)
    BY <2>2
  <2>4. /\ w.nodes = u.nodes /\ w.node_count = u.node_count
        /\ \E lo2, hi2 : Sound(w, lo2, hi2, Top)
    BY <1>2, <2>2, <2>3, SplaySound
  <2> HIDE DEF w
  <2>5. PICK lo2, hi2 : Sound(w, lo2, hi2, Top)
    BY <2>4
  <2>6. w \in Trees /\ t \in Trees
    BY <1>1, <2>5 DEF Sound
  <2>7. /\ n \in Trees /\ n.root = w.root /\ n.left = w.left /\ n.right = w.right
        /\ n.parent = w.parent /\ n.nodes = w.nodes /\ n.node_count = w.node_count + 1
    BY <2>1, <2>6 DEF Trees
  <2>8. Sound(n, lo2, hi2, Top)
    BY <1>2, <2>5, <2>7, Recount
  <2>9. IsFiniteSet(t.nodes) /\ t.node_count = Cardinality(t.nodes)
    BY <2>6, FiniteNodes DEF Good
  <2>10. Cardinality(t.nodes \cup {key}) = Cardinality(t.nodes) + 1
    BY <1>5, <2>9, FS_AddElement
  <2>11. n.nodes = t.nodes \cup {key} /\ n.node_count = Cardinality(t.nodes) + 1
    BY <2>2, <2>4, <2>7, <2>9
  <2> QED
    BY <2>8, <2>10, <2>11 DEF Good
<1> QED
  BY <1>4, <1>5

(***************************************************************************)
(* tree_remove of any key from a good tree returns a good tree with that   *)
(* key taken away.                                                         *)
(***************************************************************************)
LEMMA RemoveGood ==
  ASSUME NEW t, Good(t), NEW key \in Keys, NEW m, m = tree_remove(t, key)
  PROVE  Good(m) /\ m.nodes = t.nodes \ {key}
<1>1. PICK lo, hi : Sound(t, lo, hi, Top)
  BY DEF Good
<1>2. Top \in Nat /\ 0 < Top /\ key < Top /\ key # NIL
  BY TopFact, KeysAssumption DEF NIL
<1>3. tree_find(t, key) = IF key \in t.nodes THEN key ELSE NIL
  BY <1>1, <1>2, FindIsMember
<1>4. CASE key \notin t.nodes
  <2>1. m = t
    BY <1>3, <1>4 DEF tree_remove
  <2> QED
    BY <1>4, <2>1
<1>5. CASE key \in t.nodes
  <2> DEFINE w == splay(t, key)
             n == cut_root(w, key)
  <2>1. m = Freed(n, key)
    <3>1. tree_find(t, key) = key
      BY <1>3, <1>5
    <3> QED
      BY <1>2, <3>1 DEF tree_remove, remove_node, Freed
  <2>2. /\ w.nodes = t.nodes /\ w.node_count = t.node_count /\ w.root = key
        /\ \E lo2, hi2 : Sound(w, lo2, hi2, Top)
    BY <1>1, <1>2, <1>5, SplaySound
  <2> HIDE DEF w
  <2>3. PICK lo1, hi1 : Sound(w, lo1, hi1, Top)
    BY <2>2
  <2>4. w \in Trees /\ t \in Trees
    BY <1>1, <2>3 DEF Sound
  <2>5. IsFiniteSet(t.nodes) /\ t.node_count = Cardinality(t.nodes) /\ Cardinality(t.nodes) \in Nat
    BY <2>4, FiniteNodes DEF Good
  <2>6. IsFiniteSet(t.nodes \ {key}) /\ Cardinality(t.nodes \ {key}) = Cardinality(t.nodes) - 1
    BY <1>5, <2>5, FS_RemoveElement
  <2>7. Cardinality(t.nodes) - 1 \in Nat
    BY <2>6, FS_CardinalityType
  <2> DEFINE a == w.left[key]
             b == w.right[key]
  <2>8. a \in Ptr /\ b \in Ptr
    BY <2>4 DEF Trees
  <2>9. n = IF a = NIL THEN replace(w, key, b)
            ELSE IF b = NIL THEN replace(w, key, a) ELSE cut_root(w, key)
    BY DEF cut_root
  <2>10. n \in Trees /\ n.nodes = t.nodes /\ n.node_count = t.node_count
    <3>1. Replaced(replace(w, key, b), w, key, b)
      BY <2>4, <2>8, ReplaceForm
    <3>2. Replaced(replace(w, key, a), w, key, a)
      BY <2>4, <2>8, ReplaceForm
    <3>3. a # NIL /\ b # NIL => Succeeded(n, w, key, subtree_minimum(w, b))
      BY <1>2, <2>2, <2>3, CutForm
    <3>4. CASE a = NIL
      BY <2>2, <2>9, <3>1, <3>4 DEF Replaced
    <3>5. CASE a # NIL /\ b = NIL
      BY <2>2, <2>9, <3>2, <3>5 DEF Replaced
    <3>6. CASE a # NIL /\ b # NIL
      <4> HIDE DEF n
      <4> QED
        BY <2>2, <3>3, <3>6 DEF Succeeded
    <3> QED
      BY <3>4, <3>5, <3>6
  <2> HIDE DEF n
  <2>11. FreedFrom(m, n, key)
    BY <2>1, <2>10, FreedForm
  <2>12. m \in Trees /\ m.nodes = t.nodes \ {key} /\ m.node_count = Cardinality(t.nodes) - 1
    BY <2>5, <2>7, <2>10, <2>11 DEF FreedFrom
  <2>13. \E lo2, hi2 : Sound(m, lo2, hi2, Top)
    <3>1. CASE a = NIL
      BY <1>2, <2>2, <2>3, <2>9, <2>11, <2>12, <3>1, CutNoLeft
    <3>2. CASE a # NIL /\ b = NIL
      BY <1>2, <2>2, <2>3, <2>9, <2>11, <2>12, <3>2, CutNoRight
    <3>3. CASE a # NIL /\ b # NIL
      <4>1. n = cut_root(w, key)
        BY DEF n
      <4> QED
        BY <1>2, <2>2, <2>3, <2>11, <2>12, <3>3, <4>1, CutBoth
    <3> QED
      BY <3>1, <3>2, <3>3
  <2> QED
    BY <2>6, <2>12, <2>13 DEF Good
<1> QED
  BY <1>4, <1>5

(***************************************************************************)
(* tree_free frees every node: nothing stays allocated for the tree_new    *)
(* that follows.                                                           *)
(***************************************************************************)
LEMMA FreeGood ==
  ASSUME NEW t, Good(t)
  PROVE  tree_free(t) = tree_new
<1>1. free_subtree(t, t.root) = t.nodes
  BY FreeReachesAll, TopFact DEF Good
<1>2. tree_free(t) = [tree_new EXCEPT !.nodes = {}]
  BY <1>1 DEF tree_free
<1> QED
  BY <1>2 DEF tree_new

-----------------------------------------------------------------------------

(***************************************************************************)
(* The inductive invariant of the specification.                           *)
(***************************************************************************)
Inv ==
  /\ Good(tree)
  /\ called \in ({"insert", "remove"} \X Keys \X BOOLEAN)
                  \cup {<< "new" >>, << "free" >>}

(***************************************************************************)
(* Every operation keeps the invariant.                                    *)
(***************************************************************************)
LEMMA InvStep == Inv /\ [Next]_vars => Inv'
<1> SUFFICES ASSUME Inv, [Next]_vars
             PROVE  Inv'
  OBVIOUS
<1>1. ASSUME NEW key \in Keys, TreeInsert(key)
      PROVE  Inv'
  BY <1>1, InsertGood DEF Inv, TreeInsert
<1>2. ASSUME NEW key \in Keys, TreeRemove(key)
      PROVE  Inv'
  BY <1>2, RemoveGood DEF Inv, TreeRemove
<1>3. CASE TreeFree
  BY <1>3, FreeGood, NewGood DEF Inv, TreeFree
<1>4. CASE UNCHANGED vars
  BY <1>4 DEF Inv, vars
<1> QED
  BY <1>1, <1>2, <1>3, <1>4 DEF Next

(***************************************************************************)
(* In every state the splay tree is good: no sequence of insertions,       *)
(* removals and tree_free, with the rotations they make, breaks the links, *)
(* the order or the count.                                                 *)
(***************************************************************************)
THEOREM Invariance == Spec => []Inv
<1>1. Init => Inv
  BY NewGood DEF Init, Inv
<1> QED
  BY <1>1, InvStep, PTL DEF Spec

(***************************************************************************)
(* Every link of the tree is a node or NIL and the count is a natural      *)
(* number: tree_remove never takes node_count below zero.                  *)
(***************************************************************************)
THEOREM TypeCorrect == Spec => []TypeOK
<1>1. Inv => TypeOK
  BY DEF Inv, Good, Sound, TypeOK
<1> QED
  BY <1>1, Invariance, PTL

(***************************************************************************)
(* A good tree has the links LinksSound describes. A node has not the same *)
(* child on both sides, whose interval would be empty.                     *)
(***************************************************************************)
LEMMA GoodLinks == Inv => LinksSound
<1> SUFFICES ASSUME Inv
             PROVE  LinksSound
  OBVIOUS
<1>1. PICK lo, hi : Sound(tree, lo, hi, Top)
  BY DEF Inv, Good
<1>2. Top \in Nat
  BY TopFact
<1>3. free_subtree(tree, tree.root) = tree.nodes
  BY <1>1, <1>2, FreeReachesAll
<1>4. tree.node_count = Cardinality(tree.nodes)
  BY DEF Inv, Good
<1>5. tree.root # NIL => tree.parent[tree.root] = NIL
  BY <1>1 DEF Sound
<1>6. ASSUME NEW x \in tree.nodes
      PROVE  /\ \A c \in {tree.left[x], tree.right[x]} \ {NIL} :
                  c \in tree.nodes /\ tree.parent[c] = x
             /\ tree.left[x] = tree.right[x] => tree.left[x] = NIL
             /\ x # tree.root => x \in {tree.left[tree.parent[x]],
                                        tree.right[tree.parent[x]]}
  <2>1. NodeSound(tree, lo, hi, x)
    BY <1>1 DEF Sound
  <2>2. tree.left[x] # NIL => tree.left[x] \in tree.nodes /\ hi[tree.left[x]] = x
    BY <1>1, <1>2, SoundNode
  <2>3. tree.right[x] # NIL => lo[tree.right[x]] = x
    BY <1>1, <1>2, SoundNode
  <2>4. tree.left[x] # NIL => lo[tree.left[x]] < hi[tree.left[x]] /\ lo[tree.left[x]] \in Nat
    BY <1>1, <1>2, <2>2, SoundNode
  <2>5. tree.left[x] = tree.right[x] => tree.left[x] = NIL
    BY <2>2, <2>3, <2>4
  <2> QED
    BY <2>1, <2>5, <1>1, <1>2, SoundNode DEF NodeSound, Sound
<1> QED
  BY <1>3, <1>4, <1>5, <1>6 DEF LinksSound

(***************************************************************************)
(* For every set of keys and every sequence of operations of stree.c: the  *)
(* links form one tree of exactly the allocated nodes, parents and         *)
(* children agree, node_count counts them, and no link leads to a freed    *)
(* node.                                                                   *)
(***************************************************************************)
THEOREM LinksStaySound == Spec => []LinksSound
BY Invariance, GoodLinks, PTL

(***************************************************************************)
(* In a good tree the result of tree_find_nearest is the predecessor       *)
(* OrderedMap defines: the greatest of the keys at most the given one is   *)
(* unique.                                                                 *)
(***************************************************************************)
LEMMA GoodNearest == Inv => NearestIsPredecessor
<1> SUFFICES ASSUME Inv, NEW key \in Keys
             PROVE  tree_find_nearest(tree, key) = Map!nearest(tree.nodes, key, NIL)
  BY DEF NearestIsPredecessor
<1> DEFINE below == {k \in tree.nodes : k <= key}
           n == tree_find_nearest(tree, key)
<1>1. PICK lo, hi : Sound(tree, lo, hi, Top)
  BY DEF Inv, Good
<1>2. Top \in Nat /\ key < Top
  BY TopFact
<1>3. /\ n = NIL => below = {}
      /\ n # NIL => n \in below /\ \A j \in below : j <= n
  BY <1>1, <1>2, NearestEnds
<1>4. below \subseteq Nat
  BY <1>1, KeysAssumption DEF Sound, Trees
<1>5. Map!nearest(tree.nodes, key, NIL)
        = IF below = {} THEN NIL ELSE CHOOSE k \in below : \A j \in below : j <= k
  BY DEF Map!nearest, Map!Greatest
<1>6. n \in below => n # NIL
  BY <1>1, KeysAssumption DEF Sound, Trees, NIL
<1> HIDE DEF n, below
<1>7. CASE n = NIL
  BY <1>3, <1>5, <1>7 DEF n
<1>8. CASE n # NIL
  <2>1. PICK m \in below : m = CHOOSE k \in below : \A j \in below : j <= k
    BY <1>3, <1>8
  <2>2. \A j \in below : j <= m
    BY <1>3, <1>8, <2>1
  <2>3. m \in Nat /\ n \in Nat /\ n <= m /\ m <= n
    BY <1>3, <1>4, <1>8, <2>1, <2>2
  <2>4. m = n
    BY <2>3
  <2> QED
    BY <1>3, <1>5, <1>8, <2>1, <2>4 DEF n
<1> QED
  BY <1>7, <1>8 DEF n

(***************************************************************************)
(* For every set of keys and every sequence of operations:                 *)
(* tree_find_nearest returns the "element with largest key <= given key"   *)
(* of stree.h, on which add_range of mdriver.c relies to see an overlap    *)
(* with the range before a new one.                                        *)
(***************************************************************************)
THEOREM NearestCorrect == Spec => []NearestIsPredecessor
BY Invariance, GoodNearest, PTL

(***************************************************************************)
(* The keys tree_find finds are the nodes of the tree.                     *)
(***************************************************************************)
LEMMA LookupSeesNodes ==
  ASSUME NEW t, Good(t)
  PROVE  {k \in Keys : tree_find(t, k) # NIL} = t.nodes
<1>1. PICK lo, hi : Sound(t, lo, hi, Top)
  BY DEF Good
<1>2. ASSUME NEW k \in Keys
      PROVE  tree_find(t, k) # NIL <=> k \in t.nodes
  <2>1. Top \in Nat /\ k < Top /\ k # NIL
    BY TopFact, KeysAssumption DEF NIL
  <2> QED
    BY <1>1, <2>1, FindIsMember
<1>3. t.nodes \subseteq Keys
  BY <1>1 DEF Sound, Trees
<1> QED
  BY <1>2, <1>3

(***************************************************************************)
(* Every operation of the tree is the operation of the same name, for the  *)
(* same key and with the same result, on the set of keys a look-up sees.   *)
(***************************************************************************)
LEMMA MapStep ==
  Inv /\ [Next]_vars =>
    [Map!Next]_<< {k \in Keys : tree_find(tree, k) # NIL}, called >>
<1> DEFINE K == {k \in Keys : tree_find(tree, k) # NIL}
<1> SUFFICES ASSUME Inv, [Next]_vars
             PROVE  Map!Next \/ (K' = K /\ called' = called)
  OBVIOUS
<1>1. K = tree.nodes
  BY LookupSeesNodes DEF Inv
<1>2. Inv'
  BY InvStep
<1>3. K' = tree'.nodes
  BY <1>2, LookupSeesNodes DEF Inv
<1>4. ASSUME NEW key \in Keys, TreeInsert(key)
      PROVE  Map!Next
  <2>1. tree'.nodes = tree.nodes \cup {key}
    BY <1>4, InsertGood DEF Inv, TreeInsert
  <2>2. called' = << "insert", key, key \notin K >>
    BY <1>4 DEF TreeInsert
  <2>3. Map!Insert(key)
    BY <1>1, <1>3, <2>1, <2>2 DEF Map!Insert
  <2> QED
    BY <2>3 DEF Map!Next
<1>5. ASSUME NEW key \in Keys, TreeRemove(key)
      PROVE  Map!Next
  <2>1. tree'.nodes = tree.nodes \ {key}
    BY <1>5, RemoveGood DEF Inv, TreeRemove
  <2>2. called' = << "remove", key, key \in K >>
    BY <1>5 DEF TreeRemove
  <2>3. Map!Remove(key)
    BY <1>1, <1>3, <2>1, <2>2 DEF Map!Remove
  <2> QED
    BY <2>3 DEF Map!Next
<1>6. CASE TreeFree
  <2>1. tree'.nodes = {}
    BY <1>6, FreeGood, NewGood DEF Inv, TreeFree
  <2> QED
    BY <1>3, <1>6, <2>1 DEF Map!Next, Map!Clear, TreeFree
<1>7. CASE UNCHANGED vars
  BY <1>7 DEF vars
<1> QED
  BY <1>4, <1>5, <1>6, <1>7 DEF Next

(***************************************************************************)
(* The splay tree implements the ordered map of stree.h, call by call:     *)
(* whatever rotations, successor moves and replacements an operation       *)
(* makes, a look-up sees the key it inserted, not the key it removed, and  *)
(* every other key as before, and the operation returns whether its key    *)
(* was there.                                                              *)
(***************************************************************************)
THEOREM Implementation == Spec => ImplementsMap
<1>1. Init => Map!Init
  <2> SUFFICES ASSUME Init
               PROVE  {k \in Keys : tree_find(tree, k) # NIL} = {}
    BY DEF Map!Init, Init
  <2> QED
    BY NewGood, LookupSeesNodes DEF Init
<1> QED
  BY <1>1, MapStep, Invariance, PTL DEF Spec, ImplementsMap, Map!Spec
=============================================================================
