------------------------------- MODULE Stree -------------------------------
(***************************************************************************)
(* The splay tree of stree.c.  A node is named by its key; tree is a       *)
(* record of the root, the three links of every node, the nodes that are   *)
(* allocated, and node_count.  The links of a freed node are NIL.  The     *)
(* comparison count, a statistic, is left out.  called is no state of the  *)
(* program but a history of it: the last call, with its key and whether    *)
(* its result says that a record was put in or taken out.                  *)
(***************************************************************************)
EXTENDS Integers, FiniteSets

CONSTANT Keys

ASSUME KeysAssumption == Keys \subseteq Nat \ {0} /\ IsFiniteSet(Keys)

VARIABLES tree,
          called        \* history: the last call and its result

vars == << tree, called >>

NIL == 0
Ptr == Keys \cup {NIL}

Trees == [root : Ptr, left : [Keys -> Ptr], right : [Keys -> Ptr],
          parent : [Keys -> Ptr], nodes : SUBSET Keys, node_count : Nat]

tree_new == [root |-> NIL, left |-> [k \in Keys |-> NIL],
             right |-> [k \in Keys |-> NIL], parent |-> [k \in Keys |-> NIL],
             nodes |-> {}, node_count |-> 0]

-----------------------------------------------------------------------------
(***************************************************************************)
(* Stores v in the given link of node n; there is no node to store in when *)
(* n is NIL.                                                               *)
(***************************************************************************)
Link(t, link, n, v) == IF n = NIL THEN t ELSE [t EXCEPT ![link][n] = v]

(***************************************************************************)
(* v takes the place of u below the parent of u, or as the root.           *)
(***************************************************************************)
Hang(t, u, v) ==
  LET p == t.parent[u]
  IN  IF p = NIL THEN [t EXCEPT !.root = v]
      ELSE IF u = t.left[p] THEN [t EXCEPT !.left[p] = v]
      ELSE [t EXCEPT !.right[p] = v]

replace(t, u, v) == Link(Hang(t, u, v), "parent", v, t.parent[u])

Other(side) == IF side = "left" THEN "right" ELSE "left"

rotate_inner_keeps_parent(t, x, side) ==
  LET y == t[side][x]
      inner == IF y = NIL THEN NIL ELSE t[Other(side)][y]
      t1 == Link(Link(t, side, x, inner), "parent", y, t.parent[x])
      t2 == Link(Hang(t1, x, y), Other(side), y, x)
  IN  Link(t2, "parent", x, y)

(***************************************************************************)
(* Lifts the child of x on the given side above x; the subtree between the *)
(* two changes hands.                                                      *)
(***************************************************************************)
rotate(t, x, side) ==
  LET y == t[side][x]
      inner == IF y = NIL THEN NIL ELSE t[Other(side)][y]
      t1 == Link(Link(t, side, x, inner), "parent", inner, x)
      t2 == Link(t1, "parent", y, t.parent[x])
      t3 == Link(Hang(t2, x, y), Other(side), y, x)
  IN  Link(t3, "parent", x, y)

left_rotate(t, x) == rotate(t, x, "right")
right_rotate(t, x) == rotate(t, x, "left")

(***************************************************************************)
(* One turn of the loop of splay, none when x is the root: zig, zig-zig    *)
(* (grandparent first) or zig-zag (parent first).                          *)
(***************************************************************************)
splay_step(t, x) ==
  LET p == t.parent[x]
      g == t.parent[p]
      lift(u, n, side) == IF side = "left" THEN right_rotate(u, n)
                          ELSE left_rotate(u, n)
      side_of(n) == IF t.left[t.parent[n]] = n THEN "left" ELSE "right"
  IN  IF p = NIL THEN t
      ELSE IF g = NIL THEN lift(t, p, side_of(x))
      ELSE IF side_of(x) = side_of(p)
      THEN lift(lift(t, g, side_of(p)), p, side_of(x))
      ELSE lift(lift(t, p, side_of(x)), g, side_of(p))

splay(t, x) ==
  LET up[u \in Trees] ==
        IF u.parent[x] = NIL THEN u ELSE up[splay_step(u, x)]
  IN  up[t]

-----------------------------------------------------------------------------
(***************************************************************************)
(* Where a search for the key goes on below node z.                        *)
(***************************************************************************)
Towards(t, z, key) == IF key > z THEN t.right[z] ELSE t.left[z]

(***************************************************************************)
(* The search that insert, find and remove share: the last node met from   *)
(* the root down, which is the key's own if it has one.                    *)
(***************************************************************************)
search(t, key) ==
  LET down[z \in Keys] ==
        IF z = key \/ Towards(t, z, key) = NIL THEN z
        ELSE down[Towards(t, z, key)]
  IN  IF t.root = NIL THEN NIL ELSE down[t.root]

tree_find(t, key) == IF search(t, key) = key THEN key ELSE NIL

tree_find_nearest_last_met(t, key) == search(t, key)

(***************************************************************************)
(* The loop of tree_find_nearest keeps, in n, the greatest key met so far  *)
(* that is below the given one.                                            *)
(***************************************************************************)
tree_find_nearest(t, key) ==
  LET down[s \in Ptr \X Ptr] ==
        LET z == s[1]
            n == s[2]
        IN  IF z = NIL THEN n
            ELSE IF z = key THEN z
            ELSE IF key < z THEN down[<< t.left[z], n >>]
            ELSE down[<< t.right[z], IF n = NIL \/ n < z THEN z ELSE n >>]
  IN  down[<< t.root, NIL >>]

tree_insert(t, key) ==
  LET p == search(t, key)
      t1 == [t EXCEPT !.nodes = @ \cup {key}, !.parent[key] = p]
      t2 == IF p = NIL THEN [t1 EXCEPT !.root = key]
            ELSE IF p < key THEN Link(t1, "right", p, key)
            ELSE Link(t1, "left", p, key)
  IN  IF tree_find(t, key) # NIL THEN t
      ELSE [splay(t2, key) EXCEPT !.node_count = @ + 1]

subtree_minimum(t, u) ==
  LET down[x \in Keys] == IF t.left[x] = NIL THEN x ELSE down[t.left[x]]
  IN  down[u]

(***************************************************************************)
(* Takes the root z out: its only child, or the least node y of its right  *)
(* subtree, takes its place.                                               *)
(***************************************************************************)
cut_root(t, z) ==
  LET y == subtree_minimum(t, t.right[z])
      t1 == Link(replace(t, y, t.right[y]), "right", y, t.right[z])
      t2 == IF t.parent[y] # z THEN Link(t1, "parent", t1.right[y], y) ELSE t
      t3 == Link(replace(t2, z, y), "left", y, t2.left[z])
  IN  IF t.left[z] = NIL THEN replace(t, z, t.right[z])
      ELSE IF t.right[z] = NIL THEN replace(t, z, t.left[z])
      ELSE Link(t3, "parent", t3.left[y], y)

(***************************************************************************)
(* Node z is splayed up, taken out and freed.                              *)
(***************************************************************************)
remove_node(t, z) ==
  [cut_root(splay(t, z), z) EXCEPT
     !.node_count = @ - 1, !.nodes = @ \ {z},
     !.left[z] = NIL, !.right[z] = NIL, !.parent[z] = NIL]

tree_remove_counts_misses(t, key) ==
  LET z == tree_find(t, key)
  IN  IF z = NIL THEN [t EXCEPT !.node_count = @ - 1] ELSE remove_node(t, z)

tree_remove_last_met(t, key) ==
  LET z == search(t, key)
  IN  IF z = NIL THEN t ELSE remove_node(t, z)

tree_remove(t, key) ==
  LET z == tree_find(t, key)
  IN  IF z = NIL THEN t ELSE remove_node(t, z)

(***************************************************************************)
(* tree_free frees the nodes it reaches from the root; what it does not    *)
(* reach stays allocated.                                                  *)
(***************************************************************************)
free_subtree(t, x) ==
  LET below[y \in Ptr] ==
        IF y = NIL THEN {} ELSE {y} \cup below[t.left[y]] \cup below[t.right[y]]
  IN  below[x]

tree_free(t) == [tree_new EXCEPT !.nodes = t.nodes \ free_subtree(t, t.root)]

-----------------------------------------------------------------------------
Init == tree = tree_new /\ called = << "new" >>

(***************************************************************************)
(* tree_insert returns false for a key the search finds, and tree_remove   *)
(* the record it took out, or NULL.                                        *)
(***************************************************************************)
TreeInsert(key) ==
  /\ tree' = tree_insert(tree, key)
  /\ called' = << "insert", key, tree_find(tree, key) = NIL >>

TreeRemove(key) ==
  /\ tree' = tree_remove(tree, key)
  /\ called' = << "remove", key, tree_find(tree, key) # NIL >>

TreeFree ==                             \* tree_free, then tree_new
  tree' = tree_free(tree) /\ called' = << "free" >>

Next == (\E key \in Keys : TreeInsert(key) \/ TreeRemove(key)) \/ TreeFree

Spec == Init /\ [][Next]_vars

-----------------------------------------------------------------------------
(***************************************************************************)
(* Type correctness.                                                       *)
(***************************************************************************)
TypeOK ==
  /\ tree \in Trees
  /\ called \in ({"insert", "remove"} \X Keys \X BOOLEAN)
                  \cup {<< "new" >>, << "free" >>}

(***************************************************************************)
(* The links form one tree of the allocated nodes: children and parents    *)
(* agree, every node is below the root, and after a removal no link leads  *)
(* to the freed node.                                                      *)
(***************************************************************************)
LinksSound ==
  /\ free_subtree(tree, tree.root) = tree.nodes
  /\ tree.node_count = Cardinality(tree.nodes)
  /\ tree.root # NIL => tree.parent[tree.root] = NIL
  /\ \A x \in tree.nodes :
       /\ \A c \in {tree.left[x], tree.right[x]} \ {NIL} :
            c \in tree.nodes /\ tree.parent[c] = x
       /\ tree.left[x] = tree.right[x] => tree.left[x] = NIL
       /\ x # tree.root => x \in {tree.left[tree.parent[x]],
                                  tree.right[tree.parent[x]]}

Map == INSTANCE OrderedMap
         WITH keys <- {k \in Keys : tree_find(tree, k) # NIL}, call <- called

(***************************************************************************)
(* The tree is the ordered map of stree.h, call by call: after tree_insert *)
(* of a key a look-up finds that key and all those it found before, after  *)
(* tree_remove of a key it finds all but that one, after tree_free none,   *)
(* and the calls return whether the key was there, whatever rotations and  *)
(* replacements they make on the way.                                      *)
(***************************************************************************)
ImplementsMap == Map!Spec

(***************************************************************************)
(* tree_find_nearest finds the "element with largest key <= given key"     *)
(* (stree.h).                                                              *)
(***************************************************************************)
NearestIsPredecessor ==
  \A key \in Keys :
    tree_find_nearest(tree, key) = Map!nearest(tree.nodes, key, NIL)
=============================================================================
