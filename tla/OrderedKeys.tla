---------------------------- MODULE OrderedKeys ----------------------------
(***************************************************************************)
(* A look-up by nearest predecessor in a set of keys, as stree.h describes *)
(* it.                                                                     *)
(***************************************************************************)
EXTENDS Integers

Greatest(S) == CHOOSE k \in S : \A j \in S : j <= k

(***************************************************************************)
(* "Find element with largest key <= given key" (stree.h).                 *)
(***************************************************************************)
nearest(S, key, none) ==
  LET below == {k \in S : k <= key}
  IN  IF below = {} THEN none ELSE Greatest(below)
=============================================================================
