----------------------------- MODULE OrderedMap -----------------------------
(***************************************************************************)
(* What stree.h promises: a set of keys, each with its record, which every *)
(* call changes at the key it is given and nowhere else.  A record is      *)
(* identified with its key.  call is the last call made: the operation,    *)
(* its key, and whether it put in or took out a record, which the caller   *)
(* sees from what it returns.                                              *)
(***************************************************************************)
EXTENDS OrderedKeys

CONSTANT Keys

VARIABLES keys, call

Init == keys = {} /\ call = << "new" >>

(***************************************************************************)
(* "Insertion function returns false if already have key in tree"          *)
(* (stree.h).                                                              *)
(***************************************************************************)
Insert(key) ==
  /\ keys' = keys \cup {key}
  /\ call' = << "insert", key, key \notin keys >>

Remove(key) ==
  /\ keys' = keys \ {key}
  /\ call' = << "remove", key, key \in keys >>

Clear == keys' = {} /\ call' = << "free" >>

Next == (\E key \in Keys : Insert(key) \/ Remove(key)) \/ Clear

Spec == Init /\ [][Next]_<< keys, call >>
=============================================================================
