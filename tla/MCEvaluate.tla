---------------------------- MODULE MCEvaluate -----------------------------
(***************************************************************************)
(* A small instance of Evaluate: two ids and the id of free(NULL), sizes   *)
(* on both sides of maxfill and of the payload of a minimal block.         *)
(***************************************************************************)
EXTENDS Evaluate

Line(type, index, size) == [type |-> type, index |-> index, size |-> size]

MCLines ==
  {Line("ALLOC", 0, 1), Line("ALLOC", 0, 20), Line("ALLOC", 1, 20),
   Line("ALLOC", 1, 0), Line("REALLOC", 0, 1), Line("REALLOC", 0, 36),
   Line("REALLOC", 0, 0), Line("REALLOC", 1, 20),
   Line("FREE", 0, 0), Line("FREE", 1, 0), Line("FREE", NULL_ID, 0)}
=============================================================================
