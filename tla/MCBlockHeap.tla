---------------------------- MODULE MCBlockHeap ----------------------------
(***************************************************************************)
(* Small instances of BlockHeap.                                           *)
(***************************************************************************)
EXTENDS BlockHeap

MCCallocArgs == {<< 2, 12 >>, << 128, 4 >>, << 0, 8 >>}
=============================================================================
