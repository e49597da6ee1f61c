------------------------------ MODULE MCMemlib ------------------------------
(***************************************************************************)
(* Small instances of Memlib.                                              *)
(***************************************************************************)
EXTENDS Memlib

MCValues == {<< 1 >>, << 1, 2 >>}
MCIncrs == {-1, 1, 3}
=============================================================================
