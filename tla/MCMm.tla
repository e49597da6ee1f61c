-------------------------------- MODULE MCMm --------------------------------
(***************************************************************************)
(* Small instances of Mm.                                                  *)
(***************************************************************************)
EXTENDS Mm

MCCallocArgs == {<< 2, 12 >>, << 128, 4 >>, << 0, 8 >>}
NoCalls == {}
=============================================================================
