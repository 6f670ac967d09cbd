--------------------------- MODULE MCBlockingSend ---------------------------
(* Instances of BlockingSend for TLC.  The sets are given in the .cfg file.  *)
EXTENDS BlockingSend
=============================================================================
