--------------------------- MODULE MCBitaxeBoard ---------------------------
(* Instances of BitaxeBoard for TLC.                                       *)
EXTENDS BitaxeBoard
=============================================================================
