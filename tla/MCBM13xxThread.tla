--------------------------- MODULE MCBM13xxThread ---------------------------
(* Instances of BM13xxThread for TLC.                                      *)
EXTENDS BM13xxThread
=============================================================================
