-------------------------- MODULE MCStratumSource --------------------------
(* Instances of StratumSource for TLC.                                     *)
EXTENDS StratumSource
=============================================================================
