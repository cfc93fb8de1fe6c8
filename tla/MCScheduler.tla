---------------------------- MODULE MCScheduler ----------------------------
(* Instances of Scheduler for TLC.                                         *)
EXTENDS Scheduler, TLC

(* Sources are interchangeable, and so are threads.                        *)
Symmetry == Permutations(Sources) \cup Permutations(Threads)
=============================================================================
