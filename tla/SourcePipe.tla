----------------------------- MODULE SourcePipe -----------------------------
(***************************************************************************)
(* What the scheduler is promised of the way to a job source: events come  *)
(* out in the order in which they went in, each once, and what the way     *)
(* loses when it is torn down is only ever the end of it.                  *)
(***************************************************************************)
EXTENDS Naturals, Sequences

CONSTANT PipeEvents

VARIABLES pending, open

PipeInit == pending = <<>> /\ open = TRUE

Emit(e) == open /\ pending' = Append(pending, e) /\ UNCHANGED open

Deliver == pending # <<>> /\ pending' = Tail(pending) /\ UNCHANGED open

Cut ==
  /\ open' = FALSE
  /\ \E n \in 0 .. Len(pending) : pending' = SubSeq(pending, 1, n)

PipeNext == (\E e \in PipeEvents : Emit(e)) \/ Deliver \/ Cut

PipeSpec == PipeInit /\ [][PipeNext]_<<pending, open>>
=============================================================================
