-------------------------- MODULE JobSourcesProofs --------------------------
(***************************************************************************)
(* Machine-checked proof that the way from a job source to the scheduler   *)
(* is the pipe of SourcePipe, wired directly or through ForcedRateSource,  *)
(* for channels of any capacity and any number of events and commands.     *)
(***************************************************************************)
EXTENDS JobSources, TLAPS

Kinds == {"update", "replace", "clear"}
Events == [kind : Kinds, id : 0 .. MaxEmitted, hashes : Nat]
PipeJobs == [kind : Kinds, id : 0 .. MaxEmitted]

(***************************************************************************)
(* The inductive invariant: what the channels and the tasks' hands hold,   *)
(* and when they hold nothing.                                             *)
(***************************************************************************)
SourceTypes ==
  /\ wiring.forced \in BOOLEAN
  /\ src_at \in {"select", "emit", "ended"} /\ emitted \in 0 .. MaxEmitted
  /\ src_hand \in Seq(Events)
  /\ src_at = "emit" => \E e \in Events : src_hand = <<e>>
  /\ wrap_at \in {"select", "event", "command", "ended"} /\ wrap_rate \in Nat
  /\ wrap_hand \in Seq(Events)
  /\ wrap_order \in Seq(Orders)
  /\ sched_at \in {"select", "order", "gone"} /\ sched_order \in Seq(Orders)
  /\ inner_events \in Seq(Events) /\ outer_events \in Seq(Events)
  /\ inner_cmds \in Seq(Orders) /\ outer_cmds \in Seq(Orders)

HandsEmpty ==
  /\ wrap_at # "event" => wrap_hand = <<>>
  /\ ~wiring.forced => inner_events = <<>> /\ wrap_at = "select"
  /\ wrap_at = "ended" => inner_events = <<>>

SourcesInv == SourceTypes /\ HandsEmpty

-----------------------------------------------------------------------------
(* What the scheduler will see of a sequence of events.                    *)
JobsOf(q) == [n \in 1 .. Len(q) |-> JobOf(q[n])]

LEMMA JobsOfType ==
  ASSUME NEW q \in Seq(Events)
  PROVE  JobsOf(q) \in Seq(PipeJobs) /\ Len(JobsOf(q)) = Len(q)
<1>1. \A n \in 1 .. Len(q) : q[n] \in Events
  OBVIOUS
<1>2. \A e \in Events : JobOf(e) \in PipeJobs
  BY DEF JobOf, Events, PipeJobs
<1>3. JobsOf(q) \in [1 .. Len(q) -> PipeJobs]
  BY <1>1, <1>2 DEF JobsOf
<1> QED BY <1>3

LEMMA JobsOfAppend ==
  ASSUME NEW q \in Seq(Events), NEW e \in Events
  PROVE  JobsOf(q \o <<e>>) = Append(JobsOf(q), JobOf(e))
BY JobsOfType DEF JobsOf

LEMMA JobsOfTail ==
  ASSUME NEW q \in Seq(Events), q # <<>>
  PROVE  JobsOf(q) # <<>> /\ JobsOf(Tail(q)) = Tail(JobsOf(q))
BY JobsOfType DEF JobsOf

LEMMA JobsOfPrefix ==
  ASSUME NEW q \in Seq(Events), NEW r \in Seq(Events)
  PROVE  Len(q) \in 0 .. Len(JobsOf(q \o r)) /\ JobsOf(q) = SubSeq(JobsOf(q \o r), 1, Len(q))
BY JobsOfType DEF JobsOf

LEMMA NoJobs == JobsOf(<<>>) = <<>>
BY DEF JobsOf

(* Concatenation of what is on the way.                                    *)
LEMMA Concat ==
  ASSUME NEW S, NEW a \in Seq(S), NEW b \in Seq(S), NEW c \in Seq(S)
  PROVE  /\ a \o b \in Seq(S) /\ (a \o b) \o c = a \o (b \o c)
         /\ a \o <<>> = a /\ <<>> \o a = a
         /\ a # <<>> => Tail(a \o b) = Tail(a) \o b /\ Tail(a) \in Seq(S) /\ a \o b # <<>>
OBVIOUS

LEMMA TakeOne ==
  ASSUME NEW S, NEW a \in Seq(S), a # <<>>
  PROVE  Head(a) \in S /\ Tail(a) \in Seq(S) /\ a = <<Head(a)>> \o Tail(a)
OBVIOUS

LEMMA OneEvent ==
  ASSUME NEW S, NEW x \in S
  PROVE  <<x>> \in Seq(S) /\ <<>> \in Seq(S)
OBVIOUS

(* A forwarded event is the same job, with another target.                 *)
LEMMA ForwardedIsSame ==
  ASSUME NEW e \in Events, wrap_rate \in Nat
  PROVE  ForwardedEvent(e) \in Events /\ JobOf(ForwardedEvent(e)) = JobOf(e)
<1>1. to_target(wrap_rate) \in Nat
  BY SourceBounds DEF to_target
<1> QED BY <1>1 DEF ForwardedEvent, modify_job, JobOf, Events

LEMMA JobsOfReplaced ==
  ASSUME NEW a \in Seq(Events), NEW b \in Seq(Events), NEW e \in Events, NEW f \in Events,
         JobOf(e) = JobOf(f)
  PROVE  JobsOf(a \o <<e>> \o b) = JobsOf(a \o <<f>> \o b)
BY DEF JobsOf

-----------------------------------------------------------------------------
LEMMA SourcesStart == SourcesInit => SourcesInv
<1> SUFFICES ASSUME SourcesInit PROVE SourcesInv
  OBVIOUS
<1>1. DummyJob \in Events
  BY SourceBounds DEF DummyJob, SourceEvent, Events, Kinds
<1>2. wiring.forced \in BOOLEAN
  <2> DEFINE W(s, f) == [source |-> s, forced |-> f]
  <2>1. W("dummy", FALSE).forced = FALSE /\ W("stratum", FALSE).forced = FALSE
        /\ W("stratum", TRUE).forced = TRUE
    OBVIOUS
  <2>2. wiring \in {W("dummy", FALSE), W("stratum", FALSE), W("stratum", TRUE)}
    BY DEF SourcesInit
  <2> HIDE DEF W
  <2> QED BY <2>1, <2>2
<1>3. \A S : <<>> \in Seq(S)
  OBVIOUS
<1>4. src_hand \in Seq(Events) /\ (src_at = "emit" => \E e \in Events : src_hand = <<e>>)
  <2>1. CASE wiring.source = "dummy"
    <3>1. src_hand = <<DummyJob>>
      BY <2>1 DEF SourcesInit
    <3> QED BY <1>1, <3>1, OneEvent
  <2>2. CASE wiring.source # "dummy"
    BY <1>3, <2>2 DEF SourcesInit
  <2> QED BY <2>1, <2>2
<1>5. src_at \in {"select", "emit"} /\ emitted \in 0 .. MaxEmitted
  BY SourceBounds DEF SourcesInit
<1>6. SourceTypes
  BY <1>2, <1>3, <1>4, <1>5 DEF SourcesInit, SourceTypes
<1>7. HandsEmpty
  BY DEF SourcesInit, HandsEmpty
<1> QED BY <1>6, <1>7 DEF SourcesInv

LEMMA SourcesStep == SourcesInv /\ [SourcesNext]_pipeVars => SourcesInv'
<1> SUFFICES ASSUME SourcesInv, [SourcesNext]_pipeVars PROVE SourcesInv'
  OBVIOUS
<1>0. \A S : <<>> \in Seq(S)
  OBVIOUS
<1> USE SourceBounds
    DEF SourcesInv, SourceTypes, HandsEmpty, srcVars, innerVars, wrapVars, outerVars, schedSideVars
<1>1. CASE StartEmit
  <2>1. emitted' \in 0 .. MaxEmitted
    BY <1>1 DEF StartEmit
  <2>2. PICK e \in Events : src_hand' = <<e>>
    BY <1>1, <2>1 DEF StartEmit, DummyJob, SourceEvent, Events, Kinds
  <2>3. src_hand' \in Seq(Events)
    BY <2>2, OneEvent
  <2> QED BY <1>1, <2>1, <2>2, <2>3 DEF StartEmit
<1>2. CASE EmitDone
  <2>1. inner_events \o src_hand \in Seq(Events) /\ outer_events \o src_hand \in Seq(Events)
    BY Concat
  <2>2. /\ src_at' \in {"select", "ended"} /\ src_hand' = <<>> /\ inner_cmds' \in {inner_cmds, <<>>}
        /\ inner_events' \in {inner_events, inner_events \o src_hand}
        /\ outer_events' \in {outer_events, outer_events \o src_hand}
        /\ inner_events' # inner_events => wiring.forced /\ wrap_at # "ended"
    BY <1>2 DEF EmitDone, ListenerRuns, WrapperRuns
  <2>3. UNCHANGED <<wiring, emitted, wrapVars, outer_cmds, schedSideVars>>
    BY <1>2 DEF EmitDone
  <2> QED BY <1>0, <2>1, <2>2, <2>3
<1>3. CASE SourceReadsOrder
  BY <1>3, TakeOne DEF SourceReadsOrder
<1>4. CASE SourceCancelled
  BY <1>0, <1>4 DEF SourceCancelled
<1>5. CASE WrapperTakesEvent
  <2>1. Head(inner_events) \in Events /\ Tail(inner_events) \in Seq(Events)
    BY <1>5, TakeOne DEF WrapperTakesEvent
  <2>2. <<ForwardedEvent(Head(inner_events))>> \in Seq(Events)
    BY <2>1, ForwardedIsSame, OneEvent
  <2> QED BY <1>5, <2>1, <2>2 DEF WrapperTakesEvent
<1>6. CASE WrapperSendsEvent
  <2>1. outer_events \o wrap_hand \in Seq(Events)
    BY Concat
  <2> QED BY <1>0, <1>6, <2>1 DEF WrapperSendsEvent, WrapperEnds
<1>7. CASE WrapperTakesOrder
  <2>1. Head(outer_cmds) \in Orders /\ Tail(outer_cmds) \in Seq(Orders)
    BY <1>7, TakeOne DEF WrapperTakesOrder
  <2>2. wrap_rate' \in Nat
    BY <1>7, <2>1 DEF WrapperTakesOrder, Orders
  <2>3. <<Head(outer_cmds)>> \in Seq(Orders)
    BY <2>1, OneEvent
  <2> QED BY <1>7, <2>1, <2>2, <2>3 DEF WrapperTakesOrder
<1>8. CASE WrapperSendsOrder
  <2>1. inner_cmds \o wrap_order \in Seq(Orders)
    BY Concat
  <2> QED BY <1>0, <1>8, <2>1 DEF WrapperSendsOrder, WrapperEnds
<1>9. CASE WrapperStops
  BY <1>0, <1>9 DEF WrapperStops, WrapperEnds
<1>10. CASE SchedulerTakesEvent
  BY <1>10, TakeOne DEF SchedulerTakesEvent
<1>11. ASSUME NEW c \in Orders, StartOrder(c) PROVE SourcesInv'
  <2>1. <<c>> \in Seq(Orders)
    BY OneEvent
  <2> QED BY <1>11, <2>1 DEF StartOrder
<1>12. CASE OrderDone
  <2>1. outer_cmds \o sched_order \in Seq(Orders)
    BY Concat
  <2> QED BY <1>0, <1>12, <2>1 DEF OrderDone
<1>13. CASE SchedulerStops \/ Cancel
  BY <1>0, <1>13 DEF SchedulerStops, Cancel
<1>14. CASE UNCHANGED pipeVars
  BY <1>14 DEF pipeVars
<1> QED
  BY <1>1, <1>2, <1>3, <1>4, <1>5, <1>6, <1>7, <1>8, <1>9, <1>10, <1>11, <1>12, <1>13, <1>14
     DEF SourcesNext

(* Hands and channels hold what their tasks' positions say, in every state. *)
THEOREM SourcesInvariant == SourcesSpec => []SourcesInv
BY SourcesStart, SourcesStep, PTL DEF SourcesSpec

-----------------------------------------------------------------------------
(***************************************************************************)
(* The refinement.  PendingBar and OpenBar are the values that the mapping *)
(* of Pipe gives to the variables of SourcePipe.                           *)
(***************************************************************************)
PendingBar == [n \in 1 .. (IF SchedulerRuns THEN Len(Underway) ELSE 0) |-> JobOf(Underway[n])]
OpenBar == ListenerRuns /\ SchedulerRuns

LEMMA PendingIs ==
  PendingBar = IF SchedulerRuns THEN JobsOf(Underway) ELSE <<>>
<1>1. CASE SchedulerRuns
  BY <1>1 DEF PendingBar, JobsOf
<1>2. CASE ~SchedulerRuns
  BY <1>2 DEF PendingBar
<1> QED BY <1>1, <1>2

LEMMA PendingIsNext ==
  (PendingBar = IF SchedulerRuns THEN JobsOf(Underway) ELSE <<>>)'
BY PendingIs, PTL

LEMMA UnderwayType ==
  ASSUME SourcesInv
  PROVE  Underway \in Seq(Events)
BY Concat DEF SourcesInv, SourceTypes, Underway

LEMMA PipeStart == SourcesInit => Pipe!PipeInit
<1> SUFFICES ASSUME SourcesInit PROVE Pipe!PipeInit
  OBVIOUS
<1>1. SchedulerRuns /\ ListenerRuns
  BY DEF SourcesInit, SchedulerRuns, ListenerRuns, WrapperRuns
<1>2. Underway = <<>>
  BY DEF SourcesInit, Underway
<1>3. PendingBar = <<>> /\ OpenBar = TRUE
  BY <1>1, <1>2, PendingIs, NoJobs DEF OpenBar
<1> QED BY <1>3 DEF Pipe!PipeInit, PendingBar, OpenBar

(* A step that leaves the scheduler's view of the way as it was.           *)
LEMMA Stutters ==
  ASSUME UNCHANGED <<SchedulerRuns, ListenerRuns>>, JobsOf(Underway)' = JobsOf(Underway)
  PROVE  UNCHANGED <<PendingBar, OpenBar>>
BY PendingIs, PendingIsNext DEF OpenBar

(* The end of the way takes an event from the source.                      *)
LEMMA Emits ==
  ASSUME SourcesInv, NEW e \in Events, Underway' = Underway \o <<e>>,
         ListenerRuns, UNCHANGED <<SchedulerRuns, ListenerRuns>>
  PROVE  [Pipe!PipeNext]_<<PendingBar, OpenBar>>
<1>1. JobsOf(Underway') = Append(JobsOf(Underway), JobOf(e)) /\ JobOf(e) \in PipeJobs
  BY UnderwayType, JobsOfAppend DEF JobOf, Events, PipeJobs
<1>2. CASE SchedulerRuns
  <2>1. PendingBar' = Append(PendingBar, JobOf(e)) /\ OpenBar /\ OpenBar' = OpenBar
    BY <1>1, <1>2, PendingIs, PendingIsNext DEF OpenBar
  <2>2. Pipe!Emit(JobOf(e))
    BY <2>1 DEF Pipe!Emit, PendingBar, OpenBar
  <2> QED BY <1>1, <2>2 DEF Pipe!PipeNext, PipeJobs, Kinds
<1>3. CASE ~SchedulerRuns
  BY <1>3, PendingIs, PendingIsNext DEF OpenBar
<1> QED BY <1>2, <1>3

(* A task ends: what it held and what waited for it is the end of the way. *)
LEMMA Cuts ==
  ASSUME NEW q \in Seq(Events), NEW r \in Seq(Events), Underway = q \o r,
         OpenBar' = FALSE,
         \/ SchedulerRuns' = SchedulerRuns /\ Underway' = q
         \/ ~SchedulerRuns'
  PROVE  Pipe!PipeNext
<1>1. Len(q) \in 0 .. Len(JobsOf(q \o r)) /\ JobsOf(q) = SubSeq(JobsOf(q \o r), 1, Len(q))
  BY JobsOfPrefix
<1>2. JobsOf(Underway) \in Seq(PipeJobs)
  BY Concat, JobsOfType
<1>3. PendingBar \in Seq(PipeJobs)
  BY <1>2, PendingIs
<1>4. \E n \in 0 .. Len(PendingBar) : PendingBar' = SubSeq(PendingBar, 1, n)
  <2>1. CASE SchedulerRuns /\ SchedulerRuns'
    BY <1>1, <2>1, PendingIs, PendingIsNext
  <2>2. CASE ~SchedulerRuns'
    <3>1. PendingBar' = <<>>
      BY <2>2, PendingIsNext
    <3>2. SubSeq(PendingBar, 1, 0) = <<>> /\ 0 \in 0 .. Len(PendingBar)
      BY <1>3
    <3> QED BY <3>1, <3>2
  <2> QED BY <2>1, <2>2
<1>5. Pipe!Cut
  BY <1>4 DEF Pipe!Cut, PendingBar, OpenBar
<1> QED BY <1>5 DEF Pipe!PipeNext

(* Every step of the sources is a step of the pipe, or none.               *)
LEMMA PipeStep ==
  ASSUME SourcesInv, [SourcesNext]_pipeVars
  PROVE  [Pipe!PipeNext]_<<PendingBar, OpenBar>>
<1> USE DEF srcVars, innerVars, wrapVars, outerVars, schedSideVars
<1>0. /\ outer_events \in Seq(Events) /\ wrap_hand \in Seq(Events) /\ inner_events \in Seq(Events)
      /\ <<>> \in Seq(Events)
  BY DEF SourcesInv, SourceTypes
<1>1. CASE StartEmit \/ SourceReadsOrder \/ SourceCancelled \/ WrapperTakesOrder \/ Cancel
  BY <1>1, Stutters
     DEF StartEmit, SourceReadsOrder, SourceCancelled, WrapperTakesOrder, Cancel, Underway, JobsOf,
         SchedulerRuns, ListenerRuns, WrapperRuns
<1>2. CASE EmitDone
  <2>1. PICK e \in Events : src_hand = <<e>>
    BY <1>2 DEF EmitDone, SourcesInv, SourceTypes
  <2>2. <<e>> \in Seq(Events)
    BY OneEvent
  <2>3. UNCHANGED <<SchedulerRuns, ListenerRuns>>
    BY <1>2 DEF EmitDone, SchedulerRuns, ListenerRuns, WrapperRuns
  <2>4. CASE ~ListenerRuns
    BY <1>2, <2>3, <2>4, Stutters DEF EmitDone, Underway, JobsOf
  <2>5. CASE ListenerRuns /\ wiring.forced
    <3>1. Underway' = outer_events \o wrap_hand \o (inner_events \o <<e>>)
      BY <1>2, <2>1, <2>5 DEF EmitDone, Underway
    <3>2. Underway' = Underway \o <<e>>
      BY <1>0, <2>2, <3>1, Concat DEF Underway
    <3> QED BY <2>3, <2>5, <3>2, Emits
  <2>6. CASE ListenerRuns /\ ~wiring.forced
    <3>1. /\ wrap_hand = <<>> /\ inner_events = <<>> /\ UNCHANGED <<wrap_hand, inner_events>>
          /\ outer_events' = outer_events \o <<e>>
      BY <1>2, <2>1, <2>6 DEF EmitDone, SourcesInv, HandsEmpty
    <3>2. Underway' = Underway \o <<e>>
      BY <1>0, <2>2, <3>1, Concat DEF Underway
    <3> QED BY <2>3, <2>6, <3>2, Emits
  <2> QED BY <2>4, <2>5, <2>6
<1>3. CASE WrapperTakesEvent
  <2>1. /\ Head(inner_events) \in Events /\ Tail(inner_events) \in Seq(Events)
        /\ inner_events = <<Head(inner_events)>> \o Tail(inner_events)
    BY <1>0, <1>3, TakeOne DEF WrapperTakesEvent
  <2> DEFINE e == Head(inner_events)  f == ForwardedEvent(e)  rest == Tail(inner_events)
  <2>2. f \in Events /\ JobOf(e) = JobOf(f)
    BY <2>1, ForwardedIsSame DEF SourcesInv, SourceTypes
  <2>3. wrap_hand = <<>>
    BY <1>3 DEF WrapperTakesEvent, SourcesInv, HandsEmpty
  <2>4. Underway' = outer_events \o <<f>> \o rest
    BY <1>3 DEF WrapperTakesEvent, Underway
  <2>5. Underway = outer_events \o <<e>> \o rest
    <3>1. Underway = outer_events \o (<<e>> \o rest)
      BY <1>0, <2>1, <2>3, Concat DEF Underway
    <3> QED BY <1>0, <2>1, <3>1, OneEvent, Concat
  <2>6. UNCHANGED <<SchedulerRuns, ListenerRuns>>
    BY <1>3 DEF WrapperTakesEvent, SchedulerRuns, ListenerRuns, WrapperRuns
  <2> HIDE DEF e, f, rest
  <2>7. JobsOf(Underway') = JobsOf(Underway)
    BY <1>0, <2>1, <2>2, <2>4, <2>5, JobsOfReplaced DEF e, rest
  <2> QED BY <2>6, <2>7, Stutters DEF JobsOf
<1>4. CASE WrapperSendsEvent
  <2>1. CASE ~SchedulerRuns
    <3>1. ~SchedulerRuns'
      BY <1>4, <2>1 DEF WrapperSendsEvent, SchedulerRuns
    <3> QED BY <2>1, <3>1, PendingIs, PendingIsNext DEF OpenBar
  <2>2. CASE SchedulerRuns
    <3>1. Underway' = outer_events \o wrap_hand \o <<>> \o inner_events
      BY <1>4, <2>2 DEF WrapperSendsEvent, Underway
    <3>2. Underway' = Underway
      BY <1>0, <3>1, Concat DEF Underway
    <3>3. UNCHANGED <<SchedulerRuns, ListenerRuns>>
      BY <1>4, <2>2 DEF WrapperSendsEvent, SchedulerRuns, ListenerRuns, WrapperRuns
    <3> QED BY <3>2, <3>3, Stutters DEF JobsOf
  <2> QED BY <2>1, <2>2
<1>5. CASE WrapperSendsOrder \/ WrapperStops
  <2>1. CASE WrapperEnds
    <3>1. wrap_hand = <<>> /\ wiring.forced
      BY <1>5 DEF WrapperSendsOrder, WrapperStops, SourcesInv, HandsEmpty
    <3>2. /\ UNCHANGED <<outer_events, wiring, sched_at>> /\ wrap_hand' = <<>>
          /\ inner_events' = <<>> /\ wrap_at' = "ended"
      BY <1>5, <2>1 DEF WrapperSendsOrder, WrapperStops, WrapperEnds
    <3>3. Underway = outer_events \o inner_events /\ Underway' = outer_events
      BY <1>0, <3>1, <3>2, Concat DEF Underway
    <3>4. OpenBar' = FALSE /\ SchedulerRuns' = SchedulerRuns
      BY <3>1, <3>2 DEF OpenBar, ListenerRuns, WrapperRuns, SchedulerRuns
    <3> QED BY <1>0, <3>3, <3>4, Cuts
  <2>2. CASE ~WrapperEnds
    BY <1>5, <2>2, Stutters
       DEF WrapperSendsOrder, WrapperStops, Underway, JobsOf, SchedulerRuns, ListenerRuns, WrapperRuns
  <2> QED BY <2>1, <2>2
<1>6. CASE SchedulerTakesEvent
  <2>1. Underway # <<>> /\ Underway' = Tail(Underway)
    <3>1. outer_events # <<>> /\ Underway' = Tail(outer_events) \o wrap_hand \o inner_events
      BY <1>6 DEF SchedulerTakesEvent, Underway
    <3>2. /\ Tail(outer_events \o wrap_hand) = Tail(outer_events) \o wrap_hand
          /\ outer_events \o wrap_hand # <<>> /\ outer_events \o wrap_hand \in Seq(Events)
      BY <1>0, <3>1, Concat
    <3>3. ASSUME NEW w \in Seq(Events), w # <<>>
          PROVE  Tail(w \o inner_events) = Tail(w) \o inner_events /\ w \o inner_events # <<>>
      BY <1>0, <3>3, Concat
    <3>4. Underway # <<>> /\ Tail(Underway) = Tail(outer_events) \o wrap_hand \o inner_events
      BY <3>2, <3>3 DEF Underway
    <3> QED BY <3>1, <3>4
  <2>2. SchedulerRuns /\ UNCHANGED <<SchedulerRuns, ListenerRuns>>
    BY <1>6 DEF SchedulerTakesEvent, SchedulerRuns, ListenerRuns, WrapperRuns
  <2>3. PendingBar # <<>> /\ PendingBar' = Tail(PendingBar) /\ OpenBar' = OpenBar
    BY <2>1, <2>2, UnderwayType, JobsOfTail, PendingIs, PendingIsNext DEF OpenBar
  <2>4. Pipe!Deliver
    BY <2>3 DEF Pipe!Deliver, PendingBar, OpenBar
  <2> QED BY <2>4 DEF Pipe!PipeNext
<1>7. ASSUME NEW c \in Orders, StartOrder(c) PROVE UNCHANGED <<PendingBar, OpenBar>>
  BY <1>7, Stutters DEF StartOrder, Underway, JobsOf, SchedulerRuns, ListenerRuns, WrapperRuns
<1>8. CASE OrderDone
  BY <1>8, Stutters DEF OrderDone, Underway, JobsOf, SchedulerRuns, ListenerRuns, WrapperRuns
<1>9. CASE SchedulerStops
  <2>1. ~SchedulerRuns' /\ OpenBar' = FALSE
    BY <1>9 DEF SchedulerStops, SchedulerRuns, OpenBar
  <2>2. Underway = Underway \o <<>> /\ Underway \in Seq(Events)
    BY <1>0, UnderwayType, Concat
  <2> QED BY <1>0, <2>1, <2>2, Cuts
<1>10. CASE UNCHANGED pipeVars
  BY <1>10, Stutters DEF pipeVars, Underway, JobsOf, SchedulerRuns, ListenerRuns, WrapperRuns
<1> QED
  BY <1>1, <1>2, <1>3, <1>4, <1>5, <1>6, <1>7, <1>8, <1>9, <1>10 DEF SourcesNext

(* The channels and the wrapper implement the pipe in either wiring: every *)
(* job reaches the scheduler once and in order, and a task that stops      *)
(* loses only the end of what was on the way.                              *)
THEOREM SourcesRefinePipe == SourcesSpec => ImplementsPipe
<1>1. SourcesInit => Pipe!PipeInit
  BY PipeStart
<1>2. SourcesInv /\ [SourcesNext]_pipeVars => [Pipe!PipeNext]_<<PendingBar, OpenBar>>
  BY PipeStep
<1> QED
  BY <1>1, <1>2, SourcesInvariant, PTL
     DEF SourcesSpec, ImplementsPipe, Pipe!PipeSpec, PendingBar, OpenBar
=============================================================================
