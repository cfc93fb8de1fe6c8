----------------------------- MODULE JobSources -----------------------------
(***************************************************************************)
(* The way from a job source to the scheduler and back, as the daemon      *)
(* wires it: directly, or through ForcedRateSource (forced_rate.rs), which *)
(* replaces the share target of every job.  The source is the dummy        *)
(* source (dummy.rs) or one that also replaces and clears its jobs, as     *)
(* StratumSource does.                                                     *)
(*                                                                         *)
(* Every task awaits room in the channel it sends to, and a task that      *)
(* awaits does not look at its other channels or at the shutdown token.    *)
(* A share target is represented by the hashes a share takes on average.   *)
(***************************************************************************)
EXTENDS Naturals, Sequences

CONSTANTS
  EventCap,      \* capacity of an event channel: 100
  CommandCap,    \* capacity of a command channel: 10
  SourceRates,   \* the hashrates the scheduler reports
  ShareInterval, \* of the forced share rate
  PoolHashes,    \* the share target that jobs come with
  MaxEmitted,    \* bound: events the source emits
  MaxOrders      \* bound: commands the scheduler sends

ASSUME SourceBounds ==
  /\ EventCap \in Nat \ {0} /\ CommandCap \in Nat \ {0} /\ SourceRates \subseteq Nat
  /\ ShareInterval \in Nat \ {0} /\ PoolHashes \in Nat /\ MaxOrders \in Nat
  /\ MaxEmitted \in Nat \ {0}

VARIABLES
  wiring,        \* [source, forced]
  cancelled,     \* the shutdown token
  src_at,        \* the source: "select", "emit" or "ended"
  src_hand,      \* the event it is sending: a sequence of at most one
  emitted,
  inner_events, inner_cmds,   \* between the source and the wrapper
  wrap_at,       \* the wrapper: "select", "event", "command" or "ended"
  wrap_hand, wrap_order,      \* what it is sending
  wrap_rate,     \* its hashrate
  outer_events, outer_cmds,   \* between the wrapper and the scheduler
  sched_at,      \* the scheduler: "select", "order" or "gone"
  sched_order, orders

srcVars == <<src_at, src_hand, emitted>>
innerVars == <<inner_events, inner_cmds>>
wrapVars == <<wrap_at, wrap_hand, wrap_order, wrap_rate>>
outerVars == <<outer_events, outer_cmds>>
schedSideVars == <<sched_at, sched_order, orders>>
pipeVars == <<wiring, cancelled, srcVars, innerVars, wrapVars, outerVars, schedSideVars>>

SourceEvent(kind, id, hashes) == [kind |-> kind, id |-> id, hashes |-> hashes]
Orders == {[kind |-> "rate", rate |-> r] : r \in SourceRates} \cup {[kind |-> "share", rate |-> 0]}

(* DummySource::new has one template, which it emits again and again.      *)
DummyJob == SourceEvent("update", 1, PoolHashes)

(* Only a source with a pool is wrapped.  The dummy source emits its job   *)
(* at once; the others begin by waiting.                                   *)
SourcesInit ==
  /\ wiring \in {[source |-> "dummy", forced |-> FALSE], [source |-> "stratum", forced |-> FALSE],
                 [source |-> "stratum", forced |-> TRUE]}
  /\ cancelled = FALSE
  /\ IF wiring.source = "dummy"
       THEN src_at = "emit" /\ src_hand = <<DummyJob>> /\ emitted = 1
       ELSE src_at = "select" /\ src_hand = <<>> /\ emitted = 0
  /\ inner_events = <<>> /\ inner_cmds = <<>>
  /\ wrap_at = "select" /\ wrap_hand = <<>> /\ wrap_order = <<>> /\ wrap_rate = 0
  /\ outer_events = <<>> /\ outer_cmds = <<>>
  /\ sched_at = "select" /\ sched_order = <<>> /\ orders = 0

WrapperRuns == wiring.forced /\ wrap_at # "ended"
SchedulerRuns == sched_at # "gone"

(* Who reads the source's events, and the channels at its end.             *)
ListenerRuns == IF wiring.forced THEN WrapperRuns ELSE SchedulerRuns

-----------------------------------------------------------------------------
(***************************************************************************)
(* The source.                                                             *)
(***************************************************************************)

(* The timer of the dummy source; news from the pool.                      *)
StartEmit ==
  /\ src_at = "select" /\ emitted < MaxEmitted
  /\ src_at' = "emit" /\ emitted' = emitted + 1
  /\ IF wiring.source = "dummy" THEN src_hand' = <<DummyJob>>
     ELSE \/ \E kind \in {"update", "replace"} :
               src_hand' = <<SourceEvent(kind, emitted', PoolHashes)>>
          \/ src_hand' = <<SourceEvent("clear", 0, 0)>>
  /\ UNCHANGED <<wiring, cancelled, innerVars, wrapVars, outerVars, schedSideVars>>

(* event_tx.send, which fails when nobody can receive any more.            *)
EmitDone ==
  /\ src_at = "emit" /\ src_hand' = <<>>
  /\ \/ /\ ~ListenerRuns /\ src_at' = "ended" /\ inner_cmds' = <<>>
        /\ UNCHANGED <<inner_events, outer_events>>
     \/ /\ ListenerRuns /\ wiring.forced /\ Len(inner_events) < EventCap
        /\ src_at' = "select" /\ inner_events' = inner_events \o src_hand
        /\ UNCHANGED <<inner_cmds, outer_events>>
     \/ /\ ListenerRuns /\ ~wiring.forced /\ Len(outer_events) < EventCap
        /\ src_at' = "select" /\ outer_events' = outer_events \o src_hand
        /\ UNCHANGED innerVars
  /\ UNCHANGED <<wiring, cancelled, emitted, wrapVars, outer_cmds, schedSideVars>>

(* A command: the dummy source only logs it.                               *)
SourceReadsOrder ==
  /\ src_at = "select"
  /\ \/ wiring.forced /\ inner_cmds # <<>> /\ inner_cmds' = Tail(inner_cmds) /\ UNCHANGED outer_cmds
     \/ ~wiring.forced /\ outer_cmds # <<>> /\ outer_cmds' = Tail(outer_cmds) /\ UNCHANGED inner_cmds
  /\ UNCHANGED <<wiring, cancelled, srcVars, inner_events, wrapVars, outer_events, schedSideVars>>

SourceCancelled ==
  /\ src_at = "select" /\ cancelled
  /\ src_at' = "ended" /\ inner_cmds' = <<>>
  /\ outer_cmds' = IF wiring.forced THEN outer_cmds ELSE <<>>
  /\ UNCHANGED <<wiring, cancelled, src_hand, emitted, inner_events, wrapVars, outer_events,
                 schedSideVars>>

-----------------------------------------------------------------------------
(***************************************************************************)
(* ForcedRateSource::run.                                                  *)
(***************************************************************************)

(* The hashes a share takes at a hashrate, and never less than one.        *)
to_target(rate) == IF rate * ShareInterval <= 1 THEN 1 ELSE rate * ShareInterval

modify_job(e) == IF wrap_rate = 0 THEN e ELSE [e EXCEPT !.hashes = to_target(wrap_rate)]

ForwardedEvent(e) == IF e.kind = "clear" THEN e ELSE modify_job(e)

WrapperTakesEvent ==
  /\ wiring.forced /\ wrap_at = "select" /\ inner_events # <<>>
  /\ wrap_at' = "event" /\ inner_events' = Tail(inner_events)
  /\ wrap_hand' = <<ForwardedEvent(Head(inner_events))>>
  /\ UNCHANGED <<wiring, cancelled, srcVars, inner_cmds, wrap_order, wrap_rate, outerVars,
                 schedSideVars>>

(* The wrapper ends, and with it what it holds and what waits for it.      *)
WrapperEnds ==
  /\ wrap_at' = "ended" /\ wrap_hand' = <<>> /\ wrap_order' = <<>>
  /\ inner_events' = <<>> /\ outer_cmds' = <<>>

(* Mutant: an event that finds no room is left out.                        *)
WrapperSendsEvent_or_not ==
  /\ wrap_at = "event"
  /\ \/ ~SchedulerRuns /\ WrapperEnds /\ UNCHANGED outer_events
     \/ /\ SchedulerRuns
        /\ outer_events' = IF Len(outer_events) < EventCap THEN outer_events \o wrap_hand
                           ELSE outer_events
        /\ wrap_at' = "select" /\ wrap_hand' = <<>>
        /\ UNCHANGED <<wrap_order, inner_events, outer_cmds>>
  /\ UNCHANGED <<wiring, cancelled, srcVars, inner_cmds, wrap_rate, schedSideVars>>

WrapperSendsEvent ==
  /\ wrap_at = "event"
  /\ \/ ~SchedulerRuns /\ WrapperEnds /\ UNCHANGED outer_events
     \/ /\ SchedulerRuns /\ Len(outer_events) < EventCap
        /\ outer_events' = outer_events \o wrap_hand
        /\ wrap_at' = "select" /\ wrap_hand' = <<>>
        /\ UNCHANGED <<wrap_order, inner_events, outer_cmds>>
  /\ UNCHANGED <<wiring, cancelled, srcVars, inner_cmds, wrap_rate, schedSideVars>>

WrapperTakesOrder ==
  /\ wiring.forced /\ wrap_at = "select" /\ outer_cmds # <<>>
  /\ wrap_at' = "command" /\ outer_cmds' = Tail(outer_cmds)
  /\ wrap_order' = <<Head(outer_cmds)>>
  /\ wrap_rate' = IF Head(outer_cmds).kind = "rate" THEN Head(outer_cmds).rate ELSE wrap_rate
  /\ UNCHANGED <<wiring, cancelled, srcVars, innerVars, wrap_hand, outer_events, schedSideVars>>

WrapperSendsOrder ==
  /\ wrap_at = "command"
  /\ \/ src_at = "ended" /\ WrapperEnds /\ UNCHANGED inner_cmds
     \/ /\ src_at # "ended" /\ Len(inner_cmds) < CommandCap
        /\ inner_cmds' = inner_cmds \o wrap_order
        /\ wrap_at' = "select" /\ wrap_order' = <<>>
        /\ UNCHANGED <<wrap_hand, inner_events, outer_cmds>>
  /\ UNCHANGED <<wiring, cancelled, srcVars, wrap_rate, outer_events, schedSideVars>>

(* Either channel is closed and drained, or the token is cancelled.        *)
WrapperStops ==
  /\ wiring.forced /\ wrap_at = "select"
  /\ \/ inner_events = <<>> /\ src_at = "ended"
     \/ outer_cmds = <<>> /\ ~SchedulerRuns
     \/ cancelled
  /\ WrapperEnds
  /\ UNCHANGED <<wiring, cancelled, srcVars, inner_cmds, wrap_rate, outer_events, schedSideVars>>

-----------------------------------------------------------------------------
(***************************************************************************)
(* The scheduler.                                                          *)
(***************************************************************************)
SchedulerTakesEvent ==
  /\ sched_at = "select" /\ outer_events # <<>>
  /\ outer_events' = Tail(outer_events)
  /\ UNCHANGED <<wiring, cancelled, srcVars, innerVars, wrapVars, outer_cmds, schedSideVars>>

(* A hashrate broadcast or a share.                                        *)
StartOrder(c) ==
  /\ sched_at = "select" /\ orders < MaxOrders
  /\ sched_at' = "order" /\ sched_order' = <<c>> /\ orders' = orders + 1
  /\ UNCHANGED <<wiring, cancelled, srcVars, innerVars, wrapVars, outerVars>>

CommandsRead == IF wiring.forced THEN WrapperRuns ELSE src_at # "ended"

(* send_hashrate_updates and the submission wait for room and do not mind  *)
(* an error.                                                               *)
OrderDone ==
  /\ sched_at = "order"
  /\ \/ CommandsRead /\ Len(outer_cmds) < CommandCap /\ outer_cmds' = outer_cmds \o sched_order
     \/ ~CommandsRead /\ UNCHANGED outer_cmds
  /\ sched_at' = "select" /\ sched_order' = <<>>
  /\ UNCHANGED <<wiring, cancelled, srcVars, innerVars, wrapVars, outer_events, orders>>

SchedulerStops ==
  /\ sched_at = "select" /\ cancelled
  /\ sched_at' = "gone" /\ outer_events' = <<>>
  /\ UNCHANGED <<wiring, cancelled, srcVars, innerVars, wrapVars, outer_cmds, sched_order, orders>>

Cancel ==
  /\ ~cancelled /\ cancelled' = TRUE
  /\ UNCHANGED <<wiring, srcVars, innerVars, wrapVars, outerVars, schedSideVars>>

SourcesNext ==
  \/ StartEmit
  \/ EmitDone
  \/ SourceReadsOrder
  \/ SourceCancelled
  \/ WrapperTakesEvent
  \/ WrapperSendsEvent
  \/ WrapperTakesOrder
  \/ WrapperSendsOrder
  \/ WrapperStops
  \/ SchedulerTakesEvent
  \/ \E c \in Orders : StartOrder(c)
  \/ OrderDone
  \/ SchedulerStops
  \/ Cancel

SourcesSpec == SourcesInit /\ [][SourcesNext]_pipeVars

-----------------------------------------------------------------------------
(***************************************************************************)
(* Refinement.                                                             *)
(***************************************************************************)
JobOf(e) == [kind |-> e.kind, id |-> e.id]

Underway == outer_events \o wrap_hand \o inner_events

Pipe == INSTANCE SourcePipe WITH
  PipeEvents <- [kind : {"update", "replace", "clear"}, id : 0 .. MaxEmitted],
  pending    <- [n \in 1 .. (IF SchedulerRuns THEN Len(Underway) ELSE 0) |-> JobOf(Underway[n])],
  open       <- ListenerRuns /\ SchedulerRuns

(* The channels and the wrapper together are the pipe of SourcePipe: no    *)
(* job is lost, doubled or overtaken by another on its way through either  *)
(* wiring, although both ends and the wrapper stop at any moment.          *)
ImplementsPipe == Pipe!PipeSpec
=============================================================================
