--------------------------- MODULE StratumSource ---------------------------
(***************************************************************************)
(* The Stratum v1 job source (job_source/stratum_v1.rs), the client task   *)
(* it spawns for each connection (stratum_v1/client.rs, connection.rs),    *)
(* and what the pool and the scheduler do at its two ends.                 *)
(*                                                                         *)
(* A session is one connection.  What a pool sets in a session (extranonce *)
(* prefix, share difficulty, version mask) is abstracted to the number of  *)
(* the session that set it, 0 for nothing: a template is right when all    *)
(* its parts come from the session of its job.  A message from the pool    *)
(* reaches the client in two pieces; read_message is not cancel safe, so a *)
(* select! that takes another branch in between loses the first.           *)
(*                                                                         *)
(* The scheduler may stop taking events at any time (see UpdateAnswered in *)
(* BM13xxThread); an event that waits for room in its channel is kept at   *)
(* the end of to_sched, one beyond the capacity.                           *)
(*                                                                         *)
(* Left out: the values and the throttling of suggested difficulties (a    *)
(* suggestion is a command that may come at any time), malformed messages, *)
(* the length of the backoff.                                              *)
(***************************************************************************)
EXTENDS Naturals, Sequences

CONSTANTS
  EventCap,     \* capacity of the client's event channel: 100
  CmdCap,       \* capacity of the client's command channel: 100
  SchedCap,     \* capacity of the channel of events to the scheduler: 100
  MaxSessions,  \* bound: connections
  MaxNotes,     \* bound: notifications from the pool
  MaxCmds       \* bound: shares found, and difficulties suggested

ASSUME CapacitiesPositive ==
  EventCap \in Nat \ {0} /\ CmdCap \in Nat \ {0} /\ SchedCap \in Nat \ {0}
ASSUME BoundsAreNat ==
  MaxSessions \in Nat /\ MaxNotes \in Nat /\ MaxCmds \in Nat

Session == 1 .. MaxSessions
Setting == 0 .. MaxSessions

(* ProtocolState, with subscribed for extranonce2_size # 0; NoState: None.  *)
ProtocolState == [extranonce1 : Setting, share_difficulty : Setting, version_mask : Setting]
NoState == [extranonce1 |-> 0, share_difficulty |-> 0, version_mask |-> 0]

JobTemplate == [session : Session, seq : 1 .. MaxNotes, extranonce1 : Session,
                share_difficulty : Setting, version_mask : Setting]
SchedEvent == [kind : {"UpdateJob", "ReplaceJob"}, job : JobTemplate] \cup [kind : {"ClearJobs"}]

Notification == {"notify", "notify_clean", "set_difficulty", "set_version_mask", "reconnect"}
Notify == {"notify", "notify_clean"}
Message == Notification \cup {"none", "reply"}

(* A ClientEvent: val is the seq of a job, or whether a mask was granted.  *)
ClientEvent ==
  [kind : Notification \cup {"configured", "subscribed", "other"}, val : 0 .. MaxNotes + 1]
Event(kind, val) == [kind |-> kind, val |-> val]

Handshake == {"configure", "subscribe", "authorize", "suggest"}
Requests  == Handshake \cup {"resuggest", "submit"}

VARIABLES
  (* The source. *)
  src,        \* "wait", "connecting", "run", "forward_share", "forward_suggest", "deliver",
              \* "clear", "backoff", "ended"
  session,    \* connections begun
  state,      \* StratumV1Source.state
  state_some, \* ... is Some(_)
  (* The client. *)
  client,     \* a request it awaits, "loop", "exited" or "off"
  outcome,    \* of run_with_transport: "none", "ok", "lost", "fatal"
  up,         \* the connection is open
  line,       \* the message whose first piece was read
  torn,       \* ... and lost
  (* Channels. *)
  events,     \* client to source
  ccmds,      \* source to client: "share" or "suggest"
  cmds,       \* scheduler to source: SubmitShare commands waiting
  to_sched,   \* source to scheduler
  (* The scheduler, the daemon and the pool. *)
  held,       \* templates the scheduler has tasks for
  scheduler_up, \* it has not ended
  shutdown,
  jobs,       \* notifies sent so far: the seq of the latest
  owed,       \* ... and whether it came in this session, after the subscription
  (* Bounds. *)
  notes, shares, suggests

srcVars    == <<src, session, state, state_some>>
clientVars == <<client, outcome, up, line, torn>>
chanVars   == <<events, ccmds, cmds, to_sched>>
schedVars  == <<held, scheduler_up>>
poolVars   == <<jobs, owed, notes>>
vars == <<srcVars, clientVars, chanVars, schedVars, shutdown, poolVars, shares, suggests>>

(* The source awaits event_tx.send.                                        *)
Delivering == {"deliver", "clear"}

TypeOK ==
  /\ src \in {"wait", "connecting", "run", "forward_share", "forward_suggest", "backoff", "ended"}
              \cup Delivering
  /\ session \in 0 .. MaxSessions /\ state \in ProtocolState /\ state_some \in BOOLEAN
  /\ client \in Requests \cup {"loop", "exited", "off"}
  /\ outcome \in {"none", "ok", "lost", "fatal"} /\ up \in BOOLEAN
  /\ line \in Message /\ torn \in BOOLEAN
  /\ events \in Seq(ClientEvent) /\ Len(events) <= EventCap
  /\ ccmds \in Seq({"share", "suggest"}) /\ Len(ccmds) <= CmdCap /\ cmds \in 0 .. MaxCmds
  /\ to_sched \in Seq(SchedEvent)
  /\ Len(to_sched) <= SchedCap \/ (Len(to_sched) = SchedCap + 1 /\ src \in Delivering)
  /\ held \subseteq JobTemplate /\ scheduler_up \in BOOLEAN /\ shutdown \in BOOLEAN
  /\ jobs \in 0 .. MaxNotes /\ owed \in BOOLEAN
  /\ notes \in 0 .. MaxNotes /\ shares \in 0 .. MaxCmds /\ suggests \in 0 .. MaxCmds

Init ==
  /\ src = "wait" /\ session = 0 /\ state = NoState /\ state_some = FALSE
  /\ client = "off" /\ outcome = "none" /\ up = FALSE /\ line = "none" /\ torn = FALSE
  /\ events = <<>> /\ ccmds = <<>> /\ cmds = 0 /\ to_sched = <<>>
  /\ held = {} /\ scheduler_up = TRUE /\ shutdown = FALSE
  /\ jobs = 0 /\ owed = FALSE /\ notes = 0 /\ shares = 0 /\ suggests = 0

-----------------------------------------------------------------------------
(***************************************************************************)
(* The source: run, connect_and_run, backoff_wait.                         *)
(***************************************************************************)

(* Mutant: the next connection starts with the last one's state.           *)
StartConnecting_keeps_state ==
  /\ src' = "connecting" /\ session' = session + 1
  /\ UNCHANGED <<state, state_some>>

(* The head of the reconnection loop: per-connection state is reset.       *)
StartConnecting ==
  /\ src' = "connecting" /\ session' = session + 1
  /\ state' = NoState /\ state_some' = FALSE

(* Phase 1 ends with the first positive hashrate.                          *)
PositiveHashRate ==
  /\ src = "wait" /\ session < MaxSessions
  /\ StartConnecting
  /\ UNCHANGED <<clientVars, chanVars, schedVars, shutdown, poolVars, shares, suggests>>

BackoffOver ==
  /\ src = "backoff" /\ session < MaxSessions
  /\ StartConnecting
  /\ UNCHANGED <<clientVars, chanVars, schedVars, shutdown, poolVars, shares, suggests>>

(* Without a connection shares are dropped.                                *)
DropShare ==
  /\ src \in {"wait", "backoff"} /\ cmds > 0
  /\ cmds' = cmds - 1
  /\ UNCHANGED <<srcVars, clientVars, events, ccmds, to_sched, schedVars, shutdown, poolVars,
                 shares, suggests>>

Connected ==
  /\ src = "connecting"
  /\ src' = "run"
  /\ client' = "configure" /\ outcome' = "none" /\ up' = TRUE /\ line' = "none" /\ torn' = FALSE
  /\ owed' = FALSE
  /\ UNCHANGED <<session, state, state_some, chanVars, schedVars, shutdown, jobs, notes, shares,
                 suggests>>

(* What a connection leaves behind: its channels and its client are gone. *)
ConnectionGone ==
  /\ client' = "off" /\ outcome' = "none" /\ up' = FALSE /\ line' = "none" /\ torn' = FALSE
  /\ events' = <<>> /\ ccmds' = <<>> /\ owed' = FALSE
  /\ UNCHANGED <<session, state, state_some, cmds, schedVars, shutdown, jobs, notes, shares,
                 suggests>>

(* event_tx.send: the event waits while there is no room (the source then  *)
(* goes to the state for that) and is lost once the scheduler has ended.   *)
Tells(e, waiting, done) ==
  /\ to_sched' = IF scheduler_up THEN Append(to_sched, e) ELSE to_sched
  /\ src' = IF scheduler_up /\ Len(to_sched) = SchedCap THEN waiting ELSE done

(* Mutant: the scheduler is not told that the connection is gone.          *)
Disconnected_silently == src' = "backoff" /\ ConnectionGone /\ UNCHANGED to_sched

(* ConnectOutcome::Disconnected: clear the jobs, then back off.            *)
Disconnected == ConnectionGone /\ Tells([kind |-> "ClearJobs"], "clear", "backoff")

(* run returns and drops its ends of the channels; a client still there is *)
(* detached.                                                               *)
Ends ==
  /\ src' = "ended" /\ state' = NoState /\ state_some' = FALSE
  /\ events' = <<>> /\ ccmds' = <<>> /\ cmds' = 0
  /\ UNCHANGED <<session, clientVars, to_sched, schedVars, shutdown, poolVars, shares, suggests>>

ConnectFails == src = "connecting" /\ Disconnected

(* What did the client return?  A fatal error ends the source.             *)
Conclude == IF outcome = "lost" THEN Disconnected ELSE Ends

(* The event channel is closed and drained.                                *)
ClientGone == src = "run" /\ client = "exited" /\ events = <<>> /\ Conclude

(* MAX_JOB_GAP passed without a job: abort the client, unless it has just  *)
(* returned.                                                               *)
RecycleConnection ==
  /\ src = "run"
  /\ IF client = "exited" THEN Conclude ELSE Disconnected

(* job_to_template fails without state, and for an extranonce2_size of 0.  *)
Usable == state_some /\ state.extranonce1 # 0

(* handle_client_event.                                                    *)
HandleClientEvent ==
  /\ src = "run" /\ events # <<>>
  /\ events' = Tail(events)
  /\ LET e == Head(events)
         template == [session |-> session, seq |-> e.val, extranonce1 |-> state.extranonce1,
                      share_difficulty |-> state.share_difficulty,
                      version_mask |-> state.version_mask]
     IN /\ state_some' = (state_some \/ e.kind \in {"configured", "subscribed"})
        /\ state' = [extranonce1 |-> IF e.kind = "subscribed" THEN session ELSE state.extranonce1,
                     share_difficulty |-> IF e.kind = "set_difficulty" /\ state_some
                                            THEN session ELSE state.share_difficulty,
                     version_mask |-> IF e.kind = "configured" THEN e.val * session
                                      ELSE IF e.kind = "set_version_mask" /\ state_some
                                             THEN session ELSE state.version_mask]
        /\ IF e.kind \in Notify /\ Usable
             THEN Tells([kind |-> IF e.kind = "notify_clean" THEN "ReplaceJob" ELSE "UpdateJob",
                         job |-> template], "deliver", "run")
             ELSE UNCHANGED <<src, to_sched>>
  /\ UNCHANGED <<session, clientVars, ccmds, cmds, schedVars, shutdown, poolVars, shares,
                 suggests>>

(* The scheduler made room, or ended; nothing else is looked at meanwhile, *)
(* the shutdown included.                                                  *)
Delivered ==
  /\ src \in Delivering /\ Len(to_sched) <= SchedCap
  /\ src' = IF src = "deliver" THEN "run" ELSE "backoff"
  /\ UNCHANGED <<session, state, state_some, clientVars, chanVars, schedVars, shutdown, poolVars,
                 shares, suggests>>

(* The SubmitShare branch: convert, then await room in the client's        *)
(* channel.  Nothing else is looked at meanwhile, the shutdown included.   *)
TakeShare ==
  /\ src = "run" /\ cmds > 0
  /\ cmds' = cmds - 1
  /\ src' = IF state_some THEN "forward_share" ELSE "run"
  /\ UNCHANGED <<session, state, state_some, clientVars, events, ccmds, to_sched, schedVars,
                 shutdown, poolVars, shares, suggests>>

(* UpdateHashRate or the end of the cooldown: a new difficulty, sent alike. *)
SuggestDifficulty ==
  /\ src = "run" /\ suggests < MaxCmds
  /\ suggests' = suggests + 1 /\ src' = "forward_suggest"
  /\ UNCHANGED <<session, state, state_some, clientVars, chanVars, schedVars, shutdown, poolVars,
                 shares>>

Forwarded ==
  /\ src \in {"forward_share", "forward_suggest"}
  /\ \/ client = "exited" /\ UNCHANGED ccmds
     \/ /\ client # "exited" /\ Len(ccmds) < CmdCap
        /\ ccmds' = Append(ccmds, IF src = "forward_share" THEN "share" ELSE "suggest")
  /\ src' = "run"
  /\ UNCHANGED <<session, state, state_some, clientVars, events, cmds, to_sched, schedVars,
                 shutdown, poolVars, shares, suggests>>


SourceStops == shutdown /\ src \in {"wait", "connecting", "run", "backoff"} /\ Ends

-----------------------------------------------------------------------------
(***************************************************************************)
(* The client: run_with_transport and send_request.                        *)
(***************************************************************************)
Live == client \in Requests \cup {"loop"}

(* run_with_transport returns: the connection and its buffers are dropped. *)
Exits(result) ==
  /\ client' = "exited" /\ outcome' = result /\ up' = FALSE /\ line' = "none" /\ torn' = FALSE
  /\ ccmds' = <<>>

Stays == UNCHANGED <<client, outcome, up, ccmds>>

(* The steps after a request that succeeded, or failed without harm; an    *)
(* initial suggestion is sent only for a positive hashrate.                *)
NextRequest ==
  [configure |-> {"subscribe"}, subscribe |-> {"authorize"}, authorize |-> {"suggest", "loop"},
   suggest |-> {"loop"}, resuggest |-> {"loop"}, submit |-> {"loop"}]

GoesOn == client' \in NextRequest[client] /\ UNCHANGED <<outcome, up, ccmds>>

(* An error other than a timeout: only a suggestion survives it.           *)
RequestFails(rest) ==
  IF client \in {"suggest", "resuggest"} THEN GoesOn /\ rest ELSE Exits("lost")

(* The read is dropped: the piece it had read is lost.                     *)
Tears == torn' = (line # "none") /\ UNCHANGED line
(* The message is read to its end.                                         *)
Consumed == line' = "none" /\ torn' = FALSE

(* event_tx.send waits for room, and fails once the source has ended.      *)
Send(e) == src # "ended" /\ Len(events) < EventCap /\ events' = Append(events, e)
SendOrExit(e, done) ==
  \/ Send(e) /\ GoesOn /\ done
  \/ src = "ended" /\ Exits("lost") /\ UNCHANGED events

(* The first piece of a message.  Pools send jobs to subscribed clients    *)
(* and to others; only the former are owed them.  (A detached client gets  *)
(* no more messages.)                                                      *)
Arrives(m) ==
  /\ Live /\ up /\ line = "none" /\ src # "ended"
  /\ m = "reply" => client \in Requests
  /\ m \in Notification => notes < MaxNotes
  /\ line' = m /\ torn' = FALSE
  /\ jobs' = IF m \in Notify THEN jobs + 1 ELSE jobs
  /\ owed' = (owed \/ (m \in Notify /\ client \notin {"configure", "subscribe"}))
  /\ notes' = IF m \in Notification THEN notes + 1 ELSE notes
  /\ UNCHANGED <<srcVars, client, outcome, up, chanVars, schedVars, shutdown, shares, suggests>>

(* handle_notification: on client.reconnect or a failed send the loop      *)
(* exits, send_request logs the error and goes on.                         *)
ReadNotification ==
  /\ Live /\ line \in Notification /\ ~torn
  /\ IF line = "reconnect" \/ src = "ended"
       THEN /\ UNCHANGED events
            /\ IF client = "loop" THEN Exits("lost") ELSE Stays /\ Consumed
       ELSE Send(Event(line, IF line \in Notify THEN jobs ELSE 0)) /\ Stays /\ Consumed
  /\ UNCHANGED <<srcVars, cmds, to_sched, schedVars, shutdown, poolVars, shares, suggests>>

(* The rest of a torn message does not parse: the loop ignores it, a       *)
(* request fails.                                                          *)
ReadTorn ==
  /\ Live /\ line # "none" /\ torn
  /\ IF client = "loop" THEN Stays /\ Consumed ELSE RequestFails(Consumed)
  /\ UNCHANGED <<srcVars, events, cmds, to_sched, schedVars, shutdown, poolVars, shares,
                 suggests>>

(* The reply to the request: configure and subscribe tell the source what  *)
(* they got, submit whether the share was accepted.                        *)
ReadReply(good) ==
  /\ client \in Requests /\ line = "reply" /\ ~torn
  /\ \/ client = "configure" /\ SendOrExit(Event("configured", IF good THEN 1 ELSE 0), Consumed)
     \/ client = "subscribe" /\ good /\ SendOrExit(Event("subscribed", 0), Consumed)
     \/ client = "subscribe" /\ ~good /\ Exits("lost") /\ UNCHANGED events
     \/ client = "authorize" /\ good /\ GoesOn /\ Consumed /\ UNCHANGED events
     \/ client = "authorize" /\ ~good /\ Exits("fatal") /\ UNCHANGED events
     \/ client \in {"suggest", "resuggest"} /\ GoesOn /\ Consumed /\ UNCHANGED events
     \/ client = "submit" /\ SendOrExit(Event("other", 0), Consumed)
  /\ UNCHANGED <<srcVars, cmds, to_sched, schedVars, shutdown, poolVars, shares, suggests>>

(* The timeout of send_request cancels its read.  configure does without,  *)
(* a suggestion needs no answer.                                           *)
RequestTimeout ==
  /\ client \in Requests
  /\ \/ client = "configure" /\ SendOrExit(Event("configured", 0), Tears)
     \/ client \in {"suggest", "resuggest"} /\ GoesOn /\ Tears /\ UNCHANGED events
     \/ client \in {"subscribe", "authorize", "submit"} /\ Exits("lost") /\ UNCHANGED events
  /\ UNCHANGED <<srcVars, cmds, to_sched, schedVars, shutdown, poolVars, shares, suggests>>

(* The pool closes the connection, or it breaks.                           *)
ConnectionBreaks ==
  /\ Live /\ up /\ up' = FALSE /\ Consumed
  /\ UNCHANGED <<srcVars, client, outcome, chanVars, schedVars, shutdown, poolVars, shares,
                 suggests>>

(* The client reads the end of the stream, or sees the shutdown; in the    *)
(* loop it tells the source, if that is still there.                       *)
ClientStops ==
  /\ Live /\ (~up \/ shutdown)
  /\ IF client \in Requests
       THEN RequestFails(Tears) /\ UNCHANGED events
       ELSE /\ Exits(IF shutdown THEN "ok" ELSE "lost")
            /\ \/ Send(Event("other", 0))
               \/ src = "ended" /\ UNCHANGED events
  /\ UNCHANGED <<srcVars, cmds, to_sched, schedVars, shutdown, poolVars, shares, suggests>>

(* The loop takes a command and drops the read in progress.                *)
ClientCommand ==
  /\ client = "loop" /\ ccmds # <<>>
  /\ ccmds' = Tail(ccmds)
  /\ client' = IF Head(ccmds) = "share" THEN "submit" ELSE "resuggest"
  /\ Tears
  /\ UNCHANGED <<srcVars, outcome, up, events, cmds, to_sched, schedVars, shutdown, poolVars,
                 shares, suggests>>

-----------------------------------------------------------------------------
(* The scheduler takes the source's next event, ...                        *)
SchedulerTakes ==
  /\ to_sched # <<>>
  /\ to_sched' = Tail(to_sched)
  /\ held' = CASE Head(to_sched).kind = "ClearJobs"  -> {}
               [] Head(to_sched).kind = "ReplaceJob" -> {Head(to_sched).job}
               [] Head(to_sched).kind = "UpdateJob"  -> held \cup {Head(to_sched).job}
  /\ UNCHANGED <<srcVars, clientVars, events, ccmds, cmds, scheduler_up, shutdown, poolVars,
                 shares, suggests>>

(* ... and submits a share of a job it holds.                              *)
SubmitShare ==
  /\ held # {} /\ shares < MaxCmds /\ src # "ended"
  /\ shares' = shares + 1 /\ cmds' = cmds + 1
  /\ UNCHANGED <<srcVars, clientVars, events, ccmds, to_sched, schedVars, shutdown, poolVars,
                 suggests>>

(* At the shutdown the scheduler ends and drops its channels.              *)
SchedulerEnds ==
  /\ shutdown /\ scheduler_up /\ scheduler_up' = FALSE
  /\ held' = {} /\ to_sched' = <<>>
  /\ UNCHANGED <<srcVars, clientVars, events, ccmds, cmds, shutdown, poolVars, shares, suggests>>

Shutdown ==
  /\ ~shutdown /\ shutdown' = TRUE
  /\ UNCHANGED <<srcVars, clientVars, chanVars, schedVars, poolVars, shares, suggests>>

SourceNext ==
  \/ PositiveHashRate
  \/ BackoffOver
  \/ DropShare
  \/ Connected
  \/ ConnectFails
  \/ RecycleConnection
  \/ ClientGone
  \/ HandleClientEvent
  \/ Delivered
  \/ TakeShare
  \/ Forwarded
  \/ SuggestDifficulty
  \/ SourceStops

ClientNext ==
  \/ \E m \in Notification \cup {"reply"} : Arrives(m)
  \/ ReadNotification
  \/ ReadTorn
  \/ \E good \in BOOLEAN : ReadReply(good)
  \/ RequestTimeout
  \/ ConnectionBreaks
  \/ ClientStops
  \/ ClientCommand

SchedulerNext == SchedulerTakes \/ SubmitShare \/ SchedulerEnds

Next == SourceNext \/ ClientNext \/ SchedulerNext \/ Shutdown

Spec == Init /\ [][Next]_vars

(***************************************************************************)
(* The source and the client finish what they can; select! is random, so a *)
(* shutdown that stays ready is taken; requests time out.  Nothing is      *)
(* assumed of the pool or of the scheduler.                                *)
(***************************************************************************)
Fairness ==
  /\ WF_vars(HandleClientEvent) /\ WF_vars(ClientGone)
  /\ WF_vars(Forwarded) /\ WF_vars(Delivered)
  /\ SF_vars(SourceStops) /\ SF_vars(ClientStops) /\ SF_vars(ClientCommand)
  /\ WF_vars(RequestTimeout)

FairSpec == Spec /\ Fairness

-----------------------------------------------------------------------------
(***************************************************************************)
(* Properties.                                                             *)
(***************************************************************************)

(* Every template handed to the scheduler was built from settings of its   *)
(* own connection, in whatever order the handshake and the notifications   *)
(* came, and whatever an earlier connection set: this subscription's       *)
(* extranonce prefix, and this connection's mask and share difficulty, or  *)
(* none.  Without a share difficulty (0) the code takes 1 and passes the   *)
(* job on: see DefaultDifficultyHidden.                                    *)
TemplatesOfOneSession ==
  \A i \in 1 .. Len(to_sched) :
    to_sched[i].kind # "ClearJobs" =>
      LET job == to_sched[i].job
      IN /\ job.extranonce1 = job.session
         /\ job.share_difficulty \in {0, job.session}
         /\ job.version_mask \in {0, job.session}

(* "Invalidate stale work from the dead connection": a job of a connection *)
(* that was given up, held by the scheduler or still on its way to it, has *)
(* a ClearJobs behind it, so jobs of two connections are never held at     *)
(* once.                                                                   *)
DeadWorkCleared ==
  LET Dead(j) == j.session < session \/ src \in {"clear", "backoff"}
      ClearedFrom(i) == \E k \in i .. Len(to_sched) : to_sched[k].kind = "ClearJobs"
  IN /\ \A j \in held : Dead(j) => ClearedFrom(1)
     /\ \A i \in 1 .. Len(to_sched) :
          to_sched[i].kind # "ClearJobs" /\ Dead(to_sched[i].job) => ClearedFrom(i)
     /\ \A j, k \in held : j.session = k.session

(* Shutdown ends the source wherever it is, with a share waiting to be     *)
(* forwarded to a client that waits for the pool too, and the client task  *)
(* that the source leaves behind, provided the scheduler keeps making room *)
(* or ends: a send to a scheduler that does neither is never given up.     *)
SchedulerMakesRoom == []<>(Len(to_sched) <= SchedCap)

(* Refuted: "The source drops jobs until the pool responds with a matching *)
(* set_difficulty, so the scheduler never sees the pool's default          *)
(* difficulty" (client.rs): while the client waits for the answer to its   *)
(* suggestion, the scheduler has no job of this connection for which the   *)
(* pool has set no difficulty.                                             *)
DefaultDifficultyHidden ==
  client = "suggest" => \A j \in held : j.session = session => j.share_difficulty = session

(* Refuted: "Read one complete JSON-RPC message" (connection.rs): with     *)
(* nothing in flight on an open connection the scheduler holds the latest  *)
(* job the pool sent on it.                                                *)
LatestJobDelivered ==
  (/\ src = "run" /\ client = "loop" /\ up /\ ~shutdown /\ line = "none"
   /\ events = <<>> /\ to_sched = <<>> /\ owed)
    => \E j \in held : j.seq = jobs
=============================================================================
