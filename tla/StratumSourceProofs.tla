------------------------ MODULE StratumSourceProofs ------------------------
(***************************************************************************)
(* Machine-checked proofs that the Stratum source builds its templates     *)
(* from one connection and clears the work of a dead one, for any number   *)
(* of connections, notifications and commands, channels of any capacity,   *)
(* and every order in which client, pool and scheduler move.               *)
(***************************************************************************)
EXTENDS StratumSource, TLAPS

(***************************************************************************)
(* The inductive invariant.                                                *)
(***************************************************************************)
Counted ==
  /\ jobs <= notes /\ cmds <= shares
  /\ line \in Notify => jobs >= 1

(* A job carries its number, a version mask was granted or not.            *)
EventSound(e) ==
  /\ e.kind \in Notify => e.val \in 1 .. MaxNotes
  /\ e.kind = "configured" => e.val \in {0, 1}

EventsSound == \A i \in 1 .. Len(events) : EventSound(events[i])

Connecting == src \notin {"wait", "ended"}

SessionCounted ==
  /\ src = "wait" => session = 0
  /\ Connecting => session >= 1

(* The state belongs to the connection in progress, or says nothing.       *)
StateOfSession ==
  /\ state.extranonce1 \in {0, session}
  /\ state.share_difficulty \in {0, session}
  /\ state.version_mask \in {0, session}

IsJob(e) == e.kind # "ClearJobs"

(* Jobs come from connections that were begun, ...                         *)
JobsBegun ==
  /\ \A j \in held : j.session <= session
  /\ \A i \in 1 .. Len(to_sched) : IsJob(to_sched[i]) => to_sched[i].job.session <= session

(* ... and between jobs of two connections there is a ClearJobs.           *)
Separated ==
  /\ \A j \in held, i \in 1 .. Len(to_sched) :
       IsJob(to_sched[i]) => \/ j.session = to_sched[i].job.session
                             \/ \E k \in 1 .. i : ~IsJob(to_sched[k])
  /\ \A i, m \in 1 .. Len(to_sched) :
       IsJob(to_sched[i]) /\ IsJob(to_sched[m]) /\ i < m =>
         \/ to_sched[i].job.session = to_sched[m].job.session
         \/ \E k \in i .. m : ~IsJob(to_sched[k])

(* A scheduler that ended holds nothing and is sent nothing.               *)
Emptied == ~scheduler_up => held = {} /\ to_sched = <<>>

StratumInv ==
  /\ TypeOK /\ Counted /\ EventsSound /\ SessionCounted /\ StateOfSession /\ JobsBegun /\ Separated
  /\ Emptied /\ TemplatesOfOneSession /\ DeadWorkCleared

-----------------------------------------------------------------------------
(* Sequences: what a sender appends and a receiver takes.                  *)
LEMMA Appended ==
  ASSUME NEW S, NEW q \in Seq(S), NEW x \in S
  PROVE  /\ Append(q, x) \in Seq(S) /\ Len(q) \in Nat /\ Len(Append(q, x)) = Len(q) + 1
         /\ Append(q, x)[Len(q) + 1] = x
         /\ \A i \in 1 .. Len(q) : Append(q, x)[i] = q[i]
OBVIOUS

LEMMA Taken ==
  ASSUME NEW S, NEW q \in Seq(S), q # <<>>
  PROVE  /\ Tail(q) \in Seq(S) /\ Len(q) \in Nat \ {0} /\ Len(Tail(q)) = Len(q) - 1
         /\ Head(q) \in S /\ Head(q) = q[1]
         /\ \A i \in 1 .. Len(Tail(q)) : Tail(q)[i] = q[i + 1]
OBVIOUS

(* A request leads to a request or to the loop.                            *)
LEMMA RequestsGoOn ==
  ASSUME client \in Requests, GoesOn
  PROVE  client' \in Requests \cup {"loop"}
BY DEF GoesOn, NextRequest, Requests, Handshake

(***************************************************************************)
(* What a step of the client may do: it leaves the source and the way to   *)
(* the scheduler alone and sends at most one event, while there is room.   *)
(***************************************************************************)
ClientFrame ==
  /\ UNCHANGED <<srcVars, cmds, to_sched, schedVars, shutdown, shares, suggests>>
  /\ client' \in Requests \cup {"loop", "exited"} /\ outcome' \in {"none", "ok", "lost", "fatal"}
  /\ up' \in BOOLEAN /\ torn' \in BOOLEAN
  /\ line' \in Message /\ (line' \in Notify => jobs' >= 1)
  /\ jobs' \in 0 .. MaxNotes /\ notes' \in 0 .. MaxNotes /\ jobs' <= notes' /\ owed' \in BOOLEAN
  /\ ccmds' \in {ccmds, <<>>} \/ (ccmds # <<>> /\ ccmds' = Tail(ccmds))
  /\ \/ events' = events
     \/ \E e \in ClientEvent : EventSound(e) /\ Send(e)

LEMMA ClientSteps ==
  ASSUME TypeOK, Counted, ClientNext
  PROVE  ClientFrame
<1> USE BoundsAreNat DEF srcVars, chanVars, poolVars
<1>0. /\ Live => client \in Requests \cup {"loop"}
      /\ jobs \in 0 .. MaxNotes /\ notes \in 0 .. MaxNotes /\ jobs <= notes
      /\ line \in Message /\ (line \in Notify => jobs >= 1)
      /\ client \in Requests \cup {"loop", "exited", "off"}
      /\ outcome \in {"none", "ok", "lost", "fatal"}
  BY DEF TypeOK, Counted, Live
<1>b. up \in BOOLEAN /\ torn \in BOOLEAN /\ owed \in BOOLEAN
  BY DEF TypeOK
<1>1. ASSUME NEW m \in Notification \cup {"reply"}, Arrives(m) PROVE ClientFrame
  <2>1. /\ jobs' \in 0 .. MaxNotes /\ notes' \in 0 .. MaxNotes /\ jobs' <= notes'
        /\ line' \in Message /\ (line' \in Notify => jobs' >= 1)
    BY <1>0, <1>1 DEF Arrives, Notify, Notification, Message
  <2>2. torn' \in BOOLEAN /\ owed' \in BOOLEAN
    BY <1>1 DEF Arrives
  <2> QED BY <1>0, <1>b, <1>1, <2>1, <2>2 DEF Arrives, ClientFrame
<1>2. CASE ReadNotification
  <2> DEFINE e == Event(line, IF line \in Notify THEN jobs ELSE 0)
  <2>1. e \in ClientEvent /\ EventSound(e)
    BY <1>0, <1>2 DEF ReadNotification, ClientEvent, EventSound, Event, Notification, Notify
  <2> HIDE DEF e
  <2>2. events' = events \/ Send(e)
    BY <1>2 DEF ReadNotification, e
  <2>3. \/ Exits("lost")
        \/ Stays /\ Consumed
    BY <1>2 DEF ReadNotification
  <2> QED BY <1>0, <1>b, <1>2, <2>1, <2>2, <2>3
       DEF ReadNotification, ClientFrame, Exits, Stays, Consumed, Message, Notify
<1>3. CASE ReadTorn
  <2>1. Exits("lost") \/ (Stays /\ Consumed) \/ (client \in Requests /\ GoesOn /\ Consumed)
    BY <1>0, <1>3 DEF ReadTorn, RequestFails
  <2>2. client' \in Requests \cup {"loop", "exited"}
    BY <1>0, <1>3, <2>1, RequestsGoOn DEF ReadTorn, Exits, Stays
  <2> QED BY <1>0, <1>b, <1>3, <2>1, <2>2
       DEF ReadTorn, ClientFrame, Exits, Stays, GoesOn, Consumed, Message, Notify
<1>4. ASSUME NEW good \in BOOLEAN, ReadReply(good) PROVE ClientFrame
  <2>1. \E e \in ClientEvent :
          /\ EventSound(e)
          /\ \/ Send(e) /\ GoesOn /\ Consumed
             \/ GoesOn /\ Consumed /\ UNCHANGED events
             \/ \E r \in {"lost", "fatal"} : Exits(r) /\ UNCHANGED events
    <3>1. /\ Event("configured", 1) \in ClientEvent /\ EventSound(Event("configured", 1))
          /\ Event("configured", 0) \in ClientEvent /\ EventSound(Event("configured", 0))
          /\ Event("subscribed", 0) \in ClientEvent /\ EventSound(Event("subscribed", 0))
          /\ Event("other", 0) \in ClientEvent /\ EventSound(Event("other", 0))
      BY DEF ClientEvent, EventSound, Event, Notify
    <3> QED BY <1>4, <3>1 DEF ReadReply, SendOrExit
  <2>2. client' \in Requests \cup {"loop", "exited"}
    BY <1>4, <2>1, RequestsGoOn DEF ReadReply, Exits
  <2> QED BY <1>0, <1>b, <1>4, <2>1, <2>2
       DEF ReadReply, ClientFrame, Exits, GoesOn, Consumed, Message, Notify
<1>5. CASE RequestTimeout
  <2> DEFINE e == Event("configured", 0)
  <2>1. e \in ClientEvent /\ EventSound(e)
    BY DEF ClientEvent, EventSound, Event, Notify
  <2> HIDE DEF e
  <2>2. \/ Send(e) /\ GoesOn /\ Tears
        \/ GoesOn /\ Tears /\ UNCHANGED events
        \/ Exits("lost") /\ UNCHANGED events
    BY <1>5 DEF RequestTimeout, SendOrExit, e
  <2>3. client' \in Requests \cup {"loop", "exited"}
    BY <1>5, <2>2, RequestsGoOn DEF RequestTimeout, Exits
  <2> QED BY <1>0, <1>b, <1>5, <2>1, <2>2, <2>3
       DEF RequestTimeout, ClientFrame, Exits, GoesOn, Tears, Message, Notify
<1>6. CASE ConnectionBreaks
  BY <1>0, <1>b, <1>6 DEF ConnectionBreaks, ClientFrame, Consumed, Message, Notify
<1>7. CASE ClientStops
  <2> DEFINE e == Event("other", 0)
  <2>1. e \in ClientEvent /\ EventSound(e)
    BY DEF ClientEvent, EventSound, Event, Notify
  <2> HIDE DEF e
  <2>2. \/ client \in Requests /\ GoesOn /\ Tears /\ UNCHANGED events
        \/ \E r \in {"ok", "lost"} : Exits(r) /\ (events' = events \/ Send(e))
    BY <1>7 DEF ClientStops, RequestFails, e
  <2>3. client' \in Requests \cup {"loop", "exited"}
    BY <1>7, <2>2, RequestsGoOn DEF ClientStops, Exits
  <2> QED BY <1>0, <1>b, <1>7, <2>1, <2>2, <2>3
       DEF ClientStops, ClientFrame, Exits, GoesOn, Tears, Message, Notify
<1>8. CASE ClientCommand
  BY <1>0, <1>b, <1>8 DEF ClientCommand, ClientFrame, Tears, Requests
<1> QED BY <1>1, <1>2, <1>3, <1>4, <1>5, <1>6, <1>7, <1>8 DEF ClientNext

-----------------------------------------------------------------------------
(* What is typed and counted, apart from the source's state.               *)
Plain == TypeOK /\ Counted /\ EventsSound /\ SessionCounted /\ StateOfSession

(* The template of a job that handle_client_event sends on.                *)
Template(e) ==
  [session |-> session, seq |-> e.val, extranonce1 |-> state.extranonce1,
   share_difficulty |-> state.share_difficulty, version_mask |-> state.version_mask]

LEMMA EventTaken ==
  ASSUME Plain, events # <<>>
  PROVE  /\ Head(events) \in ClientEvent /\ EventSound(Head(events))
         /\ Tail(events) \in Seq(ClientEvent) /\ Len(Tail(events)) <= EventCap
         /\ \A i \in 1 .. Len(Tail(events)) : EventSound(Tail(events)[i])
<1>1. events \in Seq(ClientEvent) /\ Len(events) <= EventCap /\ EventCap \in Nat
  BY CapacitiesPositive DEF Plain, TypeOK
<1>2. /\ Tail(events) \in Seq(ClientEvent) /\ Len(events) \in Nat \ {0}
      /\ Len(Tail(events)) = Len(events) - 1 /\ Head(events) \in ClientEvent
      /\ Head(events) = events[1]
      /\ \A i \in 1 .. Len(Tail(events)) : Tail(events)[i] = events[i + 1]
  BY <1>1, Taken
<1>3. \A i \in 1 .. Len(events) : EventSound(events[i])
  BY DEF Plain, EventsSound
<1> QED BY <1>1, <1>2, <1>3

LEMMA TemplateType ==
  ASSUME Plain, src = "run", Usable, NEW e \in ClientEvent, EventSound(e), e.kind \in Notify
  PROVE  /\ Template(e) \in JobTemplate /\ Template(e).session = session
         /\ Template(e).extranonce1 = session
         /\ Template(e).share_difficulty \in {0, session}
         /\ Template(e).version_mask \in {0, session}
<1>1. session \in Session
  BY BoundsAreNat DEF Plain, TypeOK, SessionCounted, Connecting, Session
<1>2. /\ state.extranonce1 = session /\ state.share_difficulty \in {0, session}
      /\ state.version_mask \in {0, session}
  BY DEF Plain, StateOfSession, Usable
<1>3. e.val \in 1 .. MaxNotes
  BY DEF EventSound
<1>4. 0 \in Setting /\ session \in Setting
  BY <1>1, BoundsAreNat DEF Setting, Session
<1> QED BY <1>1, <1>2, <1>3, <1>4 DEF Template, JobTemplate

(* The state after an event is again of this connection.                   *)
LEMMA StateStep ==
  ASSUME Plain, HandleClientEvent
  PROVE  StateOfSession' /\ state' \in ProtocolState /\ state_some' \in BOOLEAN
<1>1. EventSound(Head(events)) /\ session \in 0 .. MaxSessions /\ state \in ProtocolState
  BY EventTaken DEF HandleClientEvent, Plain, TypeOK
<1>2. Head(events).kind = "configured" => Head(events).val * session \in {0, session}
  BY <1>1, BoundsAreNat DEF EventSound
<1>3. /\ state'.extranonce1 \in {0, session} /\ state'.share_difficulty \in {0, session}
      /\ state'.version_mask \in {0, session}
  BY <1>2 DEF HandleClientEvent, Plain, StateOfSession
<1>4. session' = session
  BY DEF HandleClientEvent
<1>5. state' \in ProtocolState
  <2>1. 0 \in Setting /\ session \in Setting
    BY <1>1, BoundsAreNat DEF Setting
  <2>2. state' = [extranonce1 |-> state'.extranonce1, share_difficulty |-> state'.share_difficulty,
                  version_mask |-> state'.version_mask]
    BY DEF HandleClientEvent
  <2> QED BY <1>3, <2>1, <2>2 DEF ProtocolState
<1> QED BY <1>3, <1>4, <1>5 DEF StateOfSession, HandleClientEvent

(* What a send of the source does to the queue and to the source.          *)
LEMMA Told ==
  ASSUME TypeOK, src \notin Delivering, NEW e \in SchedEvent, NEW waiting \in Delivering, NEW done,
         Tells(e, waiting, done)
  PROVE  /\ to_sched' \in Seq(SchedEvent)
         /\ Len(to_sched') <= SchedCap \/ (Len(to_sched') = SchedCap + 1 /\ src' \in Delivering)
<1>1. to_sched \in Seq(SchedEvent) /\ Len(to_sched) <= SchedCap /\ SchedCap \in Nat
  BY CapacitiesPositive DEF TypeOK
<1>2. /\ Append(to_sched, e) \in Seq(SchedEvent) /\ Len(to_sched) \in Nat
      /\ Len(Append(to_sched, e)) = Len(to_sched) + 1
  BY <1>1, Appended
<1> QED BY <1>1, <1>2 DEF Tells

(* An event that handle_client_event handles changes to_sched by a job, or *)
(* not at all.                                                             *)
LEMMA EventHandled ==
  ASSUME Plain, HandleClientEvent
  PROVE  \/ to_sched' = to_sched /\ src' = src
         \/ \E kind \in {"UpdateJob", "ReplaceJob"}, job \in JobTemplate :
              /\ Tells([kind |-> kind, job |-> job], "deliver", "run") /\ scheduler_up
              /\ to_sched' = Append(to_sched, [kind |-> kind, job |-> job])
              /\ job.session = session /\ job.extranonce1 = session
              /\ job.share_difficulty \in {0, session} /\ job.version_mask \in {0, session}
<1>1. Head(events) \in ClientEvent /\ EventSound(Head(events)) /\ src = "run"
  BY EventTaken DEF HandleClientEvent
<1>2. CASE Head(events).kind \in Notify /\ Usable
  <2> DEFINE kind == IF Head(events).kind = "notify_clean" THEN "ReplaceJob" ELSE "UpdateJob"
  <2>1. Tells([kind |-> kind, job |-> Template(Head(events))], "deliver", "run")
    BY <1>2 DEF HandleClientEvent, Template
  <2>2. kind \in {"UpdateJob", "ReplaceJob"}
    OBVIOUS
  <2> HIDE DEF kind
  <2>3. /\ scheduler_up \in BOOLEAN
        /\ scheduler_up =>
             to_sched' = Append(to_sched, [kind |-> kind, job |-> Template(Head(events))])
        /\ ~scheduler_up => to_sched' = to_sched /\ src' = src
    BY <1>1, <2>1 DEF Tells, Plain, TypeOK
  <2>4. /\ Template(Head(events)) \in JobTemplate /\ Template(Head(events)).session = session
        /\ Template(Head(events)).extranonce1 = session
        /\ Template(Head(events)).share_difficulty \in {0, session}
        /\ Template(Head(events)).version_mask \in {0, session}
    BY <1>1, <1>2, TemplateType
  <2> QED BY <2>1, <2>2, <2>3, <2>4
<1>3. CASE ~(Head(events).kind \in Notify /\ Usable)
  BY <1>3 DEF HandleClientEvent
<1> QED BY <1>2, <1>3

LEMMA PlainStep ==
  ASSUME Plain, [Next]_vars
  PROVE  Plain'
<1> USE CapacitiesPositive, BoundsAreNat
    DEF Plain, SessionCounted, Connecting, Delivering, srcVars, clientVars, chanVars, poolVars,
        schedVars
<1>0. \A S : <<>> \in Seq(S)
  OBVIOUS
<1>n. NoState \in ProtocolState
  BY DEF NoState, ProtocolState, Setting
<1>k. Len(<<>>) = 0 /\ 0 <= EventCap /\ 0 <= CmdCap /\ 0 <= SchedCap
  OBVIOUS
<1>i. /\ session \in 0 .. MaxSessions /\ cmds \in 0 .. MaxCmds /\ shares \in 0 .. MaxCmds
      /\ suggests \in 0 .. MaxCmds /\ cmds <= shares
  BY DEF TypeOK, Counted
<1>c. [kind |-> "ClearJobs"] \in SchedEvent
  BY DEF SchedEvent
<1>1. ASSUME src \in {"wait", "backoff"}, session < MaxSessions, StartConnecting,
             UNCHANGED <<clientVars, chanVars, schedVars, shutdown, poolVars, shares, suggests>>
      PROVE  Plain'
  <2>1. TypeOK'
    <3>1. session' \in 0 .. MaxSessions
      BY <1>i, <1>1 DEF StartConnecting
    <3> QED BY <1>n, <1>1, <3>1 DEF TypeOK, StartConnecting
  <2>2. Counted' /\ EventsSound'
    BY <1>1 DEF Counted, EventsSound, EventSound
  <2>3. StateOfSession' /\ SessionCounted'
    BY <1>1 DEF StartConnecting, StateOfSession, NoState, TypeOK
  <2> QED BY <2>1, <2>2, <2>3
<1>2. CASE DropShare
  BY <1>2 DEF DropShare, TypeOK, Counted, EventsSound, EventSound, StateOfSession
<1>3. CASE Connected
  BY <1>3 DEF Connected, TypeOK, Counted, EventsSound, EventSound, StateOfSession, Requests,
              Handshake, Message, Notify
<1>4. ASSUME Disconnected, src \in {"connecting", "run"} PROVE Plain'
  <2>1. TypeOK'
    <3>1. events' = <<>> /\ ccmds' = <<>> /\ Len(events') <= EventCap /\ Len(ccmds') <= CmdCap
      BY <1>k, <1>4 DEF Disconnected, ConnectionGone
    <3>2. /\ to_sched' \in Seq(SchedEvent)
          /\ Len(to_sched') <= SchedCap \/ (Len(to_sched') = SchedCap + 1 /\ src' \in Delivering)
      BY <1>c, <1>4, Told DEF Disconnected
    <3>3. src' \in {"clear", "backoff"}
      BY <1>4 DEF Disconnected, Tells
    <3> QED BY <1>0, <1>4, <3>1, <3>2, <3>3 DEF Disconnected, ConnectionGone, TypeOK, Message
  <2>2. Counted' /\ EventsSound' /\ StateOfSession' /\ SessionCounted'
    BY <1>4 DEF Disconnected, ConnectionGone, Tells, Counted, EventsSound, StateOfSession, Notify
  <2> QED BY <2>1, <2>2
<1>5. ASSUME Ends, src \notin Delivering PROVE Plain'
  <2>1. TypeOK'
    <3>1. /\ events' = <<>> /\ ccmds' = <<>> /\ Len(events') <= EventCap /\ Len(ccmds') <= CmdCap
          /\ cmds' \in 0 .. MaxCmds
      BY <1>k, <1>5 DEF Ends
    <3> QED BY <1>0, <1>n, <1>5, <3>1 DEF Ends, TypeOK
  <2>2. Counted' /\ EventsSound' /\ StateOfSession' /\ SessionCounted'
    BY <1>5 DEF Ends, Counted, EventsSound, StateOfSession, NoState, TypeOK
  <2> QED BY <2>1, <2>2
<1>6. CASE HandleClientEvent
  <2>1. /\ StateOfSession' /\ state' \in ProtocolState /\ state_some' \in BOOLEAN
    BY <1>6, StateStep
  <2>2. /\ events' \in Seq(ClientEvent) /\ Len(events') <= EventCap /\ EventsSound'
    BY <1>6, EventTaken DEF HandleClientEvent, EventsSound, EventSound
  <2>3. /\ to_sched' \in Seq(SchedEvent) /\ src' \in {"run", "deliver"}
        /\ Len(to_sched') <= SchedCap \/ (Len(to_sched') = SchedCap + 1 /\ src' \in Delivering)
    <3>0. src = "run"
      BY <1>6 DEF HandleClientEvent
    <3>1. CASE to_sched' = to_sched /\ src' = src
      BY <3>0, <3>1 DEF TypeOK
    <3>2. ASSUME NEW kind \in {"UpdateJob", "ReplaceJob"}, NEW job \in JobTemplate,
                 Tells([kind |-> kind, job |-> job], "deliver", "run")
          PROVE  /\ to_sched' \in Seq(SchedEvent) /\ src' \in {"run", "deliver"}
                 /\ \/ Len(to_sched') <= SchedCap
                    \/ Len(to_sched') = SchedCap + 1 /\ src' \in Delivering
      <4>1. [kind |-> kind, job |-> job] \in SchedEvent
        BY DEF SchedEvent
      <4>2. src' \in {"run", "deliver"}
        BY <3>2 DEF Tells
      <4> QED BY <3>0, <3>2, <4>1, <4>2, Told
    <3> QED BY <1>6, <3>1, <3>2, EventHandled
  <2>4. TypeOK'
    BY <1>6, <2>1, <2>2, <2>3 DEF HandleClientEvent, TypeOK
  <2>5. Counted' /\ SessionCounted'
    BY <1>6, <2>3 DEF HandleClientEvent, Counted
  <2> QED BY <2>1, <2>2, <2>4, <2>5
<1>7. CASE TakeShare \/ SuggestDifficulty
  <2>1. TypeOK'
    <3>1. cmds' \in 0 .. MaxCmds /\ suggests' \in 0 .. MaxCmds
      BY <1>i, <1>7 DEF TakeShare, SuggestDifficulty
    <3>2. src' \in {"run", "forward_share", "forward_suggest"}
      BY <1>7 DEF TakeShare, SuggestDifficulty
    <3> QED BY <1>7, <3>1, <3>2 DEF TakeShare, SuggestDifficulty, TypeOK
  <2>2. Counted' /\ EventsSound'
    BY <1>7 DEF TakeShare, SuggestDifficulty, TypeOK, Counted, EventsSound, EventSound
  <2>3. StateOfSession' /\ SessionCounted'
    BY <1>7 DEF TakeShare, SuggestDifficulty, StateOfSession
  <2> QED BY <2>1, <2>2, <2>3
<1>8. CASE Forwarded
  <2>1. ccmds' \in Seq({"share", "suggest"}) /\ Len(ccmds') <= CmdCap
    <3>1. ccmds' = ccmds \/ (Len(ccmds) < CmdCap /\ \E x \in {"share", "suggest"} : ccmds' = Append(ccmds, x))
      BY <1>8 DEF Forwarded
    <3>2. ccmds \in Seq({"share", "suggest"}) /\ Len(ccmds) <= CmdCap
      BY DEF TypeOK
    <3> QED BY <3>1, <3>2, Appended
  <2> QED BY <1>8, <2>1 DEF Forwarded, TypeOK, Counted, EventsSound, EventSound, StateOfSession
<1>9. CASE ClientNext
  <2>1. ClientFrame
    BY <1>9, ClientSteps
  <2>2. ccmds' \in Seq({"share", "suggest"}) /\ Len(ccmds') <= CmdCap
    <3>1. ccmds \in Seq({"share", "suggest"}) /\ Len(ccmds) <= CmdCap
      BY DEF TypeOK
    <3>2. ccmds' \in {ccmds, <<>>} \/ (ccmds # <<>> /\ ccmds' = Tail(ccmds))
      BY <2>1 DEF ClientFrame
    <3>3. ccmds # <<>> => /\ Tail(ccmds) \in Seq({"share", "suggest"}) /\ Len(ccmds) \in Nat
                          /\ Len(Tail(ccmds)) = Len(ccmds) - 1
      BY <3>1, Taken
    <3>4. CASE ccmds' = ccmds
      BY <3>1, <3>4
    <3>5. CASE ccmds' = <<>>
      BY <1>0, <1>k, <3>5
    <3>6. CASE ccmds # <<>> /\ ccmds' = Tail(ccmds)
      BY <3>1, <3>3, <3>6
    <3> QED BY <3>2, <3>4, <3>5, <3>6
  <2>3. events' \in Seq(ClientEvent) /\ Len(events') <= EventCap /\ EventsSound'
    <3>1. CASE events' = events
      BY <3>1 DEF TypeOK, EventsSound, EventSound
    <3>2. ASSUME NEW e \in ClientEvent, EventSound(e), Send(e)
          PROVE  events' \in Seq(ClientEvent) /\ Len(events') <= EventCap /\ EventsSound'
      <4>1. /\ events' \in Seq(ClientEvent) /\ Len(events) \in Nat /\ Len(events') = Len(events) + 1
            /\ events'[Len(events) + 1] = e
            /\ \A i \in 1 .. Len(events) : events'[i] = events[i]
        BY <3>2, Appended DEF Send, TypeOK
      <4>2. EventsSound'
        BY <3>2, <4>1 DEF EventsSound, EventSound
      <4> QED BY <3>2, <4>1, <4>2 DEF Send
    <3> QED BY <2>1, <3>1, <3>2 DEF ClientFrame
  <2>4. TypeOK'
    BY <2>1, <2>2, <2>3 DEF ClientFrame, TypeOK
  <2>5. Counted' /\ SessionCounted' /\ StateOfSession'
    BY <2>1 DEF ClientFrame, Counted, StateOfSession
  <2> QED BY <2>3, <2>4, <2>5
<1>10. CASE SchedulerTakes
  <2>1. /\ to_sched' \in Seq(SchedEvent) /\ Head(to_sched) \in SchedEvent
        /\ Len(to_sched) \in Nat /\ Len(to_sched') = Len(to_sched) - 1
    BY <1>10, Taken DEF SchedulerTakes, TypeOK
  <2>2. Len(to_sched') <= SchedCap
    BY <2>1 DEF TypeOK
  <2>3. held' \subseteq JobTemplate
    BY <1>10, <2>1 DEF SchedulerTakes, TypeOK, SchedEvent
  <2>4. /\ UNCHANGED <<srcVars, clientVars, events, ccmds, cmds>>
        /\ UNCHANGED <<scheduler_up, shutdown, poolVars, shares, suggests>>
    BY <1>10 DEF SchedulerTakes
  <2>5. TypeOK'
    BY <2>1, <2>2, <2>3, <2>4 DEF TypeOK
  <2>6. Counted' /\ EventsSound' /\ StateOfSession' /\ SessionCounted'
    BY <2>4 DEF Counted, EventsSound, EventSound, StateOfSession
  <2> QED BY <2>5, <2>6
<1>11. CASE SubmitShare \/ Shutdown
  <2>1. TypeOK'
    <3>1. cmds' \in 0 .. MaxCmds /\ shares' \in 0 .. MaxCmds
      BY <1>i, <1>11 DEF SubmitShare, Shutdown
    <3>2. CASE SubmitShare
      BY <3>1, <3>2 DEF SubmitShare, TypeOK
    <3>3. CASE Shutdown
      BY <3>1, <3>3 DEF Shutdown, TypeOK
    <3> QED BY <1>11, <3>2, <3>3
  <2>2. Counted' /\ EventsSound'
    BY <1>11 DEF SubmitShare, Shutdown, TypeOK, Counted, EventsSound, EventSound
  <2>3. StateOfSession' /\ SessionCounted'
    BY <1>11 DEF SubmitShare, Shutdown, StateOfSession
  <2> QED BY <2>1, <2>2, <2>3
<1>12. CASE UNCHANGED vars
  BY <1>12 DEF vars, TypeOK, Counted, EventsSound, EventSound, StateOfSession
<1>13. CASE PositiveHashRate \/ BackoffOver
  BY <1>1, <1>13 DEF PositiveHashRate, BackoffOver
<1>14. CASE ConnectFails \/ ClientGone \/ RecycleConnection \/ SourceStops
  BY <1>4, <1>5, <1>14 DEF ConnectFails, ClientGone, RecycleConnection, SourceStops, Conclude
<1>15. CASE Delivered
  BY <1>15 DEF Delivered, TypeOK, Counted, EventsSound, EventSound, StateOfSession
<1>16. CASE SchedulerEnds
  <2>1. to_sched' \in Seq(SchedEvent) /\ Len(to_sched') <= SchedCap /\ held' \subseteq JobTemplate
    BY <1>0, <1>k, <1>16 DEF SchedulerEnds
  <2>2. TypeOK'
    BY <1>16, <2>1 DEF SchedulerEnds, TypeOK
  <2>3. Counted' /\ EventsSound' /\ StateOfSession' /\ SessionCounted'
    BY <1>16 DEF SchedulerEnds, Counted, EventsSound, EventSound, StateOfSession
  <2> QED BY <2>2, <2>3
<1> QED
  BY <1>2, <1>3, <1>6, <1>7, <1>8, <1>9, <1>10, <1>11, <1>12, <1>13, <1>14, <1>15, <1>16
     DEF Next, SourceNext, SchedulerNext

-----------------------------------------------------------------------------
(***************************************************************************)
(* The jobs on the way to the scheduler, and the ones it holds.            *)
(***************************************************************************)
QueueInv == JobsBegun /\ Separated /\ Emptied /\ TemplatesOfOneSession /\ DeadWorkCleared

(* A job of a connection that was given up.                                *)
Dead(j) == j.session < session \/ src \in {"clear", "backoff"}

(* DeadWorkCleared, with its local operators named.                        *)
LEMMA DeadWorkIs ==
  DeadWorkCleared <=>
    /\ \A j \in held : Dead(j) => \E k \in 1 .. Len(to_sched) : ~IsJob(to_sched[k])
    /\ \A i \in 1 .. Len(to_sched) :
         IsJob(to_sched[i]) /\ Dead(to_sched[i].job)
           => \E k \in i .. Len(to_sched) : ~IsJob(to_sched[k])
    /\ \A j, k \in held : j.session = k.session
BY DEF DeadWorkCleared, Dead, IsJob

LEMMA DeadWorkNext ==
  (DeadWorkCleared <=>
    /\ \A j \in held : Dead(j) => \E k \in 1 .. Len(to_sched) : ~IsJob(to_sched[k])
    /\ \A i \in 1 .. Len(to_sched) :
         IsJob(to_sched[i]) /\ Dead(to_sched[i].job)
           => \E k \in i .. Len(to_sched) : ~IsJob(to_sched[k])
    /\ \A j, k \in held : j.session = k.session)'
BY DeadWorkIs, PTL

(* No new jobs, no new connection and no connection given up.              *)
LEMMA QueueUntouched ==
  ASSUME QueueInv, UNCHANGED <<schedVars, to_sched, session>>,
         src' \in {"clear", "backoff"} => src \in {"clear", "backoff"}
  PROVE  QueueInv'
<1> USE DEF schedVars
<1>1. JobsBegun' /\ Separated' /\ Emptied' /\ TemplatesOfOneSession'
  BY DEF QueueInv, JobsBegun, Separated, Emptied, TemplatesOfOneSession, IsJob
<1>2. DeadWorkCleared'
  BY DEF QueueInv, DeadWorkCleared
<1> QED BY <1>1, <1>2 DEF QueueInv

(* Nothing is left to say about a scheduler that ended.                    *)
LEMMA QueueEmpty ==
  ASSUME held' = {}, to_sched' = <<>>
  PROVE  QueueInv'
<1>1. Len(<<>>) = 0
  OBVIOUS
<1>2. JobsBegun' /\ Separated' /\ Emptied' /\ TemplatesOfOneSession'
  BY <1>1 DEF JobsBegun, Separated, Emptied, TemplatesOfOneSession
<1>3. DeadWorkCleared'
  BY <1>1 DEF DeadWorkCleared
<1> QED BY <1>2, <1>3 DEF QueueInv

(* A new connection: the jobs of the last one are dead already, and before *)
(* the first there were none.                                              *)
LEMMA QueueReconnect ==
  ASSUME QueueInv, Plain, src \in {"wait", "backoff"}, StartConnecting,
         UNCHANGED <<schedVars, to_sched>>
  PROVE  QueueInv'
<1> USE DEF schedVars
<1>1. /\ session \in Nat /\ session' = session + 1 /\ src' = "connecting"
      /\ src = "wait" => session = 0
  BY BoundsAreNat DEF Plain, TypeOK, SessionCounted, StartConnecting
<1>2. /\ \A j \in held : j.session \in Nat \ {0}
      /\ \A i \in 1 .. Len(to_sched) : IsJob(to_sched[i]) => to_sched[i].job.session \in Nat \ {0}
  <2>1. /\ held \subseteq JobTemplate
        /\ \A i \in 1 .. Len(to_sched) : to_sched[i] \in SchedEvent
    BY DEF Plain, TypeOK
  <2>2. \A j \in JobTemplate : j.session \in Nat \ {0}
    BY BoundsAreNat DEF JobTemplate, Session
  <2>3. \A e \in SchedEvent : IsJob(e) => e.job \in JobTemplate
    BY DEF SchedEvent, IsJob
  <2> QED BY <2>1, <2>2, <2>3
<1>3. JobsBegun'
  BY <1>1, <1>2 DEF QueueInv, JobsBegun, IsJob
<1>4. Separated' /\ Emptied' /\ TemplatesOfOneSession'
  BY DEF QueueInv, Separated, Emptied, TemplatesOfOneSession, IsJob
<1>5. /\ \A j \in held : Dead(j)
      /\ \A i \in 1 .. Len(to_sched) : IsJob(to_sched[i]) => Dead(to_sched[i].job)
  BY <1>1, <1>2 DEF QueueInv, JobsBegun, Dead
<1>6. DeadWorkCleared'
  BY <1>5, DeadWorkIs, DeadWorkNext DEF QueueInv, IsJob
<1> QED BY <1>3, <1>4, <1>6 DEF QueueInv

(* The queue after one more event.                                         *)
LEMMA QueueLonger ==
  ASSUME Plain, NEW e \in SchedEvent, to_sched' = Append(to_sched, e)
  PROVE  /\ Len(to_sched) \in Nat /\ Len(to_sched') = Len(to_sched) + 1
         /\ to_sched'[Len(to_sched) + 1] = e
         /\ \A i \in 1 .. Len(to_sched) : to_sched'[i] = to_sched[i]
BY Appended DEF Plain, TypeOK

(* A connection is given up: a ClearJobs follows all its jobs.             *)
LEMMA QueueCleared ==
  ASSUME QueueInv, Plain, to_sched' = Append(to_sched, [kind |-> "ClearJobs"]),
         UNCHANGED <<held, session>>, scheduler_up, UNCHANGED scheduler_up
  PROVE  QueueInv'
<1> DEFINE n == Len(to_sched) + 1
<1>1. [kind |-> "ClearJobs"] \in SchedEvent
  BY DEF SchedEvent
<1>2. /\ Len(to_sched) \in Nat /\ Len(to_sched') = n /\ to_sched'[n] = [kind |-> "ClearJobs"]
      /\ \A i \in 1 .. Len(to_sched) : to_sched'[i] = to_sched[i]
  BY <1>1, QueueLonger
<1>3. n \in 1 .. Len(to_sched') /\ ~IsJob(to_sched'[n])
      /\ \A i \in 1 .. Len(to_sched') : i = n \/ i \in 1 .. Len(to_sched)
  BY <1>2 DEF IsJob
<1> HIDE DEF n
<1>4. JobsBegun' /\ TemplatesOfOneSession'
  BY <1>2, <1>3 DEF QueueInv, JobsBegun, TemplatesOfOneSession, IsJob
<1>5. Separated'
  <2>1. ASSUME NEW j \in held, NEW i \in 1 .. Len(to_sched), IsJob(to_sched[i])
        PROVE  \/ j.session = to_sched'[i].job.session
               \/ \E k \in 1 .. i : ~IsJob(to_sched'[k])
    BY <1>2, <2>1 DEF QueueInv, Separated
  <2>2. ASSUME NEW i \in 1 .. Len(to_sched), NEW m \in 1 .. Len(to_sched),
               IsJob(to_sched[i]), IsJob(to_sched[m]), i < m
        PROVE  \/ to_sched'[i].job.session = to_sched'[m].job.session
               \/ \E k \in i .. m : ~IsJob(to_sched'[k])
    BY <1>2, <2>2 DEF QueueInv, Separated
  <2> QED BY <1>2, <1>3, <2>1, <2>2 DEF Separated, IsJob
<1>6. DeadWorkCleared'
  <2>1. \A i \in 1 .. Len(to_sched') : n \in i .. Len(to_sched')
    BY <1>2, <1>3
  <2>2. \A j, k \in held : j.session = k.session
    BY DeadWorkIs DEF QueueInv
  <2> QED BY <1>3, <2>1, <2>2, DeadWorkNext DEF IsJob
<1> QED BY <1>4, <1>5, <1>6 DEF QueueInv, Emptied

(* A job of the connection in progress joins the queue.                    *)
LEMMA QueueJob ==
  ASSUME QueueInv, Plain, src = "run", src' \in {"run", "deliver"},
         UNCHANGED <<held, session>>, scheduler_up, UNCHANGED scheduler_up,
         NEW kind \in {"UpdateJob", "ReplaceJob"}, NEW job \in JobTemplate,
         to_sched' = Append(to_sched, [kind |-> kind, job |-> job]),
         job.session = session, job.extranonce1 = session,
         job.share_difficulty \in {0, session}, job.version_mask \in {0, session}
  PROVE  QueueInv'
<1> DEFINE n == Len(to_sched) + 1
<1>0. session \in Nat
  BY BoundsAreNat DEF Plain, TypeOK
<1>1. [kind |-> kind, job |-> job] \in SchedEvent
  BY DEF SchedEvent
<1>2. /\ Len(to_sched) \in Nat /\ Len(to_sched') = n
      /\ to_sched'[n] = [kind |-> kind, job |-> job]
      /\ \A i \in 1 .. Len(to_sched) : to_sched'[i] = to_sched[i]
  BY <1>1, QueueLonger
<1>3. /\ n \in 1 .. Len(to_sched') /\ IsJob(to_sched'[n]) /\ to_sched'[n].job = job
      /\ \A i \in 1 .. Len(to_sched') : i = n \/ i \in 1 .. Len(to_sched)
      /\ \A i \in 1 .. Len(to_sched) : i < n
  BY <1>2 DEF IsJob
<1>d. \A j : Dead(j) <=> j.session < session
  BY DEF Dead
<1>e. \A j : Dead(j)' <=> j.session < session
  BY DEF Dead
<1>t. /\ \A j \in held : j.session \in Nat
      /\ \A i \in 1 .. Len(to_sched) : IsJob(to_sched[i]) => to_sched[i].job.session \in Nat
  <2>1. /\ held \subseteq JobTemplate
        /\ \A i \in 1 .. Len(to_sched) : to_sched[i] \in SchedEvent
    BY DEF Plain, TypeOK
  <2>2. \A j \in JobTemplate : j.session \in Nat
    BY BoundsAreNat DEF JobTemplate, Session
  <2>3. \A e \in SchedEvent : IsJob(e) => e.job \in JobTemplate
    BY DEF SchedEvent, IsJob
  <2> QED BY <2>1, <2>2, <2>3
<1> HIDE DEF n
<1>4. JobsBegun' /\ TemplatesOfOneSession'
  BY <1>0, <1>2, <1>3 DEF QueueInv, JobsBegun, TemplatesOfOneSession, IsJob
<1>5. Separated'
  <2>1. ASSUME NEW j \in held, NEW i \in 1 .. Len(to_sched), IsJob(to_sched[i])
        PROVE  \/ j.session = to_sched'[i].job.session
               \/ \E k \in 1 .. i : ~IsJob(to_sched'[k])
    BY <1>2, <2>1 DEF QueueInv, Separated
  <2>2. ASSUME NEW i \in 1 .. Len(to_sched), NEW m \in 1 .. Len(to_sched),
               IsJob(to_sched[i]), IsJob(to_sched[m]), i < m
        PROVE  \/ to_sched'[i].job.session = to_sched'[m].job.session
               \/ \E k \in i .. m : ~IsJob(to_sched'[k])
    BY <1>2, <2>2 DEF QueueInv, Separated
  <2>3. ASSUME NEW j \in held
        PROVE  j.session = session \/ \E k \in 1 .. n : ~IsJob(to_sched'[k])
    <3>1. CASE j.session < session
      <4>1. PICK k \in 1 .. Len(to_sched) : ~IsJob(to_sched[k])
        BY <1>d, <2>3, <3>1, DeadWorkIs DEF QueueInv
      <4> QED BY <1>2, <1>3, <4>1
    <3>2. CASE ~(j.session < session)
      BY <1>0, <1>t, <2>3, <3>2 DEF QueueInv, JobsBegun
    <3> QED BY <3>1, <3>2
  <2>4. ASSUME NEW i \in 1 .. Len(to_sched), IsJob(to_sched[i])
        PROVE  to_sched'[i].job.session = session \/ \E k \in i .. n : ~IsJob(to_sched'[k])
    <3>1. CASE to_sched[i].job.session < session
      <4>1. PICK k \in i .. Len(to_sched) : ~IsJob(to_sched[k])
        BY <1>d, <2>4, <3>1, DeadWorkIs DEF QueueInv
      <4> QED BY <1>2, <1>3, <4>1
    <3>2. CASE ~(to_sched[i].job.session < session)
      BY <1>0, <1>2, <1>t, <2>4, <3>2 DEF QueueInv, JobsBegun
    <3> QED BY <3>1, <3>2
  <2> QED BY <1>2, <1>3, <2>1, <2>2, <2>3, <2>4 DEF Separated, IsJob
<1>6. DeadWorkCleared'
  <2>1. ASSUME NEW j \in held, j.session < session
        PROVE  \E k \in 1 .. Len(to_sched') : ~IsJob(to_sched'[k])
    <3>1. PICK k \in 1 .. Len(to_sched) : ~IsJob(to_sched[k])
      BY <1>d, <2>1, DeadWorkIs DEF QueueInv
    <3> QED BY <1>2, <1>3, <3>1
  <2>2. ASSUME NEW i \in 1 .. Len(to_sched), IsJob(to_sched[i]), to_sched[i].job.session < session
        PROVE  \E k \in i .. Len(to_sched') : ~IsJob(to_sched'[k])
    <3>1. PICK k \in i .. Len(to_sched) : ~IsJob(to_sched[k])
      BY <1>d, <2>2, DeadWorkIs DEF QueueInv
    <3> QED BY <1>2, <1>3, <3>1
  <2>3. \A j, k \in held : j.session = k.session
    BY DeadWorkIs DEF QueueInv
  <2>4. ~(job.session < session)
    BY <1>0
  <2> QED BY <1>2, <1>3, <1>e, <2>1, <2>2, <2>3, <2>4, DeadWorkNext DEF IsJob, Dead
<1> QED BY <1>4, <1>5, <1>6 DEF QueueInv, Emptied

(* The scheduler takes the head of the queue.                              *)
LEMMA QueueTaken ==
  ASSUME QueueInv, Plain, SchedulerTakes
  PROVE  QueueInv'
<1> DEFINE e == Head(to_sched)
<1>1. /\ to_sched' = Tail(to_sched) /\ UNCHANGED <<session, src>> /\ to_sched # <<>>
      /\ to_sched \in Seq(SchedEvent)
  BY DEF SchedulerTakes, srcVars, Plain, TypeOK
<1>2. /\ Len(to_sched) \in Nat \ {0} /\ Len(to_sched') = Len(to_sched) - 1
      /\ e \in SchedEvent /\ e = to_sched[1] /\ 1 \in 1 .. Len(to_sched)
      /\ \A i \in 1 .. Len(to_sched') : i + 1 \in 1 .. Len(to_sched) /\ to_sched'[i] = to_sched[i + 1]
  BY <1>1, Taken
<1>3. \/ ~IsJob(e) /\ held' = {}
      \/ IsJob(e) /\ held' = {e.job}
      \/ IsJob(e) /\ held' = held \cup {e.job}
  BY <1>2 DEF SchedulerTakes, SchedEvent, IsJob
<1> HIDE DEF e
<1>4. IsJob(e) => e.job.session <= session
  BY <1>2 DEF QueueInv, JobsBegun
<1>5. JobsBegun'
  BY <1>1, <1>2, <1>3, <1>4 DEF QueueInv, JobsBegun, IsJob
<1>6. TemplatesOfOneSession'
  BY <1>1, <1>2 DEF QueueInv, TemplatesOfOneSession
<1>7. ASSUME NEW i \in 1 .. Len(to_sched'), NEW lo \in 1 .. i,
             \E k \in lo + 1 .. i + 1 : ~IsJob(to_sched[k])
      PROVE  \E k \in lo .. i : ~IsJob(to_sched'[k])
  <2>1. PICK k \in lo + 1 .. i + 1 : ~IsJob(to_sched[k])
    BY <1>7
  <2>2. k - 1 \in lo .. i /\ k - 1 \in 1 .. Len(to_sched') /\ (k - 1) + 1 = k
    BY <1>2, <2>1
  <2>3. to_sched'[k - 1] = to_sched[k]
    BY <1>2, <2>2
  <2> QED BY <2>1, <2>2, <2>3
<1>8. Separated'
  <2>1. ASSUME NEW i \in 1 .. Len(to_sched'), NEW m \in 1 .. Len(to_sched'),
               IsJob(to_sched'[i]), IsJob(to_sched'[m]), i < m
        PROVE  \/ to_sched'[i].job.session = to_sched'[m].job.session
               \/ \E k \in i .. m : ~IsJob(to_sched'[k])
    <3>1. /\ i + 1 \in 1 .. Len(to_sched) /\ m + 1 \in 1 .. Len(to_sched) /\ i + 1 < m + 1
          /\ to_sched'[i] = to_sched[i + 1] /\ to_sched'[m] = to_sched[m + 1] /\ i \in 1 .. m
      BY <1>2, <2>1
    <3>2. \/ to_sched'[i].job.session = to_sched'[m].job.session
          \/ \E k \in i + 1 .. m + 1 : ~IsJob(to_sched[k])
      BY <2>1, <3>1 DEF QueueInv, Separated
    <3> QED BY <1>7, <3>1, <3>2
  <2>2. ASSUME NEW j \in held', NEW i \in 1 .. Len(to_sched'), IsJob(to_sched'[i])
        PROVE  \/ j.session = to_sched'[i].job.session
               \/ \E k \in 1 .. i : ~IsJob(to_sched'[k])
    <3>0. IsJob(e)
      BY <1>3
    <3>1. /\ i + 1 \in 1 .. Len(to_sched) /\ 1 < i + 1 /\ to_sched'[i] = to_sched[i + 1]
          /\ 1 \in 1 .. i
      BY <1>2
    <3>2. CASE j = e.job
      <4>1. \/ j.session = to_sched'[i].job.session
            \/ \E k \in 1 .. i + 1 : ~IsJob(to_sched[k])
        BY <1>2, <2>2, <3>0, <3>1, <3>2 DEF QueueInv, Separated
      <4>2. (\E k \in 1 .. i + 1 : ~IsJob(to_sched[k]))
              => \E k \in 1 + 1 .. i + 1 : ~IsJob(to_sched[k])
        BY <1>2, <3>0, <3>1
      <4> QED BY <1>7, <3>1, <4>1, <4>2
    <3>3. CASE j \in held
      <4>1. \/ j.session = to_sched'[i].job.session
            \/ \E k \in 1 .. i + 1 : ~IsJob(to_sched[k])
        BY <2>2, <3>1, <3>3 DEF QueueInv, Separated
      <4>2. (\E k \in 1 .. i + 1 : ~IsJob(to_sched[k]))
              => \E k \in 1 + 1 .. i + 1 : ~IsJob(to_sched[k])
        BY <1>2, <3>0, <3>1
      <4> QED BY <1>7, <3>1, <4>1, <4>2
    <3> QED BY <1>3, <3>2, <3>3
  <2> QED BY <2>1, <2>2 DEF Separated, IsJob
<1>9. DeadWorkCleared'
  <2>d. \A j : Dead(j)' <=> Dead(j)
    BY <1>1 DEF Dead
  <2>1. ASSUME NEW lo \in 1 .. Len(to_sched'),
               \E k \in lo + 1 .. Len(to_sched) : ~IsJob(to_sched[k])
        PROVE  \E k \in lo .. Len(to_sched') : ~IsJob(to_sched'[k])
    <3>1. /\ Len(to_sched') \in 1 .. Len(to_sched') /\ lo \in 1 .. Len(to_sched')
          /\ Len(to_sched') + 1 = Len(to_sched)
      BY <1>2
    <3> QED BY <1>7, <2>1, <3>1
  <2>2. ASSUME NEW i \in 1 .. Len(to_sched'), IsJob(to_sched'[i]), Dead(to_sched'[i].job)
        PROVE  \E k \in i .. Len(to_sched') : ~IsJob(to_sched'[k])
    <3>1. \E k \in i + 1 .. Len(to_sched) : ~IsJob(to_sched[k])
      BY <1>2, <2>2, DeadWorkIs DEF QueueInv
    <3> QED BY <2>1, <3>1
  <2>3. ASSUME NEW j \in held', Dead(j)
        PROVE  \E k \in 1 .. Len(to_sched') : ~IsJob(to_sched'[k])
    <3>0. IsJob(e)
      BY <1>3
    <3>1. \E k \in 1 .. Len(to_sched) : ~IsJob(to_sched[k])
      BY <1>2, <1>3, <2>3, <3>0, DeadWorkIs DEF QueueInv
    <3>2. PICK k \in 1 .. Len(to_sched) : ~IsJob(to_sched[k])
      BY <3>1
    <3>3. k \in 1 + 1 .. Len(to_sched) /\ 1 \in 1 .. Len(to_sched')
      BY <1>2, <3>0, <3>2
    <3> QED BY <2>1, <3>2, <3>3
  <2>4. \A j, k \in held' : j.session = k.session
    <3>1. \A j, k \in held : j.session = k.session
      BY DeadWorkIs DEF QueueInv
    <3>2. IsJob(e) => \A j \in held : j.session = e.job.session
      BY <1>2 DEF QueueInv, Separated
    <3> QED BY <1>3, <3>1, <3>2
  <2> QED BY <2>d, <2>2, <2>3, <2>4, DeadWorkNext DEF IsJob, Dead
<1>10. Emptied'
  BY <1>1 DEF QueueInv, Emptied, SchedulerTakes
<1> QED BY <1>5, <1>6, <1>8, <1>9, <1>10 DEF QueueInv

LEMMA QueueStep ==
  ASSUME QueueInv, Plain, [Next]_vars
  PROVE  QueueInv'
<1> USE DEF srcVars, chanVars, schedVars
<1>1. CASE PositiveHashRate \/ BackoffOver
  BY <1>1, QueueReconnect DEF PositiveHashRate, BackoffOver
<1>2. CASE DropShare \/ Connected \/ TakeShare \/ Forwarded \/ SuggestDifficulty \/ Delivered
  BY <1>2, QueueUntouched
     DEF DropShare, Connected, TakeShare, Forwarded, SuggestDifficulty, Delivered, Delivering
<1>3. ASSUME Disconnected PROVE QueueInv'
  <2>1. /\ UNCHANGED <<held, session, scheduler_up>> /\ scheduler_up \in BOOLEAN
        /\ scheduler_up => to_sched' = Append(to_sched, [kind |-> "ClearJobs"])
        /\ ~scheduler_up => to_sched' = to_sched
    BY <1>3 DEF Disconnected, ConnectionGone, Tells, Plain, TypeOK
  <2>2. CASE scheduler_up
    BY <2>1, <2>2, QueueCleared
  <2>3. CASE ~scheduler_up
    BY <2>1, <2>3, QueueEmpty DEF QueueInv, Emptied
  <2> QED BY <2>1, <2>2, <2>3
<1>4. ASSUME Ends PROVE QueueInv'
  BY <1>4, QueueUntouched DEF Ends
<1>5. CASE ConnectFails \/ ClientGone \/ RecycleConnection \/ SourceStops
  BY <1>3, <1>4, <1>5 DEF ConnectFails, ClientGone, RecycleConnection, SourceStops, Conclude
<1>6. CASE HandleClientEvent
  <2>1. src = "run" /\ UNCHANGED <<held, session, scheduler_up>>
    BY <1>6 DEF HandleClientEvent
  <2>2. CASE to_sched' = to_sched /\ src' = src
    BY <2>1, <2>2, QueueUntouched
  <2>3. CASE ~(to_sched' = to_sched /\ src' = src)
    <3>1. PICK kind \in {"UpdateJob", "ReplaceJob"}, job \in JobTemplate :
            /\ Tells([kind |-> kind, job |-> job], "deliver", "run") /\ scheduler_up
            /\ to_sched' = Append(to_sched, [kind |-> kind, job |-> job])
            /\ job.session = session /\ job.extranonce1 = session
            /\ job.share_difficulty \in {0, session} /\ job.version_mask \in {0, session}
      BY <1>6, <2>3, EventHandled
    <3>2. src' \in {"run", "deliver"}
      BY <3>1 DEF Tells
    <3> QED BY <2>1, <3>1, <3>2, QueueJob
  <2> QED BY <2>2, <2>3
<1>7. CASE ClientNext
  <2>1. ClientFrame
    BY <1>7, ClientSteps DEF Plain
  <2> QED BY <2>1, QueueUntouched DEF ClientFrame
<1>8. CASE SchedulerTakes
  BY <1>8, QueueTaken
<1>9. CASE SubmitShare \/ Shutdown
  BY <1>9, QueueUntouched DEF SubmitShare, Shutdown
<1>10. CASE UNCHANGED vars
  BY <1>10, QueueUntouched DEF vars
<1>11. CASE SchedulerEnds
  BY <1>11, QueueEmpty DEF SchedulerEnds
<1> QED
  BY <1>1, <1>2, <1>5, <1>6, <1>7, <1>8, <1>9, <1>10, <1>11 DEF Next, SourceNext, SchedulerNext

-----------------------------------------------------------------------------
LEMMA StratumStart == Init => StratumInv
<1> SUFFICES ASSUME Init PROVE StratumInv
  OBVIOUS
<1> USE CapacitiesPositive, BoundsAreNat DEF Init
<1>1. TypeOK
  <2>1. \A S : <<>> \in Seq(S)
    OBVIOUS
  <2>2. state \in ProtocolState
    BY DEF NoState, ProtocolState, Setting
  <2>3. Len(events) <= EventCap /\ Len(ccmds) <= CmdCap /\ Len(to_sched) <= SchedCap
    OBVIOUS
  <2>4. /\ session \in 0 .. MaxSessions /\ cmds \in 0 .. MaxCmds /\ jobs \in 0 .. MaxNotes
        /\ notes \in 0 .. MaxNotes /\ shares \in 0 .. MaxCmds /\ suggests \in 0 .. MaxCmds
    OBVIOUS
  <2> QED BY <2>1, <2>2, <2>3, <2>4 DEF TypeOK, Message
<1>2. Counted /\ EventsSound /\ SessionCounted /\ StateOfSession
  BY DEF Counted, EventsSound, SessionCounted, Connecting, StateOfSession, NoState, Notify
<1>3. JobsBegun /\ Separated /\ Emptied /\ TemplatesOfOneSession /\ DeadWorkCleared
  BY DEF JobsBegun, Separated, Emptied, TemplatesOfOneSession, DeadWorkCleared
<1> QED BY <1>1, <1>2, <1>3 DEF StratumInv

LEMMA StratumStep == StratumInv /\ [Next]_vars => StratumInv'
BY PlainStep, QueueStep DEF StratumInv, Plain, QueueInv

(* The inductive invariant holds in every reachable state.                 *)
THEOREM StratumInvariant == Spec => []StratumInv
BY StratumStart, StratumStep, PTL DEF Spec

(* The fields of source and client keep their types and the channels their *)
(* capacities.                                                             *)
THEOREM StratumTypes == Spec => []TypeOK
<1>1. StratumInv => TypeOK
  BY DEF StratumInv
<1> QED BY <1>1, StratumInvariant, PTL

(* Every template is built from the settings of one connection, its own,   *)
(* however many connections came before it: the state is reset before each *)
(* and every event of the client belongs to the connection in progress.    *)
THEOREM TemplatesCorrect == Spec => []TemplatesOfOneSession
<1>1. StratumInv => TemplatesOfOneSession
  BY DEF StratumInv
<1> QED BY <1>1, StratumInvariant, PTL

(* Work of a connection that was given up is cleared behind its last job,  *)
(* so the scheduler never holds jobs of two connections.                   *)
THEOREM DeadWorkCorrect == Spec => []DeadWorkCleared
<1>1. StratumInv => DeadWorkCleared
  BY DEF StratumInv
<1> QED BY <1>1, StratumInvariant, PTL
=============================================================================
