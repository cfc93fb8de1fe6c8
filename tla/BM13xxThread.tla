---------------------------- MODULE BM13xxThread ----------------------------
(***************************************************************************)
(* One BM13xx hash thread (asic/bm13xx/thread.rs, reader.rs) and the       *)
(* scheduler at the other end of its channels.                             *)
(*                                                                         *)
(* The thread is an actor: a select! loop over the board's shutdown        *)
(* signal, commands, nonces, register replies and an ntime timer.  The     *)
(* scheduler sends a task and awaits the reply; it reads shares only       *)
(* between assignments.  The actor sends a share on the channel of its     *)
(* task and waits while that channel is full, so each side can wait for    *)
(* the other.                                                              *)
(*                                                                         *)
(* Bring-up is one step here that may fail, take arbitrarily long or be    *)
(* aborted.  A job sent to the chips is [id, task, seq]: seq numbers the   *)
(* snapshots ChipJobTracker stored, so two jobs with the same header are   *)
(* the same record and a nonce verifies only against the job it was found  *)
(* in.  GoIdle is left out: nothing in the repository sends it.            *)
(***************************************************************************)
EXTENDS Naturals, Sequences

CONSTANTS
  Slots,       \* ids of ChipJobTracker: 16
  ShareCap,    \* capacity of a task's share channel: 32
  NonceCap,    \* capacity of the reader's nonce channel: 256
  MaxTasks,    \* bound: tasks the scheduler assigns
  MaxJobs,     \* bound: no ntime roll once this many jobs were stored
  MaxNonces    \* bound: nonces the chips find

ASSUME CapacitiesPositive ==
  Slots \in Nat \ {0} /\ ShareCap \in Nat \ {0} /\ NonceCap \in Nat \ {0}
ASSUME BoundsAreNat == MaxTasks \in Nat /\ MaxJobs \in Nat /\ MaxNonces \in Nat

Task == 1 .. MaxTasks
ChipJob == [id : 0 .. Slots - 1, task : Task, seq : 1 .. MaxJobs + MaxTasks]
NoJob == [id |-> 0, task |-> 0, seq |-> 0]

(* ThreadCommand.  Configure carries no task.                              *)
Assignment == [kind : {"UpdateTask", "ReplaceTask"}, task : Task]
Configuration == [kind |-> "Configure", task |-> 0]
NoCommand == [kind |-> "none", task |-> 0]

VARIABLES
  (* The scheduler's side of the channels. *)
  sched,        \* "select", "awaiting" a reply, or "gone"
  assigned,     \* tasks created so far; the latest is the one awaited
  chans,        \* tasks whose share receiver exists
  buf,          \* shares buffered in each task's channel
  (* Messages between the two. *)
  cmd,          \* the command in the channel, or NoCommand
  reply,        \* the oneshot reply: "none", "ok", "err"
  reported,     \* ExpectedHashRate was sent
  (* The actor. *)
  actor,        \* "startup", "select", "bringup", "send", "exit", "off"
  pending,      \* the Assignment assign_task is working on
  chain_initialized,
  current_task, \* 0: None
  slots,        \* ChipJobTracker.tasks
  next_id,      \* ChipJobTracker.next_id
  share,        \* the share being sent
  (* The chips and the reader. *)
  chip,         \* the job the chips received last
  nonces,       \* the reader's nonce channel
  stream_ended, \* the response stream ended or failed
  shutdown,     \* the board signalled shutdown
  (* History and bounds. *)
  inserted,     \* jobs stored in the tracker so far
  found,        \* nonces found so far
  replaced      \* the latest task that replaced all earlier ones

schedVars == <<sched, assigned, chans, buf>>
msgVars   == <<cmd, reply, reported>>
jobVars   == <<current_task, slots, next_id, inserted, replaced>>
chipVars  == <<nonces, stream_ended, found>>
vars == <<schedVars, msgVars, actor, pending, chain_initialized, jobVars, share, chip,
          chipVars, shutdown>>

TypeOK ==
  /\ sched \in {"select", "awaiting", "gone"} /\ assigned \in 0 .. MaxTasks
  /\ chans \subseteq Task /\ buf \in [Task -> 0 .. ShareCap]
  /\ cmd \in Assignment \cup {NoCommand, Configuration} /\ reply \in {"none", "ok", "err"}
  /\ reported \in BOOLEAN
  /\ actor \in {"startup", "select", "bringup", "send", "exit", "off"}
  /\ pending \in Assignment \cup {NoCommand} /\ chain_initialized \in BOOLEAN
  /\ current_task \in 0 .. MaxTasks /\ slots \in [0 .. Slots - 1 -> ChipJob \cup {NoJob}]
  /\ next_id \in 0 .. Slots - 1
  /\ share \in ChipJob \cup {NoJob} /\ chip \in ChipJob \cup {NoJob}
  /\ nonces \in Seq(ChipJob) /\ Len(nonces) <= NonceCap
  /\ stream_ended \in BOOLEAN /\ shutdown \in BOOLEAN
  /\ inserted \in 0 .. MaxJobs + MaxTasks /\ found \in 0 .. MaxNonces /\ replaced \in 0 .. MaxTasks

(* handle_new_thread has configured the thread before anything else.       *)
Init ==
  /\ sched = "select" /\ assigned = 0 /\ chans = {} /\ buf = [t \in Task |-> 0]
  /\ cmd = Configuration /\ reply = "none" /\ reported = FALSE
  /\ actor = "startup" /\ pending = NoCommand /\ chain_initialized = FALSE
  /\ current_task = 0 /\ slots = [i \in 0 .. Slots - 1 |-> NoJob] /\ next_id = 0
  /\ share = NoJob /\ chip = NoJob /\ nonces = <<>>
  /\ stream_ended = FALSE /\ shutdown = FALSE
  /\ inserted = 0 /\ found = 0 /\ replaced = 0

-----------------------------------------------------------------------------
(***************************************************************************)
(* The scheduler.  Dropping receivers discards what they buffer.           *)
(***************************************************************************)
DropReceivers(gone) ==
  /\ chans' = chans \ gone
  /\ buf' = [t \in Task |-> IF t \in gone THEN 0 ELSE buf[t]]

(* Mutant: the old channels are left open until the reply is in.           *)
ReceiversDropped_late(kind) == {}

(* assign_job_to_threads: Replace removes the source's tasks first.        *)
ReceiversDropped(kind) == IF kind = "ReplaceTask" THEN chans ELSE {}

(* update_task, replace_task: send the command, then await its reply.      *)
Assign(kind) ==
  /\ sched = "select" /\ reported /\ cmd = NoCommand
  /\ assigned < MaxTasks
  /\ sched' = "awaiting"
  /\ assigned' = assigned + 1
  /\ cmd' = [kind |-> kind, task |-> assigned + 1]
  /\ LET gone == ReceiversDropped(kind)
     IN /\ chans' = (chans \ gone) \cup {assigned + 1}
        /\ buf' = [t \in Task |-> IF t \in gone THEN 0 ELSE buf[t]]
  /\ UNCHANGED <<reply, reported, actor, pending, chain_initialized, jobVars, share, chip,
                 chipVars, shutdown>>

(* The reply, or the error an actor that exited leaves behind: Ok keeps    *)
(* the receiver in share_channels, Err drops it.                           *)
ReplyReceived ==
  /\ sched = "awaiting"
  /\ reply # "none" \/ actor = "off"
  /\ sched' = "select"
  /\ DropReceivers(IF reply = "ok" THEN {} ELSE {assigned})
  /\ reply' = "none"
  /\ cmd' = NoCommand
  /\ UNCHANGED <<assigned, reported, actor, pending, chain_initialized, jobVars, share, chip,
                 chipVars, shutdown>>

(* The share_channels branch: handle_share takes one share.                *)
TakeShare(t) ==
  /\ sched = "select" /\ t \in chans /\ buf[t] > 0
  /\ buf' = [buf EXCEPT ![t] = buf[t] - 1]
  /\ UNCHANGED <<sched, assigned, chans, msgVars, actor, pending, chain_initialized, jobVars,
                 share, chip, chipVars, shutdown>>

(* handle_clear_jobs drops the receivers; the thread is not told.          *)
ClearJobs ==
  /\ sched = "select" /\ chans # {}
  /\ DropReceivers(chans)
  /\ UNCHANGED <<sched, assigned, msgVars, actor, pending, chain_initialized, jobVars, share,
                 chip, chipVars, shutdown>>

(* The scheduler returned or removed the thread: the handle is dropped.    *)
SchedulerDropsThread ==
  /\ sched = "select"
  /\ sched' = "gone"
  /\ DropReceivers(chans)
  /\ UNCHANGED <<assigned, msgVars, actor, pending, chain_initialized, jobVars, share, chip,
                 chipVars, shutdown>>

-----------------------------------------------------------------------------
(***************************************************************************)
(* ChipJobTracker.                                                         *)
(***************************************************************************)

(* Mutant: the ring wraps one id early.                                    *)
NextId_short(i) == (i + 1) % (IF Slots > 1 THEN Slots - 1 ELSE 1)

NextId(i) == (i + 1) % Slots

(* insert after an optional clear, then send the job: sent says whether    *)
(* the command sink took it.                                               *)
InsertAndSend(task, cleared, sent) ==
  LET job == [id |-> next_id, task |-> task, seq |-> inserted + 1]
  IN /\ inserted' = inserted + 1
     /\ slots' = [i \in 0 .. Slots - 1 |->
                    IF i = next_id THEN job ELSE IF cleared THEN NoJob ELSE slots[i]]
     /\ next_id' = NextId(next_id)
     /\ chip' = IF sent THEN job ELSE chip

-----------------------------------------------------------------------------
(***************************************************************************)
(* The actor.                                                              *)
(***************************************************************************)

(* run: assert reset, then enter the loop.                                 *)
Startup ==
  /\ actor = "startup" /\ actor' = "select"
  /\ UNCHANGED <<schedVars, msgVars, pending, chain_initialized, jobVars, share, chip, chipVars,
                 shutdown>>

Configure ==
  /\ actor = "select" /\ cmd = Configuration
  /\ cmd' = NoCommand /\ reported' = TRUE
  /\ UNCHANGED <<schedVars, reply, actor, pending, chain_initialized, jobVars, share, chip,
                 chipVars, shutdown>>

(* The command branch: assign_task starts, with bring-up if needed.        *)
TakeCommand ==
  /\ actor = "select" /\ cmd.task # 0
  /\ actor' = "bringup" /\ pending' = cmd /\ cmd' = NoCommand
  /\ UNCHANGED <<schedVars, reply, reported, chain_initialized, jobVars, share, chip, chipVars,
                 shutdown>>

(* initialize_chain failed: the task is refused, the actor goes on.        *)
BringUpFails ==
  /\ actor = "bringup" /\ ~chain_initialized
  /\ actor' = "select" /\ pending' = NoCommand
  /\ reply' = "err"
  /\ UNCHANGED <<schedVars, cmd, reported, chain_initialized, jobVars, share, chip, chipVars,
                 shutdown>>

(* The shutdown branch of assign_task's select! cut bring-up short.        *)
BringUpAborted ==
  /\ actor = "bringup" /\ shutdown
  /\ actor' = "exit" /\ pending' = NoCommand
  /\ reply' = "err"
  /\ UNCHANGED <<schedVars, cmd, reported, chain_initialized, jobVars, share, chip, chipVars,
                 shutdown>>

(* Mutant: replacing a task keeps the jobs of the old one.                 *)
Install_uncleared(sent) ==
  /\ actor = "bringup" /\ actor' = "select" /\ pending' = NoCommand
  /\ chain_initialized' = TRUE
  /\ current_task' = pending.task
  /\ replaced' = IF pending.kind = "ReplaceTask" THEN pending.task ELSE replaced
  /\ InsertAndSend(pending.task, FALSE, sent)
  /\ reply' = IF sent THEN "ok" ELSE "err"
  /\ UNCHANGED <<schedVars, cmd, reported, share, chipVars, shutdown>>

(***************************************************************************)
(* The rest of assign_task.  The new task is current even when its first   *)
(* job could not be sent and the scheduler is told Err.                    *)
(***************************************************************************)
Install(sent) ==
  /\ actor = "bringup" /\ actor' = "select" /\ pending' = NoCommand
  /\ chain_initialized' = TRUE
  /\ current_task' = pending.task
  /\ replaced' = IF pending.kind = "ReplaceTask" THEN pending.task ELSE replaced
  /\ InsertAndSend(pending.task, pending.kind = "ReplaceTask", sent)
  /\ reply' = IF sent THEN "ok" ELSE "err"
  /\ UNCHANGED <<schedVars, cmd, reported, share, chipVars, shutdown>>

(***************************************************************************)
(* handle_nonce: look the id up and recompute the hash.  The hash meets    *)
(* the share target only if the snapshot is the job the chips worked on,   *)
(* and then only if the nonce is good enough (meets).                      *)
(***************************************************************************)
HandleNonce(meets) ==
  /\ actor = "select" /\ nonces # <<>>
  /\ nonces' = Tail(nonces)
  /\ IF meets /\ slots[Head(nonces).id] = Head(nonces)
       THEN actor' = "send" /\ share' = Head(nonces)
       ELSE UNCHANGED <<actor, share>>
  /\ UNCHANGED <<schedVars, msgVars, pending, chain_initialized, jobVars, chip, stream_ended,
                 found, shutdown>>

(* share_tx.send: waits while the channel is full, fails once it is closed. *)
SendShare ==
  /\ actor = "send"
  /\ \/ share.task \notin chans /\ UNCHANGED buf
     \/ /\ share.task \in chans /\ buf[share.task] < ShareCap
        /\ buf' = [buf EXCEPT ![share.task] = buf[share.task] + 1]
  /\ actor' = "select" /\ share' = NoJob
  /\ UNCHANGED <<sched, assigned, chans, msgVars, pending, chain_initialized, jobVars, chip,
                 chipVars, shutdown>>

(* The ntime timer: roll_ntime stores and sends the task's next job.       *)
RollNtime(sent) ==
  /\ actor = "select" /\ current_task # 0 /\ inserted < MaxJobs
  /\ InsertAndSend(current_task, FALSE, sent)
  /\ UNCHANGED <<schedVars, msgVars, actor, pending, chain_initialized, current_task, replaced,
                 share, chipVars, shutdown>>

(* Mutant: a dropped handle does not end the loop.                         *)
LeaveLoop_handle_ignored ==
  /\ actor = "select"
  /\ shutdown \/ stream_ended
  /\ actor' = "exit"
  /\ UNCHANGED <<schedVars, msgVars, pending, chain_initialized, jobVars, share, chip, chipVars,
                 shutdown>>

(* The branches that leave the loop: the board's shutdown signal, the      *)
(* handle dropped, the response channels closed.  register_responses is    *)
(* closed and empty at once, so nonces still queued are lost.              *)
LeaveLoop ==
  /\ actor = "select"
  /\ \/ shutdown
     \/ sched = "gone" /\ cmd = NoCommand
     \/ stream_ended
  /\ actor' = "exit"
  /\ UNCHANGED <<schedVars, msgVars, pending, chain_initialized, jobVars, share, chip, chipVars,
                 shutdown>>

(* disable_chain holds the chips in reset; returning drops every channel.  *)
Exit ==
  /\ actor = "exit" /\ actor' = "off"
  /\ chip' = NoJob /\ nonces' = <<>>
  /\ UNCHANGED <<schedVars, msgVars, pending, chain_initialized, jobVars, share, stream_ended,
                 found, shutdown>>

-----------------------------------------------------------------------------
(* The chips find a nonce for the job they have; the reader queues it.     *)
FindNonce ==
  /\ chip # NoJob /\ actor # "off" /\ ~stream_ended
  /\ Len(nonces) < NonceCap /\ found < MaxNonces
  /\ nonces' = Append(nonces, chip) /\ found' = found + 1
  /\ UNCHANGED <<schedVars, msgVars, actor, pending, chain_initialized, jobVars, share, chip,
                 stream_ended, shutdown>>

(* The serial stream ends or fails: the reader returns.                    *)
StreamEnds ==
  /\ ~stream_ended /\ actor # "off"
  /\ stream_ended' = TRUE
  /\ UNCHANGED <<schedVars, msgVars, actor, pending, chain_initialized, jobVars, share, chip,
                 nonces, found, shutdown>>

(* The board signals shutdown, or drops the sender.                        *)
ShutdownSignal ==
  /\ ~shutdown /\ actor # "off"
  /\ shutdown' = TRUE
  /\ UNCHANGED <<schedVars, msgVars, actor, pending, chain_initialized, jobVars, share, chip,
                 chipVars>>

-----------------------------------------------------------------------------
SchedNext ==
  \/ \E kind \in {"UpdateTask", "ReplaceTask"} : Assign(kind)
  \/ ReplyReceived
  \/ \E t \in Task : TakeShare(t)
  \/ ClearJobs
  \/ SchedulerDropsThread

(* Steps that end an iteration of the actor's loop or an await in it.      *)
ActorProgress ==
  \/ Startup
  \/ Configure
  \/ BringUpFails
  \/ BringUpAborted
  \/ \E sent \in BOOLEAN : Install(sent)
  \/ SendShare
  \/ Exit

ActorNext ==
  \/ ActorProgress
  \/ TakeCommand
  \/ \E meets \in BOOLEAN : HandleNonce(meets)
  \/ \E sent \in BOOLEAN : RollNtime(sent)
  \/ LeaveLoop

ChipNext == FindNonce \/ StreamEnds \/ ShutdownSignal

Next == SchedNext \/ ActorNext \/ ChipNext

Spec == Init /\ [][Next]_vars

(***************************************************************************)
(* Every await the actor can finish it finishes (bring-up is bounded by    *)
(* its timeouts), the scheduler picks up a reply that is there, and        *)
(* select! chooses at random among ready branches, so a command or an exit *)
(* condition that stays ready is not passed over for ever.                 *)
(***************************************************************************)
Fairness ==
  /\ WF_vars(ActorProgress)
  /\ WF_vars(ReplyReceived)
  /\ SF_vars(TakeCommand)
  /\ SF_vars(LeaveLoop)

FairSpec == Spec /\ Fairness

-----------------------------------------------------------------------------
(***************************************************************************)
(* Properties.                                                             *)
(***************************************************************************)

(* Late shares of an updated task stay valid: the job the chips have and   *)
(* every nonce not yet handled still finds its snapshot in chip_jobs, as   *)
(* long as fewer than Slots jobs were stored since and no ReplaceTask came *)
(* between.                                                                *)
LateSharesKept ==
  \A job \in {chip} \cup {nonces[i] : i \in 1 .. Len(nonces)} :
    (job # NoJob /\ job.task >= replaced /\ inserted < job.seq + Slots)
      => slots[job.id] = job

(* "Old task is immediately invalid - discard it and don't submit shares   *)
(* from it": once a ReplaceTask was carried out, no nonce of an earlier    *)
(* task becomes a share, late as it may be handled.                        *)
ReplacedDiscarded == actor = "send" => share.task >= replaced

(* A ReplaceTask is answered, however many shares wait to be sent: the     *)
(* channels they wait on are dropped before the scheduler starts waiting.  *)
ReplaceAnswered ==
  (sched = "awaiting" /\ cmd.kind = "ReplaceTask") ~> (sched = "select")

(* A thread whose handle is dropped exits, and holds its chips in reset,   *)
(* whatever it was waiting for.                                            *)
DroppedThreadExits == (sched = "gone") ~> (actor = "off")

(* Refuted: "Late-arriving shares from the old task can still be           *)
(* submitted" (hash_thread.rs): an UpdateTask, like a ReplaceTask, is      *)
(* answered, so that the scheduler returns to reading shares.              *)
UpdateAnswered ==
  (sched = "awaiting" /\ cmd.kind = "UpdateTask") ~> (sched = "select")
=============================================================================
