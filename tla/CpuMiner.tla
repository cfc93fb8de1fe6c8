------------------------------ MODULE CpuMiner ------------------------------
(***************************************************************************)
(* A CPU hash thread (cpu_miner/thread.rs): the handle the scheduler       *)
(* holds, and the operating-system thread that hashes in a duty cycle      *)
(* (cpu_miner/hasher.rs).                                                  *)
(*                                                                         *)
(* A header is <<task, ntime, nonce>>.  Counts and times are abstracted:   *)
(* a cycle ends after one or more hashes, and the hasher may look for      *)
(* commands and for the shutdown flag before any of them (the code does    *)
(* so every 1000 and 10000).  The scheduler awaits each answer and reads   *)
(* shares only in between.  GoIdle is left out: nothing sends it.          *)
(***************************************************************************)
EXTENDS Naturals, Sequences

CONSTANTS
  NonceSpace,      \* nonces before the counter wraps: 2^32
  HashesPerCycle,  \* hashes a cycle of one second has time for
  CpuShareCap,     \* capacity of a task's share channel: 32
  MaxCpuTasks,     \* bound: tasks the scheduler assigns
  MaxHashes        \* bound: hashes over all cycles

ASSUME CycleFitsNonces ==
  /\ HashesPerCycle \in Nat \ {0} /\ NonceSpace \in Nat /\ HashesPerCycle <= NonceSpace
  /\ CpuShareCap \in Nat \ {0} /\ MaxCpuTasks \in Nat /\ MaxHashes \in Nat

CpuTask == 1 .. MaxCpuTasks
NoTask  == 0

MinerCommand(kind, t) == [kind |-> kind, task |-> t]

VARIABLES
  (* The scheduler. *)
  holder,        \* "select", "awaiting", "dropping" or "gone"
  given,         \* tasks given out
  receivers,     \* tasks whose share receiver exists
  buffered,      \* shares in each task's channel
  (* Between the two. *)
  cmd_queue,     \* MinerCommands: [kind, task]
  answer,        \* the oneshot response: "none" or "ok"
  stop_flag,     \* the atomic shutdown flag
  (* The hasher. *)
  hasher,        \* "top", "drain", "mine", "send", "sleep", "idle" or "ended"
  cpu_task, ntime, nonce,
  root,          \* cached_merkle_root is Some
  is_active,     \* HashThreadStatus.is_active
  in_cycle,      \* hashes in this cycle
  (* History. *)
  hashes, hashed, repeated

holderVars == <<holder, given, receivers>>
hasherVars == <<cpu_task, ntime, nonce, root, is_active, in_cycle>>
cpuVars == <<holderVars, buffered, cmd_queue, answer, stop_flag, hasher, hasherVars, hashes,
             hashed, repeated>>

CpuInit ==
  /\ holder = "select" /\ given = 0 /\ receivers = {} /\ buffered = [t \in CpuTask |-> 0]
  /\ cmd_queue = <<>> /\ answer = "none" /\ stop_flag = FALSE
  /\ hasher = "top" /\ cpu_task = NoTask /\ ntime = 0 /\ nonce = 0 /\ root = FALSE
  /\ is_active = FALSE /\ in_cycle = 0
  /\ hashes = 0 /\ hashed = {} /\ repeated = FALSE

-----------------------------------------------------------------------------
(***************************************************************************)
(* The scheduler and the handle.                                           *)
(***************************************************************************)

(* update_task and replace_task.  Before a replacement the scheduler drops *)
(* the share receivers of the thread's earlier tasks.                      *)
Give(kind) ==
  /\ holder = "select" /\ given < MaxCpuTasks
  /\ holder' = "awaiting" /\ given' = given + 1
  /\ receivers' = (IF kind = "replace" THEN {} ELSE receivers) \cup {given'}
  /\ cmd_queue' = Append(cmd_queue, MinerCommand(kind, given'))
  /\ UNCHANGED <<buffered, answer, stop_flag, hasher, hasherVars, hashes, hashed, repeated>>

Answered ==
  /\ holder = "awaiting" /\ answer = "ok"
  /\ holder' = "select" /\ answer' = "none"
  /\ UNCHANGED <<given, receivers, buffered, cmd_queue, stop_flag, hasher, hasherVars, hashes,
                 hashed, repeated>>

ReadShare(t) ==
  /\ holder = "select" /\ t \in receivers /\ buffered[t] > 0
  /\ buffered' = [buffered EXCEPT ![t] = @ - 1]
  /\ UNCHANGED <<holderVars, cmd_queue, answer, stop_flag, hasher, hasherVars, hashes, hashed,
                 repeated>>

(* Drop for CpuHashThread: the flag, then the command; the receivers go    *)
(* with the scheduler.                                                     *)
DropHandle ==
  /\ holder = "select" /\ holder' = "dropping" /\ stop_flag' = TRUE
  /\ UNCHANGED <<given, receivers, buffered, cmd_queue, answer, hasher, hasherVars, hashes,
                 hashed, repeated>>

HandleDropped ==
  /\ holder = "dropping" /\ holder' = "gone" /\ receivers' = {}
  /\ cmd_queue' = Append(cmd_queue, MinerCommand("shutdown", NoTask))
  /\ UNCHANGED <<given, buffered, answer, stop_flag, hasher, hasherVars, hashes, hashed, repeated>>

-----------------------------------------------------------------------------
(***************************************************************************)
(* run_mining_loop.                                                        *)
(***************************************************************************)
CheckStop ==
  /\ hasher = "top"
  /\ hasher' = IF stop_flag THEN "ended" ELSE "drain"
  /\ UNCHANGED <<holderVars, buffered, cmd_queue, answer, stop_flag, hasherVars, hashes, hashed,
                 repeated>>

(* The root of the task's template and extranonce, or None.                *)
ComputeMerkleRoot == root' \in BOOLEAN

UpdateStatus(active) == is_active' = active

(* A command: a task is taken over from its first nonce, at the ntime it   *)
(* comes with.                                                             *)
TakeTask(c) ==
  /\ cpu_task' = c.task /\ nonce' = 0 /\ ntime' = 0 /\ ComputeMerkleRoot
  /\ UpdateStatus(TRUE) /\ answer' = "ok"

Drain ==
  /\ hasher = "drain"
  /\ \/ /\ cmd_queue # <<>> /\ cmd_queue' = Tail(cmd_queue)
        /\ IF Head(cmd_queue).kind = "shutdown"
             THEN hasher' = "ended" /\ UNCHANGED <<answer, hasherVars>>
             ELSE TakeTask(Head(cmd_queue)) /\ UNCHANGED <<hasher, in_cycle>>
     \/ /\ cmd_queue = <<>>
        /\ hasher' = IF holder = "gone" THEN "ended" ELSE IF cpu_task = NoTask THEN "idle" ELSE "mine"
        /\ in_cycle' = 0
        /\ UNCHANGED <<cmd_queue, answer, cpu_task, ntime, nonce, root, is_active>>
  /\ UNCHANGED <<holderVars, buffered, stop_flag, hashes, hashed, repeated>>

(* Between two hashes: the end of the work time or the flag ...            *)
EndOfWork ==
  /\ hasher = "mine"
  /\ \/ (in_cycle > 0 \/ hashes = MaxHashes) /\ hasher' = "sleep"
     \/ stop_flag /\ hasher' = "ended"
  /\ UNCHANGED <<holderVars, buffered, cmd_queue, answer, stop_flag, hasherVars, hashes, hashed,
                 repeated>>

(* ... or a command, which ends the cycle.                                 *)
PollCommand ==
  /\ hasher = "mine" /\ cmd_queue # <<>> /\ cmd_queue' = Tail(cmd_queue)
  /\ IF Head(cmd_queue).kind = "shutdown"
       THEN hasher' = "ended" /\ UNCHANGED <<answer, cpu_task, ntime, nonce, root, is_active>>
       ELSE hasher' = "sleep" /\ TakeTask(Head(cmd_queue))
  /\ UNCHANGED <<holderVars, buffered, stop_flag, in_cycle, hashes, hashed, repeated>>

(* nonce.wrapping_add(1).                                                  *)
NextNonce == nonce' = (nonce + 1) % NonceSpace

(* try_nonce, which finds a share or not; a share goes to blocking_send.   *)
TryNonce(hit) ==
  /\ hasher = "mine" /\ in_cycle < HashesPerCycle /\ hashes < MaxHashes
  /\ hit => root
  /\ in_cycle' = in_cycle + 1 /\ hashes' = hashes + 1
  /\ LET header == <<cpu_task, ntime, nonce>>
     IN IF root THEN /\ repeated' = (repeated \/ header \in hashed)
                     /\ hashed' = hashed \cup {header}
                ELSE UNCHANGED <<hashed, repeated>>
  /\ IF hit THEN hasher' = "send" /\ UNCHANGED nonce ELSE NextNonce /\ UNCHANGED hasher
  /\ UNCHANGED <<holderVars, buffered, cmd_queue, answer, stop_flag, cpu_task, ntime, root, is_active>>

(* Mutant: the share waits for room, closed channel or not.                *)
HasherSends_waits ==
  /\ hasher = "send" /\ hasher' = "mine" /\ NextNonce
  /\ buffered[cpu_task] < CpuShareCap /\ buffered' = [buffered EXCEPT ![cpu_task] = @ + 1]
  /\ UNCHANGED <<holderVars, cmd_queue, answer, stop_flag, cpu_task, ntime, root, is_active, in_cycle,
                 hashes, hashed, repeated>>

(* blocking_send waits for room and fails once the receiver is gone.       *)
HasherSends ==
  /\ hasher = "send" /\ hasher' = "mine" /\ NextNonce
  /\ \/ /\ cpu_task \in receivers /\ buffered[cpu_task] < CpuShareCap
        /\ buffered' = [buffered EXCEPT ![cpu_task] = @ + 1]
     \/ cpu_task \notin receivers /\ UNCHANGED buffered
  /\ UNCHANGED <<holderVars, cmd_queue, answer, stop_flag, cpu_task, ntime, root, is_active, in_cycle,
                 hashes, hashed, repeated>>

(* Mutant: the timestamp is rolled only when the nonces wrapped.           *)
EndOfCycle_rolls_on_wrap ==
  /\ hasher = "sleep" /\ hasher' = "top"
  /\ ntime' = IF cpu_task # NoTask /\ nonce = 0 THEN ntime + 1 ELSE ntime
  /\ UNCHANGED <<holderVars, buffered, cmd_queue, answer, stop_flag, cpu_task, nonce, root, is_active,
                 in_cycle, hashes, hashed, repeated>>

(* The rest of the second is slept, so that a second has passed since the  *)
(* last roll of the timestamp, and it is rolled (the bound on hashes stops *)
(* the rolling too).                                                       *)
EndOfCycle ==
  /\ hasher = "sleep" /\ hasher' = "top"
  /\ ntime' = IF cpu_task # NoTask /\ hashes < MaxHashes THEN ntime + 1 ELSE ntime
  /\ UNCHANGED <<holderVars, buffered, cmd_queue, answer, stop_flag, cpu_task, nonce, root, is_active,
                 in_cycle, hashes, hashed, repeated>>

IdleSleep ==
  /\ hasher = "idle" /\ hasher' = "top"
  /\ UNCHANGED <<holderVars, buffered, cmd_queue, answer, stop_flag, hasherVars, hashes, hashed,
                 repeated>>

HolderNext ==
  \/ \E kind \in {"update", "replace"} : Give(kind)
  \/ Answered
  \/ \E t \in CpuTask : ReadShare(t)
  \/ DropHandle
  \/ HandleDropped

HasherNext ==
  \/ CheckStop
  \/ Drain
  \/ EndOfWork
  \/ PollCommand
  \/ \E hit \in BOOLEAN : TryNonce(hit)
  \/ HasherSends
  \/ EndOfCycle
  \/ IdleSleep

CpuNext == HolderNext \/ HasherNext
CpuSpec == CpuInit /\ [][CpuNext]_cpuVars

(* The operating system runs the hasher; the scheduler takes an answer     *)
(* and finishes a drop.                                                    *)
CpuFairness ==
  /\ WF_cpuVars(HasherNext) /\ WF_cpuVars(Answered) /\ WF_cpuVars(HandleDropped)

CpuFairSpec == CpuSpec /\ CpuFairness

-----------------------------------------------------------------------------
(* No header is hashed twice, although the nonce counter wraps and goes on *)
(* from cycle to cycle: hashing a header again finds the same share again. *)
NoHeaderTwice == ~repeated

(* A replacement is answered and a dropped thread ends, whatever the       *)
(* hasher is doing: hashing, asleep, or blocked on a full share channel.   *)
HasherResponds ==
  /\ (\E n \in 1 .. Len(cmd_queue) : cmd_queue[n].kind = "replace") ~> (holder # "awaiting")
  /\ (holder = "dropping") ~> (hasher = "ended")
=============================================================================
