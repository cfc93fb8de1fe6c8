--------------------------- MODULE MCHashThreads ---------------------------
(***************************************************************************)
(* The two implementations of a hash thread for TLC: the actor of the      *)
(* BM13xx chips (BM13xxThread) and the CPU miner's hasher (CpuMiner).      *)
(* They share no state, so a behaviour runs one of them, from its own      *)
(* initial states, while the other has ended.                              *)
(***************************************************************************)
EXTENDS BM13xxThread, CpuMiner

VARIABLE implementation

(* The handle was dropped before its first task.                           *)
ActorOver ==
  /\ sched = "gone" /\ assigned = 0 /\ chans = {} /\ buf = [t \in Task |-> 0]
  /\ cmd = NoCommand /\ reply = "none" /\ reported = FALSE
  /\ actor = "off" /\ pending = NoCommand /\ chain_initialized = FALSE
  /\ current_task = 0 /\ slots = [i \in 0 .. Slots - 1 |-> NoJob] /\ next_id = 0
  /\ share = NoJob /\ chip = NoJob /\ nonces = <<>>
  /\ stream_ended = FALSE /\ shutdown = FALSE
  /\ inserted = 0 /\ found = 0 /\ replaced = 0

HasherOver ==
  /\ holder = "gone" /\ given = 0 /\ receivers = {} /\ buffered = [t \in CpuTask |-> 0]
  /\ cmd_queue = <<>> /\ answer = "none" /\ stop_flag = TRUE
  /\ hasher = "ended" /\ cpu_task = NoTask /\ ntime = 0 /\ nonce = 0 /\ root = FALSE
  /\ is_active = FALSE /\ in_cycle = 0 /\ hashes = 0 /\ hashed = {} /\ repeated = FALSE

ThreadsInit ==
  \/ implementation = "bm13xx" /\ Init /\ HasherOver
  \/ implementation = "cpu" /\ ActorOver /\ CpuInit

ThreadsNext ==
  /\ UNCHANGED implementation
  /\ \/ implementation = "bm13xx" /\ Next /\ UNCHANGED cpuVars
     \/ implementation = "cpu" /\ CpuNext /\ UNCHANGED vars

ThreadsSpec ==
  /\ ThreadsInit /\ [][ThreadsNext]_<<implementation, vars, cpuVars>>
  /\ Fairness /\ CpuFairness
=============================================================================
