-------------------------- MODULE HashThreadProofs --------------------------
(***************************************************************************)
(* Machine-checked proofs about the two implementations of a hash thread,  *)
(* and about the responses a BM13xx thread reads.                          *)
(* The shares of a BM13xx thread are judged against the right job, for a   *)
(* ring of any size, channels of any capacity and any number of tasks,     *)
(* jobs and nonces.  A CPU hash thread hashes no header twice, for a nonce *)
(* counter of any width that a cycle does not exhaust, and any number of   *)
(* tasks, cycles and hashes.  The responses of the chips come out of the   *)
(* decoder in order and whole, for any stream and any cut of it.           *)
(***************************************************************************)
EXTENDS BM13xxThread, CpuMiner, ChipFrames, SequenceTheorems, TLAPS

-----------------------------------------------------------------------------
(***************************************************************************)
(* The BM13xx thread.                                                      *)
(***************************************************************************)
(* The jobs the chips or the reader still know of.                         *)
Known == {chip} \cup {nonces[i] : i \in 1 .. Len(nonces)}

(***************************************************************************)
(* The inductive invariant.  A command is for a newer task than the one    *)
(* being assigned, which is newer than the current one.                    *)
(***************************************************************************)
TasksInOrder ==
  /\ replaced <= current_task /\ current_task <= assigned /\ pending.task <= assigned
  /\ cmd.task <= assigned
  /\ pending.task # 0 => current_task < pending.task
  /\ cmd.task # 0 => current_task < cmd.task /\ pending.task < cmd.task
  /\ actor = "bringup" => pending.task # 0

(* Every task stores one first job, and the timer stops at its bound.      *)
JobsCounted == inserted <= MaxJobs + current_task

(* No job in the ring was replaced.                                        *)
SlotsCurrent == \A i \in 0 .. Slots - 1 : slots[i] # NoJob => slots[i].task >= replaced

(* The id that n insertions after id i the next job gets.                  *)
IdAfter(i, n) == IF i + n < Slots THEN i + n ELSE i + n - Slots

(* A known job was stored, for a task that was current, and the ids given  *)
(* out since then have not come round to its own.                          *)
KnownJob(job) ==
  job # NoJob =>
    /\ job.seq <= inserted /\ job.task <= current_task
    /\ inserted < job.seq + Slots => next_id = IdAfter(job.id, inserted + 1 - job.seq)

KnownStored == \A job \in Known : KnownJob(job)

ThreadInv ==
  /\ TypeOK /\ TasksInOrder /\ JobsCounted /\ SlotsCurrent /\ KnownStored
  /\ LateSharesKept /\ ReplacedDiscarded

-----------------------------------------------------------------------------
(* Sequences of jobs: what the reader appends and the actor takes off.     *)
LEMMA AppendJob ==
  ASSUME NEW S, NEW q \in Seq(S), NEW x \in S
  PROVE  /\ Append(q, x) \in Seq(S) /\ Len(Append(q, x)) = Len(q) + 1
         /\ \A i \in 1 .. Len(Append(q, x)) :
              \/ Append(q, x)[i] = x
              \/ i \in 1 .. Len(q) /\ Append(q, x)[i] = q[i]
OBVIOUS

LEMMA TakeJob ==
  ASSUME NEW S, NEW q \in Seq(S), q # <<>>
  PROVE  /\ Tail(q) \in Seq(S) /\ Len(Tail(q)) = Len(q) - 1 /\ Len(q) \in Nat \ {0}
         /\ Head(q) \in S /\ Head(q) = q[1]
         /\ \A i \in 1 .. Len(Tail(q)) : i + 1 \in 1 .. Len(q) /\ Tail(q)[i] = q[i + 1]
OBVIOUS

(* The ring's next id, without the modulus.                                *)
LEMMA NextIdIsAfter ==
  ASSUME NEW i \in 0 .. Slots - 1
  PROVE  NextId(i) = IdAfter(i, 1) /\ NextId(i) \in 0 .. Slots - 1
BY CapacitiesPositive DEF NextId, IdAfter

(* Fewer insertions than the ring has ids do not come round: s is the      *)
(* number of the job stored under id i, n the number of jobs stored.       *)
LEMMA AfterStep ==
  ASSUME NEW i \in 0 .. Slots - 1, NEW s \in Nat, NEW n \in Nat, s <= n, n + 1 < s + Slots
  PROVE  /\ IdAfter(i, n + 1 - s) # i /\ IdAfter(i, n + 1 - s) \in 0 .. Slots - 1
         /\ NextId(IdAfter(i, n + 1 - s)) = IdAfter(i, (n + 1) + 1 - s)
<1>1. IdAfter(i, n + 1 - s) # i /\ IdAfter(i, n + 1 - s) \in 0 .. Slots - 1
  BY CapacitiesPositive DEF IdAfter
<1>2. NextId(IdAfter(i, n + 1 - s)) = IdAfter(IdAfter(i, n + 1 - s), 1)
  BY <1>1, NextIdIsAfter
<1>3. IdAfter(IdAfter(i, n + 1 - s), 1) = IdAfter(i, (n + 1) + 1 - s)
  BY CapacitiesPositive DEF IdAfter
<1> QED BY <1>1, <1>2, <1>3

-----------------------------------------------------------------------------
(* What InsertAndSend leaves in the ring is well typed.                    *)
LEMMA InsertType ==
  ASSUME TypeOK, NEW t \in Task, NEW cleared \in BOOLEAN, NEW sent \in BOOLEAN,
         inserted < MaxJobs + MaxTasks, InsertAndSend(t, cleared, sent)
  PROVE  /\ slots' \in [0 .. Slots - 1 -> ChipJob \cup {NoJob}] /\ next_id' \in 0 .. Slots - 1
         /\ chip' \in ChipJob \cup {NoJob} /\ inserted' = inserted + 1
         /\ inserted' \in 0 .. MaxJobs + MaxTasks
<1> DEFINE job == [id |-> next_id, task |-> t, seq |-> inserted + 1]
<1>1. job \in ChipJob
  BY BoundsAreNat DEF TypeOK, ChipJob
<1>2. next_id' \in 0 .. Slots - 1
  BY NextIdIsAfter DEF TypeOK, InsertAndSend
<1>3. inserted' = inserted + 1 /\ inserted' \in 0 .. MaxJobs + MaxTasks
  BY BoundsAreNat DEF TypeOK, InsertAndSend
<1> HIDE DEF job
<1>4. /\ slots' = [i \in 0 .. Slots - 1 |->
                     IF i = next_id THEN job ELSE IF cleared THEN NoJob ELSE slots[i]]
      /\ chip' = IF sent THEN job ELSE chip
  BY DEF InsertAndSend, job
<1> QED BY <1>1, <1>2, <1>3, <1>4 DEF TypeOK

(* The actor's state stays within the types of its fields.                 *)
LEMMA TypeStep ==
  ASSUME TypeOK, TasksInOrder, JobsCounted, [Next]_vars
  PROVE  TypeOK'
<1> USE CapacitiesPositive, BoundsAreNat
    DEF TypeOK, schedVars, msgVars, jobVars, chipVars
<1>1. ASSUME NEW kind \in {"UpdateTask", "ReplaceTask"}, Assign(kind) PROVE TypeOK'
  BY <1>1 DEF Assign, Task, Assignment, ReceiversDropped
<1>2. CASE ReplyReceived
  BY <1>2 DEF ReplyReceived, DropReceivers
<1>3. ASSUME NEW t \in Task, TakeShare(t) PROVE TypeOK'
  BY <1>3 DEF TakeShare
<1>4. CASE ClearJobs \/ SchedulerDropsThread
  BY <1>4, SMTT(30) DEF ClearJobs, SchedulerDropsThread, DropReceivers
<1>5. CASE Startup \/ Configure \/ BringUpFails \/ BringUpAborted \/ LeaveLoop
  BY <1>5, ZenonT(60) DEF Startup, Configure, BringUpFails, BringUpAborted, LeaveLoop
<1>6. CASE TakeCommand
  BY <1>6 DEF TakeCommand, NoCommand, Configuration
<1>7. ASSUME NEW sent \in BOOLEAN, Install(sent) PROVE TypeOK'
  <2>1. pending \in Assignment /\ pending.task \in Task
    BY <1>7 DEF Install, TasksInOrder, Assignment, NoCommand
  <2>2. inserted < MaxJobs + MaxTasks
    BY <1>7, <2>1 DEF Install, TasksInOrder, JobsCounted, Task
  <2>3. InsertAndSend(pending.task, pending.kind = "ReplaceTask", sent)
    BY <1>7 DEF Install
  <2>4. /\ slots' \in [0 .. Slots - 1 -> ChipJob \cup {NoJob}] /\ next_id' \in 0 .. Slots - 1
        /\ chip' \in ChipJob \cup {NoJob} /\ inserted' \in 0 .. MaxJobs + MaxTasks
    BY <2>1, <2>2, <2>3, InsertType
  <2> QED BY <1>7, <2>1, <2>4, SMTT(30) DEF Install, Task
<1>8. ASSUME NEW meets \in BOOLEAN, HandleNonce(meets) PROVE TypeOK'
  <2>1. /\ nonces' \in Seq(ChipJob) /\ Len(nonces') <= NonceCap /\ Head(nonces) \in ChipJob
    BY <1>8, TakeJob DEF HandleNonce
  <2> QED BY <1>8, <2>1 DEF HandleNonce
<1>9. CASE SendShare
  BY <1>9 DEF SendShare
<1>10. ASSUME NEW sent \in BOOLEAN, RollNtime(sent) PROVE TypeOK'
  <2>1. /\ slots' \in [0 .. Slots - 1 -> ChipJob \cup {NoJob}] /\ next_id' \in 0 .. Slots - 1
        /\ chip' \in ChipJob \cup {NoJob} /\ inserted' \in 0 .. MaxJobs + MaxTasks
    <3>1. current_task \in Task /\ inserted < MaxJobs + MaxTasks
      BY <1>10 DEF RollNtime, Task
    <3>2. InsertAndSend(current_task, FALSE, sent)
      BY <1>10 DEF RollNtime
    <3> QED BY <3>1, <3>2, InsertType
  <2> QED BY <1>10, <2>1 DEF RollNtime
<1>11. CASE Exit
  BY <1>11 DEF Exit
<1>12. CASE FindNonce
  <2>1. chip \in ChipJob
    BY <1>12 DEF FindNonce
  <2>2. nonces' \in Seq(ChipJob) /\ Len(nonces') <= NonceCap
    BY <1>12, <2>1, AppendJob DEF FindNonce
  <2> QED BY <1>12, <2>2 DEF FindNonce
<1>13. CASE StreamEnds \/ ShutdownSignal
  BY <1>13, ZenonT(60) DEF StreamEnds, ShutdownSignal
<1>14. CASE UNCHANGED vars
  BY <1>14 DEF vars
<1> QED
  BY <1>1, <1>2, <1>3, <1>4, <1>5, <1>6, <1>7, <1>8, <1>9, <1>10, <1>11, <1>12, <1>13, <1>14
     DEF Next, SchedNext, ActorNext, ActorProgress, ChipNext

(* The order of the tasks and the count of the jobs are kept.              *)
LEMMA OrderStep ==
  ASSUME TypeOK, TasksInOrder, JobsCounted, [Next]_vars
  PROVE  TasksInOrder' /\ JobsCounted'
<1> USE BoundsAreNat
    DEF TasksInOrder, JobsCounted, schedVars, msgVars, jobVars, chipVars, NoCommand, Configuration
<1>0. /\ assigned \in Nat /\ replaced \in Nat /\ current_task \in Nat /\ inserted \in Nat
      /\ cmd.task \in Nat /\ pending.task \in Nat
  BY DEF TypeOK, Assignment, Task
<1>1. ASSUME NEW kind \in {"UpdateTask", "ReplaceTask"}, Assign(kind)
      PROVE  TasksInOrder' /\ JobsCounted'
  BY <1>0, <1>1 DEF Assign
<1>2. CASE ReplyReceived
  BY <1>0, <1>2 DEF ReplyReceived
<1>3. ASSUME NEW t \in Task, TakeShare(t) PROVE TasksInOrder' /\ JobsCounted'
  BY <1>3 DEF TakeShare
<1>4. CASE ClearJobs \/ SchedulerDropsThread \/ SendShare \/ Exit \/ LeaveLoop \/ Startup
  BY <1>4 DEF ClearJobs, SchedulerDropsThread, SendShare, Exit, LeaveLoop, Startup
<1>5. CASE Configure \/ BringUpFails \/ BringUpAborted
  BY <1>0, <1>5 DEF Configure, BringUpFails, BringUpAborted
<1>6. CASE TakeCommand
  BY <1>0, <1>6 DEF TakeCommand
<1>7. ASSUME NEW sent \in BOOLEAN, Install(sent) PROVE TasksInOrder' /\ JobsCounted'
  BY <1>0, <1>7 DEF Install, InsertAndSend
<1>8. ASSUME NEW meets \in BOOLEAN, HandleNonce(meets) PROVE TasksInOrder' /\ JobsCounted'
  BY <1>8 DEF HandleNonce
<1>9. ASSUME NEW sent \in BOOLEAN, RollNtime(sent) PROVE TasksInOrder' /\ JobsCounted'
  BY <1>0, <1>9 DEF RollNtime, InsertAndSend
<1>10. CASE FindNonce \/ StreamEnds \/ ShutdownSignal
  BY <1>10 DEF FindNonce, StreamEnds, ShutdownSignal
<1>11. CASE UNCHANGED vars
  BY <1>11 DEF vars
<1> QED
  BY <1>1, <1>2, <1>3, <1>4, <1>5, <1>6, <1>7, <1>8, <1>9, <1>10, <1>11
     DEF Next, SchedNext, ActorNext, ActorProgress, ChipNext

-----------------------------------------------------------------------------
(* Nothing happens to the jobs when no job is stored and none is learnt.   *)
RingInv == SlotsCurrent /\ KnownStored /\ LateSharesKept

LEMMA RingUntouched ==
  ASSUME RingInv, UNCHANGED jobVars, Known' \subseteq Known \cup {NoJob}
  PROVE  RingInv'
BY DEF RingInv, SlotsCurrent, KnownStored, KnownJob, LateSharesKept, Known, jobVars

(* Storing a job for a task that is not older than the replaced ones keeps *)
(* every known job where it is, as long as the ring has not come round; a  *)
(* clear leaves only jobs of older tasks without their slot.               *)
LEMMA RingInsert ==
  ASSUME ThreadInv, TypeOK', NEW t \in Task, NEW cleared \in BOOLEAN, NEW sent \in BOOLEAN,
         InsertAndSend(t, cleared, sent), UNCHANGED nonces,
         current_task' = t, current_task <= t, replaced' \in {replaced, t}, replaced' <= t,
         cleared => replaced' = t /\ current_task < t,
         ~cleared => replaced' = replaced
  PROVE  RingInv'
<1>job. PICK job : job = [id |-> next_id, task |-> t, seq |-> inserted + 1]
  OBVIOUS
<1>0. /\ replaced \in Nat /\ current_task \in Nat /\ inserted \in Nat /\ t \in Nat /\ Slots \in Nat
      /\ next_id \in 0 .. Slots - 1
  BY CapacitiesPositive, BoundsAreNat DEF ThreadInv, TypeOK, Task
<1>1. job # NoJob /\ job.id = next_id /\ job.task = t /\ job.seq = inserted + 1
  BY <1>0, <1>job DEF NoJob
<1>2. /\ inserted' = inserted + 1 /\ next_id' = NextId(next_id)
      /\ slots' = [i \in 0 .. Slots - 1 |->
                     IF i = next_id THEN job ELSE IF cleared THEN NoJob ELSE slots[i]]
      /\ chip' \in {chip, job}
  BY <1>job DEF InsertAndSend
<1>3. Known' \subseteq Known \cup {job}
  BY <1>2 DEF Known
<1>4. SlotsCurrent'
  BY <1>0, <1>1, <1>2 DEF ThreadInv, SlotsCurrent, NoJob
<1>5. ASSUME NEW j \in Known, j # NoJob
      PROVE  /\ j \in ChipJob /\ KnownJob(j)'
             /\ j.task >= replaced' /\ inserted' < j.seq + Slots => slots'[j.id] = j
  <2>1. j \in ChipJob
    BY <1>5, SMTT(30) DEF ThreadInv, TypeOK, Known
  <2>2. j.id \in 0 .. Slots - 1 /\ j.seq \in Nat /\ j.task \in Nat
    BY <2>1 DEF ChipJob, Task
  <2>3. j.seq <= inserted /\ j.task <= current_task
    BY <1>5 DEF ThreadInv, KnownStored, KnownJob
  <2>4. j.seq <= inserted' /\ j.task <= current_task'
    <3>1. inserted' = inserted + 1
      BY <1>2
    <3> QED BY <1>0, <2>2, <2>3, <3>1
  <2>5. CASE inserted' < j.seq + Slots
    <3>1. inserted + 1 < j.seq + Slots /\ inserted < j.seq + Slots
      BY <1>0, <1>2, <2>2, <2>5
    <3>2. next_id = IdAfter(j.id, inserted + 1 - j.seq)
      BY <1>5, <3>1 DEF ThreadInv, KnownStored, KnownJob
    <3>3. next_id # j.id /\ NextId(next_id) = IdAfter(j.id, (inserted + 1) + 1 - j.seq)
      BY <1>0, <2>2, <2>3, <3>1, <3>2, AfterStep
    <3>4. next_id' = IdAfter(j.id, inserted' + 1 - j.seq)
      BY <1>2, <3>3
    <3>5. ASSUME j.task >= replaced' PROVE slots'[j.id] = j
      <4>1. ~cleared /\ j.task >= replaced
        BY <1>0, <2>2, <2>3, <3>5
      <4>2. slots[j.id] = j
        BY <1>5, <3>1, <4>1 DEF ThreadInv, LateSharesKept, Known
      <4> QED BY <1>2, <2>2, <3>3, <4>1, <4>2
    <3> QED BY <2>1, <2>4, <3>4, <3>5 DEF KnownJob
  <2>6. CASE ~(inserted' < j.seq + Slots)
    BY <2>1, <2>4, <2>6 DEF KnownJob
  <2> QED BY <2>5, <2>6
<1>6. KnownJob(job)' /\ slots'[job.id] = job
  <2>1. next_id' = IdAfter(next_id, 1)
    BY <1>0, <1>2, NextIdIsAfter
  <2>2. slots'[job.id] = job
    BY <1>0, <1>1, <1>2
  <2>3. inserted' + 1 - job.seq = 1 /\ job.seq <= inserted' /\ job.task <= current_task'
    BY <1>0, <1>1, <1>2
  <2> QED BY <1>1, <2>1, <2>2, <2>3 DEF KnownJob
<1>7. KnownStored'
  <2>1. KnownJob(NoJob)'
    BY DEF KnownJob
  <2> SUFFICES ASSUME NEW j \in Known' PROVE KnownJob(j)'
    BY DEF KnownStored
  <2>2. j = NoJob \/ j = job \/ (j \in Known /\ j # NoJob)
    BY <1>3
  <2> QED BY <1>5, <1>6, <2>1, <2>2
<1>8. LateSharesKept'
  BY <1>3, <1>5, <1>6 DEF LateSharesKept, Known
<1> QED BY <1>4, <1>7, <1>8 DEF RingInv

(* The ring holds the known jobs after every step.                         *)
LEMMA RingStep ==
  ASSUME ThreadInv, TypeOK', [Next]_vars
  PROVE  RingInv'
<1> USE DEF schedVars, msgVars, jobVars, chipVars
<1>0. RingInv
  BY DEF ThreadInv, RingInv
<1>1. ASSUME NEW kind \in {"UpdateTask", "ReplaceTask"}, Assign(kind) PROVE RingInv'
  BY <1>0, <1>1, RingUntouched DEF Assign, Known
<1>2. ASSUME NEW t \in Task, TakeShare(t) PROVE RingInv'
  BY <1>0, <1>2, RingUntouched DEF TakeShare, Known
<1>3. CASE ReplyReceived \/ ClearJobs \/ SchedulerDropsThread
  BY <1>0, <1>3, RingUntouched DEF ReplyReceived, ClearJobs, SchedulerDropsThread, Known
<1>4. CASE Startup \/ Configure \/ BringUpFails \/ BringUpAborted \/ TakeCommand
  BY <1>0, <1>4, RingUntouched
     DEF Startup, Configure, BringUpFails, BringUpAborted, TakeCommand, Known
<1>5. CASE SendShare \/ LeaveLoop \/ StreamEnds \/ ShutdownSignal
  BY <1>0, <1>5, RingUntouched DEF SendShare, LeaveLoop, StreamEnds, ShutdownSignal, Known
<1>6. CASE Exit
  BY <1>0, <1>6, RingUntouched DEF Exit, Known
<1>7. ASSUME NEW sent \in BOOLEAN, Install(sent) PROVE RingInv'
  <2>1. pending \in Assignment /\ pending.task \in Task
    BY <1>7 DEF ThreadInv, TypeOK, Install, TasksInOrder, Assignment, NoCommand
  <2>2. current_task < pending.task /\ replaced <= pending.task /\ current_task \in Nat
    BY <1>7, <2>1, BoundsAreNat DEF ThreadInv, TypeOK, Install, TasksInOrder, Task
  <2>3. InsertAndSend(pending.task, pending.kind = "ReplaceTask", sent) /\ UNCHANGED nonces
    BY <1>7 DEF Install
  <2>4. /\ current_task' = pending.task /\ current_task <= pending.task
        /\ replaced' \in {replaced, pending.task} /\ replaced' <= pending.task
        /\ pending.kind = "ReplaceTask" => replaced' = pending.task
        /\ pending.kind # "ReplaceTask" => replaced' = replaced
    BY <1>7, <2>1, <2>2, BoundsAreNat DEF Install, Task
  <2> QED BY <2>1, <2>2, <2>3, <2>4, RingInsert
<1>8. ASSUME NEW sent \in BOOLEAN, RollNtime(sent) PROVE RingInv'
  <2>1. current_task \in Task /\ current_task <= current_task /\ replaced <= current_task
    BY <1>8, BoundsAreNat DEF ThreadInv, TypeOK, TasksInOrder, RollNtime, Task
  <2>2. /\ InsertAndSend(current_task, FALSE, sent) /\ UNCHANGED nonces
        /\ current_task' = current_task /\ replaced' = replaced
    BY <1>8 DEF RollNtime
  <2> QED BY <2>1, <2>2, RingInsert
<1>9. ASSUME NEW meets \in BOOLEAN, HandleNonce(meets) PROVE RingInv'
  <2>1. \A i \in 1 .. Len(Tail(nonces)) : i + 1 \in 1 .. Len(nonces) /\ Tail(nonces)[i] = nonces[i + 1]
    BY <1>9, TakeJob DEF ThreadInv, TypeOK, HandleNonce
  <2>2. Known' \subseteq Known
    BY <1>9, <2>1 DEF HandleNonce, Known
  <2> QED BY <1>0, <1>9, <2>2, RingUntouched DEF HandleNonce
<1>10. CASE FindNonce
  <2>1. chip \in ChipJob /\ nonces \in Seq(ChipJob)
    BY <1>10 DEF ThreadInv, TypeOK, FindNonce
  <2>2. Known' \subseteq Known
    BY <1>10, <2>1, AppendJob DEF FindNonce, Known
  <2> QED BY <1>0, <1>10, <2>2, RingUntouched DEF FindNonce
<1>11. CASE UNCHANGED vars
  BY <1>0, <1>11, RingUntouched DEF vars, Known
<1> QED
  BY <1>1, <1>2, <1>3, <1>4, <1>5, <1>6, <1>7, <1>8, <1>9, <1>10, <1>11
     DEF Next, SchedNext, ActorNext, ActorProgress, ChipNext

(* The share in flight belongs to no replaced task: a nonce becomes a      *)
(* share only for a job in the ring, and no task is replaced while a share *)
(* is being sent.                                                          *)
LEMMA ShareStep ==
  ASSUME ThreadInv, [Next]_vars
  PROVE  ReplacedDiscarded'
<1> USE DEF ReplacedDiscarded, schedVars, msgVars, jobVars, chipVars
<1>0. ReplacedDiscarded
  BY DEF ThreadInv
<1>1. ASSUME NEW kind \in {"UpdateTask", "ReplaceTask"}, Assign(kind) PROVE ReplacedDiscarded'
  BY <1>0, <1>1 DEF Assign
<1>2. ASSUME NEW t \in Task, TakeShare(t) PROVE ReplacedDiscarded'
  BY <1>0, <1>2 DEF TakeShare
<1>3. CASE ReplyReceived \/ ClearJobs \/ SchedulerDropsThread
  BY <1>0, <1>3 DEF ReplyReceived, ClearJobs, SchedulerDropsThread
<1>4. CASE Startup \/ Configure \/ BringUpFails \/ BringUpAborted \/ TakeCommand \/ Exit
  BY <1>0, <1>4 DEF Startup, Configure, BringUpFails, BringUpAborted, TakeCommand, Exit
<1>5. CASE SendShare \/ LeaveLoop \/ StreamEnds \/ ShutdownSignal \/ FindNonce
  BY <1>0, <1>5 DEF SendShare, LeaveLoop, StreamEnds, ShutdownSignal, FindNonce
<1>6. ASSUME NEW sent \in BOOLEAN, Install(sent) \/ RollNtime(sent) PROVE ReplacedDiscarded'
  BY <1>0, <1>6 DEF Install, RollNtime
<1>7. ASSUME NEW meets \in BOOLEAN, HandleNonce(meets) PROVE ReplacedDiscarded'
  <2>1. Head(nonces) \in ChipJob
    BY <1>7, TakeJob DEF ThreadInv, TypeOK, HandleNonce
  <2>2. Head(nonces) # NoJob /\ Head(nonces).id \in 0 .. Slots - 1
    BY <2>1, BoundsAreNat DEF ChipJob, NoJob, Task
  <2>3. slots[Head(nonces).id] = Head(nonces) => Head(nonces).task >= replaced
    BY <2>2 DEF ThreadInv, SlotsCurrent
  <2> QED BY <1>0, <1>7, <2>3 DEF HandleNonce
<1>8. CASE UNCHANGED vars
  BY <1>0, <1>8 DEF vars
<1> QED
  BY <1>1, <1>2, <1>3, <1>4, <1>5, <1>6, <1>7, <1>8
     DEF Next, SchedNext, ActorNext, ActorProgress, ChipNext

-----------------------------------------------------------------------------
LEMMA ThreadInit == Init => ThreadInv
<1> SUFFICES ASSUME Init PROVE ThreadInv
  OBVIOUS
<1> USE CapacitiesPositive, BoundsAreNat DEF Init, NoJob, NoCommand, Configuration
<1>1. TypeOK
  BY DEF TypeOK
<1>2. TasksInOrder /\ JobsCounted /\ SlotsCurrent /\ ReplacedDiscarded
  BY DEF TasksInOrder, JobsCounted, SlotsCurrent, ReplacedDiscarded
<1>3. Known = {NoJob}
  BY DEF Known
<1>4. KnownStored /\ LateSharesKept
  BY <1>3 DEF KnownStored, KnownJob, LateSharesKept, Known
<1> QED BY <1>1, <1>2, <1>4 DEF ThreadInv

LEMMA ThreadStep == ThreadInv /\ [Next]_vars => ThreadInv'
<1> SUFFICES ASSUME ThreadInv, [Next]_vars PROVE ThreadInv'
  OBVIOUS
<1>1. TypeOK'
  BY TypeStep DEF ThreadInv
<1>2. TasksInOrder' /\ JobsCounted'
  BY OrderStep DEF ThreadInv
<1>3. RingInv'
  BY <1>1, RingStep
<1>4. ReplacedDiscarded'
  BY ShareStep
<1> QED BY <1>1, <1>2, <1>3, <1>4 DEF ThreadInv, RingInv

(* The inductive invariant holds in every reachable state.                 *)
THEOREM ThreadInvariant == Spec => []ThreadInv
BY ThreadInit, ThreadStep, PTL DEF Spec

(* The fields of the actor, the ring and the channels keep their types,    *)
(* the queues their capacities, whatever the two sides do.                 *)
THEOREM ThreadTypes == Spec => []TypeOK
<1>1. ThreadInv => TypeOK
  BY DEF ThreadInv
<1> QED BY <1>1, ThreadInvariant, PTL

(* Late shares of an updated task stay valid for a ring of any size: as    *)
(* long as ChipJobTracker did not come round and no ReplaceTask came       *)
(* between, a nonce finds the snapshot of the very job it was found in.    *)
THEOREM LateSharesCorrect == Spec => []LateSharesKept
<1>1. ThreadInv => LateSharesKept
  BY DEF ThreadInv
<1> QED BY <1>1, ThreadInvariant, PTL

(* No nonce of a replaced task becomes a share: ReplaceTask clears the     *)
(* ring before the new task's first job is stored.                         *)
THEOREM ReplacedCorrect == Spec => []ReplacedDiscarded
<1>1. ThreadInv => ReplacedDiscarded
  BY DEF ThreadInv
<1> QED BY <1>1, ThreadInvariant, PTL

-----------------------------------------------------------------------------
(***************************************************************************)
(* The CPU miner.                                                          *)
(***************************************************************************)
Commands == [kind : {"update", "replace", "shutdown"}, task : Nat]

(***************************************************************************)
(* The inductive invariant.  Tasks come in the order they were given, each *)
(* newer than the one being hashed.                                        *)
(***************************************************************************)
CommandsInOrder ==
  /\ cmd_queue \in Seq(Commands) /\ given \in Nat /\ cpu_task \in Nat /\ cpu_task <= given
  /\ \A i \in 1 .. Len(cmd_queue) :
       cmd_queue[i].kind # "shutdown" => cpu_task < cmd_queue[i].task /\ cmd_queue[i].task <= given
  /\ \A i, j \in 1 .. Len(cmd_queue) :
       cmd_queue[i].kind # "shutdown" /\ cmd_queue[j].kind # "shutdown" /\ i < j
         => cmd_queue[i].task < cmd_queue[j].task

HasherTypes ==
  /\ ntime \in Nat /\ nonce \in 0 .. NonceSpace - 1 /\ hashed \subseteq (Nat \X Nat \X Nat)
  /\ in_cycle \in 0 .. HashesPerCycle /\ hashes \in 0 .. MaxHashes
  /\ hasher \in {"mine", "send", "sleep"} => cpu_task # NoTask

(* The nonce d steps before n on the wrapping counter.                     *)
Back(n, d) == IF d <= n THEN n - d ELSE n + NonceSpace - d

(* The headers hashed so far: of older tasks, of earlier timestamps, or    *)
(* within reach of this cycle's hashes.  The bound on hashes stops both    *)
(* hashing and the rolling of the timestamp.                               *)
Older(h) == h[1] < cpu_task \/ (h[1] = cpu_task /\ h[2] < ntime)
ThisCycle(h, lo, hi) == h[1] = cpu_task /\ h[2] = ntime /\ \E d \in lo .. hi : h[3] = Back(nonce, d)

HeadersPast ==
  /\ \A h \in hashed : h[1] < cpu_task \/ (h[1] = cpu_task /\ h[2] <= ntime)
  /\ hashes < MaxHashes =>
       /\ hasher \in {"top", "drain", "idle"} => \A h \in hashed : Older(h)
       /\ hasher = "mine" => \A h \in hashed : Older(h) \/ ThisCycle(h, 1, in_cycle)
       /\ hasher = "send" => \A h \in hashed : Older(h) \/ ThisCycle(h, 0, in_cycle - 1)

CpuInv == CommandsInOrder /\ HasherTypes /\ HeadersPast /\ NoHeaderTwice

-----------------------------------------------------------------------------
LEMMA CommandAdded ==
  ASSUME NEW q \in Seq(Commands), NEW c \in Commands
  PROVE  /\ Append(q, c) \in Seq(Commands) /\ Len(q) \in Nat /\ Len(Append(q, c)) = Len(q) + 1
         /\ Append(q, c)[Len(q) + 1] = c
         /\ \A i \in 1 .. Len(q) : Append(q, c)[i] = q[i]
OBVIOUS

LEMMA CommandTaken ==
  ASSUME NEW q \in Seq(Commands), q # <<>>
  PROVE  /\ Tail(q) \in Seq(Commands) /\ Len(q) \in Nat \ {0} /\ Len(Tail(q)) = Len(q) - 1
         /\ Head(q) \in Commands /\ Head(q) = q[1]
         /\ \A i \in 1 .. Len(Tail(q)) : Tail(q)[i] = q[i + 1]
OBVIOUS

(* A nonce of this cycle is one step further back after the next step, and *)
(* the counter does not come round within a cycle.                         *)
LEMMA BackStep ==
  ASSUME NEW n \in 0 .. NonceSpace - 1, NEW d \in Nat, d < NonceSpace
  PROVE  /\ Back((n + 1) % NonceSpace, d + 1) = Back(n, d)
         /\ d # 0 => Back(n, d) # n
         /\ Back(n, 0) = n /\ (n + 1) % NonceSpace \in 0 .. NonceSpace - 1
<1>1. (n + 1) % NonceSpace = IF n + 1 < NonceSpace THEN n + 1 ELSE 0
  BY CycleFitsNonces
<1> QED BY <1>1, CycleFitsNonces DEF Back

-----------------------------------------------------------------------------
LEMMA CommandTypes ==
  ASSUME CommandsInOrder
  PROVE  \A i \in 1 .. Len(cmd_queue) : cmd_queue[i] \in Commands /\ cmd_queue[i].task \in Nat
<1>1. cmd_queue \in Seq(Commands)
  BY DEF CommandsInOrder
<1>2. \A c \in Commands : c.task \in Nat
  BY DEF Commands
<1> QED BY <1>1, <1>2

(* The order of the tasks, when the queue loses its head or gets one more. *)
LEMMA OrderTaken ==
  ASSUME CommandsInOrder, cmd_queue # <<>>, cmd_queue' = Tail(cmd_queue), given' = given,
         \/ cpu_task' = cpu_task
         \/ Head(cmd_queue).kind # "shutdown" /\ cpu_task' = Head(cmd_queue).task
  PROVE  CommandsInOrder'
<1>1. /\ cmd_queue' \in Seq(Commands) /\ Len(cmd_queue) \in Nat \ {0}
      /\ Len(cmd_queue') = Len(cmd_queue) - 1
      /\ Head(cmd_queue) \in Commands /\ Head(cmd_queue) = cmd_queue[1]
      /\ \A i \in 1 .. Len(cmd_queue') : cmd_queue'[i] = cmd_queue[i + 1]
  BY CommandTaken DEF CommandsInOrder
<1>2. \A i \in 1 .. Len(cmd_queue) : cmd_queue[i] \in Commands /\ cmd_queue[i].task \in Nat
  BY CommandTypes
<1>3. \A i \in 1 .. Len(cmd_queue') : i + 1 \in 1 .. Len(cmd_queue) /\ 1 < i + 1
  BY <1>1
<1>4. cpu_task' \in Nat /\ cpu_task' <= given
  BY <1>1, <1>2 DEF CommandsInOrder
<1>5. \A i \in 1 .. Len(cmd_queue') :
        cmd_queue'[i].kind # "shutdown"
          => cpu_task' < cmd_queue'[i].task /\ cmd_queue'[i].task <= given
  BY <1>1, <1>2, <1>3 DEF CommandsInOrder
<1>6. \A i, j \in 1 .. Len(cmd_queue') :
        cmd_queue'[i].kind # "shutdown" /\ cmd_queue'[j].kind # "shutdown" /\ i < j
          => cmd_queue'[i].task < cmd_queue'[j].task
  BY <1>1, <1>3 DEF CommandsInOrder
<1> QED BY <1>1, <1>4, <1>5, <1>6 DEF CommandsInOrder

LEMMA OrderAdded ==
  ASSUME CommandsInOrder, cpu_task' = cpu_task, NEW c \in Commands, cmd_queue' = Append(cmd_queue, c),
         \/ c.kind = "shutdown" /\ given' = given
         \/ c.task = given + 1 /\ given' = given + 1
  PROVE  CommandsInOrder'
<1>1. /\ cmd_queue' \in Seq(Commands) /\ Len(cmd_queue) \in Nat
      /\ Len(cmd_queue') = Len(cmd_queue) + 1 /\ cmd_queue'[Len(cmd_queue) + 1] = c
      /\ \A i \in 1 .. Len(cmd_queue) : cmd_queue'[i] = cmd_queue[i]
  BY CommandAdded DEF CommandsInOrder
<1>2. \A i \in 1 .. Len(cmd_queue') : i \in 1 .. Len(cmd_queue) \/ i = Len(cmd_queue) + 1
  BY <1>1
<1>3. /\ given \in Nat /\ given' \in Nat /\ given <= given' /\ cpu_task \in Nat /\ cpu_task <= given
      /\ c.task \in Nat
      /\ \A i \in 1 .. Len(cmd_queue) : cmd_queue[i].task \in Nat
  BY CommandTypes DEF CommandsInOrder, Commands
<1>4. \A i \in 1 .. Len(cmd_queue') :
        cmd_queue'[i].kind # "shutdown"
          => cpu_task < cmd_queue'[i].task /\ cmd_queue'[i].task <= given'
  BY <1>1, <1>2, <1>3 DEF CommandsInOrder
<1>5. \A i, j \in 1 .. Len(cmd_queue') :
        cmd_queue'[i].kind # "shutdown" /\ cmd_queue'[j].kind # "shutdown" /\ i < j
          => cmd_queue'[i].task < cmd_queue'[j].task
  BY <1>1, <1>2, <1>3 DEF CommandsInOrder
<1> QED BY <1>1, <1>3, <1>4, <1>5 DEF CommandsInOrder

LEMMA OrderKept ==
  ASSUME CommandsInOrder, UNCHANGED <<cmd_queue, cpu_task, given>>
  PROVE  CommandsInOrder'
BY DEF CommandsInOrder

(* The head of the queue, unless it is the shutdown, is a newer task.      *)
LEMMA NewerTask ==
  ASSUME CommandsInOrder, cmd_queue # <<>>, Head(cmd_queue).kind # "shutdown"
  PROVE  cpu_task < Head(cmd_queue).task /\ Head(cmd_queue).task \in Nat
<1>1. Head(cmd_queue) = cmd_queue[1] /\ 1 \in 1 .. Len(cmd_queue) /\ Head(cmd_queue) \in Commands
  BY CommandTaken DEF CommandsInOrder
<1> QED BY <1>1 DEF CommandsInOrder, Commands

-----------------------------------------------------------------------------
(* The headers stay in the past while task, timestamp and nonce do, and    *)
(* the hasher begins no cycle.                                             *)
LEMMA PastKept ==
  ASSUME HeadersPast, UNCHANGED <<hashed, hashes, cpu_task, ntime, nonce, in_cycle>>,
         \/ hasher' = hasher
         \/ hasher' \in {"ended", "sleep"}
         \/ hasher \in {"top", "drain", "idle"} /\ hasher' \in {"top", "drain", "idle"}
  PROVE  HeadersPast'
<1>1. \A h : Older(h)' <=> Older(h)
  BY DEF Older
<1>2. \A h, lo, hi : ThisCycle(h, lo, hi)' <=> ThisCycle(h, lo, hi)
  BY DEF ThisCycle, Back
<1> QED BY <1>1, <1>2 DEF HeadersPast, Older, ThisCycle

(* A newer task: everything that was hashed belongs to older ones.         *)
LEMMA PastNewTask ==
  ASSUME HeadersPast, HasherTypes, CommandsInOrder, UNCHANGED <<hashed, hashes>>,
         cpu_task' \in Nat, cpu_task < cpu_task', hasher' \in {"drain", "sleep"}
  PROVE  HeadersPast'
<1>1. ASSUME NEW h \in hashed PROVE h[1] < cpu_task'
  <2>1. h[1] \in Nat
    BY DEF HasherTypes
  <2> QED BY <2>1 DEF HeadersPast, CommandsInOrder
<1> QED BY <1>1 DEF HeadersPast, Older

(* A cycle begins: nothing was hashed with this timestamp.                 *)
LEMMA PastCycleBegins ==
  ASSUME HeadersPast, UNCHANGED <<hashed, hashes, cpu_task, ntime>>, hasher = "drain",
         hasher' \in {"mine", "idle", "ended"}
  PROVE  HeadersPast'
BY DEF HeadersPast, Older

(* The timestamp is rolled: what this cycle hashed is past.                *)
LEMMA PastRolled ==
  ASSUME HeadersPast, HasherTypes, EndOfCycle
  PROVE  HeadersPast' /\ ntime' \in Nat
<1>1. /\ hasher = "sleep" /\ hasher' = "top" /\ cpu_task # NoTask
      /\ UNCHANGED <<hashed, hashes, cpu_task>> /\ ntime \in Nat
      /\ ntime' = IF hashes < MaxHashes THEN ntime + 1 ELSE ntime
  BY DEF EndOfCycle, HasherTypes
<1>2. \A h \in hashed : h[2] \in Nat
  BY DEF HasherTypes
<1> QED BY <1>1, <1>2 DEF HeadersPast, Older

(* The nonce is counted on after it was tried.                             *)
LEMMA PastNonceStep ==
  ASSUME HeadersPast, HasherTypes, HasherTypes', NextNonce,
         UNCHANGED <<hashed, hashes, cpu_task, ntime, in_cycle>>, hasher = "send", hasher' = "mine"
  PROVE  HeadersPast'
<1> SUFFICES ASSUME hashes < MaxHashes, NEW h \in hashed, ~Older(h)
             PROVE  ThisCycle(h, 1, in_cycle)'
  BY DEF HeadersPast, Older
<1>1. PICK d \in 0 .. in_cycle - 1 :
        h[1] = cpu_task /\ h[2] = ntime /\ h[3] = Back(nonce, d)
  BY DEF HeadersPast, ThisCycle
<1>2. /\ d \in Nat /\ d < NonceSpace /\ d + 1 \in 1 .. in_cycle /\ nonce \in 0 .. NonceSpace - 1
  BY <1>1, CycleFitsNonces DEF HasherTypes
<1>3. h[3] = Back(nonce', d + 1)
  BY <1>1, <1>2, BackStep DEF NextNonce
<1> QED BY <1>1, <1>2, <1>3 DEF ThisCycle

(* A nonce is tried: its header is new, and within reach of this cycle.    *)
LEMMA PastTried ==
  ASSUME CpuInv, NEW hit \in BOOLEAN, TryNonce(hit)
  PROVE  HeadersPast' /\ HasherTypes' /\ NoHeaderTwice'
<1> DEFINE header == <<cpu_task, ntime, nonce>>
<1>0. /\ hasher = "mine" /\ in_cycle < HashesPerCycle /\ hashes < MaxHashes
      /\ in_cycle \in Nat /\ hashes \in Nat /\ nonce \in 0 .. NonceSpace - 1 /\ ntime \in Nat
      /\ cpu_task \in Nat /\ hashed \subseteq (Nat \X Nat \X Nat) /\ cpu_task # NoTask
      /\ in_cycle < NonceSpace /\ HashesPerCycle \in Nat /\ MaxHashes \in Nat /\ NonceSpace \in Nat
  BY CycleFitsNonces DEF TryNonce, CpuInv, HasherTypes, CommandsInOrder
<1>1. /\ in_cycle' = in_cycle + 1 /\ hashes' = hashes + 1 /\ UNCHANGED <<cpu_task, ntime>>
      /\ hashed' \in {hashed, hashed \cup {header}}
      /\ IF hit THEN hasher' = "send" /\ nonce' = nonce ELSE hasher' = "mine" /\ NextNonce
  BY <1>0 DEF TryNonce
<1>2. header \in (Nat \X Nat \X Nat) /\ header[1] = cpu_task /\ header[2] = ntime /\ header[3] = nonce
  BY <1>0
<1>3. header \notin hashed
  <2> SUFFICES ASSUME header \in hashed PROVE FALSE
    OBVIOUS
  <2>1. Older(header) \/ ThisCycle(header, 1, in_cycle)
    BY <1>0 DEF CpuInv, HeadersPast
  <2>2. PICK d \in 1 .. in_cycle : nonce = Back(nonce, d)
    BY <1>0, <1>2, <2>1 DEF Older, ThisCycle
  <2>3. d \in Nat /\ d < NonceSpace /\ d # 0
    BY <1>0
  <2> QED BY <1>0, <2>2, <2>3, BackStep
<1> HIDE DEF header
<1>4. NoHeaderTwice'
  BY <1>3 DEF TryNonce, CpuInv, NoHeaderTwice, header
<1>5. HasherTypes'
  <2>1. nonce' \in 0 .. NonceSpace - 1
    BY <1>0, <1>1, BackStep DEF NextNonce
  <2>2. in_cycle' \in 0 .. HashesPerCycle /\ hashes' \in 0 .. MaxHashes
    BY <1>0, <1>1
  <2>3. hashed' \subseteq (Nat \X Nat \X Nat)
    BY <1>0, <1>1, <1>2
  <2> QED BY <1>0, <1>1, <2>1, <2>2, <2>3 DEF HasherTypes
<1>6. \A h \in hashed' : h \in hashed \/ h = header
  BY <1>1
<1>7. ASSUME NEW h \in hashed', ~Older(h)
      PROVE  /\ h[1] = cpu_task /\ h[2] = ntime
             /\ hit => \E d \in 0 .. in_cycle : h[3] = Back(nonce', d)
             /\ ~hit => \E d \in 1 .. in_cycle + 1 : h[3] = Back(nonce', d)
  <2>1. PICK d \in 0 .. in_cycle : h[1] = cpu_task /\ h[2] = ntime /\ h[3] = Back(nonce, d)
    <3>1. CASE h = header
      <4>1. h[3] = Back(nonce, 0) /\ 0 \in 0 .. in_cycle
        BY <1>0, <1>2, <3>1, BackStep
      <4> QED BY <1>2, <3>1, <4>1
    <3>2. CASE h \in hashed
      <4>1. ThisCycle(h, 1, in_cycle)
        BY <1>0, <1>7, <3>2 DEF CpuInv, HeadersPast
      <4> QED BY <1>0, <4>1 DEF ThisCycle
    <3> QED BY <1>6, <3>1, <3>2
  <2>2. d \in Nat /\ d < NonceSpace /\ d + 1 \in 1 .. in_cycle + 1
    BY <1>0
  <2>3. ~hit => h[3] = Back(nonce', d + 1)
    BY <1>0, <1>1, <2>1, <2>2, BackStep DEF NextNonce
  <2>4. hit => h[3] = Back(nonce', d)
    BY <1>1, <2>1
  <2> QED BY <2>1, <2>2, <2>3, <2>4
<1>8. \A h : Older(h)' <=> Older(h)
  BY <1>1 DEF Older
<1>9. \A h \in hashed' : Older(h)' \/ (h[1] = cpu_task' /\ h[2] = ntime')
  BY <1>1, <1>7, <1>8
<1>10. ASSUME NEW h \in hashed'
       PROVE  /\ hit => Older(h)' \/ ThisCycle(h, 0, in_cycle - 1)'
              /\ ~hit => Older(h)' \/ ThisCycle(h, 1, in_cycle)'
  <2>1. in_cycle' - 1 = in_cycle
    BY <1>0, <1>1
  <2> QED BY <1>1, <1>7, <1>8, <2>1 DEF ThisCycle
<1>11. HeadersPast'
  <2>1. \A h \in hashed' : h[2] \in Nat
    BY <1>5 DEF HasherTypes
  <2>2. \A h \in hashed' : h[1] < cpu_task' \/ (h[1] = cpu_task' /\ h[2] <= ntime')
    BY <1>0, <1>1, <1>9, <2>1 DEF Older
  <2> QED BY <1>1, <1>10, <2>2 DEF HeadersPast
<1> QED BY <1>4, <1>5, <1>11

LEMMA CpuStart == CpuInit => CpuInv
BY CycleFitsNonces DEF CpuInit, CpuInv, CommandsInOrder, HasherTypes, HeadersPast, NoHeaderTwice, NoTask

LEMMA CpuStep == CpuInv /\ [CpuNext]_cpuVars => CpuInv'
<1> SUFFICES ASSUME CpuInv, [CpuNext]_cpuVars PROVE CpuInv'
  OBVIOUS
<1> USE DEF CpuInv, holderVars, hasherVars, NoHeaderTwice
<1>1. ASSUME NEW kind \in {"update", "replace"}, Give(kind) PROVE CpuInv'
  <2>1. CommandsInOrder'
    <3>1. MinerCommand(kind, given + 1) \in Commands /\ MinerCommand(kind, given + 1).task = given + 1
      BY DEF MinerCommand, Commands, CommandsInOrder
    <3> QED BY <1>1, <3>1, OrderAdded DEF Give
  <2> QED BY <1>1, <2>1, PastKept DEF Give, HasherTypes
<1>2. CASE Answered \/ DropHandle
  BY <1>2, OrderKept, PastKept DEF Answered, DropHandle, HasherTypes
<1>3. ASSUME NEW t \in CpuTask, ReadShare(t) PROVE CpuInv'
  BY <1>3, OrderKept, PastKept DEF ReadShare, HasherTypes
<1>4. CASE HandleDropped
  <2>1. CommandsInOrder'
    <3>1. /\ MinerCommand("shutdown", NoTask) \in Commands
          /\ MinerCommand("shutdown", NoTask).kind = "shutdown"
      BY DEF MinerCommand, Commands, NoTask
    <3> QED BY <1>4, <3>1, OrderAdded DEF HandleDropped
  <2> QED BY <1>4, <2>1, PastKept DEF HandleDropped, HasherTypes
<1>5. CASE CheckStop \/ EndOfWork \/ IdleSleep
  <2>1. UNCHANGED <<cmd_queue, given, cpu_task, hashed, hashes, ntime, nonce, in_cycle, repeated>>
    BY <1>5 DEF CheckStop, EndOfWork, IdleSleep
  <2>2. \/ hasher' \in {"ended", "sleep"} /\ (hasher' = "sleep" => hasher = "mine")
        \/ hasher \in {"top", "drain", "idle"} /\ hasher' \in {"top", "drain", "idle"}
    BY <1>5 DEF CheckStop, EndOfWork, IdleSleep
  <2> QED BY <2>1, <2>2, OrderKept, PastKept DEF HasherTypes
<1>6. ASSUME cmd_queue # <<>>, cmd_queue' = Tail(cmd_queue), Head(cmd_queue).kind # "shutdown",
             TakeTask(Head(cmd_queue)), hasher' \in {"drain", "sleep"},
             UNCHANGED <<holderVars, in_cycle, hashes, hashed, repeated>>
      PROVE  CpuInv'
  <2>1. /\ cpu_task' = Head(cmd_queue).task /\ ntime' = 0 /\ nonce' = 0
        /\ cpu_task < cpu_task' /\ cpu_task' \in Nat /\ cpu_task' # NoTask
    BY <1>6, NewerTask DEF TakeTask, NoTask, CommandsInOrder
  <2>2. CommandsInOrder'
    BY <1>6, <2>1, OrderTaken
  <2>3. HeadersPast'
    BY <1>6, <2>1, PastNewTask
  <2>4. HasherTypes'
    BY <1>6, <2>1, CycleFitsNonces DEF HasherTypes
  <2> QED BY <1>6, <2>2, <2>3, <2>4
<1>7. ASSUME cmd_queue # <<>>, cmd_queue' = Tail(cmd_queue), hasher' = "ended",
             UNCHANGED <<holderVars, cpu_task, ntime, nonce, in_cycle, hashes, hashed, repeated>>
      PROVE  CpuInv'
  <2>1. CommandsInOrder'
    BY <1>7, OrderTaken
  <2> QED BY <1>7, <2>1, PastKept DEF HasherTypes
<1>8. CASE Drain
  <2>1. CASE cmd_queue # <<>>
    BY <1>6, <1>7, <1>8, <2>1 DEF Drain
  <2>2. CASE cmd_queue = <<>>
    <3>1. /\ hasher = "drain" /\ hasher' \in {"mine", "idle", "ended"} /\ in_cycle' = 0
          /\ hasher' = "mine" => cpu_task # NoTask
          /\ UNCHANGED <<cmd_queue, given, cpu_task, hashed, hashes, ntime, nonce, repeated>>
      BY <1>8, <2>2 DEF Drain
    <3> QED BY <3>1, OrderKept, PastCycleBegins, CycleFitsNonces DEF HasherTypes
  <2> QED BY <2>1, <2>2
<1>9. CASE PollCommand
  BY <1>6, <1>7, <1>9 DEF PollCommand
<1>10. ASSUME NEW hit \in BOOLEAN, TryNonce(hit) PROVE CpuInv'
  <2>1. CommandsInOrder'
    BY <1>10, OrderKept DEF TryNonce
  <2> QED BY <1>10, <2>1, PastTried
<1>11. CASE HasherSends
  <2>1. UNCHANGED <<cmd_queue, given, cpu_task, hashed, hashes, ntime, in_cycle, repeated>>
    BY <1>11 DEF HasherSends
  <2>2. HasherTypes'
    <3>1. 0 \in Nat /\ 0 < NonceSpace /\ nonce \in 0 .. NonceSpace - 1
      BY CycleFitsNonces DEF HasherTypes
    <3>2. nonce' \in 0 .. NonceSpace - 1
      BY <1>11, <3>1, BackStep DEF HasherSends, NextNonce
    <3> QED BY <1>11, <2>1, <3>2 DEF HasherTypes, HasherSends
  <2> QED BY <1>11, <2>1, <2>2, OrderKept, PastNonceStep DEF HasherSends
<1>12. CASE EndOfCycle
  <2>1. CommandsInOrder'
    BY <1>12, OrderKept DEF EndOfCycle
  <2> QED BY <1>12, <2>1, PastRolled DEF EndOfCycle, HasherTypes
<1>13. CASE UNCHANGED cpuVars
  BY <1>13, OrderKept, PastKept DEF cpuVars, HasherTypes
<1> QED
  BY <1>1, <1>2, <1>3, <1>4, <1>5, <1>8, <1>9, <1>10, <1>11, <1>12, <1>13
     DEF CpuNext, HolderNext, HasherNext

(* The inductive invariant holds in every reachable state.                 *)
THEOREM CpuInvariant == CpuSpec => []CpuInv
BY CpuStart, CpuStep, PTL DEF CpuSpec

(* No header is hashed twice, however often the nonce counter wraps: a     *)
(* cycle is shorter than the counter, and the timestamp is rolled between  *)
(* two cycles of one task.                                                 *)
THEOREM NoHeaderTwiceCorrect == CpuSpec => []NoHeaderTwice
<1>1. CpuInv => NoHeaderTwice
  BY DEF CpuInv
<1> QED BY <1>1, CpuInvariant, PTL
-----------------------------------------------------------------------------
(***************************************************************************)
(* The responses of the chips.  Wherever the decoder stands in the stream, *)
(* the responses in front of it have come out, and every other one begins  *)
(* behind it: it never skips the first byte of one.                        *)
(***************************************************************************)
(* The elements of s behind the m-th, up to the n-th.                      *)
Piece(s, m, n) == SubSeq(s, m + 1, n)

PieceOf(S, s, m, n, t) ==
  t \in Seq(S) /\ Len(t) = n - m /\ \A k \in 1 .. n - m : t[k] = s[m + k]

(* The length and the elements of a piece.                                 *)
LEMMA PieceParts ==
  ASSUME NEW S, NEW s \in Seq(S), NEW m \in Nat, NEW n \in Nat, m <= n, n <= Len(s)
  PROVE  PieceOf(S, s, m, n, Piece(s, m, n))
<1> DEFINE t == Piece(s, m, n)
           a == m + 1
<1>1. a \in Int /\ n \in Int /\ \A i \in a .. n : s[i] \in S
  <2>1. \A i \in a .. n : i \in 1 .. Len(s)
    OBVIOUS
  <2> QED
    BY <2>1, ElementOfSeq
<1>2. t = SubSeq(s, a, n)
  BY DEF Piece
<1> HIDE DEF a, t
<1>3. /\ t \in Seq(S) /\ Len(t) = IF a <= n THEN n - a + 1 ELSE 0
      /\ \A k \in 1 .. n - a + 1 : t[k] = s[a + k - 1]
  BY <1>1, <1>2, SubSeqProperties, SMTT(30)
<1>4. Len(t) = n - m
  BY <1>3 DEF a
<1>5. ASSUME NEW k \in 1 .. n - m PROVE t[k] = s[m + k]
  <2>1. k \in 1 .. n - a + 1 /\ a + k - 1 = m + k
    BY DEF a
  <2> QED
    BY <1>3, <2>1
<1> QED
  BY <1>3, <1>4, <1>5 DEF t, PieceOf

(* A piece of a piece is a piece of the whole.                             *)
LEMMA PieceOfPiece ==
  ASSUME NEW S, NEW s \in Seq(S), NEW m \in Nat, NEW n \in Nat, m <= n, n <= Len(s),
         NEW a \in Nat, NEW b \in Nat, a <= b, b <= n - m
  PROVE  Piece(Piece(s, m, n), a, b) = Piece(s, m + a, m + b)
<1> DEFINE t == Piece(s, m, n)
           u == Piece(t, a, b)
           c == m + a
           d == m + b
           v == Piece(s, c, d)
<1>1. t \in Seq(S) /\ Len(t) = n - m /\ \A k \in 1 .. n - m : t[k] = s[m + k]
  BY PieceParts DEF PieceOf
<1> HIDE DEF t
<1>2. t \in Seq(S) /\ b <= Len(t)
  BY <1>1
<1>3. u \in Seq(S) /\ Len(u) = b - a /\ \A k \in 1 .. b - a : u[k] = t[a + k]
  <2>1. PieceOf(S, t, a, b, u)
    BY <1>2, PieceParts
  <2> QED
    BY <2>1 DEF PieceOf
<1>4. c \in Nat /\ d \in Nat /\ c <= d /\ d <= Len(s) /\ d - c = b - a
  OBVIOUS
<1>5. v \in Seq(S) /\ Len(v) = d - c /\ \A k \in 1 .. d - c : v[k] = s[c + k]
  <2> HIDE DEF c, d
  <2>1. PieceOf(S, s, c, d, v)
    BY <1>4, PieceParts
  <2> QED
    BY <2>1 DEF PieceOf
<1> HIDE DEF u, v
<1>6. ASSUME NEW k \in 1 .. Len(u) PROVE u[k] = v[k]
  <2>1. k \in 1 .. b - a
    BY <1>3
  <2>2. k \in 1 .. d - c /\ a + k \in 1 .. n - m /\ m + (a + k) = c + k
    BY <1>4, <2>1
  <2> QED
    BY <1>1, <1>3, <1>5, <2>1, <2>2
<1>7. Len(u) = Len(v)
  BY <1>3, <1>4, <1>5
<1>8. u = v
  BY <1>3, <1>5, <1>6, <1>7, SeqEqual
<1> QED
  BY <1>8 DEF u, v, t, c, d

(* Two pieces next to each other are one.                                  *)
LEMMA PiecesJoin ==
  ASSUME NEW S, NEW s \in Seq(S), NEW m \in Nat, NEW n \in Nat, NEW p \in Nat,
         m <= n, n <= p, p <= Len(s)
  PROVE  Piece(s, m, n) \o Piece(s, n, p) = Piece(s, m, p)
<1> DEFINE t == Piece(s, m, n)
           u == Piece(s, n, p)
           v == Piece(s, m, p)
           w == t \o u
<1>1. Len(s) \in Nat /\ n <= Len(s) /\ m <= p
  OBVIOUS
<1>2. PieceOf(S, s, m, n, t) /\ PieceOf(S, s, n, p, u) /\ PieceOf(S, s, m, p, v)
  BY <1>1, PieceParts
<1> HIDE DEF t, u, v
<1>3. /\ t \in Seq(S) /\ Len(t) = n - m /\ \A k \in 1 .. n - m : t[k] = s[m + k]
      /\ u \in Seq(S) /\ Len(u) = p - n /\ \A k \in 1 .. p - n : u[k] = s[n + k]
  BY <1>2 DEF PieceOf
<1>4. v \in Seq(S) /\ Len(v) = p - m /\ \A k \in 1 .. p - m : v[k] = s[m + k]
  BY <1>2 DEF PieceOf
<1>5. /\ w \in Seq(S) /\ Len(w) = Len(t) + Len(u)
      /\ \A k \in 1 .. Len(t) + Len(u) : w[k] = IF k <= Len(t) THEN t[k] ELSE u[k - Len(t)]
  BY <1>3, ConcatProperties
<1> HIDE DEF w
<1>6. Len(w) = Len(v)
  BY <1>3, <1>4, <1>5
<1>7. ASSUME NEW k \in 1 .. Len(w) PROVE w[k] = v[k]
  <2>1. k \in 1 .. p - m /\ k \in 1 .. Len(t) + Len(u) /\ v[k] = s[m + k]
    BY <1>4, <1>5, <1>6
  <2>2. CASE k <= n - m
    <3>1. k <= Len(t) /\ k \in 1 .. n - m
      BY <1>3, <2>1, <2>2
    <3> QED
      BY <1>3, <1>5, <2>1, <3>1
  <2>3. CASE ~(k <= n - m)
    <3>1. ~(k <= Len(t)) /\ k - Len(t) = k - (n - m) /\ k - (n - m) \in 1 .. p - n
          /\ n + (k - (n - m)) = m + k
      BY <1>3, <2>1, <2>3
    <3>2. w[k] = u[k - (n - m)]
      BY <1>5, <2>1, <3>1
    <3> QED
      BY <1>3, <2>1, <3>1, <3>2
  <2> QED
    BY <2>2, <2>3
<1>8. w = v
  BY <1>4, <1>5, <1>6, <1>7, SeqEqual
<1> QED
  BY <1>8 DEF w, t, u, v

-----------------------------------------------------------------------------
(* The reader has dealt with the first pos bytes and has read the first    *)
(* fill; n responses have come out, those that begin in front of pos.      *)
Stands(at, pos, fill, n) ==
  /\ pos <= fill /\ fill <= Len(stream.bytes)
  /\ rx_buffer = Piece(stream.bytes, pos, fill)
  /\ arriving = Piece(stream.bytes, fill, Len(stream.bytes))
  /\ frames_out = Piece(stream.sent, 0, n)
  /\ \A k \in DOMAIN at : IF k <= n THEN at[k] + FRAME_LEN <= pos + 1 ELSE pos < at[k]

Follows(at, m) ==
  /\ SentAt(stream, at)
  /\ \E pos, fill \in Nat : \E n \in 0 .. m : Stands(at, pos, fill, n)

FramesInv ==
  /\ stream \in WireInputs
  /\ \E m \in Nat : \E at \in [1 .. m -> Starts(stream.bytes)] : Follows(at, m)

(* A stream is a sequence of bytes, by StreamsUnmistakable.                *)
LEMMA StreamType ==
  ASSUME NEW w \in WireInputs
  PROVE  w.bytes \in Seq(SUBSET ByteBit) /\ Len(w.bytes) \in Nat
BY StreamsUnmistakable

(* The responses that were sent are a sequence, as long as the places they *)
(* were sent at.                                                           *)
LEMMA SentSequence ==
  ASSUME NEW w, NEW m \in Nat, NEW at \in [1 .. m -> Starts(w.bytes)], SentAt(w, at)
  PROVE  \E S : w.sent \in Seq(S) /\ Len(w.sent) = m
<1> DEFINE item(k) == decode_response(Model, SubSeq(w.bytes, at[k] + 2, at[k] + FRAME_LEN - 1))
           S == {item(k) : k \in 1 .. m}
<1>1. w.sent = [k \in 1 .. m |-> item(k)]
  BY DEF SentAt
<1> HIDE DEF item
<1>2. [k \in 1 .. m |-> item(k)] \in Seq(S) /\ Len([k \in 1 .. m |-> item(k)]) = m
  OBVIOUS
<1> QED
  BY <1>1, <1>2

(* Before the first read no response has come out.                         *)
LEMMA FramesStart == FramesInit => FramesInv
<1> SUFFICES ASSUME FramesInit PROVE FramesInv
  OBVIOUS
<1> DEFINE b == stream.bytes
<1>1. stream \in WireInputs /\ arriving = b /\ rx_buffer = <<>> /\ frames_out = <<>>
  BY DEF FramesInit
<1>2. b \in Seq(SUBSET ByteBit) /\ Len(b) \in Nat
  BY <1>1, StreamType
<1>0. \E n \in 0 .. Len(b) : \E at \in [1 .. n -> Starts(b)] : SentAt(stream, at)
  <2> DEFINE Sent(w) == \E n \in 0 .. Len(w.bytes) : \E at \in [1 .. n -> Starts(w.bytes)] : SentAt(w, at)
  <2>1. \A w \in WireInputs : Sent(w)
    BY StreamsUnmistakable
  <2> HIDE DEF Sent
  <2>2. Sent(stream)
    BY <1>1, <2>1
  <2> QED
    BY <2>2, Zenon DEF Sent
<1>b. PICK m \in 0 .. Len(b) : \E at \in [1 .. m -> Starts(b)] : SentAt(stream, at)
  BY <1>0, Zenon
<1>3. PICK at \in [1 .. m -> Starts(b)] : SentAt(stream, at)
  BY <1>b, Zenon
<1>4. m \in Nat
  BY <1>2, <1>b
<1>5. PICK S : stream.sent \in Seq(S) /\ Len(stream.sent) = m
  BY <1>3, <1>4, SentSequence
<1>6. \A T : \A s \in Seq(T) : Piece(s, 0, 0) = <<>> /\ Piece(s, 0, Len(s)) = s
  BY DEF Piece
<1>7. \A k \in DOMAIN at : ~(k <= 0) /\ 0 < at[k]
  BY <1>3, <1>4 DEF Starts
<1>8. Stands(at, 0, 0, 0)
  BY <1>1, <1>2, <1>5, <1>6, <1>7 DEF Stands
<1>9. Follows(at, m)
  BY <1>3, <1>4, <1>8 DEF Follows
<1> QED
  BY <1>1, <1>3, <1>4, <1>9 DEF FramesInv

(* A read moves bytes from the stream to the end of the buffer, however    *)
(* many it brings.                                                         *)
LEMMA ReadKeeps ==
  ASSUME FramesInv, NEW n, ReadBytes(n)
  PROVE  FramesInv'
<1> DEFINE b == stream.bytes
           l == Len(b)
<1>1. stream \in WireInputs /\ b \in Seq(SUBSET ByteBit) /\ l \in Nat
  BY StreamType DEF FramesInv
<1>0. PICK m \in Nat : \E at \in [1 .. m -> Starts(b)] : Follows(at, m)
  BY Zenon DEF FramesInv
<1>2. PICK at \in [1 .. m -> Starts(b)] : Follows(at, m)
  BY <1>0, Zenon
<1>3. PICK pos \in Nat, fill \in Nat, k \in 0 .. m : Stands(at, pos, fill, k)
  BY <1>2 DEF Follows
<1> HIDE DEF l
<1>4. /\ pos <= fill /\ fill <= l /\ rx_buffer = Piece(b, pos, fill) /\ arriving = Piece(b, fill, l)
      /\ frames_out = Piece(stream.sent, 0, k)
  BY <1>3 DEF Stands, l
<1>5. n \in 1 .. Len(arriving) /\ UNCHANGED <<stream, frames_out>>
      /\ rx_buffer' = rx_buffer \o SubSeq(arriving, 1, n)
      /\ arriving' = SubSeq(arriving, n + 1, Len(arriving))
  BY DEF ReadBytes
<1>6. Len(arriving) = l - fill
  <2>1. l = Len(b) /\ l <= l
    BY <1>1 DEF l
  <2>2. b \in Seq(SUBSET ByteBit) /\ fill <= l /\ l \in Nat /\ l <= Len(b)
    BY <1>1, <1>4, <2>1
  <2> HIDE DEF b
  <2>3. PieceOf(SUBSET ByteBit, b, fill, l, Piece(b, fill, l))
    BY <2>2, PieceParts
  <2> QED
    BY <1>4, <2>3 DEF PieceOf
<1> DEFINE f == fill + n
<1>7. /\ f \in Nat /\ n \in Nat /\ fill <= f /\ pos <= f /\ f <= l
      /\ fill + (l - fill) = l /\ fill + 0 = fill
      /\ l - fill \in Nat /\ 0 <= n /\ n <= l - fill /\ 0 \in Nat /\ l - fill <= l - fill
  <2>1. l \in Nat /\ pos <= fill /\ fill <= l /\ n \in 1 .. l - fill
    BY <1>1, <1>4, <1>5, <1>6 DEF l
  <2> HIDE DEF b
  <2>2. n \in Nat /\ 0 <= n /\ n <= l - fill /\ l - fill \in Nat
    BY <2>1
  <2>3. fill + n \in Nat /\ fill <= fill + n /\ pos <= fill + n /\ fill + n <= l
    BY <2>1, <2>2
  <2>4. fill + (l - fill) = l /\ fill + 0 = fill /\ l - fill <= l - fill
    BY <2>1, <2>2
  <2> QED
    BY <2>2, <2>3, <2>4
<1>7a. l = Len(b) /\ l <= l
  BY <1>1 DEF l
<1>8. SubSeq(arriving, 1, n) = Piece(b, fill, f)
  <2>1. SubSeq(arriving, 1, n) = Piece(arriving, 0, n)
    BY DEF Piece
  <2>2. Piece(Piece(b, fill, l), 0, n) = Piece(b, fill + 0, fill + n)
    <3>1. b \in Seq(SUBSET ByteBit) /\ fill <= l /\ l \in Nat /\ l <= Len(b)
      BY <1>1, <1>4, <1>7a
    <3>2. n \in Nat /\ 0 \in Nat /\ l - fill \in Nat /\ 0 <= n /\ n <= l - fill
          /\ l - fill <= l - fill
      BY <1>7
    <3> HIDE DEF b
    <3> QED
      BY <3>1, <3>2, PieceOfPiece, SMTT(30)
  <2> QED
    BY <1>4, <1>7, <2>1, <2>2
<1>9. arriving' = Piece(b, f, l)
  <2>1. arriving' = Piece(arriving, n, l - fill)
    BY <1>5, <1>6 DEF Piece
  <2>2. Piece(Piece(b, fill, l), n, l - fill) = Piece(b, fill + n, fill + (l - fill))
    <3>1. b \in Seq(SUBSET ByteBit) /\ fill <= l /\ l \in Nat /\ l <= Len(b)
      BY <1>1, <1>4, <1>7a
    <3>2. n \in Nat /\ 0 \in Nat /\ l - fill \in Nat /\ 0 <= n /\ n <= l - fill
          /\ l - fill <= l - fill
      BY <1>7
    <3> HIDE DEF b
    <3> QED
      BY <3>1, <3>2, PieceOfPiece, SMTT(30)
  <2> QED
    BY <1>4, <1>7, <2>1, <2>2
<1> HIDE DEF f
<1>10. rx_buffer' = Piece(b, pos, f)
  <2>1. Piece(b, pos, fill) \o Piece(b, fill, f) = Piece(b, pos, f)
    <3>1. b \in Seq(SUBSET ByteBit) /\ pos <= fill /\ fill <= f /\ f \in Nat /\ f <= Len(b)
      BY <1>1, <1>4, <1>7, <1>7a
    <3> HIDE DEF b
    <3> QED
      BY <3>1, PiecesJoin, SMTT(30)
  <2> QED
    BY <1>4, <1>5, <1>8, <2>1
<1>11. Stands(at, pos, f, k)'
  BY <1>3, <1>4, <1>5, <1>7, <1>9, <1>10 DEF Stands, l
<1>12. SentAt(stream, at)'
  BY <1>2, <1>5 DEF Follows
<1>13. Follows(at, m)'
  BY <1>7, <1>11, <1>12 DEF Follows
<1> QED
  BY <1>1, <1>2, <1>5, <1>13 DEF FramesInv

(* What the decoder makes of the bytes in front of it, by the stream.      *)
LEMMA DecodeSees ==
  ASSUME NEW b \in Seq(SUBSET ByteBit), NEW pos \in Nat, NEW fill \in Nat,
         pos <= fill, fill <= Len(b),
         NEW got, got = decode(Model, Piece(b, pos, fill))
  PROVE  /\ fill - pos < FRAME_LEN => got.rest = Piece(b, pos, fill) /\ got.item = NoItem
         /\ fill - pos >= FRAME_LEN /\ pos + 1 \in Starts(b) =>
              /\ got.rest = Piece(b, pos + FRAME_LEN, fill) /\ got.item # NoItem
              /\ got.item = decode_response(Model, Piece(b, pos + 2, pos + FRAME_LEN))
         /\ fill - pos >= FRAME_LEN /\ pos + 1 \notin Starts(b) =>
              got.rest = Piece(b, pos + 1, fill) /\ got.item = NoItem
<1> DEFINE src == Piece(b, pos, fill)
           d == fill - pos
           Frame == SubSeq(src, 3, FRAME_LEN)
           Item == decode_response(Model, Frame)
           Skips(n, item) == [rest |-> SubSeq(src, n + 1, Len(src)), item |-> item]
           Bad == SubSeq(src, 1, 2) # Preamble \/ ~crc5_is_valid(Frame) \/ Item = NoItem
<1>1. got = IF Len(src) < FRAME_LEN THEN Skips(0, NoItem)
            ELSE IF Bad THEN Skips(1, NoItem) ELSE Skips(FRAME_LEN, Item)
  BY DEF decode
<1>2. Len(src) = d /\ d \in Nat /\ FRAME_LEN = 11
  <2>1. PieceOf(SUBSET ByteBit, b, pos, fill, src)
    BY PieceParts
  <2> HIDE DEF src
  <2> QED
    BY <2>1 DEF PieceOf, FRAME_LEN
<1>3. \A n, i : Skips(n, i).rest = Piece(src, n, d) /\ Skips(n, i).item = i
  BY <1>2 DEF Piece
<1>4. \A n \in Nat : n <= d => Piece(src, n, d) = Piece(b, pos + n, fill)
  <2> TAKE n \in Nat
  <2> HAVE n <= d
  <2>1. d <= fill - pos /\ pos + d = fill /\ d \in Nat
    BY <1>2
  <2> HIDE DEF d
  <2>2. Piece(Piece(b, pos, fill), n, d) = Piece(b, pos + n, pos + d)
    BY <2>1, PieceOfPiece
  <2> QED
    BY <2>1, <2>2
<1>5. ASSUME d >= 11
      PROVE  /\ SubSeq(src, 1, 2) = Piece(b, pos, pos + 2) /\ Frame = Piece(b, pos + 2, pos + 11)
             /\ Bad <=> pos + 1 \notin Starts(b)
  <2>1. Piece(src, 0, 2) = Piece(b, pos + 0, pos + 2)
    BY <1>2, <1>5, PieceOfPiece
  <2>2. Piece(src, 2, 11) = Piece(b, pos + 2, pos + 11)
    BY <1>2, <1>5, PieceOfPiece
  <2>3. SubSeq(src, 1, 2) = Piece(src, 0, 2) /\ Frame = Piece(src, 2, 11) /\ pos + 0 = pos
    BY <1>2 DEF Piece
  <2> DEFINE p == pos + 1
  <2>4. SubSeq(b, p, p + 1) = Piece(b, pos, pos + 2)
        /\ SubSeq(b, p + 2, p + FRAME_LEN - 1) = Piece(b, pos + 2, pos + 11)
    BY <1>2 DEF Piece
  <2>5. p \in 1 .. Len(b) - FRAME_LEN + 1
    BY <1>2, <1>5
  <2> HIDE DEF p, src
  <2>6. p \in Starts(b) <=> FrameAt(b, p)
    BY <2>5 DEF Starts
  <2>7. FrameAt(b, p) <=> ~Bad
    BY <2>1, <2>2, <2>3, <2>4, Zenon DEF FrameAt
  <2> QED
    BY <2>1, <2>2, <2>3, <2>6, <2>7 DEF p
<1> HIDE DEF src, Frame, Item, Skips, Bad
<1>6. CASE d < 11
  <2>1. got = Skips(0, NoItem)
    BY <1>1, <1>2, <1>6
  <2>2. Piece(src, 0, d) = Piece(b, pos, fill) /\ ~(fill - pos >= FRAME_LEN)
    BY <1>2, <1>4, <1>6
  <2> QED
    BY <1>3, <2>1, <2>2
<1>7. CASE d >= 11 /\ Bad
  <2>1. got = Skips(1, NoItem)
    BY <1>1, <1>2, <1>7
  <2>2. Piece(src, 1, d) = Piece(b, pos + 1, fill) /\ ~(fill - pos < FRAME_LEN)
    BY <1>2, <1>4, <1>7
  <2> QED
    BY <1>3, <1>5, <1>7, <2>1, <2>2
<1>8. CASE d >= 11 /\ ~Bad
  <2>1. got = Skips(FRAME_LEN, Item)
    BY <1>1, <1>2, <1>8
  <2>2. Piece(src, FRAME_LEN, d) = Piece(b, pos + FRAME_LEN, fill) /\ ~(fill - pos < FRAME_LEN)
    BY <1>2, <1>4, <1>8
  <2>3. Item # NoItem /\ Item = decode_response(Model, Piece(b, pos + 2, pos + FRAME_LEN))
    BY <1>2, <1>5, <1>8, Zenon DEF Bad, Item
  <2> QED
    BY <1>3, <1>5, <1>8, <2>1, <2>2, <2>3
<1> QED
  BY <1>2, <1>6, <1>7, <1>8

(* A prefix and the element behind it are the next longer prefix.          *)
LEMMA PieceGrows ==
  ASSUME NEW S, NEW s \in Seq(S), NEW n \in Nat, n + 1 <= Len(s)
  PROVE  Append(Piece(s, 0, n), s[n + 1]) = Piece(s, 0, n + 1)
<1> DEFINE t == Piece(s, 0, n)
           e == s[n + 1]
           u == Piece(s, 0, n + 1)
           v == Append(t, e)
<1>0. \A l \in Nat : l <= Len(s) =>
        /\ Piece(s, 0, l) \in Seq(S) /\ Len(Piece(s, 0, l)) = l
        /\ \A k \in 1 .. l : Piece(s, 0, l)[k] = s[k]
  <2> TAKE l \in Nat
  <2> HAVE l <= Len(s)
  <2>1. 0 \in Nat /\ 0 <= l
    OBVIOUS
  <2>2. PieceOf(S, s, 0, l, Piece(s, 0, l))
    BY <2>1, PieceParts
  <2> QED
    BY <2>2 DEF PieceOf
<1>1. t \in Seq(S) /\ Len(t) = n /\ \A k \in 1 .. n : t[k] = s[k]
  BY <1>0
<1>2. u \in Seq(S) /\ Len(u) = n + 1 /\ \A k \in 1 .. n + 1 : u[k] = s[k]
  BY <1>0
<1>3. e \in S
  BY ElementOfSeq
<1> HIDE DEF t, u
<1>4. v \in Seq(S) /\ Len(v) = n + 1 /\ (\A k \in 1 .. n : v[k] = t[k]) /\ v[n + 1] = e
  BY <1>1, <1>3, AppendProperties
<1> HIDE DEF v
<1>5. ASSUME NEW k \in 1 .. Len(v) PROVE v[k] = u[k]
  <2>1. k \in 1 .. n + 1 /\ n + 1 \in 1 .. n + 1
    BY <1>4
  <2>2. CASE k = n + 1
    BY <1>2, <1>4, <2>1, <2>2 DEF e
  <2>3. CASE k # n + 1
    <3>1. k \in 1 .. n
      BY <2>1, <2>3
    <3> QED
      BY <1>1, <1>2, <1>4, <2>1, <3>1
  <2> QED
    BY <2>2, <2>3
<1>6. v = u
  BY <1>2, <1>4, <1>5, SeqEqual
<1> QED
  BY <1>6 DEF t, e, u, v

(* A call of the decoder consumes nothing, the first byte of no response,  *)
(* or a whole response, which is the next one that was sent.               *)
LEMMA DecodeKeeps == ASSUME FramesInv, CallDecode PROVE FramesInv'
<1> DEFINE b == stream.bytes
           got == decode(Model, rx_buffer)
<1>1. stream \in WireInputs /\ b \in Seq(SUBSET ByteBit) /\ Len(b) \in Nat
  BY StreamType DEF FramesInv
<1>0. PICK m \in Nat : \E at \in [1 .. m -> Starts(b)] : Follows(at, m)
  BY Zenon DEF FramesInv
<1>2. PICK at \in [1 .. m -> Starts(b)] : Follows(at, m)
  BY <1>0, Zenon
<1>3. PICK pos \in Nat, fill \in Nat, n \in 0 .. m : Stands(at, pos, fill, n)
  BY <1>2 DEF Follows
<1>4. /\ pos <= fill /\ fill <= Len(b) /\ rx_buffer = Piece(b, pos, fill)
      /\ frames_out = Piece(stream.sent, 0, n)
      /\ \A k \in 1 .. m : IF k <= n THEN at[k] + FRAME_LEN <= pos + 1 ELSE pos < at[k]
      /\ arriving = Piece(b, fill, Len(b))
  BY <1>2, <1>3 DEF Stands
<1>5. /\ rx_buffer' = got.rest
      /\ frames_out' = IF got.item = NoItem THEN frames_out ELSE Append(frames_out, got.item)
      /\ UNCHANGED <<stream, arriving>>
  BY DEF CallDecode
<1>6. /\ fill - pos < FRAME_LEN => got.rest = Piece(b, pos, fill) /\ got.item = NoItem
      /\ fill - pos >= FRAME_LEN /\ pos + 1 \in Starts(b) =>
           /\ got.rest = Piece(b, pos + FRAME_LEN, fill) /\ got.item # NoItem
           /\ got.item = decode_response(Model, Piece(b, pos + 2, pos + FRAME_LEN))
      /\ fill - pos >= FRAME_LEN /\ pos + 1 \notin Starts(b) =>
           got.rest = Piece(b, pos + 1, fill) /\ got.item = NoItem
  BY <1>1, <1>4, DecodeSees
<1>7. FRAME_LEN = 11 /\ \A k \in 1 .. m : at[k] \in Nat /\ at[k] \in Starts(b)
  BY <1>1 DEF FRAME_LEN, Starts
<1>8. SentAt(stream, at)
  BY <1>2 DEF Follows
<1>9. ASSUME NEW p \in Nat, NEW k \in 0 .. m, p <= fill, got.rest = Piece(b, p, fill),
             frames_out' = Piece(stream.sent, 0, k),
             \A i \in 1 .. m : IF i <= k THEN at[i] + FRAME_LEN <= p + 1 ELSE p < at[i]
      PROVE  FramesInv'
  <2>1. Stands(at, p, fill, k)'
    BY <1>4, <1>5, <1>9 DEF Stands
  <2>2. Follows(at, m)'
    BY <1>5, <1>8, <2>1 DEF Follows
  <2> QED
    BY <1>1, <1>5, <2>2 DEF FramesInv
<1> HIDE DEF got
<1>10. CASE fill - pos < FRAME_LEN
  BY <1>4, <1>5, <1>6, <1>9, <1>10
<1>11. CASE fill - pos >= FRAME_LEN /\ pos + 1 \notin Starts(b)
  <2> DEFINE p == pos + 1
  <2>1. p \in Nat /\ p <= fill
    BY <1>7, <1>11
  <2>2. ASSUME NEW i \in 1 .. m PROVE IF i <= n THEN at[i] + FRAME_LEN <= p + 1 ELSE p < at[i]
    <3>1. at[i] \in Nat /\ at[i] # pos + 1
      BY <1>7, <1>11
    <3>2. IF i <= n THEN at[i] + FRAME_LEN <= pos + 1 ELSE pos < at[i]
      BY <1>4
    <3> QED
      BY <1>7, <3>1, <3>2
  <2>3. got.rest = Piece(b, p, fill) /\ frames_out' = Piece(stream.sent, 0, n)
    BY <1>4, <1>5, <1>6, <1>11
  <2> HIDE DEF p
  <2> QED
    BY <1>9, <2>1, <2>2, <2>3
<1>12. CASE fill - pos >= FRAME_LEN /\ pos + 1 \in Starts(b)
  <2> DEFINE p == pos + FRAME_LEN
             j == n + 1
  <2>1. p \in Nat /\ p <= fill
    BY <1>7, <1>12
  <2>2. PICK k \in 1 .. m : at[k] <= pos + 1 /\ pos + 1 < at[k] + FRAME_LEN
    BY <1>8, <1>12 DEF SentAt
  <2>3. ~(k <= n) /\ at[k] = pos + 1 /\ j \in 1 .. m /\ j <= k
    BY <1>4, <1>7, <2>2
  <2>4. \A h, i \in 1 .. m : h < i => at[h] + FRAME_LEN <= at[i]
    BY <1>8 DEF SentAt
  <2>5. k = j
    <3>1. pos < at[j] /\ at[j] \in Nat
      BY <1>4, <1>7, <2>3
    <3>2. j < k => at[j] + FRAME_LEN <= at[k]
      BY <2>3, <2>4
    <3> QED
      BY <1>7, <2>3, <3>1, <3>2
  <2>6. ASSUME NEW i \in 1 .. m PROVE IF i <= j THEN at[i] + FRAME_LEN <= p + 1 ELSE p < at[i]
    <3>1. CASE i <= n
      <4>1. at[i] + FRAME_LEN <= pos + 1 /\ at[i] \in Nat
        BY <1>4, <1>7, <3>1
      <4> QED
        BY <1>7, <3>1, <4>1
    <3>2. CASE i = j
      BY <1>7, <2>3, <2>5, <3>2
    <3>3. CASE j < i
      BY <1>7, <2>3, <2>4, <2>5, <3>3
    <3> QED
      BY <3>1, <3>2, <3>3
  <2>7. frames_out' = Piece(stream.sent, 0, j)
    <3>1. stream.sent[j]
            = decode_response(Model, SubSeq(b, at[j] + 2, at[j] + FRAME_LEN - 1))
      BY <1>8, <2>3 DEF SentAt
    <3>2. SubSeq(b, at[j] + 2, at[j] + FRAME_LEN - 1) = Piece(b, pos + 2, pos + FRAME_LEN)
      <4>1. at[j] = pos + 1
        BY <2>3, <2>5
      <4>2. at[j] + 2 = (pos + 2) + 1 /\ at[j] + FRAME_LEN - 1 = pos + FRAME_LEN
        BY <1>7, <4>1
      <4> QED
        BY <4>2 DEF Piece
    <3>3. got.item = stream.sent[j] /\ got.item # NoItem
      BY <1>6, <1>12, <3>1, <3>2
    <3>4. PICK S : stream.sent \in Seq(S) /\ Len(stream.sent) = m
      BY <1>1, <1>8, SentSequence
    <3>5. Append(Piece(stream.sent, 0, n), stream.sent[n + 1]) = Piece(stream.sent, 0, n + 1)
      BY <2>3, <3>4, PieceGrows
    <3> QED
      BY <1>4, <1>5, <3>3, <3>5
  <2>8. got.rest = Piece(b, p, fill) /\ j \in 0 .. m
    BY <1>6, <1>12, <2>3
  <2> HIDE DEF p, j
  <2> QED
    BY <1>9, <2>1, <2>6, <2>7, <2>8
<1> QED
  BY <1>1, <1>4, <1>7, <1>10, <1>11, <1>12

(* The encoder leaves what is read alone.                                  *)
LEMMA SendKeeps == ASSUME FramesInv, FramesWrite PROVE FramesInv'
<1>1. UNCHANGED <<stream, arriving, rx_buffer, frames_out>>
  BY DEF FramesWrite, Sends, SendChainInactive, SendAddress, SendRead, SendWrite, SendBack,
         SendJobFull, SendJobMidstate
<1> QED
  BY <1>1 DEF FramesInv, Follows, Stands

(* The inductive invariant of the responses holds in every reachable state *)
(* of codec.rs's decoder under Framed.                                     *)
THEOREM FramesInvariant == FramesSpec => []FramesInv
<1>1. FramesInit => FramesInv
  BY FramesStart
<1>2. FramesInv /\ [FramesRead \/ FramesWrite]_frameVars => FramesInv'
  <2> SUFFICES ASSUME FramesInv, [FramesRead \/ FramesWrite]_frameVars PROVE FramesInv'
    OBVIOUS
  <2>1. CASE FramesRead
    BY <2>1, ReadKeeps, DecodeKeeps DEF FramesRead
  <2>2. CASE FramesWrite
    BY <2>2, SendKeeps
  <2>3. CASE UNCHANGED frameVars
    BY <2>3 DEF FramesInv, Follows, Stands, frameVars
  <2> QED
    BY <2>1, <2>2, <2>3
<1> QED
  BY <1>1, <1>2, PTL DEF FramesSpec

(* The stream behind the decoder: the frames in it are those of the whole  *)
(* stream from there on.                                                   *)
LEMMA FramesBehind ==
  ASSUME NEW b \in Seq(SUBSET ByteBit), NEW pos \in Nat, pos <= Len(b),
         NEW i \in Nat, i >= 1, i + FRAME_LEN - 1 <= Len(b) - pos
  PROVE  LET c == Piece(b, pos, Len(b))
         IN /\ i \in Starts(c) <=> pos + i \in Starts(b)
            /\ SubSeq(c, i + 2, i + FRAME_LEN - 1)
                 = SubSeq(b, (pos + i) + 2, (pos + i) + FRAME_LEN - 1)
<1> DEFINE l == Len(b)
           c == Piece(b, pos, l)
           p == pos + i
<1>1. FRAME_LEN = 11 /\ l \in Nat /\ i + 10 <= l - pos
  BY DEF FRAME_LEN
<1>2. Len(c) = l - pos
  <2>1. pos <= l /\ l <= Len(b)
    OBVIOUS
  <2>2. PieceOf(SUBSET ByteBit, b, pos, l, c)
    BY <1>1, <2>1, PieceParts
  <2> HIDE DEF c
  <2> QED
    BY <2>2 DEF PieceOf
<1>3. ASSUME NEW m \in Nat, NEW n \in Nat, m <= n, n <= l - pos
      PROVE  Piece(c, m, n) = Piece(b, pos + m, pos + n)
  <2> HIDE DEF l
  <2>1. pos <= l /\ l <= Len(b)
    BY DEF l
  <2> QED
    BY <1>1, <1>3, <2>1, PieceOfPiece
<1> HIDE DEF c
<1>4. SubSeq(c, i, i + 1) = SubSeq(b, p, p + 1)
  <2>1. i - 1 \in Nat /\ i + 1 \in Nat /\ i - 1 <= i + 1 /\ i + 1 <= l - pos
    BY <1>1
  <2>2. Piece(c, i - 1, i + 1) = Piece(b, pos + (i - 1), pos + (i + 1))
    BY <1>3, <2>1
  <2>3. (i - 1) + 1 = i /\ (pos + (i - 1)) + 1 = p /\ pos + (i + 1) = p + 1
    OBVIOUS
  <2> HIDE DEF p
  <2> QED
    BY <2>2, <2>3 DEF Piece
<1>5. SubSeq(c, i + 2, i + FRAME_LEN - 1) = SubSeq(b, p + 2, p + FRAME_LEN - 1)
  <2>1. i + 1 \in Nat /\ i + 10 \in Nat /\ i + 1 <= i + 10
    OBVIOUS
  <2>2. Piece(c, i + 1, i + 10) = Piece(b, pos + (i + 1), pos + (i + 10))
    BY <1>1, <1>3, <2>1
  <2>3. (i + 1) + 1 = i + 2 /\ (pos + (i + 1)) + 1 = p + 2 /\ pos + (i + 10) = p + FRAME_LEN - 1
        /\ i + 10 = i + FRAME_LEN - 1
    BY <1>1
  <2> HIDE DEF p
  <2> QED
    BY <2>2, <2>3 DEF Piece
<1>6. FrameAt(c, i) <=> FrameAt(b, p)
  BY <1>4, <1>5, Zenon DEF FrameAt
<1>7. i \in 1 .. Len(c) - FRAME_LEN + 1 /\ p \in 1 .. Len(b) - FRAME_LEN + 1
  BY <1>1, <1>2
<1>8. i \in Starts(c) <=> p \in Starts(b)
  BY <1>6, <1>7 DEF Starts
<1> QED
  BY <1>5, <1>8 DEF c, p

(* What has come out is a prefix of what was sent, and what has not begins *)
(* behind the decoder, where the stream is as unmistakable as before.      *)
LEMMA FramesInvSurvive == FramesInv => FramesSurvive
<1> SUFFICES ASSUME FramesInv PROVE FramesSurvive
  OBVIOUS
<1> DEFINE b == stream.bytes
           t == stream.sent
<1>1. stream \in WireInputs /\ b \in Seq(SUBSET ByteBit) /\ Len(b) \in Nat
  BY StreamType DEF FramesInv
<1>0. PICK m \in Nat : \E at \in [1 .. m -> Starts(b)] : Follows(at, m)
  BY Zenon DEF FramesInv
<1>2. PICK at \in [1 .. m -> Starts(b)] : Follows(at, m)
  BY <1>0, Zenon
<1>3. PICK pos \in Nat, fill \in Nat, n \in 0 .. m : Stands(at, pos, fill, n)
  BY <1>2 DEF Follows
<1>4. /\ pos <= fill /\ fill <= Len(b) /\ rx_buffer = Piece(b, pos, fill)
      /\ frames_out = Piece(t, 0, n) /\ arriving = Piece(b, fill, Len(b))
      /\ \A k \in 1 .. m : IF k <= n THEN at[k] + FRAME_LEN <= pos + 1 ELSE pos < at[k]
  BY <1>2, <1>3 DEF Stands
<1>5. PICK S : t \in Seq(S) /\ Len(t) = m
  BY <1>1, <1>2, SentSequence DEF Follows
<1>6. IsPrefix(frames_out, t) /\ Len(frames_out) = n
  <2> DEFINE f == frames_out
  <2>1. f \in Seq(S) /\ Len(f) = n
    <3>1. n \in Nat /\ 0 \in Nat /\ 0 <= n /\ n <= Len(t)
      BY <1>5
    <3>2. PieceOf(S, t, 0, n, Piece(t, 0, n))
      BY <1>5, <3>1, PieceParts
    <3> QED
      BY <1>4, <3>1, <3>2 DEF PieceOf
  <2>2. SubSeq(f, 1, Len(f)) = f
    BY <2>1
  <2>3. SubSeq(t, 1, Len(f)) = f
    BY <1>4, <2>1 DEF Piece
  <2> HIDE DEF f
  <2>4. Len(f) <= Len(t)
    BY <1>5, <2>1
  <2> QED
    BY <2>1, <2>2, <2>3, <2>4 DEF IsPrefix, f
<1> DEFINE c == rx_buffer \o arriving
           rest == SubSeq(t, n + 1, m)
           j == m - n
           left == [k \in 1 .. j |-> at[n + k] - pos]
           Response(s, k) == decode_response(Model, SubSeq(s, k + 2, k + FRAME_LEN - 1))
<1>7. c = Piece(b, pos, Len(b)) /\ pos <= Len(b)
  <2>1. Len(b) <= Len(b) /\ pos <= Len(b)
    BY <1>1, <1>4
  <2> HIDE DEF b
  <2> QED
    BY <1>1, <1>4, <2>1, PiecesJoin
<1>8. SentAt(stream, at) /\ FRAME_LEN = 11 /\ j \in Nat
  BY <1>2 DEF Follows, FRAME_LEN
<1>9. /\ \A h, k \in 1 .. m : h < k => at[h] + FRAME_LEN <= at[k]
      /\ \A s \in Starts(b) : \E k \in 1 .. m : at[k] <= s /\ s < at[k] + FRAME_LEN
      /\ t = [k \in 1 .. m |-> Response(b, at[k])]
  BY <1>8 DEF SentAt
<1>10. rest \in Seq(S) /\ Len(rest) = j /\ \A k \in 1 .. j : rest[k] = t[n + k]
  <2>1. n \in Nat /\ m \in Nat /\ n <= m /\ m <= Len(t)
    BY <1>5
  <2>2. PieceOf(S, t, n, m, Piece(t, n, m))
    BY <1>5, <2>1, PieceParts
  <2> QED
    BY <2>1, <2>2 DEF PieceOf, Piece
<1> HIDE DEF c, rest, b, t
<1>11. ASSUME NEW k \in 1 .. j
       PROVE  /\ left[k] \in Nat /\ left[k] >= 1 /\ left[k] + pos = at[n + k]
              /\ left[k] \in Starts(c) /\ Response(c, left[k]) = rest[k]
  <2> DEFINE i == at[n + k] - pos
             p == at[n + k]
  <2>1. n + k \in 1 .. m /\ ~(n + k <= n)
    BY <1>8
  <2>2. p \in Starts(b) /\ p \in 1 .. Len(b) - FRAME_LEN + 1 /\ pos < p
    BY <1>4, <2>1 DEF Starts
  <2>3. i \in Nat /\ i >= 1 /\ i + FRAME_LEN - 1 <= Len(b) - pos /\ pos + i = p
    BY <1>1, <1>8, <2>2
  <2> HIDE DEF i, p
  <2>4. /\ i \in Starts(c) <=> pos + i \in Starts(b)
        /\ SubSeq(c, i + 2, i + FRAME_LEN - 1)
             = SubSeq(b, (pos + i) + 2, (pos + i) + FRAME_LEN - 1)
    BY <1>1, <1>7, <2>3, FramesBehind
  <2>5. i \in Starts(c) /\ Response(c, i) = Response(b, p)
    BY <2>2, <2>3, <2>4
  <2>6. Response(b, p) = rest[k]
    <3> HIDE DEF Response
    <3> QED
      BY <1>9, <1>10, <2>1 DEF p
  <2> HIDE DEF Response
  <2>7. left[k] = i
    BY DEF i
  <2> QED
    BY <2>3, <2>5, <2>6, <2>7 DEF p
<1> HIDE DEF Response
<1>12. left \in [1 .. j -> Starts(c)]
  BY <1>11
<1>13. \A h, k \in DOMAIN left : h < k => left[h] + FRAME_LEN <= left[k]
  <2> SUFFICES ASSUME NEW h \in 1 .. j, NEW k \in 1 .. j, h < k
               PROVE  left[h] + FRAME_LEN <= left[k]
    OBVIOUS
  <2>1. n + h \in 1 .. m /\ n + k \in 1 .. m /\ n + h < n + k
    BY <1>8
  <2>2. at[n + h] + FRAME_LEN <= at[n + k]
    BY <1>9, <2>1
  <2>3. left[h] \in Nat /\ left[k] \in Nat /\ left[h] + pos = at[n + h] /\ left[k] + pos = at[n + k]
    BY <1>11
  <2> HIDE DEF left
  <2> QED
    BY <1>8, <2>2, <2>3
<1>14. \A s \in Starts(c) : \E k \in DOMAIN left : left[k] <= s /\ s < left[k] + FRAME_LEN
  <2> TAKE s \in Starts(c)
  <2>1. s \in Nat /\ s >= 1 /\ s + FRAME_LEN - 1 <= Len(b) - pos
    <3>1. s \in 1 .. Len(c) - FRAME_LEN + 1
      BY DEF Starts
    <3>2. Len(c) = Len(b) - pos
      <4> DEFINE l == Len(b)
      <4>1. pos <= l /\ l <= Len(b) /\ l \in Nat /\ c = Piece(b, pos, l)
        BY <1>1, <1>7
      <4> HIDE DEF l
      <4>2. PieceOf(SUBSET ByteBit, b, pos, l, c)
        BY <1>1, <4>1, PieceParts
      <4> QED
        BY <4>2 DEF PieceOf, l
    <3> QED
      BY <1>1, <1>8, <3>1, <3>2
  <2>2. pos + s \in Starts(b)
    BY <1>1, <1>7, <2>1, FramesBehind
  <2>3. PICK k \in 1 .. m : at[k] <= pos + s /\ pos + s < at[k] + FRAME_LEN
    BY <1>9, <2>2
  <2>4. at[k] \in Nat
    BY DEF Starts
  <2>5. ~(k <= n)
    BY <1>4, <1>8, <2>1, <2>3, <2>4
  <2> DEFINE h == k - n
  <2>6. h \in 1 .. j /\ n + h = k
    BY <2>5
  <2> HIDE DEF h
  <2>7. left[h] \in Nat /\ left[h] + pos = at[k]
    BY <1>11, <2>6
  <2>8. h \in DOMAIN left
    BY <2>6
  <2> HIDE DEF left
  <2>9. left[h] <= s /\ s < left[h] + FRAME_LEN
    BY <1>8, <2>1, <2>3, <2>4, <2>7
  <2> QED
    BY <2>8, <2>9
<1>15. rest = [k \in DOMAIN left |-> Response(c, left[k])]
  <2> DEFINE v == [k \in 1 .. j |-> Response(c, left[k])]
  <2>1. DOMAIN left = 1 .. j
    OBVIOUS
  <2>2. \A k \in 1 .. j : rest[k] = v[k]
    BY <1>11
  <2>3. DOMAIN rest = 1 .. j /\ rest = [k \in 1 .. j |-> rest[k]]
    BY <1>8, <1>10
  <2> HIDE DEF left
  <2> QED
    BY <2>1, <2>2, <2>3
<1>16. SentAt([bytes |-> c, sent |-> rest], left)
  <2> HIDE DEF left
  <2> QED
    BY <1>13, <1>14, <1>15 DEF SentAt, Response
<1>17. Carries(c, rest)
  BY <1>10, <1>12, <1>16 DEF Carries
<1>18. rest = SubSeq(stream.sent, Len(frames_out) + 1, Len(stream.sent))
  BY <1>5, <1>6 DEF rest, t
<1> QED
  BY <1>6, <1>17, <1>18 DEF FramesSurvive, c, t

(* However the stream is cut into reads, the responses the chips sent come *)
(* out of FrameCodec::decode in order, nothing else does, and those that   *)
(* are not out yet lie whole in the buffer and in what is still to arrive. *)
THEOREM FramesSurviveCorrect == FramesSpec => []FramesSurvive
BY FramesInvariant, FramesInvSurvive, PTL
=============================================================================
