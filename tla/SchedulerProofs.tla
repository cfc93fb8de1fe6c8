-------------------------- MODULE SchedulerProofs --------------------------
(***************************************************************************)
(* Machine-checked proofs that the properties TLC checks of Scheduler on   *)
(* small instances hold for any sets of sources, threads and rates and any *)
(* number of jobs and shares.                                              *)
(***************************************************************************)
EXTENDS Scheduler, FiniteSetTheorems, TLAPS

(* Every subset of Threads is finite, so its Cardinality is a number.      *)
LEMMA ThreadCount ==
  ASSUME NEW T, T \subseteq Threads
  PROVE  IsFiniteSet(T) /\ Cardinality(T) \in Nat
BY ThreadsFinite, FS_Subset, FS_CardinalityType

(* Appending keeps a sequence's element type.                              *)
LEMMA AppendType ==
  ASSUME NEW S, NEW q \in Seq(S), NEW x \in S
  PROVE  Append(q, x) \in Seq(S)
OBVIOUS

(* The gate's methods return gates.                                        *)
LEMMA GateType ==
  ASSUME NEW g \in StartupGate
  PROVE  /\ record_registered(g) \in StartupGate
         /\ record_reported(g) \in StartupGate
         /\ record_enumeration_complete(g) \in StartupGate
         /\ record_timeout(g) \in StartupGate
<1>1. record_registered(g) \in StartupGate
  BY DEF StartupGate, record_registered
<1>2. ASSUME NEW h \in StartupGate PROVE try_open(h) \in StartupGate
  BY DEF StartupGate, try_open
<1>3. [g EXCEPT !.reported = g.reported + 1] \in StartupGate
  BY DEF StartupGate
<1>4. [g EXCEPT !.enumeration_complete = TRUE] \in StartupGate
  BY DEF StartupGate
<1>5. record_timeout(g) \in StartupGate
  BY DEF StartupGate, record_timeout
<1> QED BY <1>1, <1>2, <1>3, <1>4, <1>5 DEF record_reported, record_enumeration_complete

(* What a broadcast leaves in told is well typed.                          *)
LEMMA BroadcastType ==
  ASSUME TypeOK, expected' \in [Threads -> Rate], broadcast_hashrate_change
  PROVE  told' \in [Sources -> [Threads -> Rate]]
BY DEF TypeOK, broadcast_hashrate_change, allocated_hashrate, Listening

(* Entering assignments in the task table keeps it well typed.             *)
LEMMA TasksAfterType ==
  ASSUME TypeOK, NEW kept \in SUBSET TaskEntry, NEW tried \in SUBSET TaskEntry,
         NEW made \in SUBSET tried, TasksAfter(kept, tried, made)
  PROVE  /\ tasks' \subseteq TaskEntry /\ chans' \subseteq TaskEntry
         /\ failed' \subseteq Sources \X Threads
BY DEF TypeOK, TasksAfter, TaskEntry

(* The state of every handler stays within the types of its fields.        *)
THEOREM TypeCorrect == Spec => []TypeOK
<1>1. Init => TypeOK
  <2>1. NewGate \in StartupGate
    BY DEF NewGate, StartupGate
  <2>2. ASSUME NEW S PROVE <<>> \in Seq(S)
    OBVIOUS
  <2>3. Init => gate_deadline \in BOOLEAN /\ submitted \in Seq([source : Sources, job : Job \ {NoJob}])
    BY <2>2 DEF Init
  <2> QED BY <2>1, <2>3, BoundsAreNat DEF Init, TypeOK, Job, NoJob, Rate
<1>2. TypeOK /\ [Next]_vars => TypeOK'
  <2> SUFFICES ASSUME TypeOK, [Next]_vars PROVE TypeOK'
    OBVIOUS
  <2> USE BoundsAreNat DEF TypeOK, loopVars, sourceVars, threadVars, taskVars, shareVars
  <2>1. ASSUME NEW s \in Sources, handle_source_registration(s) PROVE TypeOK'
    BY <2>1, BroadcastType DEF handle_source_registration, Selected, broadcast_unless_holding
  <2>2. ASSUME NEW s \in Sources, NEW mode, assign_job_to_threads(mode, s)
        PROVE  /\ tasks' \subseteq TaskEntry /\ chans' \subseteq TaskEntry
               /\ failed' \subseteq Sources \X Threads
               /\ last_job' \in [Sources -> Job] /\ jobs' \in Job
               /\ floor' \in [Sources -> 0 .. MaxJobs + 1]
    <3>1. jobs + 1 \in Job \ {NoJob} /\ jobs + 1 \in 0 .. MaxJobs + 1
      BY <2>2 DEF assign_job_to_threads, Job, NoJob
    <3>2. JobOffers(s) \in SUBSET TaskEntry /\ KeptTasks(mode, s) \in SUBSET TaskEntry
      BY <3>1 DEF TaskEntry, JobOffers, KeptTasks, eligible_thread_ids
    <3>3. PICK made \in SUBSET JobOffers(s) : TasksAfter(KeptTasks(mode, s), JobOffers(s), made)
      BY <2>2 DEF assign_job_to_threads
    <3>4. /\ last_job' \in [Sources -> Job] /\ jobs' \in Job
          /\ floor' \in [Sources -> 0 .. MaxJobs + 1]
      BY <2>2, <3>1 DEF assign_job_to_threads
    <3> QED BY <3>2, <3>3, <3>4, TasksAfterType
  <2>3. ASSUME NEW s \in Sources, SourceEvent_UpdateJob(s) PROVE TypeOK'
    BY <2>2, <2>3 DEF SourceEvent_UpdateJob, Selected
  <2>4. ASSUME NEW s \in Sources, SourceEvent_ReplaceJob(s) PROVE TypeOK'
    BY <2>2, <2>4 DEF SourceEvent_ReplaceJob, Selected
  <2>5. ASSUME NEW s \in Sources, handle_clear_jobs(s) PROVE TypeOK'
    BY <2>5 DEF handle_clear_jobs, Selected, remove_tasks_where, Job, NoJob
  <2>6. ASSUME NEW s \in Sources, SourceEnds(s) PROVE TypeOK'
    BY <2>6 DEF SourceEnds
  <2>7. ASSUME NEW t \in Threads, handle_new_thread(t) PROVE TypeOK'
    BY <2>7, GateType, ThreadCount DEF handle_new_thread, Selected
  <2>8. ASSUME NEW t \in Threads, NEW r \in Rates, ExpectedHashRate(t, r) PROVE TypeOK'
    <3>1. expected' \in [Threads -> Rate] /\ reporters' \subseteq seen'
      BY <2>8 DEF ExpectedHashRate, Rate
    <3>2. gate' \in StartupGate
      BY <2>8, GateType DEF ExpectedHashRate
    <3>3. told' \in [Sources -> [Threads -> Rate]]
      BY <2>8, <3>1, BroadcastType DEF ExpectedHashRate, broadcast_unless_holding
    <3>4. /\ tasks' \subseteq TaskEntry /\ chans' \subseteq TaskEntry
          /\ failed' \subseteq Sources \X Threads
      <4>1. CachedOffers(t) \in SUBSET TaskEntry
        BY DEF TaskEntry, CachedOffers
      <4>2. CASE expected[t] = NoRate
        <5>1. PICK made \in SUBSET CachedOffers(t) : TasksAfter(tasks, CachedOffers(t), made)
          BY <2>8, <4>2 DEF ExpectedHashRate, assign_cached_jobs_to_thread
        <5> QED BY <4>1, <5>1, TasksAfterType
      <4>3. CASE expected[t] # NoRate
        BY <2>8, <4>3 DEF ExpectedHashRate
      <4> QED BY <4>2, <4>3
    <3> QED BY <2>8, <3>1, <3>2, <3>3, <3>4 DEF ExpectedHashRate, Selected
  <2>9. ASSUME NEW t \in Threads, StreamEnds(t) PROVE TypeOK'
    BY <2>9 DEF StreamEnds
  <2>10. ASSUME NEW k \in chans, NEW meets \in BOOLEAN, handle_share(k, meets) PROVE TypeOK'
    <3>1. [source |-> k.source, job |-> k.job] \in [source : Sources, job : Job \ {NoJob}]
      BY DEF TaskEntry
    <3>2. /\ submitted' \in {submitted, Append(submitted, [source |-> k.source, job |-> k.job])}
          /\ shares_submitted' \in {shares_submitted, shares_submitted + 1}
      <4>1. CASE meets = TRUE
        BY <2>10, <4>1 DEF handle_share
      <4>2. CASE meets = FALSE
        BY <2>10, <4>2 DEF handle_share
      <4> QED BY <4>1, <4>2
    <3>3. Append(submitted, [source |-> k.source, job |-> k.job])
             \in Seq([source : Sources, job : Job \ {NoJob}])
      BY <3>1, AppendType
    <3>4. submitted' \in Seq([source : Sources, job : Job \ {NoJob}])
      BY <3>2, <3>3
    <3>5. shares_submitted' \in Nat
      BY <3>2
    <3> QED BY <2>10, <3>4, <3>5 DEF handle_share, Selected
  <2>11. ASSUME NEW k \in chans, ShareChannelEnds(k) PROVE TypeOK'
    BY <2>11 DEF ShareChannelEnds
  <2>12. CASE InitialEnumerationComplete
    BY <2>12, GateType, BroadcastType
       DEF InitialEnumerationComplete, Selected, broadcast_unless_holding
  <2>13. CASE StartupGateTimeout
    BY <2>13, GateType, BroadcastType DEF StartupGateTimeout, Selected
  <2>14. CASE LogOrPublish \/ Shutdown \/ ThreadCountUnchanged
    BY <2>14 DEF LogOrPublish, Shutdown, ThreadCountUnchanged, Selected
  <2>15. CASE handle_thread_disconnections
    BY <2>15, ThreadCount, BroadcastType
       DEF handle_thread_disconnections, remove_tasks_where, Rate
  <2>16. CASE UNCHANGED vars
    BY <2>16 DEF vars
  <2> QED BY <2>1, <2>3, <2>4, <2>5, <2>6, <2>7, <2>8, <2>9, <2>10, <2>11, <2>12, <2>13,
             <2>14, <2>15, <2>16 DEF Next, SourceNext, ThreadNext, ShareNext, LoopNext
<1> QED BY <1>1, <1>2, PTL DEF Spec

-----------------------------------------------------------------------------
(* A stream's thread, a share channel's task entry, and a task entry's     *)
(* source and thread are always in the scheduler's tables, for any number  *)
(* of sources, threads and jobs.  That a range splits and that a thread    *)
(* has its event receiver are expect()s about other things.                *)
THEOREM LookupsCorrect == Spec => []LookupsSucceed
<1>1. Init => LookupsSucceed
  BY DEF Init, LookupsSucceed
<1>2. TypeOK /\ LookupsSucceed /\ [Next]_vars => LookupsSucceed'
  <2> SUFFICES ASSUME TypeOK, LookupsSucceed, [Next]_vars PROVE LookupsSucceed'
    OBVIOUS
  <2> USE DEF LookupsSucceed, loopVars, sourceVars, threadVars, taskVars
  <2>1. ASSUME NEW s \in Sources, handle_source_registration(s) PROVE LookupsSucceed'
    BY <2>1 DEF handle_source_registration
  <2>2. ASSUME NEW s \in Sources, NEW mode, assign_job_to_threads(mode, s),
               UNCHANGED <<sources, threads, streams>>
        PROVE  LookupsSucceed'
    <3>1. PICK made \in SUBSET JobOffers(s) : TasksAfter(KeptTasks(mode, s), JobOffers(s), made)
      BY <2>2 DEF assign_job_to_threads
    <3>2. \A k \in JobOffers(s) : k.source \in sources /\ k.thread \in threads
      BY <2>2 DEF assign_job_to_threads, JobOffers, eligible_thread_ids
    <3>3. KeptTasks(mode, s) \subseteq tasks
      BY DEF KeptTasks
    <3> QED BY <2>2, <3>1, <3>2, <3>3 DEF TasksAfter
  <2>3. ASSUME NEW s \in Sources, SourceEvent_UpdateJob(s) \/ SourceEvent_ReplaceJob(s)
        PROVE  LookupsSucceed'
    BY <2>2, <2>3 DEF SourceEvent_UpdateJob, SourceEvent_ReplaceJob
  <2>4. ASSUME NEW s \in Sources, handle_clear_jobs(s) PROVE LookupsSucceed'
    BY <2>4 DEF handle_clear_jobs, remove_tasks_where
  <2>5. ASSUME NEW s \in Sources, SourceEnds(s) PROVE LookupsSucceed'
    BY <2>5 DEF SourceEnds
  <2>6. ASSUME NEW t \in Threads, handle_new_thread(t) PROVE LookupsSucceed'
    BY <2>6 DEF handle_new_thread
  <2>7. ASSUME NEW t \in Threads, NEW r \in Rates, ExpectedHashRate(t, r) PROVE LookupsSucceed'
    <3>1. CASE expected[t] = NoRate
      <4>1. PICK made \in SUBSET CachedOffers(t) : TasksAfter(tasks, CachedOffers(t), made)
        BY <2>7, <3>1 DEF ExpectedHashRate, assign_cached_jobs_to_thread
      <4>2. \A k \in made : k.source \in sources /\ k.thread \in threads
        BY <2>7 DEF ExpectedHashRate, CachedOffers
      <4> QED BY <2>7, <4>1, <4>2 DEF ExpectedHashRate, TasksAfter
    <3>2. CASE expected[t] # NoRate
      BY <2>7, <3>2 DEF ExpectedHashRate
    <3> QED BY <3>1, <3>2
  <2>8. ASSUME NEW t \in Threads, StreamEnds(t) PROVE LookupsSucceed'
    BY <2>8 DEF StreamEnds
  <2>9. ASSUME NEW k \in chans, NEW meets \in BOOLEAN, handle_share(k, meets)
        PROVE  LookupsSucceed'
    BY <2>9 DEF handle_share
  <2>10. ASSUME NEW k \in chans, ShareChannelEnds(k) PROVE LookupsSucceed'
    BY <2>10 DEF ShareChannelEnds
  <2>11. CASE InitialEnumerationComplete \/ StartupGateTimeout
    BY <2>11 DEF InitialEnumerationComplete, StartupGateTimeout
  <2>12. CASE LogOrPublish \/ Shutdown \/ ThreadCountUnchanged
    BY <2>12 DEF LogOrPublish, Shutdown, ThreadCountUnchanged
  <2>13. CASE handle_thread_disconnections
    BY <2>13 DEF handle_thread_disconnections, remove_tasks_where
  <2>14. CASE UNCHANGED vars
    BY <2>14 DEF vars
  <2> QED BY <2>1, <2>3, <2>4, <2>5, <2>6, <2>7, <2>8, <2>9, <2>10, <2>11, <2>12, <2>13,
             <2>14 DEF Next, SourceNext, ThreadNext, ShareNext, LoopNext
<1> QED BY <1>1, <1>2, TypeCorrect, PTL DEF Spec

-----------------------------------------------------------------------------
(* The jobs received so far bound every floor.                             *)
FloorBound == \A s \in Sources : floor[s] <= jobs + 1

(* TasksCurrent is inductive once floors are bounded by the next job.      *)
TasksInv == TasksCurrent /\ FloorBound

(* What an assignment leaves satisfies TasksInv.                           *)
LEMMA AssignKeepsTasksInv ==
  ASSUME TypeOK, LookupsSucceed, TasksInv,
         NEW s \in Sources, NEW mode \in {"Update", "Replace"}, assign_job_to_threads(mode, s)
  PROVE  TasksInv'
<1> USE DEF TasksInv, TasksCurrent, FloorBound, LookupsSucceed
<1>1. /\ jobs \in Nat /\ jobs' = jobs + 1 /\ s \in sources
      /\ floor \in [Sources -> Int] /\ last_job \in [Sources -> Int]
      /\ last_job' = [last_job EXCEPT ![s] = jobs + 1]
      /\ floor' = IF mode = "Replace" THEN [floor EXCEPT ![s] = jobs + 1] ELSE floor
  BY BoundsAreNat DEF assign_job_to_threads, TypeOK, Job
<1>2. FloorBound'
  BY <1>1
<1>3. \A x \in Sources : last_job'[x] # NoJob => last_job'[x] >= floor'[x]
  BY <1>1
<1>4. \A k \in tasks' : k.job >= floor'[k.source]
  <2>1. PICK made \in SUBSET JobOffers(s) : TasksAfter(KeptTasks(mode, s), JobOffers(s), made)
    BY DEF assign_job_to_threads
  <2>2. \A k \in tasks' : k \in KeptTasks(mode, s) \/ (k.source = s /\ k.job = jobs + 1)
    BY <2>1 DEF TasksAfter, JobOffers
  <2>3. \A k \in KeptTasks(mode, s) : k \in tasks /\ k.source \in Sources
                                      /\ (mode = "Replace" => k.source # s)
    BY DEF TypeOK, TaskEntry, KeptTasks
  <2>4. \A k \in KeptTasks(mode, s) : k.job >= floor'[k.source]
    BY <1>1, <2>3
  <2> QED BY <1>1, <2>2, <2>4
<1> QED BY <1>2, <1>3, <1>4

(* The strengthening is an invariant.                                      *)
LEMMA TasksInvariant == Spec => []TasksInv
<1>1. Init => TasksInv
  BY DEF Init, TasksInv, TasksCurrent, FloorBound
<1>2. TypeOK /\ LookupsSucceed /\ TasksInv /\ [Next]_vars => TasksInv'
  <2> SUFFICES ASSUME TypeOK, LookupsSucceed, TasksInv, [Next]_vars PROVE TasksInv'
    OBVIOUS
  <2> USE DEF loopVars, sourceVars, threadVars, taskVars
  <2>0. ASSUME tasks' \subseteq tasks, UNCHANGED <<last_job, floor, jobs>> PROVE TasksInv'
    BY <2>0 DEF TasksInv, TasksCurrent, FloorBound
  <2>1. ASSUME NEW s \in Sources, handle_source_registration(s) PROVE TasksInv'
    BY <2>0, <2>1 DEF handle_source_registration
  <2>2. ASSUME NEW s \in Sources, SourceEvent_UpdateJob(s) \/ SourceEvent_ReplaceJob(s)
        PROVE  TasksInv'
    BY <2>2, AssignKeepsTasksInv DEF SourceEvent_UpdateJob, SourceEvent_ReplaceJob
  <2>3. ASSUME NEW s \in Sources, handle_clear_jobs(s) PROVE TasksInv'
    <3>1. \A k \in tasks' : k \in tasks /\ k.source # s /\ k.source \in Sources
      BY <2>3 DEF handle_clear_jobs, remove_tasks_where, TypeOK, TaskEntry
    <3>2. /\ jobs' = jobs /\ jobs \in Nat
          /\ last_job' = [last_job EXCEPT ![s] = NoJob]
          /\ floor' = [floor EXCEPT ![s] = jobs + 1]
          /\ floor \in [Sources -> Int] /\ last_job \in [Sources -> Int]
      BY <2>3, BoundsAreNat DEF handle_clear_jobs, TypeOK, Job
    <3> QED BY <3>1, <3>2 DEF TasksInv, TasksCurrent, FloorBound
  <2>4. ASSUME NEW s \in Sources, SourceEnds(s) PROVE TasksInv'
    BY <2>0, <2>4 DEF SourceEnds
  <2>5. ASSUME NEW t \in Threads, handle_new_thread(t) \/ StreamEnds(t) PROVE TasksInv'
    BY <2>0, <2>5 DEF handle_new_thread, StreamEnds
  <2>6. ASSUME NEW t \in Threads, NEW r \in Rates, ExpectedHashRate(t, r) PROVE TasksInv'
    <3>1. CASE expected[t] = NoRate
      <4>1. PICK made \in SUBSET CachedOffers(t) : TasksAfter(tasks, CachedOffers(t), made)
        BY <2>6, <3>1 DEF ExpectedHashRate, assign_cached_jobs_to_thread
      <4>2. \A k \in made : k.job >= floor[k.source]
        BY DEF TasksInv, TasksCurrent, TypeOK, CachedOffers
      <4> QED BY <2>6, <4>1, <4>2
              DEF ExpectedHashRate, TasksAfter, TasksInv, TasksCurrent, FloorBound
    <3>2. CASE expected[t] # NoRate
      BY <2>0, <2>6, <3>2 DEF ExpectedHashRate
    <3> QED BY <3>1, <3>2
  <2>7. ASSUME NEW k \in chans, NEW meets \in BOOLEAN, handle_share(k, meets) PROVE TasksInv'
    BY <2>0, <2>7 DEF handle_share
  <2>8. ASSUME NEW k \in chans, ShareChannelEnds(k) PROVE TasksInv'
    BY <2>0, <2>8 DEF ShareChannelEnds
  <2>9. CASE InitialEnumerationComplete \/ StartupGateTimeout
    BY <2>0, <2>9 DEF InitialEnumerationComplete, StartupGateTimeout
  <2>10. CASE LogOrPublish \/ Shutdown \/ ThreadCountUnchanged
    BY <2>0, <2>10 DEF LogOrPublish, Shutdown, ThreadCountUnchanged
  <2>11. CASE handle_thread_disconnections
    BY <2>0, <2>11 DEF handle_thread_disconnections, remove_tasks_where
  <2>12. CASE UNCHANGED vars
    BY <2>0, <2>12 DEF vars
  <2> QED BY <2>1, <2>2, <2>3, <2>4, <2>5, <2>6, <2>7, <2>8, <2>9, <2>10, <2>11, <2>12
          DEF Next, SourceNext, ThreadNext, ShareNext, LoopNext
<1> QED BY <1>1, <1>2, TypeCorrect, LookupsCorrect, PTL DEF Spec

(* A ReplaceJob or ClearJobs ends every task of the jobs it invalidates,   *)
(* for any number of sources, threads and jobs.                            *)
THEOREM TasksCurrentCorrect == Spec => []TasksCurrent
BY TasksInvariant, PTL DEF TasksInv

(* handle_share forwards no share of an invalidated job: it takes the job  *)
(* from a task entry, and entries are current.                             *)
THEOREM SubmissionsCorrect == Spec => NoStaleSubmission
<1> DEFINE Fresh == submitted' # submitted =>
                      LET share == submitted'[Len(submitted')]
                      IN share.job >= floor[share.source]
<1>1. TypeOK /\ LookupsSucceed /\ TasksInv /\ [Next]_vars => [Fresh]_vars
  <2> SUFFICES ASSUME TypeOK, LookupsSucceed, TasksInv, Next PROVE Fresh
    OBVIOUS
  <2> USE DEF shareVars
  <2>1. ASSUME NEW k \in chans, NEW meets \in BOOLEAN, handle_share(k, meets) PROVE Fresh
    <3> DEFINE share == [source |-> k.source, job |-> k.job]
    <3>1. submitted' = submitted \/ submitted' = Append(submitted, share)
      <4>1. CASE meets = TRUE
        BY <2>1, <4>1 DEF handle_share
      <4>2. CASE meets = FALSE
        BY <2>1, <4>2 DEF handle_share
      <4> QED BY <4>1, <4>2
    <3>2. k.job >= floor[k.source]
      BY DEF TasksInv, TasksCurrent, LookupsSucceed
    <3>3. submitted' = Append(submitted, share) => submitted'[Len(submitted')] = share
      <4> HIDE DEF share
      <4> QED BY DEF TypeOK
    <3> QED BY <3>1, <3>2, <3>3
  <2>2. ASSUME NEW k \in chans, ShareChannelEnds(k) PROVE Fresh
    BY <2>2 DEF ShareChannelEnds
  <2>3. CASE SourceNext
    BY <2>3 DEF SourceNext, handle_source_registration, SourceEvent_UpdateJob,
                SourceEvent_ReplaceJob, handle_clear_jobs, SourceEnds
  <2>4. CASE ThreadNext
    BY <2>4 DEF ThreadNext, handle_new_thread, ExpectedHashRate, StreamEnds
  <2>5. CASE LoopNext
    BY <2>5 DEF LoopNext, InitialEnumerationComplete, StartupGateTimeout, LogOrPublish,
                Shutdown, ThreadCountUnchanged, handle_thread_disconnections
  <2> QED BY <2>1, <2>2, <2>3, <2>4, <2>5 DEF Next, ShareNext
<1> QED BY <1>1, TypeCorrect, LookupsCorrect, TasksInvariant, PTL DEF Spec, NoStaleSubmission

-----------------------------------------------------------------------------
(* After a broadcast every live source knows the aggregate of that moment. *)
LEMMA BroadcastTells ==
  ASSUME broadcast_hashrate_change, NEW s \in sources' \ ended, s \in Sources
  PROVE  told'[s] = allocated_hashrate(expected)'
BY DEF broadcast_hashrate_change, Listening, allocated_hashrate

(* Once the startup gate has opened, every live source's last              *)
(* UpdateHashRate is the aggregate of the registered threads, for any      *)
(* number of sources and threads.                                          *)
THEOREM ToldCorrect == Spec => []ToldIsCurrent
<1>1. Init => ToldIsCurrent
  BY DEF Init, ToldIsCurrent
<1>2. TypeOK /\ TypeOK' /\ ToldIsCurrent /\ [Next]_vars => ToldIsCurrent'
  <2> SUFFICES ASSUME TypeOK, TypeOK', ToldIsCurrent, [Next]_vars PROVE ToldIsCurrent'
    OBVIOUS
  <2> USE DEF loopVars, sourceVars, threadVars
  <2>0. ASSUME UNCHANGED <<gate, sources, expected, told>>, ended \subseteq ended'
        PROVE  ToldIsCurrent'
    BY <2>0 DEF ToldIsCurrent, allocated_hashrate
  <2>1. ASSUME broadcast_hashrate_change, UNCHANGED ended PROVE ToldIsCurrent'
    BY <2>1, BroadcastTells DEF ToldIsCurrent, TypeOK
  <2>2. ASSUME broadcast_unless_holding, UNCHANGED ended PROVE ToldIsCurrent'
    BY <2>1, <2>2 DEF broadcast_unless_holding, ToldIsCurrent
  <2>3. CASE SourceNext
    BY <2>0, <2>2, <2>3 DEF SourceNext, handle_source_registration, SourceEvent_UpdateJob,
                SourceEvent_ReplaceJob, handle_clear_jobs, SourceEnds
  <2>4. ASSUME NEW t \in Threads, handle_new_thread(t) PROVE ToldIsCurrent'
    <3>1. gate'.open = gate.open
      BY <2>4 DEF handle_new_thread, record_registered, TypeOK, StartupGate
    <3> QED BY <2>4, <3>1 DEF handle_new_thread, ToldIsCurrent, allocated_hashrate
  <2>5. ASSUME NEW t \in Threads, StreamEnds(t) PROVE ToldIsCurrent'
    BY <2>0, <2>5 DEF StreamEnds
  <2>6. ASSUME NEW t \in Threads, NEW r \in Rates, ExpectedHashRate(t, r) PROVE ToldIsCurrent'
    BY <2>2, <2>6 DEF ExpectedHashRate
  <2>7. CASE ShareNext
    BY <2>0, <2>7 DEF ShareNext, handle_share, ShareChannelEnds
  <2>8. CASE LoopNext
    BY <2>0, <2>1, <2>2, <2>8
       DEF LoopNext, InitialEnumerationComplete, StartupGateTimeout, LogOrPublish,
           Shutdown, ThreadCountUnchanged, handle_thread_disconnections
  <2>9. CASE UNCHANGED vars
    BY <2>0, <2>9 DEF vars
  <2> QED BY <2>3, <2>4, <2>5, <2>6, <2>7, <2>8, <2>9 DEF Next, ThreadNext
<1> QED BY <1>1, <1>2, TypeCorrect, PTL DEF Spec

-----------------------------------------------------------------------------
(* While the gate holds, its counters are the numbers of threads ever      *)
(* registered and of those that reported; the threads with an expected     *)
(* rate are the registered ones that reported.                             *)
GateInv ==
  /\ ~gate.open => /\ gate.registered = Cardinality(seen)
                   /\ gate.reported = Cardinality(reporters)
  /\ \A t \in Threads : expected[t] # NoRate <=> t \in reporters \cap threads

(* The counters are exact.                                                 *)
LEMMA GateInvariant == Spec => []GateInv
<1>1. Init => GateInv
  BY FS_EmptySet DEF Init, GateInv, NewGate
<1>2. TypeOK /\ TypeOK' /\ LookupsSucceed /\ GateInv /\ [Next]_vars => GateInv'
  <2> SUFFICES ASSUME TypeOK, TypeOK', LookupsSucceed, GateInv, [Next]_vars PROVE GateInv'
    OBVIOUS
  <2> USE DEF loopVars, sourceVars, threadVars
  <2>0. ASSUME UNCHANGED <<threads, expected, seen, reporters>>,
               gate'.open \/ (/\ ~gate.open /\ gate'.registered = gate.registered
                              /\ gate'.reported = gate.reported)
        PROVE  GateInv'
    BY <2>0 DEF GateInv
  <2>1. ASSUME UNCHANGED <<threads, expected, seen, reporters, gate>> PROVE GateInv'
    BY <2>1 DEF GateInv
  <2>2. CASE SourceNext
    BY <2>1, <2>2 DEF SourceNext, handle_source_registration, SourceEvent_UpdateJob,
                SourceEvent_ReplaceJob, handle_clear_jobs, SourceEnds
  <2>3. ASSUME NEW t \in Threads, handle_new_thread(t) PROVE GateInv'
    <3>1. Cardinality(seen \cup {t}) = Cardinality(seen) + 1
      BY <2>3, ThreadCount, FS_AddElement DEF handle_new_thread, TypeOK
    <3>2. gate' = record_registered(gate) /\ seen' = seen \cup {t} /\ reporters' = reporters
          /\ threads' = threads \cup {t} /\ t \notin reporters /\ expected' = expected
      BY <2>3 DEF handle_new_thread, TypeOK
    <3>3. ~gate'.open => /\ ~gate.open /\ gate'.registered = gate.registered + 1
                         /\ gate'.reported = gate.reported
      BY <3>2 DEF record_registered, TypeOK, StartupGate
    <3> QED BY <3>1, <3>2, <3>3 DEF GateInv
  <2>4. ASSUME NEW t \in Threads, StreamEnds(t) PROVE GateInv'
    BY <2>1, <2>4 DEF StreamEnds
  <2>5. ASSUME NEW t \in Threads, NEW r \in Rates, ExpectedHashRate(t, r) PROVE GateInv'
    <3>1. /\ seen' = seen /\ threads' = threads /\ reporters' = reporters \cup {t}
          /\ expected' = [expected EXCEPT ![t] = r] /\ t \in threads
      BY <2>5 DEF ExpectedHashRate
    <3>2. \A x \in Threads : expected'[x] # NoRate <=> x \in reporters' \cap threads'
      BY <3>1, NoRateIsNoRate DEF GateInv, TypeOK
    <3>3. CASE expected[t] = NoRate
      <4>1. Cardinality(reporters') = Cardinality(reporters) + 1
        BY <3>1, <3>3, ThreadCount, FS_AddElement DEF GateInv, TypeOK
      <4>2. gate' = record_reported(gate)
        BY <2>5, <3>3 DEF ExpectedHashRate
      <4>3. ~gate'.open => /\ ~gate.open /\ gate'.registered = gate.registered
                           /\ gate'.reported = gate.reported + 1
        BY <4>2 DEF record_reported, try_open, TypeOK, StartupGate
      <4> QED BY <3>1, <3>2, <4>1, <4>3 DEF GateInv
    <3>4. CASE expected[t] # NoRate
      <4>1. gate' = gate /\ reporters' = reporters
        BY <2>5, <3>1, <3>4 DEF ExpectedHashRate, GateInv
      <4> QED BY <3>1, <3>2, <4>1 DEF GateInv
    <3> QED BY <3>3, <3>4
  <2>6. CASE ShareNext
    BY <2>1, <2>6 DEF ShareNext, handle_share, ShareChannelEnds
  <2>7. CASE InitialEnumerationComplete
    <3>1. gate'.open \/ (/\ ~gate.open /\ gate'.registered = gate.registered
                         /\ gate'.reported = gate.reported)
      BY <2>7 DEF InitialEnumerationComplete, record_enumeration_complete, try_open, TypeOK,
                  StartupGate
    <3> QED BY <2>0, <2>7, <3>1 DEF InitialEnumerationComplete
  <2>8. CASE StartupGateTimeout
    <3>1. gate'.open
      BY <2>8 DEF StartupGateTimeout, record_timeout, TypeOK, StartupGate
    <3> QED BY <2>0, <2>8, <3>1 DEF StartupGateTimeout
  <2>9. CASE LogOrPublish \/ Shutdown \/ ThreadCountUnchanged
    BY <2>1, <2>9 DEF LogOrPublish, Shutdown, ThreadCountUnchanged
  <2>10. CASE handle_thread_disconnections
    BY <2>10 DEF handle_thread_disconnections, GateInv, TypeOK, LookupsSucceed
  <2>11. CASE UNCHANGED vars
    BY <2>1, <2>11 DEF vars
  <2> QED BY <2>2, <2>3, <2>4, <2>5, <2>6, <2>7, <2>8, <2>9, <2>10, <2>11
          DEF Next, ThreadNext, LoopNext
<1> QED BY <1>1, <1>2, TypeCorrect, LookupsCorrect, PTL DEF Spec

(* The gate opens by itself only after enumeration and once every thread   *)
(* registered so far has reported; otherwise its armed timer opened it.    *)
THEOREM GateOpeningCorrect == Spec => GateOpening
<1> DEFINE Opening == (gate'.open /\ ~gate.open) =>
                        \/ gate'.enumeration_complete /\ reporters' = seen'
                        \/ gate_deadline /\ ~gate_deadline'
<1>1. TypeOK /\ TypeOK' /\ GateInv /\ [Next]_vars => [Opening]_vars
  <2> SUFFICES ASSUME TypeOK, TypeOK', GateInv, Next, gate'.open, ~gate.open
               PROVE  \/ gate'.enumeration_complete /\ reporters' = seen'
                      \/ gate_deadline /\ ~gate_deadline'
    OBVIOUS
  <2> USE DEF loopVars, sourceVars, threadVars
  <2>0. ASSUME UNCHANGED gate PROVE FALSE
    BY <2>0
  <2>1. ASSUME Cardinality(reporters') >= Cardinality(seen') PROVE reporters' = seen'
    <3>1. IsFiniteSet(seen') /\ reporters' \in SUBSET seen'
      BY ThreadCount DEF TypeOK
    <3>2. Cardinality(reporters') <= Cardinality(seen')
      BY <3>1, FS_Subset
    <3>3. Cardinality(reporters') \in Nat /\ Cardinality(seen') \in Nat
      BY <3>1, FS_Subset, FS_CardinalityType
    <3> QED BY <2>1, <3>1, <3>2, <3>3, FS_Subset
  <2>2. CASE SourceNext
    BY <2>0, <2>2 DEF SourceNext, handle_source_registration, SourceEvent_UpdateJob,
                SourceEvent_ReplaceJob, handle_clear_jobs, SourceEnds
  <2>3. ASSUME NEW t \in Threads, handle_new_thread(t) PROVE FALSE
    <3>1. gate' = record_registered(gate)
      BY <2>3 DEF handle_new_thread
    <3> QED BY <3>1 DEF record_registered, TypeOK, StartupGate
  <2>4. ASSUME NEW t \in Threads, StreamEnds(t) PROVE FALSE
    BY <2>0, <2>4 DEF StreamEnds
  <2>5. ASSUME NEW t \in Threads, NEW r \in Rates, ExpectedHashRate(t, r)
        PROVE  gate'.enumeration_complete /\ reporters' = seen'
    <3>1. expected[t] = NoRate /\ gate' = record_reported(gate)
      BY <2>0, <2>5 DEF ExpectedHashRate
    <3>2. /\ gate'.enumeration_complete
          /\ gate.reported + 1 >= gate.registered
      BY <3>1 DEF record_reported, try_open, TypeOK, StartupGate
    <3>3. Cardinality(reporters') = Cardinality(reporters) + 1 /\ seen' = seen
      BY <2>5, <3>1, ThreadCount, FS_AddElement DEF ExpectedHashRate, GateInv, TypeOK
    <3> QED BY <2>1, <3>2, <3>3 DEF GateInv
  <2>6. CASE ShareNext
    BY <2>0, <2>6 DEF ShareNext, handle_share, ShareChannelEnds
  <2>7. CASE InitialEnumerationComplete
    <3>1. gate' = record_enumeration_complete(gate) /\ UNCHANGED <<reporters, seen>>
      BY <2>7 DEF InitialEnumerationComplete
    <3>2. gate'.enumeration_complete /\ gate.reported >= gate.registered
      BY <3>1 DEF record_enumeration_complete, try_open, TypeOK, StartupGate
    <3> QED BY <2>1, <3>1, <3>2 DEF GateInv
  <2>8. CASE StartupGateTimeout
    BY <2>8 DEF StartupGateTimeout
  <2>9. CASE LogOrPublish \/ Shutdown \/ ThreadCountUnchanged \/ handle_thread_disconnections
    BY <2>0, <2>9 DEF LogOrPublish, Shutdown, ThreadCountUnchanged, handle_thread_disconnections
  <2> QED BY <2>2, <2>3, <2>4, <2>5, <2>6, <2>7, <2>8, <2>9 DEF Next, ThreadNext, LoopNext
<1> QED BY <1>1, TypeCorrect, GateInvariant, PTL DEF Spec, GateOpening

-----------------------------------------------------------------------------
(* A source has no cached job before it is registered.                     *)
WorkInv ==
  /\ EligibleThreadsHaveWork
  /\ \A s \in Sources \ sources : last_job[s] = NoJob

(* An eligible thread has the latest job of every source that has one, or  *)
(* refused it: no order of jobs, reports and losses leaves it without, for *)
(* any number of sources, threads and jobs.                                *)
THEOREM WorkCorrect == Spec => []EligibleThreadsHaveWork
<1>1. Init => WorkInv
  BY DEF Init, WorkInv, EligibleThreadsHaveWork, eligible_thread_ids
<1>2. TypeOK /\ LookupsSucceed /\ GateInv /\ WorkInv /\ [Next]_vars => WorkInv'
  <2> SUFFICES ASSUME TypeOK, LookupsSucceed, GateInv, WorkInv, [Next]_vars PROVE WorkInv'
    OBVIOUS
  <2> DEFINE Has(s, t) == \/ [source |-> s, job |-> last_job[s], thread |-> t] \in tasks
                          \/ <<s, t>> \in failed
  <2> USE DEF loopVars, sourceVars, threadVars, taskVars
  <2>0. ASSUME UNCHANGED <<sources, last_job, threads, expected, tasks, failed>> PROVE WorkInv'
    BY <2>0 DEF WorkInv, EligibleThreadsHaveWork, eligible_thread_ids
  <2>1. ASSUME NEW s \in Sources, handle_source_registration(s) PROVE WorkInv'
    BY <2>1 DEF handle_source_registration, WorkInv, EligibleThreadsHaveWork,
                eligible_thread_ids
  <2>2. ASSUME NEW s \in Sources, NEW mode, assign_job_to_threads(mode, s),
               UNCHANGED <<sources, threads, expected>>
        PROVE  WorkInv'
    <3>1. PICK made \in SUBSET JobOffers(s) : TasksAfter(KeptTasks(mode, s), JobOffers(s), made)
      BY <2>2 DEF assign_job_to_threads
    <3>2. /\ last_job' = [last_job EXCEPT ![s] = jobs + 1] /\ s \in sources
          /\ last_job \in [Sources -> Job]
      BY <2>2 DEF assign_job_to_threads, TypeOK
    <3>3. ASSUME NEW t \in eligible_thread_ids PROVE Has(s, t)'
      <4> DEFINE k == [source |-> s, job |-> jobs + 1, thread |-> t]
      <4>1. k \in JobOffers(s) /\ k.source = s /\ k.thread = t
        BY DEF JobOffers
      <4>2. k \in made \/ k \in JobOffers(s) \ made
        BY <4>1
      <4>3. k \in tasks' \/ <<s, t>> \in failed'
        BY <3>1, <4>1, <4>2 DEF TasksAfter
      <4> QED BY <3>2, <4>3
    <3>4. ASSUME NEW x \in sources, x # s, NEW t \in eligible_thread_ids, Has(x, t)
          PROVE  Has(x, t)'
      <4>1. \A k \in JobOffers(s) : k.source = s
        BY DEF JobOffers
      <4>2. <<x, t>> \in failed => <<x, t>> \in failed'
        BY <3>1, <3>4, <4>1 DEF TasksAfter
      <4>3. [source |-> x, job |-> last_job[x], thread |-> t] \in tasks
              => [source |-> x, job |-> last_job[x], thread |-> t] \in tasks'
        BY <3>1, <3>4 DEF TasksAfter, KeptTasks
      <4>4. last_job'[x] = last_job[x]
        BY <3>2, <3>4 DEF TypeOK
      <4> QED BY <3>4, <4>2, <4>3, <4>4
    <3>5. eligible_thread_ids' = eligible_thread_ids
      BY <2>2 DEF eligible_thread_ids
    <3>6. EligibleThreadsHaveWork'
      <4> SUFFICES ASSUME NEW t \in eligible_thread_ids, NEW x \in sources,
                          last_job'[x] # NoJob
                   PROVE  Has(x, t)'
        BY <2>2, <3>5 DEF EligibleThreadsHaveWork
      <4>1. CASE x = s
        BY <3>3, <4>1
      <4>2. CASE x # s
        <5>1. last_job[x] # NoJob
          BY <3>2, <4>2 DEF TypeOK
        <5> QED BY <3>4, <4>2, <5>1 DEF WorkInv, EligibleThreadsHaveWork
      <4> QED BY <4>1, <4>2
    <3>7. \A x \in Sources \ sources' : last_job'[x] = NoJob
      BY <2>2, <3>2 DEF WorkInv
    <3> QED BY <3>6, <3>7 DEF WorkInv
  <2>3. ASSUME NEW s \in Sources, SourceEvent_UpdateJob(s) \/ SourceEvent_ReplaceJob(s)
        PROVE  WorkInv'
    BY <2>2, <2>3 DEF SourceEvent_UpdateJob, SourceEvent_ReplaceJob
  <2>4. ASSUME NEW s \in Sources, handle_clear_jobs(s) PROVE WorkInv'
    BY <2>4 DEF handle_clear_jobs, remove_tasks_where, WorkInv, EligibleThreadsHaveWork,
                eligible_thread_ids, TypeOK
  <2>5. ASSUME NEW s \in Sources, SourceEnds(s) PROVE WorkInv'
    BY <2>0, <2>5 DEF SourceEnds
  <2>6. ASSUME NEW t \in Threads, handle_new_thread(t) PROVE WorkInv'
    <3>1. expected[t] = NoRate
      BY <2>6 DEF handle_new_thread, GateInv, TypeOK
    <3>2. eligible_thread_ids' = eligible_thread_ids
      BY <2>6, <3>1 DEF handle_new_thread, eligible_thread_ids
    <3> QED BY <2>6, <3>2 DEF handle_new_thread, WorkInv, EligibleThreadsHaveWork
  <2>7. ASSUME NEW t \in Threads, StreamEnds(t) PROVE WorkInv'
    BY <2>0, <2>7 DEF StreamEnds
  <2>8. ASSUME NEW t \in Threads, NEW r \in Rates, ExpectedHashRate(t, r) PROVE WorkInv'
    <3>1. /\ UNCHANGED <<sources, last_job, threads>> /\ t \in threads
          /\ expected' = [expected EXCEPT ![t] = r]
      BY <2>8 DEF ExpectedHashRate
    <3>2. CASE expected[t] # NoRate
      <4>1. UNCHANGED <<tasks, failed>>
        BY <2>8, <3>2 DEF ExpectedHashRate
      <4>2. eligible_thread_ids' \subseteq eligible_thread_ids
        BY <3>1, <3>2 DEF eligible_thread_ids, TypeOK
      <4> QED BY <3>1, <4>1, <4>2 DEF WorkInv, EligibleThreadsHaveWork
    <3>3. CASE expected[t] = NoRate
      <4>1. PICK made \in SUBSET CachedOffers(t) : TasksAfter(tasks, CachedOffers(t), made)
        BY <2>8, <3>3 DEF ExpectedHashRate, assign_cached_jobs_to_thread
      <4>2. eligible_thread_ids' \subseteq eligible_thread_ids \cup {t}
        BY <3>1 DEF eligible_thread_ids, TypeOK
      <4>3. ASSUME NEW x \in sources, last_job[x] # NoJob PROVE Has(x, t)'
        <5> DEFINE k == [source |-> x, job |-> last_job[x], thread |-> t]
        <5>1. k \in CachedOffers(t) /\ k.source = x /\ k.thread = t
          BY <4>3 DEF CachedOffers
        <5>2. k \in made \/ k \in CachedOffers(t) \ made
          BY <5>1
        <5>3. k \in tasks' \/ <<x, t>> \in failed'
          BY <4>1, <5>1, <5>2 DEF TasksAfter
        <5> QED BY <3>1, <5>3
      <4>4. ASSUME NEW x \in sources, NEW y \in eligible_thread_ids, y # t, Has(x, y)
            PROVE  Has(x, y)'
        <5>1. \A k \in CachedOffers(t) : k.thread = t
          BY DEF CachedOffers
        <5> QED BY <3>1, <4>1, <4>4, <5>1 DEF TasksAfter
      <4> QED BY <3>1, <4>2, <4>3, <4>4 DEF WorkInv, EligibleThreadsHaveWork
    <3> QED BY <3>2, <3>3
  <2>9. ASSUME NEW k \in chans, NEW meets \in BOOLEAN, handle_share(k, meets) PROVE WorkInv'
    BY <2>0, <2>9 DEF handle_share
  <2>10. ASSUME NEW k \in chans, ShareChannelEnds(k) PROVE WorkInv'
    BY <2>0, <2>10 DEF ShareChannelEnds
  <2>11. CASE InitialEnumerationComplete \/ StartupGateTimeout
    BY <2>0, <2>11 DEF InitialEnumerationComplete, StartupGateTimeout
  <2>12. CASE LogOrPublish \/ Shutdown \/ ThreadCountUnchanged
    BY <2>0, <2>12 DEF LogOrPublish, Shutdown, ThreadCountUnchanged
  <2>13. CASE handle_thread_disconnections
    <3>1. /\ UNCHANGED <<sources, last_job, failed>>
          /\ tasks' = {k \in tasks : k.thread \in streams}
          /\ threads' = threads \cap streams
          /\ \A t \in threads' : expected'[t] = expected[t]
      BY <2>13 DEF handle_thread_disconnections, remove_tasks_where, TypeOK
    <3>2. eligible_thread_ids' \subseteq eligible_thread_ids \cap streams
      BY <3>1 DEF eligible_thread_ids
    <3> QED BY <3>1, <3>2 DEF WorkInv, EligibleThreadsHaveWork
  <2>14. CASE UNCHANGED vars
    BY <2>0, <2>14 DEF vars
  <2> QED BY <2>1, <2>3, <2>4, <2>5, <2>6, <2>7, <2>8, <2>9, <2>10, <2>11, <2>12, <2>13,
             <2>14 DEF Next, SourceNext, ThreadNext, ShareNext, LoopNext
<1> QED BY <1>1, <1>2, TypeCorrect, LookupsCorrect, GateInvariant, PTL DEF Spec, WorkInv
=============================================================================
