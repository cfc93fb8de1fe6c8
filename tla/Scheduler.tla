----------------------------- MODULE Scheduler -----------------------------
(***************************************************************************)
(* The scheduler task of mujina-miner (scheduler.rs): one event loop that  *)
(* takes jobs from sources, hands them to hash threads, routes the shares  *)
(* that come back, keeps every source told of the hashrate it can expect,  *)
(* holds the first such broadcast behind a startup gate and notices hash   *)
(* threads that went away.                                                 *)
(*                                                                         *)
(* Each iteration of the loop is two steps: one branch of select! (pc goes *)
(* from "select" to "check") and handle_thread_disconnections (back to     *)
(* "select").  Polling the StreamMaps removes ended streams silently, even *)
(* when the branch that finally fires is another one; those removals are   *)
(* the steps StreamEnds, ShareChannelEnds and SourceEnds at "select".      *)
(*                                                                         *)
(* Left out because nothing but log output depends on it here: the         *)
(* difficulty alarm, the status summary, the telemetry snapshot.  The      *)
(* share target of a task is a pure function of a rate (see README).       *)
(***************************************************************************)
EXTENDS Naturals, FiniteSets, Sequences

CONSTANTS
  Sources,      \* job sources the daemon may register
  Threads,      \* hash threads the backplane may register
  Rates,        \* hashrates a thread may declare
  NoRate,       \* expected: None
  MaxJobs,      \* bound: job templates received in a behaviour
  MaxShares     \* bound: shares that meet their source's target

ASSUME ThreadsFinite == IsFiniteSet(Threads)
ASSUME NoRateIsNoRate == NoRate \notin Rates
ASSUME BoundsAreNat == MaxJobs \in Nat /\ MaxShares \in Nat

(***************************************************************************)
(* A job template is the number of its arrival, 1, 2, ...; NoJob is        *)
(* last_job = None and no template.                                        *)
(***************************************************************************)
NoJob == 0
Job == 0 .. MaxJobs
Rate == Rates \cup {NoRate}

(***************************************************************************)
(* TaskEntry.  Its TaskId is not modelled: a thread is given a template at *)
(* most once, so the entry identifies the task.                            *)
(***************************************************************************)
TaskEntry == [source : Sources, job : Job \ {NoJob}, thread : Threads]

(***************************************************************************)
(* StartupGate: the record and its methods as functions of it.             *)
(***************************************************************************)
StartupGate ==
  [registered : Nat, reported : Nat, enumeration_complete : BOOLEAN, open : BOOLEAN]

NewGate ==
  [registered |-> 0, reported |-> 0, enumeration_complete |-> FALSE, open |-> FALSE]

(* Mutant: the reports are counted without waiting for the enumeration.    *)
try_open_early(g) ==
  IF g.reported >= g.registered THEN [g EXCEPT !.open = TRUE] ELSE g

try_open(g) ==
  IF g.enumeration_complete /\ g.reported >= g.registered
    THEN [g EXCEPT !.open = TRUE] ELSE g

record_registered(g) ==
  IF g.open THEN g ELSE [g EXCEPT !.registered = g.registered + 1]

record_reported(g) ==
  IF g.open THEN g ELSE try_open([g EXCEPT !.reported = g.reported + 1])

record_enumeration_complete(g) ==
  IF g.open THEN g ELSE try_open([g EXCEPT !.enumeration_complete = TRUE])

record_timeout(g) == [g EXCEPT !.open = TRUE]

-----------------------------------------------------------------------------
VARIABLES
  pc,                 \* "select", "check" or "done": where run() is
  sources,            \* keys of Scheduler.sources
  ended,              \* sources whose task returned and dropped its channels
  last_job,           \* SourceEntry.last_job
  threads,            \* keys of Scheduler.threads
  expected,           \* ThreadEntry.expected; NoRate for an absent thread
  streams,            \* keys of the StreamMap thread_events
  last_thread_count,  \* Scheduler.last_thread_count
  tasks,              \* values of Scheduler.tasks
  chans,              \* tasks whose receiver is in the StreamMap share_channels
  gate,               \* Scheduler.startup_gate
  gate_deadline,      \* gate_deadline is Some(_)
  told,               \* per source, the last UpdateHashRate it was sent
  submitted,          \* SubmitShare commands sent, in order
  shares_submitted,   \* MiningStats.shares_submitted
  jobs                \* job templates received so far, from any source

(***************************************************************************)
(* History variables, read by properties only (seen also keeps ThreadIds   *)
(* fresh): the threads ever registered and those that ever reported; per   *)
(* source the oldest template that a ReplaceJob or ClearJobs has not       *)
(* invalidated; the (source, thread) pairs whose latest assignment failed. *)
(***************************************************************************)
VARIABLES seen, reporters, floor, failed

loopVars    == <<streams, last_thread_count, gate_deadline>>
sourceVars  == <<sources, ended, last_job, jobs, floor>>
threadVars  == <<threads, expected, seen, reporters>>
taskVars    == <<tasks, chans, failed>>
shareVars   == <<submitted, shares_submitted>>
vars == <<pc, loopVars, sourceVars, threadVars, taskVars, shareVars, gate, told>>

TypeOK ==
  /\ pc \in {"select", "check", "done"}
  /\ sources \subseteq Sources /\ ended \subseteq sources
  /\ last_job \in [Sources -> Job] /\ jobs \in Job
  /\ floor \in [Sources -> 0 .. MaxJobs + 1]
  /\ expected \in [Threads -> Rate]
  /\ streams \subseteq Threads /\ last_thread_count \in Nat
  /\ tasks \subseteq TaskEntry /\ chans \subseteq TaskEntry
  /\ failed \subseteq Sources \X Threads
  /\ gate \in StartupGate /\ gate_deadline \in BOOLEAN
  /\ told \in [Sources -> [Threads -> Rate]]
  /\ submitted \in Seq([source : Sources, job : Job \ {NoJob}]) /\ shares_submitted \in Nat
  /\ seen \subseteq Threads /\ threads \subseteq seen /\ reporters \subseteq seen

Init ==
  /\ pc = "select"
  /\ sources = {} /\ ended = {}
  /\ last_job = [s \in Sources |-> NoJob] /\ jobs = 0
  /\ floor = [s \in Sources |-> 0]
  /\ threads = {} /\ expected = [t \in Threads |-> NoRate]
  /\ streams = {} /\ last_thread_count = 0
  /\ tasks = {} /\ chans = {} /\ failed = {}
  /\ gate = NewGate /\ gate_deadline = FALSE
  /\ told = [s \in Sources |-> [t \in Threads |-> NoRate]]
  /\ submitted = <<>> /\ shares_submitted = 0
  /\ seen = {} /\ reporters = {}

-----------------------------------------------------------------------------
(***************************************************************************)
(* Helpers.                                                                *)
(***************************************************************************)

(* Scheduler::eligible_thread_ids: threads that have declared a hashrate.  *)
eligible_thread_ids == {t \in threads : expected[t] # NoRate}

(***************************************************************************)
(* Scheduler::expected_hashrate and allocated_hashrate: the sum of the     *)
(* declared rates, the same for every source.  The value is kept as its    *)
(* summands, so two allocations are equal only if every summand is.        *)
(***************************************************************************)
allocated_hashrate(rates) == rates

(* Sending to a source fails, silently, once the source task has returned. *)
Listening(s) == s \in sources' /\ s \notin ended

(* broadcast_hashrate_change, at the end of a handler.                     *)
broadcast_hashrate_change ==
  told' = [s \in Sources |-> IF Listening(s) THEN allocated_hashrate(expected') ELSE told[s]]

(* The handlers that broadcast only when the startup gate does not hold.   *)
broadcast_unless_holding ==
  IF gate'.open THEN broadcast_hashrate_change ELSE UNCHANGED told

(***************************************************************************)
(* The outcome of update_task/replace_task calls: the assignments in made  *)
(* are entered in tasks with their share channel, after the entries not in *)
(* kept have been removed; tried \ made are the calls that returned Err.   *)
(***************************************************************************)
TasksAfter(kept, tried, made) ==
  /\ tasks' = kept \cup made
  /\ chans' = (chans \cap kept) \cup made
  /\ failed' = {p \in failed : \A k \in tried : p # <<k.source, k.thread>>}
                 \cup {<<k.source, k.thread>> : k \in tried \ made}

(* remove_tasks_where: drop entries together with their share channels.    *)
(* Mutant: the share channels stay in the StreamMap.                       *)
remove_tasks_where_keeps_channels(gone) ==
  /\ tasks' = tasks \ gone
  /\ UNCHANGED chans

remove_tasks_where(gone) ==
  /\ tasks' = tasks \ gone
  /\ chans' = chans \ gone

(* A branch of select! was taken; the disconnection check follows.         *)
Selected == pc = "select" /\ pc' = "check"

-----------------------------------------------------------------------------
(***************************************************************************)
(* Branches of select!.                                                    *)
(***************************************************************************)

handle_source_registration(s) ==
  /\ Selected
  /\ s \notin sources
  /\ sources' = sources \cup {s}
  /\ UNCHANGED <<gate, threadVars>>
  /\ broadcast_unless_holding
  /\ UNCHANGED <<ended, last_job, jobs, floor, loopVars, taskVars, shareVars>>

(* The task each eligible thread is offered when source s sends a job.     *)
JobOffers(s) ==
  {[source |-> s, job |-> jobs + 1, thread |-> t] : t \in eligible_thread_ids}

(* Mutant: Replace adds the new tasks beside the old ones, as Update does. *)
KeptTasks_all(mode, s) == tasks

(* Replace first drops the source's tasks, unless no thread is registered. *)
KeptTasks(mode, s) ==
  IF mode = "Replace" /\ threads # {} THEN {k \in tasks : k.source # s} ELSE tasks

(***************************************************************************)
(* assign_job_to_threads: cache the template and offer it to every         *)
(* eligible thread.  A thread whose actor is gone answers Err; any other   *)
(* thread may, too.                                                        *)
(***************************************************************************)
assign_job_to_threads(mode, s) ==
  /\ s \in sources \ ended
  /\ jobs < MaxJobs
  /\ jobs' = jobs + 1
  /\ last_job' = [last_job EXCEPT ![s] = jobs + 1]
  /\ floor' = IF mode = "Replace" THEN [floor EXCEPT ![s] = jobs + 1] ELSE floor
  /\ \E made \in SUBSET {k \in JobOffers(s) : k.thread \in streams} :
       TasksAfter(KeptTasks(mode, s), JobOffers(s), made)

SourceEvent_UpdateJob(s) ==
  /\ Selected
  /\ assign_job_to_threads("Update", s)
  /\ UNCHANGED <<sources, ended, loopVars, threadVars, shareVars, gate, told>>

SourceEvent_ReplaceJob(s) ==
  /\ Selected
  /\ assign_job_to_threads("Replace", s)
  /\ UNCHANGED <<sources, ended, loopVars, threadVars, shareVars, gate, told>>

(* Mutant: the cached job survives ClearJobs.                              *)
handle_clear_jobs_keeps_cache(s) ==
  /\ Selected
  /\ s \in sources \ ended
  /\ floor' = [floor EXCEPT ![s] = jobs + 1]
  /\ remove_tasks_where({k \in tasks : k.source = s})
  /\ UNCHANGED <<sources, ended, last_job, jobs, failed, loopVars, threadVars, shareVars,
                 gate, told>>

handle_clear_jobs(s) ==
  /\ Selected
  /\ s \in sources \ ended
  /\ last_job' = [last_job EXCEPT ![s] = NoJob]
  /\ floor' = [floor EXCEPT ![s] = jobs + 1]
  /\ remove_tasks_where({k \in tasks : k.source = s})
  /\ UNCHANGED <<sources, ended, jobs, failed, loopVars, threadVars, shareVars, gate, told>>

(***************************************************************************)
(* handle_share: a share of task k, which meets its source's target or     *)
(* only the easier scheduler target.  The count is taken before the send.  *)
(***************************************************************************)
handle_share(k, meets) ==
  /\ Selected
  /\ k \in chans /\ k \in tasks
  /\ IF meets
       THEN /\ shares_submitted < MaxShares
            /\ shares_submitted' = shares_submitted + 1
            /\ submitted' = IF k.source \in sources \ ended
                              THEN Append(submitted, [source |-> k.source, job |-> k.job])
                              ELSE submitted
       ELSE UNCHANGED shareVars
  /\ UNCHANGED <<sourceVars, loopVars, threadVars, taskVars, gate, told>>

(***************************************************************************)
(* handle_thread_event, ExpectedHashRate: on the thread's first report it  *)
(* is given every source's cached job (assign_cached_jobs_to_thread) and   *)
(* counted by the gate.                                                    *)
(***************************************************************************)
(* Mutant: sources without a cached job are not skipped.                   *)
CachedOffers_even_none(t) ==
  {[source |-> s, job |-> last_job[s], thread |-> t] : s \in sources}

(* Mutant: a thread is offered no cached job; its work waits for the next. *)
CachedOffers_none(t) == {}

CachedOffers(t) ==
  {[source |-> s, job |-> last_job[s], thread |-> t] :
     s \in {x \in sources : last_job[x] # NoJob}}

assign_cached_jobs_to_thread(t) ==
  \E made \in SUBSET CachedOffers(t) : TasksAfter(tasks, CachedOffers(t), made)

ExpectedHashRate(t, rate) ==
  /\ Selected
  /\ t \in streams /\ t \in threads
  /\ expected' = [expected EXCEPT ![t] = rate]
  /\ reporters' = reporters \cup {t}
  /\ IF expected[t] = NoRate
       THEN assign_cached_jobs_to_thread(t) /\ gate' = record_reported(gate)
       ELSE UNCHANGED <<taskVars, gate>>
  /\ UNCHANGED <<sourceVars, threads, seen>>
  /\ broadcast_unless_holding
  /\ UNCHANGED <<loopVars, shareVars>>

(* handle_new_thread: work and the broadcast wait for the first report.    *)
handle_new_thread(t) ==
  /\ Selected
  /\ t \notin seen
  /\ threads' = threads \cup {t}
  /\ seen' = seen \cup {t}
  /\ gate' = record_registered(gate)
  /\ streams' = streams \cup {t}
  /\ last_thread_count' = Cardinality(streams')
  /\ UNCHANGED <<expected, reporters, gate_deadline, sourceVars, taskVars, shareVars, told>>

(* The backplane sends InitialEnumerationComplete once.                    *)
(* Mutant: the fallback timer is not armed.                                *)
InitialEnumerationComplete_unarmed ==
  /\ Selected
  /\ ~gate.enumeration_complete
  /\ gate' = record_enumeration_complete(gate)
  /\ UNCHANGED <<sourceVars, threadVars, gate_deadline>>
  /\ broadcast_unless_holding
  /\ UNCHANGED <<streams, last_thread_count, taskVars, shareVars>>

InitialEnumerationComplete ==
  /\ Selected
  /\ ~gate.enumeration_complete
  /\ gate' = record_enumeration_complete(gate)
  /\ gate_deadline' = (gate_deadline \/ ~gate'.open)
  /\ UNCHANGED <<sourceVars, threadVars>>
  /\ broadcast_unless_holding
  /\ UNCHANGED <<streams, last_thread_count, taskVars, shareVars>>

StartupGateTimeout ==
  /\ Selected
  /\ gate_deadline /\ ~gate.open
  /\ gate' = record_timeout(gate)
  /\ gate_deadline' = FALSE
  /\ UNCHANGED <<sourceVars, threadVars>>
  /\ broadcast_hashrate_change
  /\ UNCHANGED <<streams, last_thread_count, taskVars, shareVars>>

(***************************************************************************)
(* The branches that only log or publish: the other thread events, the     *)
(* status and telemetry intervals, an API command.                         *)
(***************************************************************************)
LogOrPublish ==
  /\ Selected
  /\ UNCHANGED <<loopVars, sourceVars, threadVars, taskVars, shareVars, gate, told>>

Shutdown ==
  /\ pc = "select" /\ pc' = "done"
  /\ UNCHANGED <<loopVars, sourceVars, threadVars, taskVars, shareVars, gate, told>>

(***************************************************************************)
(* handle_thread_disconnections, after every branch but Shutdown.          *)
(***************************************************************************)
ThreadCountUnchanged ==
  /\ pc = "check" /\ pc' = "select"
  /\ Cardinality(streams) = last_thread_count
  /\ UNCHANGED <<loopVars, sourceVars, threadVars, taskVars, shareVars, gate, told>>

(* Mutant: the broadcast goes out before the lost threads are removed.     *)
handle_thread_disconnections_tells_first ==
  /\ pc = "check" /\ pc' = "select"
  /\ Cardinality(streams) # last_thread_count
  /\ threads' = threads \cap streams
  /\ expected' = [t \in Threads |-> IF t \in streams THEN expected[t] ELSE NoRate]
  /\ remove_tasks_where({k \in tasks : k.thread \notin streams})
  /\ last_thread_count' = Cardinality(streams)
  /\ UNCHANGED sourceVars
  /\ told' = [s \in Sources |-> IF Listening(s) THEN allocated_hashrate(expected) ELSE told[s]]
  /\ UNCHANGED <<streams, gate_deadline, seen, reporters, failed, shareVars, gate>>

handle_thread_disconnections ==
  /\ pc = "check" /\ pc' = "select"
  /\ Cardinality(streams) # last_thread_count
  /\ threads' = threads \cap streams
  /\ expected' = [t \in Threads |-> IF t \in streams THEN expected[t] ELSE NoRate]
  /\ remove_tasks_where({k \in tasks : k.thread \notin streams})
  /\ last_thread_count' = Cardinality(streams)
  /\ UNCHANGED sourceVars
  /\ broadcast_hashrate_change
  /\ UNCHANGED <<streams, gate_deadline, seen, reporters, failed, shareVars, gate>>

-----------------------------------------------------------------------------
(***************************************************************************)
(* What the other tasks do to the channels, as the StreamMaps see it.      *)
(***************************************************************************)

(* The actor of thread t returned and its event stream was polled to None. *)
StreamEnds(t) ==
  /\ pc = "select" /\ t \in streams
  /\ streams' = streams \ {t}
  /\ UNCHANGED <<pc, last_thread_count, gate_deadline, sourceVars, threadVars, taskVars,
                 shareVars, gate, told>>

(* The thread dropped the last sender of task k, e.g. by taking a new task. *)
ShareChannelEnds(k) ==
  /\ pc = "select" /\ k \in chans
  /\ chans' = chans \ {k}
  /\ UNCHANGED <<pc, tasks, failed, loopVars, sourceVars, threadVars, shareVars, gate, told>>

(* A source task returned: its entry stays, its commands go nowhere.       *)
SourceEnds(s) ==
  /\ pc = "select" /\ s \in sources \ ended
  /\ ended' = ended \cup {s}
  /\ UNCHANGED <<pc, sources, last_job, jobs, floor, loopVars, threadVars, taskVars,
                 shareVars, gate, told>>

-----------------------------------------------------------------------------
SourceNext ==
  \E s \in Sources :
    \/ handle_source_registration(s)
    \/ SourceEvent_UpdateJob(s)
    \/ SourceEvent_ReplaceJob(s)
    \/ handle_clear_jobs(s)
    \/ SourceEnds(s)

ThreadNext ==
  \E t \in Threads :
    \/ handle_new_thread(t)
    \/ \E r \in Rates : ExpectedHashRate(t, r)
    \/ StreamEnds(t)

ShareNext ==
  \E k \in chans :
    \/ \E meets \in BOOLEAN : handle_share(k, meets)
    \/ ShareChannelEnds(k)

LoopNext ==
  \/ InitialEnumerationComplete
  \/ StartupGateTimeout
  \/ LogOrPublish
  \/ Shutdown
  \/ ThreadCountUnchanged
  \/ handle_thread_disconnections

Next == SourceNext \/ ThreadNext \/ ShareNext \/ LoopNext

Spec == Init /\ [][Next]_vars

(***************************************************************************)
(* run() finishes the iteration it began (the handlers' awaits are assumed *)
(* to return, see BM13xxThread for that), and tokio's timer fires once     *)
(* its deadline passed, whatever else the loop is doing.                   *)
(***************************************************************************)
Fairness ==
  /\ WF_vars(ThreadCountUnchanged \/ handle_thread_disconnections)
  /\ SF_vars(StartupGateTimeout)

FairSpec == Spec /\ Fairness

-----------------------------------------------------------------------------
(***************************************************************************)
(* Properties.                                                             *)
(***************************************************************************)

(* The tables the handlers look each other up in agree: an event stream's  *)
(* thread is registered (expect("thread present ...")), a share channel    *)
(* has its task entry, and a task entry has its source and its thread.  Of *)
(* the expect()s that look nothing up it says nothing: that a range splits *)
(* (assign_job) and that a thread has its receiver (handle_new_thread).    *)
LookupsSucceed ==
  /\ streams \subseteq threads
  /\ chans \subseteq tasks
  /\ \A k \in tasks : k.source \in sources /\ k.thread \in threads

(* No task outlives the ReplaceJob or ClearJobs that invalidated its job,  *)
(* and the cached job a late thread would be given is never older either.  *)
TasksCurrent ==
  /\ \A k \in tasks : k.job >= floor[k.source]
  /\ \A s \in Sources : last_job[s] # NoJob => last_job[s] >= floor[s]

(* handle_share never forwards a share of a job that its source has        *)
(* replaced or cleared, whatever was in flight when it did so.             *)
NoStaleSubmission ==
  [][submitted' # submitted =>
       LET share == submitted'[Len(submitted')]
       IN share.job >= floor[share.source]]_vars

(* Once the gate is open, after every handler each live source has been    *)
(* told exactly the allocation the registered threads add up to.           *)
ToldIsCurrent ==
  gate.open => \A s \in sources \ ended : told[s] = allocated_hashrate(expected)

(* An eligible thread works on the latest job of every source that has     *)
(* one, unless the thread itself refused it: neither order of "job         *)
(* arrives" and "thread reports" leaves a thread idle.                     *)
EligibleThreadsHaveWork ==
  \A t \in eligible_thread_ids, s \in sources :
    last_job[s] # NoJob =>
      \/ [source |-> s, job |-> last_job[s], thread |-> t] \in tasks
      \/ <<s, t>> \in failed

(* The gate opens on its own only after enumeration, and when every thread *)
(* registered so far has reported, those that disconnected included; a     *)
(* gate opened otherwise was opened by the armed fallback timer.           *)
GateOpening ==
  [][(gate'.open /\ ~gate.open) =>
       \/ gate'.enumeration_complete /\ reporters' = seen'
       \/ gate_deadline /\ ~gate_deadline']_vars

(* Once enumeration is complete the gate opens, even if a registered       *)
(* thread never reports or disconnected before it did.                     *)
GateOpens == gate.enumeration_complete ~> (gate.open \/ pc = "done")

(* Refuted: "Remove threads that no longer have active event streams"      *)
(* (scheduler.rs): after the check every registered thread has a stream.   *)
DisconnectionsNoticed ==
  [][pc = "check" => threads' = streams']_vars
=============================================================================
