---------------------------- MODULE ShareTargets ----------------------------
(***************************************************************************)
(* How the scheduler measures a hash thread and sets its share target:     *)
(* HashrateEstimator (types/hashrate_estimator.rs), the clamp of the       *)
(* source's target, and the debounced warning about a difficulty that is   *)
(* too high (types/debounced_alarm.rs), for one thread and one source.     *)
(*                                                                         *)
(* Time advances in ticks, a fraction of a second, which the estimator     *)
(* rounds down to seconds.  A target is represented by the hashes a share  *)
(* takes on average, so that a larger number is a harder target.           *)
(***************************************************************************)
EXTENDS Integers, Sequences

CONSTANTS
  TicksPerSecond,
  HASHRATE_WINDOW,            \* seconds: 300
  MinSamples,                 \* of a settled estimate: 5
  MaxSamples,                 \* capacity of the window: 10 a second
  HIGH_DIFFICULTY_THRESHOLD,  \* seconds: 300
  HIGH_DIFFICULTY_DEBOUNCE,   \* seconds: 30
  Expectations,               \* hashrates the thread may declare
  JobTargets,                 \* share targets the source may ask for
  MaxTicks, MaxFound          \* bounds: ticks, and shares the thread finds

ASSUME TargetBounds ==
  /\ TicksPerSecond \in Nat \ {0} /\ HASHRATE_WINDOW \in Nat /\ MinSamples \in Nat
  /\ HIGH_DIFFICULTY_THRESHOLD \in Nat /\ HIGH_DIFFICULTY_DEBOUNCE \in Nat
  /\ MaxSamples \in Nat /\ Expectations \subseteq Nat \ {0} /\ JobTargets \subseteq Nat \ {0}

VARIABLES
  clock,
  samples, total_work,   \* HashrateEstimator: [at, work], and the sum
  pruned_at,             \* when the window was last brought up to date
  shares,                \* history: every share recorded
  declared,              \* ThreadEntry.expected: what the thread declared, 0 before
  last_target,           \* share target of SourceEntry.last_job, 0 before
  alarm,                 \* DebouncedAlarm: [state, since]
  steady_since,          \* history: when the job's target or the hashrate last changed
  assigned               \* the thread's task: its target, and the hashrate it was made for

windowVars == <<samples, total_work, pruned_at, shares>>
alarmVars == <<alarm, steady_since>>
targetVars == <<clock, windowVars, declared, last_target, alarmVars, assigned>>

NoAssignment == [hashes |-> 0, rate |-> 0]

TargetsInit ==
  /\ clock = 0 /\ samples = <<>> /\ total_work = 0 /\ pruned_at = 0 /\ shares = <<>>
  /\ declared = 0 /\ last_target = 0 /\ alarm = [state |-> "idle", since |-> 0] /\ steady_since = 0
  /\ assigned = NoAssignment

-----------------------------------------------------------------------------
(***************************************************************************)
(* HashrateEstimator.                                                      *)
(***************************************************************************)
RunningWork(s) ==
  LET sum[n \in 0 .. Len(s)] == IF n = 0 THEN 0 ELSE sum[n - 1] + s[n].work IN sum
SumOfWork(s) == RunningWork(s)[Len(s)]

(* The samples at the front up to the first that is not older.             *)
Outdated(s, cutoff) ==
  CHOOSE n \in 0 .. Len(s) :
    /\ \A k \in 1 .. n : s[k].at < cutoff
    /\ n = Len(s) \/ s[n + 1].at >= cutoff

Without(s, n) == SubSeq(s, n + 1, Len(s))

(* Mutant: a sample leaves the window but its work stays in the total.     *)
Pruned_keeps_total(s, total, cutoff) ==
  [samples |-> Without(s, Outdated(s, cutoff)), total |-> total]

(* prune_before: they leave, and their work with them.                     *)
Pruned(s, total, cutoff) ==
  LET n == Outdated(s, cutoff)
  IN [samples |-> Without(s, n), total |-> total - SumOfWork(SubSeq(s, 1, n))]

WindowStart == clock - HASHRATE_WINDOW * TicksPerSecond

Current == Pruned(samples, total_work, WindowStart)

(* record_at: prune, append, and drop the oldest above the capacity.       *)
record_at(work) ==
  LET longer == Append(Current.samples, [at |-> clock, work |-> work])
      excess == IF Len(longer) > MaxSamples THEN Len(longer) - MaxSamples ELSE 0
  IN /\ samples' = Without(longer, excess)
     /\ total_work' = Current.total + work - SumOfWork(SubSeq(longer, 1, excess))
     /\ pruned_at' = clock

(* hashrate_at: the work since the oldest sample, by whole seconds.        *)
hashrate_at ==
  IF Current.samples = <<>> THEN 0
  ELSE LET secs == (clock - Current.samples[1].at) \div TicksPerSecond
       IN IF secs = 0 THEN 0 ELSE Current.total \div secs

(* hashrate() leaves the window pruned.                                    *)
PrunesWindow ==
  /\ samples' = Current.samples /\ total_work' = Current.total /\ pruned_at' = clock

is_settled == Len(samples) >= MinSamples

-----------------------------------------------------------------------------
(***************************************************************************)
(* The scheduler.                                                          *)
(***************************************************************************)

(* MEASUREMENT_SHARE_RATE is one share a second, FLOOD_CAP_RATE ten.       *)
MeasurementHashes(rate) == IF rate <= 1 THEN 1 ELSE rate
FloodCapHashes(rate) == IF rate <= 10 THEN 1 ELSE rate \div 10

compute_scheduler_target(rate, hashes) ==
  CASE rate = 0 -> hashes
    [] rate # 0 /\ hashes > MeasurementHashes(rate) -> MeasurementHashes(rate)
    [] rate # 0 /\ hashes < FloodCapHashes(rate) -> FloodCapHashes(rate)
    [] OTHER -> hashes

(* settled_hashrate().or(entry.expected), and the window it leaves.        *)
AssignmentRate == IF is_settled THEN hashrate_at ELSE declared

SetsTask(hashes) ==
  /\ assigned' = [hashes |-> compute_scheduler_target(AssignmentRate, hashes),
                  rate   |-> AssignmentRate]
  /\ IF is_settled THEN PrunesWindow ELSE UNCHANGED <<samples, total_work, pruned_at>>

is_difficulty_too_high(hashes, rate) ==
  rate # 0 /\ hashes > rate * HIGH_DIFFICULTY_THRESHOLD

Idle == [state |-> "idle", since |-> 0]

(* DebouncedAlarm::check.                                                  *)
check(a, condition) ==
  CASE ~condition                        -> Idle
    [] condition /\ a.state = "idle"     -> [state |-> "timing", since |-> clock]
    [] condition /\ a.state = "timing"   ->
         IF clock - a.since >= HIGH_DIFFICULTY_DEBOUNCE * TicksPerSecond
           THEN [state |-> "fired", since |-> a.since] ELSE a
    [] OTHER                             -> a

(* assign_job_to_threads: the alarm is reset by a new target, then asked;  *)
(* the thread gets the job once it has declared its hashrate.              *)
AssignJob(hashes) ==
  /\ last_target' = hashes
  /\ alarm' = check(IF hashes # last_target THEN Idle ELSE alarm,
                    is_difficulty_too_high(hashes, declared))
  /\ steady_since' = IF hashes # last_target THEN clock ELSE steady_since
  /\ IF declared # 0 THEN SetsTask(hashes)
     ELSE UNCHANGED <<assigned, samples, total_work, pruned_at>>
  /\ UNCHANGED <<clock, shares, declared>>

(* The thread reports its hashrate: broadcast_hashrate_change resets the   *)
(* alarm, and a first report brings the cached job.                        *)
Declare(rate) ==
  /\ rate # declared /\ declared' = rate
  /\ alarm' = Idle /\ steady_since' = clock
  /\ assigned' = IF declared = 0 /\ last_target # 0
                   THEN [hashes |-> compute_scheduler_target(rate, last_target), rate |-> rate]
                   ELSE assigned
  /\ UNCHANGED <<clock, windowVars, last_target>>

(* handle_share: the work of the task's target is recorded.                *)
RecordShare ==
  /\ assigned # NoAssignment /\ Len(shares) < MaxFound
  /\ record_at(assigned.hashes)
  /\ shares' = Append(shares, [at |-> clock, work |-> assigned.hashes])
  /\ UNCHANGED <<clock, declared, last_target, alarmVars, assigned>>

(* measured_hashrate, for the telemetry and the status line.               *)
Measure ==
  /\ PrunesWindow
  /\ UNCHANGED <<clock, shares, declared, last_target, alarmVars, assigned>>

TickOn ==
  /\ clock < MaxTicks /\ clock' = clock + 1
  /\ UNCHANGED <<windowVars, declared, last_target, alarmVars, assigned>>

TargetsNext ==
  \/ \E h \in JobTargets : AssignJob(h)
  \/ \E r \in Expectations : Declare(r)
  \/ RecordShare
  \/ Measure
  \/ TickOn

TargetsSpec == TargetsInit /\ [][TargetsNext]_targetVars

-----------------------------------------------------------------------------
(* The estimator's running total, kept up by additions and subtractions,   *)
(* is the work of its samples, and its samples are the shares that are     *)
(* both among the newest, up to its capacity, and found within the window  *)
(* when it was last brought up to date: none missing, none twice.          *)
EstimateOfWindow ==
  /\ total_work = SumOfWork(samples)
  /\ \E n \in 0 .. Len(shares) :
       /\ samples = Without(shares, n)
       /\ \A k \in 1 .. Len(shares) :
            k > n <=> /\ shares[k].at >= pruned_at - HASHRATE_WINDOW * TicksPerSecond
                      /\ k > Len(shares) - MaxSamples

(* The warning "Share difficulty too high" is given only when target and   *)
(* hashrate have been the same, and too high, for the whole debounce time. *)
WarningIsSteady ==
  alarm.state = "fired" =>
    /\ is_difficulty_too_high(last_target, declared)
    /\ clock - steady_since >= HIGH_DIFFICULTY_DEBOUNCE * TicksPerSecond

(* What is reported of a thread is what it did: see the two parts.         *)
MeasuresHonest == EstimateOfWindow /\ WarningIsSteady
=============================================================================
