---------------------------- MODULE BitaxeBoard ----------------------------
(***************************************************************************)
(* A Bitaxe Gamma board: its monitor task (board/bitaxe.rs), the hash      *)
(* thread's use of the core rail and the reset line                        *)
(* (asic/bm13xx/thread.rs) and the control channel both share              *)
(* (mgmt_protocol/bitaxe_raw/channel.rs).                                  *)
(*                                                                         *)
(* Every access to the rail, the pin, the fan and the sensors is a request *)
(* to the board's firmware: lock the channel, write a packet with the next *)
(* id, read one reply within a second, release the lock.  A request may be *)
(* answered late or never; either way it was carried out.  The requests    *)
(* and replies in flight are FIFO queues.                                  *)
(*                                                                         *)
(* Each task is a step (pc) of its code.  A step in Request sends that     *)
(* request; OnOk and OnErr say where the code goes on its outcome.  The    *)
(* reads of one sensor pass after the ASIC temperature are one request     *)
(* whose outcome only telemetry uses; work on the data port (enumeration,  *)
(* registers, jobs, shares) is "chips" and "busy".  The device accepts     *)
(* OPERATION writes, so the read-back differs only if it was not written.  *)
(***************************************************************************)
EXTENDS Naturals, Sequences

CONSTANTS
  IdSpace,       \* packet ids: 256, a u8 that wraps
  BadLimit,      \* BAD_READING_LIMIT: 3
  MaxLate,       \* bound: requests that time out before their reply came
  MaxBringUps    \* bound: assignments that find the chain uninitialized

ASSUME IdSpaceFits == IdSpace \in Nat /\ MaxLate \in Nat /\ MaxLate + 1 < IdSpace
ASSUME BoundsAreNat == BadLimit \in Nat \ {0} /\ MaxBringUps \in Nat

Task == {"thread", "monitor"}

(* Mutant: the exit path gives up at its first error.                      *)
OnErr_gives_up ==
  [thread  |-> [start |-> "idle", enable |-> "idle", readon |-> "idle", release |-> "idle",
                reset |-> "off", disable |-> "off", readoff |-> "off"],
   monitor |-> [temp |-> "sense", sense |-> "judge", fanfull |-> "signal", reset |-> "disable",
                disable |-> "after", readoff |-> "after", fanlow |-> "done"]]

(* Where each task goes when a request succeeds.                           *)
OnOk ==
  [thread  |-> [start |-> "idle", enable |-> "readon", readon |-> "release", release |-> "chips",
                reset |-> "disable", disable |-> "readoff", readoff |-> "off"],
   monitor |-> [temp |-> "sense", sense |-> "judge", fanfull |-> "signal", reset |-> "disable",
                disable |-> "readoff", readoff |-> "after", fanlow |-> "done"]]

(* And when it fails: bring-up is refused, everything else goes on.        *)
OnErr ==
  [thread  |-> [start |-> "idle", enable |-> "idle", readon |-> "idle", release |-> "idle",
                reset |-> "disable", disable |-> "off", readoff |-> "off"],
   monitor |-> [temp |-> "sense", sense |-> "judge", fanfull |-> "signal", reset |-> "disable",
                disable |-> "after", readoff |-> "after", fanlow |-> "done"]]

(* Mutant: on the way down the rail is cut before reset is asserted.       *)
Request_rail_first ==
  [start |-> "assert", enable |-> "on", readon |-> "readback", release |-> "release",
   reset |-> "off", disable |-> "assert", readoff |-> "readback",
   temp |-> "temp", sense |-> "sense", fanfull |-> "fan", fanlow |-> "fan"]

(* The request a step sends.                                               *)
Request ==
  [start |-> "assert", enable |-> "on", readon |-> "readback", release |-> "release",
   reset |-> "assert", disable |-> "off", readoff |-> "readback",
   temp |-> "temp", sense |-> "sense", fanfull |-> "fan", fanlow |-> "fan"]

Packet == [id : 0 .. IdSpace - 1, request : {Request[s] : s \in DOMAIN Request}]
Reply  == [id : 0 .. IdSpace - 1, good : BOOLEAN]

VARIABLES
  pc,            \* the step of each task
  (* ControlChannel. *)
  holder,        \* the task that holds the lock, or "none"
  sent_id,       \* id of the holder's packet
  next_id,
  wire,          \* packets the firmware has not carried out
  inbox,         \* replies not yet read
  (* The board. *)
  rail,          \* OPERATION: core rail on
  nrst,          \* the pin is high: chips out of reset
  hot,           \* the ASIC reads above the threshold or not at all
  (* Shared by the two tasks. *)
  released_since, \* "none", "fresh" or "settled" (500 ms ago or more)
  shutdown,      \* thread_shutdown was sent
  (* The tasks' own. *)
  chain_initialized,
  reading,       \* raw_temp of this tick was normal
  bad_thermal_count,
  cancelled,     \* the backplane cancelled the monitor
  (* Bounds. *)
  late, bringups

chanVars    == <<holder, sent_id, next_id, wire, inbox, late>>
boardVars   == <<rail, nrst, hot>>
threadVars  == <<chain_initialized, bringups>>
monitorVars == <<reading, bad_thermal_count, cancelled>>
vars == <<pc, chanVars, boardVars, threadVars, monitorVars, released_since, shutdown>>

BringUp == {"enable", "readon", "release", "chips"}

TypeOK ==
  /\ pc["thread"] \in DOMAIN OnOk["thread"] \cup {"idle", "chips", "busy", "off"}
  /\ pc["monitor"] \in DOMAIN OnOk["monitor"]
                        \cup {"tick", "judge", "signal", "wait", "after", "done"}
  /\ holder \in Task \cup {"none"} /\ sent_id \in 0 .. IdSpace - 1 /\ next_id \in 0 .. IdSpace - 1
  /\ wire \in Seq(Packet) /\ inbox \in Seq(Reply)
  /\ rail \in BOOLEAN /\ nrst \in BOOLEAN /\ hot \in BOOLEAN
  /\ released_since \in {"none", "fresh", "settled"} /\ shutdown \in BOOLEAN
  /\ chain_initialized \in BOOLEAN /\ reading \in BOOLEAN
  /\ bad_thermal_count \in 0 .. BadLimit /\ cancelled \in BOOLEAN
  /\ late \in 0 .. MaxLate /\ bringups \in 0 .. MaxBringUps

(* attach held the chips in reset and Tps546::init turned the rail off.    *)
Init ==
  /\ pc = [thread |-> "start", monitor |-> "tick"]
  /\ holder = "none" /\ sent_id = 0 /\ next_id = 0 /\ wire = <<>> /\ inbox = <<>>
  /\ rail = FALSE /\ nrst = FALSE /\ hot = FALSE
  /\ released_since = "none" /\ shutdown = FALSE
  /\ chain_initialized = FALSE /\ reading = FALSE
  /\ bad_thermal_count = 0 /\ cancelled = FALSE
  /\ late = 0 /\ bringups = 0

-----------------------------------------------------------------------------
(***************************************************************************)
(* The control channel.                                                    *)
(***************************************************************************)

(* The regulator's own mutex is held over an OPERATION write and its       *)
(* read-back, and over the monitor's sensor pass.                          *)
HoldsRegulator(a) ==
  \/ pc[a] \in {"readon", "readoff"}
  \/ holder = a /\ pc[a] \in {"enable", "disable", "sense"}

Free(a) ==
  /\ holder = "none"
  /\ pc[a] \in {"enable", "disable", "sense"} => \A b \in Task \ {a} : ~HoldsRegulator(b)

(***************************************************************************)
(* send_packet up to its await.  Release comes after a sleep, where the    *)
(* pending shutdown would have been seen.                                  *)
(***************************************************************************)
Send(a) ==
  /\ pc[a] \in DOMAIN OnOk[a] /\ Free(a)
  /\ ~(pc[a] = "release" /\ shutdown)
  /\ holder' = a /\ sent_id' = next_id /\ next_id' = (next_id + 1) % IdSpace
  /\ wire' = Append(wire, [id |-> next_id, request |-> Request[pc[a]]])
  /\ UNCHANGED <<pc, inbox, late, boardVars, threadVars, monitorVars, released_since, shutdown>>

(* The firmware carries out the oldest packet; its reply may get lost.  A  *)
(* hot ASIC never reads normal; a cool one may still give a bad reading.   *)
Firmware(good, lost) ==
  /\ wire # <<>>
  /\ LET p == Head(wire)
     IN /\ p.request = "temp" => (good => ~hot)
        /\ p.request = "readback" => (good = rail)
        /\ p.request \notin {"temp", "readback"} => good
        /\ rail' = IF p.request \in {"on", "off"} THEN p.request = "on" ELSE rail
        /\ nrst' = IF p.request \in {"assert", "release"} THEN p.request = "release" ELSE nrst
        /\ inbox' = IF lost THEN inbox ELSE Append(inbox, [id |-> p.id, good |-> good])
  /\ wire' = Tail(wire)
  /\ UNCHANGED <<pc, holder, sent_id, next_id, late, hot, threadVars, monitorVars,
                 released_since, shutdown>>

(***************************************************************************)
(* What the caller of send_packet does with the result: the read-back must *)
(* say what was written, the reset line records a successful change.       *)
(***************************************************************************)
Outcome(a, ok, good) ==
  LET step == pc[a]
      fine == ok /\ (step = "readon" => good) /\ (step = "readoff" => ~good)
  IN /\ pc' = [pc EXCEPT ![a] = IF fine THEN OnOk[a][step] ELSE OnErr[a][step]]
     /\ released_since' = IF ok /\ Request[step] = "release" THEN "fresh"
                          ELSE IF ok /\ Request[step] = "assert" THEN "none"
                          ELSE released_since
     /\ reading' = IF step = "temp" THEN ok /\ good ELSE reading
     /\ UNCHANGED <<boardVars, threadVars, bad_thermal_count, cancelled, shutdown>>

(* send_packet reads one reply: Err if it is not the reply to its packet.  *)
Answer(a) ==
  /\ holder = a /\ inbox # <<>>
  /\ Outcome(a, Head(inbox).id = sent_id, Head(inbox).good)
  /\ inbox' = Tail(inbox) /\ holder' = "none"
  /\ UNCHANGED <<sent_id, next_id, wire, late>>

(* The second is over and no reply came.                                   *)
TimedOut(a) ==
  /\ holder = a /\ inbox = <<>>
  /\ \/ wire = <<>> /\ UNCHANGED late
     \/ wire # <<>> /\ late < MaxLate /\ late' = late + 1
  /\ Outcome(a, FALSE, FALSE)
  /\ holder' = "none"
  /\ UNCHANGED <<sent_id, next_id, wire, inbox>>

-----------------------------------------------------------------------------
(***************************************************************************)
(* The hash thread's actor.                                                *)
(***************************************************************************)
ThreadGoes(from, to) ==
  /\ pc["thread"] = from /\ pc' = [pc EXCEPT !["thread"] = to]

(* assign_task starts bring-up unless the chain is initialized.            *)
AssignTask ==
  /\ ThreadGoes("idle", "enable")
  /\ ~chain_initialized /\ bringups < MaxBringUps
  /\ bringups' = bringups + 1
  /\ UNCHANGED <<chanVars, boardVars, monitorVars, chain_initialized, released_since, shutdown>>

(* Enumeration, configuration and verification over the data port.         *)
ChipsDone(ok) ==
  /\ ThreadGoes("chips", "idle")
  /\ chain_initialized' = ok
  /\ UNCHANGED <<chanVars, boardVars, monitorVars, bringups, released_since, shutdown>>

(* The shutdown branch drops the bring-up future: the channel's lock is    *)
(* released, the packet already written stays written.                     *)
AbortBringUp ==
  /\ pc["thread"] \in BringUp /\ shutdown
  /\ pc' = [pc EXCEPT !["thread"] = "reset"]
  /\ holder' = IF holder = "thread" THEN "none" ELSE holder
  /\ UNCHANGED <<sent_id, next_id, wire, inbox, late, boardVars, threadVars, monitorVars,
                 released_since, shutdown>>

(* A share waits for room in a full channel, perhaps for ever.             *)
Block ==
  /\ ThreadGoes("idle", "busy") /\ chain_initialized
  /\ UNCHANGED <<chanVars, boardVars, threadVars, monitorVars, released_since, shutdown>>

Unblock ==
  /\ ThreadGoes("busy", "idle")
  /\ UNCHANGED <<chanVars, boardVars, threadVars, monitorVars, released_since, shutdown>>

(* The loop ends, on the signal or because a channel closed; disable_chain *)
(* follows.                                                                *)
ThreadLeaves ==
  /\ ThreadGoes("idle", "reset")
  /\ UNCHANGED <<chanVars, boardVars, threadVars, monitorVars, released_since, shutdown>>

-----------------------------------------------------------------------------
(***************************************************************************)
(* The monitor task.                                                       *)
(***************************************************************************)
MonitorGoes(from, to) ==
  /\ pc["monitor"] = from /\ pc' = [pc EXCEPT !["monitor"] = to]

Tick ==
  /\ MonitorGoes("tick", "temp")
  /\ UNCHANGED <<chanVars, boardVars, threadVars, monitorVars, released_since, shutdown>>

(* Mutant: a bad reading does not count, it only is no normal one.         *)
CountAfter_dropped(settled) == IF settled /\ ~reading THEN bad_thermal_count ELSE 0

CountAfter(settled) == IF settled /\ ~reading THEN bad_thermal_count + 1 ELSE 0

(* The rest of monitor_tick, once all sensors were read.                   *)
Judge ==
  LET count == CountAfter(released_since = "settled")
  IN /\ MonitorGoes("judge", IF count >= BadLimit THEN "fanfull" ELSE "tick")
     /\ bad_thermal_count' = count
     /\ UNCHANGED <<chanVars, boardVars, threadVars, reading, cancelled, released_since, shutdown>>

Cancelled ==
  /\ cancelled /\ MonitorGoes("tick", "signal")
  /\ UNCHANGED <<chanVars, boardVars, threadVars, monitorVars, released_since, shutdown>>

(* shutdown: signal the thread, ...                                        *)
Signal ==
  /\ MonitorGoes("signal", "wait")
  /\ shutdown' = TRUE
  /\ UNCHANGED <<chanVars, boardVars, threadVars, monitorVars, released_since>>

(* Mutant: shutdown waits for the thread without a timeout.                *)
WaitOver_no_timeout ==
  /\ pc["thread"] = "off" /\ MonitorGoes("wait", "reset")
  /\ UNCHANGED <<chanVars, boardVars, threadVars, monitorVars, released_since, shutdown>>

(***************************************************************************)
(* ... wait for its exit.  THREAD_EXIT_TIMEOUT can run out only while the  *)
(* thread is where it does not look at the signal: asserting reset at      *)
(* startup, sending a share, or leaving.                                   *)
(***************************************************************************)
WaitOver ==
  /\ pc["thread"] \in {"off", "start", "busy", "reset", "disable", "readoff"}
  /\ MonitorGoes("wait", "reset")
  /\ UNCHANGED <<chanVars, boardVars, threadVars, monitorVars, released_since, shutdown>>

(* ... and, after disable_output: only a cancelled monitor lowers the fan. *)
AfterDisable ==
  /\ MonitorGoes("after", IF bad_thermal_count >= BadLimit THEN "done" ELSE "fanlow")
  /\ UNCHANGED <<chanVars, boardVars, threadVars, monitorVars, released_since, shutdown>>

-----------------------------------------------------------------------------
(* The backplane cancels the monitor: unplug or daemon shutdown.           *)
Cancel ==
  /\ ~cancelled /\ cancelled' = TRUE
  /\ UNCHANGED <<pc, chanVars, boardVars, threadVars, reading, bad_thermal_count, released_since,
                 shutdown>>

(* 500 ms after the release the diode is trusted.                          *)
Settle ==
  /\ released_since = "fresh" /\ released_since' = "settled"
  /\ UNCHANGED <<pc, chanVars, boardVars, threadVars, monitorVars, shutdown>>

Temperature ==
  /\ hot' = ~hot
  /\ UNCHANGED <<pc, chanVars, rail, nrst, threadVars, monitorVars, released_since, shutdown>>

(* A request has ended: its answer, whatever it says, or the timeout.      *)
Ends(a) == Answer(a) \/ TimedOut(a)

FirmwareNext == \E good, lost \in BOOLEAN : Firmware(good, lost)

ThreadNext ==
  \/ AssignTask
  \/ \E ok \in BOOLEAN : ChipsDone(ok)
  \/ AbortBringUp
  \/ Block
  \/ Unblock
  \/ ThreadLeaves

MonitorNext == Tick \/ Judge \/ Cancelled \/ Signal \/ WaitOver \/ AfterDisable

EnvNext == Cancel \/ Settle \/ Temperature

Next ==
  \/ \E a \in Task : Send(a) \/ Ends(a)
  \/ FirmwareNext
  \/ ThreadNext
  \/ MonitorNext
  \/ EnvNext

Spec == Init /\ [][Next]_vars

(***************************************************************************)
(* Both mutexes are FIFO, a request ends after a second at the latest, the *)
(* tasks go on, the thread sees a pending signal wherever it looks at it.  *)
(* Nothing makes the scheduler take a share, so nothing makes Unblock      *)
(* happen; nor need the backplane ever cancel.                             *)
(***************************************************************************)
Fairness ==
  /\ \A a \in Task : SF_vars(Send(a)) /\ WF_vars(Ends(a))
  /\ WF_vars(FirmwareNext)
  /\ WF_vars(AbortBringUp)
  /\ SF_vars(shutdown /\ ThreadLeaves)
  /\ WF_vars(Tick) /\ WF_vars(Judge) /\ SF_vars(Cancelled)
  /\ WF_vars(Signal) /\ WF_vars(WaitOver) /\ WF_vars(AfterDisable)
  /\ WF_vars(Settle)

FairSpec == Spec /\ Fairness

-----------------------------------------------------------------------------
(***************************************************************************)
(* Properties.                                                             *)
(***************************************************************************)

(* "the actor disables the chain on exit whatever the bring-up progress":  *)
(* when both tasks have ended and the firmware has caught up, the rail is  *)
(* off and the chips are in reset, whatever was aborted, timed out or      *)
(* answered to the wrong request on the way.                               *)
SafeWhenOff ==
  (pc["thread"] = "off" /\ pc["monitor"] = "done" /\ wire = <<>>) => (~rail /\ ~nrst)

(* "Power the core rail before releasing reset", and assert reset before   *)
(* cutting it: at no moment are unpowered chips out of reset, although two *)
(* tasks write both lines.                                                 *)
RailBeforeRelease == nrst => rail

(* A board whose ASIC stays hot or unreadable is put in reset: the chips   *)
(* do not stay hot for ever with released_since recorded.                  *)
HotStops == []<>(~hot \/ ~nrst \/ released_since = "none")

(* Cancelling the monitor ends it, even if the thread never exits.         *)
CancelCompletes == cancelled ~> (pc["monitor"] = "done")

(* Refuted: "Wait for response with matching ID" (channel.rs): a request   *)
(* fails only if its reply has not come, not because an older one was      *)
(* read instead.                                                           *)
MatchingReplyAwaited ==
  [][\A a \in Task :
       Answer(a) => \/ Head(inbox).id = sent_id
                    \/ \A i \in 1 .. Len(inbox) : inbox[i].id # sent_id]_vars
=============================================================================
