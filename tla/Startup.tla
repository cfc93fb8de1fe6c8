------------------------------ MODULE Startup ------------------------------
(***************************************************************************)
(* From device to hash thread: the USB monitor (transport/usb.rs), the     *)
(* CPU miner's one-shot transport, the backplane (backplane.rs) and their  *)
(* wiring in the daemon (daemon.rs), up to the scheduler's channel of      *)
(* thread registrations.                                                   *)
(*                                                                         *)
(* A device that is unplugged and plugged in again is a new instance (its  *)
(* DeviceId changes, its serial number does not).  Creating a board may    *)
(* take long and may fail; its one or more threads are one registration.   *)
(* Shutting a board down is one step: see BitaxeBoard.  The transports'    *)
(* event channels (100) are taken to have room.                            *)
(***************************************************************************)
EXTENDS Naturals, FiniteSets, Sequences

CONSTANTS
  Devices,     \* USB devices
  DeviceInfo,  \* their UsbDeviceInfo: [vid, pid, bcd, manufacturer, product, serial]
  RETRIES,     \* looks for a board's serial ports: 20
  RegCap,      \* capacity of the channel of thread registrations: 10
  MaxPlugs     \* bound: devices plugged in after the start

ASSUME DevicesAreUsb == Devices \cap {"cpu", "none"} = {} /\ DOMAIN DeviceInfo = Devices
ASSUME BoundsAreNat ==
  RETRIES \in Nat \ {0} /\ RegCap \in Nat \ {0} /\ MaxPlugs \in Nat

-----------------------------------------------------------------------------
(***************************************************************************)
(* Which device is which board (board/pattern.rs).  A Match, and a string  *)
(* that a device may lack, are sequences of at most one element; <<>> is   *)
(* Match::Any, or None.                                                    *)
(***************************************************************************)
Wildcard    == <<>>
Specific(v) == <<v>>
Exact(text) == Specific([how |-> "Exact", value |-> text])

BoardPattern(vid, pid, bcd_device, manufacturer, product, serial_pattern) ==
  [vid |-> vid, pid |-> pid, bcd_device |-> bcd_device, manufacturer |-> manufacturer,
   product |-> product, serial_pattern |-> serial_pattern]

(* What inventory::submit! collects.                                       *)
BoardDescriptors ==
  {BoardPattern(Wildcard, Wildcard, Wildcard, Exact("OSMU"), Exact("Bitaxe"), Wildcard),
   BoardPattern(Specific(4617), Specific(24834), Wildcard,
                Exact("OSMU"), Exact("Bitaxe Gamma RHAP-D"), Wildcard),
   BoardPattern(Wildcard, Wildcard, Wildcard, Exact("256F"), Exact("EmberOne00"), Wildcard)}

(* A device without the string does not match; every descriptor's          *)
(* StringMatch is Exact.                                                   *)
string_matches(m, s) == s # <<>> /\ m.how = "Exact" /\ s[1] = m.value
bcd_matches(m, bcd) == m.value = IF m.how = "Exact" THEN bcd ELSE bcd \div 256

matches(p, device) ==
  /\ p.vid \in {Wildcard, Specific(device.vid)}
  /\ p.pid \in {Wildcard, Specific(device.pid)}
  /\ p.bcd_device = Wildcard \/ bcd_matches(p.bcd_device[1], device.bcd)
  /\ p.manufacturer = Wildcard \/ string_matches(p.manufacturer[1], device.manufacturer)
  /\ p.product = Wildcard \/ string_matches(p.product[1], device.product)
  /\ p.serial_pattern = Wildcard \/ string_matches(p.serial_pattern[1], device.serial)

string_score == [Exact |-> 20, Regex |-> 15, Contains |-> 10]
bcd_score == [Exact |-> 15, Major |-> 10]

Score(criterion, Points(_)) == IF criterion = Wildcard THEN 0 ELSE Points(criterion[1])

specificity(p) ==
  Score(p.vid, LAMBDA v : 10) + Score(p.pid, LAMBDA v : 10)
    + Score(p.bcd_device, LAMBDA m : bcd_score[m.how])
    + Score(p.manufacturer, LAMBDA m : string_score[m.how])
    + Score(p.product, LAMBDA m : string_score[m.how])
    + Score(p.serial_pattern, LAMBDA m : string_score[m.how])

(* The most specific of the patterns that match, or none.                  *)
find_descriptor(device) ==
  LET matching == {p \in BoardDescriptors : matches(p, device)}
  IN {p \in matching : \A q \in matching : specificity(q) <= specificity(p)}

Boards   == {d \in Devices : find_descriptor(DeviceInfo[d]) # {}}
Instance == [dev : Devices, gen : 0 .. MaxPlugs]
Cpu      == [dev |-> "cpu", gen |-> 0]
Nobody   == [dev |-> "none", gen |-> 0]
Board    == {i \in Instance : i.dev \in Boards} \cup {Cpu}

(* The key of a board: its serial number, or "unknown".                    *)
board_id(b) ==
  IF b = Cpu THEN "cpu"
  ELSE IF DeviceInfo[b.dev].serial = <<>> THEN "unknown" ELSE DeviceInfo[b.dev].serial[1]

Event(kind, i) == [kind |-> kind, inst |-> i]
Complete == Event("complete", Nobody)
Transport == {"usb", "cpu"}

VARIABLES
  transports,   \* those the daemon started, fixed
  (* The bus and its hotplug watch. *)
  plugged,      \* instances present
  plugs,        \* instances plugged in so far, after the start
  hotplug,      \* the watch's events, in order
  (* monitor(). *)
  usb,          \* "list", "scan", "watch" or "ended"
  scan,         \* devices listed and not yet reported
  known,        \* known_devices
  channel,      \* the event channel of each transport
  (* The backplane. *)
  bp,           \* "start", "run", "create", "register", "stopping" or "ended"
  current,      \* the device it is creating a board for
  port_attempt, \* ... and how often it has looked for its serial ports
  boards,       \* boards it can shut down
  completed,    \* transports that completed
  completion_sent,
  running,      \* boards whose tasks run
  (* The scheduler. *)
  regs,         \* thread_tx: instances and Complete
  registered, enumerated,
  shutdown,
  (* History: reported as connected; listed by the initial scan; failed.   *)
  announced, starting, failed

usbVars   == <<usb, scan, known, announced, starting>>
busVars   == <<plugged, plugs, hotplug>>
bpVars    == <<bp, current, port_attempt, boards, completed, completion_sent, running, failed>>
schedVars == <<regs, registered, enumerated>>
vars == <<transports, busVars, usbVars, channel, bpVars, schedVars, shutdown>>

TypeOK ==
  /\ transports \subseteq Transport
  /\ plugged \subseteq Instance /\ plugs \in 0 .. MaxPlugs
  /\ \A n \in 1 .. Len(hotplug) :
       hotplug[n].kind \in {"connected", "disconnected"} /\ hotplug[n].inst \in Instance
  /\ usb \in {"list", "scan", "watch", "ended"}
  /\ scan \subseteq Instance /\ known \subseteq Instance /\ announced \subseteq Instance
  /\ bp \in {"start", "run", "create", "register", "stopping", "ended"}
  /\ current \in Board \cup {Nobody} /\ (current # Nobody <=> bp \in {"create", "register"})
  /\ port_attempt \in 0 .. RETRIES - 1
  /\ boards \subseteq Board /\ running \subseteq Board /\ failed \subseteq Board
  /\ completed \subseteq transports /\ completion_sent \in BOOLEAN
  /\ \A n \in 1 .. Len(regs) : regs[n] \in Board \cup {Nobody}
  /\ Len(regs) <= RegCap
  /\ registered \subseteq Board /\ enumerated \in BOOLEAN /\ shutdown \in BOOLEAN

(* Daemon::run: USB unless disabled, the CPU miner if configured.  The     *)
(* CPU transport sends its two events and is gone; a hotplug watch that    *)
(* cannot be created leaves a USB channel without a sender.                *)
Init ==
  /\ transports \in SUBSET Transport
  /\ plugged \in SUBSET {i \in Instance : i.gen = 0} /\ plugs = 0 /\ hotplug = <<>>
  /\ usb \in {"list", "ended"} /\ ("usb" \notin transports => usb = "ended")
  /\ scan = {} /\ known = {} /\ announced = {}
  /\ channel = [usb |-> <<>>, cpu |-> IF "cpu" \in transports
                                         THEN <<Event("connected", Cpu), Complete>> ELSE <<>>]
  /\ bp = "start" /\ current = Nobody /\ port_attempt = 0 /\ boards = {} /\ completed = {}
  /\ completion_sent = FALSE /\ running = {}
  /\ regs = <<>> /\ registered = {} /\ enumerated = FALSE /\ shutdown = FALSE
  /\ starting = (IF "cpu" \in transports THEN {Cpu} ELSE {}) /\ failed = {}

-----------------------------------------------------------------------------
(***************************************************************************)
(* The bus.  The watch records from its creation on.                       *)
(***************************************************************************)
Watching == usb # "ended"

Plug(d) ==
  /\ \A i \in plugged : i.dev # d
  /\ plugs < MaxPlugs /\ plugs' = plugs + 1
  /\ LET i == [dev |-> d, gen |-> plugs + 1]
     IN /\ plugged' = plugged \cup {i}
        /\ hotplug' = IF Watching THEN Append(hotplug, Event("connected", i)) ELSE hotplug
  /\ UNCHANGED <<transports, usbVars, channel, bpVars, schedVars, shutdown>>

Unplug(i) ==
  /\ i \in plugged
  /\ plugged' = plugged \ {i}
  /\ hotplug' = IF Watching THEN Append(hotplug, Event("disconnected", i)) ELSE hotplug
  /\ UNCHANGED <<transports, plugs, usbVars, channel, bpVars, schedVars, shutdown>>

-----------------------------------------------------------------------------
(***************************************************************************)
(* monitor().                                                              *)
(***************************************************************************)
ReceiverDropped == bp \in {"stopping", "ended"}

(* The monitor returns and drops the watch and what it knows.              *)
Returns ==
  /\ usb' = "ended" /\ scan' = {} /\ known' = {} /\ hotplug' = <<>>

(* event_tx.send, and what follows it; a failed send ends the monitor.     *)
Report(e, goes_on) ==
  \/ ReceiverDropped /\ Returns /\ UNCHANGED <<channel, announced>>
  \/ /\ ~ReceiverDropped /\ goes_on
     /\ channel' = [channel EXCEPT !.usb = Append(@, e)]
     /\ announced' = IF e.kind = "connected" THEN announced \cup {e.inst} ELSE announced

(* nusb::list_devices.                                                     *)
ListDevices ==
  /\ usb = "list" /\ usb' = "scan" /\ UNCHANGED hotplug
  /\ scan' = plugged
  /\ starting' = starting \cup (plugged \cap Board)
  /\ UNCHANGED <<transports, plugged, plugs, known, announced, channel, bpVars, schedVars,
                 shutdown>>

ListFails ==
  /\ usb = "list" /\ Returns
  /\ UNCHANGED <<transports, plugged, plugs, announced, starting, channel, bpVars, schedVars,
                 shutdown>>

ReportListed(i) ==
  /\ usb = "scan" /\ i \in scan
  /\ Report(Event("connected", i),
            scan' = scan \ {i} /\ known' = known \cup {i} /\ UNCHANGED <<usb, hotplug>>)
  /\ UNCHANGED <<transports, plugged, plugs, starting, bpVars, schedVars, shutdown>>

(* Mutant: the watch is created only after the scan.                       *)
ScanDone_then_watching ==
  /\ usb = "scan" /\ scan = {}
  /\ Report(Complete, usb' = "watch" /\ hotplug' = <<>> /\ UNCHANGED <<scan, known>>)
  /\ UNCHANGED <<transports, plugged, plugs, starting, bpVars, schedVars, shutdown>>

(* Mutant: the end of the list is not reported.                            *)
ScanDone_silently ==
  /\ usb = "scan" /\ scan = {} /\ usb' = "watch"
  /\ UNCHANGED <<scan, known, hotplug, announced, channel>>
  /\ UNCHANGED <<transports, plugged, plugs, starting, bpVars, schedVars, shutdown>>

ScanDone ==
  /\ usb = "scan" /\ scan = {}
  /\ Report(Complete, usb' = "watch" /\ UNCHANGED <<scan, known, hotplug>>)
  /\ UNCHANGED <<transports, plugged, plugs, starting, bpVars, schedVars, shutdown>>

(* Mutant: a device that was listed and connected is reported twice.       *)
Ignored_never(e) == e.kind = "disconnected" /\ e.inst \notin known

(* "Deduplicate": known devices do not connect, unknown ones do not leave. *)
Ignored(e) == (e.kind = "connected") = (e.inst \in known)

TakeHotplug ==
  /\ usb = "watch" /\ hotplug # <<>>
  /\ LET e == Head(hotplug)
         Keep == hotplug' = Tail(hotplug) /\ UNCHANGED <<usb, scan>>
     IN IF Ignored(e)
          THEN Keep /\ UNCHANGED <<known, announced, channel>>
          ELSE Report(e, /\ Keep
                         /\ known' = IF e.kind = "connected" THEN known \cup {e.inst}
                                     ELSE known \ {e.inst})
  /\ UNCHANGED <<transports, plugged, plugs, starting, bpVars, schedVars, shutdown>>

(* The hotplug stream ends, or the monitor sees the shutdown.              *)
MonitorEnds ==
  /\ usb = "watch" /\ Returns
  /\ UNCHANGED <<transports, plugged, plugs, announced, starting, channel, bpVars, schedVars,
                 shutdown>>

-----------------------------------------------------------------------------
(***************************************************************************)
(* The backplane.                                                          *)
(***************************************************************************)

(* scheduler_tx.send waits for room, or fails when the scheduler is gone.  *)
Sends(r) ==
  \/ ~shutdown /\ Len(regs) < RegCap /\ regs' = Append(regs, r)
  \/ shutdown /\ UNCHANGED regs

(* run() begins: no transports means nothing to enumerate.                 *)
NothingToEnumerate ==
  /\ bp = "start" /\ bp' = "run"
  /\ IF transports = {}
       THEN Sends(Nobody) /\ completion_sent' = TRUE
       ELSE UNCHANGED <<regs, completion_sent>>
  /\ UNCHANGED <<transports, busVars, usbVars, channel, current, port_attempt, boards,
                 completed, running,
                 failed, registered, enumerated, shutdown>>

Takes(t, kind) ==
  /\ bp = "run" /\ channel[t] # <<>> /\ Head(channel[t]).kind = kind
  /\ channel' = [channel EXCEPT ![t] = Tail(@)]

(* A device connected: find its descriptor, then create its board; for the *)
(* CPU miner handle_cpu_event does the same with its virtual descriptor.   *)
DeviceConnected(t) ==
  /\ Takes(t, "connected")
  /\ LET i == Head(channel[t]).inst
     IN IF i \in Board THEN bp' = "create" /\ current' = i ELSE UNCHANGED <<bp, current>>
  /\ UNCHANGED <<transports, busVars, usbVars, port_attempt, boards, completed,
                 completion_sent, running, failed,
                 schedVars, shutdown>>

(* get_serial_ports, with which every USB board's create_fn begins: fewer  *)
(* ports than it needs, or one that may not be opened yet.                 *)
PortsNotReady ==
  /\ bp = "create" /\ current # Cpu
  /\ port_attempt + 1 < RETRIES /\ port_attempt' = port_attempt + 1
  /\ UNCHANGED <<transports, busVars, usbVars, channel, bp, current, boards, completed,
                 completion_sent, running, failed, schedVars, shutdown>>

(* create_fn returns; it may fail, with the last look for the ports or     *)
(* later, but not for the CPU miner, whose only error is a missing         *)
(* configuration that the daemon has read already.                         *)
BoardCreated ==
  /\ bp = "create" /\ port_attempt' = 0
  /\ bp' = "register" /\ running' = running \cup {current}
  /\ UNCHANGED <<transports, busVars, usbVars, channel, current, boards, completed,
                 completion_sent, failed, schedVars, shutdown>>

BoardFails ==
  /\ bp = "create" /\ current # Cpu /\ port_attempt' = 0
  /\ bp' = "run" /\ current' = Nobody /\ failed' = failed \cup {current}
  /\ UNCHANGED <<transports, busVars, usbVars, channel, boards, completed, completion_sent,
                 running, schedVars, shutdown>>

(* start_board: register the threads, then enter the board under its       *)
(* serial number, in place of any board that is there.                     *)
StartBoard ==
  /\ bp = "register"
  /\ bp' = "run" /\ current' = Nobody
  /\ Sends(current)
  /\ boards' = {b \in boards : board_id(b) # board_id(current)} \cup {current}
  /\ UNCHANGED <<transports, busVars, usbVars, channel, port_attempt, completed,
                 completion_sent, running,
                 failed, registered, enumerated, shutdown>>

(* ActiveBoard::shutdown; the CPU miner's board has nothing to do there,   *)
(* and its threads run on.                                                 *)
ShutDown(b) == boards' = boards \ {b} /\ running' = running \ ({b} \ {Cpu})

(* A USB device disconnected: whichever board comes first is shut down.    *)
DeviceDisconnected ==
  /\ Takes("usb", "disconnected")
  /\ \/ boards = {} /\ UNCHANGED <<boards, running>>
     \/ \E b \in boards : ShutDown(b)
  /\ UNCHANGED <<transports, busVars, usbVars, bp, current, port_attempt, completed,
                 completion_sent, failed,
                 schedVars, shutdown>>

(* Mutant: the first transport to complete completes the startup.          *)
AllCompleted_one(done) == done # {}

AllCompleted(done) == Cardinality(done) = Cardinality(transports)

InitialEnumerationComplete(t) ==
  /\ Takes(t, "complete")
  /\ completed' = completed \cup {t}
  /\ IF ~completion_sent /\ AllCompleted(completed')
       THEN Sends(Nobody) /\ completion_sent' = TRUE
       ELSE UNCHANGED <<regs, completion_sent>>
  /\ UNCHANGED <<transports, busVars, usbVars, bp, current, port_attempt, boards, running,
                 failed, registered,
                 enumerated, shutdown>>

(* run() returns when every channel is closed and drained, or is dropped   *)
(* at the shutdown, whatever it was doing.                                 *)
BackplaneStops ==
  /\ \/ bp = "run" /\ usb = "ended" /\ \A t \in Transport : channel[t] = <<>>
     \/ shutdown /\ bp \in {"start", "run", "create", "register"}
  /\ bp' = "stopping" /\ current' = Nobody /\ port_attempt' = 0
  /\ channel' = [t \in Transport |-> <<>>]
  /\ UNCHANGED <<transports, busVars, usbVars, boards, completed, completion_sent,
                 running, failed, schedVars, shutdown>>

(* shutdown_all_boards.                                                    *)
ShutDownBoard ==
  /\ bp = "stopping" /\ boards # {}
  /\ \E b \in boards : ShutDown(b)
  /\ UNCHANGED <<transports, busVars, usbVars, channel, bp, current, port_attempt, completed,
                 completion_sent,
                 failed, schedVars, shutdown>>

BackplaneEnds ==
  /\ bp = "stopping" /\ boards = {} /\ bp' = "ended"
  /\ UNCHANGED <<transports, busVars, usbVars, channel, current, port_attempt, boards, completed,
                 completion_sent, running, failed, schedVars, shutdown>>

-----------------------------------------------------------------------------
(* The scheduler takes the next registration.                              *)
SchedulerTakes ==
  /\ regs # <<>> /\ ~shutdown
  /\ regs' = Tail(regs)
  /\ IF Head(regs) = Nobody
       THEN enumerated' = TRUE /\ UNCHANGED registered
       ELSE registered' = registered \cup {Head(regs)} /\ UNCHANGED enumerated
  /\ UNCHANGED <<transports, busVars, usbVars, channel, bpVars, shutdown>>

(* SIGINT or SIGTERM: every task is told, the scheduler drops its channel. *)
Shutdown ==
  /\ ~shutdown /\ shutdown' = TRUE /\ regs' = <<>>
  /\ UNCHANGED <<transports, busVars, usbVars, channel, bpVars, registered, enumerated>>

BusNext == (\E d \in Devices : Plug(d)) \/ (\E i \in plugged : Unplug(i))

(* What the monitor does of itself; it may then watch for ever.            *)
MonitorSteps ==
  \/ ListDevices
  \/ ListFails
  \/ \E i \in scan : ReportListed(i)
  \/ ScanDone
  \/ TakeHotplug

UsbNext == MonitorSteps \/ MonitorEnds

BackplaneNext ==
  \/ NothingToEnumerate
  \/ \E t \in Transport : DeviceConnected(t) \/ InitialEnumerationComplete(t)
  \/ DeviceDisconnected
  \/ PortsNotReady
  \/ BoardCreated
  \/ BoardFails
  \/ StartBoard
  \/ BackplaneStops
  \/ ShutDownBoard
  \/ BackplaneEnds

Next == BusNext \/ UsbNext \/ BackplaneNext \/ SchedulerTakes \/ Shutdown

Spec == Init /\ [][Next]_vars

(***************************************************************************)
(* The monitor lists, reports and then watches, but nothing ends it; a     *)
(* board's creation ends (its requests time out); the channels are polled  *)
(* in turn.                                                                *)
(***************************************************************************)
Fairness ==
  /\ WF_vars(MonitorSteps) /\ WF_vars(BackplaneNext) /\ WF_vars(SchedulerTakes)
  /\ \A t \in Transport : SF_vars(DeviceConnected(t)) /\ SF_vars(InitialEnumerationComplete(t))
  /\ SF_vars(DeviceDisconnected)

FairSpec == Spec /\ Fairness

-----------------------------------------------------------------------------
(***************************************************************************)
(* Properties.                                                             *)
(***************************************************************************)

(* "FIFO ordering guarantees the scheduler has registered them all first": *)
(* when the scheduler learns that enumeration is complete, the threads of  *)
(* every board that any transport found at the start are registered,       *)
(* except boards that could not be created.                                *)
EnumerationSound == enumerated => starting \subseteq registered \cup failed

(* "devices connected during enumeration appear in the stream rather than  *)
(* being silently lost": once the monitor has caught up with the watch it  *)
(* knows exactly the devices that are there.                               *)
NoDeviceLost == (usb = "watch" /\ hotplug = <<>>) => known = plugged

(* ... and no device is reported as connected twice, in the list and in    *)
(* the stream.                                                             *)
AnnouncedOnce ==
  [][\A i \in announced :
       channel'["usb"] # Append(channel["usb"], Event("connected", i))]_vars

(* The scheduler is told that enumeration is complete, for any set of      *)
(* transports, whatever boards fail and however many wait for room in its  *)
(* channel, unless the miner is shut down or the monitor returned before   *)
(* it could report the end of its list (no watch, no list).                *)
MonitorFailed ==
  /\ "usb" \in transports \ completed /\ usb = "ended"
  /\ \A n \in 1 .. Len(channel["usb"]) : channel["usb"][n] # Complete

EnumerationCompletes == <>(enumerated \/ shutdown \/ MonitorFailed)

(* Refuted: "For single-board setups this works fine" (backplane.rs): a    *)
(* board keeps running as long as its device is plugged in and the         *)
(* backplane is up.                                                        *)
BoardsStay ==
  [][\A b \in running \ running' : b.dev \in Boards /\ bp = "run" => b \notin plugged]_vars
=============================================================================
