--------------------------- MODULE BringUpProofs ---------------------------
(***************************************************************************)
(* Machine-checked proofs about bringing the hardware up.                  *)
(*                                                                         *)
(* Devices: startup loses, doubles and forgets no device, for any set of   *)
(* devices and any descriptors they match, any number of devices plugged   *)
(* in and out, and channels of any capacity.                               *)
(*                                                                         *)
(* Chips: a chain that is reported as up is configured, for topologies of  *)
(* any length and any frames lost, late or left from an earlier read.      *)
(***************************************************************************)
EXTENDS Startup, ChipChain, FiniteSetTheorems, SequenceTheorems, TLAPS

(***************************************************************************)
(* The inductive invariant, first part: the hotplug stream.                *)
(***************************************************************************)
HotplugEvents == [kind : {"connected", "disconnected"}, inst : Instance]
UsbEvents == [kind : {"connected", "disconnected", "complete"}, inst : Instance \cup {Cpu, Nobody}]

In(q, e) == \E n \in 1 .. Len(q) : q[n] = e
Connects(i) == In(hotplug, Event("connected", i))
Leaves(i) == In(hotplug, Event("disconnected", i))

UsbTypes ==
  /\ usb \in {"list", "scan", "watch", "ended"} /\ plugs \in 0 .. MaxPlugs
  /\ plugged \subseteq Instance /\ scan \subseteq Instance /\ known \subseteq Instance
  /\ announced \subseteq Instance /\ hotplug \in Seq(HotplugEvents)
  /\ channel \in [Transport -> Seq(UsbEvents)]

(* An instance comes once and leaves at most once, and in that order.      *)
StreamOrdered ==
  \A m, n \in 1 .. Len(hotplug) :
    m < n /\ hotplug[m].inst = hotplug[n].inst
      => hotplug[m].kind = "connected" /\ hotplug[n].kind = "disconnected"

StreamTrue ==
  /\ \A i \in Instance : /\ Leaves(i) => i \notin plugged
                         /\ Connects(i) /\ ~Leaves(i) => i \in plugged
  /\ ~Watching => hotplug = <<>>

(* What the monitor learnt or listed is right, but for the stream.         *)
MonitorCurrent ==
  /\ usb \in {"scan", "watch"} =>
       \A i \in Instance : ~Connects(i) /\ ~Leaves(i) => (i \in plugged <=> i \in known \cup scan)
  /\ usb # "scan" => scan = {}
  /\ usb = "list" => known = {} /\ announced = {}

(* A device that was announced is neither still to be reported from the    *)
(* list nor unknown while the stream has its arrival.                      *)
OnceAnnounced ==
  \A i \in announced : i \notin scan /\ (usb # "ended" /\ Connects(i) => i \in known)

(* Nothing was seen of an instance before it was plugged in.               *)
GensCounted ==
  /\ \A i \in plugged \cup scan \cup known \cup announced : i.gen <= plugs
  /\ \A n \in 1 .. Len(hotplug) : hotplug[n].inst.gen <= plugs

HotplugInv ==
  UsbTypes /\ StreamOrdered /\ StreamTrue /\ MonitorCurrent /\ OnceAnnounced /\ GensCounted

(***************************************************************************)
(* Second part: the way of a board to the scheduler.                       *)
(***************************************************************************)
BackplaneTypes ==
  /\ transports \subseteq Transport /\ completed \subseteq transports
  /\ completion_sent \in BOOLEAN /\ enumerated \in BOOLEAN /\ shutdown \in BOOLEAN
  /\ bp \in {"start", "run", "create", "register", "stopping", "ended"}
  /\ current \in Board \cup {Nobody} /\ (current # Nobody <=> bp \in {"create", "register"})
  /\ regs \in Seq(Board \cup {Nobody})
  /\ starting \subseteq Board /\ registered \subseteq Board /\ failed \subseteq Board

(* The boards that transport t found at the start.                         *)
Started(t) == IF t = "cpu" THEN starting \cap {Cpu} ELSE starting \ {Cpu}

(* Past the channels: what becomes of it is the backplane's business.      *)
Placed(i) == i \in registered \cup failed \/ In(regs, i) \/ i = current \/ shutdown

(* In front of its transport's completion there is every board it found.   *)
FoundFirst ==
  /\ \A t \in Transport : \A n \in 1 .. Len(channel[t]) : \A i \in Started(t) :
       channel[t][n].kind = "complete" =>
         Placed(i) \/ \E m \in 1 .. n - 1 : channel[t][m] = Event("connected", i)
  /\ usb = "scan" /\ ~ReceiverDropped =>
       \A i \in Started("usb") :
         Placed(i) \/ i \in scan \/ In(channel["usb"], Event("connected", i))
  /\ \A t \in completed : \A i \in Started(t) : Placed(i)

(* ... and in front of the completion that the scheduler is told.          *)
ToldLast ==
  /\ In(regs, Nobody) \/ enumerated => completion_sent
  /\ completion_sent => completed = transports
  /\ \A n \in 1 .. Len(regs) : \A i \in starting :
       regs[n] = Nobody => i \in registered \cup failed \/ \E m \in 1 .. n - 1 : regs[m] = i

(* The USB monitor completes once, after its list; a transport that was    *)
(* not started sends nothing.                                              *)
UsbCompletes ==
  /\ usb # "ended" => "usb" \in transports
  /\ \A t \in Transport \ transports : channel[t] = <<>>
  /\ usb \in {"list", "scan"} =>
       /\ "usb" \notin completed
       /\ \A n \in 1 .. Len(channel["usb"]) : channel["usb"][n].kind # "complete"
  /\ usb = "list" => starting \subseteq {Cpu}
  /\ "usb" \notin transports => starting \subseteq {Cpu}
  /\ "cpu" \notin transports => Cpu \notin starting

StartupInv ==
  HotplugInv /\ BackplaneTypes /\ FoundFirst /\ ToldLast /\ UsbCompletes /\ EnumerationSound

-----------------------------------------------------------------------------
(* What is in a queue after an event is added to it or taken off it.       *)
LEMMA InAppend ==
  ASSUME NEW S, NEW q \in Seq(S), NEW x \in S
  PROVE  /\ Append(q, x) \in Seq(S) /\ Len(q) \in Nat /\ Len(Append(q, x)) = Len(q) + 1
         /\ Append(q, x)[Len(q) + 1] = x
         /\ \A n \in 1 .. Len(q) : Append(q, x)[n] = q[n]
         /\ \A e : In(Append(q, x), e) <=> In(q, e) \/ e = x
<1>1. /\ Append(q, x) \in Seq(S) /\ Len(q) \in Nat /\ Len(Append(q, x)) = Len(q) + 1
      /\ Append(q, x)[Len(q) + 1] = x
      /\ \A n \in 1 .. Len(q) : Append(q, x)[n] = q[n]
  OBVIOUS
<1>2. /\ 1 .. Len(Append(q, x)) = 1 .. Len(q) \cup {Len(q) + 1}
  BY <1>1
<1> QED BY <1>1, <1>2 DEF In

LEMMA InTail ==
  ASSUME NEW S, NEW q \in Seq(S), q # <<>>
  PROVE  /\ Tail(q) \in Seq(S) /\ Len(q) \in Nat \ {0} /\ Len(Tail(q)) = Len(q) - 1
         /\ Head(q) \in S /\ Head(q) = q[1]
         /\ \A n \in 1 .. Len(Tail(q)) : n + 1 \in 1 .. Len(q) /\ Tail(q)[n] = q[n + 1]
         /\ \A e : In(q, e) <=> Head(q) = e \/ In(Tail(q), e)
<1>1. /\ Tail(q) \in Seq(S) /\ Len(q) \in Nat \ {0} /\ Len(Tail(q)) = Len(q) - 1
      /\ Head(q) \in S /\ Head(q) = q[1]
      /\ \A n \in 1 .. Len(Tail(q)) : n + 1 \in 1 .. Len(q) /\ Tail(q)[n] = q[n + 1]
  OBVIOUS
<1>2. \A n \in 1 .. Len(q) : n = 1 \/ (n - 1 \in 1 .. Len(Tail(q)) /\ (n - 1) + 1 = n)
  BY <1>1
<1>3. ASSUME NEW e, In(q, e) PROVE Head(q) = e \/ In(Tail(q), e)
  <2>1. PICK n \in 1 .. Len(q) : q[n] = e
    BY <1>3 DEF In
  <2>2. n = 1 \/ Tail(q)[n - 1] = e
    BY <1>1, <1>2, <2>1
  <2> QED BY <1>1, <1>2, <2>1, <2>2 DEF In
<1>4. ASSUME NEW e, Head(q) = e \/ In(Tail(q), e) PROVE In(q, e)
  <2>1. CASE Head(q) = e
    BY <1>1, <2>1 DEF In
  <2>2. CASE In(Tail(q), e)
    BY <1>1, <2>2 DEF In
  <2> QED BY <1>4, <2>1, <2>2
<1> QED BY <1>1, <1>3, <1>4

LEMMA InNothing == \A e : ~In(<<>>, e)
BY DEF In

LEMMA EventFields ==
  ASSUME NEW k1, NEW k2, NEW i1, NEW i2
  PROVE  /\ Event(k1, i1).kind = k1 /\ Event(k1, i1).inst = i1
         /\ Event(k1, i1) = Event(k2, i2) <=> k1 = k2 /\ i1 = i2
BY DEF Event

LEMMA CpuIsNoInstance ==
  /\ Cpu \notin Instance /\ Nobody \notin Instance /\ Cpu # Nobody /\ Nobody \notin Board
  /\ Cpu \in Board /\ Board \subseteq Instance \cup {Cpu}
BY DevicesAreUsb DEF Cpu, Nobody, Instance, Board

-----------------------------------------------------------------------------
(***************************************************************************)
(* The hotplug stream.                                                     *)
(***************************************************************************)

(* Nothing in the stream is younger than the last device plugged in.       *)
LEMMA StreamOld ==
  ASSUME HotplugInv, NEW i \in Instance, i.gen > plugs
  PROVE  /\ ~Connects(i) /\ ~Leaves(i)
         /\ i \notin plugged \cup scan \cup known \cup announced
         /\ \A n \in 1 .. Len(hotplug) : hotplug[n].inst # i
<1>1. plugs \in Nat /\ i.gen \in Nat
  BY BoundsAreNat DEF HotplugInv, UsbTypes, Instance
<1>2. ~(i.gen <= plugs)
  BY <1>1
<1>3. \A n \in 1 .. Len(hotplug) : hotplug[n].inst # i
  BY <1>2 DEF HotplugInv, GensCounted
<1>4. ~Connects(i) /\ ~Leaves(i)
  BY <1>3, EventFields DEF Connects, Leaves, In
<1> QED BY <1>2, <1>3, <1>4 DEF HotplugInv, GensCounted

LEMMA PlugStep ==
  ASSUME HotplugInv, NEW d \in Devices, Plug(d)
  PROVE  HotplugInv'
<1> DEFINE i == [dev |-> d, gen |-> plugs + 1]
<1> DEFINE e == Event("connected", i)
<1>0. HotplugInv /\ UsbTypes /\ hotplug \in Seq(HotplugEvents)
  BY DEF HotplugInv, UsbTypes
<1>1. /\ plugs \in Nat /\ plugs' = plugs + 1 /\ plugs' \in 0 .. MaxPlugs
      /\ plugged' = plugged \cup {i} /\ i.gen = plugs + 1
      /\ hotplug' = IF Watching THEN Append(hotplug, e) ELSE hotplug
      /\ UNCHANGED <<usb, scan, known, announced, channel>>
  BY <1>0, BoundsAreNat DEF UsbTypes, Plug, usbVars
<1>2. i \in Instance /\ e \in HotplugEvents /\ e.kind = "connected" /\ e.inst = i
  BY <1>1, BoundsAreNat, EventFields DEF Instance, HotplugEvents, Event
<1>3. /\ ~Connects(i) /\ ~Leaves(i)
      /\ i \notin plugged \cup scan \cup known \cup announced
      /\ \A n \in 1 .. Len(hotplug) : hotplug[n].inst # i
  BY <1>0, <1>1, <1>2, StreamOld
<1> HIDE DEF i, e
<1>4. \A j : j.gen <= plugs /\ j \in Instance => j.gen <= plugs'
  BY <1>1 DEF Instance
<1>5. /\ hotplug' \in Seq(HotplugEvents)
      /\ \A j : Leaves(j)' <=> Leaves(j)
      /\ \A j : Connects(j)' <=> Connects(j) \/ (Watching /\ j = i)
      /\ \A n \in 1 .. Len(hotplug)' : \/ n \in 1 .. Len(hotplug) /\ hotplug'[n] = hotplug[n]
                                       \/ n = Len(hotplug) + 1 /\ hotplug'[n] = e
  <2>1. CASE Watching
    <3>1. hotplug' = Append(hotplug, e)
      BY <1>1, <2>1
    <3>2. /\ hotplug' \in Seq(HotplugEvents) /\ Len(hotplug) \in Nat
          /\ Len(hotplug') = Len(hotplug) + 1 /\ hotplug'[Len(hotplug) + 1] = e
          /\ \A n \in 1 .. Len(hotplug) : hotplug'[n] = hotplug[n]
          /\ \A x : In(hotplug', x) <=> In(hotplug, x) \/ x = e
      BY <1>0, <1>2, <3>1, InAppend
    <3>3. \A j : /\ Leaves(j)' <=> In(hotplug', Event("disconnected", j))
                 /\ Connects(j)' <=> In(hotplug', Event("connected", j))
      BY DEF Leaves, Connects, In
    <3>4. \A j : /\ Event("disconnected", j) # e
                 /\ (Event("connected", j) = e <=> j = i)
      BY EventFields DEF e
    <3> QED BY <2>1, <3>2, <3>3, <3>4 DEF Leaves, Connects
  <2>2. CASE ~Watching
    BY <1>0, <1>1, <2>2 DEF Leaves, Connects, In
  <2> QED BY <2>1, <2>2
<1>6. UsbTypes'
  BY <1>0, <1>1, <1>2, <1>5 DEF UsbTypes
<1>7. Len(hotplug) \in Nat /\ Len(hotplug') \in Nat
  BY <1>0, <1>5
<1>8. StreamOrdered'
  <2>1. SUFFICES ASSUME NEW m \in 1 .. Len(hotplug'), NEW n \in 1 .. Len(hotplug'),
                        m < n, hotplug'[m].inst = hotplug'[n].inst
                 PROVE  hotplug'[m].kind = "connected" /\ hotplug'[n].kind = "disconnected"
    BY DEF StreamOrdered
  <2>2. m \in 1 .. Len(hotplug) /\ hotplug'[m] = hotplug[m]
    BY <1>5, <1>7, <2>1
  <2>3. n \in 1 .. Len(hotplug) /\ hotplug'[n] = hotplug[n]
    BY <1>2, <1>3, <1>5, <2>1, <2>2
  <2> QED BY <1>0, <2>1, <2>2, <2>3 DEF HotplugInv, StreamOrdered
<1>9. StreamTrue'
  BY <1>0, <1>1, <1>2, <1>3, <1>5 DEF HotplugInv, StreamTrue, Watching
<1>10. MonitorCurrent'
  BY <1>0, <1>1, <1>2, <1>3, <1>5 DEF HotplugInv, MonitorCurrent, Watching
<1>11. OnceAnnounced'
  BY <1>0, <1>1, <1>2, <1>3, <1>5 DEF HotplugInv, OnceAnnounced, Watching
<1>12. GensCounted'
  <2>1. \A j \in (plugged \cup scan \cup known \cup announced)' : j.gen <= plugs'
    BY <1>0, <1>1, <1>4 DEF HotplugInv, GensCounted, UsbTypes
  <2>2. \A n \in 1 .. Len(hotplug) : hotplug[n] \in HotplugEvents
    BY <1>0
  <2>3. \A n \in 1 .. Len(hotplug) : hotplug[n].inst \in Instance /\ hotplug[n].inst.gen <= plugs
    BY <1>0, <2>2 DEF HotplugInv, GensCounted, HotplugEvents
  <2> QED BY <1>1, <1>2, <1>4, <1>5, <2>1, <2>3 DEF GensCounted
<1> QED BY <1>6, <1>8, <1>9, <1>10, <1>11, <1>12 DEF HotplugInv

LEMMA UnplugStep ==
  ASSUME HotplugInv, NEW i \in plugged, Unplug(i)
  PROVE  HotplugInv'
<1> DEFINE e == Event("disconnected", i)
<1>0. HotplugInv /\ UsbTypes /\ hotplug \in Seq(HotplugEvents)
  BY DEF HotplugInv, UsbTypes
<1>1. /\ plugs' = plugs /\ plugged' = plugged \ {i}
      /\ hotplug' = IF Watching THEN Append(hotplug, e) ELSE hotplug
      /\ UNCHANGED <<usb, scan, known, announced, channel>>
  BY DEF Unplug, usbVars
<1>2. i \in Instance /\ e \in HotplugEvents /\ e.kind = "disconnected" /\ e.inst = i
  BY <1>0, EventFields DEF UsbTypes, HotplugEvents, Event
<1>3. ~Leaves(i) /\ i.gen <= plugs
  BY <1>0, <1>2 DEF HotplugInv, StreamTrue, GensCounted
<1> HIDE DEF e
<1>5. /\ hotplug' \in Seq(HotplugEvents)
      /\ \A j : Connects(j)' <=> Connects(j)
      /\ \A j : Leaves(j)' <=> Leaves(j) \/ (Watching /\ j = i)
      /\ \A n \in 1 .. Len(hotplug)' : \/ n \in 1 .. Len(hotplug) /\ hotplug'[n] = hotplug[n]
                                       \/ n = Len(hotplug) + 1 /\ hotplug'[n] = e
  <2>1. CASE Watching
    <3>1. hotplug' = Append(hotplug, e)
      BY <1>1, <2>1
    <3>2. /\ hotplug' \in Seq(HotplugEvents) /\ Len(hotplug) \in Nat
          /\ Len(hotplug') = Len(hotplug) + 1 /\ hotplug'[Len(hotplug) + 1] = e
          /\ \A n \in 1 .. Len(hotplug) : hotplug'[n] = hotplug[n]
          /\ \A x : In(hotplug', x) <=> In(hotplug, x) \/ x = e
      BY <1>0, <1>2, <3>1, InAppend
    <3>3. \A j : /\ Leaves(j)' <=> In(hotplug', Event("disconnected", j))
                 /\ Connects(j)' <=> In(hotplug', Event("connected", j))
      BY DEF Leaves, Connects, In
    <3>4. \A j : /\ Event("connected", j) # e
                 /\ (Event("disconnected", j) = e <=> j = i)
      BY EventFields DEF e
    <3> QED BY <2>1, <3>2, <3>3, <3>4 DEF Leaves, Connects
  <2>2. CASE ~Watching
    BY <1>0, <1>1, <2>2 DEF Leaves, Connects, In
  <2> QED BY <2>1, <2>2
<1>6. UsbTypes'
  BY <1>0, <1>1, <1>2, <1>5 DEF UsbTypes
<1>7. Len(hotplug) \in Nat /\ Len(hotplug') \in Nat
  BY <1>0, <1>5
<1>8. StreamOrdered'
  <2>1. SUFFICES ASSUME NEW m \in 1 .. Len(hotplug'), NEW n \in 1 .. Len(hotplug'),
                        m < n, hotplug'[m].inst = hotplug'[n].inst
                 PROVE  hotplug'[m].kind = "connected" /\ hotplug'[n].kind = "disconnected"
    BY DEF StreamOrdered
  <2>2. m \in 1 .. Len(hotplug) /\ hotplug'[m] = hotplug[m] /\ hotplug[m] \in HotplugEvents
    BY <1>0, <1>5, <1>7, <2>1
  <2>3. CASE n \in 1 .. Len(hotplug) /\ hotplug'[n] = hotplug[n]
    BY <1>0, <2>1, <2>2, <2>3 DEF HotplugInv, StreamOrdered
  <2>4. CASE hotplug'[n] = e
    <3>1. hotplug[m].inst = i
      BY <1>2, <2>1, <2>2, <2>4
    <3>2. hotplug[m].kind # "disconnected"
      <4>1. SUFFICES ASSUME hotplug[m].kind = "disconnected" PROVE FALSE
        OBVIOUS
      <4>2. hotplug[m] = Event("disconnected", i)
        BY <2>2, <3>1, <4>1 DEF HotplugEvents, Event
      <4> QED BY <1>3, <2>2, <4>2 DEF Leaves, In
    <3> QED BY <1>2, <2>2, <2>4, <3>2 DEF HotplugEvents
  <2> QED BY <1>5, <2>1, <2>3, <2>4
<1>9. StreamTrue'
  <2>1. ~Watching /\ Connects(i) => Leaves(i)' \/ i \in plugged'
    BY <1>0, InNothing DEF HotplugInv, StreamTrue, Connects
  <2> QED BY <1>0, <1>1, <1>2, <1>3, <1>5, <2>1 DEF HotplugInv, StreamTrue, Watching
<1>10. MonitorCurrent'
  BY <1>0, <1>1, <1>2, <1>3, <1>5 DEF HotplugInv, MonitorCurrent, Watching
<1>11. OnceAnnounced'
  BY <1>0, <1>1, <1>2, <1>3, <1>5 DEF HotplugInv, OnceAnnounced, Watching
<1>12. GensCounted'
  BY <1>0, <1>1, <1>2, <1>3, <1>5 DEF HotplugInv, GensCounted
<1> QED BY <1>6, <1>8, <1>9, <1>10, <1>11, <1>12 DEF HotplugInv

(* The monitor gives up: nobody listens to the stream any more.            *)
LEMMA MonitorReturns ==
  ASSUME HotplugInv, Returns, UNCHANGED <<plugged, plugs, announced, channel>>
  PROVE  HotplugInv'
<1>1. /\ HotplugInv /\ usb' = "ended" /\ scan' = {} /\ known' = {} /\ hotplug' = <<>>
      /\ UNCHANGED <<plugged, plugs, announced, channel>>
  BY DEF Returns
<1>2. UsbTypes'
  <2>1. \A S : <<>> \in Seq(S)
    OBVIOUS
  <2> QED BY <1>1, <2>1 DEF HotplugInv, UsbTypes
<1>3. StreamOrdered'
  BY <1>1 DEF StreamOrdered
<1>4. \A i : ~Connects(i)' /\ ~Leaves(i)'
  BY <1>1 DEF Connects, Leaves, In
<1>5. StreamTrue' /\ MonitorCurrent' /\ OnceAnnounced'
  BY <1>1, <1>4 DEF HotplugInv, StreamTrue, MonitorCurrent, OnceAnnounced, Watching
<1>6. GensCounted'
  BY <1>1 DEF HotplugInv, GensCounted
<1> QED BY <1>2, <1>3, <1>5, <1>6 DEF HotplugInv

LEMMA ListStep ==
  ASSUME HotplugInv, ListDevices
  PROVE  HotplugInv'
<1>1. /\ HotplugInv /\ usb = "list" /\ usb' = "scan" /\ scan' = plugged
      /\ UNCHANGED <<plugged, plugs, hotplug, known, announced, channel>>
  BY DEF ListDevices
<1>2. \A i : (Connects(i)' <=> Connects(i)) /\ (Leaves(i)' <=> Leaves(i))
  BY <1>1 DEF Connects, Leaves, In
<1>3. UsbTypes' /\ StreamOrdered' /\ GensCounted'
  BY <1>1 DEF HotplugInv, UsbTypes, StreamOrdered, GensCounted
<1>4. StreamTrue' /\ MonitorCurrent' /\ OnceAnnounced'
  BY <1>1, <1>2 DEF HotplugInv, UsbTypes, StreamTrue, MonitorCurrent, OnceAnnounced, Watching
<1> QED BY <1>3, <1>4 DEF HotplugInv

(* What the monitor puts into its channel.                                 *)
LEMMA ChannelGrows ==
  ASSUME HotplugInv, NEW e \in UsbEvents,
         channel' = [channel EXCEPT !.usb = Append(@, e)]
  PROVE  /\ channel'["usb"] = Append(channel["usb"], e) /\ channel'["cpu"] = channel["cpu"]
         /\ channel' \in [Transport -> Seq(UsbEvents)]
<1>1. channel \in [Transport -> Seq(UsbEvents)] /\ "usb" \in Transport /\ "cpu" \in Transport
  BY DEF HotplugInv, UsbTypes, Transport
<1>2. Append(channel["usb"], e) \in Seq(UsbEvents)
  BY <1>1
<1> QED BY <1>1, <1>2

LEMMA ReportListedStep ==
  ASSUME HotplugInv, NEW i \in scan, ReportListed(i)
  PROVE  HotplugInv'
<1> DEFINE e == Event("connected", i)
<1>0. HotplugInv /\ UsbTypes /\ usb = "scan" /\ UNCHANGED <<plugged, plugs>>
  BY DEF HotplugInv, ReportListed
<1>1. i \in Instance /\ e.kind = "connected" /\ e.inst = i /\ e \in UsbEvents
  BY <1>0, EventFields DEF UsbTypes, UsbEvents, Event
<1>2. CASE Returns /\ UNCHANGED <<channel, announced>>
  BY <1>0, <1>2, MonitorReturns
<1>3. CASE /\ scan' = scan \ {i} /\ known' = known \cup {i} /\ UNCHANGED <<usb, hotplug>>
           /\ channel' = [channel EXCEPT !.usb = Append(@, e)]
           /\ announced' = announced \cup {i}
  <2>1. channel' \in [Transport -> Seq(UsbEvents)]
    BY <1>0, <1>1, <1>3, ChannelGrows
  <2>2. \A j : (Connects(j)' <=> Connects(j)) /\ (Leaves(j)' <=> Leaves(j))
    BY <1>3 DEF Connects, Leaves, In
  <2>3. UsbTypes'
    BY <1>0, <1>1, <1>3, <2>1 DEF UsbTypes
  <2>4. StreamOrdered' /\ GensCounted'
    BY <1>0, <1>3 DEF HotplugInv, StreamOrdered, GensCounted
  <2>5. StreamTrue' /\ MonitorCurrent' /\ OnceAnnounced'
    BY <1>0, <1>3, <2>2 DEF HotplugInv, StreamTrue, MonitorCurrent, OnceAnnounced, Watching
  <2> QED BY <2>3, <2>4, <2>5 DEF HotplugInv
<1>4. \/ Returns /\ UNCHANGED <<channel, announced>>
      \/ /\ scan' = scan \ {i} /\ known' = known \cup {i} /\ UNCHANGED <<usb, hotplug>>
         /\ channel' = [channel EXCEPT !.usb = Append(@, e)]
         /\ announced' = announced \cup {i}
  BY <1>1 DEF ReportListed, Report
<1> QED BY <1>2, <1>3, <1>4

LEMMA ScanDoneStep ==
  ASSUME HotplugInv, ScanDone
  PROVE  HotplugInv'
<1>0. HotplugInv /\ UsbTypes /\ usb = "scan" /\ scan = {} /\ UNCHANGED <<plugged, plugs>>
  BY DEF HotplugInv, ScanDone
<1>1. Complete.kind = "complete" /\ Complete \in UsbEvents
  BY EventFields DEF Complete, UsbEvents, Event
<1>2. CASE Returns /\ UNCHANGED <<channel, announced>>
  BY <1>0, <1>2, MonitorReturns
<1>3. CASE /\ usb' = "watch" /\ UNCHANGED <<scan, known, hotplug, announced>>
           /\ channel' = [channel EXCEPT !.usb = Append(@, Complete)]
  <2>1. channel' \in [Transport -> Seq(UsbEvents)]
    BY <1>0, <1>1, <1>3, ChannelGrows
  <2>2. \A j : (Connects(j)' <=> Connects(j)) /\ (Leaves(j)' <=> Leaves(j))
    BY <1>3 DEF Connects, Leaves, In
  <2>3. UsbTypes'
    BY <1>0, <1>3, <2>1 DEF UsbTypes
  <2>4. StreamOrdered' /\ GensCounted'
    BY <1>0, <1>3 DEF HotplugInv, StreamOrdered, GensCounted
  <2>5. StreamTrue' /\ MonitorCurrent' /\ OnceAnnounced'
    BY <1>0, <1>3, <2>2 DEF HotplugInv, StreamTrue, MonitorCurrent, OnceAnnounced, Watching
  <2> QED BY <2>3, <2>4, <2>5 DEF HotplugInv
<1>4. \/ Returns /\ UNCHANGED <<channel, announced>>
      \/ /\ usb' = "watch" /\ UNCHANGED <<scan, known, hotplug, announced>>
         /\ channel' = [channel EXCEPT !.usb = Append(@, Complete)]
  BY <1>1 DEF ScanDone, Report
<1> QED BY <1>2, <1>3, <1>4

(* The monitor takes the oldest event.  If it ignores it, it knew already; *)
(* by StreamOrdered no other event of the instance comes the same way.     *)
LEMMA TakeHotplugStep ==
  ASSUME HotplugInv, TakeHotplug
  PROVE  HotplugInv'
<1> DEFINE e == Head(hotplug)
<1> DEFINE Kept == hotplug' = Tail(hotplug) /\ UNCHANGED <<usb, scan>>
<1>0. /\ HotplugInv /\ UsbTypes /\ usb = "watch" /\ hotplug # <<>>
      /\ UNCHANGED <<plugged, plugs>> /\ hotplug \in Seq(HotplugEvents)
  BY DEF HotplugInv, TakeHotplug, UsbTypes
<1>1. /\ Tail(hotplug) \in Seq(HotplugEvents) /\ Len(hotplug) \in Nat \ {0}
      /\ Len(Tail(hotplug)) = Len(hotplug) - 1
      /\ e \in HotplugEvents /\ e = hotplug[1]
      /\ \A n \in 1 .. Len(Tail(hotplug)) : n + 1 \in 1 .. Len(hotplug) /\ Tail(hotplug)[n] = hotplug[n + 1]
      /\ \A x : In(hotplug, x) <=> e = x \/ In(Tail(hotplug), x)
  BY <1>0, InTail
<1>2. e.inst \in Instance /\ e.kind \in {"connected", "disconnected"} /\ e \in UsbEvents
  BY <1>1 DEF HotplugEvents, UsbEvents
<1>3. PICK i \in Instance : e.inst = i
  BY <1>2
<1>4. PICK k \in {"connected", "disconnected"} : e.kind = k
  BY <1>2
<1>5. e = Event(k, i)
  BY <1>1, <1>3, <1>4 DEF HotplugEvents, Event
<1>6. scan = {}
  BY <1>0 DEF HotplugInv, MonitorCurrent
<1> HIDE DEF e
<1>7. ASSUME Kept
      PROVE  /\ hotplug' \in Seq(HotplugEvents) /\ StreamOrdered'
             /\ \A j : Connects(j) <=> Connects(j)' \/ (j = i /\ k = "connected")
             /\ \A j : Leaves(j) <=> Leaves(j)' \/ (j = i /\ k = "disconnected")
             /\ ~Connects(i)' /\ (k = "disconnected" => ~Leaves(i)')
             /\ \A n \in 1 .. Len(hotplug') : hotplug'[n].inst.gen <= plugs
  <2>1. \A j : /\ Leaves(j)' <=> In(Tail(hotplug), Event("disconnected", j))
               /\ Connects(j)' <=> In(Tail(hotplug), Event("connected", j))
    BY <1>7 DEF Leaves, Connects, In
  <2>2. \A j : /\ e = Event("connected", j) <=> j = i /\ k = "connected"
               /\ e = Event("disconnected", j) <=> j = i /\ k = "disconnected"
    BY <1>5, EventFields
  <2>3. /\ \A j : Connects(j) <=> Connects(j)' \/ (j = i /\ k = "connected")
        /\ \A j : Leaves(j) <=> Leaves(j)' \/ (j = i /\ k = "disconnected")
    BY <1>1, <2>1, <2>2 DEF Connects, Leaves
  <2>4. \A n \in 1 .. Len(Tail(hotplug)) :
           hotplug[n + 1].inst = i => k = "connected" /\ hotplug[n + 1].kind = "disconnected"
    <3>1. SUFFICES ASSUME NEW n \in 1 .. Len(Tail(hotplug)), hotplug[n + 1].inst = i
                   PROVE  k = "connected" /\ hotplug[n + 1].kind = "disconnected"
      OBVIOUS
    <3>2. 1 \in 1 .. Len(hotplug) /\ n + 1 \in 1 .. Len(hotplug) /\ 1 < n + 1
      BY <1>1
    <3> QED BY <1>0, <1>1, <1>3, <1>4, <3>1, <3>2 DEF HotplugInv, StreamOrdered
  <2>5. ~Connects(i)' /\ (k = "disconnected" => ~Leaves(i)')
    <3>1. \A n \in 1 .. Len(Tail(hotplug)) : Tail(hotplug)[n] # Event("connected", i)
      BY <1>1, <2>4, EventFields
    <3>2. k = "disconnected" =>
            \A n \in 1 .. Len(Tail(hotplug)) : Tail(hotplug)[n] # Event("disconnected", i)
      BY <1>1, <2>4, EventFields
    <3> QED BY <2>1, <3>1, <3>2 DEF In
  <2>6. StreamOrdered'
    <3>1. SUFFICES ASSUME NEW m \in 1 .. Len(hotplug'), NEW n \in 1 .. Len(hotplug'),
                          m < n, hotplug'[m].inst = hotplug'[n].inst
                   PROVE  hotplug'[m].kind = "connected" /\ hotplug'[n].kind = "disconnected"
      BY DEF StreamOrdered
    <3>2. /\ m + 1 \in 1 .. Len(hotplug) /\ n + 1 \in 1 .. Len(hotplug) /\ m + 1 < n + 1
          /\ hotplug'[m] = hotplug[m + 1] /\ hotplug'[n] = hotplug[n + 1]
      BY <1>1, <1>7, <3>1
    <3> QED BY <1>0, <3>1, <3>2 DEF HotplugInv, StreamOrdered
  <2>7. \A n \in 1 .. Len(hotplug') : hotplug'[n].inst.gen <= plugs
    BY <1>0, <1>1, <1>7 DEF HotplugInv, GensCounted
  <2> QED BY <1>1, <1>7, <2>3, <2>5, <2>6, <2>7
<1>8. ASSUME Kept, UNCHANGED <<known, announced, channel>>, Ignored(e)
      PROVE  HotplugInv'
  <2>1. (k = "connected") = (i \in known)
    BY <1>3, <1>4, <1>8 DEF Ignored
  <2>2. UsbTypes' /\ GensCounted'
    BY <1>0, <1>7, <1>8 DEF HotplugInv, UsbTypes, GensCounted
  <2>3. StreamTrue'
    BY <1>0, <1>7, <1>8 DEF HotplugInv, StreamTrue, Watching
  <2>4. MonitorCurrent'
    BY <1>0, <1>6, <1>7, <1>8, <2>1 DEF HotplugInv, MonitorCurrent, StreamTrue
  <2>5. OnceAnnounced'
    BY <1>0, <1>7, <1>8 DEF HotplugInv, OnceAnnounced
  <2> QED BY <1>7, <1>8, <2>2, <2>3, <2>4, <2>5 DEF HotplugInv
<1>9. ASSUME Kept, ~Ignored(e), channel' = [channel EXCEPT !.usb = Append(@, e)],
             announced' = IF k = "connected" THEN announced \cup {i} ELSE announced,
             known' = IF k = "connected" THEN known \cup {i} ELSE known \ {i}
      PROVE  HotplugInv'
  <2>1. (k = "connected") # (i \in known)
    BY <1>3, <1>4, <1>9 DEF Ignored
  <2>2. channel' \in [Transport -> Seq(UsbEvents)]
    BY <1>0, <1>2, <1>9, ChannelGrows
  <2>3. i.gen <= plugs
    BY <1>0, <1>1, <1>3 DEF HotplugInv, GensCounted
  <2>4. UsbTypes' /\ GensCounted'
    BY <1>0, <1>7, <1>9, <2>2, <2>3 DEF HotplugInv, UsbTypes, GensCounted
  <2>5. StreamTrue'
    BY <1>0, <1>7, <1>9 DEF HotplugInv, StreamTrue, Watching
  <2>6. MonitorCurrent'
    BY <1>0, <1>4, <1>6, <1>7, <1>9, <2>1 DEF HotplugInv, MonitorCurrent, StreamTrue
  <2>7. OnceAnnounced'
    BY <1>0, <1>6, <1>7, <1>9 DEF HotplugInv, OnceAnnounced
  <2> QED BY <1>7, <1>9, <2>4, <2>5, <2>6, <2>7 DEF HotplugInv
<1>10. CASE Returns /\ UNCHANGED <<channel, announced>>
  BY <1>0, <1>10, MonitorReturns
<1>11. CASE Ignored(e)
  BY <1>8, <1>11 DEF TakeHotplug, e
<1>12. CASE ~Ignored(e)
  BY <1>3, <1>4, <1>9, <1>10, <1>12 DEF TakeHotplug, Report, e
<1> QED BY <1>11, <1>12

-----------------------------------------------------------------------------
(***************************************************************************)
(* The way to the scheduler.                                               *)
(***************************************************************************)
LEMMA TakesTail ==
  ASSUME HotplugInv, NEW t \in Transport, NEW k, Takes(t, k)
  PROVE  /\ bp = "run" /\ Head(channel[t]).kind = k
         /\ channel[t] \in Seq(UsbEvents) /\ channel[t] # <<>>
         /\ channel'[t] = Tail(channel[t])
         /\ \A u \in Transport \ {t} : channel'[u] = channel[u]
         /\ channel' \in [Transport -> Seq(UsbEvents)]
<1>1. /\ channel \in [Transport -> Seq(UsbEvents)] /\ channel[t] # <<>> /\ bp = "run"
      /\ Head(channel[t]).kind = k /\ channel' = [channel EXCEPT ![t] = Tail(channel[t])]
  BY DEF HotplugInv, UsbTypes, Takes
<1>2. channel[t] \in Seq(UsbEvents) /\ Tail(channel[t]) \in Seq(UsbEvents)
  BY <1>1
<1> QED BY <1>1, <1>2

(* Steps of the backplane and of the scheduler are none of the monitor's   *)
(* business.                                                               *)
LEMMA HotplugFrame ==
  ASSUME HotplugInv, UNCHANGED <<busVars, usbVars>>,
         channel' \in [Transport -> Seq(UsbEvents)]
  PROVE  HotplugInv'
<1>1. /\ HotplugInv /\ UNCHANGED <<plugged, plugs, hotplug, usb, scan, known, announced>>
      /\ channel' \in [Transport -> Seq(UsbEvents)]
  BY DEF busVars, usbVars
<1>2. \A j : (Connects(j)' <=> Connects(j)) /\ (Leaves(j)' <=> Leaves(j))
  BY <1>1 DEF Connects, Leaves, In
<1>3. UsbTypes' /\ StreamOrdered' /\ GensCounted'
  BY <1>1 DEF HotplugInv, UsbTypes, StreamOrdered, GensCounted
<1>4. StreamTrue' /\ MonitorCurrent' /\ OnceAnnounced'
  BY <1>1, <1>2 DEF HotplugInv, StreamTrue, MonitorCurrent, OnceAnnounced, Watching
<1> QED BY <1>3, <1>4 DEF HotplugInv

(* Where the boards are does not change while the channels do not.         *)
LEMMA FoundFrame ==
  ASSUME FoundFirst, UNCHANGED <<channel, starting, completed>>,
         usb' # "scan" \/ UNCHANGED <<usb, scan>>, ReceiverDropped => ReceiverDropped',
         starting \subseteq Board,
         \A i \in Board : Placed(i) => Placed(i)'
  PROVE  FoundFirst'
<1>1. \A t : Started(t)' = Started(t) /\ Started(t) \subseteq Board
  BY DEF Started
<1>2. \A e : In(channel["usb"], e)' <=> In(channel["usb"], e)
  BY DEF In
<1>3. ASSUME NEW t \in Transport, NEW n \in 1 .. Len(channel[t]), NEW i \in Started(t),
             channel[t][n].kind = "complete"
      PROVE  Placed(i)' \/ \E m \in 1 .. n - 1 : channel[t][m] = Event("connected", i)
  BY <1>1, <1>3 DEF FoundFirst
<1>4. ASSUME usb' = "scan", ~ReceiverDropped', NEW i \in Started("usb")
      PROVE  Placed(i)' \/ i \in scan' \/ In(channel["usb"], Event("connected", i))'
  BY <1>1, <1>2, <1>4 DEF FoundFirst
<1>5. ASSUME NEW t \in completed, NEW i \in Started(t)
      PROVE  Placed(i)'
  BY <1>1, <1>5 DEF FoundFirst
<1> QED BY <1>1, <1>3, <1>4, <1>5 DEF FoundFirst

LEMMA ToldFrame ==
  ASSUME ToldLast, EnumerationSound,
         UNCHANGED <<regs, completion_sent, completed, transports, enumerated, starting>>,
         registered \subseteq registered', failed \subseteq failed'
  PROVE  ToldLast' /\ EnumerationSound'
<1>1. In(regs, Nobody)' <=> In(regs, Nobody)
  BY DEF In
<1>2. \A n \in 1 .. Len(regs)' : \A i \in starting' :
        regs'[n] = Nobody => i \in (registered \cup failed)' \/ \E m \in 1 .. n - 1 : regs'[m] = i
  BY DEF ToldLast
<1>3. ToldLast'
  BY <1>1, <1>2 DEF ToldLast
<1>4. EnumerationSound'
  BY DEF EnumerationSound
<1> QED BY <1>3, <1>4

LEMMA CompletesFrame ==
  ASSUME UsbCompletes, UNCHANGED <<transports, channel, completed, starting>>,
         usb' \in {usb, "ended"}
  PROVE  UsbCompletes'
BY DEF UsbCompletes

(* What Sends does, if it does not fail.                                   *)
LEMMA SendsAppends ==
  ASSUME BackplaneTypes, NEW r \in Board \cup {Nobody}, Sends(r)
  PROVE  /\ regs' \in Seq(Board \cup {Nobody})
         /\ \/ shutdown /\ regs' = regs
            \/ /\ ~shutdown /\ regs' = Append(regs, r)
               /\ Len(regs) \in Nat /\ Len(regs') = Len(regs) + 1 /\ regs'[Len(regs) + 1] = r
               /\ \A n \in 1 .. Len(regs) : regs'[n] = regs[n]
               /\ \A e : In(regs', e) <=> In(regs, e) \/ e = r
<1>1. regs \in Seq(Board \cup {Nobody})
  BY DEF BackplaneTypes
<1>2. CASE ~shutdown /\ regs' = Append(regs, r)
  BY <1>1, <1>2, InAppend
<1>3. CASE shutdown /\ regs' = regs
  BY <1>1, <1>3
<1> QED BY <1>2, <1>3 DEF Sends

(* A board that left the channels is never forgotten.                      *)
LEMMA PlacedFrame ==
  ASSUME UNCHANGED <<regs, current>>, shutdown => shutdown',
         registered \subseteq registered', failed \subseteq failed'
  PROVE  \A i \in Board : Placed(i) => Placed(i)'
BY DEF Placed, In

LEMMA PlacedSends ==
  ASSUME BackplaneTypes, NEW r \in Board \cup {Nobody}, Sends(r),
         UNCHANGED <<registered, failed, shutdown>>, current \in {current', r, Nobody}
  PROVE  \A i \in Board : Placed(i) => Placed(i)'
<1>1. \/ shutdown
      \/ \A e : In(regs', e) <=> In(regs, e) \/ e = r
  BY SendsAppends
<1>2. ASSUME NEW i \in Board, Placed(i), ~shutdown PROVE Placed(i)'
  <2>1. In(regs, i)' <=> In(regs, i) \/ i = r
    BY <1>1, <1>2 DEF In
  <2> QED BY <1>2, <2>1, CpuIsNoInstance DEF Placed
<1>3. ASSUME NEW i \in Board, shutdown PROVE Placed(i)'
  BY <1>3 DEF Placed
<1> QED BY <1>2, <1>3

-----------------------------------------------------------------------------
(***************************************************************************)
(* One lemma per action, or per group of actions that move the same state. *)
(***************************************************************************)
LEMMA BusStep ==
  ASSUME StartupInv, BusNext
  PROVE  StartupInv'
<1>1. /\ HotplugInv'
      /\ UNCHANGED <<transports, usb, scan, known, announced, starting, channel, bp, current,
                    completed, completion_sent, failed, regs, registered, enumerated, shutdown>>
  <2>1. CASE \E d \in Devices : Plug(d)
    <3>1. PICK d \in Devices : Plug(d)
      BY <2>1
    <3>2. HotplugInv'
      BY <3>1, PlugStep DEF StartupInv
    <3> QED BY <3>1, <3>2 DEF Plug, usbVars, bpVars, schedVars
  <2>2. CASE \E i \in plugged : Unplug(i)
    <3>1. PICK i \in plugged : Unplug(i)
      BY <2>2
    <3>2. HotplugInv'
      BY <3>1, UnplugStep DEF StartupInv
    <3> QED BY <3>1, <3>2 DEF Unplug, usbVars, bpVars, schedVars
  <2> QED BY <2>1, <2>2 DEF BusNext
<1>2. BackplaneTypes'
  BY <1>1 DEF StartupInv, BackplaneTypes
<1>3. FoundFirst'
  BY <1>1, PlacedFrame, FoundFrame DEF StartupInv, BackplaneTypes, ReceiverDropped
<1>4. ToldLast' /\ EnumerationSound'
  BY <1>1, ToldFrame DEF StartupInv
<1>5. UsbCompletes'
  BY <1>1, CompletesFrame DEF StartupInv
<1> QED BY <1>1, <1>2, <1>3, <1>4, <1>5 DEF StartupInv

LEMMA ReturnsStep ==
  ASSUME StartupInv, Returns,
         UNCHANGED <<transports, plugged, plugs, announced, starting, channel, bpVars, schedVars,
                     shutdown>>
  PROVE  StartupInv'
<1>1. /\ HotplugInv' /\ usb' = "ended"
      /\ UNCHANGED <<transports, starting, channel, bp, current,
                    completed, completion_sent, failed, regs, registered, enumerated, shutdown>>
  BY MonitorReturns DEF StartupInv, Returns, bpVars, schedVars
<1>2. BackplaneTypes'
  BY <1>1 DEF StartupInv, BackplaneTypes
<1>3. FoundFirst'
  BY <1>1, PlacedFrame, FoundFrame DEF StartupInv, BackplaneTypes, ReceiverDropped
<1>4. ToldLast' /\ EnumerationSound'
  BY <1>1, ToldFrame DEF StartupInv
<1>5. UsbCompletes'
  BY <1>1, CompletesFrame DEF StartupInv
<1> QED BY <1>1, <1>2, <1>3, <1>4, <1>5 DEF StartupInv

(* The list is taken before anything can have completed.                   *)
LEMMA ListDevicesStep ==
  ASSUME StartupInv, ListDevices
  PROVE  StartupInv'
<1>1. /\ HotplugInv' /\ usb = "list" /\ usb' = "scan" /\ scan' = plugged
      /\ plugged \subseteq Instance /\ "usb" \in Transport /\ "cpu" \in Transport
      /\ starting' = starting \cup (plugged \cap Board) /\ starting \subseteq {Cpu}
      /\ "usb" \in transports /\ "usb" \notin completed
      /\ \A n \in 1 .. Len(channel["usb"]) : channel["usb"][n].kind # "complete"
      /\ UNCHANGED <<transports, channel, bp, current,
                    completed, completion_sent, failed, regs, registered, enumerated, shutdown>>
  BY ListStep DEF StartupInv, UsbCompletes, HotplugInv, UsbTypes, Transport,
                  ListDevices, bpVars, schedVars
<1>2. BackplaneTypes'
  BY <1>1 DEF StartupInv, BackplaneTypes
<1>3. Started("cpu")' = Started("cpu") /\ Started("usb")' \subseteq plugged
  BY <1>1, CpuIsNoInstance DEF Started
<1>4. \A i \in Board : Placed(i) => Placed(i)'
  BY <1>1, PlacedFrame
<1>5. Started("cpu") \subseteq Board /\ \A t \in Transport : t = "usb" \/ t = "cpu"
  BY CpuIsNoInstance DEF Started, Transport
<1>6. FoundFirst'
  <2>1. ASSUME NEW t \in Transport, NEW n \in 1 .. Len(channel'[t]), NEW i \in Started(t)',
               channel'[t][n].kind = "complete"
        PROVE  Placed(i)' \/ \E m \in 1 .. n - 1 : channel'[t][m] = Event("connected", i)
    <3>1. t = "cpu"
      BY <1>1, <1>5, <2>1
    <3> QED BY <1>1, <1>3, <1>4, <1>5, <2>1, <3>1 DEF StartupInv, FoundFirst
  <2>2. \A i \in Started("usb")' : i \in scan'
    BY <1>1, <1>3
  <2>3. ASSUME NEW t \in completed, NEW i \in Started(t)' PROVE Placed(i)'
    <3>1. t = "cpu"
      BY <1>1, <1>5, <2>3 DEF StartupInv, BackplaneTypes
    <3> QED BY <1>1, <1>3, <1>4, <1>5, <2>3, <3>1 DEF StartupInv, FoundFirst
  <2> QED BY <1>1, <2>1, <2>2, <2>3 DEF FoundFirst
<1>7. ~In(regs, Nobody) /\ ~enumerated /\ ~completion_sent
  BY <1>1 DEF StartupInv, ToldLast
<1>8. ToldLast' /\ EnumerationSound'
  <2>1. \A n \in 1 .. Len(regs) : regs[n] # Nobody
    BY <1>7 DEF In
  <2>2. ~In(regs, Nobody)'
    BY <1>1, <1>7 DEF In
  <2> QED BY <1>1, <1>7, <2>1, <2>2 DEF ToldLast, EnumerationSound
<1>9. UsbCompletes'
  BY <1>1, CpuIsNoInstance DEF StartupInv, UsbCompletes
<1> QED BY <1>1, <1>2, <1>6, <1>8, <1>9 DEF StartupInv

(* The monitor reports: it completes only when its whole list is in the    *)
(* channel, and takes off the list only what it puts into the channel.     *)
LEMMA ReportStep ==
  ASSUME StartupInv, HotplugInv', NEW e \in UsbEvents,
         channel' = [channel EXCEPT !.usb = Append(@, e)],
         UNCHANGED <<transports, starting, bpVars, schedVars, shutdown>>,
         ~ReceiverDropped, usb \in {"scan", "watch"}, usb' \in {"scan", "watch"},
         e.kind = "complete" => usb = "scan" /\ scan = {},
         usb' = "scan" => /\ usb = "scan" /\ e.kind # "complete"
                          /\ \A i \in scan \ scan' : e = Event("connected", i)
  PROVE  StartupInv'
<1>1. /\ UNCHANGED <<transports, starting, bp, current, completed, completion_sent, failed,
                    regs, registered, enumerated, shutdown>>
      /\ StartupInv /\ HotplugInv /\ "usb" \in Transport /\ "cpu" \in Transport
      /\ \A t \in Transport : t = "usb" \/ t = "cpu"
  BY DEF bpVars, schedVars, StartupInv, Transport
<1>2. /\ channel'["usb"] = Append(channel["usb"], e) /\ channel'["cpu"] = channel["cpu"]
      /\ channel["usb"] \in Seq(UsbEvents)
  BY <1>1, ChannelGrows DEF HotplugInv, UsbTypes
<1>3. /\ Len(channel["usb"]) \in Nat /\ Len(channel'["usb"]) = Len(channel["usb"]) + 1
      /\ channel'["usb"][Len(channel["usb"]) + 1] = e
      /\ \A n \in 1 .. Len(channel["usb"]) : channel'["usb"][n] = channel["usb"][n]
      /\ \A x : In(channel'["usb"], x) <=> In(channel["usb"], x) \/ x = e
  BY <1>2, InAppend
<1>4. BackplaneTypes'
  BY <1>1 DEF StartupInv, BackplaneTypes
<1>5. \A t : Started(t)' = Started(t) /\ Started(t) \subseteq Board
  BY <1>1 DEF Started, StartupInv, BackplaneTypes
<1>6. \A i \in Board : Placed(i) => Placed(i)'
  BY <1>1, PlacedFrame
<1>7. FoundFirst'
  <2>1. ASSUME NEW t \in Transport, NEW n \in 1 .. Len(channel'[t]), NEW i \in Started(t),
               channel'[t][n].kind = "complete"
        PROVE  Placed(i)' \/ \E m \in 1 .. n - 1 : channel'[t][m] = Event("connected", i)
    <3>1. CASE n \in 1 .. Len(channel[t]) /\ channel'[t][n] = channel[t][n]
      <4>1. Placed(i) \/ \E m \in 1 .. n - 1 : channel[t][m] = Event("connected", i)
        BY <1>1, <2>1, <3>1 DEF StartupInv, FoundFirst
      <4>2. \A m \in 1 .. n - 1 : channel'[t][m] = channel[t][m]
        <5>1. CASE t = "cpu"
          BY <1>2, <5>1
        <5>2. CASE t = "usb"
          BY <1>3, <3>1, <5>2
        <5> QED BY <1>1, <5>1, <5>2
      <4> QED BY <1>5, <1>6, <4>1, <4>2
    <3>2. CASE t = "usb" /\ n = Len(channel["usb"]) + 1
      <4>1. usb = "scan" /\ scan = {}
        BY <1>3, <2>1, <3>2
      <4>2. Placed(i) \/ In(channel["usb"], Event("connected", i))
        BY <1>1, <2>1, <3>2, <4>1 DEF StartupInv, FoundFirst
      <4>3. In(channel["usb"], Event("connected", i)) =>
              \E m \in 1 .. n - 1 : channel'[t][m] = Event("connected", i)
        BY <1>3, <3>2 DEF In
      <4> QED BY <1>5, <1>6, <4>2, <4>3
    <3>3. t = "cpu" => n \in 1 .. Len(channel[t]) /\ channel'[t][n] = channel[t][n]
      BY <1>2, <2>1
    <3>4. t = "usb" => \/ n \in 1 .. Len(channel[t]) /\ channel'[t][n] = channel[t][n]
                       \/ n = Len(channel["usb"]) + 1
      BY <1>3, <2>1
    <3> QED BY <1>1, <3>1, <3>2, <3>3, <3>4
  <2>2. ASSUME usb' = "scan", NEW i \in Started("usb")
        PROVE  Placed(i)' \/ i \in scan' \/ In(channel'["usb"], Event("connected", i))
    <3>1. Placed(i) \/ i \in scan \/ In(channel["usb"], Event("connected", i))
      BY <1>1, <2>2 DEF StartupInv, FoundFirst
    <3> QED BY <1>3, <1>5, <1>6, <2>2, <3>1
  <2>3. \A i : In(channel["usb"], Event("connected", i))' <=> In(channel'["usb"], Event("connected", i))
    BY DEF In
  <2>4. \A t \in completed : \A i \in Started(t) : Placed(i)'
    BY <1>1, <1>5, <1>6 DEF StartupInv, FoundFirst
  <2> QED BY <1>1, <1>5, <2>1, <2>2, <2>3, <2>4, ZenonT(60) DEF FoundFirst
<1>8. ToldLast' /\ EnumerationSound'
  BY <1>1, ToldFrame DEF StartupInv
<1>9. UsbCompletes'
  <2>1. \A t \in Transport \ transports : channel'[t] = <<>>
    BY <1>1, <1>2 DEF StartupInv, UsbCompletes
  <2>2. usb' = "scan" => \A n \in 1 .. Len(channel'["usb"]) : channel'["usb"][n].kind # "complete"
    <3>1. SUFFICES ASSUME usb' = "scan", NEW n \in 1 .. Len(channel'["usb"])
                   PROVE  channel'["usb"][n].kind # "complete"
      OBVIOUS
    <3>2. CASE n \in 1 .. Len(channel["usb"])
      BY <1>1, <1>3, <3>1, <3>2 DEF StartupInv, UsbCompletes
    <3>3. CASE n = Len(channel["usb"]) + 1
      BY <1>3, <3>1, <3>3
    <3> QED BY <1>3, <3>2, <3>3
  <2> QED BY <1>1, <2>1, <2>2 DEF StartupInv, UsbCompletes
<1> QED BY <1>4, <1>7, <1>8, <1>9 DEF StartupInv

LEMMA UsbStep ==
  ASSUME StartupInv, UsbNext
  PROVE  StartupInv'
<1>0. StartupInv /\ HotplugInv
  BY DEF StartupInv
<1>1. CASE ListDevices
  BY <1>1, ListDevicesStep
<1>2. CASE ListFails
  BY <1>2, ReturnsStep DEF ListFails
<1>3. ASSUME NEW i \in scan, ReportListed(i) PROVE StartupInv'
  <2>1. /\ usb = "scan" /\ UNCHANGED <<transports, plugged, plugs, starting, bpVars, schedVars, shutdown>>
        /\ HotplugInv'
    BY <1>0, <1>3, ReportListedStep DEF ReportListed
  <2>2. Event("connected", i) \in UsbEvents /\ Event("connected", i).kind = "connected"
    BY <1>0, EventFields DEF HotplugInv, UsbTypes, UsbEvents, Event
  <2>3. CASE Returns /\ UNCHANGED <<channel, announced>>
    BY <2>1, <2>3, ReturnsStep
  <2>4. CASE /\ ~ReceiverDropped /\ scan' = scan \ {i} /\ UNCHANGED <<usb, hotplug>>
             /\ channel' = [channel EXCEPT !.usb = Append(@, Event("connected", i))]
    <3>1. \A j \in scan \ scan' : Event("connected", i) = Event("connected", j)
      BY <2>4
    <3> QED BY <2>1, <2>2, <2>4, <3>1, ReportStep
  <2> QED BY <1>3, <2>3, <2>4 DEF ReportListed, Report
<1>4. CASE ScanDone
  <2>1. /\ usb = "scan" /\ scan = {} /\ HotplugInv'
        /\ UNCHANGED <<transports, plugged, plugs, starting, bpVars, schedVars, shutdown>>
    BY <1>0, <1>4, ScanDoneStep DEF ScanDone
  <2>2. Complete \in UsbEvents
    BY DEF Complete, UsbEvents, Event
  <2>3. CASE Returns /\ UNCHANGED <<channel, announced>>
    BY <2>1, <2>3, ReturnsStep
  <2>4. CASE /\ ~ReceiverDropped /\ usb' = "watch"
             /\ channel' = [channel EXCEPT !.usb = Append(@, Complete)]
    BY <2>1, <2>2, <2>4, ReportStep
  <2> QED BY <1>4, <2>3, <2>4 DEF ScanDone, Report
<1>5. CASE TakeHotplug
  <2>1. /\ usb = "watch" /\ hotplug # <<>> /\ HotplugInv'
        /\ UNCHANGED <<transports, plugged, plugs, starting, bpVars, schedVars, shutdown>>
    BY <1>0, <1>5, TakeHotplugStep DEF TakeHotplug
  <2>2. Head(hotplug) \in HotplugEvents
    BY <1>0, <2>1, InTail DEF HotplugInv, UsbTypes
  <2>3. Head(hotplug) \in UsbEvents /\ Head(hotplug).kind # "complete"
    BY <2>2 DEF HotplugEvents, UsbEvents
  <2>4. CASE Returns /\ UNCHANGED <<channel, announced>>
    BY <2>1, <2>4, ReturnsStep
  <2>5. CASE /\ ~ReceiverDropped /\ usb' = "watch"
             /\ channel' = [channel EXCEPT !.usb = Append(@, Head(hotplug))]
    BY <2>1, <2>3, <2>5, ReportStep
  <2>6. CASE UNCHANGED <<usb, scan, channel>>
    <3>1. UNCHANGED <<transports, starting, bp, current, completed, completion_sent, failed,
                      regs, registered, enumerated, shutdown, usb, scan, channel>>
      BY <2>1, <2>6 DEF bpVars, schedVars
    <3>2. BackplaneTypes'
      BY <3>1 DEF StartupInv, BackplaneTypes
    <3>3. FoundFirst'
      BY <3>1, PlacedFrame, FoundFrame DEF StartupInv, BackplaneTypes, ReceiverDropped
    <3>4. ToldLast' /\ EnumerationSound'
      BY <3>1, ToldFrame DEF StartupInv
    <3>5. UsbCompletes'
      BY <3>1, CompletesFrame DEF StartupInv
    <3> QED BY <2>1, <3>2, <3>3, <3>4, <3>5 DEF StartupInv
  <2> QED BY <1>5, <2>1, <2>4, <2>5, <2>6 DEF TakeHotplug, Report
<1>6. CASE MonitorEnds
  BY <1>6, ReturnsStep DEF MonitorEnds
<1> QED BY <1>1, <1>2, <1>3, <1>4, <1>5, <1>6 DEF UsbNext, MonitorSteps, StartupInv

(* The backplane takes the oldest event of a channel: if that was a board  *)
(* found at the start it is placed, if it was the completion then every    *)
(* such board has been.                                                    *)
LEMMA TakesStep ==
  ASSUME StartupInv, NEW t \in Transport, NEW k, Takes(t, k),
         UNCHANGED <<transports, busVars, usbVars>>,
         completed' = IF k = "complete" THEN completed \cup {t} ELSE completed,
         \A i \in Board : Placed(i) => Placed(i)',
         \A i \in Board : Head(channel[t]) = Event("connected", i) => Placed(i)'
  PROVE  HotplugInv' /\ FoundFirst' /\ UsbCompletes' /\ t \in transports
<1>1. /\ bp = "run" /\ Head(channel[t]).kind = k
      /\ channel[t] \in Seq(UsbEvents) /\ channel[t] # <<>>
      /\ channel'[t] = Tail(channel[t])
      /\ \A u \in Transport \ {t} : channel'[u] = channel[u]
      /\ channel' \in [Transport -> Seq(UsbEvents)]
  BY TakesTail DEF StartupInv
<1>2. /\ Len(channel[t]) \in Nat \ {0} /\ Len(channel'[t]) = Len(channel[t]) - 1
      /\ Head(channel[t]) = channel[t][1]
      /\ \A n \in 1 .. Len(channel'[t]) :
            n + 1 \in 1 .. Len(channel[t]) /\ channel'[t][n] = channel[t][n + 1]
      /\ \A e : In(channel[t], e) <=> Head(channel[t]) = e \/ In(channel'[t], e)
  BY <1>1, InTail
<1>3. /\ UNCHANGED <<transports, usb, scan, starting>> /\ StartupInv /\ ~ReceiverDropped
      /\ \A u \in Transport : u = "usb" \/ u = "cpu"
      /\ "usb" \in Transport /\ "cpu" \in Transport
  BY <1>1 DEF usbVars, ReceiverDropped, Transport
<1>4. \A u : Started(u)' = Started(u) /\ Started(u) \subseteq Board
  BY <1>3 DEF Started, StartupInv, BackplaneTypes
<1>5. HotplugInv'
  BY <1>1, HotplugFrame DEF StartupInv
<1>6. t \in transports
  BY <1>1 DEF StartupInv, UsbCompletes
<1>7. FoundFirst'
  <2>1. ASSUME NEW u \in Transport, NEW n \in 1 .. Len(channel'[u]), NEW i \in Started(u),
               channel'[u][n].kind = "complete"
        PROVE  Placed(i)' \/ \E m \in 1 .. n - 1 : channel'[u][m] = Event("connected", i)
    <3>1. CASE u # t
      <4>1. channel'[u] = channel[u]
        BY <1>1, <3>1
      <4>2. n \in 1 .. Len(channel[u]) /\ channel[u][n].kind = "complete"
        BY <2>1, <4>1
      <4>3. FoundFirst
        BY DEF StartupInv
      <4>4. Placed(i) \/ \E m \in 1 .. n - 1 : channel[u][m] = Event("connected", i)
        BY <4>2, <4>3 DEF FoundFirst
      <4> QED BY <1>4, <4>1, <4>4
    <3>2. CASE u = t
      <4>1. n + 1 \in 1 .. Len(channel[t]) /\ channel[t][n + 1].kind = "complete"
        BY <1>2, <2>1, <3>2
      <4>2. \/ Placed(i)
            \/ \E m \in 1 .. (n + 1) - 1 : channel[t][m] = Event("connected", i)
        BY <1>3, <2>1, <3>2, <4>1 DEF StartupInv, FoundFirst
      <4>3. CASE Placed(i)
        BY <1>4, <4>3
      <4>4. ASSUME NEW m \in 1 .. (n + 1) - 1, channel[t][m] = Event("connected", i)
            PROVE  Placed(i)' \/ \E l \in 1 .. n - 1 : channel'[u][l] = Event("connected", i)
        <5>1. CASE m = 1
          BY <1>2, <1>4, <4>4, <5>1
        <5>2. CASE m # 1
          <6>1. m - 1 \in 1 .. n - 1 /\ m - 1 \in 1 .. Len(channel'[t]) /\ (m - 1) + 1 = m
            BY <1>2, <2>1, <3>2, <5>2
          <6>2. channel'[t][m - 1] = Event("connected", i)
            BY <1>2, <4>4, <6>1
          <6> QED BY <3>2, <6>1, <6>2
        <5> QED BY <5>1, <5>2
      <4> QED BY <4>2, <4>3, <4>4
    <3> QED BY <3>1, <3>2
  <2>2. ASSUME usb' = "scan", NEW i \in Started("usb")
        PROVE  Placed(i)' \/ i \in scan' \/ In(channel'["usb"], Event("connected", i))
    <3>1. Placed(i) \/ i \in scan \/ In(channel["usb"], Event("connected", i))
      BY <1>3, <2>2 DEF StartupInv, FoundFirst
    <3>2. CASE t = "usb"
      BY <1>2, <1>3, <1>4, <3>1, <3>2
    <3>3. CASE t # "usb"
      BY <1>1, <1>3, <1>4, <3>1, <3>3
    <3> QED BY <3>2, <3>3
  <2>3. \A i : In(channel["usb"], Event("connected", i))' <=> In(channel'["usb"], Event("connected", i))
    BY DEF In
  <2>4. ASSUME NEW u \in completed', NEW i \in Started(u) PROVE Placed(i)'
    <3>1. CASE u \in completed
      BY <1>3, <1>4, <2>4, <3>1 DEF StartupInv, FoundFirst
    <3>2. CASE u = t /\ k = "complete"
      <4>1. 1 \in 1 .. Len(channel[t]) /\ channel[t][1].kind = "complete" /\ 1 .. 1 - 1 = {}
        BY <1>1, <1>2, <3>2
      <4>2. Placed(i) \/ \E m \in 1 .. 1 - 1 : channel[t][m] = Event("connected", i)
        BY <1>3, <2>4, <3>2, <4>1 DEF StartupInv, FoundFirst
      <4> QED BY <1>4, <4>1, <4>2
    <3> QED BY <2>4, <3>1, <3>2
  <2> QED BY <1>3, <1>4, <2>1, <2>2, <2>3, <2>4 DEF FoundFirst
<1>8. UsbCompletes'
  <2>1. \A u \in Transport \ transports : channel'[u] = <<>>
    BY <1>1, <1>3, <1>6 DEF StartupInv, UsbCompletes
  <2>2. ASSUME usb \in {"list", "scan"}
        PROVE  /\ "usb" \notin completed'
               /\ \A n \in 1 .. Len(channel'["usb"]) : channel'["usb"][n].kind # "complete"
    <3>1. /\ "usb" \notin completed
          /\ \A n \in 1 .. Len(channel["usb"]) : channel["usb"][n].kind # "complete"
      BY <1>3, <2>2 DEF StartupInv, UsbCompletes
    <3>2. CASE t = "usb"
      <4>1. 1 \in 1 .. Len(channel["usb"])
        BY <1>2, <3>2
      <4>2. k # "complete"
        BY <1>1, <1>2, <3>1, <3>2, <4>1
      <4> QED BY <1>2, <3>1, <3>2, <4>2
    <3>3. CASE t # "usb"
      BY <1>1, <1>3, <3>1, <3>3
    <3> QED BY <3>2, <3>3
  <2>3. UNCHANGED <<transports, usb, starting>> /\ UsbCompletes
    BY <1>3 DEF StartupInv
  <2> QED BY <2>1, <2>2, <2>3 DEF UsbCompletes
<1> QED BY <1>5, <1>6, <1>7, <1>8

LEMMA DeviceConnectedStep ==
  ASSUME StartupInv, NEW t \in Transport, DeviceConnected(t)
  PROVE  StartupInv'
<1>1. /\ Takes(t, "connected") /\ bp = "run"
      /\ UNCHANGED <<transports, busVars, usbVars, completed, completion_sent, failed,
                    regs, registered, enumerated, shutdown, starting>>
      /\ StartupInv /\ BackplaneTypes /\ ToldLast /\ EnumerationSound
  BY DEF DeviceConnected, Takes, schedVars, StartupInv, usbVars
<1>2. \/ /\ Head(channel[t]).inst \in Board
         /\ bp' = "create" /\ current' = Head(channel[t]).inst
      \/ /\ Head(channel[t]).inst \notin Board /\ UNCHANGED <<bp, current>>
  BY DEF DeviceConnected
<1>3. current = Nobody
  BY <1>1 DEF BackplaneTypes
<1>4. BackplaneTypes'
  BY <1>1, <1>2, CpuIsNoInstance DEF BackplaneTypes
<1>5. \A i \in Board : Placed(i) => Placed(i)'
  BY <1>1, <1>3, CpuIsNoInstance DEF Placed, In
<1>6. \A i \in Board : Head(channel[t]) = Event("connected", i) => Placed(i)'
  BY <1>2, EventFields DEF Placed
<1>7. HotplugInv' /\ FoundFirst' /\ UsbCompletes'
  BY <1>1, <1>5, <1>6, TakesStep
<1>8. ToldLast' /\ EnumerationSound'
  BY <1>1, ToldFrame
<1> QED BY <1>4, <1>7, <1>8 DEF StartupInv

LEMMA DeviceDisconnectedStep ==
  ASSUME StartupInv, DeviceDisconnected
  PROVE  StartupInv'
<1>1. /\ Takes("usb", "disconnected") /\ "usb" \in Transport
      /\ UNCHANGED <<transports, busVars, usbVars, bp, current, completed, completion_sent, failed,
                    regs, registered, enumerated, shutdown, starting>>
      /\ StartupInv /\ BackplaneTypes /\ ToldLast /\ EnumerationSound
  BY DEF DeviceDisconnected, schedVars, StartupInv, usbVars, Transport
<1>2. BackplaneTypes'
  BY <1>1 DEF BackplaneTypes
<1>3. \A i \in Board : Placed(i) => Placed(i)'
  BY <1>1, PlacedFrame
<1>4. \A i \in Board : Head(channel["usb"]) # Event("connected", i)
  <2>1. Head(channel["usb"]).kind = "disconnected"
    BY <1>1 DEF Takes
  <2> QED BY <2>1, EventFields
<1>5. HotplugInv' /\ FoundFirst' /\ UsbCompletes'
  BY <1>1, <1>3, <1>4, TakesStep
<1>6. ToldLast' /\ EnumerationSound'
  BY <1>1, ToldFrame
<1> QED BY <1>2, <1>5, <1>6 DEF StartupInv

(* The completion goes into the scheduler's channel behind the boards.     *)
LEMMA ToldSends ==
  ASSUME BackplaneTypes, ToldLast, EnumerationSound, NEW r \in Board \cup {Nobody}, Sends(r),
         UNCHANGED <<transports, enumerated, starting, registered, failed>>,
         completion_sent => completion_sent', completion_sent' => completed' = transports,
         r = Nobody => /\ completion_sent'
                       /\ \A i \in starting : shutdown \/ i \in registered \cup failed \/ In(regs, i)
  PROVE  ToldLast' /\ EnumerationSound'
<1>1. EnumerationSound'
  BY DEF EnumerationSound
<1>2. CASE regs' = regs
  <2>1. In(regs, Nobody)' <=> In(regs, Nobody)
    BY <1>2 DEF In
  <2>2. \A n \in 1 .. Len(regs) : \A i \in starting :
          regs[n] = Nobody => i \in registered \cup failed \/ \E m \in 1 .. n - 1 : regs[m] = i
    BY DEF ToldLast
  <2>3. In(regs, Nobody) \/ enumerated => completion_sent
    BY DEF ToldLast
  <2> QED BY <1>1, <1>2, <2>1, <2>2, <2>3 DEF ToldLast
<1>3. CASE regs' # regs
  <2>1. /\ ~shutdown
        /\ Len(regs) \in Nat /\ Len(regs') = Len(regs) + 1 /\ regs'[Len(regs) + 1] = r
        /\ \A n \in 1 .. Len(regs) : regs'[n] = regs[n]
        /\ \A e : In(regs', e) <=> In(regs, e) \/ e = r
    BY <1>3, SendsAppends
  <2>2. In(regs, Nobody)' <=> In(regs', Nobody)
    BY DEF In
  <2>3. ASSUME NEW n \in 1 .. Len(regs'), NEW i \in starting, regs'[n] = Nobody
        PROVE  i \in registered \cup failed \/ \E m \in 1 .. n - 1 : regs'[m] = i
    <3>1. CASE n \in 1 .. Len(regs)
      <4>1. i \in registered \cup failed \/ \E m \in 1 .. n - 1 : regs[m] = i
        BY <2>1, <2>3, <3>1 DEF ToldLast
      <4>2. \A m \in 1 .. n - 1 : m \in 1 .. Len(regs)
        BY <2>1, <3>1
      <4> QED BY <2>1, <4>1, <4>2
    <3>2. CASE n = Len(regs) + 1
      <4>1. i \in registered \cup failed \/ In(regs, i)
        BY <2>1, <2>3, <3>2
      <4>2. 1 .. n - 1 = 1 .. Len(regs)
        BY <2>1, <3>2
      <4> QED BY <2>1, <4>1, <4>2 DEF In
    <3> QED BY <2>1, <2>3, <3>1, <3>2
  <2>4. In(regs, Nobody) \/ enumerated => completion_sent
    BY DEF ToldLast
  <2> QED BY <1>1, <2>1, <2>2, <2>3, <2>4 DEF ToldLast
<1> QED BY <1>2, <1>3

(* All transports have completed, so all boards found at the start are     *)
(* placed: registered, failed, or before this completion in the channel.   *)
LEMMA EnumerationCompleteStep ==
  ASSUME StartupInv, NEW t \in Transport, InitialEnumerationComplete(t)
  PROVE  StartupInv'
<1>1. /\ Takes(t, "complete") /\ bp = "run" /\ completed' = completed \cup {t}
      /\ UNCHANGED <<transports, busVars, usbVars, bp, current, failed,
                    registered, enumerated, shutdown, starting>>
      /\ StartupInv /\ BackplaneTypes /\ ToldLast /\ EnumerationSound
  BY DEF InitialEnumerationComplete, Takes, StartupInv, usbVars
<1>2. \/ /\ ~completion_sent /\ AllCompleted(completed')
         /\ Sends(Nobody) /\ completion_sent' = TRUE
      \/ UNCHANGED <<regs, completion_sent>>
  BY DEF InitialEnumerationComplete
<1>3. \A i \in Board : Placed(i) => Placed(i)'
  <2>1. CASE Sends(Nobody)
    BY <1>1, <2>1, PlacedSends
  <2>2. CASE UNCHANGED regs
    BY <1>1, <2>2, PlacedFrame
  <2> QED BY <1>2, <2>1, <2>2
<1>4. \A i \in Board : Head(channel[t]) # Event("connected", i)
  <2>1. Head(channel[t]).kind = "complete"
    BY <1>1 DEF Takes
  <2> QED BY <2>1, EventFields
<1>5. HotplugInv' /\ FoundFirst' /\ UsbCompletes' /\ t \in transports
  BY <1>1, <1>3, <1>4, TakesStep
<1>6. BackplaneTypes'
  <2>1. regs' \in Seq(Board \cup {Nobody})
    BY <1>1, <1>2, SendsAppends DEF BackplaneTypes
  <2> QED BY <1>1, <1>2, <1>5, <2>1 DEF BackplaneTypes
<1>7. ToldLast' /\ EnumerationSound'
  <2>1. CASE AllCompleted(completed') /\ Sends(Nobody) /\ completion_sent' = TRUE
    <3>1. completed' = transports
      <4>1. completed' \in SUBSET transports /\ transports \in SUBSET {"usb", "cpu"}
        BY <1>1, <1>5 DEF BackplaneTypes, Transport
      <4>2. IsFiniteSet({"usb", "cpu"})
        <5>1. IsFiniteSet({"usb"} \cup {"cpu"})
          BY FS_Singleton, FS_AddElement
        <5> QED BY <5>1, {"usb"} \cup {"cpu"} = {"usb", "cpu"}
      <4>3. IsFiniteSet(transports)
        BY <4>1, <4>2, FS_Subset
      <4> QED BY <2>1, <4>1, <4>3, FS_Subset DEF AllCompleted
    <3>2. \A i \in starting : Placed(i)'
      <4>1. ASSUME NEW i \in starting PROVE Placed(i)'
        <5>1. CASE i = Cpu
          <6>1. "cpu" \in transports /\ i \in Started("cpu")'
            BY <1>1, <4>1, <5>1 DEF StartupInv, UsbCompletes, Started
          <6> QED BY <1>5, <3>1, <6>1 DEF FoundFirst
        <5>2. CASE i # Cpu
          <6>1. "usb" \in transports /\ i \in Started("usb")'
            BY <1>1, <4>1, <5>2 DEF StartupInv, UsbCompletes, Started
          <6> QED BY <1>5, <3>1, <6>1 DEF FoundFirst
        <5> QED BY <5>1, <5>2
      <4> QED BY <4>1
    <3>3. \A i \in starting : shutdown \/ i \in registered \cup failed \/ In(regs, i)
      <4>1. SUFFICES ASSUME NEW i \in starting, ~shutdown
                     PROVE  i \in registered \cup failed \/ In(regs, i)
        OBVIOUS
      <4>2. i # Nobody /\ i # current'
        BY <1>1, <4>1, CpuIsNoInstance DEF BackplaneTypes
      <4>3. In(regs, i)' <=> In(regs', i)
        BY DEF In
      <4>4. In(regs', i) => In(regs, i)
        BY <1>1, <2>1, <4>1, <4>2, SendsAppends
      <4> QED BY <1>1, <3>2, <4>1, <4>2, <4>3, <4>4 DEF Placed
    <3> QED BY <1>1, <2>1, <3>1, <3>3, ToldSends
  <2>2. CASE UNCHANGED <<regs, completion_sent>>
    <3>1. completion_sent => completed' = transports
      BY <1>1, <1>5 DEF ToldLast
    <3>2. \A n \in 1 .. Len(regs) : \A i \in starting :
            regs[n] = Nobody => i \in registered \cup failed \/ \E m \in 1 .. n - 1 : regs[m] = i
      BY <1>1 DEF ToldLast
    <3>3. In(regs, Nobody) \/ enumerated => completion_sent
      BY <1>1 DEF ToldLast
    <3>4. In(regs, Nobody)' <=> In(regs, Nobody)
      BY <2>2 DEF In
    <3> QED BY <1>1, <2>2, <3>1, <3>2, <3>3, <3>4 DEF ToldLast, EnumerationSound
  <2> QED BY <1>2, <2>1, <2>2
<1> QED BY <1>5, <1>6, <1>7 DEF StartupInv

LEMMA NothingToEnumerateStep ==
  ASSUME StartupInv, NothingToEnumerate
  PROVE  StartupInv'
<1>1. /\ bp = "start" /\ bp' = "run"
      /\ UNCHANGED <<transports, busVars, usbVars, channel, current, completed, failed,
                    registered, enumerated, shutdown, starting, usb, scan>>
      /\ StartupInv /\ HotplugInv /\ BackplaneTypes /\ ToldLast /\ EnumerationSound
      /\ FoundFirst /\ UsbCompletes
  BY DEF NothingToEnumerate, StartupInv, usbVars
<1>2. \/ transports = {} /\ Sends(Nobody) /\ completion_sent' = TRUE
      \/ UNCHANGED <<regs, completion_sent>>
  BY DEF NothingToEnumerate
<1>3. \A i \in Board : Placed(i) => Placed(i)'
  <2>1. CASE Sends(Nobody)
    BY <1>1, <2>1, PlacedSends
  <2>2. CASE UNCHANGED regs
    BY <1>1, <2>2, PlacedFrame
  <2> QED BY <1>2, <2>1, <2>2
<1>4. BackplaneTypes'
  <2>1. regs' \in Seq(Board \cup {Nobody})
    BY <1>1, <1>2, SendsAppends DEF BackplaneTypes
  <2> QED BY <1>1, <1>2, <2>1 DEF BackplaneTypes
<1>5. HotplugInv'
  BY <1>1, HotplugFrame DEF HotplugInv, UsbTypes
<1>6. FoundFirst'
  BY <1>1, <1>3, FoundFrame DEF BackplaneTypes, ReceiverDropped
<1>7. UsbCompletes'
  BY <1>1, CompletesFrame
<1>8. ToldLast' /\ EnumerationSound'
  <2>1. CASE transports = {} /\ Sends(Nobody) /\ completion_sent' = TRUE
    <3>1. starting = {} /\ completed = transports
      BY <1>1, <2>1 DEF UsbCompletes, BackplaneTypes
    <3> QED BY <1>1, <2>1, <3>1, ToldSends
  <2>2. CASE UNCHANGED <<regs, completion_sent>>
    BY <1>1, <2>2, ToldFrame
  <2> QED BY <1>2, <2>1, <2>2
<1> QED BY <1>4, <1>5, <1>6, <1>7, <1>8 DEF StartupInv

LEMMA StartBoardStep ==
  ASSUME StartupInv, StartBoard
  PROVE  StartupInv'
<1>1. /\ bp = "register" /\ bp' = "run" /\ current' = Nobody /\ Sends(current)
      /\ UNCHANGED <<transports, busVars, usbVars, channel, completed, completion_sent, failed,
                    registered, enumerated, shutdown, starting, usb, scan>>
      /\ StartupInv /\ HotplugInv /\ BackplaneTypes /\ ToldLast /\ EnumerationSound
      /\ FoundFirst /\ UsbCompletes
  BY DEF StartBoard, StartupInv, usbVars
<1>2. current # Nobody /\ current \in Board \cup {Nobody}
  BY <1>1 DEF BackplaneTypes
<1>3. \A i \in Board : Placed(i) => Placed(i)'
  BY <1>1, <1>2, PlacedSends
<1>4. BackplaneTypes'
  <2>1. regs' \in Seq(Board \cup {Nobody})
    BY <1>1, <1>2, SendsAppends
  <2> QED BY <1>1, <2>1 DEF BackplaneTypes
<1>5. HotplugInv'
  BY <1>1, HotplugFrame DEF HotplugInv, UsbTypes
<1>6. FoundFirst'
  BY <1>1, <1>3, FoundFrame DEF BackplaneTypes, ReceiverDropped
<1>7. UsbCompletes'
  BY <1>1, CompletesFrame
<1>8. ToldLast' /\ EnumerationSound'
  <2>1. completion_sent => completed = transports
    BY <1>1 DEF ToldLast
  <2> QED BY <1>1, <1>2, <2>1, ToldSends
<1> QED BY <1>4, <1>5, <1>6, <1>7, <1>8 DEF StartupInv

(* Creating a board, shutting boards down, and the end of run().           *)
LEMMA BoardStep ==
  ASSUME StartupInv,
         PortsNotReady \/ BoardCreated \/ BoardFails \/ ShutDownBoard \/ BackplaneEnds
  PROVE  StartupInv'
<1>1. /\ UNCHANGED <<transports, busVars, usbVars, channel, completed, completion_sent, regs,
                    registered, enumerated, shutdown, starting, usb, scan>>
      /\ StartupInv /\ HotplugInv /\ BackplaneTypes /\ ToldLast /\ EnumerationSound
      /\ FoundFirst /\ UsbCompletes
      /\ \/ UNCHANGED <<bp, current, failed>>
         \/ bp = "create" /\ bp' = "register" /\ UNCHANGED <<current, failed>>
         \/ /\ bp = "create" /\ bp' = "run"
            /\ current' = Nobody /\ failed' = failed \cup {current}
         \/ bp = "stopping" /\ bp' = "ended" /\ UNCHANGED <<current, failed>>
  BY DEF PortsNotReady, BoardCreated, BoardFails, ShutDownBoard, BackplaneEnds,
         StartupInv, usbVars, schedVars
<1>2. \A i \in Board : Placed(i) => Placed(i)'
  BY <1>1 DEF Placed, In
<1>3. BackplaneTypes'
  BY <1>1 DEF BackplaneTypes
<1>4. HotplugInv'
  BY <1>1, HotplugFrame DEF HotplugInv, UsbTypes
<1>5. ReceiverDropped => ReceiverDropped'
  BY <1>1 DEF ReceiverDropped
<1>6. FoundFirst'
  BY <1>1, <1>2, <1>5, FoundFrame DEF BackplaneTypes
<1>7. UsbCompletes'
  BY <1>1, CompletesFrame
<1>8. ToldLast' /\ EnumerationSound'
  <2>1. failed \subseteq failed'
    BY <1>1
  <2> QED BY <1>1, <2>1, ToldFrame
<1> QED BY <1>3, <1>4, <1>6, <1>7, <1>8 DEF StartupInv

(* run() is over: nobody takes events any more, and none is sent.          *)
LEMMA BackplaneStopsStep ==
  ASSUME StartupInv, BackplaneStops
  PROVE  StartupInv'
<1>1. /\ UNCHANGED <<transports, busVars, usbVars, completed, completion_sent, regs, failed,
                    registered, enumerated, shutdown, starting, usb, scan>>
      /\ StartupInv /\ HotplugInv /\ BackplaneTypes /\ ToldLast /\ EnumerationSound
      /\ FoundFirst /\ UsbCompletes
      /\ bp' = "stopping" /\ current' = Nobody /\ channel' = [t \in Transport |-> <<>>]
      /\ bp = "run" \/ shutdown
  BY DEF BackplaneStops, StartupInv, usbVars, schedVars
<1>2. \A i \in Board : Placed(i) => Placed(i)'
  <2>1. shutdown \/ current = Nobody
    BY <1>1 DEF BackplaneTypes
  <2> QED BY <1>1, <2>1, CpuIsNoInstance DEF Placed, In
<1>3. BackplaneTypes'
  BY <1>1 DEF BackplaneTypes
<1>4. channel' \in [Transport -> Seq(UsbEvents)]
  <2>1. \A S : <<>> \in Seq(S)
    OBVIOUS
  <2> QED BY <1>1, <2>1
<1>5. HotplugInv'
  BY <1>1, <1>4, HotplugFrame
<1>6. \A t \in Transport : channel'[t] = <<>> /\ Len(channel'[t]) = 0
  BY <1>1
<1>7. FoundFirst'
  <2>1. ReceiverDropped'
    BY <1>1 DEF ReceiverDropped
  <2>2. \A t : Started(t)' = Started(t) /\ Started(t) \subseteq Board
    BY <1>1 DEF Started, BackplaneTypes
  <2>3. \A t \in completed : \A i \in Started(t) : Placed(i)'
    BY <1>1, <1>2, <2>2 DEF FoundFirst
  <2>4. \A t \in Transport : 1 .. Len(channel'[t]) = {}
    BY <1>6
  <2> QED BY <1>1, <2>1, <2>2, <2>3, <2>4 DEF FoundFirst
<1>8. UsbCompletes'
  <2>1. 1 .. Len(channel'["usb"]) = {}
    BY <1>6 DEF Transport
  <2> QED BY <1>1, <1>6, <2>1 DEF UsbCompletes
<1>9. ToldLast' /\ EnumerationSound'
  BY <1>1, ToldFrame
<1> QED BY <1>3, <1>5, <1>7, <1>8, <1>9 DEF StartupInv

LEMMA SchedulerTakesStep ==
  ASSUME StartupInv, SchedulerTakes
  PROVE  StartupInv'
<1>1. /\ UNCHANGED <<transports, busVars, usbVars, channel, completed, completion_sent, failed,
                    bp, current, shutdown, starting, usb, scan>>
      /\ StartupInv /\ HotplugInv /\ BackplaneTypes /\ ToldLast /\ EnumerationSound
      /\ FoundFirst /\ UsbCompletes
      /\ regs # <<>> /\ regs' = Tail(regs) /\ regs \in Seq(Board \cup {Nobody})
      /\ \/ Head(regs) = Nobody /\ enumerated' = TRUE /\ UNCHANGED registered
         \/ /\ Head(regs) # Nobody
            /\ registered' = registered \cup {Head(regs)} /\ UNCHANGED enumerated
  BY DEF SchedulerTakes, StartupInv, usbVars, bpVars, BackplaneTypes
<1>2. /\ regs' \in Seq(Board \cup {Nobody}) /\ Len(regs) \in Nat \ {0}
      /\ Len(regs') = Len(regs) - 1
      /\ Head(regs) \in Board \cup {Nobody} /\ Head(regs) = regs[1]
      /\ \A n \in 1 .. Len(regs') : n + 1 \in 1 .. Len(regs) /\ regs'[n] = regs[n + 1]
      /\ \A e : In(regs, e) <=> Head(regs) = e \/ In(regs', e)
  BY <1>1, InTail
<1>3. \A e : In(regs, e)' <=> In(regs', e)
  BY DEF In
<1>4. \A i \in Board : Placed(i) => Placed(i)'
  BY <1>1, <1>2, <1>3, CpuIsNoInstance DEF Placed
<1>5. BackplaneTypes'
  BY <1>1, <1>2 DEF BackplaneTypes
<1>6. HotplugInv'
  BY <1>1, HotplugFrame DEF HotplugInv, UsbTypes
<1>7. FoundFirst'
  BY <1>1, <1>4, FoundFrame DEF BackplaneTypes, ReceiverDropped
<1>8. UsbCompletes'
  BY <1>1, CompletesFrame
<1>9. EnumerationSound'
  <2>1. CASE Head(regs) = Nobody
    <3>1. 1 \in 1 .. Len(regs) /\ regs[1] = Nobody /\ 1 .. 1 - 1 = {}
      BY <1>2, <2>1
    <3>2. \A i \in starting : i \in registered \cup failed \/ \E m \in 1 .. 1 - 1 : regs[m] = i
      BY <1>1, <3>1 DEF ToldLast
    <3> QED BY <1>1, <2>1, <3>1, <3>2 DEF EnumerationSound
  <2>2. CASE Head(regs) # Nobody
    BY <1>1, <2>2 DEF EnumerationSound
  <2> QED BY <2>1, <2>2
<1>10. ToldLast'
  <2>1. In(regs', Nobody) \/ enumerated' => completion_sent
    BY <1>1, <1>2 DEF ToldLast
  <2>2. ASSUME NEW n \in 1 .. Len(regs'), NEW i \in starting, regs'[n] = Nobody
        PROVE  i \in registered' \cup failed \/ \E m \in 1 .. n - 1 : regs'[m] = i
    <3>1. n + 1 \in 1 .. Len(regs) /\ regs[n + 1] = Nobody
      BY <1>2, <2>2
    <3>2. i \in registered \cup failed \/ \E m \in 1 .. (n + 1) - 1 : regs[m] = i
      BY <1>1, <2>2, <3>1 DEF ToldLast
    <3>3. ASSUME NEW m \in 1 .. (n + 1) - 1, regs[m] = i
          PROVE  i \in registered' \/ \E l \in 1 .. n - 1 : regs'[l] = i
      <4>1. CASE m = 1
        <5>1. i # Nobody
          BY <1>1, CpuIsNoInstance DEF BackplaneTypes
        <5> QED BY <1>1, <1>2, <3>3, <4>1, <5>1
      <4>2. CASE m # 1
        <5>1. m - 1 \in 1 .. n - 1 /\ m - 1 \in 1 .. Len(regs') /\ (m - 1) + 1 = m
          BY <1>2, <2>2, <4>2
        <5>2. regs'[m - 1] = i
          BY <1>2, <3>3, <5>1
        <5> QED BY <5>1, <5>2
      <4> QED BY <4>1, <4>2
    <3> QED BY <1>1, <3>2, <3>3
  <2>3. completion_sent => completed = transports
    BY <1>1 DEF ToldLast
  <2> QED BY <1>1, <1>3, <2>1, <2>2, <2>3 DEF ToldLast
<1> QED BY <1>5, <1>6, <1>7, <1>8, <1>9, <1>10 DEF StartupInv

LEMMA ShutdownStep ==
  ASSUME StartupInv, Shutdown
  PROVE  StartupInv'
<1>1. /\ UNCHANGED <<transports, busVars, usbVars, channel, completed, completion_sent, failed,
                    bp, current, starting, usb, scan, registered, enumerated>>
      /\ StartupInv /\ HotplugInv /\ BackplaneTypes /\ ToldLast /\ EnumerationSound
      /\ FoundFirst /\ UsbCompletes /\ shutdown' = TRUE /\ regs' = <<>>
  BY DEF Shutdown, StartupInv, usbVars, bpVars
<1>2. \A i \in Board : Placed(i) => Placed(i)'
  BY <1>1 DEF Placed
<1>3. BackplaneTypes'
  <2>1. \A S : <<>> \in Seq(S)
    OBVIOUS
  <2> QED BY <1>1, <2>1 DEF BackplaneTypes
<1>4. HotplugInv'
  BY <1>1, HotplugFrame DEF HotplugInv, UsbTypes
<1>5. FoundFirst'
  BY <1>1, <1>2, FoundFrame DEF BackplaneTypes, ReceiverDropped
<1>6. UsbCompletes'
  BY <1>1, CompletesFrame
<1>7. ToldLast' /\ EnumerationSound'
  <2>1. ~In(regs, Nobody)' /\ 1 .. Len(regs') = {}
    BY <1>1 DEF In
  <2>2. /\ enumerated => completion_sent
        /\ completion_sent => completed = transports
    BY <1>1 DEF ToldLast
  <2> QED BY <1>1, <2>1, <2>2 DEF ToldLast, EnumerationSound
<1> QED BY <1>3, <1>4, <1>5, <1>6, <1>7 DEF StartupInv

LEMMA StartupStep == StartupInv /\ [Next]_vars => StartupInv'
<1> SUFFICES ASSUME StartupInv, [Next]_vars PROVE StartupInv'
  OBVIOUS
<1>1. CASE BusNext
  BY <1>1, BusStep
<1>2. CASE UsbNext
  BY <1>2, UsbStep
<1>3. CASE BackplaneNext
  BY <1>3, NothingToEnumerateStep, DeviceConnectedStep, EnumerationCompleteStep,
     DeviceDisconnectedStep, StartBoardStep, BoardStep, BackplaneStopsStep DEF BackplaneNext
<1>4. CASE SchedulerTakes
  BY <1>4, SchedulerTakesStep
<1>5. CASE Shutdown
  BY <1>5, ShutdownStep
<1>6. CASE UNCHANGED vars
  <2>1. UNCHANGED <<transports, plugged, plugs, hotplug, usb, scan, known, announced, starting,
                    channel, bp, current, completed, completion_sent, failed,
                    regs, registered, enumerated, shutdown>>
    BY <1>6 DEF vars, busVars, usbVars, bpVars, schedVars
  <2>2. HotplugInv'
    BY <2>1, HotplugFrame DEF StartupInv, HotplugInv, UsbTypes, busVars, usbVars
  <2>3. BackplaneTypes'
    BY <2>1 DEF StartupInv, BackplaneTypes
  <2>4. FoundFirst'
    BY <2>1, PlacedFrame, FoundFrame DEF StartupInv, BackplaneTypes, ReceiverDropped
  <2>5. ToldLast' /\ EnumerationSound'
    BY <2>1, ToldFrame DEF StartupInv
  <2>6. UsbCompletes'
    BY <2>1, CompletesFrame DEF StartupInv
  <2> QED BY <2>2, <2>3, <2>4, <2>5, <2>6 DEF StartupInv
<1> QED BY <1>1, <1>2, <1>3, <1>4, <1>5, <1>6 DEF Next

LEMMA StartupStart == Init => StartupInv
<1> SUFFICES ASSUME Init PROVE StartupInv
  OBVIOUS
<1> DEFINE both == <<Event("connected", Cpu), Complete>>
<1>1. /\ hotplug = <<>> /\ plugs = 0 /\ scan = {} /\ known = {} /\ announced = {}
      /\ plugged \subseteq Instance /\ \A i \in plugged : i.gen = 0
      /\ usb \in {"list", "ended"} /\ ("usb" \notin transports => usb = "ended")
      /\ transports \subseteq Transport /\ "usb" \in Transport /\ "cpu" \in Transport
      /\ \A t \in Transport : t = "usb" \/ t = "cpu"
  BY DEF Init, Transport
<1>2. /\ bp = "start" /\ current = Nobody /\ completed = {} /\ completion_sent = FALSE
      /\ regs = <<>> /\ registered = {} /\ enumerated = FALSE /\ shutdown = FALSE /\ failed = {}
      /\ starting = (IF "cpu" \in transports THEN {Cpu} ELSE {})
  BY DEF Init
<1>3. /\ DOMAIN channel = Transport /\ channel["usb"] = <<>>
      /\ channel["cpu"] = IF "cpu" \in transports THEN both ELSE <<>>
      /\ channel = [t \in Transport |-> channel[t]]
  BY DEF Init, Transport
<1>4. \A S : <<>> \in Seq(S)
  OBVIOUS
<1>5. /\ both \in Seq(UsbEvents) /\ Len(both) = 1 + 1
      /\ both[1] = Event("connected", Cpu) /\ both[1 + 1] = Complete
  <2>1. Event("connected", Cpu) \in UsbEvents /\ Complete \in UsbEvents
    BY DEF Event, Complete, UsbEvents
  <2> HIDE DEF UsbEvents
  <2> QED BY <2>1
<1> HIDE DEF both
<1>6. /\ channel["usb"] \in Seq(UsbEvents) /\ channel["cpu"] \in Seq(UsbEvents)
  BY <1>3, <1>4, <1>5
<1>7. channel \in [Transport -> Seq(UsbEvents)]
  BY <1>1, <1>3, <1>6
<1>8. UsbTypes
  BY <1>1, <1>4, <1>7, BoundsAreNat DEF UsbTypes
<1>9. \A i : ~Connects(i) /\ ~Leaves(i)
  BY <1>1, InNothing DEF Connects, Leaves
<1>10. 1 .. Len(hotplug) = {} /\ 1 .. Len(regs) = {} /\ 1 .. Len(channel["usb"]) = {}
  BY <1>1, <1>2, <1>3
<1>11. StreamOrdered /\ StreamTrue /\ MonitorCurrent /\ OnceAnnounced /\ GensCounted
  BY <1>1, <1>9, <1>10 DEF StreamOrdered, StreamTrue, MonitorCurrent, OnceAnnounced, GensCounted
<1>12. BackplaneTypes
  BY <1>1, <1>2, <1>4, CpuIsNoInstance DEF BackplaneTypes
<1>13. FoundFirst
  <2>1. ASSUME NEW n \in 1 .. Len(channel["cpu"]), NEW i \in Started("cpu"),
               channel["cpu"][n].kind = "complete"
        PROVE  \E m \in 1 .. n - 1 : channel["cpu"][m] = Event("connected", i)
    <3>1. i = Cpu /\ channel["cpu"] = both
      BY <1>2, <1>3, <2>1 DEF Started
    <3>2. n = 1 \/ n = 1 + 1
      <4>1. n \in 1 .. Len(both)
        BY <2>1, <3>1
      <4>2. Len(both) = 2
        BY <1>5
      <4> QED BY <4>1, <4>2
    <3>3. n # 1
      BY <1>5, <2>1, <3>1, EventFields
    <3>4. 1 \in 1 .. n - 1
      BY <3>2, <3>3
    <3> QED BY <1>5, <3>1, <3>4
  <2> QED BY <1>1, <1>2, <1>10, <2>1 DEF FoundFirst
<1>14. ToldLast /\ EnumerationSound
  BY <1>2, <1>10, InNothing DEF ToldLast, EnumerationSound
<1>15. UsbCompletes
  <2>1. \A t \in Transport \ transports : channel[t] = <<>>
    BY <1>1, <1>3
  <2> QED BY <1>1, <1>2, <1>10, <2>1, CpuIsNoInstance DEF UsbCompletes
<1> QED BY <1>8, <1>11, <1>12, <1>13, <1>14, <1>15 DEF StartupInv, HotplugInv

-----------------------------------------------------------------------------
(* The inductive invariant holds from the daemon's start on.               *)
THEOREM StartupInvariant == Spec => []StartupInv
BY StartupStart, StartupStep, PTL DEF Spec

(* When the scheduler learns that enumeration is complete, every board     *)
(* that a transport found at the start is registered or failed: on the way *)
(* through two channels the completion overtakes none of them.             *)
THEOREM EnumerationSoundCorrect == Spec => []EnumerationSound
<1>1. StartupInv => EnumerationSound
  BY DEF StartupInv
<1> QED BY <1>1, StartupInvariant, PTL

(* A monitor that has caught up with its hotplug watch knows exactly the   *)
(* devices that are plugged in, whatever came and left while it listed.    *)
THEOREM NoDeviceLostCorrect == Spec => []NoDeviceLost
<1>1. StartupInv => NoDeviceLost
  <2>1. SUFFICES ASSUME StartupInv, usb = "watch", hotplug = <<>> PROVE known = plugged
    BY DEF NoDeviceLost
  <2>2. \A i : ~Connects(i) /\ ~Leaves(i)
    BY <2>1, InNothing DEF Connects, Leaves
  <2>3. scan = {} /\ \A i \in Instance : i \in plugged <=> i \in known \cup scan
    BY <2>1, <2>2 DEF StartupInv, HotplugInv, MonitorCurrent
  <2>4. known \subseteq Instance /\ plugged \subseteq Instance
    BY <2>1 DEF StartupInv, HotplugInv, UsbTypes
  <2> QED BY <2>3, <2>4
<1> QED BY <1>1, StartupInvariant, PTL

LEMMA AppendsDiffer ==
  ASSUME NEW S, NEW q \in Seq(S), NEW x \in S, NEW y \in S
  PROVE  /\ Append(q, x) = Append(q, y) => x = y
         /\ Append(q, x) # q /\ Append(q, x) # <<>>
         /\ q # <<>> => Append(q, x) # Tail(q)
<1>1. /\ Len(q) \in Nat /\ Len(Append(q, x)) = Len(q) + 1 /\ Len(<<>>) = 0
      /\ Append(q, x)[Len(q) + 1] = x /\ Append(q, y)[Len(q) + 1] = y
  BY InAppend
<1>2. q # <<>> => Len(Tail(q)) = Len(q) - 1
  BY InTail
<1>3. Len(q) + 1 # Len(q) /\ Len(q) + 1 # 0 /\ Len(q) + 1 # Len(q) - 1
  BY <1>1
<1> QED BY <1>1, <1>2, <1>3

(* No step announces a device that was announced before, though the list   *)
(* and the hotplug stream overlap.                                         *)
THEOREM AnnouncedOnceCorrect == Spec => AnnouncedOnce
<1>1. StartupInv /\ [Next]_vars =>
        [\A i \in announced : channel'["usb"] # Append(channel["usb"], Event("connected", i))]_vars
  <2>1. SUFFICES ASSUME StartupInv, Next, NEW i \in announced,
                        channel'["usb"] = Append(channel["usb"], Event("connected", i))
                 PROVE  FALSE
    OBVIOUS
  <2> DEFINE e == Event("connected", i)
  <2>2. /\ HotplugInv /\ channel \in [Transport -> Seq(UsbEvents)] /\ "usb" \in Transport
        /\ channel["usb"] \in Seq(UsbEvents) /\ e \in UsbEvents
    BY <2>1 DEF StartupInv, HotplugInv, UsbTypes, Transport, UsbEvents, Event
  <2>3. /\ channel'["usb"] = Append(channel["usb"], e)
        /\ channel'["usb"] # channel["usb"] /\ channel'["usb"] # <<>>
        /\ channel["usb"] # <<>> => channel'["usb"] # Tail(channel["usb"])
    BY <2>1, <2>2, AppendsDiffer
  <2>4. channel' # channel
    BY <2>3
  <2>6. ~BackplaneStops
    BY <2>2, <2>3 DEF BackplaneStops
  <2>7. PICK x \in UsbEvents :
          /\ channel' = [channel EXCEPT !.usb = Append(@, x)]
          /\ \/ \E j \in scan : x = Event("connected", j)
             \/ x = Complete
             \/ /\ usb = "watch" /\ hotplug # <<>>
                /\ x = Head(hotplug) /\ ~Ignored(x)
    <3>1. CASE UsbNext
      <4>1. CASE ListDevices \/ ListFails \/ MonitorEnds
        BY <2>4, <4>1 DEF ListDevices, ListFails, MonitorEnds
      <4>2. ASSUME NEW j \in scan, ReportListed(j)
            PROVE  channel' = [channel EXCEPT !.usb = Append(@, Event("connected", j))]
        BY <2>4, <4>2 DEF ReportListed, Report
      <4>3. \A j \in scan : Event("connected", j) \in UsbEvents
        BY <2>2 DEF HotplugInv, UsbTypes, UsbEvents, Event
      <4>4. CASE ScanDone
        <5>1. channel' = [channel EXCEPT !.usb = Append(@, Complete)]
          BY <2>4, <4>4 DEF ScanDone, Report
        <5>2. Complete \in UsbEvents
          BY DEF Complete, UsbEvents, Event
        <5> QED BY <5>1, <5>2
      <4>5. CASE TakeHotplug
        <5>1. /\ channel' = [channel EXCEPT !.usb = Append(@, Head(hotplug))]
              /\ usb = "watch" /\ hotplug # <<>> /\ ~Ignored(Head(hotplug))
          BY <2>4, <4>5 DEF TakeHotplug, Report
        <5>2. Head(hotplug) \in HotplugEvents
          BY <2>2, <5>1, InTail DEF HotplugInv, UsbTypes
        <5>3. Head(hotplug) \in UsbEvents
          BY <5>2 DEF HotplugEvents, UsbEvents
        <5> QED BY <5>1, <5>3
      <4> QED BY <3>1, <4>1, <4>2, <4>3, <4>4, <4>5 DEF UsbNext, MonitorSteps
    <3>2. CASE BusNext \/ SchedulerTakes \/ Shutdown
      BY <2>4, <3>2 DEF BusNext, Plug, Unplug, SchedulerTakes, Shutdown
    <3>3. CASE BackplaneNext
      <4>1. \A t \in Transport :
              ~DeviceConnected(t) /\ ~InitialEnumerationComplete(t) /\ ~DeviceDisconnected
        BY <2>2, <2>3, TakesTail DEF DeviceConnected, InitialEnumerationComplete, DeviceDisconnected
      <4> QED BY <2>2, <2>4, <2>6, <3>3, <4>1
              DEF BackplaneNext, NothingToEnumerate, PortsNotReady, BoardCreated, BoardFails,
                  StartBoard, ShutDownBoard, BackplaneEnds
    <3> QED BY <2>1, <3>1, <3>2, <3>3 DEF Next
  <2>8. x = e
    <3>1. channel'["usb"] = Append(channel["usb"], x)
      BY <2>2, <2>7
    <3> QED BY <2>2, <2>3, <3>1, AppendsDiffer
  <2>9. i \notin scan
    BY <2>1, <2>2 DEF HotplugInv, OnceAnnounced
  <2>10. x # Complete /\ \A j \in scan : x # Event("connected", j)
    BY <2>8, <2>9, EventFields DEF Complete
  <2>11. usb = "watch" /\ hotplug # <<>> /\ e = Head(hotplug) /\ ~Ignored(e)
    BY <2>7, <2>8, <2>10
  <2>12. Connects(i)
    BY <2>2, <2>11, InTail DEF HotplugInv, UsbTypes, Connects
  <2>13. i \in known
    BY <2>1, <2>2, <2>11, <2>12 DEF HotplugInv, OnceAnnounced
  <2> QED BY <2>11, <2>13, EventFields DEF Ignored
<1> QED BY <1>1, StartupInvariant, PTL DEF Spec, AnnouncedOnce
-----------------------------------------------------------------------------
(***************************************************************************)
(* The chain.  The inductive invariant: what the frames on the wire and    *)
(* the collected replies say of a register is true, and the reads that     *)
(* are behind found what they looked for.                                  *)
(***************************************************************************)
(* What a frame of the chips looks like.                                   *)
Values == {"ChipId", "nonce"}
Regs == {"ChipId", "nonce", "MiscControl", "TicketMask", "PllDivider"}
Frames == [chip : Int, reg : Regs, ok : BOOLEAN]

ChainTypes ==
  /\ topology \in Seq(Int) /\ present \in 0 .. MaxChips
  /\ at \in Nat \ {0}
  /\ address \in [Chip -> Int] /\ holds \in [Chip -> SUBSET Regs]
  /\ line \in Seq(Frames) /\ replies \in Seq(Frames)

(* A chip at the address has the written value in the register.            *)
Configured(a, reg) == \E c \in Answering(a) : reg \in holds[c]

Verifying == phase \in {"verify", "up", "failed"}

(* A frame that says a register has the written value says the truth: it   *)
(* was sent when nothing was written any more.                             *)
Truthful(f) == f.ok /\ f.reg \notin Values => Verifying /\ Configured(f.chip, f.reg)

FramesTruthful ==
  /\ \A n \in 1 .. Len(line) : Truthful(line[n])
  /\ \A n \in 1 .. Len(replies) : Truthful(replies[n])

(* The reads that are behind.                                              *)
ReadsDone ==
  /\ phase = "verify" => \A n \in 1 .. at - 1 : Configured(ReadChip(n), ReadReg(n))
  /\ phase = "up" => \A n \in 1 .. ReadCount : Configured(ReadChip(n), ReadReg(n))

ChainInv == ChainTypes /\ FramesTruthful /\ ReadsDone

-----------------------------------------------------------------------------
LEMMA TopologiesAreSequences ==
  ASSUME NEW t \in Topologies
  PROVE  t \in Seq(Int)
<1> USE ChainCounts
<1>1. ASSUME NEW n \in Nat PROVE individual_domains(n) \in Seq(Int)
  BY DEF individual_domains
<1>2. ASSUME NEW n \in Nat PROVE single_domain(n) \in Seq(Int)
  BY DEF single_domain
<1>3. ASSUME NEW n \in Nat PROVE uniform_domains(n, 1) \in Seq(Int)
  <2>1. n * 1 \in Nat /\ \A k \in 1 .. n * 1 : (k - 1) \div 1 \in Int
    OBVIOUS
  <2> QED
    BY <2>1 DEF uniform_domains
<1>4. ASSUME NEW f \in [1 .. MaxChips -> 0 .. MaxChips] PROVE f \in Seq(Int)
  <2>1. f \in Seq(0 .. MaxChips)
    BY SeqDef
  <2> QED
    BY <2>1, SeqMonotonic
<1>5. \A n \in 0 .. MaxChips : n \in Nat
  OBVIOUS
<1>6. CASE t \in {individual_domains(n) : n \in 0 .. MaxChips}
  BY <1>1, <1>5, <1>6
<1>7. CASE t \in {single_domain(n) : n \in 1 .. MaxChips}
  BY <1>2, <1>5, <1>7
<1>8. CASE t \in {uniform_domains(d, 1) : d \in 1 .. MaxChips}
  BY <1>3, <1>5, <1>8
<1>9. CASE t \in {f \in [1 .. MaxChips -> 0 .. MaxChips] : custom_ok(f)}
  BY <1>4, <1>9
<1> QED
  BY <1>6, <1>7, <1>8, <1>9 DEF Topologies

LEMMA ChipsOfTopology ==
  ASSUME ChainTypes
  PROVE  /\ chip_count = Len(topology) /\ chip_count \in Nat
         /\ \A k \in 1 .. chip_count : Chain.chips[k].address = (k - 1) * 2
<1>1. Chain.chips = [k \in 1 .. Len(topology) |-> [address |-> (k - 1) * Interval,
                                                   domain  |-> topology[k]]]
  BY DEF Chain, from_topology
<1>2. Len(topology) \in Nat
  BY DEF ChainTypes
<1> QED
  BY <1>1, <1>2 DEF chip_count, Interval

LEMMA ChipIds ==
  ASSUME ChainTypes
  PROVE  /\ OnChain \subseteq Chip
         /\ \A chips \in SUBSET OnChain : Cardinality(chips) \in Nat
<1>1. OnChain \subseteq Chip
  BY ChainCounts DEF ChainTypes, OnChain, Chip
<1>2. IsFiniteSet(OnChain)
  BY FS_Interval, ChainCounts DEF ChainTypes, OnChain
<1>3. \A chips \in SUBSET OnChain : IsFiniteSet(chips)
  BY <1>2, FS_Subset
<1> QED
  BY <1>1, <1>3, FS_CardinalityType

(* The answers that chips append to the line.                              *)
LEMMA AnswersAppended ==
  ASSUME ChainTypes, NEW chips \in SUBSET OnChain, NEW reg \in Regs, Answers(chips, reg)
  PROVE  /\ line' \in Seq(Frames)
         /\ \A n \in 1 .. Len(line') :
              \/ n \in 1 .. Len(line) /\ line'[n] = line[n]
              \/ \E c \in chips : line'[n] = Answer(c, reg)
<1>1. PICK order \in [1 .. Cardinality(chips) -> chips] :
         line' = line \o [k \in 1 .. Cardinality(chips) |-> Answer(order[k], reg)]
  BY DEF Answers, InChainOrder
<1> DEFINE m == Cardinality(chips)
           tail == [k \in 1 .. m |-> Answer(order[k], reg)]
<1>2. m \in Nat /\ chips \subseteq Chip
  BY ChipIds
<1> HIDE DEF m
<1>3. \A c \in chips : Answer(c, reg) \in Frames
  BY <1>2 DEF Answer, Frames, ChainTypes
<1>4. order \in [1 .. m -> chips]
  BY <1>1 DEF m
<1>5. tail \in Seq(Frames) /\ Len(tail) = m
  <2>1. \A k \in 1 .. m : Answer(order[k], reg) \in Frames
    BY <1>3, <1>4
  <2>2. tail \in [1 .. m -> Frames]
    BY <2>1
  <2> HIDE DEF tail
  <2>3. tail \in Seq(Frames)
    BY <1>2, <2>2, SeqDef
  <2> QED
    BY <1>2, <2>2, <2>3, LenProperties
<1>6. \A k \in 1 .. m : \E c \in chips : tail[k] = Answer(c, reg)
  BY <1>4
<1> HIDE DEF tail
<1>7. line' = line \o tail
  BY <1>1 DEF tail, m
<1>8. line \in Seq(Frames) /\ Len(line) \in Nat
  BY DEF ChainTypes
<1>9. /\ line' \in Seq(Frames) /\ Len(line') = Len(line) + m
      /\ \A i \in 1 .. Len(line) + m :
           line'[i] = IF i <= Len(line) THEN line[i] ELSE tail[i - Len(line)]
  BY <1>5, <1>7, <1>8, ConcatProperties
<1>10. ASSUME NEW n \in 1 .. Len(line')
       PROVE  \/ n \in 1 .. Len(line) /\ line'[n] = line[n]
              \/ \E c \in chips : line'[n] = Answer(c, reg)
  <2>1. CASE n <= Len(line)
    <3>1. n \in 1 .. Len(line)
      BY <1>2, <1>8, <1>9, <2>1
    <3>2. n \in 1 .. Len(line) + m
      BY <1>9
    <3> QED
      BY <1>9, <2>1, <3>1, <3>2
  <2>2. CASE ~(n <= Len(line))
    <3>1. n - Len(line) \in 1 .. m /\ line'[n] = tail[n - Len(line)]
      BY <1>2, <1>8, <1>9, <2>2
    <3> QED
      BY <1>6, <3>1
  <2> QED
    BY <2>1, <2>2
<1> QED
  BY <1>9, <1>10

(* What is true of the chips stays true while nothing is written.          *)
LEMMA ConfiguredFrame ==
  ASSUME UNCHANGED <<chipVars, present>>, NEW a, NEW reg
  PROVE  Configured(a, reg)' <=> Configured(a, reg)
BY DEF Configured, Answering, OnChain, chipVars

LEMMA ReadsFrame ==
  ASSUME UNCHANGED topology, NEW n
  PROVE  ReadChip(n)' = ReadChip(n) /\ ReadReg(n)' = ReadReg(n) /\ ReadCount' = ReadCount
BY DEF ReadChip, ReadReg, ReadCount, Chain, chip_count

(* No value of a register is on its way before the verification.           *)
LEMMA FramesEarly ==
  ASSUME FramesTruthful, ~Verifying, UNCHANGED <<line, replies>>
  PROVE  FramesTruthful'
BY DEF FramesTruthful, Truthful

(* Frames that were there before, nonces and chip ids stay truthful.       *)
LEMMA FramesKept ==
  ASSUME FramesTruthful, UNCHANGED <<chipVars, boardVars>>, Verifying => Verifying',
         \A n \in 1 .. Len(line') :
           line'[n].reg \in Values \/ \E m \in 1 .. Len(line) : line'[n] = line[m],
         \A n \in 1 .. Len(replies') :
           \/ \E m \in 1 .. Len(line) : replies'[n] = line[m]
           \/ \E m \in 1 .. Len(replies) : replies'[n] = replies[m]
  PROVE  FramesTruthful'
<1>1. ASSUME NEW f, Truthful(f) PROVE f.ok /\ f.reg \notin Values => Verifying' /\ Configured(f.chip, f.reg)'
  BY <1>1, ConfiguredFrame DEF Truthful, boardVars
<1>2. ASSUME NEW n \in 1 .. Len(line') PROVE Truthful(line[n])'
  BY <1>1 DEF FramesTruthful, Truthful
<1>3. ASSUME NEW n \in 1 .. Len(replies') PROVE Truthful(replies[n])'
  BY <1>1 DEF FramesTruthful, Truthful
<1> QED
  BY <1>2, <1>3 DEF FramesTruthful

LEMMA TailFrames ==
  ASSUME NEW s \in Seq(Frames), s # <<>>
  PROVE  /\ Tail(s) \in Seq(Frames) /\ Head(s) = s[1] /\ 1 \in 1 .. Len(s) /\ Head(s) \in Frames
         /\ \A n \in 1 .. Len(Tail(s)) : n + 1 \in 1 .. Len(s) /\ Tail(s)[n] = s[n + 1]
<1>1. Len(s) \in Nat \ {0} /\ Len(Tail(s)) = Len(s) - 1 /\ Tail(s) \in Seq(Frames)
  BY HeadTailProperties, EmptySeq
<1>2. Head(s) = s[1]
  OBVIOUS
<1>3. \A n \in 1 .. Len(Tail(s)) : n + 1 \in 1 .. Len(s)
  BY <1>1
<1> QED
  BY <1>1, <1>2, <1>3, HeadTailProperties

LEMMA AppendFrames ==
  ASSUME NEW s \in Seq(Frames), NEW f \in Frames
  PROVE  /\ Append(s, f) \in Seq(Frames)
         /\ \A n \in 1 .. Len(Append(s, f)) :
              Append(s, f)[n] = f \/ (n \in 1 .. Len(s) /\ Append(s, f)[n] = s[n])
<1>1. Len(s) \in Nat /\ Len(Append(s, f)) = Len(s) + 1 /\ Append(s, f) \in Seq(Frames)
  BY AppendProperties
<1>2. ASSUME NEW n \in 1 .. Len(Append(s, f))
      PROVE  Append(s, f)[n] = f \/ (n \in 1 .. Len(s) /\ Append(s, f)[n] = s[n])
  <2>1. n = Len(s) + 1 \/ n \in 1 .. Len(s)
    BY <1>1
  <2> QED
    BY <2>1, AppendProperties
<1> QED
  BY <1>1, <1>2

(* The register and the address of a read are what Answers takes.          *)
LEMMA ReadTypes ==
  ASSUME NEW n \in Nat \ {0}
  PROVE  ReadReg(n) \in Regs
<1>1. Len(Checked) = 3 /\ \A j \in {1, 2, 3} : Checked[j] \in Regs
  BY DEF Checked, Regs
<1>2. 1 + ((n - 1) % 3) \in {1, 2, 3}
  OBVIOUS
<1> QED
  BY <1>1, <1>2 DEF ReadReg

(* The answers to a read of the verification are truthful.                 *)
LEMMA AttemptStep ==
  ASSUME ChainInv, NEW n, Attempt(n), phase = "verify", phase' = phase,
         UNCHANGED <<chipVars, boardVars>>, replies' \in {<<>>, replies}
  PROVE  line' \in Seq(Frames) /\ FramesTruthful'
<1> DEFINE chips == Answering(ReadChip(at))
           reg == ReadReg(at)
<1>1. chips \in SUBSET OnChain /\ reg \in Regs /\ Answers(chips, reg) /\ ChainTypes
  BY ReadTypes DEF Answering, Attempt, ChainInv, ChainTypes
<1>2. ASSUME NEW c \in chips PROVE Truthful(Answer(c, reg))
  <2>1. address[c] = ReadChip(at) /\ c \in OnChain
    BY DEF Answering
  <2> QED
    BY <2>1 DEF Truthful, Answer, Configured, Answering, Verifying, Values
<1> HIDE DEF chips, reg
<1>3. ASSUME NEW f, Truthful(f) PROVE f.ok /\ f.reg \notin Values => Verifying' /\ Configured(f.chip, f.reg)'
  BY <1>3, ConfiguredFrame DEF Truthful, boardVars, Verifying
<1>4. /\ line' \in Seq(Frames)
      /\ \A k \in 1 .. Len(line') :
           \/ k \in 1 .. Len(line) /\ line'[k] = line[k]
           \/ \E c \in chips : line'[k] = Answer(c, reg)
  BY <1>1, AnswersAppended
<1>5. ASSUME NEW k \in 1 .. Len(line') PROVE Truthful(line'[k])
  BY <1>2, <1>4 DEF ChainInv, FramesTruthful
<1>6. ASSUME NEW k \in 1 .. Len(replies') PROVE Truthful(replies'[k])
  <2>1. CASE replies' = replies
    BY <2>1 DEF ChainInv, FramesTruthful
  <2>2. CASE replies' = <<>>
    BY <2>2
  <2> QED
    BY <2>1, <2>2
<1> QED
  BY <1>3, <1>4, <1>5, <1>6 DEF FramesTruthful, Truthful

-----------------------------------------------------------------------------
LEMMA ChainStart == ChainInit => ChainInv
<1> SUFFICES ASSUME ChainInit PROVE ChainInv
  OBVIOUS
<1>1. ChainTypes
  BY TopologiesAreSequences, ChainCounts DEF ChainInit, ChainTypes, Unaddressed
<1> QED
  BY <1>1 DEF ChainInit, ChainInv, FramesTruthful, ReadsDone

LEMMA TypesStep ==
  ASSUME ChainInv, [ChainNext]_chainVars
  PROVE  ChainTypes'
<1> USE DEF ChainInv, ChainTypes, boardVars, chipVars, wireVars
<1>1. CASE PowerUp \/ Quiet \/ ResponsesClosed \/ Verified \/ SendFails
  BY <1>1 DEF PowerUp, Quiet, ResponsesClosed, Verified, SendFails, Goes
<1>2. CASE BroadcastRead
  <2>1. line' \in Seq(Frames)
    <3>1. OnChain \in SUBSET OnChain /\ "ChipId" \in Regs /\ Answers(OnChain, "ChipId")
      BY <1>2 DEF BroadcastRead, Regs
    <3> QED
      BY <3>1, AnswersAppended
  <2> QED
    BY <1>2, <2>1 DEF BroadcastRead, Goes, drain_stale
<1>3. CASE Collect
  BY <1>3, TailFrames DEF Collect
<1>4. ASSUME NEW targets, NEW reg \in Regs, Write(targets, reg)
      PROVE  holds' \in [Chip -> SUBSET Regs]
  BY <1>4 DEF Write
<1>5. CASE Preconfigure \/ ConfigureAll \/ Ramp
  <2>1. \E reg \in Regs : Write(OnChain, reg)
    BY <1>5 DEF Preconfigure, ConfigureAll, Ramp, Regs
  <2> QED
    BY <1>4, <1>5, <2>1 DEF Preconfigure, ConfigureAll, Ramp, Goes
<1>6. CASE ConfigureChip
  <2>1. \E reg \in Regs : Write(Answering(Chain.chips[at].address), reg)
    BY <1>6 DEF ConfigureChip, Regs
  <2> QED
    BY <1>4, <1>6, <2>1 DEF ConfigureChip
<1>7. CASE AddressChip
  <2>1. at \in 1 .. chip_count /\ Chain.chips[at].address \in Int
    BY <1>7, ChipsOfTopology DEF AddressChip
  <2>2. address' \in [Chip -> Int]
    BY <1>7, <2>1 DEF AddressChip
  <2> QED
    BY <1>7, <2>2 DEF AddressChip
<1>8. CASE StartRead
  BY <1>8, AttemptStep DEF StartRead, drain_stale
<1>9. CASE TakeReply
  BY <1>9, TailFrames DEF TakeReply, Goes
<1>10. CASE AttemptTimesOut
  <2>1. line' \in Seq(Frames)
    BY <1>10, AttemptStep DEF AttemptTimesOut
  <2> QED
    BY <1>10, <2>1 DEF AttemptTimesOut, Goes
<1>11. CASE Route
  BY <1>11, TailFrames, AppendFrames DEF Route
<1>12. CASE ReaderEnds \/ LoseResponse
  <2>1. line' = <<>> \/ (line # <<>> /\ line' = Tail(line))
    BY <1>12 DEF ReaderEnds, LoseResponse
  <2>2. line' \in Seq(Frames)
    BY <2>1, TailFrames, EmptySeq
  <2> QED
    BY <1>12, <2>2 DEF ReaderEnds, LoseResponse
<1>13. CASE NonceReport
  <2>1. [chip |-> 0, reg |-> "nonce", ok |-> TRUE] \in Frames
    BY DEF Frames, Regs
  <2> QED
    BY <1>13, <2>1, AppendFrames DEF NonceReport
<1>14. CASE UNCHANGED chainVars
  BY <1>14 DEF chainVars
<1> QED
  BY <1>1, <1>2, <1>3, <1>5, <1>6, <1>7, <1>8, <1>9, <1>10, <1>11, <1>12, <1>13, <1>14
     DEF ChainNext, BringUpNext, WireNext

LEMMA FramesStep ==
  ASSUME ChainInv, [ChainNext]_chainVars
  PROVE  FramesTruthful'
<1>1. /\ FramesTruthful /\ ChainTypes /\ line \in Seq(Frames) /\ replies \in Seq(Frames)
      /\ Len(line) \in Nat /\ Len(replies) \in Nat
  BY DEF ChainInv, ChainTypes
<1>2. ASSUME UNCHANGED <<chipVars, boardVars>>, Verifying => Verifying',
             line' \in {<<>>, line} \/ (line # <<>> /\ line' = Tail(line)),
             replies' \in {<<>>, replies} \/ (replies # <<>> /\ replies' = Tail(replies))
      PROVE  FramesTruthful'
  <2>1. \A n \in 1 .. Len(line') : \E m \in 1 .. Len(line) : line'[n] = line[m]
    <3>1. CASE line' = <<>>
      BY <3>1
    <3>2. CASE line' = line
      BY <3>2
    <3>3. CASE line # <<>> /\ line' = Tail(line)
      BY <1>1, <3>3, TailFrames
    <3> QED
      BY <1>2, <3>1, <3>2, <3>3
  <2>2. \A n \in 1 .. Len(replies') : \E m \in 1 .. Len(replies) : replies'[n] = replies[m]
    <3>1. CASE replies' = <<>>
      BY <3>1
    <3>2. CASE replies' = replies
      BY <3>2
    <3>3. CASE replies # <<>> /\ replies' = Tail(replies)
      BY <1>1, <3>3, TailFrames
    <3> QED
      BY <1>2, <3>1, <3>2, <3>3
  <2> QED
    BY <1>1, <1>2, <2>1, <2>2, FramesKept
<1>3. CASE PowerUp \/ Quiet \/ ResponsesClosed \/ Verified \/ SendFails
  BY <1>2, <1>3 DEF PowerUp, Quiet, ResponsesClosed, Verified, SendFails, Goes, Verifying, wireVars
<1>4. CASE BroadcastRead
  <2>1. \A n \in 1 .. Len(line') : line'[n].reg \in Values \/ \E m \in 1 .. Len(line) : line'[n] = line[m]
    <3>1. OnChain \in SUBSET OnChain /\ "ChipId" \in Regs /\ Answers(OnChain, "ChipId")
      BY <1>4 DEF BroadcastRead, Regs
    <3>2. \A n \in 1 .. Len(line') : \/ n \in 1 .. Len(line) /\ line'[n] = line[n]
                                    \/ \E c \in OnChain : line'[n] = Answer(c, "ChipId")
      BY <1>1, <3>1, AnswersAppended
    <3>3. \A c : Answer(c, "ChipId").reg \in Values
      BY DEF Answer, Values
    <3> QED
      BY <3>2, <3>3
  <2>2. UNCHANGED <<chipVars, boardVars>> /\ ~Verifying /\ replies' = <<>>
    BY <1>4 DEF BroadcastRead, Verifying, drain_stale
  <2> QED
    BY <1>1, <2>1, <2>2, FramesKept, SMTT(30)
<1>5. CASE Collect
  BY <1>2, <1>5 DEF Collect, Verifying
<1>6. CASE Preconfigure \/ AddressChip \/ ConfigureAll \/ ConfigureChip \/ Ramp
  BY <1>1, <1>6, FramesEarly
     DEF Preconfigure, AddressChip, ConfigureAll, ConfigureChip, Ramp, Verifying
<1>7. CASE StartRead
  BY <1>7, AttemptStep DEF StartRead, drain_stale
<1>8. CASE TakeReply
  BY <1>2, <1>8 DEF TakeReply, Goes, Verifying
<1>9. CASE AttemptTimesOut
  <2>1. CASE attempt < ATTEMPTS
    BY <1>9, <2>1, AttemptStep DEF AttemptTimesOut
  <2>2. CASE ~(attempt < ATTEMPTS)
    BY <1>2, <1>9, <2>2 DEF AttemptTimesOut, Goes, Verifying
  <2> QED
    BY <2>1, <2>2
<1>10. CASE Route
  <2>1. /\ line # <<>> /\ line' = Tail(line) /\ UNCHANGED <<chipVars, boardVars, phase>>
        /\ replies' = replies \/ replies' = Append(replies, Head(line))
    BY <1>10 DEF Route
  <2>2. \A n \in 1 .. Len(line') : \E m \in 1 .. Len(line) : line'[n] = line[m]
    BY <1>1, <2>1, TailFrames
  <2>3. Head(line) = line[1] /\ 1 \in 1 .. Len(line) /\ Head(line) \in Frames
    BY <1>1, <2>1, TailFrames
  <2>4. \A n \in 1 .. Len(replies') :
          \/ \E m \in 1 .. Len(line) : replies'[n] = line[m]
          \/ \E m \in 1 .. Len(replies) : replies'[n] = replies[m]
    <3>1. CASE replies' = replies
      BY <3>1
    <3>2. CASE replies' = Append(replies, Head(line))
      BY <1>1, <2>3, <3>2, AppendFrames
    <3> QED
      BY <2>1, <3>1, <3>2
  <2> QED
    BY <1>1, <2>1, <2>2, <2>4, FramesKept DEF Verifying
<1>11. CASE ReaderEnds \/ LoseResponse
  BY <1>2, <1>11 DEF ReaderEnds, LoseResponse, Verifying
<1>12. CASE NonceReport
  <2> DEFINE f == [chip |-> 0, reg |-> "nonce", ok |-> TRUE]
  <2>1. f \in Frames /\ f.reg \in Values
    BY DEF Frames, Regs, Values
  <2>2. line' = Append(line, f) /\ UNCHANGED <<chipVars, boardVars, phase, replies>>
    BY <1>12 DEF NonceReport
  <2> HIDE DEF f
  <2>3. \A n \in 1 .. Len(line') : line'[n].reg \in Values \/ \E m \in 1 .. Len(line) : line'[n] = line[m]
    BY <1>1, <2>1, <2>2, AppendFrames
  <2> QED
    BY <1>1, <2>2, <2>3, FramesKept DEF Verifying
<1>13. CASE UNCHANGED chainVars
  BY <1>2, <1>13 DEF chainVars, wireVars, Verifying
<1> QED
  BY <1>3, <1>4, <1>5, <1>6, <1>7, <1>8, <1>9, <1>10, <1>11, <1>12, <1>13
     DEF ChainNext, BringUpNext, WireNext

LEMMA ReadsStep ==
  ASSUME ChainInv, [ChainNext]_chainVars
  PROVE  ReadsDone'
<1>1. ChainTypes /\ FramesTruthful /\ ReadsDone /\ at \in Nat \ {0}
  BY DEF ChainInv, ChainTypes
<1>2. ASSUME phase' \notin {"verify", "up"} PROVE ReadsDone'
  BY <1>2 DEF ReadsDone
<1>3. ASSUME UNCHANGED <<chipVars, boardVars, phase>>, at' = at PROVE ReadsDone'
  <2>1. \A n : (Configured(ReadChip(n), ReadReg(n)))' <=> Configured(ReadChip(n), ReadReg(n))
    BY <1>3, ConfiguredFrame, ReadsFrame DEF boardVars
  <2>2. ReadCount' = ReadCount
    BY <1>3, ReadsFrame DEF boardVars
  <2> QED
    BY <1>1, <1>3, <2>1, <2>2 DEF ReadsDone
<1>4. CASE PowerUp \/ BroadcastRead \/ Collect \/ Quiet \/ Preconfigure \/ AddressChip
           \/ ConfigureAll \/ ConfigureChip \/ ResponsesClosed \/ SendFails
  BY <1>2, <1>4 DEF PowerUp, BroadcastRead, Collect, Quiet, Preconfigure, AddressChip,
                   ConfigureAll, ConfigureChip, ResponsesClosed, SendFails, Goes
<1>5. CASE Ramp
  BY <1>5 DEF Ramp, Goes, ReadsDone
<1>6. CASE StartRead \/ Route \/ ReaderEnds \/ LoseResponse \/ NonceReport \/ UNCHANGED chainVars
  BY <1>3, <1>6 DEF StartRead, Route, ReaderEnds, LoseResponse, NonceReport, chainVars
<1>7. CASE TakeReply
  <2> DEFINE r == Head(replies)
  <2>1. /\ phase = "verify" /\ replies # <<>> /\ UNCHANGED <<boardVars, chipVars>>
        /\ IF ~Matches(r) THEN UNCHANGED <<phase, at, attempt>>
           ELSE IF r.ok THEN at' = at + 1 /\ attempt' = 0 /\ UNCHANGED phase
           ELSE Goes("failed")
    BY <1>7 DEF TakeReply
  <2>2. Truthful(r)
    BY <1>1, <2>1, TailFrames DEF ChainTypes, FramesTruthful
  <2> HIDE DEF r
  <2>3. CASE ~Matches(r)
    BY <1>3, <2>1, <2>3
  <2>4. CASE Matches(r) /\ ~r.ok
    BY <1>2, <2>1, <2>4 DEF Goes
  <2>5. CASE Matches(r) /\ r.ok
    <3>1. ReadReg(at) \notin Values
      <4>1. Len(Checked) = 3 /\ \A j \in {1, 2, 3} : Checked[j] \notin Values
        BY DEF Checked, Values
      <4>2. 1 + ((at - 1) % 3) \in {1, 2, 3}
        BY <1>1
      <4> QED
        BY <4>1, <4>2 DEF ReadReg
    <3>2. Configured(ReadChip(at), ReadReg(at))
      BY <2>2, <2>5, <3>1 DEF Truthful, Matches
    <3>3. \A n \in 1 .. at : Configured(ReadChip(n), ReadReg(n))
      BY <1>1, <2>1, <3>2 DEF ReadsDone
    <3>4. \A n : (Configured(ReadChip(n), ReadReg(n)))' <=> Configured(ReadChip(n), ReadReg(n))
      BY <2>1, ConfiguredFrame, ReadsFrame DEF boardVars
    <3>5. at' - 1 = at /\ phase' = "verify"
      BY <1>1, <2>1, <2>5
    <3> QED
      BY <3>3, <3>4, <3>5 DEF ReadsDone
  <2> QED
    BY <2>3, <2>4, <2>5
<1>8. CASE AttemptTimesOut
  BY <1>2, <1>3, <1>8 DEF AttemptTimesOut, Goes
<1>9. CASE Verified
  <2>1. /\ phase = "verify" /\ at > ReadCount /\ phase' = "up" /\ UNCHANGED <<boardVars, chipVars>>
    BY <1>9 DEF Verified, Goes
  <2>2. ReadCount \in Nat
    BY <1>1, ChipsOfTopology DEF ReadCount, Checked
  <2>3. \A n \in 1 .. ReadCount : n \in 1 .. at - 1
    BY <1>1, <2>1, <2>2
  <2>4. \A n \in 1 .. ReadCount : Configured(ReadChip(n), ReadReg(n))
    BY <1>1, <2>1, <2>3 DEF ReadsDone
  <2>5. \A n : (Configured(ReadChip(n), ReadReg(n)))' <=> Configured(ReadChip(n), ReadReg(n))
    BY <2>1, ConfiguredFrame, ReadsFrame DEF boardVars
  <2>6. ReadCount' = ReadCount
    BY <2>1, ReadsFrame DEF boardVars
  <2> QED
    BY <2>1, <2>4, <2>5, <2>6 DEF ReadsDone
<1> QED
  BY <1>4, <1>5, <1>6, <1>7, <1>8, <1>9 DEF ChainNext, BringUpNext, WireNext

(* The inductive invariant holds: while initialize_chain and              *)
(* verify_registers run, a reply that says a register holds its value was  *)
(* sent after the last write, whatever was lost or is late.                *)
THEOREM ChainInvariant == ChainSpec => []ChainInv
<1>1. ChainInv /\ [ChainNext]_chainVars => ChainInv'
  BY TypesStep, FramesStep, ReadsStep DEF ChainInv
<1> QED
  BY <1>1, ChainStart, PTL DEF ChainSpec

(* UpMeansConfigured, for topologies of any length, any number of chips    *)
(* and attempts, channels of any capacity, and any frames lost or late: a  *)
(* chain that initialize_chain reports as up has, at every declared        *)
(* address, a chip that holds each of the verified registers as written.   *)
THEOREM UpMeansConfiguredCorrect == ChainSpec => []UpMeansConfigured
<1>1. ChainInv => UpMeansConfigured
  <2> SUFFICES ASSUME ChainInv, phase = "up",
                      NEW k \in 1 .. chip_count, NEW n \in DOMAIN Checked
               PROVE  \E c \in Answering(Chain.chips[k].address) : Checked[n] \in holds[c]
    BY DEF UpMeansConfigured
  <2> DEFINE m == (k - 1) * 3 + n
  <2>1. chip_count \in Nat /\ Len(Checked) = 3 /\ n \in 1 .. 3
    BY ChipsOfTopology DEF ChainInv, Checked
  <2>2. m \in 1 .. chip_count * 3 /\ (m - 1) \div 3 + 1 = k /\ 1 + ((m - 1) % 3) = n
    BY <2>1
  <2> HIDE DEF m
  <2>3. Configured(ReadChip(m), ReadReg(m))
    BY <2>1, <2>2 DEF ChainInv, ReadsDone, ReadCount
  <2> QED
    BY <2>1, <2>2, <2>3 DEF Configured, ReadChip, ReadReg
<1> QED
  BY <1>1, ChainInvariant, PTL
=============================================================================
