------------------------- MODULE BitaxeBoardProofs -------------------------
(***************************************************************************)
(* Machine-checked proofs that the Bitaxe's chips are never out of reset   *)
(* without power, and are left in reset and without power, for any number  *)
(* of late, lost and mismatched replies, aborted bring-ups and             *)
(* interleavings of the hash thread with the monitor.                      *)
(***************************************************************************)
EXTENDS BitaxeBoard, TLAPS

(***************************************************************************)
(* The inductive invariant, first part: the control channel.  A packet's   *)
(* age is how many packets ago it was sent.                                *)
(***************************************************************************)
Age(id) == IF id < next_id THEN next_id - id ELSE next_id + IdSpace - id

Leaving == pc["thread"] \in {"reset", "disable", "readoff", "off"}

(* Only late and aborted requests leave something behind.                  *)
Outstanding == late + (IF Leaving THEN 1 ELSE 0) + (IF holder = "none" THEN 0 ELSE 1)

InOrder ==
  /\ \A i, j \in 1 .. Len(inbox) : i < j => Age(inbox[i].id) > Age(inbox[j].id)
  /\ \A i, j \in 1 .. Len(wire) : i < j => Age(wire[i].id) > Age(wire[j].id)
  /\ \A i \in 1 .. Len(inbox), j \in 1 .. Len(wire) : Age(inbox[i].id) > Age(wire[j].id)

AgesBounded ==
  /\ \A i \in 1 .. Len(inbox) : Age(inbox[i].id) <= Outstanding
  /\ \A j \in 1 .. Len(wire) : Age(wire[j].id) <= Outstanding

Channel ==
  /\ holder # "none" => Age(sent_id) = 1
  /\ \A a \in Task : holder = a =>
       /\ pc[a] \in DOMAIN OnOk[a]
       /\ \A j \in 1 .. Len(wire) : wire[j].id = sent_id => wire[j].request = Request[pc[a]]

(***************************************************************************)
(* Second part: the two lines.                                             *)
(***************************************************************************)
Req(n) == wire[n].request
Ahead(request) == \E n \in 1 .. Len(wire) : Req(n) = request

(* By the n-th packet, a line that is or goes high has been taken down.    *)
Low(q, line, up, down, n) ==
  /\ line => \E l \in 1 .. n - 1 : q[l].request = down
  /\ \A m \in 1 .. n - 1 :
       q[m].request = up => \E l \in m + 1 .. n - 1 : q[l].request = down

NoRelease == shutdown \/ Leaving

(* Reset was asserted for good by task a; the rail was cut by the thread.  *)
Asserted(a) ==
  \/ pc[a] \in {"disable", "readoff", "off", "after", "fanlow", "done"}
  \/ pc[a] = "reset" /\ holder = a
Cut ==
  \/ pc["thread"] \in {"readoff", "off"}
  \/ pc["thread"] = "disable" /\ holder = "thread"

Phases ==
  /\ pc["monitor"] \in {"wait", "reset", "disable", "readoff", "after", "fanlow", "done"} => shutdown
  /\ pc["monitor"] \in {"tick", "temp", "sense", "judge"} => bad_thermal_count < BadLimit
  /\ Ahead("off") => NoRelease

(* The rail is on wherever it is needed: a good read-back says so, and     *)
(* nobody turns it off before the exit.                                    *)
Powered ==
  /\ nrst \/ Ahead("release") => rail
  /\ pc["thread"] = "release" /\ ~shutdown => rail
  /\ pc["thread"] = "readon" /\ holder = "thread" /\ ~shutdown =>
       \A i \in 1 .. Len(inbox) : inbox[i].id = sent_id /\ inbox[i].good => rail

TakenDown ==
  /\ \A n \in 1 .. Len(wire) : Req(n) = "off" =>
       /\ Low(wire, nrst, "release", "assert", n)
       /\ \A m \in n .. Len(wire) : Req(m) # "release"
  /\ (\E a \in Task : Asserted(a)) =>
       Low(wire, nrst, "release", "assert", Len(wire) + 1)
  /\ Cut => Low(wire, rail, "on", "off", Len(wire) + 1)

Tasks == pc = [a \in Task |-> pc[a]]

BoardInv == TypeOK /\ Tasks /\ InOrder /\ AgesBounded /\ Channel /\ Phases /\ Powered /\ TakenDown

-----------------------------------------------------------------------------
(* The tables of steps and requests, spelled out.                          *)
ThreadSteps == {"start", "enable", "readon", "release", "reset", "disable", "readoff"}
MonitorSteps == {"temp", "sense", "fanfull", "reset", "disable", "readoff", "fanlow"}
Requests == {"assert", "on", "readback", "release", "off", "temp", "sense", "fan"}

LEMMA Tables ==
  /\ DOMAIN OnOk["thread"] = ThreadSteps /\ DOMAIN OnOk["monitor"] = MonitorSteps
  /\ DOMAIN Request = ThreadSteps \cup MonitorSteps
  /\ {Request[s] : s \in DOMAIN Request} \subseteq Requests
  /\ \A s \in ThreadSteps \cup MonitorSteps : Request[s] \in {Request[q] : q \in DOMAIN Request}
BY DEF OnOk, Request, ThreadSteps, MonitorSteps, Requests

LEMMA ThreadTable ==
  ASSUME NEW s \in ThreadSteps
  PROVE  /\ s = "start" => OnOk["thread"][s] = "idle" /\ OnErr["thread"][s] = "idle"
         /\ s = "enable" => OnOk["thread"][s] = "readon" /\ OnErr["thread"][s] = "idle"
         /\ s = "readon" => OnOk["thread"][s] = "release" /\ OnErr["thread"][s] = "idle"
         /\ s = "release" => OnOk["thread"][s] = "chips" /\ OnErr["thread"][s] = "idle"
         /\ s = "reset" => OnOk["thread"][s] = "disable" /\ OnErr["thread"][s] = "disable"
         /\ s = "disable" => OnOk["thread"][s] = "readoff" /\ OnErr["thread"][s] = "off"
         /\ s = "readoff" => OnOk["thread"][s] = "off" /\ OnErr["thread"][s] = "off"
BY DEF OnOk, OnErr, ThreadSteps

LEMMA MonitorTable ==
  ASSUME NEW s \in MonitorSteps
  PROVE  /\ s = "temp" => OnOk["monitor"][s] = "sense" /\ OnErr["monitor"][s] = "sense"
         /\ s = "sense" => OnOk["monitor"][s] = "judge" /\ OnErr["monitor"][s] = "judge"
         /\ s = "fanfull" => OnOk["monitor"][s] = "signal" /\ OnErr["monitor"][s] = "signal"
         /\ s = "reset" => OnOk["monitor"][s] = "disable" /\ OnErr["monitor"][s] = "disable"
         /\ s = "disable" => OnOk["monitor"][s] = "readoff" /\ OnErr["monitor"][s] = "after"
         /\ s = "readoff" => OnOk["monitor"][s] = "after" /\ OnErr["monitor"][s] = "after"
         /\ s = "fanlow" => OnOk["monitor"][s] = "done" /\ OnErr["monitor"][s] = "done"
BY DEF OnOk, OnErr, MonitorSteps

(* The requests that the two lines depend on.                              *)
LEMMA RequestTable ==
  ASSUME NEW s \in ThreadSteps \cup MonitorSteps
  PROVE  /\ Request[s] = "release" <=> s = "release"
         /\ Request[s] = "on" <=> s = "enable"
         /\ Request[s] = "off" <=> s = "disable"
         /\ Request[s] = "assert" <=> s \in {"start", "reset"}
         /\ Request[s] = "readback" <=> s \in {"readon", "readoff"}
BY DEF Request, ThreadSteps, MonitorSteps

(***************************************************************************)
(* Ages.                                                                   *)
(***************************************************************************)
Ids == 0 .. IdSpace - 1

LEMMA Ageing ==
  ASSUME next_id \in Ids, IdSpace \in Nat, next_id' = (next_id + 1) % IdSpace
  PROVE  /\ next_id' \in Ids
         /\ \A id \in Ids : id = next_id => Age(id)' = 1
         /\ \A id \in Ids : Age(id) < IdSpace => Age(id)' = Age(id) + 1
<1>1. next_id' = IF next_id + 1 = IdSpace THEN 0 ELSE next_id + 1
  BY DEF Ids
<1>2. next_id' \in Ids
  BY <1>1 DEF Ids
<1>3. \A id \in Ids : Age(id) < IdSpace => Age(id)' = Age(id) + 1
  BY <1>1 DEF Ids, Age
<1>4. \A id \in Ids : id = next_id => Age(id)' = 1
  BY <1>1 DEF Ids, Age
<1> QED BY <1>2, <1>3, <1>4

LEMMA AgeTypes ==
  ASSUME next_id \in Ids, IdSpace \in Nat
  PROVE  /\ \A id \in Ids : Age(id) \in 1 .. IdSpace
         /\ \A x, y \in Ids : Age(x) = Age(y) => x = y
BY DEF Ids, Age

(***************************************************************************)
(* How a request ends: where the caller goes on, and what a good read-back *)
(* needs.                                                                  *)
(***************************************************************************)
LEMMA ThreadEnds ==
  ASSUME TypeOK, Tasks, pc["thread"] \in ThreadSteps,
         NEW ok \in BOOLEAN, NEW good \in BOOLEAN, Outcome("thread", ok, good)
  PROVE  /\ pc' = [b \in Task |-> IF b = "thread" THEN pc'["thread"] ELSE pc[b]]
         /\ pc'["monitor"] = pc["monitor"]
         /\ \/ pc["thread"] = "start" /\ pc'["thread"] = "idle"
            \/ pc["thread"] = "enable" /\ pc'["thread"] \in {"readon", "idle"}
            \/ pc["thread"] = "readon" /\ pc'["thread"] = "idle"
            \/ pc["thread"] = "readon" /\ pc'["thread"] = "release" /\ ok /\ good
            \/ pc["thread"] = "release" /\ pc'["thread"] \in {"chips", "idle"}
            \/ pc["thread"] = "reset" /\ pc'["thread"] = "disable"
            \/ pc["thread"] = "disable" /\ pc'["thread"] \in {"readoff", "off"}
            \/ pc["thread"] = "readoff" /\ pc'["thread"] = "off"
<1> DEFINE fine == ok /\ (pc["thread"] = "readon" => good) /\ (pc["thread"] = "readoff" => ~good)
<1> DEFINE to == IF fine THEN OnOk["thread"][pc["thread"]] ELSE OnErr["thread"][pc["thread"]]
<1>1. pc' = [pc EXCEPT !["thread"] = to] /\ "thread" \in Task /\ "monitor" \in Task
  BY DEF Outcome, Task
<1>2. pc'["thread"] = to /\ pc'["monitor"] = pc["monitor"]
  BY <1>1 DEF Tasks
<1>3. pc' = [b \in Task |-> IF b = "thread" THEN to ELSE pc[b]]
  BY <1>1 DEF Tasks
<1>4. PICK step \in ThreadSteps : pc["thread"] = step
  OBVIOUS
<1>5. fine \/ ~fine
  OBVIOUS
<1>6. /\ step = "start" => pc'["thread"] = "idle"
      /\ step = "enable" => pc'["thread"] \in {"readon", "idle"}
      /\ step = "readon" => pc'["thread"] = "idle" \/ (pc'["thread"] = "release" /\ ok /\ good)
      /\ step = "release" => pc'["thread"] \in {"chips", "idle"}
      /\ step = "reset" => pc'["thread"] = "disable"
      /\ step = "disable" => pc'["thread"] \in {"readoff", "off"}
      /\ step = "readoff" => pc'["thread"] = "off"
  <2>1. CASE fine
    BY <1>2, <1>4, <2>1, ThreadTable
  <2>2. CASE ~fine
    <3> HIDE DEF fine
    <3>1. pc'["thread"] = OnErr["thread"][step]
      BY <1>2, <1>4, <2>2
    <3> QED BY <3>1, ThreadTable
  <2> QED BY <2>1, <2>2
<1> QED BY <1>2, <1>3, <1>4, <1>6 DEF ThreadSteps

LEMMA MonitorEnds ==
  ASSUME TypeOK, Tasks, pc["monitor"] \in MonitorSteps,
         NEW ok \in BOOLEAN, NEW good \in BOOLEAN, Outcome("monitor", ok, good)
  PROVE  /\ pc' = [b \in Task |-> IF b = "monitor" THEN pc'["monitor"] ELSE pc[b]]
         /\ pc'["thread"] = pc["thread"]
         /\ \/ pc["monitor"] = "temp" /\ pc'["monitor"] = "sense"
            \/ pc["monitor"] = "sense" /\ pc'["monitor"] = "judge"
            \/ pc["monitor"] = "fanfull" /\ pc'["monitor"] = "signal"
            \/ pc["monitor"] = "reset" /\ pc'["monitor"] = "disable"
            \/ pc["monitor"] = "disable" /\ pc'["monitor"] \in {"readoff", "after"}
            \/ pc["monitor"] = "readoff" /\ pc'["monitor"] = "after"
            \/ pc["monitor"] = "fanlow" /\ pc'["monitor"] = "done"
<1> DEFINE fine == ok /\ (pc["monitor"] = "readon" => good) /\ (pc["monitor"] = "readoff" => ~good)
<1> DEFINE to == IF fine THEN OnOk["monitor"][pc["monitor"]] ELSE OnErr["monitor"][pc["monitor"]]
<1>1. pc' = [pc EXCEPT !["monitor"] = to] /\ "thread" \in Task /\ "monitor" \in Task
  BY DEF Outcome, Task
<1>2. pc'["monitor"] = to /\ pc'["thread"] = pc["thread"]
  BY <1>1 DEF Tasks
<1>3. pc' = [b \in Task |-> IF b = "monitor" THEN to ELSE pc[b]]
  BY <1>1 DEF Tasks
<1>4. PICK step \in MonitorSteps : pc["monitor"] = step
  OBVIOUS
<1>5. pc'["monitor"] \in {OnOk["monitor"][step], OnErr["monitor"][step]}
  BY <1>2, <1>4
<1> HIDE DEF fine, to
<1>6. /\ step = "temp" => pc'["monitor"] = "sense"
      /\ step = "sense" => pc'["monitor"] = "judge"
      /\ step = "fanfull" => pc'["monitor"] = "signal"
      /\ step = "reset" => pc'["monitor"] = "disable"
      /\ step = "disable" => pc'["monitor"] \in {"readoff", "after"}
      /\ step = "readoff" => pc'["monitor"] = "after"
      /\ step = "fanlow" => pc'["monitor"] = "done"
  BY <1>5, MonitorTable
<1> QED BY <1>2, <1>3, <1>4, <1>6 DEF MonitorSteps

-----------------------------------------------------------------------------
(***************************************************************************)
(* What a step must respect that leaves the lines and the packets alone.   *)
(***************************************************************************)
LEMMA LinesMove ==
  ASSUME Phases, Powered, TakenDown, UNCHANGED <<wire, rail, nrst>>,
         NoRelease => NoRelease',
         pc'["monitor"] \in {"wait", "reset", "disable", "readoff", "after", "fanlow", "done"}
           => shutdown',
         pc'["monitor"] \in {"tick", "temp", "sense", "judge"} => bad_thermal_count' < BadLimit,
         pc'["thread"] = "release" /\ ~shutdown' => rail,
         pc'["thread"] = "readon" /\ holder' = "thread" /\ ~shutdown' =>
           \A i \in 1 .. Len(inbox') : inbox'[i].id = sent_id' /\ inbox'[i].good => rail,
         \A a \in Task : Asserted(a)' => Asserted(a),
         Cut' => Cut
  PROVE  Phases' /\ Powered' /\ TakenDown'
<1>1. \A r : Ahead(r)' <=> Ahead(r)
  BY DEF Ahead, Req
<1>2. Phases'
  BY <1>1 DEF Phases
<1>3. Powered'
  BY <1>1 DEF Powered
<1>4. \A n : Req(n)' = Req(n)
  BY DEF Req
<1>5. /\ \A n : Low(wire, nrst, "release", "assert", n)' <=> Low(wire, nrst, "release", "assert", n)
      /\ \A n : Low(wire, rail, "on", "off", n)' <=> Low(wire, rail, "on", "off", n)
  BY <1>4 DEF Low
<1>6. Low(wire, nrst, "release", "assert", Len(wire) + 1)'
        <=> Low(wire, nrst, "release", "assert", Len(wire) + 1)
  BY <1>4 DEF Low
<1>7. Low(wire, rail, "on", "off", Len(wire) + 1)' <=> Low(wire, rail, "on", "off", Len(wire) + 1)
  BY <1>4 DEF Low
<1>8. \A n \in 1 .. Len(wire) : Req(n) = "off" =>
        /\ Low(wire, nrst, "release", "assert", n)'
        /\ \A m \in n .. Len(wire) : Req(m) # "release"
  BY <1>5 DEF TakenDown
<1>9. (\E a \in Task : Asserted(a)') => Low(wire, nrst, "release", "assert", Len(wire) + 1)'
  BY <1>6 DEF TakenDown
<1>10. Cut' => Low(wire, rail, "on", "off", Len(wire) + 1)'
  BY <1>7 DEF TakenDown
<1>11. TakenDown'
  BY <1>4, <1>8, <1>9, <1>10 DEF TakenDown
<1> QED BY <1>2, <1>3, <1>11

LEMMA ChannelTypes ==
  TypeOK => /\ Outstanding \in Nat /\ next_id \in Ids /\ IdSpace \in Nat /\ sent_id \in Ids
            /\ \A i \in 1 .. Len(inbox) : inbox[i].id \in Ids /\ inbox[i].good \in BOOLEAN
            /\ \A i \in 1 .. Len(wire) : wire[i].id \in Ids /\ Req(i) \in Requests
            /\ Len(inbox) \in Nat /\ Len(wire) \in Nat /\ late \in Nat
<1> SUFFICES ASSUME TypeOK
             PROVE  /\ Outstanding \in Nat /\ next_id \in Ids /\ IdSpace \in Nat /\ sent_id \in Ids
                    /\ \A i \in 1 .. Len(inbox) : inbox[i].id \in Ids /\ inbox[i].good \in BOOLEAN
                    /\ \A i \in 1 .. Len(wire) : wire[i].id \in Ids /\ Req(i) \in Requests
                    /\ Len(inbox) \in Nat /\ Len(wire) \in Nat /\ late \in Nat
  OBVIOUS
<1>1. /\ inbox \in Seq(Reply) /\ wire \in Seq(Packet) /\ late \in 0 .. MaxLate
      /\ next_id \in Ids /\ sent_id \in Ids /\ IdSpace \in Nat
  BY IdSpaceFits DEF TypeOK, Ids
<1>2. /\ \A i \in 1 .. Len(inbox) : inbox[i] \in Reply
      /\ \A i \in 1 .. Len(wire) : wire[i] \in Packet
      /\ Len(inbox) \in Nat /\ Len(wire) \in Nat
  BY <1>1
<1>3. \A i \in 1 .. Len(inbox) : inbox[i].id \in Ids /\ inbox[i].good \in BOOLEAN
  BY <1>2 DEF Reply, Ids
<1>4. \A p \in Packet : p.id \in Ids /\ p.request \in Requests
  BY Tables DEF Packet, Ids
<1>5. \A i \in 1 .. Len(wire) : wire[i].id \in Ids /\ Req(i) \in Requests
  BY <1>2, <1>4 DEF Req
<1>6. late \in Nat /\ Outstanding \in Nat
  BY <1>1, IdSpaceFits DEF Outstanding
<1> QED BY <1>1, <1>2, <1>3, <1>5, <1>6

LEMMA ChannelTypesNext ==
  (TypeOK => /\ Outstanding \in Nat /\ next_id \in Ids /\ IdSpace \in Nat /\ sent_id \in Ids
             /\ \A i \in 1 .. Len(inbox) : inbox[i].id \in Ids /\ inbox[i].good \in BOOLEAN
             /\ \A i \in 1 .. Len(wire) : wire[i].id \in Ids /\ Req(i) \in Requests
             /\ Len(inbox) \in Nat /\ Len(wire) \in Nat /\ late \in Nat)'
BY ChannelTypes, PTL

(* ... and the channel alone, but for giving up its lock.                  *)
LEMMA ChannelMove ==
  ASSUME InOrder, AgesBounded, Channel, TypeOK, TypeOK',
         UNCHANGED <<sent_id, next_id, wire, inbox>>,
         Outstanding <= Outstanding', holder' \in {holder, "none"},
         \A a \in Task : holder' = a => pc'[a] = pc[a]
  PROVE  InOrder' /\ AgesBounded' /\ Channel'
<1>1. /\ \A id : Age(id)' = Age(id)
      /\ Age(sent_id)' = Age(sent_id)
  BY DEF Age
<1>2. InOrder'
  BY <1>1 DEF InOrder
<1>3. /\ Outstanding \in Nat /\ Outstanding' \in Nat /\ next_id \in Ids /\ IdSpace \in Nat
      /\ \A i \in 1 .. Len(inbox) : inbox[i].id \in Ids
      /\ \A i \in 1 .. Len(wire) : wire[i].id \in Ids
  BY ChannelTypes, ChannelTypesNext
<1>4. AgesBounded'
  <2>1. \A x \in Ids : Age(x) \in 1 .. IdSpace
    BY <1>3, AgeTypes
  <2>2. ASSUME NEW i \in 1 .. Len(inbox) PROVE Age(inbox[i].id) <= Outstanding'
    <3>1. Age(inbox[i].id) <= Outstanding
      BY DEF AgesBounded
    <3> QED BY <1>3, <2>1, <3>1
  <2>3. ASSUME NEW i \in 1 .. Len(wire) PROVE Age(wire[i].id) <= Outstanding'
    <3>1. Age(wire[i].id) <= Outstanding
      BY DEF AgesBounded
    <3> QED BY <1>3, <2>1, <3>1
  <2>4. /\ \A i : Age(inbox[i].id)' = Age(inbox[i].id)
        /\ \A i : Age(wire[i].id)' = Age(wire[i].id)
    BY DEF Age
  <2> QED BY <2>2, <2>3, <2>4 DEF AgesBounded
<1>5. Channel'
  <2>1. ASSUME NEW a \in Task, holder' = a
        PROVE  /\ pc'[a] \in DOMAIN OnOk[a]
               /\ \A j \in 1 .. Len(wire) : wire[j].id = sent_id => wire[j].request = Request[pc'[a]]
    <3>1. holder = a
      BY <2>1 DEF Task
    <3> QED BY <2>1, <3>1 DEF Channel
  <2>2. holder' # "none" => Age(sent_id)' = 1
    BY <1>1 DEF Channel
  <2> QED BY <2>1, <2>2 DEF Channel
<1> QED BY <1>2, <1>4, <1>5

-----------------------------------------------------------------------------
(***************************************************************************)
(* One lemma per action, or per group of actions of one task.              *)
(***************************************************************************)

(* A task moves only where it has no request under way.                    *)
LEMMA NotHolder ==
  ASSUME BoardInv
  PROVE  /\ pc["thread"] \notin ThreadSteps => holder # "thread"
         /\ pc["monitor"] \notin MonitorSteps => holder # "monitor"
         /\ holder = "thread" => pc["thread"] \in ThreadSteps
         /\ holder = "monitor" => pc["monitor"] \in MonitorSteps
BY Tables DEF BoardInv, Channel, Task

(* AssignTask, ChipsDone, Block, Unblock and ThreadLeaves.                 *)
LEMMA ThreadGoesStep ==
  ASSUME BoardInv, pc["thread"] \in {"idle", "chips", "busy"},
         NEW to \in {"idle", "enable", "busy", "reset"}, pc' = [pc EXCEPT !["thread"] = to],
         UNCHANGED <<chanVars, boardVars, monitorVars, released_since, shutdown>>,
         chain_initialized' \in BOOLEAN, bringups' \in 0 .. MaxBringUps
  PROVE  BoardInv'
<1>1. /\ UNCHANGED <<holder, sent_id, next_id, wire, inbox, late, rail, nrst, hot, reading,
                    bad_thermal_count, cancelled, released_since, shutdown>>
      /\ BoardInv /\ TypeOK /\ Tasks
  BY DEF chanVars, boardVars, monitorVars, BoardInv
<1>2. /\ pc'["thread"] = to /\ pc'["monitor"] = pc["monitor"] /\ Tasks'
      /\ "thread" \in Task /\ "monitor" \in Task
  BY <1>1 DEF Tasks, Task
<1>3. holder # "thread"
  BY <1>1, NotHolder DEF ThreadSteps
<1>4. TypeOK'
  BY <1>1, <1>2, Tables DEF TypeOK, ThreadSteps
<1>5. /\ Leaving => Leaving' /\ ~Leaving
      /\ \A a \in Task : Asserted(a)' => Asserted(a)
      /\ Cut' => Cut
  BY <1>1, <1>2, <1>3 DEF Leaving, Asserted, Cut, Task
<1>6. InOrder' /\ AgesBounded' /\ Channel'
  <2>1. Outstanding <= Outstanding'
    <3>1. late \in Nat
      BY <1>1, ChannelTypes
    <3> QED BY <1>1, <1>5, <3>1 DEF Outstanding
  <2>2. \A a \in Task : holder' = a => pc'[a] = pc[a]
    BY <1>1, <1>2, <1>3 DEF Task
  <2> QED BY <1>1, <1>4, <2>1, <2>2, ChannelMove DEF BoardInv
<1>7. Phases' /\ Powered' /\ TakenDown'
  <2>1. NoRelease => NoRelease'
    BY <1>1, <1>5 DEF NoRelease
  <2>2. Phases /\ Powered /\ TakenDown
    BY <1>1 DEF BoardInv
  <2>3. pc'["monitor"] \in {"wait", "reset", "disable", "readoff", "after", "fanlow", "done"}
          => shutdown'
    BY <1>1, <1>2, <2>2 DEF Phases
  <2>4. pc'["monitor"] \in {"tick", "temp", "sense", "judge"} => bad_thermal_count' < BadLimit
    BY <1>1, <1>2, <2>2 DEF Phases
  <2> QED BY <1>1, <1>2, <1>3, <1>5, <2>1, <2>2, <2>3, <2>4, LinesMove
<1> QED BY <1>2, <1>4, <1>6, <1>7 DEF BoardInv

LEMMA AbortStep ==
  ASSUME BoardInv, AbortBringUp
  PROVE  BoardInv'
<1>1. /\ UNCHANGED <<sent_id, next_id, wire, inbox, late, rail, nrst, hot, reading,
                    chain_initialized, bringups, bad_thermal_count, cancelled, released_since,
                    shutdown>>
      /\ BoardInv /\ TypeOK /\ Tasks /\ shutdown
      /\ pc["thread"] \in BringUp /\ pc' = [pc EXCEPT !["thread"] = "reset"]
      /\ holder' = IF holder = "thread" THEN "none" ELSE holder
  BY DEF AbortBringUp, boardVars, monitorVars, threadVars, BoardInv
<1>2. /\ pc'["thread"] = "reset" /\ pc'["monitor"] = pc["monitor"] /\ Tasks'
      /\ "thread" \in Task /\ "monitor" \in Task
  BY <1>1 DEF Tasks, Task
<1>3. TypeOK'
  BY <1>1, <1>2, Tables DEF TypeOK, ThreadSteps, Task
<1>4. /\ Leaving' /\ ~Leaving
      /\ \A a \in Task : Asserted(a)' => Asserted(a)
      /\ ~Cut'
  BY <1>1, <1>2 DEF Leaving, Asserted, Cut, Task, BringUp
<1>5. InOrder' /\ AgesBounded' /\ Channel'
  <2>1. Outstanding <= Outstanding'
    <3>1. late \in Nat
      BY <1>1, ChannelTypes
    <3> QED BY <1>1, <1>4, <3>1 DEF Outstanding
  <2>2. holder' # "thread" /\ \A a \in Task : holder' = a => pc'[a] = pc[a]
    BY <1>1, <1>2 DEF Task
  <2> QED BY <1>1, <1>3, <2>1, <2>2, ChannelMove DEF BoardInv
<1>6. Phases' /\ Powered' /\ TakenDown'
  <2>1. NoRelease'
    BY <1>1 DEF NoRelease
  <2>2. Phases /\ Powered /\ TakenDown
    BY <1>1 DEF BoardInv
  <2>3. pc'["monitor"] \in {"tick", "temp", "sense", "judge"} => bad_thermal_count' < BadLimit
    BY <1>1, <1>2, <2>2 DEF Phases
  <2> QED BY <1>1, <1>2, <1>4, <2>1, <2>2, <2>3, LinesMove
<1> QED BY <1>2, <1>3, <1>5, <1>6 DEF BoardInv

(* Tick, Judge, Cancelled, Signal, WaitOver and AfterDisable.              *)
LEMMA MonitorGoesStep ==
  ASSUME BoardInv, NEW from \in {"tick", "judge", "signal", "wait", "after"},
         NEW to \in {"temp", "fanfull", "tick", "signal", "wait", "reset", "done", "fanlow"},
         MonitorGoes(from, to),
         UNCHANGED <<chanVars, boardVars, threadVars, reading, cancelled, released_since>>,
         shutdown => shutdown', shutdown' \in BOOLEAN, bad_thermal_count' \in 0 .. BadLimit,
         to \in {"wait", "reset", "fanlow", "done"} => shutdown',
         to \in {"tick", "temp"} => bad_thermal_count' < BadLimit,
         to \in {"fanlow", "done"} => from = "after"
  PROVE  BoardInv'
<1>1. /\ UNCHANGED <<holder, sent_id, next_id, wire, inbox, late, rail, nrst, hot, reading,
                    chain_initialized, bringups, cancelled, released_since>>
      /\ BoardInv /\ TypeOK /\ Tasks
      /\ pc["monitor"] = from /\ pc' = [pc EXCEPT !["monitor"] = to]
  BY DEF chanVars, boardVars, threadVars, BoardInv, MonitorGoes
<1>2. /\ pc'["monitor"] = to /\ pc'["thread"] = pc["thread"] /\ Tasks'
      /\ "thread" \in Task /\ "monitor" \in Task
  BY <1>1 DEF Tasks, Task
<1>3. holder # "monitor"
  BY <1>1, NotHolder DEF MonitorSteps
<1>4. TypeOK'
  BY <1>1, <1>2, Tables DEF TypeOK, MonitorSteps
<1>5. /\ Leaving <=> Leaving'
      /\ \A a \in Task : Asserted(a)' => Asserted(a)
      /\ Cut' => Cut
  BY <1>1, <1>2, <1>3 DEF Leaving, Asserted, Cut, Task
<1>6. InOrder' /\ AgesBounded' /\ Channel'
  <2>1. Outstanding <= Outstanding'
    <3>1. late \in Nat
      BY <1>1, ChannelTypes
    <3> QED BY <1>1, <1>5, <3>1 DEF Outstanding
  <2>2. \A a \in Task : holder' = a => pc'[a] = pc[a]
    BY <1>1, <1>2, <1>3 DEF Task
  <2> QED BY <1>1, <1>4, <2>1, <2>2, ChannelMove DEF BoardInv
<1>7. Phases' /\ Powered' /\ TakenDown'
  <2>1. NoRelease => NoRelease'
    BY <1>1, <1>5 DEF NoRelease
  <2>2. Phases /\ Powered /\ TakenDown
    BY <1>1 DEF BoardInv
  <2>3. pc'["thread"] = "release" /\ ~shutdown' => rail
    BY <1>2, <2>2 DEF Powered
  <2>4. pc'["thread"] = "readon" /\ holder' = "thread" /\ ~shutdown' =>
          \A i \in 1 .. Len(inbox') : inbox'[i].id = sent_id' /\ inbox'[i].good => rail
    BY <1>1, <1>2, <2>2 DEF Powered
  <2> QED BY <1>1, <1>2, <1>5, <2>1, <2>2, <2>3, <2>4, LinesMove
<1> QED BY <1>2, <1>4, <1>6, <1>7 DEF BoardInv

(* A request ends with the oldest reply, or late, or with the channel      *)
(* empty: what is outstanding gets younger, or there is one more of it.    *)
LEMMA ChannelEnds ==
  ASSUME BoardInv, holder \in Task, holder' = "none", Leaving' <=> Leaving,
         UNCHANGED <<sent_id, next_id, wire>>,
         \/ inbox # <<>> /\ inbox' = Tail(inbox) /\ late' = late
         \/ inbox = <<>> /\ inbox' = inbox /\ (late' = late + 1 \/ (late' = late /\ wire = <<>>))
  PROVE  InOrder' /\ AgesBounded' /\ Channel'
<1>1. /\ BoardInv /\ InOrder /\ AgesBounded /\ TypeOK /\ inbox \in Seq(Reply)
      /\ Outstanding \in Nat /\ next_id \in Ids /\ IdSpace \in Nat /\ late \in Nat
      /\ \A i \in 1 .. Len(inbox) : inbox[i].id \in Ids
      /\ \A i \in 1 .. Len(wire) : wire[i].id \in Ids
      /\ Len(inbox) \in Nat /\ Len(wire) \in Nat
  BY ChannelTypes DEF BoardInv, TypeOK
<1>2. \A x \in Ids : Age(x) \in 1 .. IdSpace
  BY <1>1, AgeTypes
<1>3. /\ \A x : Age(x)' = Age(x)
      /\ \A i : Age(wire[i].id)' = Age(wire[i].id)
      /\ \A i : Age(inbox[i].id)' = Age(inbox'[i].id)
  BY DEF Age
<1>4. Channel'
  BY DEF Channel, Task
<1>5. CASE inbox # <<>> /\ inbox' = Tail(inbox) /\ late' = late
  <2>1. /\ Len(inbox) \in Nat \ {0} /\ Len(inbox') = Len(inbox) - 1
        /\ \A i \in 1 .. Len(inbox') : i + 1 \in 1 .. Len(inbox) /\ inbox'[i] = inbox[i + 1]
        /\ 1 \in 1 .. Len(inbox)
    BY <1>1, <1>5
  <2>2. Outstanding' = Outstanding - 1
    BY <1>1, <1>5 DEF Outstanding, Task
  <2>3. InOrder'
    <3>1. ASSUME NEW i \in 1 .. Len(inbox'), NEW j \in 1 .. Len(inbox'), i < j
          PROVE  Age(inbox'[i].id) > Age(inbox'[j].id)
      <4>1. i + 1 < j + 1
        BY <2>1, <3>1
      <4> QED BY <1>1, <2>1, <4>1 DEF InOrder
    <3>2. ASSUME NEW i \in 1 .. Len(inbox'), NEW j \in 1 .. Len(wire)
          PROVE  Age(inbox'[i].id) > Age(wire[j].id)
      BY <1>1, <2>1 DEF InOrder
    <3>3. \A i, j \in 1 .. Len(wire) : i < j => Age(wire[i].id) > Age(wire[j].id)
      BY <1>1 DEF InOrder
    <3> QED BY <1>3, <3>1, <3>2, <3>3 DEF InOrder
  <2>4. Age(inbox[1].id) <= Outstanding /\ Age(inbox[1].id) \in 1 .. IdSpace
    BY <1>1, <1>2, <2>1 DEF AgesBounded
  <2>5. ASSUME NEW i \in 1 .. Len(inbox') PROVE Age(inbox'[i].id) <= Outstanding'
    <3>1. 1 < i + 1 /\ Age(inbox[1].id) > Age(inbox[i + 1].id)
      <4>1. 1 < i + 1
        BY <2>1
      <4> QED BY <1>1, <2>1, <4>1 DEF InOrder
    <3>2. Age(inbox[i + 1].id) \in 1 .. IdSpace
      BY <1>1, <1>2, <2>1
    <3> QED BY <1>1, <2>1, <2>2, <2>4, <3>1, <3>2
  <2>6. ASSUME NEW j \in 1 .. Len(wire) PROVE Age(wire[j].id) <= Outstanding'
    <3>1. Age(inbox[1].id) > Age(wire[j].id)
      BY <1>1, <2>1 DEF InOrder
    <3>2. Age(wire[j].id) \in 1 .. IdSpace
      BY <1>1, <1>2
    <3> QED BY <1>1, <2>2, <2>4, <3>1, <3>2
  <2>7. AgesBounded'
    BY <1>3, <2>5, <2>6 DEF AgesBounded
  <2> QED BY <1>4, <2>3, <2>7
<1>6. CASE inbox = <<>> /\ inbox' = inbox /\ (late' = late + 1 \/ (late' = late /\ wire = <<>>))
  <2>1. InOrder'
    BY <1>1, <1>3, <1>6 DEF InOrder
  <2>2. 1 .. Len(inbox') = {}
    BY <1>6
  <2>3. ASSUME NEW j \in 1 .. Len(wire) PROVE Age(wire[j].id) <= Outstanding'
    <3>1. late' = late + 1
      BY <1>6
    <3>2. Outstanding' = Outstanding
      BY <1>1, <3>1 DEF Outstanding, Task
    <3> QED BY <1>1, <3>2 DEF AgesBounded
  <2>4. AgesBounded'
    BY <1>3, <2>2, <2>3 DEF AgesBounded
  <2> QED BY <1>4, <2>1, <2>4
<1> QED BY <1>5, <1>6

LEMMA EndsStep ==
  ASSUME BoardInv, NEW a \in Task, Ends(a)
  PROVE  BoardInv'
<1>1. PICK ok \in BOOLEAN, good \in BOOLEAN :
        /\ Outcome(a, ok, good)
        /\ ok => inbox # <<>> /\ Head(inbox).id = sent_id /\ good = Head(inbox).good
  <2>1. CASE Answer(a)
    <3>1. inbox # <<>> /\ inbox \in Seq(Reply)
      BY <2>1 DEF Answer, BoardInv, TypeOK
    <3>2. Head(inbox) \in Reply
      BY <3>1
    <3>3. Head(inbox).good \in BOOLEAN /\ (Head(inbox).id = sent_id) \in BOOLEAN
      BY <3>2 DEF Reply
    <3> QED BY <2>1, <3>1, <3>3 DEF Answer
  <2>2. CASE TimedOut(a)
    BY <2>2 DEF TimedOut
  <2> QED BY <2>1, <2>2 DEF Ends
<1>2. /\ holder = a /\ holder' = "none" /\ UNCHANGED <<sent_id, next_id, wire>>
      /\ \/ inbox # <<>> /\ inbox' = Tail(inbox) /\ late' = late
         \/ /\ inbox = <<>> /\ inbox' = inbox
            /\ (late' = late + 1 /\ late < MaxLate) \/ (late' = late /\ wire = <<>>)
  BY DEF Ends, Answer, TimedOut
<1>3. /\ BoardInv /\ TypeOK /\ Tasks /\ a \in {"thread", "monitor"}
      /\ UNCHANGED <<rail, nrst, hot, chain_initialized, bringups, bad_thermal_count, cancelled, shutdown>>
      /\ released_since' \in {"fresh", "none", released_since}
      /\ reading' \in BOOLEAN
  <2>1. reading' = IF pc[a] = "temp" THEN ok /\ good ELSE reading
    BY <1>1 DEF Outcome
  <2>2. reading \in BOOLEAN /\ (ok /\ good) \in BOOLEAN
    BY DEF BoardInv, TypeOK
  <2> QED BY <1>1, <2>1, <2>2 DEF Outcome, BoardInv, boardVars, threadVars, Task
<1>4. inbox' \in Seq(Reply) /\ late' \in 0 .. MaxLate
  <2>1. inbox \in Seq(Reply) /\ late \in 0 .. MaxLate
    BY <1>3 DEF TypeOK
  <2> QED BY <1>2, <2>1, IdSpaceFits
<1>5. /\ Phases /\ Powered /\ TakenDown
  BY <1>3 DEF BoardInv
<1>6. CASE a = "thread"
  <2>1. pc["thread"] \in ThreadSteps
    BY <1>2, <1>3, <1>6, NotHolder
  <2>2. /\ pc' = [b \in Task |-> IF b = "thread" THEN pc'["thread"] ELSE pc[b]]
        /\ pc'["monitor"] = pc["monitor"]
        /\ \/ pc["thread"] = "start" /\ pc'["thread"] = "idle"
           \/ pc["thread"] = "enable" /\ pc'["thread"] \in {"readon", "idle"}
           \/ pc["thread"] = "readon" /\ pc'["thread"] = "idle"
           \/ pc["thread"] = "readon" /\ pc'["thread"] = "release" /\ ok /\ good
           \/ pc["thread"] = "release" /\ pc'["thread"] \in {"chips", "idle"}
           \/ pc["thread"] = "reset" /\ pc'["thread"] = "disable"
           \/ pc["thread"] = "disable" /\ pc'["thread"] \in {"readoff", "off"}
           \/ pc["thread"] = "readoff" /\ pc'["thread"] = "off"
    BY <1>1, <1>3, <1>6, <2>1, ThreadEnds
  <2>3. Tasks'
    BY <2>2 DEF Tasks
  <2>4. TypeOK'
    BY <1>2, <1>3, <1>4, <2>2, Tables DEF TypeOK, ThreadSteps, Task
  <2>5. /\ Leaving' <=> Leaving
        /\ \A b \in Task : Asserted(b)' => Asserted(b)
        /\ Cut' => Cut
    BY <1>2, <1>6, <2>2 DEF Leaving, Asserted, Cut, Task
  <2>6. InOrder' /\ AgesBounded' /\ Channel'
    BY <1>2, <1>3, <2>5, ChannelEnds
  <2>7. pc'["thread"] = "release" /\ ~shutdown' => rail
    <3>1. SUFFICES ASSUME pc'["thread"] = "release", ~shutdown PROVE rail
      BY <1>3
    <3>2. pc["thread"] = "readon" /\ ok /\ good /\ inbox # <<>> /\ inbox \in Seq(Reply)
      BY <1>1, <1>3, <2>2, <3>1 DEF TypeOK
    <3>3. 1 \in 1 .. Len(inbox) /\ inbox[1] = Head(inbox)
      BY <3>2
    <3> QED BY <1>1, <1>2, <1>5, <1>6, <3>1, <3>2, <3>3 DEF Powered
  <2>8. Phases' /\ Powered' /\ TakenDown'
    <3>1. NoRelease => NoRelease'
      BY <1>3, <2>5 DEF NoRelease
    <3>2. pc'["monitor"] \in {"wait", "reset", "disable", "readoff", "after", "fanlow", "done"}
            => shutdown'
      BY <1>3, <1>5, <2>2 DEF Phases
    <3>3. pc'["monitor"] \in {"tick", "temp", "sense", "judge"} => bad_thermal_count' < BadLimit
      BY <1>3, <1>5, <2>2 DEF Phases
    <3> QED BY <1>2, <1>3, <1>5, <2>5, <2>7, <3>1, <3>2, <3>3, LinesMove
  <2> QED BY <2>3, <2>4, <2>6, <2>8 DEF BoardInv
<1>7. CASE a = "monitor"
  <2>1. pc["monitor"] \in MonitorSteps
    BY <1>2, <1>3, <1>7, NotHolder
  <2>2. /\ pc' = [b \in Task |-> IF b = "monitor" THEN pc'["monitor"] ELSE pc[b]]
        /\ pc'["thread"] = pc["thread"]
        /\ \/ pc["monitor"] = "temp" /\ pc'["monitor"] = "sense"
           \/ pc["monitor"] = "sense" /\ pc'["monitor"] = "judge"
           \/ pc["monitor"] = "fanfull" /\ pc'["monitor"] = "signal"
           \/ pc["monitor"] = "reset" /\ pc'["monitor"] = "disable"
           \/ pc["monitor"] = "disable" /\ pc'["monitor"] \in {"readoff", "after"}
           \/ pc["monitor"] = "readoff" /\ pc'["monitor"] = "after"
           \/ pc["monitor"] = "fanlow" /\ pc'["monitor"] = "done"
    BY <1>1, <1>3, <1>7, <2>1, MonitorEnds
  <2>3. Tasks'
    BY <2>2 DEF Tasks
  <2>4. TypeOK'
    BY <1>2, <1>3, <1>4, <2>2, Tables DEF TypeOK, MonitorSteps, Task
  <2>5. /\ Leaving' <=> Leaving
        /\ \A b \in Task : Asserted(b)' => Asserted(b)
        /\ Cut' => Cut
    BY <1>2, <1>7, <2>2 DEF Leaving, Asserted, Cut, Task
  <2>6. InOrder' /\ AgesBounded' /\ Channel'
    BY <1>2, <1>3, <2>5, ChannelEnds
  <2>7. Phases' /\ Powered' /\ TakenDown'
    <3>1. NoRelease => NoRelease'
      BY <1>3, <2>5 DEF NoRelease
    <3>2. pc'["monitor"] \in {"wait", "reset", "disable", "readoff", "after", "fanlow", "done"}
            => shutdown'
      BY <1>3, <1>5, <2>2 DEF Phases
    <3>3. pc'["monitor"] \in {"tick", "temp", "sense", "judge"} => bad_thermal_count' < BadLimit
      BY <1>3, <1>5, <2>2 DEF Phases
    <3>4. pc'["thread"] = "release" /\ ~shutdown' => rail
      BY <1>3, <1>5, <2>2 DEF Powered
    <3> QED BY <1>2, <1>3, <1>5, <2>2, <2>5, <3>1, <3>2, <3>3, <3>4, LinesMove
  <2> QED BY <2>3, <2>4, <2>6, <2>7 DEF BoardInv
<1> QED BY <1>3, <1>6, <1>7

(* A line taken down stays down when anything but "up" is sent, is down    *)
(* when "down" is, and is no higher when the firmware carries one out.     *)
LEMMA LowAppend ==
  ASSUME NEW q \in Seq(Packet), NEW p \in Packet, NEW line, NEW up, NEW down, up # down,
         \/ p.request = down
         \/ p.request # up /\ Low(q, line, up, down, Len(q) + 1)
  PROVE  Low(Append(q, p), line, up, down, Len(Append(q, p)) + 1)
<1> DEFINE w == Append(q, p)
<1>1. /\ Len(q) \in Nat /\ Len(w) = Len(q) + 1 /\ w[Len(q) + 1] = p
      /\ \A n \in 1 .. Len(q) : w[n] = q[n]
  OBVIOUS
<1> HIDE DEF w
<1>2. CASE p.request = down
  <2>1. Len(q) + 1 \in 1 .. (Len(w) + 1) - 1 /\ w[Len(q) + 1].request = down
    BY <1>1, <1>2
  <2>2. ASSUME NEW m \in 1 .. (Len(w) + 1) - 1, w[m].request = up
        PROVE  Len(q) + 1 \in m + 1 .. (Len(w) + 1) - 1
    <3>1. m # Len(q) + 1
      BY <1>2, <2>1, <2>2
    <3> QED BY <1>1, <2>2, <3>1
  <2>3. Low(w, line, up, down, Len(w) + 1)
    BY <2>1, <2>2 DEF Low
  <2> QED BY <2>3 DEF w
<1>3. CASE p.request # up /\ Low(q, line, up, down, Len(q) + 1)
  <2>1. \A n \in 1 .. (Len(q) + 1) - 1 : n \in 1 .. (Len(w) + 1) - 1 /\ w[n] = q[n]
    BY <1>1
  <2>2. line => \E l \in 1 .. (Len(w) + 1) - 1 : w[l].request = down
    BY <1>3, <2>1 DEF Low
  <2>3. ASSUME NEW m \in 1 .. (Len(w) + 1) - 1, w[m].request = up
        PROVE  \E l \in m + 1 .. (Len(w) + 1) - 1 : w[l].request = down
    <3>1. m \in 1 .. (Len(q) + 1) - 1 /\ q[m].request = up
      <4>1. m # Len(q) + 1
        BY <1>1, <1>3, <2>3
      <4>2. m \in 1 .. (Len(q) + 1) - 1
        BY <1>1, <2>3, <4>1
      <4> QED BY <2>1, <2>3, <4>2
    <3>2. PICK l \in m + 1 .. (Len(q) + 1) - 1 : q[l].request = down
      BY <1>3, <3>1 DEF Low
    <3>3. l \in 1 .. (Len(q) + 1) - 1 /\ l \in m + 1 .. (Len(w) + 1) - 1
      BY <1>1, <3>1, <3>2
    <3> QED BY <2>1, <3>2, <3>3
  <2>4. Low(w, line, up, down, Len(w) + 1)
    BY <2>2, <2>3 DEF Low
  <2> QED BY <2>4 DEF w
<1> QED BY <1>2, <1>3

LEMMA LowTail ==
  ASSUME NEW q \in Seq(Packet), q # <<>>, NEW line, NEW up, NEW down, up # down,
         NEW n \in 1 .. Len(q), Low(q, line, up, down, n + 1), NEW after,
         after => Head(q).request = up \/ (line /\ Head(q).request # down)
  PROVE  Low(Tail(q), after, up, down, n)
<1> DEFINE w == Tail(q)
<1>1. /\ Len(q) \in Nat \ {0} /\ Len(w) = Len(q) - 1 /\ Head(q) = q[1]
      /\ \A m \in 1 .. Len(w) : w[m] = q[m + 1]
  OBVIOUS
<1> HIDE DEF w
<1>2. \A l \in 1 + 1 .. (n + 1) - 1 : l - 1 \in 1 .. n - 1 /\ w[l - 1] = q[l]
  <2>1. SUFFICES ASSUME NEW l \in 1 + 1 .. (n + 1) - 1
                 PROVE  l - 1 \in 1 .. n - 1 /\ w[l - 1] = q[l]
    OBVIOUS
  <2>2. l - 1 \in 1 .. n - 1 /\ l - 1 \in 1 .. Len(w) /\ (l - 1) + 1 = l
    BY <1>1
  <2> QED BY <1>1, <2>2
<1>3. ASSUME after PROVE \E l \in 1 .. n - 1 : w[l].request = down
  <2>1. PICK l \in 1 + 1 .. (n + 1) - 1 : q[l].request = down
    <3>1. CASE Head(q).request = up
      <4>1. 1 \in 1 .. (n + 1) - 1 /\ q[1].request = up
        BY <1>1, <3>1
      <4> QED BY <4>1 DEF Low
    <3>2. CASE line /\ Head(q).request # down
      <4>1. PICK k \in 1 .. (n + 1) - 1 : q[k].request = down
        BY <3>2 DEF Low
      <4>2. k # 1
        BY <1>1, <3>2, <4>1
      <4>3. k \in 1 + 1 .. (n + 1) - 1
        BY <4>1, <4>2
      <4> QED BY <4>1, <4>3
    <3> QED BY <1>3, <3>1, <3>2
  <2> QED BY <1>2, <2>1
<1>4. ASSUME NEW m \in 1 .. n - 1, w[m].request = up
      PROVE  \E l \in m + 1 .. n - 1 : w[l].request = down
  <2>1. m + 1 \in 1 .. (n + 1) - 1 /\ m \in 1 .. Len(w)
    BY <1>1
  <2>2. q[m + 1].request = up
    BY <1>1, <1>4, <2>1
  <2>3. PICK l \in (m + 1) + 1 .. (n + 1) - 1 : q[l].request = down
    BY <2>1, <2>2 DEF Low
  <2>4. l \in 1 + 1 .. (n + 1) - 1 /\ l - 1 \in m + 1 .. n - 1
    BY <2>1, <2>3
  <2> QED BY <1>2, <2>3, <2>4
<1>5. Low(w, after, up, down, n)
  BY <1>3, <1>4 DEF Low
<1> QED BY <1>5 DEF w

(* Who asserted reset for good cannot be followed by a release.            *)
LEMMA AssertedEnds ==
  ASSUME BoardInv, NEW a \in Task, Asserted(a)
  PROVE  NoRelease
<1>1. CASE a = "thread"
  BY <1>1, Tables DEF BoardInv, TypeOK, Asserted, NoRelease, Leaving, ThreadSteps
<1>2. CASE a = "monitor"
  BY <1>2, Tables DEF BoardInv, TypeOK, Phases, Asserted, NoRelease, MonitorSteps
<1> QED BY <1>1, <1>2 DEF Task

LEMMA SendStep ==
  ASSUME BoardInv, NEW a \in Task, Send(a)
  PROVE  BoardInv'
<1> DEFINE p == [id |-> next_id, request |-> Request[pc[a]]]
<1>1. /\ BoardInv /\ TypeOK /\ Tasks /\ InOrder /\ AgesBounded /\ Phases /\ Powered /\ TakenDown
      /\ holder = "none" /\ holder' = a /\ sent_id' = next_id
      /\ next_id' = (next_id + 1) % IdSpace /\ wire' = Append(wire, p)
      /\ ~(pc[a] = "release" /\ shutdown) /\ pc[a] \in DOMAIN OnOk[a]
      /\ UNCHANGED <<pc, inbox, late, rail, nrst, hot, chain_initialized, bringups, reading,
                    bad_thermal_count, cancelled, released_since, shutdown>>
  BY DEF Send, Free, BoardInv, boardVars, threadVars, monitorVars
<1>2. a \in {"thread", "monitor"} /\ "none" \notin Task
  BY DEF Task
<1>3. pc[a] \in ThreadSteps \cup MonitorSteps /\ (a = "monitor" => pc[a] \in MonitorSteps)
  BY <1>1, <1>2, Tables
<1>4. PICK step \in ThreadSteps \cup MonitorSteps : pc[a] = step
  BY <1>3
<1>5. PICK r : r = Request[step]
  OBVIOUS
<1>6. /\ r = "release" <=> step = "release"
      /\ r = "on" <=> step = "enable"
      /\ r = "off" <=> step = "disable"
      /\ r = "assert" <=> step \in {"start", "reset"}
  BY <1>5, RequestTable
<1>7. /\ next_id \in Ids /\ IdSpace \in Nat /\ late \in Nat /\ Outstanding \in Nat
      /\ \A i \in 1 .. Len(inbox) : inbox[i].id \in Ids
      /\ \A i \in 1 .. Len(wire) : wire[i].id \in Ids
      /\ Len(inbox) \in Nat /\ Len(wire) \in Nat
  BY <1>1, ChannelTypes
<1>8. p \in Packet /\ p.id = next_id /\ p.request = r
  <2>1. Request[step] \in {Request[s] : s \in DOMAIN Request}
    BY Tables
  <2> QED BY <1>4, <1>5, <1>7, <2>1 DEF Packet, Ids
<1> HIDE DEF p
<1>9. /\ wire \in Seq(Packet) /\ wire' \in Seq(Packet)
      /\ Len(wire') = Len(wire) + 1 /\ wire'[Len(wire) + 1] = p
      /\ \A n \in 1 .. Len(wire) : wire'[n] = wire[n]
      /\ 1 .. Len(wire') = 1 .. Len(wire) \cup {Len(wire) + 1}
  <2>1. wire \in Seq(Packet)
    BY <1>1 DEF TypeOK
  <2>2. /\ wire' \in Seq(Packet)
        /\ Len(wire') = Len(wire) + 1 /\ wire'[Len(wire) + 1] = p
        /\ \A n \in 1 .. Len(wire) : wire'[n] = wire[n]
    BY <1>1, <1>8, <2>1
  <2> QED BY <1>7, <2>1, <2>2
<1>10. /\ next_id' \in Ids
       /\ \A id \in Ids : id = next_id => Age(id)' = 1
       /\ \A id \in Ids : Age(id) < IdSpace => Age(id)' = Age(id) + 1
  BY <1>1, <1>7, Ageing
<1>11. TypeOK' /\ Tasks'
  BY <1>1, <1>2, <1>7, <1>9, <1>10 DEF TypeOK, Tasks, Ids, Task
<1>12. Outstanding' = Outstanding + 1 /\ Outstanding < IdSpace
  <2>1. Leaving' <=> Leaving
    BY <1>1 DEF Leaving
  <2>2. late \in 0 .. MaxLate
    BY <1>1 DEF TypeOK
  <2> QED BY <1>1, <1>2, <1>7, <2>1, <2>2, IdSpaceFits DEF Outstanding
<1>13. \A id \in Ids : Age(id) \in 1 .. IdSpace
  BY <1>7, AgeTypes
<1>14. ASSUME NEW id \in Ids, Age(id) <= Outstanding
       PROVE  Age(id)' = Age(id) + 1 /\ Age(id)' > 1 /\ Age(id)' <= Outstanding'
  <2>1. Age(id) \in 1 .. IdSpace /\ Age(id) < IdSpace
    BY <1>7, <1>12, <1>13, <1>14
  <2>2. Age(id)' = Age(id) + 1
    BY <1>10, <2>1
  <2> QED BY <1>7, <1>12, <1>14, <2>1, <2>2
<1>15. /\ \A i \in 1 .. Len(inbox) : /\ Age(inbox[i].id)' = Age(inbox[i].id) + 1
                                     /\ Age(inbox[i].id)' > 1
                                     /\ Age(inbox[i].id)' <= Outstanding'
                                     /\ Age(inbox[i].id) \in 1 .. IdSpace
  <2>1. SUFFICES ASSUME NEW i \in 1 .. Len(inbox)
                 PROVE  /\ Age(inbox[i].id)' = Age(inbox[i].id) + 1
                        /\ Age(inbox[i].id)' > 1
                        /\ Age(inbox[i].id)' <= Outstanding'
                        /\ Age(inbox[i].id) \in 1 .. IdSpace
    OBVIOUS
  <2>2. PICK id \in Ids : inbox[i].id = id
    BY <1>7
  <2>3. Age(id) <= Outstanding
    BY <1>1, <2>2 DEF AgesBounded
  <2>4. Age(inbox[i].id)' = Age(id)'
    BY <1>1, <2>2 DEF Age
  <2> QED BY <1>13, <1>14, <2>2, <2>3, <2>4
<1>16. ASSUME NEW j \in 1 .. Len(wire)
       PROVE  /\ Age(wire[j].id)' = Age(wire[j].id) + 1
              /\ Age(wire[j].id)' > 1
              /\ Age(wire[j].id)' <= Outstanding'
              /\ Age(wire[j].id) \in 1 .. IdSpace
  <2>1. PICK id \in Ids : wire[j].id = id
    BY <1>7
  <2>2. Age(id) <= Outstanding
    BY <1>1, <2>1 DEF AgesBounded
  <2>3. Age(wire[j].id)' = Age(id)'
    BY <1>9, <2>1 DEF Age
  <2> QED BY <1>13, <1>14, <2>1, <2>2, <2>3
<1>17. \A n : n = Len(wire) + 1 => Age(wire[n].id)' = 1
  <2>1. PICK id \in Ids : id = next_id
    BY <1>7
  <2>2. Age(id)' = 1
    BY <1>10, <2>1
  <2>3. \A n : n = Len(wire) + 1 => Age(wire[n].id)' = Age(id)'
    BY <1>8, <1>9, <2>1 DEF Age
  <2> QED BY <2>2, <2>3
<1>18. InOrder'
  <2>1. ASSUME NEW i \in 1 .. Len(inbox), NEW j \in 1 .. Len(inbox), i < j
        PROVE  Age(inbox[i].id)' > Age(inbox[j].id)'
    <3>1. Age(inbox[i].id) > Age(inbox[j].id)
      BY <1>1, <2>1 DEF InOrder
    <3> QED BY <1>15, <3>1
  <2>2. ASSUME NEW i \in 1 .. Len(wire'), NEW j \in 1 .. Len(wire'), i < j
        PROVE  Age(wire[i].id)' > Age(wire[j].id)'
    <3>1. i \in 1 .. Len(wire)
      BY <1>7, <1>9, <2>2
    <3>2. CASE j \in 1 .. Len(wire)
      <4>1. Age(wire[i].id) > Age(wire[j].id)
        BY <1>1, <2>2, <3>1, <3>2 DEF InOrder
      <4> QED BY <1>16, <3>1, <3>2, <4>1
    <3>3. CASE j = Len(wire) + 1
      BY <1>16, <1>17, <3>1, <3>3
    <3> QED BY <1>9, <3>2, <3>3
  <2>3. ASSUME NEW i \in 1 .. Len(inbox), NEW j \in 1 .. Len(wire')
        PROVE  Age(inbox[i].id)' > Age(wire[j].id)'
    <3>1. CASE j \in 1 .. Len(wire)
      <4>1. Age(inbox[i].id) > Age(wire[j].id)
        BY <1>1, <3>1 DEF InOrder
      <4> QED BY <1>15, <1>16, <3>1, <4>1
    <3>2. CASE j = Len(wire) + 1
      BY <1>15, <1>17, <3>2
    <3> QED BY <1>9, <3>1, <3>2
  <2> QED BY <1>1, <2>1, <2>2, <2>3 DEF InOrder
<1>19. AgesBounded'
  <2>1. 1 <= Outstanding'
    BY <1>7, <1>12
  <2> QED BY <1>1, <1>9, <1>15, <1>16, <1>17, <2>1 DEF AgesBounded
<1>20. Age(sent_id)' = 1
  <2>1. PICK id \in Ids : id = next_id
    BY <1>7
  <2> QED BY <1>1, <1>10, <2>1 DEF Age
<1>21. /\ \A i \in 1 .. Len(inbox) : inbox[i].id # sent_id'
       /\ \A j \in 1 .. Len(wire) : wire[j].id # sent_id'
  <2>1. ASSUME NEW i \in 1 .. Len(inbox), inbox[i].id = sent_id' PROVE FALSE
    <3>1. Age(inbox[i].id)' = Age(sent_id)'
      BY <1>1, <2>1 DEF Age
    <3> QED BY <1>15, <1>20, <3>1
  <2>2. ASSUME NEW j \in 1 .. Len(wire), wire[j].id = sent_id' PROVE FALSE
    <3>1. Age(wire[j].id)' = Age(sent_id)'
      BY <1>9, <2>2 DEF Age
    <3> QED BY <1>16, <1>20, <3>1
  <2> QED BY <2>1, <2>2
<1>22. Channel'
  <2>1. \A j \in 1 .. Len(wire') : wire'[j].id = sent_id' => wire'[j].request = Request[pc[a]]
    BY <1>4, <1>5, <1>8, <1>9, <1>21
  <2> QED BY <1>1, <1>20, <2>1 DEF Channel
<1>23. Leaving' <=> Leaving
  BY <1>1 DEF Leaving
<1>24. r = "release" => a = "thread" /\ ~shutdown /\ ~Leaving
  BY <1>1, <1>2, <1>3, <1>4, <1>6 DEF MonitorSteps, Leaving
<1>25. r = "off" => Asserted(a)
  BY <1>4, <1>6 DEF Asserted
<1>26. \A x : Ahead(x)' <=> Ahead(x) \/ x = r
  <2>1. \A n \in 1 .. Len(wire') : Req(n)' = wire'[n].request
    BY DEF Req
  <2> QED BY <1>7, <1>8, <1>9, <2>1 DEF Ahead, Req
<1>27. Phases'
  <2>1. r = "off" => NoRelease
    BY <1>1, <1>25, AssertedEnds
  <2>2. NoRelease' <=> NoRelease
    BY <1>1, <1>23 DEF NoRelease
  <2> QED BY <1>1, <1>26, <2>1, <2>2 DEF Phases
<1>28. Powered'
  <2>1. nrst \/ Ahead("release")' => rail
    BY <1>1, <1>4, <1>6, <1>24, <1>26 DEF Powered
  <2> QED BY <1>1, <1>21, <2>1 DEF Powered
<1>29. TakenDown'
  <2>1. ASSUME NEW n \in 1 .. Len(wire'), Req(n)' = "off"
        PROVE  /\ Low(wire', nrst, "release", "assert", n)
               /\ \A m \in n .. Len(wire') : Req(m)' # "release"
    <3>1. NoRelease
      <4>1. Ahead("off")'
        BY <2>1 DEF Ahead
      <4>2. NoRelease' <=> NoRelease
        BY <1>1, <1>23 DEF NoRelease
      <4> QED BY <1>27, <4>1, <4>2 DEF Phases
    <3>2. r # "release"
      BY <1>24, <3>1 DEF NoRelease
    <3>3. Req(n)' = wire'[n].request
      BY DEF Req
    <3>4. CASE n \in 1 .. Len(wire)
      <4>1. Req(n) = "off"
        BY <1>9, <2>1, <3>3, <3>4 DEF Req
      <4>2. /\ Low(wire, nrst, "release", "assert", n)
            /\ \A m \in n .. Len(wire) : Req(m) # "release"
        BY <1>1, <3>4, <4>1 DEF TakenDown
      <4>3. \A m \in 1 .. n - 1 : m \in 1 .. Len(wire) /\ wire'[m] = wire[m]
        BY <1>7, <1>9, <3>4
      <4>4. \A m \in 1 .. n - 1 : \A l \in m + 1 .. n - 1 : l \in 1 .. n - 1
        BY <1>7, <3>4
      <4>5. Low(wire', nrst, "release", "assert", n)
        BY <4>2, <4>3, <4>4 DEF Low
      <4>6. ASSUME NEW m \in n .. Len(wire') PROVE Req(m)' # "release"
        <5>1. CASE m \in n .. Len(wire)
          <6>1. m \in 1 .. Len(wire)
            BY <3>4, <5>1
          <6> QED BY <1>9, <4>2, <5>1, <6>1 DEF Req
        <5>2. CASE m = Len(wire) + 1
          BY <1>8, <1>9, <3>2, <5>2 DEF Req
        <5> QED BY <1>7, <1>9, <3>4, <5>1, <5>2
      <4> QED BY <4>5, <4>6
    <3>5. CASE n = Len(wire) + 1
      <4>1. r = "off"
        BY <1>8, <1>9, <2>1, <3>3, <3>5
      <4>2. Low(wire, nrst, "release", "assert", Len(wire) + 1)
        BY <1>1, <1>25, <4>1 DEF TakenDown
      <4>3. \A m \in 1 .. n - 1 : m \in 1 .. Len(wire) /\ wire'[m] = wire[m]
        BY <1>7, <1>9, <3>5
      <4>4. \A m \in 1 .. n - 1 : \A l \in m + 1 .. n - 1 : l \in 1 .. n - 1
        BY <1>7, <3>5
      <4>5. Low(wire', nrst, "release", "assert", n)
        BY <3>5, <4>2, <4>3, <4>4 DEF Low
      <4>6. \A m \in n .. Len(wire') : m = n
        BY <1>7, <1>9, <3>5
      <4> QED BY <2>1, <4>5, <4>6
    <3> QED BY <1>9, <3>4, <3>5
  <2>2. ASSUME NEW b \in Task, Asserted(b)'
        PROVE  Low(wire', nrst, "release", "assert", Len(wire') + 1)
    <3>1. CASE Asserted(b)
      <4>1. NoRelease /\ Low(wire, nrst, "release", "assert", Len(wire) + 1)
        BY <1>1, <3>1, AssertedEnds DEF TakenDown
      <4>2. p.request # "release"
        BY <1>8, <1>24, <4>1 DEF NoRelease
      <4> QED BY <1>1, <1>8, <1>9, <4>1, <4>2, LowAppend
    <3>2. CASE ~Asserted(b)
      <4>1. b = a /\ step = "reset"
        BY <1>1, <1>4, <2>2, <3>2 DEF Asserted
      <4>2. p.request = "assert"
        BY <1>6, <1>8, <4>1
      <4> QED BY <1>1, <1>8, <1>9, <4>2, LowAppend
    <3> QED BY <3>1, <3>2
  <2>3. ASSUME Cut' PROVE Low(wire', rail, "on", "off", Len(wire') + 1)
    <3>1. CASE Cut
      <4>1. Low(wire, rail, "on", "off", Len(wire) + 1)
        BY <1>1, <3>1 DEF TakenDown
      <4>2. p.request # "on"
        BY <1>2, <1>3, <1>4, <1>6, <1>8, <3>1 DEF Cut, MonitorSteps
      <4> QED BY <1>1, <1>8, <1>9, <4>1, <4>2, LowAppend
    <3>2. CASE ~Cut
      <4>1. a = "thread" /\ step = "disable"
        BY <1>1, <1>4, <2>3, <3>2 DEF Cut
      <4>2. p.request = "off"
        BY <1>6, <1>8, <4>1
      <4> QED BY <1>1, <1>8, <1>9, <4>2, LowAppend
    <3> QED BY <3>1, <3>2
  <2> QED BY <1>1, <2>1, <2>2, <2>3 DEF TakenDown
<1> QED BY <1>11, <1>18, <1>19, <1>22, <1>27, <1>28, <1>29 DEF BoardInv

LEMMA FirmwareStep ==
  ASSUME BoardInv, NEW good \in BOOLEAN, NEW lost \in BOOLEAN, Firmware(good, lost)
  PROVE  BoardInv'
<1> DEFINE p == Head(wire)
<1> DEFINE answer == [id |-> p.id, good |-> good]
<1>1. /\ BoardInv /\ TypeOK /\ Tasks /\ InOrder /\ AgesBounded /\ Channel /\ Phases /\ Powered
      /\ TakenDown /\ wire # <<>> /\ wire' = Tail(wire)
      /\ wire \in Seq(Packet) /\ inbox \in Seq(Reply)
      /\ p.request = "readback" => (good = rail)
      /\ rail' = IF p.request \in {"on", "off"} THEN p.request = "on" ELSE rail
      /\ nrst' = IF p.request \in {"assert", "release"} THEN p.request = "release" ELSE nrst
      /\ inbox' = IF lost THEN inbox ELSE Append(inbox, answer)
      /\ UNCHANGED <<pc, holder, sent_id, next_id, late, hot, chain_initialized, bringups, reading,
                    bad_thermal_count, cancelled, released_since, shutdown>>
  BY DEF Firmware, BoardInv, TypeOK, threadVars, monitorVars
<1>2. /\ wire' \in Seq(Packet) /\ Len(wire) \in Nat \ {0} /\ Len(wire') = Len(wire) - 1
      /\ p \in Packet /\ p = wire[1] /\ 1 \in 1 .. Len(wire)
      /\ \A n \in 1 .. Len(wire') : n + 1 \in 1 .. Len(wire) /\ wire'[n] = wire[n + 1]
  BY <1>1
<1>3. /\ next_id \in Ids /\ IdSpace \in Nat /\ Outstanding \in Nat
      /\ \A i \in 1 .. Len(inbox) : inbox[i].id \in Ids
      /\ \A i \in 1 .. Len(wire) : wire[i].id \in Ids
      /\ Len(inbox) \in Nat
  BY <1>1, ChannelTypes
<1>4. answer \in Reply /\ answer.id = wire[1].id /\ answer.good = good
  BY <1>2, <1>3 DEF Reply, Ids
<1>5. p.request = Req(1)
  BY <1>2 DEF Req
<1> HIDE DEF p, answer
<1>6. /\ inbox' \in Seq(Reply)
      /\ \A i \in 1 .. Len(inbox') :
           \/ i \in 1 .. Len(inbox) /\ inbox'[i] = inbox[i]
           \/ i = Len(inbox) + 1 /\ inbox'[i] = answer
  <2>1. CASE lost
    <3>1. inbox' = inbox
      BY <1>1, <2>1
    <3> QED BY <1>1, <3>1
  <2>2. CASE ~lost
    <3>1. inbox' = Append(inbox, answer)
      BY <1>1, <2>2
    <3>2. /\ inbox' \in Seq(Reply) /\ Len(inbox') = Len(inbox) + 1
          /\ inbox'[Len(inbox) + 1] = answer
          /\ \A i \in 1 .. Len(inbox) : inbox'[i] = inbox[i]
      BY <1>1, <1>4, <3>1
    <3>3. \A i \in 1 .. Len(inbox') : i \in 1 .. Len(inbox) \/ i = Len(inbox) + 1
      BY <1>3, <3>2
    <3> QED BY <3>2, <3>3
  <2> QED BY <2>1, <2>2
<1>7. rail' \in BOOLEAN /\ nrst' \in BOOLEAN
  <2>1. rail \in BOOLEAN /\ nrst \in BOOLEAN /\ (p.request = "on") \in BOOLEAN
        /\ (p.request = "release") \in BOOLEAN
    BY <1>1 DEF TypeOK
  <2> QED BY <1>1, <2>1
<1>8. TypeOK' /\ Tasks'
  BY <1>1, <1>2, <1>6, <1>7 DEF TypeOK, Tasks
<1>9. /\ \A x : Age(x)' = Age(x)
      /\ \A i : Age(inbox[i].id)' = Age(inbox'[i].id)
      /\ \A i : Age(wire[i].id)' = Age(wire'[i].id)
      /\ Age(sent_id)' = Age(sent_id)
  BY <1>1 DEF Age
<1>10. InOrder'
  <2>1. ASSUME NEW i \in 1 .. Len(inbox'), NEW j \in 1 .. Len(inbox'), i < j
        PROVE  Age(inbox'[i].id) > Age(inbox'[j].id)
    <3>1. i \in 1 .. Len(inbox) /\ inbox'[i] = inbox[i]
      BY <1>3, <1>6, <2>1
    <3>2. CASE j \in 1 .. Len(inbox) /\ inbox'[j] = inbox[j]
      BY <1>1, <2>1, <3>1, <3>2 DEF InOrder
    <3>3. CASE inbox'[j] = answer
      BY <1>1, <1>2, <1>4, <3>1, <3>3 DEF InOrder
    <3> QED BY <1>6, <3>2, <3>3
  <2>2. ASSUME NEW i \in 1 .. Len(wire'), NEW j \in 1 .. Len(wire'), i < j
        PROVE  Age(wire'[i].id) > Age(wire'[j].id)
    <3>1. i + 1 < j + 1
      BY <2>2, <1>2
    <3> QED BY <1>1, <1>2, <3>1 DEF InOrder
  <2>3. ASSUME NEW i \in 1 .. Len(inbox'), NEW j \in 1 .. Len(wire')
        PROVE  Age(inbox'[i].id) > Age(wire'[j].id)
    <3>1. CASE i \in 1 .. Len(inbox) /\ inbox'[i] = inbox[i]
      BY <1>1, <1>2, <3>1 DEF InOrder
    <3>2. CASE inbox'[i] = answer
      <4>1. 1 < j + 1
        BY <1>2
      <4>2. Age(wire[1].id) > Age(wire[j + 1].id)
        BY <1>1, <1>2, <4>1 DEF InOrder
      <4> QED BY <1>2, <1>4, <3>2, <4>2
    <3> QED BY <1>6, <3>1, <3>2
  <2> QED BY <1>9, <2>1, <2>2, <2>3 DEF InOrder
<1>11. AgesBounded'
  <2>1. Outstanding' = Outstanding
    BY <1>1 DEF Outstanding, Leaving
  <2>2. \A i \in 1 .. Len(inbox') : Age(inbox'[i].id) <= Outstanding
    BY <1>1, <1>2, <1>4, <1>6 DEF AgesBounded
  <2>3. \A j \in 1 .. Len(wire') : Age(wire'[j].id) <= Outstanding
    BY <1>1, <1>2 DEF AgesBounded
  <2> QED BY <1>9, <2>1, <2>2, <2>3 DEF AgesBounded
<1>12. Channel'
  <2>1. ASSUME NEW a \in Task, holder = a
        PROVE  /\ pc[a] \in DOMAIN OnOk[a]
               /\ \A j \in 1 .. Len(wire') :
                    wire'[j].id = sent_id => wire'[j].request = Request[pc[a]]
    BY <1>1, <1>2, <2>1 DEF Channel
  <2>2. holder # "none" => Age(sent_id) = 1
    BY <1>1 DEF Channel
  <2> QED BY <1>1, <1>9, <2>1, <2>2 DEF Channel
<1>13. \A x : Ahead(x)' => Ahead(x)
  <2>1. \A n : Req(n)' = wire'[n].request
    BY DEF Req
  <2> QED BY <1>2, <2>1 DEF Ahead, Req
<1>14. Leaving' = Leaving /\ NoRelease' = NoRelease
  BY <1>1 DEF Leaving, NoRelease
<1>15. Phases'
  BY <1>1, <1>13, <1>14 DEF Phases
<1>16. ASSUME p.request = "off"
       PROVE  ~nrst /\ ~Ahead("release") /\ NoRelease
  <2>1. /\ Low(wire, nrst, "release", "assert", 1)
        /\ \A m \in 1 .. Len(wire) : Req(m) # "release"
    BY <1>1, <1>2, <1>5, <1>16 DEF TakenDown
  <2>2. 1 .. 1 - 1 = {}
    OBVIOUS
  <2>3. Ahead("off")
    BY <1>2, <1>5, <1>16 DEF Ahead
  <2> QED BY <1>1, <2>1, <2>2, <2>3 DEF Low, Ahead, Phases
<1>17. p.request # "off" => (rail => rail')
  BY <1>1
<1>18. p.request = "release" => Ahead("release")
  BY <1>2, <1>5 DEF Ahead
<1>19. Powered'
  <2>1. nrst' \/ Ahead("release")' => rail'
    <3>1. CASE p.request = "off"
      BY <1>1, <1>13, <1>16, <3>1
    <3>2. CASE p.request # "off"
      <4>1. nrst' => nrst \/ Ahead("release")
        BY <1>1, <1>18
      <4>2. nrst \/ Ahead("release") => rail
        BY <1>1 DEF Powered
      <4> QED BY <1>13, <1>17, <3>2, <4>1, <4>2
    <3> QED BY <3>1, <3>2
  <2>2. pc["thread"] = "release" /\ ~shutdown => rail'
    <3>1. SUFFICES ASSUME pc["thread"] = "release", ~shutdown PROVE rail'
      OBVIOUS
    <3>2. ~NoRelease /\ rail
      BY <1>1, <3>1 DEF Powered, NoRelease, Leaving
    <3> QED BY <1>16, <1>17, <3>2
  <2>3. ASSUME pc["thread"] = "readon", holder = "thread", ~shutdown,
               NEW i \in 1 .. Len(inbox'), inbox'[i].id = sent_id, inbox'[i].good
        PROVE  rail'
    <3>1. ~NoRelease
      BY <2>3 DEF NoRelease, Leaving
    <3>2. p.request # "off"
      BY <1>16, <3>1
    <3>3. CASE i \in 1 .. Len(inbox) /\ inbox'[i] = inbox[i]
      BY <1>1, <1>17, <2>3, <3>2, <3>3 DEF Powered
    <3>4. CASE inbox'[i] = answer
      <4>1. wire[1].id = sent_id /\ good
        BY <1>4, <2>3, <3>4
      <4>2. wire[1].request = Request["readon"]
        BY <1>1, <1>2, <2>3, <4>1 DEF Channel, Task
      <4>3. p.request = "readback"
        BY <1>2, <4>2 DEF Request
      <4> QED BY <1>1, <4>1, <4>3
    <3> QED BY <1>6, <3>3, <3>4
  <2> QED BY <1>1, <2>1, <2>2, <2>3 DEF Powered
<1>20. /\ nrst' => Head(wire).request = "release" \/ (nrst /\ Head(wire).request # "assert")
       /\ rail' => Head(wire).request = "on" \/ (rail /\ Head(wire).request # "off")
  BY <1>1 DEF p
<1>21. TakenDown'
  <2>1. ASSUME NEW n \in 1 .. Len(wire'), Req(n)' = "off"
        PROVE  /\ Low(wire', nrst', "release", "assert", n)
               /\ \A m \in n .. Len(wire') : Req(m)' # "release"
    <3>1. n + 1 \in 1 .. Len(wire) /\ Req(n + 1) = "off" /\ n \in 1 .. Len(wire)
      BY <1>2, <2>1 DEF Req
    <3>2. /\ Low(wire, nrst, "release", "assert", n + 1)
          /\ \A m \in n + 1 .. Len(wire) : Req(m) # "release"
      BY <1>1, <3>1 DEF TakenDown
    <3>3. Low(wire', nrst', "release", "assert", n)
      BY <1>1, <1>20, <3>1, <3>2, LowTail
    <3>4. ASSUME NEW m \in n .. Len(wire') PROVE Req(m)' # "release"
      <4>1. m \in 1 .. Len(wire') /\ m + 1 \in n + 1 .. Len(wire)
        BY <1>2
      <4>2. Req(m)' = Req(m + 1)
        BY <1>2, <4>1 DEF Req
      <4> QED BY <3>2, <4>1, <4>2
    <3> QED BY <3>3, <3>4
  <2>2. Len(wire) = Len(wire') + 1 /\ Len(wire) \in 1 .. Len(wire)
    BY <1>2
  <2>3. ASSUME NEW a \in Task, Asserted(a)'
        PROVE  Low(wire', nrst', "release", "assert", Len(wire') + 1)
    <3>1. Asserted(a)
      BY <1>1, <2>3 DEF Asserted
    <3>2. Low(wire, nrst, "release", "assert", Len(wire) + 1)
      BY <1>1, <3>1 DEF TakenDown
    <3>3. Low(wire', nrst', "release", "assert", Len(wire))
      BY <1>1, <1>20, <2>2, <3>2, LowTail
    <3> QED BY <2>2, <3>3
  <2>4. ASSUME Cut' PROVE Low(wire', rail', "on", "off", Len(wire') + 1)
    <3>1. Cut
      BY <1>1, <2>4 DEF Cut
    <3>2. Low(wire, rail, "on", "off", Len(wire) + 1)
      BY <1>1, <3>1 DEF TakenDown
    <3>3. Low(wire', rail', "on", "off", Len(wire))
      BY <1>1, <1>20, <2>2, <3>2, LowTail
    <3> QED BY <2>2, <3>3
  <2> QED BY <2>1, <2>3, <2>4 DEF TakenDown
<1> QED BY <1>8, <1>10, <1>11, <1>12, <1>15, <1>19, <1>21 DEF BoardInv

(* Cancel, Settle and Temperature.                                         *)
LEMMA EnvStep ==
  ASSUME BoardInv, UNCHANGED <<pc, chanVars, rail, nrst, threadVars, reading, bad_thermal_count, shutdown>>,
         hot' \in BOOLEAN, cancelled' \in BOOLEAN,
         released_since' \in {"none", "fresh", "settled"}
  PROVE  BoardInv'
<1>1. /\ UNCHANGED <<pc, holder, sent_id, next_id, wire, inbox, late, rail, nrst, reading,
                    chain_initialized, bringups, bad_thermal_count, shutdown>>
      /\ BoardInv /\ TypeOK /\ Tasks /\ InOrder /\ AgesBounded /\ Channel /\ Phases /\ Powered
      /\ TakenDown
  BY DEF chanVars, threadVars, BoardInv
<1>2. TypeOK' /\ Tasks'
  BY <1>1 DEF TypeOK, Tasks
<1>3. /\ (Leaving' <=> Leaving) /\ (NoRelease' <=> NoRelease)
      /\ \A a \in Task : Asserted(a)' => Asserted(a)
      /\ Cut' => Cut
  BY <1>1 DEF Leaving, Asserted, Cut, NoRelease
<1>4. Outstanding <= Outstanding'
  <2>1. Outstanding' = Outstanding /\ Outstanding \in Nat
    BY <1>1, ChannelTypes DEF Outstanding, Leaving
  <2> QED BY <2>1
<1>5. InOrder' /\ AgesBounded' /\ Channel'
  BY <1>1, <1>2, <1>4, ChannelMove
<1>6. Phases' /\ Powered' /\ TakenDown'
  <2>1. pc'["monitor"] \in {"wait", "reset", "disable", "readoff", "after", "fanlow", "done"}
          => shutdown'
    BY <1>1 DEF Phases
  <2>2. pc'["monitor"] \in {"tick", "temp", "sense", "judge"} => bad_thermal_count' < BadLimit
    BY <1>1 DEF Phases
  <2>3. pc'["thread"] = "release" /\ ~shutdown' => rail
    BY <1>1 DEF Powered
  <2>4. pc'["thread"] = "readon" /\ holder' = "thread" /\ ~shutdown' =>
          \A i \in 1 .. Len(inbox') : inbox'[i].id = sent_id' /\ inbox'[i].good => rail
    BY <1>1 DEF Powered
  <2> QED BY <1>1, <1>3, <2>1, <2>2, <2>3, <2>4, LinesMove
<1> QED BY <1>2, <1>5, <1>6 DEF BoardInv

LEMMA BoardStep == BoardInv /\ [Next]_vars => BoardInv'
<1> SUFFICES ASSUME BoardInv, [Next]_vars PROVE BoardInv'
  OBVIOUS
<1>0. BoardInv /\ TypeOK /\ Phases
  BY DEF BoardInv
<1>1. ASSUME NEW a \in Task, Send(a) PROVE BoardInv'
  BY <1>1, SendStep
<1>2. ASSUME NEW a \in Task, Ends(a) PROVE BoardInv'
  BY <1>2, EndsStep
<1>3. CASE FirmwareNext
  BY <1>3, FirmwareStep DEF FirmwareNext
<1>4. CASE AssignTask
  <2>1. /\ pc["thread"] = "idle" /\ pc' = [pc EXCEPT !["thread"] = "enable"]
        /\ bringups' \in 0 .. MaxBringUps /\ chain_initialized' \in BOOLEAN
    BY <1>0, <1>4, BoundsAreNat DEF AssignTask, ThreadGoes, TypeOK
  <2> QED BY <1>4, <2>1, ThreadGoesStep DEF AssignTask
<1>5. ASSUME NEW ok \in BOOLEAN, ChipsDone(ok) PROVE BoardInv'
  <2>1. /\ pc["thread"] = "chips" /\ pc' = [pc EXCEPT !["thread"] = "idle"]
        /\ bringups' \in 0 .. MaxBringUps /\ chain_initialized' \in BOOLEAN
    BY <1>0, <1>5 DEF ChipsDone, ThreadGoes, TypeOK
  <2> QED BY <1>5, <2>1, ThreadGoesStep DEF ChipsDone
<1>6. CASE AbortBringUp
  BY <1>6, AbortStep
<1>7. CASE Block \/ Unblock \/ ThreadLeaves
  <2>1. /\ bringups' \in 0 .. MaxBringUps /\ chain_initialized' \in BOOLEAN
        /\ UNCHANGED <<chanVars, boardVars, monitorVars, released_since, shutdown>>
    BY <1>0, <1>7 DEF Block, Unblock, ThreadLeaves, threadVars, TypeOK
  <2>2. PICK to \in {"idle", "busy", "reset"} :
          pc["thread"] \in {"idle", "busy"} /\ pc' = [pc EXCEPT !["thread"] = to]
    BY <1>7 DEF Block, Unblock, ThreadLeaves, ThreadGoes
  <2> QED BY <2>1, <2>2, ThreadGoesStep
<1>8. CASE Tick
  <2>1. /\ MonitorGoes("tick", "temp") /\ pc["monitor"] = "tick"
        /\ UNCHANGED <<chanVars, boardVars, threadVars, reading, bad_thermal_count, cancelled,
                      released_since, shutdown>>
    BY <1>8 DEF Tick, MonitorGoes, monitorVars
  <2>2. bad_thermal_count \in 0 .. BadLimit /\ shutdown \in BOOLEAN /\ bad_thermal_count < BadLimit
    BY <1>0, <2>1 DEF TypeOK, Phases
  <2> QED BY <2>1, <2>2, MonitorGoesStep
<1>9. CASE Judge
  <2>1. PICK count : count = CountAfter(released_since = "settled")
    OBVIOUS
  <2>2. /\ pc["monitor"] = "judge" /\ bad_thermal_count' = count
        /\ MonitorGoes("judge", IF count >= BadLimit THEN "fanfull" ELSE "tick")
        /\ UNCHANGED <<chanVars, boardVars, threadVars, reading, cancelled, released_since, shutdown>>
    BY <1>9, <2>1 DEF Judge, MonitorGoes
  <2>3. bad_thermal_count \in 0 .. BadLimit /\ shutdown \in BOOLEAN /\ bad_thermal_count < BadLimit
    BY <1>0, <2>2 DEF TypeOK, Phases
  <2>4. count \in 0 .. BadLimit
    BY <2>1, <2>3, BoundsAreNat DEF CountAfter
  <2>5. CASE count >= BadLimit
    BY <2>2, <2>3, <2>4, <2>5, MonitorGoesStep
  <2>6. CASE ~(count >= BadLimit)
    <3>1. count < BadLimit
      BY <2>4, <2>6, BoundsAreNat
    <3> QED BY <2>2, <2>3, <2>4, <2>6, <3>1, MonitorGoesStep
  <2> QED BY <2>5, <2>6
<1>10. CASE Cancelled
  <2>1. /\ MonitorGoes("tick", "signal")
        /\ UNCHANGED <<chanVars, boardVars, threadVars, reading, bad_thermal_count, cancelled,
                      released_since, shutdown>>
        /\ bad_thermal_count \in 0 .. BadLimit /\ shutdown \in BOOLEAN
    BY <1>0, <1>10 DEF Cancelled, monitorVars, TypeOK
  <2> QED BY <2>1, MonitorGoesStep
<1>11. CASE Signal
  <2>1. /\ MonitorGoes("signal", "wait") /\ shutdown' = TRUE
        /\ UNCHANGED <<chanVars, boardVars, threadVars, reading, bad_thermal_count, cancelled,
                      released_since>>
        /\ bad_thermal_count \in 0 .. BadLimit
    BY <1>0, <1>11 DEF Signal, monitorVars, TypeOK
  <2> QED BY <2>1, MonitorGoesStep
<1>12. CASE WaitOver
  <2>1. /\ MonitorGoes("wait", "reset") /\ pc["monitor"] = "wait"
        /\ UNCHANGED <<chanVars, boardVars, threadVars, reading, bad_thermal_count, cancelled,
                      released_since, shutdown>>
        /\ bad_thermal_count \in 0 .. BadLimit /\ shutdown \in BOOLEAN
    BY <1>0, <1>12 DEF WaitOver, MonitorGoes, monitorVars, TypeOK
  <2>2. shutdown
    BY <1>0, <2>1 DEF Phases
  <2> QED BY <2>1, <2>2, MonitorGoesStep
<1>13. CASE AfterDisable
  <2>1. PICK to \in {"done", "fanlow"} : MonitorGoes("after", to)
    BY <1>13 DEF AfterDisable
  <2>2. /\ pc["monitor"] = "after"
        /\ UNCHANGED <<chanVars, boardVars, threadVars, reading, bad_thermal_count, cancelled,
                      released_since, shutdown>>
        /\ bad_thermal_count \in 0 .. BadLimit /\ shutdown \in BOOLEAN
    BY <1>0, <1>13 DEF AfterDisable, MonitorGoes, monitorVars, TypeOK
  <2>3. shutdown
    BY <1>0, <2>2 DEF Phases
  <2> QED BY <2>1, <2>2, <2>3, MonitorGoesStep
<1>14. CASE EnvNext \/ UNCHANGED vars
  <2>1. /\ UNCHANGED <<pc, chanVars, rail, nrst, threadVars, reading, bad_thermal_count, shutdown>>
        /\ hot' \in BOOLEAN /\ cancelled' \in BOOLEAN
        /\ released_since' \in {"none", "fresh", "settled"}
    <3>1. CASE Cancel
      BY <1>0, <3>1 DEF Cancel, TypeOK, boardVars
    <3>2. CASE Settle
      BY <1>0, <3>2 DEF Settle, TypeOK, boardVars, monitorVars
    <3>3. CASE Temperature
      BY <1>0, <3>3 DEF Temperature, TypeOK, monitorVars
    <3>4. CASE UNCHANGED vars
      BY <1>0, <3>4 DEF vars, TypeOK, boardVars, monitorVars
    <3> QED BY <1>14, <3>1, <3>2, <3>3, <3>4 DEF EnvNext
  <2> QED BY <2>1, EnvStep
<1> QED BY <1>1, <1>2, <1>3, <1>4, <1>5, <1>6, <1>7, <1>8, <1>9, <1>10, <1>11, <1>12, <1>13, <1>14
        DEF Next, ThreadNext, MonitorNext

LEMMA BoardStart == Init => BoardInv
<1> SUFFICES ASSUME Init PROVE BoardInv
  OBVIOUS
<1>1. /\ pc["thread"] = "start" /\ pc["monitor"] = "tick" /\ Tasks
  BY DEF Init, Tasks, Task
<1>2. /\ holder = "none" /\ wire = <<>> /\ inbox = <<>> /\ ~rail /\ ~nrst /\ ~shutdown
      /\ bad_thermal_count = 0 /\ \A S : <<>> \in Seq(S)
  BY DEF Init
<1>3. TypeOK
  <2>1. 0 \in 0 .. IdSpace - 1 /\ 0 \in 0 .. BadLimit /\ 0 \in 0 .. MaxLate /\ 0 \in 0 .. MaxBringUps
    BY IdSpaceFits, BoundsAreNat
  <2>2. /\ sent_id = 0 /\ next_id = 0 /\ late = 0 /\ bringups = 0 /\ hot \in BOOLEAN
        /\ rail \in BOOLEAN /\ nrst \in BOOLEAN /\ shutdown \in BOOLEAN
        /\ released_since = "none" /\ chain_initialized \in BOOLEAN /\ reading \in BOOLEAN
        /\ cancelled \in BOOLEAN
    BY DEF Init
  <2> QED BY <1>1, <1>2, <2>1, <2>2, Tables DEF TypeOK, ThreadSteps
<1>4. 1 .. Len(wire) = {} /\ 1 .. Len(inbox) = {}
  BY <1>2
<1>5. InOrder /\ AgesBounded /\ Channel
  BY <1>2, <1>4 DEF InOrder, AgesBounded, Channel, Task
<1>6. (\A x : ~Ahead(x)) /\ ~Cut /\ \A a \in Task : ~Asserted(a)
  BY <1>1, <1>2, <1>4 DEF Ahead, Cut, Asserted, Task
<1>7. Phases /\ Powered
  BY <1>1, <1>2, <1>6, BoundsAreNat DEF Phases, Powered
<1>8. TakenDown
  BY <1>4, <1>6 DEF TakenDown
<1> QED BY <1>1, <1>3, <1>5, <1>7, <1>8 DEF BoardInv

-----------------------------------------------------------------------------
(* The inductive invariant holds from attach on.                           *)
THEOREM BoardInvariant == Spec => []BoardInv
BY BoardStart, BoardStep, PTL DEF Spec

(* The fields of board, channel, thread and monitor keep their types.      *)
THEOREM BoardTypes == Spec => []TypeOK
<1>1. BoardInv => TypeOK
  BY DEF BoardInv
<1> QED BY <1>1, BoardInvariant, PTL

(* The chips are never out of reset while the core rail is off, though two *)
(* tasks write both lines through a channel that answers late, or not at   *)
(* all, or with the reply to another request.                              *)
THEOREM RailBeforeReleaseCorrect == Spec => []RailBeforeRelease
<1>1. BoardInv => RailBeforeRelease
  BY DEF BoardInv, Powered, RailBeforeRelease
<1> QED BY <1>1, BoardInvariant, PTL

(* When thread and monitor have ended and the firmware has caught up, the  *)
(* rail is off and the chips are in reset.                                 *)
THEOREM SafeWhenOffCorrect == Spec => []SafeWhenOff
<1>1. BoardInv => SafeWhenOff
  <2>1. SUFFICES ASSUME BoardInv, pc["thread"] = "off", wire = <<>> PROVE ~rail /\ ~nrst
    BY DEF SafeWhenOff
  <2>2. Asserted("thread") /\ "thread" \in Task /\ Cut
    BY <2>1 DEF Asserted, Cut, Task
  <2>3. /\ Low(wire, nrst, "release", "assert", Len(wire) + 1)
        /\ Low(wire, rail, "on", "off", Len(wire) + 1)
    BY <2>1, <2>2 DEF BoardInv, TakenDown
  <2>4. 1 .. (Len(wire) + 1) - 1 = {}
    BY <2>1
  <2> QED BY <2>3, <2>4 DEF Low
<1> QED BY <1>1, BoardInvariant, PTL
=============================================================================
