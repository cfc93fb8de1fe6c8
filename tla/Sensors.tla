------------------------------ MODULE Sensors ------------------------------
(***************************************************************************)
(* The temperature and fan sensors (peripheral/emc2101.rs, tmp451.rs,      *)
(* tmp1075.rs) and the emberOne/00 board that powers, polls and shuts down *)
(* two of them (board/emberone00.rs).                                      *)
(*                                                                         *)
(* A reading of two bytes takes two transactions, and the temperature      *)
(* changes between them.  A sensor without power answers anything or       *)
(* nothing.  Temperatures are in sixteenths of a degree Celsius.           *)
(***************************************************************************)
EXTENDS Integers, Sequences

CONSTANTS
  Temperatures,   \* the temperatures in play, in sixteenths
  TachCounts,     \* the counts of the fan's tachometer in play
  MaxChanges      \* bound: changes of what the sensors measure

Celsius == -1024 .. 2031   \* what every sensor can show, up to the EMC2101's fault codes
Word16 == 0 .. 65535

ASSUME SensorRanges ==
  /\ Temperatures \subseteq Celsius /\ Temperatures # {}
  /\ TachCounts \subseteq Word16 /\ MaxChanges \in Nat

-----------------------------------------------------------------------------
(***************************************************************************)
(* What the devices hold in their registers.                               *)
(***************************************************************************)
EmcHigh(t) == (t \div 16) % 256
EmcLow(t)  == 32 * ((t % 16) \div 2)
TmpHigh(t) == IF t < 0 THEN 0 ELSE t \div 16
TmpLow(t)  == IF t < 0 THEN 0 ELSE 16 * (t % 16)
Tmp1075Raw(t) == (16 * t) % 65536

(***************************************************************************)
(* What the drivers make of them; <<>> is an error.                        *)
(***************************************************************************)

external_temperature(high, low) ==
  LET raw == 8 * high + low \div 32
  IN IF raw \in {1016, 1023} THEN <<>>
     ELSE <<2 * (IF raw >= 1024 THEN raw - 2048 ELSE raw)>>

from_high_low(high, low) == <<16 * high + low \div 16>>

from_raw(raw) == <<(IF raw >= 32768 THEN raw - 65536 ELSE raw) \div 16>>

get_rpm(tach) ==
  LET rpm == 5400000 \div tach
  IN IF tach \in {0, 65535} THEN 0 ELSE IF rpm = 82 THEN 0 ELSE rpm

(* set_fan_speed and get_fan_speed: of a duty cycle of at most PWM_MAX.    *)
PWM_MAX == 63
DutyOf(percent) == (percent * PWM_MAX) \div 100
PercentOf(duty) == LET p == (duty * 100) \div PWM_MAX IN IF p > 100 THEN 100 ELSE p

-----------------------------------------------------------------------------
VARIABLES
  temp,        \* the temperature at each sensor
  tach,        \* the fan's tachometer
  changes,
  vddio,       \* VDDIO_EN: the supply of the emberOne's sensors
  board,       \* a Bitaxe: "init", "bitaxe", "ended", or the emberOne: "create", "running",
               \* "stopping", "off"; "failed" for both
  fan,         \* the fan's duty register, and the percentage it was set to
  create_at,   \* the next step of create_from_usb
  poll,        \* each poller: the step it is at, 0 between rounds
  first,       \* the bytes it read first, and the truth at that moment
  shown        \* what it published last: a reading, and that truth

Sites == {"chip", "left", "right", "chip0"}
Pollers == {"fan", "ember"}
measured == <<temp, tach, changes>>
sensorVars == <<measured, vddio, board, fan, create_at, poll, first, shown>>

Unread == [value |-> <<>>, truth |-> 0]

SensorsInit ==
  /\ temp \in [Sites -> {CHOOSE t \in Temperatures : \A u \in Temperatures : t <= u}]
  /\ tach \in TachCounts /\ changes = 0
  /\ vddio = FALSE /\ board \in {"init", "create"} /\ create_at = 1
  /\ fan = [duty |-> 0, set |-> 0]
  /\ poll = [p \in Pollers |-> 0] /\ first = [p \in Pollers |-> <<0, 0>>]
  /\ shown = [s \in Sites \cup {"fan", "speed"} |-> Unread]

(* The measured quantities change.                                         *)
World ==
  /\ changes < MaxChanges /\ changes' = changes + 1
  /\ \/ \E s \in Sites, t \in Temperatures : temp' = [temp EXCEPT ![s] = t] /\ UNCHANGED tach
     \/ \E n \in TachCounts : tach' = n /\ UNCHANGED temp
  /\ UNCHANGED <<vddio, board, fan, create_at, poll, first, shown>>

(* What a byte of an emberOne sensor reads as: anything without power.     *)
Powered(byte) == IF vddio THEN {byte} ELSE {0, 255}

Show(s, value, truth) == shown' = [shown EXCEPT ![s] = [value |-> value, truth |-> truth]]
To(p, n) == poll' = [poll EXCEPT ![p] = n]
Hold(p, byte, truth) == first' = [first EXCEPT ![p] = <<byte, truth>>]

-----------------------------------------------------------------------------
(***************************************************************************)
(* The EMC2101: get_external_temperature, then get_tach_count for get_rpm, *)
(* whose low byte, read first, latches the high one.                       *)
(***************************************************************************)
SetFan(percent) == fan' = [duty |-> DutyOf(percent), set |-> percent]

(* init_fan_controller: the ids are verified, the tachometer enabled and   *)
(* the fan set to full speed; any step may fail.                           *)
FanInit ==
  /\ board = "init"
  /\ \/ board' = "bitaxe" /\ SetFan(100)
     \/ board' = "failed" /\ UNCHANGED fan
  /\ UNCHANGED <<measured, vddio, create_at, poll, first, shown>>

(* The monitor ends: after too many bad readings it leaves the fan at full *)
(* speed, at a shutdown it slows it.  Each write may fail.                 *)
FanSet(percent) ==
  /\ board = "bitaxe" /\ poll["fan"] = 0 /\ board' = "ended"
  /\ SetFan(percent) \/ UNCHANGED fan
  /\ UNCHANGED <<measured, vddio, create_at, poll, first, shown>>

FanFull == FanSet(100)
FanSlow == FanSet(25)

FanTick ==
  /\ board = "bitaxe" /\ poll["fan"] = 0 /\ To("fan", 1)
  /\ UNCHANGED <<measured, vddio, board, fan, create_at, first, shown>>

ReadExternalHigh ==
  /\ poll["fan"] = 1 /\ To("fan", 2)
  /\ Hold("fan", EmcHigh(temp["chip"]), temp["chip"])
  /\ UNCHANGED <<measured, vddio, board, fan, create_at, shown>>

ReadExternalLow ==
  /\ poll["fan"] = 2 /\ To("fan", 3)
  /\ Show("chip", external_temperature(first["fan"][1], EmcLow(temp["chip"])), first["fan"][2])
  /\ UNCHANGED <<measured, vddio, board, fan, create_at, first>>

ReadFanSpeed ==
  /\ poll["fan"] = 3 /\ To("fan", 4)
  /\ Show("speed", <<PercentOf(fan.duty)>>, fan.set)
  /\ UNCHANGED <<measured, vddio, board, fan, create_at, first>>

ReadTachFirst ==
  /\ poll["fan"] = 4 /\ To("fan", 5)
  /\ Hold("fan", tach % 256, tach)
  /\ UNCHANGED <<measured, vddio, board, fan, create_at, shown>>

ReadTachSecond ==
  /\ poll["fan"] = 5 /\ To("fan", 0)
  /\ LET latched_high == first["fan"][2] \div 256
         tach_count == 256 * latched_high + first["fan"][1]
     IN Show("fan", <<get_rpm(tach_count)>>, first["fan"][2])
  /\ UNCHANGED <<measured, vddio, board, fan, create_at, first>>

(* A transaction fails: this quantity is left out of the telemetry.        *)
FanReadFails ==
  /\ poll["fan"] \in 1 .. 5
  /\ LET k == poll["fan"]
     IN /\ To("fan", IF k < 3 THEN 3 ELSE IF k = 3 THEN 4 ELSE 0)
        /\ shown' = [shown EXCEPT ![IF k < 3 THEN "chip" ELSE IF k = 3 THEN "speed" ELSE "fan"] = Unread]
  /\ UNCHANGED <<measured, vddio, board, fan, create_at, first>>

-----------------------------------------------------------------------------
(***************************************************************************)
(* The emberOne/00.                                                        *)
(***************************************************************************)

(* VDDIO on, TMP1075 id, TMP451 id, the remote offset; then the monitor.   *)
CreateStep ==
  /\ board = "create"
  /\ \/ create_at = 1 /\ vddio' = TRUE /\ create_at' = 2 /\ UNCHANGED board
     \/ create_at \in 2 .. 4 /\ create_at' = create_at + 1 /\ UNCHANGED <<vddio, board>>
     \/ create_at = 5 /\ board' = "running" /\ UNCHANGED <<vddio, create_at>>
  /\ UNCHANGED <<measured, fan, poll, first, shown>>

(* A transaction fails or an id is wrong; the supply stays as it is.       *)
CreateFails ==
  /\ board = "create" /\ create_at < 5 /\ board' = "failed"
  /\ UNCHANGED <<measured, vddio, fan, create_at, poll, first, shown>>

(* The monitor's ticker, unless it is cancelled.                           *)
EmberTick ==
  /\ board = "running" /\ poll["ember"] = 0 /\ To("ember", 1)
  /\ UNCHANGED <<measured, vddio, board, fan, create_at, first, shown>>

ReadLeft ==
  /\ poll["ember"] = 1 /\ To("ember", 2)
  /\ \E raw \in IF vddio THEN {Tmp1075Raw(temp["left"])} ELSE {0, 65535} :
       Show("left", from_raw(raw), temp["left"])
  /\ UNCHANGED <<measured, vddio, board, fan, create_at, first>>

ReadRightHigh ==
  /\ poll["ember"] = 2 /\ To("ember", 3)
  /\ \E byte \in Powered(TmpHigh(temp["right"])) : Hold("ember", byte, temp["right"])
  /\ UNCHANGED <<measured, vddio, board, fan, create_at, shown>>

ReadRightLow ==
  /\ poll["ember"] = 3 /\ To("ember", 4)
  /\ \E byte \in Powered(TmpLow(temp["right"])) :
       Show("right", from_high_low(first["ember"][1], byte), first["ember"][2])
  /\ UNCHANGED <<measured, vddio, board, fan, create_at, first>>

(* read_remote: the status register first; an open diode is an error.      *)
ReadRemoteHigh ==
  /\ poll["ember"] = 4 /\ To("ember", 5)
  /\ \E byte \in Powered(TmpHigh(temp["chip0"])) : Hold("ember", byte, temp["chip0"])
  /\ UNCHANGED <<measured, vddio, board, fan, create_at, shown>>

ReadRemoteLow ==
  /\ poll["ember"] = 5 /\ To("ember", 0)
  /\ \E byte \in Powered(TmpLow(temp["chip0"])) :
       Show("chip0", from_high_low(first["ember"][1], byte), first["ember"][2])
  /\ UNCHANGED <<measured, vddio, board, fan, create_at, first>>

EmberReadFails ==
  /\ poll["ember"] \in 1 .. 5
  /\ LET k == poll["ember"]
     IN /\ To("ember", IF k = 1 THEN 2 ELSE IF k < 4 THEN 4 ELSE 0)
        /\ shown' = [shown EXCEPT ![IF k = 1 THEN "left" ELSE IF k < 4 THEN "right" ELSE "chip0"] = Unread]
  /\ UNCHANGED <<measured, vddio, board, fan, create_at, first>>

(* shutdown: cancel the monitor and await it, VDDIO off, LED off, reboot.  *)
EmberShutdown ==
  /\ board = "running" /\ board' = "stopping"
  /\ UNCHANGED <<measured, vddio, fan, create_at, poll, first, shown>>

(* Mutant: the supply goes off without waiting for the monitor.            *)
PowerOff_early ==
  /\ board = "stopping" /\ board' = "off"
  /\ vddio' = FALSE
  /\ UNCHANGED <<measured, fan, create_at, poll, first, shown>>

(* The write that turns the supply off may fail, which is ignored.         *)
PowerOff ==
  /\ board = "stopping" /\ poll["ember"] = 0 /\ board' = "off"
  /\ vddio' \in BOOLEAN
  /\ UNCHANGED <<measured, fan, create_at, poll, first, shown>>

SensorsNext ==
  \/ World
  \/ FanInit
  \/ FanFull
  \/ FanSlow
  \/ FanTick
  \/ ReadExternalHigh
  \/ ReadExternalLow
  \/ ReadFanSpeed
  \/ ReadTachFirst
  \/ ReadTachSecond
  \/ FanReadFails
  \/ CreateStep
  \/ CreateFails
  \/ EmberTick
  \/ ReadLeft
  \/ ReadRightHigh
  \/ ReadRightLow
  \/ ReadRemoteHigh
  \/ ReadRemoteLow
  \/ EmberReadFails
  \/ EmberShutdown
  \/ PowerOff

SensorsSpec == SensorsInit /\ [][SensorsNext]_sensorVars

-----------------------------------------------------------------------------
(***************************************************************************)
(* Properties.                                                             *)
(***************************************************************************)

(* A published reading is true: less than a degree from the temperature at *)
(* the moment its first byte was read, however much it changed before the  *)
(* second; the TMP451 shows 0 below freezing; the fan's speed belongs to   *)
(* one count of the tachometer, its duty is within 2 % of the one that     *)
(* was set; and nothing is read from a sensor whose supply the shutdown    *)
(* has cut.                                                                *)
ReadingsTrue ==
  /\ \A s \in {"chip", "left"} :
       shown[s].value # <<>> => shown[s].value[1] - shown[s].truth \in -15 .. 15
  /\ \A s \in {"right", "chip0"} :
       shown[s].value # <<>> =>
         IF shown[s].truth < 0 THEN shown[s].value[1] \in 0 .. 15
         ELSE shown[s].value[1] - shown[s].truth \in -15 .. 15
  /\ shown["fan"].value # <<>> => shown["fan"].value[1] = get_rpm(shown["fan"].truth)
  /\ shown["speed"].value # <<>> => shown["speed"].truth - shown["speed"].value[1] \in 0 .. 2
=============================================================================
