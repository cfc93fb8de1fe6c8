----------------------------- MODULE Regulator -----------------------------
(***************************************************************************)
(* The TPS546 driver (peripheral/tps546.rs), the PMBus number formats it   *)
(* writes with (pmbus.rs, pmbus_types.rs), and its two users: the hash     *)
(* thread that switches the rail and the board's monitor that checks it,   *)
(* which share the driver behind a mutex.  The monitor keeps the mutex     *)
(* from check_status over clear_faults to the last of its readings.        *)
(*                                                                         *)
(* The device may trip or warn between any two transactions, and start     *)
(* again on its own where a fault response says so; a transaction may      *)
(* fail, and the device may acknowledge OPERATION and ignore it.           *)
(* Quantities are thousandths of the unit the code holds in an f32.        *)
(***************************************************************************)
EXTENDS Integers, Sequences, FiniteSets

CONSTANTS
  VoutExponents,   \* exponents the device's VOUT_MODE may have
  Raisable,        \* the status flags that the device may raise
  MaxRaised,       \* bound: flags raised
  MaxIgnored,      \* bound: writes of OPERATION that the device ignores
  MaxCommands      \* bound: commands of the hash thread

ASSUME RegulatorCounts ==
  /\ VoutExponents \subseteq -12 .. -4 /\ {MaxRaised, MaxIgnored, MaxCommands} \subseteq Nat

-----------------------------------------------------------------------------
(***************************************************************************)
(* Number formats.  A quantity x stands for x / 1000.                      *)
(***************************************************************************)
RoundDiv(n, d) == (2 * n + d) \div (2 * d)
Distance(a, b) == IF a < b THEN b - a ELSE a - b

(* extract_5bit_exponent, and the sign of an 11-bit mantissa.              *)
extract_5bit_exponent(raw) == IF raw >= 16 THEN raw - 32 ELSE raw
SignedMantissa(raw) == IF raw >= 1024 THEN raw - 2048 ELSE raw

Up(e)   == IF e < 0 THEN 2 ^ (-e) ELSE 1   \* 2^e as the fraction Down / Up
Down(e) == IF e < 0 THEN 1 ELSE 2 ^ e

(* linear11::from_float: the first exponent with the least error.          *)
Fits(x, e) == IF e < 0 THEN x <= 1023999 \div Up(e) ELSE x \div Down(e) < 1024000
MantissaOf(x, e) == RoundDiv(x * Up(e), 1000 * Down(e))
ErrorOf(x, e) == Distance(MantissaOf(x, e) * Down(e) * 1000, x * Up(e))

from_float(x) ==
  IF x = 0 THEN [exp |-> 0, mant |-> 0]
  ELSE LET fitting == {e \in -16 .. 15 : Fits(x, e)}
           Cheaper(e, f) == ErrorOf(x, e) * Up(f) < ErrorOf(x, f) * Up(e)
           best == IF fitting = {} THEN 0
                   ELSE CHOOSE e \in fitting :
                          \A f \in fitting : ~Cheaper(f, e) /\ (~Cheaper(e, f) => e <= f)
       IN [exp |-> best % 32, mant |-> MantissaOf(x, best) % 2048]

(* The distance of what linear11::to_float makes of a register from x, in  *)
(* units of a thousandth of a step.                                        *)
Linear11Error(raw, x) ==
  LET e == extract_5bit_exponent(raw.exp)
  IN Distance(SignedMantissa(raw.mant) * 1000 * Down(e), x * Up(e))

(* VoutMode::encode_linear16; <<>> when it is out of range.                *)
encode_linear16(x, exponent) ==
  LET mantissa == RoundDiv(x * Up(exponent), 1000 * Down(exponent))
  IN IF mantissa > 65535 THEN <<>> ELSE <<mantissa>>

-----------------------------------------------------------------------------
(***************************************************************************)
(* The configuration of the Bitaxe's core rail, in the order of            *)
(* write_config.  VIN_UV_WARN_LIMIT is 0, and write_config skips it.       *)
(***************************************************************************)
L11(reg, x) == [reg |-> reg, format |-> "linear11", value |-> x]
L16(reg, x) == [reg |-> reg, format |-> "linear16", value |-> x]
Byte(reg, x) == [reg |-> reg, format |-> "raw", value |-> x]

config ==
  << Byte("PHASE", 0), L11("FREQUENCY_SWITCH", 650000), L11("VIN_UV_WARN_LIMIT", 0),
     L11("VIN_ON", 4800), L11("VIN_OFF", 4500), L11("VIN_OV_FAULT_LIMIT", 6500),
     Byte("VIN_OV_FAULT_RESPONSE", 183), L11("VOUT_SCALE_LOOP", 250),
     L16("VOUT_COMMAND", 1150), L16("VOUT_MAX", 2000), L16("VOUT_MIN", 1000),
     L16("VOUT_OV_FAULT_LIMIT", 1250), L16("VOUT_OV_WARN_LIMIT", 1160),
     L16("VOUT_MARGIN_HIGH", 1100), L16("VOUT_MARGIN_LOW", 900),
     L16("VOUT_UV_WARN_LIMIT", 900), L16("VOUT_UV_FAULT_LIMIT", 750),
     L11("IOUT_OC_WARN_LIMIT", 25000), L11("IOUT_OC_FAULT_LIMIT", 30000),
     Byte("IOUT_OC_FAULT_RESPONSE", 192), L11("OT_WARN_LIMIT", 105000),
     L11("OT_FAULT_LIMIT", 145000), Byte("OT_FAULT_RESPONSE", 255),
     L11("TON_DELAY", 0), L11("TON_RISE", 3000), L11("TON_MAX_FAULT_LIMIT", 0),
     Byte("TON_MAX_FAULT_RESPONSE", 59), L11("TOFF_DELAY", 0), L11("TOFF_FALL", 0),
     Byte("PIN_DETECT_OVERRIDE", 65535) >>

AllPhases == 255   \* what get_iout writes into PHASE

(* The positions of the settings that write_config writes.                 *)
write_config ==
  {k \in DOMAIN config : config[k].reg # "VIN_UV_WARN_LIMIT" \/ config[k].value > 0}

Setting(reg) == config[CHOOSE k \in DOMAIN config : config[k].reg = reg].value

Encoded(w, exponent) ==
  CASE w.format = "linear11" -> <<from_float(w.value)>>
    [] w.format = "linear16" -> encode_linear16(w.value, exponent)
    [] OTHER -> <<w.value>>

EncodedConfig ==
  [e \in VoutExponents |-> [k \in DOMAIN config |-> Encoded(config[k], e)]]

-----------------------------------------------------------------------------
(***************************************************************************)
(* Status registers.                                                       *)
(***************************************************************************)
Groups == {"VOUT", "IOUT", "INPUT", "TEMP", "CML"}

Flags ==
  [VOUT  |-> {"VOUT_OV_FAULT", "VOUT_OV_WARN", "VOUT_UV_WARN", "VOUT_UV_FAULT", "VOUT_MAX",
              "TON_MAX_FAULT", "VOUT_MIN"},
   IOUT  |-> {"IOUT_OC_FAULT", "IOUT_OC_LV_FAULT", "IOUT_OC_WARN", "IOUT_UC_FAULT",
              "CURR_SHARE_FAULT", "IN_PWR_LIM", "POUT_OP_FAULT", "POUT_OP_WARN"},
   INPUT |-> {"VIN_OV_FAULT", "VIN_OV_WARN", "VIN_UV_WARN", "VIN_UV_FAULT",
              "UNIT_OFF_VIN_LOW", "IIN_OC_FAULT", "IIN_OC_WARN", "PIN_OP_WARN"},
   TEMP  |-> {"OT_FAULT", "OT_WARN", "UT_WARN", "UT_FAULT"},
   CML   |-> {"INVALID_CMD", "INVALID_DATA", "PEC_FAULT", "MEMORY_FAULT", "PROCESSOR_FAULT",
              "OTHER_COMM_FAULT", "OTHER_MEM_LOGIC"}]

(* What check_status treats as critical; a CML fault always is.            *)
Critical ==
  [VOUT  |-> {"VOUT_OV_FAULT", "VOUT_UV_FAULT"},
   IOUT  |-> {"IOUT_OC_FAULT"},
   INPUT |-> {"UNIT_OFF_VIN_LOW", "VIN_UV_FAULT", "VIN_OV_FAULT"},
   TEMP  |-> {"OT_FAULT"},
   CML   |-> Flags["CML"]]

-----------------------------------------------------------------------------
VARIABLES
  mode,          \* the exponent in the device's VOUT_MODE
  cached_vout_mode,
  regs,          \* the configuration registers that this driver wrote, with their values
  operation,     \* the OPERATION register
  output,        \* whether the rail is really on
  latched,       \* the status flags that are set
  raised, ignored, commands,
  stage,         \* "init", "share" or "failed"
  init_at,       \* the next transaction of init and what follows it
  lock,          \* who holds the driver: "none", "thread" or "monitor"
  ask,           \* the thread's command and whether its write failed
  enabled_ok,    \* the last enable returned Ok, and no disable was asked since
  status_word,   \* STATUS_WORD as check_status read it
  unread,        \* groups whose detail it still has to read
  critical_faults,
  report,        \* check_status of this monitor_tick: "none", "running", or its result
  tick,          \* what monitor_tick does with the driver after it: "none", "clear" or "reads"
  bad_before, bad_during  \* history: a critical condition when this check began, and during it

deviceVars == <<mode, regs, operation, output, latched, raised, ignored>>
checkVars == <<status_word, unread, critical_faults, report, tick, bad_before, bad_during>>
switchVars == <<ask, enabled_ok, commands>>
regulatorVars == <<deviceVars, checkVars, switchVars, cached_vout_mode, stage, init_at, lock>>

(* A restarted daemon may find the rail on, or faults from before.         *)
RegulatorInit ==
  /\ mode \in VoutExponents /\ cached_vout_mode = <<>> /\ regs = [r \in {} |-> 0]
  /\ operation \in {"off", "on"} /\ output = (operation = "on") /\ latched = {}
  /\ raised = 0 /\ ignored = 0 /\ commands = 0
  /\ stage = "init" /\ init_at = 1 /\ lock = "none"
  /\ ask = "none" /\ enabled_ok = FALSE
  /\ status_word = {} /\ unread = {} /\ critical_faults = {} /\ report = "none"
  /\ tick = "none"
  /\ bad_before = FALSE /\ bad_during = FALSE

GroupSet(g) == latched \cap Flags[g] # {}
IsBad == (\E g \in Groups : latched \cap Critical[g] # {}) \/ (operation = "on" /\ ~output)

(* The registers after a write.                                            *)
Wrote(reg, value) ==
  [r \in DOMAIN regs \cup {reg} |-> IF r = reg THEN value ELSE regs[r]]

(* get_iout selects all phases to read their sum, and leaves it so.        *)
get_iout == regs' \in {regs, Wrote("PHASE", AllPhases)}

(* A write of OPERATION: the rail follows it, or the device ignores it.    *)
WriteOperation(op) ==
  \/ operation' = op /\ output' = (op = "on") /\ UNCHANGED ignored
  \/ ignored < MaxIgnored /\ ignored' = ignored + 1 /\ UNCHANGED <<operation, output>>

-----------------------------------------------------------------------------
(* verify_device_id, OPERATION off, ON_OFF_CONFIG, VOUT_MODE.              *)
InitStart ==
  /\ stage = "init" /\ init_at = 1 /\ init_at' = 2
  /\ WriteOperation("off")
  /\ UNCHANGED <<mode, regs, latched, raised, checkVars, switchVars, cached_vout_mode, stage, lock>>

(* One setting of write_config; get_vout_mode reads the mode the first     *)
(* time.                                                                   *)
WriteConfig ==
  /\ stage = "init" /\ init_at - 1 \in DOMAIN config
  /\ LET w == config[init_at - 1]
         exponent == IF cached_vout_mode = <<>> THEN mode ELSE cached_vout_mode[1]
         raw == EncodedConfig[exponent][init_at - 1]
     IN \/ /\ init_at - 1 \notin write_config
           /\ init_at' = init_at + 1 /\ UNCHANGED <<cached_vout_mode, regs, stage>>
        \/ /\ init_at - 1 \in write_config
           /\ cached_vout_mode' = IF w.format = "linear16" THEN <<exponent>> ELSE cached_vout_mode
           /\ IF raw = <<>> THEN stage' = "failed" /\ UNCHANGED <<regs, init_at>>
              ELSE /\ regs' = Wrote(w.reg, raw[1])
                   /\ init_at' = init_at + 1 /\ UNCHANGED stage
  /\ UNCHANGED <<mode, operation, output, latched, raised, ignored, checkVars, switchVars, lock>>

set_vout_target_ok(voltage) == Setting("VOUT_MIN") <= voltage /\ voltage <= Setting("VOUT_MAX")
clear_faults == latched' = {}

(* It reads every register and logs it; its failure is a warning.          *)
dump_configuration == UNCHANGED <<mode, regs, operation, output>>

(* STATUS_WORD is only logged; then init_power_controller goes on.         *)
InitEnd ==
  /\ stage = "init" /\ init_at = Len(config) + 2
  /\ set_vout_target_ok(Setting("VOUT_COMMAND"))
  /\ clear_faults
  /\ dump_configuration
  /\ stage' = "share"
  /\ UNCHANGED <<raised, ignored, checkVars, switchVars,
                 cached_vout_mode, init_at, lock>>

(* Mutant: a failed transaction of init is only logged.                    *)
InitFails_goes_on ==
  /\ stage = "init" /\ stage' = "share"
  /\ UNCHANGED <<deviceVars, checkVars, switchVars, cached_vout_mode, init_at, lock>>

(* Any of these transactions fails, or the device is not a TPS546.         *)
InitFails ==
  /\ stage = "init" /\ stage' = "failed"
  /\ UNCHANGED <<deviceVars, checkVars, switchVars, cached_vout_mode, init_at, lock>>

-----------------------------------------------------------------------------
(* The hash thread: enable_output or disable_output, and the readback.     *)
ThreadWrites(op) ==
  /\ stage = "share" /\ lock = "none" /\ commands < MaxCommands
  /\ lock' = "thread" /\ commands' = commands + 1
  /\ enabled_ok' = FALSE
  /\ \/ ask' = op /\ WriteOperation(op)
     \/ ask' = "error" /\ UNCHANGED <<operation, output, ignored>>
  /\ UNCHANGED <<mode, regs, latched, raised, checkVars, cached_vout_mode, stage, init_at>>

ThreadReadsBack ==
  /\ lock = "thread" /\ lock' = "none" /\ ask' = "none"
  /\ \/ enabled_ok' = (ask = "on" /\ operation = "on")
     \/ enabled_ok' = FALSE                         \* a transaction failed
  /\ UNCHANGED <<deviceVars, checkVars, commands, cached_vout_mode, stage, init_at>>

-----------------------------------------------------------------------------
(* The monitor: check_status, clear_faults when it returned an error of    *)
(* whatever kind, and the readings.                                        *)

CheckStarts ==
  /\ stage = "share" /\ lock = "none" /\ lock' = "monitor"
  /\ bad_before' = IsBad /\ bad_during' = IsBad
  /\ status_word' = {g \in Groups : GroupSet(g)} \cup (IF output THEN {} ELSE {"OFF"})
  /\ unread' = {g \in Groups : GroupSet(g)} /\ critical_faults' = {} /\ report' = "running"
  /\ UNCHANGED <<deviceVars, switchVars, tick, cached_vout_mode, stage, init_at>>

(* The details are read in the order VOUT, IOUT, INPUT, TEMP, CML, of      *)
(* which the result does not depend.                                       *)
ReadDetail ==
  /\ report = "running"
  /\ \E g \in unread :
       /\ unread' = unread \ {g}
       /\ critical_faults' = IF latched \cap Critical[g] # {} THEN critical_faults \cup {g}
                             ELSE critical_faults
  /\ UNCHANGED <<deviceVars, switchVars, status_word, report, tick, bad_before, bad_during,
                 cached_vout_mode, stage, init_at, lock>>

(* check_status returns.                                                   *)
CheckReturns(result) ==
  /\ report' = result /\ tick' = (IF result = "ok" THEN "reads" ELSE "clear")
  /\ status_word' = {} /\ unread' = {} /\ critical_faults' = {}

(* Mutant: OFF is a fault whatever OPERATION says.                         *)
CheckEnds_always_off ==
  /\ report = "running" /\ unread = {}
  /\ CheckReturns(IF critical_faults # {} \/ "OFF" \in status_word THEN "fault" ELSE "ok")
  /\ UNCHANGED <<deviceVars, switchVars, bad_before, bad_during, cached_vout_mode, stage,
                 init_at, lock>>

(* OFF is a fault only while OPERATION is on; then everything is read once *)
(* more for the log.                                                       *)
CheckEnds ==
  /\ report = "running" /\ unread = {}
  /\ LET tripped == "OFF" \in status_word /\ operation = "on"
     IN /\ CheckReturns(IF critical_faults # {} \/ tripped THEN "fault" ELSE "ok")
        /\ IF tripped THEN get_iout ELSE UNCHANGED regs
  /\ UNCHANGED <<mode, operation, output, latched, raised, ignored, switchVars, bad_before,
                 bad_during, cached_vout_mode, stage, init_at, lock>>

(* A transaction of check_status fails.                                    *)
CheckFails ==
  /\ report = "running"
  /\ CheckReturns("error")
  /\ UNCHANGED <<deviceVars, switchVars, bad_before, bad_during, cached_vout_mode, stage,
                 init_at, lock>>

(* monitor_tick after an error; if this write fails too it is only logged. *)
(* It does not switch a tripped rail on.                                   *)
ClearsFaults ==
  /\ tick = "clear" /\ tick' = "reads"
  /\ clear_faults \/ UNCHANGED latched
  /\ UNCHANGED <<mode, regs, operation, output, raised, ignored, switchVars, status_word, unread,
                 critical_faults, report, bad_before, bad_during, cached_vout_mode, stage,
                 init_at, lock>>

(* get_vin to get_temperature; get_power calls get_iout once more.         *)
ReadsPower ==
  /\ tick = "reads" /\ tick' = "none" /\ lock' = "none"
  /\ get_iout
  /\ report' = "none" /\ bad_before' = FALSE /\ bad_during' = FALSE
  /\ UNCHANGED <<mode, operation, output, latched, raised, ignored, switchVars, status_word,
                 unread, critical_faults, cached_vout_mode, stage, init_at>>

-----------------------------------------------------------------------------
(* The device raises a flag; a critical one may shut the rail off.         *)
DeviceRaises ==
  /\ raised < MaxRaised /\ raised' = raised + 1
  /\ \E f \in Raisable : latched' = latched \cup {f}
  /\ output' \in {output, FALSE}
  /\ UNCHANGED <<mode, regs, operation, ignored, switchVars, status_word, unread, critical_faults,
                 report, tick, bad_before, cached_vout_mode, stage, init_at, lock>>
  /\ bad_during' = (bad_during \/ (report = "running" /\ IsBad'))

(* The device starts again after a fault whose response says so.           *)
DeviceRetries ==
  /\ operation = "on" /\ ~output /\ output' = TRUE
  /\ UNCHANGED <<mode, regs, operation, latched, raised, ignored, switchVars, checkVars,
                 cached_vout_mode, stage, init_at, lock>>

RegulatorNext ==
  \/ InitStart
  \/ WriteConfig
  \/ InitEnd
  \/ InitFails
  \/ \E op \in {"on", "off"} : ThreadWrites(op)
  \/ ThreadReadsBack
  \/ CheckStarts
  \/ ReadDetail
  \/ CheckEnds
  \/ CheckFails
  \/ ClearsFaults
  \/ ReadsPower
  \/ DeviceRaises
  \/ DeviceRetries

RegulatorSpec == RegulatorInit /\ [][RegulatorNext]_regulatorVars

-----------------------------------------------------------------------------
(***************************************************************************)
(* Properties.                                                             *)
(***************************************************************************)

(* check_status tells the truth about the rail: it never passes over a     *)
(* critical condition that was there when it began, also a rail that is    *)
(* still off because of a fault whose flags monitor_tick cleared after an  *)
(* earlier check; and what it calls a fault was one while it ran, never a  *)
(* rail that was only switched off.                                        *)
CheckHonest ==
  /\ report = "ok" => ~bad_before
  /\ report = "fault" => bad_during

(* A LINEAR11 register holds x within half a step of its exponent.         *)
HoldsLinear11(raw, x) ==
  2 * Linear11Error(raw, x) <= 1000 * Down(extract_5bit_exponent(raw.exp))

HoldsLinear16(raw, x, exponent) == 2 * Distance(raw * 1000, x * Up(exponent)) <= 1000

(* The register of a setting holds it.  PHASE is the exception: the first  *)
(* get_iout of the monitor selects all phases in it.                       *)
InForce(w) ==
  /\ w.reg \in DOMAIN regs
  /\ w.format = "linear11" => HoldsLinear11(regs[w.reg], w.value)
  /\ w.format = "linear16" => HoldsLinear16(regs[w.reg], w.value, mode)
  /\ w.format = "raw" =>
       regs[w.reg] = w.value \/ (w.reg = "PHASE" /\ regs[w.reg] = AllPhases)

(* A rail that was enabled has every setting of the board's configuration  *)
(* but PHASE in force, each within half a step of its format, however long *)
(* the monitor has read and cleared since, and with its thresholds in      *)
(* order whatever the device's VOUT_MODE: undervoltage below the margins,  *)
(* below the set point, below overvoltage.                                 *)
LimitsInForce ==
  enabled_ok =>
    /\ operation = "on"
    /\ \A k \in write_config : InForce(config[k])
    /\ regs["VOUT_UV_FAULT_LIMIT"] < regs["VOUT_UV_WARN_LIMIT"]
    /\ regs["VOUT_UV_WARN_LIMIT"] <= regs["VOUT_MARGIN_LOW"]
    /\ regs["VOUT_MARGIN_LOW"] < Up(mode) /\ Up(mode) < regs["VOUT_MARGIN_HIGH"]
    /\ regs["VOUT_MARGIN_HIGH"] < regs["VOUT_OV_WARN_LIMIT"]
    /\ regs["VOUT_OV_WARN_LIMIT"] < regs["VOUT_OV_FAULT_LIMIT"]
=============================================================================
