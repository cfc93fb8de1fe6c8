------------------------------ MODULE MCParts ------------------------------
(***************************************************************************)
(* The parts that work beside scheduler, boards and pool connection, for   *)
(* TLC: the search space of a job (JobSpace), the frames of the chips      *)
(* (ChipFrames), the regulator (Regulator), the sensors (Sensors), the     *)
(* way of jobs and commands (JobSources), share targets and estimates      *)
(* (ShareTargets), the suggested difficulty (Suggestion), the HTTP API     *)
(* (Api), the control packets (ControlPackets), and the scheduler's        *)
(* startup gate (Scheduler, with one source that sends no job).  They      *)
(* share no state, so a behaviour runs one of them while the others rest   *)
(* in one state; so do the two directions of the chips' frames.            *)
(***************************************************************************)
EXTENDS JobSpace, ChipFrames, Regulator, Sensors, JobSources, ShareTargets, Suggestion, Api,
        ControlPackets, Scheduler

VARIABLE part

-----------------------------------------------------------------------------
(* What the chips send: nothing, a nonce and a register reply with noise   *)
(* between them, either of the two with one bit flipped, and a reply for a *)
(* register that the driver does not know.                                 *)
Reply == ChipReply(4, 0, Shift(ChipModel.BM1370, 16) \cup {2})
Got == RegisterResponse({2}, "ChipId",
                        [model |-> ChipModel.BM1370, unknown |-> {}, address |-> {2}])
Nonce == ChipNonce(<<{1}, Bits(170), Bits(85), {}>>, Bits(53), <<{}, {3}>>)
GotNonce == NonceResponse(<<{1}, Bits(170), Bits(85), {}>>, Bits(3), Bits(5), <<{}, {3}>>)
Unknown == ChipReply(4, 1, {3})
Flip(frame, n) == [frame EXCEPT ![(n - 1) \div 8 + 1] = Xor(@, {(n - 1) % 8})]
Noise == {<<>>, <<{}>>, <<Bits(170)>>, <<Bits(170), Bits(85)>>}
Streams ==
  {[sent |-> <<>>, bytes |-> <<>>]}
  \cup {[sent |-> <<GotNonce, Got>>, bytes |-> a \o Nonce \o b \o Reply] : a, b \in Noise}
  \cup {[sent |-> <<GotNonce>>, bytes |-> Flip(Reply, n) \o Nonce] : n \in 1 .. 88}
  \cup {[sent |-> <<Got>>, bytes |-> Flip(Nonce, n) \o Reply] : n \in 1 .. 88}
  \cup {[sent |-> <<Got>>, bytes |-> Unknown \o Reply]}

(* The exponents of a TPS546 and of a coarser device; tenths of a degree   *)
(* below zero and on both sides of the limit.                              *)
Exponents == {-9, -4}
Tenths == {-5, 799, 800}

(* One call of each kind, and one too long.                                *)
EachCall ==
  {[op |-> "write", addr |-> 76, write |-> <<1, 2, 3, 4>>],
   [op |-> "write", addr |-> 76, write |-> <<1, 255>>], [op |-> "read", addr |-> 76, read |-> 2],
   [op |-> "write_read", addr |-> 36, write |-> <<121>>, read |-> 1],
   [op |-> "frequency", hz |-> 100000], [op |-> "pin_write", pin |-> 0, high |-> TRUE],
   [op |-> "pin_read", pin |-> 0], [op |-> "led", rgb |-> <<255, 128, 0>>, percent |-> 50],
   [op |-> "reboot"], [op |-> "bootloader"]}

-----------------------------------------------------------------------------
(* The resting states: initial ones, and a range that was rolled through.  *)
SpaceRests ==
  /\ range = starting_at([counter |-> max_counter(1), width |-> 1])
  /\ it = nth(iter(range), CounterMax).it /\ left = <<>> /\ returned = Gives(None, None)
FramesRest == FramesInit /\ stream.bytes = <<>>
RegulatorRests ==
  RegulatorInit /\ operation = "off" /\ mode = CHOOSE e \in VoutExponents : TRUE
SensorsRest == SensorsInit /\ board = "init" /\ tach = CHOOSE c \in TachCounts : TRUE
SourcesRest == SourcesInit /\ wiring.forced
ControlRests == ControlInit /\ format = "V1" /\ next_packet_id = CHOOSE i \in FirstIds : TRUE

PartsInit ==
  /\ part \in {"space", "frames", "commands", "regulator", "sensors", "sources", "targets", "suggest",
               "api", "control", "gate"}
  /\ IF part = "space" THEN SpaceInit ELSE SpaceRests
  /\ IF part = "frames" THEN FramesInit ELSE FramesRest
  /\ IF part = "regulator" THEN RegulatorInit ELSE RegulatorRests
  /\ IF part = "sensors" THEN SensorsInit ELSE SensorsRest
  /\ IF part = "sources" THEN SourcesInit ELSE SourcesRest
  /\ TargetsInit /\ SuggestInit /\ ApiInit /\ Init
  /\ IF part = "control" THEN ControlInit ELSE ControlRests

PartsNext ==
  /\ UNCHANGED part
  /\ IF part = "space" THEN SpaceNext ELSE UNCHANGED spaceVars
  /\ IF part = "frames" THEN FramesRead
     ELSE IF part = "commands" THEN FramesWrite ELSE UNCHANGED frameVars
  /\ IF part = "regulator" THEN RegulatorNext ELSE UNCHANGED regulatorVars
  /\ IF part = "sensors" THEN SensorsNext ELSE UNCHANGED sensorVars
  /\ IF part = "sources" THEN SourcesNext ELSE UNCHANGED pipeVars
  /\ IF part = "targets" THEN TargetsNext ELSE UNCHANGED targetVars
  /\ IF part = "suggest" THEN SuggestNext ELSE UNCHANGED suggestVars
  /\ IF part = "api" THEN ApiNext ELSE UNCHANGED apiVars
  /\ IF part = "control" THEN ControlNext ELSE UNCHANGED controlVars
  /\ IF part = "gate" THEN Next ELSE UNCHANGED vars

partsVars ==
  <<part, spaceVars, frameVars, regulatorVars, sensorVars, pipeVars, targetVars, suggestVars,
    apiVars, controlVars, vars>>

(* Only the gate has a property that needs fairness.                       *)
PartsSpec == PartsInit /\ [][PartsNext]_partsVars /\ (part = "gate" => Fairness)
=============================================================================
