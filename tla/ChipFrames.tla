----------------------------- MODULE ChipFrames -----------------------------
(***************************************************************************)
(* The wire protocol of BM13xx chips: registers (register.rs), commands    *)
(* (command.rs), responses (response.rs), checksums (crc.rs) and the       *)
(* framing of both directions (codec.rs).                                  *)
(*                                                                         *)
(* A word or a byte is the set of its bits that are set; a frame is a      *)
(* sequence of bytes.  Bytes of the chips arrive in pieces, tokio_util's   *)
(* Framed calls the codec, and frames come out; frames to the chips are    *)
(* encoded and sent whole.                                                 *)
(***************************************************************************)
EXTENDS Integers, Sequences, SequencesExt, FiniteSets

CONSTANTS
  WireInputs,  \* the byte streams a chip sends: [sent : frames, bytes : stream]
  ReadSizes,   \* how many bytes a read may bring, if not all that has arrived
  Model        \* the chip model of the chain

WordBit == 0 .. 31
ByteBit == 0 .. 7
Bits(n) == {b \in 0 .. 30 : (n \div 2 ^ b) % 2 = 1}
Shift(bits, by) == {b + by : b \in bits}
SumOf(bits) == FoldSet(LAMBDA b, sum : sum + 2 ^ b, 0, bits)

(* put_u32 and from_be_bytes: the most significant byte first.             *)
BytesOf(word) == [k \in 1 .. 4 |-> Shift(word, 8 * (k - 4)) \cap ByteBit]
WordOf(bytes) == UNION {Shift(bytes[k], 8 * (4 - k)) : k \in 1 .. 4}

-----------------------------------------------------------------------------
(***************************************************************************)
(* Registers.  A layout gives each field its bits; Held ones keep their    *)
(* place.  Fields the code masks when it encodes are in range here.        *)
(***************************************************************************)
At(high, low) == [shift |-> low, bits |-> low .. high]
Held(bits)    == [shift |-> 0, bits |-> bits]

ChipIdLayout     == [model |-> At(31, 16), unknown |-> At(15, 8), address |-> At(7, 0)]
PllDividerLayout == [locked |-> At(31, 31), pll_en |-> At(30, 30), bypass |-> At(29, 29),
                     vco_sel |-> At(28, 28), fb_div |-> At(23, 16), ref_div |-> At(15, 8),
                     post_div |-> At(7, 0)]
HashCountingNumberLayout == [ticks |-> At(31, 0)]
TicketMaskLayout  == [mask |-> At(31, 0)]
(* Mutant: one of the bits that are held in place is not.                  *)
MiscControlLayout_drops == [report_enables |-> At(31, 28), unexplained |-> Held(17 .. 27),
                            power_on |-> At(15, 0)]

MiscControlLayout == [report_enables |-> At(31, 28), unexplained |-> Held(16 .. 27),
                      power_on |-> At(15, 0)]
UartBaudLayout    == [divider |-> At(15, 8), bit28 |-> At(28, 28),
                      unexplained |-> Held((0 .. 7) \cup (16 .. 27) \cup (29 .. 31))]
UartRelayLayout   == [gap_count |-> At(31, 16), unexplained |-> Held(2 .. 15),
                      response_relay |-> At(1, 1), command_relay |-> At(0, 0)]
CoreCommandLayout == [all |-> At(31, 31), num |-> At(30, 24), core_id |-> At(23, 16),
                      write |-> At(15, 15), rd_done |-> At(14, 14), unexplained |-> Held({13}),
                      reg |-> At(12, 8), value |-> At(7, 0)]
AnalogMuxLayout   == [diode_select |-> At(3, 0), unexplained |-> Held(4 .. 31)]
IoDriverStrengthLayout ==
  [command_out |-> At(3, 0), busy_out |-> At(7, 4), reset_out |-> At(11, 8),
   clock_out |-> At(15, 12), response_out |-> At(19, 16), unexplained |-> Held(20 .. 31)]
MidstateConfigLayout ==
  [version_mask |-> At(15, 0), midstate_gen |-> At(29, 28), unexplained |-> Held(16 .. 27),
   version_fix |-> At(30, 30), auto_gen |-> At(31, 31)]
OpaqueLayout == [bytes |-> At(31, 0)]

RegisterAddress ==
  [ChipId |-> 0, PllDivider |-> 8, HashCountingNumber |-> 16, TicketMask |-> 20,
   MiscControl |-> 24, UartBaud |-> 40, UartRelay |-> 44, CoreMailbox |-> 60, AnalogMux |-> 84,
   IoDriverStrength |-> 88, RingOscPadDisable |-> 104, MidstateConfig |-> 164,
   SoftResetControl |-> 168, AdcCtrl1 |-> 185]

Register == DOMAIN RegisterAddress

Layout ==
  [ChipId |-> ChipIdLayout, PllDivider |-> PllDividerLayout,
   HashCountingNumber |-> HashCountingNumberLayout, TicketMask |-> TicketMaskLayout,
   MiscControl |-> MiscControlLayout, UartBaud |-> UartBaudLayout, UartRelay |-> UartRelayLayout,
   CoreMailbox |-> CoreCommandLayout, AnalogMux |-> AnalogMuxLayout,
   IoDriverStrength |-> IoDriverStrengthLayout, RingOscPadDisable |-> OpaqueLayout,
   MidstateConfig |-> MidstateConfigLayout, SoftResetControl |-> OpaqueLayout,
   AdcCtrl1 |-> OpaqueLayout]

ChipModel == [BM1362 |-> Bits(4962), BM1366 |-> Bits(4966), BM1370 |-> Bits(4976)]

(* The ticket mask travels with the bits of each byte reversed.            *)
ReverseBits(word) == {8 * (b \div 8) + 7 - (b % 8) : b \in word}

Wire(reg, word) == IF reg = "TicketMask" THEN ReverseBits(word) ELSE word

encode_register(reg, v) ==
  Wire(reg, UNION {Shift(v[f], Layout[reg][f].shift) : f \in DOMAIN v})

decode_register(reg, word) ==
  [f \in DOMAIN Layout[reg] |->
     Shift(Wire(reg, word) \cap Layout[reg][f].bits, 0 - Layout[reg][f].shift)]

(* Of the addresses, and of the chip ids, only the known ones decode.      *)
Decodes(address, word) ==
  \E reg \in Register :
     /\ RegisterAddress[reg] = address
     /\ reg = "ChipId" =>
          \E model \in DOMAIN ChipModel : decode_register(reg, word).model = ChipModel[model]

(* The values the driver makes.                                            *)
PllDivider(fb_div, ref_div, post_div) ==
  [locked |-> {}, pll_en |-> {0}, bypass |-> {},
   vco_sel |-> IF fb_div * 25 >= 2400 * ref_div THEN {0} ELSE {},
   fb_div |-> Bits(fb_div), ref_div |-> Bits(ref_div), post_div |-> Bits(post_div)]
TicketMask(exponent) == [mask |-> {b \in WordBit : b < exponent}]
reporting_enabled(model) ==
  [report_enables |-> IF model = "BM1362" THEN {0, 1, 3} ELSE 0 .. 3, unexplained |-> {},
   power_on |-> Bits(49408)]
for_baud(steps) == [divider |-> Bits(IF steps = 0 THEN 0 ELSE steps - 1), bit28 |-> {},
                    unexplained |-> {20, 21, 24}]
relay_boundary(gap_count) == [gap_count |-> Bits(gap_count), unexplained |-> {},
                              response_relay |-> {0}, command_relay |-> {0}]
write_all(reg, value) == [all |-> {0}, num |-> {}, core_id |-> {}, write |-> {0}, rd_done |-> {},
                          unexplained |-> {}, reg |-> Bits(reg), value |-> Bits(value)]
analog_bring_up(model) == [diode_select |-> Bits(IF model = "BM1362" THEN 3 ELSE 2),
                           unexplained |-> {}]
io_strength(clock_out) == [command_out |-> {0}, busy_out |-> {0}, reset_out |-> {0},
                           clock_out |-> Bits(clock_out), response_out |-> {0},
                           unexplained |-> {}]
full_rolling == [version_mask |-> 0 .. 15, midstate_gen |-> {0}, unexplained |-> {},
                 version_fix |-> {}, auto_gen |-> {0}]
soft_reset_defaults(model) == [bytes |-> IF model = "BM1362" THEN {} ELSE 16 .. 18]
soft_reset_core(model) ==
  [bytes |-> IF model = "BM1362" THEN {1} ELSE (16 .. 18) \cup (4 .. 8)]

Written(model) ==
  [PllDivider |-> {PllDivider(160, 2, 85), PllDivider(255, 1, 0)},
   TicketMask |-> {TicketMask(e) : e \in {0, 8, 31, 40}},
   MiscControl |-> {reporting_enabled(model)},
   UartBaud |-> {for_baud(s) : s \in {0, 1, 3, 27}},
   UartRelay |-> {relay_boundary(g) : g \in {0, 19}},
   CoreMailbox |-> {write_all(r, v) : r \in {0, 2, 5, 11, 13}, v \in {0, 238, 239}},
   AnalogMux |-> {analog_bring_up(model)},
   IoDriverStrength |-> {io_strength(1), io_strength(15)},
   MidstateConfig |-> {full_rolling},
   SoftResetControl |-> {soft_reset_defaults(model), soft_reset_core(model)}]

-----------------------------------------------------------------------------
(***************************************************************************)
(* Checksums.                                                              *)
(***************************************************************************)
Xor(a, b) == (a \ b) \cup (b \ a)

(* The register after the bits of a byte from bit n - 1 down.              *)
crc5_byte(crc, byte) ==
  LET from[n \in 0 .. 8, c \in SUBSET (0 .. 4)] ==
        IF n = 0 THEN c
        ELSE from[n - 1, Xor(Shift(c, 1) \cap 0 .. 4,
                             IF (4 \in c) # (n - 1 \in byte) THEN {0, 2} ELSE {})]
  IN from[8, crc]

(* The register after the bytes from the n-th on.                          *)
crc5(bytes) ==
  LET from[n \in 1 .. Len(bytes) + 1, c \in SUBSET (0 .. 4)] ==
        IF n > Len(bytes) THEN c ELSE from[n + 1, crc5_byte(c, bytes[n])]
  IN from[1, 0 .. 4]

crc5_is_valid(bytes) == crc5(bytes) = {}

(* A byte is added at the top of the register, then shifted out.           *)
crc16_byte(crc, byte) ==
  LET from[n \in 0 .. 8, c \in SUBSET (0 .. 15)] ==
        IF n = 0 THEN c
        ELSE from[n - 1, Xor(Shift(c, 1) \cap 0 .. 15, IF 15 \in c THEN {0, 5, 12} ELSE {})]
  IN from[8, Xor(crc, Shift(byte, 8))]

crc16(bytes) ==
  LET from[n \in 1 .. Len(bytes) + 1, c \in SUBSET (0 .. 15)] ==
        IF n > Len(bytes) THEN c ELSE from[n + 1, crc16_byte(c, bytes[n])]
  IN from[1, 0 .. 15]

-----------------------------------------------------------------------------
(***************************************************************************)
(* Commands to the chips.                                                  *)
(***************************************************************************)
Destination(chip) == [broadcast |-> FALSE, address |-> chip]
Broadcast == [broadcast |-> TRUE, address |-> 0]

TypeFlags(kind, broadcast, cmd) ==
  Shift(Bits(kind), 5) \cup (IF broadcast THEN {4} ELSE {}) \cup Bits(cmd)

SetChipAddress(chip) == <<TypeFlags(2, FALSE, 0), Bits(5), Bits(chip), {}>>
ChainInactive == <<TypeFlags(2, TRUE, 3), Bits(5), {}, {}>>
ReadRegister(dest, reg) ==
  <<TypeFlags(2, dest.broadcast, 2), Bits(5), Bits(dest.address), Bits(RegisterAddress[reg])>>
WriteRegister(dest, reg, v) ==
  <<TypeFlags(2, dest.broadcast, 1), Bits(9), Bits(dest.address), Bits(RegisterAddress[reg])>>
    \o BytesOf(encode_register(reg, v))

(* The words of a hash of eight words of four bytes, in reverse order.     *)
hash_to_wire(hash) == [k \in 1 .. 32 |-> hash[4 * (7 - ((k - 1) \div 4)) + ((k - 1) % 4) + 1]]

(* The two job formats; the numbers they carry are bytes already.          *)
JobHeader(length, job) ==
  <<TypeFlags(1, FALSE, 1), Bits(length), Shift(Bits(job.job_id), 3), Bits(job.num_midstates)>>
JobFull(job) ==
  JobHeader(54, job) \o job.nonce_nbits_ntime \o hash_to_wire(job.merkle_root)
    \o hash_to_wire(job.prev_block_hash) \o job.version
JobMidstate(job) ==
  JobHeader(22 + job.num_midstates * 32, job) \o job.nonce_nbits_ntime \o job.merkle4
    \o FlattenSeq(job.midstates)

(* Encoder: the preamble 55 AA, the command, its checksum.                 *)
CommandPreamble == <<Bits(85), Bits(170)>>
encode_command(command) == CommandPreamble \o command \o <<crc5(command)>>
encode_job(job) ==
  LET crc == crc16(job)
  IN CommandPreamble \o job \o <<Shift(crc, -8) \cap ByteBit, crc \cap ByteBit>>

-----------------------------------------------------------------------------
(***************************************************************************)
(* Responses: nine bytes after the preamble AA 55.                         *)
(***************************************************************************)
FRAME_LEN == 11
Preamble  == <<Bits(170), Bits(85)>>

NoItem == [kind |-> "none"]
RegisterResponse(chip, reg, value) ==
  [kind |-> "register", chip |-> chip, reg |-> reg, value |-> value]
NonceResponse(nonce, job_id, subcore_id, version) ==
  [kind |-> "nonce", nonce |-> nonce, job_id |-> job_id, subcore_id |-> subcore_id,
   version |-> version]

(* The result header, split per model into job id and subcore id.          *)
SubcoreWidth(model) == IF model = "BM1370" THEN 4 ELSE 3
JobIdOf(model, header) == Shift(header \cap SubcoreWidth(model) .. 7, 0 - SubcoreWidth(model))
SubcoreOf(model, header) == header \cap 0 .. SubcoreWidth(model) - 1

(* Response::decode of the nine bytes; NoItem for its errors.              *)
decode_response(model, b) ==
  LET type == Shift(b[9] \cap 5 .. 7, -5)
      word == WordOf(SubSeq(b, 1, 4))
  IN CASE type = {} ->
            IF \E reg \in Register : /\ Bits(RegisterAddress[reg]) = b[6]
                                     /\ Decodes(RegisterAddress[reg], word)
              THEN LET reg == CHOOSE r \in Register : Bits(RegisterAddress[r]) = b[6]
                   IN RegisterResponse(b[5], reg, decode_register(reg, word))
              ELSE NoItem
       [] type = {2} -> NonceResponse(SubSeq(b, 1, 4), JobIdOf(model, b[6]),
                                      SubcoreOf(model, b[6]), SubSeq(b, 7, 8))
       [] OTHER -> NoItem

(* NonceFields::from_nonce of the nonce's bytes in the chip's order.       *)
from_nonce(model, value) ==
  [core_id |-> Shift(value \cap 25 .. 31, -25),
   chip_address |-> IF model = "BM1370" THEN {} ELSE Shift(value \cap 18 .. 24, -17),
   counter |-> value \cap (IF model = "BM1370" THEN 0 .. 24 ELSE 0 .. 17)]

(* Mutant: a false start is skipped whole.                                 *)
decode_skips(model, src) ==
  LET Frame == SubSeq(src, 3, FRAME_LEN)
      Item == decode_response(model, Frame)
      Skips(n, item) == [rest |-> SubSeq(src, n + 1, Len(src)), item |-> item]
  IN IF Len(src) < FRAME_LEN THEN Skips(0, NoItem)
     ELSE IF src[1] # Preamble[1] THEN Skips(1, NoItem)
     ELSE IF src[2] # Preamble[2] THEN Skips(2, NoItem)
     ELSE IF ~crc5_is_valid(Frame) \/ Item = NoItem THEN Skips(FRAME_LEN, NoItem)
     ELSE Skips(FRAME_LEN, Item)

(* Decoder: a frame, or one byte that does not begin a valid frame, is     *)
(* consumed.                                                               *)
decode(model, src) ==
  LET Frame == SubSeq(src, 3, FRAME_LEN)
      Item == decode_response(model, Frame)
      Skips(n, item) == [rest |-> SubSeq(src, n + 1, Len(src)), item |-> item]
  IN IF Len(src) < FRAME_LEN THEN Skips(0, NoItem)
     ELSE IF \/ SubSeq(src, 1, 2) # Preamble
             \/ ~crc5_is_valid(Frame)
             \/ Item = NoItem
       THEN Skips(1, NoItem)
       ELSE Skips(FRAME_LEN, Item)

-----------------------------------------------------------------------------
(***************************************************************************)
(* The chip's side of a response, and Framed's of the stream: after None   *)
(* it reads before it calls the decoder again.                             *)
(***************************************************************************)
Sealed(payload, type) ==
  LET last == CHOOSE c \in SUBSET (0 .. 4) : crc5_is_valid(payload \o <<Shift(type, 5) \cup c>>)
  IN Preamble \o payload \o <<Shift(type, 5) \cup last>>

ChipReply(chip, address, word) == Sealed(BytesOf(word) \o <<Bits(chip), Bits(address), {}, {}>>, {})
ChipNonce(nonce, header, version) == Sealed(nonce \o <<{}, header>> \o version, {2})

(* A response that decodes begins at the k-th byte.                        *)
FrameAt(bytes, k) ==
  LET Frame == SubSeq(bytes, k + 2, k + FRAME_LEN - 1)
  IN /\ SubSeq(bytes, k, k + 1) = Preamble /\ crc5_is_valid(Frame)
     /\ decode_response(Model, Frame) # NoItem

Starts(bytes) == {k \in 1 .. Len(bytes) - FRAME_LEN + 1 : FrameAt(bytes, k)}

(* The responses were sent at these places, and what is between them, noise*)
(* or a damaged response, does not look like one.                          *)
SentAt(w, at) ==
  /\ \A j, k \in DOMAIN at : j < k => at[j] + FRAME_LEN <= at[k]
  /\ \A s \in Starts(w.bytes) : \E k \in DOMAIN at : at[k] <= s /\ s < at[k] + FRAME_LEN
  /\ w.sent = [k \in DOMAIN at |->
                decode_response(Model, SubSeq(w.bytes, at[k] + 2, at[k] + FRAME_LEN - 1))]

ASSUME StreamsUnmistakable ==
  \A w \in WireInputs :
    /\ w.bytes \in Seq(SUBSET ByteBit)
    /\ \E n \in 0 .. Len(w.bytes) : \E at \in [1 .. n -> Starts(w.bytes)] : SentAt(w, at)

VARIABLES
  outgoing,  \* the last frame sent to the chips, and what it was made of
  stream,    \* what the chips send: [sent, bytes]
  arriving,  \* bytes not yet read
  rx_buffer, \* Framed's buffer
  readable,  \* Framed's is_readable
  frames_out \* the responses the reader got

frameVars == <<outgoing, stream, arriving, rx_buffer, readable, frames_out>>

NothingSent == [what |-> "nothing"]

FramesInit ==
  /\ stream \in WireInputs /\ arriving = stream.bytes
  /\ rx_buffer = <<>> /\ readable = FALSE /\ frames_out = <<>>
  /\ outgoing = NothingSent

ReadBytes(n) ==
  /\ ~readable /\ n \in 1 .. Len(arriving)
  /\ rx_buffer' = rx_buffer \o SubSeq(arriving, 1, n)
  /\ arriving' = SubSeq(arriving, n + 1, Len(arriving))
  /\ readable' = TRUE
  /\ UNCHANGED <<outgoing, stream, frames_out>>

CallDecode ==
  /\ readable
  /\ LET got == decode(Model, rx_buffer)
     IN /\ rx_buffer' = got.rest
        /\ readable' = (got.item # NoItem)
        /\ frames_out' = IF got.item = NoItem THEN frames_out ELSE Append(frames_out, got.item)
  /\ UNCHANGED <<outgoing, stream, arriving>>

Sends(frame) ==
  /\ outgoing' = frame
  /\ UNCHANGED <<stream, arriving, rx_buffer, readable, frames_out>>

SendChainInactive == Sends([what |-> "inactive", bytes |-> encode_command(ChainInactive)])
SendAddress(chip) ==
  Sends([what |-> "address", bytes |-> encode_command(SetChipAddress(chip))])
SendRead(dest, reg) ==
  Sends([what |-> "read", bytes |-> encode_command(ReadRegister(dest, reg))])
SendWrite(dest, reg, v) ==
  Sends([what |-> "write", reg |-> reg, value |-> v,
         bytes |-> encode_command(WriteRegister(dest, reg, v))])

(* A register that was read is written back, as register.rs's tests do.    *)
SendBack(reg, word) ==
  Sends([what |-> "back", reg |-> reg, word |-> word,
         bytes |-> encode_command(WriteRegister(Broadcast, reg, decode_register(reg, word)))])

(* Jobs whose bytes tell their places apart.                               *)
Bytes(n) == [k \in 1 .. n |-> Bits(k)]
SendJobFull(id) ==
  Sends([what |-> "full", job_id |-> id, bytes |-> encode_job(JobFull(
           [job_id |-> id, num_midstates |-> 1, nonce_nbits_ntime |-> Bytes(12),
            merkle_root |-> Bytes(32), prev_block_hash |-> Bytes(32), version |-> Bytes(4)]))])
SendJobMidstate(id, n) ==
  Sends([what |-> "midstate", job_id |-> id, bytes |-> encode_job(JobMidstate(
           [job_id |-> id, num_midstates |-> n, nonce_nbits_ntime |-> Bytes(12),
            merkle4 |-> Bytes(4), midstates |-> [k \in 1 .. n |-> Bytes(32)]]))])

FramesRead == (\E n \in ReadSizes \cup {Len(arriving)} : ReadBytes(n)) \/ CallDecode

(* The encoder keeps nothing from one frame to the next: one is enough.    *)
FramesWrite ==
  /\ outgoing = NothingSent
  /\ \/ SendChainInactive
     \/ \E n \in 0 .. 127 : SendAddress(2 * n)
     \/ \E dest \in {Broadcast, Destination(6)} :
          \/ \E reg \in Register : SendRead(dest, reg)
          \/ \E reg \in DOMAIN Written(Model) :
               \E v \in Written(Model)[reg] : SendWrite(dest, reg, v)
     \/ \E reg \in Register, a \in WordBit : \E b \in a .. 31 : SendBack(reg, {a, b})
     \/ \E id \in 0 .. 15 : SendJobFull(id) \/ \E n \in {1, 4} : SendJobMidstate(id, n)

FramesSpec == FramesInit /\ [][FramesRead \/ FramesWrite]_frameVars

-----------------------------------------------------------------------------
(***************************************************************************)
(* Properties.                                                             *)
(***************************************************************************)

(* These bytes hold these responses and no other.                          *)
Carries(bytes, sent) ==
  \E at \in [1 .. Len(sent) -> Starts(bytes)] : SentAt([bytes |-> bytes, sent |-> sent], at)

(* However the stream is cut into reads, after noise, a false preamble, a  *)
(* frame with a flipped bit or one that does not decode, the responses the *)
(* chips sent come out in order, nothing else does, and each that is not   *)
(* out yet lies whole in the bytes still to be decoded; so all are out     *)
(* when less than a frame is left.  It does not say that a response comes  *)
(* out as soon as its last byte is read: the decoder returns None to       *)
(* request another call (codec.rs), Framed first reads again, and behind   *)
(* noise a whole response may wait in the buffer for the bytes after it.   *)
FramesSurvive ==
  /\ IsPrefix(frames_out, stream.sent)
  /\ Carries(rx_buffer \o arriving,
             SubSeq(stream.sent, Len(frames_out) + 1, Len(stream.sent)))

(* The result header of a nonce: the job's third byte, moved by a BM1370.  *)
ChipEcho(model, header) ==
  IF model = "BM1370" THEN Shift(header, 1) \cap ByteBit ELSE header

(* What a chip replies that was written the word of a frame.               *)
ReadBack(frame) == SubSeq(ChipReply(0, SumOf(frame[6]), WordOf(SubSeq(frame, 7, 10))), 3, FRAME_LEN)

(* What the driver sends arrives and comes back.  A chip that goes by the  *)
(* length byte finds the end of every command and of every midstate job,   *)
(* and a valid checksum there (a full job takes 88 bytes whatever it       *)
(* says); a written register that is read is the value written, and no bit *)
(* of a register that is read and written back is lost or moved, except    *)
(* bits 24 to 27 of the PLL register; a job's id comes back in a nonce     *)
(* next to any subcore id, and so does, on chips that pack it there, the   *)
(* address a chip was given.                                               *)
ValuesTravel ==
  outgoing # NothingSent =>
    LET b == outgoing.bytes
        job == outgoing.what \in {"full", "midstate"}
    IN /\ Len(b) = IF outgoing.what = "full" THEN 88 ELSE 2 + SumOf(b[4])
       /\ IF job THEN crc16(SubSeq(b, 3, Len(b))) = {}
          ELSE crc5(SubSeq(b, 3, Len(b) - 1)) = Last(b)
       /\ outgoing.what = "write" =>
            decode_response(Model, ReadBack(b)) = RegisterResponse({}, outgoing.reg, outgoing.value)
       /\ outgoing.what = "back" =>
            WordOf(SubSeq(b, 7, 10))
              = IF outgoing.reg = "PllDivider" THEN outgoing.word \ (24 .. 27) ELSE outgoing.word
       /\ outgoing.what = "address" =>
            \A counter \in {0 .. 17, {}} :
              from_nonce("BM1362", Shift(b[5], 17) \cup counter).chip_address = b[5]
       /\ job =>
            \A model \in DOMAIN ChipModel : \A sub \in SUBSET (0 .. SubcoreWidth(model) - 1) :
              /\ JobIdOf(model, ChipEcho(model, b[5]) \cup sub) = Bits(outgoing.job_id)
              /\ SubcoreOf(model, ChipEcho(model, b[5]) \cup sub) = sub
=============================================================================
