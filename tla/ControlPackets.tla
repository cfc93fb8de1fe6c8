--------------------------- MODULE ControlPackets ---------------------------
(***************************************************************************)
(* The control protocol of bitaxe-raw, RHAP-D and emberOne firmware        *)
(* (mgmt_protocol/bitaxe_raw): the packets that I2C, GPIO, LED and reboot  *)
(* calls become, the two formats of the responses, the codec, and          *)
(* send_packet, which matches a response to its request.                   *)
(*                                                                         *)
(* BitaxeBoard has the same channel with two users and abstract packets;   *)
(* here one caller's packets are bytes, and responses come in pieces, late *)
(* or as errors.  Bytes are numbers.                                       *)
(***************************************************************************)
EXTENDS Naturals, Sequences

CONSTANTS
  ControlCalls,    \* the calls that callers make
  FirstIds,        \* values of next_id to begin with
  max_length,      \* of a packet: 4096
  MaxCalls,        \* bound: calls made
  MaxControlLate   \* bound: calls that time out

ASSUME ControlBounds ==
  /\ FirstIds \subseteq 0 .. 255 /\ max_length \in Nat /\ MaxCalls \in Nat /\ MaxControlLate < 255

-----------------------------------------------------------------------------
(***************************************************************************)
(* Requests.                                                               *)
(***************************************************************************)
Page == [I2C |-> 5, GPIO |-> 6, ADC |-> 7, LED |-> 8, System |-> 9]
I2CCommand == [SetFrequency |-> 16, Write |-> 32, Read |-> 48, WriteRead |-> 64]
SetRGB == 16

U16Le(n) == <<n % 256, (n \div 256) % 256>>
U32Le(n) == U16Le(n % 65536) \o U16Le(n \div 65536)

Packet(page, command, data) == [page |-> Page[page], command |-> command, data |-> data]

scale(value, percent) == (2 * value * percent + 100) \div 200

(* The packets that the callers make of their calls.                       *)
I2cPacket(c) ==
  CASE c.op = "write"      -> Packet("I2C", I2CCommand.Write, <<c.addr>> \o c.write)
    [] c.op = "read"       -> Packet("I2C", I2CCommand.Read, <<c.addr, c.read % 256>>)
    [] c.op = "write_read" -> Packet("I2C", I2CCommand.WriteRead,
                                     <<c.addr>> \o c.write \o <<c.read % 256>>)
    [] c.op = "frequency"  -> Packet("I2C", I2CCommand.SetFrequency, U32Le(c.hz))

GpioPacket(c) ==
  Packet("GPIO", c.pin,
         IF c.op = "pin_read" THEN <<>> ELSE <<IF c.high THEN 1 ELSE 0>>)

LedPacket(c) == Packet("LED", SetRGB, [k \in 1 .. 3 |-> scale(c.rgb[k], c.percent)])

SystemPacket(c) ==
  IF c.op = "reboot" THEN Packet("System", 1, <<222, 173, 190, 239>>)
  ELSE Packet("System", 2, <<176, 7, 16, 173>>)

PacketOf(c) ==
  CASE c.op \in {"pin_write", "pin_read"}    -> GpioPacket(c)
    [] c.op = "led"                          -> LedPacket(c)
    [] c.op \in {"reboot", "bootloader"}     -> SystemPacket(c)
    [] OTHER                                 -> I2cPacket(c)

(* The bytes of data a call wants back; the others take any number.        *)
Wanted(c) == CASE c.op \in {"read", "write_read"} -> {c.read}
               [] c.op = "pin_read"               -> {1}
               [] OTHER                           -> 0 .. max_length

(* Reboots wait for no reply.                                              *)
NoReply(c) == c.op \in {"reboot", "bootloader"}

encode(id, p) == U16Le(6 + Len(p.data)) \o <<id, 0, p.page, p.command>> \o p.data

-----------------------------------------------------------------------------
(***************************************************************************)
(* Responses; an empty sequence is an error of the parser.                 *)
(***************************************************************************)
ErrorCode == {16, 17, 18, 255}
Response(id, data, error) == <<[id |-> id, data |-> data, error |-> error]>>

(* Every v0 response is a success.                                         *)
parse_v0(bytes) ==
  IF bytes = <<>> THEN <<>> ELSE Response(bytes[1], Tail(bytes), FALSE)

parse_v1(bytes) ==
  IF Len(bytes) < 2 \/ bytes[2] \notin ErrorCode \cup {0} THEN <<>>
  ELSE Response(bytes[1], IF bytes[2] = 0 THEN SubSeq(bytes, 3, Len(bytes)) ELSE <<>>,
                bytes[2] # 0)

(* ControlCodec: more bytes are needed, an error, or a response.           *)
Decoded(kind, rest, responses) == [kind |-> kind, rest |-> rest, responses |-> responses]

PacketSize(format, src) ==
  LET field == src[1] + 256 * src[2] IN IF format = "V0" THEN field + 3 ELSE field

control_decode(format, src) ==
  IF Len(src) < 2 THEN Decoded("none", src, <<>>)
  ELSE LET size == PacketSize(format, src)
           body == SubSeq(src, 3, size)
           parsed == IF format = "V0" THEN parse_v0(body) ELSE parse_v1(body)
       IN IF size > max_length THEN Decoded("error", src, <<>>)
          ELSE IF Len(src) < size THEN Decoded("none", src, <<>>)
          ELSE Decoded(IF parsed = <<>> THEN "error" ELSE "response",
                       SubSeq(src, size + 1, Len(src)), parsed)

-----------------------------------------------------------------------------
(***************************************************************************)
(* The firmware, from the protocol's description.                          *)
(***************************************************************************)

(* What it takes a request for.                                            *)
Understood(bytes) ==
  LET page == bytes[5]
      command == bytes[6]
      data == SubSeq(bytes, 7, bytes[1] + 256 * bytes[2])
  IN CASE page = 5 /\ command = 32 -> [op |-> "write", addr |-> data[1], write |-> Tail(data)]
       [] page = 5 /\ command = 48 -> [op |-> "read", addr |-> data[1], read |-> data[2]]
       [] page = 5 /\ command = 64 ->
            [op |-> "write_read", addr |-> data[1], write |-> SubSeq(data, 2, Len(data) - 1),
             read |-> data[Len(data)]]
       [] page = 5 /\ command = 16 ->
            [op |-> "frequency",
             hz |-> data[1] + 256 * data[2] + 65536 * data[3] + 16777216 * data[4]]
       [] page = 6 /\ data # <<>> -> [op |-> "pin_write", pin |-> command, high |-> data[1] # 0]
       [] page = 6 /\ data = <<>> -> [op |-> "pin_read", pin |-> command]
       [] page = 8 -> [op |-> "led", rgb |-> data]
       [] page = 9 -> [op |-> IF command = 1 THEN "reboot" ELSE "bootloader"]

(* The data a call is answered with.                                       *)
Replies(u) ==
  CASE u.op \in {"read", "write_read"} -> {[k \in 1 .. u.read |-> b] : b \in {0, 255}}
    [] u.op = "pin_read"               -> {<<0>>, <<1>>}
    [] u.op = "pin_write"              -> {<<IF u.high THEN 1 ELSE 0>>}
    [] OTHER                           -> {<<>>}

ResponseBytes(format, id, status, data) ==
  IF format = "V0"
    THEN LET payload == IF status = 0 THEN data ELSE <<255, status>>
         IN U16Le(Len(payload)) \o <<id>> \o payload
    ELSE U16Le(4 + Len(data)) \o <<id, status>> \o data

-----------------------------------------------------------------------------
(* The format of the responses: by firmware, and for the emberOne by the   *)
(* firmware's minor version, the second digit of bcdDevice from the right. *)
firmware_minor(bcd) == (bcd \div 16) % 16

response_format(firmware, bcd) ==
  CASE firmware = "bitaxe-raw" -> "V0"
    [] firmware = "RHAP-D"     -> "V1"
    [] firmware = "emberOne"   -> IF firmware_minor(bcd) >= 1 THEN "V1" ELSE "V0"

VARIABLES
  format,        \* ResponseFormat of this board's firmware
  calls_made, timeouts,
  next_packet_id,
  calling,       \* the call under way, its number and its id; <<>> without one
  requests,      \* packets the firmware has not carried out: [nr, bytes]
  carried_out,   \* history: [nr, what, status, data] of each request carried out
  arriving_bytes, control_buffer,
  control_readable, has_errored,   \* FramedRead's state
  outcome        \* of the last call: <<>>, or [nr, call, ok, data]

frameState == <<arriving_bytes, control_buffer, control_readable, has_errored>>
controlVars == <<format, calls_made, timeouts, next_packet_id, calling, requests, carried_out,
                 frameState, outcome>>

ControlInit ==
  /\ \E firmware \in {"bitaxe-raw", "RHAP-D", "emberOne"}, bcd \in {1024, 1040} :
       format = response_format(firmware, bcd)
  /\ next_packet_id \in FirstIds
  /\ calls_made = 0 /\ timeouts = 0 /\ calling = <<>> /\ requests = <<>> /\ carried_out = {}
  /\ arriving_bytes = <<>> /\ control_buffer = <<>>
  /\ control_readable = FALSE /\ has_errored = FALSE /\ outcome = <<>>

Returns(ok, data) ==
  /\ calling' = <<>>
  /\ outcome' = <<[nr |-> calling[1].nr, call |-> calling[1].call, ok |-> ok, data |-> data]>>

(* send_packet up to its await, and send_packet_no_reply.  A packet that   *)
(* is too long is not sent, but has had its id.                            *)
StartCall(c) ==
  /\ calling = <<>> /\ calls_made < MaxCalls
  /\ calls_made' = calls_made + 1 /\ next_packet_id' = (next_packet_id + 1) % 256
  /\ LET bytes == encode(next_packet_id, PacketOf(c))
         sent == Len(bytes) <= max_length
     IN /\ requests' = IF sent THEN Append(requests, [nr |-> calls_made', bytes |-> bytes])
                       ELSE requests
        /\ calling' = IF sent /\ ~NoReply(c)
                      THEN <<[nr |-> calls_made', call |-> c, id |-> next_packet_id]>>
                      ELSE <<>>
        /\ outcome' = IF sent THEN <<>>
                      ELSE <<[nr |-> calls_made', call |-> c, ok |-> FALSE, data |-> <<>>]>>
  /\ UNCHANGED <<format, timeouts, carried_out, frameState>>

(* A request is carried out and answered, with data, an error the driver   *)
(* knows or one it does not; a reboot is not answered.                     *)
FirmwareReplies ==
  /\ requests # <<>> /\ requests' = Tail(requests)
  /\ LET r == Head(requests)
         u == Understood(r.bytes)
     IN \E status \in {0, 17} \cup (IF format = "V1" THEN {66} ELSE {}), data \in Replies(u) :
          /\ carried_out' = carried_out \cup
               {[nr |-> r.nr, what |-> u, status |-> status, data |-> data]}
          /\ arriving_bytes' = IF NoReply(u) THEN arriving_bytes
                               ELSE arriving_bytes \o
                                 ResponseBytes(format, r.bytes[3], status,
                                               IF status = 0 THEN data ELSE <<>>)
  /\ UNCHANGED <<format, calls_made, timeouts, next_packet_id, calling, control_buffer,
                 control_readable, has_errored, outcome>>

(* FramedRead after an error gives the end of the stream, once.            *)
ReadsAfterError ==
  /\ calling # <<>> /\ has_errored
  /\ has_errored' = FALSE /\ control_readable' = FALSE /\ Returns(FALSE, <<>>)
  /\ UNCHANGED <<format, calls_made, timeouts, next_packet_id, requests, carried_out,
                 arriving_bytes, control_buffer>>

ReadsControlBytes(n) ==
  /\ calling # <<>> /\ ~has_errored /\ ~control_readable /\ n \in 1 .. Len(arriving_bytes)
  /\ control_buffer' = control_buffer \o SubSeq(arriving_bytes, 1, n)
  /\ arriving_bytes' = SubSeq(arriving_bytes, n + 1, Len(arriving_bytes))
  /\ control_readable' = TRUE
  /\ UNCHANGED <<format, calls_made, timeouts, next_packet_id, calling, requests, carried_out,
                 has_errored, outcome>>

(* Mutant: whatever response comes is taken for the awaited one.           *)
Accepted_any(r, c) == ~r.error /\ Len(r.data) \in Wanted(c.call)

(* The id must match, no error be reported and the length be the expected. *)
Accepted(r, c) == r.id = c.id /\ ~r.error /\ Len(r.data) \in Wanted(c.call)

DecodesResponse ==
  /\ calling # <<>> /\ ~has_errored /\ control_readable
  /\ LET got == control_decode(format, control_buffer)
     IN /\ control_buffer' = got.rest
        /\ control_readable' = (got.kind # "none")
        /\ has_errored' = (got.kind = "error")
        /\ CASE got.kind = "none"     -> UNCHANGED <<calling, outcome>>
             [] got.kind = "error"    -> Returns(FALSE, <<>>)
             [] got.kind = "response" ->
                  LET r == got.responses[1]
                  IN Returns(Accepted(r, calling[1]),
                             IF Accepted(r, calling[1]) THEN r.data ELSE <<>>)
  /\ UNCHANGED <<format, calls_made, timeouts, next_packet_id, requests, carried_out,
                 arriving_bytes>>

(* The second is over; what was read stays in the buffer.                  *)
CallTimesOut ==
  /\ calling # <<>> /\ timeouts < MaxControlLate /\ timeouts' = timeouts + 1
  /\ Returns(FALSE, <<>>)
  /\ UNCHANGED <<format, calls_made, next_packet_id, requests, carried_out, frameState>>

ControlNext ==
  \/ \E c \in ControlCalls : StartCall(c)
  \/ FirmwareReplies
  \/ ReadsAfterError
  \/ \E n \in {1, Len(arriving_bytes)} : ReadsControlBytes(n)
  \/ DecodesResponse
  \/ CallTimesOut

ControlSpec == ControlInit /\ [][ControlNext]_controlVars

-----------------------------------------------------------------------------
(* What a call means to its caller, with the LED's brightness applied.     *)
Meaning(c) ==
  IF c.op = "led" THEN [op |-> "led", rgb |-> [k \in 1 .. 3 |-> scale(c.rgb[k], c.percent)]]
  ELSE c

(* A call that returns Ok was carried out as it was meant, and what it     *)
(* returns is what the firmware answered to this very call, although       *)
(* responses come in pieces, after their call timed out, behind an error   *)
(* or with the last id of the byte.  A firmware error is not taken for a   *)
(* success, except by the v0 format, which documents that it cannot tell.  *)
ControlCallsTrue ==
  \A o \in {outcome[k] : k \in DOMAIN outcome} : o.ok =>
    \E done \in carried_out :
      /\ done.nr = o.nr /\ done.what = Meaning(o.call)
      /\ done.status = 0 => o.data = done.data
      /\ done.status # 0 => format = "V0" /\ o.data = <<255, done.status>>
=============================================================================
