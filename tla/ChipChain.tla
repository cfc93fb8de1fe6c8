----------------------------- MODULE ChipChain -----------------------------
(***************************************************************************)
(* Bringing up a chain of BM13xx chips (initialize_chain in thread.rs)     *)
(* over the register client (register_client.rs) and the reader that       *)
(* splits the chips' responses onto two channels (reader.rs), with the     *)
(* chain model (chain.rs, topology.rs) and the chips' clock settings       *)
(* (chip_config.rs).                                                       *)
(*                                                                         *)
(* A chip remembers which of the registers that are verified later have    *)
(* the value the driver wrote.  Commands and responses may be lost on the  *)
(* wire, responses may be late, and chips may report nonces meanwhile.     *)
(* Frequencies count quarters of a MHz, and dividers divide exactly, where *)
(* the code rounds to f32.                                                 *)
(***************************************************************************)
EXTENDS Integers, Sequences, FiniteSets, FiniteSetsExt, SequencesExt

CONSTANTS
  MaxChips,        \* bound: chips declared, and chips really on the chain
  ChannelCapacity, \* CHANNEL_CAPACITY: 256
  ATTEMPTS,        \* attempts of a register read: 3
  MaxLost,         \* bound: frames lost on the wire
  MaxNonces        \* bound: nonces reported during the bring-up

ASSUME ChainCounts ==
  /\ MaxChips \in Nat /\ ChannelCapacity \in Nat \ {0}
  /\ ATTEMPTS \in Nat \ {0} /\ MaxLost \in Nat /\ MaxNonces \in Nat

-----------------------------------------------------------------------------
(***************************************************************************)
(* Topologies and the chain model.  Chip ids and domain ids count from 0.  *)
(***************************************************************************)
uniform_domains(domains, chips) == [k \in 1 .. domains * chips |-> (k - 1) \div chips]
individual_domains(chips) == [k \in 1 .. chips |-> k - 1]
single_domain(chips) == [k \in 1 .. chips |-> 0]

(* custom: the ids must be contiguous from 0.                              *)
custom_ok(domains) ==
  LET used == {domains[k] : k \in DOMAIN domains}
  IN used = {} \/ used = 0 .. Max(used)

domain_count(topology) ==
  IF topology = <<>> THEN 0 ELSE Max({topology[k] : k \in DOMAIN topology}) + 1

(* from_topology and assign_addresses; an address past 255 is an error.    *)
Interval == 2
AddressesFit(topology) == topology = <<>> \/ (Len(topology) - 1) * Interval <= 255

from_topology(topology) ==
  [chips |-> [k \in 1 .. Len(topology) |-> [address |-> (k - 1) * Interval,
                                            domain  |-> topology[k]]],
   domains |-> [d \in 1 .. domain_count(topology) |->
                  SelectSeq([k \in 1 .. Len(topology) |-> k - 1],
                            LAMBDA id : topology[id + 1] = d - 1)]]

(* The topologies a board can declare, by every constructor.               *)
Topologies ==
  {individual_domains(n) : n \in 0 .. MaxChips} \cup {single_domain(n) : n \in 1 .. MaxChips}
  \cup {uniform_domains(d, 1) : d \in 1 .. MaxChips}
  \cup {t \in [1 .. MaxChips -> 0 .. MaxChips] : custom_ok(t)}

-----------------------------------------------------------------------------
(***************************************************************************)
(* The clock: calculate_pll and the ramp.                                  *)
(***************************************************************************)
Crystal == 100

bm1362 == [freq_min |-> 225, freq_max |-> 2100, default_freq |-> 2100, ramp_step |-> 25,
           fb_div_min |-> 16, fb_div_max |-> 250, vco_min |-> 8000, vco_max |-> 12800]
bm1370 == [freq_min |-> 225, freq_max |-> 2400, default_freq |-> 2100, ramp_step |-> 25,
           fb_div_min |-> 160, fb_div_max |-> 239, vco_min |-> 6400, vco_max |-> 12800]

Abs(n) == IF n < 0 THEN -n ELSE n

(* A divider setting of the search, its feedback divider rounded to the    *)
(* nearest for the target; `num / den' is its error.                       *)
Candidate(target, ref_div, post1, post2) ==
  LET den == ref_div * post1 * post2
      fb_div == (2 * den * target + Crystal) \div (2 * Crystal)
  IN [fb_div |-> fb_div, ref_div |-> ref_div, post1 |-> post1, post2 |-> post2,
      den |-> den, num |-> Abs(target * den - Crystal * fb_div)]

Usable(config, c) ==
  /\ c.fb_div \in config.fb_div_min .. config.fb_div_max
  /\ Crystal * c.fb_div >= config.vco_min * c.ref_div
  /\ Crystal * c.fb_div <= config.vco_max * c.ref_div
  /\ c.num < 4 * c.den

(* Mutant: of equal errors the highest VCO wins, and of others any.        *)
Better_by_vco(c, best) == c.fb_div * best.ref_div > best.fb_div * c.ref_div

(* A smaller error, or the same and a lower VCO.                           *)
Better(c, best) ==
  \/ c.num * best.den < best.num * c.den
  \/ c.num * best.den = best.num * c.den /\ c.fb_div * best.ref_div < best.fb_div * c.ref_div

(* The first of the best ones, in the order of the search.                 *)
SearchOrder ==
  LET posts == FlattenSeq([k \in 1 .. 7 |-> [j \in 1 .. 8 - k |-> <<8 - k, 9 - k - j>>]])
  IN [k \in 1 .. 2 * Len(posts) |->
        <<IF k <= Len(posts) THEN 2 ELSE 1, posts[1 + ((k - 1) % Len(posts))]>>]

calculate_pll(config, target) ==
  IF target \notin config.freq_min .. config.freq_max THEN <<>>
  ELSE FoldLeft(LAMBDA best, s :
                  LET c == Candidate(target, s[1], s[2][1], s[2][2])
                  IN IF Usable(config, c) /\ (best = <<>> \/ Better(c, best[1])) THEN <<c>> ELSE best,
                <<>>, SearchOrder)

(* generate_frequency_ramp_steps: the frequencies it asks for.             *)
generate_frequency_ramp_steps(config) ==
  LET whole == (config.default_freq - config.freq_min) \div config.ramp_step
      steps == [k \in 1 .. whole + 1 |-> config.freq_min + (k - 1) * config.ramp_step]
  IN IF Last(steps) < config.default_freq THEN Append(steps, config.default_freq) ELSE steps

-----------------------------------------------------------------------------
(***************************************************************************)
(* The bring-up.                                                           *)
(***************************************************************************)
Chip == 1 .. MaxChips
Checked == <<"MiscControl", "TicketMask", "PllDivider">>
Unaddressed == 0

VARIABLES
  topology,   \* the declared topology: the domain of each chain position
  present,    \* the number of chips on the chain
  phase,      \* where initialize_chain is
  at,         \* the position in the phase: a chip, or a read of the verification
  attempt,    \* of the current read, or 0
  found,      \* replies collected by the enumeration
  address,    \* the address each chip answers at
  adopted,    \* chips that took an address since ChainInactive
  holds,      \* the registers of each chip that have the written value
  line,       \* frames from the chips, in order
  replies,    \* the channel of register responses
  nonces,     \* reports in the channel of nonces, which nobody reads now
  reader_up,
  lost, reported

Chain == from_topology(topology)
chip_count == Len(Chain.chips)

chipVars == <<address, adopted, holds>>
wireVars == <<line, replies, nonces, reader_up, lost, reported>>
boardVars == <<topology, present>>
chainVars == <<boardVars, phase, at, attempt, found, chipVars, wireVars>>

ChainInit ==
  /\ topology \in Topologies /\ present \in 0 .. MaxChips
  /\ phase = "power" /\ at = 1 /\ attempt = 0 /\ found = 0
  /\ address = [c \in Chip |-> Unaddressed] /\ adopted = {} /\ holds = [c \in Chip |-> {}]
  /\ line = <<>> /\ replies = <<>> /\ nonces = 0 /\ reader_up = TRUE
  /\ lost = 0 /\ reported = 0

Goes(next_phase) == phase' = next_phase /\ at' = 1 /\ attempt' = 0

(* A frame to some chips; those in `deaf' do not get it.                   *)
Misses(deaf) == lost + Cardinality(deaf) <= MaxLost /\ lost' = lost + Cardinality(deaf)

Write(targets, reg) ==
  \E deaf \in SUBSET targets :
     /\ Misses(deaf)
     /\ holds' = [c \in Chip |-> IF c \in targets \ deaf THEN holds[c] \cup {reg} ELSE holds[c]]

OnChain == 1 .. present
Answering(a) == {c \in OnChain : address[c] = a}

(* Core voltage, reset line, version mask: any of them may fail.           *)
PowerUp ==
  /\ phase = "power" /\ (Goes("enumerate") \/ Goes("failed"))
  /\ UNCHANGED <<boardVars, found, chipVars, wireVars>>

drain_stale == replies' = <<>>

(* The chips' answers to a read, in chain order.                           *)
InChainOrder(chips) ==
  {order \in [1 .. Cardinality(chips) -> chips] :
     \A i, j \in 1 .. Cardinality(chips) : i < j => order[i] < order[j]}

Answer(c, reg) == [chip |-> address[c], reg |-> reg, ok |-> reg \in holds[c] \cup {"ChipId"}]

Answers(chips, reg) ==
  \E order \in InChainOrder(chips) :
     line' = line \o [k \in 1 .. Cardinality(chips) |-> Answer(order[k], reg)]

(* broadcast_read: drain, send, collect until it is quiet.                 *)
BroadcastRead ==
  /\ phase = "enumerate" /\ Goes("collect") /\ found' = 0
  /\ drain_stale
  /\ Answers(OnChain, "ChipId")
  /\ UNCHANGED <<boardVars, chipVars, nonces, reader_up, lost, reported>>

Collect ==
  /\ phase = "collect" /\ replies # <<>>
  /\ replies' = Tail(replies)
  /\ found' = IF Head(replies).reg = "ChipId" THEN found + 1 ELSE found
  /\ UNCHANGED <<boardVars, phase, at, attempt, chipVars, line, nonces, reader_up, lost, reported>>

(* A quiet window: the count must be the declared one.                     *)
Quiet ==
  /\ phase = "collect" /\ replies = <<>>
  /\ IF reader_up /\ found = chip_count THEN Goes("preconfigure") ELSE Goes("failed")
  /\ UNCHANGED <<boardVars, found, chipVars, wireVars>>

(* Broadcast soft reset and misc control, then ChainInactive.              *)
Preconfigure ==
  /\ phase = "preconfigure" /\ Goes(IF AddressesFit(topology) THEN "address" ELSE "failed")
  /\ Write(OnChain, "MiscControl")
  /\ adopted' = {}
  /\ UNCHANGED <<boardVars, found, address, line, replies, nonces, reader_up, reported>>

(* SetChipAddress: the first chip without one adopts it.                   *)
AddressChip ==
  /\ phase = "address" /\ at <= chip_count
  /\ at' = at + 1
  /\ LET free == OnChain \ adopted
     IN \E deaf \in {{}, free} :
          /\ Misses(IF deaf = {} THEN {} ELSE {Min(free)})
          /\ IF free = {} \/ deaf # {} THEN UNCHANGED <<address, adopted>>
             ELSE /\ address' = [address EXCEPT ![Min(free)] = Chain.chips[at].address]
                  /\ adopted' = adopted \cup {Min(free)}
  /\ UNCHANGED <<boardVars, phase, attempt, found, holds, line, replies, nonces, reader_up, reported>>

(* Broadcast clocks, ticket mask and drive strength.                       *)
ConfigureAll ==
  /\ phase = "address" /\ at > chip_count /\ Goes("chips")
  /\ Write(OnChain, "TicketMask")
  /\ UNCHANGED <<boardVars, found, address, adopted, line, replies, nonces, reader_up, reported>>

(* A chip's own soft reset, misc control, clocks and core enable.          *)
ConfigureChip ==
  /\ phase = "chips" /\ at <= chip_count
  /\ at' = at + 1
  /\ Write(Answering(Chain.chips[at].address), "MiscControl")
  /\ UNCHANGED <<boardVars, phase, attempt, found, address, adopted, line, replies, nonces,
                 reader_up, reported>>

(* The rest of the broadcasts and the ramp; a chip may not lock.           *)
Ramp ==
  /\ phase = "chips" /\ at > chip_count /\ Goes("verify")
  /\ Write(OnChain, "PllDivider")
  /\ UNCHANGED <<boardVars, found, address, adopted, line, replies, nonces, reader_up, reported>>

(* The reads of the verification, chip by chip.                            *)
ReadCount == chip_count * Len(Checked)
ReadChip(n) == Chain.chips[(n - 1) \div Len(Checked) + 1].address
ReadReg(n)  == Checked[1 + ((n - 1) % Len(Checked))]

Attempt(n) ==
  /\ attempt' = n
  /\ Answers(Answering(ReadChip(at)), ReadReg(at))

StartRead ==
  /\ phase = "verify" /\ attempt = 0 /\ at <= ReadCount
  /\ drain_stale /\ Attempt(1)
  /\ UNCHANGED <<boardVars, phase, at, found, chipVars, nonces, reader_up, lost, reported>>

Matches(r) == r.chip = ReadChip(at) /\ r.reg = ReadReg(at)

(* Mutant: a reply at the address is enough, its value is not compared.    *)
TakeReply_unchecked ==
  /\ phase = "verify" /\ attempt > 0 /\ replies # <<>>
  /\ replies' = Tail(replies)
  /\ IF Matches(Head(replies)) THEN at' = at + 1 /\ attempt' = 0 ELSE UNCHANGED <<at, attempt>>
  /\ UNCHANGED <<boardVars, phase, found, chipVars, line, nonces, reader_up, lost, reported>>

(* matching_response, and the comparison with what was written.            *)
TakeReply ==
  /\ phase = "verify" /\ attempt > 0 /\ replies # <<>>
  /\ replies' = Tail(replies)
  /\ LET r == Head(replies)
     IN IF ~Matches(r) THEN UNCHANGED <<phase, at, attempt>>
        ELSE IF r.ok THEN at' = at + 1 /\ attempt' = 0 /\ UNCHANGED phase
        ELSE Goes("failed")
  /\ UNCHANGED <<boardVars, found, chipVars, line, nonces, reader_up, lost, reported>>

(* Mutant: the last attempt waits for as long as it takes.                 *)
AttemptTimesOut_not_last ==
  /\ phase = "verify" /\ attempt \in 1 .. ATTEMPTS - 1 /\ Attempt(attempt + 1)
  /\ UNCHANGED <<boardVars, phase, at, found, chipVars, replies, nonces, reader_up, lost, reported>>

(* The deadline passes, whether or not a reply is on its way.              *)
AttemptTimesOut ==
  /\ phase = "verify" /\ attempt > 0
  /\ IF attempt < ATTEMPTS THEN Attempt(attempt + 1) /\ UNCHANGED <<phase, at>>
     ELSE Goes("failed") /\ UNCHANGED line
  /\ UNCHANGED <<boardVars, found, chipVars, replies, nonces, reader_up, lost, reported>>

ResponsesClosed ==
  /\ phase = "verify" /\ attempt > 0 /\ ~reader_up /\ replies = <<>> /\ Goes("failed")
  /\ UNCHANGED <<boardVars, found, chipVars, wireVars>>

Verified ==
  /\ phase = "verify" /\ attempt = 0 /\ at > ReadCount /\ Goes("up")
  /\ UNCHANGED <<boardVars, found, chipVars, wireVars>>

(* The command sink fails.                                                 *)
SendFails ==
  /\ phase \in {"enumerate", "preconfigure", "address", "chips"} \/ (phase = "verify" /\ attempt < ATTEMPTS)
  /\ Goes("failed")
  /\ UNCHANGED <<boardVars, found, chipVars, wireVars>>

-----------------------------------------------------------------------------
(***************************************************************************)
(* The reader's task: a response goes to its channel, and waits for room.  *)
(***************************************************************************)
Route ==
  /\ reader_up /\ line # <<>> /\ line' = Tail(line)
  /\ IF Head(line).reg = "nonce"
       THEN nonces < ChannelCapacity /\ nonces' = nonces + 1 /\ UNCHANGED replies
       ELSE Len(replies) < ChannelCapacity /\ replies' = Append(replies, Head(line))
            /\ UNCHANGED nonces
  /\ UNCHANGED <<boardVars, phase, at, attempt, found, chipVars, reader_up, lost, reported>>

(* The stream fails, and both channels close.                              *)
ReaderEnds ==
  /\ reader_up /\ reader_up' = FALSE /\ line' = <<>>
  /\ UNCHANGED <<boardVars, phase, at, attempt, found, chipVars, replies, nonces, lost, reported>>

LoseResponse ==
  /\ line # <<>> /\ line' = Tail(line)
  /\ lost < MaxLost /\ lost' = lost + 1
  /\ UNCHANGED <<boardVars, phase, at, attempt, found, chipVars, replies, nonces, reader_up, reported>>

NonceReport ==
  /\ present > 0 /\ reported < MaxNonces /\ reported' = reported + 1
  /\ phase \notin {"power", "up", "failed"}
  /\ line' = Append(line, [chip |-> 0, reg |-> "nonce", ok |-> TRUE])
  /\ UNCHANGED <<boardVars, phase, at, attempt, found, chipVars, replies, nonces, reader_up, lost>>

BringUpNext ==
  \/ PowerUp
  \/ BroadcastRead
  \/ Collect
  \/ Quiet
  \/ Preconfigure
  \/ AddressChip
  \/ ConfigureAll
  \/ ConfigureChip
  \/ Ramp
  \/ StartRead
  \/ TakeReply
  \/ AttemptTimesOut
  \/ ResponsesClosed
  \/ Verified
  \/ SendFails

WireNext == Route \/ ReaderEnds \/ LoseResponse \/ NonceReport

ChainNext == BringUpNext \/ WireNext
ChainSpec == ChainInit /\ [][ChainNext]_chainVars

(* The actor goes on with the bring-up: its sends and timers complete.     *)
ChainFairSpec == ChainSpec /\ WF_chainVars(BringUpNext)

-----------------------------------------------------------------------------
(***************************************************************************)
(* Properties.                                                             *)
(***************************************************************************)

(* A chain that comes up answers at every declared address with a chip     *)
(* that holds what was written, whatever was lost and however late the     *)
(* replies of earlier attempts and reads came.                             *)
UpMeansConfigured ==
  phase = "up" =>
    \A k \in 1 .. chip_count, n \in DOMAIN Checked :
       \E c \in Answering(Chain.chips[k].address) : Checked[n] \in holds[c]

(* The bring-up comes to an end, also when no reply arrives because the    *)
(* reader waits for room among the nonces.                                 *)
BringUpEnds == <>(phase \in {"up", "failed"})

(* Before the chips are powered: the ramp that this bring-up will make has *)
(* a clock setting for every step, within the limits of the PLL; its       *)
(* frequency never falls, rises by no more than a step and the error of    *)
(* two settings, and ends on the default frequency; and no other usable    *)
(* setting comes closer.                                                   *)
RampSound ==
  phase = "power" =>
  \A config \in {bm1362, bm1370} :
    LET asked == generate_frequency_ramp_steps(config)
        pll == [k \in DOMAIN asked |-> calculate_pll(config, asked[k])]
        Freq(c) == Crystal * c.fb_div
    IN /\ \A k \in DOMAIN pll :
            /\ pll[k] # <<>> /\ Usable(config, pll[k][1])
            /\ \A s \in Range(SearchOrder) :
                 LET c == Candidate(asked[k], s[1], s[2][1], s[2][2])
                 IN Usable(config, c) => c.num * pll[k][1].den >= pll[k][1].num * c.den
       /\ \A k \in 2 .. Len(pll) :
            LET a == pll[k - 1][1]
                b == pll[k][1]
            IN /\ Freq(a) * b.den <= Freq(b) * a.den
               /\ Freq(b) * a.den - Freq(a) * b.den <= (config.ramp_step + 4) * a.den * b.den
       /\ Last(pll)[1].num = 0
=============================================================================
