----------------------------- MODULE MCBringUp -----------------------------
(***************************************************************************)
(* The way from a plugged-in device to a working chain of chips, for TLC:  *)
(* enumeration (Startup) and the bring-up of a chain (ChipChain).  They    *)
(* share no state, so a behaviour runs one of them, from its own initial   *)
(* states, while the other has ended.                                      *)
(***************************************************************************)
EXTENDS Startup, ChipChain

Gamma == [vid |-> 1, pid |-> 1, bcd |-> 1280, manufacturer |-> <<"OSMU">>,
          product |-> <<"Bitaxe">>, serial |-> <<"a">>]
Mouse == [vid |-> 1, pid |-> 2, bcd |-> 256, manufacturer |-> <<>>, product |-> <<>>,
          serial |-> <<>>]
Infos == [d \in Devices |-> IF d = "gamma" THEN Gamma ELSE Mouse]

VARIABLE part

(* The miner was shut down before any device was there.                    *)
StartupOver ==
  /\ transports = {} /\ plugged = {} /\ plugs = 0 /\ hotplug = <<>>
  /\ usb = "ended" /\ scan = {} /\ known = {} /\ announced = {} /\ starting = {}
  /\ channel = [t \in Transport |-> <<>>]
  /\ bp = "ended" /\ current = Nobody /\ port_attempt = 0 /\ boards = {} /\ completed = {}
  /\ completion_sent = FALSE /\ running = {} /\ failed = {}
  /\ regs = <<>> /\ registered = {} /\ enumerated = FALSE /\ shutdown = TRUE

(* The chain had no power.                                                 *)
ChainOver ==
  /\ topology = CHOOSE t \in Topologies : TRUE
  /\ present = 0 /\ phase = "failed" /\ at = 1 /\ attempt = 0 /\ found = 0
  /\ address = [c \in Chip |-> Unaddressed] /\ adopted = {} /\ holds = [c \in Chip |-> {}]
  /\ line = <<>> /\ replies = <<>> /\ nonces = 0 /\ reader_up = TRUE
  /\ lost = 0 /\ reported = 0

PartsInit ==
  \/ part = "startup" /\ Init /\ ChainOver
  \/ part = "chain" /\ StartupOver /\ ChainInit

PartsNext ==
  /\ UNCHANGED part
  /\ \/ part = "startup" /\ Next /\ UNCHANGED chainVars
     \/ part = "chain" /\ ChainNext /\ UNCHANGED vars

BringUpSpec ==
  /\ PartsInit /\ [][PartsNext]_<<part, vars, chainVars>>
  /\ Fairness /\ WF_chainVars(BringUpNext)
=============================================================================
