----------------------------- MODULE MCStartup -----------------------------
(* Instances of Startup for TLC.                                           *)
EXTENDS Startup

Gamma == [vid |-> 1, pid |-> 1, bcd |-> 1280, manufacturer |-> <<"OSMU">>,
          product |-> <<"Bitaxe">>, serial |-> <<"a">>]
Mouse == [vid |-> 1, pid |-> 2, bcd |-> 256, manufacturer |-> <<>>, product |-> <<>>,
          serial |-> <<>>]
Infos == [d \in Devices |-> IF d = "gamma" THEN Gamma ELSE Mouse]
=============================================================================
