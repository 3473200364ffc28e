------------------------------ MODULE MCRelay ------------------------------
(***************************************************************************)
(* Two members on connections that hold less than a packet.  Lengths take  *)
(* two binary digits, so that a header cut short means an empty packet for *)
(* one text and a wrong length for another.                                *)
(***************************************************************************)
EXTENDS Relay

MCTexts    == {"a1", "a2", "b1", "aLeft", "bLeft"}
MCSize     == [t \in MCTexts |-> IF t \in {"a1", "aLeft"} THEN 2 ELSE 1]
MCClients  == {"a", "b"}
MCScript   == [a |-> <<"a1", "a2">>, b |-> <<"b1">>]
MCFarewell == [a |-> "aLeft", b |-> "bLeft"]
=============================================================================
