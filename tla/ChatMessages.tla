---------------------------- MODULE ChatMessages ----------------------------
(***************************************************************************)
(* What the members of the room receive: the two announcements of          *)
(* BroadcastEncrypted and a forwarded packet, told apart by its sender.    *)
(***************************************************************************)
Connected(n)    == [kind |-> "connected", who |-> n]
Disconnected(n) == [kind |-> "disconnected", who |-> n]
Chat(n)         == [kind |-> "chat", who |-> n]

Messages(N) == [kind : {"connected", "disconnected", "chat"}, who : N]
=============================================================================
