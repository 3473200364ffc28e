------------------------------ MODULE MCClient ------------------------------
(***************************************************************************)
(* Instances of the client for TLC.                                        *)
(***************************************************************************)
EXTENDS Client

\* What the server of this repository may send, or forward from another
\* client; and a server all of whose members behave.
AnyRoomPackets  == ClientPackets
FairRoomPackets == {"text", "taken"}
=============================================================================
