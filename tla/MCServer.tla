------------------------------ MODULE MCServer ------------------------------
(***************************************************************************)
(* Instances of the server for TLC.  Descriptors and names are model       *)
(* values that only equality tells apart, so runs without temporal         *)
(* properties use them as symmetry sets.                                   *)
(***************************************************************************)
EXTENDS ServerRoom, TLC

CONSTANTS f1, f2, f3, n1, n2, n3

MCSymmetry2 == Permutations({f1, f2}) \cup Permutations({n1,n2})
MCSymmetry3 == Permutations({f1, f2, f3}) \cup Permutations({n1,n2,n3})

\* What a client of this repository sends, and what any peer may send.
ClientPackets == {"pk"} \cup Names
AnyPackets    == Packets
=============================================================================
