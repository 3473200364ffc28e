------------------------------ MODULE Framing ------------------------------
(***************************************************************************)
(* The packets of network_session.cpp: a length header in network byte     *)
(* order and the data, over a stream that may end anywhere.                *)
(*                                                                         *)
(* A byte is a digit of a length, in base Base, or the i-th byte of a      *)
(* sealed text.  Size says how many bytes the text has once it is sealed,  *)
(* nonce and MAC included.                                                 *)
(***************************************************************************)
EXTENDS Integers, Sequences

CONSTANTS
    HeaderSize,  \* sizeof netLen
    Base,        \* values of a byte
    Texts,       \* the texts that get sealed
    Size         \* bytes of each text after sealing

\* Power[k] numbers fit into k bytes.
Power[k \in Nat] == IF k = 0 THEN 1 ELSE Base * Power[k - 1]

ASSUME FramingAssumption ==
    /\ HeaderSize \in Nat \ {0} /\ Base \in Nat \ {0, 1}
    /\ Size \in [Texts -> 1 .. Power[HeaderSize] - 1]

Bytes     == [of : Texts \cup {"length"}, at : Nat]
Digit(d)  == [of |-> "length", at |-> d]
Zeroes(n) == [i \in 1 .. n |-> Digit(0)]

\* What crypto_secretbox_easy makes of a text.  crypto_secretbox_open_easy
\* opens these bytes and no others.
Sealed(t) == [i \in 1 .. Size[t] |-> [of |-> t, at |-> i]]
Opens(p)  == \E t \in Texts : p = Sealed(t)
TextOf(p) == CHOOSE t \in Texts : p = Sealed(t)

\* htonl, and ntohl, its inverse, of a netLen whose last bytes were never
\* written over its initial 0.
Header(n) == [i \in 1 .. HeaderSize |-> Digit((n \div Power[HeaderSize - i]) % Base)]
Length(h) == CHOOSE n \in 0 .. Power[HeaderSize] - 1 :
                Header(n) = h \o Zeroes(HeaderSize - Len(h))

\* The buffer of SendPacket.
Frame(data) == Header(Len(data)) \o data

\* Of the bytes rx that RecvPacket has got of a packet.
InHeader(rx) == Len(rx) < HeaderSize
Body(rx)     == SubSeq(rx, HeaderSize + 1, Len(rx))

\* How many bytes it still asks recv() for.
Wanted(rx) == IF InHeader(rx) THEN HeaderSize - Len(rx)
              ELSE Length(SubSeq(rx, 1, HeaderSize)) - Len(Body(rx))

\* What RecvPacket returns when recv() returns 0 before the packet is
\* complete, as a set that is empty for nullopt: recv_all counts what it has
\* as a success.
ReturnedAtEnd(rx) ==
    CASE rx # <<>> /\ InHeader(rx) /\ Length(rx) = 0 -> {<<>>}
      [] Body(rx) # <<>>                              -> {Body(rx) \o Zeroes(Wanted(rx))}
      [] OTHER                                        -> {}

\* What RecvPacket may return for a packet p that was cut short.
DamagedForms(p) == {<<>>} \cup {SubSeq(p, 1, k) \o Zeroes(Len(p) - k) : k \in 1 .. Len(p) - 1}
=============================================================================
