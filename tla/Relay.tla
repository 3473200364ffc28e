------------------------------- MODULE Relay -------------------------------
(***************************************************************************)
(* The way of a line from the client that typed it to the screens of all   *)
(* members, byte for byte: ClientLoop and HandleBroadcast of every client, *)
(* the server's loop, and socket buffers of BufSize bytes between them.    *)
(*                                                                         *)
(* All clients have joined and read what was announced so far.  The server *)
(* is inside a blocking call most of the time: it reads a packet to its    *)
(* end before it looks at another client, and a send() waits for room in   *)
(* the buffer.  It forwards packets without opening them.                  *)
(***************************************************************************)
EXTENDS Framing, SequencesExt

CONSTANTS
    Clients,
    Script,    \* the lines each user types, in order
    Farewell,  \* the text that announces the departure of each client
    BufSize    \* bytes a connection holds in one direction

ASSUME RelayAssumption ==
    /\ Script \in [Clients -> Seq(Texts)]
    /\ Farewell \in [Clients -> Texts]
    /\ BufSize \in Nat \ {0}

NoClient == "noclient"

VARIABLES
    up, down,   \* bytes under way from and to each client
    open,       \* clients whose socket is open
    reset,      \* clients whose kernel answered with a RST, as an error that
                \* no call of the server has reported yet
    dead,       \* clients to whom a send() of the server raises SIGPIPE
    \* the clients
    said,       \* how many lines of its script a client has begun to send
    out,        \* bytes of the current line send_all has yet to send
    crx,        \* bytes of the current packet RecvPacket has got
    read,       \* packets RecvPacket returned
    m_exitReason,
    cutOff,     \* clients that were cut off before all of a packet had reached the server
    \* the server
    registered,
    pc,         \* "wait", "recv", "send", or "dead" once it ended
    cur,        \* the client RecvPacket reads from
    srx,        \* bytes of its packet RecvPacket has got
    heard,      \* packets RecvPacket returned, for each client
    pkt,        \* the packet that goes to the members
    todo,       \* members it has yet to go to
    to, sout,   \* the member send_all is at, and what it has yet to send
    failed,     \* members to disconnect when the packet is sent
    told        \* packets SendPacket was called with, for each client

connVars   == <<open, reset, dead>>
netVars    == <<up, down, connVars>>
clientVars == <<said, out, crx, read, m_exitReason, cutOff>>
recvVars   == <<cur, srx, heard>>
sendVars   == <<pkt, todo, to, sout, told>>
serverVars == <<registered, pc, recvVars, sendVars, failed>>
vars       == <<netVars, clientVars, serverVars>>

Init ==
    /\ up = [c \in Clients |-> <<>>] /\ down = up
    /\ open = Clients /\ reset = {} /\ dead = {}
    /\ said = [c \in Clients |-> 0] /\ out = up /\ crx = up /\ read = up
    /\ m_exitReason = [c \in Clients |-> "None"] /\ cutOff = {}
    /\ registered = Clients /\ pc = "wait"
    /\ cur = NoClient /\ srx = <<>> /\ heard = up
    /\ pkt = <<>> /\ todo = {} /\ to = NoClient /\ sout = <<>> /\ failed = {} /\ told = up
-----------------------------------------------------------------------------
(* ClientLoop.                                                             *)

\* Mutant: the buffer with the encrypted text is filled only once.
SubmitLineKept(c) ==
    /\ c \in open /\ out[c] = <<>> /\ said[c] < Len(Script[c])
    /\ said' = [said EXCEPT ![c] = @ + 1]
    /\ out' = [out EXCEPT ![c] = Frame(Sealed(Script[c][1]))]
    /\ UNCHANGED <<netVars, crx, read, m_exitReason, cutOff, serverVars>>

\* A line is submitted: SendEncrypted, up to send_all.
SubmitLine(c) ==
    /\ c \in open /\ out[c] = <<>> /\ said[c] < Len(Script[c])
    /\ said' = [said EXCEPT ![c] = @ + 1]
    /\ out' = [out EXCEPT ![c] = Frame(Sealed(Script[c][said'[c]]))]
    /\ UNCHANGED <<netVars, crx, read, m_exitReason, cutOff, serverVars>>

\* Mutant: send_all takes what one send() took for everything.
ClientSendOnce(c) ==
    /\ c \in open /\ out[c] # <<>> /\ Len(up[c]) < BufSize
    /\ up' = [up EXCEPT ![c] = Append(@, Head(out[c]))]
    /\ out' = [out EXCEPT ![c] = <<>>]
    /\ UNCHANGED <<down, connVars, said, crx, read, m_exitReason, cutOff, serverVars>>

\* send_all moves a byte at least in every round, and waits for room.
ClientSend(c) ==
    /\ c \in open /\ out[c] # <<>> /\ Len(up[c]) < BufSize
    /\ up' = [up EXCEPT ![c] = Append(@, Head(out[c]))]
    /\ out' = [out EXCEPT ![c] = Tail(@)]
    /\ UNCHANGED <<down, connVars, said, crx, read, m_exitReason, cutOff, serverVars>>

\* The process ends, or Stop closes its socket: what it had yet to send and
\* to read is lost.
CloseSocket(c) ==
    /\ open' = open \ {c}
    /\ down' = [down EXCEPT ![c] = <<>>]
    /\ out' = [out EXCEPT ![c] = <<>>]
    /\ crx' = [crx EXCEPT ![c] = <<>>]
    /\ cutOff' = IF out[c] # <<>> THEN cutOff \cup {c} ELSE cutOff
    /\ UNCHANGED <<reset, dead>>

\* /exit, or a signal at any moment.
Leave(c) ==
    /\ c \in open
    /\ CloseSocket(c)
    /\ UNCHANGED <<up, said, read, m_exitReason, serverVars>>

\* Bytes that reach a closed socket are answered with a RST ...
ResetLate(c) ==
    /\ c \notin open \cup reset \cup dead
    /\ dead' = dead \cup {c}
    /\ UNCHANGED <<up, down, open, reset, clientVars, serverVars>>

\* ... and so is a close() that leaves bytes unread.  That drops what did not
\* reach the server yet, which can read the rest.
Reset(c) ==
    /\ c \notin open \cup reset \cup dead
    /\ reset' = reset \cup {c}
    /\ \E n \in 0 .. Len(up[c]) :
          /\ up' = [up EXCEPT ![c] = SubSeq(@, 1, n)]
          /\ cutOff' = IF n < Len(up[c]) THEN cutOff \cup {c} ELSE cutOff
    /\ UNCHANGED <<down, open, dead, said, out, crx, read, m_exitReason, serverVars>>
-----------------------------------------------------------------------------
(* HandleBroadcast.                                                        *)

\* Mutant: the client does not read while it sends.
ClientRecvIdle(c) ==
    /\ c \in open /\ down[c] # <<>> /\ Wanted(crx[c]) > 0 /\ out[c] = <<>>
    /\ crx' = [crx EXCEPT ![c] = Append(@, Head(down[c]))]
    /\ down' = [down EXCEPT ![c] = Tail(@)]
    /\ UNCHANGED <<up, connVars, said, out, read, m_exitReason, cutOff, serverVars>>

ClientRecv(c) ==
    /\ c \in open /\ down[c] # <<>> /\ Wanted(crx[c]) > 0
    /\ crx' = [crx EXCEPT ![c] = Append(@, Head(down[c]))]
    /\ down' = [down EXCEPT ![c] = Tail(@)]
    /\ UNCHANGED <<up, connVars, said, out, read, m_exitReason, cutOff, serverVars>>

\* RecvDecrypted gives nothing: that is taken for the end of the connection.
ServerClosed(c) ==
    /\ m_exitReason' = [m_exitReason EXCEPT ![c] = "ServerClosed"]
    /\ CloseSocket(c)

\* RecvPacket returns a packet.  One that opens goes to the screen.
ClientPacket(c) ==
    /\ c \in open /\ Wanted(crx[c]) = 0
    /\ read' = [read EXCEPT ![c] = Append(@, Body(crx[c]))]
    /\ IF Opens(Body(crx[c]))
       THEN crx' = [crx EXCEPT ![c] = <<>>] /\ UNCHANGED <<netVars, out, m_exitReason, cutOff>>
       ELSE ServerClosed(c) /\ UNCHANGED up
    /\ UNCHANGED <<said, serverVars>>

\* The server ended, in the middle of a packet or between two.  After a RST
\* recv() may fail: RecvPacket returns nothing then.
ClientEof(c) ==
    /\ c \in open /\ pc = "dead" /\ down[c] = <<>> /\ Wanted(crx[c]) > 0
    /\ \/ UNCHANGED read
       \/ \E p \in ReturnedAtEnd(crx[c]) : read' = [read EXCEPT ![c] = Append(@, p)]
    /\ ServerClosed(c)
    /\ UNCHANGED <<up, said, serverVars>>
-----------------------------------------------------------------------------
(* The server: EventLoop, and HandleClientEvent for registered clients.    *)

\* An event is left for a client with bytes, or without a connection.
Dispatch(c) ==
    /\ pc = "wait" /\ c \in registered /\ (up[c] # <<>> \/ c \notin open)
    /\ pc' = "recv" /\ cur' = c /\ srx' = <<>>
    /\ UNCHANGED <<netVars, clientVars, registered, heard, sendVars, failed>>

ServerRecv ==
    /\ pc = "recv" /\ up[cur] # <<>> /\ Wanted(srx) > 0
    /\ srx' = Append(srx, Head(up[cur]))
    /\ up' = [up EXCEPT ![cur] = Tail(@)]
    /\ UNCHANGED <<down, connVars, clientVars, registered, pc, cur, heard, sendVars, failed>>

\* The loops over m_clients begin.
SendToAll(p, members) ==
    /\ pc' = "send" /\ pkt' = p /\ todo' = members
    /\ UNCHANGED <<to, sout, told>>

Forward(p) ==
    /\ heard' = [heard EXCEPT ![cur] = Append(@, p)]
    /\ srx' = <<>> /\ cur' = NoClient
    /\ SendToAll(p, registered)
    /\ UNCHANGED <<netVars, clientVars, registered, failed>>

ForwardPacket == pc = "recv" /\ Wanted(srx) = 0 /\ Forward(Body(srx))

\* The connection ended: recv() reports the RST, or returns 0.
RecvEnds == pc = "recv" /\ cur \notin open /\ up[cur] = <<>> /\ Wanted(srx) > 0

ForwardDamaged ==
    /\ RecvEnds /\ cur \notin reset
    /\ \E p \in ReturnedAtEnd(srx) : Forward(p)

\* Mutant: the client is announced to before it is erased.
DisconnectLate(c) ==
    /\ registered' = registered \ {c}
    /\ SendToAll(Sealed(Farewell[c]), registered)

\* DisconnectClient, and the announcement to those that remain.
Disconnect(c) ==
    /\ registered' = registered \ {c}
    /\ SendToAll(Sealed(Farewell[c]), registered')

LostClient ==
    /\ RecvEnds
    /\ cur \in reset \/ ReturnedAtEnd(srx) = {}
    /\ Disconnect(cur)
    /\ srx' = <<>> /\ cur' = NoClient
    /\ UNCHANGED <<netVars, clientVars, heard, failed>>

\* Mutant: the next member is served before the packet went out.
NextMemberEarly(c) ==
    /\ pc = "send" /\ c \in todo
    /\ todo' = todo \ {c} /\ to' = c /\ sout' = Frame(pkt)
    /\ told' = [told EXCEPT ![c] = Append(@, pkt)]
    /\ UNCHANGED <<netVars, clientVars, registered, pc, recvVars, pkt, failed>>

\* Mutant: the loop stays at the member it has served.
NextMemberAgain(c) ==
    /\ pc = "send" /\ sout = <<>> /\ c \in todo
    /\ to' = c /\ sout' = Frame(pkt)
    /\ told' = [told EXCEPT ![c] = Append(@, pkt)]
    /\ UNCHANGED <<netVars, clientVars, registered, pc, recvVars, pkt, todo, failed>>

NextMember(c) ==
    /\ pc = "send" /\ sout = <<>> /\ c \in todo
    /\ todo' = todo \ {c} /\ to' = c /\ sout' = Frame(pkt)
    /\ told' = [told EXCEPT ![c] = Append(@, pkt)]
    /\ UNCHANGED <<netVars, clientVars, registered, pc, recvVars, pkt, failed>>

ServerSend ==
    /\ sout # <<>> /\ to \in open /\ Len(down[to]) < BufSize
    /\ down' = [down EXCEPT ![to] = Append(@, Head(sout))]
    /\ sout' = Tail(sout)
    /\ UNCHANGED <<up, connVars, clientVars, registered, pc, recvVars, pkt, todo, to, failed,
                   told>>

\* The packet is one of BroadcastEncrypted.
Announcing == \E c \in Clients : pkt = Sealed(Farewell[c])

\* The member has gone, and the bytes get lost.
ServerSendLost ==
    /\ sout # <<>> /\ to \notin open \cup reset \cup dead
    /\ sout' = <<>>
    /\ UNCHANGED <<netVars, clientVars, registered, pc, recvVars, pkt, todo, to, failed, told>>

\* send() reports the RST, which the loop of BroadcastEncrypted remembers
\* and the forwarding loop ignores.
ServerSendFails ==
    /\ sout # <<>> /\ to \in reset
    /\ sout' = <<>>
    /\ reset' = reset \ {to} /\ dead' = dead \cup {to}
    /\ failed' = IF Announcing THEN failed \cup {to} ELSE failed
    /\ UNCHANGED <<up, down, open, clientVars, registered, pc, recvVars, pkt, todo, to, told>>

\* The process ends.  A connection with bytes it did not read is reset: the
\* client gets no more than a part of what was under way.
ServerEnds ==
    /\ pc # "dead"
    /\ pc' = "dead" /\ sout' = <<>> /\ todo' = {} /\ failed' = {}
    /\ \E n \in [Clients -> 0 .. BufSize] :
          /\ \A c \in Clients : n[c] = Len(down[c]) \/ (n[c] < Len(down[c]) /\ up[c] # <<>>)
          /\ down' = [c \in Clients |-> SubSeq(down[c], 1, n[c])]
    /\ UNCHANGED <<up, connVars, clientVars, registered, recvVars, pkt, to, told>>

\* send() raises SIGPIPE.
ServerKilled == sout # <<>> /\ to \in dead /\ ServerEnds

AllSent == pc = "send" /\ sout = <<>> /\ todo = {}

\* Mutant: the rest of the members is forgotten.
SendDoneEarly ==
    /\ pc = "send" /\ sout = <<>> /\ failed = {}
    /\ pc' = "wait" /\ to' = NoClient /\ pkt' = <<>> /\ todo' = {}
    /\ UNCHANGED <<netVars, clientVars, registered, recvVars, sout, failed, told>>

SendDone ==
    /\ AllSent /\ failed = {}
    /\ pc' = "wait" /\ to' = NoClient /\ pkt' = <<>>
    /\ UNCHANGED <<netVars, clientVars, registered, recvVars, todo, sout, failed, told>>

\* The removeList, in any order.
RemoveFailed(c) ==
    /\ AllSent /\ c \in failed
    /\ failed' = failed \ {c}
    /\ IF c \in registered THEN Disconnect(c) ELSE UNCHANGED <<registered, pc, sendVars>>
    /\ UNCHANGED <<netVars, clientVars, recvVars>>

ServerStep ==
    \/ ServerRecv \/ ForwardPacket \/ ForwardDamaged \/ LostClient
    \/ ServerSend \/ ServerSendLost \/ ServerSendFails \/ ServerKilled \/ SendDone
    \/ \E c \in Clients : Dispatch(c) \/ NextMember(c) \/ RemoveFailed(c)
-----------------------------------------------------------------------------
(* The specification.                                                      *)

HandleBroadcast(c) == ClientRecv(c) \/ ClientPacket(c) \/ ClientEof(c)

Next ==
    \/ ServerStep \/ ServerEnds
    \/ \E c \in Clients : SubmitLine(c) \/ ClientSend(c) \/ HandleBroadcast(c)
                          \/ Leave(c) \/ Reset(c) \/ ResetLate(c)

Spec == Init /\ [][Next]_vars

\* The server and both threads of every client run whenever they can; users
\* need not type or leave, nothing has to end the server, and a RST may take
\* any time.
Fairness ==
    /\ WF_vars(ServerStep)
    /\ \A c \in Clients : WF_vars(ClientSend(c)) /\ WF_vars(HandleBroadcast(c))

FairSpec == Spec /\ Fairness
-----------------------------------------------------------------------------
(* Properties.                                                             *)

TypeOK ==
    /\ up \in [Clients -> Seq(Bytes)] /\ down \in [Clients -> Seq(Bytes)]
    /\ open \subseteq Clients
    /\ reset \subseteq Clients \ open /\ dead \subseteq (Clients \ open) \ reset
    /\ said \in [Clients -> Nat]
    /\ out \in [Clients -> Seq(Bytes)] /\ crx \in [Clients -> Seq(Bytes)]
    /\ read \in [Clients -> Seq(Seq(Bytes))]
    /\ m_exitReason \in [Clients -> {"None", "ServerClosed"}]
    /\ cutOff \subseteq Clients \ open
    /\ registered \subseteq Clients
    /\ pc \in {"wait", "recv", "send", "dead"}
    /\ cur \in Clients \cup {NoClient} /\ srx \in Seq(Bytes)
    /\ heard \in [Clients -> Seq(Seq(Bytes))] /\ told \in [Clients -> Seq(Seq(Bytes))]
    /\ pkt \in Seq(Bytes) /\ todo \subseteq registered
    /\ to \in Clients \cup {NoClient} /\ sout \in Seq(Bytes)
    /\ failed \subseteq Clients

\* Both directions of every connection are packet channels: no send that
\* takes several rounds, no read across two packets and no connection that
\* ends in between makes anyone see part of a packet, or two mixed, apart
\* from the packet in which a sender was cut off, and nothing comes after it.
AnyPacket == {Sealed(t) : t \in Texts} \cup UNION {DamagedForms(Sealed(t)) : t \in Texts}

Links == {"from", "to"} \X Clients

Channels ==
    INSTANCE PacketChannel WITH
        Packets <- AnyPacket, Damaged <- DamagedForms,
        sent <- [l \in Links |-> IF l[1] = "to" THEN told[l[2]]
                                ELSE [i \in 1 .. said[l[2]] |-> Sealed(Script[l[2]][i])]],
        got <- [l \in Links |-> IF l[1] = "to" THEN read[l[2]] ELSE heard[l[2]]],
        closed <- {l \in Links : IF l[1] = "to" THEN pc = "dead" ELSE l[2] \notin open}

ImplementsChannels == Channels!Spec

\* Two members show the same lines in the same order, one of them perhaps
\* fewer so far: the server finishes one packet for everybody before it
\* reads another.  HandleBroadcast shows what it reads up to the first packet
\* that does not open.
Shown(c) == [i \in {i \in DOMAIN read[c] : \A j \in 1 .. i : Opens(read[c][j])}
                |-> TextOf(read[c][i])]
SameLines ==
    \A c, d \in Clients : IsPrefix(Shown(c), Shown(d)) \/ IsPrefix(Shown(d), Shown(c))

\* What a member is told is what the server heard, in the order of each
\* sender, and the farewells of those that left.  Nothing is invented,
\* repeated or left out, and nobody is heard of after its farewell.
\* <<c, k>> stands for the k-th packet of c, and for its farewell if k = 0.
Origins == UNION {{c} \X (0 .. Len(heard[c])) : c \in Clients}

StandsFor(p, o) ==
    IF o[2] = 0 THEN o[1] \notin registered /\ p = Sealed(Farewell[o[1]])
                ELSE p = heard[o[1]][o[2]]

Earlier(o) == {o[1]} \X (IF o[2] = 0 THEN 1 .. Len(heard[o[1]]) ELSE 1 .. o[2] - 1)

Traced(s, origin) ==
    \A i \in 1 .. Len(s) :
        /\ StandsFor(s[i], origin[i])
        /\ \A o \in Earlier(origin[i]) : \E j \in 1 .. i - 1 : origin[j] = o

ToldOnce ==
    \A c \in Clients :
        \E origin \in Injection(1 .. Len(told[c]), Origins) : Traced(told[c], origin)

\* From the keyboard to the screens: what a member shows of a user is what
\* that user typed, from the first line on, in order, without a gap or a
\* repetition, and the farewell when the user is gone, behind all that was
\* heard of it.
AsTyped(text, o) ==
    IF o[2] = 0 THEN o[1] \notin registered /\ text = Farewell[o[1]]
                ELSE o[2] <= said[o[1]] /\ text = Script[o[1]][o[2]]

LinesAsTyped ==
    \A c \in Clients :
        \E origin \in Injection(DOMAIN Shown(c), Origins) :
            \A i \in DOMAIN Shown(c) :
                /\ AsTyped(Shown(c)[i], origin[i])
                /\ \A o \in Earlier(origin[i]) : \E j \in 1 .. i - 1 : origin[j] = o

\* A client tells its user that the server closed the connection only if
\* the server ended, or some member was cut off in the middle of a packet:
\* nothing else makes a packet that does not open, however slow and small
\* the buffers are.
EndsOnlyByCut ==
    (\E c \in Clients : m_exitReason[c] # "None") => pc = "dead" \/ cutOff # {}

\* A line that was submitted is shown by everyone who stays, unless its
\* sender leaves or the server ends: blocking sends into full buffers do not
\* wait for each other, because HandleBroadcast reads while ClientLoop sends.
Delivered ==
    \A c \in Clients : \A i \in 1 .. Len(Script[c]) :
        (said[c] >= i) ~> \/ c \notin open \/ pc = "dead"
                          \/ \A d \in open : \E j \in DOMAIN Shown(d) : Shown(d)[j] = Script[c][i]
=============================================================================
