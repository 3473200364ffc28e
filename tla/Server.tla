------------------------------- MODULE Server -------------------------------
(***************************************************************************)
(* The chat server: the single-threaded epoll loop of server/src/server.cpp*)
(* with its registry of clients and the nested broadcasts a failing send   *)
(* triggers, running against peers that connect, send packets, close and   *)
(* reset at any moment.                                                    *)
(*                                                                         *)
(* A handler is one thread of control, but its system calls interleave     *)
(* with the network, so every call that may meet a connection that has     *)
(* changed in the meantime is a step of its own.  BroadcastEncrypted and   *)
(* DisconnectClient call each other; their activations are the frames of   *)
(* the variable stack.                                                     *)
(***************************************************************************)
EXTENDS Integers, Sequences, FiniteSets, TcpEndpoint, ChatMessages

CONSTANTS
    Fds,          \* descriptors accept() may return
    Names,        \* the texts a sealed packet may open to
    PeerPackets,  \* the packets the peers of a run send
    MutexBlocks,  \* locking a std::mutex the thread already holds blocks
    MAX_EXENTS,   \* size of the array given to epoll_wait
    MaxConns,     \* bound: connections made
    MaxPackets,   \* bound: packets the peers begin
    MaxInbox      \* bound: packets waiting unread on one connection

(***************************************************************************)
(* A packet is what HandleClientEvent can tell apart of it: 32 bytes that  *)
(* crypto_box_easy accepts or rejects as a public key ("pk", "weakpk"),    *)
(* fewer bytes than a nonce ("short"), a sealed box that does not open     *)
(* under the group key ("junk"), or one that opens to a text of Names.     *)
(***************************************************************************)
RawPackets == {"pk", "weakpk", "short", "junk"}
Packets    == RawPackets \cup Names
NullOpt    == "nullopt"
Listen     == "listen"
NoFd       == -1
NoName     == ""

ASSUME ServerAssumption ==
    /\ IsFiniteSet(Fds)
    /\ NoFd \notin Fds /\ Listen \notin Fds
    /\ Names \cap (RawPackets \cup {NullOpt, NoName}) = {}
    /\ PeerPackets \subseteq Packets
    /\ MutexBlocks \in BOOLEAN
    /\ MAX_EXENTS \in Nat \ {0}
    /\ {MaxConns, MaxPackets, MaxInbox} \subseteq Nat

VARIABLES
    \* the kernel and the peers
    tcp,             \* the server's end of the connection on each descriptor
    inbox,           \* complete packets that arrived and were not read
    half,            \* descriptors on which a packet has begun to arrive
    backlog,         \* connections waiting in the listen queue
    conns, packets,  \* what the peers have used of their bounds
    got,             \* packets the kernel took for each client
    \* class Server
    m_clients, key_exchanged, registered, username, m_usernames,
    m_clientsMutex,
    \* the thread
    pc,              \* where in the loop or a handler it is
    batch,           \* events of the last epoll_wait not handled yet
    cur,             \* the client of the handler that runs
    pkt,             \* rawPkt or pubkeyPkt of that handler
    fwd,             \* clients the forwarding loop has not reached yet
    stack,           \* activations of BroadcastEncrypted, innermost first
    \* start and stop
    m_running,
    m_listenfd,      \* what m_listenfd stands for; "none" for -1
    m_epollfd,       \* m_epollfd is not -1
    watched,         \* the epoll instance watches the listening socket
    ended            \* why the process ended

peerVars  == <<backlog, conns, packets>>
netVars   == <<tcp, inbox, half, got>>
dataVars  == <<m_clients, key_exchanged, registered, username, m_usernames>>
loopVars  == <<batch, cur, pkt, fwd, stack>>
lifeVars  == <<m_running, m_listenfd, m_epollfd, watched, ended>>
vars == <<peerVars, netVars, dataVars, m_clientsMutex, pc, loopVars, lifeVars>>

Init ==
    /\ tcp = [f \in Fds |-> "closed"]
    /\ inbox = [f \in Fds |-> <<>>]
    /\ half = {}
    /\ backlog = 0 /\ conns = 0 /\ packets = 0
    /\ got = [f \in Fds |-> <<>>]
    /\ m_clients = {} /\ key_exchanged = {} /\ registered = {}
    /\ username = [f \in Fds |-> NoName]
    /\ m_usernames = {}
    /\ m_clientsMutex = FALSE
    /\ m_running = FALSE /\ m_listenfd = "none" /\ m_epollfd = FALSE /\ watched = FALSE
    /\ pc = "main"
    /\ batch = {} /\ cur = NoFd /\ pkt = NullOpt /\ fwd = {} /\ stack = <<>>
    /\ ended = "no"

-----------------------------------------------------------------------------
(* The peers.                                                              *)

PeerConnect ==
    /\ m_listenfd = "listening" /\ conns < MaxConns
    /\ conns' = conns + 1
    /\ backlog' = backlog + 1
    /\ UNCHANGED <<packets, netVars, dataVars, m_clientsMutex, pc, loopVars, lifeVars>>

\* The first bytes of a packet arrive ...
PeerBegin(f) ==
    /\ tcp[f] = "est" /\ f \notin half
    /\ packets < MaxPackets /\ Len(inbox[f]) < MaxInbox
    /\ packets' = packets + 1
    /\ half' = half \cup {f}
    /\ UNCHANGED <<tcp, inbox, got, backlog, conns, dataVars, m_clientsMutex,
                   pc, loopVars, lifeVars>>

\* ... and the last ones.
PeerFinish(f) ==
    /\ tcp[f] = "est" /\ f \in half
    /\ half' = half \ {f}
    /\ \E p \in PeerPackets : inbox' = [inbox EXCEPT ![f] = Append(@, p)]
    /\ UNCHANGED <<tcp, got, peerVars, dataVars, m_clientsMutex, pc, loopVars, lifeVars>>

(***************************************************************************)
(* The peer closes.  RecvPacket returns a body cut short by the FIN padded *)
(* with zeroes and a header cut short as an empty packet, so a packet that *)
(* had begun may still come out as any of RawPackets, or not at all.       *)
(***************************************************************************)
PeerClose(f) ==
    /\ tcp[f] = "est"
    /\ tcp' = [tcp EXCEPT ![f] = "fin"]
    /\ half' = half \ {f}
    /\ \/ UNCHANGED inbox
       \/ /\ f \in half
          /\ \E p \in RawPackets \cap PeerPackets :
                inbox' = [inbox EXCEPT ![f] = Append(@, p)]
    /\ UNCHANGED <<got, peerVars, dataVars, m_clientsMutex, pc, loopVars, lifeVars>>

\* The peer resets.  What had arrived stays readable, the beginning of a
\* packet as well.
PeerReset(f) ==
    /\ tcp[f] \in {"est", "fin"}
    /\ tcp' = [tcp EXCEPT ![f] = AfterReset(@)]
    /\ UNCHANGED <<inbox, half, got, peerVars, dataVars, m_clientsMutex, pc, loopVars, lifeVars>>

-----------------------------------------------------------------------------
(* Helpers of the server.                                                  *)

\* The process ends, by returning from main or by a signal: the kernel
\* closes every descriptor, and the registry is gone.
Terminate(why) ==
    /\ pc' = "exit" /\ ended' = why
    /\ tcp' = [f \in Fds |-> "closed"]
    /\ inbox' = [f \in Fds |-> <<>>]
    /\ half' = {} /\ backlog' = 0
    /\ got' = [f \in Fds |-> <<>>]
    /\ m_clients' = {} /\ key_exchanged' = {} /\ registered' = {}
    /\ username' = [f \in Fds |-> NoName]
    /\ m_usernames' = {} /\ m_clientsMutex' = FALSE
    /\ m_running' = FALSE /\ m_listenfd' = "none" /\ m_epollfd' = FALSE /\ watched' = FALSE
    /\ batch' = {} /\ cur' = NoFd /\ pkt' = NullOpt /\ fwd' = {} /\ stack' = <<>>
    /\ UNCHANGED <<conns, packets>>

\* SendPacket(m) on f, a connection that is not dead.
SendPacket(f, m) ==
    /\ ~SendKills(tcp[f])
    /\ tcp' = [tcp EXCEPT ![f] = AfterError(@)]
    /\ got' = IF SendOk(tcp[f]) THEN [got EXCEPT ![f] = Append(@, m)] ELSE got

\* SendPacket of a handshake packet, which no client of the room sees.
SendHandshake(f) ==
    /\ ~SendKills(tcp[f])
    /\ tcp' = [tcp EXCEPT ![f] = AfterError(@)]
    /\ UNCHANGED got

\* One activation of BroadcastEncrypted: its text, the clients its first
\* loop has not reached, and its removeList.
Frame(m, todo)  == [msg |-> m, todo |-> todo, failed |-> {}]
Top             == Head(stack)

\* Mutant: the descriptor stays open.
CloseSessionForgotten(f) == UNCHANGED netVars

\* CloseSession: shutdown() and close() of the connection on f.
CloseSession(f) ==
    /\ tcp' = [tcp EXCEPT ![f] = "closed"]
    /\ inbox' = [inbox EXCEPT ![f] = <<>>]
    /\ half' = half \ {f}
    /\ got' = [got EXCEPT ![f] = <<>>]

\* Mutants: the name, or the whole entry, is not erased.
EraseClientKeepsName(f) ==
    /\ m_clients' = m_clients \ {f}
    /\ key_exchanged' = key_exchanged \ {f}
    /\ registered' = registered \ {f}
    /\ username' = [username EXCEPT ![f] = NoName]
    /\ UNCHANGED m_usernames
EraseClientKeepsEntry(f) ==
    /\ registered' = registered \ {f}
    /\ m_usernames' = m_usernames \ {username[f]}
    /\ UNCHANGED <<m_clients, key_exchanged, username>>

\* The entry of f leaves m_clients and, if it is registered, m_usernames.
EraseClient(f) ==
    /\ m_clients' = m_clients \ {f}
    /\ key_exchanged' = key_exchanged \ {f}
    /\ registered' = registered \ {f}
    /\ username' = [username EXCEPT ![f] = NoName]
    /\ m_usernames' = IF f \in registered THEN m_usernames \ {username[f]}
                      ELSE m_usernames

\* What DisconnectClient does between taking m_clientsMutex and releasing
\* it; the broadcast that follows belongs to the callers' actions.
DisconnectClient(f) ==
    /\ ~(m_clientsMutex /\ MutexBlocks)
    /\ CloseSession(f)
    /\ EraseClient(f)

\* The handler returns to the for loop of EventLoop.
HandlerReturns == pc' = "dispatch" /\ cur' = NoFd /\ pkt' = NullOpt
-----------------------------------------------------------------------------
(* main, Start and SetupListener.  A step that fails calls Stop, and       *)
(* SetupListener goes on with what Stop left.                              *)

startIdle == <<peerVars, netVars, dataVars, m_clientsMutex, loopVars, ended>>

\* The arguments are refused, std::stoi throws, libsodium does not start, or
\* the server is constructed and Start sets m_running.
Main ==
    /\ pc = "main"
    /\ \/ \E why \in {"usage", "exception"} : Terminate(why)
       \/ /\ m_running' = TRUE
          /\ pc' = "socket"
          /\ UNCHANGED <<startIdle, m_listenfd, m_epollfd, watched>>

\* Mutant: m_running stays set.
StopKeepsRunning ==
    /\ m_listenfd' = "none" /\ m_epollfd' = FALSE /\ watched' = FALSE
    /\ UNCHANGED m_running

\* Stop, which does nothing the second time.
Stop ==
    /\ m_running' = FALSE
    /\ IF m_running
       THEN m_listenfd' = "none" /\ m_epollfd' = FALSE /\ watched' = FALSE
       ELSE UNCHANGED <<m_listenfd, m_epollfd, watched>>

\* socket(), bind() and listen() take the descriptor from one state to the
\* next; what they return for -1 is an error.
SetupStep(at, from, to, next) ==
    /\ pc = at
    /\ \/ /\ m_listenfd = from /\ m_listenfd' = to
          /\ UNCHANGED <<m_running, m_epollfd, watched>>
       \/ Stop
    /\ pc' = next
    /\ UNCHANGED startIdle

CreateSocket == m_running /\ SetupStep("socket", "none", "open", "bind")
Bind         == SetupStep("bind", "open", "bound", "listen")
Listening    == SetupStep("listen", "bound", "listening", "epoll")

\* epoll_create1 succeeds even if Stop has run by now.
CreateEpoll ==
    /\ pc = "epoll"
    /\ \/ m_epollfd' = TRUE /\ UNCHANGED <<m_running, m_listenfd, watched>>
       \/ Stop
    /\ pc' = "watch"
    /\ UNCHANGED startIdle

\* The result of epoll_ctl is not looked at.
WatchListener ==
    /\ pc = "watch"
    /\ watched' \in {FALSE, m_epollfd /\ m_listenfd = "listening"}
    /\ pc' = "wait"
    /\ UNCHANGED <<startIdle, m_running, m_listenfd, m_epollfd>>

Setup == CreateSocket \/ Bind \/ Listening \/ CreateEpoll \/ WatchListener
-----------------------------------------------------------------------------
(* EventLoop.                                                              *)

\* Descriptors epoll reports, level-triggered: bytes, a FIN or an error.
Readable == {f \in m_clients : inbox[f] # <<>> \/ f \in half \/ Ended(tcp[f])}
Ready    == Readable \cup (IF backlog > 0 /\ watched THEN {Listen} ELSE {})

\* epoll_wait returns; the order of its array is that of later picks from batch.
EpollWait ==
    /\ pc = "wait" /\ m_running /\ Ready # {}
    /\ \E B \in SUBSET Ready :
         /\ \/ B = Ready /\ Cardinality(B) <= MAX_EXENTS
            \/ B # Ready /\ Cardinality(B) = MAX_EXENTS
         /\ batch' = B
    /\ pc' = "dispatch"
    /\ UNCHANGED <<peerVars, netVars, dataVars, m_clientsMutex, cur, pkt, fwd, stack, lifeVars>>

\* epoll_wait fails (EINTR after a stop signal, for one): Stop(true), and
\* main returns.
EpollError == pc = "wait" /\ m_running /\ Terminate("stop")

\* The while loop is not entered, or not entered again, without m_running.
NotRunning == pc = "wait" /\ ~m_running /\ Terminate("failed")

EndOfBatch ==
    /\ pc = "dispatch" /\ batch = {}
    /\ pc' = "wait"
    /\ UNCHANGED <<peerVars, netVars, dataVars, m_clientsMutex, loopVars, lifeVars>>

DispatchListen ==
    /\ pc = "dispatch" /\ Listen \in batch
    /\ batch' = batch \ {Listen}
    /\ pc' = "accept"
    /\ UNCHANGED <<peerVars, netVars, dataVars, m_clientsMutex, cur, pkt, fwd, stack, lifeVars>>

\* Mutant: the reference of an event is used without the find().
DispatchClientBlind(f) ==
    /\ pc = "dispatch" /\ f \in batch
    /\ batch' = batch \ {f}
    /\ cur' = f
    /\ pc' = "recv"
    /\ UNCHANGED <<peerVars, netVars, dataVars, m_clientsMutex, pkt, fwd, stack, lifeVars>>

DispatchClient(f) ==
    /\ pc = "dispatch" /\ f \in batch /\ f \in m_clients
    /\ batch' = batch \ {f}
    /\ cur' = f
    /\ pc' = "recv"
    /\ UNCHANGED <<peerVars, netVars, dataVars, m_clientsMutex, pkt, fwd, stack, lifeVars>>

\* An event whose client an earlier handler of the batch disconnected: the
\* return leaves EventLoop, Start and main.
StaleEvent(f) ==
    /\ pc = "dispatch" /\ f \in batch /\ f \notin m_clients
    /\ Terminate("stale")

-----------------------------------------------------------------------------
(* HandleNewConnection.                                                    *)

\* Mutant: the result of accept() is not looked at.
AcceptBlind(f) ==
    /\ pc = "accept" /\ tcp[f] = "closed"
    /\ backlog' = backlog - 1
    /\ tcp' = [tcp EXCEPT ![f] = "est"]
    /\ m_clients' = m_clients \cup {f}
    /\ UNCHANGED <<conns, packets, inbox, half, got, key_exchanged, registered,
                   username, m_usernames, m_clientsMutex, pc, loopVars, lifeVars>>

Accept(f) ==
    /\ pc = "accept" /\ backlog > 0 /\ tcp[f] = "closed"
    /\ backlog' = backlog - 1
    /\ tcp' = [tcp EXCEPT ![f] = "est"]
    /\ m_clients' = m_clients \cup {f}
    /\ UNCHANGED <<conns, packets, inbox, half, got, key_exchanged, registered,
                   username, m_usernames, m_clientsMutex, pc, loopVars, lifeVars>>

\* epoll_ctl refuses the descriptor: close it and take the next one.
AcceptUnwatched ==
    /\ pc = "accept" /\ backlog > 0
    /\ \E f \in Fds : tcp[f] = "closed"
    /\ backlog' = backlog - 1
    /\ UNCHANGED <<conns, packets, netVars, dataVars, m_clientsMutex, pc, loopVars, lifeVars>>

\* Mutant: a failed accept ends the watch on the listening socket.
AcceptFailsForGood ==
    /\ pc = "accept"
    /\ backlog' = backlog
    /\ watched' = FALSE
    /\ pc' = "dispatch"
    /\ UNCHANGED <<conns, packets, netVars, dataVars, m_clientsMutex, loopVars,
                   m_running, m_listenfd, m_epollfd, ended>>

\* accept fails: with EAGAIN once the queue is empty, or while connections
\* still wait, for lack of a descriptor or with any other error, which may
\* take the connection in front off the queue.
AcceptFails ==
    /\ pc = "accept"
    /\ \/ UNCHANGED backlog
       \/ backlog > 0 /\ backlog' = backlog - 1
    /\ pc' = "dispatch"
    /\ UNCHANGED <<conns, packets, netVars, dataVars, m_clientsMutex, loopVars, lifeVars>>

-----------------------------------------------------------------------------
(* HandleClientEvent.                                                      *)

\* RecvPacket blocks until a packet is complete or the peer ended the
\* connection.  If a failed send has reported the reset already, recv()
\* ends like after a FIN, and a packet that had begun comes out padded.
RecvPacket ==
    /\ pc = "recv"
    /\ \/ /\ inbox[cur] # <<>>
          /\ pkt' = Head(inbox[cur])
          /\ inbox' = [inbox EXCEPT ![cur] = Tail(@)]
          /\ UNCHANGED tcp
          /\ UNCHANGED half
       \/ /\ inbox[cur] = <<>> /\ Ended(tcp[cur])
          /\ \/ pkt' = NullOpt
             \/ /\ cur \in half /\ tcp[cur] = "dead"
                /\ pkt' \in RawPackets \cap PeerPackets
          /\ tcp' = [tcp EXCEPT ![cur] = AfterError(@)]
          /\ half' = half \ {cur}
          /\ UNCHANGED inbox
    /\ pc' = "handle"
    /\ UNCHANGED <<got, peerVars, dataVars, m_clientsMutex,
                   batch, cur, fwd, stack, lifeVars>>

\* No public key, or one of the wrong size: logged, and the client stays.
BadPublicKey ==
    /\ pc = "handle" /\ cur \notin key_exchanged
    /\ pkt \notin {"pk", "weakpk"}
    /\ HandlerReturns
    /\ UNCHANGED <<peerVars, netVars, dataVars, m_clientsMutex, batch, fwd, stack, lifeVars>>

SendServerKey ==
    /\ pc = "handle" /\ cur \notin key_exchanged
    /\ pkt \in {"pk", "weakpk"}
    /\ SendHandshake(cur)
    /\ pc' = "groupkey"
    /\ UNCHANGED <<inbox, half, peerVars, dataVars, m_clientsMutex, loopVars, lifeVars>>

\* crypto_box_easy accepts the key: send the group key.
SendGroupKey ==
    /\ pc = "groupkey" /\ pkt = "pk"
    /\ SendHandshake(cur)
    /\ key_exchanged' = key_exchanged \cup {cur}
    /\ HandlerReturns
    /\ UNCHANGED <<inbox, half, peerVars, m_clients, registered, username,
                   m_usernames, m_clientsMutex, batch, fwd, stack, lifeVars>>

BadHandshake ==
    /\ pc = "groupkey" /\ pkt = "weakpk"
    /\ DisconnectClient(cur)
    /\ HandlerReturns
    /\ UNCHANGED <<peerVars, m_clientsMutex, batch, fwd, stack, lifeVars>>

\* Mutant: a client leaves without an announcement.
LostMemberSilently ==
    /\ pc = "handle" /\ cur \in registered /\ pkt = NullOpt
    /\ DisconnectClient(cur)
    /\ HandlerReturns
    /\ UNCHANGED <<peerVars, m_clientsMutex, batch, fwd, stack, lifeVars>>

\* A client of the room is gone: BroadcastEncrypted to those that remain.
LostMember ==
    /\ pc = "handle" /\ cur \in registered /\ pkt = NullOpt
    /\ DisconnectClient(cur)
    /\ stack' = <<Frame(Disconnected(username[cur]), registered \ {cur})>>
    /\ pc' = "broadcast"
    /\ UNCHANGED <<peerVars, m_clientsMutex, batch, cur, pkt, fwd, lifeVars>>

\* Mutant: a bad username is logged, and the client stays.
BadUsernameStays ==
    /\ pc = "handle" /\ cur \in key_exchanged \ registered
    /\ pkt \in {NullOpt, "short", "junk"}
    /\ HandlerReturns
    /\ UNCHANGED <<peerVars, netVars, dataVars, m_clientsMutex, batch, fwd, stack, lifeVars>>

\* No username, one too short for a nonce, or one that does not open.
BadUsername ==
    /\ pc = "handle" /\ cur \in key_exchanged \ registered
    /\ pkt \in {NullOpt, "short", "junk"}
    /\ DisconnectClient(cur)
    /\ HandlerReturns
    /\ UNCHANGED <<peerVars, m_clientsMutex, batch, fwd, stack, lifeVars>>

\* 32 bytes are a nonce but less than a nonce and a MAC: the length of pt
\* wraps around, its constructor throws, and nothing catches it.
UsernameUnderflow ==
    /\ pc = "handle" /\ cur \in key_exchanged \ registered
    /\ pkt \in {"pk", "weakpk"}
    /\ Terminate("exception")

\* The name is in use: SERVER::USERNAME_TAKEN, under the lock.
UsernameTaken ==
    /\ pc = "handle" /\ cur \in key_exchanged \ registered
    /\ pkt \in m_usernames
    /\ m_clientsMutex' = TRUE
    /\ SendHandshake(cur)
    /\ pc' = "refuse"
    /\ UNCHANGED <<inbox, half, peerVars, dataVars, loopVars, lifeVars>>

\* ... and DisconnectClient, whose lock is the one the caller holds.
RefuseUsername ==
    /\ pc = "refuse"
    /\ DisconnectClient(cur)
    /\ m_clientsMutex' = FALSE
    /\ HandlerReturns
    /\ UNCHANGED <<peerVars, batch, fwd, stack, lifeVars>>

\* Mutant: the newcomer is announced before registered is set.
RegisterAnnouncedEarly ==
    /\ pc = "handle" /\ cur \in key_exchanged \ registered
    /\ pkt \in Names \ m_usernames
    /\ m_usernames' = m_usernames \cup {pkt}
    /\ username' = [username EXCEPT ![cur] = pkt]
    /\ registered' = registered \cup {cur}
    /\ stack' = <<Frame(Connected(pkt), registered)>>
    /\ pc' = "broadcast"
    /\ UNCHANGED <<peerVars, netVars, m_clients, key_exchanged, m_clientsMutex,
                   batch, cur, pkt, fwd, lifeVars>>

Register ==
    /\ pc = "handle" /\ cur \in key_exchanged \ registered
    /\ pkt \in Names \ m_usernames
    /\ m_usernames' = m_usernames \cup {pkt}
    /\ username' = [username EXCEPT ![cur] = pkt]
    /\ registered' = registered \cup {cur}
    /\ stack' = <<Frame(Connected(pkt), registered \cup {cur})>>
    /\ pc' = "broadcast"
    /\ UNCHANGED <<peerVars, netVars, m_clients, key_exchanged, m_clientsMutex,
                   batch, cur, pkt, fwd, lifeVars>>

\* The console line after BroadcastEncrypted reads client.username.  If the
\* broadcast disconnected this very client the reference dangles: the read
\* goes through or the process crashes.
PrintConnected ==
    /\ pc = "print"
    /\ \/ /\ HandlerReturns
          /\ UNCHANGED <<peerVars, netVars, dataVars, m_clientsMutex,
                         batch, fwd, stack, lifeVars>>
       \/ cur \notin m_clients /\ Terminate("dangling")

\* Mutant: the sender is left out.
StartForwardToOthers ==
    /\ pc = "handle" /\ cur \in registered /\ pkt # NullOpt
    /\ fwd' = registered \ {cur}
    /\ pc' = "forward"
    /\ UNCHANGED <<peerVars, netVars, dataVars, m_clientsMutex,
                   batch, cur, pkt, stack, lifeVars>>

\* The forwarding loop: every packet of a registered client goes to all.
StartForward ==
    /\ pc = "handle" /\ cur \in registered /\ pkt # NullOpt
    /\ fwd' = registered
    /\ pc' = "forward"
    /\ UNCHANGED <<peerVars, netVars, dataVars, m_clientsMutex,
                   batch, cur, pkt, stack, lifeVars>>

ForwardSend(f) ==
    /\ pc = "forward" /\ f \in fwd
    /\ SendPacket(f, Chat(username[cur]))
    /\ fwd' = fwd \ {f}
    /\ UNCHANGED <<inbox, half, peerVars, dataVars, m_clientsMutex, pc,
                   batch, cur, pkt, stack, lifeVars>>

ForwardDone ==
    /\ pc = "forward" /\ fwd = {}
    /\ HandlerReturns
    /\ UNCHANGED <<peerVars, netVars, dataVars, m_clientsMutex, batch, fwd, stack, lifeVars>>

-----------------------------------------------------------------------------
(* BroadcastEncrypted.                                                     *)

\* First loop: SendSecretbox to the next registered client.
BroadcastSend(f) ==
    /\ pc = "broadcast" /\ f \in Top.todo
    /\ SendPacket(f, Top.msg)
    /\ stack' = [stack EXCEPT
                   ![1].todo = @ \ {f},
                   ![1].failed = IF SendOk(tcp[f]) THEN @ ELSE @ \cup {f}]
    /\ UNCHANGED <<inbox, half, peerVars, dataVars, m_clientsMutex, pc,
                   batch, cur, pkt, fwd, lifeVars>>

\* Mutant: a client whose send failed is removed while the loop runs.
BroadcastRemoveAtOnce(f) ==
    /\ pc = "broadcast" /\ f \in Top.failed
    /\ DisconnectClient(f)
    /\ LET rest == [stack EXCEPT ![1].failed = @ \ {f}]
       IN  stack' = IF f \in registered
                    THEN <<Frame(Disconnected(username[f]), registered \ {f})>> \o rest
                    ELSE rest
    /\ UNCHANGED <<peerVars, m_clientsMutex, pc, batch, cur, pkt, fwd, lifeVars>>

\* Second loop: DisconnectClient for the next of removeList, which
\* broadcasts in turn.  One that is no longer in m_clients changes nothing.
BroadcastRemove(f) ==
    /\ pc = "broadcast" /\ Top.todo = {} /\ f \in Top.failed
    /\ DisconnectClient(f)
    /\ LET rest == [stack EXCEPT ![1].failed = @ \ {f}]
       IN  stack' = IF f \in registered
                    THEN <<Frame(Disconnected(username[f]), registered \ {f})>> \o rest
                    ELSE rest
    /\ UNCHANGED <<peerVars, m_clientsMutex, pc, batch, cur, pkt, fwd, lifeVars>>

\* Only Register calls BroadcastEncrypted with a connected text.
BroadcastReturn ==
    /\ pc = "broadcast" /\ Top.todo = {} /\ Top.failed = {}
    /\ stack' = Tail(stack)
    /\ \/ /\ Len(stack) > 1
          /\ UNCHANGED <<pc, cur, pkt>>
       \/ /\ Len(stack) = 1 /\ Top.msg.kind = "connected"
          /\ pc' = "print"
          /\ UNCHANGED <<cur, pkt>>
       \/ /\ Len(stack) = 1 /\ Top.msg.kind = "disconnected"
          /\ HandlerReturns
    /\ UNCHANGED <<peerVars, netVars, dataVars, m_clientsMutex, batch, fwd, lifeVars>>

\* The clients the next send() of the thread may go to, and what happens
\* if that connection is dead: SIGPIPE, whose default action ends the process.
SendTargets ==
    CASE pc = "forward"   -> fwd
      [] pc = "broadcast" -> Top.todo
      [] pc = "groupkey"  -> IF pkt = "pk" THEN {cur} ELSE {}
      [] pc = "handle"    -> IF \/ cur \notin key_exchanged /\ pkt \in {"pk", "weakpk"}
                                \/ cur \in key_exchanged \ registered /\ pkt \in m_usernames
                             THEN {cur} ELSE {}
      [] OTHER            -> {}

SigPipe == \E f \in SendTargets : SendKills(tcp[f]) /\ Terminate("sigpipe")
-----------------------------------------------------------------------------
(* The specification.                                                      *)

Peer(f) == PeerBegin(f) \/ PeerFinish(f) \/ PeerClose(f) \/ PeerReset(f)

ServerStep ==
    \/ Main \/ Setup \/ NotRunning \/ EpollWait \/ EndOfBatch \/ DispatchListen
    \/ AcceptUnwatched \/ AcceptFails
    \/ RecvPacket \/ BadPublicKey \/ SendServerKey \/ SendGroupKey \/ BadHandshake
    \/ LostMember \/ BadUsername \/ UsernameUnderflow
    \/ UsernameTaken \/ RefuseUsername \/ Register \/ PrintConnected
    \/ StartForward \/ ForwardDone \/ BroadcastReturn \/ SigPipe
    \/ \E f \in Fds : \/ DispatchClient(f) \/ StaleEvent(f) \/ Accept(f)
                      \/ ForwardSend(f) \/ BroadcastSend(f) \/ BroadcastRemove(f)

Next == \/ PeerConnect
        \/ \E f \in Fds : Peer(f)
        \/ ServerStep
        \/ EpollError

Spec == Init /\ [][Next]_vars

(***************************************************************************)
(* The thread runs whenever it can.  A peer that began a packet finishes   *)
(* it or goes away, and one that has not sent its key does so or goes away *)
(* (Client::Start sends it right after connect()).  The errors of accept   *)
(* are passing ones: the listener is level-triggered, so the call is       *)
(* repeated, and one of its repetitions succeeds.                          *)
(***************************************************************************)
Fairness ==
    /\ WF_vars(ServerStep)
    /\ SF_vars(\E f \in Fds : Accept(f))
    /\ \A f \in Fds : WF_vars((f \in half \/ f \notin key_exchanged) /\ Peer(f))

FairSpec == Spec /\ Fairness
-----------------------------------------------------------------------------
(* Properties.                                                             *)

Frames == [msg : Messages(Names), todo : SUBSET Fds, failed : SUBSET Fds]

TypeOK ==
    /\ tcp \in [Fds -> EndpointStates]
    /\ inbox \in [Fds -> Seq(Packets)]
    /\ half \subseteq Fds
    /\ backlog \in Nat /\ conns \in Nat /\ packets \in Nat
    /\ got \in [Fds -> Seq(Messages(Names))]
    /\ m_clients \subseteq Fds
    /\ key_exchanged \subseteq Fds /\ registered \subseteq Fds
    /\ username \in [Fds -> Names \cup {NoName}]
    /\ m_usernames \subseteq Names
    /\ m_clientsMutex \in BOOLEAN
    /\ m_running \in BOOLEAN /\ m_epollfd \in BOOLEAN /\ watched \in BOOLEAN
    /\ m_listenfd \in {"none", "open", "bound", "listening"}
    /\ pc \in {"main", "socket", "bind", "listen", "epoll", "watch", "wait", "dispatch", "accept", "recv", "handle", "groupkey",
               "refuse", "broadcast", "print", "forward", "exit"}
    /\ batch \subseteq Fds \cup {Listen}
    /\ cur \in Fds \cup {NoFd}
    /\ pkt \in Packets \cup {NullOpt}
    /\ fwd \subseteq Fds
    /\ stack \in Seq(Frames)
    /\ ended \in {"no", "usage", "failed", "stop", "stale", "sigpipe", "exception", "dangling"}

\* No leak and no use of a closed descriptor: m_clients holds exactly the
\* descriptors that are open, through accepts, refused names, and the
\* disconnects nested in a broadcast.
DescriptorsOwned == m_clients = {f \in Fds : tcp[f] # "closed"}

\* m_usernames, the set that decides who is refused, holds exactly the
\* names of the registered clients, each once: a name is neither blocked
\* after its owner left nor given out twice.
NamesOwned ==
    /\ registered \subseteq key_exchanged /\ key_exchanged \subseteq m_clients
    /\ \A f, g \in registered : username[f] = username[g] => f = g
    /\ m_usernames = {username[f] : f \in registered}

\* The loops over m_clients and the removals they provoke: while a loop
\* still has clients to reach nothing is erased under its iterator.  Only
\* the innermost activation of BroadcastEncrypted may be in its first loop,
\* and whoever a loop has yet to reach is still a registered client.  A
\* removeList may name clients that a nested call has erased, but no
\* client that is on its descriptor now and was not meant.
IterationSafe ==
    /\ \A i \in 1 .. Len(stack) :
          /\ stack[i].todo \subseteq registered
          /\ i > 1 => stack[i].todo = {}
          /\ stack[i].failed \cap m_clients \subseteq registered
    /\ fwd \subseteq registered
    /\ fwd # {} => stack = <<>>

\* Each nested activation was provoked by a client that is erased by now,
\* so the recursion is no deeper than there were clients.
NestingBounded == Len(stack) + Cardinality(m_clients) <= Cardinality(Fds) + 1

\* A handler uses the ClientInfo& that EventLoop gave it only while
\* m_clients holds that client, although the events of the batch are older
\* than the disconnects of the handlers before it.  The exception is the
\* line behind the connect broadcast, see PrintConnected.
HandlerRefLive ==
    pc \in {"recv", "handle", "groupkey", "refuse"} => cur \in m_clients

\* SetupListener goes on after a failed socket, bind or listen.  Still no
\* client is ever served, or an event waited for, without a listening socket
\* and an epoll instance, and a start that failed ends.
StartLabels == {"main", "socket", "bind", "listen", "epoll", "watch"}
ServesWhenSetUp ==
    pc \in StartLabels \cup {"exit"}
      \/ IF m_running THEN m_listenfd = "listening" /\ m_epollfd
                      ELSE pc = "wait" /\ m_clients = {}

\* Who connects is accepted, whatever the clients before did and however
\* often accept() failed, for lack of a descriptor above all: a connection
\* left in the queue is taken once a departure has freed one.  The excuses:
\* the descriptors stay taken for ever, the listener is not watched, or the
\* process ends or blocks on its own mutex.
ConnectionsServed ==
    (backlog > 0 /\ watched)
        ~> (\/ backlog = 0
            \/ pc \in {"exit", "refuse"}
            \/ [](\A f \in Fds : tcp[f] # "closed"))

\* A client whose connection ended after the handshake is taken out of the
\* registry, unless the process ends or blocks on its own mutex first.
DepartedRemoved ==
    \A f \in Fds :
        (f \in key_exchanged /\ Ended(tcp[f]))
            ~> (f \notin m_clients \/ pc \in {"exit", "refuse"})

\* A client that asked for a name in use is disconnected, as the log line
\* of that branch says.
TakenNameRefused ==
    \A f \in Fds : (pc = "refuse" /\ cur = f) ~> (f \notin m_clients)

\* An event for a client that is already disconnected does not end the server.
StaleEventSurvived == ended # "stale"

\* A member that a broadcast cannot reach is removed, and the server runs
\* on: SendSecretbox logs the failure, and BroadcastEncrypted puts the
\* member on its removeList.
FailedSendSurvived ==
    \A f \in Fds :
        (pc = "broadcast" /\ f \in Top.todo /\ SendKills(tcp[f]))
            ~> (f \notin m_clients /\ ended = "no")
=============================================================================
