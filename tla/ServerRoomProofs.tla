-------------------------- MODULE ServerRoomProofs --------------------------
(***************************************************************************)
(* The server implements the room, for every number of clients, names and  *)
(* packets: each step of its thread or of a peer is a step of ChatRoom or  *)
(* none, under the mapping of ServerRoom.  What ChatRoomProofs shows of    *)
(* the room holds of the server.                                           *)
(***************************************************************************)
EXTENDS ServerRoom, ServerProofs

RoomFacts == INSTANCE ChatRoomProofs WITH Seats <- Fds, room <- roomBar, lost <- lostBar

\* What f has received or is owed.
Feed(f) == got[f] \o Owed(f)

\* A client whose handshake or name is refused is in no room.
RefusedUnregistered == pc \in {"groupkey", "refuse"} => cur \notin registered

\* A client that is in no room has received nothing of it.
NothingHeard == \A f \in Fds \ registered : got[f] = <<>>

MapInv == SafeInv /\ RefusedUnregistered /\ NothingHeard

\* The variables and what the mapping makes of them, before and after a step.
Unseen == UNCHANGED <<roomBar, lostBar>>
RoomStep == Room!Next \/ Unseen
-----------------------------------------------------------------------------
(* The mapping.                                                            *)

LEMMA Mapped ==
    /\ DOMAIN roomBar = Members
    /\ \A f \in Members : /\ roomBar[f] = [name |-> username[f], feed |-> Feed(f)]
                          /\ roomBar[f].name = username[f]
                          /\ roomBar[f].feed = Feed(f)
    /\ roomBar' = [f \in Members' |-> [name |-> username'[f], feed |-> Feed(f)']]
    /\ lostBar = {username[f] : f \in registered \ Members}
    /\ lostBar' = {username'[f] : f \in registered' \ Members'}
BY DEF roomBar, lostBar, Feed

\* Nothing the room can see has changed.
LEMMA UnseenStep ==
    ASSUME registered' = registered, Members' = Members,
           \A f \in registered : username'[f] = username[f],
           \A f \in Members : Feed(f)' = Feed(f)
    PROVE  Unseen
<1>1. Members \subseteq registered
  BY DEF Members
<1>2. lostBar' = lostBar
  BY <1>1, Mapped
<1>3. roomBar = [f \in Members |-> [name |-> username[f], feed |-> Feed(f)]]
  BY DEF roomBar, Feed
<1>4. roomBar' = [f \in Members |-> [name |-> username[f], feed |-> Feed(f)]]
  BY <1>1, Mapped
<1> QED  BY <1>2, <1>3, <1>4 DEF Unseen

\* The connection on f may have died, and nothing else has changed.
LEMMA ConnectionStep ==
    ASSUME MapInv, NEW f \in Fds,
           UNCHANGED <<registered, username>>,
           \A g \in Fds \ {f} : tcp'[g] = tcp[g],
           tcp[f] = "dead" => tcp'[f] = "dead",
           \A g \in Members' : Feed(g)' = Feed(g)
    PROVE  RoomStep
<1>1. Members \subseteq registered /\ registered \subseteq Fds
  BY DEF Members, MapInv, SafeInv, TypeOK
<1>2. CASE f \in Members /\ tcp'[f] = "dead"
  <2>1. Members' = Members \ {f}
    BY <1>1, <1>2 DEF Members
  <2>2. lostBar' = lostBar \cup {username[f]}
    <3>1. registered' \ Members' = (registered \ Members) \cup {f}
      BY <1>1, <1>2, <2>1
    <3> QED  BY <3>1, Mapped
  <2>3. roomBar' = [t \in DOMAIN roomBar \ {f} |-> roomBar[t]]
    BY <2>1, Mapped
  <2>4. Room!Lose(f)
    BY <1>2, <2>2, <2>3, Mapped DEF Room!Lose
  <2> QED  BY <2>4 DEF RoomStep, Room!Next
<1>3. CASE ~(f \in Members /\ tcp'[f] = "dead")
  <2>1. Members' = Members
    BY <1>1, <1>3 DEF Members
  <2> QED  BY <2>1, UnseenStep DEF RoomStep
<1> QED  BY <1>2, <1>3
-----------------------------------------------------------------------------
(* What is owed.                                                           *)

LEMMA NothingOwed ==
    /\ pc \notin {"forward", "broadcast"} => \A f : Owed(f) = <<>>
    /\ pc = "broadcast" /\ Top.todo = {} => \A f : Owed(f) = <<>>
    /\ pc = "forward" /\ fwd = {} => \A f : Owed(f) = <<>>
BY DEF Owed

LEMMA NothingOwedThen ==
    /\ pc' \notin {"forward", "broadcast"} => \A f : Owed(f)' = <<>>
    /\ pc' = "broadcast" /\ Top'.todo = {} => \A f : Owed(f)' = <<>>
BY DEF Owed, Top

\* A message owed is the next one received.
LEMMA OwedReceived ==
    ASSUME NEW q \in Seq(Messages(Names)), NEW m \in Messages(Names)
    PROVE  /\ Append(q, m) \o <<>> = q \o <<m>>
           /\ Append(q \o <<>>, m) = q \o <<m>>
BY ConcatEmptySeq, AppendIsConcat, AppendProperties
-----------------------------------------------------------------------------
(* DisconnectClient, in the room.                                          *)

LEMMA OthersUntouched ==
    ASSUME MapInv, NEW f \in Fds, DisconnectClient(f)
    PROVE  /\ registered' = registered \ {f}
           /\ \A g \in registered' : /\ tcp'[g] = tcp[g] /\ username'[g] = username[g]
                                     /\ got'[g] = got[g]
                                     /\ got[g] \in Seq(Messages(Names))
                                     /\ username[g] \in Names
<1>1. \A g \in registered : username[g] \in Names
  BY DEF MapInv, SafeInv, NamesOwned, TypeOK
<1> QED  BY <1>1 DEF MapInv, SafeInv, TypeOK, DisconnectClient, CloseSession, EraseClient

\* A client outside the room goes: its handshake or its name was refused, or
\* the removeList is older than its end.
LEMMA OutsiderLeaves ==
    ASSUME MapInv, NEW f \in Fds \ registered, DisconnectClient(f),
           \A g \in registered : Owed(g)' = Owed(g)
    PROVE  RoomStep
<1>1. registered' = registered
  BY OthersUntouched
<1>2. Members' = Members
  BY <1>1, OthersUntouched DEF Members
<1>3. \A g \in Members : Feed(g)' = Feed(g)
  BY <1>1, OthersUntouched DEF Feed, Members
<1>4. \A g \in registered : username'[g] = username[g]
  BY <1>1, OthersUntouched
<1> QED  BY <1>1, <1>2, <1>3, <1>4, UnseenStep DEF RoomStep

\* A member goes, and the others are owed the news.
LEMMA MemberLeaves ==
    ASSUME MapInv, NEW f \in registered, DisconnectClient(f),
           \A g \in registered : Owed(g) = <<>>,
           \A g \in registered' : Owed(g)' = <<Disconnected(username[f])>>
    PROVE  RoomStep
<1> DEFINE m == Disconnected(username[f])
<1>1. f \in Fds /\ registered \subseteq Fds /\ Members \subseteq registered
  BY DEF MapInv, SafeInv, TypeOK, Members
<1>2. username[f] \in Names /\ m \in Messages(Names) /\ Room!Disconnected(username[f]) = m
  BY DEF MapInv, SafeInv, NamesOwned, TypeOK, Messages, Disconnected, Room!Disconnected
<1>3. registered' = registered \ {f} /\ Members' = Members \ {f}
  BY <1>1, OthersUntouched DEF Members
<1>4. \A g \in Members' : username'[g] = username[g] /\ Feed(g)' = Append(Feed(g), m)
  <2> SUFFICES ASSUME NEW g \in Members'
               PROVE  username'[g] = username[g] /\ Feed(g)' = Append(Feed(g), m)
    OBVIOUS
  <2>1. g \in registered' /\ g \in registered
    BY <1>1, <1>3
  <2>2. /\ got'[g] = got[g] /\ username'[g] = username[g]
        /\ got[g] \in Seq(Messages(Names))
    BY <1>1, <2>1, OthersUntouched
  <2>3. Feed(g) = got[g] \o <<>> /\ Feed(g)' = got[g] \o <<m>>
    BY <2>1, <2>2 DEF Feed
  <2> HIDE DEF m
  <2> QED  BY <1>2, <2>2, <2>3, OwedReceived
<1>5. roomBar' = [s \in DOMAIN roomBar \ {f} |->
                    [name |-> roomBar[s].name, feed |-> Append(roomBar[s].feed, m)]]
  BY <1>3, <1>4, Mapped
<1> HIDE DEF m
<1>6. CASE f \in Members
  <2>1. lostBar' = lostBar
    <3>1. registered' \ Members' = registered \ Members
      BY <1>3, <1>6
    <3>2. \A g \in registered \ Members : username'[g] = username[g]
      BY <1>1, <1>6, OthersUntouched
    <3> QED  BY <3>1, <3>2, Mapped
  <2>2. f \in DOMAIN roomBar /\ roomBar[f].name = username[f]
    BY <1>6, Mapped
  <2>3. Room!Leave(f)
    BY <1>2, <1>5, <2>1, <2>2 DEF Room!Leave, Room!Tell
  <2> QED  BY <1>1, <2>3 DEF RoomStep, Room!Next
<1>7. CASE f \notin Members
  <2>1. registered' \ Members' = (registered \ Members) \ {f} /\ DOMAIN roomBar \ {f} = DOMAIN roomBar
    BY <1>3, <1>7, Mapped
  <2>2. \A g \in registered \ {f} : username'[g] = username[g] /\ username[g] # username[f]
    BY <1>1, OthersUntouched DEF MapInv, SafeInv, NamesOwned
  <2>3. lostBar' = lostBar \ {username[f]} /\ username[f] \in lostBar
    BY <1>7, <2>1, <2>2, Mapped
  <2>4. Room!Bury(username[f])
    BY <1>2, <1>5, <2>1, <2>3 DEF Room!Bury, Room!Tell
  <2> QED  BY <1>2, <2>4 DEF RoomStep, Room!Next
<1> QED  BY <1>6, <1>7
-----------------------------------------------------------------------------
(* Start, stop, and the end of the process.                                *)

LEMMA InitMapped == Init => Room!Init
<1> SUFFICES ASSUME Init PROVE roomBar = <<>> /\ lostBar = {}
  BY DEF Room!Init
<1>1. Members = {} /\ registered = {}
  BY DEF Init, Members
<1> QED  BY <1>1 DEF roomBar, lostBar

LEMMA TerminateMapped ==
    ASSUME NEW why, Terminate(why)
    PROVE  RoomStep
<1>1. Members' = {} /\ registered' = {}
  BY DEF Terminate, Members
<1>2. roomBar' = <<>> /\ lostBar' = {}
  BY <1>1 DEF roomBar, lostBar
<1> QED  BY <1>2 DEF RoomStep, Room!Next, Room!Close
-----------------------------------------------------------------------------
(* The peers and the event loop.                                           *)

\* A step that leaves the clients of the room and what they are owed alone.
LEMMA QuietStep ==
    ASSUME UNCHANGED <<registered, username, got>>,
           \A g \in registered : tcp'[g] = tcp[g] /\ Owed(g)' = Owed(g)
    PROVE  RoomStep
<1>1. Members' = Members /\ Members \subseteq registered
  BY DEF Members
<1>2. \A g \in Members : Feed(g)' = Feed(g)
  BY <1>1 DEF Feed
<1> QED  BY <1>1, <1>2, UnseenStep DEF RoomStep

LEMMA PeerMapped ==
    ASSUME MapInv, PeerConnect \/ \E f \in Fds : Peer(f)
    PROVE  RoomStep
<1>1. UNCHANGED <<registered, username, got, pc, fwd, cur, stack>>
  BY DEF Peer, PeerConnect, PeerBegin, PeerFinish, PeerClose, PeerReset, netVars, dataVars,
         loopVars
<1>2. \A g : Owed(g)' = Owed(g) /\ Feed(g)' = Feed(g)
  BY <1>1 DEF Owed, Top, Feed
<1>3. CASE UNCHANGED tcp
  BY <1>1, <1>2, <1>3, QuietStep
<1>4. ASSUME NEW f \in Fds, PeerClose(f) \/ PeerReset(f) PROVE RoomStep
  <2>1. tcp[f] # "dead" \/ tcp'[f] = "dead"
    BY <1>4 DEF PeerClose, PeerReset
  <2>2. \A g \in Fds \ {f} : tcp'[g] = tcp[g]
    BY <1>4 DEF PeerClose, PeerReset, MapInv, SafeInv, TypeOK
  <2> QED  BY <1>1, <1>2, <2>1, <2>2, ConnectionStep
<1>5. ASSUME NEW f \in Fds, PeerBegin(f) \/ PeerFinish(f) PROVE UNCHANGED tcp
  BY <1>5 DEF PeerBegin, PeerFinish
<1>6. PeerConnect => UNCHANGED tcp
  BY DEF PeerConnect, netVars
<1> QED  BY <1>3, <1>4, <1>5, <1>6 DEF Peer

LEMMA LoopMapped ==
    ASSUME MapInv,
           \/ Main \/ Setup \/ NotRunning
           \/ EpollWait \/ EpollError \/ EndOfBatch \/ DispatchListen
           \/ AcceptUnwatched \/ AcceptFails
           \/ \E f \in Fds : DispatchClient(f) \/ StaleEvent(f) \/ Accept(f)
    PROVE  RoomStep
<1> USE DEF netVars, dataVars, loopVars
<1>1. ASSUME pc \notin {"forward", "broadcast"}, pc' \notin {"forward", "broadcast"},
             UNCHANGED <<registered, username, got>>,
             \A g \in registered : tcp'[g] = tcp[g]
      PROVE  RoomStep
  BY <1>1, NothingOwed, NothingOwedThen, QuietStep
<1>2. CASE Main
  <2>1. CASE \E why \in {"usage", "exception"} : Terminate(why)
    BY <2>1, TerminateMapped
  <2>2. CASE UNCHANGED startIdle /\ pc = "main" /\ pc' = "socket"
    BY <1>1, <2>2 DEF startIdle
  <2> QED  BY <1>2, <2>1, <2>2 DEF Main
<1>3. CASE Setup
  <2>1. /\ UNCHANGED startIdle /\ pc \notin {"forward", "broadcast"}
        /\ pc' \in {"bind", "listen", "epoll", "watch", "wait"}
    BY <1>3 DEF Setup, CreateSocket, Bind, Listening, SetupStep, CreateEpoll, WatchListener
  <2> QED  BY <1>1, <2>1 DEF startIdle
<1>4. CASE NotRunning \/ EpollError \/ \E f \in Fds : StaleEvent(f)
  BY <1>4, TerminateMapped DEF NotRunning, EpollError, StaleEvent
<1>5. CASE EpollWait \/ EndOfBatch \/ DispatchListen \/ AcceptUnwatched \/ AcceptFails
  BY <1>1, <1>5 DEF EpollWait, EndOfBatch, DispatchListen, AcceptUnwatched, AcceptFails
<1>6. ASSUME NEW f \in Fds, DispatchClient(f) PROVE RoomStep
  BY <1>1, <1>6 DEF DispatchClient
<1>7. ASSUME NEW f \in Fds, Accept(f) PROVE RoomStep
  <2>1. f \notin registered
    BY <1>7 DEF Accept, MapInv, SafeInv, NamesOwned, DescriptorsOwned
  <2>2. \A g \in registered : tcp'[g] = tcp[g]
    BY <1>7, <2>1 DEF Accept, MapInv, SafeInv, TypeOK
  <2> QED  BY <1>1, <1>7, <2>2 DEF Accept
<1> QED  BY <1>2, <1>3, <1>4, <1>5, <1>6, <1>7
-----------------------------------------------------------------------------
(* HandleClientEvent.                                                      *)

LEMMA HandshakeMapped ==
    ASSUME MapInv,
           \/ RecvPacket \/ BadPublicKey \/ SendServerKey \/ SendGroupKey \/ UsernameTaken
           \/ BadHandshake \/ BadUsername \/ RefuseUsername \/ ForwardDone
           \/ UsernameUnderflow \/ PrintConnected
    PROVE  RoomStep
<1> USE DEF netVars, dataVars, loopVars
<1>1. CASE RecvPacket \/ SendServerKey \/ SendGroupKey \/ UsernameTaken
  <2>1. cur \in Fds
    BY <1>1 DEF RecvPacket, SendServerKey, SendGroupKey, UsernameTaken, MapInv, SafeInv,
                HandlerRefLive, TypeOK
  <2>2. /\ pc \notin {"forward", "broadcast"} /\ pc' \notin {"forward", "broadcast"}
        /\ UNCHANGED <<registered, username, got>>
    BY <1>1 DEF RecvPacket, SendServerKey, SendGroupKey, UsernameTaken, SendHandshake,
                HandlerReturns
  <2>3. tcp' = tcp \/ tcp' = [tcp EXCEPT ![cur] = AfterError(@)]
    BY <1>1 DEF RecvPacket, SendServerKey, SendGroupKey, UsernameTaken, SendHandshake
  <2>4. /\ \A g \in Fds \ {cur} : tcp'[g] = tcp[g]
        /\ tcp[cur] = "dead" => tcp'[cur] = "dead"
    BY <2>1, <2>3 DEF AfterError, MapInv, SafeInv, TypeOK
  <2>5. \A g : Feed(g)' = Feed(g)
    BY <2>2, NothingOwed, NothingOwedThen DEF Feed
  <2> QED  BY <2>1, <2>2, <2>4, <2>5, ConnectionStep
<1>2. CASE BadHandshake \/ BadUsername \/ RefuseUsername
  <2>1. /\ DisconnectClient(cur) /\ cur \notin registered
        /\ pc \in {"groupkey", "handle", "refuse"} /\ pc' = "dispatch"
    BY <1>2 DEF BadHandshake, BadUsername, RefuseUsername, HandlerReturns, MapInv,
                RefusedUnregistered
  <2>2. cur \in Fds
    BY <2>1 DEF MapInv, SafeInv, HandlerRefLive, TypeOK
  <2>3. \A g \in registered : Owed(g)' = Owed(g)
    BY <2>1, NothingOwed, NothingOwedThen
  <2> QED  BY <2>1, <2>2, <2>3, OutsiderLeaves
<1>3. CASE UsernameUnderflow
  BY <1>3, TerminateMapped DEF UsernameUnderflow
<1>4. CASE BadPublicKey \/ ForwardDone \/ PrintConnected
  <2>1. CASE cur \notin m_clients /\ Terminate("dangling")
    BY <2>1, TerminateMapped
  <2>2. CASE HandlerReturns /\ UNCHANGED <<netVars, dataVars>>
             /\ (pc \notin {"forward", "broadcast"} \/ (pc = "forward" /\ fwd = {}))
    <3>1. \A g : Owed(g) = <<>> /\ Owed(g)' = <<>>
      BY <2>2, NothingOwed, NothingOwedThen DEF HandlerReturns
    <3> QED  BY <2>2, <3>1, QuietStep
  <2> QED  BY <1>4, <2>1, <2>2 DEF BadPublicKey, ForwardDone, PrintConnected
<1> QED  BY <1>1, <1>2, <1>3, <1>4

LEMMA LostMemberMapped ==
    ASSUME MapInv, LostMember
    PROVE  RoomStep
<1> DEFINE m == Disconnected(username[cur])
<1>1. /\ DisconnectClient(cur) /\ cur \in registered /\ pc = "handle" /\ pc' = "broadcast"
      /\ stack' = <<Frame(m, registered \ {cur})>>
  BY DEF LostMember
<1>2. registered' = registered \ {cur}
  BY <1>1 DEF DisconnectClient, EraseClient
<1>3. Top' = Frame(m, registered \ {cur})
  BY <1>1 DEF Top
<1>4. \A g \in registered' : Owed(g)' = <<m>>
  BY <1>1, <1>2, <1>3 DEF Owed, Frame
<1> QED  BY <1>1, <1>4, NothingOwed, MemberLeaves

\* The newcomer joins with the first step of the broadcast that announces it.
LEMMA RegisterMapped ==
    ASSUME MapInv, Register
    PROVE  RoomStep
<1> USE DEF netVars, dataVars, loopVars
<1> DEFINE m == Connected(pkt)
<1>1. /\ pc = "handle" /\ pc' = "broadcast" /\ cur \in Fds \ registered
      /\ pkt \in Names /\ pkt \notin m_usernames
      /\ registered' = registered \cup {cur} /\ registered \subseteq Fds
      /\ username' = [username EXCEPT ![cur] = pkt]
      /\ stack' = <<Frame(m, registered \cup {cur})>>
      /\ UNCHANGED <<tcp, got>>
      /\ username \in [Fds -> Names \cup {NoName}]
  BY DEF Register, MapInv, SafeInv, HandlerRefLive, TypeOK
<1>2. m \in Messages(Names) /\ Room!Connected(pkt) = m
  BY <1>1 DEF Messages, Connected, Room!Connected
<1>3. Top' = Frame(m, registered \cup {cur})
  BY <1>1 DEF Top
<1>4. \A g \in registered' : Owed(g)' = <<m>> /\ Owed(g) = <<>>
  BY <1>1, <1>3, NothingOwed DEF Owed, Frame
<1>5. got \in [Fds -> Seq(Messages(Names))]
  BY DEF MapInv, SafeInv, TypeOK
<1> HIDE DEF m
<1>6. \A g \in registered : Feed(g)' = Append(Feed(g), m) /\ username'[g] = username[g]
  <2> SUFFICES ASSUME NEW g \in registered
               PROVE  Feed(g)' = Append(Feed(g), m) /\ username'[g] = username[g]
    OBVIOUS
  <2>1. got[g] \in Seq(Messages(Names)) /\ g # cur
    BY <1>1, <1>5
  <2>2. Feed(g) = got[g] \o <<>> /\ Feed(g)' = got[g] \o <<m>>
    BY <1>1, <1>4 DEF Feed
  <2> QED  BY <1>1, <1>2, <2>1, <2>2, OwedReceived
<1>7. pkt \notin Room!InRoom \cup lostBar
  <2>1. Room!InRoom = {username[f] : f \in Members}
    BY Mapped DEF Room!InRoom
  <2>2. m_usernames = {username[f] : f \in registered} /\ Members \subseteq registered
    BY DEF MapInv, SafeInv, NamesOwned, Members
  <2> QED  BY <1>1, <2>1, <2>2, Mapped
<1>8. Members \subseteq registered /\ username'[cur] = pkt
  BY <1>1 DEF Members
<1>9. CASE tcp[cur] # "dead"
  <2>1. Members' = Members \cup {cur} /\ cur \notin Members
    BY <1>1, <1>9 DEF Members
  <2>2. lostBar' = lostBar
    <3>1. registered' \ Members' = registered \ Members
      BY <1>1, <2>1
    <3> QED  BY <1>6, <3>1, Mapped
  <2>3. ASSUME NEW g \in {cur} PROVE Feed(g)' = <<m>>
    <3>1. got'[g] = <<>> /\ g \in registered'
      BY <1>1 DEF MapInv, NothingHeard
    <3>2. Feed(g)' = <<>> \o <<m>>
      BY <1>4, <3>1 DEF Feed
    <3>3. <<m>> \in Seq(Messages(Names))
      BY <1>2
    <3> QED  BY <3>2, <3>3, ConcatEmptySeq
  <2>4. roomBar' = [t \in DOMAIN roomBar \cup {cur} |->
                      IF t = cur THEN [name |-> pkt, feed |-> <<m>>]
                      ELSE [roomBar[t] EXCEPT !.feed = Append(@, m)]]
    <3>1. \A t \in Members : [roomBar[t] EXCEPT !.feed = Append(@, m)]
                               = [name |-> username'[t], feed |-> Feed(t)']
      <4> SUFFICES ASSUME NEW t \in Members
                   PROVE  [roomBar[t] EXCEPT !.feed = Append(@, m)]
                            = [name |-> username'[t], feed |-> Feed(t)']
        OBVIOUS
      <4> DEFINE q == Append(Feed(t), m)
      <4>1. roomBar[t] = [name |-> username[t], feed |-> Feed(t)]
        BY Mapped
      <4>2. [roomBar[t] EXCEPT !.feed = Append(@, m)] = [name |-> username[t], feed |-> q]
        <5> DEFINE r == roomBar[t]
                   n == username[t]
                   f == Feed(t)
        <5>1. r = [name |-> n, feed |-> f]
          BY <4>1
        <5> HIDE DEF r, n, f, m
        <5>2. [r EXCEPT !.feed = Append(@, m)] = [name |-> n, feed |-> Append(f, m)]
          BY <5>1
        <5> QED  BY <5>2 DEF r, n, f, q
      <4> HIDE DEF q
      <4>3. Feed(t)' = q /\ username'[t] = username[t]
        BY <1>6, <1>8 DEF q
      <4> QED  BY <4>2, <4>3
    <3>2. roomBar' = [t \in Members \cup {cur} |->
                        [name |-> username'[t], feed |-> Feed(t)']]
      BY <2>1, Mapped
    <3>3. \A t \in Members \cup {cur} :
              [name |-> username'[t], feed |-> Feed(t)']
                = IF t = cur THEN [name |-> pkt, feed |-> <<m>>]
                  ELSE [roomBar[t] EXCEPT !.feed = Append(@, m)]
      BY <1>8, <2>1, <2>3, <3>1
    <3>4. DOMAIN roomBar = Members
      BY Mapped
    <3> HIDE DEF m
    <3> QED  BY <3>2, <3>3, <3>4, Zenon
  <2>5. Room!Join(cur, pkt)
    BY <1>2, <1>7, <2>1, <2>2, <2>4, Mapped DEF Room!Join
  <2> QED  BY <1>1, <2>5 DEF RoomStep, Room!Next
<1>10. CASE tcp[cur] = "dead"
  <2>1. Members' = Members
    BY <1>1, <1>10 DEF Members
  <2>2. lostBar' = lostBar \cup {pkt}
    <3>1. registered' \ Members' = (registered \ Members) \cup {cur}
      BY <1>1, <1>8, <2>1
    <3> QED  BY <1>6, <1>8, <3>1, Mapped
  <2>3. roomBar' = [s \in DOMAIN roomBar |->
                      [name |-> roomBar[s].name, feed |-> Append(roomBar[s].feed, m)]]
    BY <1>6, <1>8, <2>1, Mapped
  <2>4. Room!JoinLost(pkt)
    BY <1>2, <1>7, <2>2, <2>3 DEF Room!JoinLost, Room!Tell
  <2> QED  BY <1>1, <2>4 DEF RoomStep, Room!Next
<1> QED  BY <1>9, <1>10

\* A member says something with the first step of the forwarding loop.
LEMMA StartForwardMapped ==
    ASSUME MapInv, StartForward
    PROVE  RoomStep
<1> USE DEF netVars, dataVars, loopVars
<1> DEFINE m == Chat(username[cur])
<1>1. /\ pc = "handle" /\ pc' = "forward" /\ cur \in registered
      /\ fwd' = registered
      /\ UNCHANGED <<tcp, got, registered, username, cur>>
  BY DEF StartForward
<1>2. /\ username[cur] \in Names /\ m \in Messages(Names) /\ Room!Chat(username[cur]) = m
      /\ got \in [Fds -> Seq(Messages(Names))] /\ registered \subseteq Fds
  BY <1>1 DEF MapInv, SafeInv, NamesOwned, TypeOK, Messages, Chat, Room!Chat
<1>3. \A g \in registered : Owed(g)' = <<m>> /\ Owed(g) = <<>>
  BY <1>1, NothingOwed DEF Owed
<1> HIDE DEF m
<1>4. \A g \in registered : Feed(g)' = Append(Feed(g), m)
  <2> SUFFICES ASSUME NEW g \in registered PROVE Feed(g)' = Append(Feed(g), m)
    OBVIOUS
  <2>1. got[g] \in Seq(Messages(Names))
    BY <1>2
  <2>2. Feed(g) = got[g] \o <<>> /\ Feed(g)' = got[g] \o <<m>>
    BY <1>1, <1>3 DEF Feed
  <2> QED  BY <1>2, <2>1, <2>2, OwedReceived
<1>5. Members' = Members /\ Members \subseteq registered
  BY <1>1 DEF Members
<1>6. roomBar' = [s \in DOMAIN roomBar |->
                    [name |-> roomBar[s].name, feed |-> Append(roomBar[s].feed, m)]]
  BY <1>1, <1>4, <1>5, Mapped
<1>7. lostBar' = lostBar
  BY <1>1, <1>5, Mapped
<1>8. username[cur] \in Room!InRoom \cup lostBar
  BY <1>1, Mapped DEF Room!InRoom
<1>9. Room!Say(username[cur])
  BY <1>2, <1>6, <1>7, <1>8 DEF Room!Say, Room!Tell
<1> QED  BY <1>2, <1>9 DEF RoomStep, Room!Next
-----------------------------------------------------------------------------
(* The loops over the members.                                             *)

\* A send to f turns what f is owed into what it received, or kills f.
LEMMA SendMapped ==
    ASSUME MapInv, NEW f \in registered, NEW m \in Messages(Names), SendPacket(f, m),
           UNCHANGED <<registered, username>>,
           Owed(f) = <<m>>, Owed(f)' = <<>>,
           \A g \in registered \ {f} : Owed(g)' = Owed(g)
    PROVE  RoomStep
<1>1. /\ f \in Fds /\ registered \subseteq Fds
      /\ got \in [Fds -> Seq(Messages(Names))] /\ tcp \in [Fds -> EndpointStates]
      /\ tcp[f] # "closed"
  BY DEF MapInv, SafeInv, TypeOK, NamesOwned, DescriptorsOwned
<1>2. /\ tcp[f] # "dead" /\ tcp' = [tcp EXCEPT ![f] = AfterError(@)]
      /\ got' = IF SendOk(tcp[f]) THEN [got EXCEPT ![f] = Append(@, m)] ELSE got
  BY DEF SendPacket, SendKills
<1>3. \A g \in Fds \ {f} : tcp'[g] = tcp[g] /\ got'[g] = got[g]
  BY <1>1, <1>2
<1>4. ASSUME NEW g \in Members' PROVE Feed(g)' = Feed(g)
  <2>1. g \in registered
    BY <1>4 DEF Members
  <2>2. CASE g # f
    BY <1>1, <1>3, <2>1, <2>2 DEF Feed
  <2>3. CASE g = f
    <3>1. SendOk(tcp[f])
      BY <1>1, <1>2, <1>4, <2>3 DEF Members, SendOk, AfterError, EndpointStates
    <3>2. got'[f] = Append(got[f], m) /\ got[f] \in Seq(Messages(Names))
      BY <1>1, <1>2, <3>1
    <3>3. Feed(f) = got[f] \o <<m>> /\ Feed(f)' = Append(got[f], m) \o <<>>
      BY <3>2 DEF Feed
    <3> QED  BY <2>3, <3>2, <3>3, OwedReceived
  <2> QED  BY <2>2, <2>3
<1> QED  BY <1>1, <1>2, <1>3, <1>4, ConnectionStep

LEMMA ForwardSendMapped ==
    ASSUME MapInv, NEW f \in Fds, ForwardSend(f)
    PROVE  RoomStep
<1>1. /\ pc = "forward" /\ pc' = "forward" /\ f \in fwd /\ fwd' = fwd \ {f}
      /\ UNCHANGED <<registered, username, cur>>
      /\ SendPacket(f, Chat(username[cur]))
  BY DEF ForwardSend, dataVars
<1>2. f \in registered /\ cur \in registered
  BY <1>1 DEF MapInv, SafeInv, IterationSafe, Control
<1>3. Chat(username[cur]) \in Messages(Names)
  BY <1>2 DEF MapInv, SafeInv, NamesOwned, TypeOK, Messages, Chat
<1>4. /\ Owed(f) = <<Chat(username[cur])>> /\ Owed(f)' = <<>>
      /\ \A g \in registered \ {f} : Owed(g)' = Owed(g)
  BY <1>1 DEF Owed
<1> QED  BY <1>1, <1>2, <1>3, <1>4, SendMapped

\* The innermost activation, and those below it.
LEMMA Activations ==
    ASSUME MapInv, pc = "broadcast"
    PROVE  /\ stack \in Seq(Frames) /\ stack # <<>> /\ Len(stack) \in Nat \ {0}
           /\ Top = stack[1] /\ Top \in Frames
           /\ Top.msg \in Messages(Names) /\ Top.todo \subseteq registered
           /\ Top.failed \subseteq Fds
           /\ Top.failed \cap m_clients \subseteq registered
           /\ \A i \in 2 .. Len(stack) : stack[i].todo = {}
<1>1. stack \in Seq(Frames) /\ stack # <<>>
  BY DEF MapInv, SafeInv, TypeOK, Control
<1>2. Len(stack) \in Nat \ {0} /\ Top = stack[1] /\ Top \in Frames
  BY <1>1, EmptySeq DEF Top
<1>3. 1 \in 1 .. Len(stack)
  BY <1>2
<1>4. /\ Top.todo \subseteq registered /\ Top.failed \cap m_clients \subseteq registered
      /\ \A i \in 2 .. Len(stack) : stack[i].todo = {}
  BY <1>2, <1>3 DEF MapInv, SafeInv, IterationSafe
<1> QED  BY <1>1, <1>2, <1>4 DEF Frames

LEMMA BroadcastSendMapped ==
    ASSUME MapInv, NEW f \in Fds, BroadcastSend(f)
    PROVE  RoomStep
<1>1. /\ pc = "broadcast" /\ pc' = "broadcast" /\ f \in Top.todo
      /\ UNCHANGED <<registered, username>>
      /\ SendPacket(f, Top.msg)
  BY DEF BroadcastSend, dataVars
<1> DEFINE fr == [Top EXCEPT !.todo = @ \ {f},
                             !.failed = IF SendOk(tcp[f]) THEN @ ELSE @ \cup {f}]
<1>2. fr \in Frames /\ fr.todo = Top.todo \ {f} /\ fr.msg = Top.msg
  BY <1>1, Activations DEF Frames
<1>3. stack' = [stack EXCEPT ![1] = fr]
  BY <1>1, Activations DEF BroadcastSend
<1> HIDE DEF fr
<1>4. stack' # <<>> /\ stack'[1] = fr /\ stack' \in Seq(Frames)
  BY <1>1, <1>2, <1>3, Activations, ChangeTop
<1>5. Top'.todo = Top.todo \ {f} /\ Top'.msg = Top.msg
  BY <1>2, <1>4 DEF Top
<1>6. /\ Owed(f) = <<Top.msg>> /\ Owed(f)' = <<>>
      /\ \A g \in registered \ {f} : Owed(g)' = Owed(g)
  BY <1>1, <1>5 DEF Owed
<1>7. f \in registered /\ Top.msg \in Messages(Names)
  BY <1>1, Activations
<1> QED  BY <1>1, <1>6, <1>7, SendMapped

LEMMA BroadcastRemoveMapped ==
    ASSUME MapInv, NEW f \in Fds, BroadcastRemove(f)
    PROVE  RoomStep
<1> DEFINE rest == [stack EXCEPT ![1].failed = @ \ {f}]
           m    == Disconnected(username[f])
           new  == Frame(m, registered \ {f})
<1>1. /\ pc = "broadcast" /\ pc' = "broadcast" /\ Top.todo = {} /\ f \in Top.failed
      /\ DisconnectClient(f)
      /\ stack' = IF f \in registered THEN <<new>> \o rest ELSE rest
  BY DEF BroadcastRemove
<1>2. \A g : Owed(g) = <<>>
  BY <1>1, NothingOwed
<1>3. rest \in Seq(Frames) /\ rest # <<>> /\ rest[1].todo = {}
  <2> DEFINE fr == [Top EXCEPT !.failed = @ \ {f}]
  <2>1. fr \in Frames /\ fr.todo = {} /\ rest = [stack EXCEPT ![1] = fr]
    BY <1>1, Activations DEF Frames
  <2> HIDE DEF fr, rest
  <2> QED  BY <1>1, <2>1, Activations, ChangeTop
<1>4. registered' = registered \ {f}
  BY <1>1, OthersUntouched
<1>5. CASE f \in registered
  <2>1. new \in Frames /\ new.todo = registered \ {f} /\ new.msg = m
    BY <1>5 DEF MapInv, SafeInv, TypeOK, NamesOwned, Frame, Frames, Messages, Disconnected
  <2> HIDE DEF rest, new
  <2>2. stack' # <<>> /\ stack'[1] = new /\ stack' \in Seq(Frames)
    BY <1>1, <1>3, <1>5, <2>1, PushFrame, EmptySeq
  <2>3. Top' = new
    BY <2>2 DEF Top
  <2>4. \A g \in registered' : Owed(g)' = <<m>>
    BY <1>1, <1>4, <2>1, <2>3 DEF Owed
  <2> QED  BY <1>1, <1>2, <1>5, <2>4, MemberLeaves
<1>6. CASE f \notin registered
  <2> HIDE DEF rest
  <2>1. Top'.todo = {}
    BY <1>1, <1>3, <1>6 DEF Top
  <2>2. \A g \in registered : Owed(g)' = Owed(g)
    BY <1>1, <1>2, <2>1, NothingOwedThen
  <2> QED  BY <1>1, <1>6, <2>2, OutsiderLeaves
<1> QED  BY <1>5, <1>6

LEMMA BroadcastReturnMapped ==
    ASSUME MapInv, BroadcastReturn
    PROVE  RoomStep
<1> USE DEF netVars, dataVars
<1>1. /\ pc = "broadcast" /\ Top.todo = {} /\ stack' = Tail(stack)
      /\ UNCHANGED <<registered, username, got, tcp>>
      /\ \/ Len(stack) > 1 /\ pc' = "broadcast"
         \/ pc' \in {"print", "dispatch"}
  BY DEF BroadcastReturn, HandlerReturns
<1>2. \A g : Owed(g) = <<>>
  BY <1>1, NothingOwed
<1>3. CASE pc' \in {"print", "dispatch"}
  BY <1>1, <1>2, <1>3, NothingOwedThen, QuietStep
<1>4. CASE Len(stack) > 1 /\ pc' = "broadcast"
  <2>1. stack'[1] = stack[2] /\ stack' # <<>> /\ stack' \in Seq(Frames)
    BY <1>1, <1>4, Activations, PopFrame
  <2>2. Top'.todo = {}
    BY <1>1, <1>4, <2>1, Activations DEF Top
  <2> QED  BY <1>1, <1>2, <1>4, <2>2, NothingOwedThen, QuietStep
<1> QED  BY <1>1, <1>3, <1>4
-----------------------------------------------------------------------------
(* The invariant of the mapping.                                           *)

LEMMA RefusedStep ==
    ASSUME MapInv, [Next]_vars
    PROVE  RefusedUnregistered'
<1> USE DEF RefusedUnregistered, netVars, dataVars, loopVars
<1>1. CASE UNCHANGED <<pc, cur, registered>>
  BY <1>1 DEF MapInv
<1>2. CASE UNCHANGED vars \/ PeerConnect \/ \E f \in Fds : Peer(f)
  BY <1>1, <1>2 DEF vars, Peer, PeerConnect, PeerBegin, PeerFinish, PeerClose, PeerReset
<1>3. ASSUME NEW why, Terminate(why) PROVE pc' = "exit"
  BY <1>3 DEF Terminate
<1>4. CASE EpollError \/ NotRunning \/ UsernameUnderflow \/ SigPipe
           \/ \E f \in Fds : StaleEvent(f)
  BY <1>3, <1>4 DEF EpollError, NotRunning, UsernameUnderflow, SigPipe, StaleEvent
<1>5. CASE Main \/ Setup
  BY <1>3, <1>5 DEF Main, Setup, CreateSocket, Bind, Listening, SetupStep, CreateEpoll,
                    WatchListener
<1>6. CASE EpollWait \/ EndOfBatch \/ DispatchListen \/ AcceptUnwatched \/ AcceptFails
  BY <1>6 DEF EpollWait, EndOfBatch, DispatchListen, AcceptUnwatched, AcceptFails
<1>7. CASE RecvPacket \/ BadPublicKey \/ SendGroupKey \/ BadHandshake \/ BadUsername
           \/ RefuseUsername
  BY <1>7 DEF RecvPacket, BadPublicKey, SendGroupKey, BadHandshake, BadUsername,
              RefuseUsername, HandlerReturns
<1>8. CASE SendServerKey \/ UsernameTaken
  BY <1>8 DEF SendServerKey, UsernameTaken, MapInv, SafeInv, NamesOwned
<1>9. CASE LostMember \/ Register \/ StartForward \/ ForwardDone
  BY <1>9 DEF LostMember, Register, StartForward, ForwardDone, HandlerReturns
<1>10. CASE PrintConnected \/ BroadcastReturn
  BY <1>3, <1>10 DEF PrintConnected, BroadcastReturn, HandlerReturns
<1>11. ASSUME NEW f \in Fds,
              DispatchClient(f) \/ Accept(f) \/ ForwardSend(f) \/ BroadcastSend(f)
                \/ BroadcastRemove(f)
       PROVE  RefusedUnregistered'
  BY <1>11 DEF DispatchClient, Accept, ForwardSend, BroadcastSend, BroadcastRemove
<1> QED  BY <1>2, <1>4, <1>5, <1>6, <1>7, <1>8, <1>9, <1>10, <1>11 DEF Next, ServerStep

LEMMA NothingHeardStep ==
    ASSUME MapInv, [Next]_vars
    PROVE  NothingHeard'
<1> USE DEF NothingHeard, netVars, dataVars
<1>0. /\ \A f \in Fds \ registered : got[f] = <<>>
      /\ registered \subseteq Fds /\ got \in [Fds -> Seq(Messages(Names))]
  BY DEF MapInv, SafeInv, TypeOK
<1>1. ASSUME registered \subseteq registered', got' = got PROVE NothingHeard'
  BY <1>0, <1>1
<1>2. ASSUME NEW f \in Fds, DisconnectClient(f) PROVE NothingHeard'
  BY <1>0, <1>2 DEF DisconnectClient, CloseSession, EraseClient
<1>3. ASSUME NEW f \in registered, NEW m, SendPacket(f, m), registered' = registered
      PROVE  NothingHeard'
  BY <1>0, <1>3 DEF SendPacket
<1>4. ASSUME NEW why, Terminate(why) PROVE NothingHeard'
  BY <1>4 DEF Terminate
<1>5. CASE UNCHANGED vars \/ PeerConnect \/ \E f \in Fds : Peer(f)
  BY <1>1, <1>5 DEF vars, Peer, PeerConnect, PeerBegin, PeerFinish, PeerClose, PeerReset
<1>6. CASE EpollError \/ NotRunning \/ UsernameUnderflow \/ SigPipe
           \/ \E f \in Fds : StaleEvent(f)
  BY <1>4, <1>6 DEF EpollError, NotRunning, UsernameUnderflow, SigPipe, StaleEvent
<1>7. CASE Main \/ Setup
  BY <1>1, <1>4, <1>7 DEF Main, Setup, CreateSocket, Bind, Listening, SetupStep,
                          CreateEpoll, WatchListener, startIdle
<1>8. CASE EpollWait \/ EndOfBatch \/ DispatchListen \/ AcceptUnwatched \/ AcceptFails
  BY <1>1, <1>8 DEF EpollWait, EndOfBatch, DispatchListen, AcceptUnwatched, AcceptFails
<1>9. CASE RecvPacket \/ BadPublicKey \/ SendServerKey \/ SendGroupKey \/ UsernameTaken
  BY <1>1, <1>9 DEF RecvPacket, BadPublicKey, SendServerKey, SendGroupKey, UsernameTaken,
                    SendHandshake
<1>10. CASE BadHandshake \/ BadUsername \/ RefuseUsername \/ LostMember
  <2>1. DisconnectClient(cur) /\ cur \in Fds
    BY <1>10 DEF BadHandshake, BadUsername, RefuseUsername, LostMember, MapInv, SafeInv,
                 HandlerRefLive, TypeOK
  <2> QED  BY <1>2, <2>1
<1>11. CASE Register \/ StartForward \/ ForwardDone \/ BroadcastReturn \/ PrintConnected
  BY <1>1, <1>4, <1>11 DEF Register, StartForward, ForwardDone, BroadcastReturn,
                           PrintConnected
<1>12. ASSUME NEW f \in Fds, DispatchClient(f) \/ Accept(f) PROVE NothingHeard'
  BY <1>1, <1>12 DEF DispatchClient, Accept
<1>13. ASSUME NEW f \in Fds, ForwardSend(f) PROVE NothingHeard'
  BY <1>3, <1>13 DEF ForwardSend, MapInv, SafeInv, IterationSafe
<1>14. ASSUME NEW f \in Fds, BroadcastSend(f) PROVE NothingHeard'
  <2>1. f \in registered /\ SendPacket(f, Top.msg) /\ registered' = registered
    BY <1>14, Activations DEF BroadcastSend
  <2> QED  BY <1>3, <2>1
<1>15. ASSUME NEW f \in Fds, BroadcastRemove(f) PROVE NothingHeard'
  BY <1>2, <1>15 DEF BroadcastRemove
<1> QED  BY <1>5, <1>6, <1>7, <1>8, <1>9, <1>10, <1>11, <1>12, <1>13, <1>14, <1>15
         DEF Next, ServerStep

LEMMA MapInvariant == Spec => []MapInv
<1>1. Init => RefusedUnregistered /\ NothingHeard
  BY DEF Init, RefusedUnregistered, NothingHeard
<1>2. MapInv /\ [Next]_vars => RefusedUnregistered' /\ NothingHeard'
  BY RefusedStep, NothingHeardStep
<1>3. MapInv <=> SafeInv /\ RefusedUnregistered /\ NothingHeard
  BY DEF MapInv
<1> QED  BY <1>1, <1>2, <1>3, SafeInvariant, PTL DEF Spec
-----------------------------------------------------------------------------
(* The refinement, and what the room promises.                             *)

\* Every behaviour of the server is one of the room: a broadcast is one
\* message in one order, although it is sent client by client, fails half
\* way, and makes further broadcasts of its own.
THEOREM ServerImplementsRoom == Spec => ImplementsRoom
<1>1. Init => Room!Init
  BY InitMapped
<1>2. MapInv /\ [Next]_vars => [Room!Next]_Room!roomVars
  <2> SUFFICES ASSUME MapInv, [Next]_vars PROVE RoomStep
    BY DEF RoomStep, Unseen, Room!roomVars
  <2>1. CASE PeerConnect \/ \E f \in Fds : Peer(f)
    BY <2>1, PeerMapped
  <2>2. CASE EpollError
    BY <2>2, LoopMapped
  <2>3. CASE ServerStep
    <3>1. CASE SigPipe
      BY <3>1, TerminateMapped DEF SigPipe
    <3> QED  BY <2>3, <3>1, LoopMapped, HandshakeMapped, LostMemberMapped, RegisterMapped,
                StartForwardMapped, ForwardSendMapped, BroadcastSendMapped,
                BroadcastRemoveMapped, BroadcastReturnMapped DEF ServerStep
  <2>4. CASE UNCHANGED vars
    <3>1. /\ UNCHANGED <<registered, username, got, tcp>>
          /\ \A g : Owed(g)' = Owed(g)
      BY <2>4 DEF vars, netVars, dataVars, loopVars, Owed, Top
    <3> QED  BY <3>1, QuietStep
  <2> QED  BY <2>1, <2>2, <2>3, <2>4 DEF Next
<1> QED  BY <1>1, <1>2, MapInvariant, PTL DEF Spec, ImplementsRoom, Room!Spec

LEMMA SameRoom == Spec => RoomFacts!Spec
<1>1. Room!Init => RoomFacts!Init
  BY DEF Room!Init, RoomFacts!Init
<1>2. [Room!Next]_Room!roomVars => [RoomFacts!Next]_RoomFacts!roomVars
  BY DEF Room!Next, RoomFacts!Next, Room!roomVars, RoomFacts!roomVars,
         Room!Leave, RoomFacts!Leave, Room!Lose, RoomFacts!Lose, Room!Join, RoomFacts!Join,
         Room!JoinLost, RoomFacts!JoinLost, Room!Say, RoomFacts!Say, Room!Bury,
         RoomFacts!Bury, Room!Close, RoomFacts!Close, Room!Tell, RoomFacts!Tell,
         Room!InRoom, RoomFacts!InRoom, Room!Connected, RoomFacts!Connected,
         Room!Disconnected, RoomFacts!Disconnected, Room!Chat, RoomFacts!Chat
<1> QED  BY <1>1, <1>2, ServerImplementsRoom, PTL
         DEF ImplementsRoom, Room!Spec, RoomFacts!Spec

\* Two clients of the server that have been in the room together have the
\* same messages in the same order, whatever failed in between.
THEOREM MembersAlwaysAgree == Spec => []MembersAgree
<1>1. RoomFacts!OneOrder => MembersAgree
  BY DEF MembersAgree, Room!OneOrder, RoomFacts!OneOrder, Room!FromEnd, RoomFacts!FromEnd
<1> QED  BY <1>1, SameRoom, RoomFacts!RoomIsOrdered, PTL

\* No client believes in one whose disconnect the server has handled.
THEOREM MembersSeeNoGhosts == Spec => []NoGhostMembers
<1>1. RoomFacts!NoGhosts => NoGhostMembers
  BY DEF NoGhostMembers, Room!NoGhosts, RoomFacts!NoGhosts, Room!Present, RoomFacts!Present,
         Room!InRoom, RoomFacts!InRoom, Room!Connected, RoomFacts!Connected,
         Room!Disconnected, RoomFacts!Disconnected
<1> QED  BY <1>1, SameRoom, RoomFacts!RoomHasNoGhosts, PTL
=============================================================================
