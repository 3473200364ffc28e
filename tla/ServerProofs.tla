---------------------------- MODULE ServerProofs ----------------------------
(***************************************************************************)
(* The safety of the server for every number of clients, names and         *)
(* packets: its type invariant, the ownership of descriptors and names,    *)
(* and the safety of the loops over m_clients.                             *)
(***************************************************************************)
EXTENDS Server, SequenceTheorems, FiniteSetTheorems, TLAPS

\* What the properties need to know about where the thread is: frames and
\* fwd exist only inside the loop they belong to.
Control ==
    /\ (pc = "broadcast") <=> (stack # <<>>)
    /\ pc # "forward" => fwd = {}
    /\ pc = "forward" => cur \in registered

\* The inductive invariant.
SafeInv ==
    /\ TypeOK
    /\ DescriptorsOwned
    /\ NamesOwned
    /\ IterationSafe
    /\ HandlerRefLive
    /\ Control

-----------------------------------------------------------------------------
(* The stack of activations.                                               *)

\* A new activation on top of the stack.
LEMMA PushFrame ==
    ASSUME NEW S, NEW x \in S, NEW s \in Seq(S)
    PROVE  /\ <<x>> \o s \in Seq(S)
           /\ Len(<<x>> \o s) = Len(s) + 1
           /\ (<<x>> \o s)[1] = x
           /\ \A i \in 2 .. Len(s) + 1 : (<<x>> \o s)[i] = s[i - 1]
  OBVIOUS

\* Returning from the innermost activation.
LEMMA PopFrame ==
    ASSUME NEW S, NEW s \in Seq(S), s # <<>>
    PROVE  /\ Tail(s) \in Seq(S)
           /\ Len(Tail(s)) = Len(s) - 1
           /\ \A i \in 1 .. Len(s) - 1 : Tail(s)[i] = s[i + 1]
           /\ (Len(s) = 1) <=> (Tail(s) = <<>>)
<1>1. Len(s) \in Nat \ {0}
  OBVIOUS
<1>2. Tail(s) \in Seq(S) /\ Len(Tail(s)) = Len(s) - 1
  BY <1>1
<1>3. \A i \in 1 .. Len(s) - 1 : Tail(s)[i] = s[i + 1]
  BY <1>1
<1>4. (Len(s) = 1) <=> (Tail(s) = <<>>)
  <2>1. Tail(s) = <<>> => Len(Tail(s)) = 0
    BY EmptySeq
  <2>2. Tail(s) # <<>> => Len(Tail(s)) \in Nat \ {0}
    BY <1>2, EmptySeq
  <2> QED  BY <1>1, <1>2, <2>1, <2>2
<1> QED  BY <1>2, <1>3, <1>4

\* A change to the innermost activation.
LEMMA ChangeTop ==
    ASSUME NEW S, NEW s \in Seq(S), s # <<>>, NEW x \in S
    PROVE  /\ [s EXCEPT ![1] = x] \in Seq(S)
           /\ Len([s EXCEPT ![1] = x]) = Len(s)
           /\ [s EXCEPT ![1] = x][1] = x
           /\ \A i \in 2 .. Len(s) : [s EXCEPT ![1] = x][i] = s[i]
           /\ [s EXCEPT ![1] = x] # <<>>
  OBVIOUS
-----------------------------------------------------------------------------
(* The invariant holds initially, and whenever the process ends.           *)

LEMMA InitSafe == Init => SafeInv
<1> SUFFICES ASSUME Init PROVE SafeInv
  OBVIOUS
<1>1. TypeOK
  BY ServerAssumption, EmptySeq DEF Init, TypeOK, EndpointStates, Frames
<1>2. DescriptorsOwned /\ NamesOwned /\ IterationSafe /\ HandlerRefLive /\ Control
  BY EmptySeq DEF Init, DescriptorsOwned, NamesOwned, IterationSafe, HandlerRefLive, Control
<1> QED  BY <1>1, <1>2 DEF SafeInv

LEMMA TerminateSafe ==
    ASSUME SafeInv, NEW why \in {"usage", "failed", "stop", "stale", "sigpipe", "exception", "dangling"},
           Terminate(why)
    PROVE  SafeInv'
<1>1. TypeOK'
  BY ServerAssumption, EmptySeq DEF SafeInv, Terminate, TypeOK, EndpointStates
<1>2. (DescriptorsOwned /\ NamesOwned /\ IterationSafe /\ HandlerRefLive /\ Control)'
  BY EmptySeq DEF Terminate, DescriptorsOwned, NamesOwned, IterationSafe,
                  HandlerRefLive, Control
<1> QED  BY <1>1, <1>2 DEF SafeInv

-----------------------------------------------------------------------------
(* The peers touch the connections only, and never open or close one.      *)

LEMMA PeerSafe ==
    ASSUME SafeInv, PeerConnect \/ \E f \in Fds : Peer(f)
    PROVE  SafeInv'
<1> USE DEF SafeInv, TypeOK, EndpointStates, lifeVars
<1>1. UNCHANGED <<dataVars, m_clientsMutex, pc, loopVars, lifeVars>>
  BY DEF Peer, PeerConnect, PeerBegin, PeerFinish, PeerClose, PeerReset
<1>2. TypeOK' /\ DescriptorsOwned'
  <2>1. CASE PeerConnect
    BY <2>1 DEF PeerConnect, netVars, dataVars, loopVars, DescriptorsOwned
  <2>2. ASSUME NEW f \in Fds, PeerBegin(f) PROVE TypeOK' /\ DescriptorsOwned'
    BY <2>2 DEF PeerBegin, dataVars, loopVars, DescriptorsOwned
  <2>3. ASSUME NEW f \in Fds, PeerFinish(f) PROVE TypeOK' /\ DescriptorsOwned'
    BY <2>3, ServerAssumption DEF PeerFinish, peerVars, dataVars, loopVars, DescriptorsOwned
  <2>4. ASSUME NEW f \in Fds, PeerClose(f) PROVE TypeOK' /\ DescriptorsOwned'
    <3>1. inbox' \in [Fds -> Seq(Packets)]
      <4>1. CASE UNCHANGED inbox
        BY <4>1
      <4>2. ASSUME NEW p \in RawPackets, inbox' = [inbox EXCEPT ![f] = Append(@, p)]
            PROVE  inbox' \in [Fds -> Seq(Packets)]
        BY <4>2 DEF Packets
      <4> QED  BY <2>4, <4>1, <4>2 DEF PeerClose
    <3>2. /\ tcp' \in [Fds -> EndpointStates] /\ half' \subseteq Fds
          /\ UNCHANGED <<got, peerVars>>
      BY <2>4 DEF PeerClose
    <3>3. DescriptorsOwned'
      BY <1>1, <2>4 DEF PeerClose, dataVars, DescriptorsOwned
    <3> QED  BY <1>1, <3>1, <3>2, <3>3 DEF peerVars, dataVars, loopVars
  <2>5. ASSUME NEW f \in Fds, PeerReset(f) PROVE TypeOK' /\ DescriptorsOwned'
    BY <2>5 DEF PeerReset, AfterReset, peerVars, dataVars, loopVars, DescriptorsOwned
  <2> QED  BY <2>1, <2>2, <2>3, <2>4, <2>5 DEF Peer
<1>3. (NamesOwned /\ IterationSafe /\ HandlerRefLive /\ Control)'
  BY <1>1 DEF NamesOwned, IterationSafe, HandlerRefLive, Control, dataVars, loopVars
<1> QED  BY <1>2, <1>3
-----------------------------------------------------------------------------
(* What DisconnectClient leaves behind.                                    *)

LEMMA DisconnectSafe ==
    ASSUME SafeInv, NEW f \in Fds, DisconnectClient(f)
    PROVE  /\ tcp' \in [Fds -> EndpointStates]
           /\ inbox' \in [Fds -> Seq(Packets)]
           /\ half' \subseteq Fds
           /\ got' \in [Fds -> Seq(Messages(Names))]
           /\ m_clients' \subseteq Fds
           /\ key_exchanged' \subseteq Fds
           /\ registered' = registered \ {f}
           /\ username' \in [Fds -> Names \cup {NoName}]
           /\ m_usernames' \subseteq Names
           /\ m_clients' = m_clients \ {f}
           /\ DescriptorsOwned'
           /\ NamesOwned'
<1> USE DEF SafeInv, TypeOK, DisconnectClient, CloseSession, EraseClient
<1>1. /\ tcp' \in [Fds -> EndpointStates]
      /\ half' \subseteq Fds
      /\ m_clients' = m_clients \ {f}
      /\ m_clients' \subseteq Fds
      /\ key_exchanged' \subseteq Fds
      /\ registered' = registered \ {f}
      /\ username' \in [Fds -> Names \cup {NoName}]
      /\ m_usernames' \subseteq Names
  BY DEF EndpointStates
<1>2. inbox' \in [Fds -> Seq(Packets)] /\ got' \in [Fds -> Seq(Messages(Names))]
  BY EmptySeq
<1>3. DescriptorsOwned'
  BY DEF DescriptorsOwned
<1>4. NamesOwned'
  BY DEF NamesOwned
<1> QED  BY <1>1, <1>2, <1>3, <1>4

-----------------------------------------------------------------------------
(* The event loop and HandleNewConnection.                                 *)

LEMMA LoopSafe ==
    ASSUME SafeInv,
           \/ Main \/ Setup \/ NotRunning
           \/ EpollWait \/ EpollError \/ EndOfBatch \/ DispatchListen
           \/ AcceptUnwatched \/ AcceptFails
           \/ \E f \in Fds : DispatchClient(f) \/ StaleEvent(f) \/ Accept(f)
    PROVE  SafeInv'
<1> USE DEF SafeInv, TypeOK, peerVars, netVars, dataVars, loopVars, lifeVars
<1>10. CASE Main
  <2>1. CASE \E why \in {"usage", "exception"} : Terminate(why)
    BY <2>1, TerminateSafe
  <2>2. CASE ~ \E why \in {"usage", "exception"} : Terminate(why)
    <3>1. /\ UNCHANGED <<startIdle, m_listenfd, m_epollfd, watched>>
          /\ m_running' = TRUE /\ pc = "main" /\ pc' = "socket"
      BY <1>10, <2>2 DEF Main
    <3>2. TypeOK'
      BY <3>1 DEF startIdle
    <3>3. (DescriptorsOwned /\ NamesOwned /\ IterationSafe /\ HandlerRefLive /\ Control)'
      BY <3>1 DEF startIdle, DescriptorsOwned, NamesOwned, IterationSafe, HandlerRefLive,
                  Control
    <3> QED  BY <3>2, <3>3
  <2> QED  BY <2>1, <2>2
<1>11. CASE Setup
  <2>1. /\ UNCHANGED startIdle
        /\ pc \notin {"broadcast", "forward"}
        /\ pc' \in {"bind", "listen", "epoll", "watch", "wait"}
    BY <1>11 DEF Setup, CreateSocket, Bind, Listening, SetupStep, CreateEpoll, WatchListener
  <2>2. /\ {m_running', m_epollfd', watched'} \subseteq BOOLEAN
        /\ m_listenfd' \in {"none", "open", "bound", "listening"}
    BY <1>11 DEF Setup, CreateSocket, Bind, Listening, SetupStep, CreateEpoll, WatchListener,
                 Stop
  <2>3. TypeOK'
    BY <2>1, <2>2 DEF startIdle
  <2>4. (DescriptorsOwned /\ NamesOwned /\ IterationSafe /\ HandlerRefLive /\ Control)'
    BY <2>1 DEF startIdle, DescriptorsOwned, NamesOwned, IterationSafe, HandlerRefLive, Control
  <2> QED  BY <2>3, <2>4
<1>12. CASE NotRunning
  BY <1>12, TerminateSafe DEF NotRunning
<1>1. CASE EpollWait
  BY <1>1 DEF EpollWait, Ready, Readable, DescriptorsOwned, NamesOwned, IterationSafe,
              HandlerRefLive, Control
<1>2. CASE EpollError
  BY <1>2, TerminateSafe DEF EpollError
<1>3. CASE EndOfBatch
  <2>1. TypeOK' /\ DescriptorsOwned' /\ NamesOwned'
    BY <1>3 DEF EndOfBatch, DescriptorsOwned, NamesOwned
  <2>2. (IterationSafe /\ HandlerRefLive)'
    BY <1>3 DEF EndOfBatch, IterationSafe, HandlerRefLive
  <2>3. Control'
    BY <1>3 DEF EndOfBatch, Control
  <2> QED  BY <2>1, <2>2, <2>3
<1>4. CASE DispatchListen
  <2>1. TypeOK' /\ DescriptorsOwned' /\ NamesOwned'
    BY <1>4 DEF DispatchListen, DescriptorsOwned, NamesOwned
  <2>2. (IterationSafe /\ HandlerRefLive)'
    BY <1>4 DEF DispatchListen, IterationSafe, HandlerRefLive
  <2>3. Control'
    BY <1>4 DEF DispatchListen, Control
  <2> QED  BY <2>1, <2>2, <2>3
<1>5. CASE AcceptUnwatched
  BY <1>5 DEF AcceptUnwatched, DescriptorsOwned, NamesOwned, IterationSafe,
              HandlerRefLive, Control
<1>6. CASE AcceptFails
  BY <1>6 DEF AcceptFails, DescriptorsOwned, NamesOwned, IterationSafe,
              HandlerRefLive, Control
<1>7. ASSUME NEW f \in Fds, DispatchClient(f) PROVE SafeInv'
  BY <1>7 DEF DispatchClient, DescriptorsOwned, NamesOwned, IterationSafe,
              HandlerRefLive, Control
<1>8. ASSUME NEW f \in Fds, StaleEvent(f) PROVE SafeInv'
  BY <1>8, TerminateSafe DEF StaleEvent
<1>9. ASSUME NEW f \in Fds, Accept(f) PROVE SafeInv'
  <2>1. TypeOK' /\ DescriptorsOwned' /\ NamesOwned'
    BY <1>9 DEF Accept, DescriptorsOwned, NamesOwned, EndpointStates
  <2>2. (IterationSafe /\ HandlerRefLive /\ Control)'
    BY <1>9, EmptySeq DEF Accept, IterationSafe, HandlerRefLive, Control
  <2> QED  BY <2>1, <2>2
<1> QED  BY <1>1, <1>2, <1>3, <1>4, <1>5, <1>6, <1>7, <1>8, <1>9, <1>10, <1>11, <1>12
-----------------------------------------------------------------------------
(* HandleClientEvent.                                                      *)

LEMMA HandlerSafe ==
    ASSUME SafeInv,
           \/ RecvPacket \/ BadPublicKey \/ SendServerKey \/ SendGroupKey
           \/ BadHandshake \/ LostMember \/ BadUsername \/ UsernameUnderflow
           \/ UsernameTaken \/ RefuseUsername \/ Register \/ PrintConnected
           \/ StartForward \/ ForwardDone
           \/ \E f \in Fds : ForwardSend(f)
    PROVE  SafeInv'
<1> USE DEF SafeInv, TypeOK, peerVars, netVars, dataVars, loopVars, lifeVars
<1>13. CASE RecvPacket
  <2>1. cur \in Fds /\ cur \in m_clients /\ inbox[cur] \in Seq(Packets)
    BY <1>13 DEF RecvPacket, HandlerRefLive
  <2>2. /\ pc = "recv" /\ pc' = "handle"
        /\ UNCHANGED <<got, peerVars, dataVars, m_clientsMutex,
                       batch, cur, fwd, stack, lifeVars>>
        /\ half' \subseteq Fds
    BY <1>13 DEF RecvPacket
  <2>3. /\ inbox' \in [Fds -> Seq(Packets)]
        /\ pkt' \in Packets \cup {NullOpt}
        /\ tcp' \in [Fds -> EndpointStates]
        /\ \A f \in Fds : tcp'[f] = "closed" <=> tcp[f] = "closed"
    <3>1. CASE inbox[cur] # <<>>
      <4>1. Head(inbox[cur]) \in Packets /\ Tail(inbox[cur]) \in Seq(Packets)
        BY <2>1, <3>1
      <4>2. /\ pkt' = Head(inbox[cur]) /\ tcp' = tcp
            /\ inbox' = [inbox EXCEPT ![cur] = Tail(@)]
        BY <1>13, <3>1 DEF RecvPacket
      <4> QED  BY <2>1, <4>1, <4>2
    <3>2. CASE inbox[cur] = <<>>
      <4>1. /\ Ended(tcp[cur]) /\ inbox' = inbox
            /\ pkt' = NullOpt \/ pkt' \in RawPackets
            /\ tcp' = [tcp EXCEPT ![cur] = AfterError(@)]
        BY <1>13, <3>2 DEF RecvPacket
      <4> QED  BY <2>1, <4>1 DEF AfterError, Ended, EndpointStates, Packets
    <3> QED  BY <3>1, <3>2
  <2>4. TypeOK' /\ DescriptorsOwned'
    BY <2>2, <2>3 DEF DescriptorsOwned
  <2>5. (NamesOwned /\ IterationSafe /\ HandlerRefLive /\ Control)'
    BY <2>1, <2>2 DEF NamesOwned, IterationSafe, HandlerRefLive, Control
  <2> QED  BY <2>4, <2>5
<1>1. CASE BadPublicKey
  BY <1>1 DEF BadPublicKey, HandlerReturns, DescriptorsOwned, NamesOwned,
              IterationSafe, HandlerRefLive, Control
<1>2. CASE SendServerKey
  <2>1. cur \in Fds /\ cur \in m_clients
    BY <1>2 DEF SendServerKey, HandlerRefLive
  <2> QED  BY <1>2, <2>1 DEF SendServerKey, SendHandshake, AfterError, EndpointStates,
           DescriptorsOwned, NamesOwned, IterationSafe, HandlerRefLive, Control
<1>3. CASE SendGroupKey
  <2>1. cur \in Fds /\ cur \in m_clients
    BY <1>3 DEF SendGroupKey, HandlerRefLive
  <2> QED  BY <1>3, <2>1 DEF SendGroupKey, SendHandshake, HandlerReturns, AfterError,
           EndpointStates, DescriptorsOwned, NamesOwned, IterationSafe, HandlerRefLive, Control
<1>4. CASE UsernameTaken
  <2>1. cur \in Fds /\ cur \in m_clients
    BY <1>4 DEF UsernameTaken, HandlerRefLive
  <2> QED  BY <1>4, <2>1 DEF UsernameTaken, SendHandshake, AfterError, EndpointStates,
           DescriptorsOwned, NamesOwned, IterationSafe, HandlerRefLive, Control
<1>5. ASSUME \/ BadHandshake \/ BadUsername \/ RefuseUsername
      PROVE  SafeInv'
  <2>1. cur \in Fds /\ DisconnectClient(cur) /\ HandlerReturns
    BY <1>5 DEF BadHandshake, BadUsername, RefuseUsername, HandlerRefLive
  <2>2. stack = <<>> /\ fwd = {} /\ UNCHANGED <<stack, fwd, batch, peerVars, lifeVars>>
        /\ m_clientsMutex' \in BOOLEAN
    BY <1>5 DEF BadHandshake, BadUsername, RefuseUsername, Control
  <2>3. TypeOK' /\ DescriptorsOwned' /\ NamesOwned'
    BY <2>1, <2>2, DisconnectSafe DEF HandlerReturns
  <2>4. (IterationSafe /\ HandlerRefLive /\ Control)'
    BY <2>1, <2>2, EmptySeq DEF HandlerReturns, IterationSafe, HandlerRefLive, Control
  <2> QED  BY <2>3, <2>4
<1>6. CASE LostMember
  <2>1. cur \in Fds /\ cur \in registered /\ DisconnectClient(cur)
    BY <1>6 DEF LostMember
  <2>2. username[cur] \in Names /\ fwd = {} /\ fwd' = {}
    BY <1>6, <2>1 DEF LostMember, NamesOwned, Control, loopVars
  <2> DEFINE fr == Frame(Disconnected(username[cur]), registered \ {cur})
  <2>3. fr \in Frames
    BY <2>2 DEF Frame, Frames, Messages, Disconnected
  <2>4. stack' = <<fr>> /\ pc' = "broadcast"
    BY <1>6 DEF LostMember
  <2>5. fr.todo = registered \ {cur} /\ fr.failed = {}
    BY DEF Frame
  <2>6. TypeOK' /\ DescriptorsOwned' /\ NamesOwned'
    <3> HIDE DEF fr
    <3> QED  BY <1>6, <2>1, <2>3, <2>4, DisconnectSafe DEF LostMember
  <2>7. (IterationSafe /\ HandlerRefLive /\ Control)'
    <3> HIDE DEF fr
    <3>1. registered' = registered \ {cur}
      BY <2>1, DisconnectSafe
    <3> QED  BY <2>2, <2>4, <2>5, <3>1 DEF IterationSafe, HandlerRefLive, Control
  <2> QED  BY <2>6, <2>7
<1>7. CASE UsernameUnderflow
  BY <1>7, TerminateSafe DEF UsernameUnderflow
<1>8. CASE Register
  <2>1. cur \in Fds /\ cur \in m_clients /\ cur \in key_exchanged
    BY <1>8 DEF Register, HandlerRefLive
  <2>2. pkt \in Names /\ pkt \notin m_usernames /\ fwd = {} /\ fwd' = {}
    BY <1>8 DEF Register, Control
  <2> DEFINE fr == Frame(Connected(pkt), registered \cup {cur})
  <2>3. fr \in Frames
    BY <2>1, <2>2 DEF Frame, Frames, Messages, Connected
  <2>4. stack' = <<fr>> /\ pc' = "broadcast" /\ registered' = registered \cup {cur}
    BY <1>8 DEF Register
  <2>5. fr.todo = registered \cup {cur} /\ fr.failed = {}
    BY DEF Frame
  <2>6. TypeOK' /\ DescriptorsOwned'
    <3> HIDE DEF fr
    <3> QED  BY <1>8, <2>1, <2>2, <2>3, <2>4 DEF Register, DescriptorsOwned
  <2>7. NamesOwned'
    BY <1>8, <2>1, <2>2 DEF Register, NamesOwned
  <2>8. (IterationSafe /\ HandlerRefLive /\ Control)'
    <3> HIDE DEF fr
    <3> QED  BY <2>2, <2>4, <2>5 DEF IterationSafe, HandlerRefLive, Control
  <2> QED  BY <2>6, <2>7, <2>8
<1>9. CASE PrintConnected
  <2>1. CASE Terminate("dangling")
    BY <2>1, TerminateSafe
  <2>2. CASE HandlerReturns /\ UNCHANGED <<peerVars, netVars, dataVars, m_clientsMutex,
                                           batch, fwd, stack, lifeVars>>
    BY <1>9, <2>2 DEF PrintConnected, HandlerReturns, DescriptorsOwned, NamesOwned,
                      IterationSafe, HandlerRefLive, Control
  <2> QED  BY <1>9, <2>1, <2>2 DEF PrintConnected
<1>10. CASE StartForward
  BY <1>10 DEF StartForward, DescriptorsOwned, NamesOwned, IterationSafe,
               HandlerRefLive, Control
<1>11. CASE ForwardDone
  BY <1>11 DEF ForwardDone, HandlerReturns, DescriptorsOwned, NamesOwned,
               IterationSafe, HandlerRefLive, Control
<1>12. ASSUME NEW f \in Fds, ForwardSend(f) PROVE SafeInv'
  <2>1. cur \in registered /\ username[cur] \in Names
    BY <1>12 DEF ForwardSend, Control, NamesOwned
  <2>2. Chat(username[cur]) \in Messages(Names)
    BY <2>1 DEF Chat, Messages
  <2>3. got' \in [Fds -> Seq(Messages(Names))]
    BY <1>12, <2>2 DEF ForwardSend, SendPacket
  <2>4. f \in m_clients /\ tcp[f] # "closed"
    BY <1>12 DEF ForwardSend, IterationSafe, NamesOwned, DescriptorsOwned
  <2>5. TypeOK'
    BY <1>12, <2>3, <2>4 DEF ForwardSend, SendPacket, AfterError, EndpointStates
  <2>6. DescriptorsOwned' /\ NamesOwned'
    BY <1>12, <2>4 DEF ForwardSend, SendPacket, AfterError, EndpointStates,
                       DescriptorsOwned, NamesOwned
  <2>7. (IterationSafe /\ HandlerRefLive /\ Control)'
    BY <1>12 DEF ForwardSend, IterationSafe, HandlerRefLive, Control
  <2> QED  BY <2>5, <2>6, <2>7
<1> HIDE DEF SafeInv, TypeOK, peerVars, netVars, dataVars, loopVars, lifeVars
<1> QED  BY <1>1, <1>2, <1>3, <1>4, <1>5, <1>6, <1>7, <1>8, <1>9, <1>10, <1>11, <1>12,
            <1>13
-----------------------------------------------------------------------------
(* BroadcastEncrypted and the final theorem.                               *)

LEMMA BroadcastSafe ==
    ASSUME SafeInv,
           BroadcastReturn \/ \E f \in Fds : BroadcastSend(f) \/ BroadcastRemove(f)
    PROVE  SafeInv'
<1> USE DEF SafeInv, TypeOK, peerVars, netVars, dataVars, loopVars, lifeVars
<1>1. /\ stack \in Seq(Frames) /\ stack # <<>> /\ Len(stack) \in Nat \ {0}
      /\ Top = stack[1] /\ Top \in Frames
      /\ fwd = {} /\ pc = "broadcast"
  <2>1. pc = "broadcast" /\ stack \in Seq(Frames) /\ stack # <<>> /\ fwd = {}
    BY DEF BroadcastReturn, BroadcastSend, BroadcastRemove, Control
  <2>2. Len(stack) \in Nat \ {0}
    BY <2>1, EmptySeq
  <2> QED  BY <2>1, <2>2 DEF Top
<1>2. /\ Top.msg \in Messages(Names) /\ Top.todo \subseteq registered
      /\ Top.failed \subseteq Fds
      /\ Top.failed \cap m_clients \subseteq registered
  <2>1. 1 \in 1 .. Len(stack)
    BY <1>1
  <2>2. Top.todo \subseteq registered /\ Top.failed \cap m_clients \subseteq registered
    BY <1>1, <2>1 DEF IterationSafe
  <2> QED  BY <1>1, <2>2 DEF Frames
<1>3. CASE BroadcastReturn
  <2>1. stack' = Tail(stack)
    BY <1>3 DEF BroadcastReturn
  <2>2. /\ stack' \in Seq(Frames)
        /\ Len(stack') = Len(stack) - 1
        /\ \A i \in 1 .. Len(stack) - 1 : stack'[i] = stack[i + 1]
        /\ (Len(stack) = 1) <=> (stack' = <<>>)
    BY <1>1, <2>1, PopFrame
  <2>3. TypeOK' /\ DescriptorsOwned' /\ NamesOwned'
    BY <1>3, <2>2 DEF BroadcastReturn, HandlerReturns, DescriptorsOwned, NamesOwned
  <2>4. IterationSafe'
    BY <1>1, <1>3, <2>2 DEF BroadcastReturn, IterationSafe
  <2>5. (HandlerRefLive /\ Control)'
    BY <1>1, <1>3, <2>2 DEF BroadcastReturn, HandlerReturns, HandlerRefLive, Control
  <2> QED  BY <2>3, <2>4, <2>5
<1>4. ASSUME NEW f \in Fds, BroadcastSend(f) PROVE SafeInv'
  <2>1. f \in registered /\ f \in m_clients /\ tcp[f] # "closed"
    BY <1>2, <1>4 DEF BroadcastSend, NamesOwned, DescriptorsOwned
  <2> DEFINE fr == [Top EXCEPT !.todo = @ \ {f},
                               !.failed = IF SendOk(tcp[f]) THEN @ ELSE @ \cup {f}]
  <2>2. fr \in Frames /\ fr.todo = Top.todo \ {f} /\ fr.failed \subseteq Top.failed \cup {f}
    BY <1>1 DEF Frames
  <2>3. stack' = [stack EXCEPT ![1] = fr]
    BY <1>1, <1>4 DEF BroadcastSend
  <2> HIDE DEF fr
  <2>4. /\ stack' \in Seq(Frames) /\ stack' # <<>> /\ Len(stack') = Len(stack)
        /\ stack'[1] = fr
        /\ \A i \in 2 .. Len(stack) : stack'[i] = stack[i]
    BY <1>1, <2>2, <2>3, ChangeTop
  <2>5. got' \in [Fds -> Seq(Messages(Names))]
    <3>1. got' \in {got, [got EXCEPT ![f] = Append(@, Top.msg)]}
      BY <1>4 DEF BroadcastSend, SendPacket
    <3>2. got \in [Fds -> Seq(Messages(Names))] /\ got[f] \in Seq(Messages(Names))
      OBVIOUS
    <3>3. Append(got[f], Top.msg) \in Seq(Messages(Names))
      BY <1>2, <3>2, AppendProperties
    <3> HIDE DEF SafeInv, TypeOK
    <3> QED  BY <3>1, <3>2, <3>3
  <2>9. /\ tcp' = [tcp EXCEPT ![f] = AfterError(@)]
        /\ UNCHANGED <<inbox, half, peerVars, dataVars, m_clientsMutex, pc,
                       batch, cur, pkt, fwd, lifeVars>>
    BY <1>4 DEF BroadcastSend, SendPacket
  <2>6. TypeOK' /\ DescriptorsOwned' /\ NamesOwned'
    <3>1. tcp' \in [Fds -> EndpointStates] /\ DescriptorsOwned'
      BY <2>9, <2>1 DEF AfterError, EndpointStates, DescriptorsOwned
    <3>2. NamesOwned'
      BY <2>9 DEF NamesOwned
    <3> QED  BY <2>9, <2>4, <2>5, <3>1, <3>2
  <2>7. IterationSafe'
    <3>1. fr.todo \subseteq registered /\ fr.failed \cap m_clients \subseteq registered
      BY <1>2, <2>1, <2>2
    <3>2. \A i \in 1 .. Len(stack') :
            /\ stack'[i].todo \subseteq registered
            /\ i > 1 => stack'[i].todo = {}
            /\ stack'[i].failed \cap m_clients \subseteq registered
      <4> SUFFICES ASSUME NEW i \in 1 .. Len(stack')
                   PROVE  /\ stack'[i].todo \subseteq registered
                          /\ i > 1 => stack'[i].todo = {}
                          /\ stack'[i].failed \cap m_clients \subseteq registered
        OBVIOUS
      <4>1. CASE i = 1
        BY <2>4, <3>1, <4>1
      <4>2. CASE i # 1
        <5>1. i \in 2 .. Len(stack) /\ stack'[i] = stack[i]
          BY <1>1, <2>4, <4>2
        <5> QED  BY <5>1 DEF IterationSafe
      <4> QED  BY <4>1, <4>2
    <3> QED  BY <1>1, <2>9, <3>2 DEF IterationSafe
  <2>8. (HandlerRefLive /\ Control)'
    BY <1>1, <1>4, <2>4 DEF BroadcastSend, HandlerRefLive, Control
  <2> QED  BY <2>6, <2>7, <2>8
<1>5. ASSUME NEW f \in Fds, BroadcastRemove(f) PROVE SafeInv'
  <2>1. DisconnectClient(f) /\ Top.todo = {} /\ pc' = "broadcast"
        /\ UNCHANGED <<peerVars, m_clientsMutex, pc, batch, cur, pkt, fwd, lifeVars>>
    BY <1>1, <1>5 DEF BroadcastRemove
  <2>2. registered' = registered \ {f} /\ m_clients' = m_clients \ {f}
    BY <2>1, DisconnectSafe
  <2> DEFINE fr   == [Top EXCEPT !.failed = @ \ {f}]
             rest == [stack EXCEPT ![1].failed = @ \ {f}]
             new  == Frame(Disconnected(username[f]), registered \ {f})
  <2>3. fr \in Frames /\ fr.todo = {} /\ fr.failed \subseteq Top.failed \ {f}
    BY <1>1, <2>1 DEF Frames
  <2>4. rest = [stack EXCEPT ![1] = fr]
    BY <1>1
  <2>5. /\ rest \in Seq(Frames) /\ rest # <<>> /\ Len(rest) = Len(stack)
        /\ rest[1] = fr
        /\ \A i \in 2 .. Len(stack) : rest[i] = stack[i]
    <3> HIDE DEF fr, rest
    <3> QED  BY <1>1, <2>3, <2>4, ChangeTop
  <2>6. /\ new.todo = registered \ {f} /\ new.failed = {}
        /\ f \in registered => new \in Frames
    <3>1. f \in registered => username[f] \in Names
      BY DEF NamesOwned
    <3> QED  BY <3>1 DEF Frame, Frames, Messages, Disconnected
  <2>7. stack' = IF f \in registered THEN <<new>> \o rest ELSE rest
    BY <1>5 DEF BroadcastRemove
  <2> HIDE DEF fr, rest, new
  <2>8. \A i \in 1 .. Len(rest) : /\ rest[i].todo = {}
                                 /\ rest[i].failed \cap m_clients' \subseteq registered'
    <3>1. rest[1].todo = {} /\ rest[1].failed \cap m_clients' \subseteq registered'
      BY <1>2, <2>2, <2>3, <2>5
    <3>2. ASSUME NEW i \in 2 .. Len(stack)
          PROVE  rest[i].todo = {} /\ rest[i].failed \cap m_clients' \subseteq registered'
      BY <2>2, <2>5, <3>2 DEF IterationSafe
    <3> QED  BY <1>1, <2>5, <3>1, <3>2
  <2>9. CASE f \in registered
    <3>1. /\ stack' \in Seq(Frames) /\ stack' # <<>> /\ Len(stack') = Len(rest) + 1
          /\ stack'[1] = new
          /\ \A i \in 2 .. Len(rest) + 1 : stack'[i] = rest[i - 1]
      <4>1. stack' = <<new>> \o rest
        BY <2>7, <2>9
      <4>2. /\ stack' \in Seq(Frames) /\ Len(stack') = Len(rest) + 1
            /\ stack'[1] = new
            /\ \A i \in 2 .. Len(rest) + 1 : stack'[i] = rest[i - 1]
        BY <2>5, <2>6, <2>9, <4>1, PushFrame
      <4> QED  BY <1>1, <2>5, <4>2, EmptySeq
    <3>2. TypeOK' /\ DescriptorsOwned' /\ NamesOwned'
      BY <2>1, <3>1, DisconnectSafe
    <3>3. IterationSafe'
      <4>1. ASSUME NEW i \in 1 .. Len(stack')
            PROVE  /\ stack'[i].todo \subseteq registered'
                   /\ i > 1 => stack'[i].todo = {}
                   /\ stack'[i].failed \cap m_clients' \subseteq registered'
        <5>1. CASE i = 1
          BY <2>2, <2>6, <3>1, <5>1
        <5>2. CASE i # 1
          <6>1. i \in 2 .. Len(rest) + 1 /\ i - 1 \in 1 .. Len(rest)
            BY <1>1, <2>5, <3>1, <5>2
          <6>2. stack'[i] = rest[i - 1]
            BY <3>1, <6>1
          <6> QED  BY <2>8, <6>1, <6>2
        <5> QED  BY <5>1, <5>2
      <4>2. fwd' = {}
        BY <1>1, <2>1
      <4> QED  BY <4>1, <4>2 DEF IterationSafe
    <3>4. (HandlerRefLive /\ Control)'
      BY <1>1, <2>1, <3>1 DEF HandlerRefLive, Control
    <3> QED  BY <3>2, <3>3, <3>4
  <2>10. CASE f \notin registered
    <3>1. stack' = rest
      BY <2>7, <2>10
    <3>2. TypeOK' /\ DescriptorsOwned' /\ NamesOwned'
      BY <2>1, <2>5, <3>1, DisconnectSafe
    <3>3. IterationSafe'
      BY <1>1, <2>1, <2>2, <2>5, <2>8, <3>1 DEF IterationSafe
    <3>4. (HandlerRefLive /\ Control)'
      BY <1>1, <2>1, <2>5, <3>1 DEF HandlerRefLive, Control
    <3> QED  BY <3>2, <3>3, <3>4
  <2> QED  BY <2>9, <2>10
<1> QED  BY <1>3, <1>4, <1>5

LEMMA SafeInvariant == Spec => []SafeInv
<1>1. Init => SafeInv
  BY InitSafe
<1>2. SafeInv /\ [Next]_vars => SafeInv'
  <2> SUFFICES ASSUME SafeInv, [Next]_vars PROVE SafeInv'
    OBVIOUS
  <2>1. CASE PeerConnect \/ \E f \in Fds : Peer(f)
    BY <2>1, PeerSafe
  <2>2. CASE ServerStep
    <3>1. CASE SigPipe
      BY <3>1, TerminateSafe DEF SigPipe
    <3> QED  BY <2>2, <3>1, LoopSafe, HandlerSafe, BroadcastSafe DEF ServerStep
  <2>3. CASE EpollError
    BY <2>3, LoopSafe
  <2>4. CASE UNCHANGED vars
    BY <2>4 DEF vars, peerVars, netVars, dataVars, loopVars, lifeVars, SafeInv, TypeOK,
       DescriptorsOwned, NamesOwned, IterationSafe, HandlerRefLive, Control
  <2> QED  BY <2>1, <2>2, <2>3, <2>4 DEF Next
<1> QED  BY <1>1, <1>2, PTL DEF Spec

\* Every variable keeps its type, whatever the peers send and whenever they
\* leave; in particular the thread never takes a name or a frame that is not
\* there.
THEOREM TypeCorrect == Spec => []TypeOK
  BY SafeInvariant, PTL DEF SafeInv

\* Outside a single step of the thread the registry and the open descriptors
\* are the same set: DisconnectClient and HandleNewConnection neither leak a
\* descriptor nor leave an entry whose descriptor is closed.
THEOREM DescriptorsAreOwned == Spec => []DescriptorsOwned
  BY SafeInvariant, PTL DEF SafeInv

\* m_usernames agrees with the registered clients, so uniqueness holds: the
\* insert of HandleClientEvent and the erase of DisconnectClient match through
\* all nested disconnects.
THEOREM NamesAreOwned == Spec => []NamesOwned
  BY SafeInvariant, PTL DEF SafeInv

\* No client is erased under a loop over m_clients that still has to reach
\* it, at any depth of the recursion between BroadcastEncrypted and
\* DisconnectClient.
THEOREM LoopsAreSafe == Spec => []IterationSafe
  BY SafeInvariant, PTL DEF SafeInv

\* The ClientInfo& of a handler refers to an entry of m_clients up to the
\* broadcast at its end.
THEOREM HandlerRefsAreLive == Spec => []HandlerRefLive
  BY SafeInvariant, PTL DEF SafeInv

-----------------------------------------------------------------------------
(* The depth of the recursion.                                             *)

\* How a step may change what NestingBounded adds up: m_clients grows only
\* while no broadcast runs, and each new activation costs a client.
LEMMA NestingStep ==
    ASSUME SafeInv, [Next]_vars
    PROVE  \/ stack' = <<>>
           \/ m_clients' = m_clients /\ Len(stack') <= Len(stack)
           \/ Len(stack') = 1
           \/ /\ Len(stack') = Len(stack) + 1
              /\ \E f \in m_clients : m_clients' = m_clients \ {f}
           \/ m_clients' \subseteq m_clients /\ Len(stack') = Len(stack)
<1> USE DEF SafeInv, TypeOK, peerVars, netVars, dataVars, loopVars, lifeVars
<1>0. Len(stack) \in Nat
  OBVIOUS
<1>1. CASE UNCHANGED vars
  BY <1>0, <1>1 DEF vars
<1>2. CASE PeerConnect \/ EpollError \/ \E f \in Fds : Peer(f)
  BY <1>0, <1>2 DEF PeerConnect, EpollError, Peer, PeerBegin, PeerFinish, PeerClose,
                    PeerReset, Terminate
<1>3. ASSUME NEW f \in Fds, Accept(f) PROVE stack' = <<>>
  BY <1>3 DEF Accept, Control
<1>4. CASE LostMember \/ Register
  <2>1. ASSUME NEW x PROVE Len(<<x>>) = 1
    OBVIOUS
  <2> QED  BY <1>4, <2>1 DEF LostMember, Register
<1>5. CASE BadHandshake \/ BadUsername \/ RefuseUsername
  BY <1>5 DEF BadHandshake, BadUsername, RefuseUsername, Control
<1>6. CASE BroadcastReturn
  <2>1. stack # <<>> /\ stack' = Tail(stack) /\ m_clients' = m_clients
    BY <1>6 DEF BroadcastReturn, Control
  <2> QED  BY <1>0, <2>1, PopFrame
<1>7. ASSUME NEW f \in Fds, BroadcastSend(f)
      PROVE  m_clients' = m_clients /\ Len(stack') <= Len(stack)
  BY <1>0, <1>7 DEF BroadcastSend
<1>8. ASSUME NEW f \in Fds, BroadcastRemove(f)
      PROVE  \/ /\ Len(stack') = Len(stack) + 1
                /\ \E g \in m_clients : m_clients' = m_clients \ {g}
             \/ m_clients' \subseteq m_clients /\ Len(stack') = Len(stack)
  <2>1. m_clients' = m_clients \ {f}
    BY <1>8, DisconnectSafe DEF BroadcastRemove
  <2> DEFINE rest == [stack EXCEPT ![1].failed = @ \ {f}]
             new  == Frame(Disconnected(username[f]), registered \ {f})
  <2>2. stack' = IF f \in registered THEN <<new>> \o rest ELSE rest
    BY <1>8 DEF BroadcastRemove
  <2>3. Len(rest) = Len(stack)
    OBVIOUS
  <2>4. CASE f \in registered
    <3>1. rest \in Seq(Frames) /\ new \in Frames
      <4>1. stack # <<>> /\ Len(stack) \in Nat \ {0} /\ stack[1] \in Frames
        BY <1>8, EmptySeq DEF BroadcastRemove, Control
      <4>2. [stack[1] EXCEPT !.failed = @ \ {f}] \in Frames
        BY <4>1 DEF Frames
      <4>3. rest = [stack EXCEPT ![1] = [stack[1] EXCEPT !.failed = @ \ {f}]]
        BY <4>1
      <4>4. rest \in Seq(Frames)
        BY <4>1, <4>2, <4>3, ChangeTop
      <4>5. new \in Frames
        BY <2>4 DEF NamesOwned, Frame, Frames, Messages, Disconnected
      <4> QED  BY <4>4, <4>5
    <3>2. Len(<<new>> \o rest) = Len(rest) + 1
      <4> HIDE DEF rest, new
      <4> QED  BY <3>1, PushFrame
    <3> QED  BY <2>1, <2>2, <2>3, <2>4, <3>2 DEF NamesOwned
  <2>5. CASE f \notin registered
    BY <2>1, <2>2, <2>3, <2>5
  <2> QED  BY <2>4, <2>5
<1>12. CASE Main \/ NotRunning
  BY <1>0, <1>12 DEF Main, NotRunning, Terminate, startIdle
<1>13. CASE Setup
  BY <1>0, <1>13 DEF Setup, CreateSocket, Bind, Listening, SetupStep, CreateEpoll,
                     WatchListener, startIdle
<1>9. ASSUME \/ EpollWait \/ EndOfBatch \/ DispatchListen \/ AcceptUnwatched \/ AcceptFails
             \/ RecvPacket \/ BadPublicKey \/ SendServerKey \/ SendGroupKey
             \/ UsernameTaken \/ StartForward \/ ForwardDone
             \/ \E f \in Fds : DispatchClient(f) \/ ForwardSend(f)
      PROVE  m_clients' = m_clients /\ Len(stack') <= Len(stack)
  BY <1>0, <1>9 DEF EpollWait, EndOfBatch, DispatchListen, AcceptUnwatched, AcceptFails,
     RecvPacket, BadPublicKey, SendServerKey, SendGroupKey, UsernameTaken, StartForward,
     ForwardDone, DispatchClient, ForwardSend
<1>10. CASE PrintConnected
  BY <1>0, <1>10 DEF PrintConnected, Terminate
<1>11. ASSUME \/ UsernameUnderflow \/ SigPipe \/ \E f \in Fds : StaleEvent(f)
       PROVE  stack' = <<>>
  BY <1>11 DEF UsernameUnderflow, SigPipe, StaleEvent, Terminate
<1> QED  BY <1>1, <1>2, <1>3, <1>4, <1>5, <1>6, <1>7, <1>8, <1>9, <1>10, <1>11, <1>12, <1>13
         DEF Next, ServerStep

\* BroadcastEncrypted and DisconnectClient call each other no deeper than
\* there are clients: each activation but the first was paid for by one that
\* is gone from m_clients.
THEOREM NestingIsBounded == Spec => []NestingBounded
<1>1. IsFiniteSet(Fds) /\ Cardinality(Fds) \in Nat
  BY ServerAssumption, FS_CardinalityType
<1>2. ASSUME NEW S \in SUBSET Fds
      PROVE  IsFiniteSet(S) /\ Cardinality(S) \in Nat /\ Cardinality(S) <= Cardinality(Fds)
  BY <1>1, FS_Subset, FS_CardinalityType
<1>3. Init => NestingBounded
  BY <1>1, FS_EmptySet, EmptySeq DEF Init, NestingBounded
<1>4. SafeInv /\ SafeInv' /\ NestingBounded /\ [Next]_vars => NestingBounded'
  <2> SUFFICES ASSUME SafeInv, SafeInv', NestingBounded, [Next]_vars
               PROVE  NestingBounded'
    OBVIOUS
  <2>1. /\ m_clients \subseteq Fds /\ m_clients' \subseteq Fds
        /\ Len(stack) \in Nat /\ Len(stack') \in Nat
    BY DEF SafeInv, TypeOK
  <2>2. /\ Cardinality(m_clients) \in Nat /\ Cardinality(m_clients') \in Nat
        /\ Cardinality(m_clients') <= Cardinality(Fds)
    BY <1>2, <2>1
  <2>3. CASE stack' = <<>>
    BY <1>1, <2>2, <2>3, EmptySeq DEF NestingBounded
  <2>4. CASE m_clients' = m_clients /\ Len(stack') <= Len(stack)
    BY <1>1, <2>1, <2>2, <2>4 DEF NestingBounded
  <2>5. CASE Len(stack') = 1
    BY <1>1, <2>2, <2>5 DEF NestingBounded
  <2>6. ASSUME NEW f \in m_clients, m_clients' = m_clients \ {f},
               Len(stack') = Len(stack) + 1
        PROVE  NestingBounded'
    <3>1. Cardinality(m_clients') = Cardinality(m_clients) - 1
      BY <1>2, <2>1, <2>6, FS_RemoveElement
    <3> QED  BY <1>1, <2>1, <2>2, <2>6, <3>1 DEF NestingBounded
  <2>7. CASE m_clients' \subseteq m_clients /\ Len(stack') = Len(stack)
    <3>1. Cardinality(m_clients') <= Cardinality(m_clients)
      BY <1>2, <2>1, <2>7, FS_Subset
    <3> QED  BY <1>1, <2>1, <2>2, <2>7, <3>1 DEF NestingBounded
  <2> QED  BY <2>3, <2>4, <2>5, <2>6, <2>7, NestingStep
<1> QED  BY <1>3, <1>4, SafeInvariant, PTL DEF Spec
-----------------------------------------------------------------------------
(* Start and stop.                                                         *)

\* While SetupListener runs, m_running tells how far its calls have come; once
\* one failed nothing sets m_running again.
SetupInv ==
    /\ ServesWhenSetUp
    /\ pc \in StartLabels => m_clients = {}
    /\ pc = "bind" /\ m_running => m_listenfd = "open"
    /\ pc = "listen" /\ m_running => m_listenfd = "bound"
    /\ pc = "epoll" /\ m_running => m_listenfd = "listening"
    /\ pc = "watch" /\ m_running => m_listenfd = "listening" /\ m_epollfd

\* Only main, SetupListener and the end of the process touch what Start set up.
LEMMA LifeStep ==
    ASSUME Next, ~Main, ~Setup, pc' # "exit"
    PROVE  /\ UNCHANGED lifeVars
           /\ \/ UNCHANGED <<pc, m_clients>>
              \/ pc \notin StartLabels \cup {"exit"} /\ pc' \notin StartLabels /\ (pc = "wait" => m_running)
<1> USE DEF StartLabels
<1>1. ASSUME NEW why PROVE ~Terminate(why)
  BY DEF Terminate
<1>2. CASE PeerConnect \/ \E f \in Fds : Peer(f)
  BY <1>2 DEF PeerConnect, Peer, PeerBegin, PeerFinish, PeerClose, PeerReset, dataVars
<1>3. CASE EpollWait \/ EndOfBatch \/ DispatchListen \/ AcceptUnwatched \/ AcceptFails
  BY <1>3 DEF EpollWait, EndOfBatch, DispatchListen, AcceptUnwatched, AcceptFails
<1>4. CASE RecvPacket \/ BadPublicKey \/ SendServerKey \/ SendGroupKey \/ BadHandshake
  BY <1>4 DEF RecvPacket, BadPublicKey, SendServerKey, SendGroupKey, BadHandshake,
              HandlerReturns
<1>5. CASE LostMember \/ BadUsername \/ UsernameTaken \/ RefuseUsername \/ Register
  BY <1>5 DEF LostMember, BadUsername, UsernameTaken, RefuseUsername, Register,
              HandlerReturns
<1>6. CASE PrintConnected \/ StartForward \/ ForwardDone \/ BroadcastReturn
  BY <1>1, <1>6 DEF PrintConnected, StartForward, ForwardDone, BroadcastReturn,
                    HandlerReturns
<1>7. ASSUME NEW f \in Fds,
             DispatchClient(f) \/ Accept(f) \/ ForwardSend(f) \/ BroadcastSend(f)
               \/ BroadcastRemove(f)
      PROVE  /\ UNCHANGED lifeVars
             /\ pc \notin StartLabels \cup {"exit"} /\ pc' \notin StartLabels /\ (pc = "wait" => m_running)
  BY <1>7 DEF DispatchClient, Accept, ForwardSend, BroadcastSend, BroadcastRemove
<1>8. ~(EpollError \/ NotRunning \/ UsernameUnderflow \/ SigPipe \/ \E f \in Fds : StaleEvent(f))
  BY <1>1 DEF EpollError, NotRunning, UsernameUnderflow, SigPipe, StaleEvent
<1> QED  BY <1>2, <1>3, <1>4, <1>5, <1>6, <1>7, <1>8 DEF Next, ServerStep

\* A server whose socket, bind, listen or epoll instance failed stops before it
\* waits for an event; one that serves has all of them until it ends.
THEOREM ServesOnlySetUp == Spec => []ServesWhenSetUp
<1>1. Init => SetupInv
  BY DEF Init, SetupInv, ServesWhenSetUp, StartLabels
<1>2. TypeOK /\ SetupInv /\ [Next]_vars => SetupInv'
  <2> SUFFICES ASSUME TypeOK, SetupInv, [Next]_vars PROVE SetupInv'
    OBVIOUS
  <2>1. m_running \in BOOLEAN
    BY DEF TypeOK
  <2> USE DEF SetupInv, ServesWhenSetUp, StartLabels
  <2>2. CASE pc' = "exit"
    BY <2>2
  <2>3. CASE Main /\ pc' # "exit"
    BY <2>3 DEF Main, Terminate, startIdle, dataVars
  <2>4. CASE CreateSocket
    BY <2>4 DEF CreateSocket, SetupStep, Stop, startIdle, dataVars
  <2>5. CASE Bind
    BY <2>1, <2>5 DEF Bind, SetupStep, Stop, startIdle, dataVars
  <2>6. CASE Listening
    BY <2>1, <2>6 DEF Listening, SetupStep, Stop, startIdle, dataVars
  <2>7. CASE CreateEpoll
    BY <2>1, <2>7 DEF CreateEpoll, Stop, startIdle, dataVars
  <2>8. CASE WatchListener
    BY <2>1, <2>8 DEF WatchListener, startIdle, dataVars
  <2>9. CASE Next /\ ~Main /\ ~Setup /\ pc' # "exit"
    BY <2>1, <2>9, LifeStep DEF lifeVars
  <2>10. CASE UNCHANGED vars
    BY <2>10 DEF vars, dataVars, lifeVars
  <2> QED  BY <2>2, <2>3, <2>4, <2>5, <2>6, <2>7, <2>8, <2>9, <2>10 DEF Setup
<1>3. SetupInv => ServesWhenSetUp
  BY DEF SetupInv
<1> QED  BY <1>1, <1>2, <1>3, TypeCorrect, PTL DEF Spec
=============================================================================
