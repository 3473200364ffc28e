---------------------------- MODULE ClientProofs ----------------------------
(***************************************************************************)
(* The safety of one client process for any packets of the room and any    *)
(* number of them: the shutdown that three threads may run at once, the    *)
(* life of the windows, and the reason for which a log is written.         *)
(***************************************************************************)
EXTENDS Client, SequenceTheorems, TLAPS

Unstarted == {"start", "init", "sendpk", "recvkey", "recvgroup", "username", "sendname",
              "failed"}

\* A thread in Stop that has set m_stopping.
Ending == {"stoprunning", "stopui", "shutdown", "close", "forget"}

\* How far main is, and what it may have set up by then.
Phases ==
    /\ pc["main"] \in Unstarted =>
          /\ \A t \in Workers : pc[t] = "unborn"
          /\ ~m_stopping /\ ~m_running /\ ~shut /\ windows # "deleted"
          /\ fdOpen <=> pc["main"] # "start"
          /\ pc["main"] # "failed" => m_exitReason = "None"
    /\ pc["main"] \in {"cleanup", "report"} => \A t \in Workers : pc[t] = "done"
    /\ pc["main"] = "done" => \A t \in Workers : pc[t] \in {"unborn", "done"}

\* Whatever Stop has not done yet, some thread is still about to do it.
StopOrder ==
    /\ \A t \in Workers : pc[t] \in Ending \cup {"done"} => m_stopping
    /\ m_stopping /\ m_running  => \E t \in Workers : pc[t] = "stoprunning"
    /\ m_stopping /\ running    => \E t \in Workers : pc[t] \in {"stoprunning", "stopui"}
    /\ m_stopping /\ m_socketfd => \E t \in Workers : pc[t] \in Ending
    /\ fdOpen => m_socketfd
    /\ \A t \in Workers : pc[t] = "forget" => ~fdOpen

\* Who holds m_mutex, and who may use the windows.
Screen ==
    /\ m_mutex = "input" <=> pc["input"] = "draw"
    /\ m_mutex = "ui" <=> pc["ui"] = "drain"
    /\ windows = "deleted" => \A t \in Workers : pc[t] \in {"unborn", "done"}

\* Whatever looks like a failure is one, or this process has begun to stop.
Blame ==
    /\ Ended(tcp) => faults # {}
    /\ faults = {} => inbox \in Seq(HandshakePackets \cup {"text"})
    /\ pc["main"] = "join" /\ (shut \/ ~fdOpen) => m_stopping
    /\ pc["net"] = "got" /\ pkt = NullOpt => m_stopping \/ faults # {}
    /\ pc["net"] = "got" /\ pkt \notin {NullOpt, "text"} => faults # {}
    /\ pc["net"] = "push" => pkt \in {"text", "badtext"}
    /\ pc["main"] \in {"join", "cleanup", "report"} => m_exitReason = "None" \/ faults # {}
    /\ LogOnlyOnError

\* The inductive invariant.
ClientInv == TypeOK /\ Phases /\ StopOrder /\ Screen /\ Blame

-----------------------------------------------------------------------------
LEMMA ClientInit == Init => ClientInv
<1> SUFFICES ASSUME Init PROVE ClientInv
  OBVIOUS
<1> USE DEF Init, Workers, Threads, Unstarted, Ending
<1>1. /\ pc["main"] = "start" /\ DOMAIN pc = Threads
      /\ pc["net"] = "unborn" /\ pc["input"] = "unborn" /\ pc["ui"] = "unborn"
  OBVIOUS
<1> HIDE DEF Threads
<1>2. TypeOK
  <2>1. inbox \in Seq(HandshakePackets \cup ClientPackets) /\ m_msgQueue \in Seq({"text", "badtext"})
    OBVIOUS
  <2> QED  BY <1>1, <2>1 DEF TypeOK, EndpointStates, Nobody, ThreadLabels, Labels, Threads
<1>3. Phases /\ StopOrder /\ Screen
  BY <1>1 DEF Phases, StopOrder, Screen, Nobody
<1>4. Blame
  BY <1>1 DEF Blame, LogOnlyOnError, Ended
<1> QED  BY <1>2, <1>3, <1>4 DEF ClientInv

\* A step moves one thread.
LEMMA Moves ==
    ASSUME TypeOK, NEW t \in Threads, NEW l, Goto(t, l)
    PROVE  /\ DOMAIN pc' = Threads
           /\ pc'[t] = l
           /\ \A u \in Threads : u # t => pc'[u] = pc[u]
  BY DEF Goto, TypeOK

\* What is left of the connection after a packet was read from it.
LEMMA Received ==
    ASSUME TypeOK, NEW p, RecvPacket(p)
    PROVE  tcp' \in EndpointStates /\ inbox' \in Seq(HandshakePackets \cup ClientPackets)
<1>1. \/ inbox # <<>> /\ inbox' = Tail(inbox) /\ UNCHANGED tcp
      \/ UNCHANGED inbox /\ tcp' = AfterError(tcp)
  BY DEF RecvPacket
<1>2. inbox' \in Seq(HandshakePackets \cup ClientPackets)
  BY <1>1, HeadTailProperties DEF TypeOK
<1>3. tcp' \in EndpointStates
  BY <1>1 DEF TypeOK, AfterError, EndpointStates
<1> QED  BY <1>2, <1>3

\* Every label of Stop is one of every thread of the pool.
LEMMA WorkerLabels ==
    ASSUME NEW t \in Workers
    PROVE  {"done", "while", "stop", "stopping"} \cup Ending \subseteq Labels(t)
  BY DEF Workers, Labels, ThreadLabels, StopLabels, Ending

\* A thread of the pool that has begun and not ended is one main waits for.
LEMMA Pooled ==
    ASSUME TypeOK, Phases, NEW t \in Workers, pc[t] \notin {"unborn", "done"}
    PROVE  pc["main"] = "join"
  BY DEF TypeOK, Phases, Workers, Threads, Labels, Unstarted

\* Stop keeps the invariant on whichever thread it runs.
LEMMA StopSafe ==
    ASSUME ClientInv, ended = "no", NEW t \in Workers, Stop(t)
    PROVE  ClientInv'
<1> USE DEF Workers, Threads, netVars, srvVars, clientVars, uiVars, localVars, Unstarted, Ending,
            ClientInv
<1>0. {"done", "while", "stop", "stopping"} \cup Ending \subseteq Labels(t)
  BY WorkerLabels
<1>1. CASE StopEnter(t)
  <2>1. /\ DOMAIN pc' = Threads
        /\ pc[t] = "stop" /\ pc'[t] = IF m_stopping THEN "done" ELSE "stopping"
        /\ \A u \in Threads : u # t => pc'[u] = pc[u]
    BY <1>1, Moves DEF StopEnter
  <2>2. TypeOK'
    BY <1>0, <1>1, <2>1 DEF StopEnter, TypeOK
  <2>3. Phases'
    BY <1>1, <2>1 DEF StopEnter, Phases
  <2>4. StopOrder'
    BY <1>1, <2>1 DEF StopEnter, StopOrder
  <2>5. Screen' /\ Blame'
    BY <1>1, <2>1 DEF StopEnter, TypeOK, Phases, StopOrder, Screen, Blame, LogOnlyOnError, Nobody
  <2> QED  BY <2>2, <2>3, <2>4, <2>5
<1>2. CASE SetStopping(t)
  <2>1. /\ DOMAIN pc' = Threads
        /\ pc[t] = "stopping" /\ pc'[t] = "stoprunning"
        /\ \A u \in Threads : u # t => pc'[u] = pc[u]
    BY <1>2, Moves DEF SetStopping
  <2>2. TypeOK'
    BY <1>0, <1>2, <2>1 DEF SetStopping, TypeOK
  <2>3. Phases'
    BY <1>2, <2>1 DEF SetStopping, Phases
  <2>4. StopOrder'
    BY <1>2, <2>1 DEF SetStopping, StopOrder
  <2>5. Screen' /\ Blame'
    BY <1>2, <2>1 DEF SetStopping, TypeOK, Phases, StopOrder, Screen, Blame, LogOnlyOnError, Nobody
  <2> QED  BY <2>2, <2>3, <2>4, <2>5
<1>3. CASE ClearRunning(t)
  <2>1. /\ DOMAIN pc' = Threads
        /\ pc[t] = "stoprunning" /\ pc'[t] = "stopui"
        /\ \A u \in Threads : u # t => pc'[u] = pc[u]
    BY <1>3, Moves DEF ClearRunning
  <2>2. TypeOK'
    <3>1. /\ shut' \in BOOLEAN /\ fdOpen' \in BOOLEAN /\ m_socketfd' \in BOOLEAN
          /\ m_stopping' \in BOOLEAN /\ m_running' \in BOOLEAN
          /\ m_uiActive' \in BOOLEAN /\ running' \in BOOLEAN
      BY <1>3 DEF ClearRunning, TypeOK
    <3>2. UNCHANGED <<tcp, inbox, srv, served, faults, m_exitReason, m_mutex, m_queueMutex,
                      m_msgQueue, windows, pkt, typed, dumped, ended>>
      BY <1>3 DEF ClearRunning
    <3>3. \A u \in Threads : pc'[u] \in Labels(u)
      BY <1>0, <2>1 DEF TypeOK
    <3> QED  BY <2>1, <3>1, <3>2, <3>3 DEF TypeOK
  <2>3. Phases'
    BY <1>3, <2>1 DEF ClearRunning, Phases
  <2>4. StopOrder'
    BY <1>3, <2>1 DEF ClearRunning, StopOrder
  <2>5. Screen' /\ Blame'
    BY <1>3, <2>1 DEF ClearRunning, TypeOK, Phases, StopOrder, Screen, Blame, LogOnlyOnError, Nobody
  <2> QED  BY <2>2, <2>3, <2>4, <2>5
<1>4. CASE ClearUiRunning(t)
  <2>1. /\ DOMAIN pc' = Threads
        /\ pc[t] = "stopui" /\ pc'[t] = "shutdown"
        /\ \A u \in Threads : u # t => pc'[u] = pc[u]
    BY <1>4, Moves DEF ClearUiRunning
  <2>2. TypeOK'
    <3>1. /\ shut' \in BOOLEAN /\ fdOpen' \in BOOLEAN /\ m_socketfd' \in BOOLEAN
          /\ m_stopping' \in BOOLEAN /\ m_running' \in BOOLEAN
          /\ m_uiActive' \in BOOLEAN /\ running' \in BOOLEAN
      BY <1>4 DEF ClearUiRunning, TypeOK
    <3>2. UNCHANGED <<tcp, inbox, srv, served, faults, m_exitReason, m_mutex, m_queueMutex,
                      m_msgQueue, windows, pkt, typed, dumped, ended>>
      BY <1>4 DEF ClearUiRunning
    <3>3. \A u \in Threads : pc'[u] \in Labels(u)
      BY <1>0, <2>1 DEF TypeOK
    <3> QED  BY <2>1, <3>1, <3>2, <3>3 DEF TypeOK
  <2>3. Phases'
    BY <1>4, <2>1 DEF ClearUiRunning, Phases
  <2>4. StopOrder'
    BY <1>4, <2>1 DEF ClearUiRunning, StopOrder
  <2>5. Screen' /\ Blame'
    BY <1>4, <2>1 DEF ClearUiRunning, TypeOK, Phases, StopOrder, Screen, Blame, LogOnlyOnError, Nobody
  <2> QED  BY <2>2, <2>3, <2>4, <2>5
<1>5. CASE Shutdown(t)
  <2>1. /\ DOMAIN pc' = Threads
        /\ pc[t] = "shutdown" /\ pc'[t] = IF m_socketfd THEN "close" ELSE "done"
        /\ \A u \in Threads : u # t => pc'[u] = pc[u]
    BY <1>5, Moves DEF Shutdown
  <2>2. TypeOK'
    BY <1>0, <1>5, <2>1 DEF Shutdown, TypeOK
  <2>3. Phases'
    BY <1>5, <2>1 DEF Shutdown, Phases
  <2>4. StopOrder'
    BY <1>5, <2>1 DEF Shutdown, StopOrder
  <2>5. Screen' /\ Blame'
    BY <1>5, <2>1 DEF Shutdown, TypeOK, Phases, StopOrder, Screen, Blame, LogOnlyOnError, Nobody
  <2> QED  BY <2>2, <2>3, <2>4, <2>5
<1>6. CASE Close(t)
  <2>1. /\ DOMAIN pc' = Threads
        /\ pc[t] = "close" /\ pc'[t] = "forget"
        /\ \A u \in Threads : u # t => pc'[u] = pc[u]
    BY <1>6, Moves DEF Close
  <2>2. TypeOK'
    <3>1. /\ shut' \in BOOLEAN /\ fdOpen' \in BOOLEAN /\ m_socketfd' \in BOOLEAN
          /\ m_stopping' \in BOOLEAN /\ m_running' \in BOOLEAN
          /\ m_uiActive' \in BOOLEAN /\ running' \in BOOLEAN
      BY <1>6 DEF Close, TypeOK
    <3>2. UNCHANGED <<tcp, inbox, srv, served, faults, m_exitReason, m_mutex, m_queueMutex,
                      m_msgQueue, windows, pkt, typed, dumped, ended>>
      BY <1>6 DEF Close
    <3>3. \A u \in Threads : pc'[u] \in Labels(u)
      BY <1>0, <2>1 DEF TypeOK
    <3> QED  BY <2>1, <3>1, <3>2, <3>3 DEF TypeOK
  <2>3. Phases'
    BY <1>6, <2>1 DEF Close, Phases
  <2>4. StopOrder'
    BY <1>6, <2>1 DEF Close, StopOrder
  <2>5. Screen' /\ Blame'
    BY <1>6, <2>1 DEF Close, TypeOK, Phases, StopOrder, Screen, Blame, LogOnlyOnError, Nobody
  <2> QED  BY <2>2, <2>3, <2>4, <2>5
<1>7. CASE Forget(t)
  <2>1. /\ DOMAIN pc' = Threads
        /\ pc[t] = "forget" /\ pc'[t] = "done"
        /\ \A u \in Threads : u # t => pc'[u] = pc[u]
    BY <1>7, Moves DEF Forget
  <2>2. TypeOK'
    <3>1. /\ shut' \in BOOLEAN /\ fdOpen' \in BOOLEAN /\ m_socketfd' \in BOOLEAN
          /\ m_stopping' \in BOOLEAN /\ m_running' \in BOOLEAN
          /\ m_uiActive' \in BOOLEAN /\ running' \in BOOLEAN
      BY <1>7 DEF Forget, TypeOK
    <3>2. UNCHANGED <<tcp, inbox, srv, served, faults, m_exitReason, m_mutex, m_queueMutex,
                      m_msgQueue, windows, pkt, typed, dumped, ended>>
      BY <1>7 DEF Forget
    <3>3. \A u \in Threads : pc'[u] \in Labels(u)
      BY <1>0, <2>1 DEF TypeOK
    <3> QED  BY <2>1, <3>1, <3>2, <3>3 DEF TypeOK
  <2>3. Phases'
    BY <1>7, <2>1 DEF Forget, Phases
  <2>4. StopOrder'
    BY <1>7, <2>1 DEF Forget, StopOrder
  <2>5. Screen' /\ Blame'
    BY <1>7, <2>1 DEF Forget, TypeOK, Phases, StopOrder, Screen, Blame, LogOnlyOnError, Nobody
  <2> QED  BY <2>2, <2>3, <2>4, <2>5
<1> QED  BY <1>1, <1>2, <1>3, <1>4, <1>5, <1>6, <1>7 DEF Stop

\* HandleBroadcast.
LEMMA NetSafe ==
    ASSUME ClientInv, ended = "no", Net
    PROVE  ClientInv'
<1> USE DEF Workers, Threads, netVars, srvVars, clientVars, uiVars, localVars, Unstarted, Ending,
            ClientInv
<1>1. CASE While("net", "call")
  <2>1. /\ DOMAIN pc' = Threads
        /\ pc["net"] = "while" /\ pc'["net"] \in {"call", "stop"}
        /\ \A u \in Threads : u # "net" => pc'[u] = pc[u]
    BY <1>1, Moves DEF While
  <2>2. TypeOK'
    BY <1>1, <2>1 DEF While, TypeOK, Labels, ThreadLabels, StopLabels
  <2>3. Phases' /\ StopOrder'
    BY <1>1, <2>1 DEF While, Phases, StopOrder
  <2>4. Screen'
    BY <1>1, <2>1 DEF While, TypeOK, Screen, Nobody
  <2>5. Blame'
    BY <1>1, <2>1 DEF While, Blame, LogOnlyOnError
  <2> QED  BY <2>2, <2>3, <2>4, <2>5
<1>2. CASE CallRecv
  <2>1. /\ DOMAIN pc' = Threads
        /\ pc["net"] = "call"
        /\ \/ pc'["net"] = "recv"
           \/ pc'["net"] = "got" /\ ~fdOpen
        /\ \A u \in Threads : u # "net" => pc'[u] = pc[u]
    BY <1>2, Moves DEF CallRecv
  <2>2. TypeOK'
    BY <1>2, <2>1 DEF CallRecv, TypeOK, Labels, ThreadLabels
  <2>3. Phases' /\ StopOrder'
    BY <1>2, <2>1 DEF CallRecv, Phases, StopOrder
  <2>4. Screen'
    BY <1>2, <2>1 DEF CallRecv, TypeOK, Screen, Nobody
  <2>5. Blame'
    <3>1. pc["main"] = "join"
      BY <2>1, Pooled
    <3> QED  BY <1>2, <2>1, <3>1 DEF CallRecv, Blame, LogOnlyOnError
  <2> QED  BY <2>2, <2>3, <2>4, <2>5
<1>3. CASE ReturnRecv
  <2>1. /\ DOMAIN pc' = Threads
        /\ pc["net"] = "recv" /\ pc'["net"] = "got"
        /\ \A u \in Threads : u # "net" => pc'[u] = pc[u]
    BY <1>3, Moves DEF ReturnRecv, RecvPacket
  <2>2. TypeOK'
    <3>1. inbox' \in Seq(HandshakePackets \cup ClientPackets) /\ tcp' \in EndpointStates
      BY <1>3, Received DEF ReturnRecv, TypeOK
    <3> QED  BY <1>3, <2>1, <3>1 DEF ReturnRecv, TypeOK, Labels, ThreadLabels
  <2>3. Phases' /\ StopOrder'
    BY <1>3, <2>1 DEF ReturnRecv, RecvPacket, Phases, StopOrder
  <2>4. Screen'
    BY <1>3, <2>1 DEF ReturnRecv, RecvPacket, TypeOK, Screen, Nobody
  <2>5. Blame'
    <3>1. pc["main"] = "join"
      BY <2>1, Pooled
    <3>2. faults = {} => inbox' \in Seq(HandshakePackets \cup {"text"}) /\ ~Ended(tcp')
      BY <1>3, HeadTailProperties DEF ReturnRecv, RecvPacket, Blame, AfterError, Ended
    <3>3. pkt' = NullOpt => m_stopping \/ faults # {}
      BY <1>3, <3>1, HeadTailProperties DEF ReturnRecv, RecvPacket, Blame, HandshakePackets, NullOpt
    <3>4. pkt' \notin {NullOpt, "text"} => faults # {}
      BY <1>3, HeadTailProperties DEF ReturnRecv, RecvPacket, Blame, HandshakePackets, ClientPackets
    <3> QED  BY <1>3, <2>1, <3>1, <3>2, <3>3, <3>4 DEF ReturnRecv, Blame, LogOnlyOnError
  <2> QED  BY <2>2, <2>3, <2>4, <2>5
<1>4. CASE NothingReceived
  <2>1. /\ DOMAIN pc' = Threads
        /\ pc["net"] = "got" /\ pc'["net"] = "stop"
        /\ \A u \in Threads : u # "net" => pc'[u] = pc[u]
    BY <1>4, Moves DEF NothingReceived
  <2>2. TypeOK'
    BY <1>4, <2>1 DEF NothingReceived, TypeOK, Labels, ThreadLabels, StopLabels
  <2>3. Phases' /\ StopOrder'
    BY <1>4, <2>1 DEF NothingReceived, Phases, StopOrder
  <2>4. Screen'
    BY <1>4, <2>1 DEF NothingReceived, TypeOK, Screen, Nobody
  <2>5. Blame'
    BY <1>4, <2>1 DEF NothingReceived, Blame, LogOnlyOnError
  <2> QED  BY <2>2, <2>3, <2>4, <2>5
<1>5. CASE UsernameTaken
  <2>1. /\ DOMAIN pc' = Threads
        /\ pc["net"] = "got" /\ pc'["net"] = "stop"
        /\ \A u \in Threads : u # "net" => pc'[u] = pc[u]
    BY <1>5, Moves DEF UsernameTaken
  <2>2. TypeOK'
    BY <1>5, <2>1 DEF UsernameTaken, TypeOK, Labels, ThreadLabels, StopLabels
  <2>3. Phases' /\ StopOrder'
    BY <1>5, <2>1 DEF UsernameTaken, Phases, StopOrder
  <2>4. Screen'
    BY <1>5, <2>1 DEF UsernameTaken, TypeOK, Screen, Nobody
  <2>5. Blame'
    BY <1>5, <2>1 DEF UsernameTaken, Blame, LogOnlyOnError, NullOpt
  <2> QED  BY <2>2, <2>3, <2>4, <2>5
<1>6. CASE PushMessage
  <2>1. /\ DOMAIN pc' = Threads
        /\ pc["net"] = "got" /\ pc'["net"] \in {"while", "push"}
        /\ \A u \in Threads : u # "net" => pc'[u] = pc[u]
    BY <1>6, Moves DEF PushMessage
  <2>2. TypeOK'
    BY <1>6, <2>1 DEF PushMessage, TypeOK, Labels, ThreadLabels
  <2>3. Phases' /\ StopOrder'
    BY <1>6, <2>1 DEF PushMessage, Phases, StopOrder
  <2>4. Screen'
    BY <1>6, <2>1 DEF PushMessage, TypeOK, Screen, Nobody
  <2>5. Blame'
    BY <1>6, <2>1 DEF PushMessage, Blame, LogOnlyOnError
  <2> QED  BY <2>2, <2>3, <2>4, <2>5
<1>7. CASE Push
  <2>1. /\ DOMAIN pc' = Threads
        /\ pc["net"] = "push" /\ pc'["net"] = "while"
        /\ \A u \in Threads : u # "net" => pc'[u] = pc[u]
    BY <1>7, Moves DEF Push
  <2>2. TypeOK'
    <3>1. m_msgQueue' \in Seq({"text", "badtext"})
      BY <1>7, AppendProperties DEF Push, TypeOK, Blame
    <3> QED  BY <1>7, <2>1, <3>1 DEF Push, TypeOK, Labels, ThreadLabels
  <2>3. Phases' /\ StopOrder'
    BY <1>7, <2>1 DEF Push, Phases, StopOrder
  <2>4. Screen'
    BY <1>7, <2>1 DEF Push, TypeOK, Screen, Nobody
  <2>5. Blame'
    BY <1>7, <2>1 DEF Push, Blame, LogOnlyOnError
  <2> QED  BY <2>2, <2>3, <2>4, <2>5
<1> QED  BY <1>1, <1>2, <1>3, <1>4, <1>5, <1>6, <1>7, StopSafe DEF Net

\* ClientLoop.
LEMMA InputSafe ==
    ASSUME ClientInv, ended = "no", Input
    PROVE  ClientInv'
<1> USE DEF Workers, Threads, netVars, srvVars, clientVars, uiVars, localVars, Unstarted, Ending,
            ClientInv
<1>1. CASE While("input", "prompt")
  <2>1. /\ DOMAIN pc' = Threads
        /\ pc["input"] = "while" /\ pc'["input"] \in {"prompt", "stop"}
        /\ \A u \in Threads : u # "input" => pc'[u] = pc[u]
    BY <1>1, Moves DEF While
  <2>2. TypeOK'
    BY <1>1, <2>1 DEF While, TypeOK, Labels, ThreadLabels, StopLabels
  <2>3. Phases' /\ StopOrder'
    BY <1>1, <2>1 DEF While, Phases, StopOrder
  <2>4. Screen'
    BY <1>1, <2>1 DEF While, TypeOK, Screen, Nobody
  <2>5. Blame'
    BY <1>1, <2>1 DEF While, Blame, LogOnlyOnError
  <2> QED  BY <2>2, <2>3, <2>4, <2>5
<1>2. CASE PromptInput
  <2>1. /\ DOMAIN pc' = Threads
        /\ pc["input"] = "prompt" /\ pc'["input"] \in {"redraw", "stop"}
        /\ \A u \in Threads : u # "input" => pc'[u] = pc[u]
    BY <1>2, Moves DEF PromptInput
  <2>2. TypeOK'
    BY <1>2, <2>1 DEF PromptInput, TypeOK, Labels, ThreadLabels, StopLabels
  <2>3. Phases' /\ StopOrder'
    BY <1>2, <2>1 DEF PromptInput, Phases, StopOrder
  <2>4. Screen'
    BY <1>2, <2>1 DEF PromptInput, TypeOK, Screen, Nobody
  <2>5. Blame'
    BY <1>2, <2>1 DEF PromptInput, Blame, LogOnlyOnError
  <2> QED  BY <2>2, <2>3, <2>4, <2>5
<1>3. CASE RedrawInputLine
  <2>1. /\ DOMAIN pc' = Threads
        /\ pc["input"] = "redraw"
        /\ \/ pc'["input"] = "edit" /\ UNCHANGED m_mutex
           \/ pc'["input"] = "draw" /\ m_mutex = Nobody /\ m_mutex' = "input"
        /\ \A u \in Threads : u # "input" => pc'[u] = pc[u]
    BY <1>3, Moves DEF RedrawInputLine
  <2>2. TypeOK'
    BY <1>3, <2>1 DEF RedrawInputLine, TypeOK, Labels, ThreadLabels
  <2>3. Phases' /\ StopOrder'
    BY <1>3, <2>1 DEF RedrawInputLine, Phases, StopOrder
  <2>4. Screen'
    BY <1>3, <2>1 DEF RedrawInputLine, TypeOK, Screen, Nobody
  <2>5. Blame'
    BY <1>3, <2>1 DEF RedrawInputLine, Blame, LogOnlyOnError
  <2> QED  BY <2>2, <2>3, <2>4, <2>5
<1>4. CASE Draw
  <2>1. /\ DOMAIN pc' = Threads
        /\ pc["input"] = "draw" /\ pc'["input"] = "edit"
        /\ \A u \in Threads : u # "input" => pc'[u] = pc[u]
    BY <1>4, Moves DEF Draw
  <2>2. TypeOK'
    BY <1>4, <2>1 DEF Draw, TypeOK, Labels, ThreadLabels
  <2>3. Phases' /\ StopOrder'
    BY <1>4, <2>1 DEF Draw, Phases, StopOrder
  <2>4. Screen'
    BY <1>4, <2>1 DEF Draw, TypeOK, Screen, Nobody
  <2>5. Blame'
    BY <1>4, <2>1 DEF Draw, Blame, LogOnlyOnError
  <2> QED  BY <2>2, <2>3, <2>4, <2>5
<1>5. CASE EditLoop
  <2>1. /\ DOMAIN pc' = Threads
        /\ pc["input"] = "edit" /\ pc'["input"] \in {"getch", "line"}
        /\ \A u \in Threads : u # "input" => pc'[u] = pc[u]
    BY <1>5, Moves DEF EditLoop
  <2>2. TypeOK'
    BY <1>5, <2>1 DEF EditLoop, TypeOK, Labels, ThreadLabels
  <2>3. Phases' /\ StopOrder'
    BY <1>5, <2>1 DEF EditLoop, Phases, StopOrder
  <2>4. Screen'
    BY <1>5, <2>1 DEF EditLoop, TypeOK, Screen, Nobody
  <2>5. Blame'
    BY <1>5, <2>1 DEF EditLoop, Blame, LogOnlyOnError
  <2> QED  BY <2>2, <2>3, <2>4, <2>5
<1>6. CASE GetChar
  <2>1. /\ DOMAIN pc' = Threads
        /\ pc["input"] = "getch" /\ pc'["input"] \in {"edit", "line", "redraw"}
        /\ \A u \in Threads : u # "input" => pc'[u] = pc[u]
    BY <1>6, Moves DEF GetChar
  <2>2. TypeOK'
    BY <1>6, <2>1 DEF GetChar, TypeOK, Labels, ThreadLabels
  <2>3. Phases' /\ StopOrder'
    BY <1>6, <2>1 DEF GetChar, Phases, StopOrder
  <2>4. Screen'
    BY <1>6, <2>1 DEF GetChar, TypeOK, Screen, Nobody
  <2>5. Blame'
    BY <1>6, <2>1 DEF GetChar, Blame, LogOnlyOnError
  <2> QED  BY <2>2, <2>3, <2>4, <2>5
<1>7. CASE HandleLine
  <2>1. /\ DOMAIN pc' = Threads
        /\ pc["input"] = "line" /\ pc'["input"] \in {"while", "stop", "send"}
        /\ \A u \in Threads : u # "input" => pc'[u] = pc[u]
    BY <1>7, Moves DEF HandleLine, TypeOK
  <2>2. TypeOK'
    BY <1>7, <2>1 DEF HandleLine, TypeOK, Labels, ThreadLabels, StopLabels
  <2>3. Phases' /\ StopOrder'
    BY <1>7, <2>1 DEF HandleLine, Phases, StopOrder
  <2>4. Screen'
    BY <1>7, <2>1 DEF HandleLine, TypeOK, Screen, Nobody
  <2>5. Blame'
    BY <1>7, <2>1 DEF HandleLine, Blame, LogOnlyOnError
  <2> QED  BY <2>2, <2>3, <2>4, <2>5
<1>8. CASE SendLine
  <2>1. /\ DOMAIN pc' = Threads
        /\ pc["input"] = "send" /\ pc'["input"] = "while"
        /\ \A u \in Threads : u # "input" => pc'[u] = pc[u]
    BY <1>8, Moves DEF SendLine, SendPacket, AfterError, Ended, EndpointStates
  <2>2. TypeOK'
    BY <1>8, <2>1 DEF SendLine, SendPacket, AfterError, Ended, EndpointStates, TypeOK, Labels, ThreadLabels
  <2>3. Phases' /\ StopOrder'
    BY <1>8, <2>1 DEF SendLine, SendPacket, AfterError, Ended, EndpointStates, Phases, StopOrder
  <2>4. Screen'
    BY <1>8, <2>1 DEF SendLine, SendPacket, AfterError, Ended, EndpointStates, TypeOK, Screen, Nobody
  <2>5. Blame'
    BY <1>8, <2>1 DEF SendLine, SendPacket, AfterError, Ended, EndpointStates, Blame, LogOnlyOnError
  <2> QED  BY <2>2, <2>3, <2>4, <2>5
<1> QED  BY <1>1, <1>2, <1>3, <1>4, <1>5, <1>6, <1>7, <1>8, StopSafe DEF Input

\* UIUpdateLoop.
LEMMA UISafe ==
    ASSUME ClientInv, ended = "no", UI
    PROVE  ClientInv'
<1> USE DEF Workers, Threads, netVars, srvVars, clientVars, uiVars, localVars, Unstarted, Ending,
            ClientInv
<1>1. CASE While("ui", "print")
  <2>1. /\ DOMAIN pc' = Threads
        /\ pc["ui"] = "while" /\ pc'["ui"] \in {"print", "stop"}
        /\ \A u \in Threads : u # "ui" => pc'[u] = pc[u]
    BY <1>1, Moves DEF While
  <2>2. TypeOK'
    BY <1>1, <2>1 DEF While, TypeOK, Labels, ThreadLabels, StopLabels
  <2>3. Phases' /\ StopOrder'
    BY <1>1, <2>1 DEF While, Phases, StopOrder
  <2>4. Screen'
    BY <1>1, <2>1 DEF While, TypeOK, Screen, Nobody
  <2>5. Blame'
    BY <1>1, <2>1 DEF While, Blame, LogOnlyOnError
  <2> QED  BY <2>2, <2>3, <2>4, <2>5
<1>2. CASE PrintBufferedMessages
  <2>1. /\ DOMAIN pc' = Threads
        /\ pc["ui"] = "print" /\ pc'["ui"] \in {"lock", "while"}
        /\ \A u \in Threads : u # "ui" => pc'[u] = pc[u]
    BY <1>2, Moves DEF PrintBufferedMessages
  <2>2. TypeOK'
    BY <1>2, <2>1 DEF PrintBufferedMessages, TypeOK, Labels, ThreadLabels
  <2>3. Phases' /\ StopOrder'
    BY <1>2, <2>1 DEF PrintBufferedMessages, Phases, StopOrder
  <2>4. Screen'
    BY <1>2, <2>1 DEF PrintBufferedMessages, TypeOK, Screen, Nobody
  <2>5. Blame'
    BY <1>2, <2>1 DEF PrintBufferedMessages, Blame, LogOnlyOnError
  <2> QED  BY <2>2, <2>3, <2>4, <2>5
<1>3. CASE LockBoth
  <2>1. /\ DOMAIN pc' = Threads
        /\ pc["ui"] = "lock" /\ pc'["ui"] = "drain"
        /\ \A u \in Threads : u # "ui" => pc'[u] = pc[u]
    BY <1>3, Moves DEF LockBoth
  <2>2. TypeOK'
    BY <1>3, <2>1 DEF LockBoth, TypeOK, Labels, ThreadLabels
  <2>3. Phases' /\ StopOrder'
    BY <1>3, <2>1 DEF LockBoth, Phases, StopOrder
  <2>4. Screen'
    BY <1>3, <2>1 DEF LockBoth, TypeOK, Screen, Nobody
  <2>5. Blame'
    BY <1>3, <2>1 DEF LockBoth, Blame, LogOnlyOnError
  <2> QED  BY <2>2, <2>3, <2>4, <2>5
<1>4. CASE PrintMessage
  <2>1. UNCHANGED pc
    BY <1>4 DEF PrintMessage
  <2>2. TypeOK'
    BY <1>4, <2>1 DEF PrintMessage, TypeOK, Labels, ThreadLabels
  <2>3. Phases' /\ StopOrder'
    BY <1>4, <2>1 DEF PrintMessage, Phases, StopOrder
  <2>4. Screen'
    BY <1>4, <2>1 DEF PrintMessage, TypeOK, Screen, Nobody
  <2>5. Blame'
    BY <1>4, <2>1 DEF PrintMessage, Blame, LogOnlyOnError
  <2> QED  BY <2>2, <2>3, <2>4, <2>5
<1>5. CASE PrintThrows
  <2>1. /\ DOMAIN pc' = Threads
        /\ pc["ui"] = "drain" /\ pc'["ui"] = "stop"
        /\ \A u \in Threads : u # "ui" => pc'[u] = pc[u]
    BY <1>5, Moves DEF PrintThrows
  <2>2. TypeOK'
    BY <1>5, <2>1 DEF PrintThrows, TypeOK, Labels, ThreadLabels, StopLabels
  <2>3. Phases' /\ StopOrder'
    BY <1>5, <2>1 DEF PrintThrows, Phases, StopOrder
  <2>4. Screen'
    BY <1>5, <2>1 DEF PrintThrows, TypeOK, Screen, Nobody
  <2>5. Blame'
    BY <1>5, <2>1 DEF PrintThrows, Blame, LogOnlyOnError
  <2> QED  BY <2>2, <2>3, <2>4, <2>5
<1>6. CASE Unlock
  <2>1. /\ DOMAIN pc' = Threads
        /\ pc["ui"] = "drain" /\ pc'["ui"] = "while"
        /\ \A u \in Threads : u # "ui" => pc'[u] = pc[u]
    BY <1>6, Moves DEF Unlock
  <2>2. TypeOK'
    BY <1>6, <2>1 DEF Unlock, TypeOK, Labels, ThreadLabels
  <2>3. Phases' /\ StopOrder'
    BY <1>6, <2>1 DEF Unlock, Phases, StopOrder
  <2>4. Screen'
    BY <1>6, <2>1 DEF Unlock, TypeOK, Screen, Nobody
  <2>5. Blame'
    BY <1>6, <2>1 DEF Unlock, Blame, LogOnlyOnError
  <2> QED  BY <2>2, <2>3, <2>4, <2>5
<1> QED  BY <1>1, <1>2, <1>3, <1>4, <1>5, <1>6, StopSafe DEF UI

\* The main thread, before, during and after the life of the pool.
LEMMA MainSafe ==
    ASSUME ClientInv, ended = "no", Main
    PROVE  ClientInv'
<1> USE DEF Workers, Threads, netVars, srvVars, clientVars, uiVars, localVars, Unstarted, Ending,
            ClientInv
<1>1. CASE CreateSession
  <2>1. /\ DOMAIN pc' = Threads
        /\ pc["main"] = "start"
        /\ \A t \in Workers : pc'[t] = pc[t]
        /\ \/ pc'["main"] = "init" /\ tcp' = "est" /\ fdOpen' /\ m_socketfd'
              /\ UNCHANGED <<m_exitReason, ended>>
           \/ pc'["main"] = "done" /\ ended' = "exit1"
              /\ UNCHANGED <<tcp, fdOpen, m_socketfd>>
    BY <1>1, Moves DEF CreateSession
  <2>2. TypeOK'
    <3>1. tcp' \in EndpointStates /\ fdOpen' \in BOOLEAN /\ m_socketfd' \in BOOLEAN
      BY <1>1 DEF CreateSession, TypeOK, EndpointStates
    <3>2. /\ m_exitReason' = m_exitReason \/ m_exitReason' = "ConnectionFailed"
          /\ ended' = ended \/ ended' = "exit1"
      BY <1>1 DEF CreateSession
    <3>3. UNCHANGED <<shut, inbox, srv, served, faults, m_stopping, m_running, m_uiActive, running,
                      m_mutex, m_queueMutex, m_msgQueue, windows, pkt, typed, dumped>>
      BY <1>1 DEF CreateSession
    <3>4. \A u \in Threads : pc'[u] \in Labels(u)
      BY <2>1 DEF TypeOK, Labels
    <3> QED  BY <2>1, <3>1, <3>2, <3>3, <3>4 DEF TypeOK
  <2>3. Phases' /\ StopOrder'
    BY <1>1, <2>1 DEF CreateSession, Phases, StopOrder
  <2>4. Screen'
    BY <1>1, <2>1 DEF CreateSession, TypeOK, Screen, Nobody
  <2>5. Blame'
    BY <1>1, <2>1 DEF CreateSession, Phases, Blame, LogOnlyOnError, Ended
  <2> QED  BY <2>2, <2>3, <2>4, <2>5
<1>2. CASE InitUI
  <2>1. /\ DOMAIN pc' = Threads
        /\ pc["main"] = "init" /\ pc'["main"] = "sendpk"
        /\ \A u \in Threads : u # "main" => pc'[u] = pc[u]
    BY <1>2, Moves DEF InitUI
  <2>2. TypeOK'
    BY <1>2, <2>1 DEF InitUI, TypeOK, Labels, ThreadLabels
  <2>3. Phases' /\ StopOrder'
    BY <1>2, <2>1 DEF InitUI, Phases, StopOrder
  <2>4. Screen'
    BY <1>2, <2>1 DEF InitUI, TypeOK, Screen, Nobody
  <2>5. Blame'
    BY <1>2, <2>1 DEF InitUI, Blame, LogOnlyOnError
  <2> QED  BY <2>2, <2>3, <2>4, <2>5
<1>3. CASE SendPublicKey
  <2>1. /\ DOMAIN pc' = Threads
        /\ pc["main"] = "sendpk" /\ pc'["main"] = "recvkey"
        /\ \A u \in Threads : u # "main" => pc'[u] = pc[u]
    BY <1>3, Moves DEF SendPublicKey, SendPacket
  <2>2. TypeOK'
    BY <1>3, <2>1 DEF SendPublicKey, SendPacket, TypeOK, Labels, ThreadLabels, AfterError, EndpointStates
  <2>3. Phases' /\ StopOrder'
    BY <1>3, <2>1 DEF SendPublicKey, SendPacket, Phases, StopOrder
  <2>4. Screen'
    BY <1>3, <2>1 DEF SendPublicKey, SendPacket, TypeOK, Screen, Nobody
  <2>5. Blame'
    BY <1>3, <2>1 DEF SendPublicKey, SendPacket, Phases, Blame, LogOnlyOnError, AfterError, Ended
  <2> QED  BY <2>2, <2>3, <2>4, <2>5
<1>4. CASE RecvKeys
  <2>1. /\ DOMAIN pc' = Threads
        /\ pc["main"] \in {"recvkey", "recvgroup"}
        /\ \A t \in Workers : pc'[t] = pc[t]
        /\ \/ pc'["main"] = "failed"
           \/ pc'["main"] \in {"recvgroup", "username"} /\ UNCHANGED m_exitReason
    BY <1>4, Moves DEF RecvKeys, RecvPacket
  <2>2. TypeOK'
    <3>1. inbox' \in Seq(HandshakePackets \cup ClientPackets) /\ tcp' \in EndpointStates
      BY <1>4, Received DEF RecvKeys
    <3>2. m_exitReason' = m_exitReason \/ m_exitReason' = "BadHandshake"
      BY <1>4 DEF RecvKeys
    <3>3. UNCHANGED <<shut, fdOpen, srv, served, faults, m_socketfd, m_stopping, m_running, m_uiActive,
                      running, m_mutex, m_queueMutex, m_msgQueue, windows, pkt, typed, dumped, ended>>
      BY <1>4 DEF RecvKeys
    <3>4. \A u \in Threads : pc'[u] \in Labels(u)
      BY <2>1 DEF TypeOK, Labels
    <3> QED  BY <2>1, <3>1, <3>2, <3>3, <3>4 DEF TypeOK
  <2>3. Phases' /\ StopOrder'
    BY <1>4, <2>1 DEF RecvKeys, RecvPacket, Phases, StopOrder
  <2>4. Screen'
    BY <1>4, <2>1 DEF RecvKeys, RecvPacket, TypeOK, Screen, Nobody
  <2>5. Blame'
    <3>1. faults = {} => inbox' \in Seq(HandshakePackets \cup {"text"}) /\ ~Ended(tcp')
      BY <1>4, HeadTailProperties DEF RecvKeys, RecvPacket, Blame, AfterError, Ended
    <3> QED  BY <1>4, <2>1, <3>1 DEF RecvKeys, Phases, Blame, LogOnlyOnError
  <2> QED  BY <2>2, <2>3, <2>4, <2>5
<1>5. CASE PromptUsername
  <2>1. /\ DOMAIN pc' = Threads
        /\ pc["main"] = "username"
        /\ \A t \in Workers : pc'[t] = pc[t]
        /\ \/ pc'["main"] = "sendname" /\ UNCHANGED m_exitReason
           \/ pc'["main"] = "failed" /\ m_exitReason' = "InvalidUsername"
    BY <1>5, Moves DEF PromptUsername
  <2>2. TypeOK'
    BY <1>5, <2>1 DEF PromptUsername, TypeOK, Labels, ThreadLabels
  <2>3. Phases' /\ StopOrder'
    BY <1>5, <2>1 DEF PromptUsername, Phases, StopOrder
  <2>4. Screen'
    BY <1>5, <2>1 DEF PromptUsername, TypeOK, Screen, Nobody
  <2>5. Blame'
    BY <1>5, <2>1 DEF PromptUsername, Blame, LogOnlyOnError
  <2> QED  BY <2>2, <2>3, <2>4, <2>5
<1>6. CASE SendUsername
  <2>1. /\ DOMAIN pc' = Threads
        /\ pc["main"] = "sendname"
        /\ \/ /\ pc'["main"] = "join" /\ \A t \in Workers : pc'[t] = "while"
              /\ UNCHANGED m_exitReason
           \/ /\ pc'["main"] = "failed" /\ \A t \in Workers : pc'[t] = pc[t]
              /\ UNCHANGED m_running
    <3>1. CASE ~SendWorks
      <4>1. Goto("main", "failed") /\ UNCHANGED m_running
        BY <1>6, <3>1 DEF SendUsername
      <4> QED  BY <1>6, <4>1, Moves DEF SendUsername
    <3>2. CASE SendWorks
      BY <1>6, <3>2 DEF SendUsername
    <3> QED  BY <3>1, <3>2
  <2>2. TypeOK'
    <3>1. tcp' \in EndpointStates
      BY <1>6 DEF SendUsername, SendPacket, TypeOK, AfterError, EndpointStates
    <3>2. /\ srv' = srv \/ srv' = "name"
          /\ m_running' \in BOOLEAN
          /\ m_exitReason' = m_exitReason \/ m_exitReason' = "UsernameNotSent"
      BY <1>6 DEF SendUsername, TypeOK
    <3>3. UNCHANGED <<shut, fdOpen, inbox, served, faults, m_socketfd, m_stopping, m_uiActive,
                      running, m_mutex, m_queueMutex, m_msgQueue, windows, pkt, typed, dumped,
                      ended>>
      BY <1>6 DEF SendUsername
    <3>4. \A u \in Threads : pc'[u] \in Labels(u)
      BY <2>1, WorkerLabels DEF TypeOK, Labels
    <3> QED  BY <2>1, <3>1, <3>2, <3>3, <3>4 DEF TypeOK
  <2>3. Phases' /\ StopOrder'
    <3>1. UNCHANGED <<shut, fdOpen, m_socketfd, m_stopping, windows>>
      BY <1>6 DEF SendUsername
    <3>2. Phases'
      BY <2>1, <3>1 DEF Phases
    <3>3. StopOrder'
      BY <2>1, <3>1 DEF Phases, StopOrder
    <3> QED  BY <3>2, <3>3
  <2>4. Screen'
    <3>1. UNCHANGED <<m_mutex, windows>>
      BY <1>6 DEF SendUsername
    <3> QED  BY <2>1, <3>1 DEF Phases, Screen, Nobody
  <2>5. Blame'
    BY <1>6, <2>1 DEF SendUsername, SendPacket, Phases, Blame, LogOnlyOnError, AfterError, Ended
  <2> QED  BY <2>2, <2>3, <2>4, <2>5
<1>7. CASE StartFailed
  <2>1. /\ DOMAIN pc' = Threads
        /\ pc["main"] = "failed" /\ pc'["main"] = "done"
        /\ \A u \in Threads : u # "main" => pc'[u] = pc[u]
    BY <1>7, Moves DEF StartFailed
  <2>2. TypeOK'
    <3>1. /\ shut' \in BOOLEAN /\ fdOpen' \in BOOLEAN /\ m_socketfd' \in BOOLEAN
          /\ running' \in BOOLEAN /\ dumped' \in BOOLEAN
      BY <1>7 DEF StartFailed
    <3>2. windows' \in {"none", "open", "deleted"} /\ ended' = "exit1"
      BY <1>7 DEF StartFailed, TypeOK
    <3>3. UNCHANGED <<tcp, inbox, srv, served, faults, m_stopping, m_running, m_uiActive,
                      m_exitReason, m_mutex, m_queueMutex, m_msgQueue, pkt, typed>>
      BY <1>7 DEF StartFailed
    <3>4. \A u \in Threads : pc'[u] \in Labels(u)
      BY <2>1 DEF TypeOK, Labels
    <3> QED  BY <2>1, <3>1, <3>2, <3>3, <3>4 DEF TypeOK
  <2>3. Phases' /\ StopOrder'
    BY <1>7, <2>1 DEF StartFailed, Phases, StopOrder
  <2>4. Screen'
    BY <1>7, <2>1 DEF StartFailed, TypeOK, Phases, Screen, Nobody
  <2>5. Blame'
    BY <1>7, <2>1 DEF StartFailed, Blame, LogOnlyOnError
  <2> QED  BY <2>2, <2>3, <2>4, <2>5
<1>8. CASE JoinThreads
  <2>1. /\ DOMAIN pc' = Threads
        /\ pc["main"] = "join" /\ pc'["main"] = "cleanup"
        /\ \A u \in Threads : u # "main" => pc'[u] = pc[u]
    BY <1>8, Moves DEF JoinThreads
  <2>2. TypeOK'
    BY <1>8, <2>1 DEF JoinThreads, TypeOK, Labels, ThreadLabels
  <2>3. Phases' /\ StopOrder'
    BY <1>8, <2>1 DEF JoinThreads, Phases, StopOrder
  <2>4. Screen'
    BY <1>8, <2>1 DEF JoinThreads, TypeOK, Screen, Nobody
  <2>5. Blame'
    BY <1>8, <2>1 DEF JoinThreads, Blame, LogOnlyOnError
  <2> QED  BY <2>2, <2>3, <2>4, <2>5
<1>9. CASE Cleanup
  <2>1. /\ DOMAIN pc' = Threads
        /\ pc["main"] = "cleanup" /\ pc'["main"] = "report"
        /\ \A u \in Threads : u # "main" => pc'[u] = pc[u]
    BY <1>9, Moves DEF Cleanup
  <2>2. TypeOK'
    <3>1. running' \in BOOLEAN /\ windows' = "deleted"
      BY <1>9 DEF Cleanup
    <3>2. UNCHANGED <<tcp, shut, fdOpen, inbox, srv, served, faults, m_socketfd, m_stopping,
                      m_running, m_uiActive, m_exitReason, m_mutex, m_queueMutex, m_msgQueue,
                      pkt, typed, dumped, ended>>
      BY <1>9 DEF Cleanup
    <3>3. \A u \in Threads : pc'[u] \in Labels(u)
      BY <2>1 DEF TypeOK, Labels
    <3> QED  BY <2>1, <3>1, <3>2, <3>3 DEF TypeOK
  <2>3. Phases' /\ StopOrder'
    BY <1>9, <2>1 DEF Cleanup, Phases, StopOrder
  <2>4. Screen'
    BY <1>9, <2>1 DEF Cleanup, TypeOK, Phases, Screen, Nobody
  <2>5. Blame'
    BY <1>9, <2>1 DEF Cleanup, Blame, LogOnlyOnError
  <2> QED  BY <2>2, <2>3, <2>4, <2>5
<1>10. CASE Report
  <2>1. /\ DOMAIN pc' = Threads
        /\ pc["main"] = "report" /\ pc'["main"] = "done"
        /\ \A u \in Threads : u # "main" => pc'[u] = pc[u]
    BY <1>10, Moves DEF Report
  <2>2. TypeOK'
    BY <1>10, <2>1 DEF Report, TypeOK, Labels, ThreadLabels
  <2>3. Phases' /\ StopOrder'
    BY <1>10, <2>1 DEF Report, Phases, StopOrder
  <2>4. Screen'
    BY <1>10, <2>1 DEF Report, TypeOK, Screen, Nobody
  <2>5. Blame'
    BY <1>10, <2>1 DEF Report, Blame, LogOnlyOnError
  <2> QED  BY <2>2, <2>3, <2>4, <2>5
<1> QED  BY <1>1, <1>2, <1>3, <1>4, <1>5, <1>6, <1>7, <1>8, <1>9, <1>10 DEF Main

\* The server, and a connection that ends.
LEMMA ServerSafe ==
    ASSUME ClientInv, ended = "no", Server
    PROVE  ClientInv'
<1> USE DEF Workers, Threads, netVars, srvVars, clientVars, uiVars, localVars, Unstarted, Ending,
            ClientInv
<1>1. CASE ServerKey
  <2>1. UNCHANGED pc
    BY <1>1 DEF ServerKey, ServerSends
  <2>2. inbox' \in Seq(HandshakePackets \cup ClientPackets)
    BY <1>1, AppendProperties DEF ServerKey, ServerSends, TypeOK, HandshakePackets, ClientPackets
  <2>3. faults' = {} => inbox' \in Seq(HandshakePackets \cup {"text"}) /\ ~Ended(tcp')
    BY <1>1, AppendProperties DEF ServerKey, ServerSends, Blame, HandshakePackets
  <2>4. TypeOK'
    BY <1>1, <2>1, <2>2 DEF ServerKey, ServerSends, TypeOK, Labels
  <2>5. Phases' /\ StopOrder' /\ Screen'
    BY <1>1, <2>1 DEF ServerKey, ServerSends, Phases, StopOrder, Screen
  <2>6. Blame'
    BY <1>1, <2>1, <2>3 DEF ServerKey, ServerSends, Blame, LogOnlyOnError
  <2> QED  BY <2>4, <2>5, <2>6
<1>2. CASE ServerGroupKey
  <2>1. UNCHANGED pc
    BY <1>2 DEF ServerGroupKey, ServerSends
  <2>2. inbox' \in Seq(HandshakePackets \cup ClientPackets)
    BY <1>2, AppendProperties DEF ServerGroupKey, ServerSends, TypeOK, HandshakePackets, ClientPackets
  <2>3. faults' = {} => inbox' \in Seq(HandshakePackets \cup {"text"}) /\ ~Ended(tcp')
    BY <1>2, AppendProperties DEF ServerGroupKey, ServerSends, Blame, HandshakePackets
  <2>4. TypeOK'
    BY <1>2, <2>1, <2>2 DEF ServerGroupKey, ServerSends, TypeOK, Labels
  <2>5. Phases' /\ StopOrder' /\ Screen'
    BY <1>2, <2>1 DEF ServerGroupKey, ServerSends, Phases, StopOrder, Screen
  <2>6. Blame'
    BY <1>2, <2>1, <2>3 DEF ServerGroupKey, ServerSends, Blame, LogOnlyOnError
  <2> QED  BY <2>4, <2>5, <2>6
<1>3. CASE ServerPacket
  <2>1. UNCHANGED pc
    BY <1>3 DEF ServerPacket, ServerSends
  <2> PICK p \in RoomPackets : ServerSends(p) /\ faults' = faults \cup ({p} \ {"text"})
    BY <1>3 DEF ServerPacket
  <2>2. inbox' \in Seq(HandshakePackets \cup ClientPackets) /\ faults' \subseteq ClientPackets \cup {"gone"}
    BY <1>3, ClientAssumption, AppendProperties DEF ServerSends, TypeOK
  <2>3. faults' = {} => inbox' \in Seq(HandshakePackets \cup {"text"}) /\ ~Ended(tcp') /\ faults = {}
    BY <1>3, AppendProperties DEF ServerSends, Blame
  <2>4. TypeOK'
    BY <1>3, <2>1, <2>2 DEF ServerPacket, ServerSends, TypeOK, Labels
  <2>5. Phases' /\ StopOrder' /\ Screen'
    BY <1>3, <2>1 DEF ServerPacket, ServerSends, Phases, StopOrder, Screen
  <2>6. Blame'
    BY <1>3, <2>1, <2>3 DEF ServerPacket, ServerSends, Blame, LogOnlyOnError
  <2> QED  BY <2>4, <2>5, <2>6
<1>4. CASE ServerGone
  <2>1. UNCHANGED pc
    BY <1>4 DEF ServerGone
  <2>2. tcp' \in EndpointStates
    BY <1>4 DEF ServerGone, AfterReset, EndpointStates
  <2>3. faults' # {}
    BY <1>4 DEF ServerGone
  <2>4. TypeOK'
    BY <1>4, <2>1, <2>2 DEF ServerGone, TypeOK, Labels
  <2>5. Phases' /\ StopOrder' /\ Screen'
    BY <1>4, <2>1 DEF ServerGone, Phases, StopOrder, Screen
  <2>6. Blame'
    BY <1>4, <2>1, <2>3 DEF ServerGone, Blame, LogOnlyOnError
  <2> QED  BY <2>4, <2>5, <2>6
<1> QED  BY <1>1, <1>2, <1>3, <1>4 DEF Server

\* The inductive step.
LEMMA ClientStep == ClientInv /\ [Next]_vars => ClientInv'
<1> SUFFICES ASSUME ClientInv, [Next]_vars PROVE ClientInv'
  OBVIOUS
<1>1. CASE Next
  <2>1. CASE SigPipe
    <3>1. UNCHANGED <<netVars, srvVars, clientVars, uiVars, pc, localVars>> /\ ended' = "sigpipe"
      BY <2>1 DEF SigPipe, Killed
    <3>2. TypeOK'
      <4>1. ended' \in {"no", "exit0", "exit1", "sigpipe"}
        BY <3>1
      <4>2. \A u \in Threads : pc'[u] \in Labels(u)
        BY <3>1 DEF ClientInv, TypeOK
      <4> QED  BY <3>1, <4>1, <4>2 DEF ClientInv, TypeOK, netVars, srvVars, clientVars, uiVars,
                                      localVars
    <3>3. Phases' /\ StopOrder' /\ Screen'
      BY <3>1 DEF ClientInv, Phases, StopOrder, Screen, netVars, srvVars, clientVars, uiVars,
                  localVars
    <3>4. Blame'
      BY <3>1 DEF ClientInv, Blame, LogOnlyOnError, netVars, srvVars, clientVars, uiVars,
                  localVars
    <3> QED  BY <3>2, <3>3, <3>4 DEF ClientInv
  <2>2. CASE Server
    BY <1>1, <2>2, ServerSafe DEF Next
  <2>3. CASE Main
    BY <1>1, <2>3, MainSafe DEF Next
  <2>4. CASE Net
    BY <1>1, <2>4, NetSafe DEF Next
  <2>5. CASE Input
    BY <1>1, <2>5, InputSafe DEF Next
  <2>6. CASE UI
    BY <1>1, <2>6, UISafe DEF Next
  <2> QED  BY <1>1, <2>1, <2>2, <2>3, <2>4, <2>5, <2>6 DEF Next
<1>2. CASE UNCHANGED vars
  <2> USE <1>2 DEF vars, netVars, srvVars, clientVars, uiVars, localVars
  <2>1. TypeOK'
    <3>1. \A u \in Threads : pc'[u] \in Labels(u)
      BY DEF ClientInv, TypeOK
    <3> QED  BY <3>1 DEF ClientInv, TypeOK
  <2>2. Phases' /\ StopOrder' /\ Screen'
    BY DEF ClientInv, Phases, StopOrder, Screen
  <2>3. Blame'
    BY DEF ClientInv, Blame, LogOnlyOnError
  <2> QED  BY <2>1, <2>2, <2>3 DEF ClientInv
<1> QED  BY <1>1, <1>2

\* ClientInv holds in every state of the client.
THEOREM ClientInvariant == Spec => []ClientInv
  BY ClientInit, ClientStep, PTL DEF Spec

-----------------------------------------------------------------------------
(* What the invariant says of the client.                                  *)

\* The variables of class Client, of NcursesUI and of the threads keep
\* their types, whatever the server sends.
THEOREM ClientTypeCorrect == Spec => []TypeOK
  BY ClientInvariant, PTL DEF ClientInv

\* After the join of Client::Start the session is closed and both loops are
\* told to stop, although Stop tests m_stopping before it sets it and so may
\* run on two threads, or be left early by one.
THEOREM JoinedAreStopped == Spec => []JoinedIsStopped
<1>1. ClientInv => JoinedIsStopped
  BY DEF ClientInv, TypeOK, Phases, StopOrder, JoinedIsStopped, Workers, Ending
<1> QED  BY <1>1, ClientInvariant, PTL

\* NcursesUI::Cleanup deletes the windows only when no other thread can use
\* them any more.
THEOREM WindowsOutlive == Spec => []WindowsOutliveThreads
<1>1. ClientInv => WindowsOutliveThreads
  BY DEF ClientInv, TypeOK, Screen, WindowsOutliveThreads, Workers, Nobody
<1> QED  BY <1>1, ClientInvariant, PTL

\* Client::Start writes log.txt at the end of an orderly run only if the
\* server did something wrong: HandleBroadcast never takes its own shutdown
\* for the server's.
THEOREM LogsOnlyOnError == Spec => []LogOnlyOnError
  BY ClientInvariant, PTL DEF ClientInv, Blame
=============================================================================
