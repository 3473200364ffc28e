------------------------------- MODULE Client -------------------------------
(***************************************************************************)
(* One client process: Client::Start up to the handshake, and then the     *)
(* threads HandleBroadcast ("net"), ClientLoop ("input") and UIUpdateLoop  *)
(* ("ui") that the main thread joins, with Stop, CloseSession and the      *)
(* NcursesUI they share.                                                   *)
(*                                                                         *)
(* A step ends before each access to a variable another thread writes, to  *)
(* a mutex, or to the socket.  Packets come in the order the server sent   *)
(* them; keys come when the user likes.                                    *)
(***************************************************************************)
EXTENDS Integers, Sequences, TcpEndpoint

CONSTANTS
    RoomPackets,  \* what the server sends to a client of the room
    MaxServed,    \* bound: packets the server sends after the handshake
    MaxInbox      \* bound: packets waiting unread

(***************************************************************************)
(* Packets, by what the client does with them: the handshake's "key",      *)
(* "group" and "badgroup" (a group key that does not open), and then a     *)
(* "text", "badtext" (decrypts, but is not UTF-8), the text "taken" of     *)
(* SERVER::USERNAME_TAKEN, or "bad" (does not decrypt).                    *)
(***************************************************************************)
HandshakePackets == {"key", "group", "badgroup"}
ClientPackets    == {"text", "badtext", "taken", "bad"}
NullOpt          == "nullopt"
NoLine           == ""
Nobody           == "nobody"
Workers          == {"net", "input", "ui"}
Threads          == Workers \cup {"main"}

ASSUME ClientAssumption ==
    /\ RoomPackets \subseteq ClientPackets
    /\ MaxServed \in Nat /\ MaxInbox \in Nat

VARIABLES
    \* the connection and the server
    tcp,           \* this end of the connection, as the server left it
    shut,          \* the socket was shut down by this process
    fdOpen,        \* the descriptor of the socket is open
    inbox,         \* packets that arrived and were not read
    srv,           \* how far the server is with this client
    served,        \* how many packets it sent after the handshake
    faults,        \* what the server did that the user should hear of
    \* class Client
    m_socketfd,    \* the session still holds the descriptor
    m_stopping, m_running, m_uiActive,
    m_exitReason,  \* its texts are named, not spelled out
    \* class NcursesUI
    running, m_mutex, m_queueMutex, m_msgQueue,
    windows,       \* the ncurses windows: "none", "open" or "deleted"
    \* the threads
    pc,
    pkt,           \* what RecvDecrypted read for HandleBroadcast
    typed,         \* the line in PromptInput: "", "text" or "exit"
    dumped,        \* the log was written to log.txt
    ended          \* how the process ended

netVars    == <<tcp, shut, fdOpen, inbox, m_socketfd>>
srvVars    == <<srv, served, faults>>
clientVars == <<m_stopping, m_running, m_uiActive, m_exitReason>>
uiVars     == <<running, m_mutex, m_queueMutex, m_msgQueue, windows>>
localVars  == <<pkt, typed, dumped>>
vars == <<netVars, srvVars, clientVars, uiVars, pc, localVars, ended>>

Init ==
    /\ tcp = "closed" /\ shut = FALSE /\ fdOpen = FALSE /\ inbox = <<>>
    /\ srv = "none" /\ served = 0 /\ faults = {}
    /\ m_socketfd = FALSE
    /\ m_stopping = FALSE /\ m_running = FALSE /\ m_uiActive = FALSE
    /\ m_exitReason = "None"
    /\ running = FALSE /\ m_mutex = Nobody /\ m_queueMutex = Nobody
    /\ m_msgQueue = <<>> /\ windows = "none"
    /\ pc = [t \in Threads |-> IF t = "main" THEN "start" ELSE "unborn"]
    /\ pkt = NullOpt /\ typed = NoLine /\ dumped = FALSE
    /\ ended = "no"

Goto(t, l) == pc' = [pc EXCEPT ![t] = l]
-----------------------------------------------------------------------------
(* The server, as this client sees it.                                     *)

Alive == ended = "no" /\ tcp = "est"

ServerSends(p) ==
    /\ inbox' = Append(inbox, p)
    /\ UNCHANGED <<tcp, shut, fdOpen, m_socketfd, clientVars, uiVars, pc, localVars, ended>>

\* The key and the group key answer the client's key.
ServerKey ==
    /\ Alive /\ srv = "pk" /\ srv' = "key"
    /\ ServerSends("key")
    /\ UNCHANGED <<served, faults>>

ServerGroupKey ==
    /\ Alive /\ srv = "key" /\ srv' = "group"
    /\ \E p \in {"group", "badgroup"} : ServerSends(p)
    /\ UNCHANGED <<served, faults>>

ServerPacket ==
    /\ Alive /\ srv = "name" /\ served < MaxServed /\ Len(inbox) < MaxInbox
    /\ served' = served + 1
    /\ \E p \in RoomPackets :
         /\ ServerSends(p)
         /\ faults' = faults \cup ({p} \ {"text"})
    /\ UNCHANGED srv

\* It closes or resets the connection, or dies.
ServerGone ==
    /\ ended = "no" /\ tcp \in {"est", "fin"}
    /\ \/ tcp = "est" /\ tcp' = "fin"
       \/ tcp' = AfterReset(tcp)
    /\ faults' = faults \cup {"gone"}
    /\ UNCHANGED <<shut, fdOpen, inbox, m_socketfd, srv, served, clientVars, uiVars,
                   pc, localVars, ended>>

-----------------------------------------------------------------------------
(* NetworkSession, with the descriptor as the calling thread finds it.     *)

SendKilled == fdOpen /\ SendKillsShut(tcp, shut)
SendWorks  == fdOpen /\ ~shut /\ SendOk(tcp)

\* SendPacket, when the process survives it.
SendPacket == ~SendKilled /\ tcp' = IF fdOpen THEN AfterError(tcp) ELSE tcp

\* RecvPacket returns p: the next packet, or nothing once the connection
\* ended on either side and what had arrived is read.
RecvPacket(p) ==
    \/ /\ inbox # <<>> /\ fdOpen
       /\ p = Head(inbox) /\ inbox' = Tail(inbox)
       /\ UNCHANGED tcp
    \/ /\ inbox = <<>> /\ (shut \/ Ended(tcp))
       /\ p = NullOpt /\ tcp' = AfterError(tcp)
       /\ UNCHANGED inbox

\* SIGPIPE ends the process, whatever its threads are doing.
Killed ==
    /\ ended' = "sigpipe"
    /\ UNCHANGED <<netVars, srvVars, clientVars, uiVars, pc, localVars>>
-----------------------------------------------------------------------------
(* Start, on the main thread, while there is no other.                     *)

\* Mutant: the failure has no reason.
CreateSessionSilent ==
    /\ pc["main"] = "start"
    /\ \/ /\ tcp' = "est" /\ fdOpen' = TRUE /\ m_socketfd' = TRUE
          /\ Goto("main", "init")
          /\ UNCHANGED <<m_exitReason, ended>>
       \/ /\ m_exitReason' = ""
          /\ Goto("main", "done") /\ ended' = "exit1"
          /\ UNCHANGED <<tcp, fdOpen, m_socketfd>>
    /\ UNCHANGED <<shut, inbox, srvVars, m_stopping, m_running, m_uiActive, uiVars, localVars>>

CreateSession ==
    /\ pc["main"] = "start"
    /\ \/ /\ tcp' = "est" /\ fdOpen' = TRUE /\ m_socketfd' = TRUE
          /\ Goto("main", "init")
          /\ UNCHANGED <<m_exitReason, ended>>
       \/ /\ m_exitReason' = "ConnectionFailed"
          /\ Goto("main", "done") /\ ended' = "exit1"
          /\ UNCHANGED <<tcp, fdOpen, m_socketfd>>
    /\ UNCHANGED <<shut, inbox, srvVars, m_stopping, m_running, m_uiActive, uiVars, localVars>>

InitUI ==
    /\ pc["main"] = "init"
    /\ m_uiActive' = TRUE /\ running' = TRUE /\ windows' = "open"
    /\ Goto("main", "sendpk")
    /\ UNCHANGED <<netVars, srvVars, m_stopping, m_running, m_exitReason,
                   m_mutex, m_queueMutex, m_msgQueue, localVars, ended>>

\* The result of this SendPacket is not looked at.
SendPublicKey ==
    /\ pc["main"] = "sendpk"
    /\ SendPacket
    /\ srv' = IF SendWorks THEN "pk" ELSE srv
    /\ Goto("main", "recvkey")
    /\ UNCHANGED <<shut, fdOpen, inbox, m_socketfd, served, faults, clientVars, uiVars,
                   localVars, ended>>

\* value() of an empty optional throws, as does a group key that does not open.
RecvKeys ==
    /\ pc["main"] \in {"recvkey", "recvgroup"}
    /\ \E p \in HandshakePackets \cup {NullOpt} :
         /\ RecvPacket(p)
         /\ IF p \in {NullOpt, "badgroup"}
            THEN m_exitReason' = "BadHandshake" /\ Goto("main", "failed")
            ELSE /\ Goto("main", IF p = "key" THEN "recvgroup" ELSE "username")
                 /\ UNCHANGED m_exitReason
    /\ UNCHANGED <<shut, fdOpen, m_socketfd, srvVars, m_stopping, m_running, m_uiActive,
                   uiVars, localVars, ended>>

\* PromptInput("Username: "), and the check of its length.
PromptUsername ==
    /\ pc["main"] = "username"
    /\ \/ Goto("main", "sendname") /\ UNCHANGED m_exitReason
       \/ Goto("main", "failed") /\ m_exitReason' = "InvalidUsername"
    /\ UNCHANGED <<netVars, srvVars, m_stopping, m_running, m_uiActive, uiVars, localVars, ended>>

\* SendEncrypted(username); the threads start only if it worked.
SendUsername ==
    /\ pc["main"] = "sendname"
    /\ SendPacket
    /\ \/ /\ SendWorks
          /\ srv' = "name"
          /\ m_running' = TRUE
          /\ pc' = [t \in Threads |-> IF t = "main" THEN "join" ELSE "while"]
          /\ UNCHANGED m_exitReason
       \/ /\ ~SendWorks
          /\ m_exitReason' = "UsernameNotSent"
          /\ Goto("main", "failed")
          /\ UNCHANGED <<srv, m_running>>
    /\ UNCHANGED <<shut, fdOpen, inbox, m_socketfd, served, faults, m_stopping, m_uiActive,
                   uiVars, localVars, ended>>

\* The catch block of Start: Cleanup, CloseSession, DumpToFile, exit(1).
StartFailed ==
    /\ pc["main"] = "failed"
    /\ running' = FALSE
    /\ windows' = IF m_uiActive THEN "deleted" ELSE windows
    /\ shut' = TRUE /\ fdOpen' = FALSE /\ m_socketfd' = FALSE
    /\ dumped' = TRUE
    /\ Goto("main", "done") /\ ended' = "exit1"
    /\ UNCHANGED <<tcp, inbox, srvVars, clientVars, m_mutex, m_queueMutex, m_msgQueue,
                   pkt, typed>>

\* The end of Start: join the threads, Cleanup, and the log if there is a
\* reason for one.
\* Mutant: only the first thread of the pool is joined.
JoinFirst ==
    /\ pc["main"] = "join" /\ pc["net"] = "done"
    /\ Goto("main", "cleanup")
    /\ UNCHANGED <<netVars, srvVars, clientVars, uiVars, localVars, ended>>

JoinThreads ==
    /\ pc["main"] = "join" /\ \A t \in Workers : pc[t] = "done"
    /\ Goto("main", "cleanup")
    /\ UNCHANGED <<netVars, srvVars, clientVars, uiVars, localVars, ended>>

Cleanup ==
    /\ pc["main"] = "cleanup"
    /\ running' = FALSE /\ windows' = "deleted"
    /\ Goto("main", "report")
    /\ UNCHANGED <<netVars, srvVars, clientVars, m_mutex, m_queueMutex, m_msgQueue,
                   localVars, ended>>

Report ==
    /\ pc["main"] = "report"
    /\ dumped' = (m_exitReason # "None")
    /\ Goto("main", "done") /\ ended' = "exit0"
    /\ UNCHANGED <<netVars, srvVars, clientVars, uiVars, pkt, typed>>

Main == \/ CreateSession \/ InitUI \/ SendPublicKey \/ RecvKeys \/ PromptUsername
        \/ SendUsername \/ StartFailed \/ JoinThreads \/ Cleanup \/ Report

-----------------------------------------------------------------------------
(* Stop and CloseSession, on whichever thread calls them.  Every caller    *)
(* returns from its loop after its first Stop; the later ones it meets on  *)
(* the way out find m_stopping set and do nothing.                         *)

\* The test of m_stopping is apart from the assignment, so two threads may
\* pass it.
StopEnter(t) ==
    /\ pc[t] = "stop"
    /\ Goto(t, IF m_stopping THEN "done" ELSE "stopping")
    /\ UNCHANGED <<netVars, srvVars, clientVars, uiVars, localVars, ended>>

\* Mutant: m_stopping is not set, so no thread knows who closed the session.
SetStoppingOmitted(t) ==
    /\ pc[t] = "stopping"
    /\ Goto(t, "stoprunning")
    /\ UNCHANGED <<netVars, srvVars, clientVars, uiVars, localVars, ended>>

SetStopping(t) ==
    /\ pc[t] = "stopping"
    /\ m_stopping' = TRUE
    /\ Goto(t, "stoprunning")
    /\ UNCHANGED <<netVars, srvVars, m_running, m_uiActive, m_exitReason, uiVars, localVars, ended>>

ClearRunning(t) ==
    /\ pc[t] = "stoprunning"
    /\ m_running' = FALSE
    /\ Goto(t, "stopui")
    /\ UNCHANGED <<netVars, srvVars, m_stopping, m_uiActive, m_exitReason, uiVars, localVars, ended>>

ClearUiRunning(t) ==
    /\ pc[t] = "stopui"
    /\ running' = FALSE /\ m_uiActive' = FALSE
    /\ Goto(t, "shutdown")
    /\ UNCHANGED <<netVars, srvVars, m_stopping, m_running, m_exitReason,
                   m_mutex, m_queueMutex, m_msgQueue, windows, localVars, ended>>

\* CloseSession: nothing to do if the descriptor is already given up.
\* Mutants: close() alone, and shutdown() alone.
ShutdownOmitted(t) ==
    /\ pc[t] = "shutdown"
    /\ Goto(t, IF m_socketfd THEN "close" ELSE "done")
    /\ UNCHANGED <<netVars, srvVars, clientVars, uiVars, localVars, ended>>
CloseOmitted(t) ==
    /\ pc[t] = "shutdown"
    /\ shut' = (shut \/ (m_socketfd /\ fdOpen))
    /\ Goto(t, "done")
    /\ UNCHANGED <<tcp, fdOpen, inbox, m_socketfd, srvVars, clientVars, uiVars, localVars, ended>>

Shutdown(t) ==
    /\ pc[t] = "shutdown"
    /\ shut' = (shut \/ (m_socketfd /\ fdOpen))
    /\ Goto(t, IF m_socketfd THEN "close" ELSE "done")
    /\ UNCHANGED <<tcp, fdOpen, inbox, m_socketfd, srvVars, clientVars, uiVars, localVars, ended>>

Close(t) ==
    /\ pc[t] = "close"
    /\ fdOpen' = FALSE
    /\ Goto(t, "forget")
    /\ UNCHANGED <<tcp, shut, inbox, m_socketfd, srvVars, clientVars, uiVars, localVars, ended>>

Forget(t) ==
    /\ pc[t] = "forget"
    /\ m_socketfd' = FALSE
    /\ Goto(t, "done")
    /\ UNCHANGED <<tcp, shut, fdOpen, inbox, srvVars, clientVars, uiVars, localVars, ended>>

Stop(t) == \/ StopEnter(t) \/ SetStopping(t) \/ ClearRunning(t) \/ ClearUiRunning(t)
           \/ Shutdown(t) \/ Close(t) \/ Forget(t)

\* The while (m_running) of each thread.
While(t, body) ==
    /\ pc[t] = "while"
    /\ Goto(t, IF m_running THEN body ELSE "stop")
    /\ UNCHANGED <<netVars, srvVars, clientVars, uiVars, localVars, ended>>

-----------------------------------------------------------------------------
(* HandleBroadcast.                                                        *)

\* recv() is entered with an open descriptor, and then keeps its socket even
\* if the descriptor is closed; but a packet takes a second recv().
CallRecv ==
    /\ pc["net"] = "call"
    /\ IF fdOpen THEN Goto("net", "recv") /\ UNCHANGED pkt
                 ELSE Goto("net", "got") /\ pkt' = NullOpt
    /\ UNCHANGED <<netVars, srvVars, clientVars, uiVars, typed, dumped, ended>>

ReturnRecv ==
    /\ pc["net"] = "recv"
    /\ \/ \E p \in ClientPackets \cup {NullOpt} : RecvPacket(p) /\ pkt' = p
       \/ inbox # <<>> /\ ~fdOpen /\ pkt' = NullOpt /\ UNCHANGED <<tcp, inbox>>
    /\ Goto("net", "got")
    /\ UNCHANGED <<shut, fdOpen, m_socketfd, srvVars, clientVars, uiVars, typed,
                   dumped, ended>>

\* Mutant: the loop goes on after a packet it could not read.
NothingReceivedIgnored ==
    /\ pc["net"] = "got" /\ pkt \in {NullOpt, "bad"}
    /\ Goto("net", "while")
    /\ UNCHANGED <<netVars, srvVars, clientVars, uiVars, localVars, ended>>

NothingReceived ==
    /\ pc["net"] = "got" /\ pkt \in {NullOpt, "bad"}
    /\ m_exitReason' = IF m_stopping THEN m_exitReason ELSE "ServerClosed"
    /\ Goto("net", "stop")
    /\ UNCHANGED <<netVars, srvVars, m_stopping, m_running, m_uiActive, uiVars, localVars, ended>>

UsernameTaken ==
    /\ pc["net"] = "got" /\ pkt = "taken"
    /\ m_exitReason' = "UsernameTaken"
    /\ Goto("net", "stop")
    /\ UNCHANGED <<netVars, srvVars, m_stopping, m_running, m_uiActive, uiVars, localVars, ended>>

PushMessage ==
    /\ pc["net"] = "got" /\ pkt \in {"text", "badtext"}
    /\ \/ ~running /\ Goto("net", "while")
       \/ running /\ Goto("net", "push")
    /\ UNCHANGED <<netVars, srvVars, clientVars, uiVars, localVars, ended>>

Push ==
    /\ pc["net"] = "push" /\ m_queueMutex = Nobody
    /\ m_msgQueue' = Append(m_msgQueue, pkt)
    /\ Goto("net", "while")
    /\ UNCHANGED <<netVars, srvVars, clientVars, running, m_mutex, m_queueMutex, windows,
                   localVars, ended>>

Net == While("net", "call") \/ CallRecv \/ ReturnRecv \/ NothingReceived \/ UsernameTaken
       \/ PushMessage \/ Push \/ Stop("net")

-----------------------------------------------------------------------------
(* ClientLoop with PromptInput and RedrawInputLine.                        *)

PromptInput ==
    /\ pc["input"] = "prompt"
    /\ typed' = NoLine
    /\ Goto("input", IF running THEN "redraw" ELSE "stop")
    /\ UNCHANGED <<netVars, srvVars, clientVars, uiVars, pkt, dumped, ended>>

RedrawInputLine ==
    /\ pc["input"] = "redraw"
    /\ \/ ~running /\ Goto("input", "edit") /\ UNCHANGED m_mutex
       \/ /\ running /\ m_mutex = Nobody
          /\ m_mutex' = "input" /\ Goto("input", "draw")
    /\ UNCHANGED <<netVars, srvVars, clientVars, running, m_queueMutex, m_msgQueue, windows,
                   localVars, ended>>

Draw ==
    /\ pc["input"] = "draw"
    /\ m_mutex' = Nobody
    /\ Goto("input", "edit")
    /\ UNCHANGED <<netVars, srvVars, clientVars, running, m_queueMutex, m_msgQueue, windows,
                   localVars, ended>>

\* The while (running) of PromptInput: it returns what has been typed,
\* submitted or not.
EditLoop ==
    /\ pc["input"] = "edit"
    /\ Goto("input", IF running THEN "getch" ELSE "line")
    /\ UNCHANGED <<netVars, srvVars, clientVars, uiVars, localVars, ended>>

\* wget_wch, without m_mutex: nothing typed, a new line, or a key that edits.
GetChar ==
    /\ pc["input"] = "getch"
    /\ \/ Goto("input", "edit") /\ UNCHANGED typed
       \/ Goto("input", "line") /\ UNCHANGED typed
       \/ Goto("input", "redraw") /\ typed' \in {NoLine, "text", "exit"}
    /\ UNCHANGED <<netVars, srvVars, clientVars, uiVars, pkt, dumped, ended>>

HandleLine ==
    /\ pc["input"] = "line"
    /\ Goto("input", CASE typed = NoLine -> "while"
                       [] typed = "exit" -> "stop"
                       [] typed = "text" -> "send")
    /\ UNCHANGED <<netVars, srvVars, clientVars, uiVars, localVars, ended>>

\* SendEncrypted; its result is not looked at.
SendLine ==
    /\ pc["input"] = "send"
    /\ SendPacket
    /\ Goto("input", "while")
    /\ UNCHANGED <<shut, fdOpen, inbox, m_socketfd, srvVars, clientVars, uiVars, localVars, ended>>

Input == While("input", "prompt") \/ PromptInput \/ RedrawInputLine \/ Draw \/ EditLoop
         \/ GetChar \/ HandleLine \/ SendLine \/ Stop("input")

-----------------------------------------------------------------------------
(* UIUpdateLoop with PrintBufferedMessages.                                *)

PrintBufferedMessages ==
    /\ pc["ui"] = "print"
    /\ Goto("ui", IF running THEN "lock" ELSE "while")
    /\ UNCHANGED <<netVars, srvVars, clientVars, uiVars, localVars, ended>>

\* std::lock of both mutexes.
LockBoth ==
    /\ pc["ui"] = "lock" /\ m_mutex = Nobody /\ m_queueMutex = Nobody
    /\ m_mutex' = "ui" /\ m_queueMutex' = "ui"
    /\ Goto("ui", "drain")
    /\ UNCHANGED <<netVars, srvVars, clientVars, running, m_msgQueue, windows, localVars, ended>>

PrintMessage ==
    /\ pc["ui"] = "drain" /\ m_msgQueue # <<>> /\ Head(m_msgQueue) = "text"
    /\ m_msgQueue' = Tail(m_msgQueue)
    /\ UNCHANGED <<netVars, srvVars, clientVars, running, m_mutex, m_queueMutex, windows,
                   pc, localVars, ended>>

\* from_utf8 throws; the wrapper of the thread catches and calls Stop(true).
PrintThrows ==
    /\ pc["ui"] = "drain" /\ m_msgQueue # <<>> /\ Head(m_msgQueue) = "badtext"
    /\ m_msgQueue' = Tail(m_msgQueue)
    /\ m_mutex' = Nobody /\ m_queueMutex' = Nobody
    /\ Goto("ui", "stop")
    /\ UNCHANGED <<netVars, srvVars, clientVars, running, windows, localVars, ended>>

Unlock ==
    /\ pc["ui"] = "drain" /\ m_msgQueue = <<>>
    /\ m_mutex' = Nobody /\ m_queueMutex' = Nobody
    /\ Goto("ui", "while")
    /\ UNCHANGED <<netVars, srvVars, clientVars, running, m_msgQueue, windows, localVars, ended>>

UI == While("ui", "print") \/ PrintBufferedMessages \/ LockBoth \/ PrintMessage
      \/ PrintThrows \/ Unlock \/ Stop("ui")
-----------------------------------------------------------------------------
(* The specification.                                                      *)

SigPipe ==
    /\ \E t \in {"main", "input"} : pc[t] \in {"sendpk", "sendname", "send"}
    /\ SendKilled /\ Killed

Server == ServerKey \/ ServerGroupKey \/ ServerPacket \/ ServerGone

Next == ended = "no" /\ (Server \/ Main \/ Net \/ Input \/ UI \/ SigPipe)

Spec == Init /\ [][Next]_vars

\* Each thread runs whenever it can, and HandleBroadcast gets m_queueMutex,
\* which UIUpdateLoop leaves free during its sleep of 50 ms in every round.
\* Neither the server nor the user owes the client anything.
Fairness ==
    /\ WF_vars(ended = "no" /\ (JoinThreads \/ Cleanup \/ Report))
    /\ WF_vars(ended = "no" /\ Net) /\ SF_vars(ended = "no" /\ Push)
    /\ WF_vars(ended = "no" /\ (Input \/ SigPipe))
    /\ WF_vars(ended = "no" /\ UI)

FairSpec == Spec /\ Fairness
-----------------------------------------------------------------------------
(* Properties.                                                             *)

StopLabels   == {"stop", "stopping", "stoprunning", "stopui", "shutdown", "close", "forget"}
ThreadLabels == {"unborn", "while", "done"} \cup StopLabels
Labels(t) ==
    CASE t = "main"  -> {"start", "init", "sendpk", "recvkey", "recvgroup", "username",
                         "sendname", "failed", "join", "cleanup", "report", "done"}
      [] t = "net"   -> ThreadLabels \cup {"call", "recv", "got", "push"}
      [] t = "input" -> ThreadLabels \cup {"prompt", "redraw", "draw", "edit", "getch", "line",
                                          "send"}
      [] t = "ui"    -> ThreadLabels \cup {"print", "lock", "drain"}

TypeOK ==
    /\ tcp \in EndpointStates /\ shut \in BOOLEAN /\ fdOpen \in BOOLEAN
    /\ inbox \in Seq(HandshakePackets \cup ClientPackets)
    /\ srv \in {"none", "pk", "key", "group", "name"}
    /\ served \in Nat
    /\ faults \subseteq ClientPackets \cup {"gone"}
    /\ m_socketfd \in BOOLEAN
    /\ m_stopping \in BOOLEAN /\ m_running \in BOOLEAN
    /\ m_uiActive \in BOOLEAN /\ running \in BOOLEAN
    /\ m_exitReason \in {"None", "ConnectionFailed", "BadHandshake", "InvalidUsername",
                         "UsernameNotSent", "ServerClosed", "UsernameTaken"}
    /\ m_mutex \in {Nobody, "input", "ui"} /\ m_queueMutex \in {Nobody, "ui"}
    /\ m_msgQueue \in Seq({"text", "badtext"})
    /\ windows \in {"none", "open", "deleted"}
    /\ DOMAIN pc = Threads /\ \A t \in Threads : pc[t] \in Labels(t)
    /\ pkt \in ClientPackets \cup {NullOpt} /\ typed \in {NoLine, "text", "exit"}
    /\ dumped \in BOOLEAN
    /\ ended \in {"no", "exit0", "exit1", "sigpipe"}

\* log.txt is written only if something went wrong: never because the user
\* typed /exit and a thread mistook its own shutdown for the server's.
LogOnlyOnError ==
    (ended = "exit0" /\ dumped) => faults # {}

\* Two threads may run Stop at once and one may leave it early.  Still, when
\* all three have ended, the session is closed and nothing is running.
JoinedIsStopped ==
    pc["main"] \in {"cleanup", "report"} =>
        ~fdOpen /\ ~m_socketfd /\ ~m_running /\ ~running

\* The windows are deleted only when no thread is in a call that uses them,
\* and nobody holds the lock of the screen.
WindowsOutliveThreads ==
    windows = "deleted" =>
        /\ m_mutex = Nobody
        /\ pc["input"] \notin {"draw", "getch"} /\ pc["ui"] # "drain"

\* The client ends once any thread has decided to stop it.
StopEnds == m_stopping ~> ended # "no"

\* The client ends once the server is gone.
ServerGoneEnds == (pc["main"] = "join" /\ tcp # "est") ~> ended # "no"

\* A client that has begun to stop closes its UI before it ends, at least as
\* long as the server has neither closed nor reset the connection.
UiClosedOnExit ==
    (m_stopping /\ ended # "no" /\ "gone" \notin faults) => windows # "open"
=============================================================================
