------------------------------ MODULE Terminal ------------------------------
(***************************************************************************)
(* What a client shows and leaves behind: the messages between the socket  *)
(* and the screen and the log, from the moment the threads start to the    *)
(* end of Client::Start.  Client has the locks, the socket and the windows *)
(* of the same threads, and LineInput the line being typed; here the data  *)
(* that HandleBroadcast, UIUpdateLoop and the log handle.                  *)
(***************************************************************************)
EXTENDS Integers, Sequences, SequencesExt, DebugLog

CONSTANT MaxReceived  \* bound: messages

\* What is logged before the threads start fits.
ASSUME TerminalAssumption == MaxReceived \in Nat /\ MAX_LOG_ENTRIES >= 2

Messages == {"text", "badtext"}   \* "badtext" is not UTF-8
Workers  == {"net", "input", "ui"}

VARIABLES
    \* HandleBroadcast and UIUpdateLoop
    received,      \* messages RecvDecrypted returned
    msg,           \* the one HandleBroadcast holds, as a sequence
    m_msgQueue,
    screen,        \* messages on the screen
    \* Client
    running, m_stopping, m_exitReason,
    pc

messageVars == <<received, msg, m_msgQueue, screen>>
stateVars   == <<running, m_stopping, m_exitReason>>
vars        == <<messageVars, stateVars, logVars, pc>>

Init ==
    /\ received = <<>> /\ msg = <<>> /\ m_msgQueue = <<>> /\ screen = <<>>
    /\ running = TRUE /\ m_stopping = FALSE /\ m_exitReason = "None"
    /\ LogStart(<<"UI Initialized", "Client started">>)
    /\ pc = [t \in Workers \cup {"main"} |-> IF t = "main" THEN "starting" ELSE "unborn"]

Goto(t, l) == pc' = [pc EXCEPT ![t] = l]
-----------------------------------------------------------------------------
(* ClientLoop, which ends by /exit or when running is cleared.             *)

LeaveClientLoop ==
    /\ pc["input"] = "while"
    /\ Goto("input", "stop")
    /\ UNCHANGED <<messageVars, stateVars, logVars>>
-----------------------------------------------------------------------------
(* HandleBroadcast and UIUpdateLoop.  A test of running is a step of its   *)
(* own: what follows it may find the flag cleared.                         *)

TestRunning(t, at, yes, no) ==
    /\ pc[t] = at
    /\ Goto(t, IF running THEN yes ELSE no)
    /\ UNCHANGED <<messageVars, stateVars, logVars>>

HandleBroadcast == TestRunning("net", "while", "recv", "stop")

ReceiveMessage ==
    /\ pc["net"] = "recv" /\ Len(received) < MaxReceived
    /\ \E m \in Messages : msg' = <<m>> /\ received' = Append(received, m)
    /\ Goto("net", "push")
    /\ UNCHANGED <<m_msgQueue, screen, stateVars, logVars>>

\* PushMessage returns at once if running is cleared: the message is lost.
PushMessage ==
    /\ pc["net"] = "push"
    /\ IF running THEN Goto("net", "pushing") /\ UNCHANGED msg
       ELSE Goto("net", "while") /\ msg' = <<>>
    /\ UNCHANGED <<received, m_msgQueue, screen, stateVars, logVars>>

\* ... and else goes on to the queue, under its lock.
PushToQueue ==
    /\ pc["net"] = "pushing"
    /\ m_msgQueue' = m_msgQueue \o msg
    /\ msg' = <<>>
    /\ Goto("net", "while")
    /\ UNCHANGED <<received, screen, stateVars, logVars>>

\* A packet that does not open: RecvDecrypted logs it and returns nothing.
UnreadablePacket ==
    /\ pc["net"] = "recv"
    /\ Log("Decryption failed")
    /\ Goto("net", "nothing")
    /\ UNCHANGED <<messageVars, stateVars>>

\* Nothing more comes, or nothing that opens: because this process stops, or
\* else because of the server.
NothingReceived ==
    /\ pc["net"] \in {"recv", "nothing"}
    /\ IF m_stopping THEN UNCHANGED <<m_exitReason, logVars>>
       ELSE /\ m_exitReason' = "Server closed connection."
            /\ Log("Server closed the connection")
    /\ Goto("net", "stop")
    /\ UNCHANGED <<messageVars, running, m_stopping>>

\* SERVER::USERNAME_TAKEN.
UsernameTaken ==
    /\ pc["net"] = "recv"
    /\ m_exitReason' = "Username is already taken"
    /\ Goto("net", "stop")
    /\ UNCHANGED <<messageVars, running, m_stopping, logVars>>

\* The while of UIUpdateLoop and the first line of PrintBufferedMessages.
UIUpdateLoop == \/ TestRunning("ui", "while", "call", "stop")
                \/ TestRunning("ui", "call", "print", "while")

\* Mutant: a message is shown and stays in the queue.
PrintKeepsQueue ==
    /\ pc["ui"] = "print" /\ "badtext" \notin Range(m_msgQueue)
    /\ screen' = screen \o m_msgQueue
    /\ Goto("ui", "while")
    /\ UNCHANGED <<received, msg, m_msgQueue, stateVars, logVars>>

\* Under both locks: the whole queue is added to the window and shown.
PrintBufferedMessages ==
    /\ pc["ui"] = "print" /\ "badtext" \notin Range(m_msgQueue)
    /\ screen' = screen \o m_msgQueue
    /\ m_msgQueue' = <<>>
    /\ Goto("ui", "while")
    /\ UNCHANGED <<received, msg, stateVars, logVars>>

\* from_utf8 throws.  The messages in front have left the queue and are not
\* shown, because wrefresh is not reached; the thread's wrapper logs, and
\* stops the client.
PrintThrows ==
    /\ pc["ui"] = "print"
    /\ \E i \in 1 .. Len(m_msgQueue) :
         /\ m_msgQueue[i] = "badtext" /\ \A j \in 1 .. i - 1 : m_msgQueue[j] # "badtext"
         /\ m_msgQueue' = SubSeq(m_msgQueue, i + 1, Len(m_msgQueue))
    /\ Log("Exception in thread")
    /\ Goto("ui", "stop")
    /\ UNCHANGED <<received, msg, screen, stateVars>>
-----------------------------------------------------------------------------
(* Stop, on any thread, and the main thread.                               *)

StopCalled(t) ==
    /\ pc[t] = "stop"
    /\ IF m_stopping THEN Goto(t, "done") /\ UNCHANGED logVars
       ELSE Goto(t, "stopping") /\ Log("Stop called")
    /\ UNCHANGED <<messageVars, stateVars>>

StopFlags(t) ==
    /\ pc[t] = "stopping"
    /\ m_stopping' = TRUE /\ running' = FALSE
    /\ Goto(t, "closing")
    /\ UNCHANGED <<messageVars, m_exitReason, logVars>>

SessionClosed(t) ==
    /\ pc[t] = "closing"
    /\ Log("Session closed")
    /\ Goto(t, "done")
    /\ UNCHANGED <<messageVars, stateVars>>

Stop(t) == StopCalled(t) \/ StopFlags(t) \/ SessionClosed(t)

\* One Log call after the other.
MainLogs(at, entry, next) ==
    /\ pc["main"] = at
    /\ Log(entry)
    /\ Goto("main", next)
    /\ UNCHANGED <<messageVars, stateVars>>

StartThreads ==
    /\ pc["main"] = "starting"
    /\ Log("Initializing threads")
    /\ pc' = [t \in DOMAIN pc |-> IF t = "main" THEN "started" ELSE "while"]
    /\ UNCHANGED <<messageVars, stateVars>>

\* Mutant: the threads are not joined.
ThreadsDetached == MainLogs("join", "Threads stopped", "cleanup")

ThreadsStopped ==
    /\ \A t \in Workers : pc[t] = "done"
    /\ MainLogs("join", "Threads stopped", "cleanup")

\* Cleanup clears running, deletes the windows and calls endwin().
Cleanup ==
    /\ pc["main"] = "cleanup"
    /\ running' = FALSE
    /\ Log("Started UI cleanup procedure")
    /\ Goto("main", "delmsg")
    /\ UNCHANGED <<messageVars, m_stopping, m_exitReason>>

LeaveUI == \/ MainLogs("delmsg", "Deleted msg win", "delinput")
           \/ MainLogs("delinput", "Deleted input win", "endwin")
           \/ MainLogs("endwin", "Called endwin()", "cleaned")
           \/ MainLogs("cleaned", "UI cleanup procedure completed", "report")

\* Without a reason the log is not written.
Report ==
    /\ pc["main"] = "report"
    /\ IF m_exitReason = "None" THEN Goto("main", "done") /\ UNCHANGED logVars
       ELSE Goto("main", "dump") /\ Log("Client exited")
    /\ UNCHANGED <<messageVars, stateVars>>

DumpLog ==
    /\ pc["main"] = "dump"
    /\ DumpToFile
    /\ Goto("main", "done")
    /\ UNCHANGED <<messageVars, stateVars>>

Main == \/ StartThreads \/ MainLogs("started", "Threads started", "join")
        \/ ThreadsStopped \/ Cleanup \/ LeaveUI \/ Report \/ DumpLog
-----------------------------------------------------------------------------
(* The specification.                                                      *)

Next ==
    \/ Main \/ LeaveClientLoop
    \/ HandleBroadcast \/ ReceiveMessage \/ PushMessage \/ PushToQueue
    \/ UnreadablePacket \/ NothingReceived \/ UsernameTaken
    \/ UIUpdateLoop \/ PrintBufferedMessages \/ PrintThrows
    \/ \E t \in Workers : Stop(t)

Spec == Init /\ [][Next]_vars
-----------------------------------------------------------------------------
(* Properties.                                                             *)

Labels == {"unborn", "while", "recv", "push", "pushing", "nothing", "call", "print",
           "stop", "stopping", "closing", "starting", "started", "join", "cleanup",
           "delmsg", "delinput", "endwin", "cleaned", "report", "dump", "done"}
LogEntries == {"UI Initialized", "Client started", "Initializing threads", "Threads started",
               "Decryption failed", "Server closed the connection", "Exception in thread",
               "Stop called", "Session closed", "Threads stopped",
               "Started UI cleanup procedure", "Deleted msg win", "Deleted input win",
               "Called endwin()", "UI cleanup procedure completed", "Client exited"}

TypeOK ==
    /\ received \in Seq(Messages) /\ msg \in Seq(Messages)
    /\ m_msgQueue \in Seq(Messages) /\ screen \in Seq(Messages \ {"badtext"})
    /\ running \in BOOLEAN /\ m_stopping \in BOOLEAN
    /\ m_exitReason \in {"None", "Server closed connection.", "Username is already taken"}
    /\ pc \in [Workers \cup {"main"} -> Labels]
    /\ m_logQueue \in Seq(LogEntries) /\ Len(m_logQueue) <= MAX_LOG_ENTRIES

\* Every message is on the screen once, in the order of arrival, or still in
\* the queue or in the hands of HandleBroadcast; nothing is lost before the
\* client begins to stop or a message cannot be shown.
MessagesInOrder ==
    /\ IsPrefix(screen, received)
    /\ (running /\ pc["ui"] \in {"while", "call", "print"})
         => received = screen \o m_msgQueue \o msg

\* The log that Start writes is complete: once it is on file nobody logs any
\* more, neither a thread that is still in Stop nor Cleanup, and its last
\* entry gives the reason for the exit.
DumpIsComplete ==
    logFile # <<>> => /\ m_logQueue = <<>>
                      /\ IsSuffix(logFile, logged)
                      /\ Last(logFile) = "Client exited"
=============================================================================
