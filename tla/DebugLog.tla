------------------------------ MODULE DebugLog ------------------------------
(***************************************************************************)
(* The class Debug: a queue of log entries with a lock around every        *)
(* operation, which the threads of a program fill and the last of them     *)
(* writes to a file.                                                       *)
(***************************************************************************)
EXTENDS Integers, Sequences, SequencesExt

CONSTANT MAX_LOG_ENTRIES

ASSUME LogAssumption == MAX_LOG_ENTRIES \in Nat \ {0}

VARIABLES m_logQueue,
          logFile,     \* what DumpToFile wrote
          logged       \* history: every entry given to Log

logVars == <<m_logQueue, logFile, logged>>

LogStart(entries) == m_logQueue = entries /\ logged = entries /\ logFile = <<>>

\* Mutants: the queue is never full, and a full queue takes nothing more.
LogWithoutLimit(entry) ==
    /\ m_logQueue' = Append(m_logQueue, entry)
    /\ logged' = Append(logged, entry)
    /\ UNCHANGED logFile
LogDropsNewest(entry) ==
    /\ m_logQueue' = IF Len(m_logQueue) >= MAX_LOG_ENTRIES THEN m_logQueue
                     ELSE Append(m_logQueue, entry)
    /\ logged' = Append(logged, entry)
    /\ UNCHANGED logFile

\* Log, and m_log: a full queue loses its oldest entry.
Log(entry) ==
    /\ m_logQueue' = Append(IF Len(m_logQueue) >= MAX_LOG_ENTRIES THEN Tail(m_logQueue)
                            ELSE m_logQueue, entry)
    /\ logged' = Append(logged, entry)
    /\ UNCHANGED logFile

\* The file may not open; the queue stays as it is then.
DumpToFile ==
    \/ UNCHANGED logVars
    \/ logFile' = logFile \o m_logQueue /\ m_logQueue' = <<>> /\ UNCHANGED logged

\* What is on file and in the queue is the newest of what was logged, in
\* order, and no entry is missing as long as they all fit: however the
\* threads take turns, the entries next to the end are the ones to be read.
LogKeepsNewest ==
    LET kept == logFile \o m_logQueue
    IN  /\ IsSuffix(kept, logged)
        /\ Len(kept) = Len(logged) \/ Len(kept) = MAX_LOG_ENTRIES
=============================================================================
