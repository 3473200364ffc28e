--------------------------- MODULE TerminalProofs ---------------------------
(***************************************************************************)
(* The messages of a client appear once and in order, and its log keeps    *)
(* the newest entries, for any number of messages and any size of the log. *)
(***************************************************************************)
EXTENDS Terminal, SequenceTheorems, TLAPS

\* A suffix, by positions.
LEMMA SuffixByPosition ==
    ASSUME NEW S, NEW s \in Seq(S), NEW t \in Seq(S)
    PROVE  IsSuffix(s, t) <=>
             /\ Len(s) <= Len(t)
             /\ \A i \in 1 .. Len(s) : s[i] = t[Len(t) - Len(s) + i]
<1> DEFINE rs == Reverse(s)
           rt == Reverse(t)
<1>1. Len(s) \in Nat /\ Len(t) \in Nat
  OBVIOUS
<1>2. /\ rs \in Seq(S) /\ Len(rs) = Len(s) /\ \A i \in 1 .. Len(s) : rs[i] = s[Len(s) - i + 1]
      /\ rt \in Seq(S) /\ Len(rt) = Len(t) /\ \A i \in 1 .. Len(t) : rt[i] = t[Len(t) - i + 1]
  BY <1>1 DEF Reverse
<1> HIDE DEF rs, rt
<1>3. IsSuffix(s, t) <=> Len(s) <= Len(t) /\ SubSeq(rs, 1, Len(s)) = SubSeq(rt, 1, Len(s))
  BY <1>2 DEF IsSuffix, IsPrefix, rs, rt
<1>4. ASSUME Len(s) <= Len(t)
      PROVE  /\ SubSeq(rs, 1, Len(s)) = [i \in 1 .. Len(s) |-> rs[i]]
             /\ SubSeq(rt, 1, Len(s)) = [i \in 1 .. Len(s) |-> rt[i]]
  BY <1>1, <1>2, <1>4
<1>5. ASSUME Len(s) <= Len(t)
      PROVE  (SubSeq(rs, 1, Len(s)) = SubSeq(rt, 1, Len(s)))
               <=> \A i \in 1 .. Len(s) : s[Len(s) - i + 1] = t[Len(t) - i + 1]
  <2>1. (SubSeq(rs, 1, Len(s)) = SubSeq(rt, 1, Len(s))) <=> \A i \in 1 .. Len(s) : rs[i] = rt[i]
    BY <1>4, <1>5
  <2>2. \A i \in 1 .. Len(s) : rs[i] = s[Len(s) - i + 1] /\ rt[i] = t[Len(t) - i + 1]
    <3>1. \A i \in 1 .. Len(s) : i \in 1 .. Len(t)
      BY <1>1, <1>5
    <3> QED  BY <1>2, <3>1
  <2>3. ASSUME \A i \in 1 .. Len(s) : rs[i] = rt[i], NEW i \in 1 .. Len(s)
        PROVE  s[Len(s) - i + 1] = t[Len(t) - i + 1]
    BY <2>2, <2>3
  <2>4. ASSUME \A i \in 1 .. Len(s) : s[Len(s) - i + 1] = t[Len(t) - i + 1],
               NEW i \in 1 .. Len(s)
        PROVE  rs[i] = rt[i]
    BY <2>2, <2>4
  <2> QED  BY <2>1, <2>3, <2>4
<1>6. ASSUME Len(s) <= Len(t)
      PROVE  (\A i \in 1 .. Len(s) : s[Len(s) - i + 1] = t[Len(t) - i + 1])
               <=> \A i \in 1 .. Len(s) : s[i] = t[Len(t) - Len(s) + i]
  <2>1. ASSUME \A i \in 1 .. Len(s) : s[Len(s) - i + 1] = t[Len(t) - i + 1], NEW j \in 1 .. Len(s)
        PROVE  s[j] = t[Len(t) - Len(s) + j]
    <3> DEFINE i == Len(s) - j + 1
    <3>1. i \in 1 .. Len(s) /\ Len(s) - i + 1 = j /\ Len(t) - i + 1 = Len(t) - Len(s) + j
      BY <1>1
    <3> HIDE DEF i
    <3> QED  BY <2>1, <3>1
  <2>2. ASSUME \A i \in 1 .. Len(s) : s[i] = t[Len(t) - Len(s) + i], NEW j \in 1 .. Len(s)
        PROVE  s[Len(s) - j + 1] = t[Len(t) - j + 1]
    <3> DEFINE i == Len(s) - j + 1
    <3>1. i \in 1 .. Len(s) /\ Len(t) - Len(s) + i = Len(t) - j + 1
      BY <1>1
    <3> HIDE DEF i
    <3>2. s[i] = t[Len(t) - Len(s) + i]
      BY <2>2, <3>1
    <3> QED  BY <3>1, <3>2 DEF i
  <2> QED  BY <2>1, <2>2
<1> QED  BY <1>3, <1>5, <1>6

\* Log keeps the suffix, and one entry more of it until the queue is full.
LEMMA SuffixAppend ==
    ASSUME NEW S, NEW s \in Seq(S), NEW t \in Seq(S), NEW e \in S, IsSuffix(s, t)
    PROVE  /\ IsSuffix(Append(s, e), Append(t, e))
           /\ s # <<>> => IsSuffix(Append(Tail(s), e), Append(t, e))
<1>1. /\ Len(s) \in Nat /\ Len(t) \in Nat /\ Len(s) <= Len(t)
      /\ \A i \in 1 .. Len(s) : s[i] = t[Len(t) - Len(s) + i]
  BY SuffixByPosition
<1> DEFINE u == Append(t, e)
<1>2. /\ u \in Seq(S) /\ Len(u) = Len(t) + 1 /\ u[Len(t) + 1] = e
      /\ \A i \in 1 .. Len(t) : u[i] = t[i]
  BY <1>1, AppendProperties
<1>3. ASSUME NEW q \in Seq(S), Len(q) <= Len(s), NEW d \in Nat, d = Len(t) - Len(q),
             \A i \in 1 .. Len(q) : q[i] = t[d + i]
      PROVE  IsSuffix(Append(q, e), u)
  <2> DEFINE a == Append(q, e)
  <2>1. /\ a \in Seq(S) /\ Len(a) = Len(q) + 1 /\ a[Len(q) + 1] = e
        /\ \A i \in 1 .. Len(q) : a[i] = q[i]
    BY AppendProperties
  <2> HIDE DEF a, u
  <2>2. Len(q) \in Nat
    OBVIOUS
  <2>3. \A i \in 1 .. Len(a) : a[i] = u[Len(u) - Len(a) + i]
    <3> SUFFICES ASSUME NEW i \in 1 .. Len(a) PROVE a[i] = u[Len(u) - Len(a) + i]
      OBVIOUS
    <3>1. Len(u) - Len(a) + i = d + i
      BY <1>1, <1>2, <1>3, <2>1, <2>2
    <3>2. CASE i = Len(q) + 1
      BY <1>1, <1>2, <1>3, <2>1, <2>2, <3>1, <3>2
    <3>3. CASE i # Len(q) + 1
      <4>1. i \in 1 .. Len(q) /\ d + i \in 1 .. Len(t)
        BY <1>1, <1>3, <2>1, <2>2, <3>3
      <4> QED  BY <1>2, <1>3, <2>1, <3>1, <4>1
    <3> QED  BY <3>2, <3>3
  <2>4. Len(a) <= Len(u)
    BY <1>1, <1>2, <1>3, <2>1, <2>2
  <2> QED  BY <1>2, <2>1, <2>3, <2>4, SuffixByPosition DEF a
<1> HIDE DEF u
<1>4. IsSuffix(Append(s, e), u)
  <2> DEFINE d == Len(t) - Len(s)
  <2>1. d \in Nat /\ \A i \in 1 .. Len(s) : s[i] = t[d + i]
    BY <1>1
  <2>2. d = Len(t) - Len(s) /\ Len(s) <= Len(s)
    BY <1>1
  <2> HIDE DEF d
  <2> QED  BY <1>3, <2>1, <2>2
<1>5. ASSUME s # <<>> PROVE IsSuffix(Append(Tail(s), e), u)
  <2> DEFINE q == Tail(s)
  <2>1. /\ q \in Seq(S) /\ Len(q) = Len(s) - 1 /\ Len(q) \in Nat
        /\ \A i \in 1 .. Len(q) : q[i] = s[i + 1]
    BY <1>5, HeadTailProperties
  <2> HIDE DEF q
  <2>2. Len(t) - Len(q) \in Nat
    BY <1>1, <2>1
  <2>3. \A i \in 1 .. Len(q) : q[i] = t[(Len(t) - Len(q)) + i]
    <3> SUFFICES ASSUME NEW i \in 1 .. Len(q) PROVE q[i] = t[(Len(t) - Len(q)) + i]
      OBVIOUS
    <3>1. i + 1 \in 1 .. Len(s) /\ Len(t) - Len(s) + (i + 1) = (Len(t) - Len(q)) + i
      BY <1>1, <2>1
    <3> QED  BY <1>1, <2>1, <3>1
  <2>4. Len(q) <= Len(s)
    BY <1>1, <2>1
  <2> QED  BY <1>3, <2>1, <2>2, <2>3, <2>4 DEF q
<1> QED  BY <1>4, <1>5 DEF u

\* A prefix, by positions.
LEMMA PrefixByPosition ==
    ASSUME NEW S, NEW s \in Seq(S), NEW t \in Seq(S)
    PROVE  IsPrefix(s, t) <=> /\ Len(s) <= Len(t)
                              /\ \A i \in 1 .. Len(s) : s[i] = t[i]
<1>1. Len(s) \in Nat /\ Len(t) \in Nat
  OBVIOUS
<1>2. ASSUME Len(s) <= Len(t)
      PROVE  /\ SubSeq(s, 1, Len(s)) = [i \in 1 .. Len(s) |-> s[i]]
             /\ SubSeq(t, 1, Len(s)) = [i \in 1 .. Len(s) |-> t[i]]
  BY <1>1, <1>2
<1>3. ASSUME Len(s) <= Len(t)
      PROVE  (SubSeq(s, 1, Len(s)) = SubSeq(t, 1, Len(s))) <=> \A i \in 1 .. Len(s) : s[i] = t[i]
  BY <1>2, <1>3
<1> QED  BY <1>3 DEF IsPrefix

LEMMA PrefixOfConcat ==
    ASSUME NEW S, NEW s \in Seq(S), NEW t \in Seq(S)
    PROVE  IsPrefix(s, s \o t)
<1> DEFINE u == s \o t
<1>1. /\ u \in Seq(S) /\ Len(u) = Len(s) + Len(t)
      /\ Len(s) \in Nat /\ Len(t) \in Nat
      /\ \A i \in 1 .. Len(s) : u[i] = s[i]
  BY ConcatProperties
<1> HIDE DEF u
<1>2. IsPrefix(s, u)
  BY <1>1, PrefixByPosition
<1> QED  BY <1>2 DEF u

LEMMA PrefixAppend ==
    ASSUME NEW S, NEW s \in Seq(S), NEW t \in Seq(S), NEW e \in S, IsPrefix(s, t)
    PROVE  IsPrefix(s, Append(t, e))
<1>1. Len(s) <= Len(t) /\ \A i \in 1 .. Len(s) : s[i] = t[i]
  BY PrefixByPosition
<1> DEFINE u == Append(t, e)
<1>2. /\ u \in Seq(S) /\ Len(u) = Len(t) + 1
      /\ \A i \in 1 .. Len(t) : u[i] = t[i]
      /\ Len(s) \in Nat /\ Len(t) \in Nat
  BY AppendProperties
<1> HIDE DEF u
<1>3. IsPrefix(s, u)
  BY <1>1, <1>2, PrefixByPosition
<1> QED  BY <1>3 DEF u
-----------------------------------------------------------------------------
(* The messages.                                                           *)

\* UIUpdateLoop is in its loop, and HandleBroadcast has a packet before it.
Showing   == {"while", "call", "print"}
Receiving == {"recv", "push", "pushing"}

\* Before the threads run nothing is received, and only HandleBroadcast
\* between RecvDecrypted and PushMessage holds a message.
Hands ==
    /\ pc["net"] \notin {"push", "pushing"} => msg = <<>>
    /\ pc["main"] = "starting" =>
         /\ \A t \in Workers : pc[t] = "unborn"
         /\ received = <<>> /\ screen = <<>> /\ m_msgQueue = <<>>

MessageTypes ==
    /\ received \in Seq(Messages) /\ msg \in Seq(Messages)
    /\ m_msgQueue \in Seq(Messages) /\ screen \in Seq(Messages \ {"badtext"})
    /\ running \in BOOLEAN
    /\ pc \in [Workers \cup {"main"} -> Labels]

\* What is not on the screen is in the queue or in the hands of
\* HandleBroadcast.  A message that PushMessage drops is the last one, since
\* running is cleared, and no packet is read after it.
Waiting ==
    \/ received = screen \o m_msgQueue \o msg
    \/ /\ ~running /\ pc["net"] \notin Receiving
       /\ msg = <<>> /\ IsPrefix(screen \o m_msgQueue, received)

MessageInv ==
    /\ MessageTypes /\ Hands
    /\ IsPrefix(screen, received)
    /\ pc["ui"] \in Showing => Waiting

LEMMA WaitingInOrder == MessageInv => MessagesInOrder
<1>1. ASSUME running, Waiting PROVE received = screen \o m_msgQueue \o msg
  BY <1>1 DEF Waiting
<1> QED  BY <1>1 DEF MessageInv, MessagesInOrder, Showing

\* A thread goes on in a part of the program that leaves the messages alone;
\* running is at most cleared.
LEMMA MessagesUnmoved ==
    ASSUME MessageInv, UNCHANGED messageVars,
           running' = FALSE \/ running' = running,
           NEW t \in Workers \cup {"main"}, NEW l \in Labels \ {"starting", "push", "pushing"},
           Goto(t, l), pc[t] \notin {"push", "pushing", "unborn"},
           l \in Showing => t # "ui" \/ pc[t] \in Showing,
           l = "recv" => running /\ running'
    PROVE  MessageInv'
<1>1. /\ pc \in [Workers \cup {"main"} -> Labels] /\ pc' = [pc EXCEPT ![t] = l]
      /\ pc["main"] = "starting" => \A w \in Workers : pc[w] = "unborn"
  BY DEF MessageInv, MessageTypes, Hands, Goto
<1>2. /\ pc' \in [Workers \cup {"main"} -> Labels]
      /\ pc'["ui"] \in Showing => pc["ui"] \in Showing
      /\ pc'["net"] \notin {"push", "pushing"} => pc["net"] \notin {"push", "pushing"}
      /\ pc'["net"] \in Receiving => pc["net"] \in Receiving \/ (running /\ running')
  BY <1>1 DEF Workers, Receiving
<1>3. ASSUME pc'["main"] = "starting"
      PROVE  pc["main"] = "starting" /\ \A w \in Workers : pc'[w] = "unborn"
  <2>1. t # "main" /\ pc["main"] = "starting"
    BY <1>1, <1>3
  <2>2. t \in Workers /\ pc[t] = "unborn"
    BY <1>1, <2>1
  <2> QED  BY <2>2
<1>4. MessageTypes' /\ Hands'
  BY <1>2, <1>3 DEF MessageInv, MessageTypes, Hands, messageVars
<1>5. Waiting => Waiting'
  BY <1>2 DEF Waiting, messageVars, MessageInv, MessageTypes
<1> QED  BY <1>2, <1>4, <1>5 DEF MessageInv, messageVars

\* The calls that only test, log or stop.
LEMMA OthersKeepMessages ==
    ASSUME MessageInv,
           \/ Main \/ LeaveClientLoop \/ HandleBroadcast \/ UIUpdateLoop
           \/ UnreadablePacket \/ NothingReceived \/ UsernameTaken
           \/ \E t \in Workers : Stop(t)
    PROVE  MessageInv'
<1> USE DEF Goto, stateVars
<1>0. /\ pc \in [Workers \cup {"main"} -> Labels] /\ running \in BOOLEAN
      /\ pc["net"] \notin {"push", "pushing"} => msg = <<>>
      /\ pc["main"] = "starting" => \A t \in Workers : pc[t] = "unborn"
  BY DEF MessageInv, MessageTypes, Hands
<1>1. CASE StartThreads
  <2>1. /\ pc["main"] = "starting" /\ UNCHANGED <<messageVars, running>>
        /\ pc' = [t \in DOMAIN pc |-> IF t = "main" THEN "started" ELSE "while"]
    BY <1>1 DEF StartThreads
  <2>2. received = <<>> /\ screen = <<>> /\ m_msgQueue = <<>> /\ msg = <<>>
    BY <2>1 DEF MessageInv, Hands, Workers
  <2>3. received = screen \o m_msgQueue \o msg
    BY <2>2
  <2>4. Waiting'
    BY <2>1, <2>3 DEF Waiting, messageVars
  <2> QED  BY <1>0, <2>1, <2>2, <2>4
           DEF MessageInv, MessageTypes, Hands, messageVars, Workers, Labels
<1>2. ASSUME NEW at \in Labels \ {"push", "pushing", "unborn"}, NEW entry,
             NEW next \in Labels \ ({"starting", "push", "pushing", "recv"} \cup Showing),
             MainLogs(at, entry, next)
      PROVE  MessageInv'
  <2>1. /\ pc["main"] = at /\ Goto("main", next) /\ UNCHANGED <<messageVars, running>>
    BY <1>2 DEF MainLogs
  <2> HIDE DEF Goto
  <2> QED  BY <1>0, <2>1, MessagesUnmoved
<1>3. CASE Cleanup \/ Report \/ DumpLog
  <2>1. PICK l \in {"delmsg", "done", "dump"} : Goto("main", l)
    BY <1>3 DEF Cleanup, Report, DumpLog
  <2>2. /\ pc["main"] \in {"cleanup", "report", "dump"} /\ UNCHANGED messageVars
        /\ running' = FALSE \/ running' = running
    BY <1>3 DEF Cleanup, Report, DumpLog
  <2> HIDE DEF Goto
  <2>3. l \in Labels \ {"starting", "push", "pushing", "recv"} /\ l \notin Showing
    BY DEF Labels, Showing
  <2> QED  BY <2>1, <2>2, <2>3, MessagesUnmoved
<1>4. CASE LeaveClientLoop \/ UnreadablePacket \/ NothingReceived \/ UsernameTaken
  <2>1. PICK t \in Workers, l \in {"stop", "nothing"} :
            Goto(t, l) /\ pc[t] \in {"while", "recv", "nothing"}
    BY <1>4 DEF LeaveClientLoop, UnreadablePacket, NothingReceived, UsernameTaken, Workers
  <2>2. UNCHANGED messageVars /\ running' = running
    BY <1>4 DEF LeaveClientLoop, UnreadablePacket, NothingReceived, UsernameTaken
  <2> HIDE DEF Goto
  <2>3. l \in Labels \ {"starting", "push", "pushing", "recv"} /\ l \notin Showing
    BY DEF Labels, Showing
  <2> QED  BY <2>1, <2>2, <2>3, MessagesUnmoved
<1>5. CASE HandleBroadcast \/ UIUpdateLoop
  <2>1. PICK t \in {"net", "ui"}, at \in {"while", "call"},
             l \in {"recv", "stop", "call", "print", "while"} :
            /\ Goto(t, l) /\ pc[t] = at
            /\ l = "recv" => running
            /\ UNCHANGED <<messageVars, running>>
    BY <1>5 DEF HandleBroadcast, UIUpdateLoop, TestRunning
  <2> HIDE DEF Goto
  <2>2. l \in Labels \ {"starting", "push", "pushing"} /\ pc[t] \in Showing
    BY <2>1 DEF Labels, Showing
  <2> QED  BY <2>1, <2>2, MessagesUnmoved DEF Workers
<1>6. ASSUME NEW t \in Workers, Stop(t) PROVE MessageInv'
  <2>1. PICK l \in {"stopping", "closing", "done"} : Goto(t, l)
    BY <1>6 DEF Stop, StopCalled, StopFlags, SessionClosed
  <2>2. /\ pc[t] \in {"stop", "stopping", "closing"} /\ UNCHANGED messageVars
        /\ running' = FALSE \/ running' = running
    BY <1>6 DEF Stop, StopCalled, StopFlags, SessionClosed
  <2> HIDE DEF Goto
  <2>3. l \in Labels \ {"starting", "push", "pushing", "recv"} /\ l \notin Showing
    BY DEF Labels, Showing
  <2> QED  BY <2>1, <2>2, <2>3, MessagesUnmoved
<1>7. CASE ThreadsStopped
  BY <1>2, <1>7 DEF ThreadsStopped, Labels, Showing
<1>8. CASE LeaveUI \/ MainLogs("started", "Threads started", "join")
  BY <1>2, <1>8 DEF LeaveUI, Labels, Showing
<1> QED  BY <1>1, <1>3, <1>4, <1>5, <1>6, <1>7, <1>8 DEF Main

\* The messages on their way from the socket to the screen.
LEMMA MessagesMove ==
    ASSUME MessageInv,
           \/ ReceiveMessage \/ PushMessage \/ PushToQueue
           \/ PrintBufferedMessages \/ PrintThrows
    PROVE  MessageInv'
<1> USE DEF Goto, stateVars, MessageTypes
<1>0. /\ MessageTypes /\ Hands
      /\ IsPrefix(screen, received)
      /\ pc["ui"] \in Showing => Waiting
  BY DEF MessageInv
<1>a. /\ screen \in Seq(Messages)
      /\ screen \o m_msgQueue \in Seq(Messages)
  <2>1. screen \in Seq(Messages)
    BY <1>0 DEF Messages
  <2> QED  BY <1>0, <2>1, ConcatProperties
<1>b. ASSUME pc["net"] \in Receiving, pc["ui"] \in Showing
      PROVE  received = screen \o m_msgQueue \o msg
  BY <1>0, <1>b DEF Waiting
<1>1. CASE ReceiveMessage
  <2>1. PICK m \in Messages : msg' = <<m>> /\ received' = Append(received, m)
    BY <1>1 DEF ReceiveMessage
  <2>2. /\ pc["net"] = "recv" /\ pc' = [pc EXCEPT !["net"] = "push"]
        /\ UNCHANGED <<m_msgQueue, screen, running>>
    BY <1>1 DEF ReceiveMessage
  <2>3. MessageTypes' /\ Hands'
    BY <1>0, <2>1, <2>2 DEF Hands, Workers, Labels
  <2>4. IsPrefix(screen, received)'
    BY <1>0, <1>a, <2>1, <2>2, PrefixAppend
  <2>5. ASSUME pc["ui"] \in Showing
        PROVE  received' = screen \o m_msgQueue \o msg'
    <3> DEFINE q == screen \o m_msgQueue
    <3>1. q \in Seq(Messages)
      BY <1>a
    <3>2. received = q \o <<>>
      BY <1>0, <1>b, <2>2, <2>5 DEF Hands, Receiving
    <3> HIDE DEF q
    <3>3. received = q
      BY <3>1, <3>2, ConcatEmptySeq
    <3>4. Append(q, m) = q \o <<m>>
      BY <3>1, AppendIsConcat
    <3> QED  BY <2>1, <3>3, <3>4 DEF q
  <2> QED  BY <1>0, <2>2, <2>3, <2>4, <2>5 DEF MessageInv, Waiting, Workers
<1>2. CASE PushMessage
  <2>1. /\ pc["net"] = "push" /\ UNCHANGED <<received, m_msgQueue, screen, running>>
        /\ \/ running /\ pc' = [pc EXCEPT !["net"] = "pushing"] /\ UNCHANGED msg
           \/ ~running /\ pc' = [pc EXCEPT !["net"] = "while"] /\ msg' = <<>>
    BY <1>2 DEF PushMessage
  <2>2. MessageTypes' /\ Hands'
    <3>1. pc' \in [Workers \cup {"main"} -> Labels]
      BY <1>0, <2>1 DEF Labels
    <3>2. msg' \in Seq(Messages)
      BY <1>0, <2>1, EmptySeq
    <3>3. pc'["net"] \notin {"push", "pushing"} => msg' = <<>>
      BY <1>0, <2>1 DEF Workers
    <3>4. pc["main"] # "starting" /\ pc'["main"] # "starting"
      BY <1>0, <2>1 DEF Hands, Workers
    <3> QED  BY <1>0, <2>1, <3>1, <3>2, <3>3, <3>4 DEF Hands
  <2>3. pc'["ui"] = pc["ui"]
    BY <1>0, <2>1 DEF Workers
  <2>4. ASSUME pc["ui"] \in Showing PROVE Waiting'
    <3>1. received = screen \o m_msgQueue \o msg
      BY <1>b, <2>1, <2>4 DEF Receiving
    <3>2. CASE running
      BY <2>1, <3>1, <3>2 DEF Waiting
    <3>3. CASE ~running
      <4>1. msg' = <<>> /\ ~running' /\ pc'["net"] \notin Receiving
        BY <1>0, <2>1, <3>3 DEF Receiving, Workers
      <4>2. IsPrefix(screen \o m_msgQueue, received)
        BY <1>0, <1>a, <3>1, PrefixOfConcat
      <4> QED  BY <2>1, <4>1, <4>2 DEF Waiting
    <3> QED  BY <3>2, <3>3
  <2> QED  BY <1>0, <2>1, <2>2, <2>3, <2>4 DEF MessageInv
<1>3. CASE PushToQueue
  <2>1. /\ pc["net"] = "pushing" /\ pc' = [pc EXCEPT !["net"] = "while"]
        /\ m_msgQueue' = m_msgQueue \o msg
        /\ msg' = <<>> /\ UNCHANGED <<received, screen, running>>
    BY <1>3 DEF PushToQueue
  <2>2. m_msgQueue \o msg \in Seq(Messages)
    BY <1>0, ConcatProperties
  <2>3. MessageTypes' /\ Hands'
    BY <1>0, <2>1, <2>2 DEF Hands, Workers, Labels
  <2>4. ASSUME pc["ui"] \in Showing
        PROVE  received' = screen' \o m_msgQueue' \o msg'
    <3>1. received = screen \o m_msgQueue \o msg
      BY <1>b, <2>1, <2>4 DEF Receiving
    <3>2. screen \o m_msgQueue \o msg = screen \o (m_msgQueue \o msg)
      BY <1>0, <1>a, ConcatAssociative
    <3> DEFINE q == screen \o (m_msgQueue \o msg)
    <3>3. q \in Seq(Messages)
      BY <1>a, <2>2, ConcatProperties
    <3> HIDE DEF q
    <3>4. q \o <<>> = q
      BY <3>3, ConcatEmptySeq
    <3> QED  BY <2>1, <3>1, <3>2, <3>4 DEF q
  <2> QED  BY <1>0, <2>1, <2>3, <2>4 DEF MessageInv, Waiting, Workers
<1>4. CASE PrintBufferedMessages
  <2>1. /\ pc["ui"] = "print" /\ "badtext" \notin Range(m_msgQueue)
        /\ screen' = screen \o m_msgQueue /\ m_msgQueue' = <<>>
        /\ UNCHANGED <<received, msg, running>>
        /\ pc' = [pc EXCEPT !["ui"] = "while"]
    BY <1>4 DEF PrintBufferedMessages
  <2>2. m_msgQueue \in Seq(Messages \ {"badtext"})
    BY <1>0, <2>1 DEF Range
  <2> DEFINE q == screen \o m_msgQueue
  <2>3. q \in Seq(Messages \ {"badtext"}) /\ q \in Seq(Messages)
    BY <1>0, <1>a, <2>2, ConcatProperties
  <2>4. /\ screen' = q /\ pc'["net"] = pc["net"]
        /\ \/ received = q \o msg
           \/ /\ ~running /\ pc["net"] \notin Receiving
              /\ msg = <<>> /\ IsPrefix(q, received)
    BY <1>0, <2>1 DEF Waiting, Showing, Workers
  <2> HIDE DEF q
  <2>5. MessageTypes' /\ Hands'
    <3>1. pc' \in [Workers \cup {"main"} -> Labels]
      BY <1>0, <2>1 DEF Labels
    <3>2. m_msgQueue' \in Seq(Messages)
      BY <2>1, EmptySeq
    <3>3. pc["main"] # "starting" /\ pc'["main"] # "starting"
      BY <1>0, <2>1 DEF Hands, Workers
    <3>4. pc'["net"] \notin {"push", "pushing"} => msg' = <<>>
      BY <1>0, <2>1, <2>4 DEF Hands
    <3>5. screen' \in Seq(Messages \ {"badtext"})
      BY <2>3, <2>4
    <3>6. /\ received \in Seq(Messages) /\ msg \in Seq(Messages) /\ running \in BOOLEAN
          /\ UNCHANGED <<received, msg, running>>
      BY <1>0, <2>1
    <3> QED  BY <3>1, <3>2, <3>3, <3>4, <3>5, <3>6 DEF Hands
  <2>6. IsPrefix(screen, received)'
    <3>1. msg \in Seq(Messages) /\ received' = received
      BY <1>0, <2>1
    <3>2. IsPrefix(q, q \o msg)
      BY <2>3, <3>1, PrefixOfConcat
    <3> QED  BY <2>4, <3>1, <3>2
  <2>7. q \o <<>> = q
    BY <2>3, ConcatEmptySeq
  <2>8. Waiting'
    BY <2>1, <2>4, <2>7 DEF Waiting
  <2> QED  BY <2>5, <2>6, <2>8 DEF MessageInv
<1>5. CASE PrintThrows
  <2>1. /\ pc' = [pc EXCEPT !["ui"] = "stop"] /\ pc["ui"] = "print"
        /\ UNCHANGED <<received, msg, screen, running>>
    BY <1>5 DEF PrintThrows
  <2>2. PICK i \in 1 .. Len(m_msgQueue) :
            m_msgQueue' = SubSeq(m_msgQueue, i + 1, Len(m_msgQueue))
    BY <1>5 DEF PrintThrows
  <2>3. m_msgQueue' \in Seq(Messages)
    BY <1>0, <2>2, SubSeqProperties
  <2>4. MessageTypes' /\ Hands' /\ pc'["ui"] \notin Showing
    BY <1>0, <2>1, <2>3 DEF Hands, Workers, Labels, Showing
  <2> QED  BY <1>0, <2>1, <2>4 DEF MessageInv
<1> QED  BY <1>1, <1>2, <1>3, <1>4, <1>5

LEMMA MessageInvHolds == Spec => []MessageInv
<1>1. Init => MessageInv
  <2> SUFFICES ASSUME Init PROVE MessageInv
    OBVIOUS
  <2>1. MessageTypes /\ Hands
    BY EmptySeq DEF Init, MessageTypes, Hands, Workers, Labels
  <2>2. IsPrefix(<<>>, <<>>)
    BY DEF IsPrefix
  <2>3. pc["ui"] \notin Showing /\ screen = <<>> /\ received = <<>>
    BY DEF Init, Workers, Showing
  <2> QED  BY <2>1, <2>2, <2>3 DEF MessageInv
<1>2. MessageInv /\ [Next]_vars => MessageInv'
  <2> SUFFICES ASSUME MessageInv, [Next]_vars PROVE MessageInv'
    OBVIOUS
  <2>1. CASE UNCHANGED vars
    BY <2>1 DEF vars, messageVars, stateVars, MessageInv, MessageTypes, Hands, Waiting
  <2> QED  BY <2>1, OthersKeepMessages, MessagesMove DEF Next
<1> QED  BY <1>1, <1>2, PTL DEF Spec

\* The screen shows what was received, in order and once; and as long as the
\* client runs, what is not shown yet waits in the queue or in HandleBroadcast.
THEOREM MessagesStayInOrder == Spec => []MessagesInOrder
<1> QED  BY WaitingInOrder, MessageInvHolds, PTL
-----------------------------------------------------------------------------
(* The log.                                                                *)

\* The threads have ended in this part of Start.
Ending == {"cleanup", "delmsg", "delinput", "endwin", "cleaned", "report", "dump", "done"}

LogTypes ==
    /\ m_logQueue \in Seq(LogEntries) /\ logged \in Seq(LogEntries) /\ logFile \in Seq(LogEntries)
    /\ Len(m_logQueue) <= MAX_LOG_ENTRIES

\* Nobody but the main thread is left to log when the file is written, and
\* the main thread has just logged the reason for the exit.
LogIsOver ==
    /\ pc \in [Workers \cup {"main"} -> Labels]
    /\ pc["main"] \in Ending => \A t \in Workers : pc[t] = "done"
    /\ logFile # <<>> => pc["main"] = "done"
    /\ pc["main"] = "dump" => m_logQueue # <<>> /\ Last(m_logQueue) = "Client exited"

LogInv == LogTypes /\ LogIsOver /\ LogKeepsNewest /\ DumpIsComplete

\* Before the file is written, what is kept is the queue.
LEMMA KeptIsQueue ==
    ASSUME LogTypes, logFile = <<>>
    PROVE  LogKeepsNewest <=> /\ IsSuffix(m_logQueue, logged)
                              /\ \/ Len(m_logQueue) = Len(logged)
                                 \/ Len(m_logQueue) = MAX_LOG_ENTRIES
<1>1. <<>> \o m_logQueue = m_logQueue
  BY ConcatEmptySeq DEF LogTypes
<1> QED  BY <1>1 DEF LogKeepsNewest

\* One call of Log.
LEMMA LogOne ==
    ASSUME LogTypes, LogKeepsNewest, logFile = <<>>, NEW e \in LogEntries, Log(e)
    PROVE  /\ LogTypes' /\ LogKeepsNewest' /\ logFile' = <<>>
           /\ m_logQueue' # <<>> /\ Last(m_logQueue') = e
<1>1. /\ m_logQueue \in Seq(LogEntries) /\ logged \in Seq(LogEntries)
      /\ Len(m_logQueue) \in Nat /\ Len(logged) \in Nat
      /\ Len(m_logQueue) <= MAX_LOG_ENTRIES
      /\ MAX_LOG_ENTRIES \in Nat \ {0}
  BY LogAssumption DEF LogTypes
<1>2. /\ IsSuffix(m_logQueue, logged)
      /\ Len(m_logQueue) = Len(logged) \/ Len(m_logQueue) = MAX_LOG_ENTRIES
  BY KeptIsQueue
<1>3. logged' = Append(logged, e) /\ logFile' = <<>>
  BY DEF Log
<1>4. logged' \in Seq(LogEntries) /\ Len(logged') = Len(logged) + 1
  BY <1>1, <1>3, AppendProperties
<1>5. \E q \in Seq(LogEntries) :
        /\ m_logQueue' = Append(q, e) /\ Len(q) < MAX_LOG_ENTRIES
        /\ IsSuffix(Append(q, e), logged')
        /\ Len(q) = Len(logged) \/ Len(q) + 1 = MAX_LOG_ENTRIES
  <2>1. CASE Len(m_logQueue) >= MAX_LOG_ENTRIES
    <3> DEFINE r == Tail(m_logQueue)
    <3>1. m_logQueue # <<>>
      BY <1>1, <2>1, EmptySeq
    <3>2. r \in Seq(LogEntries) /\ Len(r) = Len(m_logQueue) - 1
      BY <1>1, <3>1, HeadTailProperties
    <3>3. m_logQueue' = Append(r, e)
      BY <2>1 DEF Log
    <3>4. IsSuffix(Append(r, e), logged')
      BY <1>1, <1>2, <1>3, <3>1, SuffixAppend
    <3> HIDE DEF r
    <3>5. Len(m_logQueue) = MAX_LOG_ENTRIES
      BY <1>1, <2>1
    <3>6. Len(r) < MAX_LOG_ENTRIES /\ Len(r) + 1 = MAX_LOG_ENTRIES
      BY <1>1, <3>2, <3>5
    <3> QED  BY <3>2, <3>3, <3>4, <3>6
  <2>2. CASE ~ (Len(m_logQueue) >= MAX_LOG_ENTRIES)
    <3>1. m_logQueue' = Append(m_logQueue, e)
      BY <2>2 DEF Log
    <3>2. IsSuffix(Append(m_logQueue, e), logged')
      BY <1>1, <1>2, <1>3, SuffixAppend
    <3>3. Len(m_logQueue) < MAX_LOG_ENTRIES /\ Len(m_logQueue) = Len(logged)
      BY <1>1, <1>2, <2>2
    <3> QED  BY <1>1, <3>1, <3>2, <3>3
  <2> QED  BY <2>1, <2>2
<1>6. PICK q \in Seq(LogEntries) :
        /\ m_logQueue' = Append(q, e) /\ Len(q) < MAX_LOG_ENTRIES
        /\ IsSuffix(Append(q, e), logged')
        /\ Len(q) = Len(logged) \/ Len(q) + 1 = MAX_LOG_ENTRIES
  BY <1>5
<1> DEFINE a == Append(q, e)
<1>a. /\ a \in Seq(LogEntries) /\ Len(a) = Len(q) + 1 /\ Len(q) \in Nat
      /\ a[Len(q) + 1] = e
  <2>1. Len(q) \in Nat
    BY <1>6
  <2>2. /\ a \in Seq(LogEntries) /\ Len(a) = Len(q) + 1
        /\ a[Len(a)] = e
    BY <1>6, AppendProperties
  <2> QED  BY <2>1, <2>2
<1>b. m_logQueue' = a
  BY <1>6
<1> HIDE DEF a
<1>7. /\ m_logQueue' \in Seq(LogEntries) /\ Len(m_logQueue') = Len(q) + 1 /\ Len(q) \in Nat
      /\ m_logQueue'[Len(q) + 1] = e
  BY <1>a, <1>b
<1>8. LogTypes'
  <2>1. Len(m_logQueue') <= MAX_LOG_ENTRIES
    BY <1>1, <1>6, <1>7
  <2>2. <<>> \in Seq(LogEntries)
    BY EmptySeq
  <2> QED  BY <1>3, <1>4, <1>7, <2>1, <2>2 DEF LogTypes
<1>9. LogKeepsNewest'
  <2>1. <<>> \o m_logQueue' = m_logQueue'
    BY <1>7, ConcatEmptySeq
  <2>2. Len(m_logQueue') = Len(logged') \/ Len(m_logQueue') = MAX_LOG_ENTRIES
    BY <1>4, <1>6, <1>7
  <2> QED  BY <1>3, <1>6, <2>1, <2>2 DEF LogKeepsNewest
<1>10. m_logQueue' # <<>> /\ Last(m_logQueue') = e
  BY <1>7 DEF Last
<1> QED  BY <1>3, <1>8, <1>9, <1>10

\* A step of a thread that has not ended: it may log.
LEMMA StepLogs ==
    ASSUME LogInv, NEW t \in Workers \cup {"main"}, NEW l \in Labels, pc[t] # "done", Goto(t, l),
           UNCHANGED logVars \/ \E e \in LogEntries : Log(e),
           t = "main" => /\ pc["main"] \in Ending \/ \A w \in Workers : pc[w] = "done"
                                                  \/ l \notin Ending
                         /\ l = "dump" => Log("Client exited")
    PROVE  LogInv'
<1> USE DEF Goto
<1>1. /\ pc \in [Workers \cup {"main"} -> Labels] /\ pc' = [pc EXCEPT ![t] = l]
      /\ pc' \in [Workers \cup {"main"} -> Labels]
  BY DEF LogInv, LogIsOver
<1>2. logFile = <<>>
  <2>1. t \in Workers => pc["main"] \notin Ending
    BY DEF LogInv, LogIsOver
  <2> QED  BY <2>1 DEF LogInv, LogIsOver, Ending
<1>3. pc'["main"] \in Ending => \A w \in Workers : pc'[w] = "done"
  <2>1. CASE t = "main"
    BY <1>1, <2>1 DEF LogInv, LogIsOver, Workers
  <2>2. CASE t # "main"
    BY <1>1, <2>2 DEF LogInv, LogIsOver
  <2> QED  BY <2>1, <2>2
<1>4. LogTypes' /\ LogKeepsNewest' /\ logFile' = <<>>
  <2>1. CASE UNCHANGED logVars
    BY <1>2, <2>1 DEF LogInv, LogTypes, LogKeepsNewest, logVars
  <2>2. CASE \E e \in LogEntries : Log(e)
    BY <1>2, <2>2, LogOne DEF LogInv
  <2> QED  BY <2>1, <2>2
<1>5. pc'["main"] = "dump" => m_logQueue' # <<>> /\ Last(m_logQueue') = "Client exited"
  <2> SUFFICES ASSUME pc'["main"] = "dump"
               PROVE  m_logQueue' # <<>> /\ Last(m_logQueue') = "Client exited"
    OBVIOUS
  <2>1. t = "main" /\ l = "dump"
    <3>1. ASSUME t # "main" PROVE FALSE
      BY <1>1, <3>1 DEF LogInv, LogIsOver, Ending
    <3> QED  BY <1>1, <3>1
  <2>2. Log("Client exited")
    BY <2>1
  <2>3. "Client exited" \in LogEntries
    BY DEF LogEntries
  <2> QED  BY <1>2, <2>2, <2>3, LogOne DEF LogInv
<1> QED  BY <1>1, <1>3, <1>4, <1>5 DEF LogInv, LogIsOver, DumpIsComplete

\* Start writes the file.
LEMMA DumpLogs ==
    ASSUME LogInv, DumpLog
    PROVE  LogInv'
<1>1. /\ pc["main"] = "dump" /\ DumpToFile /\ pc' = [pc EXCEPT !["main"] = "done"]
      /\ pc \in [Workers \cup {"main"} -> Labels]
      /\ logFile = <<>> /\ m_logQueue # <<>> /\ Last(m_logQueue) = "Client exited"
      /\ \A t \in Workers : pc[t] = "done"
  BY DEF DumpLog, Goto, LogInv, LogIsOver, Ending
<1>2. /\ pc' \in [Workers \cup {"main"} -> Labels] /\ pc'["main"] = "done"
      /\ \A t \in Workers : pc'[t] = "done"
  BY <1>1 DEF Labels, Workers
<1>3. CASE UNCHANGED logVars
  BY <1>1, <1>2, <1>3 DEF logVars, LogInv, LogTypes, LogIsOver, LogKeepsNewest, DumpIsComplete
<1>4. CASE logFile' = logFile \o m_logQueue /\ m_logQueue' = <<>> /\ UNCHANGED logged
  <2>1. /\ m_logQueue \in Seq(LogEntries) /\ logged \in Seq(LogEntries)
        /\ <<>> \o m_logQueue = m_logQueue /\ m_logQueue \o <<>> = m_logQueue
    BY ConcatEmptySeq DEF LogInv, LogTypes
  <2>2. logFile' = m_logQueue /\ m_logQueue' = <<>> /\ logged' = logged
    BY <1>1, <1>4, <2>1
  <2>3. /\ IsSuffix(m_logQueue, logged)
        /\ Len(m_logQueue) = Len(logged) \/ Len(m_logQueue) = MAX_LOG_ENTRIES
    BY <1>1, KeptIsQueue DEF LogInv
  <2>4. LogTypes'
    BY <2>1, <2>2, EmptySeq, LogAssumption DEF LogTypes
  <2>5. LogKeepsNewest'
    BY <2>1, <2>2, <2>3 DEF LogKeepsNewest
  <2>6. DumpIsComplete'
    BY <1>1, <2>2, <2>3 DEF DumpIsComplete
  <2>7. LogIsOver'
    BY <1>2 DEF LogIsOver
  <2> QED  BY <2>4, <2>5, <2>6, <2>7 DEF LogInv
<1> QED  BY <1>1, <1>3, <1>4 DEF DumpToFile

\* The threads' steps that log or say nothing.
LEMMA WorkersLog ==
    ASSUME LogInv,
           \/ LeaveClientLoop \/ HandleBroadcast \/ ReceiveMessage \/ PushMessage
           \/ PushToQueue \/ UnreadablePacket \/ NothingReceived \/ UsernameTaken
           \/ UIUpdateLoop \/ PrintBufferedMessages \/ PrintThrows
           \/ \E t \in Workers : Stop(t)
    PROVE  LogInv'
<1>1. PICK t \in Workers, l \in Labels : Goto(t, l) /\ pc[t] # "done"
  BY DEF LeaveClientLoop, HandleBroadcast, ReceiveMessage, PushMessage, PushToQueue,
         UnreadablePacket, NothingReceived, UsernameTaken, UIUpdateLoop, TestRunning,
         PrintBufferedMessages, PrintThrows, Stop, StopCalled, StopFlags, SessionClosed,
         Workers, Labels
<1>2. \/ UNCHANGED logVars
      \/ Log("Decryption failed") \/ Log("Server closed the connection")
      \/ Log("Exception in thread") \/ Log("Stop called") \/ Log("Session closed")
  BY DEF LeaveClientLoop, HandleBroadcast, ReceiveMessage, PushMessage, PushToQueue,
         UnreadablePacket, NothingReceived, UsernameTaken, UIUpdateLoop, TestRunning,
         PrintBufferedMessages, PrintThrows, Stop, StopCalled, StopFlags, SessionClosed
<1>3. UNCHANGED logVars \/ \E e \in LogEntries : Log(e)
  BY <1>2 DEF LogEntries
<1>4. t \in Workers \cup {"main"} /\ t # "main"
  BY DEF Workers
<1> QED  BY <1>1, <1>3, <1>4, StepLogs

\* The main thread's steps.
LEMMA MainLogging ==
    ASSUME LogInv, Main
    PROVE  LogInv'
<1>0. pc \in [Workers \cup {"main"} -> Labels] /\ "main" \in Workers \cup {"main"}
  BY DEF LogInv, LogIsOver
<1>1. ASSUME NEW at \in Labels \ {"done"}, NEW e \in LogEntries, NEW l \in Labels \ {"dump"},
             at \in Ending \/ (\A w \in Workers : pc[w] = "done") \/ l \notin Ending,
             MainLogs(at, e, l)
      PROVE  LogInv'
  <2>1. pc["main"] = at /\ Log(e) /\ Goto("main", l)
    BY <1>1 DEF MainLogs
  <2>2. UNCHANGED logVars \/ \E x \in LogEntries : Log(x)
    BY <2>1
  <2>3. pc["main"] # "done" /\ l # "dump" /\ l \in Labels
    BY <1>1, <2>1
  <2> QED  BY <1>0, <1>1, <2>1, <2>2, <2>3, StepLogs
<1>2. CASE StartThreads
  <2>1. /\ pc["main"] = "starting" /\ Log("Initializing threads")
        /\ pc' = [t \in DOMAIN pc |-> IF t = "main" THEN "started" ELSE "while"]
    BY <1>2 DEF StartThreads
  <2>2. pc' \in [Workers \cup {"main"} -> Labels] /\ pc'["main"] = "started"
    BY <1>0, <2>1 DEF Labels
  <2>3. logFile = <<>> /\ "Initializing threads" \in LogEntries
    BY <2>1 DEF LogInv, LogIsOver, LogEntries
  <2>4. LogTypes' /\ LogKeepsNewest' /\ logFile' = <<>>
    BY <2>1, <2>3, LogOne DEF LogInv
  <2> QED  BY <2>2, <2>4 DEF LogInv, LogIsOver, DumpIsComplete, Ending
<1>3. CASE MainLogs("started", "Threads started", "join")
  BY <1>1, <1>3 DEF Labels, Ending, LogEntries
<1>4. CASE ThreadsStopped
  BY <1>1, <1>4 DEF ThreadsStopped, Labels, LogEntries
<1>5. CASE LeaveUI
  BY <1>1, <1>5 DEF LeaveUI, Labels, Ending, LogEntries
<1>6. CASE Cleanup
  <2>1. pc["main"] = "cleanup" /\ Log("Started UI cleanup procedure") /\ Goto("main", "delmsg")
    BY <1>6 DEF Cleanup
  <2>2. UNCHANGED logVars \/ \E e \in LogEntries : Log(e)
    BY <2>1 DEF LogEntries
  <2>3. "delmsg" \in Labels /\ pc["main"] \in Ending /\ pc["main"] # "done"
    BY <2>1 DEF Labels, Ending
  <2> QED  BY <1>0, <2>1, <2>2, <2>3, StepLogs
<1>7. CASE Report
  <2>1. PICK l \in {"done", "dump"} :
               /\ Goto("main", l)
               /\ UNCHANGED logVars \/ Log("Client exited")
               /\ l = "dump" => Log("Client exited")
    BY <1>7 DEF Report
  <2>2. UNCHANGED logVars \/ \E e \in LogEntries : Log(e)
    BY <2>1 DEF LogEntries
  <2>3. l \in Labels /\ pc["main"] \in Ending /\ pc["main"] # "done"
    BY <1>7 DEF Report, Labels, Ending
  <2> QED  BY <1>0, <2>1, <2>2, <2>3, StepLogs
<1>8. CASE DumpLog
  BY <1>8, DumpLogs
<1> QED  BY <1>2, <1>3, <1>4, <1>5, <1>6, <1>7, <1>8 DEF Main

\* The threads' calls, in any order, leave no gap in the log.
LEMMA LogInvHolds == Spec => []LogInv
<1>1. Init => LogInv
  <2> SUFFICES ASSUME Init PROVE LogInv
    OBVIOUS
  <2> DEFINE q == <<"UI Initialized", "Client started">>
  <2>1. /\ m_logQueue = q /\ logged = q /\ logFile = <<>>
        /\ pc = [t \in Workers \cup {"main"} |-> IF t = "main" THEN "starting" ELSE "unborn"]
    BY DEF Init, LogStart
  <2>2. q \in Seq(LogEntries) /\ Len(q) = 2
    BY DEF LogEntries
  <2> HIDE DEF q
  <2>3. IsSuffix(q, q)
    BY <2>2, SuffixByPosition
  <2>4. <<>> \in Seq(LogEntries) /\ <<>> \o q = q
    BY <2>2, EmptySeq, ConcatEmptySeq
  <2>5. LogTypes
    BY <2>1, <2>2, <2>4, TerminalAssumption, LogAssumption DEF LogTypes
  <2>6. LogKeepsNewest
    BY <2>1, <2>3, <2>4 DEF LogKeepsNewest
  <2>7. pc \in [Workers \cup {"main"} -> Labels] /\ pc["main"] = "starting"
    BY <2>1 DEF Labels
  <2> QED  BY <2>1, <2>5, <2>6, <2>7 DEF LogInv, LogIsOver, DumpIsComplete, Ending
<1>2. LogInv /\ [Next]_vars => LogInv'
  <2> SUFFICES ASSUME LogInv, [Next]_vars PROVE LogInv'
    OBVIOUS
  <2>1. CASE UNCHANGED <<logVars, pc>>
    BY <2>1 DEF logVars, LogInv, LogTypes, LogIsOver, LogKeepsNewest, DumpIsComplete
  <2>2. CASE UNCHANGED vars
    BY <2>1, <2>2 DEF vars
  <2> QED  BY <2>2, WorkersLog, MainLogging DEF Next
<1> QED  BY <1>1, <1>2, PTL DEF Spec

\* What is on file and in the queue is the end of what was logged.
THEOREM LogKeepsTheNewest == Spec => []LogKeepsNewest
<1>1. LogInv => LogKeepsNewest
  BY DEF LogInv
<1> QED  BY <1>1, LogInvHolds, PTL

\* The file that Start writes ends with the reason for the exit, and nobody
\* logs once it is written.
THEOREM DumpsAreComplete == Spec => []DumpIsComplete
<1>1. LogInv => DumpIsComplete
  BY DEF LogInv
<1> QED  BY <1>1, LogInvHolds, PTL

\* Type correctness for any number of messages and any size of the log: the
\* queue of log entries never outgrows MAX_LOG_ENTRIES, and no message that
\* is not UTF-8 reaches the screen.
THEOREM TerminalTypeCorrect == Spec => []TypeOK
<1> DEFINE StateTypes ==
             /\ m_stopping \in BOOLEAN
             /\ m_exitReason \in {"None", "Server closed connection.",
                                  "Username is already taken"}
<1>1. Init => StateTypes
  BY DEF Init
<1>2. StateTypes /\ [Next]_vars => StateTypes'
  BY DEF Next, Main, StartThreads, MainLogs, ThreadsStopped, Cleanup, LeaveUI, Report, DumpLog,
         LeaveClientLoop, HandleBroadcast, ReceiveMessage, PushMessage, PushToQueue,
         UnreadablePacket, NothingReceived, UsernameTaken, UIUpdateLoop, TestRunning,
         PrintBufferedMessages, PrintThrows, Stop, StopCalled, StopFlags, SessionClosed, vars, stateVars
<1>3. StateTypes /\ MessageInv /\ LogInv => TypeOK
  BY DEF MessageInv, MessageTypes, LogInv, LogTypes, TypeOK
<1> HIDE DEF StateTypes
<1> QED  BY <1>1, <1>2, <1>3, MessageInvHolds, LogInvHolds, PTL DEF Spec
=============================================================================
