--------------------------- MODULE ChatRoomProofs ---------------------------
(***************************************************************************)
(* What follows from the promise of the server, for any number of seats    *)
(* and names and any length of the conversation: members agree on the      *)
(* order of what they receive, and on who is there.                        *)
(***************************************************************************)
EXTENDS ChatRoom, SequenceTheorems, TLAPS

Feeds == Seq(Messages(Names))

\* The two feeds have the same messages, counted back from the latest.
Agree(q, r) ==
    \A k \in 0 .. Len(q) - 1 : k < Len(r) => FromEnd(q, k) = FromEnd(r, k)

LEMMA MessagesTold ==
    ASSUME NEW n \in Names
    PROVE  {Connected(n), Disconnected(n), Chat(n)} \subseteq Messages(Names)
BY DEF Connected, Disconnected, Chat, Messages

\* A message appended is the latest one, and the others move back by one.
LEMMA FromEndOfAppend ==
    ASSUME NEW q \in Feeds, NEW m \in Messages(Names), NEW k \in 0 .. Len(q)
    PROVE  /\ Append(q, m) \in Feeds /\ Len(Append(q, m)) = Len(q) + 1
           /\ FromEnd(Append(q, m), k) = IF k = 0 THEN m ELSE FromEnd(q, k - 1)
BY AppendProperties DEF Feeds, FromEnd

\* Feeds that agree still do when both get the same message.
LEMMA AgreeAppend ==
    ASSUME NEW q \in Feeds, NEW r \in Feeds, NEW m \in Messages(Names), Agree(q, r)
    PROVE  Agree(Append(q, m), Append(r, m))
<1> SUFFICES ASSUME NEW k \in 0 .. Len(Append(q, m)) - 1, k < Len(Append(r, m))
             PROVE  FromEnd(Append(q, m), k) = FromEnd(Append(r, m), k)
  BY DEF Agree
<1>1. Len(q) \in Nat /\ Len(r) \in Nat
  BY DEF Feeds
<1>2. 0 \in 0 .. Len(q)
  BY <1>1
<1>3. 0 \in 0 .. Len(r)
  BY <1>1
<1>4. Len(Append(q, m)) = Len(q) + 1 /\ Len(Append(r, m)) = Len(r) + 1
  BY <1>2, <1>3, FromEndOfAppend
<1>5. k \in 0 .. Len(q) /\ k \in 0 .. Len(r)
  BY <1>1, <1>4
<1>6. /\ FromEnd(Append(q, m), k) = IF k = 0 THEN m ELSE FromEnd(q, k - 1)
      /\ FromEnd(Append(r, m), k) = IF k = 0 THEN m ELSE FromEnd(r, k - 1)
  BY <1>5, FromEndOfAppend
<1>7. CASE k = 0
  BY <1>6, <1>7
<1>8. CASE k # 0
  <2>1. k - 1 \in 0 .. Len(q) - 1 /\ k - 1 < Len(r)
    BY <1>1, <1>5, <1>8
  <2> QED  BY <1>6, <1>8, <2>1 DEF Agree
<1> QED  BY <1>7, <1>8

\* One who has just joined has seen one message, the latest of everyone's.
LEMMA AgreeFirst ==
    ASSUME NEW q \in Feeds, NEW m \in Messages(Names)
    PROVE  /\ Agree(<<m>>, Append(q, m)) /\ Agree(Append(q, m), <<m>>)
           /\ Agree(<<m>>, <<m>>)
<1>1. 0 \in 0 .. Len(q) /\ Len(q) \in Nat
  BY DEF Feeds
<1>2. FromEnd(Append(q, m), 0) = m
  BY <1>1, FromEndOfAppend
<1>3. FromEnd(<<m>>, 0) = m /\ Len(<<m>>) = 1
  BY DEF FromEnd
<1>4. Len(Append(q, m)) = Len(q) + 1
  BY <1>1, FromEndOfAppend
<1> QED  BY <1>1, <1>2, <1>3, <1>4 DEF Agree
-----------------------------------------------------------------------------
(* What a member believes.                                                 *)

\* Whether n is believed present after m, by what m says about n.
LEMMA PresentAppend ==
    ASSUME NEW q \in Feeds, NEW m \in Messages(Names), NEW n \in Names
    PROVE  Present(Append(q, m), n) <=>
               \/ m = Connected(n)
               \/ m # Disconnected(n) /\ Present(q, n)
<1> DEFINE a == Append(q, m)
<1>1. /\ Len(q) \in Nat /\ Len(a) = Len(q) + 1
      /\ a[Len(q) + 1] = m
      /\ \A i \in 1 .. Len(q) : a[i] = q[i]
  BY AppendProperties DEF Feeds
<1>2. Connected(n) # Disconnected(n)
  BY DEF Connected, Disconnected
<1> HIDE DEF a
<1>3. ASSUME Present(a, n), m # Connected(n)
      PROVE  m # Disconnected(n) /\ Present(q, n)
  <2>1. PICK i \in 1 .. Len(a) :
            a[i] = Connected(n) /\ \A j \in i + 1 .. Len(a) : a[j] # Disconnected(n)
    BY <1>3 DEF Present
  <2>2. i \in 1 .. Len(q)
    BY <1>1, <1>3, <2>1
  <2>3. m # Disconnected(n)
    BY <1>1, <2>1, <2>2
  <2>4. q[i] = Connected(n) /\ \A j \in i + 1 .. Len(q) : q[j] # Disconnected(n)
    BY <1>1, <2>1, <2>2
  <2> QED  BY <2>2, <2>3, <2>4 DEF Present
<1>4. ASSUME m = Connected(n) PROVE Present(a, n)
  <2>1. Len(q) + 1 \in 1 .. Len(a) /\ Len(q) + 1 + 1 .. Len(a) = {}
    BY <1>1
  <2> QED  BY <1>1, <1>4, <2>1 DEF Present
<1>5. ASSUME m # Disconnected(n), Present(q, n) PROVE Present(a, n)
  <2>1. PICK i \in 1 .. Len(q) :
            q[i] = Connected(n) /\ \A j \in i + 1 .. Len(q) : q[j] # Disconnected(n)
    BY <1>5 DEF Present
  <2>2. \A j \in i + 1 .. Len(a) : j \in i + 1 .. Len(q) \/ j = Len(q) + 1
    BY <1>1
  <2>3. \A j \in i + 1 .. Len(a) : a[j] # Disconnected(n)
    BY <1>1, <1>5, <2>1, <2>2
  <2>4. i \in 1 .. Len(a) /\ a[i] = Connected(n)
    BY <1>1, <2>1
  <2> QED  BY <2>3, <2>4 DEF Present
<1> QED  BY <1>3, <1>4, <1>5 DEF a
-----------------------------------------------------------------------------
(* The invariant is inductive as it stands.                                *)

RoomInv == RoomType /\ UniqueNames /\ OneOrder /\ NoGhosts

\* A message to the members on the seats S, some of whom may have left, is
\* safe if it contradicts nobody's presence and says who is gone.
LEMMA TellSafe ==
    ASSUME RoomInv, NEW S \in SUBSET DOMAIN room, NEW m \in Messages(Names),
           room' = Tell(room, S, m),
           lost' \subseteq Names,
           \A s \in S : room[s].name \notin lost' /\ m # Disconnected(room[s].name),
           \A n \in Names :
               m = Connected(n) \/ (m # Disconnected(n) /\ n \in InRoom \cup lost)
                   => n \in {room[s].name : s \in S} \cup lost'
    PROVE  RoomInv'
<1>1. /\ DOMAIN room' = S /\ S \subseteq Seats
      /\ \A s \in S : room'[s] = [name |-> room[s].name, feed |-> Append(room[s].feed, m)]
  BY DEF Tell, RoomInv, RoomType
<1>2. \A s \in S : room[s].name \in Names /\ room[s].feed \in Feeds
  BY DEF RoomInv, RoomType, Feeds
<1>3. \A s \in S : /\ room'[s].name = room[s].name
                   /\ room'[s].feed = Append(room[s].feed, m)
                   /\ room'[s].feed \in Feeds
  BY <1>1, <1>2, AppendProperties DEF Feeds
<1>4. InRoom' = {room[s].name : s \in S}
  BY <1>1, <1>3 DEF InRoom
<1>5. RoomType'
  BY <1>1, <1>2, <1>3 DEF RoomType, Feeds
<1>6. UniqueNames'
  <2>1. \A s, t \in DOMAIN room : room[s].name = room[t].name => s = t
    BY DEF RoomInv, UniqueNames
  <2>2. \A s, t \in DOMAIN room' : room'[s].name = room'[t].name => s = t
    BY <1>1, <1>3, <2>1
  <2>3. InRoom' \cap lost' = {}
    BY <1>4
  <2> QED  BY <2>2, <2>3 DEF UniqueNames
<1>7. OneOrder'
  <2>1. \A s, t \in S : Agree(room[s].feed, room[t].feed)
    BY DEF RoomInv, OneOrder, Agree
  <2>2. ASSUME NEW s \in S, NEW t \in S PROVE Agree(room'[s].feed, room'[t].feed)
    <3>1. /\ room[s].feed \in Feeds /\ room[t].feed \in Feeds
          /\ Agree(room[s].feed, room[t].feed)
      BY <1>2, <2>1
    <3>2. Agree(Append(room[s].feed, m), Append(room[t].feed, m))
      BY <3>1, AgreeAppend, Zenon
    <3>3. /\ room'[s].feed = Append(room[s].feed, m)
          /\ room'[t].feed = Append(room[t].feed, m)
      BY <1>3
    <3> QED  BY <3>2, <3>3, Zenon
  <2> QED  BY <1>1, <2>2 DEF OneOrder, Agree
<1>8. NoGhosts'
  <2>1. \A s \in S : /\ \A n \in Names : Present(room[s].feed, n) => n \in InRoom \cup lost
                     /\ Present(room[s].feed, room[s].name)
    BY DEF RoomInv, NoGhosts
  <2>2. ASSUME NEW s \in S, NEW n \in Names, Present(room'[s].feed, n)
        PROVE  n \in InRoom' \cup lost'
    <3>1. room[s].feed \in Feeds /\ Present(Append(room[s].feed, m), n)
      BY <1>2, <1>3, <2>2
    <3>2. m = Connected(n) \/ (m # Disconnected(n) /\ Present(room[s].feed, n))
      BY <3>1, PresentAppend
    <3> QED  BY <1>4, <2>1, <3>2
  <2>3. ASSUME NEW s \in S PROVE Present(room'[s].feed, room'[s].name)
    <3>1. /\ room[s].feed \in Feeds /\ room[s].name \in Names
          /\ Present(room[s].feed, room[s].name)
          /\ m # Disconnected(room[s].name)
      BY <1>2, <2>1
    <3>2. Present(Append(room[s].feed, m), room[s].name)
      BY <3>1, PresentAppend
    <3> QED  BY <1>3, <3>2
  <2> QED  BY <1>1, <2>2, <2>3 DEF NoGhosts
<1> QED  BY <1>5, <1>6, <1>7, <1>8 DEF RoomInv

\* The new member gets the announcement of its own arrival, as the others do.
LEMMA JoinSafe ==
    ASSUME RoomInv, NEW s \in Seats, NEW n \in Names, Join(s, n)
    PROVE  RoomInv'
<1> DEFINE m == Connected(n)
<1>1. m \in Messages(Names)
  BY MessagesTold
<1>2. /\ DOMAIN room' = DOMAIN room \cup {s} /\ s \notin DOMAIN room
      /\ n \notin InRoom \cup lost /\ lost' = lost
  BY DEF Join
<1>3. \A t \in DOMAIN room : /\ room[t] = [name |-> room[t].name, feed |-> room[t].feed]
                             /\ room[t].name \in Names /\ room[t].feed \in Feeds
  BY DEF RoomInv, RoomType, Feeds
<1>4. room'[s] = [name |-> n, feed |-> <<m>>]
  BY DEF Join
<1>5. \A t \in DOMAIN room : room'[t] = [room[t] EXCEPT !.feed = Append(@, m)]
  BY DEF Join
<1>6. \A t \in DOMAIN room :
          room'[t] = [name |-> room[t].name, feed |-> Append(room[t].feed, m)]
  BY <1>3, <1>5
<1> HIDE DEF m
<1>7. \A t \in DOMAIN room :
          /\ room'[t].feed = Append(room[t].feed, m) /\ room'[t].name = room[t].name
          /\ room'[t].feed \in Feeds
  <2>1. \A t \in DOMAIN room :
            room'[t].feed = Append(room[t].feed, m) /\ room'[t].name = room[t].name
    <3> SUFFICES ASSUME NEW t \in DOMAIN room
                 PROVE  /\ room'[t].feed = Append(room[t].feed, m)
                        /\ room'[t].name = room[t].name
      OBVIOUS
    <3> DEFINE q == Append(room[t].feed, m)
    <3>1. room'[t] = [name |-> room[t].name, feed |-> q]
      BY <1>6
    <3> HIDE DEF q
    <3>2. room'[t].feed = q /\ room'[t].name = room[t].name
      BY <3>1
    <3> QED  BY <3>2 DEF q
  <2>2. \A t \in DOMAIN room : Append(room[t].feed, m) \in Feeds
    BY <1>1, <1>3, AppendProperties DEF Feeds
  <2> QED  BY <2>1, <2>2
<1>8. <<m>> \in Feeds /\ <<>> \in Feeds
  BY <1>1 DEF Feeds
<1>9. room'[s].name = n /\ room'[s].feed = <<m>>
  BY <1>4
<1>10. InRoom' = InRoom \cup {n}
  BY <1>2, <1>4, <1>6 DEF InRoom
<1>11. RoomType'
  <2>1. \A t \in DOMAIN room' : /\ room'[t] = [name |-> room'[t].name, feed |-> room'[t].feed]
                                /\ room'[t].name \in Names /\ room'[t].feed \in Feeds
    <3>1. \A t \in DOMAIN room : /\ room'[t] = [name |-> room'[t].name, feed |-> room'[t].feed]
                                  /\ room'[t].name \in Names /\ room'[t].feed \in Feeds
      BY <1>3, <1>6, <1>7
    <3>2. /\ room'[s] = [name |-> room'[s].name, feed |-> room'[s].feed]
          /\ room'[s].name \in Names /\ room'[s].feed \in Feeds
      BY <1>4, <1>8, <1>9
    <3> QED  BY <1>2, <3>1, <3>2
  <2>2. DOMAIN room' \subseteq Seats /\ lost' \subseteq Names
    BY <1>2 DEF RoomInv, RoomType
  <2> QED  BY <2>1, <2>2 DEF RoomType, Feeds
<1>12. UniqueNames'
  <2>1. /\ \A t, u \in DOMAIN room : room[t].name = room[u].name => t = u
        /\ InRoom \cap lost = {}
    BY DEF RoomInv, UniqueNames
  <2>2. \A t \in DOMAIN room : room[t].name # n
    BY <1>2 DEF InRoom
  <2>3. \A t, u \in DOMAIN room' : room'[t].name = room'[u].name => t = u
    BY <1>2, <1>4, <1>6, <2>1, <2>2
  <2>4. InRoom' \cap lost' = {}
    BY <1>2, <1>10, <2>1
  <2> QED  BY <2>3, <2>4 DEF UniqueNames
<1>13. OneOrder'
  <2>1. \A t, u \in DOMAIN room : Agree(room[t].feed, room[u].feed)
    BY DEF RoomInv, OneOrder, Agree
  <2>2. \A t, u \in DOMAIN room : Agree(room'[t].feed, room'[u].feed)
    <3>1. \A t, u \in DOMAIN room : Agree(Append(room[t].feed, m), Append(room[u].feed, m))
      BY <1>1, <1>3, <2>1, AgreeAppend
    <3> QED  BY <1>7, <3>1
  <2>3. \A t \in DOMAIN room : /\ Agree(room'[s].feed, room'[t].feed)
                               /\ Agree(room'[t].feed, room'[s].feed)
    <3>1. \A t \in DOMAIN room : /\ Agree(<<m>>, Append(room[t].feed, m))
                                 /\ Agree(Append(room[t].feed, m), <<m>>)
      BY <1>1, <1>3, AgreeFirst
    <3> QED  BY <1>7, <1>9, <3>1
  <2>4. Agree(room'[s].feed, room'[s].feed)
    BY <1>1, <1>4, <1>8, AgreeFirst
  <2> QED  BY <1>2, <2>2, <2>3, <2>4 DEF OneOrder, Agree
<1>14. NoGhosts'
  <2>1. \A t \in DOMAIN room :
            /\ \A x \in Names : Present(room[t].feed, x) => x \in InRoom \cup lost
            /\ Present(room[t].feed, room[t].name)
    BY DEF RoomInv, NoGhosts
  <2>2. \A x \in Names : /\ m # Disconnected(x)
                         /\ m = Connected(x) <=> x = n
    BY DEF m, Connected, Disconnected
  <2>3. \A t \in DOMAIN room, x \in Names :
            Present(room'[t].feed, x) <=> x = n \/ Present(room[t].feed, x)
    <3>1. \A t \in DOMAIN room, x \in Names :
              Present(Append(room[t].feed, m), x) <=> x = n \/ Present(room[t].feed, x)
      BY <1>1, <1>3, <2>2, PresentAppend
    <3> QED  BY <1>7, <3>1
  <2>4. \A x \in Names : Present(room'[s].feed, x) <=> x = n
    BY <1>4, <2>2 DEF Present
  <2> QED  BY <1>2, <1>3, <1>4, <1>6, <1>10, <2>1, <2>3, <2>4 DEF NoGhosts
<1> QED  BY <1>11, <1>12, <1>13, <1>14 DEF RoomInv

\* A connection that breaks takes its member out of the room, not its name.
LEMMA LoseSafe ==
    ASSUME RoomInv, NEW s \in Seats, Lose(s)
    PROVE  RoomInv'
<1>1. /\ DOMAIN room' = DOMAIN room \ {s} /\ s \in DOMAIN room
      /\ \A t \in DOMAIN room' : room'[t] = room[t]
      /\ lost' = lost \cup {room[s].name}
  BY DEF Lose
<1>2. /\ InRoom = InRoom' \cup {room[s].name}
      /\ room[s].name \notin InRoom'
  BY <1>1 DEF InRoom, RoomInv, UniqueNames
<1>3. RoomType'
  BY <1>1 DEF RoomInv, RoomType
<1>4. UniqueNames'
  BY <1>1, <1>2 DEF RoomInv, UniqueNames
<1>5. OneOrder'
  BY <1>1 DEF RoomInv, OneOrder
<1>6. NoGhosts'
  BY <1>1, <1>2 DEF RoomInv, NoGhosts
<1> QED  BY <1>3, <1>4, <1>5, <1>6 DEF RoomInv

LEMMA RoomInvariant == Spec => []RoomInv
<1>1. Init => RoomInv
  BY DEF Init, RoomInv, RoomType, UniqueNames, OneOrder, NoGhosts, InRoom
<1>2. RoomInv /\ [Next]_roomVars => RoomInv'
  <2> SUFFICES ASSUME RoomInv, [Next]_roomVars PROVE RoomInv'
    OBVIOUS
  <2> USE DEF RoomInv
  <2>0. /\ \A s \in DOMAIN room : room[s].name \in Names /\ room[s].name \in InRoom
        /\ \A s, t \in DOMAIN room : room[s].name = room[t].name => s = t
        /\ InRoom = {room[s].name : s \in DOMAIN room}
        /\ InRoom \cap lost = {} /\ InRoom \subseteq Names /\ lost \subseteq Names
    BY DEF RoomType, UniqueNames, InRoom
  <2> HIDE DEF RoomInv
  <2>1. ASSUME NEW s \in Seats, NEW n \in Names, Join(s, n) PROVE RoomInv'
    BY <2>1, JoinSafe
  <2>2. ASSUME NEW s \in Seats, Lose(s) PROVE RoomInv'
    BY <2>2, LoseSafe
  <2>3. ASSUME NEW s \in Seats, Leave(s) PROVE RoomInv'
    <3> DEFINE S == DOMAIN room \ {s}
               m == Disconnected(room[s].name)
    <3>1. m \in Messages(Names) /\ room' = Tell(room, S, m) /\ lost' = lost
      BY <2>0, <2>3, MessagesTold DEF Leave
    <3>2. \A t \in S : room[t].name \notin lost' /\ m # Disconnected(room[t].name)
      BY <2>0, <2>3, <3>1 DEF Leave, Disconnected
    <3>3. \A n \in Names : /\ m # Connected(n)
                           /\ m # Disconnected(n) => n # room[s].name
      BY DEF Connected, Disconnected
    <3>4. InRoom \subseteq {room[t].name : t \in S} \cup {room[s].name}
      BY <2>0
    <3>5. S \in SUBSET DOMAIN room
      OBVIOUS
    <3> HIDE DEF S, m
    <3> QED  BY <2>0, <3>1, <3>2, <3>3, <3>4, <3>5, TellSafe
  <2>4. ASSUME NEW n \in Names, JoinLost(n) PROVE RoomInv'
    <3>1. /\ Connected(n) \in Messages(Names) /\ lost' = lost \cup {n}
          /\ room' = Tell(room, DOMAIN room, Connected(n)) /\ n \notin InRoom
      BY <2>4, MessagesTold DEF JoinLost
    <3>2. \A x \in Names : /\ Connected(n) # Disconnected(x)
                           /\ Connected(n) = Connected(x) => x = n
      BY DEF Connected, Disconnected
    <3> QED  BY <2>0, <3>1, <3>2, TellSafe
  <2>5. ASSUME NEW n \in Names, Say(n) PROVE RoomInv'
    <3>1. /\ Chat(n) \in Messages(Names) /\ lost' = lost
          /\ room' = Tell(room, DOMAIN room, Chat(n))
      BY <2>5, MessagesTold DEF Say
    <3>2. \A x \in Names : Chat(n) # Disconnected(x) /\ Chat(n) # Connected(x)
      BY DEF Chat, Connected, Disconnected
    <3> QED  BY <2>0, <3>1, <3>2, TellSafe
  <2>6. ASSUME NEW n \in Names, Bury(n) PROVE RoomInv'
    <3>1. /\ Disconnected(n) \in Messages(Names) /\ lost' = lost \ {n} /\ n \in lost
          /\ room' = Tell(room, DOMAIN room, Disconnected(n))
      BY <2>6, MessagesTold DEF Bury
    <3>2. \A x \in Names : /\ Disconnected(n) # Connected(x)
                           /\ Disconnected(n) = Disconnected(x) <=> x = n
      BY DEF Connected, Disconnected
    <3> QED  BY <2>0, <3>1, <3>2, TellSafe
  <2>7. CASE Close
    BY <2>7 DEF Close, RoomInv, RoomType, UniqueNames, OneOrder, NoGhosts, InRoom
  <2>8. CASE UNCHANGED roomVars
    BY <2>8 DEF roomVars, RoomInv, RoomType, UniqueNames, OneOrder, NoGhosts, InRoom
  <2> QED  BY <2>1, <2>2, <2>3, <2>4, <2>5, <2>6, <2>7, <2>8 DEF Next
<1> QED  BY <1>1, <1>2, PTL DEF Spec

\* Total order, however long the conversation: of two members, the one who
\* joined later has received exactly the tail of what the other one has.
THEOREM RoomIsOrdered == Spec => []OneOrder
<1>1. RoomInv => OneOrder
  BY DEF RoomInv
<1> QED  BY <1>1, RoomInvariant, PTL

\* Nobody believes in a member whose departure was announced, and no two
\* members present or lost have the same name.
THEOREM RoomHasNoGhosts == Spec => [](NoGhosts /\ UniqueNames)
<1>1. RoomInv => NoGhosts /\ UniqueNames
  BY DEF RoomInv
<1> QED  BY <1>1, RoomInvariant, PTL
=============================================================================
