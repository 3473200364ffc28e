------------------------------ MODULE ChatRoom ------------------------------
(***************************************************************************)
(* What the server promises its members, without sockets, loops or         *)
(* failing sends: a room of seats with unique names, in which every        *)
(* message reaches all members in one step, and therefore in one order.    *)
(*                                                                         *)
(* A member whose connection broke is lost: it receives nothing any more,  *)
(* keeps its name, and may already have sent something; its departure is   *)
(* announced when the server notices.                                      *)
(***************************************************************************)
EXTENDS Naturals, Sequences, ChatMessages

CONSTANTS Seats, Names

VARIABLES room,   \* seat -> the name and the messages of the member on it
          lost    \* names of the lost members

roomVars == <<room, lost>>

InRoom == {room[s].name : s \in DOMAIN room}

\* Every member on the seats S of r receives m.
Tell(r, S, m) == [s \in S |-> [name |-> r[s].name, feed |-> Append(r[s].feed, m)]]

Init == room = <<>> /\ lost = {}

Join(s, n) ==
    /\ s \notin DOMAIN room /\ n \notin InRoom \cup lost
    /\ room' = [t \in DOMAIN room \cup {s} |->
                  IF t = s THEN [name |-> n, feed |-> <<Connected(n)>>]
                  ELSE [room[t] EXCEPT !.feed = Append(@, Connected(n))]]
    /\ UNCHANGED lost

\* The member is lost by the time it is let in.
JoinLost(n) ==
    /\ n \notin InRoom \cup lost
    /\ room' = Tell(room, DOMAIN room, Connected(n))
    /\ lost' = lost \cup {n}

Say(n) ==
    /\ n \in InRoom \cup lost
    /\ room' = Tell(room, DOMAIN room, Chat(n))
    /\ UNCHANGED lost

Leave(s) ==
    /\ s \in DOMAIN room
    /\ room' = Tell(room, DOMAIN room \ {s}, Disconnected(room[s].name))
    /\ UNCHANGED lost

Lose(s) ==
    /\ s \in DOMAIN room
    /\ room' = [t \in DOMAIN room \ {s} |-> room[t]]
    /\ lost' = lost \cup {room[s].name}

Bury(n) ==
    /\ n \in lost
    /\ room' = Tell(room, DOMAIN room, Disconnected(n))
    /\ lost' = lost \ {n}

Close == room' = <<>> /\ lost' = {}

Next ==
    \/ \E s \in Seats : Leave(s) \/ Lose(s)
    \/ \E s \in Seats, n \in Names : Join(s, n)
    \/ \E n \in Names : JoinLost(n) \/ Say(n) \/ Bury(n)
    \/ Close

Spec == Init /\ [][Next]_roomVars
-----------------------------------------------------------------------------
(* What follows from the room for its members.                             *)

RoomType ==
    /\ DOMAIN room \subseteq Seats
    /\ \A s \in DOMAIN room : /\ room[s] = [name |-> room[s].name, feed |-> room[s].feed]
                              /\ room[s].name \in Names
                              /\ room[s].feed \in Seq(Messages(Names))
    /\ lost \subseteq Names

\* No two members, lost or not, have the same name: the uniqueness that
\* HandleClientEvent enforces with m_usernames.
UniqueNames ==
    /\ \A s, t \in DOMAIN room : room[s].name = room[t].name => s = t
    /\ InRoom \cap lost = {}

\* Total order: counted back from the latest message, two members have
\* received the same messages, so the one who joined later has exactly the
\* tail of what the other one has.  The server's broadcasts and forwards
\* nest and fail half way, and must still look like this.
FromEnd(q, k) == q[Len(q) - k]
OneOrder ==
    \A s, t \in DOMAIN room :
        \A k \in 0 .. Len(room[s].feed) - 1 :
            k < Len(room[t].feed) =>
                FromEnd(room[s].feed, k) = FromEnd(room[t].feed, k)

\* After reading its feed a member believes n is present iff the last
\* announcement about n was a connect.
Present(q, n) ==
    \E i \in 1 .. Len(q) :
        /\ q[i] = Connected(n)
        /\ \A j \in i + 1 .. Len(q) : q[j] # Disconnected(n)

\* No ghosts: a member never believes in someone whose departure was
\* already handled, and always believes in itself.
NoGhosts ==
    \A s \in DOMAIN room :
        /\ \A n \in Names : Present(room[s].feed, n) => n \in InRoom \cup lost
        /\ Present(room[s].feed, room[s].name)
=============================================================================
