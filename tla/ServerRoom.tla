----------------------------- MODULE ServerRoom -----------------------------
(***************************************************************************)
(* The server implements ChatRoom.  A message counts as received from the  *)
(* moment its broadcast or forward begins: the clients the loop has yet to *)
(* reach are owed it.  A client whose connection is dead is a lost member. *)
(***************************************************************************)
EXTENDS Server

Owed(f) == IF pc = "forward" /\ f \in fwd THEN <<Chat(username[cur])>>
           ELSE IF pc = "broadcast" /\ f \in Top.todo THEN <<Top.msg>>
           ELSE <<>>

Members == {f \in registered : tcp[f] # "dead"}

roomBar == [f \in Members |-> [name |-> username[f], feed |-> got[f] \o Owed(f)]]
lostBar == {username[f] : f \in registered \ Members}

Room == INSTANCE ChatRoom WITH Seats <- Fds, room <- roomBar, lost <- lostBar

\* Every behaviour of the server is a behaviour of the room: whatever fails
\* half way through a loop, the members see whole messages in one order.
ImplementsRoom == Room!Spec

\* Any two members have received the same messages since the later one
\* joined, those still owed by the running loop included.
MembersAgree == Room!OneOrder

\* No member believes in a client whose disconnect was already handled.
NoGhostMembers == Room!NoGhosts
=============================================================================
