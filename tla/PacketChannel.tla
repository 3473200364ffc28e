--------------------------- MODULE PacketChannel ---------------------------
(***************************************************************************)
(* What NetworkSessions promise of the packets going one way over each of  *)
(* some links: the receiver gets whole packets in the order they were      *)
(* sent, without gaps.  When the sender's end closes, what was under way   *)
(* may be lost from some packet on, and that packet may come out damaged,  *)
(* as the last one: empty, or with zeroes for the bytes that are missing.  *)
(***************************************************************************)
EXTENDS Naturals, Sequences

CONSTANTS Links, Packets,
          Damaged(_)   \* what may become of a packet that is cut short

VARIABLES sent,    \* packets SendPacket was called with
          got,     \* packets RecvPacket returned
          closed   \* links whose sending end is closed

channelVars == <<sent, got, closed>>

Init == sent = [l \in Links |-> <<>>] /\ got = sent /\ closed = {}

Send(l) ==
    /\ l \notin closed
    /\ \E p \in Packets : sent'[l] = Append(sent[l], p)
    /\ got'[l] = got[l]

Intact(l) == Len(got[l]) <= Len(sent[l]) /\ \A i \in 1 .. Len(got[l]) : got[l][i] = sent[l][i]

Receive(l) ==
    /\ Intact(l) /\ Len(got[l]) < Len(sent[l])
    /\ got'[l] = Append(got[l], sent[l][Len(got[l]) + 1])
    /\ sent'[l] = sent[l]

ReceiveDamaged(l) ==
    /\ l \in closed /\ Intact(l) /\ Len(got[l]) < Len(sent[l])
    /\ \E p \in Damaged(sent[l][Len(got[l]) + 1]) : got'[l] = Append(got[l], p)
    /\ sent'[l] = sent[l]

Idle(l) == sent'[l] = sent[l] /\ got'[l] = got[l]

\* The links are independent: each takes a step of its own, or none.
Next ==
    /\ DOMAIN sent' = Links /\ DOMAIN got' = Links
    /\ closed \subseteq closed' /\ closed' \subseteq Links
    /\ \A l \in Links : Send(l) \/ Receive(l) \/ ReceiveDamaged(l) \/ Idle(l)

Spec == Init /\ [][Next]_channelVars

\* What a receiver may rely on: the i-th packet it got is the i-th that was
\* sent, or, if it is the last it got of a sender that closed its end, what
\* became of that.
InOrder ==
    \A l \in Links :
        /\ Len(got[l]) <= Len(sent[l])
        /\ \A i \in 1 .. Len(got[l]) :
              \/ got[l][i] = sent[l][i]
              \/ l \in closed /\ i = Len(got[l]) /\ got[l][i] \in Damaged(sent[l][i])
=============================================================================
