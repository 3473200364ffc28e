---------------------------- MODULE RelayProofs ----------------------------
(***************************************************************************)
(* Proofs about Relay: its type invariant, that both directions of every   *)
(* connection implement the packet channels, that the members show the     *)
(* same lines, and when a client takes the connection for closed, for      *)
(* every set of clients, all lines, lengths and buffer sizes.              *)
(*                                                                         *)
(* The inductive invariant says of every connection that what RecvPacket   *)
(* has got, what is under way, what send_all has yet to send and what got  *)
(* lost are together the frames of the packets the receiver has yet to     *)
(* return.                                                                 *)
(***************************************************************************)
EXTENDS Relay, FramingProofs

-----------------------------------------------------------------------------
(* Sequences: what follows the first n elements, and prefixes.             *)

Behind(s, n) == SubSeq(s, n + 1, Len(s))

LEMMA BehindElements ==
    ASSUME NEW S, NEW s \in Seq(S), NEW n \in 0 .. Len(s)
    PROVE  /\ Behind(s, n) \in Seq(S) /\ Len(Behind(s, n)) = Len(s) - n
           /\ \A i \in 1 .. Len(s) - n : Behind(s, n)[i] = s[n + i]
<1>1. Len(s) \in Nat /\ n \in Nat /\ n <= Len(s) /\ \A i \in 1 .. Len(s) : s[i] \in S
  OBVIOUS
<1>2. \A i \in n + 1 .. Len(s) : s[i] \in S
  BY <1>1
<1> QED  BY <1>1, <1>2 DEF Behind

LEMMA FrontAndBehind ==
    ASSUME NEW S, NEW s \in Seq(S), NEW n \in 0 .. Len(s)
    PROVE  /\ SubSeq(s, 1, n) \in Seq(S) /\ Behind(s, n) \in Seq(S)
           /\ SubSeq(s, 1, n) \o Behind(s, n) = s
           /\ Behind(s, n) # <<>> => n < Len(s)
           /\ n = Len(s) => Behind(s, n) = <<>>
           /\ s = <<>> => SubSeq(s, 1, n) = <<>>
<1> DEFINE f == SubSeq(s, 1, n)
           b == Behind(s, n)
           t == f \o b
<1>1. Len(s) \in Nat /\ n \in Nat /\ n <= Len(s) /\ \A i \in 1 .. Len(s) : s[i] \in S
  OBVIOUS
<1>2. b \in Seq(S) /\ Len(b) = Len(s) - n /\ \A i \in 1 .. Len(s) - n : b[i] = s[n + i]
  BY BehindElements
<1>3. f \in Seq(S) /\ Len(f) = n /\ \A i \in 1 .. n : f[i] = s[i]
  <2>1. \A i \in 1 .. n : s[i] \in S
    BY <1>1
  <2> QED  BY <1>1, <2>1
<1> HIDE DEF f, b
<1>4. /\ t \in Seq(S) /\ Len(t) = Len(f) + Len(b)
      /\ \A i \in 1 .. Len(f) + Len(b) : t[i] = IF i <= Len(f) THEN f[i] ELSE b[i - Len(f)]
  BY <1>2, <1>3, ConcatProperties
<1>5. Len(t) = Len(s)
  BY <1>1, <1>2, <1>3, <1>4
<1> HIDE DEF t
<1>6. ASSUME NEW i \in 1 .. Len(t) PROVE t[i] = s[i]
  <2>1. CASE i <= n
    BY <1>1, <1>3, <1>4, <1>5, <2>1
  <2>2. CASE ~(i <= n)
    <3>1. i - n \in 1 .. Len(s) - n /\ n + (i - n) = i
      BY <1>1, <1>5, <2>2
    <3>2. t[i] = b[i - n]
      BY <1>1, <1>3, <1>4, <1>5, <2>2
    <3> QED  BY <1>2, <3>1, <3>2
  <2> QED  BY <2>1, <2>2
<1>7. t = s
  BY <1>4, <1>5, <1>6, SeqEqual
<1>8. b # <<>> => n < Len(s)
  <2> SUFFICES ASSUME n = Len(s) PROVE b = <<>>
    BY <1>1
  <2> QED  BY <1>1, <1>2, EmptySeq
<1>9. n = Len(s) => b = <<>>
  BY <1>1, <1>2, EmptySeq
<1>10. s = <<>> => f = <<>>
  <2> SUFFICES ASSUME s = <<>> PROVE f = <<>>
    OBVIOUS
  <2>1. Len(f) = 0
    BY <1>1, <1>3, EmptySeq
  <2> QED  BY <1>3, <2>1, EmptySeq
<1> QED  BY <1>2, <1>3, <1>7, <1>8, <1>9, <1>10 DEF f, b, t

LEMMA BehindAppend ==
    ASSUME NEW S, NEW s \in Seq(S), NEW n \in 0 .. Len(s), NEW e \in S
    PROVE  Behind(Append(s, e), n) = Append(Behind(s, n), e)
<1> DEFINE t == Append(s, e)
           b == Behind(s, n)
           u == Append(b, e)
           v == Behind(t, n)
<1>1. /\ t \in Seq(S) /\ Len(t) = Len(s) + 1 /\ t[Len(s) + 1] = e
      /\ \A i \in 1 .. Len(s) : t[i] = s[i]
      /\ Len(s) \in Nat /\ n \in Nat /\ n <= Len(s)
  BY AppendProperties
<1>2. /\ b \in Seq(S) /\ Len(b) = Len(s) - n
      /\ \A i \in 1 .. Len(s) - n : b[i] = s[n + i]
  BY BehindElements
<1> HIDE DEF t
<1>3. /\ v \in Seq(S) /\ Len(v) = Len(t) - n
      /\ \A i \in 1 .. Len(t) - n : v[i] = t[n + i]
  <2>1. n \in 0 .. Len(t)
    BY <1>1
  <2> QED  BY <1>1, <2>1, BehindElements
<1> HIDE DEF b
<1>4. /\ u \in Seq(S) /\ Len(u) = Len(b) + 1 /\ u[Len(b) + 1] = e
      /\ \A i \in 1 .. Len(b) : u[i] = b[i]
  BY <1>2, AppendProperties
<1> HIDE DEF u, v
<1>5. ASSUME NEW i \in 1 .. Len(v) PROVE v[i] = u[i]
  <2>1. CASE i = Len(b) + 1
    <3>1. n + i = Len(s) + 1 /\ i \in 1 .. Len(t) - n
      BY <1>1, <1>2, <1>3, <2>1
    <3> QED  BY <1>1, <1>3, <1>4, <2>1, <3>1
  <2>2. CASE i # Len(b) + 1
    <3>1. /\ i \in 1 .. Len(b) /\ i \in 1 .. Len(s) - n
          /\ n + i \in 1 .. Len(s) /\ i \in 1 .. Len(t) - n
      BY <1>1, <1>2, <1>3, <2>2
    <3> QED  BY <1>1, <1>2, <1>3, <1>4, <3>1
  <2> QED  BY <2>1, <2>2
<1>6. Len(v) = Len(u)
  BY <1>1, <1>2, <1>3, <1>4
<1>7. v = u
  BY <1>3, <1>4, <1>5, <1>6, SeqEqual
<1> QED  BY <1>7 DEF u, v, b, t

LEMMA BehindNext ==
    ASSUME NEW S, NEW s \in Seq(S), NEW n \in Nat, n < Len(s)
    PROVE  /\ Behind(s, n) # <<>> /\ Behind(s, n)[1] = s[n + 1]
           /\ Behind(s, n + 1) = Tail(Behind(s, n))
<1> DEFINE b == Behind(s, n)
           d == Behind(s, n + 1)
           t == Tail(b)
<1>1. Len(s) \in Nat /\ n \in 0 .. Len(s) /\ n + 1 \in 0 .. Len(s)
  OBVIOUS
<1>2. /\ b \in Seq(S) /\ Len(b) = Len(s) - n
      /\ \A i \in 1 .. Len(s) - n : b[i] = s[n + i]
  BY <1>1, BehindElements
<1>3. /\ d \in Seq(S) /\ Len(d) = Len(s) - (n + 1)
      /\ \A i \in 1 .. Len(s) - (n + 1) : d[i] = s[(n + 1) + i]
  BY <1>1, BehindElements
<1> HIDE DEF b, d
<1>4. b # <<>> /\ b[1] = s[n + 1]
  <2>1. Len(b) # 0 /\ 1 \in 1 .. Len(s) - n
    BY <1>1, <1>2
  <2> QED  BY <1>2, <2>1, EmptySeq
<1>5. t \in Seq(S) /\ Len(t) = Len(b) - 1 /\ \A i \in 1 .. Len(t) : t[i] = b[i + 1]
  BY <1>2, <1>4, HeadTailProperties
<1> HIDE DEF t
<1>6. ASSUME NEW i \in 1 .. Len(d) PROVE d[i] = t[i]
  <2>1. i \in 1 .. Len(t) /\ i + 1 \in 1 .. Len(s) - n /\ n + (i + 1) = (n + 1) + i
        /\ i \in 1 .. Len(s) - (n + 1)
    BY <1>1, <1>2, <1>3, <1>5
  <2>2. t[i] = s[n + (i + 1)]
    BY <1>2, <1>5, <2>1
  <2> QED  BY <1>3, <2>1, <2>2
<1>7. Len(d) = Len(t)
  BY <1>1, <1>2, <1>3, <1>5
<1>8. d = t
  BY <1>3, <1>5, <1>6, <1>7, SeqEqual
<1> QED  BY <1>4, <1>8 DEF b, d, t

LEMMA PrefixElements ==
    ASSUME NEW S, NEW s \in Seq(S), NEW t \in Seq(S)
    PROVE  IsPrefix(s, t) <=> /\ Len(s) <= Len(t)
                              /\ \A i \in 1 .. Len(s) : s[i] = t[i]
<1>1. Len(s) \in Nat /\ Len(t) \in Nat
  OBVIOUS
<1>2. ASSUME Len(s) <= Len(t)
      PROVE  /\ SubSeq(s, 1, Len(s)) = [i \in 1 .. Len(s) |-> s[i]]
             /\ SubSeq(t, 1, Len(s)) = [i \in 1 .. Len(s) |-> t[i]]
  BY <1>1, <1>2
<1>3. ASSUME Len(s) <= Len(t)
      PROVE  (SubSeq(s, 1, Len(s)) = SubSeq(t, 1, Len(s))) <=> \A i \in 1 .. Len(s) : s[i] = t[i]
  BY <1>2, <1>3
<1> QED  BY <1>3 DEF IsPrefix

LEMMA PrefixLonger ==
    ASSUME NEW S, NEW s \in Seq(S), NEW t \in Seq(S), NEW e \in S, IsPrefix(s, t)
    PROVE  IsPrefix(s, Append(t, e))
<1>1. Len(s) <= Len(t) /\ \A i \in 1 .. Len(s) : s[i] = t[i]
  BY PrefixElements
<1> DEFINE u == Append(t, e)
<1>2. /\ u \in Seq(S) /\ Len(u) = Len(t) + 1
      /\ \A i \in 1 .. Len(t) : u[i] = t[i]
      /\ Len(s) \in Nat /\ Len(t) \in Nat
  BY AppendProperties
<1> HIDE DEF u
<1>3. IsPrefix(s, u)
  BY <1>1, <1>2, PrefixElements
<1> QED  BY <1>3 DEF u

LEMMA PrefixNext ==
    ASSUME NEW S, NEW s \in Seq(S), NEW t \in Seq(S), IsPrefix(s, t), Len(s) < Len(t)
    PROVE  IsPrefix(Append(s, t[Len(s) + 1]), t)
<1>1. /\ Len(s) \in Nat /\ Len(t) \in Nat /\ t[Len(s) + 1] \in S
      /\ \A i \in 1 .. Len(s) : s[i] = t[i]
  BY PrefixElements
<1> DEFINE u == Append(s, t[Len(s) + 1])
<1>2. /\ u \in Seq(S) /\ Len(u) = Len(s) + 1 /\ u[Len(s) + 1] = t[Len(s) + 1]
      /\ \A i \in 1 .. Len(s) : u[i] = s[i]
  BY <1>1, AppendProperties
<1> HIDE DEF u
<1>3. ASSUME NEW i \in 1 .. Len(u) PROVE u[i] = t[i]
  <2>1. i = Len(s) + 1 \/ i \in 1 .. Len(s)
    BY <1>1, <1>2
  <2> QED  BY <1>1, <1>2, <2>1
<1>4. Len(u) <= Len(t)
  BY <1>1, <1>2
<1>5. IsPrefix(u, t)
  BY <1>2, <1>3, <1>4, PrefixElements
<1> QED  BY <1>5 DEF u

LEMMA PrefixSelf ==
    ASSUME NEW S, NEW s \in Seq(S)
    PROVE  IsPrefix(s, s)
BY PrefixElements, LenProperties

LEMMA HeadOfConcat ==
    ASSUME NEW S, NEW a \in Seq(S), NEW b \in Seq(S), a # <<>>
    PROVE  a \o b # <<>> /\ Head(a \o b) = Head(a) /\ Tail(a \o b) = Tail(a) \o b
<1> DEFINE h == <<Head(a)>>
           t == Tail(a)
           u == t \o b
           e == <<>>
<1>1. Head(a) \in S /\ t \in Seq(S) /\ h \in Seq(S) /\ e \in Seq(S)
  BY HeadTailProperties, EmptySeq
<1>2. a = h \o t
  <2>1. Append(e, Head(a)) \o Tail(a) = e \o a
    BY <1>1, MoveHead
  <2>2. Append(e, Head(a)) = h
    OBVIOUS
  <2>3. e \o a = a
    BY ConcatEmptySeq
  <2> QED  BY <2>1, <2>2, <2>3
<1>3. u \in Seq(S)
  BY <1>1, ConcatProperties
<1>4. (h \o t) \o b = h \o u
  <2>1. h \in Seq(S) /\ t \in Seq(S) /\ b \in Seq(S)
    BY <1>1
  <2> HIDE DEF h, t
  <2>2. (h \o t) \o b = h \o (t \o b)
    BY <2>1, ConcatAssociative
  <2> QED  BY <2>2 DEF u
<1> HIDE DEF u
<1>5. Head(h \o u) = Head(a) /\ Tail(h \o u) = u /\ h \o u # <<>>
  <2> DEFINE x == Head(a)
             v == h \o u
             w == Tail(v)
  <2>1. h = <<x>> /\ x \in S
    BY <1>1
  <2>2. Len(h) = 1 /\ h[1] = x
    OBVIOUS
  <2> HIDE DEF h, x
  <2>3. /\ v \in Seq(S) /\ Len(v) = 1 + Len(u) /\ Len(u) \in Nat
        /\ \A i \in 1 .. 1 + Len(u) : v[i] = IF i <= 1 THEN h[i] ELSE u[i - 1]
    <3>1. /\ v \in Seq(S) /\ Len(v) = Len(h) + Len(u)
          /\ \A i \in 1 .. Len(h) + Len(u) : v[i] = IF i <= Len(h) THEN h[i] ELSE u[i - Len(h)]
      BY <1>1, <1>3, ConcatProperties
    <3>2. Len(u) \in Nat
      BY <1>3
    <3> HIDE DEF v
    <3> QED  BY <2>2, <3>1, <3>2
  <2> HIDE DEF v
  <2>4. v # <<>> /\ v[1] = x
    <3>1. Len(v) # 0 /\ 1 \in 1 .. 1 + Len(u)
      BY <2>3
    <3> QED  BY <2>2, <2>3, <3>1, EmptySeq
  <2>5. Head(v) = v[1] /\ w \in Seq(S) /\ Len(w) = Len(v) - 1
        /\ \A i \in 1 .. Len(w) : w[i] = v[i + 1]
    BY <2>3, <2>4, HeadTailProperties
  <2> HIDE DEF w
  <2>6. ASSUME NEW i \in 1 .. Len(w) PROVE w[i] = u[i]
    <3>1. i + 1 \in 1 .. 1 + Len(u) /\ ~(i + 1 <= 1) /\ (i + 1) - 1 = i
      BY <2>3, <2>5
    <3> QED  BY <2>3, <2>5, <3>1
  <2>7. w = u
    BY <1>3, <2>3, <2>5, <2>6, SeqEqual
  <2> QED  BY <2>4, <2>5, <2>7 DEF v, w, x
<1> QED  BY <1>2, <1>4, <1>5 DEF u

-----------------------------------------------------------------------------
(* The packets.                                                            *)

LEMMA Regroup ==
    ASSUME NEW s \in Seq(Bytes), NEW t \in Seq(Bytes), NEW u \in Seq(Bytes)
    PROVE  (s \o t) \o u = s \o (<<>> \o (t \o u))
<1>1. (s \o t) \o u = s \o (t \o u)
  BY BytesAssociate, Zenon
<1>2. t \o u \in Seq(Bytes)
  BY ConcatProperties
<1>3. <<>> \o (t \o u) = t \o u
  BY <1>2, ConcatEmptySeq
<1> QED  BY <1>1, <1>3

LEMMA SealedPacket ==
    ASSUME NEW t \in Texts
    PROVE  /\ Sealed(t) \in AnyPacket /\ Sealed(t) \in Payloads /\ Opens(Sealed(t))
           /\ DamagedForms(Sealed(t)) \subseteq AnyPacket
<1>1. Size[t] \in Nat /\ Size[t] < Power[HeaderSize]
  BY ConstantTypes, PowerValues
<1>2. \A i \in 1 .. Size[t] : [of |-> t, at |-> i] \in Bytes
  BY DEF Bytes
<1>3. Sealed(t) \in Seq(Bytes) /\ Len(Sealed(t)) = Size[t]
  BY <1>1, <1>2 DEF Sealed
<1>4. Sealed(t) \in Payloads
  BY <1>1, <1>3 DEF Payloads
<1> QED  BY <1>4 DEF AnyPacket, Opens

LEMMA DamagedPacket ==
    ASSUME NEW p \in Payloads, NEW q \in DamagedForms(p)
    PROVE  q \in Payloads
<1>1. /\ p \in Seq(Bytes) /\ Len(p) \in Nat /\ Len(p) < Power[HeaderSize]
      /\ Power[HeaderSize] \in Nat \ {0}
  <2>1. HeaderSize \in Nat /\ Power[HeaderSize] \in Nat \ {0}
    BY ConstantTypes, PowerValues
  <2> QED  BY <2>1 DEF Payloads
<1>2. CASE q = <<>>
  BY <1>1, <1>2, EmptySeq DEF Payloads
<1>3. CASE q # <<>>
  <2>1. PICK k \in 1 .. Len(p) - 1 : q = SubSeq(p, 1, k) \o Zeroes(Len(p) - k)
    BY <1>3 DEF DamagedForms
  <2> DEFINE s == SubSeq(p, 1, k)
             z == Zeroes(Len(p) - k)
  <2>2. k \in Nat /\ Len(p) - k \in Nat /\ \A i \in 1 .. k : p[i] \in Bytes
    BY <1>1
  <2>3. s \in Seq(Bytes) /\ Len(s) = k
    BY <1>1, <2>2
  <2>4. z \in Seq(Bytes) /\ Len(z) = Len(p) - k
    BY <2>2 DEF Zeroes, Digit, Bytes
  <2> HIDE DEF s, z
  <2>5. s \o z \in Seq(Bytes) /\ Len(s \o z) = Len(p)
    <3>1. s \o z \in Seq(Bytes) /\ Len(s \o z) = Len(s) + Len(z)
      BY <2>3, <2>4, ConcatProperties
    <3> QED  BY <1>1, <2>2, <2>3, <2>4, <3>1
  <2> QED  BY <1>1, <2>1, <2>5 DEF Payloads, s, z
<1> QED  BY <1>2, <1>3

LEMMA PacketsArePayloads ==
    AnyPacket \subseteq Payloads /\ AnyPacket \subseteq Seq(Bytes) /\ <<>> \in Seq(Bytes)
BY SealedPacket, DamagedPacket, EmptySeq DEF AnyPacket, Payloads

\* crypto_secretbox_open_easy does not open what was cut short: that ends in
\* a byte that no sealed text has there.
LEMMA DamagedDoesNotOpen ==
    ASSUME NEW s \in Seq(Bytes), NEW p \in DamagedForms(s)
    PROVE  ~Opens(p)
<1> SUFFICES ASSUME NEW u \in Texts, p = Sealed(u) PROVE FALSE
  BY DEF Opens
<1>1. Size[u] \in Nat \ {0}
  BY ConstantTypes
<1> DEFINE v == Sealed(u)
<1>2. v \in Seq(Bytes) /\ Len(v) = Size[u] /\ \A i \in 1 .. Len(v) : v[i].at = i
  <2>1. v \in Seq(Bytes)
    BY SealedPacket, PacketsArePayloads
  <2>2. Len(v) = Size[u] /\ \A i \in 1 .. Size[u] : v[i].at = i
    BY <1>1 DEF Sealed
  <2>3. 1 .. Len(v) = 1 .. Size[u]
    BY <2>2
  <2> HIDE DEF v
  <2> QED  BY <2>1, <2>2, <2>3
<1> HIDE DEF v
<1>3. v # <<>>
  BY <1>1, <1>2, EmptySeq
<1>4. PICK k \in 1 .. Len(s) - 1 : v = SubSeq(s, 1, k) \o Zeroes(Len(s) - k)
  BY <1>3 DEF DamagedForms, v
<1> DEFINE a == SubSeq(s, 1, k)
           n == Len(s) - k
           z == Zeroes(n)
<1>5. s \in Seq(Bytes) /\ Len(s) \in Nat /\ k \in Nat /\ n \in Nat \ {0}
  <2>1. s \in Seq(Bytes) /\ Len(s) \in Nat
    BY LenProperties
  <2> QED  BY <1>4, <2>1
<1>6. a \in Seq(Bytes) /\ Len(a) = k
  <2>1. \A i \in 1 .. k : s[i] \in Bytes
    BY <1>4, <1>5
  <2> QED  BY <1>5, <2>1
<1> HIDE DEF a, n
<1>7. /\ z \in Seq(Bytes) /\ Len(z) = n /\ z[n].at = 0
  BY <1>5 DEF Zeroes, Digit, Bytes
<1> HIDE DEF z
<1>8. v = a \o z
  BY <1>4 DEF a, z, n
<1>9. Len(v) = k + n /\ v[k + n] = z[n]
  <2>1. /\ Len(a \o z) = Len(a) + Len(z)
        /\ \A i \in 1 .. Len(a) + Len(z) :
              (a \o z)[i] = IF i <= Len(a) THEN a[i] ELSE z[i - Len(a)]
    BY <1>6, <1>7, ConcatProperties
  <2>2. k + n \in 1 .. k + n /\ ~(k + n <= k) /\ (k + n) - k = n
    BY <1>5
  <2> QED  BY <1>6, <1>7, <1>8, <2>1, <2>2
<1>10. k + n \in 1 .. Len(v) /\ k + n # 0
  BY <1>5, <1>9
<1> QED  BY <1>2, <1>7, <1>9, <1>10

-----------------------------------------------------------------------------
(* The inductive invariant.                                                *)

\* The control of the server and of the clients.
ControlInv ==
    /\ \A c \in Clients : said[c] <= Len(Script[c])
    /\ pc = "recv" => cur \in registered
    /\ pc \in {"wait", "send"} => srx = <<>>
    /\ pc # "send" => sout = <<>> /\ todo = {}
    /\ sout # <<>> => to \in Clients

\* Every packet that goes to the members opens, unless a sender was cut off.
OpensOrCut(p) == Opens(p) \/ cutOff # {}

PacketInv ==
    /\ pc = "send" => pkt \in AnyPacket /\ OpensOrCut(pkt)
    /\ told \in [Clients -> Seq(AnyPacket)]
    /\ \A c \in Clients : \A i \in 1 .. Len(told[c]) : OpensOrCut(told[c][i])
    /\ \A c \in Clients : m_exitReason[c] # "None" => pc = "dead" \/ cutOff # {}

\* From a client to the server.  What is lost are the bytes send_all had yet
\* to send when the socket was closed, and those a RST dropped.  Once the
\* server made a packet of what came before, nothing is left to read.
Lines(c, n) == [i \in 1 .. n |-> Sealed(Script[c][i])]
Sent(c)    == Lines(c, said[c])
Unheard(c) == Behind(Sent(c), Len(heard[c]))
Got(c)     == IF cur = c THEN srx ELSE <<>>

UpFlow(c, lost) ==
    /\ Flow(Got(c), up[c] \o (out[c] \o lost), Unheard(c))
    /\ c \in open => lost = <<>>
    /\ c \notin open => out[c] = <<>>
    /\ lost # <<>> => c \in cutOff

HeardAll(c) == \A i \in 1 .. Len(heard[c]) : heard[c][i] = Sealed(Script[c][i])
Dry(c)      == c \notin open /\ up[c] = <<>> /\ Got(c) = <<>>

UpLink(c) ==
    /\ Len(heard[c]) <= said[c] /\ (HeardAll(c) \/ Dry(c))
    /\ \E lost \in Seq(Bytes) : UpFlow(c, lost)
UpInv == \A c \in registered : UpLink(c)

\* From the server to a client, until that closes its socket.  Bytes are lost
\* when the server ends.
Unread(c) == Behind(told[c], Len(read[c]))
ToGo(c)   == IF to = c THEN sout ELSE <<>>

DownFlow(c, lost) ==
    /\ Flow(crx[c], down[c] \o (ToGo(c) \o lost), Unread(c))
    /\ lost # <<>> => pc = "dead"

ReadOf(c) ==
    /\ Len(read[c]) <= Len(told[c])
    /\ \A i \in 1 .. Len(read[c]) :
          \/ read[c][i] = told[c][i]
          \/ /\ i = Len(read[c]) /\ c \notin open /\ pc = "dead"
             /\ read[c][i] \in DamagedForms(told[c][i])
    /\ \A i \in 1 .. Len(read[c]) : i < Len(read[c]) \/ c \in open => Opens(read[c][i])

DownLink(c) == ReadOf(c) /\ (c \in open => \E lost \in Seq(Bytes) : DownFlow(c, lost))
DownInv == \A c \in Clients : DownLink(c)

\* There is one log of packets: members that remain have been told all of
\* it, apart from the packet the server is at, the others a beginning.
Logged(log) ==
    /\ \A c \in Clients : IsPrefix(told[c], log)
    /\ \A c \in registered :
          pc # "dead" => log = IF c \in todo THEN Append(told[c], pkt) ELSE told[c]

\* Every packet of the log comes from somewhere, and every packet the server
\* heard is in it.
AccountOf(log, origin) ==
    /\ Traced(log, origin)
    /\ \A c \in Clients : \A k \in 1 .. Len(heard[c]) :
          \E i \in 1 .. Len(log) : origin[i] = <<c, k>>
Accounted(log) == \E origin \in Injection(1 .. Len(log), Origins) : AccountOf(log, origin)

OrderInv == \E log \in Seq(AnyPacket) : Logged(log) /\ Accounted(log)

IndInv == TypeOK /\ ControlInv /\ PacketInv /\ UpInv /\ DownInv /\ OrderInv

-----------------------------------------------------------------------------
(* Types of what the invariant is about.                                   *)

LEMMA LinesType ==
    ASSUME NEW c \in Clients, NEW n \in Nat, n <= Len(Script[c])
    PROVE  /\ Lines(c, n) \in Seq(AnyPacket) /\ Lines(c, n) \in Seq(Payloads)
           /\ Len(Lines(c, n)) = n
           /\ \A i \in 1 .. n : Script[c][i] \in Texts /\ Lines(c, n)[i] = Sealed(Script[c][i])
<1>1. Script[c] \in Seq(Texts)
  BY RelayAssumption
<1>2. Len(Script[c]) \in Nat /\ \A i \in 1 .. Len(Script[c]) : Script[c][i] \in Texts
  BY <1>1
<1>3. \A i \in 1 .. n : Script[c][i] \in Texts
  BY <1>2
<1>4. \A i \in 1 .. n : Sealed(Script[c][i]) \in AnyPacket
  BY <1>3, SealedPacket
<1>5. /\ Lines(c, n) \in Seq(AnyPacket) /\ Len(Lines(c, n)) = n
      /\ \A i \in 1 .. n : Lines(c, n)[i] = Sealed(Script[c][i])
  BY <1>4 DEF Lines
<1>6. Lines(c, n) \in Seq(Payloads)
  BY <1>5, PacketsArePayloads, SeqMonotonic
<1> QED  BY <1>3, <1>5, <1>6

LEMMA LinesNext ==
    ASSUME NEW c \in Clients, NEW n \in Nat, n < Len(Script[c])
    PROVE  Lines(c, n + 1) = Append(Lines(c, n), Sealed(Script[c][n + 1]))
<1> DEFINE p == Sealed(Script[c][n + 1])
           s == Lines(c, n + 1)
           l == Lines(c, n)
           t == Append(l, p)
<1>1. Len(Script[c]) \in Nat
  BY RelayAssumption, LenProperties
<1>2. /\ s \in Seq(Payloads) /\ Len(s) = n + 1
      /\ \A i \in 1 .. n + 1 : Script[c][i] \in Texts /\ s[i] = Sealed(Script[c][i])
  BY <1>1, LinesType
<1>3. /\ l \in Seq(Payloads) /\ Len(l) = n
      /\ \A i \in 1 .. n : l[i] = Sealed(Script[c][i])
  BY <1>1, LinesType
<1>4. p \in Payloads
  BY <1>2, SealedPacket
<1> HIDE DEF s, l
<1>5. t \in Seq(Payloads) /\ Len(t) = n + 1 /\ t[n + 1] = p /\ \A i \in 1 .. n : t[i] = l[i]
  <2> HIDE DEF p
  <2> QED  BY <1>3, <1>4, AppendProperties
<1> HIDE DEF t
<1>6. ASSUME NEW i \in 1 .. Len(s) PROVE s[i] = t[i]
  <2>1. i = n + 1 \/ i \in 1 .. n
    BY <1>2
  <2> QED  BY <1>2, <1>3, <1>5, <2>1
<1>7. s = t
  BY <1>2, <1>5, <1>6, SeqEqual
<1> QED  BY <1>7 DEF s, t, l

LEMMA LinkTypes ==
    ASSUME TypeOK, ControlInv, NEW c \in Clients
    PROVE  /\ up[c] \in Seq(Bytes) /\ down[c] \in Seq(Bytes)
           /\ out[c] \in Seq(Bytes) /\ crx[c] \in Seq(Bytes)
           /\ Got(c) \in Seq(Bytes) /\ ToGo(c) \in Seq(Bytes)
           /\ said[c] \in Nat /\ heard[c] \in Seq(Seq(Bytes)) /\ Len(heard[c]) \in Nat
           /\ read[c] \in Seq(Seq(Bytes)) /\ Len(read[c]) \in Nat
           /\ Sent(c) \in Seq(AnyPacket) /\ Sent(c) \in Seq(Payloads) /\ Len(Sent(c)) = said[c]
           /\ \A i \in 1 .. said[c] : Script[c][i] \in Texts /\ Sent(c)[i] = Sealed(Script[c][i])
<1>1. said[c] \in Nat /\ said[c] <= Len(Script[c])
  BY DEF TypeOK, ControlInv
<1>2. /\ Sent(c) \in Seq(AnyPacket) /\ Sent(c) \in Seq(Payloads) /\ Len(Sent(c)) = said[c]
      /\ \A i \in 1 .. said[c] : Script[c][i] \in Texts /\ Sent(c)[i] = Sealed(Script[c][i])
  BY <1>1, LinesType DEF Sent
<1>3. /\ up[c] \in Seq(Bytes) /\ down[c] \in Seq(Bytes)
      /\ out[c] \in Seq(Bytes) /\ crx[c] \in Seq(Bytes)
      /\ heard[c] \in Seq(Seq(Bytes)) /\ read[c] \in Seq(Seq(Bytes))
  BY DEF TypeOK
<1>4. Got(c) \in Seq(Bytes) /\ ToGo(c) \in Seq(Bytes)
  BY EmptySeq DEF TypeOK, Got, ToGo
<1>5. Len(heard[c]) \in Nat /\ Len(read[c]) \in Nat
  BY <1>3, LenProperties
<1> QED  BY <1>1, <1>2, <1>3, <1>4, <1>5

LEMMA UnheardType ==
    ASSUME TypeOK, ControlInv, NEW c \in Clients, Len(heard[c]) <= said[c]
    PROVE  /\ Unheard(c) \in Seq(Payloads) /\ Len(Unheard(c)) = said[c] - Len(heard[c])
           /\ Len(heard[c]) \in 0 .. Len(Sent(c))
<1>1. /\ Sent(c) \in Seq(Payloads) /\ Len(Sent(c)) = said[c]
      /\ said[c] \in Nat /\ Len(heard[c]) \in Nat
  BY LinkTypes
<1>2. Len(heard[c]) \in 0 .. Len(Sent(c))
  BY <1>1
<1> DEFINE s == Sent(c)
           n == Len(heard[c])
           b == Behind(s, n)
<1>3. s \in Seq(Payloads) /\ n \in 0 .. Len(s) /\ Len(s) = said[c]
  BY <1>1, <1>2
<1> HIDE DEF s, n
<1>4. b \in Seq(Payloads) /\ Len(b) = Len(s) - n
  BY <1>3, BehindElements
<1> HIDE DEF b
<1>5. b \in Seq(Payloads) /\ Len(b) = said[c] - n
  BY <1>3, <1>4
<1> QED  BY <1>2, <1>5 DEF b, s, n, Unheard

LEMMA UnreadType ==
    ASSUME TypeOK, PacketInv, DownInv, NEW c \in Clients
    PROVE  /\ told[c] \in Seq(AnyPacket) /\ told[c] \in Seq(Payloads)
           /\ Len(read[c]) \in 0 .. Len(told[c])
           /\ Unread(c) \in Seq(Payloads) /\ Len(Unread(c)) = Len(told[c]) - Len(read[c])
<1>1. told[c] \in Seq(AnyPacket) /\ read[c] \in Seq(Seq(Bytes)) /\ Len(read[c]) <= Len(told[c])
  BY DEF TypeOK, PacketInv, DownInv, DownLink, ReadOf
<1>2. told[c] \in Seq(Payloads)
  BY <1>1, PacketsArePayloads, SeqMonotonic
<1>3. Len(read[c]) \in Nat /\ Len(told[c]) \in Nat
  BY <1>1, LenProperties
<1>4. Len(read[c]) \in 0 .. Len(told[c])
  BY <1>1, <1>3
<1> QED  BY <1>1, <1>2, <1>4, BehindElements DEF Unread

-----------------------------------------------------------------------------
(* What a step does not touch.                                             *)

LEMMA UpLinkSame ==
    ASSUME NEW c \in Clients, UpLink(c),
           said'[c] = said[c], heard'[c] = heard[c], up'[c] = up[c], out'[c] = out[c],
           Got(c)' = Got(c), (c \in open)' <=> c \in open, cutOff \subseteq cutOff'
    PROVE  UpLink(c)'
<1>1. Sent(c)' = Sent(c)
  BY DEF Sent
<1>2. Unheard(c)' = Unheard(c)
  BY <1>1 DEF Unheard
<1>3. PICK lost \in Seq(Bytes) : UpFlow(c, lost)
  BY DEF UpLink
<1>4. UpFlow(c, lost)'
  BY <1>2, <1>3 DEF UpFlow
<1>5. Len(heard'[c]) <= said'[c] /\ (HeardAll(c) \/ Dry(c))'
  BY DEF UpLink, HeardAll, Dry
<1> QED  BY <1>4, <1>5 DEF UpLink

LEMMA DownLinkSame ==
    ASSUME NEW c \in Clients, DownLink(c),
           told'[c] = told[c], read'[c] = read[c], down'[c] = down[c], crx'[c] = crx[c],
           ToGo(c)' = ToGo(c), (c \in open)' <=> c \in open, pc = "dead" => pc' = "dead"
    PROVE  DownLink(c)'
<1>1. Unread(c)' = Unread(c)
  BY DEF Unread
<1>2. ReadOf(c)'
  BY DEF DownLink, ReadOf
<1>3. ASSUME c \in open, NEW lost \in Seq(Bytes), DownFlow(c, lost) PROVE DownFlow(c, lost)'
  BY <1>1, <1>3 DEF DownFlow
<1>4. ASSUME c \in open PROVE \E lost \in Seq(Bytes) : DownFlow(c, lost)'
  <2>1. PICK lost \in Seq(Bytes) : DownFlow(c, lost)
    BY <1>4 DEF DownLink
  <2> QED  BY <1>3, <1>4, <2>1
<1> QED  BY <1>2, <1>4 DEF DownLink

\* A closed socket asks for nothing but the packets that were read.
LEMMA DownLinkClosed ==
    ASSUME NEW c \in Clients, DownLink(c), told'[c] = told[c], read'[c] = read[c],
           c \notin open', open' \subseteq open, pc = "dead" => pc' = "dead"
    PROVE  DownLink(c)'
<1>1. ReadOf(c)'
  BY DEF DownLink, ReadOf
<1> QED  BY <1>1 DEF DownLink

LEMMA AccountSame ==
    ASSUME NEW log \in Seq(AnyPacket), Accounted(log), heard' = heard, registered' = registered
    PROVE  Accounted(log)'
<1>1. PICK origin \in Injection(1 .. Len(log), Origins) : AccountOf(log, origin)
  BY DEF Accounted
<1>2. Origins' = Origins
  BY DEF Origins
<1>3. \A p, o : StandsFor(p, o)' = StandsFor(p, o) /\ Earlier(o)' = Earlier(o)
  BY DEF StandsFor, Earlier
<1>4. Traced(log, origin)'
  BY <1>1, <1>3 DEF AccountOf, Traced
<1>5. AccountOf(log, origin)'
  BY <1>1, <1>4 DEF AccountOf
<1> QED  BY <1>1, <1>2, <1>5 DEF Accounted

LEMMA OrderSame ==
    ASSUME OrderInv, UNCHANGED <<registered, told, todo, pkt, heard>>,
           pc = "dead" => pc' = "dead"
    PROVE  OrderInv'
<1>1. PICK log \in Seq(AnyPacket) : Logged(log) /\ Accounted(log)
  BY DEF OrderInv
<1>2. Logged(log)'
  BY <1>1 DEF Logged
<1>3. Accounted(log)'
  BY <1>1, AccountSame
<1> QED  BY <1>2, <1>3 DEF OrderInv

LEMMA PacketSame ==
    ASSUME PacketInv, UNCHANGED <<pkt, told, m_exitReason>>,
           pc' = pc, cutOff \subseteq cutOff'
    PROVE  PacketInv'
BY DEF PacketInv, OpensOrCut

-----------------------------------------------------------------------------
(* The initial states.                                                     *)

LEMMA InitInv ==
    ASSUME Init
    PROVE  IndInv
<1>1. <<>> \in Seq(Bytes) /\ <<>> \in Seq(Seq(Bytes)) /\ <<>> \in Seq(AnyPacket) /\ Len(<<>>) = 0
  BY EmptySeq
<1> DEFINE e == <<>>
<1>2. e \in Seq(Bytes) /\ e \in Seq(Seq(Bytes)) /\ e \in Seq(AnyPacket) /\ Len(e) = 0
  BY <1>1
<1>3. e \o e = e /\ Flow(e, e, e)
  BY <1>1, ConcatEmptySeq, FlowNothing
<1>4. Init => /\ up = [c \in Clients |-> e] /\ down = [c \in Clients |-> e]
              /\ out = [c \in Clients |-> e] /\ crx = [c \in Clients |-> e]
              /\ read = [c \in Clients |-> e] /\ heard = [c \in Clients |-> e]
              /\ told = [c \in Clients |-> e] /\ srx = e /\ pkt = e /\ sout = e
  BY DEF Init
<1>5. ASSUME NEW s, NEW n \in Nat, Len(s) = 0, s \in Seq(AnyPacket) PROVE Behind(s, 0) = e
  BY <1>5, SubSeqEmpty DEF Behind
<1> HIDE DEF e
<1>6. TypeOK
  BY <1>2, <1>4 DEF Init, TypeOK
<1>7. ControlInv
  <2>1. ASSUME NEW c \in Clients PROVE said[c] <= Len(Script[c])
    <3>1. said[c] = 0
      BY DEF Init
    <3>2. Script[c] \in Seq(Texts)
      BY RelayAssumption
    <3>3. Len(Script[c]) \in Nat
      BY <3>2, LenProperties
    <3> QED  BY <3>1, <3>3
  <2> QED  BY <1>4, <2>1 DEF Init, ControlInv, e
<1>8. PacketInv
  BY <1>2, <1>4 DEF Init, PacketInv
<1>9. ASSUME NEW c \in Clients PROVE UpLink(c)
  <2>1. said[c] = 0 /\ heard[c] = e /\ up[c] = e /\ out[c] = e /\ Got(c) = e
    BY <1>4 DEF Init, Got, e
  <2>2. Sent(c) \in Seq(AnyPacket) /\ Len(Sent(c)) = 0
    BY <1>6, <1>7, <2>1, LinkTypes
  <2>3. Unheard(c) = e
    BY <1>2, <1>5, <2>1, <2>2 DEF Unheard
  <2>4. UpFlow(c, e)
    <3>1. c \in open
      BY DEF Init
    <3> QED  BY <1>3, <2>1, <2>3, <3>1 DEF UpFlow, e
  <2>5. Len(heard[c]) <= said[c]
    BY <1>2, <2>1
  <2>6. HeardAll(c)
    BY <1>2, <2>1 DEF HeardAll
  <2> QED  BY <1>2, <2>4, <2>5, <2>6 DEF UpLink
<1>10. ASSUME NEW c \in Clients PROVE DownLink(c)
  <2>1. told[c] = e /\ read[c] = e /\ down[c] = e /\ crx[c] = e /\ ToGo(c) = e
    BY <1>4 DEF ToGo, e
  <2>2. Unread(c) = e
    BY <1>2, <1>5, <2>1 DEF Unread
  <2>3. ReadOf(c)
    BY <1>2, <2>1 DEF ReadOf
  <2>4. DownFlow(c, e)
    BY <1>3, <2>1, <2>2 DEF DownFlow, e
  <2> QED  BY <1>2, <2>3, <2>4 DEF DownLink
<1>11. OrderInv
  <2>1. \A c \in Clients : told[c] = e /\ c \notin todo
    BY <1>4 DEF Init
  <2>2. IsPrefix(e, e)
    BY <1>2, PrefixSelf
  <2>3. registered = Clients
    BY DEF Init
  <2>4. Logged(e)
    BY <2>1, <2>2, <2>3 DEF Logged
  <2>5. Accounted(e)
    <3> DEFINE none == [i \in 1 .. 0 |-> <<>>]
    <3>1. none \in Injection(1 .. Len(e), Origins)
      BY <1>2 DEF Injection, IsInjective
    <3>2. AccountOf(e, none)
      BY <1>2, <1>4 DEF AccountOf, Traced
    <3> QED  BY <3>1, <3>2 DEF Accounted
  <2> QED  BY <1>2, <2>4, <2>5 DEF OrderInv
<1>12. registered = Clients
  BY DEF Init
<1> QED  BY <1>6, <1>7, <1>8, <1>9, <1>10, <1>11, <1>12 DEF IndInv, UpInv, DownInv

-----------------------------------------------------------------------------
(* The steps of ClientLoop.                                                *)

LEMMA SubmitLineInv ==
    ASSUME IndInv, NEW c \in Clients, SubmitLine(c)
    PROVE  IndInv'
<1>1. TypeOK /\ ControlInv /\ PacketInv /\ UpInv /\ DownInv /\ OrderInv
  BY DEF IndInv
<1>2. /\ c \in open /\ out[c] = <<>> /\ said[c] < Len(Script[c])
      /\ said' = [said EXCEPT ![c] = @ + 1]
      /\ out' = [out EXCEPT ![c] = Frame(Sealed(Script[c][said'[c]]))]
      /\ UNCHANGED <<up, down, open, reset, dead, crx, read, m_exitReason, cutOff>>
      /\ UNCHANGED <<registered, pc, cur, srx, heard, pkt, todo, to, sout, told, failed>>
  BY DEF SubmitLine, netVars, connVars, serverVars, recvVars, sendVars
<1> DEFINE n == said[c] + 1
           p == Sealed(Script[c][n])
<1>3. n \in Nat \ {0} /\ n <= Len(Script[c]) /\ said'[c] = n /\ Script[c][n] \in Texts
  <2>1. Script[c] \in Seq(Texts) /\ said[c] \in Nat
    BY <1>1, RelayAssumption DEF TypeOK
  <2>2. Len(Script[c]) \in Nat /\ n \in 1 .. Len(Script[c])
    BY <1>2, <2>1
  <2>3. said'[c] = n
    BY <1>1, <1>2 DEF TypeOK
  <2> QED  BY <2>1, <2>2, <2>3
<1>4. p \in AnyPacket /\ p \in Payloads /\ Frame(p) \in Seq(Bytes)
  BY <1>3, SealedPacket, FrameType
<1>5. out'[c] = Frame(p) /\ \A d \in Clients : d # c => out'[d] = out[d] /\ said'[d] = said[d]
  BY <1>1, <1>2, <1>3 DEF TypeOK
<1>6. TypeOK'
  BY <1>1, <1>2, <1>3, <1>4 DEF TypeOK
<1>7. ControlInv'
  BY <1>1, <1>2, <1>3, <1>5 DEF ControlInv
<1>8. PacketInv'
  BY <1>1, <1>2, PacketSame
<1>9. ASSUME NEW d \in registered' PROVE UpLink(d)'
  <2>1. d \in Clients /\ UpLink(d)
    BY <1>1, <1>2 DEF UpInv, TypeOK
  <2>2. Got(d)' = Got(d)
    BY <1>2 DEF Got
  <2>3. CASE d # c
    BY <1>2, <1>5, <2>1, <2>2, <2>3, UpLinkSame
  <2>4. CASE d = c
    <3> DEFINE ps == Unheard(c)
               qs == Append(ps, p)
    <3>1. PICK lost \in Seq(Bytes) : UpFlow(c, lost)
      BY <2>1, <2>4 DEF UpLink
    <3>2. lost = <<>> /\ Flow(Got(c), up[c] \o (<<>> \o <<>>), ps)
      BY <1>2, <3>1 DEF UpFlow
    <3>3. /\ up[c] \in Seq(Bytes) /\ Got(c) \in Seq(Bytes)
          /\ Len(heard[c]) <= said[c] /\ Len(heard[c]) \in Nat /\ said[c] \in Nat
      BY <1>1, <2>1, <2>4, LinkTypes DEF UpLink
    <3>4. Flow(Got(c), up[c], ps)
      <4>1. up[c] \o (<<>> \o <<>>) = up[c]
        BY <3>3, EmptySeq, ConcatEmptySeq
      <4> QED  BY <3>2, <4>1
    <3>5. ps \in Seq(Payloads) /\ Len(heard[c]) \in 0 .. Len(Sent(c))
      BY <1>1, <3>3, UnheardType
    <3>6. Unheard(c)' = qs
      <4>1. Sent(c)' = Append(Sent(c), p)
        BY <1>2, <1>3, <3>3, LinesNext DEF Sent
      <4>2. Sent(c) \in Seq(Payloads)
        BY <1>1, LinkTypes
      <4>3. Behind(Append(Sent(c), p), Len(heard[c])) = qs
        BY <1>4, <3>5, <4>2, BehindAppend DEF Unheard
      <4> QED  BY <1>2, <4>1, <4>3 DEF Unheard
    <3>7. Flow(Got(c), up[c] \o Frame(p), qs)
      BY <1>4, <3>3, <3>4, <3>5, FlowSend
    <3>8. Frame(p) \o <<>> = Frame(p)
      BY <1>4, ConcatEmptySeq
    <3> HIDE DEF ps, qs, p
    <3>9. UpFlow(c, <<>>)'
      BY <1>2, <1>5, <2>2, <2>4, <3>6, <3>7, <3>8 DEF UpFlow
    <3>10. Len(heard'[c]) <= said'[c]
      BY <1>2, <1>3, <3>3
    <3>11. HeardAll(c)'
      BY <1>2, <2>1, <2>4 DEF UpLink, HeardAll, Dry
    <3> QED  BY <2>4, <3>9, <3>10, <3>11, EmptySeq DEF UpLink
  <2> QED  BY <2>3, <2>4
<1>10. ASSUME NEW d \in Clients PROVE DownLink(d)'
  <2>1. DownLink(d) /\ ToGo(d)' = ToGo(d)
    BY <1>1, <1>2 DEF DownInv, ToGo
  <2> QED  BY <1>2, <2>1, DownLinkSame
<1>11. OrderInv'
  BY <1>1, <1>2, OrderSame
<1> QED  BY <1>6, <1>7, <1>8, <1>9, <1>10, <1>11 DEF IndInv, UpInv, DownInv

\* A byte of the line goes from send_all to the connection.
LEMMA ClientSendInv ==
    ASSUME IndInv, NEW c \in Clients, ClientSend(c)
    PROVE  IndInv'
<1>1. TypeOK /\ ControlInv /\ PacketInv /\ UpInv /\ DownInv /\ OrderInv
  BY DEF IndInv
<1>2. /\ c \in open /\ out[c] # <<>>
      /\ up' = [up EXCEPT ![c] = Append(@, Head(out[c]))]
      /\ out' = [out EXCEPT ![c] = Tail(@)]
      /\ UNCHANGED <<down, open, reset, dead, said, crx, read, m_exitReason, cutOff>>
      /\ UNCHANGED <<registered, pc, cur, srx, heard, pkt, todo, to, sout, told, failed>>
  BY DEF ClientSend, connVars, serverVars, recvVars, sendVars
<1>3. /\ up[c] \in Seq(Bytes) /\ out[c] \in Seq(Bytes)
      /\ Append(up[c], Head(out[c])) \in Seq(Bytes) /\ Tail(out[c]) \in Seq(Bytes)
      /\ Append(up[c], Head(out[c])) \o Tail(out[c]) = up[c] \o out[c]
  <2>1. up[c] \in Seq(Bytes) /\ out[c] \in Seq(Bytes)
    BY <1>1, LinkTypes
  <2> DEFINE o == out[c]
  <2>2. o \in Seq(Bytes) /\ o # <<>>
    BY <1>2, <2>1
  <2> HIDE DEF o
  <2>3. Append(up[c], Head(o)) \in Seq(Bytes) /\ Tail(o) \in Seq(Bytes)
        /\ Append(up[c], Head(o)) \o Tail(o) = up[c] \o o
    BY <2>1, <2>2, MoveHead
  <2> QED  BY <2>1, <2>3 DEF o
<1>4. /\ up'[c] = Append(up[c], Head(out[c])) /\ out'[c] = Tail(out[c])
      /\ \A d \in Clients : d # c => out'[d] = out[d] /\ up'[d] = up[d]
  BY <1>1, <1>2 DEF TypeOK
<1>5. TypeOK'
  BY <1>1, <1>2, <1>3 DEF TypeOK
<1>6. ControlInv'
  BY <1>1, <1>2 DEF ControlInv
<1>7. PacketInv'
  BY <1>1, <1>2, PacketSame
<1>8. ASSUME NEW d \in registered' PROVE UpLink(d)'
  <2>1. d \in Clients /\ UpLink(d) /\ Got(d)' = Got(d)
    BY <1>1, <1>2 DEF UpInv, TypeOK, Got
  <2>2. CASE d # c
    BY <1>2, <1>4, <2>1, <2>2, UpLinkSame
  <2>3. CASE d = c
    <3>1. PICK lost \in Seq(Bytes) : UpFlow(c, lost)
      BY <2>1, <2>3 DEF UpLink
    <3>2. lost = <<>>
      BY <1>2, <3>1 DEF UpFlow
    <3> DEFINE o == out'[c]
               u == up'[c]
    <3>3. u \in Seq(Bytes) /\ o \in Seq(Bytes) /\ u \o o = up[c] \o out[c]
      BY <1>3, <1>4, Zenon
    <3>4. o \o <<>> = o /\ out[c] \o <<>> = out[c]
      BY <1>3, <1>4, ConcatEmptySeq
    <3>5. Unheard(c)' = Unheard(c)
      BY <1>2 DEF Unheard, Sent
    <3> HIDE DEF o, u
    <3>6. Flow(Got(c)', u \o (o \o <<>>), Unheard(c)')
      BY <2>1, <2>3, <3>1, <3>2, <3>3, <3>4, <3>5 DEF UpFlow
    <3>7. UpFlow(c, <<>>)'
      BY <1>2, <3>6 DEF UpFlow, o, u
    <3>8. Len(heard'[c]) <= said'[c] /\ HeardAll(c)'
      BY <1>2, <2>1, <2>3 DEF UpLink, HeardAll, Dry
    <3> QED  BY <2>3, <3>7, <3>8, EmptySeq DEF UpLink
  <2> QED  BY <2>2, <2>3
<1>9. ASSUME NEW d \in Clients PROVE DownLink(d)'
  <2>1. DownLink(d) /\ ToGo(d)' = ToGo(d)
    BY <1>1, <1>2 DEF DownInv, ToGo
  <2> QED  BY <1>2, <2>1, DownLinkSame
<1>10. OrderInv'
  BY <1>1, <1>2, OrderSame
<1> QED  BY <1>5, <1>6, <1>7, <1>8, <1>9, <1>10 DEF IndInv, UpInv, DownInv

\* A socket is closed: what send_all had yet to send is lost, and the client
\* was cut off if that was anything.
LEMMA CloseSocketUp ==
    ASSUME IndInv, NEW c \in Clients, c \in open, CloseSocket(c),
           UNCHANGED <<up, said, registered, cur, srx, heard>>
    PROVE  UpInv'
<1>1. TypeOK /\ ControlInv /\ UpInv
  BY DEF IndInv
<1>2. /\ open' = open \ {c} /\ out' = [out EXCEPT ![c] = <<>>]
      /\ cutOff' = IF out[c] # <<>> THEN cutOff \cup {c} ELSE cutOff
  BY DEF CloseSocket
<1>3. c \notin open' /\ out'[c] = <<>> /\ \A d \in Clients : d # c => out'[d] = out[d]
  BY <1>1, <1>2 DEF TypeOK
<1>4. ASSUME NEW d \in registered' PROVE UpLink(d)'
  <2>1. d \in Clients /\ UpLink(d) /\ Got(d)' = Got(d)
    BY <1>1 DEF UpInv, TypeOK, Got
  <2>2. CASE d # c
    <3>1. (d \in open)' <=> d \in open
      BY <1>2, <2>2
    <3>2. cutOff \subseteq cutOff'
      BY <1>2
    <3> QED  BY <1>2, <1>3, <2>1, <2>2, <3>1, <3>2, UpLinkSame
  <2>3. CASE d = c
    <3>1. PICK lost \in Seq(Bytes) : UpFlow(c, lost)
      BY <2>1, <2>3 DEF UpLink
    <3>2. lost = <<>>
      BY <3>1 DEF UpFlow
    <3>3. PICK o \in Seq(Bytes) : o = out[c]
      BY <1>1, LinkTypes
    <3>4. <<>> \o o = o /\ o \o <<>> = o
      BY <3>3, ConcatEmptySeq
    <3>5. Unheard(c)' = Unheard(c)
      BY DEF Unheard, Sent
    <3>6. Flow(Got(c), up[c] \o (o \o <<>>), Unheard(c))
      BY <3>1, <3>2, <3>3 DEF UpFlow
    <3>7. o # <<>> => c \in cutOff'
      BY <1>2, <3>3
    <3>8. UpFlow(c, o)'
      BY <1>3, <2>1, <2>3, <3>4, <3>5, <3>6, <3>7 DEF UpFlow
    <3>9. Len(heard'[c]) <= said'[c] /\ HeardAll(c)'
      BY <2>1, <2>3 DEF UpLink, HeardAll, Dry
    <3> QED  BY <2>3, <3>3, <3>8, <3>9 DEF UpLink
  <2> QED  BY <2>2, <2>3
<1> QED  BY <1>4 DEF UpInv

LEMMA LeaveInv ==
    ASSUME IndInv, NEW c \in Clients, Leave(c)
    PROVE  IndInv'
<1>1. TypeOK /\ ControlInv /\ PacketInv /\ UpInv /\ DownInv /\ OrderInv
  BY DEF IndInv
<1>2. /\ c \in open /\ CloseSocket(c)
      /\ UNCHANGED <<up, said, read, m_exitReason>>
      /\ UNCHANGED <<registered, pc, cur, srx, heard, pkt, todo, to, sout, told, failed>>
  BY DEF Leave, serverVars, recvVars, sendVars
<1>3. /\ open' = open \ {c} /\ down' = [down EXCEPT ![c] = <<>>]
      /\ out' = [out EXCEPT ![c] = <<>>] /\ crx' = [crx EXCEPT ![c] = <<>>]
      /\ cutOff' = IF out[c] # <<>> THEN cutOff \cup {c} ELSE cutOff
      /\ reset' = reset /\ dead' = dead
  BY <1>2 DEF CloseSocket
<1>4. TypeOK'
  BY <1>1, <1>2, <1>3, EmptySeq DEF TypeOK
<1>5. ControlInv'
  BY <1>1, <1>2 DEF ControlInv
<1>6. PacketInv'
  BY <1>1, <1>2, <1>3, PacketSame
<1>7. UpInv'
  BY <1>2, CloseSocketUp
<1>8. ASSUME NEW d \in Clients PROVE DownLink(d)'
  <2>1. DownLink(d) /\ ToGo(d)' = ToGo(d)
    BY <1>1, <1>2 DEF DownInv, ToGo
  <2>2. CASE d # c
    <3>1. down'[d] = down[d] /\ crx'[d] = crx[d] /\ ((d \in open)' <=> d \in open)
      BY <1>1, <1>3, <2>2 DEF TypeOK
    <3> QED  BY <1>2, <2>1, <3>1, DownLinkSame
  <2>3. CASE d = c
    BY <1>2, <1>3, <2>1, <2>3, DownLinkClosed
  <2> QED  BY <2>2, <2>3
<1>9. OrderInv'
  BY <1>1, <1>2, OrderSame
<1> QED  BY <1>4, <1>5, <1>6, <1>7, <1>8, <1>9 DEF IndInv, DownInv

\* A RST drops the end of what the server had yet to read.
LEMMA ResetInv ==
    ASSUME IndInv, NEW c \in Clients, Reset(c)
    PROVE  IndInv'
<1>1. TypeOK /\ ControlInv /\ PacketInv /\ UpInv /\ DownInv /\ OrderInv
  BY DEF IndInv
<1>2. /\ c \notin open /\ c \notin reset /\ c \notin dead /\ reset' = reset \cup {c}
      /\ UNCHANGED <<down, open, dead, said, out, crx, read, m_exitReason>>
      /\ UNCHANGED <<registered, pc, cur, srx, heard, pkt, todo, to, sout, told, failed>>
  BY DEF Reset, serverVars, recvVars, sendVars
<1>3. PICK n \in 0 .. Len(up[c]) :
          /\ up' = [up EXCEPT ![c] = SubSeq(@, 1, n)]
          /\ cutOff' = IF n < Len(up[c]) THEN cutOff \cup {c} ELSE cutOff
  BY DEF Reset
<1>4. up[c] \in Seq(Bytes)
  BY <1>1, LinkTypes
<1>5. /\ SubSeq(up[c], 1, n) \in Seq(Bytes) /\ Behind(up[c], n) \in Seq(Bytes)
      /\ SubSeq(up[c], 1, n) \o Behind(up[c], n) = up[c]
      /\ Behind(up[c], n) # <<>> => n < Len(up[c])
      /\ up[c] = <<>> => SubSeq(up[c], 1, n) = <<>>
  BY <1>4, FrontAndBehind
<1>6. up'[c] = SubSeq(up[c], 1, n) /\ \A d \in Clients : d # c => up'[d] = up[d]
  BY <1>1, <1>3 DEF TypeOK
<1>7. TypeOK'
  BY <1>1, <1>2, <1>3, <1>5 DEF TypeOK
<1>8. ControlInv'
  BY <1>1, <1>2 DEF ControlInv
<1>9. cutOff \subseteq cutOff'
  BY <1>3
<1>10. PacketInv'
  BY <1>1, <1>2, <1>9, PacketSame
<1>11. ASSUME NEW d \in registered' PROVE UpLink(d)'
  <2>1. d \in Clients /\ UpLink(d) /\ Got(d)' = Got(d)
    BY <1>1, <1>2 DEF UpInv, TypeOK, Got
  <2>2. CASE d # c
    BY <1>2, <1>6, <1>9, <2>1, <2>2, UpLinkSame
  <2>3. CASE d = c
    <3>1. PICK lost \in Seq(Bytes) : UpFlow(c, lost)
      BY <2>1, <2>3 DEF UpLink
    <3>2. PICK u \in Seq(Bytes), b \in Seq(Bytes) :
             /\ u = up'[c] /\ b = Behind(up[c], n) /\ u \o b = up[c]
      BY <1>5, <1>6
    <3>3. out[c] = <<>> /\ Flow(Got(c), (u \o b) \o (<<>> \o lost), Unheard(c))
      BY <1>2, <3>1, <3>2 DEF UpFlow
    <3> DEFINE x == b \o lost
    <3>4. x \in Seq(Bytes) /\ <<>> \o lost = lost
      BY <3>1, <3>2, ConcatProperties, ConcatEmptySeq
    <3>5. (u \o b) \o lost = u \o x
      BY <3>1, <3>2, BytesAssociate
    <3>6. Flow(Got(c), u \o (<<>> \o x), Unheard(c))
      <4>1. (u \o b) \o (<<>> \o lost) = u \o x
        BY <3>4, <3>5
      <4> HIDE DEF x
      <4>2. <<>> \o x = x
        BY <3>4, ConcatEmptySeq
      <4> QED  BY <3>3, <4>1, <4>2
    <3>7. Unheard(c)' = Unheard(c)
      BY <1>2 DEF Unheard, Sent
    <3>8. x # <<>> => c \in cutOff'
      <4> SUFFICES ASSUME c \notin cutOff' PROVE x = <<>>
        OBVIOUS
      <4>1. lost = <<>>
        BY <1>9, <3>1 DEF UpFlow
      <4>2. b = <<>>
        BY <1>3, <1>5, <3>2
      <4> QED  BY <4>1, <4>2, ConcatEmptySeq
    <3> HIDE DEF x
    <3>9. UpFlow(c, x)'
      BY <1>2, <2>1, <2>3, <3>2, <3>3, <3>6, <3>7, <3>8 DEF UpFlow
    <3>10. Len(heard'[c]) <= said'[c]
      BY <1>2, <2>1, <2>3 DEF UpLink
    <3>11. HeardAll(c)' \/ Dry(c)'
      BY <1>2, <1>5, <1>6, <2>1, <2>3 DEF UpLink, HeardAll, Dry
    <3> QED  BY <2>3, <3>4, <3>9, <3>10, <3>11 DEF UpLink
  <2> QED  BY <2>2, <2>3
<1>12. ASSUME NEW d \in Clients PROVE DownLink(d)'
  <2>1. DownLink(d) /\ ToGo(d)' = ToGo(d)
    BY <1>1, <1>2 DEF DownInv, ToGo
  <2> QED  BY <1>2, <2>1, DownLinkSame
<1>13. OrderInv'
  BY <1>1, <1>2, OrderSame
<1> QED  BY <1>7, <1>8, <1>10, <1>11, <1>12, <1>13 DEF IndInv, UpInv, DownInv

\* Nothing but the next send() notices a RST that comes after a FIN.
LEMMA ResetLateInv ==
    ASSUME IndInv, NEW c \in Clients, ResetLate(c)
    PROVE  IndInv'
<1>1. TypeOK /\ ControlInv /\ PacketInv /\ UpInv /\ DownInv /\ OrderInv
  BY DEF IndInv
<1>2. /\ c \notin open /\ c \notin reset /\ dead' = dead \cup {c}
      /\ UNCHANGED <<up, down, open, reset, said, out, crx, read, m_exitReason, cutOff>>
      /\ UNCHANGED <<registered, pc, cur, srx, heard, pkt, todo, to, sout, told, failed>>
  BY DEF ResetLate, clientVars, serverVars, recvVars, sendVars
<1>3. TypeOK'
  BY <1>1, <1>2 DEF TypeOK
<1>4. ControlInv'
  BY <1>1, <1>2 DEF ControlInv
<1>5. PacketInv'
  BY <1>1, <1>2, PacketSame
<1>6. ASSUME NEW d \in registered' PROVE UpLink(d)'
  <2>1. d \in Clients /\ UpLink(d) /\ Got(d)' = Got(d)
    BY <1>1, <1>2 DEF UpInv, TypeOK, Got
  <2> QED  BY <1>2, <2>1, UpLinkSame
<1>7. ASSUME NEW d \in Clients PROVE DownLink(d)'
  <2>1. DownLink(d) /\ ToGo(d)' = ToGo(d)
    BY <1>1, <1>2 DEF DownInv, ToGo
  <2> QED  BY <1>2, <2>1, DownLinkSame
<1>8. OrderInv'
  BY <1>1, <1>2, OrderSame
<1> QED  BY <1>3, <1>4, <1>5, <1>6, <1>7, <1>8 DEF IndInv, UpInv, DownInv

-----------------------------------------------------------------------------
(* The steps of HandleBroadcast.                                           *)

LEMMA ClientRecvInv ==
    ASSUME IndInv, NEW c \in Clients, ClientRecv(c)
    PROVE  IndInv'
<1>1. TypeOK /\ ControlInv /\ PacketInv /\ UpInv /\ DownInv /\ OrderInv
  BY DEF IndInv
<1>2. /\ c \in open /\ down[c] # <<>> /\ Wanted(crx[c]) > 0
      /\ crx' = [crx EXCEPT ![c] = Append(@, Head(down[c]))]
      /\ down' = [down EXCEPT ![c] = Tail(@)]
      /\ UNCHANGED <<up, open, reset, dead, said, out, read, m_exitReason, cutOff>>
      /\ UNCHANGED <<registered, pc, cur, srx, heard, pkt, todo, to, sout, told, failed>>
  BY DEF ClientRecv, connVars, serverVars, recvVars, sendVars
<1>3. /\ crx[c] \in Seq(Bytes) /\ down[c] \in Seq(Bytes) /\ ToGo(c) \in Seq(Bytes)
      /\ Append(crx[c], Head(down[c])) \in Seq(Bytes) /\ Tail(down[c]) \in Seq(Bytes)
  <2>1. crx[c] \in Seq(Bytes) /\ down[c] \in Seq(Bytes) /\ ToGo(c) \in Seq(Bytes)
    BY <1>1, LinkTypes
  <2> QED  BY <1>2, <2>1, MoveHead
<1>4. /\ crx'[c] = Append(crx[c], Head(down[c])) /\ down'[c] = Tail(down[c])
      /\ \A d \in Clients : d # c => crx'[d] = crx[d] /\ down'[d] = down[d]
  BY <1>1, <1>2 DEF TypeOK
<1>5. TypeOK'
  BY <1>1, <1>2, <1>3 DEF TypeOK
<1>6. ControlInv'
  BY <1>1, <1>2 DEF ControlInv
<1>7. PacketInv'
  BY <1>1, <1>2, PacketSame
<1>8. ASSUME NEW d \in registered' PROVE UpLink(d)'
  <2>1. d \in Clients /\ UpLink(d) /\ Got(d)' = Got(d)
    BY <1>1, <1>2 DEF UpInv, TypeOK, Got
  <2> QED  BY <1>2, <2>1, UpLinkSame
<1>9. ASSUME NEW d \in Clients PROVE DownLink(d)'
  <2>1. DownLink(d) /\ ToGo(d)' = ToGo(d)
    BY <1>1, <1>2 DEF DownInv, ToGo
  <2>2. CASE d # c
    BY <1>2, <1>4, <2>1, <2>2, DownLinkSame
  <2>3. CASE d = c
    <3>1. PICK lost \in Seq(Bytes) : DownFlow(c, lost)
      BY <1>2, <2>1, <2>3 DEF DownLink
    <3> DEFINE z == ToGo(c) \o lost
               rest == down[c] \o z
    <3>2. z \in Seq(Bytes)
      BY <1>3, <3>1, ConcatProperties
    <3> HIDE DEF z
    <3>3. /\ rest \in Seq(Bytes) /\ rest # <<>> /\ Head(rest) = Head(down[c])
          /\ Tail(rest) = Tail(down[c]) \o z
      <4>1. rest \in Seq(Bytes)
        BY <1>3, <3>2, ConcatProperties
      <4> QED  BY <1>2, <1>3, <3>2, <4>1, HeadOfConcat
    <3>4. Flow(crx[c], rest, Unread(c)) /\ Unread(c) \in Seq(Payloads)
      BY <1>1, <2>3, <3>1, UnreadType DEF DownFlow, z
    <3> HIDE DEF rest
    <3>5. Flow(Append(crx[c], Head(rest)), Tail(rest), Unread(c))
      BY <1>2, <1>3, <3>3, <3>4, FlowRecv
    <3>6. Flow(crx'[c], down'[c] \o z, Unread(c))
      BY <1>4, <3>3, <3>5
    <3>7. Unread(c)' = Unread(c)
      BY <1>2 DEF Unread
    <3>8. DownFlow(c, lost)'
      BY <1>2, <2>1, <2>3, <3>1, <3>6, <3>7 DEF DownFlow, z
    <3>9. ReadOf(c)'
      BY <1>2, <2>1, <2>3 DEF DownLink, ReadOf
    <3> QED  BY <2>3, <3>1, <3>8, <3>9 DEF DownLink
  <2> QED  BY <2>2, <2>3
<1>10. OrderInv'
  BY <1>1, <1>2, OrderSame
<1> QED  BY <1>5, <1>6, <1>7, <1>8, <1>9, <1>10 DEF IndInv, UpInv, DownInv

\* A packet that RecvPacket returns is the next one the client was told.
LEMMA NextRead ==
    ASSUME IndInv, NEW c \in Clients, c \in open, Wanted(crx[c]) = 0
    PROVE  /\ Len(read[c]) < Len(told[c])
           /\ Body(crx[c]) = told[c][Len(read[c]) + 1]
           /\ Body(crx[c]) \in AnyPacket /\ OpensOrCut(Body(crx[c]))
           /\ \E lost \in Seq(Bytes) :
                 /\ Flow(<<>>, down[c] \o (ToGo(c) \o lost), Behind(told[c], Len(read[c]) + 1))
                 /\ lost # <<>> => pc = "dead"
<1>1. TypeOK /\ ControlInv /\ PacketInv /\ DownInv /\ DownLink(c)
  BY DEF IndInv, DownInv
<1>2. /\ crx[c] \in Seq(Bytes) /\ down[c] \in Seq(Bytes) /\ ToGo(c) \in Seq(Bytes)
      /\ Len(read[c]) \in Nat
  BY <1>1, LinkTypes
<1>3. PICK lost \in Seq(Bytes) : DownFlow(c, lost)
  BY <1>1 DEF DownLink
<1> DEFINE z == down[c] \o (ToGo(c) \o lost)
<1>4. z \in Seq(Bytes)
  BY <1>2, <1>3, ConcatProperties
<1>5. /\ told[c] \in Seq(AnyPacket) /\ told[c] \in Seq(Payloads)
      /\ Unread(c) \in Seq(Payloads) /\ Len(Unread(c)) = Len(told[c]) - Len(read[c])
      /\ Len(told[c]) \in Nat /\ Len(read[c]) <= Len(told[c])
  BY <1>1, UnreadType, LenProperties
<1>6. Flow(crx[c], z, Unread(c)) /\ (lost # <<>> => pc = "dead")
  BY <1>3 DEF DownFlow
<1> HIDE DEF z
<1>7. /\ Unread(c) # <<>> /\ Body(crx[c]) = Unread(c)[1]
      /\ Flow(<<>>, z, Tail(Unread(c)))
  BY <1>2, <1>4, <1>5, <1>6, FlowReturn
<1>8. Len(read[c]) < Len(told[c])
  <2>1. Len(Unread(c)) # 0
    BY <1>5, <1>7, EmptySeq
  <2> QED  BY <1>2, <1>5, <2>1
<1>9. /\ Unread(c)[1] = told[c][Len(read[c]) + 1]
      /\ Behind(told[c], Len(read[c]) + 1) = Tail(Unread(c))
  BY <1>2, <1>5, <1>8, BehindNext DEF Unread
<1>10. Len(read[c]) + 1 \in 1 .. Len(told[c])
  BY <1>2, <1>5, <1>8
<1>11. told[c][Len(read[c]) + 1] \in AnyPacket /\ OpensOrCut(told[c][Len(read[c]) + 1])
  BY <1>1, <1>5, <1>10 DEF PacketInv
<1>12. Flow(<<>>, z, Behind(told[c], Len(read[c]) + 1))
  BY <1>7, <1>9
<1> QED  BY <1>3, <1>6, <1>7, <1>8, <1>9, <1>11, <1>12 DEF z

\* It joins the packets that were read.
LEMMA ReadMore ==
    ASSUME TypeOK, NEW c \in Clients, ReadOf(c), c \in open,
           told'[c] = told[c], Len(read[c]) < Len(told[c]),
           NEW p \in Seq(Bytes), read'[c] = Append(read[c], p),
           \/ p = told[c][Len(read[c]) + 1]
           \/ /\ c \notin open' /\ pc' = "dead"
              /\ p \in DamagedForms(told[c][Len(read[c]) + 1]),
           c \in open' => Opens(p)
    PROVE  ReadOf(c)'
<1> DEFINE rd == read[c]
           s == read'[c]
           t == told[c]
<1>1. rd \in Seq(Seq(Bytes)) /\ t \in Seq(Seq(Bytes)) /\ s = Append(rd, p)
  BY DEF TypeOK
<1>2. /\ \A i \in 1 .. Len(rd) : rd[i] = t[i] /\ Opens(rd[i])
      /\ Len(rd) < Len(t)
  BY DEF ReadOf
<1>3. /\ \/ p = t[Len(rd) + 1]
         \/ /\ c \notin open' /\ pc' = "dead"
            /\ p \in DamagedForms(t[Len(rd) + 1])
      /\ c \in open' => Opens(p)
  OBVIOUS
<1>4. told'[c] = t
  OBVIOUS
<1> HIDE DEF rd, s, t
<1>5. /\ s \in Seq(Seq(Bytes)) /\ Len(s) = Len(rd) + 1 /\ s[Len(rd) + 1] = p
      /\ Len(rd) \in Nat /\ Len(t) \in Nat /\ \A i \in 1 .. Len(rd) : s[i] = rd[i]
  BY <1>1, AppendProperties, LenProperties
<1>6. Len(s) <= Len(t)
  BY <1>2, <1>5
<1>7. ASSUME NEW i \in 1 .. Len(s), i # Len(s) PROVE s[i] = t[i] /\ Opens(s[i])
  <2>1. i \in 1 .. Len(rd)
    BY <1>5, <1>7
  <2> QED  BY <1>2, <1>5, <2>1
<1>8. \A i \in 1 .. Len(s) :
          \/ s[i] = t[i]
          \/ /\ i = Len(s) /\ c \notin open' /\ pc' = "dead"
             /\ s[i] \in DamagedForms(t[i])
  BY <1>3, <1>5, <1>7
<1>9. \A i \in 1 .. Len(s) : i < Len(s) \/ c \in open' => Opens(s[i])
  <2> SUFFICES ASSUME NEW i \in 1 .. Len(s), i < Len(s) \/ c \in open' PROVE Opens(s[i])
    OBVIOUS
  <2>1. CASE i # Len(s)
    BY <1>7, <2>1
  <2>2. CASE i = Len(s)
    <3>1. ~(i < Len(s))
      BY <1>5, <2>2
    <3> QED  BY <1>3, <1>5, <2>2, <3>1
  <2> QED  BY <2>1, <2>2
<1> QED  BY <1>4, <1>6, <1>8, <1>9 DEF ReadOf, s

LEMMA ClientPacketInv ==
    ASSUME IndInv, NEW c \in Clients, ClientPacket(c)
    PROVE  IndInv'
<1>1. TypeOK /\ ControlInv /\ PacketInv /\ UpInv /\ DownInv /\ OrderInv
  BY DEF IndInv
<1> DEFINE p == Body(crx[c])
<1>2. /\ c \in open /\ Wanted(crx[c]) = 0
      /\ read' = [read EXCEPT ![c] = Append(@, p)]
      /\ UNCHANGED <<up, reset, dead, said>>
      /\ UNCHANGED <<registered, pc, cur, srx, heard, pkt, todo, to, sout, told, failed>>
  BY DEF ClientPacket, ServerClosed, CloseSocket, serverVars, recvVars, sendVars, netVars, connVars
<1>3. /\ Len(read[c]) < Len(told[c]) /\ p = told[c][Len(read[c]) + 1]
      /\ p \in AnyPacket /\ OpensOrCut(p)
  BY <1>1, <1>2, NextRead
<1>4. p \in Seq(Bytes)
  BY <1>3, PacketsArePayloads
<1>5. \/ /\ Opens(p)
         /\ crx' = [crx EXCEPT ![c] = <<>>]
         /\ UNCHANGED <<down, open, out, m_exitReason, cutOff>>
      \/ /\ ~Opens(p)
         /\ m_exitReason' = [m_exitReason EXCEPT ![c] = "ServerClosed"]
         /\ CloseSocket(c)
         /\ open' = open \ {c} /\ down' = [down EXCEPT ![c] = <<>>]
         /\ out' = [out EXCEPT ![c] = <<>>] /\ crx' = [crx EXCEPT ![c] = <<>>]
         /\ cutOff' = IF out[c] # <<>> THEN cutOff \cup {c} ELSE cutOff
  BY DEF ClientPacket, ServerClosed, CloseSocket, netVars, connVars
<1> HIDE DEF p
<1>6. TypeOK'
  <2>1. read' \in [Clients -> Seq(Seq(Bytes))]
    <3>1. read[c] \in Seq(Seq(Bytes))
      BY <1>1 DEF TypeOK
    <3>2. Append(read[c], p) \in Seq(Seq(Bytes))
      BY <1>4, <3>1, AppendProperties
    <3> QED  BY <1>1, <1>2, <3>2 DEF TypeOK
  <2>2. /\ down \in [Clients -> Seq(Bytes)] /\ out \in [Clients -> Seq(Bytes)]
        /\ crx \in [Clients -> Seq(Bytes)] /\ <<>> \in Seq(Bytes)
        /\ open \subseteq Clients /\ reset \subseteq Clients \ open
        /\ cutOff \subseteq Clients \ open
        /\ m_exitReason \in [Clients -> {"None", "ServerClosed"}]
    BY <1>1, EmptySeq DEF TypeOK
  <2>3. reset' = reset /\ dead' = dead /\ dead \subseteq (Clients \ open) \ reset
    BY <1>1, <1>2 DEF TypeOK
  <2>4. CASE Opens(p)
    <3>1. /\ crx' = [crx EXCEPT ![c] = <<>>]
          /\ UNCHANGED <<down, open, out, m_exitReason, cutOff>>
      BY <1>5, <2>4
    <3>2. crx' \in [Clients -> Seq(Bytes)]
      BY <2>2, <3>1
    <3> QED  BY <1>1, <1>2, <2>1, <3>1, <3>2 DEF TypeOK
  <2>5. CASE ~Opens(p)
    <3>1. /\ m_exitReason' = [m_exitReason EXCEPT ![c] = "ServerClosed"]
          /\ open' = open \ {c} /\ down' = [down EXCEPT ![c] = <<>>]
          /\ out' = [out EXCEPT ![c] = <<>>] /\ crx' = [crx EXCEPT ![c] = <<>>]
          /\ cutOff' = IF out[c] # <<>> THEN cutOff \cup {c} ELSE cutOff
      BY <1>5, <2>5
    <3>2. m_exitReason' \in [Clients -> {"None", "ServerClosed"}]
      BY <2>2, <3>1
    <3>3. down' \in [Clients -> Seq(Bytes)]
      BY <2>2, <3>1
    <3>4. out' \in [Clients -> Seq(Bytes)]
      BY <2>2, <3>1
    <3>5. crx' \in [Clients -> Seq(Bytes)]
      BY <2>2, <3>1
    <3>6. /\ open' \subseteq Clients /\ reset' \subseteq Clients \ open'
          /\ dead' \subseteq (Clients \ open') \ reset'
          /\ cutOff' \subseteq Clients \ open'
      BY <2>2, <2>3, <3>1
    <3> QED  BY <1>1, <1>2, <2>1, <3>2, <3>3, <3>4, <3>5, <3>6 DEF TypeOK
  <2> QED  BY <2>4, <2>5
<1>7. ControlInv'
  BY <1>1, <1>2 DEF ControlInv
<1>8. PacketInv'
  <2>1. cutOff \subseteq cutOff'
    BY <1>5
  <2>2. ASSUME NEW d \in Clients, m_exitReason'[d] # "None" PROVE pc' = "dead" \/ cutOff' # {}
    <3>1. CASE m_exitReason'[d] = m_exitReason[d]
      BY <1>1, <1>2, <2>1, <2>2, <3>1 DEF PacketInv
    <3>2. CASE m_exitReason'[d] # m_exitReason[d]
      <4>1. ~Opens(p)
        BY <1>5, <3>2
      <4> QED  BY <1>3, <2>1, <4>1 DEF OpensOrCut
    <3> QED  BY <3>1, <3>2
  <2> QED  BY <1>1, <1>2, <2>1, <2>2 DEF PacketInv, OpensOrCut
<1>9. UpInv'
  <2>1. CASE Opens(p)
    <3>1. ASSUME NEW d \in registered' PROVE UpLink(d)'
      <4>1. d \in Clients /\ UpLink(d) /\ Got(d)' = Got(d)
        BY <1>1, <1>2 DEF UpInv, TypeOK, Got
      <4> QED  BY <1>2, <1>5, <2>1, <4>1, UpLinkSame
    <3> QED  BY <3>1 DEF UpInv
  <2>2. CASE ~Opens(p)
    BY <1>2, <1>5, <2>2, CloseSocketUp
  <2> QED  BY <2>1, <2>2
<1>10. ASSUME NEW d \in Clients PROVE DownLink(d)'
  <2>1. DownLink(d) /\ ToGo(d)' = ToGo(d)
    BY <1>1, <1>2 DEF DownInv, ToGo
  <2>2. CASE d # c
    <3>1. /\ read'[d] = read[d] /\ crx'[d] = crx[d] /\ down'[d] = down[d]
          /\ (d \in open)' <=> d \in open
      BY <1>1, <1>2, <1>5, <2>2 DEF TypeOK
    <3> QED  BY <1>2, <2>1, <3>1, DownLinkSame
  <2>3. CASE d = c
    <3>1. ReadOf(c) /\ read'[c] = Append(read[c], p) /\ told'[c] = told[c]
      BY <1>1, <1>2, <2>1, <2>3 DEF TypeOK, DownLink
    <3>2. c \in open' => Opens(p)
      BY <1>5
    <3>3. ReadOf(c)'
      BY <1>1, <1>2, <1>3, <1>4, <3>1, <3>2, ReadMore
    <3>4. ASSUME c \in open' PROVE \E lost \in Seq(Bytes) : DownFlow(c, lost)'
      <4>1. crx'[c] = <<>> /\ down' = down
        BY <1>1, <1>5, <3>4 DEF TypeOK
      <4>2. Len(read'[c]) = Len(read[c]) + 1
        <5>1. read[c] \in Seq(Seq(Bytes))
          BY <1>1 DEF TypeOK
        <5> QED  BY <1>4, <3>1, <5>1, AppendProperties
      <4>3. Unread(c)' = Behind(told[c], Len(read[c]) + 1)
        BY <1>2, <4>2 DEF Unread
      <4>4. PICK lost \in Seq(Bytes) :
               /\ Flow(<<>>, down[c] \o (ToGo(c) \o lost), Behind(told[c], Len(read[c]) + 1))
               /\ lost # <<>> => pc = "dead"
        BY <1>1, <1>2, NextRead
      <4>5. DownFlow(c, lost)'
        BY <1>2, <2>1, <2>3, <4>1, <4>3, <4>4 DEF DownFlow
      <4> QED  BY <4>5
    <3> QED  BY <2>3, <3>3, <3>4 DEF DownLink
  <2> QED  BY <2>2, <2>3
<1>11. OrderInv'
  BY <1>1, <1>2, OrderSame
<1> QED  BY <1>6, <1>7, <1>8, <1>9, <1>10, <1>11 DEF IndInv, DownInv

\* The server ended, perhaps in the middle of a packet: what RecvPacket returns
\* is what became of that.
LEMMA LastRead ==
    ASSUME IndInv, NEW c \in Clients, c \in open, pc = "dead", down[c] = <<>>,
           Wanted(crx[c]) > 0, NEW p \in ReturnedAtEnd(crx[c])
    PROVE  /\ Len(read[c]) < Len(told[c]) /\ p \in Seq(Bytes)
           /\ p \in DamagedForms(told[c][Len(read[c]) + 1])
<1>1. TypeOK /\ ControlInv /\ PacketInv /\ DownInv /\ DownLink(c)
  BY DEF IndInv, DownInv
<1>2. crx[c] \in Seq(Bytes) /\ Len(read[c]) \in Nat
  BY <1>1, LinkTypes
<1>3. /\ told[c] \in Seq(Payloads) /\ Len(told[c]) \in Nat /\ Len(read[c]) <= Len(told[c])
      /\ Unread(c) \in Seq(Payloads) /\ Len(Unread(c)) = Len(told[c]) - Len(read[c])
  BY <1>1, UnreadType, LenProperties
<1>4. PICK lost \in Seq(Bytes) : DownFlow(c, lost)
  BY <1>1 DEF DownLink
<1>5. Flow(crx[c], lost, Unread(c))
  <2>1. ToGo(c) = <<>>
    BY <1>1 DEF ControlInv, ToGo
  <2>2. <<>> \o (<<>> \o lost) = lost
    BY <1>4, ConcatEmptySeq
  <2> QED  BY <1>4, <2>1, <2>2 DEF DownFlow
<1>6. Unread(c) # <<>> /\ p \in DamagedForms(Unread(c)[1])
  BY <1>2, <1>3, <1>4, <1>5, FlowEnd
<1>7. Len(read[c]) < Len(told[c])
  <2>1. Len(Unread(c)) # 0
    BY <1>3, <1>6, EmptySeq
  <2> QED  BY <1>2, <1>3, <2>1
<1>8. Unread(c)[1] = told[c][Len(read[c]) + 1]
  BY <1>2, <1>3, <1>7, BehindNext DEF Unread
<1>9. p \in Seq(Bytes)
  <2>1. Unread(c)[1] \in Payloads
    BY <1>3, <1>6, EmptySeq
  <2> QED  BY <1>6, <2>1, DamagedPacket DEF Payloads
<1> QED  BY <1>6, <1>7, <1>8, <1>9

LEMMA ClientEofInv ==
    ASSUME IndInv, NEW c \in Clients, ClientEof(c)
    PROVE  IndInv'
<1>1. TypeOK /\ ControlInv /\ PacketInv /\ UpInv /\ DownInv /\ OrderInv
  BY DEF IndInv
<1>2. /\ c \in open /\ pc = "dead" /\ down[c] = <<>> /\ Wanted(crx[c]) > 0
      /\ m_exitReason' = [m_exitReason EXCEPT ![c] = "ServerClosed"]
      /\ CloseSocket(c)
      /\ UNCHANGED <<up, said>>
      /\ UNCHANGED <<registered, pc, cur, srx, heard, pkt, todo, to, sout, told, failed>>
  BY DEF ClientEof, ServerClosed, serverVars, recvVars, sendVars
<1>3. /\ open' = open \ {c} /\ down' = [down EXCEPT ![c] = <<>>]
      /\ out' = [out EXCEPT ![c] = <<>>] /\ crx' = [crx EXCEPT ![c] = <<>>]
      /\ cutOff' = IF out[c] # <<>> THEN cutOff \cup {c} ELSE cutOff
      /\ reset' = reset /\ dead' = dead
  BY <1>2 DEF CloseSocket
<1>4. \/ read' = read
      \/ \E p \in ReturnedAtEnd(crx[c]) : read' = [read EXCEPT ![c] = Append(@, p)]
  BY DEF ClientEof
<1>5. ASSUME NEW p \in ReturnedAtEnd(crx[c]), read' = [read EXCEPT ![c] = Append(@, p)]
      PROVE  /\ read' \in [Clients -> Seq(Seq(Bytes))]
             /\ read'[c] = Append(read[c], p) /\ \A d \in Clients : d # c => read'[d] = read[d]
             /\ ReadOf(c)'
  <2>1. /\ Len(read[c]) < Len(told[c]) /\ p \in Seq(Bytes)
        /\ p \in DamagedForms(told[c][Len(read[c]) + 1])
    BY <1>2, LastRead
  <2>2. read \in [Clients -> Seq(Seq(Bytes))] /\ read[c] \in Seq(Seq(Bytes))
    BY <1>1 DEF TypeOK
  <2>3. Append(read[c], p) \in Seq(Seq(Bytes))
    BY <2>1, <2>2, AppendProperties
  <2>4. /\ read'[c] = Append(read[c], p) /\ \A d \in Clients : d # c => read'[d] = read[d]
        /\ read' \in [Clients -> Seq(Seq(Bytes))]
    BY <1>5, <2>2, <2>3
  <2>5. ReadOf(c) /\ told'[c] = told[c] /\ c \notin open' /\ pc' = "dead"
    BY <1>1, <1>2, <1>3 DEF DownInv, DownLink
  <2>6. ReadOf(c)'
    BY <1>1, <1>2, <2>1, <2>4, <2>5, ReadMore
  <2> QED  BY <2>4, <2>6
<1>6. /\ read' \in [Clients -> Seq(Seq(Bytes))]
      /\ \A d \in Clients : d # c => read'[d] = read[d]
  BY <1>1, <1>4, <1>5 DEF TypeOK
<1>7. TypeOK'
  BY <1>1, <1>2, <1>3, <1>6, EmptySeq DEF TypeOK
<1>8. ControlInv'
  BY <1>1, <1>2 DEF ControlInv
<1>9. PacketInv'
  BY <1>1, <1>2, <1>3 DEF PacketInv, OpensOrCut
<1>10. UpInv'
  BY <1>2, CloseSocketUp
<1>11. ASSUME NEW d \in Clients PROVE DownLink(d)'
  <2>1. DownLink(d) /\ ToGo(d)' = ToGo(d)
    BY <1>1, <1>2 DEF DownInv, ToGo
  <2>2. CASE d # c
    <3>1. down'[d] = down[d] /\ crx'[d] = crx[d] /\ ((d \in open)' <=> d \in open)
      BY <1>1, <1>3, <2>2 DEF TypeOK
    <3> QED  BY <1>2, <1>6, <2>1, <2>2, <3>1, DownLinkSame
  <2>3. CASE d = c
    <3>1. CASE read' = read
      BY <1>2, <1>3, <2>1, <2>3, <3>1, DownLinkClosed
    <3>2. CASE read' # read
      <4>1. ReadOf(c)'
        BY <1>4, <1>5, <3>2
      <4>2. c \notin open'
        BY <1>3
      <4> QED  BY <2>3, <4>1, <4>2 DEF DownLink
    <3> QED  BY <3>1, <3>2
  <2> QED  BY <2>2, <2>3
<1>12. OrderInv'
  BY <1>1, <1>2, OrderSame
<1> QED  BY <1>7, <1>8, <1>9, <1>10, <1>11, <1>12 DEF IndInv, DownInv

-----------------------------------------------------------------------------
(* The server receives.                                                    *)

LEMMA DispatchInv ==
    ASSUME IndInv, NEW c \in Clients, Dispatch(c)
    PROVE  IndInv'
<1>1. TypeOK /\ ControlInv /\ PacketInv /\ UpInv /\ DownInv /\ OrderInv
  BY DEF IndInv
<1>2. /\ pc = "wait" /\ c \in registered /\ pc' = "recv" /\ cur' = c /\ srx' = <<>>
      /\ UNCHANGED <<up, down, open, reset, dead, said, out, crx, read, m_exitReason, cutOff>>
      /\ UNCHANGED <<registered, heard, pkt, todo, to, sout, told, failed>>
  BY DEF Dispatch, netVars, connVars, clientVars, sendVars
<1>3. TypeOK'
  BY <1>1, <1>2, EmptySeq DEF TypeOK
<1>4. ControlInv'
  BY <1>1, <1>2 DEF ControlInv
<1>5. PacketInv'
  BY <1>1, <1>2 DEF PacketInv, OpensOrCut
<1>6. ASSUME NEW d \in registered' PROVE UpLink(d)'
  <2>1. d \in Clients /\ UpLink(d)
    BY <1>1, <1>2 DEF UpInv, TypeOK
  <2>2. Got(d)' = Got(d)
    BY <1>1, <1>2 DEF Got, ControlInv
  <2> QED  BY <1>2, <2>1, <2>2, UpLinkSame
<1>7. ASSUME NEW d \in Clients PROVE DownLink(d)'
  <2>1. DownLink(d) /\ ToGo(d)' = ToGo(d)
    BY <1>1, <1>2 DEF DownInv, ToGo
  <2> QED  BY <1>2, <2>1, DownLinkSame
<1>8. OrderInv'
  BY <1>1, <1>2, OrderSame
<1> QED  BY <1>3, <1>4, <1>5, <1>6, <1>7, <1>8 DEF IndInv, UpInv, DownInv

LEMMA ServerRecvInv ==
    ASSUME IndInv, ServerRecv
    PROVE  IndInv'
<1>1. TypeOK /\ ControlInv /\ PacketInv /\ UpInv /\ DownInv /\ OrderInv
  BY DEF IndInv
<1>2. /\ pc = "recv" /\ up[cur] # <<>> /\ Wanted(srx) > 0
      /\ srx' = Append(srx, Head(up[cur]))
      /\ up' = [up EXCEPT ![cur] = Tail(@)]
      /\ UNCHANGED <<down, open, reset, dead, said, out, crx, read, m_exitReason, cutOff>>
      /\ UNCHANGED <<registered, pc, cur, heard, pkt, todo, to, sout, told, failed>>
  BY DEF ServerRecv, connVars, clientVars, sendVars
<1>3. cur \in registered /\ cur \in Clients
  BY <1>1, <1>2 DEF ControlInv, TypeOK
<1>4. /\ srx \in Seq(Bytes) /\ up[cur] \in Seq(Bytes) /\ out[cur] \in Seq(Bytes)
      /\ Append(srx, Head(up[cur])) \in Seq(Bytes) /\ Tail(up[cur]) \in Seq(Bytes)
  <2>1. srx \in Seq(Bytes) /\ up[cur] \in Seq(Bytes) /\ out[cur] \in Seq(Bytes)
    BY <1>1, <1>3 DEF TypeOK
  <2> QED  BY <1>2, <2>1, MoveHead
<1>5. up'[cur] = Tail(up[cur]) /\ \A d \in Clients : d # cur => up'[d] = up[d]
  BY <1>1, <1>2, <1>3 DEF TypeOK
<1>6. TypeOK'
  BY <1>1, <1>2, <1>3, <1>4 DEF TypeOK
<1>7. ControlInv'
  BY <1>1, <1>2 DEF ControlInv
<1>8. PacketInv'
  BY <1>1, <1>2, PacketSame
<1>9. ASSUME NEW d \in registered' PROVE UpLink(d)'
  <2>1. d \in Clients /\ UpLink(d)
    BY <1>1, <1>2 DEF UpInv, TypeOK
  <2>2. CASE d # cur
    <3>1. Got(d)' = Got(d)
      BY <1>2, <2>2 DEF Got
    <3> QED  BY <1>2, <1>5, <2>1, <2>2, <3>1, UpLinkSame
  <2>3. CASE d = cur
    <3>1. PICK lost \in Seq(Bytes) : UpFlow(d, lost)
      BY <2>1 DEF UpLink
    <3> DEFINE o == out[cur] \o lost
               rest == up[cur] \o o
    <3>2. o \in Seq(Bytes)
      BY <1>4, <3>1, ConcatProperties
    <3>3. Got(d) = srx /\ Got(d)' = Append(srx, Head(up[cur]))
      BY <1>2, <2>3 DEF Got
    <3>4. Flow(srx, rest, Unheard(d)) /\ Unheard(d) \in Seq(Payloads)
      <4>1. Unheard(d) \in Seq(Payloads)
        BY <1>1, <2>1, UnheardType DEF UpLink
      <4> QED  BY <2>3, <3>1, <3>3, <4>1 DEF UpFlow
    <3> HIDE DEF o
    <3>5. /\ rest \in Seq(Bytes) /\ rest # <<>> /\ Head(rest) = Head(up[cur])
          /\ Tail(rest) = Tail(up[cur]) \o o
      BY <1>2, <1>4, <3>2, ConcatProperties, HeadOfConcat
    <3> HIDE DEF rest
    <3>6. Flow(Append(srx, Head(rest)), Tail(rest), Unheard(d))
      BY <1>2, <1>4, <3>4, <3>5, FlowRecv
    <3>7. Unheard(d)' = Unheard(d)
      BY <1>2 DEF Unheard, Sent
    <3>8. Flow(Got(d)', up'[d] \o (out'[d] \o lost), Unheard(d)')
      BY <1>2, <1>5, <2>3, <3>3, <3>5, <3>6, <3>7 DEF o
    <3>9. UpFlow(d, lost)'
      BY <1>2, <3>1, <3>7, <3>8 DEF UpFlow
    <3>10. Len(heard'[d]) <= said'[d] /\ HeardAll(d)'
      BY <1>2, <2>1, <2>3 DEF UpLink, HeardAll, Dry
    <3> QED  BY <3>9, <3>10 DEF UpLink
  <2> QED  BY <2>2, <2>3
<1>10. ASSUME NEW d \in Clients PROVE DownLink(d)'
  <2>1. DownLink(d) /\ ToGo(d)' = ToGo(d)
    BY <1>1, <1>2 DEF DownInv, ToGo
  <2> QED  BY <1>2, <2>1, DownLinkSame
<1>11. OrderInv'
  BY <1>1, <1>2, OrderSame
<1> QED  BY <1>6, <1>7, <1>8, <1>9, <1>10, <1>11 DEF IndInv, UpInv, DownInv

\* What recv_all completed is the next line of the client.
LEMMA NextHeard ==
    ASSUME IndInv, pc = "recv", Wanted(srx) = 0
    PROVE  /\ cur \in Clients /\ cur \in registered
           /\ Len(heard[cur]) < said[cur]
           /\ Body(srx) = Sent(cur)[Len(heard[cur]) + 1]
           /\ Body(srx) \in AnyPacket /\ Opens(Body(srx)) /\ HeardAll(cur)
           /\ Unheard(cur) \in Seq(Payloads) /\ Unheard(cur) # <<>>
           /\ Behind(Sent(cur), Len(heard[cur]) + 1) = Tail(Unheard(cur))
           /\ \A lost \in Seq(Bytes) : UpFlow(cur, lost) =>
                 Flow(<<>>, up[cur] \o (out[cur] \o lost), Tail(Unheard(cur)))
<1>1. TypeOK /\ ControlInv /\ UpInv
  BY DEF IndInv
<1>2. cur \in registered /\ cur \in Clients /\ UpLink(cur)
  BY <1>1 DEF ControlInv, TypeOK, UpInv
<1>3. /\ up[cur] \in Seq(Bytes) /\ out[cur] \in Seq(Bytes) /\ srx \in Seq(Bytes)
      /\ said[cur] \in Nat /\ Len(heard[cur]) \in Nat
      /\ Sent(cur) \in Seq(Payloads) /\ Len(Sent(cur)) = said[cur]
      /\ \A i \in 1 .. said[cur] : Script[cur][i] \in Texts /\ Sent(cur)[i] = Sealed(Script[cur][i])
  BY <1>1, <1>2, LinkTypes DEF TypeOK
<1>4. /\ Len(heard[cur]) <= said[cur]
      /\ Unheard(cur) \in Seq(Payloads) /\ Len(Unheard(cur)) = said[cur] - Len(heard[cur])
  BY <1>1, <1>2, UnheardType DEF UpLink
<1>5. ASSUME NEW lost \in Seq(Bytes), UpFlow(cur, lost)
      PROVE  /\ Unheard(cur) # <<>> /\ Body(srx) = Unheard(cur)[1]
             /\ Flow(<<>>, up[cur] \o (out[cur] \o lost), Tail(Unheard(cur)))
  <2> DEFINE rest == up[cur] \o (out[cur] \o lost)
  <2>1. rest \in Seq(Bytes)
    <3>1. out[cur] \o lost \in Seq(Bytes)
      BY <1>3, ConcatProperties
    <3> QED  BY <1>3, <3>1, ConcatProperties
  <2>2. Got(cur) = srx
    BY DEF Got
  <2>3. Flow(srx, rest, Unheard(cur))
    BY <1>5, <2>2 DEF UpFlow
  <2> HIDE DEF rest
  <2>4. /\ Unheard(cur) # <<>> /\ Body(srx) = Unheard(cur)[1]
        /\ Flow(<<>>, rest, Tail(Unheard(cur)))
    BY <1>3, <1>4, <2>1, <2>3, FlowReturn
  <2> QED  BY <2>4 DEF rest
<1>6. Unheard(cur) # <<>> /\ Body(srx) = Unheard(cur)[1]
  BY <1>2, <1>5 DEF UpLink
<1>7. Len(heard[cur]) < said[cur]
  <2>1. Len(Unheard(cur)) # 0
    BY <1>4, <1>6, EmptySeq
  <2> QED  BY <1>3, <1>4, <2>1
<1>8. /\ Unheard(cur)[1] = Sent(cur)[Len(heard[cur]) + 1]
      /\ Behind(Sent(cur), Len(heard[cur]) + 1) = Tail(Unheard(cur))
  BY <1>3, <1>7, BehindNext DEF Unheard
<1>9. Len(heard[cur]) + 1 \in 1 .. said[cur]
  BY <1>3, <1>7
<1>10. Body(srx) \in AnyPacket /\ Opens(Body(srx))
  BY <1>3, <1>6, <1>8, <1>9, SealedPacket
<1>11. HeardAll(cur)
  <2>1. srx # <<>>
    <3> SUFFICES ASSUME srx = <<>> PROVE Wanted(srx) # 0
      OBVIOUS
    <3> QED  BY EmptySeq, ConstantTypes DEF Wanted, InHeader
  <2> QED  BY <1>2, <2>1 DEF UpLink, Dry, Got
<1> QED  BY <1>2, <1>4, <1>5, <1>6, <1>7, <1>8, <1>10, <1>11

\* The connection ended in the middle of a packet, the next one of a client
\* that was cut off.
LEMMA LastHeard ==
    ASSUME IndInv, RecvEnds, NEW p \in ReturnedAtEnd(srx)
    PROVE  /\ cur \in Clients /\ cur \in registered /\ cur \in cutOff /\ HeardAll(cur)
           /\ Len(heard[cur]) < said[cur]
           /\ p \in DamagedForms(Sent(cur)[Len(heard[cur]) + 1]) /\ p \in AnyPacket
           /\ out[cur] = <<>>
           /\ Behind(Sent(cur), Len(heard[cur]) + 1) = Tail(Unheard(cur))
           /\ \E rest \in Seq(Bytes) : Flow(<<>>, rest, Tail(Unheard(cur)))
<1>1. TypeOK /\ ControlInv /\ UpInv
  BY DEF IndInv
<1>2. pc = "recv" /\ cur \notin open /\ up[cur] = <<>> /\ Wanted(srx) > 0
  BY DEF RecvEnds
<1>3. cur \in registered /\ cur \in Clients /\ UpLink(cur)
  BY <1>1, <1>2 DEF ControlInv, TypeOK, UpInv
<1>4. /\ srx \in Seq(Bytes) /\ said[cur] \in Nat /\ Len(heard[cur]) \in Nat
      /\ Sent(cur) \in Seq(Payloads) /\ Len(Sent(cur)) = said[cur]
      /\ \A i \in 1 .. said[cur] : Script[cur][i] \in Texts /\ Sent(cur)[i] = Sealed(Script[cur][i])
  BY <1>1, <1>3, LinkTypes DEF TypeOK
<1> DEFINE ps == Unheard(cur)
<1>5. /\ Len(heard[cur]) <= said[cur]
      /\ ps \in Seq(Payloads) /\ Len(ps) = said[cur] - Len(heard[cur])
  BY <1>1, <1>3, UnheardType DEF UpLink
<1>6. PICK lost \in Seq(Bytes) : UpFlow(cur, lost)
  BY <1>3 DEF UpLink
<1>7. out[cur] = <<>> /\ <<>> \o (<<>> \o lost) = lost
  BY <1>2, <1>6, ConcatEmptySeq DEF UpFlow
<1>8. Flow(srx, lost, ps)
  <2>1. Got(cur) = srx
    BY <1>2 DEF Got
  <2>2. Flow(Got(cur), up[cur] \o (out[cur] \o lost), ps)
    BY <1>6 DEF UpFlow
  <2> QED  BY <1>2, <1>7, <2>1, <2>2
<1> HIDE DEF ps
<1>9. /\ ps # <<>> /\ p \in DamagedForms(ps[1])
      /\ \E rest \in Seq(Bytes) : Flow(<<>>, rest, Tail(ps))
  BY <1>2, <1>4, <1>5, <1>6, <1>8, FlowEnd
<1>10. Len(heard[cur]) < said[cur]
  <2>1. Len(ps) # 0
    BY <1>5, <1>9, EmptySeq
  <2> QED  BY <1>4, <1>5, <2>1
<1>11. /\ ps[1] = Sent(cur)[Len(heard[cur]) + 1]
       /\ Behind(Sent(cur), Len(heard[cur]) + 1) = Tail(ps)
  BY <1>4, <1>10, BehindNext DEF Unheard, ps
<1>12. p \in AnyPacket
  <2>1. Len(heard[cur]) + 1 \in 1 .. said[cur]
    BY <1>4, <1>10
  <2>2. \E t \in Texts : ps[1] = Sealed(t)
    BY <1>4, <1>11, <2>1
  <2> QED  BY <1>9, <2>2, SealedPacket
<1>13. srx # <<>>
  BY ReturnedOfNothing
<1>14. cur \in cutOff
  <2>1. lost # <<>>
    BY <1>2, <1>4, <1>5, <1>8, <1>13, FlowDry
  <2> QED  BY <1>6, <2>1 DEF UpFlow
<1>15. HeardAll(cur)
  BY <1>3, <1>13 DEF UpLink, Dry, Got
<1> QED  BY <1>3, <1>7, <1>9, <1>10, <1>11, <1>12, <1>14, <1>15 DEF ps

\* A packet that was heard joins those before it.
LEMMA HeardMore ==
    ASSUME TypeOK, ControlInv, NEW c \in Clients, HeardAll(c), Len(heard[c]) < said[c],
           heard' = [heard EXCEPT ![c] = Append(@, Sent(c)[Len(heard[c]) + 1])]
    PROVE  HeardAll(c)'
<1> DEFINE h == heard[c]
           p == Sent(c)[Len(h) + 1]
           g == heard'[c]
<1>1. /\ h \in Seq(Seq(Bytes)) /\ Len(h) \in Nat /\ said[c] \in Nat
      /\ \A i \in 1 .. said[c] : Script[c][i] \in Texts /\ Sent(c)[i] = Sealed(Script[c][i])
  BY LinkTypes
<1>2. Len(h) + 1 \in 1 .. said[c]
  BY <1>1
<1>3. p = Sealed(Script[c][Len(h) + 1]) /\ p \in Seq(Bytes)
  BY <1>1, <1>2, SealedPacket, PacketsArePayloads
<1>4. g = Append(h, p)
  BY DEF TypeOK
<1>5. \A i \in 1 .. Len(h) : h[i] = Sealed(Script[c][i])
  BY DEF HeardAll
<1> HIDE DEF h, p, g
<1>6. /\ Len(g) = Len(h) + 1 /\ g[Len(h) + 1] = p
      /\ \A i \in 1 .. Len(h) : g[i] = h[i]
  BY <1>1, <1>3, <1>4, AppendProperties
<1>7. ASSUME NEW i \in 1 .. Len(g) PROVE g[i] = Sealed(Script[c][i])
  <2>1. i \in 1 .. Len(h) \/ i = Len(h) + 1
    BY <1>1, <1>6
  <2> QED  BY <1>3, <1>5, <1>6, <2>1
<1> QED  BY <1>7 DEF HeardAll, g

\* The log grows by a packet the server has heard, or by a farewell.
LEMMA AccountMore ==
    ASSUME NEW log \in Seq(AnyPacket), NEW p \in AnyPacket, Accounted(log),
           NEW c \in registered, NEW k \in Nat,
           registered \subseteq Clients, heard \in [Clients -> Seq(Seq(Bytes))],
           \/ /\ k = 0 /\ p = Sealed(Farewell[c])
              /\ registered' = registered \ {c} /\ heard' = heard
           \/ /\ k = Len(heard[c]) + 1 /\ p \in Seq(Bytes)
              /\ registered' = registered /\ heard' = [heard EXCEPT ![c] = Append(@, p)]
    PROVE  Accounted(Append(log, p))'
<1> DEFINE o == <<c, k>>
           n == Len(log)
           next == Append(log, p)
<1>1. PICK origin \in Injection(1 .. n, Origins) : AccountOf(log, origin)
  BY DEF Accounted
<1> DEFINE more == [i \in 1 .. n + 1 |-> IF i <= n THEN origin[i] ELSE o]
<1>2. /\ n \in Nat /\ next \in Seq(AnyPacket) /\ Len(next) = n + 1 /\ next[n + 1] = p
      /\ \A i \in 1 .. n : next[i] = log[i]
  BY AppendProperties, LenProperties
<1>3. /\ c \in Clients /\ \A d \in Clients : Len(heard[d]) \in Nat
      /\ registered' \subseteq registered
  BY LenProperties
<1>4. ASSUME NEW d \in Clients
      PROVE  /\ d # c => heard'[d] = heard[d]
             /\ d \notin registered => heard'[d] = heard[d]
             /\ Len(heard'[d]) \in Nat /\ Len(heard[d]) <= Len(heard'[d])
             /\ \A j \in 1 .. Len(heard[d]) : heard'[d][j] = heard[d][j]
  <2>1. CASE heard' = heard
    BY <1>3, <2>1
  <2>2. CASE p \in Seq(Bytes) /\ heard' = [heard EXCEPT ![c] = Append(@, p)]
    <3>1. CASE d # c
      BY <1>3, <2>2, <3>1
    <3>2. CASE d = c
      <4>1. heard[c] \in Seq(Seq(Bytes)) /\ heard'[c] = Append(heard[c], p)
        BY <1>3, <2>2
      <4>2. /\ Len(Append(heard[c], p)) = Len(heard[c]) + 1
            /\ \A j \in 1 .. Len(heard[c]) : Append(heard[c], p)[j] = heard[c][j]
        BY <2>2, <4>1, AppendProperties
      <4> QED  BY <1>3, <3>2, <4>1, <4>2
    <3> QED  BY <3>1, <3>2
  <2> QED  BY <2>1, <2>2
<1>5. /\ origin \in [1 .. n -> Origins] /\ IsInjective(origin) /\ Traced(log, origin)
      /\ \A d \in Clients : \A m \in 1 .. Len(heard[d]) : \E i \in 1 .. n : origin[i] = <<d, m>>
  BY <1>1 DEF Injection, AccountOf
<1> HIDE DEF n, next
<1>6. ASSUME NEW i \in 1 .. n
      PROVE  /\ origin[i] \in Origins' /\ origin[i] # o
             /\ StandsFor(log[i], origin[i])' /\ Earlier(origin[i])' = Earlier(origin[i])
  <2>1. PICK d \in Clients : \E m \in 0 .. Len(heard[d]) : origin[i] = <<d, m>>
    BY <1>5 DEF Origins
  <2> PICK m \in 0 .. Len(heard[d]) : origin[i] = <<d, m>>
    BY <2>1
  <2>2. StandsFor(log[i], <<d, m>>)
    BY <1>5, <2>1 DEF Traced, n
  <2>3. m \in 0 .. Len(heard'[d])
    BY <1>3, <1>4
  <2>4. <<d, m>> \in Origins'
    BY <2>3 DEF Origins
  <2>5. <<d, m>> # o
    <3>1. CASE m = 0
      BY <2>2, <3>1 DEF StandsFor
    <3>2. CASE m # 0
      BY <1>3, <3>2
    <3> QED  BY <3>1, <3>2
  <2>6. StandsFor(log[i], <<d, m>>)' /\ Earlier(<<d, m>>)' = Earlier(<<d, m>>)
    <3>1. CASE m = 0
      <4>1. d \notin registered /\ log[i] = Sealed(Farewell[d]) /\ heard'[d] = heard[d]
        BY <1>4, <2>2, <3>1 DEF StandsFor
      <4> QED  BY <1>3, <3>1, <4>1 DEF StandsFor, Earlier
    <3>2. CASE m # 0
      <4>1. m \in 1 .. Len(heard[d])
        BY <1>3, <3>2
      <4> QED  BY <1>4, <2>2, <3>2, <4>1 DEF StandsFor, Earlier
    <3> QED  BY <3>1, <3>2
  <2> QED  BY <2>1, <2>4, <2>5, <2>6
<1>7. o \in Origins' /\ StandsFor(p, o)'
  <2>1. CASE k = 0 /\ p = Sealed(Farewell[c]) /\ registered' = registered \ {c}
    <3>1. k \in 0 .. Len(heard'[c])
      BY <1>3, <1>4, <2>1
    <3> QED  BY <1>3, <2>1, <3>1 DEF Origins, StandsFor
  <2>2. CASE /\ k = Len(heard[c]) + 1 /\ p \in Seq(Bytes)
             /\ heard' = [heard EXCEPT ![c] = Append(@, p)]
    <3>1. heard[c] \in Seq(Seq(Bytes)) /\ heard'[c] = Append(heard[c], p)
      BY <1>3, <2>2
    <3>2. Len(heard'[c]) = k /\ heard'[c][k] = p
      BY <2>2, <3>1, AppendProperties
    <3>3. k \in 0 .. Len(heard'[c]) /\ k # 0
      BY <1>3, <2>2, <3>2
    <3> QED  BY <1>3, <3>2, <3>3 DEF Origins, StandsFor
  <2> QED  BY <2>1, <2>2
<1>8. ASSUME NEW e \in Earlier(o)' PROVE \E i \in 1 .. n : origin[i] = e
  <2>1. PICK m \in 1 .. Len(heard[c]) : e = <<c, m>>
    <3>1. CASE k = 0 /\ heard' = heard
      BY <3>1 DEF Earlier
    <3>2. CASE k = Len(heard[c]) + 1
      BY <1>3, <3>2 DEF Earlier
    <3> QED  BY <3>1, <3>2
  <2> QED  BY <1>3, <1>5, <2>1
<1>9. /\ more \in [1 .. n + 1 -> Origins'] /\ more[n + 1] = o
      /\ \A i \in 1 .. n : more[i] = origin[i]
  BY <1>2, <1>6, <1>7
<1> HIDE DEF more, o
<1>10. IsInjective(more)
  <2>1. ASSUME NEW i \in 1 .. n + 1, NEW j \in 1 .. n + 1, more[i] = more[j] PROVE i = j
    <3>1. CASE i \in 1 .. n /\ j \in 1 .. n
      BY <1>5, <1>9, <2>1, <3>1 DEF IsInjective
    <3>2. CASE i = n + 1 /\ j \in 1 .. n
      BY <1>6, <1>9, <2>1, <3>2
    <3>3. CASE i \in 1 .. n /\ j = n + 1
      BY <1>6, <1>9, <2>1, <3>3
    <3>4. CASE i = n + 1 /\ j = n + 1
      BY <3>4
    <3> QED  BY <1>2, <3>1, <3>2, <3>3, <3>4
  <2>2. DOMAIN more = 1 .. n + 1
    BY <1>9
  <2> QED  BY <2>1, <2>2 DEF IsInjective
<1>11. ASSUME NEW i \in 1 .. n + 1
       PROVE  /\ StandsFor(next[i], more[i])'
              /\ \A e \in Earlier(more[i])' : \E j \in 1 .. i - 1 : more[j] = e
  <2>1. CASE i \in 1 .. n
    <3>1. ASSUME NEW e \in Earlier(origin[i]) PROVE \E j \in 1 .. i - 1 : more[j] = e
      <4>1. PICK j \in 1 .. i - 1 : origin[j] = e
        BY <1>5, <2>1, <3>1 DEF Traced, n
      <4>2. j \in 1 .. n
        BY <1>2, <2>1
      <4> QED  BY <1>9, <4>1, <4>2
    <3>2. StandsFor(next[i], more[i])' /\ Earlier(more[i])' = Earlier(origin[i])
      <4>1. next[i] = log[i] /\ more[i] = origin[i]
        BY <1>2, <1>9, <2>1
      <4> QED  BY <1>6, <2>1, <4>1
    <3> QED  BY <3>1, <3>2
  <2>2. CASE i = n + 1
    <3>1. next[i] = p /\ more[i] = o /\ i - 1 = n
      BY <1>2, <1>9, <2>2
    <3>2. ASSUME NEW e \in Earlier(o)' PROVE \E j \in 1 .. i - 1 : more[j] = e
      BY <1>8, <1>9, <3>1
    <3> QED  BY <1>7, <3>1, <3>2
  <2> QED  BY <1>2, <2>1, <2>2
<1>12. ASSUME NEW d \in Clients, NEW m \in 1 .. Len(heard'[d])
       PROVE  \E i \in 1 .. n + 1 : more[i] = <<d, m>>
  <2>1. CASE m \in 1 .. Len(heard[d])
    <3>1. PICK i \in 1 .. n : origin[i] = <<d, m>>
      BY <1>5, <2>1
    <3>2. i \in 1 .. n + 1
      BY <1>2
    <3> QED  BY <1>9, <3>1, <3>2
  <2>2. CASE m \notin 1 .. Len(heard[d])
    <3>1. d = c /\ m = k
      <4>1. heard' = [heard EXCEPT ![c] = Append(@, p)] /\ k = Len(heard[c]) + 1
            /\ p \in Seq(Bytes) /\ d = c
        BY <1>4, <2>2
      <4>2. heard[c] \in Seq(Seq(Bytes)) /\ heard'[c] = Append(heard[c], p)
        BY <1>3, <4>1
      <4>3. Len(heard'[c]) = Len(heard[c]) + 1
        BY <4>1, <4>2, AppendProperties
      <4> QED  BY <1>3, <2>2, <4>1, <4>3
    <3>2. n + 1 \in 1 .. n + 1
      BY <1>2
    <3> QED  BY <1>9, <3>1, <3>2 DEF o
  <2> QED  BY <2>1, <2>2
<1>13. AccountOf(next, more)'
  BY <1>2, <1>11, <1>12 DEF AccountOf, Traced
<1>14. more \in Injection(1 .. Len(next), Origins')
  BY <1>2, <1>9, <1>10 DEF Injection
<1>15. Accounted(next)'
  BY <1>13, <1>14 DEF Accounted
<1> QED  BY <1>15 DEF next

\* A packet that goes to the members enters the log.
LEMMA OrderSendToAll ==
    ASSUME IndInv, todo = {}, pc # "dead", NEW p \in AnyPacket,
           pkt' = p, todo' = registered', told' = told, NEW c \in registered,
           \/ /\ p = Sealed(Farewell[c])
              /\ registered' = registered \ {c} /\ heard' = heard
           \/ /\ p \in Seq(Bytes)
              /\ registered' = registered /\ heard' = [heard EXCEPT ![c] = Append(@, p)]
    PROVE  OrderInv'
<1>1. OrderInv /\ PacketInv /\ TypeOK
  BY DEF IndInv
<1>2. PICK log \in Seq(AnyPacket) : Logged(log) /\ Accounted(log)
  BY <1>1 DEF OrderInv
<1> DEFINE next == Append(log, p)
<1>3. next \in Seq(AnyPacket)
  BY AppendProperties
<1>4. ASSUME NEW d \in Clients PROVE IsPrefix(told[d], next)
  <2>1. told[d] \in Seq(AnyPacket) /\ IsPrefix(told[d], log)
    BY <1>1, <1>2 DEF PacketInv, Logged
  <2> QED  BY <2>1, PrefixLonger
<1>5. ASSUME NEW d \in registered' PROVE next = Append(told[d], p)
  <2>1. log = told[d]
    BY <1>2 DEF Logged
  <2> QED  BY <2>1
<1>6. Accounted(next)'
  <2>1. registered \subseteq Clients /\ heard \in [Clients -> Seq(Seq(Bytes))]
    BY <1>1 DEF TypeOK
  <2>2. CASE p = Sealed(Farewell[c]) /\ registered' = registered \ {c} /\ heard' = heard
    BY <1>2, <2>1, <2>2, AccountMore
  <2>3. CASE /\ p \in Seq(Bytes) /\ registered' = registered
             /\ heard' = [heard EXCEPT ![c] = Append(@, p)]
    <3>1. Len(heard[c]) + 1 \in Nat
      BY <2>1, LenProperties
    <3> QED  BY <1>2, <2>1, <2>3, <3>1, AccountMore
  <2> QED  BY <2>2, <2>3
<1> HIDE DEF next
<1>7. Logged(next)'
  BY <1>4, <1>5 DEF Logged
<1> QED  BY <1>3, <1>6, <1>7 DEF OrderInv

LEMMA ForwardPacketInv ==
    ASSUME IndInv, ForwardPacket
    PROVE  IndInv'
<1>1. TypeOK /\ ControlInv /\ PacketInv /\ UpInv /\ DownInv /\ OrderInv
  BY DEF IndInv
<1> DEFINE p == Body(srx)
<1>2. /\ pc = "recv" /\ Wanted(srx) = 0 /\ pc' = "send" /\ pkt' = p /\ todo' = registered
      /\ heard' = [heard EXCEPT ![cur] = Append(@, p)]
      /\ srx' = <<>> /\ cur' = NoClient
      /\ UNCHANGED <<up, down, open, reset, dead, said, out, crx, read, m_exitReason, cutOff>>
      /\ UNCHANGED <<registered, to, sout, told, failed>>
  BY DEF ForwardPacket, Forward, SendToAll, netVars, connVars, clientVars
<1>3. /\ cur \in Clients /\ cur \in registered
      /\ Len(heard[cur]) < said[cur] /\ p \in AnyPacket /\ Opens(p)
      /\ p = Sent(cur)[Len(heard[cur]) + 1] /\ HeardAll(cur)
      /\ Unheard(cur) \in Seq(Payloads) /\ Unheard(cur) # <<>>
      /\ Behind(Sent(cur), Len(heard[cur]) + 1) = Tail(Unheard(cur))
      /\ \A lost \in Seq(Bytes) : UpFlow(cur, lost) =>
            Flow(<<>>, up[cur] \o (out[cur] \o lost), Tail(Unheard(cur)))
  BY <1>2, NextHeard
<1> HIDE DEF p
<1>4. p \in Seq(Bytes) /\ sout = <<>> /\ todo = {}
  BY <1>1, <1>2, <1>3, PacketsArePayloads DEF ControlInv
<1>5. /\ heard'[cur] = Append(heard[cur], p) /\ Append(heard[cur], p) \in Seq(Seq(Bytes))
      /\ Len(heard'[cur]) = Len(heard[cur]) + 1 /\ Len(heard[cur]) \in Nat /\ said[cur] \in Nat
      /\ \A d \in Clients : d # cur => heard'[d] = heard[d]
  <2>1. heard[cur] \in Seq(Seq(Bytes)) /\ Len(heard[cur]) \in Nat /\ said[cur] \in Nat
    BY <1>1, <1>3, LinkTypes
  <2>2. /\ Append(heard[cur], p) \in Seq(Seq(Bytes))
        /\ Len(Append(heard[cur], p)) = Len(heard[cur]) + 1
    BY <1>4, <2>1, AppendProperties
  <2>3. heard'[cur] = Append(heard[cur], p) /\ \A d \in Clients : d # cur => heard'[d] = heard[d]
    BY <1>1, <1>2, <1>3 DEF TypeOK
  <2> QED  BY <2>1, <2>2, <2>3
<1>6. TypeOK'
  BY <1>1, <1>2, <1>3, <1>4, <1>5, EmptySeq DEF TypeOK
<1>7. ControlInv'
  BY <1>1, <1>2, <1>4 DEF ControlInv
<1>8. PacketInv'
  BY <1>1, <1>2, <1>3 DEF PacketInv, OpensOrCut
<1>9. ASSUME NEW d \in registered' PROVE UpLink(d)'
  <2>1. d \in Clients /\ UpLink(d) /\ Got(d)' = <<>>
    BY <1>1, <1>2 DEF UpInv, TypeOK, Got
  <2>2. CASE d # cur
    <3>1. Got(d) = <<>>
      BY <2>2 DEF Got
    <3> QED  BY <1>2, <1>5, <2>1, <2>2, <3>1, UpLinkSame
  <2>3. CASE d = cur
    <3>1. PICK lost \in Seq(Bytes) : UpFlow(cur, lost)
      BY <2>1, <2>3 DEF UpLink
    <3>2. PICK ps \in Seq(Payloads) : ps = Unheard(cur) /\ ps # <<>>
      BY <1>3
    <3>3. Unheard(d)' = Tail(ps)
      BY <1>2, <1>3, <1>5, <2>3, <3>2 DEF Unheard, Sent
    <3>4. Flow(<<>>, up[cur] \o (out[cur] \o lost), Tail(ps))
      BY <1>3, <3>1, <3>2
    <3>5. UpFlow(d, lost)'
      BY <1>2, <2>1, <2>3, <3>1, <3>3, <3>4 DEF UpFlow
    <3>6. Len(heard'[d]) <= said'[d]
      BY <1>2, <1>3, <1>5, <2>3
    <3>7. HeardAll(d)'
      BY <1>1, <1>2, <1>3, <2>3, HeardMore
    <3> QED  BY <3>5, <3>6, <3>7 DEF UpLink
  <2> QED  BY <2>2, <2>3
<1>10. ASSUME NEW d \in Clients PROVE DownLink(d)'
  <2>1. DownLink(d) /\ ToGo(d)' = ToGo(d)
    BY <1>1, <1>2 DEF DownInv, ToGo
  <2> QED  BY <1>2, <2>1, DownLinkSame
<1>11. OrderInv'
  BY <1>2, <1>3, <1>4, OrderSendToAll
<1> QED  BY <1>6, <1>7, <1>8, <1>9, <1>10, <1>11 DEF IndInv, UpInv, DownInv

LEMMA ForwardDamagedInv ==
    ASSUME IndInv, ForwardDamaged
    PROVE  IndInv'
<1>1. TypeOK /\ ControlInv /\ PacketInv /\ UpInv /\ DownInv /\ OrderInv
  BY DEF IndInv
<1>2. PICK p \in ReturnedAtEnd(srx) : Forward(p)
  BY DEF ForwardDamaged
<1>3. RecvEnds
  BY DEF ForwardDamaged
<1>4. /\ pc = "recv" /\ cur \notin open /\ up[cur] = <<>>
      /\ pc' = "send" /\ pkt' = p /\ todo' = registered
      /\ heard' = [heard EXCEPT ![cur] = Append(@, p)]
      /\ srx' = <<>> /\ cur' = NoClient
      /\ UNCHANGED <<up, down, open, reset, dead, said, out, crx, read, m_exitReason, cutOff>>
      /\ UNCHANGED <<registered, to, sout, told, failed>>
  BY <1>2, <1>3 DEF RecvEnds, Forward, SendToAll, netVars, connVars, clientVars
<1>5. /\ cur \in Clients /\ cur \in registered /\ cur \in cutOff
      /\ Len(heard[cur]) < said[cur]
      /\ p \in AnyPacket /\ out[cur] = <<>>
      /\ Behind(Sent(cur), Len(heard[cur]) + 1) = Tail(Unheard(cur))
      /\ \E rest \in Seq(Bytes) : Flow(<<>>, rest, Tail(Unheard(cur)))
  BY <1>2, <1>3, LastHeard
<1>6. p \in Seq(Bytes) /\ sout = <<>> /\ todo = {}
  BY <1>1, <1>4, <1>5, PacketsArePayloads DEF ControlInv
<1>7. /\ heard'[cur] = Append(heard[cur], p) /\ Append(heard[cur], p) \in Seq(Seq(Bytes))
      /\ Len(heard'[cur]) = Len(heard[cur]) + 1 /\ Len(heard[cur]) \in Nat /\ said[cur] \in Nat
      /\ \A d \in Clients : d # cur => heard'[d] = heard[d]
  <2>1. heard[cur] \in Seq(Seq(Bytes)) /\ Len(heard[cur]) \in Nat /\ said[cur] \in Nat
    BY <1>1, <1>5, LinkTypes
  <2>2. /\ Append(heard[cur], p) \in Seq(Seq(Bytes))
        /\ Len(Append(heard[cur], p)) = Len(heard[cur]) + 1
    BY <1>6, <2>1, AppendProperties
  <2>3. heard'[cur] = Append(heard[cur], p) /\ \A d \in Clients : d # cur => heard'[d] = heard[d]
    BY <1>1, <1>4, <1>5 DEF TypeOK
  <2> QED  BY <2>1, <2>2, <2>3
<1>8. TypeOK'
  BY <1>1, <1>4, <1>5, <1>6, <1>7, EmptySeq DEF TypeOK
<1>9. ControlInv'
  BY <1>1, <1>4, <1>6 DEF ControlInv
<1>10. PacketInv'
  BY <1>1, <1>4, <1>5 DEF PacketInv, OpensOrCut
<1>11. ASSUME NEW d \in registered' PROVE UpLink(d)'
  <2>1. d \in Clients /\ UpLink(d) /\ Got(d)' = <<>>
    BY <1>1, <1>4 DEF UpInv, TypeOK, Got
  <2>2. CASE d # cur
    <3>1. Got(d) = <<>>
      BY <2>2 DEF Got
    <3> QED  BY <1>4, <1>7, <2>1, <2>2, <3>1, UpLinkSame
  <2>3. CASE d = cur
    <3>1. PICK rest \in Seq(Bytes) : Flow(<<>>, rest, Tail(Unheard(cur)))
      BY <1>5
    <3>2. Unheard(d)' = Tail(Unheard(cur))
      BY <1>4, <1>5, <1>7, <2>3 DEF Unheard, Sent
    <3>3. <<>> \o (<<>> \o rest) = rest
      BY <3>1, ConcatEmptySeq
    <3>4. UpFlow(d, rest)'
      BY <1>4, <1>5, <2>1, <2>3, <3>1, <3>2, <3>3 DEF UpFlow
    <3>5. Len(heard'[d]) <= said'[d] /\ Dry(d)'
      BY <1>4, <1>5, <1>7, <2>1, <2>3 DEF Dry
    <3> QED  BY <3>4, <3>5 DEF UpLink
  <2> QED  BY <2>2, <2>3
<1>12. ASSUME NEW d \in Clients PROVE DownLink(d)'
  <2>1. DownLink(d) /\ ToGo(d)' = ToGo(d)
    BY <1>1, <1>4 DEF DownInv, ToGo
  <2> QED  BY <1>4, <2>1, DownLinkSame
<1>13. OrderInv'
  BY <1>4, <1>5, <1>6, OrderSendToAll
<1> QED  BY <1>8, <1>9, <1>10, <1>11, <1>12, <1>13 DEF IndInv, UpInv, DownInv

LEMMA LostClientInv ==
    ASSUME IndInv, LostClient
    PROVE  IndInv'
<1>1. TypeOK /\ ControlInv /\ PacketInv /\ UpInv /\ DownInv /\ OrderInv
  BY DEF IndInv
<1> DEFINE p == Sealed(Farewell[cur])
<1>2. /\ pc = "recv" /\ registered' = registered \ {cur}
      /\ pc' = "send" /\ pkt' = p /\ todo' = registered'
      /\ srx' = <<>> /\ cur' = NoClient
      /\ UNCHANGED <<up, down, open, reset, dead, said, out, crx, read, m_exitReason, cutOff>>
      /\ UNCHANGED <<heard, to, sout, told, failed>>
  BY DEF LostClient, RecvEnds, Disconnect, SendToAll, netVars, connVars, clientVars
<1>3. cur \in Clients /\ sout = <<>> /\ todo = {}
  BY <1>1, <1>2 DEF ControlInv, TypeOK
<1>4. p \in AnyPacket /\ Opens(p)
  <2>1. Farewell[cur] \in Texts
    BY <1>3, RelayAssumption
  <2> QED  BY <2>1, SealedPacket
<1> HIDE DEF p
<1>5. p \in Seq(Bytes)
  BY <1>4, PacketsArePayloads
<1>6. TypeOK'
  BY <1>1, <1>2, <1>3, <1>5, EmptySeq DEF TypeOK
<1>7. ControlInv'
  BY <1>1, <1>2, <1>3 DEF ControlInv
<1>8. PacketInv'
  BY <1>1, <1>2, <1>4 DEF PacketInv, OpensOrCut
<1>9. ASSUME NEW d \in registered' PROVE UpLink(d)'
  <2>1. d \in Clients /\ d # cur /\ UpLink(d)
    BY <1>1, <1>2 DEF UpInv, TypeOK
  <2>2. Got(d)' = Got(d)
    BY <1>2, <2>1 DEF Got
  <2> QED  BY <1>2, <2>1, <2>2, UpLinkSame
<1>10. ASSUME NEW d \in Clients PROVE DownLink(d)'
  <2>1. DownLink(d) /\ ToGo(d)' = ToGo(d)
    BY <1>1, <1>2 DEF DownInv, ToGo
  <2> QED  BY <1>2, <2>1, DownLinkSame
<1>11. OrderInv'
  <2>1. cur \in registered /\ p = Sealed(Farewell[cur])
    BY <1>1, <1>2 DEF ControlInv, p
  <2> QED  BY <1>2, <1>3, <1>4, <2>1, OrderSendToAll
<1> QED  BY <1>6, <1>7, <1>8, <1>9, <1>10, <1>11 DEF IndInv, UpInv, DownInv

-----------------------------------------------------------------------------
(* The server sends.                                                       *)

LEMMA NextMemberInv ==
    ASSUME IndInv, NEW c \in Clients, NextMember(c)
    PROVE  IndInv'
<1>1. TypeOK /\ ControlInv /\ PacketInv /\ UpInv /\ DownInv /\ OrderInv
  BY DEF IndInv
<1>2. /\ pc = "send" /\ sout = <<>> /\ c \in todo
      /\ todo' = todo \ {c} /\ to' = c /\ sout' = Frame(pkt)
      /\ told' = [told EXCEPT ![c] = Append(@, pkt)]
      /\ UNCHANGED <<up, down, open, reset, dead, said, out, crx, read, m_exitReason, cutOff>>
      /\ UNCHANGED <<registered, pc, cur, srx, heard, pkt, failed>>
  BY DEF NextMember, netVars, connVars, clientVars, recvVars
<1>3. pkt \in AnyPacket /\ pkt \in Payloads /\ OpensOrCut(pkt) /\ pkt \in Seq(Bytes)
  BY <1>1, <1>2, PacketsArePayloads DEF PacketInv
<1>4. /\ Frame(pkt) \in Seq(Bytes)
      /\ Frame(pkt) \o <<>> = Frame(pkt) /\ <<>> \o Frame(pkt) = Frame(pkt)
  BY <1>3, FrameType, ConcatEmptySeq
<1>5. /\ told'[c] = Append(told[c], pkt) /\ told[c] \in Seq(AnyPacket)
      /\ Append(told[c], pkt) \in Seq(AnyPacket) /\ Append(told[c], pkt) \in Seq(Seq(Bytes))
      /\ Len(told[c]) \in Nat /\ Len(told'[c]) = Len(told[c]) + 1
      /\ told'[c][Len(told[c]) + 1] = pkt
      /\ \A i \in 1 .. Len(told[c]) : told'[c][i] = told[c][i]
      /\ \A d \in Clients : d # c => told'[d] = told[d]
  <2>1. told[c] \in Seq(AnyPacket) /\ Len(told[c]) \in Nat
    BY <1>1, LenProperties DEF PacketInv
  <2>2. told'[c] = Append(told[c], pkt) /\ \A d \in Clients : d # c => told'[d] = told[d]
    BY <1>1, <1>2 DEF PacketInv
  <2>3. /\ Append(told[c], pkt) \in Seq(AnyPacket)
        /\ Len(Append(told[c], pkt)) = Len(told[c]) + 1
        /\ Append(told[c], pkt)[Len(told[c]) + 1] = pkt
        /\ \A i \in 1 .. Len(told[c]) : Append(told[c], pkt)[i] = told[c][i]
    BY <1>3, <2>1, AppendProperties
  <2>4. Append(told[c], pkt) \in Seq(Seq(Bytes))
    BY <2>3, PacketsArePayloads, SeqMonotonic
  <2> QED  BY <2>1, <2>2, <2>3, <2>4
<1>6. TypeOK'
  BY <1>1, <1>2, <1>4, <1>5 DEF TypeOK
<1>7. ControlInv'
  BY <1>1, <1>2 DEF ControlInv
<1>8. PacketInv'
  <2>1. told' \in [Clients -> Seq(AnyPacket)]
    BY <1>1, <1>2, <1>5 DEF PacketInv
  <2>2. ASSUME NEW d \in Clients, NEW i \in 1 .. Len(told'[d]) PROVE OpensOrCut(told'[d][i])
    <3>1. CASE d # c
      BY <1>1, <1>5, <2>2, <3>1 DEF PacketInv
    <3>2. CASE d = c
      <4>1. i \in 1 .. Len(told[c]) \/ i = Len(told[c]) + 1
        BY <1>5, <3>2
      <4> QED  BY <1>1, <1>3, <1>5, <3>2, <4>1 DEF PacketInv
    <3> QED  BY <3>1, <3>2
  <2>3. \A d \in Clients : \A i \in 1 .. Len(told'[d]) : OpensOrCut(told[d][i])'
    BY <1>2, <2>2 DEF OpensOrCut
  <2> QED  BY <1>1, <1>2, <1>3, <2>1, <2>3 DEF PacketInv, OpensOrCut
<1>9. ASSUME NEW d \in registered' PROVE UpLink(d)'
  <2>1. d \in Clients /\ UpLink(d) /\ Got(d)' = Got(d)
    BY <1>1, <1>2 DEF UpInv, TypeOK, Got
  <2> QED  BY <1>2, <2>1, UpLinkSame
<1>10. ASSUME NEW d \in Clients PROVE DownLink(d)'
  <2>1. DownLink(d) /\ ToGo(d) = <<>>
    BY <1>1, <1>2 DEF DownInv, ToGo
  <2>2. CASE d # c
    <3>1. ToGo(d)' = <<>>
      BY <1>2, <2>2 DEF ToGo
    <3> QED  BY <1>2, <1>5, <2>1, <2>2, <3>1, DownLinkSame
  <2>3. CASE d = c
    <3>1. ToGo(c)' = Frame(pkt)
      BY <1>2 DEF ToGo
    <3>2. /\ told[c] \in Seq(Payloads) /\ Len(read[c]) \in 0 .. Len(told[c])
          /\ Unread(c) \in Seq(Payloads)
          /\ crx[c] \in Seq(Bytes) /\ down[c] \in Seq(Bytes)
      BY <1>1, UnreadType, LinkTypes
    <3>3. Unread(c)' = Append(Unread(c), pkt)
      <4>1. Behind(Append(told[c], pkt), Len(read[c])) = Append(Behind(told[c], Len(read[c])), pkt)
        BY <1>3, <3>2, BehindAppend
      <4> QED  BY <1>2, <1>5, <4>1 DEF Unread
    <3>4. ASSUME c \in open PROVE DownFlow(c, <<>>)'
      <4>1. PICK lost \in Seq(Bytes) : DownFlow(c, lost)
        BY <2>1, <2>3, <3>4 DEF DownLink
      <4>2. lost = <<>>
        BY <1>2, <4>1 DEF DownFlow
      <4>3. Flow(crx[c], down[c] \o (<<>> \o <<>>), Unread(c))
        BY <2>1, <2>3, <4>1, <4>2 DEF DownFlow
      <4>4. down[c] \o (<<>> \o <<>>) = down[c]
        BY <3>2, EmptySeq, ConcatEmptySeq
      <4>5. Flow(crx[c], down[c] \o Frame(pkt), Append(Unread(c), pkt))
        BY <1>3, <3>2, <4>3, <4>4, FlowSend
      <4> QED  BY <1>2, <1>4, <3>1, <3>3, <4>5 DEF DownFlow
    <3>5. ReadOf(c)'
      <4>1. \A i \in 1 .. Len(read[c]) : i \in 1 .. Len(told[c])
        BY <3>2
      <4>2. Len(read[c]) <= Len(told'[c])
        BY <1>5, <3>2
      <4> QED  BY <1>2, <1>5, <2>1, <2>3, <4>1, <4>2 DEF DownLink, ReadOf
    <3> QED  BY <1>2, <2>3, <3>4, <3>5, EmptySeq DEF DownLink
  <2> QED  BY <2>2, <2>3
<1>11. OrderInv'
  <2>1. PICK log \in Seq(AnyPacket) : Logged(log) /\ Accounted(log)
    BY <1>1 DEF OrderInv
  <2>2. c \in registered /\ log = Append(told[c], pkt)
    BY <1>1, <1>2, <2>1 DEF TypeOK, Logged
  <2>3. told'[c] = log
    BY <1>5, <2>2
  <2>4. ASSUME NEW d \in Clients PROVE IsPrefix(told'[d], log)
    <3>1. CASE d # c
      BY <1>5, <2>1, <3>1 DEF Logged
    <3>2. CASE d = c
      BY <2>3, <3>2, PrefixSelf
    <3> QED  BY <3>1, <3>2
  <2>5. ASSUME NEW d \in registered
        PROVE  log = IF d \in todo' THEN Append(told'[d], pkt') ELSE told'[d]
    <3>1. d \in Clients
      BY <1>1 DEF TypeOK
    <3>2. CASE d # c
      BY <1>2, <1>5, <2>1, <3>1, <3>2 DEF Logged
    <3>3. CASE d = c
      BY <1>2, <2>3, <3>3
    <3> QED  BY <3>2, <3>3
  <2>6. Logged(log)'
    BY <1>2, <2>4, <2>5 DEF Logged
  <2>7. Accounted(log)'
    BY <1>2, <2>1, AccountSame
  <2> QED  BY <2>6, <2>7 DEF OrderInv
<1> QED  BY <1>6, <1>7, <1>8, <1>9, <1>10, <1>11 DEF IndInv, UpInv, DownInv

\* A byte of the packet goes from send_all to the connection.
LEMMA ServerSendInv ==
    ASSUME IndInv, ServerSend
    PROVE  IndInv'
<1>1. TypeOK /\ ControlInv /\ PacketInv /\ UpInv /\ DownInv /\ OrderInv
  BY DEF IndInv
<1>2. /\ sout # <<>> /\ to \in open
      /\ down' = [down EXCEPT ![to] = Append(@, Head(sout))]
      /\ sout' = Tail(sout)
      /\ UNCHANGED <<up, open, reset, dead, said, out, crx, read, m_exitReason, cutOff>>
      /\ UNCHANGED <<registered, pc, cur, srx, heard, pkt, todo, to, failed, told>>
  BY DEF ServerSend, connVars, clientVars, recvVars
<1>3. to \in Clients /\ pc = "send"
  BY <1>1, <1>2 DEF ControlInv
<1>4. /\ sout \in Seq(Bytes) /\ down[to] \in Seq(Bytes)
      /\ Append(down[to], Head(sout)) \in Seq(Bytes) /\ Tail(sout) \in Seq(Bytes)
      /\ Append(down[to], Head(sout)) \o Tail(sout) = down[to] \o sout
  <2>1. sout \in Seq(Bytes) /\ down[to] \in Seq(Bytes)
    BY <1>1, <1>3 DEF TypeOK
  <2> QED  BY <1>2, <2>1, MoveHead
<1>5. /\ down'[to] = Append(down[to], Head(sout))
      /\ \A d \in Clients : d # to => down'[d] = down[d]
  BY <1>1, <1>2, <1>3 DEF TypeOK
<1>6. TypeOK'
  BY <1>1, <1>2, <1>3, <1>4 DEF TypeOK
<1>7. ControlInv'
  BY <1>1, <1>2, <1>3 DEF ControlInv
<1>8. PacketInv'
  BY <1>1, <1>2, PacketSame
<1>9. ASSUME NEW d \in registered' PROVE UpLink(d)'
  <2>1. d \in Clients /\ UpLink(d) /\ Got(d)' = Got(d)
    BY <1>1, <1>2 DEF UpInv, TypeOK, Got
  <2> QED  BY <1>2, <2>1, UpLinkSame
<1>10. ASSUME NEW d \in Clients PROVE DownLink(d)'
  <2>1. DownLink(d)
    BY <1>1 DEF DownInv
  <2>2. CASE d # to
    <3>1. ToGo(d)' = ToGo(d)
      BY <1>2, <2>2 DEF ToGo
    <3> QED  BY <1>2, <1>5, <2>1, <2>2, <3>1, DownLinkSame
  <2>3. CASE d = to
    <3>1. ToGo(d) = sout /\ ToGo(d)' = Tail(sout)
      BY <1>2, <2>3 DEF ToGo
    <3>2. Unread(d)' = Unread(d)
      BY <1>2 DEF Unread
    <3>3. PICK lost \in Seq(Bytes) : DownFlow(d, lost)
      BY <1>2, <2>1, <2>3 DEF DownLink
    <3>4. down'[d] \o (ToGo(d)' \o lost) = down[d] \o (ToGo(d) \o lost)
      <4>1. PICK u \in Seq(Bytes), v \in Seq(Bytes) : u = down'[d] /\ v = Tail(sout)
        BY <1>4, <1>5, <2>3
      <4>2. PICK x \in Seq(Bytes), y \in Seq(Bytes) : x = down[d] /\ y = sout
        BY <1>4, <2>3
      <4>3. u \o v = x \o y
        BY <1>4, <1>5, <2>3, <4>1, <4>2
      <4>4. u \in Seq(Bytes) /\ v \in Seq(Bytes) /\ x \in Seq(Bytes) /\ y \in Seq(Bytes)
            /\ lost \in Seq(Bytes)
        BY <3>3, <4>1, <4>2
      <4>5. (u \o v) \o lost = u \o (v \o lost)
        BY <4>4, BytesAssociate, ZenonT(40)
      <4>6. (x \o y) \o lost = x \o (y \o lost)
        BY <4>4, BytesAssociate, ZenonT(40)
      <4> QED  BY <3>1, <4>1, <4>2, <4>3, <4>5, <4>6
    <3>5. DownFlow(d, lost)'
      BY <1>2, <3>2, <3>3, <3>4 DEF DownFlow
    <3>6. ReadOf(d)'
      BY <1>2, <2>1 DEF DownLink, ReadOf
    <3> QED  BY <3>3, <3>5, <3>6 DEF DownLink
  <2> QED  BY <2>2, <2>3
<1>11. OrderInv'
  BY <1>1, <1>2, OrderSame
<1> QED  BY <1>6, <1>7, <1>8, <1>9, <1>10, <1>11 DEF IndInv, UpInv, DownInv

\* Nothing is asked of the bytes to a member that has closed its socket.
LEMMA SendGivenUp ==
    ASSUME IndInv, sout # <<>>, to \notin open, sout' = <<>>, NEW d \in Clients,
           UNCHANGED <<down, open, crx, read, told, to, pc>>
    PROVE  DownLink(d)'
<1>1. DownLink(d)
  BY DEF IndInv, DownInv
<1>2. CASE d # to
  <2>1. ToGo(d)' = ToGo(d)
    BY <1>2 DEF ToGo
  <2> QED  BY <1>1, <2>1, DownLinkSame
<1>3. CASE d = to
  BY <1>1, <1>3, DownLinkClosed
<1> QED  BY <1>2, <1>3

LEMMA ServerSendLostInv ==
    ASSUME IndInv, ServerSendLost
    PROVE  IndInv'
<1>1. TypeOK /\ ControlInv /\ PacketInv /\ UpInv /\ DownInv /\ OrderInv
  BY DEF IndInv
<1>2. /\ sout # <<>> /\ to \notin open /\ sout' = <<>>
      /\ UNCHANGED <<up, down, open, reset, dead, said, out, crx, read, m_exitReason, cutOff>>
      /\ UNCHANGED <<registered, pc, cur, srx, heard, pkt, todo, to, told, failed>>
  BY DEF ServerSendLost, netVars, connVars, clientVars, recvVars
<1>3. to \in Clients
  BY <1>1, <1>2 DEF ControlInv
<1>4. TypeOK'
  BY <1>1, <1>2, <1>3, EmptySeq DEF TypeOK
<1>5. ControlInv'
  BY <1>1, <1>2 DEF ControlInv
<1>6. PacketInv'
  BY <1>1, <1>2, PacketSame
<1>7. ASSUME NEW d \in registered' PROVE UpLink(d)'
  <2>1. d \in Clients /\ UpLink(d) /\ Got(d)' = Got(d)
    BY <1>1, <1>2 DEF UpInv, TypeOK, Got
  <2> QED  BY <1>2, <2>1, UpLinkSame
<1>8. ASSUME NEW d \in Clients PROVE DownLink(d)'
  BY <1>2, SendGivenUp
<1>9. OrderInv'
  BY <1>1, <1>2, OrderSame
<1> QED  BY <1>4, <1>5, <1>6, <1>7, <1>8, <1>9 DEF IndInv, UpInv, DownInv

LEMMA ServerSendFailsInv ==
    ASSUME IndInv, ServerSendFails
    PROVE  IndInv'
<1>1. TypeOK /\ ControlInv /\ PacketInv /\ UpInv /\ DownInv /\ OrderInv
  BY DEF IndInv
<1>2. /\ sout # <<>> /\ sout' = <<>>
      /\ failed' = failed \/ failed' = failed \cup {to}
      /\ reset' = reset \ {to} /\ dead' = dead \cup {to} /\ to \in reset
      /\ UNCHANGED <<up, down, open, said, out, crx, read, m_exitReason, cutOff>>
      /\ UNCHANGED <<registered, pc, cur, srx, heard, pkt, todo, to, told>>
  BY DEF ServerSendFails, clientVars, recvVars
<1>3. to \in Clients /\ to \notin open
  BY <1>1, <1>2 DEF ControlInv, TypeOK
<1>4. TypeOK'
  BY <1>1, <1>2, <1>3, EmptySeq DEF TypeOK
<1>5. ControlInv'
  BY <1>1, <1>2 DEF ControlInv
<1>6. PacketInv'
  BY <1>1, <1>2, PacketSame
<1>7. ASSUME NEW d \in registered' PROVE UpLink(d)'
  <2>1. d \in Clients /\ UpLink(d) /\ Got(d)' = Got(d)
    BY <1>1, <1>2 DEF UpInv, TypeOK, Got
  <2> QED  BY <1>2, <2>1, UpLinkSame
<1>8. ASSUME NEW d \in Clients PROVE DownLink(d)'
  BY <1>2, <1>3, SendGivenUp
<1>9. OrderInv'
  BY <1>1, <1>2, OrderSame
<1> QED  BY <1>4, <1>5, <1>6, <1>7, <1>8, <1>9 DEF IndInv, UpInv, DownInv

\* The server ends: what it did not send, and perhaps the end of what was
\* under way, is lost.
LEMMA ServerEndsInv ==
    ASSUME IndInv, ServerEnds
    PROVE  IndInv'
<1>1. TypeOK /\ ControlInv /\ PacketInv /\ UpInv /\ DownInv /\ OrderInv
  BY DEF IndInv
<1>2. /\ pc # "dead" /\ pc' = "dead" /\ sout' = <<>> /\ todo' = {} /\ failed' = {}
      /\ UNCHANGED <<up, open, reset, dead, said, out, crx, read, m_exitReason, cutOff>>
      /\ UNCHANGED <<registered, cur, srx, heard, pkt, to, told>>
  BY DEF ServerEnds, connVars, clientVars, recvVars
<1>3. PICK n \in [Clients -> 0 .. BufSize] :
          /\ \A c \in Clients : n[c] = Len(down[c]) \/ (n[c] < Len(down[c]) /\ up[c] # <<>>)
          /\ down' = [c \in Clients |-> SubSeq(down[c], 1, n[c])]
  BY DEF ServerEnds
<1>4. ASSUME NEW c \in Clients
      PROVE  /\ down[c] \in Seq(Bytes) /\ n[c] \in 0 .. Len(down[c])
             /\ down'[c] = SubSeq(down[c], 1, n[c]) /\ down'[c] \in Seq(Bytes)
             /\ Behind(down[c], n[c]) \in Seq(Bytes)
             /\ down'[c] \o Behind(down[c], n[c]) = down[c]
  <2>1. down[c] \in Seq(Bytes) /\ Len(down[c]) \in Nat
    BY <1>1, LinkTypes, LenProperties
  <2>2. BufSize \in Nat /\ n[c] \in 0 .. BufSize
    BY <1>3, RelayAssumption
  <2>3. n[c] \in 0 .. Len(down[c])
    BY <1>3, <2>1, <2>2
  <2>4. down'[c] = SubSeq(down[c], 1, n[c])
    BY <1>3
  <2>5. PICK x \in Seq(Bytes), k \in Nat : x = down[c] /\ k = n[c] /\ k \in 0 .. Len(x)
    BY <2>1, <2>3
  <2>6. /\ SubSeq(x, 1, k) \in Seq(Bytes) /\ Behind(x, k) \in Seq(Bytes)
        /\ SubSeq(x, 1, k) \o Behind(x, k) = x
    BY <2>5, FrontAndBehind, Zenon
  <2> QED  BY <2>1, <2>3, <2>4, <2>5, <2>6
<1>5. TypeOK'
  <2>1. down' \in [Clients -> Seq(Bytes)]
    BY <1>3, <1>4
  <2> QED  BY <1>1, <1>2, <2>1, EmptySeq DEF TypeOK
<1>6. ControlInv'
  BY <1>1, <1>2 DEF ControlInv
<1>7. PacketInv'
  BY <1>1, <1>2 DEF PacketInv, OpensOrCut
<1>8. ASSUME NEW d \in registered' PROVE UpLink(d)'
  <2>1. d \in Clients /\ UpLink(d) /\ Got(d)' = Got(d)
    BY <1>1, <1>2 DEF UpInv, TypeOK, Got
  <2> QED  BY <1>2, <2>1, UpLinkSame
<1>9. ASSUME NEW d \in Clients PROVE DownLink(d)'
  <2>1. DownLink(d) /\ ToGo(d)' = <<>>
    BY <1>1, <1>2 DEF DownInv, ToGo
  <2>2. ReadOf(d)'
    BY <1>2, <2>1 DEF DownLink, ReadOf
  <2>3. ASSUME d \in open PROVE \E lost \in Seq(Bytes) : DownFlow(d, lost)'
    <3>1. PICK lost \in Seq(Bytes) : DownFlow(d, lost)
      BY <2>1, <2>3 DEF DownLink
    <3>2. PICK u \in Seq(Bytes), b \in Seq(Bytes) :
             u = down'[d] /\ b = Behind(down[d], n[d]) /\ u \o b = down[d]
      BY <1>4
    <3>3. PICK g \in Seq(Bytes) : g = ToGo(d)
      BY <1>1, LinkTypes
    <3>4. PICK z \in Seq(Bytes) : z = g \o lost
      BY <3>1, <3>3, ConcatProperties
    <3>5. PICK y \in Seq(Bytes) : y = b \o z
      BY <3>2, <3>4, ConcatProperties
    <3>6. (u \o b) \o z = u \o (<<>> \o y)
      <4>1. u \in Seq(Bytes) /\ b \in Seq(Bytes) /\ z \in Seq(Bytes)
        BY <3>2, <3>4, Zenon
      <4>2. (u \o b) \o z = u \o (<<>> \o (b \o z))
        BY <4>1, Regroup, ZenonT(40)
      <4> QED  BY <3>5, <4>2, Zenon
    <3>7. Flow(crx[d], (u \o b) \o z, Unread(d))
      BY <3>1, <3>2, <3>3, <3>4 DEF DownFlow
    <3>8. Unread(d)' = Unread(d)
      BY <1>2 DEF Unread
    <3>9. DownFlow(d, y)'
      BY <1>2, <2>1, <3>2, <3>6, <3>7, <3>8 DEF DownFlow
    <3> QED  BY <3>9
  <2> QED  BY <1>2, <2>2, <2>3 DEF DownLink
<1>10. OrderInv'
  <2>1. PICK log \in Seq(AnyPacket) : Logged(log) /\ Accounted(log)
    BY <1>1 DEF OrderInv
  <2>2. Logged(log)'
    BY <1>2, <2>1 DEF Logged
  <2>3. Accounted(log)'
    BY <1>2, <2>1, AccountSame
  <2> QED  BY <2>2, <2>3 DEF OrderInv
<1> QED  BY <1>5, <1>6, <1>7, <1>8, <1>9, <1>10 DEF IndInv, UpInv, DownInv

LEMMA SendDoneInv ==
    ASSUME IndInv, SendDone
    PROVE  IndInv'
<1>1. TypeOK /\ ControlInv /\ PacketInv /\ UpInv /\ DownInv /\ OrderInv
  BY DEF IndInv
<1>2. /\ pc = "send" /\ sout = <<>> /\ todo = {}
      /\ pc' = "wait" /\ to' = NoClient /\ pkt' = <<>>
      /\ UNCHANGED <<up, down, open, reset, dead, said, out, crx, read, m_exitReason, cutOff>>
      /\ UNCHANGED <<registered, cur, srx, heard, todo, sout, failed, told>>
  BY DEF SendDone, AllSent, netVars, connVars, clientVars, recvVars
<1>3. TypeOK'
  BY <1>1, <1>2, EmptySeq DEF TypeOK
<1>4. ControlInv'
  BY <1>1, <1>2 DEF ControlInv
<1>5. PacketInv'
  BY <1>1, <1>2 DEF PacketInv, OpensOrCut
<1>6. ASSUME NEW d \in registered' PROVE UpLink(d)'
  <2>1. d \in Clients /\ UpLink(d) /\ Got(d)' = Got(d)
    BY <1>1, <1>2 DEF UpInv, TypeOK, Got
  <2> QED  BY <1>2, <2>1, UpLinkSame
<1>7. ASSUME NEW d \in Clients PROVE DownLink(d)'
  <2>1. DownLink(d) /\ ToGo(d)' = ToGo(d)
    BY <1>1, <1>2 DEF DownInv, ToGo
  <2> QED  BY <1>2, <2>1, DownLinkSame
<1>8. OrderInv'
  <2>1. PICK log \in Seq(AnyPacket) : Logged(log) /\ Accounted(log)
    BY <1>1 DEF OrderInv
  <2>2. Logged(log)'
    BY <1>2, <2>1 DEF Logged
  <2>3. Accounted(log)'
    BY <1>2, <2>1, AccountSame
  <2> QED  BY <2>2, <2>3 DEF OrderInv
<1> QED  BY <1>3, <1>4, <1>5, <1>6, <1>7, <1>8 DEF IndInv, UpInv, DownInv

LEMMA RemoveFailedInv ==
    ASSUME IndInv, NEW c \in Clients, RemoveFailed(c)
    PROVE  IndInv'
<1>1. TypeOK /\ ControlInv /\ PacketInv /\ UpInv /\ DownInv /\ OrderInv
  BY DEF IndInv
<1> DEFINE p == Sealed(Farewell[c])
<1>2. /\ pc = "send" /\ sout = <<>> /\ todo = {} /\ failed' = failed \ {c}
      /\ \/ /\ c \in registered /\ registered' = registered \ {c}
            /\ pc' = "send" /\ pkt' = p /\ todo' = registered'
         \/ UNCHANGED <<registered, pc, pkt, todo>>
      /\ UNCHANGED <<up, down, open, reset, dead, said, out, crx, read, m_exitReason, cutOff>>
      /\ UNCHANGED <<cur, srx, heard, to, sout, told>>
      /\ p = Sealed(Farewell[c])
  BY DEF RemoveFailed, AllSent, Disconnect, SendToAll, netVars, connVars, clientVars, recvVars, sendVars
<1>3. p \in AnyPacket /\ Opens(p)
  <2>1. Farewell[c] \in Texts
    BY RelayAssumption
  <2> QED  BY <2>1, SealedPacket
<1> HIDE DEF p
<1>4. p \in Seq(Bytes)
  BY <1>3, PacketsArePayloads
<1>5. pc' = pc /\ registered' \subseteq registered
  BY <1>2
<1>6. TypeOK'
  BY <1>1, <1>2, <1>4 DEF TypeOK
<1>7. ControlInv'
  BY <1>1, <1>2 DEF ControlInv
<1>8. PacketInv'
  BY <1>1, <1>2, <1>3 DEF PacketInv, OpensOrCut
<1>9. ASSUME NEW d \in registered' PROVE UpLink(d)'
  <2>1. d \in Clients /\ UpLink(d) /\ Got(d)' = Got(d)
    BY <1>1, <1>2, <1>5 DEF UpInv, TypeOK, Got
  <2> QED  BY <1>2, <2>1, UpLinkSame
<1>10. ASSUME NEW d \in Clients PROVE DownLink(d)'
  <2>1. DownLink(d) /\ ToGo(d)' = ToGo(d)
    BY <1>1, <1>2 DEF DownInv, ToGo
  <2> QED  BY <1>2, <2>1, DownLinkSame
<1>11. OrderInv'
  <2>1. CASE UNCHANGED <<registered, pc, pkt, todo>>
    BY <1>1, <1>2, <2>1, OrderSame
  <2>2. CASE /\ c \in registered /\ registered' = registered \ {c}
             /\ pc' = "send" /\ pkt' = p /\ todo' = registered'
    BY <1>2, <1>3, <2>2, OrderSendToAll
  <2> QED  BY <1>2, <2>1, <2>2
<1> QED  BY <1>6, <1>7, <1>8, <1>9, <1>10, <1>11 DEF IndInv, UpInv, DownInv

-----------------------------------------------------------------------------
(* The invariant.                                                          *)

LEMMA StutterInv ==
    ASSUME IndInv, UNCHANGED vars
    PROVE  IndInv'
<1>1. TypeOK /\ ControlInv /\ PacketInv /\ UpInv /\ DownInv /\ OrderInv
  BY DEF IndInv
<1>2. /\ UNCHANGED <<up, down, open, reset, dead, said, out, crx, read, m_exitReason, cutOff>>
      /\ UNCHANGED <<registered, pc, cur, srx, heard, pkt, todo, to, sout, told, failed>>
  BY DEF vars, netVars, connVars, clientVars, serverVars, recvVars, sendVars
<1>3. TypeOK'
  BY <1>1, <1>2 DEF TypeOK
<1>4. ControlInv'
  BY <1>1, <1>2 DEF ControlInv
<1>5. PacketInv'
  BY <1>1, <1>2, PacketSame
<1>6. ASSUME NEW c \in registered' PROVE UpLink(c)'
  <2>1. c \in Clients /\ UpLink(c) /\ Got(c)' = Got(c)
    BY <1>1, <1>2 DEF UpInv, TypeOK, Got
  <2> QED  BY <1>2, <2>1, UpLinkSame
<1>7. ASSUME NEW c \in Clients PROVE DownLink(c)'
  <2>1. DownLink(c) /\ ToGo(c)' = ToGo(c)
    BY <1>1, <1>2 DEF DownInv, ToGo
  <2> QED  BY <1>2, <2>1, DownLinkSame
<1>8. OrderInv'
  BY <1>1, <1>2, OrderSame
<1> QED  BY <1>3, <1>4, <1>5, <1>6, <1>7, <1>8 DEF IndInv, UpInv, DownInv

\* The disjuncts of Next.
LEMMA Steps ==
    ASSUME Next
    PROVE  \/ ServerRecv \/ ForwardPacket \/ ForwardDamaged \/ LostClient
           \/ ServerSend \/ ServerSendLost \/ ServerSendFails \/ ServerEnds \/ SendDone
           \/ \E c \in Clients : \/ Dispatch(c) \/ NextMember(c) \/ RemoveFailed(c)
                                 \/ SubmitLine(c) \/ ClientSend(c)
                                 \/ ClientRecv(c) \/ ClientPacket(c) \/ ClientEof(c)
                                 \/ Leave(c) \/ Reset(c) \/ ResetLate(c)
BY DEF Next, ServerStep, ServerKilled, HandleBroadcast

LEMMA StepInv ==
    ASSUME IndInv, [Next]_vars
    PROVE  IndInv'
<1>1. CASE UNCHANGED vars
  BY <1>1, StutterInv
<1>2. CASE Next
  <2>1. CASE \/ ServerRecv \/ ForwardPacket \/ ForwardDamaged \/ LostClient
             \/ ServerSend \/ ServerSendLost \/ ServerSendFails \/ ServerEnds \/ SendDone
    BY <2>1, ServerRecvInv, ForwardPacketInv, ForwardDamagedInv, LostClientInv,
       ServerSendInv, ServerSendLostInv, ServerSendFailsInv, ServerEndsInv, SendDoneInv
  <2>2. ASSUME NEW c \in Clients, Dispatch(c) \/ NextMember(c) \/ RemoveFailed(c)
        PROVE  IndInv'
    BY <2>2, DispatchInv, NextMemberInv, RemoveFailedInv
  <2>3. ASSUME NEW c \in Clients,
               SubmitLine(c) \/ ClientSend(c) \/ Leave(c) \/ Reset(c) \/ ResetLate(c)
        PROVE  IndInv'
    BY <2>3, SubmitLineInv, ClientSendInv, LeaveInv, ResetInv, ResetLateInv
  <2>4. ASSUME NEW c \in Clients, ClientRecv(c) \/ ClientPacket(c) \/ ClientEof(c)
        PROVE  IndInv'
    BY <2>4, ClientRecvInv, ClientPacketInv, ClientEofInv
  <2> QED  BY <1>2, <2>1, <2>2, <2>3, <2>4, Steps
<1> QED  BY <1>1, <1>2

LEMMA Invariance == Spec => []IndInv
<1>1. Init => IndInv
  BY InitInv
<1>2. IndInv /\ [Next]_vars => IndInv'
  BY StepInv
<1> QED  BY <1>1, <1>2, PTL DEF Spec

-----------------------------------------------------------------------------
(* What follows from it in every state.                                    *)

\* Sockets, buffers, positions in the streams and the server's lists of
\* members keep their types: nobody is sent a packet who is not registered,
\* and who was cut off, or was answered with a RST, has closed its socket.
THEOREM RelayTypeCorrect == Spec => []TypeOK
<1>1. IndInv => TypeOK
  BY DEF IndInv
<1> QED  BY <1>1, Invariance, PTL

\* A client reports that the server closed the connection (client.cpp,
\* HandleBroadcast) only if the server ended or a sender was cut off in the
\* middle of a packet, however the bytes were split and buffered.
THEOREM RelayEndsOnlyByCut == Spec => []EndsOnlyByCut
<1>1. IndInv => EndsOnlyByCut
  BY DEF IndInv, PacketInv, EndsOnlyByCut
<1> QED  BY <1>1, Invariance, PTL

LEMMA PrefixOfPrefix ==
    ASSUME NEW S, NEW s \in Seq(S), NEW t \in Seq(S), NEW u \in Seq(S),
           IsPrefix(s, t), IsPrefix(t, u)
    PROVE  IsPrefix(s, u)
<1>1. /\ Len(s) \in Nat /\ Len(t) \in Nat /\ Len(u) \in Nat
      /\ Len(s) <= Len(t) /\ \A i \in 1 .. Len(s) : s[i] = t[i]
      /\ Len(t) <= Len(u) /\ \A i \in 1 .. Len(t) : t[i] = u[i]
  BY PrefixElements, LenProperties
<1>2. Len(s) <= Len(u) /\ \A i \in 1 .. Len(s) : s[i] = u[i]
  BY <1>1
<1> QED  BY <1>2, PrefixElements

\* Where at most the last packet fails to open, those before the first one
\* that does are all of them, or all but the last.
LEMMA OpeningPart ==
    ASSUME NEW s \in Seq(Seq(Bytes)), \A i \in 1 .. Len(s) : i < Len(s) => Opens(s[i])
    PROVE  \E n \in 0 .. Len(s) : {i \in DOMAIN s : \A j \in 1 .. i : Opens(s[j])} = 1 .. n
<1>1. Len(s) \in Nat /\ DOMAIN s = 1 .. Len(s)
  BY LenProperties
<1>2. CASE \A i \in 1 .. Len(s) : Opens(s[i])
  <2>1. {i \in DOMAIN s : \A j \in 1 .. i : Opens(s[j])} = 1 .. Len(s)
    BY <1>1, <1>2
  <2>2. Len(s) \in 0 .. Len(s)
    BY <1>1
  <2> QED  BY <2>1, <2>2
<1>3. CASE ~ \A i \in 1 .. Len(s) : Opens(s[i])
  <2>1. Len(s) > 0 /\ ~Opens(s[Len(s)])
    BY <1>1, <1>3
  <2>2. {i \in DOMAIN s : \A j \in 1 .. i : Opens(s[j])} = 1 .. Len(s) - 1
    BY <1>1, <2>1
  <2>3. Len(s) - 1 \in 0 .. Len(s)
    BY <1>1, <2>1
  <2> QED  BY <2>2, <2>3
<1> QED  BY <1>2, <1>3

LEMMA ShownOfLog ==
    ASSUME IndInv, NEW log \in Seq(AnyPacket), Logged(log), NEW c \in Clients
    PROVE  \E n \in 0 .. Len(log) : /\ Shown(c) = [i \in 1 .. n |-> TextOf(log[i])]
                                   /\ \A i \in 1 .. n : Opens(log[i])
<1>1. /\ read[c] \in Seq(Seq(Bytes)) /\ told[c] \in Seq(AnyPacket)
      /\ ReadOf(c) /\ IsPrefix(told[c], log)
  BY DEF IndInv, TypeOK, PacketInv, DownInv, DownLink, Logged
<1>2. /\ Len(read[c]) \in Nat /\ Len(told[c]) \in Nat /\ Len(log) \in Nat
      /\ Len(read[c]) <= Len(told[c]) /\ Len(told[c]) <= Len(log)
      /\ \A i \in 1 .. Len(told[c]) : told[c][i] = log[i] /\ told[c][i] \in Seq(Bytes)
  <2>1. Len(told[c]) <= Len(log) /\ \A i \in 1 .. Len(told[c]) : told[c][i] = log[i]
    BY <1>1, PrefixElements
  <2>2. \A i \in 1 .. Len(told[c]) : told[c][i] \in Seq(Bytes)
    BY <1>1, PacketsArePayloads
  <2> QED  BY <1>1, <2>1, <2>2, LenProperties DEF ReadOf
<1>3. \A i \in 1 .. Len(read[c]) : i < Len(read[c]) => Opens(read[c][i])
  BY <1>1 DEF ReadOf
<1>4. PICK n \in 0 .. Len(read[c]) :
         {i \in DOMAIN read[c] : \A j \in 1 .. i : Opens(read[c][j])} = 1 .. n
  BY <1>1, <1>3, OpeningPart
<1>5. Shown(c) = [i \in 1 .. n |-> TextOf(read[c][i])]
  BY <1>4 DEF Shown
<1>6. ASSUME NEW i \in 1 .. n PROVE Opens(read[c][i])
  <2>1. i \in {k \in DOMAIN read[c] : \A j \in 1 .. k : Opens(read[c][j])}
    BY <1>4
  <2>2. i \in 1 .. i
    BY <1>4
  <2> QED  BY <2>1, <2>2
<1>7. ASSUME NEW i \in 1 .. n PROVE read[c][i] = log[i]
  <2>1. i \in 1 .. Len(read[c]) /\ i \in 1 .. Len(told[c])
    BY <1>2, <1>4
  <2>2. read[c][i] = told[c][i] \/ read[c][i] \in DamagedForms(told[c][i])
    BY <1>1, <2>1 DEF ReadOf
  <2>3. read[c][i] \notin DamagedForms(told[c][i])
    BY <1>2, <1>6, <2>1, DamagedDoesNotOpen
  <2> QED  BY <1>2, <2>1, <2>2, <2>3
<1>8. Shown(c) = [i \in 1 .. n |-> TextOf(log[i])]
  BY <1>5, <1>7
<1>9. n \in 0 .. Len(log)
  BY <1>2, <1>4
<1> QED  BY <1>6, <1>7, <1>8, <1>9

LEMMA PartsOfLog ==
    ASSUME NEW log, NEW n \in Nat, NEW m \in Nat, n <= m
    PROVE  IsPrefix([i \in 1 .. n |-> TextOf(log[i])], [i \in 1 .. m |-> TextOf(log[i])])
<1> DEFINE S == {TextOf(log[i]) : i \in 1 .. m}
           s == [i \in 1 .. n |-> TextOf(log[i])]
           t == [i \in 1 .. m |-> TextOf(log[i])]
<1>1. \A i \in 1 .. n : i \in 1 .. m
  OBVIOUS
<1>2. s \in Seq(S) /\ Len(s) = n /\ t \in Seq(S) /\ Len(t) = m
  BY <1>1
<1>3. \A i \in 1 .. n : s[i] = t[i]
  BY <1>1
<1> HIDE DEF S, s, t
<1>4. IsPrefix(s, t)
  BY <1>2, <1>3, PrefixElements
<1> QED  BY <1>4 DEF s, t

\* Any two members show the same messages in the same order, one perhaps
\* fewer: the server ends the send loop of one packet before it reads the
\* next (server.cpp, EventLoop), so there is one log of packets, and every
\* client reads a beginning of it.
THEOREM MembersShowSameLines == Spec => []SameLines
<1>1. ASSUME IndInv, NEW c \in Clients, NEW d \in Clients
      PROVE  IsPrefix(Shown(c), Shown(d)) \/ IsPrefix(Shown(d), Shown(c))
  <2>1. PICK log \in Seq(AnyPacket) : Logged(log) /\ Accounted(log)
    BY <1>1 DEF IndInv, OrderInv
  <2>2. PICK n \in 0 .. Len(log) : Shown(c) = [i \in 1 .. n |-> TextOf(log[i])]
    BY <1>1, <2>1, ShownOfLog
  <2>3. PICK m \in 0 .. Len(log) : Shown(d) = [i \in 1 .. m |-> TextOf(log[i])]
    BY <1>1, <2>1, ShownOfLog
  <2>4. Len(log) \in Nat
    BY <2>1, LenProperties
  <2>5. n \in Nat /\ m \in Nat /\ (n <= m \/ m <= n)
    BY <2>4
  <2>6. CASE n <= m
    <3>1. IsPrefix([i \in 1 .. n |-> TextOf(log[i])], [i \in 1 .. m |-> TextOf(log[i])])
      BY <2>5, <2>6, PartsOfLog
    <3> QED  BY <2>2, <2>3, <3>1
  <2>7. CASE m <= n
    <3>1. IsPrefix([i \in 1 .. m |-> TextOf(log[i])], [i \in 1 .. n |-> TextOf(log[i])])
      BY <2>5, <2>7, PartsOfLog
    <3> QED  BY <2>2, <2>3, <3>1
  <2> QED  BY <2>5, <2>6, <2>7
<1>2. IndInv => SameLines
  BY <1>1 DEF SameLines
<1> QED  BY <1>2, Invariance, PTL

\* A beginning of the log has a beginning of its origins.
LEMMA TracedPart ==
    ASSUME NEW log \in Seq(AnyPacket), Accounted(log),
           NEW s \in Seq(AnyPacket), IsPrefix(s, log)
    PROVE  \E origin \in Injection(1 .. Len(s), Origins) : Traced(s, origin)
<1>1. PICK origin \in Injection(1 .. Len(log), Origins) : AccountOf(log, origin)
  BY DEF Accounted
<1>2. /\ Len(s) \in Nat /\ Len(log) \in Nat /\ Len(s) <= Len(log)
      /\ \A i \in 1 .. Len(s) : s[i] = log[i]
  BY PrefixElements, LenProperties
<1> DEFINE part == [i \in 1 .. Len(s) |-> origin[i]]
<1>3. /\ origin \in [1 .. Len(log) -> Origins] /\ IsInjective(origin) /\ Traced(log, origin)
  BY <1>1 DEF Injection, AccountOf
<1>4. \A i \in 1 .. Len(s) : i \in 1 .. Len(log) /\ part[i] = origin[i]
  BY <1>2
<1>5. part \in [1 .. Len(s) -> Origins] /\ DOMAIN part = 1 .. Len(s)
  BY <1>3, <1>4
<1> HIDE DEF part
<1>6. IsInjective(part)
  BY <1>3, <1>4, <1>5 DEF IsInjective
<1>7. ASSUME NEW i \in 1 .. Len(s)
      PROVE  /\ StandsFor(s[i], part[i])
             /\ \A o \in Earlier(part[i]) : \E j \in 1 .. i - 1 : part[j] = o
  <2>1. StandsFor(s[i], part[i])
    BY <1>2, <1>3, <1>4 DEF Traced
  <2>2. ASSUME NEW o \in Earlier(part[i]) PROVE \E j \in 1 .. i - 1 : part[j] = o
    <3>1. PICK j \in 1 .. i - 1 : origin[j] = o
      BY <1>3, <1>4, <2>2 DEF Traced
    <3>2. j \in 1 .. Len(s)
      BY <1>2
    <3> QED  BY <1>4, <3>1, <3>2
  <2> QED  BY <2>1, <2>2
<1> QED  BY <1>5, <1>6, <1>7 DEF Injection, Traced

\* A member is told exactly what the server heard from the others and
\* itself, in the order of each sender, and one farewell of each that left,
\* as the last of it (server.cpp, HandleClientEvent and DisconnectClient): no
\* failed send, no departure during a broadcast and no packet cut short makes
\* the server repeat, skip or invent one.
THEOREM MembersToldOnce == Spec => []ToldOnce
<1>1. ASSUME IndInv, NEW c \in Clients
      PROVE  \E origin \in Injection(1 .. Len(told[c]), Origins) : Traced(told[c], origin)
  <2>1. PICK log \in Seq(AnyPacket) : Logged(log) /\ Accounted(log)
    BY <1>1 DEF IndInv, OrderInv
  <2>2. told[c] \in Seq(AnyPacket) /\ IsPrefix(told[c], log)
    BY <1>1, <2>1 DEF IndInv, PacketInv, Logged
  <2> QED  BY <2>1, <2>2, TracedPart
<1>2. IndInv => ToldOnce
  BY <1>1 DEF ToldOnce
<1> QED  BY <1>2, Invariance, PTL

-----------------------------------------------------------------------------
(* The packet channels.                                                    *)

\* The actions that send or return a packet, and what else the channels see.
LEMMA ChannelSteps ==
    ASSUME [Next]_vars
    PROVE  /\ said' = said \/ \E c \in Clients : SubmitLine(c)
           /\ heard' = heard \/ ForwardPacket \/ ForwardDamaged
           /\ told' = told \/ \E c \in Clients : NextMember(c)
           /\ read' = read \/ \E c \in Clients : ClientPacket(c) \/ ClientEof(c)
           /\ open' \subseteq open
           /\ pc = "dead" => pc' = "dead"
<1>1. CASE UNCHANGED vars
  BY <1>1 DEF vars, netVars, connVars, clientVars, serverVars, recvVars, sendVars
<1>2. CASE Next
  <2>1. CASE ServerRecv
    BY <2>1 DEF ServerRecv, connVars, clientVars, recvVars, sendVars
  <2>2. CASE ForwardPacket
    BY <2>2 DEF ForwardPacket, Forward, SendToAll, netVars, connVars, clientVars
  <2>3. CASE ForwardDamaged
    BY <2>3 DEF ForwardDamaged, RecvEnds, Forward, SendToAll, netVars, connVars, clientVars
  <2>4. CASE LostClient
    BY <2>4 DEF LostClient, RecvEnds, Disconnect, SendToAll, netVars, connVars, clientVars
  <2>5. CASE ServerSend \/ ServerSendLost \/ ServerSendFails \/ ServerEnds
    BY <2>5 DEF ServerSend, ServerSendLost, ServerSendFails, ServerEnds, netVars, connVars,
                clientVars, recvVars
  <2>6. CASE SendDone
    BY <2>6 DEF SendDone, AllSent, netVars, connVars, clientVars, recvVars
  <2>7. ASSUME NEW c \in Clients, Dispatch(c)
        PROVE  /\ UNCHANGED <<said, heard, told, read, open>> /\ pc # "dead"
    BY <2>7 DEF Dispatch, netVars, connVars, clientVars, sendVars
  <2>8. ASSUME NEW c \in Clients, NextMember(c)
        PROVE  /\ UNCHANGED <<said, heard, read, open>> /\ pc # "dead"
    BY <2>8 DEF NextMember, netVars, connVars, clientVars, recvVars
  <2>9. ASSUME NEW c \in Clients, RemoveFailed(c)
        PROVE  /\ UNCHANGED <<said, heard, told, read, open>> /\ pc # "dead"
    BY <2>9 DEF RemoveFailed, AllSent, Disconnect, SendToAll, netVars, connVars, clientVars, recvVars,
                sendVars
  <2>10. ASSUME NEW c \in Clients, SubmitLine(c)
         PROVE  UNCHANGED <<heard, told, read, open, pc>>
    BY <2>10 DEF SubmitLine, netVars, connVars, serverVars, recvVars, sendVars
  <2>11. ASSUME NEW c \in Clients, ClientSend(c) \/ ClientRecv(c) \/ Reset(c) \/ ResetLate(c)
         PROVE  UNCHANGED <<said, heard, told, read, open, pc>>
    BY <2>11 DEF ClientSend, ClientRecv, Reset, ResetLate, connVars, clientVars, serverVars,
                 recvVars, sendVars
  <2>12. ASSUME NEW c \in Clients, Leave(c)
         PROVE  UNCHANGED <<said, heard, told, read, pc>> /\ open' \subseteq open
    BY <2>12 DEF Leave, CloseSocket, serverVars, recvVars, sendVars
  <2>13. ASSUME NEW c \in Clients, ClientPacket(c) \/ ClientEof(c)
         PROVE  UNCHANGED <<said, heard, told, pc>> /\ open' \subseteq open
    BY <2>13 DEF ClientPacket, ClientEof, ServerClosed, CloseSocket, netVars, connVars, serverVars,
                 recvVars, sendVars
  <2> QED  BY <1>2, <2>1, <2>2, <2>3, <2>4, <2>5, <2>6, <2>7, <2>8, <2>9, <2>10, <2>11, <2>12,
              <2>13, Steps
<1> QED  BY <1>1, <1>2

\* What a step does to the packets of one client on their way to the server.
LEMMA FromStep ==
    ASSUME IndInv, [Next]_vars, NEW c \in Clients
    PROVE  \/ /\ c \in open /\ said[c] < Len(Script[c])
              /\ said'[c] = said[c] + 1 /\ heard'[c] = heard[c]
           \/ /\ HeardAll(c) /\ Len(heard[c]) < said[c] /\ said'[c] = said[c]
              /\ heard'[c] = Append(heard[c], Sent(c)[Len(heard[c]) + 1])
           \/ /\ c \notin open /\ HeardAll(c) /\ Len(heard[c]) < said[c] /\ said'[c] = said[c]
              /\ \E p \in DamagedForms(Sent(c)[Len(heard[c]) + 1]) :
                    heard'[c] = Append(heard[c], p)
           \/ said'[c] = said[c] /\ heard'[c] = heard[c]
<1>1. said \in [Clients -> Nat] /\ DOMAIN heard = Clients
  BY DEF IndInv, TypeOK
<1>2. ASSUME NEW d \in Clients, SubmitLine(d)
      PROVE  /\ d \in open /\ said[d] < Len(Script[d]) /\ said'[d] = said[d] + 1
             /\ heard' = heard /\ \A e \in Clients : e # d => said'[e] = said[e]
  BY <1>1, <1>2 DEF SubmitLine, serverVars, recvVars
<1>3. ASSUME NEW p, Forward(p)
      PROVE  said' = said /\ heard' = [heard EXCEPT ![cur] = Append(@, p)]
  BY <1>3 DEF Forward, clientVars
<1>4. ASSUME ForwardPacket
      PROVE  /\ said' = said /\ cur \in Clients /\ HeardAll(cur)
             /\ Len(heard[cur]) < said[cur]
             /\ heard' = [heard EXCEPT ![cur] = Append(@, Sent(cur)[Len(heard[cur]) + 1])]
  <2>1. pc = "recv" /\ Wanted(srx) = 0 /\ Forward(Body(srx))
    BY <1>4 DEF ForwardPacket
  <2>2. /\ cur \in Clients /\ HeardAll(cur) /\ Len(heard[cur]) < said[cur]
        /\ Body(srx) = Sent(cur)[Len(heard[cur]) + 1]
    BY <2>1, NextHeard
  <2> QED  BY <1>3, <2>1, <2>2
<1>5. ASSUME ForwardDamaged
      PROVE  /\ said' = said /\ cur \in Clients /\ cur \notin open /\ HeardAll(cur)
             /\ Len(heard[cur]) < said[cur]
             /\ \E p \in DamagedForms(Sent(cur)[Len(heard[cur]) + 1]) :
                   heard' = [heard EXCEPT ![cur] = Append(@, p)]
  <2>1. PICK p \in ReturnedAtEnd(srx) : Forward(p)
    BY <1>5 DEF ForwardDamaged
  <2>2. RecvEnds /\ cur \notin open
    BY <1>5 DEF ForwardDamaged, RecvEnds
  <2>3. /\ cur \in Clients /\ HeardAll(cur) /\ Len(heard[cur]) < said[cur]
        /\ p \in DamagedForms(Sent(cur)[Len(heard[cur]) + 1])
    BY <2>2, LastHeard
  <2> QED  BY <1>3, <2>1, <2>2, <2>3
<1>6. CASE ForwardPacket
  <2>1. CASE c = cur
    BY <1>1, <1>4, <1>6, <2>1
  <2>2. CASE c # cur
    BY <1>1, <1>4, <1>6, <2>2
  <2> QED  BY <2>1, <2>2
<1>7. CASE ForwardDamaged
  <2>1. CASE c = cur
    BY <1>1, <1>5, <1>7, <2>1
  <2>2. CASE c # cur
    BY <1>1, <1>5, <1>7, <2>2
  <2> QED  BY <2>1, <2>2
<1>8. CASE heard' = heard
  <2>1. CASE said' = said
    BY <1>8, <2>1
  <2>2. ASSUME NEW d \in Clients, SubmitLine(d)
        PROVE  \/ /\ c \in open /\ said[c] < Len(Script[c])
                  /\ said'[c] = said[c] + 1 /\ heard'[c] = heard[c]
               \/ said'[c] = said[c] /\ heard'[c] = heard[c]
    BY <1>2, <2>2
  <2> QED  BY <2>1, <2>2, ChannelSteps
<1> QED  BY <1>6, <1>7, <1>8, ChannelSteps

\* ... and to the packets on their way from the server.
ReadAll(c) == /\ Len(read[c]) < Len(told[c])
              /\ \A i \in 1 .. Len(read[c]) : read[c][i] = told[c][i]

LEMMA ToStep ==
    ASSUME IndInv, [Next]_vars, NEW c \in Clients
    PROVE  \/ /\ pc # "dead" /\ read'[c] = read[c]
              /\ \E p \in AnyPacket : told'[c] = Append(told[c], p)
           \/ /\ ReadAll(c) /\ told'[c] = told[c]
              /\ read'[c] = Append(read[c], told[c][Len(read[c]) + 1])
           \/ /\ pc = "dead" /\ ReadAll(c) /\ told'[c] = told[c]
              /\ \E p \in DamagedForms(told[c][Len(read[c]) + 1]) : read'[c] = Append(read[c], p)
           \/ told'[c] = told[c] /\ read'[c] = read[c]
<1>1. DOMAIN told = Clients /\ DOMAIN read = Clients
  BY DEF IndInv, TypeOK
<1>2. ASSUME NEW d \in Clients, NextMember(d)
      PROVE  /\ pc # "dead" /\ pkt \in AnyPacket /\ read' = read
             /\ told' = [told EXCEPT ![d] = Append(@, pkt)]
  BY <1>2 DEF NextMember, clientVars, IndInv, PacketInv
<1>3. ASSUME NEW d \in Clients, ClientPacket(d)
      PROVE  /\ ReadAll(d) /\ told' = told
             /\ read' = [read EXCEPT ![d] = Append(@, told[d][Len(read[d]) + 1])]
  <2>1. /\ d \in open /\ Wanted(crx[d]) = 0 /\ told' = told
        /\ read' = [read EXCEPT ![d] = Append(@, Body(crx[d]))]
    BY <1>3 DEF ClientPacket, serverVars, sendVars
  <2>2. ReadOf(d)
    BY DEF IndInv, DownInv, DownLink
  <2>3. Len(read[d]) < Len(told[d]) /\ Body(crx[d]) = told[d][Len(read[d]) + 1]
    BY <2>1, NextRead
  <2> QED  BY <2>1, <2>2, <2>3 DEF ReadOf, ReadAll
<1>4. ASSUME NEW d \in Clients, ClientEof(d)
      PROVE  /\ told' = told
             /\ \/ read' = read
                \/ /\ pc = "dead" /\ ReadAll(d)
                   /\ \E p \in DamagedForms(told[d][Len(read[d]) + 1]) :
                         read' = [read EXCEPT ![d] = Append(@, p)]
  <2>1. /\ d \in open /\ pc = "dead" /\ down[d] = <<>> /\ Wanted(crx[d]) > 0 /\ told' = told
    BY <1>4 DEF ClientEof, serverVars, sendVars
  <2>2. ReadOf(d)
    BY DEF IndInv, DownInv, DownLink
  <2>3. ASSUME NEW p \in ReturnedAtEnd(crx[d]), read' = [read EXCEPT ![d] = Append(@, p)]
        PROVE  ReadAll(d) /\ p \in DamagedForms(told[d][Len(read[d]) + 1])
    <3>1. Len(read[d]) < Len(told[d]) /\ p \in DamagedForms(told[d][Len(read[d]) + 1])
      BY <2>1, LastRead
    <3> QED  BY <2>1, <2>2, <3>1 DEF ReadOf, ReadAll
  <2>4. \/ read' = read
        \/ \E p \in ReturnedAtEnd(crx[d]) : read' = [read EXCEPT ![d] = Append(@, p)]
    BY <1>4 DEF ClientEof
  <2> QED  BY <2>1, <2>3, <2>4
<1>5. ASSUME NEW d \in Clients, NextMember(d)
      PROVE  \/ /\ pc # "dead" /\ read'[c] = read[c]
                /\ \E p \in AnyPacket : told'[c] = Append(told[c], p)
             \/ told'[c] = told[c] /\ read'[c] = read[c]
  BY <1>1, <1>2, <1>5
<1>6. CASE told' = told
  <2>1. CASE read' = read
    BY <1>6, <2>1
  <2>2. ASSUME NEW d \in Clients, ClientPacket(d)
        PROVE  \/ /\ ReadAll(c) /\ told'[c] = told[c]
                  /\ read'[c] = Append(read[c], told[c][Len(read[c]) + 1])
               \/ told'[c] = told[c] /\ read'[c] = read[c]
    BY <1>1, <1>3, <2>2
  <2>3. ASSUME NEW d \in Clients, ClientEof(d)
        PROVE  \/ /\ pc = "dead" /\ ReadAll(c) /\ told'[c] = told[c]
                  /\ \E p \in DamagedForms(told[c][Len(read[c]) + 1]) :
                        read'[c] = Append(read[c], p)
               \/ told'[c] = told[c] /\ read'[c] = read[c]
    BY <1>1, <1>4, <2>3
  <2> QED  BY <2>1, <2>2, <2>3, ChannelSteps
<1> QED  BY <1>5, <1>6, ChannelSteps

\* The variables of the channels, by name.
ChSent == [l \in Links |-> IF l[1] = "to" THEN told[l[2]]
                           ELSE [i \in 1 .. said[l[2]] |-> Sealed(Script[l[2]][i])]]
ChGot == [l \in Links |-> IF l[1] = "to" THEN read[l[2]] ELSE heard[l[2]]]
ChClosed == {l \in Links : IF l[1] = "to" THEN pc = "dead" ELSE l[2] \notin open}

ChIntact(l) == /\ Len(ChGot[l]) <= Len(ChSent[l])
               /\ \A i \in 1 .. Len(ChGot[l]) : ChGot[l][i] = ChSent[l][i]

LEMMA LinkValues ==
    ASSUME NEW l \in Links
    PROVE  /\ l[2] \in Clients /\ l[1] \in {"from", "to"}
           /\ ChSent[l] = IF l[1] = "to" THEN told[l[2]] ELSE Sent(l[2])
           /\ ChSent'[l] = IF l[1] = "to" THEN told'[l[2]] ELSE Lines(l[2], said'[l[2]])
           /\ ChGot[l] = IF l[1] = "to" THEN read[l[2]] ELSE heard[l[2]]
           /\ ChGot'[l] = IF l[1] = "to" THEN read'[l[2]] ELSE heard'[l[2]]
           /\ l \in ChClosed <=> IF l[1] = "to" THEN pc = "dead" ELSE l[2] \notin open
<1>1. l[2] \in Clients /\ l[1] \in {"from", "to"}
  BY DEF Links
<1>2. /\ ChGot[l] = IF l[1] = "to" THEN read[l[2]] ELSE heard[l[2]]
      /\ ChGot'[l] = IF l[1] = "to" THEN read'[l[2]] ELSE heard'[l[2]]
      /\ l \in ChClosed <=> IF l[1] = "to" THEN pc = "dead" ELSE l[2] \notin open
  BY DEF ChGot, ChClosed
<1>3. ChSent[l] = IF l[1] = "to" THEN told[l[2]] ELSE Sent(l[2])
  BY DEF ChSent, Sent, Lines
<1>4. ChSent'[l] = IF l[1] = "to" THEN told'[l[2]] ELSE Lines(l[2], said'[l[2]])
  BY DEF ChSent, Lines
<1> QED  BY <1>1, <1>2, <1>3, <1>4

\* The actions of the channels in terms of these.
LEMMA ChannelActions ==
    ASSUME NEW l \in Links
    PROVE  /\ Channels!Send(l) <=> /\ l \notin ChClosed /\ ChGot'[l] = ChGot[l]
                                   /\ \E p \in AnyPacket : ChSent'[l] = Append(ChSent[l], p)
           /\ Channels!Receive(l) <=>
                 /\ ChIntact(l) /\ Len(ChGot[l]) < Len(ChSent[l])
                 /\ ChGot'[l] = Append(ChGot[l], ChSent[l][Len(ChGot[l]) + 1])
                 /\ ChSent'[l] = ChSent[l]
           /\ Channels!ReceiveDamaged(l) <=>
                 /\ l \in ChClosed /\ ChIntact(l) /\ Len(ChGot[l]) < Len(ChSent[l])
                 /\ \E p \in DamagedForms(ChSent[l][Len(ChGot[l]) + 1]) :
                       ChGot'[l] = Append(ChGot[l], p)
                 /\ ChSent'[l] = ChSent[l]
           /\ Channels!Idle(l) <=> ChSent'[l] = ChSent[l] /\ ChGot'[l] = ChGot[l]
<1>1. Channels!Send(l) <=> /\ l \notin ChClosed /\ ChGot'[l] = ChGot[l]
                           /\ \E p \in AnyPacket : ChSent'[l] = Append(ChSent[l], p)
  BY DEF Channels!Send, ChSent, ChGot, ChClosed
<1>2. Channels!Receive(l) <=> /\ ChIntact(l) /\ Len(ChGot[l]) < Len(ChSent[l])
                              /\ ChGot'[l] = Append(ChGot[l], ChSent[l][Len(ChGot[l]) + 1])
                              /\ ChSent'[l] = ChSent[l]
  BY DEF Channels!Receive, Channels!Intact, ChIntact, ChSent, ChGot
<1>3. Channels!ReceiveDamaged(l) <=>
         /\ l \in ChClosed /\ ChIntact(l) /\ Len(ChGot[l]) < Len(ChSent[l])
         /\ \E p \in DamagedForms(ChSent[l][Len(ChGot[l]) + 1]) : ChGot'[l] = Append(ChGot[l], p)
         /\ ChSent'[l] = ChSent[l]
  BY DEF Channels!ReceiveDamaged, Channels!Intact, ChIntact, ChSent, ChGot, ChClosed
<1>4. Channels!Idle(l) <=> ChSent'[l] = ChSent[l] /\ ChGot'[l] = ChGot[l]
  BY DEF Channels!Idle, ChSent, ChGot
<1> QED  BY <1>1, <1>2, <1>3, <1>4

LEMMA LinkStep ==
    ASSUME IndInv, [Next]_vars, NEW l \in Links
    PROVE  Channels!Send(l) \/ Channels!Receive(l) \/ Channels!ReceiveDamaged(l) \/ Channels!Idle(l)
<1>1. /\ Channels!Send(l) <=> /\ l \notin ChClosed /\ ChGot'[l] = ChGot[l]
                              /\ \E p \in AnyPacket : ChSent'[l] = Append(ChSent[l], p)
      /\ Channels!Idle(l) <=> ChSent'[l] = ChSent[l] /\ ChGot'[l] = ChGot[l]
  BY ChannelActions
<1>2. Channels!Receive(l) <=> /\ ChIntact(l) /\ Len(ChGot[l]) < Len(ChSent[l])
                              /\ ChGot'[l] = Append(ChGot[l], ChSent[l][Len(ChGot[l]) + 1])
                              /\ ChSent'[l] = ChSent[l]
  BY ChannelActions
<1>3. Channels!ReceiveDamaged(l) <=>
         /\ l \in ChClosed /\ ChIntact(l) /\ Len(ChGot[l]) < Len(ChSent[l])
         /\ \E p \in DamagedForms(ChSent[l][Len(ChGot[l]) + 1]) : ChGot'[l] = Append(ChGot[l], p)
         /\ ChSent'[l] = ChSent[l]
  BY ChannelActions
<1> DEFINE c == l[2]
<1>4. /\ c \in Clients /\ l[1] \in {"from", "to"}
      /\ ChSent[l] = IF l[1] = "to" THEN told[c] ELSE Sent(c)
      /\ ChSent'[l] = IF l[1] = "to" THEN told'[c] ELSE Lines(c, said'[c])
      /\ ChGot[l] = IF l[1] = "to" THEN read[c] ELSE heard[c]
      /\ ChGot'[l] = IF l[1] = "to" THEN read'[c] ELSE heard'[c]
      /\ l \in ChClosed <=> IF l[1] = "to" THEN pc = "dead" ELSE c \notin open
  BY LinkValues
<1> HIDE DEF c
<1>5. CASE l[1] = "to"
  <2>1. \/ /\ pc # "dead" /\ read'[c] = read[c]
           /\ \E p \in AnyPacket : told'[c] = Append(told[c], p)
        \/ /\ ReadAll(c) /\ told'[c] = told[c]
           /\ read'[c] = Append(read[c], told[c][Len(read[c]) + 1])
        \/ /\ pc = "dead" /\ ReadAll(c) /\ told'[c] = told[c]
           /\ \E p \in DamagedForms(told[c][Len(read[c]) + 1]) : read'[c] = Append(read[c], p)
        \/ told'[c] = told[c] /\ read'[c] = read[c]
    BY <1>4, ToStep
  <2>2. ASSUME ReadAll(c) PROVE ChIntact(l) /\ Len(ChGot[l]) < Len(ChSent[l])
    <3>1. Len(read[c]) \in Nat /\ Len(told[c]) \in Nat
      BY <1>4, LenProperties DEF IndInv, TypeOK
    <3> QED  BY <1>4, <1>5, <2>2, <3>1 DEF ReadAll, ChIntact
  <2>3. CASE /\ pc # "dead" /\ read'[c] = read[c]
             /\ \E p \in AnyPacket : told'[c] = Append(told[c], p)
    BY <1>1, <1>4, <1>5, <2>3
  <2>4. CASE /\ ReadAll(c) /\ told'[c] = told[c]
             /\ read'[c] = Append(read[c], told[c][Len(read[c]) + 1])
    BY <1>2, <1>4, <1>5, <2>2, <2>4
  <2>5. CASE /\ pc = "dead" /\ ReadAll(c) /\ told'[c] = told[c]
             /\ \E p \in DamagedForms(told[c][Len(read[c]) + 1]) : read'[c] = Append(read[c], p)
    BY <1>3, <1>4, <1>5, <2>2, <2>5
  <2>6. CASE told'[c] = told[c] /\ read'[c] = read[c]
    BY <1>1, <1>4, <1>5, <2>6
  <2> QED  BY <2>1, <2>3, <2>4, <2>5, <2>6
<1>6. CASE l[1] # "to"
  <2>1. said[c] \in Nat /\ Len(Sent(c)) = said[c] /\ Sent(c) = Lines(c, said[c])
    BY <1>4, LinkTypes DEF IndInv, Sent
  <2>2. CASE /\ c \in open /\ said[c] < Len(Script[c])
             /\ said'[c] = said[c] + 1 /\ heard'[c] = heard[c]
    <3>1. Lines(c, said'[c]) = Append(Sent(c), Sealed(Script[c][said[c] + 1]))
      BY <1>4, <2>1, <2>2, LinesNext
    <3>2. Sealed(Script[c][said[c] + 1]) \in AnyPacket
      <4>1. Script[c] \in Seq(Texts) /\ said[c] + 1 \in 1 .. Len(Script[c])
        BY <1>4, <2>1, <2>2, RelayAssumption
      <4>2. Script[c][said[c] + 1] \in Texts
        BY <4>1
      <4> QED  BY <4>2, SealedPacket
    <3> QED  BY <1>1, <1>4, <1>6, <2>2, <3>1, <3>2
  <2>3. ASSUME HeardAll(c), Len(heard[c]) < said[c]
        PROVE  ChIntact(l) /\ Len(ChGot[l]) < Len(ChSent[l])
    <3>1. Len(heard[c]) \in Nat /\ \A i \in 1 .. said[c] : Sent(c)[i] = Sealed(Script[c][i])
      BY <1>4, LinkTypes DEF IndInv
    <3>2. \A i \in 1 .. Len(heard[c]) : i \in 1 .. said[c]
      BY <2>1, <2>3, <3>1
    <3>3. \A i \in 1 .. Len(heard[c]) : heard[c][i] = Sent(c)[i]
      BY <2>3, <3>1, <3>2 DEF HeardAll
    <3> QED  BY <1>4, <1>6, <2>1, <2>3, <3>1, <3>3 DEF ChIntact
  <2>4. CASE /\ HeardAll(c) /\ Len(heard[c]) < said[c] /\ said'[c] = said[c]
             /\ heard'[c] = Append(heard[c], Sent(c)[Len(heard[c]) + 1])
    BY <1>2, <1>4, <1>6, <2>1, <2>3, <2>4
  <2>5. CASE /\ c \notin open /\ HeardAll(c) /\ Len(heard[c]) < said[c] /\ said'[c] = said[c]
             /\ \E p \in DamagedForms(Sent(c)[Len(heard[c]) + 1]) :
                   heard'[c] = Append(heard[c], p)
    BY <1>3, <1>4, <1>6, <2>1, <2>3, <2>5
  <2>6. CASE said'[c] = said[c] /\ heard'[c] = heard[c]
    BY <1>1, <1>4, <1>6, <2>1, <2>6
  <2> QED  BY <1>4, <2>2, <2>4, <2>5, <2>6, FromStep
<1> QED  BY <1>5, <1>6

\* Both directions of every connection are packet channels: send_all,
\* recv_all, the length before every packet and the order of the server's
\* calls (network_session.cpp, server.cpp, client.cpp) give the receiver the
\* packets that were sent, whole, in order and without gaps, apart from one
\* that was cut short when the sender closed its socket, which comes last.
THEOREM RelayImplementsChannels == Spec => ImplementsChannels
<1>1. Init => Channels!Init
  <2>1. ASSUME Init PROVE ChSent = [l \in Links |-> <<>>] /\ ChGot = ChSent /\ ChClosed = {}
    <3>1. ASSUME NEW l \in Links PROVE ChSent[l] = <<>> /\ ChGot[l] = <<>> /\ l \notin ChClosed
      <4> DEFINE c == l[2]
      <4>1. /\ c \in Clients
            /\ ChSent[l] = IF l[1] = "to" THEN told[c] ELSE Sent(c)
            /\ ChGot[l] = IF l[1] = "to" THEN read[c] ELSE heard[c]
            /\ l \in ChClosed <=> IF l[1] = "to" THEN pc = "dead" ELSE c \notin open
        BY LinkValues
      <4> HIDE DEF c
      <4>2. /\ told[c] = <<>> /\ read[c] = <<>> /\ heard[c] = <<>> /\ said[c] = 0
            /\ pc # "dead" /\ c \in open
        BY <2>1, <4>1 DEF Init
      <4>3. Sent(c) = <<>>
        <5>1. Sent(c) \in Seq(AnyPacket) /\ Len(Sent(c)) = 0
          BY <2>1, <4>1, <4>2, InitInv, LinkTypes DEF IndInv
        <5> QED  BY <5>1, EmptySeq
      <4> QED  BY <4>1, <4>2, <4>3
    <3>2. ChSent = [l \in Links |-> ChSent[l]] /\ ChGot = [l \in Links |-> ChGot[l]]
      BY DEF ChSent, ChGot
    <3>3. ChClosed \subseteq Links
      BY DEF ChClosed
    <3> QED  BY <3>1, <3>2, <3>3
  <2> QED  BY <2>1 DEF Channels!Init, ChSent, ChGot, ChClosed
<1>2. ASSUME IndInv, [Next]_vars PROVE Channels!Next
  <2>1. \A l \in Links : Channels!Send(l) \/ Channels!Receive(l) \/ Channels!ReceiveDamaged(l)
                         \/ Channels!Idle(l)
    BY <1>2, LinkStep
  <2>2. DOMAIN ChSent' = Links /\ DOMAIN ChGot' = Links
    BY DEF ChSent, ChGot
  <2>3. ChClosed \subseteq ChClosed' /\ ChClosed' \subseteq Links
    <3>1. open' \subseteq open /\ (pc = "dead" => pc' = "dead")
      BY <1>2, ChannelSteps
    <3> QED  BY <3>1 DEF ChClosed
  <2> QED  BY <2>1, <2>2, <2>3 DEF Channels!Next, ChSent, ChGot, ChClosed
<1> QED  BY <1>1, <1>2, Invariance, PTL DEF Spec, ImplementsChannels, Channels!Spec

-----------------------------------------------------------------------------
(* What the receivers may rely on, whatever else happens on the channels.  *)

\* One channel l with the packets s sent and g received, where the ends of
\* the channels in C are closed.
InOrderOn(l, s, g, C) ==
    /\ Len(g) <= Len(s)
    /\ \A i \in 1 .. Len(g) :
          \/ g[i] = s[i]
          \/ l \in C /\ i = Len(g) /\ g[i] \in DamagedForms(s[i])

Received == AnyPacket \cup UNION {DamagedForms(p) : p \in AnyPacket}

LEMMA OrderAfterSend ==
    ASSUME NEW s \in Seq(AnyPacket), NEW g \in Seq(Received), NEW p \in AnyPacket,
           NEW l, NEW C, NEW D, l \notin C, InOrderOn(l, s, g, C)
    PROVE  Append(s, p) \in Seq(AnyPacket) /\ InOrderOn(l, Append(s, p), g, D)
<1> DEFINE t == Append(s, p)
<1>1. /\ t \in Seq(AnyPacket) /\ Len(t) = Len(s) + 1
      /\ \A i \in 1 .. Len(s) : t[i] = s[i]
  BY AppendProperties
<1> HIDE DEF t
<1>2. /\ Len(s) \in Nat /\ Len(g) \in Nat /\ Len(g) <= Len(s)
      /\ \A i \in 1 .. Len(g) : g[i] = s[i]
  BY DEF InOrderOn
<1>3. Len(g) <= Len(t) /\ \A i \in 1 .. Len(g) : g[i] = t[i]
  BY <1>1, <1>2
<1>4. t \in Seq(AnyPacket) /\ InOrderOn(l, t, g, D)
  BY <1>1, <1>3 DEF InOrderOn
<1> QED  BY <1>4 DEF t

LEMMA OrderAfterReceive ==
    ASSUME NEW s \in Seq(AnyPacket), NEW g \in Seq(Received), NEW p, NEW l, NEW C,
           Len(g) < Len(s), \A i \in 1 .. Len(g) : g[i] = s[i],
           p = s[Len(g) + 1] \/ (l \in C /\ p \in DamagedForms(s[Len(g) + 1]))
    PROVE  Append(g, p) \in Seq(Received) /\ InOrderOn(l, s, Append(g, p), C)
<1> DEFINE h == Append(g, p)
           n == Len(g) + 1
<1>1. /\ Len(s) \in Nat /\ Len(g) \in Nat /\ n \in 1 .. Len(s)
      /\ \A i \in 1 .. Len(s) : s[i] \in AnyPacket
  OBVIOUS
<1>2. p = s[n] \/ (l \in C /\ p \in DamagedForms(s[n]))
  OBVIOUS
<1>3. p \in Received
  BY <1>1, <1>2 DEF Received
<1>4. /\ h \in Seq(Received) /\ Len(h) = n /\ h[n] = p
      /\ \A i \in 1 .. Len(g) : h[i] = g[i]
  BY <1>3, AppendProperties
<1> HIDE DEF h
<1>5. ASSUME NEW i \in 1 .. n
      PROVE  h[i] = s[i] \/ (l \in C /\ i = Len(h) /\ h[i] \in DamagedForms(s[i]))
  <2>1. CASE i = n
    BY <1>2, <1>4, <2>1
  <2>2. CASE i # n
    <3>1. i \in 1 .. Len(g)
      BY <1>1, <2>2
    <3> QED  BY <1>4, <3>1
  <2> QED  BY <2>1, <2>2
<1>6. Len(h) <= Len(s)
  BY <1>1, <1>4
<1>7. h \in Seq(Received) /\ InOrderOn(l, s, h, C)
  BY <1>4, <1>5, <1>6 DEF InOrderOn
<1> QED  BY <1>7 DEF h

LEMMA OrderAfterClose ==
    ASSUME NEW l, NEW s, NEW g, NEW C, NEW D, C \subseteq D, InOrderOn(l, s, g, C)
    PROVE  InOrderOn(l, s, g, D)
BY DEF InOrderOn

LEMMA ChannelStepInOrder ==
    ASSUME NEW l \in Links, NEW s \in Seq(AnyPacket), NEW g \in Seq(Received),
           s = ChSent[l], g = ChGot[l], NEW D, D = ChClosed',
           InOrderOn(l, s, g, ChClosed), ChClosed \subseteq D,
           Channels!Send(l) \/ Channels!Receive(l) \/ Channels!ReceiveDamaged(l)
                            \/ Channels!Idle(l)
    PROVE  /\ ChSent'[l] \in Seq(AnyPacket) /\ ChGot'[l] \in Seq(Received)
           /\ InOrderOn(l, ChSent'[l], ChGot'[l], D)
<1>1. InOrderOn(l, s, g, D)
  BY OrderAfterClose
<1>2. CASE Channels!Send(l)
  <2>1. /\ l \notin ChClosed /\ ChGot'[l] = ChGot[l]
        /\ \E p \in AnyPacket : ChSent'[l] = Append(ChSent[l], p)
    BY <1>2, ChannelActions
  <2>2. PICK p \in AnyPacket : ChSent'[l] = Append(s, p)
    BY <2>1
  <2>3. Append(s, p) \in Seq(AnyPacket) /\ InOrderOn(l, Append(s, p), g, D)
    BY <2>1, OrderAfterSend
  <2> QED  BY <2>1, <2>2, <2>3
<1>3. CASE Channels!Receive(l)
  <2>1. /\ ChIntact(l) /\ Len(ChGot[l]) < Len(ChSent[l]) /\ ChSent'[l] = ChSent[l]
        /\ ChGot'[l] = Append(ChGot[l], ChSent[l][Len(ChGot[l]) + 1])
    BY <1>3, ChannelActions
  <2>2. PICK p : p = s[Len(g) + 1]
    OBVIOUS
  <2>3. Len(g) < Len(s) /\ \A i \in 1 .. Len(g) : g[i] = s[i]
    BY <2>1 DEF ChIntact
  <2>4. Append(g, p) \in Seq(Received) /\ InOrderOn(l, s, Append(g, p), D)
    BY <2>2, <2>3, OrderAfterReceive
  <2> QED  BY <2>1, <2>2, <2>4
<1>4. CASE Channels!ReceiveDamaged(l)
  <2>1. /\ l \in ChClosed /\ ChIntact(l) /\ Len(ChGot[l]) < Len(ChSent[l])
        /\ \E p \in DamagedForms(ChSent[l][Len(ChGot[l]) + 1]) : ChGot'[l] = Append(ChGot[l], p)
        /\ ChSent'[l] = ChSent[l]
    BY <1>4, ChannelActions
  <2>2. PICK p \in DamagedForms(s[Len(g) + 1]) : ChGot'[l] = Append(g, p)
    BY <2>1
  <2>3. l \in D /\ Len(g) < Len(s) /\ \A i \in 1 .. Len(g) : g[i] = s[i]
    BY <2>1 DEF ChIntact
  <2>4. Append(g, p) \in Seq(Received) /\ InOrderOn(l, s, Append(g, p), D)
    BY <2>2, <2>3, OrderAfterReceive
  <2> QED  BY <2>1, <2>2, <2>4
<1>5. CASE Channels!Idle(l)
  <2>1. ChSent'[l] = ChSent[l] /\ ChGot'[l] = ChGot[l]
    BY <1>5, ChannelActions
  <2> QED  BY <1>1, <2>1
<1> QED  BY <1>2, <1>3, <1>4, <1>5

\* The invariant of the channels.
ChannelInv ==
    \A l \in Links : /\ ChSent[l] \in Seq(AnyPacket) /\ ChGot[l] \in Seq(Received)
                      /\ InOrderOn(l, ChSent[l], ChGot[l], ChClosed)

\* The abstract specification of the channels keeps its promise: a damaged
\* packet comes only from a closed end, as the last one, and every packet
\* before it is the one that was sent.
THEOREM ChannelsKeepOrder == Channels!Spec => []Channels!InOrder
<1>1. Channels!Init => ChannelInv
  <2>1. ASSUME Channels!Init, NEW l \in Links
        PROVE  /\ ChSent[l] \in Seq(AnyPacket) /\ ChGot[l] \in Seq(Received)
               /\ InOrderOn(l, ChSent[l], ChGot[l], ChClosed)
    <3>1. ChSent[l] = <<>> /\ ChGot[l] = <<>>
      BY <2>1 DEF Channels!Init, ChSent, ChGot
    <3>2. /\ <<>> \in Seq(AnyPacket) /\ <<>> \in Seq(Received)
          /\ InOrderOn(l, <<>>, <<>>, ChClosed)
      BY EmptySeq DEF InOrderOn
    <3> QED  BY <3>1, <3>2
  <2> QED  BY <2>1 DEF ChannelInv
<1>2. ChannelInv /\ [Channels!Next]_Channels!channelVars => ChannelInv'
  <2> SUFFICES ASSUME ChannelInv, [Channels!Next]_Channels!channelVars, NEW l \in Links
               PROVE  /\ ChSent'[l] \in Seq(AnyPacket) /\ ChGot'[l] \in Seq(Received)
                      /\ InOrderOn(l, ChSent'[l], ChGot'[l], ChClosed')
    BY DEF ChannelInv, InOrderOn
  <2>1. PICK s \in Seq(AnyPacket), g \in Seq(Received) :
          s = ChSent[l] /\ g = ChGot[l] /\ InOrderOn(l, s, g, ChClosed)
    BY DEF ChannelInv
  <2>2. CASE Channels!Next
    <3>1. /\ Channels!Send(l) \/ Channels!Receive(l) \/ Channels!ReceiveDamaged(l)
                              \/ Channels!Idle(l)
          /\ ChClosed \subseteq ChClosed'
      BY <2>2 DEF Channels!Next, ChClosed
    <3>2. PICK D : D = ChClosed'
      OBVIOUS
    <3>3. /\ ChSent'[l] \in Seq(AnyPacket) /\ ChGot'[l] \in Seq(Received)
          /\ InOrderOn(l, ChSent'[l], ChGot'[l], D)
      BY <2>1, <3>1, <3>2, ChannelStepInOrder
    <3> QED  BY <3>2, <3>3
  <2>3. CASE UNCHANGED Channels!channelVars
    <3>1. ChSent' = ChSent /\ ChGot' = ChGot /\ ChClosed' = ChClosed
      BY <2>3 DEF Channels!channelVars, ChSent, ChGot, ChClosed
    <3> QED  BY <2>1, <3>1
  <2> QED  BY <2>2, <2>3
<1>3. ChannelInv => Channels!InOrder
  <2>1. ASSUME ChannelInv, NEW l \in Links
        PROVE  /\ Len(ChGot[l]) <= Len(ChSent[l])
               /\ \A i \in 1 .. Len(ChGot[l]) :
                     \/ ChGot[l][i] = ChSent[l][i]
                     \/ l \in ChClosed /\ i = Len(ChGot[l])
                        /\ ChGot[l][i] \in DamagedForms(ChSent[l][i])
    BY <2>1 DEF ChannelInv, InOrderOn
  <2> QED  BY <2>1 DEF Channels!InOrder, ChSent, ChGot, ChClosed
<1> QED  BY <1>1, <1>2, <1>3, PTL DEF Channels!Spec

\* send_all, recv_all and SendPacket keep that promise on every connection
\* of clients and server: what RecvPacket returned is what SendPacket was
\* called with, packet by packet, apart from the last one it returned of an
\* end that was closed.
THEOREM PacketsArriveInOrder == Spec => []Channels!InOrder
BY RelayImplementsChannels, ChannelsKeepOrder, PTL DEF ImplementsChannels

-----------------------------------------------------------------------------
(* From the keyboard to the screens.                                       *)

\* The text that was sealed comes out.
LEMMA TextOfSealed ==
    ASSUME NEW t \in Texts
    PROVE  TextOf(Sealed(t)) = t
<1>1. \A u \in Texts : 1 \in 1 .. Size[u]
  BY ConstantTypes
<1>2. ASSUME NEW u \in Texts, Sealed(t) = Sealed(u) PROVE u = t
  <2>1. Sealed(t)[1] = [of |-> t, at |-> 1] /\ Sealed(u)[1] = [of |-> u, at |-> 1]
    BY <1>1 DEF Sealed
  <2> QED  BY <1>2, <2>1
<1> QED  BY <1>2 DEF TextOf

\* What the server heard of a client and opens is a line the client sent.
LEMMA HeardWasTyped ==
    ASSUME IndInv, Channels!InOrder, NEW d \in Clients, NEW k \in 1 .. Len(heard[d]),
           Opens(heard[d][k])
    PROVE  k <= said[d] /\ Script[d][k] \in Texts /\ heard[d][k] = Sealed(Script[d][k])
<1> DEFINE l == <<"from", d>>
<1>1. l \in Links /\ l[1] = "from" /\ l[2] = d
  BY DEF Links
<1>2. TypeOK /\ ControlInv
  BY DEF IndInv
<1>3. /\ said[d] \in Nat /\ said[d] <= Len(Script[d]) /\ Len(heard[d]) \in Nat
      /\ Len(Sent(d)) = said[d]
  BY <1>2, LinkTypes DEF ControlInv
<1>4. ChSent[l] = Sent(d) /\ ChGot[l] = heard[d]
  BY <1>1, LinkValues
<1> HIDE DEF l
<1>5. /\ Len(ChGot[l]) <= Len(ChSent[l])
      /\ \A i \in 1 .. Len(ChGot[l]) :
            ChGot[l][i] = ChSent[l][i] \/ ChGot[l][i] \in DamagedForms(ChSent[l][i])
  BY <1>1 DEF Channels!InOrder, ChSent, ChGot, ChClosed
<1>6. /\ Len(heard[d]) <= said[d]
      /\ heard[d][k] = Sent(d)[k] \/ heard[d][k] \in DamagedForms(Sent(d)[k])
  BY <1>3, <1>4, <1>5
<1>7. k \in 1 .. said[d]
  BY <1>3, <1>6
<1>8. Script[d][k] \in Texts /\ Sent(d)[k] = Sealed(Script[d][k])
  BY <1>3, <1>7, LinesType DEF Sent
<1>9. heard[d][k] \notin DamagedForms(Sealed(Script[d][k]))
  <2>1. Sealed(Script[d][k]) \in Seq(Bytes)
    BY <1>8, SealedPacket, PacketsArePayloads
  <2> QED  BY <2>1, DamagedDoesNotOpen
<1> QED  BY <1>6, <1>7, <1>8, <1>9

LEMMA OpenedAsTyped ==
    ASSUME IndInv, Channels!InOrder, NEW o \in Origins, NEW p, Opens(p), StandsFor(p, o)
    PROVE  AsTyped(TextOf(p), o)
<1> DEFINE d == o[1]
           k == o[2]
<1>1. d \in Clients /\ k \in 0 .. Len(heard[d]) /\ Len(heard[d]) \in Nat
  <2>1. PICK e \in Clients : o \in {e} \X (0 .. Len(heard[e]))
    BY DEF Origins
  <2>2. d = e /\ k \in 0 .. Len(heard[e])
    BY <2>1
  <2>3. TypeOK
    BY DEF IndInv
  <2>4. Len(heard[e]) \in Nat
    BY <2>3, LinkTypes
  <2> HIDE DEF d, k
  <2> QED  BY <2>2, <2>4
<1>2. /\ k = 0 => d \notin registered /\ p = Sealed(Farewell[d])
      /\ k # 0 => p = heard[d][k]
  BY DEF StandsFor
<1>3. Farewell[d] \in Texts
  BY <1>1, RelayAssumption
<1> HIDE DEF d, k
<1>4. CASE k = 0
  <2>1. TextOf(p) = Farewell[d] /\ d \notin registered
    BY <1>2, <1>3, <1>4, TextOfSealed
  <2> QED  BY <1>4, <2>1 DEF AsTyped, d, k
<1>5. CASE k # 0
  <2>1. k \in 1 .. Len(heard[d]) /\ Opens(heard[d][k])
    BY <1>1, <1>2, <1>5
  <2>2. k <= said[d] /\ Script[d][k] \in Texts /\ p = Sealed(Script[d][k])
    BY <1>1, <1>2, <1>5, <2>1, HeardWasTyped
  <2>3. TextOf(p) = Script[d][k]
    BY <2>2, TextOfSealed
  <2> QED  BY <1>5, <2>2, <2>3 DEF AsTyped, d, k
<1> QED  BY <1>4, <1>5

\* A member sees of every user the lines that were typed (client.cpp,
\* ClientLoop), from the first on, in order, none twice and none left out,
\* and a farewell only behind all that was heard of a user who is gone:
\* however the bytes are split, whoever leaves in the middle of a packet, and
\* whatever the server is doing then.
THEOREM LinesArriveAsTyped == Spec => []LinesAsTyped
<1>1. ASSUME IndInv, Channels!InOrder, NEW c \in Clients
      PROVE  \E origin \in Injection(DOMAIN Shown(c), Origins) :
                \A i \in DOMAIN Shown(c) :
                    /\ AsTyped(Shown(c)[i], origin[i])
                    /\ \A o \in Earlier(origin[i]) : \E j \in 1 .. i - 1 : origin[j] = o
  <2>1. PICK log \in Seq(AnyPacket) : Logged(log) /\ Accounted(log)
    BY <1>1 DEF IndInv, OrderInv
  <2>2. PICK n \in 0 .. Len(log) : /\ Shown(c) = [i \in 1 .. n |-> TextOf(log[i])]
                                  /\ \A i \in 1 .. n : Opens(log[i])
    BY <1>1, <2>1, ShownOfLog
  <2>3. n \in Nat /\ Len(log) \in Nat /\ \A i \in 1 .. n : i \in 1 .. Len(log)
    BY <2>2
  <2>4. PICK whole \in Injection(1 .. Len(log), Origins) : AccountOf(log, whole)
    BY <2>1 DEF Accounted
  <2>5. /\ whole \in [1 .. Len(log) -> Origins] /\ IsInjective(whole)
        /\ Traced(log, whole)
    BY <2>4 DEF Injection, AccountOf
  <2> DEFINE origin == [i \in 1 .. n |-> whole[i]]
  <2>6. /\ origin \in [1 .. n -> Origins] /\ DOMAIN origin = 1 .. n
        /\ \A i \in 1 .. n : origin[i] = whole[i]
    BY <2>3, <2>5
  <2> HIDE DEF origin
  <2>7. IsInjective(origin)
    BY <2>3, <2>5, <2>6 DEF IsInjective
  <2>8. DOMAIN Shown(c) = 1 .. n /\ \A i \in 1 .. n : Shown(c)[i] = TextOf(log[i])
    BY <2>2
  <2>9. ASSUME NEW i \in 1 .. n
        PROVE  /\ AsTyped(Shown(c)[i], origin[i])
               /\ \A o \in Earlier(origin[i]) : \E j \in 1 .. i - 1 : origin[j] = o
    <3>1. /\ StandsFor(log[i], whole[i]) /\ whole[i] \in Origins
          /\ \A o \in Earlier(whole[i]) : \E j \in 1 .. i - 1 : whole[j] = o
      BY <2>3, <2>5 DEF Traced
    <3>2. AsTyped(TextOf(log[i]), whole[i])
      BY <1>1, <2>2, <3>1, OpenedAsTyped
    <3>3. \A j \in 1 .. i - 1 : origin[j] = whole[j]
      BY <2>3, <2>6
    <3>4. origin[i] = whole[i] /\ Shown(c)[i] = TextOf(log[i])
      BY <2>6, <2>8
    <3>5. AsTyped(Shown(c)[i], origin[i])
      BY <3>2, <3>4
    <3>6. ASSUME NEW o \in Earlier(origin[i]) PROVE \E j \in 1 .. i - 1 : origin[j] = o
      BY <3>1, <3>3, <3>4, <3>6
    <3> QED  BY <3>5, <3>6
  <2> QED  BY <2>6, <2>7, <2>8, <2>9 DEF Injection
<1>2. IndInv /\ Channels!InOrder => LinesAsTyped
  BY <1>1 DEF LinesAsTyped
<1> QED  BY <1>2, Invariance, PacketsArriveInOrder, PTL
=============================================================================
