--------------------------- MODULE FramingProofs ---------------------------
(***************************************************************************)
(* What the framing of network_session.cpp guarantees for every size of    *)
(* the header, every base and all lengths: ntohl undoes htonl, and whoever *)
(* reads a concatenation of frames the way RecvPacket does, a few bytes at *)
(* a time, gets the packets back one by one.                               *)
(***************************************************************************)
EXTENDS Framing, SequenceTheorems, WellFoundedInduction, TLAPS

-----------------------------------------------------------------------------
(* Induction over the natural numbers, for sets: the element that is       *)
(* missing and has no smaller one missing is neither 0 nor a successor.    *)

LEMMA AllNaturals ==
    ASSUME NEW S \in SUBSET Nat, 0 \in S, \A n \in S : n + 1 \in S
    PROVE  S = Nat
<1> SUFFICES ASSUME Nat \ S # {} PROVE FALSE
  OBVIOUS
<1>1. PICK m \in Nat \ S : \A y \in Nat \ S : ~(<<y, m>> \in OpToRel(<, Nat))
  BY NatLessThanWellFounded, WFMin
<1>2. \A y \in Nat \ S : ~(y < m)
  BY <1>1 DEF OpToRel
<1>3. m # 0 /\ m - 1 \in Nat
  OBVIOUS
<1>4. m - 1 \in S
  BY <1>2, <1>3
<1> QED  BY <1>4

-----------------------------------------------------------------------------
(* Power is what its recursive definition says: there is one function that *)
(* satisfies the equation, put together from those that satisfy it up to   *)
(* some n.                                                                 *)

LEMMA ConstantTypes ==
    /\ HeaderSize \in Nat \ {0} /\ Base \in Nat \ {0, 1}
    /\ Size \in [Texts -> 1 .. Power[HeaderSize] - 1]
BY FramingAssumption

\* f is a power function up to n.
PowerUpTo(f, n) == f[0] = 1 /\ \A i \in 1 .. n : f[i] = Base * f[i - 1]

LEMMA PowerUnique ==
    ASSUME NEW i \in Nat, NEW f \in [Nat -> Nat], NEW g \in [Nat -> Nat],
           PowerUpTo(f, i), PowerUpTo(g, i)
    PROVE  f[i] = g[i]
<1> DEFINE S == {n \in Nat : n <= i => f[n] = g[n]}
<1>1. S \in SUBSET Nat
  OBVIOUS
<1>2. 0 \in S
  BY DEF PowerUpTo
<1>3. ASSUME NEW n \in S PROVE n + 1 \in S
  <2> SUFFICES ASSUME n + 1 <= i PROVE f[n + 1] = g[n + 1]
    OBVIOUS
  <2>1. n \in Nat /\ n + 1 \in 1 .. i /\ (n + 1) - 1 = n /\ f[n] = g[n]
    OBVIOUS
  <2>2. f[n + 1] = Base * f[n] /\ g[n + 1] = Base * g[n]
    BY <2>1 DEF PowerUpTo
  <2> QED  BY <2>1, <2>2
<1> HIDE DEF S
<1>4. S = Nat
  BY <1>1, <1>2, <1>3, AllNaturals
<1> QED  BY <1>4 DEF S

LEMMA PowerExists ==
    ASSUME NEW n \in Nat
    PROVE  \E f \in [Nat -> Nat] : PowerUpTo(f, n)
<1> DEFINE S == {k \in Nat : \E f \in [Nat -> Nat] : PowerUpTo(f, k)}
<1>1. S \in SUBSET Nat
  OBVIOUS
<1>2. 0 \in S
  <2> DEFINE f == [i \in Nat |-> 1]
  <2>1. f \in [Nat -> Nat] /\ PowerUpTo(f, 0)
    BY DEF PowerUpTo
  <2> QED  BY <2>1
<1>3. ASSUME NEW k \in S PROVE k + 1 \in S
  <2>1. PICK f \in [Nat -> Nat] : PowerUpTo(f, k)
    OBVIOUS
  <2> DEFINE g == [f EXCEPT ![k + 1] = Base * f[k]]
  <2>2. k \in Nat /\ Base \in Nat
    BY ConstantTypes
  <2>3. g \in [Nat -> Nat] /\ g[0] = 1
    BY <2>1, <2>2 DEF PowerUpTo
  <2>4. ASSUME NEW i \in 1 .. k + 1 PROVE g[i] = Base * g[i - 1]
    <3>1. CASE i = k + 1
      <4>1. k \in Nat /\ k # k + 1 /\ (k + 1) - 1 = k
        BY <2>2
      <4>2. g[k] = f[k] /\ g[k + 1] = Base * f[k]
        BY <4>1
      <4> QED  BY <3>1, <4>1, <4>2
    <3>2. CASE i # k + 1
      <4>1. i \in 1 .. k /\ i \in Nat /\ i - 1 \in Nat /\ i - 1 # k + 1
        BY <2>2, <3>2
      <4>2. g[i] = f[i] /\ g[i - 1] = f[i - 1]
        BY <3>2, <4>1
      <4>3. f[i] = Base * f[i - 1]
        BY <2>1, <4>1 DEF PowerUpTo
      <4> QED  BY <4>2, <4>3
    <3> QED  BY <3>1, <3>2
  <2> HIDE DEF g
  <2> QED  BY <2>2, <2>3, <2>4 DEF PowerUpTo
<1> HIDE DEF S
<1>4. S = Nat
  BY <1>1, <1>2, <1>3, AllNaturals
<1> QED  BY <1>4 DEF S

LEMMA PowerDef ==
    Power = [k \in Nat |-> IF k = 0 THEN 1 ELSE Base * Power[k - 1]]
<1> DEFINE F(n) == CHOOSE f \in [Nat -> Nat] : PowerUpTo(f, n)
           P == [k \in Nat |-> F(k)[k]]
<1>1. ASSUME NEW n \in Nat PROVE F(n) \in [Nat -> Nat] /\ PowerUpTo(F(n), n)
  BY PowerExists
<1> HIDE DEF F
<1>2. ASSUME NEW k \in Nat PROVE P[k] = IF k = 0 THEN 1 ELSE Base * P[k - 1]
  <2>1. CASE k = 0
    BY <1>1, <2>1 DEF PowerUpTo
  <2>2. CASE k # 0
    <3>1. k \in 1 .. k /\ k - 1 \in Nat
      BY <2>2
    <3>2. F(k)[k] = Base * F(k)[k - 1]
      BY <1>1, <3>1 DEF PowerUpTo
    <3>3. PowerUpTo(F(k), k - 1) /\ PowerUpTo(F(k - 1), k - 1)
      BY <1>1, <3>1 DEF PowerUpTo
    <3>4. F(k)[k - 1] = F(k - 1)[k - 1]
      BY <1>1, <3>1, <3>3, PowerUnique
    <3> QED  BY <2>2, <3>1, <3>2, <3>4
  <2> QED  BY <2>1, <2>2
<1>3. P = [k \in Nat |-> IF k = 0 THEN 1 ELSE Base * P[k - 1]]
  BY <1>2
<1> HIDE DEF P
<1>4. \E p : p = [k \in Nat |-> IF k = 0 THEN 1 ELSE Base * p[k - 1]]
  BY <1>3
<1> QED  BY <1>4 DEF Power

LEMMA PowerValues ==
    /\ Power[0] = 1
    /\ \A k \in Nat : /\ Power[k] \in Nat \ {0}
                      /\ Power[k + 1] = Base * Power[k]
<1>1. Power[0] = 1
  BY PowerDef
<1>2. ASSUME NEW k \in Nat PROVE Power[k + 1] = Base * Power[k]
  <2>1. k + 1 \in Nat /\ k + 1 # 0 /\ (k + 1) - 1 = k
    OBVIOUS
  <2>2. Power[k + 1] = IF k + 1 = 0 THEN 1 ELSE Base * Power[(k + 1) - 1]
    BY <2>1, PowerDef
  <2> QED  BY <2>1, <2>2
<1> DEFINE S == {k \in Nat : Power[k] \in Nat \ {0}}
<1>3. S \in SUBSET Nat /\ 0 \in S
  BY <1>1
<1>4. ASSUME NEW k \in S PROVE k + 1 \in S
  <2>1. Base * Power[k] \in Nat \ {0}
    <3>1. \A a, b \in Nat \ {0} : a * b \in Nat \ {0}
      OBVIOUS
    <3>2. Base \in Nat \ {0} /\ Power[k] \in Nat \ {0}
      BY ConstantTypes
    <3> QED  BY <3>1, <3>2
  <2> QED  BY <1>2, <2>1
<1> HIDE DEF S
<1>5. S = Nat
  BY <1>3, <1>4, AllNaturals
<1> QED  BY <1>1, <1>2, <1>5 DEF S

-----------------------------------------------------------------------------
(* The header determines the length.                                       *)

LEMMA Division ==
    ASSUME NEW n \in Nat, NEW b \in Nat \ {0}, NEW w \in Nat \ {0}
    PROVE  /\ n \div w \in Nat
           /\ n = b * (n \div b) + (n % b)
           /\ n \div (b * w) = (n \div w) \div b
           /\ n < w => n \div w = 0
           /\ n \div 1 = n
OBVIOUS

LEMMA QuotientZero ==
    ASSUME NEW n \in Nat, NEW w \in Nat, n < w
    PROVE  n \div w = 0
OBVIOUS

LEMMA QuotientOfProduct ==
    ASSUME NEW n \in Nat, NEW b \in Nat \ {0}, NEW w \in Nat \ {0}
    PROVE  n \div w \in Nat /\ n \div (b * w) = (n \div w) \div b
OBVIOUS

LEMMA QuotientAndRest ==
    ASSUME NEW n \in Nat, NEW b \in Nat \ {0}
    PROVE  n = b * (n \div b) + (n % b)
OBVIOUS

LEMMA HeaderInjective ==
    ASSUME NEW n \in 0 .. Power[HeaderSize] - 1, NEW m \in 0 .. Power[HeaderSize] - 1,
           Header(n) = Header(m)
    PROVE  n = m
<1>1. HeaderSize \in Nat \ {0} /\ Base \in Nat \ {0} /\ Power[HeaderSize] \in Nat \ {0}
  BY ConstantTypes, PowerValues
<1>2. n \in Nat /\ m \in Nat /\ n < Power[HeaderSize] /\ m < Power[HeaderSize]
  BY <1>1
<1> DEFINE S == {k \in Nat : k <= HeaderSize =>
                    n \div Power[HeaderSize - k] = m \div Power[HeaderSize - k]}
<1>3. S \in SUBSET Nat
  OBVIOUS
<1>4. 0 \in S
  <2>1. HeaderSize - 0 = HeaderSize
    BY <1>1
  <2>2. n \div Power[HeaderSize] = 0 /\ m \div Power[HeaderSize] = 0
    <3>1. Power[HeaderSize] \in Nat
      BY <1>1
    <3> QED  BY <1>2, <3>1, QuotientZero, Zenon
  <2>3. n \div Power[HeaderSize - 0] = m \div Power[HeaderSize - 0]
    BY <2>1, <2>2
  <2> QED  BY <2>3
<1>5. ASSUME NEW k \in S PROVE k + 1 \in S
  <2> SUFFICES ASSUME k + 1 <= HeaderSize
               PROVE  n \div Power[HeaderSize - (k + 1)] = m \div Power[HeaderSize - (k + 1)]
    OBVIOUS
  <2> DEFINE j == HeaderSize - (k + 1)
             w == Power[j]
             x == n \div w
             y == m \div w
  <2>1. k \in Nat /\ k + 1 \in 1 .. HeaderSize /\ j \in Nat /\ HeaderSize - k = j + 1
    BY <1>1
  <2>2. w \in Nat \ {0} /\ Power[HeaderSize - k] = Base * w
    BY <2>1, PowerValues
  <2>3. n \div (Base * w) = m \div (Base * w)
    <3>1. k <= HeaderSize
      BY <1>1, <2>1
    <3>2. n \div Power[HeaderSize - k] = m \div Power[HeaderSize - k]
      BY <3>1
    <3> QED  BY <2>2, <3>2
  <2>4. x % Base = y % Base
    <3>1. Header(n)[k + 1] = Digit((n \div Power[j]) % Base)
      BY <2>1 DEF Header
    <3>2. Header(m)[k + 1] = Digit((m \div Power[j]) % Base)
      BY <2>1 DEF Header
    <3>3. Digit(x % Base) = Digit(y % Base)
      BY <3>1, <3>2
    <3> QED  BY <3>3 DEF Digit
  <2> HIDE DEF w, j
  <2>5. x \in Nat /\ y \in Nat /\ x \div Base = y \div Base
    <3>1. Base \in Nat \ {0} /\ w \in Nat \ {0} /\ n \in Nat /\ m \in Nat
      BY <1>1, <1>2, <2>2
    <3>2. x \in Nat /\ n \div (Base * w) = x \div Base
      BY <3>1, QuotientOfProduct, Zenon
    <3>3. y \in Nat /\ m \div (Base * w) = y \div Base
      BY <3>1, QuotientOfProduct, Zenon
    <3> QED  BY <2>3, <3>2, <3>3
  <2> HIDE DEF x, y
  <2>6. x = Base * (x \div Base) + (x % Base) /\ y = Base * (y \div Base) + (y % Base)
    <3>1. x \in Nat /\ y \in Nat /\ Base \in Nat \ {0}
      BY <1>1, <2>5
    <3> QED  BY <3>1, QuotientAndRest, Zenon
  <2>7. x = y
    BY <2>4, <2>5, <2>6
  <2> QED  BY <2>7 DEF x, y, w, j
<1> HIDE DEF S
<1>6. S = Nat
  BY <1>3, <1>4, <1>5, AllNaturals
<1>7. n \div Power[HeaderSize - HeaderSize] = m \div Power[HeaderSize - HeaderSize]
  BY <1>1, <1>6 DEF S
<1>8. HeaderSize - HeaderSize = 0
  BY <1>1
<1>9. n \div 1 = m \div 1
  BY <1>7, <1>8, PowerValues
<1> QED  BY <1>2, <1>9, Division

LEMMA HeaderType ==
    ASSUME NEW n \in Nat
    PROVE  /\ Header(n) \in Seq(Bytes) /\ Len(Header(n)) = HeaderSize
           /\ Header(n) \o Zeroes(0) = Header(n)
<1>1. HeaderSize \in Nat /\ Base \in Nat \ {0}
  BY ConstantTypes
<1>2. ASSUME NEW i \in 1 .. HeaderSize
      PROVE  Digit((n \div Power[HeaderSize - i]) % Base) \in Bytes
  <2>1. HeaderSize - i \in Nat
    BY <1>1
  <2>2. Power[HeaderSize - i] \in Nat \ {0}
    BY <2>1, PowerValues
  <2>3. n \div Power[HeaderSize - i] \in Nat
    BY <2>2, Division
  <2>4. (n \div Power[HeaderSize - i]) % Base \in Nat
    BY <1>1, <2>3
  <2> QED  BY <2>4 DEF Digit, Bytes
<1>3. Header(n) \in Seq(Bytes) /\ Len(Header(n)) = HeaderSize
  BY <1>1, <1>2 DEF Header
<1>4. Zeroes(0) = <<>>
  BY DEF Zeroes
<1> QED  BY <1>3, <1>4, ConcatEmptySeq

\* ntohl undoes htonl for every length that fits into the header: RecvPacket
\* allocates and waits for as many bytes as SendPacket put into the packet.
THEOREM LengthOfHeader ==
    ASSUME NEW n \in 0 .. Power[HeaderSize] - 1
    PROVE  Length(Header(n)) = n
<1>1. HeaderSize \in Nat /\ Power[HeaderSize] \in Nat
  BY ConstantTypes, PowerValues
<1>2. n \in Nat
  BY <1>1
<1>3. Header(n) \o Zeroes(HeaderSize - Len(Header(n))) = Header(n)
  <2>1. HeaderSize - Len(Header(n)) = 0
    BY <1>1, <1>2, HeaderType
  <2> QED  BY <1>2, <2>1, HeaderType
<1>4. Length(Header(n)) = CHOOSE m \in 0 .. Power[HeaderSize] - 1 : Header(m) = Header(n)
  BY <1>3 DEF Length
<1>5. \A m \in 0 .. Power[HeaderSize] - 1 : Header(m) = Header(n) <=> m = n
  BY HeaderInjective
<1> QED  BY <1>4, <1>5

-----------------------------------------------------------------------------
(* Sequences.                                                              *)

LEMMA PrefixFromConcat ==
    ASSUME NEW S, NEW a \in Seq(S), NEW b \in Seq(S), NEW c \in Seq(S), NEW d \in Seq(S),
           a \o b = c \o d, Len(a) = Len(c)
    PROVE  a = c /\ b = d
<1> DEFINE u == a \o b
<1>1. /\ Len(a) \in Nat /\ Len(b) \in Nat /\ Len(c) \in Nat /\ Len(d) \in Nat
      /\ Len(u) = Len(a) + Len(b)
      /\ \A i \in 1 .. Len(a) + Len(b) : u[i] = IF i <= Len(a) THEN a[i] ELSE b[i - Len(a)]
  BY ConcatProperties
<1>2. /\ Len(u) = Len(c) + Len(d)
      /\ \A i \in 1 .. Len(c) + Len(d) : u[i] = IF i <= Len(c) THEN c[i] ELSE d[i - Len(c)]
  BY ConcatProperties
<1> HIDE DEF u
<1>3. Len(b) = Len(d)
  BY <1>1, <1>2
<1>4. \A i \in 1 .. Len(a) : a[i] = c[i]
  BY <1>1, <1>2, <1>3
<1>5. a = c
  BY <1>4, SeqEqual
<1>6. ASSUME NEW i \in 1 .. Len(b) PROVE b[i] = d[i]
  <2> DEFINE j == Len(a) + i
  <2>1. j \in 1 .. Len(a) + Len(b) /\ ~(j <= Len(a)) /\ j - Len(a) = i /\ j - Len(c) = i
        /\ j \in 1 .. Len(c) + Len(d) /\ ~(j <= Len(c))
    BY <1>1, <1>3
  <2> HIDE DEF j
  <2> QED  BY <1>1, <1>2, <2>1
<1>7. b = d
  BY <1>3, <1>6, SeqEqual
<1> QED  BY <1>5, <1>7

\* A byte that moves from the front of what is left to the end of what is read.
LEMMA MoveHead ==
    ASSUME NEW S, NEW a \in Seq(S), NEW b \in Seq(S), b # <<>>
    PROVE  /\ Append(a, Head(b)) \in Seq(S) /\ Tail(b) \in Seq(S)
           /\ Len(Append(a, Head(b))) = Len(a) + 1
           /\ Append(a, Head(b)) \o Tail(b) = a \o b
<1>1. Head(b) \in S /\ Tail(b) \in Seq(S)
  BY HeadTailProperties
<1> DEFINE h == <<Head(b)>>
<1>2. h \in Seq(S) /\ Append(a, Head(b)) = a \o h
  BY <1>1, AppendIsConcat
<1>3. h \o Tail(b) = b
  <2>1. /\ Len(b) \in Nat \ {0} /\ Len(Tail(b)) = Len(b) - 1
        /\ \A i \in 1 .. Len(Tail(b)) : Tail(b)[i] = b[i + 1]
    BY HeadTailProperties, EmptySeq
  <2>2. Head(b) = b[1] /\ Len(h) = 1 /\ h[1] = Head(b)
    OBVIOUS
  <2> DEFINE t == Tail(b)
             u == h \o t
  <2>3. /\ u \in Seq(S) /\ Len(u) = 1 + Len(t)
        /\ \A i \in 1 .. 1 + Len(t) : u[i] = IF i <= 1 THEN h[i] ELSE t[i - 1]
    BY <1>1, <1>2, <2>2, ConcatProperties
  <2>4. /\ t \in Seq(S) /\ Len(b) \in Nat \ {0} /\ Len(t) = Len(b) - 1 /\ h[1] = b[1]
        /\ \A i \in 1 .. Len(t) : t[i] = b[i + 1]
    BY <1>1, <2>1, <2>2
  <2> HIDE DEF u, t, h
  <2>5. ASSUME NEW i \in 1 .. Len(u) PROVE u[i] = b[i]
    <3>1. CASE i = 1
      BY <2>3, <2>4, <3>1
    <3>2. CASE i # 1
      <4>1. i - 1 \in 1 .. Len(t) /\ (i - 1) + 1 = i /\ ~(i <= 1) /\ i \in 1 .. 1 + Len(t)
        BY <2>3, <2>4, <3>2
      <4> QED  BY <2>3, <2>4, <4>1
    <3> QED  BY <3>1, <3>2
  <2>6. Len(u) = Len(b)
    BY <2>3, <2>4
  <2>7. u = b
    BY <2>3, <2>5, <2>6, SeqEqual
  <2> QED  BY <2>7 DEF u, t
<1>4. (a \o h) \o Tail(b) = a \o (h \o Tail(b))
  BY <1>1, <1>2, ConcatAssociative
<1>5. Append(a, Head(b)) \in Seq(S) /\ Len(Append(a, Head(b))) = Len(a) + 1
  BY <1>1, AppendProperties
<1> QED  BY <1>1, <1>2, <1>3, <1>4, <1>5

-----------------------------------------------------------------------------
(* A stream that consists of frames.                                       *)

\* What SendPacket can be called with: the length fits into the header.
Payloads == {p \in Seq(Bytes) : Len(p) < Power[HeaderSize]}

\* The bytes bs are the frames of the packets ps, one after the other:
\* cut[i] is what is left of bs behind the first i frames.
Framed(bs, ps) ==
    \E cut \in [0 .. Len(ps) -> Seq(Bytes)] :
        /\ cut[0] = bs /\ cut[Len(ps)] = <<>>
        /\ \A i \in 1 .. Len(ps) : cut[i - 1] = Frame(ps[i]) \o cut[i]

\* Streams are put together in any grouping, and their lengths add up.
LEMMA BytesAssociate ==
    \A s, t, u \in Seq(Bytes) : (s \o t) \o u = s \o (t \o u)
BY ConcatAssociative

LEMMA BytesLength ==
    \A s, t \in Seq(Bytes) : Len(s \o t) = Len(s) + Len(t)
BY ConcatProperties

LEMMA FrameType ==
    ASSUME NEW p \in Payloads
    PROVE  /\ p \in Seq(Bytes) /\ Len(p) \in Nat /\ Len(p) \in 0 .. Power[HeaderSize] - 1
           /\ Header(Len(p)) \in Seq(Bytes) /\ Len(Header(Len(p))) = HeaderSize
           /\ Frame(p) \in Seq(Bytes) /\ Len(Frame(p)) = HeaderSize + Len(p)
<1>1. p \in Seq(Bytes) /\ Len(p) \in Nat /\ Len(p) < Power[HeaderSize]
  BY DEF Payloads
<1>2. Power[HeaderSize] \in Nat
  BY ConstantTypes, PowerValues
<1>3. Header(Len(p)) \in Seq(Bytes) /\ Len(Header(Len(p))) = HeaderSize
  BY <1>1, HeaderType
<1>4. Frame(p) \in Seq(Bytes) /\ Len(Frame(p)) = Len(Header(Len(p))) + Len(p)
  BY <1>1, <1>3, ConcatProperties DEF Frame
<1> QED  BY <1>1, <1>2, <1>3, <1>4

LEMMA FramedEmpty ==
    Framed(<<>>, <<>>) /\ \A bs : Framed(bs, <<>>) => bs = <<>>
<1>1. Framed(<<>>, <<>>)
  <2> DEFINE cut == [i \in 0 .. 0 |-> <<>>]
  <2>1. cut \in [0 .. Len(<<>>) -> Seq(Bytes)] /\ cut[0] = <<>> /\ Len(<<>>) = 0
    BY EmptySeq
  <2> HIDE DEF cut
  <2> QED  BY <2>1 DEF Framed
<1>2. ASSUME NEW bs, Framed(bs, <<>>) PROVE bs = <<>>
  BY <1>2, EmptySeq DEF Framed
<1> QED  BY <1>1, <1>2

LEMMA FramedType ==
    ASSUME NEW ps \in Seq(Payloads), NEW bs, Framed(bs, ps)
    PROVE  bs \in Seq(Bytes)
<1>1. Len(ps) \in Nat
  OBVIOUS
<1> QED  BY <1>1 DEF Framed

\* The first frame of a stream.
LEMMA FramedFirst ==
    ASSUME NEW ps \in Seq(Payloads), ps # <<>>, NEW bs, Framed(bs, ps)
    PROVE  \E rest \in Seq(Bytes) : bs = Frame(Head(ps)) \o rest /\ Framed(rest, Tail(ps))
<1> DEFINE n == Len(ps)
           qs == Tail(ps)
<1>1. /\ n \in Nat \ {0} /\ qs \in Seq(Payloads) /\ Len(qs) = n - 1 /\ Head(ps) = ps[1]
      /\ \A i \in 1 .. n - 1 : qs[i] = ps[i + 1]
  BY HeadTailProperties, EmptySeq
<1>2. PICK cut \in [0 .. n -> Seq(Bytes)] :
        /\ cut[0] = bs /\ cut[n] = <<>>
        /\ \A i \in 1 .. n : cut[i - 1] = Frame(ps[i]) \o cut[i]
  BY DEF Framed
<1> HIDE DEF n, qs
<1> DEFINE k == [i \in 0 .. n - 1 |-> cut[i + 1]]
<1>3. k \in [0 .. n - 1 -> Seq(Bytes)] /\ k[0] = cut[1] /\ k[n - 1] = <<>>
  BY <1>1, <1>2
<1>4. ASSUME NEW i \in 1 .. n - 1 PROVE k[i - 1] = Frame(qs[i]) \o k[i]
  <2>1. /\ i \in 0 .. n - 1 /\ i - 1 \in 0 .. n - 1 /\ i + 1 \in 1 .. n
        /\ (i - 1) + 1 = i /\ (i + 1) - 1 = i
    BY <1>1
  <2>2. k[i - 1] = cut[i] /\ k[i] = cut[i + 1]
    BY <2>1
  <2>3. cut[(i + 1) - 1] = Frame(ps[i + 1]) \o cut[i + 1]
    BY <1>2, <2>1
  <2> QED  BY <1>1, <2>1, <2>2, <2>3
<1> HIDE DEF k
<1>5. Framed(cut[1], qs)
  BY <1>1, <1>3, <1>4 DEF Framed
<1>6. cut[1] \in Seq(Bytes) /\ bs = Frame(Head(ps)) \o cut[1]
  <2>1. 1 \in 1 .. n /\ 1 \in 0 .. n /\ 1 - 1 = 0
    BY <1>1
  <2> QED  BY <1>1, <1>2, <2>1
<1> QED  BY <1>5, <1>6 DEF qs

\* Two streams that begin with a frame begin with the same one if they are equal.
LEMMA FrameAlone ==
    ASSUME NEW p \in Payloads, NEW q \in Payloads,
           NEW r \in Seq(Bytes), NEW s \in Seq(Bytes), Frame(p) \o r = Frame(q) \o s
    PROVE  p = q /\ r = s
<1> DEFINE h == Header(Len(p))
           k == Header(Len(q))
<1>1. /\ p \in Seq(Bytes) /\ Len(p) \in 0 .. Power[HeaderSize] - 1
      /\ h \in Seq(Bytes) /\ Len(h) = HeaderSize /\ Frame(p) = h \o p
  BY FrameType DEF Frame
<1>2. /\ q \in Seq(Bytes) /\ Len(q) \in 0 .. Power[HeaderSize] - 1
      /\ k \in Seq(Bytes) /\ Len(k) = HeaderSize /\ Frame(q) = k \o q
  BY FrameType DEF Frame
<1>3. h = k => Len(p) = Len(q)
  BY <1>1, <1>2, HeaderInjective
<1> HIDE DEF h, k
<1>4. p \o r \in Seq(Bytes) /\ q \o s \in Seq(Bytes)
  BY <1>1, <1>2, ConcatProperties
<1>5. (h \o p) \o r = h \o (p \o r)
  BY <1>1, BytesAssociate, Zenon
<1>6. (k \o q) \o s = k \o (q \o s)
  BY <1>2, BytesAssociate, Zenon
<1>7. h \o (p \o r) = k \o (q \o s)
  BY <1>1, <1>2, <1>5, <1>6, Zenon
<1>8. h = k /\ p \o r = q \o s
  <2>1. Len(h) = Len(k)
    BY <1>1, <1>2
  <2> QED  BY <1>1, <1>2, <1>4, <1>7, <2>1, PrefixFromConcat, Zenon
<1> QED  BY <1>1, <1>2, <1>3, <1>8, PrefixFromConcat, Zenon

\* A frame is not empty, so neither is a stream that begins with one.
LEMMA NotFramedEmpty ==
    ASSUME NEW ps \in Seq(Payloads), ps # <<>>, Framed(<<>>, ps)
    PROVE  FALSE
<1>1. PICK rest \in Seq(Bytes) : <<>> = Frame(Head(ps)) \o rest
  BY FramedFirst
<1>2. Head(ps) \in Payloads
  BY HeadTailProperties
<1>3. Frame(Head(ps)) \in Seq(Bytes) /\ Len(Frame(Head(ps))) = HeaderSize + Len(Head(ps))
      /\ Len(Head(ps)) \in Nat
  BY <1>2, FrameType
<1>4. Len(<<>>) = Len(Frame(Head(ps))) + Len(rest)
  BY <1>1, <1>3, BytesLength
<1>5. Len(<<>>) = 0 /\ Len(rest) \in Nat /\ HeaderSize \in Nat \ {0}
  BY ConstantTypes, EmptySeq
<1> QED  BY <1>3, <1>4, <1>5

\* A sequence is its first element and the rest.
LEMMA HeadAndTail ==
    ASSUME NEW S, NEW s \in Seq(S), s # <<>>
    PROVE  /\ Len(s) = Len(Tail(s)) + 1 /\ Head(s) = s[1]
           /\ Head(s) \in S /\ Tail(s) \in Seq(S)
           /\ \A i \in 1 .. Len(Tail(s)) : s[i + 1] = Tail(s)[i]
<1>1. /\ Len(s) \in Nat /\ Len(Tail(s)) = Len(s) - 1 /\ Head(s) \in S /\ Tail(s) \in Seq(S)
      /\ \A i \in 1 .. Len(Tail(s)) : Tail(s)[i] = s[i + 1]
  BY HeadTailProperties
<1>2. Head(s) = s[1]
  OBVIOUS
<1>3. Len(s) = Len(Tail(s)) + 1
  BY <1>1
<1> QED  BY <1>1, <1>2, <1>3, Zenon

LEMMA SameHeadAndTail ==
    ASSUME NEW S, NEW s \in Seq(S), NEW t \in Seq(S), NEW u \in Seq(S),
           Len(s) = Len(u) + 1, Len(t) = Len(u) + 1, s[1] = t[1],
           \A i \in 1 .. Len(u) : s[i + 1] = u[i] /\ t[i + 1] = u[i]
    PROVE  s = t
<1>1. Len(u) \in Nat
  OBVIOUS
<1>2. ASSUME NEW i \in 1 .. Len(s) PROVE s[i] = t[i]
  <2>1. CASE i = 1
    BY <2>1
  <2>2. CASE i # 1
    <3>1. i - 1 \in 1 .. Len(u) /\ (i - 1) + 1 = i
      BY <1>1, <2>2
    <3>2. s[(i - 1) + 1] = t[(i - 1) + 1]
      BY <3>1
    <3> QED  BY <3>1, <3>2
  <2> QED  BY <2>1, <2>2
<1> QED  BY <1>2, SeqEqual

\* Two ways to read a stream agree on the first packet and on what follows it.
LEMMA FirstOneWay ==
    ASSUME NEW xs \in Seq(Payloads), NEW ys \in Seq(Payloads), xs # <<>>, ys # <<>>,
           NEW bs, Framed(bs, xs), Framed(bs, ys)
    PROVE  \E rest \in Seq(Bytes) :
               Head(xs) = Head(ys) /\ Framed(rest, Tail(xs)) /\ Framed(rest, Tail(ys))
<1>1. PICK p \in Payloads, q \in Payloads : p = Head(xs) /\ q = Head(ys)
  BY HeadAndTail
<1>2. PICK r \in Seq(Bytes) : bs = Frame(p) \o r /\ Framed(r, Tail(xs))
  BY <1>1, FramedFirst
<1>3. PICK t \in Seq(Bytes) : bs = Frame(q) \o t /\ Framed(t, Tail(ys))
  BY <1>1, FramedFirst
<1>4. Frame(p) \o r = Frame(q) \o t
  BY <1>2, <1>3
<1>5. p = q /\ r = t
  BY <1>4, FrameAlone
<1> QED  BY <1>1, <1>2, <1>3, <1>5

\* The bytes on a connection are the packets of one history only: however
\* SendPacket cut it, RecvPacket has no other way to read it, whatever the
\* packets contain.
THEOREM StreamsReadOneWay ==
    ASSUME NEW bs, NEW ps \in Seq(Payloads), NEW qs \in Seq(Payloads),
           Framed(bs, ps), Framed(bs, qs)
    PROVE  ps = qs
<1> DEFINE ReadOneWay(n) ==
             \A xs, ys \in Seq(Payloads) : \A b \in Seq(Bytes) :
                 Len(xs) = n /\ Framed(b, xs) /\ Framed(b, ys) => xs = ys
           S == {n \in Nat : ReadOneWay(n)}
<1>1. ReadOneWay(0)
  <2> SUFFICES ASSUME NEW xs \in Seq(Payloads), NEW ys \in Seq(Payloads),
                      NEW b \in Seq(Bytes), Len(xs) = 0, Framed(b, xs), Framed(b, ys)
               PROVE  xs = ys
    OBVIOUS
  <2>1. xs = <<>>
    BY EmptySeq
  <2>2. b = <<>>
    BY <2>1, FramedEmpty
  <2>3. ys = <<>>
    BY <2>2, NotFramedEmpty
  <2> QED  BY <2>1, <2>3
<1>2. ASSUME NEW n \in Nat, ReadOneWay(n) PROVE ReadOneWay(n + 1)
  <2> SUFFICES ASSUME NEW xs \in Seq(Payloads), NEW ys \in Seq(Payloads),
                      NEW b \in Seq(Bytes), Len(xs) = n + 1, Framed(b, xs), Framed(b, ys)
               PROVE  xs = ys
    OBVIOUS
  <2>1. xs # <<>>
    BY EmptySeq
  <2>2. ys # <<>>
    BY <2>1, NotFramedEmpty, FramedEmpty
  <2>3. PICK rest \in Seq(Bytes) :
          Head(xs) = Head(ys) /\ Framed(rest, Tail(xs)) /\ Framed(rest, Tail(ys))
    BY <2>1, <2>2, FirstOneWay
  <2>4. /\ Len(xs) = Len(Tail(xs)) + 1 /\ Head(xs) = xs[1] /\ Tail(xs) \in Seq(Payloads)
        /\ \A i \in 1 .. Len(Tail(xs)) : xs[i + 1] = Tail(xs)[i]
    BY <2>1, HeadAndTail
  <2>5. /\ Len(ys) = Len(Tail(ys)) + 1 /\ Head(ys) = ys[1] /\ Tail(ys) \in Seq(Payloads)
        /\ \A i \in 1 .. Len(Tail(ys)) : ys[i + 1] = Tail(ys)[i]
    BY <2>2, HeadAndTail
  <2>6. PICK u \in Seq(Payloads), v \in Seq(Payloads) : u = Tail(xs) /\ v = Tail(ys)
    BY <2>4, <2>5
  <2>7. Len(u) = n
    BY <2>4, <2>6
  <2>8. u = v
    BY <1>2, <2>3, <2>6, <2>7
  <2>9. /\ Len(xs) = Len(u) + 1 /\ Len(ys) = Len(u) + 1 /\ xs[1] = ys[1]
        /\ \A i \in 1 .. Len(u) : xs[i + 1] = u[i] /\ ys[i + 1] = u[i]
    BY <2>3, <2>4, <2>5, <2>6, <2>8
  <2> QED  BY <2>9, SameHeadAndTail
<1> HIDE DEF ReadOneWay
<1>3. S = Nat
  <2>1. 0 \in S /\ S \in SUBSET Nat /\ \A n \in S : n + 1 \in S
    BY <1>1, <1>2
  <2> HIDE DEF S
  <2> QED  BY <2>1, AllNaturals
<1>4. Len(ps) \in Nat /\ bs \in Seq(Bytes)
  BY FramedType
<1>5. ReadOneWay(Len(ps))
  BY <1>3, <1>4
<1> QED  BY <1>4, <1>5 DEF ReadOneWay

\* A frame that is sent after the others.
LEMMA FramedAppend ==
    ASSUME NEW ps \in Seq(Payloads), NEW p \in Payloads, NEW bs, Framed(bs, ps)
    PROVE  Framed(bs \o Frame(p), Append(ps, p))
<1> DEFINE n == Len(ps)
           qs == Append(ps, p)
           f == Frame(p)
<1>1. /\ n \in Nat /\ Len(qs) = n + 1 /\ qs[n + 1] = p
      /\ \A i \in 1 .. n : qs[i] = ps[i]
      /\ \A i \in 1 .. n : ps[i] \in Payloads
  BY AppendProperties
<1>2. f \in Seq(Bytes)
  BY FrameType
<1>3. PICK cut \in [0 .. n -> Seq(Bytes)] :
        /\ cut[0] = bs /\ cut[n] = <<>>
        /\ \A i \in 1 .. n : cut[i - 1] = Frame(ps[i]) \o cut[i]
  BY DEF Framed
<1> HIDE DEF n, qs
<1> DEFINE k == [i \in 0 .. n + 1 |-> IF i <= n THEN cut[i] \o f ELSE <<>>]
<1>4. ASSUME NEW i \in 0 .. n PROVE cut[i] \o f \in Seq(Bytes)
  <2>1. cut[i] \in Seq(Bytes)
    BY <1>3
  <2> QED  BY <1>2, <2>1, ConcatProperties
<1> HIDE DEF f
<1>5. /\ k \in [0 .. n + 1 -> Seq(Bytes)] /\ k[0] = bs \o f /\ k[n + 1] = <<>>
      /\ \A i \in 0 .. n : k[i] = cut[i] \o f
  <2>1. \A i \in 0 .. n + 1 : (IF i <= n THEN cut[i] \o f ELSE <<>>) \in Seq(Bytes)
    BY <1>1, <1>4, EmptySeq
  <2>2. k \in [0 .. n + 1 -> Seq(Bytes)]
    BY <2>1
  <2>3. \A i \in 0 .. n : k[i] = cut[i] \o f
    BY <1>1
  <2>4. 0 \in 0 .. n /\ n + 1 \in 0 .. n + 1 /\ ~(n + 1 <= n)
    BY <1>1
  <2>5. k[0] = bs \o f
    BY <1>3, <2>3, <2>4
  <2>6. k[n + 1] = <<>>
    BY <2>4
  <2> QED  BY <2>2, <2>3, <2>5, <2>6
<1>6. ASSUME NEW i \in 1 .. n + 1 PROVE k[i - 1] = Frame(qs[i]) \o k[i]
  <2>1. CASE i = n + 1
    <3>1. i - 1 = n /\ n \in 0 .. n
      BY <1>1, <2>1
    <3>2. k[i - 1] = <<>> \o f
      BY <1>3, <1>5, <3>1
    <3>3. k[i - 1] = f /\ f \o <<>> = f
      BY <1>2, <3>2, ConcatEmptySeq
    <3> QED  BY <1>1, <1>5, <2>1, <3>3 DEF f
  <2>2. CASE i # n + 1
    <3>1. i \in 1 .. n /\ i \in 0 .. n /\ i - 1 \in 0 .. n
      BY <1>1, <2>2
    <3>2. k[i - 1] = cut[i - 1] \o f /\ k[i] = cut[i] \o f /\ qs[i] = ps[i]
      BY <1>1, <1>5, <3>1
    <3>3. cut[i - 1] = Frame(ps[i]) \o cut[i] /\ cut[i] \in Seq(Bytes) /\ ps[i] \in Payloads
      BY <1>1, <1>3, <3>1
    <3>4. Frame(ps[i]) \in Seq(Bytes)
      BY <3>3, FrameType
    <3> DEFINE g == Frame(ps[i])
               h == cut[i]
    <3>5. g \in Seq(Bytes) /\ h \in Seq(Bytes)
      BY <3>3, <3>4
    <3> HIDE DEF g, h
    <3>6. (g \o h) \o f = g \o (h \o f)
      BY <1>2, <3>5, BytesAssociate, Zenon
    <3> QED  BY <3>2, <3>3, <3>6 DEF g, h
  <2> QED  BY <2>1, <2>2
<1> HIDE DEF k
<1>7. Framed(bs \o f, qs)
  BY <1>1, <1>5, <1>6 DEF Framed
<1> QED  BY <1>7 DEF f, qs

-----------------------------------------------------------------------------
(* A stream that is read.                                                  *)

\* RecvPacket has got rx of the next packet, rest is what is still to come,
\* and the two together are the frames of ps.  It never reads beyond the
\* first of them.
Flow(rx, rest, ps) ==
    /\ Framed(rx \o rest, ps)
    /\ ps # <<>> => Len(rx) <= Len(Frame(ps[1]))

LEMMA FlowNothing ==
    ASSUME NEW rx \in Seq(Bytes), NEW rest \in Seq(Bytes)
    PROVE  Flow(rx, rest, <<>>) <=> rx = <<>> /\ rest = <<>>
<1>1. ASSUME Flow(rx, rest, <<>>) PROVE rx = <<>> /\ rest = <<>>
  <2>1. rx \o rest = <<>>
    BY <1>1, FramedEmpty DEF Flow
  <2> QED  BY <2>1, ConcatEqualIffEmpty
<1>2. ASSUME rx = <<>>, rest = <<>> PROVE Flow(rx, rest, <<>>)
  <2>1. rx \o rest = <<>>
    BY <1>2, ConcatEmptySeq
  <2> QED  BY <2>1, FramedEmpty DEF Flow
<1> QED  BY <1>1, <1>2

\* What RecvPacket has got is a beginning of the first frame.
LEMMA FlowFirst ==
    ASSUME NEW rx \in Seq(Bytes), NEW rest \in Seq(Bytes), NEW ps \in Seq(Payloads), ps # <<>>,
           Flow(rx, rest, ps)
    PROVE  /\ ps[1] \in Payloads /\ Head(ps) = ps[1]
           /\ Len(rx) <= HeaderSize + Len(ps[1])
           /\ \A i \in 1 .. Len(rx) : rx[i] = Frame(ps[1])[i]
<1>1. ps[1] \in Payloads /\ Head(ps) = ps[1]
  BY EmptySeq
<1> DEFINE f == Frame(ps[1])
<1>2. f \in Seq(Bytes) /\ Len(f) = HeaderSize + Len(ps[1])
  BY <1>1, FrameType
<1>3. PICK tl \in Seq(Bytes) : rx \o rest = f \o tl
  <2>1. Framed(rx \o rest, ps)
    BY DEF Flow
  <2>2. \E tl \in Seq(Bytes) : rx \o rest = Frame(Head(ps)) \o tl
    BY <2>1, FramedFirst
  <2> QED  BY <1>1, <2>2
<1>4. Len(rx) <= Len(f)
  BY DEF Flow
<1> HIDE DEF f
<1> DEFINE u == rx \o rest
<1>5. /\ \A i \in 1 .. Len(rx) + Len(rest) :
            u[i] = IF i <= Len(rx) THEN rx[i] ELSE rest[i - Len(rx)]
      /\ Len(rx) \in Nat /\ Len(rest) \in Nat
  BY ConcatProperties
<1>6. /\ \A i \in 1 .. Len(f) + Len(tl) : u[i] = IF i <= Len(f) THEN f[i] ELSE tl[i - Len(f)]
      /\ Len(f) \in Nat /\ Len(tl) \in Nat
  <2> DEFINE w == f \o tl
  <2>0. f \in Seq(Bytes) /\ tl \in Seq(Bytes)
    BY <1>2
  <2>1. /\ \A i \in 1 .. Len(f) + Len(tl) : w[i] = IF i <= Len(f) THEN f[i] ELSE tl[i - Len(f)]
        /\ Len(f) \in Nat /\ Len(tl) \in Nat
    BY <2>0, ConcatProperties, LenProperties
  <2>2. u = w
    BY <1>3
  <2> HIDE DEF u, w
  <2> QED  BY <2>1, <2>2
<1> HIDE DEF u
<1>7. ASSUME NEW i \in 1 .. Len(rx) PROVE rx[i] = f[i]
  <2>1. /\ i \in 1 .. Len(rx) + Len(rest) /\ i <= Len(rx)
        /\ i \in 1 .. Len(f) + Len(tl) /\ i <= Len(f)
    BY <1>4, <1>5, <1>6
  <2> QED  BY <1>5, <1>6, <2>1
<1> QED  BY <1>1, <1>2, <1>4, <1>7 DEF f

\* RecvPacket asks for the rest of the header, and then for the rest of the
\* packet.
LEMMA FlowWanted ==
    ASSUME NEW rx \in Seq(Bytes), NEW rest \in Seq(Bytes), NEW ps \in Seq(Payloads), ps # <<>>,
           Flow(rx, rest, ps)
    PROVE  /\ Wanted(rx) = IF InHeader(rx) THEN HeaderSize - Len(rx)
                           ELSE HeaderSize + Len(ps[1]) - Len(rx)
           /\ Body(rx) \in Seq(Bytes)
           /\ InHeader(rx) => Body(rx) = <<>>
           /\ ~InHeader(rx) => /\ Len(Body(rx)) = Len(rx) - HeaderSize
                               /\ Body(rx) = SubSeq(ps[1], 1, Len(rx) - HeaderSize)
<1> DEFINE p == ps[1]
           h == Header(Len(p))
           f == Frame(p)
           H == HeaderSize
<1>1. /\ p \in Payloads /\ Len(rx) <= H + Len(p)
      /\ \A i \in 1 .. Len(rx) : rx[i] = f[i]
  BY FlowFirst
<1>2. H \in Nat \ {0}
  BY ConstantTypes
<1>3. /\ p \in Seq(Bytes) /\ Len(p) \in Nat /\ Len(p) \in 0 .. Power[HeaderSize] - 1
      /\ h \in Seq(Bytes) /\ Len(h) = H /\ f \in Seq(Bytes)
  BY <1>1, FrameType
<1>4. /\ \A i \in 1 .. H : f[i] = h[i]
      /\ \A i \in 1 .. Len(p) : f[H + i] = p[i]
  <2>1. \A i \in 1 .. Len(h) + Len(p) : f[i] = IF i <= Len(h) THEN h[i] ELSE p[i - Len(h)]
    BY <1>3, ConcatProperties DEF Frame
  <2> HIDE DEF f, h, p, H
  <2>2. ASSUME NEW i \in 1 .. H PROVE f[i] = h[i]
    <3>1. i \in 1 .. Len(h) + Len(p) /\ i <= Len(h)
      BY <1>2, <1>3
    <3> QED  BY <2>1, <3>1
  <2>3. ASSUME NEW i \in 1 .. Len(p) PROVE f[H + i] = p[i]
    <3> DEFINE j == H + i
    <3>1. j \in 1 .. Len(h) + Len(p) /\ ~(j <= Len(h)) /\ j - Len(h) = i
      BY <1>2, <1>3
    <3> HIDE DEF j
    <3>2. f[j] = p[i]
      BY <2>1, <3>1
    <3> QED  BY <3>2 DEF j
  <2> QED  BY <2>2, <2>3
<1>5. Len(rx) \in Nat /\ \A i \in 1 .. Len(rx) : rx[i] \in Bytes
  OBVIOUS
<1>6. Length(h) = Len(p)
  BY <1>3, LengthOfHeader
<1> HIDE DEF p, h, f
<1>7. CASE InHeader(rx)
  <2>1. Len(rx) < H
    BY <1>7 DEF InHeader
  <2>2. Body(rx) = <<>>
    BY <1>2, <1>5, <2>1, SubSeqEmpty DEF Body
  <2> QED  BY <1>7, <2>2, EmptySeq DEF Wanted
<1>8. CASE ~InHeader(rx)
  <2>1. H <= Len(rx)
    BY <1>2, <1>5, <1>8 DEF InHeader
  <2> DEFINE s == SubSeq(rx, 1, H)
             b == SubSeq(rx, H + 1, Len(rx))
             q == SubSeq(p, 1, Len(rx) - H)
  <2>2. s \in Seq(Bytes) /\ Len(s) = H /\ \A i \in 1 .. H : s[i] = rx[i]
    BY <1>2, <1>5, <2>1
  <2>3. /\ b \in Seq(Bytes) /\ Len(b) = Len(rx) - H
        /\ \A i \in 1 .. Len(rx) - H : b[i] = rx[H + i]
    BY <1>2, <1>5, <2>1
  <2>4. /\ q \in Seq(Bytes) /\ Len(q) = Len(rx) - H
        /\ \A i \in 1 .. Len(rx) - H : q[i] = p[i]
    BY <1>1, <1>2, <1>3, <1>5, <2>1
  <2> HIDE DEF s, b, q
  <2>5. s = h
    <3>1. \A i \in 1 .. H : s[i] = h[i]
      BY <1>1, <1>2, <1>4, <1>5, <2>1, <2>2
    <3> QED  BY <1>3, <2>2, <3>1, SeqEqual
  <2>6. b = q
    <3>1. ASSUME NEW i \in 1 .. Len(rx) - H PROVE b[i] = q[i]
      <4>1. i \in 1 .. Len(p) /\ H + i \in 1 .. Len(rx)
        BY <1>1, <1>2, <1>3, <1>5, <2>1
      <4> QED  BY <1>1, <1>4, <2>3, <2>4, <4>1
    <3> QED  BY <2>3, <2>4, <3>1, SeqEqual
  <2>7. Wanted(rx) = Len(p) - Len(b)
    BY <1>6, <1>8, <2>5 DEF Wanted, Body, s, b
  <2>8. Wanted(rx) = H + Len(p) - Len(rx)
    BY <1>2, <1>3, <1>5, <2>3, <2>7
  <2> QED  BY <1>8, <2>3, <2>6, <2>8 DEF Body, b, q, p
<1> QED  BY <1>7, <1>8

\* recv() gives a byte that RecvPacket asked for.
LEMMA FlowRecv ==
    ASSUME NEW rx \in Seq(Bytes), NEW rest \in Seq(Bytes), NEW ps \in Seq(Payloads),
           Flow(rx, rest, ps), rest # <<>>, Wanted(rx) > 0
    PROVE  Flow(Append(rx, Head(rest)), Tail(rest), ps)
<1> DEFINE r == Append(rx, Head(rest))
<1>1. r \o Tail(rest) = rx \o rest /\ Len(r) = Len(rx) + 1
  BY MoveHead
<1>2. ps # <<>>
  BY FlowNothing
<1>3. Len(r) <= Len(Frame(ps[1]))
  <2>1. /\ ps[1] \in Payloads /\ Len(rx) <= HeaderSize + Len(ps[1])
        /\ HeaderSize \in Nat /\ Len(rx) \in Nat
    BY <1>2, FlowFirst, ConstantTypes
  <2>2. Len(Frame(ps[1])) = HeaderSize + Len(ps[1]) /\ Len(ps[1]) \in Nat
    BY <2>1, FrameType
  <2>3. CASE InHeader(rx)
    BY <1>1, <2>1, <2>2, <2>3 DEF InHeader
  <2>4. CASE ~InHeader(rx)
    <3>1. HeaderSize + Len(ps[1]) - Len(rx) > 0
      BY <1>2, <2>4, FlowWanted
    <3> QED  BY <1>1, <2>1, <2>2, <3>1
  <2> QED  BY <2>3, <2>4
<1> HIDE DEF r
<1> QED  BY <1>1, <1>3 DEF Flow, r

\* RecvPacket has what it asked for: it returns the first packet, and the
\* rest of the stream is left for the next call.
LEMMA FlowReturn ==
    ASSUME NEW rx \in Seq(Bytes), NEW rest \in Seq(Bytes), NEW ps \in Seq(Payloads),
           Flow(rx, rest, ps), Wanted(rx) = 0
    PROVE  ps # <<>> /\ Body(rx) = ps[1] /\ Flow(<<>>, rest, Tail(ps))
<1>1. HeaderSize \in Nat \ {0} /\ Len(rx) \in Nat
  BY ConstantTypes
<1>2. ps # <<>>
  <2> SUFFICES ASSUME ps = <<>> PROVE FALSE
    OBVIOUS
  <2>1. Len(rx) = 0
    BY FlowNothing, EmptySeq
  <2>2. Wanted(rx) = HeaderSize - Len(rx)
    BY <1>1, <2>1 DEF Wanted, InHeader
  <2> QED  BY <1>1, <2>1, <2>2
<1>3. /\ ps[1] \in Payloads /\ ps[1] \in Seq(Bytes) /\ Len(ps[1]) \in Nat
      /\ Head(ps) = ps[1] /\ Tail(ps) \in Seq(Payloads)
      /\ Frame(ps[1]) \in Seq(Bytes) /\ Len(Frame(ps[1])) = HeaderSize + Len(ps[1])
  BY <1>2, FlowFirst, FrameType, HeadTailProperties
<1>4. ~InHeader(rx) /\ Len(rx) = HeaderSize + Len(ps[1])
  <2>1. /\ InHeader(rx) => Wanted(rx) = HeaderSize - Len(rx)
        /\ ~InHeader(rx) => Wanted(rx) = HeaderSize + Len(ps[1]) - Len(rx)
    BY <1>2, FlowWanted
  <2>2. ~InHeader(rx)
    BY <1>1, <2>1 DEF InHeader
  <2> QED  BY <1>1, <1>3, <2>1, <2>2
<1>5. Body(rx) = ps[1]
  <2>1. Body(rx) = SubSeq(ps[1], 1, Len(rx) - HeaderSize)
    BY <1>2, <1>4, FlowWanted
  <2>2. Len(rx) - HeaderSize = Len(ps[1])
    BY <1>1, <1>3, <1>4
  <2>3. Body(rx) = SubSeq(ps[1], 1, Len(ps[1]))
    BY <2>1, <2>2
  <2> QED  BY <1>3, <2>3, SubSeqFull
<1>6. PICK tl \in Seq(Bytes) : rx \o rest = Frame(ps[1]) \o tl /\ Framed(tl, Tail(ps))
  BY <1>2, <1>3, FramedFirst DEF Flow
<1>7. rest = tl
  BY <1>3, <1>4, <1>6, PrefixFromConcat
<1> DEFINE qs == Tail(ps)
<1>8. Framed(<<>> \o rest, qs)
  BY <1>6, <1>7, ConcatEmptySeq
<1>9. qs # <<>> => Len(<<>>) <= Len(Frame(qs[1]))
  <2> SUFFICES ASSUME qs # <<>> PROVE Len(<<>>) <= Len(Frame(qs[1]))
    OBVIOUS
  <2>1. qs[1] \in Payloads
    BY <1>3, EmptySeq
  <2>2. Len(Frame(qs[1])) \in Nat /\ Len(<<>>) = 0
    BY <2>1, FrameType, EmptySeq, LenProperties
  <2> HIDE DEF qs
  <2> QED  BY <2>2
<1> HIDE DEF qs
<1>10. Flow(<<>>, rest, qs)
  BY <1>8, <1>9 DEF Flow
<1> QED  BY <1>2, <1>5, <1>10 DEF qs

\* SendPacket puts a frame behind the others.
LEMMA FlowSend ==
    ASSUME NEW rx \in Seq(Bytes), NEW rest \in Seq(Bytes), NEW ps \in Seq(Payloads),
           NEW p \in Payloads, Flow(rx, rest, ps)
    PROVE  Flow(rx, rest \o Frame(p), Append(ps, p))
<1> DEFINE f == Frame(p)
           qs == Append(ps, p)
<1>1. f \in Seq(Bytes) /\ Len(f) \in Nat
  BY FrameType, LenProperties
<1>2. Framed((rx \o rest) \o f, qs)
  BY FramedAppend DEF Flow
<1>3. (rx \o rest) \o f = rx \o (rest \o f)
  <2> HIDE DEF f
  <2> QED  BY <1>1, BytesAssociate, Zenon
<1>4. qs # <<>> => Len(rx) <= Len(Frame(qs[1]))
  <2>1. CASE ps = <<>>
    <3>1. Len(rx) = 0 /\ qs[1] = p
      BY <2>1, FlowNothing, EmptySeq
    <3> HIDE DEF f, qs
    <3> QED  BY <1>1, <3>1 DEF f
  <2>2. CASE ps # <<>>
    <3>1. qs[1] = ps[1]
      BY <2>2, EmptySeq, AppendProperties
    <3> HIDE DEF f, qs
    <3> QED  BY <2>2, <3>1 DEF Flow
  <2> QED  BY <2>1, <2>2
<1> HIDE DEF f, qs
<1>5. Flow(rx, rest \o f, qs)
  BY <1>2, <1>3, <1>4 DEF Flow
<1> QED  BY <1>5 DEF f, qs

\* The stream ends before the packet is complete: RecvPacket returns that
\* packet, damaged, and the frames of the packets behind it got lost.
LEMMA FlowEnd ==
    ASSUME NEW rx \in Seq(Bytes), NEW lost \in Seq(Bytes), NEW ps \in Seq(Payloads),
           Flow(rx, lost, ps), Wanted(rx) > 0, NEW q \in ReturnedAtEnd(rx)
    PROVE  /\ ps # <<>> /\ q \in DamagedForms(ps[1])
           /\ \E rest \in Seq(Bytes) : Flow(<<>>, rest, Tail(ps))
<1>1. HeaderSize \in Nat \ {0} /\ Len(rx) \in Nat /\ Len(lost) \in Nat /\ Len(ps) \in Nat
  BY ConstantTypes
<1>2. rx # <<>>
  <2> SUFFICES ASSUME rx = <<>> PROVE FALSE
    OBVIOUS
  <2>1. Len(rx) = 0
    BY EmptySeq
  <2>2. Body(rx) = <<>>
    BY <1>1, <2>1, SubSeqEmpty DEF Body
  <2> QED  BY <2>2 DEF ReturnedAtEnd
<1>3. ps # <<>>
  BY <1>2, FlowNothing
<1> DEFINE p == ps[1]
<1>4. /\ p \in Payloads /\ p \in Seq(Bytes) /\ Len(p) \in Nat
      /\ Len(Frame(p)) = HeaderSize + Len(p) /\ Len(rx) <= HeaderSize + Len(p)
  BY <1>3, FlowFirst, FrameType
<1>5. /\ Wanted(rx) = IF InHeader(rx) THEN HeaderSize - Len(rx)
                      ELSE HeaderSize + Len(p) - Len(rx)
      /\ InHeader(rx) => Body(rx) = <<>>
      /\ ~InHeader(rx) => /\ Len(Body(rx)) = Len(rx) - HeaderSize
                          /\ Body(rx) = SubSeq(p, 1, Len(rx) - HeaderSize)
  BY <1>3, FlowWanted
<1>6. Len(rx) < HeaderSize + Len(p)
  <2> HIDE DEF p
  <2> QED  BY <1>1, <1>4, <1>5 DEF InHeader
<1>7. \E rest \in Seq(Bytes) : Flow(<<>>, rest, Tail(ps))
  <2>1. PICK rest \in Seq(Bytes) : Framed(rest, Tail(ps))
    BY <1>3, FramedFirst DEF Flow
  <2> DEFINE qs == Tail(ps)
  <2>2. qs \in Seq(Payloads) /\ <<>> \o rest = rest
    BY <1>3, HeadTailProperties, ConcatEmptySeq
  <2>3. Framed(rest, qs)
    BY <2>1
  <2> HIDE DEF qs
  <2>4. ASSUME qs # <<>> PROVE Len(<<>>) <= Len(Frame(qs[1]))
    <3>1. qs[1] \in Payloads
      BY <2>2, <2>4, EmptySeq
    <3>2. Len(Frame(qs[1])) \in Nat /\ Len(<<>>) = 0
      BY <3>1, FrameType, EmptySeq, LenProperties
    <3> QED  BY <3>2
  <2>5. Flow(<<>>, rest, qs)
    BY <2>2, <2>3, <2>4 DEF Flow
  <2> QED  BY <2>5 DEF qs
<1> HIDE DEF p
<1>8. CASE Body(rx) = <<>>
  <2>1. q = <<>>
    BY <1>8 DEF ReturnedAtEnd
  <2> QED  BY <1>3, <1>7, <2>1 DEF DamagedForms
<1>9. CASE Body(rx) # <<>>
  <2>1. ~InHeader(rx)
    BY <1>5, <1>9
  <2>2. ~(rx # <<>> /\ InHeader(rx) /\ Length(rx) = 0)
    BY <2>1
  <2>3. q = Body(rx) \o Zeroes(Wanted(rx))
    BY <1>9, <2>2 DEF ReturnedAtEnd
  <2> DEFINE k == Len(rx) - HeaderSize
  <2>4. Wanted(rx) = Len(p) - k /\ k \in Nat
    BY <1>1, <1>4, <1>5, <2>1 DEF InHeader
  <2>5. k # 0
    <3> SUFFICES ASSUME k = 0 PROVE FALSE
      OBVIOUS
    <3>1. Body(rx) = SubSeq(p, 1, 0)
      BY <1>5, <2>1
    <3> QED  BY <1>9, <3>1, SubSeqEmpty
  <2>6. k \in 1 .. Len(p) - 1
    BY <1>1, <1>4, <1>6, <2>4, <2>5
  <2>7. q = SubSeq(p, 1, k) \o Zeroes(Len(p) - k)
    BY <1>5, <2>1, <2>3, <2>4
  <2> HIDE DEF k
  <2> QED  BY <1>3, <1>7, <2>6, <2>7 DEF p, DamagedForms
<1> QED  BY <1>8, <1>9

\* The stream ended between two packets: RecvPacket has got nothing.
LEMMA FlowDry ==
    ASSUME NEW rx \in Seq(Bytes), NEW ps \in Seq(Payloads), Flow(rx, <<>>, ps), Wanted(rx) > 0
    PROVE  rx = <<>>
<1>1. CASE ps = <<>>
  BY <1>1, FlowNothing, EmptySeq
<1>2. CASE ps # <<>>
  <2> DEFINE p == ps[1]
  <2>1. /\ p \in Payloads /\ Head(ps) = p /\ <<>> \in Seq(Bytes) /\ rx \o <<>> = rx
        /\ HeaderSize \in Nat /\ Len(rx) \in Nat
    BY <1>2, EmptySeq, FlowFirst, ConcatEmptySeq, ConstantTypes
  <2>2. PICK tl \in Seq(Bytes) : rx = Frame(p) \o tl
    BY <1>2, <2>1, FramedFirst DEF Flow
  <2>3. Wanted(rx) = IF InHeader(rx) THEN HeaderSize - Len(rx)
                     ELSE HeaderSize + Len(p) - Len(rx)
    BY <1>2, <2>1, FlowWanted
  <2> HIDE DEF p
  <2>4. /\ Frame(p) \in Seq(Bytes) /\ Len(Frame(p)) = HeaderSize + Len(p)
        /\ Len(p) \in Nat /\ Len(tl) \in Nat
    BY <2>1, FrameType, LenProperties
  <2>5. Len(rx) = HeaderSize + Len(p) + Len(tl)
    BY <2>2, <2>4, ConcatProperties
  <2>6. ~InHeader(rx)
    BY <2>1, <2>4, <2>5 DEF InHeader
  <2>7. Wanted(rx) = HeaderSize + Len(p) - Len(rx)
    BY <2>3, <2>6
  <2> QED  BY <2>1, <2>4, <2>5, <2>7
<1> QED  BY <1>1, <1>2

LEMMA ReturnedOfNothing == ReturnedAtEnd(<<>>) = {}
<1>1. Len(<<>>) = 0 /\ HeaderSize \in Nat
  BY EmptySeq, ConstantTypes
<1>2. Body(<<>>) = <<>>
  BY <1>1, SubSeqEmpty DEF Body
<1> QED  BY <1>2 DEF ReturnedAtEnd
=============================================================================
