-------------------------- MODULE LineInputProofs --------------------------
(***************************************************************************)
(* The index of PromptInput stays within its string, and the two are the   *)
(* line and the cursor of LineEdit, for any number of strokes.             *)
(***************************************************************************)
EXTENDS LineInput, SequenceTheorems, TLAPS

\* std::wstring::insert at an index within the string.
LEMMA Inserted ==
    ASSUME NEW s \in Seq(Nat), NEW i \in 0 .. Len(s), NEW c \in Nat
    PROVE  /\ InsertAt(s, i + 1, c) \in Seq(Nat)
           /\ Len(InsertAt(s, i + 1, c)) = Len(s) + 1
<1> DEFINE front == SubSeq(s, 1, (i + 1) - 1)
           back  == SubSeq(s, i + 1, Len(s))
<1>1. front \in Seq(Nat) /\ Len(front) = i
  BY SubSeqProperties
<1>2. back \in Seq(Nat) /\ Len(back) = Len(s) - i
  BY SubSeqProperties
<1>3. <<c>> \in Seq(Nat) /\ Len(<<c>>) = 1
  OBVIOUS
<1>4. i + 1 - 1 = i /\ i \in Nat /\ Len(s) \in Nat
  OBVIOUS
<1>5. InsertAt(s, i + 1, c) = front \o <<c>> \o back
  BY DEF InsertAt
<1> HIDE DEF front, back
<1>6. front \o <<c>> \in Seq(Nat) /\ Len(front \o <<c>>) = i + 1
  BY <1>1, <1>3, <1>4, ConcatProperties
<1>7. /\ front \o <<c>> \o back \in Seq(Nat)
      /\ Len(front \o <<c>> \o back) = Len(front \o <<c>>) + Len(back)
  BY <1>2, <1>6, ConcatProperties, Zenon
<1>8. Len(front \o <<c>> \o back) = Len(s) + 1
  BY <1>2, <1>4, <1>6, <1>7
<1> QED  BY <1>5, <1>7, <1>8

\* std::wstring::erase of one character.
LEMMA Removed ==
    ASSUME NEW s \in Seq(Nat), NEW i \in 1 .. Len(s)
    PROVE  RemoveAt(s, i) \in Seq(Nat) /\ Len(RemoveAt(s, i)) = Len(s) - 1
<1> DEFINE front == SubSeq(s, 1, i - 1)
           back  == SubSeq(s, i + 1, Len(s))
<1>1. front \in Seq(Nat) /\ Len(front) = i - 1
  BY SubSeqProperties
<1>2. back \in Seq(Nat) /\ Len(back) = Len(s) - i
  BY SubSeqProperties
<1>3. RemoveAt(s, i) = front \o back
  BY DEF RemoveAt
<1> HIDE DEF front, back
<1>4. front \o back \in Seq(Nat) /\ Len(front \o back) = Len(front) + Len(back)
  BY <1>1, <1>2, ConcatProperties, Zenon
<1>5. Len(front) + Len(back) = Len(s) - 1
  BY <1>1, <1>2
<1> QED  BY <1>3, <1>4, <1>5

\* The line PromptInput edits is one of code points, with its cursor in it.
LineOK == input \in Seq(Nat) /\ cursorPos \in 0 .. Len(input)

\* Every case of the switch moves the cursor as far as the text does.
LEMMA SwitchSafe ==
    ASSUME LineOK, NEW c \in Nat, Switch(c)
    PROVE  LineOK'
<1> USE DEF LineOK, Edit
<1>1. CASE c \in {KEY_BACKSPACE, Delete, Backspace} /\ cursorPos > 0
               /\ Edit(RemoveAt(input, cursorPos), cursorPos - 1)
  BY <1>1, Removed
<1>2. CASE cursorPos > 0 /\ Edit(input, cursorPos - 1)
  BY <1>2
<1>3. CASE cursorPos < Len(input) /\ Edit(input, cursorPos + 1)
  BY <1>3
<1>4. CASE cursorPos < Len(input) /\ Edit(RemoveAt(input, cursorPos + 1), cursorPos)
  <2>1. cursorPos + 1 \in 1 .. Len(input)
    BY <1>4
  <2>2. /\ RemoveAt(input, cursorPos + 1) \in Seq(Nat)
        /\ Len(RemoveAt(input, cursorPos + 1)) = Len(input) - 1
    BY <2>1, Removed, Zenon
  <2> QED  BY <1>4, <2>1, <2>2
<1>5. CASE Edit(input, 0) \/ Edit(input, Len(input)) \/ Edit(input, cursorPos)
  BY <1>5
<1>6. CASE Edit(InsertAt(input, cursorPos + 1, c), cursorPos + 1)
  BY <1>6, Inserted
<1> HIDE DEF LineOK, Edit
<1> QED  BY <1>1, <1>2, <1>3, <1>4, <1>5, <1>6 DEF Switch

\* The line is empty again when PromptInput returned it.
LEMMA ReturnSafe ==
    ASSUME TypeOK, ReturnInput
    PROVE  LineOK' /\ returned' \in Seq(Seq(Nat)) /\ pc' \in {"while", "stop"}
<1>1. input' = <<>> /\ cursorPos' = 0 /\ LineOK'
  BY DEF ReturnInput, LineOK
<1>2. returned' \in Seq(Seq(Nat))
  BY AppendProperties DEF ReturnInput, TypeOK
<1> QED  BY <1>1, <1>2 DEF ReturnInput

\* The index PromptInput inserts and erases at is one of its string,
\* whatever is struck, and whenever another thread stops the client.
THEOREM CursorInLine == Spec => []TypeOK
<1>1. Init => TypeOK
  BY DEF Init, TypeOK
<1>2. TypeOK /\ [Next]_vars => TypeOK'
  <2> SUFFICES ASSUME TypeOK, [Next]_vars PROVE TypeOK'
    OBVIOUS
  <2>0. LineOK /\ strokes \in Nat
    BY DEF TypeOK, LineOK
  <2>1. CASE CallPrompt
    BY <2>1 DEF CallPrompt, TypeOK
  <2>2. CASE TestRunning
    <3>1. CASE running
      BY <2>2, <3>1 DEF TestRunning, TypeOK
    <3>2. CASE ~running
      BY <2>2, <3>2, ReturnSafe DEF TestRunning, TypeOK, LineOK
    <3> QED  BY <3>1, <3>2
  <2>3. CASE NoStroke
    BY <2>3 DEF NoStroke, TypeOK
  <2>4. CASE GetStroke
    <3>1. stroke' \in Strokes /\ stroke'.code \in Nat /\ strokes' \in Nat /\ running' = running
      BY <2>4, <2>0, InputAssumption DEF GetStroke
    <3>2. CASE stroke'.code = Newline
      BY <2>4, <3>1, <3>2, ReturnSafe DEF GetStroke, TypeOK, LineOK
    <3>3. CASE stroke'.code # Newline
      <4>1. LineOK' /\ pc' = "test" /\ returned' = returned
        BY <2>0, <2>4, <3>1, <3>3, SwitchSafe DEF GetStroke
      <4> QED  BY <3>1, <4>1 DEF TypeOK, LineOK
    <3> QED  BY <3>2, <3>3
  <2>5. CASE StopElsewhere
    BY <2>5 DEF StopElsewhere, TypeOK
  <2>6. CASE UNCHANGED vars
    BY <2>6 DEF vars, TypeOK
  <2> QED  BY <2>1, <2>2, <2>3, <2>4, <2>5, <2>6 DEF Next
<1> QED  BY <1>1, <1>2, PTL DEF Spec
-----------------------------------------------------------------------------
(* The line and its cursor, as the text to the left and to the right.      *)

Left(s, i)  == SubSeq(s, 1, i)
Right(s, i) == SubSeq(s, i + 1, Len(s))

\* The two parts letter by letter.
LEMMA SplitParts ==
    ASSUME NEW s \in Seq(Nat), NEW i \in 0 .. Len(s)
    PROVE  /\ Left(s, i) \in Seq(Nat) /\ Len(Left(s, i)) = i
           /\ Right(s, i) \in Seq(Nat) /\ Len(Right(s, i)) = Len(s) - i
           /\ \A j \in 1 .. i : Left(s, i)[j] = s[j]
           /\ \A j \in 1 .. Len(s) - i : Right(s, i)[j] = s[i + j]
<1>1. Len(s) \in Nat /\ i \in Nat /\ i <= Len(s)
  OBVIOUS
<1>2. /\ Left(s, i) \in Seq(Nat) /\ Len(Left(s, i)) = i
      /\ \A j \in 1 .. i : Left(s, i)[j] = s[j]
  BY <1>1 DEF Left
<1>3. /\ Right(s, i) \in Seq(Nat) /\ Len(Right(s, i)) = Len(s) - i
      /\ \A j \in 1 .. Len(s) - i : Right(s, i)[j] = s[i + j]
  BY <1>1 DEF Right
<1> QED  BY <1>2, <1>3

\* A line that is two parts put together is split where the first one ends.
LEMMA SplitConcat ==
    ASSUME NEW b \in Seq(Nat), NEW a \in Seq(Nat), NEW s, s = b \o a
    PROVE  Left(s, Len(b)) = b /\ Right(s, Len(b)) = a
<1>1. /\ s \in Seq(Nat) /\ Len(s) = Len(b) + Len(a)
      /\ Len(b) \in Nat /\ Len(a) \in Nat
      /\ \A j \in 1 .. Len(b) : s[j] = b[j]
      /\ \A j \in 1 .. Len(a) : s[Len(b) + j] = a[j]
  BY ConcatProperties
<1>2. /\ Left(s, Len(b)) \in Seq(Nat) /\ Len(Left(s, Len(b))) = Len(b)
      /\ Right(s, Len(b)) \in Seq(Nat) /\ Len(Right(s, Len(b))) = Len(a)
      /\ \A j \in 1 .. Len(b) : Left(s, Len(b))[j] = s[j]
      /\ \A j \in 1 .. Len(a) : Right(s, Len(b))[j] = s[Len(b) + j]
  <2> DEFINE n == Len(b)
  <2>1. n \in 0 .. Len(s) /\ Len(s) - n = Len(a)
    BY <1>1
  <2> HIDE DEF n
  <2>2. /\ Left(s, n) \in Seq(Nat) /\ Len(Left(s, n)) = n
        /\ Right(s, n) \in Seq(Nat) /\ Len(Right(s, n)) = Len(s) - n
        /\ \A j \in 1 .. n : Left(s, n)[j] = s[j]
        /\ \A j \in 1 .. Len(s) - n : Right(s, n)[j] = s[n + j]
    BY <1>1, <2>1, SplitParts
  <2>3. /\ Len(Right(s, n)) = Len(a)
        /\ \A j \in 1 .. Len(a) : Right(s, n)[j] = s[n + j]
    BY <2>1, <2>2
  <2> QED  BY <2>2, <2>3 DEF n
<1>3. \A j \in 1 .. Len(b) : Left(s, Len(b))[j] = b[j]
  BY <1>1, <1>2
<1>4. \A j \in 1 .. Len(a) : Right(s, Len(b))[j] = a[j]
  BY <1>1, <1>2
<1>5. Left(s, Len(b)) = b
  BY <1>2, <1>3, SeqEqual
<1>6. Right(s, Len(b)) = a
  BY <1>2, <1>4, SeqEqual
<1> QED  BY <1>5, <1>6

\* Lines of text are put together in any grouping.
LEMMA LinesAssociate ==
    \A s, t, u \in Seq(Nat) : (s \o t) \o u = s \o (t \o u)
<1> DEFINE S == Nat
<1> HIDE DEF S
<1>1. \A s, t, u \in Seq(S) : (s \o t) \o u = s \o (t \o u)
  BY ConcatAssociative
<1> QED  BY <1>1 DEF S

\* The elements of a concatenation, part by part.
LEMMA ConcatElements ==
    ASSUME NEW b \in Seq(Nat), NEW a \in Seq(Nat)
    PROVE  /\ b \o a \in Seq(Nat) /\ Len(b \o a) = Len(b) + Len(a)
           /\ \A j \in 1 .. Len(b) : (b \o a)[j] = b[j]
           /\ \A j \in 1 .. Len(a) : (b \o a)[Len(b) + j] = a[j]
<1> DEFINE u == b \o a
<1>1. /\ u \in Seq(Nat) /\ Len(u) = Len(b) + Len(a)
      /\ \A j \in 1 .. Len(b) + Len(a) : u[j] = IF j <= Len(b) THEN b[j] ELSE a[j - Len(b)]
  BY ConcatProperties
<1> HIDE DEF u
<1>2. Len(b) \in Nat /\ Len(a) \in Nat
  OBVIOUS
<1>3. \A j \in 1 .. Len(b) : u[j] = b[j]
  BY <1>1, <1>2
<1>4. ASSUME NEW j \in 1 .. Len(a) PROVE u[Len(b) + j] = a[j]
  <2>1. /\ Len(b) + j \in 1 .. Len(b) + Len(a) /\ ~(Len(b) + j <= Len(b))
        /\ (Len(b) + j) - Len(b) = j
    BY <1>2
  <2> QED  BY <1>1, <2>1
<1> QED  BY <1>1, <1>3, <1>4 DEF u

\* Put together again, the two parts are the line.
LEMMA SplitWhole ==
    ASSUME NEW s \in Seq(Nat), NEW i \in 0 .. Len(s)
    PROVE  Left(s, i) \o Right(s, i) = s
<1> DEFINE b == Left(s, i)
           a == Right(s, i)
           u == b \o a
<1>1. /\ b \in Seq(Nat) /\ Len(b) = i /\ a \in Seq(Nat) /\ Len(a) = Len(s) - i
      /\ \A j \in 1 .. i : b[j] = s[j]
      /\ \A j \in 1 .. Len(s) - i : a[j] = s[i + j]
  BY SplitParts
<1> HIDE DEF b, a
<1>2. /\ u \in Seq(Nat) /\ Len(u) = Len(b) + Len(a)
      /\ \A j \in 1 .. Len(b) : u[j] = b[j]
      /\ \A j \in 1 .. Len(a) : u[Len(b) + j] = a[j]
  BY <1>1, ConcatElements, Zenon
<1> HIDE DEF u
<1>3. Len(s) \in Nat /\ i \in Nat
  OBVIOUS
<1>4. \A j \in 1 .. Len(s) : u[j] = s[j]
  <2> SUFFICES ASSUME NEW j \in 1 .. Len(s) PROVE u[j] = s[j]
    OBVIOUS
  <2>1. CASE j <= i
    BY <1>1, <1>2, <1>3, <2>1
  <2>2. CASE j > i
    <3> DEFINE k == j - i
    <3>1. k \in 1 .. Len(s) - i /\ i + k = j
      BY <1>3, <2>2
    <3> HIDE DEF k
    <3>2. a[k] = s[j]
      BY <1>1, <3>1
    <3>3. k \in 1 .. Len(a) /\ Len(b) + k = j
      BY <1>1, <3>1
    <3>4. u[j] = a[k]
      BY <1>2, <3>3
    <3> QED  BY <3>2, <3>4
  <2> QED  BY <1>3, <2>1, <2>2
<1>5. Len(u) = Len(s)
  BY <1>1, <1>2, <1>3
<1>6. u = s
  BY <1>2, <1>4, <1>5, SeqEqual
<1> QED  BY <1>6 DEF u, b, a

\* The switch in terms of the two parts.  Backspace drops the last letter on
\* the left,
LEMMA Erasing ==
    ASSUME NEW s \in Seq(Nat), NEW i \in 1 .. Len(s)
    PROVE  /\ Left(RemoveAt(s, i), i - 1) = Front(Left(s, i))
           /\ Right(RemoveAt(s, i), i - 1) = Right(s, i)
           /\ Left(s, i) # <<>>
<1>1. Len(s) \in Nat /\ i \in 0 .. Len(s) /\ i - 1 \in 0 .. Len(s) /\ i \in Nat /\ i - 1 \in Nat
  OBVIOUS
<1> DEFINE n == i - 1
           b == Left(s, i)
           f == Front(b)
           a == Right(s, i)
<1>2. /\ b \in Seq(Nat) /\ Len(b) = i /\ \A j \in 1 .. i : b[j] = s[j]
      /\ a \in Seq(Nat)
  BY <1>1, SplitParts
<1>3. f \in Seq(Nat) /\ Len(f) = n /\ \A j \in 1 .. n : f[j] = b[j]
  <2> HIDE DEF b
  <2>1. f = SubSeq(b, 1, n) /\ n \in Nat /\ n <= Len(b)
    BY <1>1, <1>2 DEF Front
  <2> HIDE DEF f, n
  <2>2. /\ 1 \in Int /\ n \in Int /\ \A j \in 1 .. n : b[j] \in Nat
    BY <1>2, <2>1
  <2>3. /\ f \in Seq(Nat) /\ Len(f) = IF 1 <= n THEN n - 1 + 1 ELSE 0
        /\ \A j \in 1 .. n - 1 + 1 : f[j] = b[1 + j - 1]
    BY <2>1, <2>2, SubSeqProperties
  <2>4. ASSUME NEW j \in 1 .. n PROVE f[j] = b[j]
    <3>1. j \in 1 .. n - 1 + 1 /\ 1 + j - 1 = j
      BY <2>1
    <3> QED  BY <2>3, <3>1
  <2> QED  BY <2>1, <2>3, <2>4
<1>4. /\ Left(s, n) \in Seq(Nat) /\ Len(Left(s, n)) = n
      /\ \A j \in 1 .. n : Left(s, n)[j] = s[j]
  BY <1>1, SplitParts
<1>5. Left(s, n) = f
  <2> HIDE DEF b, f
  <2>1. \A j \in 1 .. n : Left(s, n)[j] = f[j]
    <3>1. n + 1 = i /\ n \in Nat
      BY <1>1
    <3> HIDE DEF n
    <3> SUFFICES ASSUME NEW j \in 1 .. n PROVE Left(s, n)[j] = f[j]
      OBVIOUS
    <3>2. j \in 1 .. i
      BY <1>1, <3>1
    <3>3. b[j] = s[j]
      BY <1>2, <3>2
    <3>4. f[j] = b[j] /\ Left(s, n)[j] = s[j]
      BY <1>3, <1>4
    <3> QED  BY <3>3, <3>4
  <2> QED  BY <1>3, <1>4, <2>1, SeqEqual
<1>6. RemoveAt(s, i) = f \o a
  BY <1>5 DEF RemoveAt, Left, Right
<1> HIDE DEF b, f, a
<1>7. Left(RemoveAt(s, i), n) = f /\ Right(RemoveAt(s, i), n) = a
  BY <1>2, <1>3, <1>6, SplitConcat
<1>8. b # <<>>
  BY <1>1, <1>2
<1> QED  BY <1>7, <1>8 DEF b, f, a

\* KEY_LEFT takes the last letter on the left over to the right,
LEMMA MovingLeft ==
    ASSUME NEW s \in Seq(Nat), NEW i \in 1 .. Len(s)
    PROVE  /\ Left(s, i - 1) = Front(Left(s, i))
           /\ Right(s, i - 1) = <<Last(Left(s, i))>> \o Right(s, i)
<1>1. Len(s) \in Nat /\ i \in 0 .. Len(s) /\ i \in Nat /\ i - 1 \in Nat /\ i - 1 \in 0 .. Len(s)
  OBVIOUS
<1> DEFINE n == i - 1
           b == Left(s, i)
           f == Front(b)
           a == Right(s, i)
           l == Last(b)
           t == <<l>> \o a
<1>2. /\ b \in Seq(Nat) /\ Len(b) = i /\ \A j \in 1 .. i : b[j] = s[j]
      /\ a \in Seq(Nat)
  BY <1>1, SplitParts
<1>3. /\ f \in Seq(Nat) /\ Len(f) = n /\ l \in Nat
      /\ b = f \o <<l>>
  <2> HIDE DEF b
  <2>1. f \in Seq(Nat) /\ Len(f) = n /\ \A j \in 1 .. n : f[j] = b[j]
    BY <1>1, <1>2 DEF Front
  <2>2. l = b[i] /\ l \in Nat
    BY <1>1, <1>2 DEF Last
  <2> HIDE DEF f, l
  <2>3. /\ Append(f, l) \in Seq(Nat) /\ Len(Append(f, l)) = i
        /\ \A j \in 1 .. i : Append(f, l)[j] = b[j]
    <3>1. /\ Append(f, l) \in Seq(Nat) /\ Len(Append(f, l)) = Len(f) + 1
          /\ \A j \in 1 .. Len(f) : Append(f, l)[j] = f[j]
          /\ Append(f, l)[Len(f) + 1] = l
      BY <2>1, <2>2, AppendProperties
    <3>2. n + 1 = i
      BY <1>1
    <3> QED  BY <1>1, <2>1, <2>2, <3>1, <3>2
  <2>4. Append(f, l) = b
    BY <1>2, <2>3, SeqEqual
  <2> QED  BY <2>1, <2>2, <2>4, AppendIsConcat
<1>4. s = b \o a
  BY <1>1, SplitWhole
<1>5. (f \o <<l>>) \o a = f \o t
  <2> HIDE DEF f, l, a
  <2> DEFINE o == <<l>>
  <2>1. o \in Seq(Nat)
    BY <1>3
  <2> HIDE DEF o
  <2>2. (f \o o) \o a = f \o (o \o a)
    <3>1. f \in Seq(Nat) /\ a \in Seq(Nat)
      BY <1>2, <1>3
    <3> QED  BY <2>1, <3>1, LinesAssociate
  <2> QED  BY <2>2 DEF o
<1>6. t \in Seq(Nat)
  <2> HIDE DEF f, l, a
  <2>1. <<l>> \in Seq(Nat)
    BY <1>3
  <2> QED  BY <1>2, <2>1, ConcatProperties
<1> HIDE DEF b, f, a, l, t
<1>7. s = f \o t
  BY <1>3, <1>4, <1>5
<1>8. Left(s, n) = f /\ Right(s, n) = t
  BY <1>3, <1>6, <1>7, SplitConcat
<1> QED  BY <1>8 DEF b, f, a, l, t

\* KEY_RIGHT the first one on the right over to the left,
LEMMA RightPart ==
    ASSUME NEW s \in Seq(Nat), NEW i \in 0 .. Len(s), i < Len(s)
    PROVE  /\ Right(s, i) # <<>> /\ Head(Right(s, i)) \in Nat
           /\ Right(s, i + 1) = Tail(Right(s, i))
           /\ Left(s, i + 1) = Append(Left(s, i), Head(Right(s, i)))
<1>1. Len(s) \in Nat /\ i \in Nat /\ i + 1 \in 0 .. Len(s)
  OBVIOUS
<1> DEFINE b == Left(s, i)
           a == Right(s, i)
           h == Head(a)
           t == Tail(a)
<1>2. /\ b \in Seq(Nat) /\ Len(b) = i /\ a \in Seq(Nat) /\ Len(a) = Len(s) - i
  BY SplitParts
<1>3. s = b \o a
  BY SplitWhole
<1> HIDE DEF b, a
<1>4. a # <<>>
  BY <1>1, <1>2
<1>5. h \in Nat /\ t \in Seq(Nat) /\ a = <<h>> \o t
  BY <1>2, <1>4, HeadTailProperties, ConcatProperties
<1> HIDE DEF h, t
<1>6. Append(b, h) \in Seq(Nat) /\ Len(Append(b, h)) = i + 1 /\ Append(b, h) = b \o <<h>>
  BY <1>2, <1>5, AppendProperties, AppendIsConcat
<1>7. (b \o <<h>>) \o t = b \o (<<h>> \o t)
  <2> DEFINE o == <<h>>
  <2>1. o \in Seq(Nat)
    BY <1>5
  <2> HIDE DEF o
  <2>2. (b \o o) \o t = b \o (o \o t)
    <3>1. b \in Seq(Nat) /\ t \in Seq(Nat)
      BY <1>2, <1>5
    <3> QED  BY <2>1, <3>1, LinesAssociate
  <2> QED  BY <2>2 DEF o
<1>8. s = Append(b, h) \o t
  BY <1>3, <1>5, <1>6, <1>7
<1> DEFINE x == Append(b, h)
<1>9. x \in Seq(Nat) /\ Len(x) = i + 1 /\ s = x \o t
  BY <1>6, <1>8
<1> HIDE DEF x
<1>10. Left(s, i + 1) = x /\ Right(s, i + 1) = t
  BY <1>5, <1>9, SplitConcat
<1> QED  BY <1>4, <1>5, <1>10 DEF x, h, t, a, b

\* and KEY_DC drops it.
LEMMA Deleting ==
    ASSUME NEW s \in Seq(Nat), NEW i \in 0 .. Len(s), i < Len(s)
    PROVE  /\ Left(RemoveAt(s, i + 1), i) = Left(s, i)
           /\ Right(RemoveAt(s, i + 1), i) = Tail(Right(s, i))
<1>1. Len(s) \in Nat /\ i \in Nat /\ i + 1 \in 0 .. Len(s) /\ (i + 1) - 1 = i
  OBVIOUS
<1> DEFINE b == Left(s, i)
           t == Tail(Right(s, i))
<1>2. b \in Seq(Nat) /\ Len(b) = i /\ t \in Seq(Nat)
  BY <1>1, SplitParts, RightPart, HeadTailProperties
<1>3. Right(s, i + 1) = t
  BY RightPart
<1>4. RemoveAt(s, i + 1) = Left(s, (i + 1) - 1) \o Right(s, i + 1)
  BY DEF RemoveAt, Left, Right
<1>5. RemoveAt(s, i + 1) = b \o t
  BY <1>1, <1>3, <1>4
<1> HIDE DEF b, t
<1> QED  BY <1>2, <1>5, SplitConcat DEF b, t

\* A letter is added to the left.
LEMMA Inserting ==
    ASSUME NEW s \in Seq(Nat), NEW i \in 0 .. Len(s), NEW c \in Nat
    PROVE  /\ Left(InsertAt(s, i + 1, c), i + 1) = Append(Left(s, i), c)
           /\ Right(InsertAt(s, i + 1, c), i + 1) = Right(s, i)
<1>1. i \in Nat /\ (i + 1) - 1 = i
  OBVIOUS
<1> DEFINE b == Left(s, i)
           a == Right(s, i)
           x == Append(b, c)
<1>2. b \in Seq(Nat) /\ Len(b) = i /\ a \in Seq(Nat)
  BY SplitParts
<1>3. InsertAt(s, i + 1, c) = Left(s, (i + 1) - 1) \o <<c>> \o Right(s, i)
  BY DEF InsertAt, Left, Right
<1>4. InsertAt(s, i + 1, c) = b \o <<c>> \o a
  BY <1>1, <1>3
<1> HIDE DEF a, b
<1>5. x \in Seq(Nat) /\ Len(x) = i + 1 /\ x = b \o <<c>>
  BY <1>2, AppendProperties, AppendIsConcat
<1> HIDE DEF x
<1>6. InsertAt(s, i + 1, c) = x \o a
  BY <1>4, <1>5
<1>7. Left(InsertAt(s, i + 1, c), i + 1) = x /\ Right(InsertAt(s, i + 1, c), i + 1) = a
  BY <1>2, <1>5, <1>6, SplitConcat
<1> QED  BY <1>7 DEF x, a, b

\* KEY_HOME and KEY_END.
LEMMA Ends ==
    ASSUME NEW s \in Seq(Nat)
    PROVE  /\ Left(s, 0) = <<>> /\ Right(s, 0) = s
           /\ Left(s, Len(s)) = s /\ Right(s, Len(s)) = <<>>
<1>1. <<>> \in Seq(Nat) /\ Len(<<>>) = 0 /\ s = <<>> \o s /\ s = s \o <<>>
  BY EmptySeq, ConcatEmptySeq
<1>2. Left(s, Len(<<>>)) = <<>> /\ Right(s, Len(<<>>)) = s
  BY <1>1, SplitConcat
<1>3. Left(s, Len(s)) = s /\ Right(s, Len(s)) = <<>>
  BY <1>1, SplitConcat
<1> QED  BY <1>1, <1>2, <1>3
-----------------------------------------------------------------------------
(* What each stroke does is what it means, or what a stroke means that it  *)
(* may be taken for.                                                       *)

Before == Left(input, cursorPos)
After == Right(input, cursorPos)

\* An edit, by what it leaves on either side of the cursor.
LEMMA EditorText ==
    ASSUME NEW x, NEW y, Left(input', cursorPos') = x, Right(input', cursorPos') = y,
           returned' = returned
    PROVE  Editor!Text(x, y)
BY DEF Editor!Text, Left, Right

\* At either end of the line one side is empty; together they are the line.
LEMMA EditorParts ==
    ASSUME LineOK
    PROVE  /\ (Before = <<>>) <=> (cursorPos = 0)
           /\ (After = <<>>) <=> (cursorPos = Len(input))
           /\ Before \o After = input
<1>1. /\ Before \in Seq(Nat) /\ Len(Before) = cursorPos /\ After \in Seq(Nat)
      /\ Len(After) = Len(input) - cursorPos
      /\ Before \o After = input
  BY SplitParts, SplitWhole DEF LineOK, After, Before
<1>2. Len(input) \in Nat /\ cursorPos \in Nat
  BY DEF LineOK
<1> QED  BY <1>1, <1>2, EmptySeq

\* What the strokes mean that the switch has a case for.
LEMMA Meanings ==
    /\ Meaning(Key(KEY_BACKSPACE)) = "erase"
    /\ Meaning(Char(Delete)) = "erase" /\ Meaning(Char(Backspace)) = "erase"
    /\ Meaning(Key(KEY_LEFT)) = "left" /\ Meaning(Key(KEY_RIGHT)) = "right"
    /\ Meaning(Key(KEY_DC)) = "delete"
    /\ Meaning(Key(KEY_HOME)) = "home" /\ Meaning(Key(KEY_END)) = "end"
    /\ Meaning(Key(KEY_UP)) = "nothing" /\ Meaning(Key(KEY_DOWN)) = "nothing"
    /\ Meaning(Char(Newline)) = "enter"
BY DEF Meaning, Key, Char, Newline, Backspace, Delete, KEY_DOWN, KEY_UP, KEY_LEFT, KEY_RIGHT,
       KEY_HOME, KEY_BACKSPACE, KEY_DC, KEY_END, iswprint

\* A character without a case is inserted if it is printable.
LEMMA OtherMeanings ==
    ASSUME NEW c \in Nat, c \notin CaseLabels, c # Newline
    PROVE  Meaning(Char(c)) = IF iswprint(c) THEN "insert" ELSE "nothing"
BY DEF Meaning, Key, Char, CaseLabels, Newline, Backspace, Delete, KEY_DOWN, KEY_UP, KEY_LEFT,
       KEY_RIGHT, KEY_HOME, KEY_BACKSPACE, KEY_DC, KEY_END

\* What the editor does for each meaning.
LEMMA EditorDoes ==
    ASSUME NEW r
    PROVE  /\ (Meaning(r) = "insert" /\ Editor!Text(Append(Before, r.code), After))
                => Editor!Does(r)
           /\ (Meaning(r) = "erase" /\ Before # <<>> /\ Editor!Text(Front(Before), After))
                => Editor!Does(r)
           /\ (Meaning(r) = "delete" /\ After # <<>> /\ Editor!Text(Before, Tail(After)))
                => Editor!Does(r)
           /\ (Meaning(r) = "left" /\ Before # <<>>
                /\ Editor!Text(Front(Before), <<Last(Before)>> \o After)) => Editor!Does(r)
           /\ (Meaning(r) = "right" /\ After # <<>>
                /\ Editor!Text(Append(Before, Head(After)), Tail(After))) => Editor!Does(r)
           /\ (Meaning(r) = "home" /\ Editor!Text(<<>>, Before \o After)) => Editor!Does(r)
           /\ (Meaning(r) = "end" /\ Editor!Text(Before \o After, <<>>)) => Editor!Does(r)
           /\ (Meaning(r) = "enter" /\ Editor!Take) => Editor!Does(r)
           /\ (Editor!Text(Before, After)
                /\ \/ Meaning(r) = "nothing"
                   \/ Meaning(r) \in {"left", "erase"} /\ Before = <<>>
                   \/ Meaning(r) \in {"right", "delete"} /\ After = <<>>)
                => Editor!Does(r)
<1> USE DEF Editor!Does, Before, After, Left, Right, Front, Last, Editor!Front, Editor!Last
<1>1. ASSUME Meaning(r) = "insert", Editor!Text(Append(Before, r.code), After)
      PROVE  Editor!Does(r)
  BY <1>1
<1>2. ASSUME Meaning(r) = "erase", Before # <<>>, Editor!Text(Front(Before), After)
      PROVE  Editor!Does(r)
  BY <1>2
<1>3. ASSUME Meaning(r) = "delete", After # <<>>, Editor!Text(Before, Tail(After))
      PROVE  Editor!Does(r)
  BY <1>3
<1>4. ASSUME Meaning(r) = "left", Before # <<>>,
             Editor!Text(Front(Before), <<Last(Before)>> \o After)
      PROVE  Editor!Does(r)
  BY <1>4
<1>5. ASSUME Meaning(r) = "right", After # <<>>,
             Editor!Text(Append(Before, Head(After)), Tail(After))
      PROVE  Editor!Does(r)
  BY <1>5
<1>6. ASSUME Meaning(r) = "home", Editor!Text(<<>>, Before \o After)
      PROVE  Editor!Does(r)
  BY <1>6
<1>7. ASSUME Meaning(r) = "end", Editor!Text(Before \o After, <<>>)
      PROVE  Editor!Does(r)
  BY <1>7
<1>8. ASSUME Meaning(r) = "enter", Editor!Take
      PROVE  Editor!Does(r)
  BY <1>8
<1>9. ASSUME Meaning(r) = "nothing", Editor!Text(Before, After)
      PROVE  Editor!Does(r)
  BY <1>9
<1>10. ASSUME Meaning(r) \in {"left", "erase"}, Before = <<>>, Editor!Text(Before, After)
       PROVE  Editor!Does(r)
  BY <1>10
<1>11. ASSUME Meaning(r) \in {"right", "delete"}, After = <<>>, Editor!Text(Before, After)
       PROVE  Editor!Does(r)
  BY <1>11
<1> HIDE DEF Editor!Does, Before, After, Front, Last
<1> QED  BY <1>1, <1>2, <1>3, <1>4, <1>5, <1>6, <1>7, <1>8, <1>9, <1>10, <1>11

\* The cases of the switch, which exclude one another.
LEMMA SwitchCases ==
    ASSUME NEW c \in Nat, Switch(c), cursorPos \in Nat, Len(input) \in Nat
    PROVE  \/ c \in {KEY_BACKSPACE, Delete, Backspace} /\ cursorPos > 0
              /\ Edit(RemoveAt(input, cursorPos), cursorPos - 1)
           \/ c = KEY_LEFT /\ cursorPos > 0 /\ Edit(input, cursorPos - 1)
           \/ c = KEY_RIGHT /\ cursorPos < Len(input) /\ Edit(input, cursorPos + 1)
           \/ c = KEY_DC /\ cursorPos < Len(input)
              /\ Edit(RemoveAt(input, cursorPos + 1), cursorPos)
           \/ c = KEY_HOME /\ Edit(input, 0)
           \/ c = KEY_END /\ Edit(input, Len(input))
           \/ c \notin CaseLabels /\ iswprint(c)
              /\ Edit(InsertAt(input, cursorPos + 1, c), cursorPos + 1)
           \/ /\ Edit(input, cursorPos)
              /\ \/ c \in {KEY_BACKSPACE, Delete, Backspace, KEY_LEFT} /\ ~(cursorPos > 0)
                 \/ c \in {KEY_RIGHT, KEY_DC} /\ ~(cursorPos < Len(input))
                 \/ c \in {KEY_UP, KEY_DOWN}
                 \/ c \notin CaseLabels /\ ~iswprint(c)
BY DEF Switch, CaseLabels

\* Each case of the switch is an edit that the stroke may be taken for.
LEMMA SwitchDoes ==
    ASSUME LineOK, NEW s \in Strokes, s.code # Newline, Switch(s.code), returned' = returned
    PROVE  \E r \in TakenFor(s) : Editor!Does(r)
<1> DEFINE c == s.code
<1>1. s \in [key : BOOLEAN, code : Nat] /\ (s.key => c > 256) /\ c \in Nat
  BY InputAssumption
<1>2. input \in Seq(Nat) /\ cursorPos \in 0 .. Len(input) /\ Len(input) \in Nat
  BY DEF LineOK
<1>3. s = IF s.key THEN Key(c) ELSE Char(c)
  BY <1>1 DEF Key, Char
<1>4. (c > 256 /\ c \in CaseLabels) => Key(c) \in TakenFor(s)
  BY <1>3 DEF TakenFor
<1>5. (c > 256 /\ c \notin CaseLabels) => Char(c) \in TakenFor(s)
  BY <1>3 DEF TakenFor
<1>6. c <= 256 => Char(c) \in TakenFor(s)
  BY <1>1, <1>3 DEF TakenFor
<1>7. c \notin CaseLabels => Char(c) \in TakenFor(s)
  BY <1>1, <1>5, <1>6
<1>8. c \in {KEY_BACKSPACE, KEY_LEFT, KEY_RIGHT, KEY_DC, KEY_HOME, KEY_END, KEY_UP, KEY_DOWN}
        => Key(c) \in TakenFor(s)
  BY <1>4 DEF CaseLabels, KEY_DOWN, KEY_UP, KEY_LEFT, KEY_RIGHT, KEY_HOME, KEY_BACKSPACE,
              KEY_DC, KEY_END
<1>9. c \in {Delete, Backspace} => Char(c) \in TakenFor(s)
  BY <1>6 DEF Delete, Backspace
<1>10. Key(c).code = c /\ Char(c).code = c
  BY DEF Key, Char
<1> HIDE DEF c
<1>11. c # Newline /\ Switch(c)
  BY DEF c
<1> USE DEF Edit
<1>12. CASE c \in {KEY_BACKSPACE, Delete, Backspace} /\ cursorPos > 0
            /\ Edit(RemoveAt(input, cursorPos), cursorPos - 1)
  <2>1. PICK r \in TakenFor(s) : Meaning(r) = "erase"
    BY <1>8, <1>9, <1>12, Meanings
  <2>2. cursorPos \in 1 .. Len(input)
    BY <1>2, <1>12
  <2>3. /\ Left(input', cursorPos') = Front(Before) /\ Right(input', cursorPos') = After
        /\ Before # <<>>
    BY <1>2, <1>12, <2>2, Erasing DEF Before, After
  <2> QED  BY <2>1, <2>3, EditorText, EditorDoes
<1>13. CASE c = KEY_LEFT /\ cursorPos > 0 /\ Edit(input, cursorPos - 1)
  <2>1. PICK r \in TakenFor(s) : Meaning(r) = "left"
    BY <1>8, <1>13, Meanings
  <2>2. cursorPos \in 1 .. Len(input)
    BY <1>2, <1>13
  <2>3. /\ Left(input', cursorPos') = Front(Before)
        /\ Right(input', cursorPos') = <<Last(Before)>> \o After
    BY <1>2, <1>13, <2>2, MovingLeft DEF Before, After
  <2>4. Before # <<>>
    BY <1>2, <1>13, EditorParts
  <2> QED  BY <2>1, <2>3, <2>4, EditorText, EditorDoes
<1>14. CASE c = KEY_RIGHT /\ cursorPos < Len(input) /\ Edit(input, cursorPos + 1)
  <2>1. PICK r \in TakenFor(s) : Meaning(r) = "right"
    BY <1>8, <1>14, Meanings
  <2>2. /\ Left(input', cursorPos') = Append(Before, Head(After))
        /\ Right(input', cursorPos') = Tail(After)
        /\ After # <<>>
    BY <1>2, <1>14, RightPart DEF Before, After
  <2> QED  BY <2>1, <2>2, EditorText, EditorDoes
<1>15. CASE c = KEY_DC /\ cursorPos < Len(input)
            /\ Edit(RemoveAt(input, cursorPos + 1), cursorPos)
  <2>1. PICK r \in TakenFor(s) : Meaning(r) = "delete"
    BY <1>8, <1>15, Meanings
  <2>2. Left(input', cursorPos') = Before /\ Right(input', cursorPos') = Tail(After)
    BY <1>2, <1>15, Deleting DEF Before, After
  <2>3. After # <<>>
    BY <1>2, <1>15, EditorParts
  <2> QED  BY <2>1, <2>2, <2>3, EditorText, EditorDoes
<1>16. CASE c = KEY_HOME /\ Edit(input, 0)
  <2>1. PICK r \in TakenFor(s) : Meaning(r) = "home"
    BY <1>8, <1>16, Meanings
  <2>2. Left(input', cursorPos') = <<>> /\ Right(input', cursorPos') = Before \o After
    BY <1>2, <1>16, Ends, EditorParts
  <2> QED  BY <2>1, <2>2, EditorText, EditorDoes
<1>17. CASE c = KEY_END /\ Edit(input, Len(input))
  <2>1. PICK r \in TakenFor(s) : Meaning(r) = "end"
    BY <1>8, <1>17, Meanings
  <2>2. Left(input', cursorPos') = Before \o After /\ Right(input', cursorPos') = <<>>
    BY <1>2, <1>17, Ends, EditorParts
  <2> QED  BY <2>1, <2>2, EditorText, EditorDoes
<1>18. CASE c \notin CaseLabels /\ iswprint(c)
            /\ Edit(InsertAt(input, cursorPos + 1, c), cursorPos + 1)
  <2>1. Char(c) \in TakenFor(s) /\ Meaning(Char(c)) = "insert"
    BY <1>1, <1>7, <1>11, <1>18, OtherMeanings DEF c
  <2>2. Left(input', cursorPos') = Append(Before, c) /\ Right(input', cursorPos') = After
    BY <1>1, <1>2, <1>18, Inserting DEF Before, After
  <2>3. Editor!Text(Append(Before, Char(c).code), After)
    BY <1>10, <2>2, EditorText
  <2> QED  BY <2>1, <2>3, EditorDoes
<1>19. ASSUME Edit(input, cursorPos),
              \/ c \in {KEY_BACKSPACE, Delete, Backspace, KEY_LEFT} /\ ~(cursorPos > 0)
              \/ c \in {KEY_RIGHT, KEY_DC} /\ ~(cursorPos < Len(input))
              \/ c \in {KEY_UP, KEY_DOWN}
              \/ c \notin CaseLabels /\ ~iswprint(c)
       PROVE  \E r \in TakenFor(s) : Editor!Does(r)
  <2>1. Left(input', cursorPos') = Before /\ Right(input', cursorPos') = After
    BY <1>19 DEF Before, After
  <2>2. Editor!Text(Before, After)
    BY <2>1, EditorText
  <2>3. /\ ~(cursorPos > 0) => Before = <<>>
        /\ ~(cursorPos < Len(input)) => After = <<>>
    <3>1. /\ ~(cursorPos > 0) => cursorPos = 0
          /\ ~(cursorPos < Len(input)) => cursorPos = Len(input)
      BY <1>2
    <3> QED  BY <3>1, EditorParts
  <2>4. CASE c \in {KEY_BACKSPACE, Delete, Backspace, KEY_LEFT} /\ ~(cursorPos > 0)
    <3>1. PICK r \in TakenFor(s) : Meaning(r) \in {"left", "erase"}
      BY <1>8, <1>9, <2>4, Meanings
    <3> QED  BY <2>2, <2>3, <2>4, <3>1, EditorDoes
  <2>5. CASE c \in {KEY_RIGHT, KEY_DC} /\ ~(cursorPos < Len(input))
    <3>1. PICK r \in TakenFor(s) : Meaning(r) \in {"right", "delete"}
      BY <1>8, <2>5, Meanings
    <3> QED  BY <2>2, <2>3, <2>5, <3>1, EditorDoes
  <2>6. CASE c \in {KEY_UP, KEY_DOWN}
    <3>1. PICK r \in TakenFor(s) : Meaning(r) = "nothing"
      BY <1>8, <2>6, Meanings
    <3> QED  BY <2>2, <3>1, EditorDoes
  <2>7. CASE c \notin CaseLabels /\ ~iswprint(c)
    <3>1. Char(c) \in TakenFor(s) /\ Meaning(Char(c)) = "nothing"
      BY <1>1, <1>7, <1>11, <2>7, OtherMeanings DEF c
    <3> QED  BY <2>2, <3>1, EditorDoes
  <2> QED  BY <1>19, <2>4, <2>5, <2>6, <2>7
<1> HIDE DEF Edit
<1>20. c \in Nat /\ cursorPos \in Nat /\ Len(input) \in Nat
  BY <1>1, <1>2 DEF c
<1> QED  BY <1>11, <1>12, <1>13, <1>14, <1>15, <1>16, <1>17, <1>18, <1>19, <1>20, SwitchCases

\* The line that PromptInput returns is the one that was edited.
LEMMA ReturnTakes ==
    ASSUME LineOK, ReturnInput
    PROVE  Editor!Take
<1>1. returned' = Append(returned, input) /\ input' = <<>> /\ cursorPos' = 0
  BY DEF ReturnInput
<1>2. Before \o After = input
  BY EditorParts
<1>3. Left(<<>>, 0) = <<>> /\ Right(<<>>, 0) = <<>>
  <2>1. <<>> \in Seq(Nat)
    BY EmptySeq
  <2> QED  BY <2>1, Ends
<1> QED  BY <1>1, <1>2, <1>3 DEF Editor!Take, Before, After, Left, Right

\* A stroke is one edit, and a line abandoned is taken as it is.
LEMMA EditorStep ==
    ASSUME TypeOK, [Next]_vars
    PROVE  [Editor!Next]_Editor!editVars
<1>0. LineOK
  BY DEF TypeOK, LineOK
<1>1. CASE CallPrompt \/ NoStroke \/ UNCHANGED vars
  <2>1. UNCHANGED <<input, cursorPos, returned, stroke, running>>
    BY <1>1 DEF CallPrompt, NoStroke, vars
  <2> QED  BY <2>1 DEF Editor!editVars
<1>2. CASE TestRunning
  <2>1. CASE running
    BY <1>2, <2>1 DEF TestRunning, Editor!editVars
  <2>2. CASE ~running
    <3>1. Editor!Take /\ UNCHANGED <<stroke, running>>
      BY <1>0, <1>2, <2>2, ReturnTakes DEF TestRunning
    <3> QED  BY <2>2, <3>1 DEF Editor!Next, Editor!Abandon
  <2> QED  BY <2>1, <2>2
<1>3. CASE GetStroke
  <2>1. stroke' \in Strokes /\ running' = running
    BY <1>3 DEF GetStroke
  <2>2. \E r \in TakenFor(stroke') : Editor!Does(r)
    <3>1. CASE stroke'.code = Newline
      <4>1. Editor!Take
        BY <1>0, <1>3, <3>1, ReturnTakes DEF GetStroke
      <4>2. Char(Newline) \in TakenFor(stroke') /\ Meaning(Char(Newline)) = "enter"
        <5>1. stroke' = Char(Newline)
          BY <2>1, <3>1, InputAssumption DEF Char, Newline
        <5> QED  BY <5>1, Meanings DEF TakenFor, Char, Newline
      <4> QED  BY <4>1, <4>2, EditorDoes
    <3>2. CASE stroke'.code # Newline
      <4>1. Switch(stroke'.code) /\ returned' = returned
        BY <1>3, <3>2 DEF GetStroke
      <4> QED  BY <1>0, <2>1, <3>2, <4>1, SwitchDoes
    <3> QED  BY <3>1, <3>2
  <2> QED  BY <2>1, <2>2 DEF Editor!Next, Editor!Strike
<1>4. CASE StopElsewhere
  BY <1>4 DEF StopElsewhere, Editor!Next, Editor!Close
<1> QED  BY <1>1, <1>2, <1>3, <1>4 DEF Next

\* The string and the index of PromptInput are the line and the cursor that
\* the user edits: every stroke does what it means, or what a stroke means
\* that it may be taken for, whatever is struck and whenever the client stops.
THEOREM InputImplementsEditor == Spec => ImplementsEditor
<1>1. Init => Editor!Init
  <2>1. <<>> \in Seq(Nat) /\ Left(<<>>, 0) = <<>> /\ Right(<<>>, 0) = <<>>
    BY EmptySeq, Ends
  <2> QED  BY <2>1 DEF Init, Editor!Init, Left, Right
<1>2. TypeOK /\ [Next]_vars => [Editor!Next]_Editor!editVars
  BY EditorStep
<1> QED  BY <1>1, <1>2, CursorInLine, PTL DEF Spec, ImplementsEditor, Editor!Spec
=============================================================================
