------------------------- MODULE MessageStreamProofs -------------------------
(***************************************************************************)
(* Proofs about MessageStream, for every set of answers: the state that    *)
(* the stream parser is left in by any cut, the order of the events that   *)
(* the Anthropic handler writes, the indexes that the OpenAI handler gives *)
(* to tool calls, and what the client is told: of an orderly answer what   *)
(* the whole of it says, and of no answer what it does not say.            *)
(***************************************************************************)
EXTENDS MessageStream, TLAPS, FiniteSetTheorems, SequenceTheorems, WellFoundedInduction

\* The pieces a text is made of.
Pieces == {Thought, Nil} \cup UNION {Range(t) : t \in Answers}

\* Every answer is a sequence of pieces.
LEMMA AnswersAreTexts == Answers \subseteq Seq(Pieces)
<1> SUFFICES ASSUME NEW t \in Answers PROVE t \in Seq(Pieces)
  OBVIOUS
<1>1. t \in Seq(Range(t)) /\ Range(t) \subseteq Pieces
  BY MessageStreamAssumption DEF Pieces
<1>2. QED
  BY <1>1, SeqMonotonic

-----------------------------------------------------------------------------
(* Numbers. *)

\* A set of numbers that is not empty has a smallest element.
LEMMA SmallestOf ==
    ASSUME NEW T \in SUBSET Nat, T # {}
    PROVE  \E n \in T : \A m \in T : n <= m
<1>1. IsWellFoundedOn(OpToRel(<, Nat), Nat)
  BY NatLessThanWellFounded
<1>2. PICK n \in T : \A m \in T : <<m, n>> \notin OpToRel(<, Nat)
  <2> HIDE DEF OpToRel
  <2>1. QED
    BY <1>1, WFMin
<1>3. \A m \in T : m \in Nat /\ n \in Nat /\ ~(m < n)
  BY <1>2 DEF OpToRel
<1>4. \A m \in T : n <= m
  BY <1>3
<1>5. QED
  BY <1>4

\* A set with 0 and with the successor of each of its numbers has them all.
LEMMA Induction ==
    ASSUME NEW T, 0 \in T, \A n \in Nat : n \in T => n + 1 \in T
    PROVE  Nat \subseteq T
<1> SUFFICES ASSUME Nat \ T # {} PROVE FALSE
  OBVIOUS
<1>1. PICK n \in Nat \ T : \A m \in Nat \ T : n <= m
  BY SmallestOf
<1>2. n - 1 \in Nat /\ n - 1 \in T
  <2>1. n \in Nat /\ n # 0
    OBVIOUS
  <2>2. QED
    BY <2>1, <1>1
<1>3. (n - 1) + 1 \in T
  BY <1>2
<1>4. QED
  BY <1>2, <1>3

\* Positions of a text have a first and a last.
LEMMA FirstAndLast ==
    ASSUME NEW L \in Nat, NEW S \in SUBSET (1 .. L), S # {}
    PROVE  /\ Min(S) \in S /\ \A i \in S : Min(S) <= i
           /\ Max(S) \in S /\ \A i \in S : i <= Max(S)
<1>1. PICK n \in S : \A m \in S : n <= m
  BY SmallestOf
<1> DEFINE T == {L - i : i \in S}
<1>2. T \in SUBSET Nat /\ T # {}
  OBVIOUS
<1>3. PICK x \in T : \A y \in T : x <= y
  <2> HIDE DEF T
  <2>1. QED
    BY <1>2, SmallestOf
<1>4. PICK k \in S : x = L - k
  OBVIOUS
<1>5. \A i \in S : k >= i
  <2> SUFFICES ASSUME NEW i \in S PROVE k >= i
    OBVIOUS
  <2>1. L - k <= L - i
    BY <1>3, <1>4
  <2>2. QED
    BY <2>1
<1>6. Min(S) \in S /\ \A i \in S : Min(S) <= i
  BY <1>1 DEF Min
<1>7. Max(S) \in S /\ \A i \in S : Max(S) >= i
  <2>1. \E a \in S : \A b \in S : a >= b
    BY <1>5
  <2>2. QED
    BY <2>1 DEF Max
<1>8. QED
  BY <1>6, <1>7

-----------------------------------------------------------------------------
(* Texts. *)

IsText(s) == s \in Seq(Range(s))

\* A sequence over any set is a text.
LEMMA SomeText ==
    ASSUME NEW P, NEW s \in Seq(P)
    PROVE  IsText(s)
BY SeqOfRange DEF IsText

\* The empty text.
LEMMA NoText == IsText(<<>>) /\ Len(<<>>) = 0
BY EmptySeq DEF IsText

\* A text has a length, and its domain are the places up to it.
LEMMA TextLength ==
    ASSUME NEW s, IsText(s)
    PROVE  Len(s) \in Nat /\ DOMAIN s = 1 .. Len(s)
BY LenProperties DEF IsText

\* What SubSeq cuts out, its length and its pieces.
LEMMA Cut ==
    ASSUME NEW P, NEW t \in Seq(P), NEW a \in Nat \ {0}, NEW b \in Nat, b <= Len(t)
    PROVE  /\ SubSeq(t, a, b) \in Seq(P)
           /\ Len(SubSeq(t, a, b)) = IF a <= b THEN b - a + 1 ELSE 0
           /\ \A i \in 1 .. (b - a + 1) : SubSeq(t, a, b)[i] = t[a + i - 1]
<1>1. \A i \in a .. b : t[i] \in P
  BY ElementOfSeq, LenProperties
<1>2. QED
  BY <1>1, SubSeqProperties

\* Where a pattern is.
LEMMA AtIs ==
    ASSUME NEW P, NEW t \in Seq(P), NEW i \in 1 .. Len(t) + 1,
           NEW Q, NEW p \in Seq(Q)
    PROVE  At(t, i, p) <=> /\ i + Len(p) <= Len(t) + 1
                           /\ \A j \in 1 .. Len(p) : t[i + j - 1] = p[j]
<1> DEFINE u == SubSeq(t, i, Len(t))
           n == Len(p)
           v == SubSeq(u, 1, n)
<1>1. /\ Len(t) \in Nat /\ n \in Nat
      /\ u \in Seq(P)
      /\ Len(u) = Len(t) + 1 - i
      /\ \A j \in 1 .. Len(u) : u[j] = t[i + j - 1]
  <2>1. Len(t) \in Nat /\ n \in Nat
    BY LenProperties
  <2>2. /\ u \in Seq(P)
        /\ Len(u) = IF i <= Len(t) THEN Len(t) - i + 1 ELSE 0
        /\ \A j \in 1 .. (Len(t) - i + 1) : u[j] = t[i + j - 1]
    BY <2>1, Cut
  <2> HIDE DEF u
  <2>3. Len(u) = Len(t) + 1 - i /\ Len(u) = Len(t) - i + 1
    BY <2>1, <2>2
  <2>4. QED
    BY <2>1, <2>2, <2>3
<1>2. SubSeq(p, 1, n) = p
  BY SubSeqFull
<1>3. At(t, i, p) <=> n <= Len(u) /\ v = p
  BY <1>2 DEF At, IsPrefix
<1> HIDE DEF u
<1>4. ASSUME n <= Len(u)
      PROVE  v = p <=> \A j \in 1 .. n : u[j] = p[j]
  <2>1. /\ v \in Seq(P)
        /\ Len(v) = IF 1 <= n THEN n - 1 + 1 ELSE 0
        /\ \A j \in 1 .. (n - 1 + 1) : v[j] = u[1 + j - 1]
    BY <1>1, <1>4, Cut
  <2> HIDE DEF v
  <2>2. Len(v) = n /\ \A j \in 1 .. n : v[j] = u[j]
    BY <1>1, <2>1
  <2>3. v \in Seq(P \cup Q) /\ p \in Seq(P \cup Q)
    BY <2>1, SeqMonotonic
  <2>4. (\A j \in 1 .. n : v[j] = p[j]) => v = p
    BY <2>2, <2>3, SeqEqual
  <2>5. QED
    BY <2>2, <2>4
<1> HIDE DEF v
<1>5. n <= Len(u) <=> i + n <= Len(t) + 1
  BY <1>1
<1>6. n <= Len(u) => \A j \in 1 .. n : u[j] = t[i + j - 1]
  BY <1>1
<1>7. QED
  BY <1>3, <1>4, <1>5, <1>6

\* Where a start marker is, ...
LEMMA MarkerAt ==
    ASSUME NEW P, NEW t \in Seq(P), NEW i \in 1 .. Len(t)
    PROVE  At(t, i, Marker) <=> /\ i + 1 <= Len(t)
                                /\ t[i] = "<"
                                /\ t[i + 1] = "ml_tool_calls"
<1>1. /\ Marker \in Seq({"<", "ml_tool_calls"}) /\ Len(Marker) = 2
      /\ Marker[1] = "<" /\ Marker[2] = "ml_tool_calls"
  <2>1. \A a, b : /\ <<a, b>> \in Seq({a, b}) /\ Len(<<a, b>>) = 2
                 /\ <<a, b>>[1] = a /\ <<a, b>>[2] = b
    OBVIOUS
  <2>2. QED
    BY <2>1 DEF Marker
<1>2. Len(t) \in Nat /\ i \in 1 .. Len(t) + 1 /\ (i + 1) - 1 = i /\ (i + 2) - 1 = i + 1
  BY LenProperties
<1>3. (\A j \in 1 .. 2 : t[i + j - 1] = Marker[j])
          <=> t[i] = Marker[1] /\ t[i + 1] = Marker[2]
  <2>1. 1 .. 2 = {1, 2} /\ i + 1 - 1 = i /\ i + 2 - 1 = i + 1
    BY <1>2
  <2>2. QED
    BY <2>1
<1>4. At(t, i, Marker) <=> /\ i + 2 <= Len(t) + 1
                           /\ \A j \in 1 .. 2 : t[i + j - 1] = Marker[j]
  <2>1. At(t, i, Marker) <=> /\ i + Len(Marker) <= Len(t) + 1
                             /\ \A j \in 1 .. Len(Marker) : t[i + j - 1] = Marker[j]
    <3>1. Marker \in Seq({"<", "ml_tool_calls"}) /\ i \in 1 .. Len(t) + 1
      BY <1>1, <1>2
    <3>2. QED
      BY <3>1, AtIs
  <2>2. QED
    BY <1>1, <2>1
<1>5. i + 2 <= Len(t) + 1 <=> i + 1 <= Len(t)
  BY <1>2
<1>6. QED
  BY <1>1, <1>3, <1>4, <1>5

\* A wrapper's opening tag is three pieces.
LEMMA OpenIs ==
    /\ Open \in Seq({"<", "ml_tool_calls", ">"}) /\ Len(Open) = 3
    /\ Open[1] = "<" /\ Open[2] = "ml_tool_calls" /\ Open[3] = ">"
<1>1. ASSUME NEW E, NEW a \in E, NEW b \in E, NEW c \in E
      PROVE  <<a, b, c>> = <<a, b>> \o <<c>>
  <2>1. <<a, b>> \in Seq(E) /\ <<c>> \in Seq(E) /\ <<a, b, c>> = <<a, b>> \o <<c>>
    OBVIOUS
  <2>2. QED
    BY <2>1
<1>2. Open = <<"<", "ml_tool_calls", ">">>
  <2> DEFINE E == {"<", "ml_tool_calls", ">"}
  <2>1. "<" \in E /\ "ml_tool_calls" \in E /\ ">" \in E
    OBVIOUS
  <2> HIDE DEF E
  <2>2. QED
    BY <1>1, <2>1 DEF Marker, Open
<1>3. \A a, b, c : <<a, b, c>> \in Seq({a, b, c}) /\ Len(<<a, b, c>>) = 3
  OBVIOUS
<1>4. \A a, b, c : /\ <<a, b, c>>[1] = a /\ <<a, b, c>>[2] = b
                  /\ <<a, b, c>>[3] = c
  OBVIOUS
<1>5. QED
  BY <1>2, <1>3, <1>4

\* ... and where an opening tag.
LEMMA OpenAt ==
    ASSUME NEW P, NEW t \in Seq(P), NEW i \in 1 .. Len(t)
    PROVE  At(t, i, Open) <=> /\ i + 2 <= Len(t)
                              /\ t[i] = "<"
                              /\ t[i + 1] = "ml_tool_calls"
                              /\ t[i + 2] = ">"
<1>1. /\ Open \in Seq({"<", "ml_tool_calls", ">"}) /\ Len(Open) = 3
      /\ Open[1] = "<" /\ Open[2] = "ml_tool_calls" /\ Open[3] = ">"
  BY OpenIs
<1>2. /\ Len(t) \in Nat /\ i \in 1 .. Len(t) + 1
      /\ (i + 1) - 1 = i /\ (i + 2) - 1 = i + 1 /\ (i + 3) - 1 = i + 2
  BY LenProperties
<1>3. (\A j \in 1 .. 3 : t[i + j - 1] = Open[j])
          <=> t[i] = Open[1] /\ t[i + 1] = Open[2] /\ t[i + 2] = Open[3]
  <2>1. 1 .. 3 = {1, 2, 3} /\ i + 1 - 1 = i /\ i + 2 - 1 = i + 1 /\ i + 3 - 1 = i + 2
    BY <1>2
  <2>2. QED
    BY <2>1
<1>4. At(t, i, Open) <=> /\ i + 3 <= Len(t) + 1
                         /\ \A j \in 1 .. 3 : t[i + j - 1] = Open[j]
  <2>1. At(t, i, Open) <=> /\ i + Len(Open) <= Len(t) + 1
                           /\ \A j \in 1 .. Len(Open) : t[i + j - 1] = Open[j]
    <3>1. Open \in Seq({"<", "ml_tool_calls", ">"}) /\ i \in 1 .. Len(t) + 1
      BY <1>1, <1>2
    <3>2. QED
      BY <3>1, AtIs
  <2>2. QED
    BY <1>1, <2>1
<1>5. i + 3 <= Len(t) + 1 <=> i + 2 <= Len(t)
  BY <1>2
<1>6. QED
  BY <1>1, <1>3, <1>4, <1>5

\* The rest of a part of a text.
LEMMA CutOfCut ==
    ASSUME NEW P, NEW t \in Seq(P), NEW m \in 0 .. Len(t), NEW q \in 0 .. m
    PROVE  LET h == SubSeq(t, q + 1, m)
           IN  /\ h \in Seq(P)
               /\ Len(h) = m - q
               /\ \A i \in 1 .. (m - q) : h[i] = t[q + i]
               /\ \A a \in 1 .. (m - q) + 1 : SubSeq(h, a, Len(h)) = SubSeq(t, q + a, m)
<1> DEFINE h == SubSeq(t, q + 1, m)
<1>1. Len(t) \in Nat /\ m \in Nat /\ q \in Nat /\ q + 1 \in Nat \ {0} /\ m <= Len(t)
  BY LenProperties
<1>2. /\ h \in Seq(P)
      /\ Len(h) = m - q
      /\ \A i \in 1 .. (m - q) : h[i] = t[q + i]
  <2>1. /\ h \in Seq(P)
        /\ Len(h) = IF q + 1 <= m THEN m - (q + 1) + 1 ELSE 0
        /\ \A i \in 1 .. (m - (q + 1) + 1) : h[i] = t[(q + 1) + i - 1]
    BY <1>1, Cut
  <2> HIDE DEF h
  <2>2. Len(h) = m - q
    BY <1>1, <2>1
  <2>3. ASSUME NEW i \in 1 .. (m - q) PROVE h[i] = t[q + i]
    <3>1. i \in 1 .. (m - (q + 1) + 1) /\ (q + 1) + i - 1 = q + i
      BY <1>1
    <3>2. QED
      BY <2>1, <3>1
  <2>4. QED
    BY <2>1, <2>2, <2>3
<1>3. ASSUME NEW a \in 1 .. (m - q) + 1
      PROVE  SubSeq(h, a, Len(h)) = SubSeq(t, q + a, m)
  <2> HIDE DEF h
  <2> DEFINE u == SubSeq(h, a, Len(h))
             v == SubSeq(t, q + a, m)
  <2>1. /\ u \in Seq(P)
        /\ Len(u) = IF a <= m - q THEN (m - q) - a + 1 ELSE 0
        /\ \A i \in 1 .. ((m - q) - a + 1) : u[i] = h[a + i - 1]
    BY <1>1, <1>2, Cut
  <2>2. q + a \in Nat \ {0}
    BY <1>1
  <2>3. /\ v \in Seq(P)
        /\ Len(v) = IF q + a <= m THEN m - (q + a) + 1 ELSE 0
        /\ \A i \in 1 .. (m - (q + a) + 1) : v[i] = t[(q + a) + i - 1]
    BY <1>1, <2>2, Cut
  <2> HIDE DEF u, v
  <2>4. Len(u) = (m - q) - a + 1 /\ Len(v) = (m - q) - a + 1
    BY <1>1, <2>1, <2>3
  <2>5. ASSUME NEW i \in 1 .. Len(u) PROVE u[i] = v[i]
    <3>1. /\ i \in 1 .. ((m - q) - a + 1) /\ i \in 1 .. (m - (q + a) + 1)
          /\ a + i - 1 \in 1 .. (m - q)
          /\ q + (a + i - 1) = (q + a) + i - 1
      BY <1>1, <2>4
    <3>2. QED
      BY <1>2, <2>1, <2>3, <3>1
  <2>6. u = v
    BY <2>1, <2>3, <2>4, <2>5, SeqEqual
  <2>7. QED
    BY <2>6 DEF u, v
<1>4. QED
  BY <1>2, <1>3

\* A start marker stays where it is when the text grows, and a text that is cut where
\* its first one begins begins with it.
LEMMA MarkerStays ==
    ASSUME NEW P, NEW s \in Seq(P), NEW t \in Seq(P)
    PROVE  firstMarker(s) \subseteq firstMarker(s \o t)
<1> SUFFICES ASSUME NEW i \in firstMarker(s) PROVE i \in firstMarker(s \o t)
  OBVIOUS
<1>1. /\ s \o t \in Seq(P)
      /\ Len(s \o t) = Len(s) + Len(t)
      /\ Len(s) \in Nat /\ Len(t) \in Nat
      /\ \A j \in 1 .. Len(s) : (s \o t)[j] = s[j]
  BY ConcatProperties, LenProperties
<1>2. i \in 1 .. Len(s) /\ i \in DOMAIN (s \o t) /\ i \in 1 .. Len(s \o t)
  BY <1>1, LenProperties DEF firstMarker
<1>3. CASE s[i] \in Calls
  BY <1>1, <1>2, <1>3 DEF firstMarker
<1>4. CASE At(s, i, Marker)
  <2>1. i + 1 <= Len(s) /\ s[i] = "<" /\ s[i + 1] = "ml_tool_calls"
    BY <1>2, <1>4, MarkerAt
  <2>2. (s \o t)[i] = s[i] /\ (s \o t)[i + 1] = s[i + 1] /\ i + 1 <= Len(s \o t)
    BY <1>1, <1>2, <2>1
  <2>3. At(s \o t, i, Marker)
    BY <1>1, <1>2, <2>1, <2>2, MarkerAt
  <2>4. QED
    BY <1>2, <2>3 DEF firstMarker
<1>5. QED
  BY <1>3, <1>4 DEF firstMarker

\* A text cut at a marker begins with one.
LEMMA MarkerLeads ==
    ASSUME NEW P, NEW t \in Seq(P), NEW i \in firstMarker(t)
    PROVE  firstMarker(SubSeq(t, i, Len(t))) # {}
<1> DEFINE u == SubSeq(t, i, Len(t))
<1>1. Len(t) \in Nat /\ i \in 1 .. Len(t)
  BY LenProperties DEF firstMarker
<1>2. /\ u \in Seq(P)
      /\ Len(u) = Len(t) - i + 1
      /\ \A j \in 1 .. Len(u) : u[j] = t[i + j - 1]
  BY <1>1, Cut
<1> HIDE DEF u
<1>3. 1 \in 1 .. Len(u) /\ 1 \in DOMAIN u /\ u[1] = t[i]
  BY <1>1, <1>2, LenProperties
<1>4. CASE t[i] \in Calls
  BY <1>3, <1>4 DEF firstMarker, u
<1>5. CASE At(t, i, Marker)
  <2>1. i + 1 <= Len(t) /\ t[i] = "<" /\ t[i + 1] = "ml_tool_calls"
    BY <1>1, <1>5, MarkerAt
  <2>2. 1 + 1 <= Len(u) /\ u[1 + 1] = t[i + 1]
    BY <1>1, <1>2, <2>1
  <2>3. At(u, 1, Marker)
    BY <1>2, <1>3, <2>1, <2>2, MarkerAt
  <2>4. QED
    BY <1>3, <2>3 DEF firstMarker, u
<1>6. QED
  BY <1>4, <1>5 DEF firstMarker

\* However many calls a text has, they can be counted.
LEMMA CallsCounted ==
    ASSUME NEW t, NEW L \in Nat, DOMAIN t = 1 .. L
    PROVE  IsText(ParseCalls(t))
<1> DEFINE found == IF Wrapped(t) # {} THEN Wrapped(t) ELSE Closed(t)
           S == {i \in found : \A j \in found : j < i => t[j] # t[i]}
           Rank(i) == Cardinality({j \in S : j <= i})
<1>1. S \subseteq 1 .. L
  BY DEF Wrapped, Closed
<1>2. Cardinality(S) \in Nat
  <2>1. IsFiniteSet(1 .. L)
    BY FS_Interval
  <2> HIDE DEF S
  <2>2. IsFiniteSet(S)
    BY <1>1, <2>1, FS_Subset
  <2>3. QED
    BY <2>2, FS_CardinalityType
<1> DEFINE n == Cardinality(S)
           e == [m \in 1 .. n |-> t[CHOOSE i \in S : Rank(i) = m]]
<1>3. ParseCalls(t) = e
  BY DEF ParseCalls, Kept
<1> HIDE DEF n
<1>4. e \in [1 .. n -> {e[m] : m \in 1 .. n}] /\ n \in Nat
  BY <1>2 DEF n
<1> HIDE DEF e
<1>5. e \in Seq({e[m] : m \in 1 .. n})
  BY <1>4, SeqDef
<1>6. QED
  BY <1>3, <1>5, SomeText

-----------------------------------------------------------------------------
(* The stream parser. *)

\* A capture begins at a marker and leaves nothing pending; without one, nothing but
\* the beginning of a marker is held back.
StreamOK(s) ==
    /\ s.pending \in Seq(Pieces) /\ s.captureBuff \in Seq(Pieces)
    /\ s.capturing \in BOOLEAN
    /\ IF s.capturing
       THEN s.pending = <<>> /\ firstMarker(s.captureBuff) # {}
       ELSE s.captureBuff = <<>> /\ Len(s.pending) <= 1

\* A new parser holds nothing.
LEMMA NewIsOK == StreamOK(NewStreamState)
BY EmptySeq DEF StreamOK, NewStreamState

\* A capture that begins with a marker is a state of the parser.
LEMMA CaptureOK ==
    ASSUME NEW t \in Seq(Pieces), firstMarker(t) # {}
    PROVE  StreamOK(Capture(t))
<1>1. /\ Capture(t).pending = <<>>
      /\ Capture(t).capturing = TRUE
      /\ Capture(t).captureBuff = t
  BY DEF Capture, NewStreamState
<1>2. QED
  BY <1>1, EmptySeq DEF StreamOK

\* So is one piece held back.
LEMMA PendingOK ==
    ASSUME NEW t \in Seq(Pieces), Len(t) <= 1
    PROVE  StreamOK([NewStreamState EXCEPT !.pending = t])
<1> DEFINE s == [NewStreamState EXCEPT !.pending = t]
<1>1. /\ s.pending = t
      /\ s.capturing = FALSE
      /\ s.captureBuff = <<>>
  BY DEF NewStreamState
<1>2. QED
  BY <1>1, EmptySeq DEF StreamOK

\* What tryConsumeCapture finds is a text.
LEMMA ConsumeCounted ==
    ASSUME NEW t \in Seq(Pieces)
    PROVE  IsText(tryConsumeCapture(t).calls)
<1> DEFINE wrappers == {i \in DOMAIN t : At(t, i, Marker)}
           opens == IF wrappers # {} THEN wrappers ELSE firstMarker(t)
           close == IF wrappers # {} THEN "</ml_tool_calls>" ELSE "</ml_tool_call>"
           closes == {i \in DOMAIN t : t[i] = close /\ \E o \in opens : o < i}
           u == SubSeq(t, Min(opens), Max(closes))
<1>1. Len(t) \in Nat /\ DOMAIN t = 1 .. Len(t)
  BY LenProperties
<1>2. CASE closes = {}
  <2>1. tryConsumeCapture(t).calls = <<>>
    BY <1>2 DEF tryConsumeCapture
  <2>2. QED
    BY <2>1, NoText
<1>3. CASE closes # {}
  <2>1. opens \in SUBSET (1 .. Len(t)) /\ closes \in SUBSET (1 .. Len(t)) /\ opens # {}
    BY <1>1, <1>3 DEF firstMarker
  <2> HIDE DEF opens, closes
  <2>2. Min(opens) \in 1 .. Len(t) /\ Max(closes) \in 1 .. Len(t)
    BY <1>1, <1>3, <2>1, FirstAndLast
  <2>3. u \in Seq(Pieces)
    BY <1>1, <2>2, Cut
  <2>4. Len(u) \in Nat /\ DOMAIN u = 1 .. Len(u)
    <3> HIDE DEF u
    <3>1. QED
      BY <2>3, LenProperties
  <2>5. IsText(ParseCalls(u))
    <3> HIDE DEF u
    <3>1. QED
      BY <2>4, CallsCounted
  <2>6. tryConsumeCapture(t).calls = ParseCalls(u)
    BY <1>3 DEF tryConsumeCapture, opens, closes
  <2>7. QED
    BY <2>5, <2>6
<1>4. QED
  BY <1>2, <1>3

\* A capture ends in a state of the parser.
LEMMA CapturedOK ==
    ASSUME NEW t \in Seq(Pieces), firstMarker(t) # {}
    PROVE  StreamOK(Captured(t).state) /\ IsText(Captured(t).calls)
<1> DEFINE got == tryConsumeCapture(t)
<1>1. IsText(got.calls) /\ IsText(<<>>)
  BY ConsumeCounted, NoText
<1>2. StreamOK(Capture(t)) /\ StreamOK(NewStreamState)
  BY CaptureOK, NewIsOK
<1>3. \/ Captured(t) = Result(NewStreamState, got.content, got.calls)
      \/ Captured(t) = Result(NewStreamState, stripMalformedToolPreludePrefix(t), <<>>)
      \/ Captured(t) = Result(Capture(t), <<>>, <<>>)
  BY DEF Captured
<1> HIDE DEF got
<1>4. QED
  BY <1>1, <1>2, <1>3 DEF Result

\* So does the search for a marker.
LEMMA ScannedOK ==
    ASSUME NEW t \in Seq(Pieces)
    PROVE  StreamOK(Scanned(t).state) /\ IsText(Scanned(t).calls)
<1> DEFINE at == firstMarker(t)
           safe == Len(t) - heldBack(t)
<1>1. Len(t) \in Nat /\ DOMAIN t = 1 .. Len(t) /\ IsText(<<>>)
  BY LenProperties, NoText
<1>2. CASE at # {}
  <2> DEFINE u == SubSeq(t, Min(at), Len(t))
  <2>1. at \in SUBSET (1 .. Len(t))
    BY <1>1 DEF firstMarker
  <2>2. Min(at) \in at
    <3> HIDE DEF at
    <3>1. QED
      BY <1>1, <1>2, <2>1, FirstAndLast
  <2>3. u \in Seq(Pieces)
    BY <1>1, <2>1, <2>2, Cut
  <2>4. firstMarker(u) # {}
    BY <2>2, MarkerLeads
  <2>5. StreamOK(Capture(u))
    <3> HIDE DEF u
    <3>1. QED
      BY <2>3, <2>4, CaptureOK
  <2>6. Scanned(t) = Result(Capture(u), SubSeq(t, 1, Min(at) - 1), <<>>)
    BY <1>2 DEF Scanned
  <2> HIDE DEF u
  <2>7. QED
    BY <1>1, <2>5, <2>6 DEF Result
<1>3. CASE at = {}
  <2> DEFINE u == SubSeq(t, safe + 1, Len(t))
  <2>1. heldBack(t) \in 0 .. 1 /\ heldBack(t) <= Len(t)
    <3>1. t # <<>> => Len(t) # 0
      BY EmptySeq
    <3>2. QED
      BY <1>1, <3>1 DEF heldBack
  <2>2. \A n \in Nat, h \in 0 .. 1 : h <= n => (n - h) + 1 \in Nat \ {0} /\ n <= (n - h) + 1
    OBVIOUS
  <2> DEFINE a == safe + 1
  <2>3. a \in Nat \ {0} /\ Len(t) <= a
    BY <1>1, <2>1, <2>2
  <2>4. SubSeq(t, a, Len(t)) \in Seq(Pieces) /\ Len(SubSeq(t, a, Len(t))) <= 1
    <3> HIDE DEF a
    <3>1. SubSeq(t, a, Len(t)) \in Seq(Pieces)
      BY <1>1, <2>3, Cut
    <3>2. Len(SubSeq(t, a, Len(t))) = IF a <= Len(t) THEN Len(t) - a + 1 ELSE 0
      BY <1>1, <2>3, Cut
    <3>3. QED
      BY <1>1, <2>3, <3>1, <3>2
  <2>5. StreamOK([NewStreamState EXCEPT !.pending = u])
    <3>1. u \in Seq(Pieces) /\ Len(u) <= 1
      BY <2>4
    <3> HIDE DEF u
    <3>2. QED
      BY <3>1, PendingOK
  <2>6. Scanned(t) = Result([NewStreamState EXCEPT !.pending = u], SubSeq(t, 1, safe), <<>>)
    BY <1>3 DEF Scanned
  <2> HIDE DEF u
  <2>7. QED
    BY <1>1, <2>5, <2>6 DEF Result
<1>4. QED
  BY <1>2, <1>3

\* A chunk leaves the parser as it should be.
LEMMA ChunkOK ==
    ASSUME NEW s, StreamOK(s), NEW chunk \in Seq(Pieces)
    PROVE  /\ StreamOK(ProcessStreamChunk(s, chunk).state)
           /\ IsText(ProcessStreamChunk(s, chunk).calls)
<1>1. s.pending \in Seq(Pieces) /\ s.captureBuff \in Seq(Pieces) /\ s.capturing \in BOOLEAN
  BY DEF StreamOK
<1>2. CASE s.capturing
  <2> DEFINE t == s.captureBuff \o s.pending \o chunk
  <2>1. s.captureBuff \o s.pending \in Seq(Pieces) /\ t \in Seq(Pieces)
    BY <1>1, ConcatProperties
  <2>2. firstMarker(s.captureBuff) # {}
    BY <1>2 DEF StreamOK
  <2>3. firstMarker(s.captureBuff \o s.pending) # {}
    BY <1>1, <2>2, MarkerStays
  <2>4. firstMarker(t) # {}
    BY <2>1, <2>3, MarkerStays
  <2>5. ProcessStreamChunk(s, chunk) = Captured(t)
    BY <1>2 DEF ProcessStreamChunk
  <2> HIDE DEF t
  <2>6. QED
    BY <2>1, <2>4, <2>5, CapturedOK
<1>3. CASE ~s.capturing
  <2>1. s.pending \o chunk \in Seq(Pieces)
    BY <1>1, ConcatProperties
  <2>2. ProcessStreamChunk(s, chunk) = Scanned(s.pending \o chunk)
    BY <1>3 DEF ProcessStreamChunk
  <2>3. QED
    BY <2>1, <2>2, ScannedOK
<1>4. QED
  BY <1>1, <1>2, <1>3

\* What FinalizeStream finds is a text.
LEMMA FinalizeCounted ==
    ASSUME NEW s, StreamOK(s)
    PROVE  IsText(FinalizeStream(s).calls)
<1> DEFINE t == s.captureBuff \o s.pending
           got == tryConsumeCapture(t)
<1>1. t \in Seq(Pieces)
  BY ConcatProperties DEF StreamOK
<1> HIDE DEF t
<1>2. Len(t) \in Nat /\ DOMAIN t = 1 .. Len(t) /\ IsText(<<>>)
  BY <1>1, LenProperties, NoText
<1>3. IsText(ParseCalls(t)) /\ IsText(got.calls)
  BY <1>1, <1>2, CallsCounted, ConsumeCounted
<1>4. \/ FinalizeStream(s).calls = got.calls
      \/ FinalizeStream(s).calls = <<>>
      \/ FinalizeStream(s).calls = ParseCalls(t)
  BY DEF FinalizeStream, Result, t
<1> HIDE DEF got
<1>5. QED
  BY <1>2, <1>3, <1>4

-----------------------------------------------------------------------------
(* What was written. *)

Count(es, i, type) == Cardinality({j \in 1 .. i : es[j].type = type})

\* The events es keep to the order of blocks, n of which were begun; one of them is open,
\* or none, as open says.
Nested(es, n, open) ==
    /\ IsText(es) /\ es # <<>>
    /\ open \in {0, 1}
    /\ n = Count(es, Len(es), "block_start")
    /\ n - Count(es, Len(es), "block_stop") = open
    /\ \A i \in 1 .. Len(es) :
        LET starts == Count(es, i, "block_start")
            stops == Count(es, i, "block_stop")
        IN  /\ es[i].type = "message_start" <=> i = 1
            /\ es[i].type # "message_stop"
            /\ es[i].type = "finish" => starts = stops
            /\ es[i].index # 0 => es[i].index = starts
            /\ starts - stops =
                  (IF es[i].index # 0 /\ es[i].type # "block_stop" THEN 1 ELSE 0)

\* What Append adds, and what it leaves.
LEMMA TextGrows ==
    ASSUME NEW es, IsText(es), NEW e
    PROVE  /\ IsText(Append(es, e)) /\ Append(es, e) # <<>>
           /\ Len(es) \in Nat /\ Len(Append(es, e)) = Len(es) + 1
           /\ \A i \in 1 .. Len(es) : Append(es, e)[i] = es[i]
           /\ Append(es, e)[Len(es) + 1] = e
<1> DEFINE E == Range(es) \cup {e}
<1>1. es \in Seq(E) /\ e \in E
  BY SeqMonotonic DEF IsText
<1>2. Append(es, e) \in Seq(E)
  BY <1>1, AppendProperties
<1>3. IsText(Append(es, e))
  <2> HIDE DEF E
  <2>1. QED
    BY <1>2, SeqOfRange DEF IsText
<1>4. QED
  <2> HIDE DEF E
  <2>1. QED
    BY <1>1, <1>3, AppendProperties, LenProperties

\* Counts are numbers.
LEMMA CountIsNumber ==
    ASSUME NEW es, NEW i \in Nat, NEW type
    PROVE  Count(es, i, type) \in Nat
<1> DEFINE S == {j \in 1 .. i : es[j].type = type}
<1>1. IsFiniteSet(1 .. i) /\ S \in SUBSET (1 .. i)
  BY FS_Interval
<1> HIDE DEF S
<1>2. Cardinality(S) \in Nat
  BY <1>1, FS_Subset, FS_CardinalityType
<1>3. QED
  BY <1>2 DEF Count, S

\* An event that is added changes no count before it, and its own type's by one.
LEMMA CountStays ==
    ASSUME NEW es, IsText(es), NEW e, NEW type, NEW i \in 1 .. Len(es)
    PROVE  Count(Append(es, e), i, type) = Count(es, i, type)
<1> DEFINE fs == Append(es, e)
<1>1. Len(es) \in Nat /\ \A j \in 1 .. Len(es) : fs[j] = es[j]
  BY TextGrows
<1> HIDE DEF fs
<1>2. {j \in 1 .. i : fs[j].type = type} = {j \in 1 .. i : es[j].type = type}
  BY <1>1
<1>3. QED
  BY <1>2 DEF Count, fs

\* One more event adds one to the count of its type.
LEMMA CountGrows ==
    ASSUME NEW es, IsText(es), NEW e, NEW type
    PROVE  Count(Append(es, e), Len(es) + 1, type) =
               Count(es, Len(es), type) + (IF e.type = type THEN 1 ELSE 0)
<1> DEFINE fs == Append(es, e)
           L == Len(es)
           S == {j \in 1 .. L : es[j].type = type}
           T == {j \in 1 .. L + 1 : fs[j].type = type}
<1>1. /\ L \in Nat
      /\ \A i \in 1 .. L : fs[i] = es[i]
      /\ fs[L + 1] = e
  BY TextGrows
<1>2. /\ IsFiniteSet(S) /\ L + 1 \notin S
  <2>1. IsFiniteSet(1 .. L) /\ S \in SUBSET (1 .. L) /\ L + 1 \notin S
    BY <1>1, FS_Interval
  <2> HIDE DEF S
  <2>2. QED
    BY <2>1, FS_Subset
<1> HIDE DEF fs, L
<1>3. T = IF e.type = type THEN S \cup {L + 1} ELSE S
  BY <1>1
<1> HIDE DEF S, T
<1>4. Cardinality(S) \in Nat /\ Cardinality(S \cup {L + 1}) = Cardinality(S) + 1
  BY <1>2, FS_CardinalityType, FS_AddElement
<1>5. Cardinality(T) = Cardinality(S) + (IF e.type = type THEN 1 ELSE 0)
  <2>1. CASE e.type = type
    BY <1>3, <1>4, <2>1
  <2>2. CASE e.type # type
    BY <1>3, <1>4, <2>2
  <2>3. QED
    BY <2>1, <2>2
<1>6. Count(fs, L + 1, type) = Cardinality(T) /\ Count(es, L, type) = Cardinality(S)
  BY DEF Count, S, T
<1>7. QED
  BY <1>5, <1>6 DEF fs, L

\* One more event.
LEMMA Grows ==
    ASSUME NEW es, NEW n, NEW open, Nested(es, n, open), NEW e,
           NEW n2, n2 = n + (IF e.type = "block_start" THEN 1 ELSE 0),
           NEW open2 \in {0, 1},
           open2 = (n2 - n) + open - (IF e.type = "block_stop" THEN 1 ELSE 0),
           e.type \notin {"message_start", "message_stop"},
           e.type = "finish" => open2 = 0,
           e.index # 0 => e.index = n2,
           open2 = IF e.index # 0 /\ e.type # "block_stop" THEN 1 ELSE 0
    PROVE  Nested(Append(es, e), n2, open2)
<1> DEFINE fs == Append(es, e)
           L == Len(es)
           stops == Count(es, L, "block_stop")
<1>1. /\ IsText(fs) /\ fs # <<>>
      /\ L \in Nat \ {0} /\ Len(fs) = L + 1
      /\ \A i \in 1 .. L : fs[i] = es[i]
      /\ fs[L + 1] = e
  <2>1. IsText(es) /\ es # <<>>
    BY DEF Nested
  <2>2. L # 0
    BY <2>1, EmptySeq DEF IsText
  <2>3. QED
    BY <2>1, <2>2, TextGrows
<1>2. ASSUME NEW i \in 1 .. L, NEW type
      PROVE  Count(fs, i, type) = Count(es, i, type)
  BY CountStays DEF Nested
<1>3. /\ n \in Nat /\ stops \in Nat
      /\ n = Count(es, L, "block_start") /\ n - stops = open
  BY <1>1, CountIsNumber DEF Nested
<1>4. /\ Count(fs, L + 1, "block_start") = n + (IF e.type = "block_start" THEN 1 ELSE 0)
      /\ Count(fs, L + 1, "block_stop") = stops + (IF e.type = "block_stop" THEN 1 ELSE 0)
  BY <1>3, CountGrows DEF Nested
<1> HIDE DEF fs, L, stops
<1>5. /\ n2 = Count(fs, L + 1, "block_start")
      /\ n2 - Count(fs, L + 1, "block_stop") = open2
  BY <1>3, <1>4 DEF Nested
<1>6. ASSUME NEW i \in 1 .. (L + 1)
      PROVE  /\ fs[i].type = "message_start" <=> i = 1
             /\ fs[i].type # "message_stop"
             /\ fs[i].type = "finish" =>
                    Count(fs, i, "block_start") = Count(fs, i, "block_stop")
             /\ fs[i].index # 0 => fs[i].index = Count(fs, i, "block_start")
             /\ Count(fs, i, "block_start") - Count(fs, i, "block_stop") =
                  (IF fs[i].index # 0 /\ fs[i].type # "block_stop" THEN 1 ELSE 0)
  <2>1. CASE i = L + 1
    <3>1. /\ fs[i] = e /\ i # 1
          /\ Count(fs, i, "block_start") = n2
          /\ n2 - Count(fs, i, "block_stop") = open2
      BY <1>1, <1>5, <2>1
    <3>2. Count(fs, i, "block_stop") \in Nat /\ n2 \in Nat
      BY <1>1, <3>1, CountIsNumber
    <3>3. e.type = "finish" => n2 = Count(fs, i, "block_stop")
      BY <3>1, <3>2
    <3>4. QED
      BY <3>1, <3>3
  <2>2. CASE i # L + 1
    <3>1. i \in 1 .. L
      BY <1>1, <2>2
    <3>2. /\ fs[i] = es[i]
          /\ Count(fs, i, "block_start") = Count(es, i, "block_start")
          /\ Count(fs, i, "block_stop") = Count(es, i, "block_stop")
      BY <1>1, <1>2, <3>1
    <3>3. QED
      BY <3>1, <3>2 DEF Nested, L
  <2>3. QED
    BY <2>1, <2>2
<1>7. QED
  BY <1>1, <1>5, <1>6 DEF Nested, fs

\* The block's index, and whether it is open.
LEMMA NestedNumbers ==
    ASSUME NEW es, NEW n, NEW open, Nested(es, n, open)
    PROVE  n \in Nat /\ open \in {0, 1} /\ (open = 1 => n # 0)
<1>1. Len(es) \in Nat
  BY LenProperties DEF Nested, IsText
<1> DEFINE stops == Count(es, Len(es), "block_stop")
<1>2. n \in Nat /\ stops \in Nat
  BY <1>1, CountIsNumber DEF Nested
<1>3. open \in {0, 1} /\ n - stops = open
  BY DEF Nested
<1> HIDE DEF stops
<1>4. QED
  BY <1>2, <1>3

\* A block begins, says something, ends; the message finishes.
LEMMA Begins ==
    ASSUME NEW es, NEW n, Nested(es, n, 0), NEW what
    PROVE  Nested(Append(es, Event("block_start", n + 1, what)), n + 1, 1)
<1> DEFINE e == Event("block_start", n + 1, what)
<1>1. e.type = "block_start" /\ e.index = n + 1 /\ n \in Nat
  BY NestedNumbers DEF Event
<1> HIDE DEF e
<1>2. /\ n + 1 = n + (IF e.type = "block_start" THEN 1 ELSE 0)
      /\ 1 = ((n + 1) - n) + 0 - (IF e.type = "block_stop" THEN 1 ELSE 0)
      /\ e.type \notin {"message_start", "message_stop", "finish"}
      /\ 1 = IF e.index # 0 /\ e.type # "block_stop" THEN 1 ELSE 0
  BY <1>1
<1>3. Nested(Append(es, e), n + 1, 1)
  BY <1>1, <1>2, Grows
<1>4. QED
  BY <1>3 DEF e

\* An open block may say something, ...
LEMMA Says ==
    ASSUME NEW es, NEW n, Nested(es, n, 1), NEW type \in {"text", "tool_call"}, NEW what
    PROVE  Nested(Append(es, Event(type, n, what)), n, 1)
<1> DEFINE e == Event(type, n, what)
<1>1. e.type \in {"text", "tool_call"} /\ e.index = n /\ n \in Nat /\ n # 0
  BY NestedNumbers DEF Event
<1> HIDE DEF e
<1>2. /\ n = n + (IF e.type = "block_start" THEN 1 ELSE 0)
      /\ 1 = (n - n) + 1 - (IF e.type = "block_stop" THEN 1 ELSE 0)
      /\ e.type \notin {"message_start", "message_stop", "finish"}
      /\ 1 = IF e.index # 0 /\ e.type # "block_stop" THEN 1 ELSE 0
  BY <1>1
<1>3. Nested(Append(es, e), n, 1)
  BY <1>1, <1>2, Grows
<1>4. QED
  BY <1>3 DEF e

\* ... and be closed, ...
LEMMA Ends ==
    ASSUME NEW es, NEW n, Nested(es, n, 1), NEW what
    PROVE  Nested(Append(es, Event("block_stop", n, what)), n, 0)
<1> DEFINE e == Event("block_stop", n, what)
<1>1. e.type = "block_stop" /\ e.index = n /\ n \in Nat
  BY NestedNumbers DEF Event
<1> HIDE DEF e
<1>2. /\ n = n + (IF e.type = "block_start" THEN 1 ELSE 0)
      /\ 0 = (n - n) + 1 - (IF e.type = "block_stop" THEN 1 ELSE 0)
      /\ e.type \notin {"message_start", "message_stop", "finish"}
      /\ 0 = IF e.index # 0 /\ e.type # "block_stop" THEN 1 ELSE 0
  BY <1>1
<1>3. Nested(Append(es, e), n, 0)
  BY <1>1, <1>2, Grows
<1>4. QED
  BY <1>3 DEF e

\* ... and the message be finished when none is open.
LEMMA Finishes ==
    ASSUME NEW es, NEW n, Nested(es, n, 0), NEW what
    PROVE  Nested(Append(es, Event("finish", 0, what)), n, 0)
<1> DEFINE e == Event("finish", 0, what)
<1>1. e.type = "finish" /\ e.index = 0 /\ n \in Nat
  BY NestedNumbers DEF Event
<1> HIDE DEF e
<1>2. /\ n = n + (IF e.type = "block_start" THEN 1 ELSE 0)
      /\ 0 = (n - n) + 0 - (IF e.type = "block_stop" THEN 1 ELSE 0)
      /\ e.type \notin {"message_start", "message_stop"}
      /\ 0 = IF e.index # 0 /\ e.type # "block_stop" THEN 1 ELSE 0
  BY <1>1
<1>3. Nested(Append(es, e), n, 0)
  BY <1>1, <1>2, Grows
<1>4. QED
  BY <1>3 DEF e

\* The first event.
LEMMA StartNests ==
    ASSUME NEW what
    PROVE  Nested(<<Event("message_start", 0, what)>>, 0, 0)
<1> DEFINE e == Event("message_start", 0, what)
           es == <<e>>
<1>1. e.type = "message_start" /\ e.index = 0
  BY DEF Event
<1> HIDE DEF e
<1>2. es \in Seq({e}) /\ es # <<>> /\ Len(es) = 1 /\ es[1] = e
  OBVIOUS
<1> HIDE DEF es
<1>3. IsText(es)
  BY <1>2, SeqOfRange DEF IsText
<1>4. ASSUME NEW type \in {"block_start", "block_stop"}
      PROVE  Count(es, 1, type) = 0
  <2>1. {j \in 1 .. 1 : es[j].type = type} = {}
    BY <1>1, <1>2
  <2>2. QED
    BY <2>1, FS_EmptySet DEF Count
<1>5. Count(es, 1, "block_start") = 0 /\ Count(es, 1, "block_stop") = 0
  BY <1>4
<1>6. \A i \in 1 .. 1 : i = 1
  OBVIOUS
<1>7. Nested(es, 0, 0)
  BY <1>1, <1>2, <1>3, <1>5, <1>6 DEF Nested
<1>8. QED
  BY <1>7 DEF e, es

-----------------------------------------------------------------------------
(* The Anthropic writer. *)

\* Two events are written one after the other, ...
LEMMA TwoMore ==
    ASSUME NEW s, IsText(s), NEW a, NEW b
    PROVE  s \o <<a, b>> = Append(Append(s, a), b)
<1> DEFINE E == Range(s) \cup {a, b}
           l == s \o <<a, b>>
           r == Append(Append(s, a), b)
<1>1. s \in Seq(E) /\ a \in E /\ b \in E /\ Len(s) \in Nat
  BY SeqMonotonic, LenProperties DEF IsText
<1> HIDE DEF E
<1>2. <<a, b>> \in Seq(E) /\ Len(<<a, b>>) = 2 /\ <<a, b>>[1] = a /\ <<a, b>>[2] = b
  BY <1>1
<1>3. /\ l \in Seq(E) /\ Len(l) = Len(s) + 2
      /\ \A i \in 1 .. Len(s) : l[i] = s[i]
      /\ l[Len(s) + 1] = a /\ l[Len(s) + 2] = b
  BY <1>1, <1>2, ConcatProperties
<1>4. /\ Append(s, a) \in Seq(E) /\ Len(Append(s, a)) = Len(s) + 1
      /\ \A i \in 1 .. Len(s) : Append(s, a)[i] = s[i]
      /\ Append(s, a)[Len(s) + 1] = a
  BY <1>1, AppendProperties
<1> DEFINE q == Append(s, a)
<1>5. /\ r \in Seq(E) /\ Len(r) = Len(s) + 2
      /\ \A i \in 1 .. Len(s) : r[i] = s[i]
      /\ r[Len(s) + 1] = a /\ r[Len(s) + 2] = b
  <2>1. /\ r \in Seq(E) /\ Len(r) = Len(q) + 1
        /\ \A i \in 1 .. Len(q) : r[i] = q[i]
        /\ r[Len(q) + 1] = b
    <3> HIDE DEF q
    <3>1. QED
      BY <1>1, <1>4, AppendProperties DEF q
  <2> HIDE DEF r
  <2>2. QED
    BY <1>1, <1>4, <2>1
<1> HIDE DEF l, r
<1>6. \A i \in 1 .. Len(s) + 2 : l[i] = r[i]
  <2>1. \A i \in 1 .. Len(s) + 2 : i \in 1 .. Len(s) \/ i = Len(s) + 1 \/ i = Len(s) + 2
    BY <1>1
  <2>2. QED
    BY <1>3, <1>5, <2>1
<1>7. l = r
  BY <1>3, <1>5, <1>6, SeqEqual
<1>8. QED
  BY <1>7 DEF l, r

\* ... and so are three.
LEMMA ThreeMore ==
    ASSUME NEW s, IsText(s), NEW a, NEW b, NEW c
    PROVE  s \o <<a, b, c>> = Append(Append(Append(s, a), b), c)
<1> DEFINE E == Range(s) \cup {a, b, c}
<1>1. s \in Seq(E) /\ a \in E /\ b \in E /\ c \in E
  BY SeqMonotonic DEF IsText
<1> HIDE DEF E
<1>2. <<a, b>> \in Seq(E) /\ <<c>> \in Seq(E) /\ <<a, b, c>> = <<a, b>> \o <<c>>
  BY <1>1
<1>3. s \o <<a, b, c>> = (s \o <<a, b>>) \o <<c>>
  BY <1>1, <1>2, ConcatAssociative
<1>4. s \o <<a, b>> \in Seq(E)
  BY <1>1, <1>2, ConcatProperties
<1>5. (s \o <<a, b>>) \o <<c>> = Append(s \o <<a, b>>, c)
  BY <1>1, <1>4, AppendIsConcat
<1>6. QED
  BY <1>3, <1>5, TwoMore

\* What a writer that has begun has written, what it takes for the open block, and the
\* index that it is going to use, fit together.
Good(w) ==
    /\ w = [events |-> w.events, block |-> w.block, nextIndex |-> w.nextIndex]
    /\ w.nextIndex \in Nat \ {0}
    /\ w.block \in {0, w.nextIndex - 1}
    /\ Nested(w.events, w.nextIndex - 1, IF w.block = 0 THEN 0 ELSE 1)

\* A writer that has written nothing.
Fresh(w) == w = [events |-> <<>>, block |-> 0, nextIndex |-> 1]

\* A writer whose events are nested, with the next index ready, is good.
LEMMA GoodIs ==
    ASSUME NEW es, NEW n \in Nat, NEW b \in {0, n}, Nested(es, n, IF b = 0 THEN 0 ELSE 1)
    PROVE  Good([events |-> es, block |-> b, nextIndex |-> n + 1])
<1> DEFINE w == [events |-> es, block |-> b, nextIndex |-> n + 1]
<1>1. w.events = es /\ w.block = b /\ w.nextIndex = n + 1 /\ (n + 1) - 1 = n
  OBVIOUS
<1>2. w.nextIndex \in Nat \ {0} /\ w.block \in {0, w.nextIndex - 1}
  BY <1>1
<1>3. QED
  BY <1>1, <1>2 DEF Good

\* emitAnthropicMessageStart leaves a good writer, ...
LEMMA StartedOK ==
    ASSUME NEW w, Fresh(w) \/ Good(w)
    PROVE  Good(Started(w))
<1> DEFINE e == Event("message_start", 0, <<>>)
<1>1. CASE Fresh(w)
  <2>1. Started(w) = [events |-> <<e>>, block |-> 0, nextIndex |-> 0 + 1]
    BY <1>1 DEF Fresh, Started
  <2>2. Nested(<<e>>, 0, 0)
    BY StartNests
  <2> HIDE DEF e
  <2>3. QED
    BY <2>1, <2>2, GoodIs
<1>2. CASE Good(w)
  BY <1>2 DEF Started, Good, Nested
<1>3. QED
  BY <1>1, <1>2

\* ... and so does closeAnthropicActiveBlock, with no block open, ...
LEMMA ClosedOK ==
    ASSUME NEW w, Good(w)
    PROVE  Good(BlockClosed(w)) /\ BlockClosed(w).block = 0
<1>1. CASE w.block = 0
  BY <1>1 DEF BlockClosed
<1>2. CASE w.block # 0
  <2> DEFINE n == w.nextIndex - 1
             es == Append(w.events, Event("block_stop", n, <<>>))
  <2>1. w.block = n /\ n \in Nat /\ w.nextIndex = n + 1 /\ Nested(w.events, n, 1)
    BY <1>2 DEF Good
  <2>2. Nested(es, n, 0)
    BY <2>1, Ends
  <2>3. BlockClosed(w) = [events |-> es, block |-> 0, nextIndex |-> n + 1]
    BY <1>2, <2>1 DEF BlockClosed, Good
  <2> HIDE DEF n, es
  <2>4. Good([events |-> es, block |-> 0, nextIndex |-> n + 1])
    BY <2>1, <2>2, GoodIs
  <2>5. QED
    BY <2>3, <2>4
<1>3. QED
  BY <1>1, <1>2

\* ... emitAnthropicTextDelta, ...
LEMMA TextOK ==
    ASSUME NEW w, Good(w), NEW content
    PROVE  Good(WithText(w, content))
<1> DEFINE n == w.nextIndex - 1
<1>1. n \in Nat /\ w.nextIndex = n + 1 /\ IsText(w.events)
  BY DEF Good, Nested
<1>2. CASE content = <<>> \/ At(content, 1, Marker)
  BY <1>2 DEF WithText
<1>3. CASE ~(content = <<>> \/ At(content, 1, Marker)) /\ w.block # 0
  <2> DEFINE es == Append(w.events, Event("text", n, content))
  <2>1. w.block = n /\ Nested(w.events, n, 1)
    BY <1>3 DEF Good
  <2>2. Nested(es, n, 1)
    BY <2>1, Says
  <2>3. WithText(w, content) = [events |-> es, block |-> n, nextIndex |-> n + 1]
    BY <1>1, <1>3, <2>1 DEF WithText, Good
  <2>4. n # 0
    BY <1>3, <2>1
  <2> HIDE DEF n, es
  <2>5. QED
    BY <1>1, <2>2, <2>3, <2>4, GoodIs
<1>4. CASE ~(content = <<>> \/ At(content, 1, Marker)) /\ w.block = 0
  <2> DEFINE a == Event("block_start", n + 1, <<>>)
             b == Event("text", n + 1, content)
             es == Append(Append(w.events, a), b)
  <2>1. Nested(w.events, n, 0)
    BY <1>4 DEF Good
  <2>2. Nested(Append(w.events, a), n + 1, 1)
    BY <2>1, Begins
  <2>3. Nested(es, n + 1, 1)
    BY <2>2, Says
  <2>4. w.events \o <<a, b>> = es
    BY <1>1, TwoMore
  <2>5. WithText(w, content) = [events |-> w.events \o <<a, b>>, block |-> n + 1,
                                nextIndex |-> (n + 1) + 1]
    BY <1>1, <1>4 DEF WithText
  <2> DEFINE m == n + 1
  <2>6. m \in Nat /\ m # 0
    BY <1>1
  <2> HIDE DEF n, es
  <2>7. WithText(w, content) = [events |-> es, block |-> m, nextIndex |-> m + 1]
    BY <2>4, <2>5
  <2>8. Nested(es, m, 1)
    BY <2>3
  <2> HIDE DEF m
  <2>9. QED
    BY <2>6, <2>7, <2>8, GoodIs
<1>5. QED
  BY <1>2, <1>3, <1>4

\* ... emitAnthropicToolUse, ...
LEMMA CallOK ==
    ASSUME NEW w, Good(w), NEW call
    PROVE  Good(WithCall(w, call))
<1> DEFINE c == BlockClosed(w)
           n == c.nextIndex - 1
           x == Event("block_start", n + 1, <<>>)
           y == Event("tool_call", n + 1, <<call>>)
           z == Event("block_stop", n + 1, <<>>)
           es == Append(Append(Append(c.events, x), y), z)
<1>1. Good(c) /\ c.block = 0
  BY ClosedOK
<1>2. WithCall(w, call) = [events |-> c.events \o ToolUse(c.nextIndex, call),
                           block |-> c.block, nextIndex |-> c.nextIndex + 1]
  BY DEF WithCall
<1> HIDE DEF c
<1>3. /\ n \in Nat /\ c.nextIndex = n + 1 /\ IsText(c.events)
      /\ Nested(c.events, n, 0)
      /\ c = [events |-> c.events, block |-> 0, nextIndex |-> n + 1]
  BY <1>1 DEF Good, Nested
<1> HIDE DEF n
<1>4. Nested(Append(c.events, x), n + 1, 1)
  BY <1>3, Begins
<1>5. Nested(Append(Append(c.events, x), y), n + 1, 1)
  BY <1>4, Says
<1>6. Nested(es, n + 1, 0)
  BY <1>5, Ends
<1>7. c.events \o ToolUse(n + 1, call) = es
  BY <1>3, ThreeMore DEF ToolUse
<1>8. WithCall(w, call) = [events |-> c.events \o ToolUse(n + 1, call), block |-> 0,
                           nextIndex |-> (n + 1) + 1]
  BY <1>1, <1>2, <1>3
<1> DEFINE m == n + 1
<1>9. m \in Nat /\ Nested(es, m, 0)
  BY <1>3, <1>6
<1> HIDE DEF es
<1>10. WithCall(w, call) = [events |-> es, block |-> 0, nextIndex |-> m + 1]
  BY <1>7, <1>8
<1> HIDE DEF m
<1>11. QED
  BY <1>9, <1>10, GoodIs

\* The writers after each of the calls.
LEMMA CallsFollow ==
    ASSUME NEW w, NEW calls, Len(calls) \in Nat
    PROVE  \E after : /\ \A n \in 0 .. Len(calls) :
                            after[n] = IF n = 0 THEN w ELSE WithCall(after[n - 1], calls[n])
                      /\ WithCalls(w, calls) = after[Len(calls)]
<1> DEFINE L == Len(calls)
           Follows(f) == f = [n \in 0 .. L |-> IF n = 0 THEN w
                                               ELSE WithCall(f[n - 1], calls[n])]
           Upto(m, f) == \A i \in 0 .. m :
                             f[i] = IF i = 0 THEN w ELSE WithCall(f[i - 1], calls[i])
           T == {m \in Nat : \E f : Upto(m, f)}
<1>1. 0 \in T
  <2>1. Upto(0, [i \in 0 .. 0 |-> w])
    OBVIOUS
  <2>2. QED
    BY <2>1
<1>2. ASSUME NEW m \in Nat, m \in T
      PROVE  m + 1 \in T
  <2>1. PICK f : Upto(m, f)
    BY <1>2
  <2> DEFINE g == [i \in 0 .. m + 1 |-> IF i = m + 1 THEN WithCall(f[m], calls[m + 1])
                                        ELSE f[i]]
  <2>2. ASSUME NEW i \in 0 .. m + 1
        PROVE  g[i] = IF i = 0 THEN w ELSE WithCall(g[i - 1], calls[i])
    <3>1. CASE i = m + 1
      <4>1. i # 0 /\ i - 1 = m /\ m \in 0 .. m + 1 /\ m # m + 1
        BY <3>1
      <4>2. g[i] = WithCall(f[m], calls[i]) /\ g[i - 1] = f[m]
        BY <3>1, <4>1
      <4>3. QED
        BY <4>1, <4>2
    <3>2. CASE i # m + 1
      <4>1. i \in 0 .. m /\ (i # 0 => i - 1 \in 0 .. m + 1 /\ i - 1 # m + 1)
        BY <3>2
      <4>2. g[i] = f[i] /\ (i # 0 => g[i - 1] = f[i - 1])
        BY <3>2, <4>1
      <4>3. QED
        BY <2>1, <4>1, <4>2
    <3>3. QED
      BY <3>1, <3>2
  <2>3. Upto(m + 1, g)
    BY <2>2
  <2> HIDE DEF g, Upto
  <2>4. QED
    BY <2>3
<1>3. L \in T
  <2> HIDE DEF T
  <2>1. QED
    BY <1>1, <1>2, Induction
<1>4. PICK f : Upto(L, f)
  BY <1>3
<1> DEFINE h == [n \in 0 .. L |-> f[n]]
<1>5. ASSUME NEW n \in 0 .. L
      PROVE  h[n] = IF n = 0 THEN w ELSE WithCall(h[n - 1], calls[n])
  <2>1. n # 0 => n - 1 \in 0 .. L
    OBVIOUS
  <2>2. h[n] = f[n] /\ (n # 0 => h[n - 1] = f[n - 1])
    BY <2>1
  <2>3. QED
    BY <1>4, <2>2
<1>6. Follows(h)
  BY <1>5
<1>7. WithCalls(w, calls) = (CHOOSE g : Follows(g))[L]
  BY DEF WithCalls
<1> DEFINE after == CHOOSE g : Follows(g)
<1>8. Follows(after)
  <2> HIDE DEF Follows
  <2>1. QED
    BY <1>6
<1> HIDE DEF after
<1>9. \A n \in 0 .. L : after[n] = IF n = 0 THEN w ELSE WithCall(after[n - 1], calls[n])
  BY <1>8
<1>10. QED
  BY <1>7, <1>9 DEF after

\* ... and the loop over the calls of a chunk, by induction over the calls.
LEMMA CallsOK ==
    ASSUME NEW w, Good(w), NEW calls, Len(calls) \in Nat
    PROVE  Good(WithCalls(w, calls))
<1> DEFINE L == Len(calls)
<1>1. PICK after : /\ \A n \in 0 .. L : after[n] = IF n = 0 THEN w ELSE WithCall(after[n - 1], calls[n])
                   /\ WithCalls(w, calls) = after[L]
  BY CallsFollow
<1>2. \A n \in 0 .. L : after[n] = IF n = 0 THEN w ELSE WithCall(after[n - 1], calls[n])
  BY <1>1
<1> DEFINE G == {n \in Nat : n <= L => Good(after[n])}
<1>3. 0 \in G
  BY <1>2
<1>4. ASSUME NEW n \in Nat, n \in G
       PROVE  n + 1 \in G
  <2> SUFFICES ASSUME n + 1 <= L PROVE Good(after[n + 1])
    OBVIOUS
  <2>1. Good(after[n]) /\ n + 1 \in 0 .. L /\ n + 1 # 0 /\ (n + 1) - 1 = n
    BY <1>4
  <2>2. after[n + 1] = WithCall(after[n], calls[n + 1])
    BY <1>2, <2>1
  <2>3. QED
    BY <2>1, <2>2, CallOK
<1>5. L \in G
  <2> HIDE DEF G
  <2>1. QED
    BY <1>3, <1>4, Induction
<1>6. Good(after[L])
  BY <1>5
<1>7. QED
  BY <1>1, <1>6

-----------------------------------------------------------------------------
(* The inductive invariant. *)

\* An Anthropic writer is good as long as the message is not over; then nothing is
\* written any more.
IInv ==
    /\ TypeOK
    /\ StreamOK(stream)
    /\ nextIndex \in Nat \ {0}
    /\ api = "anthropic" /\ ~ended => Fresh(Writer) \/ Good(Writer)
    /\ BlocksNest

\* What BlocksNest says of the events es of a message that is over or not.
Nests(es, over) ==
    \A i \in 1 .. Len(es) :
        /\ es[i].type = "message_start" <=> i = 1
        /\ es[i].type = "message_stop" <=> (over /\ i = Len(es))
        /\ es[i].type = "finish" => Count(es, i, "block_start") = Count(es, i, "block_stop")
        /\ es[i].index # 0 => es[i].index = Count(es, i, "block_start")
        /\ Count(es, i, "block_start") - Count(es, i, "block_stop") =
              (IF es[i].index # 0 /\ es[i].type # "block_stop" THEN 1 ELSE 0)

\* BlocksNest is about the events and the end only.
LEMMA BlocksNestIs == BlocksNest <=> (api = "anthropic" => Nests(events, ended))
BY DEF BlocksNest, Nests, Count

\* Nested events are as BlocksNest wants them before the end, ...
LEMMA OpenNests ==
    ASSUME NEW es, NEW n, NEW open, Nested(es, n, open)
    PROVE  Nests(es, FALSE)
BY DEF Nested, Nests

\* ... and with message_stop behind them at the end.
LEMMA OverNests ==
    ASSUME NEW es, NEW n, Nested(es, n, 0)
    PROVE  Nests(Append(es, Event("message_stop", 0, <<>>)), TRUE)
<1> DEFINE e == Event("message_stop", 0, <<>>)
           fs == Append(es, e)
           L == Len(es)
<1>1. e.type = "message_stop" /\ e.index = 0
  BY DEF Event
<1> HIDE DEF e
<1>2. IsText(es) /\ es # <<>>
  BY DEF Nested
<1>3. /\ L \in Nat \ {0} /\ Len(fs) = L + 1
      /\ \A i \in 1 .. L : fs[i] = es[i]
      /\ fs[L + 1] = e
  <2>1. L # 0
    BY <1>2, EmptySeq DEF IsText
  <2>2. QED
    BY <1>2, <2>1, TextGrows
<1>4. ASSUME NEW i \in 1 .. L, NEW type
      PROVE  Count(fs, i, type) = Count(es, i, type)
  BY <1>2, CountStays
<1>5. ASSUME NEW type
      PROVE  Count(fs, L + 1, type) = Count(es, L, type) + (IF e.type = type THEN 1 ELSE 0)
  BY <1>2, CountGrows
<1>6. \A type : Count(es, L, type) \in Nat
  BY <1>3, CountIsNumber
<1>7. /\ Count(fs, L + 1, "block_start") = Count(es, L, "block_start")
      /\ Count(fs, L + 1, "block_stop") = Count(es, L, "block_stop")
  BY <1>1, <1>5, <1>6
<1>8. Count(es, L, "block_start") - Count(es, L, "block_stop") = 0
  BY DEF Nested
<1> HIDE DEF fs, L
<1>9. ASSUME NEW i \in 1 .. (L + 1)
      PROVE  /\ fs[i].type = "message_start" <=> i = 1
             /\ fs[i].type = "message_stop" <=> i = L + 1
             /\ fs[i].type = "finish" =>
                    Count(fs, i, "block_start") = Count(fs, i, "block_stop")
             /\ fs[i].index # 0 => fs[i].index = Count(fs, i, "block_start")
             /\ Count(fs, i, "block_start") - Count(fs, i, "block_stop") =
                  (IF fs[i].index # 0 /\ fs[i].type # "block_stop" THEN 1 ELSE 0)
  <2>1. CASE i = L + 1
    <3>1. fs[i] = e /\ i # 1
      BY <1>3, <2>1
    <3>2. Count(fs, i, "block_start") - Count(fs, i, "block_stop") = 0
      BY <1>7, <1>8, <2>1
    <3>3. QED
      BY <1>1, <2>1, <3>1, <3>2
  <2>2. CASE i # L + 1
    <3>1. i \in 1 .. L
      BY <1>3, <2>2
    <3>2. /\ fs[i] = es[i]
          /\ Count(fs, i, "block_start") = Count(es, i, "block_start")
          /\ Count(fs, i, "block_stop") = Count(es, i, "block_stop")
      BY <1>3, <1>4, <3>1
    <3>3. QED
      BY <2>2, <3>1, <3>2 DEF Nested, L
  <2>3. QED
    BY <2>1, <2>2
<1>10. Nests(fs, TRUE)
  BY <1>3, <1>9 DEF Nests
<1>11. QED
  BY <1>10 DEF fs, e

-----------------------------------------------------------------------------
(* The steps. *)

\* The invariant holds at the start, ...
LEMMA InitInv == Init => IInv
<1> SUFFICES ASSUME Init PROVE IInv
  OBVIOUS
<1>1. answer \in Seq(Pieces) /\ Len(answer) \in Nat
  BY AnswersAreTexts, LenProperties DEF Init
<1>2. StreamOK(stream)
  BY NewIsOK DEF Init
<1>3. TypeOK
  <2>1. sent \in 0 .. Len(answer) /\ block \in 0 .. (nextIndex - 1)
    BY <1>1 DEF Init
  <2>2. QED
    BY <1>2, <2>1 DEF TypeOK, Init, StreamOK
<1>4. Fresh(Writer)
  BY DEF Init, Fresh, Writer
<1>5. Nests(events, ended)
  <2>1. Len(events) = 0
    BY EmptySeq DEF Init
  <2>2. QED
    BY <2>1 DEF Nests
<1>6. QED
  BY <1>2, <1>3, <1>4, <1>5, BlocksNestIs DEF IInv, Init

\* What a good writer has written keeps the invariant while the message goes on.
LEMMA GoodWritten ==
    ASSUME NEW w, Good(w), Written(w), ~ended'
    PROVE  /\ nextIndex' \in Nat \ {0}
           /\ block' \in 0 .. (nextIndex' - 1)
           /\ Good(Writer)'
           /\ BlocksNest'
<1>1. events' = w.events /\ block' = w.block /\ nextIndex' = w.nextIndex
  BY DEF Written
<1>2. nextIndex' \in Nat \ {0} /\ block' \in 0 .. (nextIndex' - 1)
  BY <1>1 DEF Good
<1>3. Good(Writer)'
  BY <1>1 DEF Good, Writer
<1>4. Nests(w.events, FALSE)
  BY OpenNests DEF Good
<1>5. Nests(events', ended')
  BY <1>1, <1>4 DEF Nests
<1>6. BlocksNest'
  BY <1>5 DEF BlocksNest, Nests, Count
<1>7. QED
  BY <1>2, <1>3, <1>6

\* ... a delta written by handleAnthropicStream keeps it, ...
LEMMA AnthropicStep ==
    ASSUME IInv, api = "anthropic", ~ended, ~ended', NEW chunk \in Seq(Pieces),
           AnthropicDelta(chunk)
    PROVE  /\ StreamOK(stream')
           /\ nextIndex' \in Nat \ {0}
           /\ block' \in 0 .. (nextIndex' - 1)
           /\ Good(Writer)'
           /\ BlocksNest'
<1> DEFINE r == ProcessStreamChunk(stream, chunk)
           s == Started(Writer)
           t == WithText(s, RemoveMarkup(r.content))
           w == WithCalls(t, r.calls)
<1>1. stream' = r.state /\ Written(w)
  BY DEF AnthropicDelta
<1>2. StreamOK(r.state) /\ Len(r.calls) \in Nat
  BY ChunkOK, TextLength DEF IInv
<1>3. Good(s)
  BY StartedOK DEF IInv
<1> HIDE DEF r, s
<1>4. Good(t)
  BY <1>3, TextOK
<1> HIDE DEF t
<1>5. Good(w)
  BY <1>2, <1>4, CallsOK
<1> HIDE DEF w
<1>6. QED
  BY <1>1, <1>2, <1>5, GoodWritten

\* ... one written by handleStream touches the parser only, ...
LEMMA OpenAIStep ==
    ASSUME IInv, NEW chunk \in Seq(Pieces), OpenAIDelta(chunk)
    PROVE  StreamOK(stream') /\ UNCHANGED <<block, nextIndex>>
<1>1. /\ UNCHANGED <<block, nextIndex>>
      /\ stream' = (IF withTools THEN ProcessStreamChunk(stream, chunk)
                    ELSE Result(stream, chunk, <<>>)).state
  BY DEF OpenAIDelta
<1>2. Result(stream, chunk, <<>>).state = stream
  BY DEF Result
<1>3. StreamOK(stream) /\ StreamOK(ProcessStreamChunk(stream, chunk).state)
  BY ChunkOK DEF IInv
<1>4. QED
  BY <1>1, <1>2, <1>3

\* ... a chunk is a text and does not go past the answer, ...
LEMMA ChunkIsText ==
    ASSUME TypeOK, NEW n \in 1 .. (Len(answer) - sent)
    PROVE  /\ SubSeq(answer, sent + 1, sent + n) \in Seq(Pieces)
           /\ sent + n \in 0 .. Len(answer)
<1>1. answer \in Seq(Pieces) /\ Len(answer) \in Nat /\ sent \in 0 .. Len(answer)
  BY AnswersAreTexts, LenProperties DEF TypeOK
<1>2. sent + 1 \in Nat \ {0} /\ sent + n \in Nat /\ sent + n <= Len(answer)
  BY <1>1
<1>3. QED
  BY <1>1, <1>2, Cut

\* A delta, of the answer or beside it, keeps the invariant, with what it leaves of the
\* other variables.
LEMMA DeltaStep ==
    ASSUME IInv, ~ended, UNCHANGED <<api, withTools, answer, ended>>,
           NEW chunk \in Seq(Pieces),
           sent' \in 0 .. Len(answer), odd' \subseteq {Thought, Nil},
           \/ api = "openai" /\ StreamOK(stream') /\ UNCHANGED <<block, nextIndex>>
           \/ api = "anthropic" /\ AnthropicDelta(chunk)
    PROVE  IInv'
<1>1. CASE api = "openai" /\ StreamOK(stream') /\ UNCHANGED <<block, nextIndex>>
  <2>1. StreamOK(stream)' /\ (nextIndex \in Nat \ {0})' /\ BlocksNest'
    BY <1>1 DEF IInv, BlocksNest, StreamOK
  <2>2. TypeOK'
    BY <1>1 DEF IInv, TypeOK, StreamOK
  <2>3. QED
    BY <1>1, <2>1, <2>2 DEF IInv
<1>2. CASE api = "anthropic" /\ AnthropicDelta(chunk)
  <2>1. /\ StreamOK(stream')
        /\ nextIndex' \in Nat \ {0}
        /\ block' \in 0 .. (nextIndex' - 1)
        /\ Good(Writer)'
        /\ BlocksNest'
    BY <1>2, AnthropicStep
  <2>2. TypeOK'
    BY <2>1 DEF IInv, TypeOK, StreamOK
  <2>3. StreamOK(stream)'
    BY <2>1 DEF StreamOK
  <2>4. QED
    BY <2>1, <2>2, <2>3 DEF IInv
<1>3. QED
  BY <1>1, <1>2

\* ... the end keeps it, ...
LEMMA FinishStep ==
    ASSUME IInv, Finish
    PROVE  IInv'
<1>1. /\ ~ended /\ ended' = TRUE
      /\ UNCHANGED <<api, withTools, answer, sent, odd, stream>>
      /\ \/ api = "openai" /\ OpenAIFinish
         \/ api = "anthropic" /\ AnthropicFinish
  BY DEF Finish, OpenAIFinish, AnthropicFinish
<1>2. StreamOK(stream)'
  BY <1>1 DEF IInv, StreamOK
<1>3. CASE api = "openai" /\ OpenAIFinish
  <2>1. UNCHANGED <<block, nextIndex>>
    BY <1>3 DEF OpenAIFinish
  <2>2. TypeOK'
    BY <1>1, <2>1 DEF IInv, TypeOK
  <2>3. BlocksNest'
    BY <1>1, <1>3 DEF BlocksNest
  <2>4. QED
    BY <1>1, <1>2, <2>1, <2>2, <2>3 DEF IInv
<1>4. CASE api = "anthropic" /\ AnthropicFinish
  <2> DEFINE r == FinalizeStream(stream)
             s == Started(Writer)
             t == WithText(s, RemoveMarkup(r.content))
             u == WithCalls(t, r.calls)
             w == BlockClosed(u)
  <2>1. PICK reason :
            Written([w EXCEPT !.events = @ \o <<Event("finish", 0, reason),
                                                Event("message_stop", 0, <<>>)>>])
    BY <1>4 DEF AnthropicFinish
  <2>2. Len(r.calls) \in Nat
    BY FinalizeCounted, TextLength DEF IInv
  <2>3. Good(s)
    BY <1>1, <1>4, StartedOK DEF IInv
  <2> HIDE DEF r, s
  <2>4. Good(t)
    BY <2>3, TextOK
  <2> HIDE DEF t
  <2>5. Good(u)
    BY <2>2, <2>4, CallsOK
  <2> HIDE DEF u
  <2>6. Good(w) /\ w.block = 0
    BY <2>5, ClosedOK
  <2> HIDE DEF w
  <2> DEFINE a == Event("finish", 0, reason)
             b == Event("message_stop", 0, <<>>)
             n == w.nextIndex - 1
  <2>7. /\ Nested(w.events, n, 0) /\ IsText(w.events)
        /\ w.nextIndex \in Nat \ {0}
        /\ w = [events |-> w.events, block |-> w.block, nextIndex |-> w.nextIndex]
    BY <2>6 DEF Good, Nested
  <2>8. /\ events' = w.events \o <<a, b>>
        /\ block' = 0 /\ nextIndex' = w.nextIndex
    <3> HIDE DEF a, b
    <3>1. QED
      BY <2>1, <2>6, <2>7 DEF Written, a, b
  <2>9. Nested(Append(w.events, a), n, 0)
    BY <2>7, Finishes
  <2>10. Nests(Append(Append(w.events, a), b), TRUE)
    BY <2>9, OverNests
  <2>11. Nests(events', ended')
    <3> HIDE DEF a, b
    <3>1. events' = Append(Append(w.events, a), b)
      BY <2>7, <2>8, TwoMore
    <3>2. QED
      BY <1>1, <2>10, <3>1
  <2>12. BlocksNest'
    BY <2>11 DEF BlocksNest, Nests, Count
  <2>13. TypeOK'
    BY <1>1, <2>7, <2>8 DEF IInv, TypeOK
  <2>14. QED
    BY <1>1, <1>2, <2>7, <2>8, <2>12, <2>13 DEF IInv
<1>5. QED
  BY <1>1, <1>3, <1>4

\* ... and so does every step.
LEMMA NextInv == IInv /\ [Next]_vars => IInv'
<1> SUFFICES ASSUME IInv, [Next]_vars PROVE IInv'
  OBVIOUS
<1>1. ASSUME NEW n \in 1 .. (Len(answer) - sent), Delta(n)
      PROVE  IInv'
  <2> DEFINE chunk == SubSeq(answer, sent + 1, sent + n)
  <2>1. /\ ~ended /\ sent' = sent + n
        /\ UNCHANGED <<api, withTools, answer, odd, ended>>
        /\ \/ api = "openai" /\ OpenAIDelta(chunk)
           \/ api = "anthropic" /\ AnthropicDelta(chunk)
    BY <1>1 DEF Delta
  <2>2. chunk \in Seq(Pieces) /\ sent' \in 0 .. Len(answer)
    BY <2>1, ChunkIsText DEF IInv
  <2>3. odd' \subseteq {Thought, Nil}
    BY <2>1 DEF IInv, TypeOK
  <2> HIDE DEF chunk
  <2>4. \/ api = "openai" /\ StreamOK(stream') /\ UNCHANGED <<block, nextIndex>>
        \/ api = "anthropic" /\ AnthropicDelta(chunk)
    BY <2>1, <2>2, OpenAIStep
  <2>5. QED
    BY <2>1, <2>2, <2>3, <2>4, DeltaStep
<1>2. ASSUME NEW piece \in {Thought, Nil}, Odd(piece)
      PROVE  IInv'
  <2> DEFINE chunk == <<piece>>
  <2>1. /\ ~ended /\ odd' = odd \cup {piece}
        /\ UNCHANGED <<api, withTools, answer, sent, ended>>
        /\ \/ api = "openai" /\ OpenAIOdd(piece)
           \/ api = "anthropic" /\ AnthropicDelta(chunk)
    BY <1>2 DEF Odd
  <2>2. chunk \in Seq(Pieces)
    BY DEF Pieces
  <2>3. sent' \in 0 .. Len(answer) /\ odd' \subseteq {Thought, Nil}
    BY <2>1 DEF IInv, TypeOK
  <2> HIDE DEF chunk
  <2>4. \/ api = "openai" /\ StreamOK(stream') /\ UNCHANGED <<block, nextIndex>>
        \/ api = "anthropic" /\ AnthropicDelta(chunk)
    BY <2>1 DEF OpenAIOdd, IInv
  <2>5. QED
    BY <2>1, <2>2, <2>3, <2>4, DeltaStep
<1>3. CASE Finish
  BY <1>3, FinishStep
<1>4. CASE UNCHANGED vars
  BY <1>4 DEF vars, IInv, TypeOK, StreamOK, Fresh, Good, Writer, BlocksNest
<1>5. QED
  BY <1>1, <1>2, <1>3, <1>4 DEF Next

\* In every behaviour ProcessStreamChunk holds back no more than it must, and what
\* handleAnthropicStream wrote is nested.
THEOREM InvHolds == Spec => []IInv
BY InitInv, NextInv, PTL DEF Spec

\* Every variable has its type, whatever the answer and wherever it is cut: the parser of
\* ProcessStreamChunk holds back nothing but the beginning of a marker, and captures
\* nothing that does not begin with one.
THEOREM TypeOKHolds == Spec => []TypeOK
<1>1. IInv => TypeOK
  BY DEF IInv
<1>2. QED
  BY <1>1, InvHolds, PTL

\* The Anthropic message starts first and stops last, and its blocks are opened and closed
\* in order, one at a time, through emitAnthropicTextDelta, emitAnthropicToolUse and
\* closeAnthropicActiveBlock, however many calls a chunk completes.
THEOREM BlocksNestHolds == Spec => []BlocksNest
<1>1. IInv => BlocksNest
  BY DEF IInv
<1>2. QED
  BY <1>1, InvHolds, PTL

-----------------------------------------------------------------------------
(* Which calls a text has. *)

\* A call that is closed, at i.
ClosedAt(t, i) ==
    /\ i + 1 <= Len(t)
    /\ t[i] \in Calls
    /\ t[i + 1] = "</ml_tool_call>"

\* Where no call is closed ParseCalls finds none.
LEMMA NothingClosed ==
    ASSUME NEW P, NEW t \in Seq(P), \A i \in 1 .. Len(t) : ~ClosedAt(t, i)
    PROVE  ParseCalls(t) = <<>>
<1> DEFINE close == <<"</ml_tool_call>">>
           found == IF Wrapped(t) # {} THEN Wrapped(t) ELSE Closed(t)
           S == {i \in found : \A j \in found : j < i => t[j] # t[i]}
<1>1. Len(t) \in Nat /\ DOMAIN t = 1 .. Len(t)
  BY LenProperties
<1>2. close \in Seq({"</ml_tool_call>"}) /\ Len(close) = 1 /\ close[1] = "</ml_tool_call>"
  OBVIOUS
<1> HIDE DEF close
<1>3. ASSUME NEW i \in 1 .. Len(t), At(t, i + 1, close)
      PROVE  i + 1 <= Len(t) /\ t[i + 1] = "</ml_tool_call>"
  <2>1. i + 1 \in 1 .. Len(t) + 1
    BY <1>1
  <2>2. /\ (i + 1) + Len(close) <= Len(t) + 1
        /\ \A j \in 1 .. Len(close) : t[(i + 1) + j - 1] = close[j]
    BY <1>2, <1>3, <2>1, AtIs
  <2>3. i + 1 <= Len(t)
    BY <1>1, <1>2, <2>2
  <2>4. 1 \in 1 .. Len(close) /\ (i + 1) + 1 - 1 = i + 1
    BY <1>1, <1>2
  <2>5. t[(i + 1) + 1 - 1] = close[1]
    BY <2>2, <2>4
  <2>6. QED
    BY <1>2, <2>3, <2>4, <2>5
<1>4. Closed(t) = {}
  BY <1>1, <1>3 DEF Closed, ClosedAt, close
<1>5. S = {}
  BY <1>4 DEF Wrapped
<1>6. Cardinality(S) = 0
  BY <1>5, FS_EmptySet
<1>7. ParseCalls(t) = Kept(t, S)
  BY DEF ParseCalls
<1> HIDE DEF S
<1>8. Kept(t, S) = [n \in {} |-> t[n]]
  <2>1. 1 .. Cardinality(S) = {}
    BY <1>6
  <2>2. QED
    BY <2>1 DEF Kept
<1>9. Kept(t, S) \in Seq({}) /\ Len(Kept(t, S)) = 0
  <2>1. [n \in {} |-> t[n]] \in [1 .. 0 -> {}]
    OBVIOUS
  <2>2. [n \in {} |-> t[n]] \in Seq({})
    BY <2>1, SeqDef
  <2> HIDE DEF S
  <2>3. DOMAIN [n \in {} |-> t[n]] = 1 .. 0
    OBVIOUS
  <2>4. QED
    BY <1>8, <2>2, <2>3, LenProperties
<1>10. QED
  BY <1>7, <1>9, EmptySeq

\* Two tool blocks are one too many.
LEMMA OneOf ==
    ASSUME NEW S, IsFiniteSet(S), Cardinality(S) <= 1, NEW a \in S, NEW b \in S
    PROVE  a = b
<1> SUFFICES ASSUME a # b PROVE FALSE
  OBVIOUS
<1>1. IsFiniteSet({a}) /\ Cardinality({a}) = 1
  BY FS_Singleton
<1>2. Cardinality({a} \cup {b}) = 2
  BY <1>1, FS_AddElement
<1>3. {a} \cup {b} \subseteq S
  OBVIOUS
<1>4. Cardinality({a} \cup {b}) <= Cardinality(S)
  BY <1>3, FS_Subset
<1>5. Cardinality(S) \in Nat
  BY FS_CardinalityType
<1>6. QED
  BY <1>2, <1>4, <1>5

\* Tool blocks can be counted.
LEMMA BlocksAreFew ==
    ASSUME NEW P, NEW t \in Seq(P)
    PROVE  IsFiniteSet(ToolBlocks(t))
<1>1. ToolBlocks(t) \subseteq 1 .. Len(t) /\ Len(t) \in Nat
  BY LenProperties DEF ToolBlocks, firstMarker
<1>2. IsFiniteSet(1 .. Len(t))
  BY <1>1, FS_Interval
<1>3. QED
  BY <1>1, <1>2, FS_Subset

\* The calls of a text with one tool block are in its wrapper, if it has one, ...
LEMMA CallsAreWrapped ==
    ASSUME NEW P, NEW t \in Seq(P), Cardinality(ToolBlocks(t)) <= 1,
           NEW o \in 1 .. Len(t), At(t, o, Marker),
           NEW c \in 1 .. Len(t), t[c] \in Calls
    PROVE  o < c /\ \A j \in o .. c : t[j] # "</ml_tool_calls>"
<1>1. Len(t) \in Nat /\ DOMAIN t = 1 .. Len(t)
  BY LenProperties
<1>2. ASSUME NEW n \in 1 .. Len(t), At(t, n, Marker)
      PROVE  n = o /\ n # c
  <2>1. t[n] = "<" /\ t[o] = "<"
    BY <1>2, MarkerAt
  <2>2. "<" \notin Calls
    BY CallsAssumption
  <2>3. n \in ToolBlocks(t) /\ o \in ToolBlocks(t)
    BY <1>1, <1>2, <2>1, <2>2 DEF ToolBlocks, firstMarker
  <2>4. QED
    BY <2>1, <2>2, <2>3, BlocksAreFew, OneOf
<1>3. ASSUME NEW n \in 1 .. c, At(t, n, Open)
      PROVE  n = o /\ n # c
  <2>1. n \in 1 .. Len(t)
    BY <1>1
  <2>2. At(t, n, Marker)
    <3>1. /\ n + 2 <= Len(t)
          /\ t[n] = "<"
          /\ t[n + 1] = "ml_tool_calls"
          /\ t[n + 2] = ">"
      BY <1>3, <2>1, OpenAt
    <3>2. n + 1 <= Len(t)
      BY <1>1, <3>1
    <3>3. QED
      BY <2>1, <3>1, <3>2, MarkerAt
  <2>3. QED
    BY <1>2, <2>1, <2>2
<1>4. c \notin ToolBlocks(t)
  <2>1. t[o] = "<" /\ "<" \notin Calls
    BY MarkerAt, CallsAssumption
  <2>2. o \in ToolBlocks(t) /\ o # c
    BY <1>1, <2>1 DEF ToolBlocks, firstMarker
  <2>3. QED
    BY <2>2, BlocksAreFew, OneOf
<1>5. PICK n \in 1 .. c : At(t, n, Open) /\ ~\E e \in n .. c : t[e] = "</ml_tool_calls>"
  BY <1>1, <1>4 DEF ToolBlocks, firstMarker
<1>6. n = o /\ n # c
  BY <1>3, <1>5
<1>7. QED
  BY <1>1, <1>5, <1>6

\* ... and one bare call, if it has none.
LEMMA CallIsAlone ==
    ASSUME NEW P, NEW t \in Seq(P), Cardinality(ToolBlocks(t)) <= 1,
           \A o \in 1 .. Len(t) : ~At(t, o, Marker),
           NEW c \in 1 .. Len(t), t[c] \in Calls,
           NEW d \in 1 .. Len(t), t[d] \in Calls
    PROVE  c = d
<1>1. Len(t) \in Nat /\ DOMAIN t = 1 .. Len(t)
  BY LenProperties
<1>2. ASSUME NEW n \in 1 .. Len(t) PROVE ~At(t, n, Open)
  <2> SUFFICES ASSUME At(t, n, Open) PROVE FALSE
    OBVIOUS
  <2>1. /\ n + 2 <= Len(t)
        /\ t[n] = "<"
        /\ t[n + 1] = "ml_tool_calls"
        /\ t[n + 2] = ">"
    BY OpenAt
  <2>2. n + 1 <= Len(t)
    BY <1>1, <2>1
  <2>3. At(t, n, Marker)
    BY <2>1, <2>2, MarkerAt
  <2>4. QED
    BY <2>3
<1>3. \A n \in 1 .. c \cup 1 .. d : n \in 1 .. Len(t)
  BY <1>1
<1>4. c \in ToolBlocks(t) /\ d \in ToolBlocks(t)
  <2>1. c \in firstMarker(t) /\ d \in firstMarker(t)
    BY <1>1 DEF firstMarker
  <2>2. (\A n \in 1 .. c : ~At(t, n, Open)) /\ (\A n \in 1 .. d : ~At(t, n, Open))
    BY <1>2, <1>3
  <2>3. QED
    BY <2>1, <2>2 DEF ToolBlocks
<1>5. QED
  BY <1>4, BlocksAreFew, OneOf

-----------------------------------------------------------------------------
(* What the parser has left behind, when it is at q in the text t: all calls, or all    *)
(* closing tags, or nothing that belongs to a wrapper.                                  *)

Spent(t, q) == \A c \in 1 .. Len(t) : t[c] \in Calls => c <= q

Barren(t, q) == \A c \in 1 .. Len(t) : t[c] \in Closing => c <= q

Ahead(t, q) == \A o \in 1 .. Len(t) : At(t, o, Marker) => q < o

OneTool(t) == Cardinality(ToolBlocks(t)) <= 1 /\ Complete(t)

\* No call is closed in a part of the text behind q.
LEMMA PartIsEmpty ==
    ASSUME NEW P, NEW t \in Seq(P), NEW q \in Nat, Spent(t, q) \/ Barren(t, q),
           NEW u \in Seq(P), NEW k \in Nat, q <= k, k + Len(u) <= Len(t),
           \A i \in 1 .. Len(u) : u[i] = t[k + i]
    PROVE  ParseCalls(u) = <<>>
<1>1. Len(t) \in Nat /\ Len(u) \in Nat
  BY LenProperties
<1>2. ASSUME NEW i \in 1 .. Len(u), ClosedAt(u, i)
      PROVE  FALSE
  <2>1. i + 1 \in 1 .. Len(u) /\ u[i] \in Calls /\ u[i + 1] \in Closing
    BY <1>1, <1>2 DEF ClosedAt, Closing
  <2>2. /\ k + i \in 1 .. Len(t) /\ t[k + i] \in Calls
        /\ k + (i + 1) \in 1 .. Len(t) /\ t[k + (i + 1)] \in Closing
    BY <1>1, <2>1
  <2>3. ~(k + i <= q) /\ ~(k + (i + 1) <= q)
    BY <1>1
  <2>4. QED
    BY <2>2, <2>3 DEF Spent, Barren
<1>3. QED
  BY <1>2, NothingClosed

\* Of a text whose calls are all spent, or that is barren, the rest has no call.
LEMMA NothingLeft ==
    ASSUME NEW P, NEW t \in Seq(P), NEW m \in 0 .. Len(t), NEW q \in 0 .. m,
           Spent(t, q) \/ Barren(t, q)
    PROVE  /\ ParseCalls(SubSeq(t, q + 1, m)) = <<>>
           /\ tryConsumeCapture(SubSeq(t, q + 1, m)).calls = <<>>
<1> DEFINE h == SubSeq(t, q + 1, m)
<1>1. /\ h \in Seq(P)
      /\ Len(h) = m - q
      /\ \A i \in 1 .. (m - q) : h[i] = t[q + i]
  BY CutOfCut
<1>2. Len(t) \in Nat /\ m \in Nat /\ q \in Nat /\ q <= m /\ m <= Len(t)
  BY LenProperties
<1> HIDE DEF h
<1>3. ParseCalls(h) = <<>>
  <2>1. q + Len(h) <= Len(t) /\ \A i \in 1 .. Len(h) : h[i] = t[q + i]
    BY <1>1, <1>2
  <2>2. QED
    BY <1>1, <1>2, <2>1, PartIsEmpty
<1>4. tryConsumeCapture(h).calls = <<>>
  <2> DEFINE wrappers == {i \in DOMAIN h : At(h, i, Marker)}
             opens == IF wrappers # {} THEN wrappers ELSE firstMarker(h)
             close == IF wrappers # {} THEN "</ml_tool_calls>" ELSE "</ml_tool_call>"
             closes == {i \in DOMAIN h : h[i] = close /\ \E o \in opens : o < i}
             a == Min(opens)
             b == Max(closes)
  <2>1. CASE closes = {}
    BY <2>1 DEF tryConsumeCapture
  <2>2. CASE closes # {}
    <3>1. DOMAIN h = 1 .. Len(h) /\ Len(h) \in Nat
      BY <1>1, LenProperties
    <3>2. opens \in SUBSET (1 .. Len(h)) /\ closes \in SUBSET (1 .. Len(h)) /\ opens # {}
      BY <2>2, <3>1 DEF firstMarker
    <3>3. tryConsumeCapture(h).calls = ParseCalls(SubSeq(h, a, b))
      BY <2>2 DEF tryConsumeCapture
    <3> HIDE DEF opens, closes
    <3>4. a \in 1 .. Len(h) /\ b \in 1 .. Len(h)
      BY <2>2, <3>1, <3>2, FirstAndLast
    <3> HIDE DEF a, b
    <3> DEFINE u == SubSeq(h, a, b)
               k == q + (a - 1)
    <3>5. /\ u \in Seq(P)
          /\ Len(u) = IF a <= b THEN b - a + 1 ELSE 0
          /\ \A i \in 1 .. (b - a + 1) : u[i] = h[a + i - 1]
      BY <1>1, <3>1, <3>4, Cut
    <3> HIDE DEF u
    <3>6. /\ Len(u) \in Nat /\ Len(u) <= Len(h) - (a - 1)
          /\ Len(u) > 0 => Len(u) = b - a + 1
      BY <3>1, <3>4, <3>5
    <3>7. k \in Nat /\ q <= k /\ k + Len(u) <= Len(t)
      BY <1>1, <1>2, <3>1, <3>4, <3>6
    <3>8. ASSUME NEW i \in 1 .. Len(u)
          PROVE  u[i] = t[k + i]
      <4>1. i \in 1 .. (b - a + 1)
        BY <3>6
      <4>2. a + i - 1 \in 1 .. (m - q) /\ q + (a + i - 1) = k + i
        BY <1>1, <1>2, <3>1, <3>4, <3>6
      <4>3. QED
        BY <1>1, <3>5, <4>1, <4>2
    <3> HIDE DEF k
    <3>9. ParseCalls(u) = <<>>
      BY <1>2, <3>5, <3>7, <3>8, PartIsEmpty
    <3>10. QED
      BY <3>3, <3>9 DEF u
  <2>3. QED
    BY <2>1, <2>2
<1>5. QED
  BY <1>3, <1>4 DEF h

\* Where a part of a text has a marker, the text has it.
LEMMA MarkerInPart ==
    ASSUME NEW P, NEW t \in Seq(P), NEW m \in 0 .. Len(t), NEW q \in 0 .. m,
           NEW i \in 1 .. m - q
    PROVE  At(SubSeq(t, q + 1, m), i, Marker) <=> q + i < m /\ At(t, q + i, Marker)
<1> DEFINE h == SubSeq(t, q + 1, m)
<1>1. /\ h \in Seq(P)
      /\ Len(h) = m - q
      /\ \A j \in 1 .. (m - q) : h[j] = t[q + j]
  BY CutOfCut
<1>2. Len(t) \in Nat /\ m \in Nat /\ q \in Nat /\ q <= m /\ m <= Len(t)
  BY LenProperties
<1> HIDE DEF h
<1>3. q + i \in 1 .. Len(t) /\ i \in 1 .. Len(h) /\ q + (i + 1) = (q + i) + 1
  BY <1>1, <1>2
<1>4. At(h, i, Marker) <=> i + 1 <= Len(h) /\ h[i] = "<" /\ h[i + 1] = "ml_tool_calls"
  BY <1>1, <1>3, MarkerAt
<1>5. At(t, q + i, Marker) <=> /\ (q + i) + 1 <= Len(t)
                               /\ t[q + i] = "<"
                               /\ t[(q + i) + 1] = "ml_tool_calls"
  BY <1>3, MarkerAt
<1>6. i + 1 <= Len(h) <=> q + i < m
  BY <1>1, <1>2
<1>7. q + i < m => (q + i) + 1 <= Len(t)
  BY <1>2
<1>8. q + i < m => h[i] = t[q + i] /\ h[i + 1] = t[(q + i) + 1]
  <2> SUFFICES ASSUME q + i < m PROVE h[i] = t[q + i] /\ h[i + 1] = t[(q + i) + 1]
    OBVIOUS
  <2>1. i + 1 \in 1 .. (m - q)
    BY <1>2
  <2>2. QED
    BY <1>1, <1>3, <2>1
<1>9. QED
  BY <1>4, <1>5, <1>6, <1>7, <1>8 DEF h

\* A capture that is complete is the tool block: no call comes behind it.
LEMMA CaptureSpends ==
    ASSUME NEW P, NEW t \in Seq(P), NEW m \in 0 .. Len(t), NEW q \in 0 .. m,
           OneTool(t), Ahead(t, q), tryConsumeCapture(SubSeq(t, q + 1, m)).ready
    PROVE  Spent(t, m)
<1> DEFINE h == SubSeq(t, q + 1, m)
           wrappers == {i \in DOMAIN h : At(h, i, Marker)}
           opens == IF wrappers # {} THEN wrappers ELSE firstMarker(h)
           close == IF wrappers # {} THEN "</ml_tool_calls>" ELSE "</ml_tool_call>"
           closes == {i \in DOMAIN h : h[i] = close /\ \E o \in opens : o < i}
<1>1. /\ h \in Seq(P)
      /\ Len(h) = m - q
      /\ \A i \in 1 .. (m - q) : h[i] = t[q + i]
  BY CutOfCut
<1>2. Len(t) \in Nat /\ m \in Nat /\ q \in Nat /\ q <= m /\ m <= Len(t)
  BY LenProperties
<1>3. closes # {}
  BY DEF tryConsumeCapture
<1>4. \A i \in 1 .. (m - q) : At(h, i, Marker) <=> q + i < m /\ At(t, q + i, Marker)
  BY MarkerInPart
<1> HIDE DEF h
<1>5. DOMAIN h = 1 .. (m - q)
  BY <1>1, LenProperties
<1>6. PICK e \in 1 .. (m - q) : h[e] = close /\ \E o \in opens : o < e
  BY <1>3, <1>5
<1>7. q + e \in 1 .. Len(t) /\ q + e <= m /\ t[q + e] = close
  BY <1>1, <1>2, <1>6
<1> SUFFICES ASSUME NEW c \in 1 .. Len(t), t[c] \in Calls
             PROVE  c <= m
  BY DEF Spent
<1>8. CASE wrappers # {}
  <2>1. PICK o \in wrappers : o < e
    BY <1>6, <1>8
  <2>2. o \in 1 .. (m - q) /\ At(t, q + o, Marker) /\ q + o \in 1 .. Len(t)
    BY <1>2, <1>4, <1>5
  <2>3. q + o < c /\ \A j \in (q + o) .. c : t[j] # "</ml_tool_calls>"
    BY <2>2, CallsAreWrapped DEF OneTool
  <2>4. q + e \notin (q + o) .. c
    BY <1>7, <1>8, <2>3
  <2>5. QED
    BY <1>2, <1>7, <2>1, <2>2, <2>4
<1>9. CASE wrappers = {}
  <2>1. t[q + e] = "</ml_tool_call>"
    BY <1>7, <1>9
  <2> DEFINE d == q + e - 1
  <2>2. DOMAIN t = 1 .. Len(t)
    BY LenProperties
  <2>3. q + e > 1 /\ t[d] \in Calls
    BY <1>7, <2>1, <2>2 DEF OneTool, Complete
  <2>4. d \in 1 .. Len(t) /\ d < m
    BY <1>2, <1>7, <2>3
  <2> HIDE DEF d
  <2>5. ASSUME NEW o \in 1 .. Len(t), At(t, o, Marker)
        PROVE  FALSE
    <3>1. q < o /\ o < d
      BY <2>3, <2>4, <2>5, CallsAreWrapped DEF Ahead, OneTool
    <3>2. o - q \in 1 .. (m - q) /\ q + (o - q) = o /\ o < m
      BY <1>2, <2>4, <3>1
    <3>3. o - q \in wrappers
      BY <1>4, <1>5, <2>5, <3>2
    <3>4. QED
      BY <1>9, <3>3
  <2>6. c = d
    BY <2>3, <2>4, <2>5, CallIsAlone DEF OneTool
  <2>7. QED
    BY <1>2, <2>4, <2>6
<1>10. QED
  BY <1>8, <1>9

\* A capture that is given up began a wrapper in which no tag is closed.
LEMMA FallbackIsBarren ==
    ASSUME NEW P, NEW t \in Seq(P), NEW m \in 0 .. Len(t), NEW q \in 0 .. m,
           OneTool(t), shouldFallbackMalformedCapture(SubSeq(t, q + 1, m))
    PROVE  Barren(t, m)
<1> DEFINE h == SubSeq(t, q + 1, m)
<1>1. /\ h \in Seq(P)
      /\ Len(h) = m - q
      /\ \A i \in 1 .. (m - q) : h[i] = t[q + i]
  BY CutOfCut
<1>2. /\ Len(t) \in Nat /\ m \in Nat /\ q \in Nat /\ q <= m /\ m <= Len(t)
      /\ DOMAIN t = 1 .. Len(t)
  BY LenProperties
<1>3. /\ At(h, 1, Open) /\ Len(h) > 3
      /\ h[4] \notin {"<"} \cup Calls \cup Closing
  BY DEF shouldFallbackMalformedCapture
<1> HIDE DEF h
<1>4. /\ {1, 1 + 1, 1 + 2, 4} \subseteq 1 .. (m - q)
      /\ 1 \in 1 .. Len(h)
      /\ q + (1 + 1) = (q + 1) + 1 /\ q + (1 + 2) = (q + 1) + 2 /\ q + 4 = (q + 1) + 3
      /\ q + 1 \in 1 .. Len(t) /\ (q + 1) + 2 <= Len(t) /\ q + 1 <= m
  BY <1>1, <1>2, <1>3
<1>5. h[1] = "<" /\ h[1 + 1] = "ml_tool_calls" /\ h[1 + 2] = ">"
  BY <1>1, <1>3, <1>4, OpenAt
<1>6. /\ t[q + 1] = "<" /\ t[(q + 1) + 1] = "ml_tool_calls" /\ t[(q + 1) + 2] = ">"
      /\ t[(q + 1) + 3] \notin Calls
  <2>1. h[1] = t[q + 1] /\ h[1 + 1] = t[q + (1 + 1)] /\ h[1 + 2] = t[q + (1 + 2)]
        /\ h[4] = t[q + 4]
    BY <1>1, <1>4
  <2>2. QED
    BY <1>3, <1>4, <1>5, <2>1
<1>7. At(t, q + 1, Open)
  BY <1>4, <1>6, OpenAt
<1>8. ASSUME NEW i \in 1 .. Len(t), t[i] \in Closing
      PROVE  i <= m
  <2>1. ~(q + 1 < i)
    BY <1>2, <1>4, <1>6, <1>7, <1>8 DEF OneTool, Complete
  <2>2. QED
    BY <1>2, <1>4, <2>1
<1>9. QED
  BY <1>8 DEF Barren

-----------------------------------------------------------------------------
(* What the parser holds of a text. *)

\* One of the two is empty.
Held(s) == s.captureBuff \o s.pending

\* No call is left behind q.
Past(t, q) == Spent(t, q) \/ Barren(t, q)

\* The parser went on from q to n with the result r: it found no call if all was past, and
\* all is past if it found one.
Went(t, q, n, m, r) ==
    /\ Held(r.state) = SubSeq(t, n + 1, m)
    /\ Past(t, q) => r.calls = <<>> /\ Past(t, n)
    /\ Past(t, n) \/ (r.calls = <<>> /\ Ahead(t, n))

\* Two parts that meet are one part.
LEMMA Joined ==
    ASSUME NEW P, NEW t \in Seq(P), NEW m \in 0 .. Len(t), NEW k \in 0 .. m, NEW q \in 0 .. k
    PROVE  SubSeq(t, q + 1, k) \o SubSeq(t, k + 1, m) = SubSeq(t, q + 1, m)
<1> DEFINE a == SubSeq(t, q + 1, k)
           b == SubSeq(t, k + 1, m)
           h == SubSeq(t, q + 1, m)
<1>1. /\ Len(t) \in Nat /\ m \in Nat /\ k \in Nat /\ q \in Nat
      /\ q <= k /\ k <= m /\ m <= Len(t)
      /\ k \in 0 .. Len(t) /\ q \in 0 .. m
  BY LenProperties
<1>2. /\ a \in Seq(P) /\ Len(a) = k - q
      /\ \A i \in 1 .. (k - q) : a[i] = t[q + i]
  BY <1>1, CutOfCut
<1>3. /\ b \in Seq(P) /\ Len(b) = m - k
      /\ \A i \in 1 .. (m - k) : b[i] = t[k + i]
  BY <1>1, CutOfCut
<1>4. /\ h \in Seq(P) /\ Len(h) = m - q
      /\ \A i \in 1 .. (m - q) : h[i] = t[q + i]
  BY <1>1, CutOfCut
<1> HIDE DEF a, b, h
<1>5. /\ a \o b \in Seq(P)
      /\ Len(a \o b) = Len(a) + Len(b)
      /\ \A i \in 1 .. (Len(a) + Len(b)) :
            (a \o b)[i] = IF i <= Len(a) THEN a[i] ELSE b[i - Len(a)]
  BY <1>2, <1>3, ConcatProperties
<1>6. Len(a \o b) = Len(h)
  BY <1>1, <1>2, <1>3, <1>4, <1>5
<1>7. ASSUME NEW i \in 1 .. Len(h)
      PROVE  (a \o b)[i] = h[i]
  <2>1. i \in 1 .. (m - q) /\ i \in 1 .. (Len(a) + Len(b))
    BY <1>1, <1>2, <1>3, <1>4
  <2>2. CASE i <= k - q
    <3>1. i \in 1 .. (k - q)
      BY <2>2
    <3>2. QED
      BY <1>2, <1>4, <1>5, <2>1, <2>2, <3>1
  <2>3. CASE ~(i <= k - q)
    <3>1. i - (k - q) \in 1 .. (m - k) /\ k + (i - (k - q)) = q + i
      BY <1>1, <2>1, <2>3
    <3>2. (a \o b)[i] = b[i - (k - q)]
      BY <1>2, <1>5, <2>1, <2>3
    <3>3. QED
      BY <1>3, <1>4, <2>1, <3>1, <3>2
  <2>4. QED
    BY <2>2, <2>3
<1>8. a \o b = h
  BY <1>4, <1>5, <1>6, <1>7, SeqEqual
<1>9. QED
  BY <1>8 DEF a, b, h

\* What the parser holds when it is new, captures, or holds something back.
LEMMA HeldIs ==
    ASSUME NEW P, NEW t \in Seq(P)
    PROVE  /\ Held(NewStreamState) = <<>>
           /\ Held(Capture(t)) = t
           /\ Held([NewStreamState EXCEPT !.pending = t]) = t
<1>1. <<>> \in Seq(P) /\ <<>> \o <<>> = <<>> /\ t \o <<>> = t /\ <<>> \o t = t
  BY EmptySeq, ConcatEmptySeq
<1>2. QED
  BY <1>1 DEF Held, NewStreamState, Capture

\* All of a text that the parser leaves behind at once.
LEMMA NothingBehind ==
    ASSUME NEW P, NEW t \in Seq(P), NEW m \in 0 .. Len(t)
    PROVE  SubSeq(t, m + 1, m) = <<>>
<1>1. m \in 0 .. m /\ m \in Nat
  BY LenProperties
<1>2. Len(SubSeq(t, m + 1, m)) = m - m /\ SubSeq(t, m + 1, m) \in Seq(P)
  BY <1>1, CutOfCut
<1>3. QED
  BY <1>1, <1>2, EmptySeq

\* The parser goes on, and what is spent stays so.
LEMMA StaysDue ==
    ASSUME NEW t, NEW q \in Nat, NEW q2 \in Nat, q <= q2, Len(t) \in Nat
    PROVE  Past(t, q) => Past(t, q2)
BY DEF Past, Spent, Barren

\* A text that continues a capture.
LEMMA CapturedGoesOn ==
    ASSUME NEW P, NEW t \in Seq(P), NEW m \in 0 .. Len(t), NEW q \in 0 .. m,
           OneTool(t), Past(t, q) \/ Ahead(t, q),
           NEW r, r = Captured(SubSeq(t, q + 1, m))
    PROVE  \E n \in q .. m : Went(t, q, n, m, r)
<1> DEFINE h == SubSeq(t, q + 1, m)
           got == tryConsumeCapture(h)
<1>1. Len(t) \in Nat /\ m \in Nat /\ q \in Nat /\ q <= m
  BY LenProperties
<1>2. h \in Seq(P)
  BY CutOfCut
<1>3. Past(t, q) => got.calls = <<>>
  BY NothingLeft DEF Past
<1>4. Held(NewStreamState) = SubSeq(t, m + 1, m) /\ Held(Capture(h)) = h
  <2>1. Held(NewStreamState) = <<>> /\ Held(Capture(h)) = h
    <3> HIDE DEF h
    <3>1. QED
      BY <1>2, HeldIs
  <2>2. QED
    BY <2>1, NothingBehind
<1>5. Past(t, q) => Past(t, m)
  BY <1>1, StaysDue
<1>6. m \in q .. m /\ q \in q .. m
  BY <1>1
<1>7. CASE got.ready
  <2>1. r = Result(NewStreamState, got.content, got.calls)
    BY <1>7 DEF Captured
  <2>2. Past(t, m)
    BY <1>5, <1>7, CaptureSpends DEF Past
  <2>3. r.calls = got.calls /\ r.state = NewStreamState
    BY <2>1 DEF Result
  <2>4. Held(r.state) = Held(NewStreamState)
    BY <2>3
  <2> HIDE DEF got
  <2>5. Went(t, q, m, m, r)
    BY <1>3, <1>4, <2>2, <2>3, <2>4 DEF Went
  <2>6. QED
    BY <1>6, <2>5
<1>8. CASE ~got.ready /\ shouldFallbackMalformedCapture(h)
  <2>1. r.calls = <<>> /\ r.state = NewStreamState
    BY <1>8 DEF Captured, Result
  <2>2. Past(t, m)
    BY <1>8, FallbackIsBarren DEF Past
  <2>3. Held(r.state) = Held(NewStreamState)
    BY <2>1
  <2>4. Went(t, q, m, m, r)
    BY <1>4, <2>1, <2>2, <2>3 DEF Went
  <2>5. QED
    BY <1>6, <2>4
<1>9. CASE ~got.ready /\ ~shouldFallbackMalformedCapture(h)
  <2>1. r.calls = <<>> /\ r.state = Capture(h)
    BY <1>9 DEF Captured, Result
  <2>2. Held(r.state) = h
    BY <1>4, <2>1
  <2>3. Went(t, q, q, m, r)
    BY <2>1, <2>2 DEF Went
  <2>4. QED
    BY <1>6, <2>3
<1>10. QED
  BY <1>7, <1>8, <1>9

\* A text in which the parser looks for a marker: it holds back what begins with one.
LEMMA ScannedIs ==
    ASSUME NEW P, NEW t \in Seq(P), NEW m \in 0 .. Len(t), NEW q \in 0 .. m,
           NEW r, r = Scanned(SubSeq(t, q + 1, m))
    PROVE  \E n \in q .. m : /\ Held(r.state) = SubSeq(t, n + 1, m)
                             /\ r.content = SubSeq(t, q + 1, n)
                             /\ r.calls = <<>>
                             /\ \A i \in q + 1 .. n : t[i] \notin Calls /\ ~At(t, i, Marker)
<1> DEFINE h == SubSeq(t, q + 1, m)
           at == firstMarker(h)
           safe == Len(h) - heldBack(h)
<1>1. Len(t) \in Nat /\ m \in Nat /\ q \in Nat /\ q <= m /\ m <= Len(t)
  BY LenProperties
<1>2. /\ h \in Seq(P)
      /\ Len(h) = m - q
      /\ \A i \in 1 .. (m - q) : h[i] = t[q + i]
      /\ \A a \in 1 .. (m - q) + 1 : SubSeq(h, a, Len(h)) = SubSeq(t, q + a, m)
  BY CutOfCut
<1>3. \A i \in 1 .. (m - q) : At(h, i, Marker) <=> q + i < m /\ At(t, q + i, Marker)
  BY MarkerInPart
<1>4. r = Scanned(h)
  OBVIOUS
<1>5. ASSUME NEW x \in 0 .. m - q PROVE SubSeq(h, 1, x) = SubSeq(t, q + 1, q + x)
  <2> DEFINE v == SubSeq(h, 1, x)
             w == SubSeq(t, q + 1, q + x)
             z == q + x
  <2>1. z \in 0 .. Len(t) /\ q \in 0 .. z /\ z - q = x /\ x \in 0 .. m - q
    BY <1>1
  <2>2. w \in Seq(P) /\ Len(w) = x /\ \A i \in 1 .. x : w[i] = t[q + i]
    <3> HIDE DEF z
    <3>1. LET y == SubSeq(t, q + 1, z)
          IN  y \in Seq(P) /\ Len(y) = z - q /\ \A i \in 1 .. (z - q) : y[i] = t[q + i]
      BY <2>1, CutOfCut
    <3>2. QED
      BY <2>1, <3>1 DEF z
  <2>3. v \in Seq(P) /\ Len(v) = x /\ \A i \in 1 .. x : v[i] = t[q + i]
    <3> HIDE DEF h
    <3>1. 1 \in Nat \ {0} /\ x \in Nat /\ x <= Len(h)
      BY <1>1, <1>2
    <3>2. /\ v \in Seq(P)
          /\ Len(v) = IF 1 <= x THEN x - 1 + 1 ELSE 0
          /\ \A i \in 1 .. (x - 1 + 1) : v[i] = h[1 + i - 1]
      BY <1>2, <3>1, Cut
    <3> HIDE DEF v
    <3>3. Len(v) = x
      BY <3>1, <3>2
    <3>4. ASSUME NEW i \in 1 .. x PROVE v[i] = t[q + i]
      <4>1. i \in 1 .. (x - 1 + 1) /\ 1 + i - 1 = i /\ i \in 1 .. (m - q)
        BY <1>1, <3>1
      <4>2. QED
        BY <1>2, <3>2, <4>1
    <3>5. QED
      BY <3>2, <3>3, <3>4
  <2> HIDE DEF v, w
  <2>4. v = w
    BY <2>2, <2>3, SeqEqual
  <2>5. QED
    BY <2>4 DEF v, w
<1> HIDE DEF h
<1>6. Len(h) \in Nat /\ DOMAIN h = 1 .. (m - q)
  BY <1>1, <1>2, LenProperties
<1>7. CASE at # {}
  <2> DEFINE a == Min(at)
             x == a - 1
             n == q + x
  <2>1. at \in SUBSET (1 .. (m - q)) /\ m - q \in Nat
    BY <1>1, <1>6 DEF firstMarker
  <2>2. a \in at /\ \A i \in at : a <= i
    <3> HIDE DEF at
    <3>1. QED
      BY <1>7, <2>1, FirstAndLast
  <2>3. r = Result(Capture(SubSeq(h, a, Len(h))), SubSeq(h, 1, x), <<>>)
    BY <1>4, <1>7 DEF Scanned
  <2> HIDE DEF a
  <2>4. /\ a \in 1 .. (m - q) /\ a \in 1 .. (m - q) + 1 /\ x \in 0 .. m - q
        /\ n \in q .. m /\ n \in 0 .. m /\ n \in Nat /\ n + 1 = q + a /\ n < m
    BY <1>1, <2>1, <2>2
  <2>5. SubSeq(h, a, Len(h)) = SubSeq(t, n + 1, m) /\ SubSeq(h, 1, x) = SubSeq(t, q + 1, n)
    <3>1. SubSeq(h, a, Len(h)) = SubSeq(t, q + a, m)
      BY <1>2, <2>4
    <3>2. SubSeq(h, 1, x) = SubSeq(t, q + 1, q + x)
      BY <1>5, <2>4
    <3>3. QED
      BY <2>4, <3>1, <3>2
  <2> DEFINE u == SubSeq(t, n + 1, m)
  <2>6. u \in Seq(P)
    BY <2>4, CutOfCut
  <2>7. r.calls = <<>> /\ r.state = Capture(u) /\ r.content = SubSeq(t, q + 1, n)
    <3> DEFINE v == SubSeq(t, q + 1, n)
    <3>1. r = Result(Capture(u), v, <<>>)
      BY <2>3, <2>5
    <3> HIDE DEF u, v
    <3>2. r.calls = <<>> /\ r.state = Capture(u) /\ r.content = v
      BY <3>1 DEF Result
    <3>3. QED
      BY <3>2 DEF u, v
  <2>8. Held(r.state) = u
    <3> HIDE DEF u
    <3>1. QED
      BY <2>6, <2>7, HeldIs
  <2>9. ASSUME NEW i \in q + 1 .. n PROVE t[i] \notin Calls /\ ~At(t, i, Marker)
    <3>1. i - q \in 1 .. (m - q) /\ q + (i - q) = i /\ i - q < a /\ i < m
      BY <1>1, <2>4
    <3>2. i - q \notin at
      <4> SUFFICES ASSUME i - q \in at PROVE FALSE
        OBVIOUS
      <4>1. a <= i - q
        BY <2>2
      <4>2. QED
        BY <2>4, <3>1, <4>1
    <3>3. h[i - q] \notin Calls /\ ~At(h, i - q, Marker)
      BY <1>6, <3>1, <3>2 DEF firstMarker
    <3>4. QED
      BY <1>2, <1>3, <3>1, <3>3
  <2> HIDE DEF n
  <2>10. QED
    BY <2>4, <2>7, <2>8, <2>9
<1>8. CASE at = {}
  <2> DEFINE n == q + safe
  <2>1. heldBack(h) \in 0 .. 1 /\ heldBack(h) <= Len(h)
    <3>1. h # <<>> => Len(h) # 0
      BY <1>2, EmptySeq
    <3>2. QED
      BY <1>6, <3>1 DEF heldBack
  <2>2. r = Result([NewStreamState EXCEPT !.pending = SubSeq(h, safe + 1, Len(h))],
                   SubSeq(h, 1, safe), <<>>)
    BY <1>4, <1>8 DEF Scanned
  <2>3. /\ safe \in 0 .. (m - q) /\ safe + 1 \in 1 .. (m - q) + 1
        /\ n \in q .. m /\ n \in 0 .. m /\ n \in Nat /\ n + 1 = q + (safe + 1)
        /\ heldBack(h) = 1 => n < m
    <3> DEFINE b == heldBack(h)
               l == Len(h)
    <3>1. b \in 0 .. 1 /\ b <= l /\ l \in Nat /\ l = m - q /\ safe = l - b
      BY <1>2, <1>6, <2>1
    <3> HIDE DEF b, l, safe
    <3>2. safe \in Nat /\ safe <= m - q /\ (b = 1 => safe < m - q)
      BY <1>1, <3>1
    <3>3. QED
      BY <1>1, <3>2 DEF b
  <2> HIDE DEF safe
  <2>4. /\ SubSeq(h, safe + 1, Len(h)) = SubSeq(t, n + 1, m)
        /\ SubSeq(h, 1, safe) = SubSeq(t, q + 1, n)
    <3>1. SubSeq(h, safe + 1, Len(h)) = SubSeq(t, q + (safe + 1), m)
      BY <1>2, <2>3
    <3>2. SubSeq(h, 1, safe) = SubSeq(t, q + 1, q + safe)
      BY <1>5, <2>3
    <3>3. QED
      BY <2>3, <3>1, <3>2
  <2> DEFINE u == SubSeq(t, n + 1, m)
             v == SubSeq(t, q + 1, n)
  <2>5. u \in Seq(P)
    BY <2>3, CutOfCut
  <2>6. /\ r.calls = <<>> /\ r.state = [NewStreamState EXCEPT !.pending = u]
        /\ r.content = v
    <3>1. r = Result([NewStreamState EXCEPT !.pending = u], v, <<>>)
      BY <2>2, <2>4
    <3> HIDE DEF u, v
    <3>2. QED
      BY <3>1 DEF Result
  <2>7. Held(r.state) = u
    <3> HIDE DEF u
    <3>1. QED
      BY <2>5, <2>6, HeldIs
  <2> HIDE DEF n
  <2>8. ASSUME NEW i \in q + 1 .. n PROVE t[i] \notin Calls /\ ~At(t, i, Marker)
    <3>1. i - q \in 1 .. (m - q) /\ q + (i - q) = i /\ i <= m /\ i \in Nat
      BY <1>1, <2>3
    <3>2. h[i - q] \notin Calls /\ ~At(h, i - q, Marker)
      BY <1>6, <1>8, <3>1 DEF firstMarker
    <3>3. t[i] \notin Calls
      BY <1>2, <3>1, <3>2
    <3>4. i < m => ~At(t, i, Marker)
      BY <1>3, <3>1, <3>2
    <3>5. ASSUME i = m PROVE ~At(t, i, Marker)
      <4> SUFFICES ASSUME At(t, i, Marker) PROVE FALSE
        OBVIOUS
      <4>1. i \in 1 .. Len(t)
        BY <1>1, <3>1
      <4>2. t[i] = "<"
        BY <4>1, MarkerAt
      <4>3. h[m - q] = "<" /\ h # <<>>
        BY <1>2, <3>1, <3>5, <4>2, EmptySeq
      <4>4. heldBack(h) = 1
        BY <1>2, <4>3 DEF heldBack, Last
      <4>5. n < m
        BY <2>3, <4>4
      <4>6. QED
        BY <1>1, <2>3, <3>5, <4>5
    <3>6. QED
      BY <1>1, <3>1, <3>3, <3>4, <3>5
  <2>9. QED
    BY <2>3, <2>6, <2>7, <2>8
<1>9. QED
  BY <1>7, <1>8

\* A text in which the parser looks for a marker.
LEMMA ScannedGoesOn ==
    ASSUME NEW P, NEW t \in Seq(P), NEW m \in 0 .. Len(t), NEW q \in 0 .. m,
           Past(t, q) \/ Ahead(t, q),
           NEW r, r = Scanned(SubSeq(t, q + 1, m))
    PROVE  \E n \in q .. m : Went(t, q, n, m, r)
<1>1. Len(t) \in Nat /\ m \in Nat /\ q \in Nat
  BY LenProperties
<1>2. PICK n \in q .. m : /\ Held(r.state) = SubSeq(t, n + 1, m)
                          /\ r.content = SubSeq(t, q + 1, n)
                          /\ r.calls = <<>>
                          /\ \A i \in q + 1 .. n : t[i] \notin Calls /\ ~At(t, i, Marker)
  BY ScannedIs
<1>3. n \in Nat /\ q <= n
  BY <1>1
<1>4. Ahead(t, q) => Ahead(t, n)
  <2> SUFFICES ASSUME Ahead(t, q), NEW o \in 1 .. Len(t), At(t, o, Marker)
               PROVE  n < o
    BY DEF Ahead
  <2>1. q < o
    BY DEF Ahead
  <2>2. o \notin q + 1 .. n
    BY <1>2
  <2>3. QED
    BY <1>1, <1>3, <2>1, <2>2
<1>5. Past(t, q) => Past(t, n)
  BY <1>1, <1>3, StaysDue
<1>6. Went(t, q, n, m, r)
  BY <1>2, <1>4, <1>5 DEF Went
<1>7. QED
  BY <1>6

\* The next chunk of a text.
LEMMA ChunkGoesOn ==
    ASSUME NEW t \in Seq(Pieces), NEW m \in 0 .. Len(t), NEW k \in 0 .. m, NEW q \in 0 .. k,
           NEW s, StreamOK(s), Held(s) = SubSeq(t, q + 1, k),
           OneTool(t), Past(t, q) \/ Ahead(t, q),
           NEW r, r = ProcessStreamChunk(s, SubSeq(t, k + 1, m))
    PROVE  \E n \in 0 .. m : Went(t, q, n, m, r)
<1> DEFINE c == SubSeq(t, k + 1, m)
           h == SubSeq(t, q + 1, m)
<1>1. Held(s) \o c = h
  BY Joined
<1>2. /\ Len(t) \in Nat /\ m \in Nat /\ k \in Nat /\ q \in Nat
      /\ q \in 0 .. m /\ \A n \in q .. m : n \in 0 .. m
  BY LenProperties
<1>3. s.capturing \in BOOLEAN
  BY DEF StreamOK
<1>4. CASE s.capturing
  <2>1. r = Captured(h)
    BY <1>1, <1>4 DEF ProcessStreamChunk, Held
  <2>2. QED
    BY <1>2, <2>1, CapturedGoesOn
<1>5. CASE ~s.capturing
  <2>1. Held(s) = s.pending
    BY <1>5, ConcatEmptySeq DEF Held, StreamOK
  <2>2. r = Scanned(h)
    BY <1>1, <1>5, <2>1 DEF ProcessStreamChunk
  <2>3. QED
    BY <1>2, <2>2, ScannedGoesOn
<1>6. QED
  BY <1>3, <1>4, <1>5

\* The end of a text of which all is spent.
LEMMA NothingAtTheEnd ==
    ASSUME NEW t \in Seq(Pieces), NEW k \in 0 .. Len(t), NEW q \in 0 .. k,
           NEW s, Held(s) = SubSeq(t, q + 1, k), Past(t, q)
    PROVE  FinalizeStream(s).calls = <<>>
<1> DEFINE h == SubSeq(t, q + 1, k)
           got == tryConsumeCapture(h)
<1>1. ParseCalls(h) = <<>> /\ got.calls = <<>>
  BY NothingLeft DEF Past
<1>2. \/ FinalizeStream(s).calls = got.calls
      \/ FinalizeStream(s).calls = <<>>
      \/ FinalizeStream(s).calls = ParseCalls(h)
  BY DEF FinalizeStream, Result, Held
<1> HIDE DEF got
<1>3. QED
  BY <1>1, <1>2

-----------------------------------------------------------------------------
(* The tool calls among the events. *)

Called(es) == \E i \in DOMAIN es : es[i].type = "tool_call"

OneEach(es) ==
    \A i, j \in DOMAIN es :
        /\ es[i].type = "tool_call"
        /\ es[j].type = "tool_call"
        /\ es[i].index = es[j].index
        => i = j

\* Indexes stay distinct where only one of two parts has calls.
LEMMA PartsJoined ==
    ASSUME NEW es, IsText(es), NEW fs, IsText(fs)
    PROVE  /\ IsText(es \o fs)
           /\ Called(es \o fs) <=> Called(es) \/ Called(fs)
           /\ (OneEach(es) /\ OneEach(fs) /\ ~(Called(es) /\ Called(fs))) => OneEach(es \o fs)
<1> DEFINE E == Range(es) \cup Range(fs)
           g == es \o fs
<1>1. es \in Seq(E) /\ fs \in Seq(E)
  BY SeqMonotonic DEF IsText
<1> HIDE DEF E
<1>2. /\ g \in Seq(E)
      /\ Len(g) = Len(es) + Len(fs)
      /\ \A i \in 1 .. (Len(es) + Len(fs)) :
            g[i] = IF i <= Len(es) THEN es[i] ELSE fs[i - Len(es)]
  BY <1>1, ConcatProperties
<1> HIDE DEF g
<1>3. /\ Len(es) \in Nat /\ Len(fs) \in Nat
      /\ DOMAIN es = 1 .. Len(es) /\ DOMAIN fs = 1 .. Len(fs)
      /\ DOMAIN g = 1 .. (Len(es) + Len(fs))
  BY <1>1, <1>2, LenProperties
<1>4. IsText(g)
  BY <1>2, SomeText
<1>5. ASSUME NEW i \in DOMAIN es
      PROVE  i \in DOMAIN g /\ g[i] = es[i]
  BY <1>2, <1>3
<1>6. ASSUME NEW i \in DOMAIN fs
      PROVE  Len(es) + i \in DOMAIN g /\ g[Len(es) + i] = fs[i]
  <2>1. /\ Len(es) + i \in 1 .. (Len(es) + Len(fs))
        /\ ~(Len(es) + i <= Len(es)) /\ (Len(es) + i) - Len(es) = i
    BY <1>3
  <2>2. QED
    BY <1>2, <1>3, <2>1
<1>7. ASSUME NEW i \in DOMAIN g
      PROVE  \/ i \in DOMAIN es /\ g[i] = es[i]
             \/ i - Len(es) \in DOMAIN fs /\ g[i] = fs[i - Len(es)]
  <2>1. CASE i <= Len(es)
    BY <1>2, <1>3, <2>1
  <2>2. CASE ~(i <= Len(es))
    <3>1. i - Len(es) \in 1 .. Len(fs)
      BY <1>3, <2>2
    <3>2. QED
      BY <1>2, <1>3, <2>2, <3>1
  <2>3. QED
    BY <2>1, <2>2
<1>8. Called(g) <=> Called(es) \/ Called(fs)
  BY <1>5, <1>6, <1>7 DEF Called
<1>9. ASSUME OneEach(es), OneEach(fs), ~(Called(es) /\ Called(fs))
      PROVE  OneEach(g)
  <2> SUFFICES ASSUME NEW i \in DOMAIN g, NEW j \in DOMAIN g,
                      g[i].type = "tool_call", g[j].type = "tool_call",
                      g[i].index = g[j].index
               PROVE  i = j
    BY DEF OneEach
  <2>1. CASE Called(es)
    <3>1. ~Called(fs)
      BY <1>9, <2>1
    <3>2. i \in DOMAIN es /\ g[i] = es[i] /\ j \in DOMAIN es /\ g[j] = es[j]
      BY <1>7, <3>1 DEF Called
    <3>3. QED
      BY <1>9, <3>2 DEF OneEach
  <2>2. CASE ~Called(es)
    <3>1. /\ i - Len(es) \in DOMAIN fs /\ g[i] = fs[i - Len(es)]
          /\ j - Len(es) \in DOMAIN fs /\ g[j] = fs[j - Len(es)]
      BY <1>7, <2>2 DEF Called
    <3>2. i - Len(es) = j - Len(es)
      BY <1>9, <3>1 DEF OneEach
    <3>3. i \in Nat /\ j \in Nat
      BY <1>3
    <3>4. QED
      BY <1>3, <3>2, <3>3
  <2>3. QED
    BY <2>1, <2>2
<1>10. QED
  BY <1>4, <1>8, <1>9 DEF g

\* One event that is no call.
LEMMA OtherEvent ==
    ASSUME NEW type, NEW index, NEW what, type # "tool_call"
    PROVE  LET e == <<Event(type, index, what)>>
           IN  IsText(e) /\ ~Called(e) /\ OneEach(e)
<1> DEFINE a == Event(type, index, what)
           e == <<a>>
<1>1. a.type # "tool_call"
  BY DEF Event
<1> HIDE DEF a
<1>2. e \in Seq({a}) /\ DOMAIN e = {1} /\ e[1] = a
  OBVIOUS
<1> HIDE DEF e
<1>3. IsText(e)
  BY <1>2, SomeText
<1>4. ~Called(e)
  BY <1>1, <1>2 DEF Called
<1>5. OneEach(e)
  BY <1>2 DEF OneEach
<1>6. QED
  BY <1>3, <1>4, <1>5 DEF e, a

\* No event makes no call.
LEMMA NoEvent == IsText(<<>>) /\ ~Called(<<>>) /\ OneEach(<<>>)
<1>1. IsText(<<>>) /\ DOMAIN <<>> = {}
  BY NoText
<1>2. QED
  BY <1>1 DEF Called, OneEach

\* An event with content makes no call.
LEMMA ContentIsNoCall ==
    ASSUME NEW content
    PROVE  /\ IsText(ContentDelta(content))
           /\ ~Called(ContentDelta(content))
           /\ OneEach(ContentDelta(content))
<1>1. "text" # "tool_call"
  OBVIOUS
<1>2. CASE content = <<>>
  BY <1>2, NoEvent DEF ContentDelta
<1>3. CASE content # <<>>
  BY <1>1, <1>3, OtherEvent DEF ContentDelta
<1>4. QED
  BY <1>2, <1>3

\* The calls of one result have their indexes.
LEMMA DeltasNumbered ==
    ASSUME NEW calls, IsText(calls)
    PROVE  /\ IsText(ToolDeltas(calls))
           /\ Called(ToolDeltas(calls)) => calls # <<>>
           /\ OneEach(ToolDeltas(calls))
<1> DEFINE e == ToolDeltas(calls)
           n == Len(calls)
           E == {Event("tool_call", i, <<calls[i]>>) : i \in 1 .. n}
<1>1. n \in Nat /\ DOMAIN calls = 1 .. n
  BY TextLength
<1>2. e = [i \in 1 .. n |-> Event("tool_call", i, <<calls[i]>>)]
  BY <1>1 DEF ToolDeltas
<1>3. IsText(e)
  <2>1. e \in [1 .. n -> E]
    BY <1>2
  <2> HIDE DEF e, E
  <2>2. e \in Seq(E)
    BY <1>1, <2>1, SeqDef
  <2>3. QED
    BY <2>2, SomeText
<1>4. DOMAIN e = 1 .. n /\ \A i \in 1 .. n : e[i].index = i
  BY <1>2 DEF Event
<1> HIDE DEF e
<1>5. Called(e) => calls # <<>>
  <2>1. calls = <<>> => n = 0
    BY NoText
  <2>2. QED
    BY <1>4, <2>1 DEF Called
<1>6. OneEach(e)
  BY <1>4 DEF OneEach
<1>7. QED
  BY <1>3, <1>5, <1>6 DEF e

-----------------------------------------------------------------------------
(* The indexes of the OpenAI handler. *)

\* The calls were written at once, or the parser has still to come to them: what it holds
\* is the rest of what was sent, from a place on that no call and no tag has passed by.
Numbered ==
    api = "openai" =>
        /\ IsText(events)
        /\ ~withTools => ~Called(events)
        /\ (withTools /\ OneTool(answer)) =>
              /\ OneEach(events)
              /\ ~ended => \E q \in 0 .. sent :
                              /\ Held(stream) = SubSeq(answer, q + 1, sent)
                              /\ Past(answer, q) \/ (~Called(events) /\ Ahead(answer, q))

\* Numbered holds at the start, ...
LEMMA InitNumbered == Init => Numbered
<1> SUFFICES ASSUME Init PROVE Numbered
  OBVIOUS
<1>1. events = <<>> /\ sent = 0 /\ stream = NewStreamState /\ answer \in Answers
  BY DEF Init
<1>2. answer \in Seq(Pieces) /\ Len(answer) \in Nat
  BY <1>1, AnswersAreTexts, LenProperties
<1>3. IsText(events) /\ ~Called(events) /\ OneEach(events)
  BY <1>1, NoEvent
<1>4. 0 \in 0 .. sent /\ Held(stream) = SubSeq(answer, 0 + 1, sent)
  <2>1. 0 \in 0 .. Len(answer)
    BY <1>2
  <2>2. SubSeq(answer, 0 + 1, 0) = <<>>
    BY <1>2, <2>1, NothingBehind
  <2>3. Held(NewStreamState) = <<>>
    BY <1>2, HeldIs
  <2>4. QED
    BY <1>1, <2>2, <2>3
<1>5. Ahead(answer, 0)
  BY <1>2 DEF Ahead
<1>6. QED
  BY <1>3, <1>4, <1>5 DEF Numbered

\* ... a delta keeps it, ...
LEMMA DeltaNumbered ==
    ASSUME IInv, Numbered, NEW n \in 1 .. (Len(answer) - sent), Delta(n)
    PROVE  Numbered'
<1> DEFINE m == sent + n
           chunk == SubSeq(answer, sent + 1, m)
<1>1. /\ ~ended /\ sent' = m
      /\ UNCHANGED <<api, withTools, answer, ended>>
      /\ api = "openai" => OpenAIDelta(chunk)
  BY DEF Delta, IInv, TypeOK
<1> SUFFICES ASSUME api = "openai" PROVE Numbered'
  BY <1>1 DEF Numbered
<1>2. /\ answer \in Seq(Pieces) /\ Len(answer) \in Nat
      /\ sent \in Nat /\ m \in 0 .. Len(answer) /\ sent \in 0 .. m
      /\ chunk \in Seq(Pieces)
      /\ StreamOK(stream) /\ withTools \in BOOLEAN
  BY ChunkIsText, AnswersAreTexts, LenProperties DEF IInv, TypeOK
<1> DEFINE p == ProcessStreamChunk(stream, chunk)
           r == IF withTools THEN p ELSE Result(stream, chunk, <<>>)
           content == IF withTools THEN RemoveMarkup(r.content) ELSE r.content
           a == ToolDeltas(r.calls)
           b == ContentDelta(content)
<1>3. stream' = r.state /\ events' = events \o a \o b
  BY <1>1 DEF OpenAIDelta
<1>4. IsText(r.calls)
  <2>1. IsText(p.calls) /\ Result(stream, chunk, <<>>).calls = <<>> /\ IsText(<<>>)
    BY <1>2, ChunkOK, NoText DEF Result
  <2> HIDE DEF p
  <2>2. QED
    BY <2>1
<1>5. withTools => r = p
  OBVIOUS
<1>6. ~withTools => r.calls = <<>>
  BY DEF Result
<1> HIDE DEF p, r
<1>7. IsText(a) /\ (Called(a) => r.calls # <<>>) /\ OneEach(a)
  BY <1>4, DeltasNumbered
<1>8. IsText(b) /\ ~Called(b) /\ OneEach(b)
  BY ContentIsNoCall
<1>9. IsText(events)
  BY DEF Numbered
<1> HIDE DEF a, b
<1>10. /\ IsText(events \o a)
       /\ Called(events \o a) <=> Called(events) \/ Called(a)
       /\ (OneEach(events) /\ ~(Called(events) /\ Called(a))) => OneEach(events \o a)
  BY <1>7, <1>9, PartsJoined
<1>11. /\ IsText(events')
       /\ Called(events') <=> Called(events) \/ Called(a)
       /\ (OneEach(events) /\ ~(Called(events) /\ Called(a))) => OneEach(events')
  BY <1>3, <1>8, <1>10, PartsJoined
<1>12. CASE ~withTools
  <2>1. ~Called(events) /\ ~Called(a)
    BY <1>6, <1>7, <1>12 DEF Numbered
  <2>2. QED
    BY <1>1, <1>11, <1>12, <2>1 DEF Numbered
<1>13. CASE withTools
  <2> SUFFICES ASSUME OneTool(answer)
               PROVE  /\ OneEach(events')
                      /\ \E q \in 0 .. m :
                            /\ Held(stream') = SubSeq(answer, q + 1, m)
                            /\ Past(answer, q) \/ (~Called(events') /\ Ahead(answer, q))
    BY <1>1, <1>11, <1>13 DEF Numbered
  <2>1. OneEach(events)
    BY <1>13 DEF Numbered
  <2>2. PICK q \in 0 .. sent :
            /\ Held(stream) = SubSeq(answer, q + 1, sent)
            /\ Past(answer, q) \/ (~Called(events) /\ Ahead(answer, q))
    BY <1>1, <1>13 DEF Numbered
  <2>3. r = ProcessStreamChunk(stream, SubSeq(answer, sent + 1, m))
    BY <1>5, <1>13 DEF p
  <2> HIDE DEF m, chunk
  <2>4. PICK k \in 0 .. m : Went(answer, q, k, m, r)
    BY <1>2, <2>2, <2>3, ChunkGoesOn
  <2>5. /\ Held(r.state) = SubSeq(answer, k + 1, m)
        /\ Called(events) => r.calls = <<>> /\ Past(answer, k)
        /\ Past(answer, k) \/ (r.calls = <<>> /\ Ahead(answer, k))
    BY <2>2, <2>4 DEF Went
  <2>6. OneEach(events')
    BY <1>7, <1>11, <2>1, <2>5
  <2>7. Past(answer, k) \/ (~Called(events') /\ Ahead(answer, k))
    BY <1>7, <1>11, <2>5
  <2>8. QED
    BY <1>3, <2>5, <2>6, <2>7
<1>14. QED
  BY <1>2, <1>12, <1>13

\* ... and a thought or an empty delta, ...
LEMMA OddNumbered ==
    ASSUME IInv, Numbered, NEW piece \in {Thought, Nil}, Odd(piece)
    PROVE  Numbered'
<1>1. /\ ~ended
      /\ UNCHANGED <<api, withTools, answer, sent, ended>>
      /\ api = "openai" => OpenAIOdd(piece)
  BY DEF Odd, IInv, TypeOK
<1> SUFFICES ASSUME api = "openai" PROVE Numbered'
  BY <1>1 DEF Numbered
<1> DEFINE e == Event("reasoning", 0, <<Thought>>)
<1>2. /\ UNCHANGED stream
      /\ events' = events \/ events' = Append(events, e)
  BY <1>1 DEF OpenAIOdd
<1>3. IsText(<<e>>) /\ ~Called(<<e>>) /\ OneEach(<<e>>)
  <2>1. "reasoning" # "tool_call"
    OBVIOUS
  <2>2. QED
    BY <2>1, OtherEvent
<1> HIDE DEF e
<1>4. IsText(events)
  BY DEF Numbered
<1>5. events' = events \/ events' = events \o <<e>>
  BY <1>2, <1>4, AppendIsConcat DEF IsText
<1>6. /\ IsText(events')
      /\ Called(events') = Called(events)
      /\ OneEach(events) => OneEach(events')
  <2>1. /\ IsText(events \o <<e>>)
        /\ Called(events \o <<e>>) <=> Called(events)
        /\ OneEach(events) => OneEach(events \o <<e>>)
    BY <1>3, <1>4, PartsJoined
  <2>2. CASE events' = events
    BY <1>4, <2>2
  <2>3. CASE events' = events \o <<e>>
    <3>1. Called(events') <=> Called(events)
      BY <2>1, <2>3
    <3>2. Called(events') \in BOOLEAN /\ Called(events) \in BOOLEAN
      BY DEF Called
    <3>3. QED
      BY <2>1, <2>3, <3>1, <3>2
  <2>4. QED
    BY <1>5, <2>2, <2>3
<1>7. QED
  BY <1>1, <1>2, <1>6 DEF Numbered

\* ... and the end, ...
LEMMA FinishNumbered ==
    ASSUME IInv, Numbered, Finish
    PROVE  Numbered'
<1>1. /\ ~ended /\ ended'
      /\ UNCHANGED <<api, withTools, answer, sent>>
      /\ api = "openai" => OpenAIFinish
  BY DEF Finish, IInv, TypeOK
<1> SUFFICES ASSUME api = "openai" PROVE Numbered'
  BY <1>1 DEF Numbered
<1> DEFINE f == FinalizeStream(stream)
           r == IF withTools THEN f ELSE Result(stream, <<>>, <<>>)
           a == ContentDelta(RemoveMarkup(r.content))
           b == ToolDeltas(r.calls)
           written == events \o a \o b
           called == \E i \in DOMAIN written : written[i].type = "tool_call"
           e == Event("finish", 0, IF called THEN <<"tool_calls">> ELSE <<"stop">>)
<1>2. events' = Append(written, e)
  BY <1>1 DEF OpenAIFinish
<1>3. /\ answer \in Seq(Pieces) /\ sent \in 0 .. Len(answer)
      /\ StreamOK(stream) /\ withTools \in BOOLEAN
  BY AnswersAreTexts DEF IInv, TypeOK
<1>4. IsText(r.calls)
  <2>1. IsText(f.calls) /\ Result(stream, <<>>, <<>>).calls = <<>> /\ IsText(<<>>)
    BY <1>3, FinalizeCounted, NoText DEF Result
  <2> HIDE DEF f
  <2>2. QED
    BY <2>1
<1>5. withTools => r = f
  OBVIOUS
<1>6. ~withTools => r.calls = <<>>
  BY DEF Result
<1>7. IsText(<<e>>) /\ ~Called(<<e>>) /\ OneEach(<<e>>)
  <2>1. "finish" # "tool_call"
    OBVIOUS
  <2>2. QED
    BY <2>1, OtherEvent
<1> HIDE DEF f, r, e
<1>8. IsText(b) /\ (Called(b) => r.calls # <<>>) /\ OneEach(b)
  BY <1>4, DeltasNumbered
<1>9. IsText(a) /\ ~Called(a) /\ OneEach(a)
  BY ContentIsNoCall
<1>10. IsText(events)
  BY DEF Numbered
<1> HIDE DEF a, b
<1>11. /\ IsText(events \o a)
       /\ Called(events \o a) <=> Called(events)
       /\ OneEach(events) => OneEach(events \o a)
  BY <1>9, <1>10, PartsJoined
<1>12. /\ IsText(written)
       /\ Called(written) <=> Called(events) \/ Called(b)
       /\ (OneEach(events) /\ ~(Called(events) /\ Called(b))) => OneEach(written)
  BY <1>8, <1>11, PartsJoined
<1> HIDE DEF written
<1>13. events' = written \o <<e>>
  BY <1>2, <1>12, AppendIsConcat DEF IsText
<1>14. /\ IsText(events')
       /\ Called(events') <=> Called(written)
       /\ OneEach(written) => OneEach(events')
  BY <1>7, <1>12, <1>13, PartsJoined
<1>15. CASE ~withTools
  <2>1. ~Called(events) /\ ~Called(b)
    BY <1>6, <1>8, <1>15 DEF Numbered
  <2>2. QED
    BY <1>1, <1>12, <1>14, <1>15, <2>1 DEF Numbered
<1>16. CASE withTools
  <2> SUFFICES ASSUME OneTool(answer) PROVE OneEach(events')
    BY <1>1, <1>14, <1>16 DEF Numbered
  <2>1. OneEach(events)
    BY <1>16 DEF Numbered
  <2>2. ASSUME Called(events) PROVE ~Called(b)
    <3>1. PICK q \in 0 .. sent : /\ Held(stream) = SubSeq(answer, q + 1, sent)
                                 /\ Past(answer, q) \/ (~Called(events) /\ Ahead(answer, q))
      BY <1>1, <1>16 DEF Numbered
    <3>2. Past(answer, q)
      BY <2>2, <3>1
    <3>3. f.calls = <<>>
      BY <1>3, <3>1, <3>2, NothingAtTheEnd DEF f
    <3>4. QED
      BY <1>5, <1>8, <1>16, <3>3
  <2>3. QED
    BY <1>12, <1>14, <2>1, <2>2
<1>17. QED
  BY <1>3, <1>15, <1>16

\* ... and so does every step.
LEMMA NextNumbered == IInv /\ Numbered /\ [Next]_vars => Numbered'
<1> SUFFICES ASSUME IInv, Numbered, [Next]_vars PROVE Numbered'
  OBVIOUS
<1>1. ASSUME NEW n \in 1 .. (Len(answer) - sent), Delta(n) PROVE Numbered'
  BY <1>1, DeltaNumbered
<1>2. ASSUME NEW piece \in {Thought, Nil}, Odd(piece) PROVE Numbered'
  BY <1>2, OddNumbered
<1>3. CASE Finish
  BY <1>3, FinishNumbered
<1>4. CASE UNCHANGED vars
  BY <1>4 DEF vars, Numbered
<1>5. QED
  BY <1>1, <1>2, <1>3, <1>4 DEF Next

\* However an orderly answer is cut, the OpenAI handler gives every tool call an index of
\* its own: FormatOpenAIToolCallsWithSchemas counts from the start in every chunk, but only
\* one chunk completes calls.
THEOREM IndexNamesOneCallHolds == Spec => []IndexNamesOneCall
<1>1. IInv /\ Numbered => IndexNamesOneCall
  <2> SUFFICES ASSUME IInv, Numbered, api = "openai", Orderly
               PROVE  OneEach(events)
    BY DEF IndexNamesOneCall, OneEach
  <2>1. CASE withTools
    BY <2>1 DEF Numbered, Orderly, OneTool
  <2>2. CASE ~withTools
    BY <2>2 DEF Numbered, OneEach, Called
  <2>3. QED
    BY <2>1, <2>2
<1>2. IInv /\ Numbered /\ [Next]_vars => Numbered'
  BY NextNumbered
<1>3. QED
  BY InvHolds, InitNumbered, <1>1, <1>2, PTL DEF Spec

-----------------------------------------------------------------------------
(* What is kept of a text. *)

\* f lists n positions, the set S, in their order.
Lists(f, n, S) ==
    /\ n \in Nat
    /\ f \in [1 .. n -> S]
    /\ \A i, j \in 1 .. n : i < j => f[i] < f[j]
    /\ \A s \in S : \E i \in 1 .. n : f[i] = s

\* What a text says at the positions of a list.
Spelled(t, f, n) == [m \in 1 .. n |-> t[f[m]]]

\* Any positions can be listed.
LEMMA Listed ==
    ASSUME NEW L \in Nat, NEW S \in SUBSET (1 .. L)
    PROVE  \E n \in Nat : \E f : Lists(f, n, S)
<1> DEFINE T == {l \in Nat : \A R \in SUBSET (1 .. l) : \E n \in Nat : \E f : Lists(f, n, R)}
<1>1. 0 \in T
  <2> SUFFICES ASSUME NEW R \in SUBSET (1 .. 0) PROVE Lists([i \in 1 .. 0 |-> i], 0, R)
    OBVIOUS
  <2>1. R = {} /\ 1 .. 0 = {}
    OBVIOUS
  <2>2. QED
    BY <2>1 DEF Lists
<1>2. ASSUME NEW l \in Nat, l \in T
      PROVE  l + 1 \in T
  <2> SUFFICES ASSUME NEW R \in SUBSET (1 .. l + 1) PROVE \E n \in Nat : \E f : Lists(f, n, R)
    OBVIOUS
  <2> DEFINE Q == R \ {l + 1}
  <2>1. Q \in SUBSET (1 .. l)
    OBVIOUS
  <2>9. PICK n \in Nat : \E f : Lists(f, n, Q)
    BY <1>2, <2>1
  <2>2. PICK f : Lists(f, n, Q)
    BY <2>9
  <2>3. CASE l + 1 \notin R
    <3>1. Q = R
      BY <2>3
    <3>2. QED
      BY <2>2, <3>1
  <2>4. CASE l + 1 \in R
    <3> DEFINE g == [i \in 1 .. n + 1 |-> IF i = n + 1 THEN l + 1 ELSE f[i]]
    <3>1. /\ f \in [1 .. n -> Q]
          /\ \A i, j \in 1 .. n : i < j => f[i] < f[j]
          /\ \A s \in Q : \E i \in 1 .. n : f[i] = s
      BY <2>2 DEF Lists
    <3>2. \A i \in 1 .. n + 1 : i = n + 1 \/ i \in 1 .. n
      OBVIOUS
    <3>3. \A i \in 1 .. n : i \in 1 .. n + 1 /\ i # n + 1 /\ g[i] = f[i] /\ f[i] \in Q
      BY <3>1
    <3>4. g[n + 1] = l + 1 /\ n + 1 \in 1 .. n + 1
      OBVIOUS
    <3>5. g \in [1 .. n + 1 -> R]
      BY <2>4, <3>2, <3>3
    <3>6. ASSUME NEW i \in 1 .. n + 1, NEW j \in 1 .. n + 1, i < j
          PROVE  g[i] < g[j]
      <4>1. i \in 1 .. n
        BY <3>6
      <4>2. f[i] \in 1 .. l /\ g[i] = f[i]
        BY <2>1, <3>1, <3>3, <4>1
      <4>3. CASE j = n + 1
        BY <3>4, <4>2, <4>3
      <4>4. CASE j \in 1 .. n
        BY <3>1, <3>3, <3>6, <4>1, <4>4
      <4>5. QED
        BY <3>2, <4>3, <4>4
    <3>7. ASSUME NEW s \in R PROVE \E i \in 1 .. n + 1 : g[i] = s
      <4>1. CASE s = l + 1
        BY <3>4, <4>1
      <4>2. CASE s \in Q
        <5>1. PICK i \in 1 .. n : f[i] = s
          BY <3>1, <4>2
        <5>2. QED
          BY <3>3, <5>1
      <4>3. QED
        BY <4>1, <4>2
    <3> HIDE DEF g
    <3>8. Lists(g, n + 1, R)
      BY <3>5, <3>6, <3>7 DEF Lists
    <3>9. QED
      BY <3>8
  <2>5. QED
    BY <2>3, <2>4
<1>3. L \in T
  <2> HIDE DEF T
  <2>1. QED
    BY <1>1, <1>2, Induction
<1>4. QED
  BY <1>3

\* A list counts its positions.
LEMMA ListCounts ==
    ASSUME NEW S, S \subseteq Nat, NEW n, NEW f, Lists(f, n, S)
    PROVE  Cardinality(S) = n
<1> USE DEF Lists
<1>1. ASSUME NEW i \in 1 .. n, NEW j \in 1 .. n, f[i] = f[j]
      PROVE  i = j
  <2>1. f[i] \in Nat /\ f[j] \in Nat
    OBVIOUS
  <2>2. ~(i < j) /\ ~(j < i)
    BY <1>1, <2>1
  <2>3. QED
    BY <2>2
<1>2. f \in Injection(1 .. n, S)
  BY <1>1 DEF Injection, IsInjective
<1>3. f \in Surjection(1 .. n, S)
  BY DEF Surjection
<1>4. ExistsBijection(1 .. n, S)
  BY <1>2, <1>3 DEF ExistsBijection, Bijection
<1>5. QED
  BY <1>4, FS_CountingElements

\* What is kept is what the list says.
LEMMA KeptIs ==
    ASSUME NEW S, S \subseteq Nat, NEW n, NEW f, Lists(f, n, S), NEW t
    PROVE  Kept(t, S) = Spelled(t, f, n)
<1> DEFINE Rank(i) == Cardinality({j \in S : j <= i})
<1>1. /\ n \in Nat
      /\ f \in [1 .. n -> S]
      /\ \A i, j \in 1 .. n : i < j => f[i] < f[j]
      /\ \A s \in S : \E i \in 1 .. n : f[i] = s
  BY DEF Lists
<1>2. Cardinality(S) = n
  BY ListCounts
<1>3. ASSUME NEW m \in 1 .. n
      PROVE  Rank(f[m]) = m
  <2> DEFINE R == {j \in S : j <= f[m]}
             g == [i \in 1 .. m |-> f[i]]
  <2>0. n \in Nat /\ m \in 1 .. n
    BY <1>1
  <2>1. m \in Nat /\ \A i \in 1 .. m : i \in 1 .. n /\ f[i] \in S /\ f[i] \in Nat
    <3>1. m \in Nat /\ \A i \in 1 .. m : i \in 1 .. n
      BY <2>0
    <3>2. QED
      BY <1>1, <3>1
  <2>2. ASSUME NEW i \in 1 .. m PROVE f[i] \in R
    <3>1. i = m \/ i < m
      BY <2>1
    <3>2. f[i] = f[m] \/ f[i] < f[m]
      BY <1>1, <2>1, <3>1
    <3>3. f[m] \in Nat
      BY <1>1
    <3>4. QED
      BY <2>1, <3>2, <3>3
  <2>3. g \in [1 .. m -> R]
    BY <2>2
  <2>4. \A i, j \in 1 .. m : i < j => g[i] < g[j]
    BY <1>1, <2>1
  <2>5. ASSUME NEW s \in R PROVE \E i \in 1 .. m : g[i] = s
    <3>1. PICK i \in 1 .. n : f[i] = s
      BY <1>1
    <3>2. ~(m < i)
      <4>1. m < i => f[m] < f[i]
        BY <1>1
      <4>2. f[i] <= f[m] /\ f[m] \in Nat /\ f[i] \in Nat
        BY <1>1, <3>1
      <4>3. QED
        BY <4>1, <4>2
    <3>3. i \in 1 .. m
      BY <2>1, <3>2
    <3>4. QED
      BY <3>1, <3>3
  <2>6. R \subseteq Nat
    OBVIOUS
  <2> HIDE DEF g, R
  <2>7. Lists(g, m, R)
    BY <2>1, <2>3, <2>4, <2>5 DEF Lists
  <2>8. Cardinality(R) = m
    BY <2>6, <2>7, ListCounts
  <2>9. QED
    BY <2>8 DEF R
<1> HIDE DEF Rank
<1>4. ASSUME NEW m \in 1 .. n
      PROVE  (CHOOSE i \in S : Rank(i) = m) = f[m]
  <2>1. f[m] \in S /\ Rank(f[m]) = m
    BY <1>1, <1>3
  <2>2. ASSUME NEW i \in S, Rank(i) = m PROVE i = f[m]
    <3>1. PICK k \in 1 .. n : f[k] = i
      BY <1>1
    <3>2. Rank(f[k]) = k
      BY <1>3
    <3>3. QED
      BY <2>2, <3>1, <3>2
  <2>3. QED
    BY <2>1, <2>2
<1>5. Kept(t, S) = [m \in 1 .. n |-> t[CHOOSE i \in S : Rank(i) = m]]
  BY <1>2 DEF Kept, Rank
<1>6. QED
  BY <1>4, <1>5 DEF Spelled

-----------------------------------------------------------------------------

\* What is kept is a text, as long as the list, of pieces of the text.
LEMMA KeptText ==
    ASSUME NEW P, NEW t \in Seq(P), NEW S \in SUBSET (1 .. Len(t))
    PROVE  /\ Kept(t, S) \in Seq(P)
           /\ \E f : /\ Lists(f, Len(Kept(t, S)), S)
                     /\ \A m \in 1 .. Len(Kept(t, S)) : /\ f[m] \in S
                                                        /\ Kept(t, S)[m] = t[f[m]]
<1>1. Len(t) \in Nat /\ S \subseteq Nat
  BY LenProperties
<1>0. PICK n \in Nat : \E f : Lists(f, n, S)
  BY <1>1, Listed
<1>2. PICK f : Lists(f, n, S)
  BY <1>0
<1> DEFINE w == Spelled(t, f, n)
<1>3. Kept(t, S) = w
  BY <1>1, <1>2, KeptIs
<1>4. \A m \in 1 .. n : f[m] \in S
  BY <1>2 DEF Lists
<1>5. \A m \in 1 .. n : t[f[m]] \in P
  BY <1>4, ElementOfSeq
<1>6. w \in [1 .. n -> P] /\ \A m \in 1 .. n : w[m] = t[f[m]]
  BY <1>5 DEF Spelled
<1> HIDE DEF w
<1>7. w \in Seq(P) /\ DOMAIN w = 1 .. n
  BY <1>6, SeqDef
<1>8. Len(w) = n
  <2>1. Len(w) \in Nat /\ DOMAIN w = 1 .. Len(w)
    BY <1>7, LenProperties
  <2>2. QED
    BY <1>7, <2>1
<1>9. QED
  BY <1>2, <1>3, <1>4, <1>6, <1>7, <1>8

\* A text that the list spells is what is kept.
LEMMA KeptSpelled ==
    ASSUME NEW P, NEW w \in Seq(P), NEW S, S \subseteq Nat, NEW f, Lists(f, Len(w), S),
           NEW t, \A m \in 1 .. Len(w) : w[m] = t[f[m]]
    PROVE  Kept(t, S) = w
<1>1. w = [m \in 1 .. Len(w) |-> w[m]]
  BY LenProperties
<1>2. [m \in 1 .. Len(w) |-> w[m]] = Spelled(t, f, Len(w))
  BY DEF Spelled
<1>3. Kept(t, S) = Spelled(t, f, Len(w))
  BY KeptIs
<1>4. QED
  BY <1>1, <1>2, <1>3

\* Who keeps every place keeps the text, ...
LEMMA KeptAll ==
    ASSUME NEW P, NEW t \in Seq(P)
    PROVE  Kept(t, 1 .. Len(t)) = t
<1> DEFINE f == [m \in 1 .. Len(t) |-> m]
<1>1. Len(t) \in Nat
  BY LenProperties
<1>2. Lists(f, Len(t), 1 .. Len(t))
  BY <1>1 DEF Lists
<1>3. \A m \in 1 .. Len(t) : t[m] = t[f[m]]
  OBVIOUS
<1> HIDE DEF f
<1>4. 1 .. Len(t) \subseteq Nat
  BY <1>1
<1>5. QED
  BY <1>2, <1>3, <1>4, KeptSpelled

\* ... and who keeps none keeps nothing.
LEMMA KeptNone ==
    ASSUME NEW P, NEW t \in Seq(P)
    PROVE  Kept(t, {}) = <<>>
<1> DEFINE f == [m \in 1 .. 0 |-> m]
<1>1. <<>> \in Seq(P) /\ Len(<<>>) = 0
  BY EmptySeq
<1>2. Lists(f, 0, {})
  BY DEF Lists
<1> HIDE DEF f
<1>3. \A m \in 1 .. Len(<<>>) : <<>>[m] = t[f[m]]
  BY <1>1
<1>4. QED
  BY <1>1, <1>2, <1>3, KeptSpelled

\* What is kept of a text is what is kept of its beginning, and then of the rest.
LEMMA KeptParts ==
    ASSUME NEW P, NEW t \in Seq(P), NEW S \in SUBSET (1 .. Len(t)),
           NEW R \in SUBSET (1 .. Len(t)), \A i \in S, j \in R : i < j
    PROVE  Kept(t, S \cup R) = Kept(t, S) \o Kept(t, R)
<1> DEFINE v == Kept(t, S)
           w == Kept(t, R)
<1>1. v \in Seq(P) /\ w \in Seq(P)
  BY KeptText
<1>2. PICK f : Lists(f, Len(v), S) /\ \A m \in 1 .. Len(v) : f[m] \in S /\ v[m] = t[f[m]]
  BY KeptText
<1>3. PICK g : Lists(g, Len(w), R) /\ \A m \in 1 .. Len(w) : g[m] \in R /\ w[m] = t[g[m]]
  BY KeptText
<1> HIDE DEF v, w
<1> DEFINE a == Len(v)
           b == Len(w)
           h == [m \in 1 .. a + b |-> IF m <= a THEN f[m] ELSE g[m - a]]
<1>4. /\ v \o w \in Seq(P) /\ Len(v \o w) = a + b /\ a \in Nat /\ b \in Nat /\ Len(t) \in Nat
      /\ \A m \in 1 .. a + b : (v \o w)[m] = IF m <= a THEN v[m] ELSE w[m - a]
  BY <1>1, LenProperties, ConcatProperties
<1> HIDE DEF a, b
<1>5. \A m \in 1 .. a + b : (m <= a /\ m \in 1 .. a) \/ (~(m <= a) /\ m - a \in 1 .. b)
  BY <1>4
<1>6. /\ \A m \in 1 .. a : f[m] \in S /\ v[m] = t[f[m]]
      /\ \A i, j \in 1 .. a : i < j => f[i] < f[j]
      /\ \A s \in S : \E i \in 1 .. a : f[i] = s
  BY <1>2 DEF Lists, a
<1>7. /\ \A m \in 1 .. b : g[m] \in R /\ w[m] = t[g[m]]
      /\ \A i, j \in 1 .. b : i < j => g[i] < g[j]
      /\ \A s \in R : \E i \in 1 .. b : g[i] = s
  BY <1>3 DEF Lists, b
<1>8. \A m \in 1 .. a + b : (v \o w)[m] = t[h[m]]
  BY <1>4, <1>5, <1>6, <1>7
<1>9. h \in [1 .. a + b -> S \cup R]
  BY <1>5, <1>6, <1>7
<1>10. ASSUME NEW i \in 1 .. a + b, NEW j \in 1 .. a + b, i < j
       PROVE  h[i] < h[j]
  <2>1. CASE j <= a
    <3>1. i \in 1 .. a /\ j \in 1 .. a /\ h[i] = f[i] /\ h[j] = f[j]
      BY <1>4, <1>10, <2>1
    <3>2. QED
      BY <1>6, <1>10, <3>1
  <2>2. CASE i <= a /\ ~(j <= a)
    <3>1. i \in 1 .. a /\ j - a \in 1 .. b /\ h[i] = f[i] /\ h[j] = g[j - a]
      BY <1>4, <1>10, <2>2
    <3>2. QED
      BY <1>6, <1>7, <3>1
  <2>3. CASE ~(i <= a)
    <3>1. /\ i - a \in 1 .. b /\ j - a \in 1 .. b /\ h[i] = g[i - a] /\ h[j] = g[j - a]
          /\ i - a < j - a
      BY <1>4, <1>10, <2>3
    <3>2. QED
      BY <1>7, <3>1
  <2>4. QED
    BY <2>1, <2>2, <2>3
<1>11. ASSUME NEW s \in S \cup R
       PROVE  \E i \in 1 .. a + b : h[i] = s
  <2>1. CASE s \in S
    <3>1. PICK i \in 1 .. a : f[i] = s
      BY <1>6, <2>1
    <3>2. i \in 1 .. a + b /\ i <= a
      BY <1>4
    <3>3. QED
      BY <3>1, <3>2
  <2>2. CASE s \in R
    <3>1. PICK i \in 1 .. b : g[i] = s
      BY <1>7, <2>2
    <3>2. i + a \in 1 .. a + b /\ ~(i + a <= a) /\ (i + a) - a = i
      BY <1>4
    <3>3. h[i + a] = g[i]
      BY <3>2
    <3>4. QED
      BY <3>1, <3>2, <3>3
  <2>3. QED
    BY <2>1, <2>2
<1> HIDE DEF h
<1>12. Lists(h, a + b, S \cup R)
  BY <1>4, <1>9, <1>10, <1>11 DEF Lists
<1>13. S \cup R \subseteq Nat
  BY <1>4
<1>14. Kept(t, S \cup R) = v \o w
  <2> DEFINE x == v \o w
  <2>1. /\ x \in Seq(P) /\ Lists(h, Len(x), S \cup R)
        /\ \A m \in 1 .. Len(x) : x[m] = t[h[m]]
    BY <1>4, <1>8, <1>12
  <2> HIDE DEF x
  <2>2. Kept(t, S \cup R) = x
    BY <1>13, <2>1, KeptSpelled
  <2>3. QED
    BY <2>2 DEF x
<1>15. QED
  BY <1>14 DEF v, w

\* u is a part of t, after k pieces.
Part(u, t, k) ==
    /\ k \in Nat
    /\ k + Len(u) <= Len(t)
    /\ \A i \in 1 .. Len(u) : u[i] = t[k + i]

Moved(S, k) == {k + i : i \in S}

\* What is kept of a part.
LEMMA KeptOfPart ==
    ASSUME NEW P, NEW t \in Seq(P), NEW u \in Seq(P), NEW k, Part(u, t, k),
           NEW S \in SUBSET (1 .. Len(u))
    PROVE  Kept(u, S) = Kept(t, Moved(S, k))
<1> DEFINE w == Kept(u, S)
           R == Moved(S, k)
<1>1. /\ k \in Nat /\ k + Len(u) <= Len(t) /\ R = {k + i : i \in S}
      /\ \A i \in 1 .. Len(u) : u[i] = t[k + i]
  BY DEF Part, Moved
<1> HIDE DEF R
<1>2. w \in Seq(P) /\ Len(u) \in Nat
  BY KeptText, LenProperties
<1>3. PICK f : Lists(f, Len(w), S) /\ \A m \in 1 .. Len(w) : f[m] \in S /\ w[m] = u[f[m]]
  BY KeptText
<1> HIDE DEF w
<1> DEFINE n == Len(w)
           g == [m \in 1 .. n |-> k + f[m]]
<1> HIDE DEF n
<1>4. /\ n \in Nat
      /\ \A m \in 1 .. n : f[m] \in S /\ f[m] \in 1 .. Len(u) /\ w[m] = u[f[m]]
      /\ \A i, j \in 1 .. n : i < j => f[i] < f[j]
      /\ \A s \in S : \E i \in 1 .. n : f[i] = s
  BY <1>2, <1>3, LenProperties DEF Lists, n
<1>5. \A m \in 1 .. n : w[m] = t[g[m]]
  BY <1>1, <1>4
<1>6. g \in [1 .. n -> R]
  BY <1>1, <1>4
<1>7. \A i, j \in 1 .. n : i < j => g[i] < g[j]
  <2> SUFFICES ASSUME NEW i \in 1 .. n, NEW j \in 1 .. n, i < j PROVE k + f[i] < k + f[j]
    BY <1>1
  <2>1. f[i] \in 1 .. Len(u) /\ f[j] \in 1 .. Len(u)
    BY <1>4
  <2>2. f[i] < f[j]
    BY <1>4
  <2>3. QED
    BY <1>1, <1>2, <2>1, <2>2
<1>8. ASSUME NEW s \in R PROVE \E i \in 1 .. n : g[i] = s
  <2>1. PICK r \in S : s = k + r
    BY <1>1
  <2>2. PICK i \in 1 .. n : f[i] = r
    BY <1>4
  <2>3. QED
    BY <2>1, <2>2
<1> HIDE DEF g
<1>9. Lists(g, n, R)
  BY <1>4, <1>6, <1>7, <1>8 DEF Lists
<1>20. R \subseteq Nat
  <2>1. SUFFICES ASSUME NEW r \in R PROVE r \in Nat
    OBVIOUS
  <2>2. PICK i \in S : r = k + i
    BY <1>1
  <2>3. i \in Nat
    BY <1>2
  <2>4. QED
    BY <1>1, <2>2, <2>3
<1>21. Kept(t, R) = w
  BY <1>2, <1>5, <1>9, <1>20, KeptSpelled DEF n
<1>22. QED
  BY <1>21 DEF w, R

-----------------------------------------------------------------------------
(* What is hidden of a text. *)

OpenTag(t, o) ==
    /\ o + 2 <= Len(t)
    /\ t[o] = "<"
    /\ t[o + 1] = "ml_tool_calls"
    /\ t[o + 2] = ">"

InTag(t, i) == \E o \in 1 .. i : o + 2 >= i /\ OpenTag(t, o)

Noisy(t, i) ==
    \E o \in 1 .. i, e \in i .. Len(t) :
        /\ t[o] \in Calls \/ OpenTag(t, o)
        /\ t[e] \in Closing
        /\ \A j \in o .. e - 1 : t[j] \notin Closing

\* What RemoveMarkup hides: what closes a tag, the tags of wrappers, and all from a call or
\* a tag to what closes it.
Hidden(t) == {i \in 1 .. Len(t) : t[i] \in Closing \/ InTag(t, i) \/ Noisy(t, i)}

\* RemoveMarkup keeps what is not hidden.
LEMMA RemoveMarkupIs ==
    ASSUME NEW P, NEW t \in Seq(P)
    PROVE  RemoveMarkup(t) = Kept(t, 1 .. Len(t) \ Hidden(t))
<1>1. DOMAIN t = 1 .. Len(t) /\ Len(t) \in Nat
  BY LenProperties
<1>2. \A o \in 1 .. Len(t) : At(t, o, Open) <=> OpenTag(t, o)
  BY OpenAt DEF OpenTag
<1>3. \A i \in 1 .. Len(t) : \A o \in 1 .. i : o \in 1 .. Len(t)
  BY <1>1
<1>4. Noise(t) = {i \in 1 .. Len(t) : Noisy(t, i)}
  BY <1>1, <1>2, <1>3 DEF Noise, Noisy
<1>5. Residual(t) = {i \in 1 .. Len(t) : t[i] \in Closing \/ InTag(t, i)}
  BY <1>1, <1>2, <1>3 DEF Residual, InTag
<1>6. Noise(t) \cup Residual(t) = Hidden(t)
  BY <1>4, <1>5 DEF Hidden
<1>7. QED
  BY <1>1, <1>6 DEF RemoveMarkup

\* A tag of a part is a tag of the text that ends within the part.
LEMMA OpenInPart ==
    ASSUME NEW P, NEW t \in Seq(P), NEW u \in Seq(P), NEW k, Part(u, t, k),
           NEW o \in 1 .. Len(u)
    PROVE  OpenTag(u, o) <=> OpenTag(t, k + o) /\ k + o + 2 <= k + Len(u)
<1>1. /\ k \in Nat /\ Len(t) \in Nat /\ Len(u) \in Nat /\ k + Len(u) <= Len(t)
      /\ \A i \in 1 .. Len(u) : u[i] = t[k + i] /\ k + i \in 1 .. Len(t)
  BY LenProperties DEF Part
<1>2. o + 2 <= Len(u) <=> k + o + 2 <= k + Len(u)
  BY <1>1
<1>3. CASE o + 2 <= Len(u)
  <2>1. o + 1 \in 1 .. Len(u) /\ o + 2 \in 1 .. Len(u) /\ (k + o) + 2 <= Len(t)
    BY <1>1, <1>3
  <2>2. k + (o + 1) = (k + o) + 1 /\ k + (o + 2) = (k + o) + 2
    BY <1>1
  <2>3. u[o] = t[k + o] /\ u[o + 1] = t[k + (o + 1)] /\ u[o + 2] = t[k + (o + 2)]
    BY <1>1, <2>1
  <2>4. u[o + 1] = t[(k + o) + 1] /\ u[o + 2] = t[(k + o) + 2]
    BY <2>2, <2>3
  <2>5. QED
    BY <1>2, <1>3, <2>1, <2>3, <2>4 DEF OpenTag
<1>4. QED
  BY <1>2, <1>3 DEF OpenTag

\* All of a tag is hidden.
LEMMA OpenIsHidden ==
    ASSUME NEW P, NEW t \in Seq(P), NEW o \in 1 .. Len(t), OpenTag(t, o)
    PROVE  o \in Hidden(t) /\ o + 1 \in Hidden(t) /\ o + 2 \in Hidden(t)
<1>1. /\ o + 2 \in 1 .. Len(t) /\ o + 1 \in 1 .. Len(t)
      /\ o \in 1 .. o /\ o \in 1 .. o + 1 /\ o \in 1 .. o + 2
      /\ o + 2 >= o /\ o + 2 >= o + 1 /\ o + 2 >= o + 2
  BY LenProperties DEF OpenTag
<1>2. InTag(t, o) /\ InTag(t, o + 1) /\ InTag(t, o + 2)
  BY <1>1 DEF InTag
<1>3. QED
  BY <1>1, <1>2 DEF Hidden

\* What is hidden in a part is hidden in the whole; and if all that is hidden is in the
\* part, it is hidden there.
LEMMA HiddenInPart ==
    ASSUME NEW P, NEW t \in Seq(P), NEW u \in Seq(P), NEW k, Part(u, t, k)
    PROVE  /\ \A i \in Hidden(u) : k + i \in Hidden(t)
           /\ (\A h \in Hidden(t) : h \in k + 1 .. k + Len(u)) =>
                  \A i \in 1 .. Len(u) : k + i \in Hidden(t) => i \in Hidden(u)
<1>1. /\ k \in Nat /\ Len(t) \in Nat /\ Len(u) \in Nat /\ k + Len(u) <= Len(t)
      /\ \A i \in 1 .. Len(u) : u[i] = t[k + i] /\ k + i \in 1 .. Len(t)
  BY LenProperties DEF Part
<1>2. \A o \in 1 .. Len(u) : OpenTag(u, o) <=> OpenTag(t, k + o) /\ k + o + 2 <= k + Len(u)
  BY OpenInPart
<1>3. ASSUME NEW i \in Hidden(u) PROVE k + i \in Hidden(t)
  <2>1. i \in 1 .. Len(u) /\ k + i \in 1 .. Len(t) /\ u[i] = t[k + i]
    BY <1>1 DEF Hidden
  <2>2. CASE u[i] \in Closing
    BY <2>1, <2>2 DEF Hidden
  <2>3. CASE InTag(u, i)
    <3>1. PICK o \in 1 .. i : o + 2 >= i /\ OpenTag(u, o)
      BY <2>3 DEF InTag
    <3>2. o \in 1 .. Len(u) /\ k + o \in 1 .. k + i /\ (k + o) + 2 >= k + i
      BY <1>1, <2>1, <3>1
    <3>3. InTag(t, k + i)
      BY <1>2, <3>1, <3>2 DEF InTag
    <3>4. QED
      BY <2>1, <3>3 DEF Hidden
  <2>4. CASE Noisy(u, i)
    <3>1. PICK o \in 1 .. i, e \in i .. Len(u) :
              /\ u[o] \in Calls \/ OpenTag(u, o)
              /\ u[e] \in Closing
              /\ \A j \in o .. e - 1 : u[j] \notin Closing
      BY <2>4 DEF Noisy
    <3>2. /\ o \in 1 .. Len(u) /\ e \in 1 .. Len(u)
          /\ k + o \in 1 .. k + i /\ k + e \in k + i .. Len(t)
      BY <1>1, <2>1
    <3>3. t[k + o] \in Calls \/ OpenTag(t, k + o)
      BY <1>1, <1>2, <3>1, <3>2
    <3>4. t[k + e] \in Closing
      BY <1>1, <3>1, <3>2
    <3>5. ASSUME NEW j \in k + o .. (k + e) - 1 PROVE t[j] \notin Closing
      <4>1. j - k \in o .. e - 1 /\ j - k \in 1 .. Len(u) /\ k + (j - k) = j
        BY <1>1, <3>2
      <4>2. u[j - k] = t[j]
        BY <1>1, <4>1
      <4>3. QED
        BY <3>1, <4>1, <4>2
    <3>6. Noisy(t, k + i)
      BY <3>2, <3>3, <3>4, <3>5 DEF Noisy
    <3>7. QED
      BY <2>1, <3>6 DEF Hidden
  <2>5. QED
    BY <2>2, <2>3, <2>4 DEF Hidden
<1>4. ASSUME \A h \in Hidden(t) : h \in k + 1 .. k + Len(u),
             NEW i \in 1 .. Len(u), k + i \in Hidden(t)
      PROVE  i \in Hidden(u)
  <2>1. k + i \in 1 .. Len(t) /\ u[i] = t[k + i]
    BY <1>1
  <2>2. CASE t[k + i] \in Closing
    BY <2>1, <2>2 DEF Hidden
  <2>3. ASSUME NEW o \in 1 .. Len(t), OpenTag(t, o)
        PROVE  o - k \in 1 .. Len(u) /\ k + (o - k) = o /\ OpenTag(u, o - k)
    <3>2. o \in Hidden(t) /\ o + 2 \in Hidden(t)
      BY <2>3, OpenIsHidden
    <3>3. o \in k + 1 .. k + Len(u) /\ o + 2 \in k + 1 .. k + Len(u)
      BY <1>4, <3>2
    <3>4. o - k \in 1 .. Len(u) /\ k + (o - k) = o /\ k + (o - k) + 2 <= k + Len(u)
      BY <1>1, <3>3
    <3>5. QED
      BY <1>2, <2>3, <3>4
  <2>4. CASE InTag(t, k + i)
    <3>1. PICK o \in 1 .. k + i : o + 2 >= k + i /\ OpenTag(t, o)
      BY <2>4 DEF InTag
    <3>2. o \in 1 .. Len(t)
      BY <1>1, <2>1
    <3>3. o - k \in 1 .. Len(u) /\ OpenTag(u, o - k)
      BY <2>3, <3>1, <3>2
    <3>4. o - k \in 1 .. i /\ (o - k) + 2 >= i
      BY <1>1, <3>1, <3>3
    <3>5. QED
      BY <3>3, <3>4 DEF Hidden, InTag
  <2>5. CASE Noisy(t, k + i)
    <3>1. PICK o \in 1 .. k + i, e \in k + i .. Len(t) :
              /\ t[o] \in Calls \/ OpenTag(t, o)
              /\ t[e] \in Closing
              /\ \A j \in o .. e - 1 : t[j] \notin Closing
      BY <2>5 DEF Noisy
    <3>2. o \in 1 .. Len(t) /\ e \in 1 .. Len(t) /\ o <= e
      BY <1>1, <2>1
    <3>3. o \in Hidden(t)
      <4>1. o \in 1 .. o /\ e \in o .. Len(t)
        BY <3>2
      <4>2. Noisy(t, o)
        BY <3>1, <4>1 DEF Noisy
      <4>3. QED
        BY <3>2, <4>2 DEF Hidden
    <3>4. e \in Hidden(t)
      BY <3>1, <3>2 DEF Hidden
    <3>5. o \in k + 1 .. k + Len(u) /\ e \in k + 1 .. k + Len(u)
      BY <1>4, <3>3, <3>4
    <3>6. /\ o - k \in 1 .. Len(u) /\ k + (o - k) = o /\ o - k \in 1 .. i
          /\ e - k \in 1 .. Len(u) /\ k + (e - k) = e /\ e - k \in i .. Len(u)
      BY <1>1, <3>1, <3>5
    <3>7. u[o - k] = t[o] /\ u[e - k] = t[e]
      BY <1>1, <3>6
    <3>8. u[o - k] \in Calls \/ OpenTag(u, o - k)
      BY <2>3, <3>1, <3>2, <3>7
    <3>9. ASSUME NEW j \in o - k .. (e - k) - 1 PROVE u[j] \notin Closing
      <4>1. j \in 1 .. Len(u) /\ k + j \in o .. e - 1
        BY <1>1, <3>2, <3>6
      <4>2. u[j] = t[k + j]
        BY <1>1, <4>1
      <4>3. QED
        BY <3>1, <4>1, <4>2
    <3>10. Noisy(u, i)
      BY <3>1, <3>6, <3>7, <3>8, <3>9 DEF Noisy
    <3>11. QED
      BY <3>10 DEF Hidden
  <2>6. QED
    BY <2>1, <2>2, <2>4, <2>5, <1>4 DEF Hidden
<1>5. QED
  BY <1>3, <1>4

\* A text without closing tags and without the name of a wrapper is shown as it is.
Plain(t) == \A i \in 1 .. Len(t) : t[i] \notin Closing /\ t[i] # "ml_tool_calls"

\* Nothing is hidden of a plain text.
LEMMA PlainIsShown ==
    ASSUME NEW P, NEW t \in Seq(P), Plain(t)
    PROVE  RemoveMarkup(t) = t
<1>1. Len(t) \in Nat
  BY LenProperties
<1>2. \A o \in 1 .. Len(t) : ~OpenTag(t, o)
  <2> SUFFICES ASSUME NEW o \in 1 .. Len(t), OpenTag(t, o) PROVE FALSE
    OBVIOUS
  <2>1. o + 1 \in 1 .. Len(t) /\ t[o + 1] = "ml_tool_calls"
    BY <1>1 DEF OpenTag
  <2>2. QED
    BY <2>1 DEF Plain
<1>3. ASSUME NEW i \in 1 .. Len(t) PROVE i \notin Hidden(t)
  <2>1. t[i] \notin Closing
    BY DEF Plain
  <2>2. ~InTag(t, i)
    <3>1. \A o \in 1 .. i : o \in 1 .. Len(t)
      BY <1>1
    <3>2. QED
      BY <1>2, <3>1 DEF InTag
  <2>3. ~Noisy(t, i)
    <3>1. \A e \in i .. Len(t) : e \in 1 .. Len(t)
      BY <1>1
    <3>2. QED
      BY <3>1 DEF Noisy, Plain
  <2>4. QED
    BY <2>1, <2>2, <2>3 DEF Hidden
<1>4. (1 .. Len(t)) \ Hidden(t) = 1 .. Len(t)
  BY <1>3
<1>5. QED
  BY <1>4, RemoveMarkupIs, KeptAll

-----------------------------------------------------------------------------

\* The name of a wrapper is hidden wherever it is written.
NamesHidden(t) == \A i \in 1 .. Len(t) : t[i] = "ml_tool_calls" => i \in Hidden(t)

\* What RemoveMarkup shows is plain, so that removing markup again changes nothing.
LEMMA ShownIsPlain ==
    ASSUME NEW P, NEW t \in Seq(P), NamesHidden(t)
    PROVE  /\ RemoveMarkup(t) \in Seq(P)
           /\ Plain(RemoveMarkup(t))
           /\ RemoveMarkup(RemoveMarkup(t)) = RemoveMarkup(t)
<1> DEFINE S == (1 .. Len(t)) \ Hidden(t)
           w == Kept(t, S)
<1>1. RemoveMarkup(t) = w
  BY RemoveMarkupIs
<1>2. w \in Seq(P)
  BY KeptText
<1>3. PICK f : \A m \in 1 .. Len(w) : f[m] \in S /\ w[m] = t[f[m]]
  BY KeptText
<1> HIDE DEF w
<1>4. \A i \in S : t[i] \notin Closing /\ t[i] # "ml_tool_calls"
  BY DEF NamesHidden, Hidden
<1>5. Plain(w)
  BY <1>3, <1>4 DEF Plain
<1>6. QED
  BY <1>1, <1>2, <1>5, PlainIsShown

\* Nothing of what is hidden is cut off at either end of a part.
Uncut(t, k, n) ==
    \/ \A h \in Hidden(t) : h \notin k + 1 .. n
    \/ \A h \in Hidden(t) : h \in k + 1 .. n

\* Such a part is shown as in the whole.
LEMMA ShownPart ==
    ASSUME NEW P, NEW t \in Seq(P), NEW u \in Seq(P), NEW k, Part(u, t, k),
           NamesHidden(t), Uncut(t, k, k + Len(u))
    PROVE  /\ RemoveMarkup(u) = Kept(t, (k + 1 .. k + Len(u)) \ Hidden(t))
           /\ NamesHidden(u)
<1> DEFINE n == k + Len(u)
           S == (k + 1 .. n) \ Hidden(t)
           R == (1 .. Len(u)) \ Hidden(u)
<1>1. /\ k \in Nat /\ Len(t) \in Nat /\ Len(u) \in Nat /\ n <= Len(t)
      /\ \A i \in 1 .. Len(u) : u[i] = t[k + i] /\ k + i \in 1 .. Len(t)
  BY LenProperties DEF Part
<1>2. /\ \A i \in Hidden(u) : k + i \in Hidden(t)
      /\ (\A h \in Hidden(t) : h \in k + 1 .. n) =>
             \A i \in 1 .. Len(u) : k + i \in Hidden(t) => i \in Hidden(u)
  BY HiddenInPart
<1>3. \A i \in 1 .. Len(u) : k + i \in Hidden(t) => i \in Hidden(u)
  <2>1. CASE \A h \in Hidden(t) : h \notin k + 1 .. n
    <3>1. \A i \in 1 .. Len(u) : k + i \in k + 1 .. n
      BY <1>1
    <3>2. QED
      BY <2>1, <3>1
  <2>2. QED
    BY <1>2, <2>1 DEF Uncut
<1>4. R \in SUBSET (1 .. Len(u))
  OBVIOUS
<1>5. S = Moved(R, k)
  <2>1. \A i \in R : k + i \in S
    <3>1. \A i \in 1 .. Len(u) : k + i \in k + 1 .. n
      BY <1>1
    <3>2. QED
      BY <1>3, <3>1
  <2>2. \A s \in S : s - k \in R /\ k + (s - k) = s
    <3>1. \A s \in S : s - k \in 1 .. Len(u) /\ k + (s - k) = s
      BY <1>1
    <3>2. QED
      BY <1>2, <3>1
  <2>3. QED
    BY <2>1, <2>2 DEF Moved
<1>6. Kept(u, R) = Kept(t, S)
  <2> HIDE DEF R, S
  <2>1. Kept(u, R) = Kept(t, Moved(R, k))
    BY <1>4, KeptOfPart
  <2>2. QED
    BY <1>5, <2>1
<1>7. NamesHidden(u)
  BY <1>1, <1>3 DEF NamesHidden
<1>8. QED
  BY <1>6, <1>7, RemoveMarkupIs

-----------------------------------------------------------------------------

\* Opening tags at the beginning of a text are taken off.
LEMMA StripIs ==
    ASSUME NEW P, NEW t \in Seq(P)
    PROVE  /\ ~OpenTag(t, 1) => stripMalformedToolPreludePrefix(t) = t
           /\ (OpenTag(t, 1) /\ ~OpenTag(t, 4)) =>
                 stripMalformedToolPreludePrefix(t) = SubSeq(t, 4, Len(t))
<1> DEFINE tags == {n \in 0 .. Len(t) : \A m \in 0 .. n - 1 : At(t, 3 * m + 1, Open)}
<1>1. Len(t) \in Nat
  BY LenProperties
<1>2. stripMalformedToolPreludePrefix(t) = SubSeq(t, 3 * Max(tags) + 1, Len(t))
  BY DEF stripMalformedToolPreludePrefix
<1>3. Open \in Seq({"<", "ml_tool_calls", ">"}) /\ Len(Open) = 3
  BY OpenIs
<1>4. ASSUME NEW i \in 1 .. Len(t) + 1
      PROVE  At(t, i, Open) <=> OpenTag(t, i)
  <2>1. CASE i <= Len(t)
    <3>1. i \in 1 .. Len(t)
      BY <2>1
    <3>2. QED
      BY <3>1, OpenAt DEF OpenTag
  <2>2. CASE ~(i <= Len(t))
    <3>1. ~(i + Len(Open) <= Len(t) + 1) /\ ~(i + 2 <= Len(t))
      BY <1>1, <1>3, <2>2
    <3>2. ~At(t, i, Open)
      BY <1>3, <3>1, AtIs
    <3>3. QED
      BY <3>1, <3>2 DEF OpenTag
  <2>3. QED
    BY <2>1, <2>2
<1>5. At(t, 1, Open) <=> OpenTag(t, 1)
  BY <1>1, <1>4
<1>6. ASSUME ~OpenTag(t, 1)
      PROVE  stripMalformedToolPreludePrefix(t) = t
  <2>1. \A n \in tags : n = 0
    <3> SUFFICES ASSUME NEW n \in tags, n # 0 PROVE FALSE
      OBVIOUS
    <3>1. n \in Nat /\ 0 \in 0 .. n - 1 /\ 3 * 0 + 1 = 1
      BY <1>1
    <3>2. At(t, 1, Open)
      BY <3>1
    <3>3. QED
      BY <1>5, <1>6, <3>2
  <2>2. tags = {0}
    <3>1. 0 \in tags
      BY <1>1
    <3>2. QED
      BY <2>1, <3>1
  <2> HIDE DEF tags
  <2>3. Max(tags) = 0
    <3>1. /\ {0} \in SUBSET (1 - 1 .. 0) /\ {0} # {}
      OBVIOUS
    <3>2. \E x \in {0} : \A y \in {0} : x >= y
      OBVIOUS
    <3>3. QED
      BY <2>2, <3>2 DEF Max
  <2>4. 3 * Max(tags) + 1 = 1
    BY <2>3
  <2>5. QED
    BY <1>2, <2>4, SubSeqFull
<1>7. ASSUME OpenTag(t, 1), ~OpenTag(t, 4)
      PROVE  stripMalformedToolPreludePrefix(t) = SubSeq(t, 4, Len(t))
  <2>1. 3 <= Len(t)
    BY <1>1, <1>7 DEF OpenTag
  <2>2. \A n \in tags : n \in {0, 1}
    <3> SUFFICES ASSUME NEW n \in tags, n \notin {0, 1} PROVE FALSE
      OBVIOUS
    <3>1. n \in Nat /\ 1 \in 0 .. n - 1 /\ 3 * 1 + 1 = 4
      BY <1>1
    <3>2. At(t, 4, Open)
      BY <3>1
    <3>3. 4 \in 1 .. Len(t) + 1
      BY <1>1, <2>1
    <3>4. QED
      BY <1>4, <1>7, <3>2, <3>3
  <2>3. 1 \in tags
    <3>1. 1 \in 0 .. Len(t) /\ \A m \in 0 .. 1 - 1 : m = 0 /\ 3 * m + 1 = 1
      BY <1>1, <2>1
    <3>2. QED
      BY <1>5, <1>7, <3>1
  <2> HIDE DEF tags
  <2>4. Max(tags) = 1
    <3>1. \A y \in tags : 1 >= y
      BY <2>2
    <3>2. \A x \in tags : (\A y \in tags : x >= y) => x = 1
      BY <2>2, <2>3
    <3>3. QED
      BY <2>3, <3>1, <3>2 DEF Max
  <2>5. 3 * Max(tags) + 1 = 4
    BY <2>4
  <2>6. QED
    BY <1>2, <2>5
<1>8. QED
  BY <1>6, <1>7

-----------------------------------------------------------------------------

\* Taking an opening tag off a text, in which a tag is closed only if a call
\* follows at once, hides no more than hiding all tags does.
LEMMA StripHides ==
    ASSUME NEW P, NEW t \in Seq(P), NamesHidden(t),
           \A o \in 1 .. Len(t) : \A i \in 1 .. Len(t) : OpenTag(t, o) /\ OpenTag(t, i) => o = i,
           \A i \in 1 .. Len(t) : OpenTag(t, 1) /\ t[i] \in Closing => t[4] \in Calls
    PROVE  RemoveMarkup(stripMalformedToolPreludePrefix(t)) = RemoveMarkup(t)
<1>1. Len(t) \in Nat
  BY LenProperties
<1>2. CASE ~OpenTag(t, 1)
  BY <1>2, StripIs
<1>3. CASE OpenTag(t, 1)
  <2>1. 3 <= Len(t) /\ t[1] = "<" /\ t[2] = "ml_tool_calls" /\ t[3] = ">"
    BY <1>1, <1>3 DEF OpenTag
  <2>2. \A o \in 1 .. Len(t) : OpenTag(t, o) => o = 1
    <3>1. 1 \in 1 .. Len(t)
      BY <1>1, <2>1
    <3>2. QED
      BY <1>3, <3>1
  <2>3. ~OpenTag(t, 4)
    <3>1. OpenTag(t, 4) => 4 \in 1 .. Len(t)
      BY <1>1 DEF OpenTag
    <3>2. QED
      BY <2>2, <3>1
  <2> DEFINE u == SubSeq(t, 4, Len(t))
             L == Len(t) - 3
  <2>4. stripMalformedToolPreludePrefix(t) = u
    BY <1>3, <2>3, StripIs
  <2>5. /\ u \in Seq(P) /\ Len(u) = L /\ L \in Nat
        /\ \A i \in 1 .. L : u[i] = t[3 + i]
    <3>1. 4 \in Nat \ {0} /\ Len(t) \in Nat /\ Len(t) <= Len(t)
      BY <1>1
    <3>2. /\ u \in Seq(P)
          /\ Len(u) = IF 4 <= Len(t) THEN Len(t) - 4 + 1 ELSE 0
          /\ \A i \in 1 .. (Len(t) - 4 + 1) : u[i] = t[4 + i - 1]
      BY <3>1, Cut
    <3> HIDE DEF u
    <3>3. Len(u) = L /\ L \in Nat
      <4>1. L \in Nat
        BY <1>1, <2>1
      <4>2. CASE 4 <= Len(t)
        <5>1. Len(u) = Len(t) - 4 + 1
          BY <3>2, <4>2
        <5>2. QED
          BY <1>1, <4>1, <5>1
      <4>3. CASE ~(4 <= Len(t))
        <5>1. Len(u) = 0
          BY <3>2, <4>3
        <5>2. Len(t) = 3
          <6>1. 3 <= Len(t)
            BY <2>1
          <6>2. \A n \in Nat : 3 <= n /\ ~(4 <= n) => n = 3
            OBVIOUS
          <6>3. QED
            BY <1>1, <4>3, <6>1, <6>2
        <5>3. QED
          BY <4>1, <5>1, <5>2
      <4>4. QED
        BY <4>2, <4>3
    <3>4. \A i \in 1 .. L : i \in 1 .. (Len(t) - 4 + 1) /\ 4 + i - 1 = 3 + i
      BY <1>1
    <3>5. QED
      BY <3>2, <3>3, <3>4
  <2> HIDE DEF u
  <2>6. Part(u, t, 3)
    BY <1>1, <2>5 DEF Part
  <2>7. \A i \in Hidden(u) : 3 + i \in Hidden(t)
    BY <2>5, <2>6, HiddenInPart
  <2> HIDE DEF L
  <2>8. \A i \in 1 .. L : 3 + i \in 1 .. Len(t)
    BY <1>1, <2>5 DEF L
  <2>9. ASSUME NEW i \in 1 .. L, 3 + i \in Hidden(t)
        PROVE  i \in Hidden(u)
    <3>1. u[i] = t[3 + i]
      BY <2>5
    <3>2. CASE t[3 + i] \in Closing
      BY <2>5, <3>1, <3>2 DEF Hidden
    <3>3. ~InTag(t, 3 + i)
      <4> SUFFICES ASSUME NEW o \in 1 .. 3 + i, o + 2 >= 3 + i, OpenTag(t, o) PROVE FALSE
        BY DEF InTag
      <4>1. o \in 1 .. Len(t)
        BY <1>1, <2>5, <2>8
      <4>2. o = 1
        BY <2>2, <4>1
      <4>3. QED
        BY <2>5, <4>2
    <3>4. CASE Noisy(t, 3 + i)
      <4>1. PICK o \in 1 .. 3 + i, e \in 3 + i .. Len(t) :
                /\ t[o] \in Calls \/ OpenTag(t, o)
                /\ t[e] \in Closing
                /\ \A j \in o .. e - 1 : t[j] \notin Closing
        BY <3>4 DEF Noisy
      <4>2. /\ e \in 1 .. Len(t) /\ o \in 1 .. Len(t) /\ e - 3 \in i .. L
            /\ e - 3 \in 1 .. L /\ 3 + (e - 3) = e
        BY <1>1, <2>5, <2>8 DEF L
      <4>3. PICK c \in 4 .. 3 + i : t[c] \in Calls /\ \A j \in c .. e - 1 : t[j] \notin Closing
        <5>1. CASE OpenTag(t, o)
          <6>1. o = 1
            BY <2>2, <4>2, <5>1
          <6>2. t[4] \in Calls
            BY <4>1, <4>2, <1>3
          <6>3. 4 \in 4 .. 3 + i /\ \A j \in 4 .. e - 1 : j \in o .. e - 1
            BY <2>5, <4>2, <6>1
          <6>4. QED
            BY <4>1, <6>2, <6>3
        <5>2. CASE t[o] \in Calls
          <6>1. o # 1 /\ o # 2 /\ o # 3
            BY <2>1, <5>2, CallsAssumption
          <6>2. o \in 4 .. 3 + i
            BY <4>2, <6>1
          <6>3. QED
            BY <4>1, <5>2, <6>2
        <5>3. QED
          BY <4>1, <5>1, <5>2
      <4>4. c - 3 \in 1 .. i /\ c - 3 \in 1 .. L /\ 3 + (c - 3) = c
        BY <2>5
      <4>5. u[c - 3] \in Calls /\ u[e - 3] \in Closing
        <5>1. u[c - 3] = t[3 + (c - 3)] /\ u[e - 3] = t[3 + (e - 3)]
          BY <2>5, <4>2, <4>4
        <5>2. QED
          BY <4>1, <4>2, <4>3, <4>4, <5>1
      <4>6. ASSUME NEW j \in c - 3 .. (e - 3) - 1 PROVE u[j] \notin Closing
        <5>1. j \in 1 .. L /\ 3 + j \in c .. e - 1
          BY <2>5, <4>2, <4>4
        <5>2. u[j] = t[3 + j]
          BY <2>5, <5>1
        <5>3. QED
          BY <4>3, <5>1, <5>2
      <4>7. Noisy(u, i)
        BY <2>5, <4>2, <4>4, <4>5, <4>6 DEF Noisy
      <4>8. QED
        BY <2>5, <4>7 DEF Hidden
    <3>5. QED
      BY <2>9, <3>2, <3>3, <3>4 DEF Hidden
  <2>10. \A i \in {1, 2, 3} : i \in Hidden(t)
    <3>1. \A i \in {1, 2, 3} : i \in 1 .. Len(t) /\ 1 \in 1 .. i /\ 1 + 2 >= i
      BY <1>1, <2>1
    <3>2. QED
      BY <1>3, <3>1 DEF Hidden, InTag
  <2> DEFINE R == (1 .. L) \ Hidden(u)
             S == (1 .. Len(t)) \ Hidden(t)
  <2>11. S = Moved(R, 3)
    <3>1. \A i \in R : 3 + i \in S
      BY <2>8, <2>9
    <3>2. \A s \in S : s - 3 \in R /\ 3 + (s - 3) = s
      <4>1. \A s \in S : s - 3 \in 1 .. L /\ 3 + (s - 3) = s
        <5> SUFFICES ASSUME NEW s \in S PROVE s - 3 \in 1 .. L /\ 3 + (s - 3) = s
          OBVIOUS
        <5>1. s # 1 /\ s # 2 /\ s # 3
          BY <2>10
        <5>2. QED
          BY <1>1, <5>1 DEF L
      <4>2. QED
        BY <2>7, <4>1
    <3>3. QED
      BY <3>1, <3>2 DEF Moved
  <2>12. Kept(u, R) = Kept(t, Moved(R, 3))
    <3>1. R \in SUBSET (1 .. Len(u))
      BY <2>5
    <3> HIDE DEF R
    <3>2. QED
      BY <2>5, <2>6, <3>1, KeptOfPart
  <2>13. RemoveMarkup(u) = Kept(u, R) /\ RemoveMarkup(t) = Kept(t, S)
    BY <2>5, RemoveMarkupIs
  <2>14. QED
    BY <2>4, <2>11, <2>12, <2>13
<1>4. QED
  BY <1>2, <1>3

-----------------------------------------------------------------------------
(* What is called in a part. *)

\* The calls that are closed, said with ClosedAt, ...
LEMMA ClosedIs ==
    ASSUME NEW P, NEW t \in Seq(P)
    PROVE  Closed(t) = {i \in 1 .. Len(t) : ClosedAt(t, i)}
<1> DEFINE close == <<"</ml_tool_call>">>
<1>1. Len(t) \in Nat /\ DOMAIN t = 1 .. Len(t)
  BY LenProperties
<1>2. close \in Seq({"</ml_tool_call>"}) /\ Len(close) = 1 /\ close[1] = "</ml_tool_call>"
  OBVIOUS
<1>3. Closed(t) = {i \in DOMAIN t : t[i] \in Calls /\ At(t, i + 1, close)}
  BY DEF Closed
<1> HIDE DEF close
<1>4. ASSUME NEW i \in 1 .. Len(t)
      PROVE  At(t, i + 1, close) <=> i + 1 <= Len(t) /\ t[i + 1] = "</ml_tool_call>"
  <2>1. i + 1 \in 1 .. Len(t) + 1
    BY <1>1
  <2>2. At(t, i + 1, close) <=> /\ (i + 1) + Len(close) <= Len(t) + 1
                                /\ \A j \in 1 .. Len(close) : t[(i + 1) + j - 1] = close[j]
    BY <1>2, <2>1, AtIs
  <2>3. (\A j \in 1 .. 1 : t[(i + 1) + j - 1] = close[j]) <=> t[i + 1] = close[1]
    <3>1. 1 .. 1 = {1} /\ (i + 1) + 1 - 1 = i + 1
      BY <1>1
    <3>2. QED
      BY <3>1
  <2>4. (i + 1) + 1 <= Len(t) + 1 <=> i + 1 <= Len(t)
    BY <1>1
  <2>5. QED
    BY <1>2, <2>2, <2>3, <2>4
<1>5. QED
  BY <1>1, <1>3, <1>4 DEF ClosedAt

\* i is in a closed wrapper.
InWrapper(t, i) ==
    \E o \in 1 .. i, e \in i .. Len(t) :
        /\ OpenTag(t, o)
        /\ t[e] = "</ml_tool_calls>"
        /\ \A j \in o .. e - 1 : t[j] # "</ml_tool_calls>"

\* ... and those of them in a wrapper.
LEMMA WrappedIs ==
    ASSUME NEW P, NEW t \in Seq(P)
    PROVE  Wrapped(t) = {i \in 1 .. Len(t) : ClosedAt(t, i) /\ InWrapper(t, i)}
<1>1. Len(t) \in Nat
  BY LenProperties
<1>2. \A o \in 1 .. Len(t) : At(t, o, Open) <=> OpenTag(t, o)
  BY OpenAt DEF OpenTag
<1>3. \A i \in 1 .. Len(t) : \A o \in 1 .. i : o \in 1 .. Len(t)
  BY <1>1
<1>4. Wrapped(t) = {i \in Closed(t) : InWrapper(t, i)}
  <2>1. \A i \in Closed(t) : i \in 1 .. Len(t)
    BY ClosedIs
  <2>2. QED
    BY <1>2, <1>3, <2>1 DEF Wrapped, InWrapper
<1>5. QED
  BY <1>4, ClosedIs

\* A call that is closed is hidden, and so is the wrapper it is in.
LEMMA ClosedIsHidden ==
    ASSUME NEW P, NEW t \in Seq(P), NEW i \in 1 .. Len(t), ClosedAt(t, i)
    PROVE  i \in Hidden(t) /\ i + 1 \in Hidden(t)
<1>1. Len(t) \in Nat /\ i + 1 \in 1 .. Len(t) /\ t[i] \in Calls /\ t[i + 1] \in Closing
  BY LenProperties DEF ClosedAt, Closing
<1>2. t[i] \notin Closing
  BY <1>1, CallsAssumption
<1>3. Noisy(t, i)
  <2>1. i \in 1 .. i /\ i + 1 \in i .. Len(t) /\ \A j \in i .. (i + 1) - 1 : j = i
    BY <1>1
  <2>2. QED
    BY <1>1, <1>2, <2>1 DEF Noisy
<1>4. QED
  BY <1>1, <1>3 DEF Hidden

\* A closed call of a part is one of the text whose closing tag is in the part.
LEMMA ClosedInPart ==
    ASSUME NEW P, NEW t \in Seq(P), NEW u \in Seq(P), NEW k, Part(u, t, k),
           NEW i \in 1 .. Len(u)
    PROVE  ClosedAt(u, i) <=> ClosedAt(t, k + i) /\ k + i + 1 <= k + Len(u)
<1>1. /\ k \in Nat /\ Len(t) \in Nat /\ Len(u) \in Nat /\ k + Len(u) <= Len(t)
      /\ \A j \in 1 .. Len(u) : u[j] = t[k + j]
  BY LenProperties DEF Part
<1>2. i + 1 <= Len(u) <=> k + i + 1 <= k + Len(u)
  BY <1>1
<1>3. CASE i + 1 <= Len(u)
  <2>1. i + 1 \in 1 .. Len(u) /\ k + (i + 1) = (k + i) + 1 /\ (k + i) + 1 <= Len(t)
    BY <1>1, <1>3
  <2>2. u[i] = t[k + i] /\ u[i + 1] = t[k + (i + 1)]
    BY <1>1, <2>1
  <2>3. u[i + 1] = t[(k + i) + 1]
    BY <2>1, <2>2
  <2>4. QED
    BY <1>2, <1>3, <2>1, <2>2, <2>3 DEF ClosedAt
<1>4. QED
  BY <1>2, <1>3 DEF ClosedAt

\* A part with all that is hidden has all calls.
LEMMA CallsOfPart ==
    ASSUME NEW P, NEW t \in Seq(P), NEW u \in Seq(P), NEW k, Part(u, t, k),
           \A h \in Hidden(t) : h \in k + 1 .. k + Len(u)
    PROVE  ParseCalls(u) = ParseCalls(t)
<1> DEFINE n == Len(u)
           Found(s) == IF Wrapped(s) # {} THEN Wrapped(s) ELSE Closed(s)
           First(s) == {i \in Found(s) : \A j \in Found(s) : j < i => s[j] # s[i]}
<1>1. /\ k \in Nat /\ Len(t) \in Nat /\ n \in Nat /\ k + n <= Len(t)
      /\ \A i \in 1 .. n : u[i] = t[k + i] /\ k + i \in 1 .. Len(t)
  BY LenProperties DEF Part
<1> HIDE DEF n
<1>2. ASSUME NEW i \in 1 .. Len(t), ClosedAt(t, i)
      PROVE  i - k \in 1 .. n /\ k + (i - k) = i /\ ClosedAt(u, i - k)
  <2>1. i \in k + 1 .. k + n /\ i + 1 \in k + 1 .. k + n
    BY <1>2, ClosedIsHidden DEF n
  <2>2. i - k \in 1 .. n /\ k + (i - k) = i /\ k + (i - k) + 1 <= k + n
    BY <1>1, <2>1
  <2>3. QED
    BY <1>2, <2>2, ClosedInPart DEF n
<1>3. ASSUME NEW i \in 1 .. n
      PROVE  InWrapper(u, i) <=> InWrapper(t, k + i)
  <2>1. ASSUME InWrapper(u, i) PROVE InWrapper(t, k + i)
    <3>1. PICK o \in 1 .. i, e \in i .. n :
              /\ OpenTag(u, o)
              /\ u[e] = "</ml_tool_calls>"
              /\ \A j \in o .. e - 1 : u[j] # "</ml_tool_calls>"
      BY <2>1 DEF InWrapper, n
    <3>2. /\ o \in 1 .. n /\ e \in 1 .. n
          /\ k + o \in 1 .. k + i /\ k + e \in k + i .. Len(t)
      BY <1>1
    <3>3. OpenTag(t, k + o) /\ t[k + e] = "</ml_tool_calls>"
      BY <1>1, <3>1, <3>2, OpenInPart DEF n
    <3>4. ASSUME NEW j \in k + o .. (k + e) - 1 PROVE t[j] # "</ml_tool_calls>"
      <4>1. j - k \in o .. e - 1 /\ j - k \in 1 .. n /\ k + (j - k) = j
        BY <1>1, <3>2
      <4>2. u[j - k] = t[j]
        BY <1>1, <4>1
      <4>3. QED
        BY <3>1, <4>1, <4>2
    <3>5. QED
      BY <3>2, <3>3, <3>4 DEF InWrapper
  <2>2. ASSUME InWrapper(t, k + i) PROVE InWrapper(u, i)
    <3>1. PICK o \in 1 .. k + i, e \in k + i .. Len(t) :
              /\ OpenTag(t, o)
              /\ t[e] = "</ml_tool_calls>"
              /\ \A j \in o .. e - 1 : t[j] # "</ml_tool_calls>"
      BY <2>2 DEF InWrapper
    <3>2. o \in 1 .. Len(t) /\ e \in 1 .. Len(t) /\ k + i \in 1 .. Len(t)
      BY <1>1
    <3>3. o \in Hidden(t) /\ o + 2 \in Hidden(t)
      BY <3>1, <3>2, OpenIsHidden
    <3>4. e \in Hidden(t)
      BY <3>1, <3>2 DEF Hidden, Closing
    <3>5. o \in k + 1 .. k + n /\ o + 2 \in k + 1 .. k + n /\ e \in k + 1 .. k + n
      BY <3>3, <3>4 DEF n
    <3>6. /\ o - k \in 1 .. n /\ k + (o - k) = o /\ o - k \in 1 .. i
          /\ k + (o - k) + 2 <= k + n
          /\ e - k \in 1 .. n /\ k + (e - k) = e /\ e - k \in i .. n
      BY <1>1, <3>1, <3>5
    <3>7. OpenTag(u, o - k) /\ u[e - k] = "</ml_tool_calls>"
      <4>1. OpenTag(u, o - k)
        BY <3>1, <3>6, OpenInPart DEF n
      <4>2. u[e - k] = t[k + (e - k)]
        BY <1>1, <3>6
      <4>3. QED
        BY <3>1, <3>6, <4>1, <4>2
    <3>8. ASSUME NEW j \in o - k .. (e - k) - 1 PROVE u[j] # "</ml_tool_calls>"
      <4>1. j \in 1 .. n /\ k + j \in o .. e - 1
        BY <1>1, <3>2, <3>6
      <4>2. u[j] = t[k + j]
        BY <1>1, <4>1
      <4>3. QED
        BY <3>1, <4>1, <4>2
    <3>9. QED
      BY <3>6, <3>7, <3>8 DEF InWrapper, n
  <2>3. QED
    BY <2>1, <2>2
<1>4. \A i \in 1 .. n : ClosedAt(u, i) => ClosedAt(t, k + i) /\ k + i \in 1 .. Len(t)
  BY <1>1, ClosedInPart DEF n
<1>5. /\ \A i \in Closed(u) : k + i \in Closed(t)
      /\ \A i \in Closed(t) : i - k \in Closed(u) /\ k + (i - k) = i
  <2>1. Closed(t) = {i \in 1 .. Len(t) : ClosedAt(t, i)}
    BY ClosedIs
  <2>2. Closed(u) = {i \in 1 .. n : ClosedAt(u, i)}
    BY ClosedIs DEF n
  <2>3. QED
    BY <1>2, <1>4, <2>1, <2>2
<1>6. /\ \A i \in Wrapped(u) : k + i \in Wrapped(t)
      /\ \A i \in Wrapped(t) : i - k \in Wrapped(u) /\ k + (i - k) = i
  <2>1. Wrapped(t) = {i \in 1 .. Len(t) : ClosedAt(t, i) /\ InWrapper(t, i)}
    BY WrappedIs
  <2>2. Wrapped(u) = {i \in 1 .. n : ClosedAt(u, i) /\ InWrapper(u, i)}
    BY WrappedIs DEF n
  <2>3. QED
    BY <1>2, <1>3, <1>4, <2>1, <2>2
<1>7. /\ Closed(t) \subseteq 1 .. Len(t) /\ Closed(u) \subseteq 1 .. n
      /\ Wrapped(t) \subseteq Closed(t) /\ Wrapped(u) \subseteq Closed(u)
  <2>1. Closed(t) \subseteq 1 .. Len(t) /\ Closed(u) \subseteq 1 .. n
    BY ClosedIs DEF n
  <2>2. QED
    BY <2>1 DEF Wrapped
<1>8. /\ \A i \in Found(u) : k + i \in Found(t) /\ i \in 1 .. n
      /\ \A i \in Found(t) : i - k \in Found(u) /\ k + (i - k) = i /\ i \in 1 .. Len(t)
  <2>1. Wrapped(u) # {} <=> Wrapped(t) # {}
    BY <1>6
  <2>2. QED
    BY <1>5, <1>6, <1>7, <2>1
<1> HIDE DEF Found
<1>9. ASSUME NEW i \in First(u) PROVE k + i \in First(t)
  <2>1. i \in Found(u) /\ k + i \in Found(t) /\ i \in 1 .. n /\ u[i] = t[k + i]
    BY <1>1, <1>8
  <2>2. ASSUME NEW j \in Found(t), j < k + i PROVE t[j] # t[k + i]
    <3>1. j - k \in Found(u) /\ k + (j - k) = j /\ j - k \in 1 .. n
      BY <1>8
    <3>2. j - k < i /\ u[j - k] = t[j]
      BY <1>1, <1>8, <2>1, <2>2, <3>1
    <3>3. QED
      BY <2>1, <3>1, <3>2
  <2>3. QED
    BY <2>1, <2>2
<1>10. ASSUME NEW i \in First(t) PROVE i - k \in First(u) /\ k + (i - k) = i
  <2>1. /\ i \in Found(t) /\ i - k \in Found(u) /\ k + (i - k) = i /\ i - k \in 1 .. n
        /\ u[i - k] = t[i]
    BY <1>1, <1>8
  <2>2. ASSUME NEW j \in Found(u), j < i - k PROVE u[j] # u[i - k]
    <3>1. k + j \in Found(t) /\ j \in 1 .. n /\ u[j] = t[k + j]
      BY <1>1, <1>8
    <3>2. k + j < i
      BY <1>1, <1>8, <2>1, <2>2, <3>1
    <3>3. QED
      BY <2>1, <3>1, <3>2
  <2>3. QED
    BY <2>1, <2>2
<1>11. First(u) \in SUBSET (1 .. n)
  BY <1>8
<1>12. ParseCalls(u) = Kept(u, First(u)) /\ ParseCalls(t) = Kept(t, First(t))
  BY DEF ParseCalls, Found
<1> HIDE DEF First
<1>13. First(t) = Moved(First(u), k)
  BY <1>9, <1>10 DEF Moved
<1>14. Kept(u, First(u)) = Kept(t, Moved(First(u), k))
  BY <1>11, KeptOfPart DEF n
<1>15. QED
  BY <1>12, <1>13, <1>14

-----------------------------------------------------------------------------
(* Where an orderly text has markup. *)

\* A text with one tool block, in terms of its tags.
Names(t) ==
    \A i \in 1 .. Len(t) :
        t[i] = "ml_tool_calls" => \E o \in 1 .. Len(t) : OpenTag(t, o) /\ i = o + 1

OneWrapper(t) ==
    \A o \in 1 .. Len(t) : \A p \in 1 .. Len(t) : OpenTag(t, o) /\ OpenTag(t, p) => o = p

CallsInside(t) ==
    \A o \in 1 .. Len(t) : \A c \in 1 .. Len(t) :
        OpenTag(t, o) /\ t[c] \in Calls =>
            o < c /\ \A j \in o .. c : t[j] # "</ml_tool_calls>"

OneCall(t) ==
    (\A o \in 1 .. Len(t) : ~OpenTag(t, o)) =>
        \A c \in 1 .. Len(t) : \A d \in 1 .. Len(t) :
            t[c] \in Calls /\ t[d] \in Calls => c = d

CallsClosed(t) ==
    \A i \in 1 .. Len(t) : t[i] = "</ml_tool_call>" => i > 1 /\ t[i - 1] \in Calls

WrapperClosed(t) ==
    \A e \in 1 .. Len(t) : t[e] = "</ml_tool_calls>" =>
        \E o \in 1 .. e : OpenTag(t, o) /\ \A j \in o .. e - 1 : t[j] # "</ml_tool_calls>"

WrapperFull(t) ==
    \A o \in 1 .. Len(t) : \A i \in 1 .. Len(t) :
        OpenTag(t, o) /\ o < i /\ t[i] \in Closing =>
            t[o + 3] \in Calls /\ \E e \in i .. Len(t) : t[e] = "</ml_tool_calls>"

\* The shape of an orderly answer of somebody with tools.
Tidy(t) ==
    /\ Names(t) /\ OneWrapper(t) /\ CallsInside(t) /\ OneCall(t)
    /\ CallsClosed(t) /\ WrapperClosed(t) /\ WrapperFull(t)

\* A marker is the beginning of a tag, where names are written in tags only.
LEMMA MarkerIsTag ==
    ASSUME NEW P, NEW t \in Seq(P), Names(t), NEW o \in 1 .. Len(t)
    PROVE  At(t, o, Marker) <=> OpenTag(t, o)
<1>1. Len(t) \in Nat
  BY LenProperties
<1>2. At(t, o, Marker) <=> o + 1 <= Len(t) /\ t[o] = "<" /\ t[o + 1] = "ml_tool_calls"
  BY MarkerAt
<1>3. OpenTag(t, o) => At(t, o, Marker)
  <2>1. o + 2 <= Len(t) => o + 1 <= Len(t)
    BY <1>1
  <2>2. QED
    BY <1>2, <2>1 DEF OpenTag
<1>4. ASSUME At(t, o, Marker) PROVE OpenTag(t, o)
  <2>1. o + 1 \in 1 .. Len(t) /\ t[o + 1] = "ml_tool_calls"
    BY <1>1, <1>2, <1>4
  <2>2. PICK p \in 1 .. Len(t) : OpenTag(t, p) /\ o + 1 = p + 1
    BY <2>1 DEF Names
  <2>3. p = o
    BY <2>2
  <2>4. QED
    BY <2>2, <2>3
<1>5. QED
  BY <1>3, <1>4

\* An orderly answer of somebody with tools is tidy.
LEMMA OneToolIsTidy ==
    ASSUME NEW P, NEW t \in Seq(P), OneTool(t)
    PROVE  Tidy(t)
<1>1. Len(t) \in Nat /\ DOMAIN t = 1 .. Len(t)
  BY LenProperties
<1>2. Cardinality(ToolBlocks(t)) <= 1 /\ Complete(t)
  BY DEF OneTool
<1>3. \A o \in 1 .. Len(t) : At(t, o, Open) <=> OpenTag(t, o)
  BY OpenAt DEF OpenTag
<1>4. Names(t)
  <2> SUFFICES ASSUME NEW i \in 1 .. Len(t), t[i] = "ml_tool_calls"
               PROVE  \E o \in 1 .. Len(t) : OpenTag(t, o) /\ i = o + 1
    BY DEF Names
  <2>1. i > 1 /\ At(t, i - 1, Open)
    BY <1>1, <1>2 DEF Complete
  <2>2. i - 1 \in 1 .. Len(t) /\ i = (i - 1) + 1
    BY <1>1, <2>1
  <2>3. QED
    BY <1>3, <2>1, <2>2
<1>5. \A o \in 1 .. Len(t) : At(t, o, Marker) <=> OpenTag(t, o)
  BY <1>4, MarkerIsTag
<1>6. OneWrapper(t)
  <2> SUFFICES ASSUME NEW o \in 1 .. Len(t), NEW p \in 1 .. Len(t),
                      OpenTag(t, o), OpenTag(t, p)
               PROVE  o = p
    BY DEF OneWrapper
  <2>1. o \in firstMarker(t) /\ p \in firstMarker(t)
    BY <1>1, <1>5 DEF firstMarker
  <2>2. t[o] \notin Calls /\ t[p] \notin Calls
    BY CallsAssumption DEF OpenTag
  <2>3. o \in ToolBlocks(t) /\ p \in ToolBlocks(t)
    BY <2>1, <2>2 DEF ToolBlocks
  <2>4. QED
    BY <1>2, <2>3, BlocksAreFew, OneOf
<1>7. CallsInside(t)
  BY <1>2, <1>5, CallsAreWrapped DEF CallsInside
<1>8. OneCall(t)
  <2> SUFFICES ASSUME \A o \in 1 .. Len(t) : ~OpenTag(t, o),
                      NEW c \in 1 .. Len(t), NEW d \in 1 .. Len(t),
                      t[c] \in Calls, t[d] \in Calls
               PROVE  c = d
    BY DEF OneCall
  <2>1. \A o \in 1 .. Len(t) : ~At(t, o, Marker)
    BY <1>5
  <2>2. QED
    BY <1>2, <2>1, CallIsAlone
<1>9. CallsClosed(t)
  BY <1>1, <1>2 DEF CallsClosed, Complete
<1>10. WrapperClosed(t)
  <2> SUFFICES ASSUME NEW e \in 1 .. Len(t), t[e] = "</ml_tool_calls>"
               PROVE  \E o \in 1 .. e : OpenTag(t, o)
                          /\ \A j \in o .. e - 1 : t[j] # "</ml_tool_calls>"
    BY DEF WrapperClosed
  <2>1. PICK o \in 1 .. e : At(t, o, Open) /\ \A j \in o .. (e - 1) : t[j] # t[e]
    BY <1>1, <1>2 DEF Complete
  <2>2. o \in 1 .. Len(t)
    BY <1>1
  <2>3. QED
    BY <1>3, <2>1, <2>2
<1>11. WrapperFull(t)
  BY <1>1, <1>2, <1>3 DEF WrapperFull, Complete
<1>12. QED
  BY <1>4, <1>6, <1>7, <1>8, <1>9, <1>10, <1>11 DEF Tidy

\* Where names are in tags only, they are hidden with the tags.
LEMMA TidyNames ==
    ASSUME NEW P, NEW t \in Seq(P), Names(t)
    PROVE  NamesHidden(t)
BY OpenIsHidden DEF Names, NamesHidden

-----------------------------------------------------------------------------

\* The block of a text: a wrapper from o to e, the opening tag of one that is never
\* closed, or a call without a wrapper.  Nothing else is hidden.
IsWrapper(t, o, e) ==
    /\ OpenTag(t, o) /\ t[o + 3] \in Calls
    /\ o + 2 < e /\ t[e] = "</ml_tool_calls>"
    /\ \A i \in 1 .. Len(t) : t[i] = "</ml_tool_calls>" => i = e
    /\ \A h \in Hidden(t) : h \in o .. e

IsTagOnly(t, o) ==
    /\ OpenTag(t, o)
    /\ \A i \in 1 .. Len(t) : t[i] \notin Closing
    /\ \A h \in Hidden(t) : h \in o .. o + 2

IsBareCall(t, c) ==
    /\ \A o \in 1 .. Len(t) : ~OpenTag(t, o)
    /\ ClosedAt(t, c)
    /\ \A i \in 1 .. Len(t) : t[i] \in Calls => i = c
    /\ \A i \in 1 .. Len(t) : t[i] \in Closing => i = c + 1
    /\ \A h \in Hidden(t) : h \in c .. c + 1

\* What a tidy text hides: a wrapper, a tag that nothing follows, a call by itself, or
\* nothing.
Shapes(t) ==
    \/ \E o \in 1 .. Len(t), e \in 1 .. Len(t) : IsWrapper(t, o, e)
    \/ \E o \in 1 .. Len(t) : IsTagOnly(t, o)
    \/ \E c \in 1 .. Len(t) : IsBareCall(t, c)
    \/ Hidden(t) = {}

\* A tidy text has one of the shapes.
LEMMA TidyShapes ==
    ASSUME NEW P, NEW t \in Seq(P), Tidy(t)
    PROVE  Shapes(t)
<1>1. Len(t) \in Nat
  BY LenProperties
<1>2. ASSUME NEW o \in 1 .. Len(t), OpenTag(t, o), NEW x \in 1 .. Len(t), t[x] \in Closing
      PROVE  Shapes(t)
  <2>1. ASSUME NEW p \in 1 .. Len(t), OpenTag(t, p) PROVE p = o
    BY <1>2, <2>1 DEF Tidy, OneWrapper
  <2>2. ASSUME NEW i \in 1 .. Len(t), t[i] \in Closing PROVE o < i
    <3>1. CASE t[i] = "</ml_tool_call>"
      <4>1. i > 1 /\ t[i - 1] \in Calls
        BY <3>1 DEF Tidy, CallsClosed
      <4>2. i - 1 \in 1 .. Len(t)
        BY <1>1, <4>1
      <4>3. o < i - 1
        BY <1>2, <4>1, <4>2 DEF Tidy, CallsInside
      <4>4. QED
        BY <1>1, <4>2, <4>3
    <3>2. CASE t[i] = "</ml_tool_calls>"
      <4>1. PICK p \in 1 .. i : OpenTag(t, p)
        BY <3>2 DEF Tidy, WrapperClosed
      <4>2. p \in 1 .. Len(t) /\ p <= i
        BY <1>1
      <4>3. p = o
        BY <2>1, <4>1, <4>2
      <4>4. t[o] = "<"
        BY <1>2 DEF OpenTag
      <4>5. o # i
        BY <3>2, <4>4
      <4>6. QED
        BY <1>1, <4>2, <4>3, <4>5
    <3>3. QED
      BY <2>2, <3>1, <3>2 DEF Closing
  <2>3. /\ t[o + 3] \in Calls
        /\ \A i \in 1 .. Len(t) : t[i] \in Closing =>
              \E e \in i .. Len(t) : t[e] = "</ml_tool_calls>"
    BY <1>2, <2>2 DEF Tidy, WrapperFull
  <2>4. PICK e \in 1 .. Len(t) : t[e] = "</ml_tool_calls>"
    <3>1. PICK e \in x .. Len(t) : t[e] = "</ml_tool_calls>"
      BY <1>2, <2>3
    <3>2. e \in 1 .. Len(t)
      BY <1>1
    <3>3. QED
      BY <3>1, <3>2
  <2>5. ASSUME NEW i \in 1 .. Len(t), t[i] = "</ml_tool_calls>",
               NEW d \in 1 .. Len(t), t[d] = "</ml_tool_calls>"
        PROVE  ~(i < d)
    <3> SUFFICES ASSUME i < d PROVE FALSE
      OBVIOUS
    <3>1. PICK p \in 1 .. d : OpenTag(t, p) /\ \A j \in p .. d - 1 : t[j] # "</ml_tool_calls>"
      BY <2>5 DEF Tidy, WrapperClosed
    <3>2. p \in 1 .. Len(t)
      BY <1>1
    <3>3. p = o
      BY <2>1, <3>1, <3>2
    <3>4. o < i
      BY <2>2, <2>5 DEF Closing
    <3>5. i \in p .. d - 1
      BY <1>1, <3>3, <3>4
    <3>6. QED
      BY <2>5, <3>1, <3>5
  <2>6. ASSUME NEW i \in 1 .. Len(t), t[i] = "</ml_tool_calls>" PROVE i = e
    <3>1. ~(i < e) /\ ~(e < i)
      BY <2>4, <2>5, <2>6
    <3>2. QED
      BY <1>1, <3>1
  <2>7. ASSUME NEW i \in 1 .. Len(t), t[i] \in Closing PROVE o < i /\ i <= e
    <3>1. PICK d \in i .. Len(t) : t[d] = "</ml_tool_calls>"
      BY <2>3, <2>7
    <3>2. d \in 1 .. Len(t) /\ i <= d
      BY <1>1
    <3>3. d = e
      BY <2>6, <3>1, <3>2
    <3>4. QED
      BY <2>2, <2>7, <3>2, <3>3
  <2>8. o + 2 < e
    <3>1. o < e
      BY <2>2, <2>4 DEF Closing
    <3>2. t[o + 1] = "ml_tool_calls" /\ t[o + 2] = ">"
      BY <1>2 DEF OpenTag
    <3>3. e # o + 1 /\ e # o + 2
      BY <2>4, <3>2
    <3>4. QED
      BY <1>1, <3>1, <3>3
  <2>9. ASSUME NEW h \in Hidden(t) PROVE h \in o .. e
    <3>1. h \in 1 .. Len(t) /\ (t[h] \in Closing \/ InTag(t, h) \/ Noisy(t, h))
      BY DEF Hidden
    <3>2. CASE t[h] \in Closing
      BY <1>1, <2>7, <3>1, <3>2
    <3>3. CASE InTag(t, h)
      <4>1. PICK p \in 1 .. h : p + 2 >= h /\ OpenTag(t, p)
        BY <3>3 DEF InTag
      <4>2. p \in 1 .. Len(t)
        BY <1>1, <3>1
      <4>3. p = o
        BY <2>1, <4>1, <4>2
      <4>4. QED
        BY <1>1, <2>8, <3>1, <4>1, <4>3
    <3>4. CASE Noisy(t, h)
      <4>1. PICK p \in 1 .. h, d \in h .. Len(t) :
                /\ t[p] \in Calls \/ OpenTag(t, p)
                /\ t[d] \in Closing
        BY <3>4 DEF Noisy
      <4>2. p \in 1 .. Len(t) /\ p <= h /\ d \in 1 .. Len(t) /\ h <= d
        BY <1>1, <3>1
      <4>3. o <= p
        <5>1. CASE t[p] \in Calls
          <6>1. o < p
            BY <1>2, <4>2, <5>1 DEF Tidy, CallsInside
          <6>2. QED
            BY <1>1, <4>2, <6>1
        <5>2. CASE OpenTag(t, p)
          BY <1>1, <2>1, <4>2, <5>2
        <5>3. QED
          BY <4>1, <5>1, <5>2
      <4>4. d <= e
        BY <2>7, <4>1, <4>2
      <4>5. QED
        BY <1>1, <3>1, <4>2, <4>3, <4>4
    <3>5. QED
      BY <3>1, <3>2, <3>3, <3>4
  <2>10. IsWrapper(t, o, e)
    BY <1>2, <2>3, <2>4, <2>6, <2>8, <2>9 DEF IsWrapper
  <2>11. QED
    BY <2>4, <2>10 DEF Shapes
<1>3. ASSUME NEW o \in 1 .. Len(t), OpenTag(t, o), \A i \in 1 .. Len(t) : t[i] \notin Closing
      PROVE  Shapes(t)
  <2>1. ASSUME NEW h \in Hidden(t) PROVE h \in o .. o + 2
    <3>1. h \in 1 .. Len(t) /\ (t[h] \in Closing \/ InTag(t, h) \/ Noisy(t, h))
      BY DEF Hidden
    <3>2. ~Noisy(t, h)
      <4>1. \A d \in h .. Len(t) : d \in 1 .. Len(t)
        BY <1>1, <3>1
      <4>2. QED
        BY <1>3, <4>1 DEF Noisy
    <3>3. InTag(t, h)
      BY <1>3, <3>1, <3>2
    <3>4. PICK p \in 1 .. h : p + 2 >= h /\ OpenTag(t, p)
      BY <3>3 DEF InTag
    <3>5. p \in 1 .. Len(t)
      BY <1>1, <3>1
    <3>6. p = o
      BY <1>3, <3>4, <3>5 DEF Tidy, OneWrapper
    <3>7. QED
      BY <1>1, <3>1, <3>4, <3>6
  <2>2. IsTagOnly(t, o)
    BY <1>3, <2>1 DEF IsTagOnly
  <2>3. QED
    BY <2>2 DEF Shapes
<1>4. ASSUME \A o \in 1 .. Len(t) : ~OpenTag(t, o), NEW x \in 1 .. Len(t), t[x] \in Closing
      PROVE  Shapes(t)
  <2>1. ASSUME NEW i \in 1 .. Len(t), t[i] \in Closing
        PROVE  /\ t[i] = "</ml_tool_call>" /\ i - 1 \in 1 .. Len(t) /\ t[i - 1] \in Calls
               /\ i = (i - 1) + 1
    <3>1. t[i] # "</ml_tool_calls>"
      <4> SUFFICES ASSUME t[i] = "</ml_tool_calls>" PROVE FALSE
        OBVIOUS
      <4>1. PICK p \in 1 .. i : OpenTag(t, p)
        BY DEF Tidy, WrapperClosed
      <4>2. p \in 1 .. Len(t)
        BY <1>1
      <4>3. QED
        BY <1>4, <4>1, <4>2
    <3>2. t[i] = "</ml_tool_call>"
      BY <2>1, <3>1 DEF Closing
    <3>3. i > 1 /\ t[i - 1] \in Calls
      BY <3>2 DEF Tidy, CallsClosed
    <3>4. QED
      BY <1>1, <3>2, <3>3
  <2> DEFINE c == x - 1
  <2>2. c \in 1 .. Len(t) /\ t[c] \in Calls /\ x = c + 1 /\ t[x] = "</ml_tool_call>"
    BY <1>4, <2>1
  <2> HIDE DEF c
  <2>3. ASSUME NEW i \in 1 .. Len(t), t[i] \in Calls PROVE i = c
    BY <1>4, <2>2, <2>3 DEF Tidy, OneCall
  <2>4. ASSUME NEW i \in 1 .. Len(t), t[i] \in Closing PROVE i = c + 1
    <3>1. i - 1 = c
      BY <2>1, <2>3, <2>4
    <3>2. QED
      BY <2>1, <2>4, <3>1
  <2>5. ClosedAt(t, c)
    BY <1>1, <2>2 DEF ClosedAt
  <2>6. ASSUME NEW h \in Hidden(t) PROVE h \in c .. c + 1
    <3>1. h \in 1 .. Len(t) /\ (t[h] \in Closing \/ InTag(t, h) \/ Noisy(t, h))
      BY DEF Hidden
    <3>2. CASE t[h] \in Closing
      BY <1>1, <2>2, <2>4, <3>1, <3>2
    <3>3. ~InTag(t, h)
      <4>1. \A p \in 1 .. h : p \in 1 .. Len(t)
        BY <1>1, <3>1
      <4>2. QED
        BY <1>4, <4>1 DEF InTag
    <3>4. CASE Noisy(t, h)
      <4>1. PICK p \in 1 .. h, d \in h .. Len(t) :
                /\ t[p] \in Calls \/ OpenTag(t, p)
                /\ t[d] \in Closing
        BY <3>4 DEF Noisy
      <4>2. p \in 1 .. Len(t) /\ p <= h /\ d \in 1 .. Len(t) /\ h <= d
        BY <1>1, <3>1
      <4>3. p = c /\ d = c + 1
        BY <1>4, <2>3, <2>4, <4>1, <4>2
      <4>4. QED
        BY <1>1, <2>2, <3>1, <4>2, <4>3
    <3>5. QED
      BY <3>1, <3>2, <3>3, <3>4
  <2>7. IsBareCall(t, c)
    BY <1>4, <2>3, <2>4, <2>5, <2>6 DEF IsBareCall
  <2>8. QED
    BY <2>2, <2>7 DEF Shapes
<1>5. ASSUME \A o \in 1 .. Len(t) : ~OpenTag(t, o), \A i \in 1 .. Len(t) : t[i] \notin Closing
      PROVE  Shapes(t)
  <2>1. ASSUME NEW h \in Hidden(t) PROVE FALSE
    <3>1. h \in 1 .. Len(t) /\ (t[h] \in Closing \/ InTag(t, h) \/ Noisy(t, h))
      BY DEF Hidden
    <3>2. (\A d \in h .. Len(t) : d \in 1 .. Len(t)) /\ (\A p \in 1 .. h : p \in 1 .. Len(t))
      BY <1>1, <3>1
    <3>3. ~InTag(t, h) /\ ~Noisy(t, h)
      BY <1>5, <3>2 DEF InTag, Noisy
    <3>4. QED
      BY <1>5, <3>1, <3>3
  <2>2. QED
    BY <2>1 DEF Shapes
<1>6. QED
  BY <1>2, <1>3, <1>4, <1>5

-----------------------------------------------------------------------------

\* No cut at q is within the block.
Clear(t, q) == (\A h \in Hidden(t) : q < h) \/ (\A h \in Hidden(t) : h <= q)

\* What is shown of the text from q to n, ...
ShownTo(t, q, n) == Kept(t, (q + 1 .. n) \ Hidden(t))

\* ... and the calls that are complete at n.
CallsBy(t, n) == IF \A h \in Hidden(t) : h <= n THEN ParseCalls(t) ELSE <<>>

\* A text that hides nothing, or closes nothing, has no call.
LEMMA NothingHidden ==
    ASSUME NEW P, NEW t \in Seq(P),
           Hidden(t) = {} \/ \A i \in 1 .. Len(t) : t[i] \notin Closing
    PROVE  ParseCalls(t) = <<>>
<1>1. Len(t) \in Nat
  BY LenProperties
<1>2. ASSUME NEW i \in 1 .. Len(t), ClosedAt(t, i) PROVE FALSE
  <2>1. i \in Hidden(t)
    BY <1>2, ClosedIsHidden
  <2>2. i + 1 \in 1 .. Len(t) /\ t[i + 1] \in Closing
    BY <1>1, <1>2 DEF ClosedAt, Closing
  <2>3. QED
    BY <2>1, <2>2
<1>3. QED
  BY <1>2, NothingClosed

\* What is hidden begins with a tag or a call.
LEMMA BlockBegins ==
    ASSUME NEW P, NEW t \in Seq(P), Shapes(t), NEW h \in Hidden(t)
    PROVE  \E a \in 1 .. Len(t) : /\ a <= h
                                  /\ a \in Hidden(t)
                                  /\ OpenTag(t, a) \/ t[a] \in Calls
<1>1. Len(t) \in Nat
  BY LenProperties
<1>2. ASSUME NEW o \in 1 .. Len(t), OpenTag(t, o), o <= h
      PROVE  \E a \in 1 .. Len(t) : a <= h /\ a \in Hidden(t) /\ (OpenTag(t, a) \/ t[a] \in Calls)
  <2>1. o \in Hidden(t)
    BY <1>2, OpenIsHidden
  <2>2. QED
    BY <1>2, <2>1
<1>3. CASE \E o \in 1 .. Len(t), e \in 1 .. Len(t) : IsWrapper(t, o, e)
  <2>1. PICK o \in 1 .. Len(t), e \in 1 .. Len(t) : IsWrapper(t, o, e)
    BY <1>3
  <2>2. OpenTag(t, o) /\ h \in o .. e
    BY <2>1 DEF IsWrapper
  <2>3. QED
    BY <1>2, <2>2
<1>4. CASE \E o \in 1 .. Len(t) : IsTagOnly(t, o)
  <2>1. PICK o \in 1 .. Len(t) : IsTagOnly(t, o)
    BY <1>4
  <2>2. OpenTag(t, o) /\ h \in o .. o + 2
    BY <2>1 DEF IsTagOnly
  <2>3. QED
    BY <1>2, <2>2
<1>5. CASE \E c \in 1 .. Len(t) : IsBareCall(t, c)
  <2>1. PICK c \in 1 .. Len(t) : IsBareCall(t, c)
    BY <1>5
  <2>2. ClosedAt(t, c) /\ h \in c .. c + 1
    BY <2>1 DEF IsBareCall
  <2>3. c \in Hidden(t) /\ t[c] \in Calls
    BY <2>2, ClosedIsHidden DEF ClosedAt
  <2>4. QED
    BY <2>2, <2>3
<1>6. QED
  BY <1>3, <1>4, <1>5 DEF Shapes

\* What SubSeq cuts out is a part.
LEMMA PartOf ==
    ASSUME NEW P, NEW t \in Seq(P), NEW m \in 0 .. Len(t), NEW q \in 0 .. m
    PROVE  /\ SubSeq(t, q + 1, m) \in Seq(P)
           /\ Len(SubSeq(t, q + 1, m)) = m - q
           /\ q + Len(SubSeq(t, q + 1, m)) = m
           /\ Part(SubSeq(t, q + 1, m), t, q)
<1> DEFINE u == SubSeq(t, q + 1, m)
<1>1. Len(t) \in Nat /\ m \in Nat /\ q \in Nat /\ q <= m /\ m <= Len(t)
  BY LenProperties
<1>2. u \in Seq(P) /\ Len(u) = m - q /\ \A i \in 1 .. (m - q) : u[i] = t[q + i]
  BY CutOfCut
<1> HIDE DEF u
<1>3. q + Len(u) = m
  BY <1>1, <1>2
<1>4. Part(u, t, q)
  BY <1>1, <1>2, <1>3 DEF Part
<1>5. QED
  BY <1>2, <1>3, <1>4 DEF u

\* However the parser hides the markup of a part, it shows the same.
LEMMA PartShows ==
    ASSUME NEW P, NEW t \in Seq(P), Tidy(t), NEW m \in 0 .. Len(t), NEW q \in 0 .. m,
           Uncut(t, q, m), NEW u, u = SubSeq(t, q + 1, m)
    PROVE  /\ RemoveMarkup(u) = ShownTo(t, q, m)
           /\ ShownTo(t, q, m) \in Seq(P)
           /\ Plain(ShownTo(t, q, m))
           /\ RemoveMarkup(RemoveMarkup(u)) = ShownTo(t, q, m)
           /\ RemoveMarkup(stripMalformedToolPreludePrefix(u)) = ShownTo(t, q, m)
           /\ RemoveMarkup(stripMalformedToolPreludePrefix(RemoveMarkup(u))) = ShownTo(t, q, m)
<1>1. u \in Seq(P) /\ Len(u) = m - q /\ q + Len(u) = m /\ Part(u, t, q)
  BY PartOf
<1>2. Len(t) \in Nat /\ m \in Nat /\ q \in Nat /\ q <= m /\ m <= Len(t) /\ Len(u) \in Nat
  BY <1>1, LenProperties
<1>3. NamesHidden(t)
  BY TidyNames DEF Tidy
<1>4. Uncut(t, q, q + Len(u))
  BY <1>1
<1>5. RemoveMarkup(u) = ShownTo(t, q, m) /\ NamesHidden(u)
  BY <1>1, <1>3, <1>4, ShownPart DEF ShownTo
<1> DEFINE k == RemoveMarkup(u)
<1>6. k \in Seq(P) /\ Plain(k) /\ RemoveMarkup(k) = k
  BY <1>1, <1>5, ShownIsPlain
<1>7. stripMalformedToolPreludePrefix(k) = k
  <2> HIDE DEF k
  <2>1. ~OpenTag(k, 1)
    <3> SUFFICES ASSUME OpenTag(k, 1) PROVE FALSE
      OBVIOUS
    <3>1. 1 + 1 \in 1 .. Len(k) /\ k[1 + 1] = "ml_tool_calls"
      <4>1. Len(k) \in Nat
        BY <1>6, LenProperties
      <4>2. QED
        BY <4>1 DEF OpenTag
    <3>2. QED
      BY <1>6, <3>1 DEF Plain
  <2>2. QED
    BY <1>6, <2>1, StripIs
<1>8. RemoveMarkup(stripMalformedToolPreludePrefix(u)) = RemoveMarkup(u)
  <2>1. ASSUME NEW o \in 1 .. Len(u), OpenTag(u, o)
        PROVE  OpenTag(t, q + o) /\ q + o \in 1 .. Len(t) /\ q + o + 2 <= q + Len(u)
    <3>1. OpenTag(t, q + o) /\ q + o + 2 <= q + Len(u)
      BY <1>1, <2>1, OpenInPart
    <3>2. QED
      BY <1>1, <1>2, <3>1
  <2>2. ASSUME NEW o \in 1 .. Len(u), NEW i \in 1 .. Len(u), OpenTag(u, o), OpenTag(u, i)
        PROVE  o = i
    <3>1. q + o = q + i
      BY <2>1, <2>2 DEF Tidy, OneWrapper
    <3>2. QED
      BY <1>2, <3>1
  <2>3. ASSUME NEW i \in 1 .. Len(u), OpenTag(u, 1), u[i] \in Closing
        PROVE  u[4] \in Calls
    <3>1. 1 \in 1 .. Len(u) /\ i \in Nat /\ 3 <= Len(u)
      BY <1>2, <2>3 DEF OpenTag
    <3>2. OpenTag(t, q + 1) /\ q + 1 \in 1 .. Len(t)
      BY <2>1, <2>3, <3>1
    <3>3. u[1] = "<" /\ u[1 + 1] = "ml_tool_calls" /\ u[1 + 2] = ">"
      BY <2>3 DEF OpenTag
    <3>4. i # 1 /\ i # 1 + 1 /\ i # 1 + 2
      BY <2>3, <3>3 DEF Closing
    <3>5. 4 <= i /\ 4 \in 1 .. Len(u)
      BY <1>2, <3>1, <3>4
    <3>6. q + i \in 1 .. Len(t) /\ q + 1 < q + i /\ t[q + i] = u[i] /\ u[4] = t[q + 4]
      BY <1>1, <1>2, <3>1, <3>5 DEF Part
    <3>7. t[(q + 1) + 3] \in Calls
      BY <2>3, <3>2, <3>6 DEF Tidy, WrapperFull
    <3>8. (q + 1) + 3 = q + 4
      BY <1>2
    <3>9. QED
      BY <3>6, <3>7, <3>8
  <2>4. QED
    BY <1>1, <1>5, <2>2, <2>3, StripHides
<1>9. QED
  BY <1>5, <1>6, <1>7, <1>8

-----------------------------------------------------------------------------

-----------------------------------------------------------------------------

\* The shape of a text in which a wrapper is closed, ...
LEMMA WrapperIs ==
    ASSUME NEW P, NEW t \in Seq(P), Tidy(t), Shapes(t),
           NEW o \in 1 .. Len(t), OpenTag(t, o),
           NEW e \in 1 .. Len(t), t[e] = "</ml_tool_calls>"
    PROVE  IsWrapper(t, o, e)
<1>1. o \in Hidden(t)
  BY OpenIsHidden
<1>2. PICK p \in 1 .. Len(t), d \in 1 .. Len(t) : IsWrapper(t, p, d)
  BY <1>1 DEF Shapes, IsTagOnly, IsBareCall, Closing
<1>3. p = o
  BY <1>2 DEF IsWrapper, Tidy, OneWrapper
<1>4. d = e
  BY <1>2 DEF IsWrapper
<1>5. QED
  BY <1>2, <1>3, <1>4

\* ... and of one in which a call is closed, without a wrapper.
LEMMA BareCallIs ==
    ASSUME NEW P, NEW t \in Seq(P), Shapes(t),
           \A o \in 1 .. Len(t) : ~OpenTag(t, o),
           NEW e \in 1 .. Len(t), t[e] \in Closing
    PROVE  \E c \in 1 .. Len(t) : IsBareCall(t, c) /\ e = c + 1
<1>1. e \in Hidden(t)
  BY DEF Hidden
<1>2. PICK c \in 1 .. Len(t) : IsBareCall(t, c)
  BY <1>1 DEF Shapes, IsTagOnly, IsWrapper
<1>3. e = c + 1
  BY <1>2 DEF IsBareCall
<1>4. QED
  BY <1>2, <1>3

\* A part of the text that is all of the block has all calls.
LEMMA CallsOfBlock ==
    ASSUME NEW P, NEW t \in Seq(P), NEW m \in 0 .. Len(t), NEW q \in 0 .. m,
           NEW a \in 1 .. m - q, NEW b \in 1 .. m - q, a <= b,
           \A x \in Hidden(t) : x \in q + a .. q + b
    PROVE  ParseCalls(SubSeq(SubSeq(t, q + 1, m), a, b)) = ParseCalls(t)
<1> DEFINE h == SubSeq(t, q + 1, m)
           u == SubSeq(h, a, b)
           k == q + a - 1
<1>1. Len(t) \in Nat /\ m \in Nat /\ q \in Nat /\ q <= m /\ m <= Len(t)
  BY LenProperties
<1>2. h \in Seq(P) /\ Len(h) = m - q /\ \A i \in 1 .. (m - q) : h[i] = t[q + i]
  BY CutOfCut
<1> HIDE DEF h
<1>3. /\ u \in Seq(P)
      /\ Len(u) = b - a + 1
      /\ \A i \in 1 .. (b - a + 1) : u[i] = h[a + i - 1]
  <2>1. a \in Nat \ {0} /\ b \in Nat /\ b <= Len(h)
    BY <1>1, <1>2
  <2>2. QED
    BY <1>2, <2>1, Cut
<1> HIDE DEF u
<1>4. k \in Nat /\ k + Len(u) = q + b /\ k + 1 = q + a /\ q + b <= Len(t) /\ Len(u) \in Nat
  BY <1>1, <1>3
<1>5. Part(u, t, k)
  <2>1. ASSUME NEW i \in 1 .. Len(u) PROVE u[i] = t[k + i]
    <3>1. i \in 1 .. (b - a + 1) /\ a + i - 1 \in 1 .. (m - q) /\ q + (a + i - 1) = k + i
      BY <1>1, <1>3
    <3>2. QED
      BY <1>2, <1>3, <3>1
  <2>2. QED
    BY <1>4, <2>1 DEF Part
<1>6. \A x \in Hidden(t) : x \in k + 1 .. k + Len(u)
  BY <1>4
<1> HIDE DEF k
<1>7. ParseCalls(u) = ParseCalls(t)
  BY <1>3, <1>5, <1>6, CallsOfPart
<1>8. QED
  BY <1>7 DEF u, h

\* A capture that is complete has the whole block, and the calls of the text; at the end
\* of the text, one that is not has no call.
LEMMA ConsumeShows ==
    ASSUME NEW P, NEW t \in Seq(P), Tidy(t), NEW m \in 0 .. Len(t), NEW q \in 0 .. m,
           Clear(t, q), NEW h, h = SubSeq(t, q + 1, m)
    PROVE  /\ tryConsumeCapture(h).ready =>
                  /\ \A x \in Hidden(t) : x \in q + 1 .. m
                  /\ Hidden(t) # {}
                  /\ tryConsumeCapture(h).calls = ParseCalls(t)
                  /\ RemoveMarkup(tryConsumeCapture(h).content) = ShownTo(t, q, m)
           /\ (~tryConsumeCapture(h).ready /\ m = Len(t)) =>
                  (\A x \in Hidden(t) : x <= q) \/ ParseCalls(t) = <<>>
<1> DEFINE wrappers == {i \in DOMAIN h : At(h, i, Marker)}
           opens == IF wrappers # {} THEN wrappers ELSE firstMarker(h)
           close == IF wrappers # {} THEN "</ml_tool_calls>" ELSE "</ml_tool_call>"
           closes == {i \in DOMAIN h : h[i] = close /\ \E o \in opens : o < i}
           a == Min(opens)
           b == Max(closes)
           got == tryConsumeCapture(h)
<1>1. /\ h \in Seq(P)
      /\ Len(h) = m - q
      /\ \A i \in 1 .. (m - q) : h[i] = t[q + i]
  BY CutOfCut
<1>2. Len(t) \in Nat /\ m \in Nat /\ q \in Nat /\ q <= m /\ m <= Len(t)
  BY LenProperties
<1>3. DOMAIN h = 1 .. (m - q) /\ m - q \in Nat
  BY <1>1, <1>2, LenProperties
<1>4. Shapes(t) /\ Names(t)
  BY TidyShapes DEF Tidy
<1>5. \A i \in 1 .. (m - q) : q + i \in 1 .. Len(t) /\ q + i <= m /\ q + i \in q + 1 .. m
  BY <1>2
<1>6. \A i \in 1 .. (m - q) : i \in wrappers <=> q + i < m /\ OpenTag(t, q + i)
  <2> SUFFICES ASSUME NEW i \in 1 .. (m - q)
               PROVE  i \in wrappers <=> q + i < m /\ OpenTag(t, q + i)
    OBVIOUS
  <2>1. At(h, i, Marker) <=> q + i < m /\ At(t, q + i, Marker)
    BY MarkerInPart
  <2>2. At(t, q + i, Marker) <=> OpenTag(t, q + i)
    BY <1>4, <1>5, MarkerIsTag
  <2>3. QED
    BY <1>3, <2>1, <2>2
<1>7. wrappers \subseteq 1 .. (m - q) /\ firstMarker(h) \subseteq 1 .. (m - q)
  BY <1>3 DEF firstMarker
<1>8. \A i \in firstMarker(h) : i \in wrappers \/ t[q + i] \in Calls
  BY <1>1, <1>7 DEF firstMarker
<1>9. \A i \in 1 .. (m - q) : t[q + i] \in Calls => i \in firstMarker(h)
  BY <1>1, <1>3 DEF firstMarker
<1>10. /\ closes = {} => got = [ready |-> FALSE, content |-> <<>>, calls |-> <<>>]
       /\ closes # {} => /\ got.ready
                         /\ got.calls = ParseCalls(SubSeq(h, a, b))
                         /\ got.content = RemoveMarkup(h)
                            \/ got.content = stripMalformedToolPreludePrefix(h)
  BY DEF tryConsumeCapture
<1> HIDE DEF got, wrappers
<1>11. ASSUME closes # {}
       PROVE  \E o \in 1 .. (m - q), e \in 1 .. (m - q) :
                  /\ opens = {o} /\ closes = {e} /\ o < e
                  /\ Hidden(t) # {}
                  /\ \A x \in Hidden(t) : x \in q + o .. q + e
  <2>1. PICK e \in 1 .. (m - q) : h[e] = close /\ \E o \in opens : o < e
    BY <1>3, <1>11
  <2>2. PICK o \in opens : o < e
    BY <2>1
  <2>3. /\ o \in 1 .. (m - q) /\ opens \subseteq 1 .. (m - q) /\ t[q + e] = close
        /\ q + e \in 1 .. Len(t) /\ q + o \in 1 .. Len(t)
    BY <1>1, <1>5, <1>7, <2>1
  <2>4. t[q + e] \in Closing /\ q + e \in Hidden(t) /\ Hidden(t) # {}
    <3>1. t[q + e] \in Closing
      BY <2>3 DEF Closing
    <3>2. QED
      BY <2>3, <3>1 DEF Hidden
  <2>5. CASE wrappers # {}
    <3>1. opens = wrappers /\ close = "</ml_tool_calls>"
      BY <2>5
    <3>2. OpenTag(t, q + o)
      BY <1>6, <2>3, <3>1
    <3>3. IsWrapper(t, q + o, q + e)
      BY <1>4, <2>3, <3>1, <3>2, WrapperIs
    <3>4. ASSUME NEW i \in opens PROVE i = o
      <4>1. i \in 1 .. (m - q) /\ OpenTag(t, q + i) /\ q + i \in 1 .. Len(t)
        BY <1>5, <1>6, <2>3, <3>1
      <4>2. q + i = q + o
        BY <2>3, <3>2, <4>1 DEF Tidy, OneWrapper
      <4>3. QED
        BY <1>2, <2>3, <4>1, <4>2
    <3>5. ASSUME NEW i \in closes PROVE i = e
      <4>1. i \in 1 .. (m - q) /\ t[q + i] = "</ml_tool_calls>" /\ q + i \in 1 .. Len(t)
        BY <1>1, <1>3, <1>5, <3>1
      <4>2. q + i = q + e
        BY <3>3, <4>1 DEF IsWrapper
      <4>3. QED
        BY <1>2, <2>1, <4>1, <4>2
    <3>6. opens = {o} /\ closes = {e}
      <4>1. opens = {o}
        BY <2>2, <3>4
      <4>2. closes = {e}
        BY <1>11, <3>5
      <4>3. QED
        BY <4>1, <4>2
    <3>7. \A x \in Hidden(t) : x \in q + o .. q + e
      BY <3>3 DEF IsWrapper
    <3>8. QED
      BY <2>1, <2>2, <2>3, <2>4, <3>6, <3>7
  <2>6. CASE wrappers = {}
    <3>1. opens = firstMarker(h) /\ close = "</ml_tool_call>"
      BY <2>6
    <3>2. \A i \in opens : t[q + i] \in Calls
      BY <1>8, <2>6, <3>1
    <3>3. ASSUME NEW p \in 1 .. Len(t), OpenTag(t, p) PROVE FALSE
      <4>1. p \in Hidden(t)
        BY <3>3, OpenIsHidden
      <4>2. ~(q + e <= q)
        BY <1>2, <2>3
      <4>3. q < p
        BY <2>4, <4>1, <4>2 DEF Clear
      <4>4. p < q + o
        BY <2>3, <3>2, <3>3 DEF Tidy, CallsInside
      <4>5. p - q \in 1 .. (m - q) /\ q + (p - q) = p /\ p < m
        BY <1>2, <2>3, <4>3, <4>4
      <4>6. p - q \in wrappers
        BY <1>6, <3>3, <4>5
      <4>7. QED
        BY <2>6, <4>6
    <3>4. PICK c \in 1 .. Len(t) : IsBareCall(t, c) /\ q + e = c + 1
      BY <1>4, <2>3, <2>4, <3>3, BareCallIs
    <3>5. ASSUME NEW i \in opens PROVE q + i = c
      BY <1>5, <2>3, <3>2, <3>4, <3>5 DEF IsBareCall
    <3>6. ASSUME NEW i \in closes PROVE q + i = c + 1
      <4>1. i \in 1 .. (m - q) /\ t[q + i] = "</ml_tool_call>" /\ q + i \in 1 .. Len(t)
        BY <1>1, <1>3, <1>5, <3>1
      <4>2. QED
        BY <3>4, <4>1 DEF IsBareCall, Closing
    <3>7. opens = {o} /\ closes = {e}
      <4>1. opens = {o}
        <5>1. ASSUME NEW i \in opens PROVE i = o
          <6>1. q + i = c /\ q + o = c
            BY <2>2, <3>5, <5>1
          <6> HIDE DEF opens
          <6>2. i \in 1 .. (m - q)
            BY <2>3, <5>1
          <6>3. QED
            BY <1>2, <2>3, <6>1, <6>2
        <5>2. QED
          BY <2>2, <5>1
      <4>2. closes = {e}
        <5>1. ASSUME NEW i \in closes PROVE i = e
          <6>1. q + i = q + e /\ i \in 1 .. (m - q)
            BY <1>3, <3>4, <3>6
          <6>2. QED
            BY <1>2, <2>1, <6>1
        <5>2. QED
          BY <1>11, <5>1
      <4>3. QED
        BY <4>1, <4>2
    <3>8. \A x \in Hidden(t) : x \in q + o .. q + e
      <4>1. q + o = c
        BY <2>2, <3>5
      <4>2. QED
        BY <3>4, <4>1 DEF IsBareCall
    <3>9. QED
      BY <2>1, <2>2, <2>3, <2>4, <3>7, <3>8
  <2>7. QED
    BY <2>5, <2>6
<1>12. ASSUME closes # {}
       PROVE  /\ \A x \in Hidden(t) : x \in q + 1 .. m
              /\ Hidden(t) # {}
              /\ got.calls = ParseCalls(t)
              /\ RemoveMarkup(got.content) = ShownTo(t, q, m)
  <2>1. PICK o \in 1 .. (m - q), e \in 1 .. (m - q) :
                  /\ opens = {o} /\ closes = {e} /\ o < e
                  /\ Hidden(t) # {}
                  /\ \A x \in Hidden(t) : x \in q + o .. q + e
    BY <1>11, <1>12
  <2> HIDE DEF opens, closes
  <2>2. a = o /\ b = e
    <3>1. {o} \in SUBSET (1 .. (m - q)) /\ {e} \in SUBSET (1 .. (m - q)) /\ m - q \in Nat
      BY <1>3
    <3>2. Min({o}) \in {o} /\ Max({e}) \in {e}
      BY <3>1, FirstAndLast
    <3>3. QED
      BY <2>1, <3>2
  <2>3. got.calls = ParseCalls(t)
    <3>1. ParseCalls(SubSeq(SubSeq(t, q + 1, m), o, e)) = ParseCalls(t)
      <4>1. o <= e
        BY <1>3, <2>1
      <4>2. QED
        BY <2>1, <4>1, CallsOfBlock
    <3>2. QED
      BY <1>10, <1>12, <2>2, <3>1
  <2>4. \A x \in Hidden(t) : x \in q + 1 .. m
    <3>1. \A x \in q + o .. q + e : x \in q + 1 .. m
      BY <1>2
    <3>2. QED
      BY <2>1, <3>1
  <2>5. Uncut(t, q, m)
    BY <2>4 DEF Uncut
  <2>6. RemoveMarkup(got.content) = ShownTo(t, q, m)
    <3>1. /\ RemoveMarkup(RemoveMarkup(h)) = ShownTo(t, q, m)
          /\ RemoveMarkup(stripMalformedToolPreludePrefix(h)) = ShownTo(t, q, m)
      BY <2>5, PartShows
    <3>2. \/ got.content = RemoveMarkup(h)
          \/ got.content = stripMalformedToolPreludePrefix(h)
      BY <1>10, <1>12
    <3>3. CASE got.content = RemoveMarkup(h)
      BY <3>1, <3>3
    <3>4. CASE got.content = stripMalformedToolPreludePrefix(h)
      BY <3>1, <3>4
    <3>5. QED
      BY <3>2, <3>3, <3>4
  <2>7. QED
    BY <2>1, <2>3, <2>4, <2>6
<1>13. ASSUME closes = {}, m = Len(t)
       PROVE  (\A x \in Hidden(t) : x <= q) \/ ParseCalls(t) = <<>>
  <2> SUFFICES ASSUME ~\A x \in Hidden(t) : x <= q PROVE ParseCalls(t) = <<>>
    OBVIOUS
  <2>1. \A x \in Hidden(t) : q < x
    BY DEF Clear
  <2>2. ASSUME NEW o \in 1 .. Len(t), NEW e \in 1 .. Len(t), IsWrapper(t, o, e)
        PROVE  FALSE
    <3>1. o \in Hidden(t) /\ o + 2 < e /\ t[e] = "</ml_tool_calls>" /\ OpenTag(t, o)
      BY <2>2, OpenIsHidden DEF IsWrapper
    <3>2. q < o
      BY <2>1, <3>1
    <3>3. /\ o - q \in 1 .. (m - q) /\ q + (o - q) = o /\ o < m
          /\ e - q \in 1 .. (m - q) /\ q + (e - q) = e /\ o - q < e - q
      BY <1>2, <1>13, <3>1, <3>2
    <3>4. o - q \in wrappers
      BY <1>6, <3>1, <3>3
    <3>5. o - q \in opens /\ close = "</ml_tool_calls>"
      BY <3>4
    <3>6. e - q \in closes
      BY <1>1, <1>3, <3>1, <3>3, <3>5
    <3>7. QED
      BY <1>13, <3>6
  <2>3. ASSUME NEW c \in 1 .. Len(t), IsBareCall(t, c)
        PROVE  FALSE
    <3>1. ClosedAt(t, c)
      BY <2>3 DEF IsBareCall
    <3>2. c \in Hidden(t) /\ c + 1 <= Len(t) /\ t[c] \in Calls /\ t[c + 1] = "</ml_tool_call>"
      BY <3>1, ClosedIsHidden DEF ClosedAt
    <3>3. q < c
      BY <2>1, <3>2
    <3>4. /\ c - q \in 1 .. (m - q) /\ q + (c - q) = c
          /\ (c + 1) - q \in 1 .. (m - q) /\ q + ((c + 1) - q) = c + 1 /\ c - q < (c + 1) - q
      BY <1>2, <1>13, <3>2, <3>3
    <3>5. wrappers = {}
      <4>1. \A i \in 1 .. (m - q) : ~OpenTag(t, q + i)
        BY <1>5, <2>3 DEF IsBareCall
      <4>2. QED
        BY <1>6, <1>7, <4>1
    <3>6. c - q \in opens /\ close = "</ml_tool_call>"
      BY <1>9, <3>2, <3>4, <3>5
    <3>7. (c + 1) - q \in closes
      BY <1>1, <1>3, <3>2, <3>4, <3>6
    <3>8. QED
      BY <1>13, <3>7
  <2>4. ASSUME NEW o \in 1 .. Len(t), IsTagOnly(t, o)
        PROVE  ParseCalls(t) = <<>>
    <3>1. \A i \in 1 .. Len(t) : t[i] \notin Closing
      BY <2>4 DEF IsTagOnly
    <3>2. QED
      BY <3>1, NothingHidden
  <2>5. Hidden(t) = {} => ParseCalls(t) = <<>>
    BY NothingHidden
  <2>6. QED
    BY <1>4, <2>2, <2>3, <2>4, <2>5 DEF Shapes
<1>14. got.ready <=> closes # {}
  <2> HIDE DEF closes, a, b
  <2>1. QED
    BY <1>10
<1>15. QED
  BY <1>12, <1>13, <1>14 DEF got

-----------------------------------------------------------------------------

\* The parser went on from q to n with the result r: it gave what is shown there, and the
\* calls that are complete now.
Shown(t, q, n, r) ==
    /\ Clear(t, n)
    /\ RemoveMarkup(r.content) = ShownTo(t, q, n)
    /\ r.calls \in {<<>>, ParseCalls(t)}
    /\ CallsBy(t, q) \o r.calls = CallsBy(t, n)

\* Nothing is shown of nothing.
LEMMA NothingShown ==
    ASSUME NEW P, NEW t \in Seq(P), NEW q \in Nat
    PROVE  ShownTo(t, q, q) = <<>> /\ RemoveMarkup(<<>>) = <<>>
<1>1. (q + 1 .. q) \ Hidden(t) = {}
  OBVIOUS
<1>2. ShownTo(t, q, q) = <<>>
  BY <1>1, KeptNone DEF ShownTo
<1>3. <<>> \in Seq(P) /\ Len(<<>>) = 0
  OBVIOUS
<1>4. (1 .. Len(<<>>)) \ Hidden(<<>>) = {}
  BY <1>3
<1>5. RemoveMarkup(<<>>) = Kept(<<>>, {})
  BY <1>3, <1>4, RemoveMarkupIs
<1>6. QED
  BY <1>2, <1>3, <1>5, KeptNone

\* The calls found from q to n complete those found by q.
LEMMA CallsGrow ==
    ASSUME NEW P, NEW t \in Seq(P), NEW n \in Nat, NEW q \in Nat, q <= n, NEW calls,
           \/ calls = <<>> /\ \A h \in Hidden(t) : h \notin q + 1 .. n
           \/ calls = <<>> /\ ParseCalls(t) = <<>>
           \/ calls = ParseCalls(t) /\ Hidden(t) # {} /\ \A h \in Hidden(t) : h \in q + 1 .. n
    PROVE  CallsBy(t, q) \o calls = CallsBy(t, n)
<1>1. \A h \in Hidden(t) : h \in Nat
  BY LenProperties DEF Hidden
<1>2. ParseCalls(t) \in Seq(Range(ParseCalls(t)))
  BY LenProperties, CallsCounted DEF IsText
<1> DEFINE all == ParseCalls(t)
<1> HIDE DEF all
<1>3. all \o <<>> = all /\ <<>> \o all = all /\ <<>> \o <<>> = <<>>
  BY <1>2, ConcatEmptySeq DEF all
<1>4. CallsBy(t, q) \in {all, <<>>}
  BY DEF CallsBy, all
<1>5. CASE calls = <<>> /\ \A h \in Hidden(t) : h \notin q + 1 .. n
  <2>1. \A h \in Hidden(t) : h <= q <=> h <= n
    BY <1>1, <1>5
  <2>2. CallsBy(t, q) = CallsBy(t, n)
    BY <2>1 DEF CallsBy
  <2>3. QED
    BY <1>3, <1>4, <1>5, <2>2
<1>6. CASE calls = <<>> /\ ParseCalls(t) = <<>>
  <2>1. CallsBy(t, q) = <<>> /\ CallsBy(t, n) = <<>>
    BY <1>6 DEF CallsBy
  <2>2. QED
    BY <1>3, <1>6, <2>1
<1>7. CASE calls = ParseCalls(t) /\ Hidden(t) # {} /\ \A h \in Hidden(t) : h \in q + 1 .. n
  <2>1. CallsBy(t, q) = <<>>
    <3>1. \A h \in Hidden(t) : ~(h <= q)
      BY <1>1, <1>7
    <3>2. QED
      BY <1>7, <3>1 DEF CallsBy
  <2>2. CallsBy(t, n) = all
    BY <1>1, <1>7 DEF CallsBy, all
  <2>3. QED
    BY <1>3, <1>7, <2>1, <2>2 DEF all
<1>8. QED
  BY <1>5, <1>6, <1>7

\* Scanning from a clear place goes on to a clear place, and shows what is between, ...
LEMMA ScannedShows ==
    ASSUME NEW P, NEW t \in Seq(P), Tidy(t), NEW m \in 0 .. Len(t), NEW q \in 0 .. m,
           Clear(t, q), NEW r, r = Scanned(SubSeq(t, q + 1, m))
    PROVE  \E n \in q .. m : Held(r.state) = SubSeq(t, n + 1, m) /\ Shown(t, q, n, r)
<1>1. PICK n \in q .. m : /\ Held(r.state) = SubSeq(t, n + 1, m)
                          /\ r.content = SubSeq(t, q + 1, n)
                          /\ r.calls = <<>>
                          /\ \A i \in q + 1 .. n : t[i] \notin Calls /\ ~At(t, i, Marker)
  BY ScannedIs
<1>2. /\ Len(t) \in Nat /\ m \in Nat /\ q \in Nat /\ n \in Nat
      /\ q <= n /\ n <= Len(t) /\ n \in 0 .. Len(t) /\ q \in 0 .. n
      /\ \A h \in Hidden(t) : h \in Nat
  BY LenProperties DEF Hidden
<1>3. Shapes(t) /\ Names(t)
  BY TidyShapes DEF Tidy
<1>4. ASSUME NEW h \in Hidden(t) PROVE h \notin q + 1 .. n
  <2> SUFFICES ASSUME h \in q + 1 .. n PROVE FALSE
    OBVIOUS
  <2>1. PICK a \in 1 .. Len(t) : a <= h /\ a \in Hidden(t) /\ (OpenTag(t, a) \/ t[a] \in Calls)
    BY <1>3, BlockBegins
  <2>2. q < a
    BY <1>2, <2>1 DEF Clear
  <2>3. a \in q + 1 .. n
    BY <1>2, <2>1, <2>2
  <2>4. ~At(t, a, Marker) /\ t[a] \notin Calls
    BY <1>1, <2>3
  <2>5. QED
    BY <1>3, <2>1, <2>4, MarkerIsTag
<1>5. Clear(t, n)
  <2>1. CASE \A h \in Hidden(t) : q < h
    <3>1. \A h \in Hidden(t) : n < h
      BY <1>2, <1>4, <2>1
    <3>2. QED
      BY <3>1 DEF Clear
  <2>2. CASE \A h \in Hidden(t) : h <= q
    <3>1. \A h \in Hidden(t) : h <= n
      BY <1>2, <2>2
    <3>2. QED
      BY <3>1 DEF Clear
  <2>3. QED
    BY <2>1, <2>2 DEF Clear
<1>6. Uncut(t, q, n)
  BY <1>4 DEF Uncut
<1>7. RemoveMarkup(r.content) = ShownTo(t, q, n)
  BY <1>1, <1>2, <1>6, PartShows
<1>8. CallsBy(t, q) \o r.calls = CallsBy(t, n)
  BY <1>1, <1>2, <1>4, CallsGrow
<1>9. QED
  BY <1>1, <1>5, <1>7, <1>8 DEF Shown

\* ... and so does a capture.
LEMMA CapturedShows ==
    ASSUME NEW P, NEW t \in Seq(P), Tidy(t), NEW m \in 0 .. Len(t), NEW q \in 0 .. m,
           Clear(t, q), NEW r, r = Captured(SubSeq(t, q + 1, m))
    PROVE  \E n \in q .. m : Held(r.state) = SubSeq(t, n + 1, m) /\ Shown(t, q, n, r)
<1> DEFINE h == SubSeq(t, q + 1, m)
           got == tryConsumeCapture(h)
           strip == stripMalformedToolPreludePrefix(h)
<1>1. /\ Len(t) \in Nat /\ m \in Nat /\ q \in Nat /\ q <= m /\ m <= Len(t)
      /\ m \in q .. m /\ q \in q .. m
      /\ \A x \in Hidden(t) : x \in Nat
  BY LenProperties DEF Hidden
<1>2. h \in Seq(P) /\ Len(h) = m - q /\ \A i \in 1 .. (m - q) : h[i] = t[q + i]
  BY CutOfCut
<1>3. Held(NewStreamState) = SubSeq(t, m + 1, m) /\ Held(Capture(h)) = h
  <2>1. Held(NewStreamState) = <<>> /\ Held(Capture(h)) = h
    <3> HIDE DEF h
    <3>1. QED
      BY <1>2, HeldIs
  <2>2. QED
    BY <2>1, NothingBehind
<1>4. h = SubSeq(t, q + 1, m)
  OBVIOUS
<1>5. r = Captured(h)
  OBVIOUS
<1> HIDE DEF h
<1>6. CASE got.ready
  <2>1. /\ \A x \in Hidden(t) : x \in q + 1 .. m
        /\ Hidden(t) # {}
        /\ got.calls = ParseCalls(t)
        /\ RemoveMarkup(got.content) = ShownTo(t, q, m)
    BY <1>4, <1>6, ConsumeShows
  <2>2. r = Result(NewStreamState, got.content, got.calls)
    BY <1>5, <1>6 DEF Captured
  <2> HIDE DEF got
  <2>3. r.state = NewStreamState /\ r.content = got.content /\ r.calls = got.calls
    BY <2>2 DEF Result
  <2>4. Clear(t, m)
    BY <1>1, <2>1 DEF Clear
  <2>5. CallsBy(t, q) \o r.calls = CallsBy(t, m)
    <3>1. r.calls = ParseCalls(t)
      BY <2>1, <2>3
    <3>2. Hidden(t) # {} /\ \A x \in Hidden(t) : x \in q + 1 .. m
      BY <2>1
    <3>3. QED
      BY <1>1, <3>1, <3>2, CallsGrow
  <2>6. Shown(t, q, m, r)
    BY <2>1, <2>3, <2>4, <2>5 DEF Shown
  <2>7. QED
    BY <1>1, <1>3, <2>3, <2>6
<1>7. CASE ~got.ready /\ shouldFallbackMalformedCapture(h)
  <2>1. r = Result(NewStreamState, strip, <<>>)
    BY <1>5, <1>7 DEF Captured
  <2> HIDE DEF strip
  <2>2. r.state = NewStreamState /\ r.content = strip /\ r.calls = <<>>
    BY <2>1 DEF Result
  <2>3. At(h, 1, Open) /\ Len(h) > 3 /\ h[4] \notin Calls
    BY <1>7 DEF shouldFallbackMalformedCapture
  <2>4. 1 \in 1 .. Len(h)
    BY <1>1, <1>2, <2>3
  <2>5. OpenTag(h, 1)
    BY <1>2, <2>3, <2>4, OpenAt DEF OpenTag
  <2>6. Part(h, t, q) /\ q + Len(h) = m
    BY <1>4, PartOf
  <2>7. OpenTag(t, q + 1)
    BY <1>2, <2>4, <2>5, <2>6, OpenInPart
  <2>8. t[(q + 1) + 3] \notin Calls /\ q + 1 \in 1 .. Len(t) /\ (q + 1) + 2 <= m
    <3>1. 4 \in 1 .. (m - q) /\ (q + 1) + 3 = q + 4
      BY <1>1, <1>2, <2>3
    <3>2. h[4] = t[q + 4]
      BY <1>2, <3>1
    <3>3. QED
      BY <1>1, <2>3, <3>1, <3>2
  <2>9. IsTagOnly(t, q + 1)
    <3>1. q + 1 \in Hidden(t)
      BY <2>7, <2>8, OpenIsHidden
    <3>2. Shapes(t)
      BY TidyShapes
    <3>3. ASSUME NEW o \in 1 .. Len(t), OpenTag(t, o) PROVE o = q + 1
      BY <2>7, <2>8, <3>3 DEF Tidy, OneWrapper
    <3>4. ASSUME NEW o \in 1 .. Len(t), NEW e \in 1 .. Len(t), IsWrapper(t, o, e) PROVE FALSE
      BY <2>8, <3>3, <3>4 DEF IsWrapper
    <3>5. ASSUME NEW c \in 1 .. Len(t), IsBareCall(t, c) PROVE FALSE
      BY <2>7, <2>8, <3>5 DEF IsBareCall
    <3>6. PICK o \in 1 .. Len(t) : IsTagOnly(t, o)
      BY <3>1, <3>2, <3>4, <3>5 DEF Shapes
    <3>7. o = q + 1
      BY <3>3, <3>6 DEF IsTagOnly
    <3>8. QED
      BY <3>6, <3>7
  <2>10. \A x \in Hidden(t) : x \in q + 1 .. m
    <3>1. \A x \in q + 1 .. (q + 1) + 2 : x \in q + 1 .. m
      BY <1>1, <2>8
    <3>2. QED
      BY <2>9, <3>1 DEF IsTagOnly
  <2>11. ParseCalls(t) = <<>>
    BY <2>9, NothingHidden DEF IsTagOnly
  <2>12. Clear(t, m) /\ Uncut(t, q, m)
    BY <1>1, <2>10 DEF Clear, Uncut
  <2>13. RemoveMarkup(strip) = ShownTo(t, q, m)
    BY <1>4, <2>12, PartShows DEF strip
  <2>14. CallsBy(t, q) \o r.calls = CallsBy(t, m)
    BY <1>1, <2>2, <2>11, CallsGrow
  <2>15. Shown(t, q, m, r)
    BY <2>2, <2>12, <2>13, <2>14 DEF Shown
  <2>16. QED
    BY <1>1, <1>3, <2>2, <2>15
<1>8. CASE ~got.ready /\ ~shouldFallbackMalformedCapture(h)
  <2>1. r = Result(Capture(h), <<>>, <<>>)
    BY <1>5, <1>8 DEF Captured
  <2>2. r.state = Capture(h) /\ r.content = <<>> /\ r.calls = <<>>
    BY <2>1 DEF Result
  <2>3. RemoveMarkup(r.content) = ShownTo(t, q, q)
    BY <1>1, <2>2, NothingShown
  <2>4. \A x \in Hidden(t) : x \notin q + 1 .. q
    BY <1>1
  <2>5. CallsBy(t, q) \o r.calls = CallsBy(t, q)
    BY <1>1, <2>2, <2>4, CallsGrow
  <2>6. Shown(t, q, q, r)
    BY <2>2, <2>3, <2>5 DEF Shown
  <2>7. Held(r.state) = SubSeq(t, q + 1, m)
    BY <1>3, <1>4, <2>2
  <2>8. QED
    BY <1>1, <2>6, <2>7
<1>9. QED
  BY <1>6, <1>7, <1>8

\* The next chunk of an orderly text, ...
LEMMA ChunkShows ==
    ASSUME NEW t \in Seq(Pieces), Tidy(t),
           NEW m \in 0 .. Len(t), NEW k \in 0 .. m, NEW q \in 0 .. k, Clear(t, q),
           NEW s, StreamOK(s), Held(s) = SubSeq(t, q + 1, k),
           NEW r, r = ProcessStreamChunk(s, SubSeq(t, k + 1, m))
    PROVE  \E n \in q .. m : Held(r.state) = SubSeq(t, n + 1, m) /\ Shown(t, q, n, r)
<1> DEFINE c == SubSeq(t, k + 1, m)
           h == SubSeq(t, q + 1, m)
<1>1. Held(s) \o c = h
  BY Joined
<1>2. Len(t) \in Nat /\ m \in Nat /\ k \in Nat /\ q \in Nat /\ q \in 0 .. m
  BY LenProperties
<1>3. s.capturing \in BOOLEAN
  BY DEF StreamOK
<1>4. CASE s.capturing
  <2>1. r = Captured(h)
    BY <1>1, <1>4 DEF ProcessStreamChunk, Held
  <2>2. QED
    BY <1>2, <2>1, CapturedShows
<1>5. CASE ~s.capturing
  <2>1. Held(s) = s.pending
    BY <1>5, ConcatEmptySeq DEF Held, StreamOK
  <2>2. r = Scanned(h)
    BY <1>1, <1>5, <2>1 DEF ProcessStreamChunk
  <2>3. QED
    BY <1>2, <2>2, ScannedShows
<1>6. QED
  BY <1>3, <1>4, <1>5

\* ... and its end.
LEMMA EndShows ==
    ASSUME NEW t \in Seq(Pieces), Tidy(t), NEW q \in 0 .. Len(t), Clear(t, q),
           NEW s, s.capturing \in BOOLEAN, Held(s) = SubSeq(t, q + 1, Len(t)),
           NEW r, r = FinalizeStream(s)
    PROVE  Shown(t, q, Len(t), r)
<1> DEFINE h == SubSeq(t, q + 1, Len(t))
           got == tryConsumeCapture(h)
           strip == stripMalformedToolPreludePrefix(h)
           L == Len(t)
<1>1. /\ L \in Nat /\ q \in Nat /\ q <= L /\ L \in 0 .. L /\ q \in 0 .. L
      /\ \A x \in Hidden(t) : x \in Nat /\ x <= L
  BY LenProperties DEF Hidden
<1>2. /\ h \in Seq(Pieces) /\ Part(h, t, q) /\ q + Len(h) = L
  BY <1>1, PartOf
<1>3. Uncut(t, q, L) /\ Clear(t, L)
  <2>1. CASE \A x \in Hidden(t) : x <= q
    <3>1. \A x \in Hidden(t) : x \notin q + 1 .. L
      BY <1>1, <2>1
    <3>2. QED
      BY <1>1, <3>1 DEF Uncut, Clear
  <2>2. CASE \A x \in Hidden(t) : q < x
    <3>1. \A x \in Hidden(t) : x \in q + 1 .. L
      BY <1>1, <2>2
    <3>2. QED
      BY <1>1, <3>1 DEF Uncut, Clear
  <2>3. QED
    BY <2>1, <2>2 DEF Clear
<1>4. /\ RemoveMarkup(RemoveMarkup(h)) = ShownTo(t, q, L)
      /\ RemoveMarkup(strip) = ShownTo(t, q, L)
      /\ RemoveMarkup(stripMalformedToolPreludePrefix(RemoveMarkup(h))) = ShownTo(t, q, L)
  BY <1>1, <1>3, PartShows
<1>5. ASSUME \A x \in Hidden(t) : x <= q PROVE \A x \in Hidden(t) : x \notin q + 1 .. L
  BY <1>1, <1>5
<1>6. h = s.captureBuff \o s.pending /\ h = SubSeq(t, q + 1, L)
  BY DEF Held
<1> HIDE DEF h
<1>7. CASE s.capturing /\ got.ready
  <2>1. /\ \A x \in Hidden(t) : x \in q + 1 .. L
        /\ Hidden(t) # {}
        /\ got.calls = ParseCalls(t)
        /\ RemoveMarkup(got.content) = ShownTo(t, q, L)
    BY <1>1, <1>6, <1>7, ConsumeShows
  <2>2. r = Result(s, got.content, got.calls)
    BY <1>6, <1>7 DEF FinalizeStream
  <2> HIDE DEF got
  <2>3. r.content = got.content /\ r.calls = got.calls
    BY <2>2 DEF Result
  <2>4. CallsBy(t, q) \o r.calls = CallsBy(t, L)
    <3>1. r.calls = ParseCalls(t)
      BY <2>1, <2>3
    <3>2. Hidden(t) # {} /\ \A x \in Hidden(t) : x \in q + 1 .. L
      BY <2>1
    <3>3. QED
      BY <1>1, <3>1, <3>2, CallsGrow
  <2>5. QED
    BY <1>3, <2>1, <2>3, <2>4 DEF Shown
<1>8. CASE s.capturing /\ ~got.ready
  <2> DEFINE w == stripMalformedToolPreludePrefix(RemoveMarkup(h))
  <2>1. r = Result(s, w, <<>>)
    BY <1>6, <1>8 DEF FinalizeStream
  <2>2. RemoveMarkup(w) = ShownTo(t, q, L)
    BY <1>4
  <2> HIDE DEF w
  <2>3. r.content = w /\ r.calls = <<>>
    BY <2>1 DEF Result
  <2>4. (\A x \in Hidden(t) : x <= q) \/ ParseCalls(t) = <<>>
    BY <1>1, <1>6, <1>8, ConsumeShows
  <2>5. CallsBy(t, q) \o r.calls = CallsBy(t, L)
    BY <1>1, <1>5, <2>3, <2>4, CallsGrow
  <2>6. QED
    BY <1>3, <2>2, <2>3, <2>5 DEF Shown
<1>9. CASE ~s.capturing
  <2> DEFINE calls == ParseCalls(h)
             w == IF calls # <<>> THEN RemoveMarkup(h) ELSE strip
  <2>1. r = Result(s, w, calls)
    BY <1>6, <1>9 DEF FinalizeStream
  <2>2. RemoveMarkup(w) = ShownTo(t, q, L)
    BY <1>4
  <2>3. calls \in {<<>>, ParseCalls(t)} /\ CallsBy(t, q) \o calls = CallsBy(t, L)
    <3>1. CASE \A x \in Hidden(t) : x <= q
      <4>1. Hidden(h) = {}
        <5>1. ASSUME NEW i \in Hidden(h) PROVE FALSE
          <6>1. q + i \in Hidden(t) /\ i \in 1 .. Len(h)
            BY <1>2, HiddenInPart DEF Hidden
          <6>2. q + i <= q /\ i \in Nat /\ i > 0
            BY <3>1, <6>1
          <6>3. QED
            BY <1>1, <6>2
        <5>2. QED
          BY <5>1
      <4>2. calls = <<>>
        BY <1>2, <4>1, NothingHidden
      <4> HIDE DEF calls
      <4>3. QED
        BY <1>1, <1>5, <3>1, <4>2, CallsGrow
    <3>2. CASE Hidden(t) # {} /\ \A x \in Hidden(t) : q < x
      <4>1. \A x \in Hidden(t) : x \in q + 1 .. q + Len(h)
        BY <1>1, <1>2, <3>2
      <4>2. calls = ParseCalls(t)
        BY <1>2, <4>1, CallsOfPart
      <4> HIDE DEF calls
      <4>3. \A x \in Hidden(t) : x \in q + 1 .. L
        BY <1>2, <4>1
      <4>4. QED
        BY <1>1, <3>2, <4>2, <4>3, CallsGrow
    <3>3. QED
      BY <3>1, <3>2 DEF Clear
  <2> HIDE DEF w, calls
  <2>4. r.content = w /\ r.calls = calls
    BY <2>1 DEF Result
  <2>5. QED
    BY <1>3, <2>2, <2>3, <2>4 DEF Shown
<1>10. QED
  BY <1>7, <1>8, <1>9

-----------------------------------------------------------------------------
(* What the events of a type say. *)

\* f adds up the first n sequences of ss.
Adds(f, ss, n) ==
    /\ f[0] = <<>>
    /\ \A i \in 1 .. n : f[i] = f[i - 1] \o ss[i]

\* The sums of the same texts are the same.
LEMMA AddsSame ==
    ASSUME NEW n \in Nat, NEW ss, NEW tt, \A i \in 1 .. n : ss[i] = tt[i],
           NEW f, Adds(f, ss, n), NEW g, Adds(g, tt, n)
    PROVE  f[n] = g[n]
<1> DEFINE T == {i \in Nat : i <= n => f[i] = g[i]}
<1>1. 0 \in T
  BY DEF Adds
<1>2. ASSUME NEW i \in Nat, i \in T PROVE i + 1 \in T
  <2> SUFFICES ASSUME i + 1 <= n PROVE f[i + 1] = g[i + 1]
    OBVIOUS
  <2>1. f[i] = g[i] /\ i + 1 \in 1 .. n /\ (i + 1) - 1 = i
    BY <1>2
  <2>2. f[i + 1] = f[(i + 1) - 1] \o ss[i + 1] /\ g[i + 1] = g[(i + 1) - 1] \o tt[i + 1]
    BY <2>1 DEF Adds
  <2>3. QED
    BY <2>1, <2>2
<1>3. n \in T
  <2> HIDE DEF T
  <2>1. QED
    BY <1>1, <1>2, Induction
<1>4. QED
  BY <1>3

\* Finitely many texts have a sum, by induction over their number.
LEMMA AddsUp ==
    ASSUME NEW P, NEW n \in Nat, NEW ss \in [1 .. n -> Seq(P)]
    PROVE  \E f : Adds(f, ss, n) /\ f[n] \in Seq(P)
<1> DEFINE T == {m \in Nat : m <= n => \E f : Adds(f, ss, m) /\ f[m] \in Seq(P)}
<1>1. 0 \in T
  <2>1. Adds([i \in 0 .. 0 |-> <<>>], ss, 0)
    BY DEF Adds
  <2>2. [i \in 0 .. 0 |-> <<>>][0] \in Seq(P)
    OBVIOUS
  <2>3. QED
    BY <2>1, <2>2
<1>2. ASSUME NEW m \in Nat, m \in T PROVE m + 1 \in T
  <2> SUFFICES ASSUME m + 1 <= n PROVE \E f : Adds(f, ss, m + 1) /\ f[m + 1] \in Seq(P)
    OBVIOUS
  <2>1. PICK f : Adds(f, ss, m) /\ f[m] \in Seq(P)
    BY <1>2
  <2> DEFINE v == f[m] \o ss[m + 1]
             g == [i \in 0 .. m + 1 |-> IF i = m + 1 THEN v ELSE f[i]]
  <2>2. v \in Seq(P)
    <3>1. ss[m + 1] \in Seq(P)
      OBVIOUS
    <3>2. QED
      BY <2>1, <3>1, ConcatProperties
  <2> HIDE DEF v
  <2>3. g[m + 1] = v
    <3>1. m + 1 \in 0 .. m + 1
      OBVIOUS
    <3>2. QED
      BY <3>1
  <2>4. \A i \in 0 .. m : g[i] = f[i]
    OBVIOUS
  <2> HIDE DEF g
  <2>5. Adds(g, ss, m + 1)
    <3>1. g[0] = <<>>
      BY <2>1, <2>4 DEF Adds
    <3>2. ASSUME NEW i \in 1 .. m + 1 PROVE g[i] = g[i - 1] \o ss[i]
      <4>1. CASE i = m + 1
        <5>1. i - 1 = m /\ m \in 0 .. m
          BY <4>1
        <5>2. QED
          BY <2>3, <2>4, <4>1, <5>1 DEF v
      <4>2. CASE i # m + 1
        <5>1. i \in 1 .. m /\ i \in 0 .. m /\ i - 1 \in 0 .. m
          BY <4>2
        <5>2. f[i] = f[i - 1] \o ss[i]
          BY <2>1, <5>1 DEF Adds
        <5>3. QED
          BY <2>4, <5>1, <5>2
      <4>3. QED
        BY <4>1, <4>2
    <3>3. QED
      BY <3>1, <3>2 DEF Adds
  <2>6. QED
    BY <2>2, <2>3, <2>5
<1>3. n \in T
  <2> HIDE DEF T
  <2>1. QED
    BY <1>1, <1>2, Induction
<1>4. QED
  BY <1>3

\* FlattenSeq is that sum.
LEMMA FlattenIs ==
    ASSUME NEW P, NEW n \in Nat, NEW ss \in [1 .. n -> Seq(P)], NEW f, Adds(f, ss, n)
    PROVE  FlattenSeq(ss) = f[n] /\ f[n] \in Seq(P)
<1>1. ss \in Seq(Seq(P)) /\ Len(ss) = n /\ DOMAIN ss = 1 .. n
  <2>1. ss \in Seq(Seq(P)) /\ DOMAIN ss = 1 .. n
    BY SeqDef
  <2>2. QED
    BY <2>1, LenProperties
<1>2. PICK g : Adds(g, ss, n) /\ g[n] \in Seq(P)
  BY AddsUp
<1>3. f[n] \in Seq(P)
  <2>1. f[n] = g[n]
    BY <1>2, AddsSame
  <2>2. QED
    BY <1>2, <2>1
<1>4. CASE n = 0
  <2>1. ss = <<>>
    BY <1>1, <1>4, EmptySeq
  <2>2. FlattenSeq(ss) = ss
    BY <1>1, <1>4 DEF FlattenSeq
  <2>3. QED
    BY <1>3, <1>4, <2>1, <2>2 DEF Adds
<1>5. CASE n # 0
  <2> DEFINE Follows(h) == h = [i \in 1 .. n |-> IF i = 1 THEN ss[i] ELSE h[i - 1] \o ss[i]]
             sum == CHOOSE h : Follows(h)
  <2>1. FlattenSeq(ss) = sum[n]
    BY <1>1, <1>5 DEF FlattenSeq
  <2> DEFINE h == [i \in 1 .. n |-> f[i]]
  <2>2. \A i \in 1 .. n : ss[i] \in Seq(P)
    OBVIOUS
  <2>3. f[1] = ss[1]
    <3>1. 1 \in 1 .. n /\ 1 - 1 = 0
      BY <1>5
    <3>2. f[1] = <<>> \o ss[1]
      BY <3>1 DEF Adds
    <3>3. QED
      BY <2>2, <3>1, <3>2, ConcatEmptySeq
  <2>4. ASSUME NEW i \in 1 .. n
        PROVE  h[i] = IF i = 1 THEN ss[i] ELSE h[i - 1] \o ss[i]
    <3>1. h[i] = f[i] /\ f[i] = f[i - 1] \o ss[i]
      BY DEF Adds
    <3>2. i # 1 => h[i - 1] = f[i - 1]
      OBVIOUS
    <3>3. QED
      BY <2>3, <3>1, <3>2
  <2>5. Follows(h)
    BY <2>4
  <2>6. Follows(sum)
    <3> HIDE DEF Follows
    <3>1. QED
      BY <2>5
  <2> HIDE DEF sum
  <2>7. \A i \in 1 .. n : sum[i] = IF i = 1 THEN ss[i] ELSE sum[i - 1] \o ss[i]
    BY <2>6
  <2> DEFINE k == [i \in 0 .. n |-> IF i = 0 THEN <<>> ELSE sum[i]]
  <2>8. k[0] = <<>> /\ \A i \in 1 .. n : k[i] = sum[i]
    OBVIOUS
  <2> HIDE DEF k
  <2>9. ASSUME NEW i \in 1 .. n PROVE k[i] = k[i - 1] \o ss[i]
    <3>1. CASE i = 1
      <4>1. k[i] = ss[i] /\ k[i - 1] = <<>>
        BY <2>7, <2>8, <3>1
      <4>2. QED
        BY <2>2, <4>1, ConcatEmptySeq
    <3>2. CASE i # 1
      <4>1. i - 1 \in 1 .. n
        BY <3>2
      <4>2. QED
        BY <2>7, <2>8, <3>2, <4>1
    <3>3. QED
      BY <3>1, <3>2
  <2>10. Adds(k, ss, n)
    BY <2>8, <2>9 DEF Adds
  <2>11. k[n] = f[n]
    BY <2>10, AddsSame
  <2>12. k[n] = sum[n]
    BY <1>5, <2>8
  <2>13. QED
    BY <1>3, <2>1, <2>11, <2>12
<1>6. QED
  BY <1>4, <1>5

Saying(e, type) == IF e.type = type THEN e.what ELSE <<>>

Sayings(es, type) == [i \in DOMAIN es |-> Saying(es[i], type)]

\* The events of the type say what is said.
Speaks(es, type, said) ==
    /\ IsText(es)
    /\ \A i \in DOMAIN es : Saying(es[i], type) \in Seq(Pieces)
    /\ said = FlattenSeq(Sayings(es, type))

\* What Said puts together are the sayings of the events.
LEMMA SaidIs == \A type : Said(type) = FlattenSeq(Sayings(events, type))
BY DEF Said, Sayings, Saying

\* They do, if they add up to it.
LEMMA SpeaksIs ==
    ASSUME NEW es, IsText(es), NEW type,
           \A i \in DOMAIN es : Saying(es[i], type) \in Seq(Pieces),
           NEW f, Adds(f, Sayings(es, type), Len(es))
    PROVE  Speaks(es, type, f[Len(es)]) /\ f[Len(es)] \in Seq(Pieces)
<1>1. Len(es) \in Nat /\ DOMAIN es = 1 .. Len(es)
  BY TextLength
<1>2. Sayings(es, type) \in [1 .. Len(es) -> Seq(Pieces)]
  BY <1>1 DEF Sayings
<1>3. FlattenSeq(Sayings(es, type)) = f[Len(es)] /\ f[Len(es)] \in Seq(Pieces)
  BY <1>1, <1>2, FlattenIs
<1>4. QED
  BY <1>3 DEF Speaks

\* What the events say is the sum of their sayings.
LEMMA SpokenAdds ==
    ASSUME NEW es, NEW type, NEW said, Speaks(es, type, said)
    PROVE  /\ said \in Seq(Pieces)
           /\ \E f : Adds(f, Sayings(es, type), Len(es)) /\ f[Len(es)] = said
                     /\ \A i \in 0 .. Len(es) : f[i] \in Seq(Pieces)
<1>1. Len(es) \in Nat /\ DOMAIN es = 1 .. Len(es)
  BY TextLength DEF Speaks
<1>2. Sayings(es, type) \in [1 .. Len(es) -> Seq(Pieces)]
  BY <1>1 DEF Sayings, Speaks
<1>3. PICK f : Adds(f, Sayings(es, type), Len(es)) /\ f[Len(es)] \in Seq(Pieces)
  BY <1>1, <1>2, AddsUp
<1>4. said = f[Len(es)]
  BY <1>1, <1>2, <1>3, FlattenIs DEF Speaks
<1> DEFINE T == {i \in Nat : i <= Len(es) => f[i] \in Seq(Pieces)}
<1>5. 0 \in T
  <2>1. f[0] \in Seq(Pieces)
    BY <1>3, EmptySeq DEF Adds
  <2>2. QED
    BY <2>1
<1>6. ASSUME NEW i \in Nat, i \in T PROVE i + 1 \in T
  <2> SUFFICES ASSUME i + 1 <= Len(es) PROVE f[i + 1] \in Seq(Pieces)
    OBVIOUS
  <2>1. f[i] \in Seq(Pieces) /\ i + 1 \in 1 .. Len(es) /\ (i + 1) - 1 = i
    BY <1>1, <1>6
  <2>2. f[i + 1] = f[i] \o Sayings(es, type)[i + 1] /\ Sayings(es, type)[i + 1] \in Seq(Pieces)
    BY <1>2, <1>3, <2>1 DEF Adds
  <2>3. QED
    BY <2>1, <2>2, ConcatProperties
<1>7. \A i \in Nat : i \in T
  <2> HIDE DEF T
  <2>1. QED
    BY <1>5, <1>6, Induction
<1>8. QED
  BY <1>3, <1>4, <1>7

\* Of two parts, one says what it says after the other.
LEMMA SpeaksBoth ==
    ASSUME NEW es, NEW fs, NEW type, NEW a, NEW b, Speaks(es, type, a), Speaks(fs, type, b)
    PROVE  Speaks(es \o fs, type, a \o b)
<1> DEFINE E == Range(es) \cup Range(fs)
           g == es \o fs
           L == Len(es)
           M == Len(fs)
<1>1. es \in Seq(E) /\ fs \in Seq(E)
  BY SeqMonotonic DEF Speaks, IsText
<1> HIDE DEF E
<1>2. /\ g \in Seq(E)
      /\ Len(g) = L + M
      /\ \A i \in 1 .. (L + M) : g[i] = IF i <= L THEN es[i] ELSE fs[i - L]
  BY <1>1, ConcatProperties
<1> HIDE DEF g
<1>3. L \in Nat /\ M \in Nat /\ DOMAIN es = 1 .. L /\ DOMAIN fs = 1 .. M /\ DOMAIN g = 1 .. (L + M)
  BY <1>1, <1>2, LenProperties
<1>4. IsText(g)
  BY <1>2, SomeText
<1>5. PICK f : /\ Adds(f, Sayings(es, type), L) /\ f[L] = a
               /\ \A i \in 0 .. L : f[i] \in Seq(Pieces)
  BY SpokenAdds
<1>6. PICK h : /\ Adds(h, Sayings(fs, type), M) /\ h[M] = b
               /\ \A i \in 0 .. M : h[i] \in Seq(Pieces)
  BY SpokenAdds
<1> HIDE DEF L, M
<1>7. a \in Seq(Pieces)
  BY <1>3, <1>5
<1> DEFINE k == [i \in 0 .. L + M |-> IF i <= L THEN f[i] ELSE a \o h[i - L]]
<1>8. /\ k[0] = <<>>
      /\ \A i \in 0 .. L : k[i] = f[i]
      /\ \A i \in 0 .. M : k[L + i] = a \o h[i]
  <2>1. \A i \in 0 .. L : k[i] = f[i]
    BY <1>3
  <2>2. k[0] = <<>>
    BY <1>3, <1>5, <2>1 DEF Adds
  <2>3. ASSUME NEW i \in 0 .. M PROVE k[L + i] = a \o h[i]
    <3>1. CASE i = 0
      <4>1. L + i = L /\ L \in 0 .. L
        BY <1>3, <3>1
      <4>2. k[L + i] = a /\ h[i] = <<>>
        BY <1>5, <1>6, <2>1, <3>1, <4>1 DEF Adds
      <4>3. QED
        BY <1>7, <4>2, ConcatEmptySeq
    <3>2. CASE i # 0
      <4>1. L + i \in 0 .. L + M /\ ~(L + i <= L) /\ (L + i) - L = i
        BY <1>3, <3>2
      <4>2. QED
        BY <4>1
    <3>3. QED
      BY <3>1, <3>2
  <2>4. QED
    BY <2>1, <2>2, <2>3
<1> HIDE DEF k
<1>9. \A i \in 1 .. L + M :
          Sayings(g, type)[i] = IF i <= L THEN Sayings(es, type)[i] ELSE Sayings(fs, type)[i - L]
  <2> SUFFICES ASSUME NEW i \in 1 .. L + M
               PROVE  Sayings(g, type)[i] = IF i <= L THEN Sayings(es, type)[i]
                                                      ELSE Sayings(fs, type)[i - L]
    OBVIOUS
  <2>1. CASE i <= L
    BY <1>2, <1>3, <2>1 DEF Sayings
  <2>2. CASE ~(i <= L)
    <3>1. i - L \in 1 .. M
      BY <1>3, <2>2
    <3>2. QED
      BY <1>2, <1>3, <2>2, <3>1 DEF Sayings
  <2>3. QED
    BY <2>1, <2>2
<1>10. ASSUME NEW i \in 1 .. L + M PROVE k[i] = k[i - 1] \o Sayings(g, type)[i]
  <2>1. CASE i <= L
    <3>1. i \in 1 .. L /\ i \in 0 .. L /\ i - 1 \in 0 .. L
      BY <1>3, <2>1
    <3>2. f[i] = f[i - 1] \o Sayings(es, type)[i]
      BY <1>5, <3>1 DEF Adds
    <3>3. QED
      BY <1>8, <1>9, <2>1, <3>1, <3>2
  <2>2. CASE ~(i <= L)
    <3> DEFINE j == i - L
    <3>1. j \in 1 .. M /\ j \in 0 .. M /\ j - 1 \in 0 .. M /\ L + j = i /\ L + (j - 1) = i - 1
      BY <1>3, <2>2
    <3>2. h[j] = h[j - 1] \o Sayings(fs, type)[j] /\ Sayings(g, type)[i] = Sayings(fs, type)[j]
      BY <1>6, <1>9, <2>2, <3>1 DEF Adds
    <3>3. Sayings(fs, type)[j] \in Seq(Pieces)
      BY <1>3, <3>1 DEF Sayings, Speaks
    <3> HIDE DEF j
    <3>4. k[i] = a \o h[j] /\ k[i - 1] = a \o h[j - 1]
      BY <1>8, <3>1
    <3>5. (a \o h[j - 1]) \o Sayings(fs, type)[j] = a \o (h[j - 1] \o Sayings(fs, type)[j])
      <4> DEFINE y == h[j - 1]
                 z == Sayings(fs, type)[j]
      <4>1. y \in Seq(Pieces) /\ z \in Seq(Pieces)
        BY <1>6, <3>1, <3>3
      <4> HIDE DEF y, z
      <4>2. (a \o y) \o z = a \o (y \o z)
        BY <1>7, <4>1, ConcatAssociative
      <4>3. QED
        BY <4>2 DEF y, z
    <3>6. QED
      BY <3>2, <3>4, <3>5
  <2>3. QED
    BY <2>1, <2>2
<1>11. Adds(k, Sayings(g, type), Len(g))
  BY <1>2, <1>8, <1>10 DEF Adds
<1>12. \A i \in DOMAIN g : Saying(g[i], type) \in Seq(Pieces)
  <2> SUFFICES ASSUME NEW i \in 1 .. L + M PROVE Saying(g[i], type) \in Seq(Pieces)
    BY <1>3
  <2>1. CASE i <= L
    BY <1>2, <1>3, <2>1 DEF Speaks
  <2>2. CASE ~(i <= L)
    <3>1. i - L \in 1 .. M
      BY <1>3, <2>2
    <3>2. QED
      BY <1>2, <1>3, <2>2, <3>1 DEF Speaks
  <2>3. QED
    BY <2>1, <2>2
<1>13. Speaks(g, type, k[Len(g)])
  BY <1>4, <1>11, <1>12, SpeaksIs
<1>14. k[Len(g)] = a \o b
  <2>1. M \in 0 .. M
    BY <1>3
  <2>2. QED
    BY <1>2, <1>6, <1>8, <2>1
<1>15. QED
  BY <1>13, <1>14 DEF g

-----------------------------------------------------------------------------

\* One more event says more.
LEMMA SpeaksMore ==
    ASSUME NEW es, NEW type, NEW a, Speaks(es, type, a),
           NEW e, Saying(e, type) \in Seq(Pieces)
    PROVE  Speaks(Append(es, e), type, a \o Saying(e, type))
<1> DEFINE v == Saying(e, type)
           s == <<e>>
           f == [i \in 0 .. 1 |-> IF i = 0 THEN <<>> ELSE v]
<1>1. s \in Seq({e}) /\ Len(s) = 1 /\ s[1] = e /\ DOMAIN s = 1 .. 1
  OBVIOUS
<1>2. IsText(s)
  BY <1>1, SomeText
<1>3. f[0] = <<>> /\ f[1] = v
  OBVIOUS
<1>4. Sayings(s, type)[1] = v
  <2> HIDE DEF s
  <2>1. QED
    BY <1>1 DEF Sayings
<1>5. v = <<>> \o v
  <2> HIDE DEF v
  <2>1. QED
    BY ConcatEmptySeq DEF v
<1>6. \A i \in DOMAIN s : Saying(s[i], type) \in Seq(Pieces)
  <2> HIDE DEF s
  <2>1. QED
    BY <1>1
<1> HIDE DEF s, f, v
<1>7. Adds(f, Sayings(s, type), Len(s))
  <2>1. \A i \in 1 .. 1 : i = 1 /\ i - 1 = 0
    OBVIOUS
  <2>2. QED
    BY <1>1, <1>3, <1>4, <1>5, <2>1 DEF Adds
<1>8. Speaks(s, type, v)
  BY <1>1, <1>2, <1>3, <1>6, <1>7, SpeaksIs
<1>9. Speaks(es \o s, type, a \o v)
  BY <1>8, SpeaksBoth
<1>10. Append(es, e) = es \o s
  <2> DEFINE E == Range(es) \cup {e}
  <2>1. es \in Seq(E) /\ e \in E
    BY SeqMonotonic DEF Speaks, IsText
  <2> HIDE DEF E
  <2>2. QED
    BY <2>1, AppendIsConcat DEF s
<1>11. QED
  BY <1>9, <1>10 DEF v

\* What the events of a writer say of the text and of the calls.
Heard(es, text, calls) == Speaks(es, "text", text) /\ Speaks(es, "tool_call", calls)

\* Who has heard something has heard texts.
LEMMA HeardText ==
    ASSUME NEW es, NEW a, NEW b, Heard(es, a, b)
    PROVE  IsText(es) /\ a \in Seq(Pieces) /\ b \in Seq(Pieces)
BY SpokenAdds DEF Heard, Speaks

\* Without events nothing is heard.
LEMMA HeardNone == Heard(<<>>, <<>>, <<>>)
<1> SUFFICES ASSUME NEW type PROVE Speaks(<<>>, type, <<>>)
  BY DEF Heard
<1> DEFINE f == [i \in 0 .. 0 |-> <<>>]
<1>1. IsText(<<>>) /\ Len(<<>>) = 0 /\ DOMAIN <<>> = {}
  BY NoText
<1>2. f[0] = <<>>
  OBVIOUS
<1> HIDE DEF f
<1>3. Adds(f, Sayings(<<>>, type), Len(<<>>))
  BY <1>1, <1>2 DEF Adds
<1>4. QED
  BY <1>1, <1>2, <1>3, SpeaksIs

\* Of two lists of events one hears what each says, in that order.
LEMMA HeardBoth ==
    ASSUME NEW es, NEW a, NEW b, Heard(es, a, b), NEW fs, NEW c, NEW d, Heard(fs, c, d)
    PROVE  Heard(es \o fs, a \o c, b \o d)
BY SpeaksBoth DEF Heard

\* An event that says nothing, a text, or a call.
LEMMA HeardSilence ==
    ASSUME NEW es, NEW a, NEW b, Heard(es, a, b),
           NEW type, type \notin {"text", "tool_call"}, NEW index, NEW what
    PROVE  Heard(Append(es, Event(type, index, what)), a, b)
<1> DEFINE e == Event(type, index, what)
<1>1. Saying(e, "text") = <<>> /\ Saying(e, "tool_call") = <<>>
  BY DEF Saying, Event
<1> HIDE DEF e
<1>2. <<>> \in Seq(Pieces) /\ a \o <<>> = a /\ b \o <<>> = b
  BY HeardText, ConcatEmptySeq, EmptySeq
<1>3. Speaks(Append(es, e), "text", a \o Saying(e, "text"))
  BY <1>1, <1>2, SpeaksMore DEF Heard
<1>4. Speaks(Append(es, e), "tool_call", b \o Saying(e, "tool_call"))
  BY <1>1, <1>2, SpeaksMore DEF Heard
<1>5. QED
  BY <1>1, <1>2, <1>3, <1>4 DEF Heard, e

\* One more text, or one more call, is heard at the end.
LEMMA HeardMore ==
    ASSUME NEW es, NEW a, NEW b, Heard(es, a, b), NEW index, NEW what \in Seq(Pieces)
    PROVE  /\ Heard(Append(es, Event("text", index, what)), a \o what, b)
           /\ Heard(Append(es, Event("tool_call", index, what)), a, b \o what)
<1> DEFINE e == Event("text", index, what)
           f == Event("tool_call", index, what)
<1>1. /\ Saying(e, "text") = what /\ Saying(e, "tool_call") = <<>>
      /\ Saying(f, "text") = <<>> /\ Saying(f, "tool_call") = what
  BY DEF Saying, Event
<1> HIDE DEF e, f
<1>2. <<>> \in Seq(Pieces) /\ a \o <<>> = a /\ b \o <<>> = b
  BY HeardText, ConcatEmptySeq, EmptySeq
<1>3. /\ Speaks(Append(es, e), "text", a \o Saying(e, "text"))
      /\ Speaks(Append(es, e), "tool_call", b \o Saying(e, "tool_call"))
  BY <1>1, <1>2, SpeaksMore DEF Heard
<1>4. /\ Speaks(Append(es, f), "text", a \o Saying(f, "text"))
      /\ Speaks(Append(es, f), "tool_call", b \o Saying(f, "tool_call"))
  BY <1>1, <1>2, SpeaksMore DEF Heard
<1>5. Heard(Append(es, e), a \o what, b) /\ Heard(Append(es, f), a, b \o what)
  BY <1>1, <1>2, <1>3, <1>4 DEF Heard
<1>6. QED
  BY <1>5 DEF e, f

-----------------------------------------------------------------------------
(* What the OpenAI handler writes. *)

\* Content is heard as text, ...
LEMMA ContentHeard ==
    ASSUME NEW content \in Seq(Pieces)
    PROVE  Heard(ContentDelta(content), content, <<>>)
<1>1. CASE content = <<>>
  BY <1>1, HeardNone DEF ContentDelta
<1>2. CASE content # <<>>
  <2> DEFINE e == Event("text", 0, content)
  <2>1. Heard(Append(<<>>, e), <<>> \o content, <<>>)
    BY HeardNone, HeardMore
  <2>2. <<>> \o content = content
    BY ConcatEmptySeq
  <2> HIDE DEF e
  <2>3. Append(<<>>, e) = <<e>>
    OBVIOUS
  <2>4. ContentDelta(content) = <<e>>
    BY <1>2 DEF ContentDelta, e
  <2>5. QED
    BY <2>1, <2>2, <2>3, <2>4
<1>3. QED
  BY <1>1, <1>2

\* ... and calls as calls.
LEMMA DeltasHeard ==
    ASSUME NEW calls \in Seq(Pieces)
    PROVE  Heard(ToolDeltas(calls), <<>>, calls)
<1> DEFINE e == ToolDeltas(calls)
           n == Len(calls)
<1>1. n \in Nat /\ DOMAIN calls = 1 .. n /\ IsText(calls) /\ \A i \in 1 .. n : calls[i] \in Pieces
  BY LenProperties, SomeText
<1>2. IsText(e)
  BY <1>1, DeltasNumbered
<1>3. /\ DOMAIN e = 1 .. n
      /\ \A i \in 1 .. n : Saying(e[i], "text") = <<>> /\ Saying(e[i], "tool_call") = <<calls[i]>>
  BY <1>1 DEF ToolDeltas, Saying, Event
<1> HIDE DEF e
<1>4. Len(e) = n
  <2>1. DOMAIN e = 1 .. Len(e) /\ Len(e) \in Nat
    BY <1>2, TextLength
  <2>2. QED
    BY <1>1, <1>3, <2>1
<1>5. \A i \in 1 .. n : <<calls[i]>> \in Seq(Pieces)
  BY <1>1
<1>6. Speaks(e, "text", <<>>)
  <2> DEFINE f == [i \in 0 .. n |-> <<>>]
  <2>1. \A i \in 0 .. n : f[i] = <<>>
    OBVIOUS
  <2> HIDE DEF f
  <2>2. \A i \in 1 .. n : Sayings(e, "text")[i] = <<>>
    BY <1>3 DEF Sayings
  <2>3. <<>> \o <<>> = <<>> /\ <<>> \in Seq(Pieces)
    BY EmptySeq, ConcatEmptySeq
  <2>4. Adds(f, Sayings(e, "text"), Len(e))
    <3>1. 0 \in 0 .. n /\ \A i \in 1 .. n : i \in 0 .. n /\ i - 1 \in 0 .. n
      BY <1>1
    <3>2. QED
      BY <1>4, <2>1, <2>2, <2>3, <3>1 DEF Adds
  <2>5. f[Len(e)] = <<>>
    BY <1>1, <1>4, <2>1
  <2>6. \A i \in DOMAIN e : Saying(e[i], "text") \in Seq(Pieces)
    BY <1>3, <2>3
  <2>7. QED
    BY <1>2, <2>4, <2>5, <2>6, SpeaksIs
<1>7. Speaks(e, "tool_call", calls)
  <2> DEFINE f == [i \in 0 .. n |-> SubSeq(calls, 1, i)]
  <2>1. \A i \in 0 .. n : f[i] = SubSeq(calls, 1, i)
    OBVIOUS
  <2> HIDE DEF f
  <2>2. f[0] = <<>>
    <3>1. SubSeq(calls, 1, 0) = <<>>
      BY SubSeqEmpty
    <3>2. QED
      BY <1>1, <2>1, <3>1
  <2>3. ASSUME NEW i \in 1 .. n PROVE f[i] = f[i - 1] \o Sayings(e, "tool_call")[i]
    <3>1. Sayings(e, "tool_call")[i] = <<calls[i]>>
      BY <1>3 DEF Sayings
    <3>2. 1 \in 1 .. Len(calls) /\ i \in 1 .. Len(calls) /\ i \in 0 .. n /\ i - 1 \in 0 .. n
      BY <1>1
    <3>3. SubSeq(calls, 1, i) = SubSeq(calls, 1, i - 1) \o <<calls[i]>>
      BY <3>2, SubSeqRecursiveSecond
    <3>4. QED
      BY <2>1, <3>1, <3>2, <3>3
  <2>4. Adds(f, Sayings(e, "tool_call"), Len(e))
    BY <1>4, <2>2, <2>3 DEF Adds
  <2>5. f[Len(e)] = calls
    <3>1. SubSeq(calls, 1, n) = calls
      BY SubSeqFull
    <3>2. QED
      BY <1>1, <1>4, <2>1, <3>1
  <2>6. \A i \in DOMAIN e : Saying(e[i], "tool_call") \in Seq(Pieces)
    BY <1>3, <1>5
  <2>7. QED
    BY <1>2, <2>4, <2>5, <2>6, SpeaksIs
<1>8. QED
  BY <1>6, <1>7 DEF Heard, e

-----------------------------------------------------------------------------
(* What the Anthropic handler writes. *)

\* The start of a message says nothing, ...
LEMMA StartHeard ==
    ASSUME NEW w, Fresh(w) \/ Good(w), NEW a, NEW b, Heard(w.events, a, b)
    PROVE  Heard(Started(w).events, a, b)
<1>1. CASE Good(w)
  <2>1. w.events # <<>>
    BY <1>1, NoText DEF Good, Nested
  <2>2. QED
    BY <2>1 DEF Started
<1>2. CASE Fresh(w)
  <2> DEFINE e == Event("message_start", 0, <<>>)
  <2>1. w.events = <<>>
    BY <1>2 DEF Fresh
  <2>2. Heard(Append(<<>>, e), a, b)
    BY <2>1, HeardSilence
  <2>3. Started(w) = [events |-> <<e>>, block |-> 0, nextIndex |-> 1]
    BY <1>2 DEF Fresh, Started
  <2> HIDE DEF e
  <2>4. Append(<<>>, e) = <<e>>
    OBVIOUS
  <2>5. QED
    BY <2>2, <2>3, <2>4
<1>3. QED
  BY <1>1, <1>2

\* ... nor does the end of a block; ...
LEMMA CloseHeard ==
    ASSUME NEW w, Good(w), NEW a, NEW b, Heard(w.events, a, b)
    PROVE  Heard(BlockClosed(w).events, a, b)
<1>1. CASE w.block = 0
  BY <1>1 DEF BlockClosed
<1>2. CASE w.block # 0
  <2> DEFINE es == Append(w.events, Event("block_stop", w.block, <<>>))
  <2>1. Heard(es, a, b)
    BY HeardSilence
  <2>2. BlockClosed(w) = [events |-> es, block |-> 0, nextIndex |-> w.nextIndex]
    BY <1>2 DEF BlockClosed, Good
  <2> HIDE DEF es
  <2>3. QED
    BY <2>1, <2>2
<1>3. QED
  BY <1>1, <1>2

\* The text is written, or, if it begins with half a tag, dropped.
LEMMA TextHeard ==
    ASSUME NEW w, Good(w), NEW a, NEW b, Heard(w.events, a, b), NEW content \in Seq(Pieces)
    PROVE  \/ Heard(WithText(w, content).events, a \o content, b)
           \/ At(content, 1, Marker) /\ Heard(WithText(w, content).events, a, b)
<1>1. IsText(w.events) /\ a \in Seq(Pieces)
  BY HeardText
<1>2. CASE content = <<>>
  <2>1. a \o content = a
    BY <1>1, <1>2, ConcatEmptySeq
  <2>2. QED
    BY <1>2, <2>1 DEF WithText
<1>3. CASE content # <<>> /\ At(content, 1, Marker)
  BY <1>3 DEF WithText
<1>4. CASE content # <<>> /\ ~At(content, 1, Marker) /\ w.block # 0
  <2> DEFINE es == Append(w.events, Event("text", w.block, content))
  <2>1. Heard(es, a \o content, b)
    BY HeardMore
  <2>2. WithText(w, content) = [events |-> es, block |-> w.block, nextIndex |-> w.nextIndex]
    BY <1>4 DEF WithText, Good
  <2> HIDE DEF es
  <2>3. QED
    BY <2>1, <2>2
<1>5. CASE content # <<>> /\ ~At(content, 1, Marker) /\ w.block = 0
  <2> DEFINE x == Event("block_start", w.nextIndex, <<>>)
             y == Event("text", w.nextIndex, content)
             es == w.events \o <<x, y>>
  <2>1. Heard(Append(w.events, x), a, b)
    BY HeardSilence
  <2>2. Heard(Append(Append(w.events, x), y), a \o content, b)
    BY <2>1, HeardMore
  <2>3. es = Append(Append(w.events, x), y)
    BY <1>1, TwoMore
  <2>4. WithText(w, content) = [events |-> es, block |-> w.nextIndex,
                                nextIndex |-> w.nextIndex + 1]
    BY <1>5 DEF WithText
  <2> HIDE DEF es
  <2>5. QED
    BY <2>2, <2>3, <2>4
<1>6. QED
  BY <1>2, <1>3, <1>4, <1>5

\* ... a tool_use block says its call, ...
LEMMA CallHeard ==
    ASSUME NEW w, Good(w), NEW a, NEW b, Heard(w.events, a, b), NEW call \in Pieces
    PROVE  Heard(WithCall(w, call).events, a, b \o <<call>>)
<1> DEFINE c == BlockClosed(w)
           x == Event("block_start", c.nextIndex, <<>>)
           y == Event("tool_call", c.nextIndex, <<call>>)
           z == Event("block_stop", c.nextIndex, <<>>)
           es == c.events \o ToolUse(c.nextIndex, call)
<1>1. Heard(c.events, a, b)
  BY CloseHeard
<1>2. Heard(Append(c.events, x), a, b)
  BY <1>1, HeardSilence
<1>3. Heard(Append(Append(c.events, x), y), a, b \o <<call>>)
  <2>1. <<call>> \in Seq(Pieces)
    OBVIOUS
  <2> HIDE DEF x, c
  <2>2. QED
    BY <1>2, <2>1, HeardMore
<1>4. Heard(Append(Append(Append(c.events, x), y), z), a, b \o <<call>>)
  BY <1>3, HeardSilence
<1>5. es = Append(Append(Append(c.events, x), y), z)
  <2>1. IsText(c.events)
    BY <1>1, HeardText
  <2>2. ToolUse(c.nextIndex, call) = <<x, y, z>>
    BY DEF ToolUse
  <2> HIDE DEF c, x, y, z
  <2>3. c.events \o <<x, y, z>> = Append(Append(Append(c.events, x), y), z)
    BY <2>1, ThreeMore
  <2>4. QED
    BY <2>2, <2>3
<1>6. WithCall(w, call) = [events |-> es, block |-> c.block, nextIndex |-> c.nextIndex + 1]
  BY DEF WithCall
<1> HIDE DEF es, c
<1>7. QED
  BY <1>4, <1>5, <1>6

\* ... and the loop over the calls says all of them, in order.
LEMMA CallsHeard ==
    ASSUME NEW w, Good(w), NEW a, NEW b, Heard(w.events, a, b), NEW calls \in Seq(Pieces)
    PROVE  Heard(WithCalls(w, calls).events, a, b \o calls)
<1> DEFINE L == Len(calls)
<1>1. L \in Nat /\ \A n \in 1 .. L : calls[n] \in Pieces
  BY LenProperties
<1>2. PICK after : /\ \A n \in 0 .. L :
                         after[n] = IF n = 0 THEN w ELSE WithCall(after[n - 1], calls[n])
                   /\ WithCalls(w, calls) = after[L]
  BY <1>1, CallsFollow
<1>3. b \in Seq(Pieces)
  BY HeardText
<1> DEFINE T == {n \in Nat : n <= L =>
                    /\ Good(after[n])
                    /\ Heard(after[n].events, a, b \o SubSeq(calls, 1, n))}
<1>4. 0 \in T
  <2>1. after[0] = w
    BY <1>1, <1>2
  <2>2. SubSeq(calls, 1, 0) = <<>> /\ b \o <<>> = b
    BY <1>3, SubSeqEmpty, ConcatEmptySeq
  <2>3. QED
    BY <2>1, <2>2
<1>5. ASSUME NEW n \in Nat, n \in T PROVE n + 1 \in T
  <2> DEFINE c == calls[n + 1]
             d == b \o SubSeq(calls, 1, n)
  <2> SUFFICES ASSUME n + 1 <= L
               PROVE  /\ Good(after[n + 1])
                      /\ Heard(after[n + 1].events, a, b \o SubSeq(calls, 1, n + 1))
    OBVIOUS
  <2>1. /\ Good(after[n]) /\ Heard(after[n].events, a, d)
        /\ n + 1 \in 0 .. L /\ n + 1 \in 1 .. L /\ n + 1 # 0 /\ (n + 1) - 1 = n
        /\ 1 \in 1 .. L
    BY <1>1, <1>5
  <2>2. after[n + 1] = WithCall(after[n], c) /\ c \in Pieces
    BY <1>1, <1>2, <2>1
  <2>3. b \o SubSeq(calls, 1, n + 1) = d \o <<c>>
    <3> DEFINE p == SubSeq(calls, 1, n)
    <3>1. SubSeq(calls, 1, n + 1) = p \o <<c>>
      BY <2>1, SubSeqRecursiveSecond
    <3>2. p \in Seq(Pieces)
      <4>1. 1 \in Int /\ n \in Int /\ \A i \in 1 .. n : calls[i] \in Pieces
        BY <1>1, <2>1
      <4>2. QED
        BY <4>1, SubSeqProperties
    <3>3. <<c>> \in Seq(Pieces)
      BY <2>2
    <3> HIDE DEF p, c
    <3>4. (b \o p) \o <<c>> = b \o (p \o <<c>>)
      BY <1>3, <3>2, <3>3, ConcatAssociative
    <3>5. QED
      BY <3>1, <3>4 DEF p
  <2> HIDE DEF c, d
  <2>4. Good(after[n + 1])
    BY <2>1, <2>2, CallOK
  <2>5. Heard(after[n + 1].events, a, d \o <<c>>)
    BY <2>1, <2>2, CallHeard
  <2>6. QED
    BY <2>3, <2>4, <2>5
<1>6. L \in T
  <2> HIDE DEF T
  <2>1. QED
    BY <1>1, <1>4, <1>5, Induction
<1>7. SubSeq(calls, 1, L) = calls
  BY SubSeqFull
<1>8. Heard(after[L].events, a, b \o SubSeq(calls, 1, L))
  BY <1>1, <1>6
<1>9. QED
  BY <1>2, <1>7, <1>8

-----------------------------------------------------------------------------
(* Texts within texts. *)

Embeds(f, s, t) ==
    /\ \A i \in 1 .. Len(s) : f[i] \in 1 .. Len(t) /\ s[i] = t[f[i]]
    /\ \A i, j \in 1 .. Len(s) : i < j => f[i] < f[j]

\* The pieces of s are pieces of t, in their order.
Within(s, t) == \E f : Embeds(f, s, t)

\* A text is within itself, and no text within every text.
LEMMA WithinItself ==
    ASSUME NEW P, NEW t \in Seq(P)
    PROVE  Within(t, t) /\ Within(<<>>, t)
<1> DEFINE f == [i \in 1 .. Len(t) |-> i]
<1>1. Len(t) \in Nat
  BY LenProperties
<1>2. Embeds(f, t, t)
  BY <1>1 DEF Embeds
<1>3. Embeds(f, <<>>, t)
  <2>1. 1 .. Len(<<>>) = {}
    OBVIOUS
  <2> HIDE DEF f
  <2>2. QED
    BY <2>1 DEF Embeds
<1>4. QED
  BY <1>2, <1>3 DEF Within

\* What is within something that is within a text is within the text.
LEMMA WithinWithin ==
    ASSUME NEW P, NEW s \in Seq(P), NEW t \in Seq(P), NEW u \in Seq(P),
           Within(s, t), Within(t, u)
    PROVE  Within(s, u)
<1>1. PICK f : Embeds(f, s, t)
  BY DEF Within
<1>2. PICK g : Embeds(g, t, u)
  BY DEF Within
<1> DEFINE h == [i \in 1 .. Len(s) |-> g[f[i]]]
<1>3. \A i \in 1 .. Len(s) : h[i] = g[f[i]]
  OBVIOUS
<1> HIDE DEF h
<1>4. ASSUME NEW i \in 1 .. Len(s) PROVE h[i] \in 1 .. Len(u) /\ s[i] = u[h[i]]
  BY <1>1, <1>2, <1>3 DEF Embeds
<1>5. ASSUME NEW i \in 1 .. Len(s), NEW j \in 1 .. Len(s), i < j PROVE h[i] < h[j]
  <2>1. f[i] \in 1 .. Len(t) /\ f[j] \in 1 .. Len(t) /\ f[i] < f[j]
    BY <1>1, <1>5 DEF Embeds
  <2>2. QED
    BY <1>2, <1>3, <2>1 DEF Embeds
<1>6. Embeds(h, s, u)
  BY <1>4, <1>5 DEF Embeds
<1>7. QED
  BY <1>6 DEF Within

\* Two texts, each within another, are together within both.
LEMMA WithinBoth ==
    ASSUME NEW P, NEW a \in Seq(P), NEW b \in Seq(P), NEW c \in Seq(P), NEW d \in Seq(P),
           Within(a, c), Within(b, d)
    PROVE  Within(a \o b, c \o d)
<1>1. PICK f : Embeds(f, a, c)
  BY DEF Within
<1>2. PICK g : Embeds(g, b, d)
  BY DEF Within
<1> DEFINE x == a \o b
           y == c \o d
           h == [i \in 1 .. Len(a) + Len(b) |-> IF i <= Len(a) THEN f[i]
                                                ELSE Len(c) + g[i - Len(a)]]
<1>3. Len(a) \in Nat /\ Len(b) \in Nat /\ Len(c) \in Nat /\ Len(d) \in Nat
  BY LenProperties
<1>4. /\ Len(x) = Len(a) + Len(b)
      /\ \A i \in 1 .. Len(a) + Len(b) : x[i] = IF i <= Len(a) THEN a[i] ELSE b[i - Len(a)]
  BY ConcatProperties
<1>5. /\ Len(y) = Len(c) + Len(d)
      /\ \A i \in 1 .. Len(c) + Len(d) : y[i] = IF i <= Len(c) THEN c[i] ELSE d[i - Len(c)]
  BY ConcatProperties
<1> HIDE DEF x, y
<1>6. ASSUME NEW i \in 1 .. Len(a) + Len(b), i <= Len(a)
      PROVE  i \in 1 .. Len(a) /\ h[i] = f[i] /\ f[i] \in 1 .. Len(c) /\ a[i] = c[f[i]]
  <2>1. i \in 1 .. Len(a)
    BY <1>3, <1>6
  <2>2. QED
    BY <1>1, <1>6, <2>1 DEF Embeds
<1>7. ASSUME NEW i \in 1 .. Len(a) + Len(b), ~(i <= Len(a))
      PROVE  /\ i - Len(a) \in 1 .. Len(b)
             /\ h[i] = Len(c) + g[i - Len(a)]
             /\ g[i - Len(a)] \in 1 .. Len(d)
             /\ b[i - Len(a)] = d[g[i - Len(a)]]
  <2>1. i - Len(a) \in 1 .. Len(b)
    BY <1>3, <1>7
  <2>2. QED
    BY <1>2, <1>7, <2>1 DEF Embeds
<1> HIDE DEF h
<1>8. ASSUME NEW i \in 1 .. Len(x) PROVE h[i] \in 1 .. Len(y) /\ x[i] = y[h[i]]
  <2>1. i \in 1 .. Len(a) + Len(b)
    BY <1>4
  <2>2. CASE i <= Len(a)
    <3>1. /\ h[i] \in 1 .. Len(c) + Len(d) /\ h[i] <= Len(c)
          /\ h[i] = f[i] /\ a[i] = c[f[i]]
      BY <1>3, <1>6, <2>1, <2>2
    <3>2. x[i] = a[i]
      BY <1>4, <2>1, <2>2
    <3>3. y[h[i]] = c[h[i]]
      BY <1>5, <3>1
    <3>4. QED
      BY <1>5, <3>1, <3>2, <3>3
  <2>3. CASE ~(i <= Len(a))
    <3> DEFINE k == g[i - Len(a)]
    <3>1. h[i] = Len(c) + k /\ k \in 1 .. Len(d) /\ b[i - Len(a)] = d[k]
      BY <1>7, <2>1, <2>3
    <3> HIDE DEF k
    <3>2. h[i] \in 1 .. Len(c) + Len(d) /\ ~(h[i] <= Len(c)) /\ h[i] - Len(c) = k
      BY <1>3, <3>1
    <3>3. x[i] = b[i - Len(a)]
      BY <1>4, <2>1, <2>3
    <3>4. y[h[i]] = d[k]
      BY <1>5, <3>2
    <3>5. QED
      BY <1>5, <3>1, <3>2, <3>3, <3>4
  <2>4. QED
    BY <2>2, <2>3
<1>9. ASSUME NEW i \in 1 .. Len(x), NEW j \in 1 .. Len(x), i < j PROVE h[i] < h[j]
  <2>1. i \in 1 .. Len(a) + Len(b) /\ j \in 1 .. Len(a) + Len(b)
    BY <1>4
  <2>2. CASE j <= Len(a)
    <3>1. i <= Len(a)
      BY <1>3, <1>9, <2>1, <2>2
    <3>2. h[i] = f[i] /\ h[j] = f[j] /\ i \in 1 .. Len(a) /\ j \in 1 .. Len(a)
      BY <1>6, <2>1, <2>2, <3>1
    <3>3. QED
      BY <1>1, <1>9, <3>2 DEF Embeds
  <2>3. CASE i <= Len(a) /\ ~(j <= Len(a))
    <3>1. h[i] = f[i] /\ f[i] \in 1 .. Len(c)
      BY <1>6, <2>1, <2>3
    <3>2. h[j] = Len(c) + g[j - Len(a)] /\ g[j - Len(a)] \in 1 .. Len(d)
      BY <1>7, <2>1, <2>3
    <3>3. QED
      BY <1>3, <3>1, <3>2
  <2>4. CASE ~(i <= Len(a)) /\ ~(j <= Len(a))
    <3> DEFINE k == i - Len(a)
               l == j - Len(a)
    <3>1. /\ k \in 1 .. Len(b) /\ h[i] = Len(c) + g[k] /\ g[k] \in 1 .. Len(d)
          /\ l \in 1 .. Len(b) /\ h[j] = Len(c) + g[l] /\ g[l] \in 1 .. Len(d)
      BY <1>7, <2>1, <2>4
    <3>2. k < l
      BY <1>3, <1>9, <2>1
    <3> HIDE DEF k, l
    <3>3. g[k] < g[l]
      BY <1>2, <3>1, <3>2 DEF Embeds
    <3>4. QED
      BY <1>3, <3>1, <3>3
  <2>5. QED
    BY <2>2, <2>3, <2>4
<1>10. Embeds(h, x, y)
  BY <1>8, <1>9 DEF Embeds
<1>11. QED
  BY <1>10 DEF Within, x, y

\* What is kept of a text, or cut out of it, is within it.
LEMMA KeptWithin ==
    ASSUME NEW P, NEW t \in Seq(P), NEW S \in SUBSET (1 .. Len(t))
    PROVE  Kept(t, S) \in Seq(P) /\ Within(Kept(t, S), t)
<1> DEFINE K == Kept(t, S)
<1>1. K \in Seq(P)
  BY KeptText
<1>2. PICK f : Lists(f, Len(K), S) /\ \A m \in 1 .. Len(K) : f[m] \in S /\ K[m] = t[f[m]]
  BY KeptText
<1> HIDE DEF K
<1>3. \A i, j \in 1 .. Len(K) : i < j => f[i] < f[j]
  BY <1>2 DEF Lists
<1>4. Embeds(f, K, t)
  BY <1>2, <1>3 DEF Embeds
<1>5. QED
  BY <1>1, <1>4 DEF Within, K

\* A part is within its text.
LEMMA CutWithin ==
    ASSUME NEW P, NEW t \in Seq(P), NEW a \in Nat \ {0}, NEW b \in Nat, b <= Len(t)
    PROVE  SubSeq(t, a, b) \in Seq(P) /\ Within(SubSeq(t, a, b), t)
<1> DEFINE s == SubSeq(t, a, b)
           f == [i \in 1 .. Len(s) |-> a + i - 1]
<1>1. /\ s \in Seq(P)
      /\ Len(s) = IF a <= b THEN b - a + 1 ELSE 0
      /\ \A i \in 1 .. (b - a + 1) : s[i] = t[a + i - 1]
  BY Cut
<1>2. Len(t) \in Nat /\ Len(s) \in Nat
  BY <1>1, LenProperties
<1> HIDE DEF s
<1>3. ASSUME NEW i \in 1 .. Len(s)
      PROVE  f[i] = a + i - 1 /\ f[i] \in 1 .. Len(t) /\ s[i] = t[f[i]]
  <2>1. f[i] = a + i - 1
    OBVIOUS
  <2>2. i \in 1 .. (b - a + 1) /\ a + i - 1 \in 1 .. Len(t)
    BY <1>1, <1>2
  <2>3. QED
    BY <1>1, <2>1, <2>2
<1> HIDE DEF f
<1>4. \A i, j \in 1 .. Len(s) : i < j => f[i] < f[j]
  BY <1>2, <1>3
<1>5. Embeds(f, s, t)
  BY <1>3, <1>4 DEF Embeds
<1>6. QED
  BY <1>1, <1>5 DEF Within, s

\* The greedy matching of IsSubsequence finds every piece of a text within another.
LEMMA WithinIsSubsequence ==
    ASSUME NEW P, NEW s \in Seq(P), NEW t \in Seq(P), Within(s, t)
    PROVE  IsSubsequence(s, t)
<1> DEFINE L == Len(t)
           More(n, i) == IF n < Len(s) /\ s[n + 1] = t[i] THEN n + 1 ELSE n
           Follows(f) == f = [i \in 0 .. L |-> IF i = 0 THEN 0
                                               ELSE LET n == f[i - 1]
                                                    IN  IF n < Len(s) /\ s[n + 1] = t[i]
                                                        THEN n + 1 ELSE n]
           Upto(m, f) == \A i \in 0 .. m : f[i] = IF i = 0 THEN 0 ELSE More(f[i - 1], i)
           T == {m \in Nat : \E f : Upto(m, f)}
<1>1. L \in Nat /\ Len(s) \in Nat
  BY LenProperties
<1>2. 0 \in T
  <2>1. Upto(0, [i \in 0 .. 0 |-> 0])
    OBVIOUS
  <2>2. QED
    BY <2>1
<1>3. ASSUME NEW m \in Nat, m \in T
      PROVE  m + 1 \in T
  <2> HIDE DEF More
  <2>1. PICK f : Upto(m, f)
    BY <1>3
  <2> DEFINE g == [i \in 0 .. m + 1 |-> IF i = m + 1 THEN More(f[m], m + 1) ELSE f[i]]
  <2>2. ASSUME NEW i \in 0 .. m + 1
        PROVE  g[i] = IF i = 0 THEN 0 ELSE More(g[i - 1], i)
    <3>1. CASE i = m + 1
      <4>1. i # 0 /\ i - 1 = m /\ m \in 0 .. m + 1 /\ m # m + 1
        BY <3>1
      <4>2. g[i] = More(f[m], i) /\ g[i - 1] = f[m]
        BY <3>1, <4>1
      <4>3. QED
        BY <4>1, <4>2
    <3>2. CASE i # m + 1
      <4>1. i \in 0 .. m /\ (i # 0 => i - 1 \in 0 .. m + 1 /\ i - 1 # m + 1)
        BY <3>2
      <4>2. g[i] = f[i] /\ (i # 0 => g[i - 1] = f[i - 1])
        BY <3>2, <4>1
      <4>3. QED
        BY <2>1, <4>1, <4>2
    <3>3. QED
      BY <3>1, <3>2
  <2>3. Upto(m + 1, g)
    BY <2>2
  <2> HIDE DEF g, Upto
  <2>4. QED
    BY <2>3
<1>4. L \in T
  <2> HIDE DEF T
  <2>1. QED
    BY <1>1, <1>2, <1>3, Induction
<1>5. PICK f : Upto(L, f)
  BY <1>4
<1> DEFINE h == [i \in 0 .. L |-> f[i]]
<1>6. ASSUME NEW i \in 0 .. L
      PROVE  h[i] = IF i = 0 THEN 0 ELSE More(h[i - 1], i)
  <2> HIDE DEF More
  <2>1. i # 0 => i - 1 \in 0 .. L
    BY <1>1
  <2>2. h[i] = f[i] /\ (i # 0 => h[i - 1] = f[i - 1])
    BY <2>1
  <2>3. QED
    BY <1>5, <2>2
<1>7. Follows(h)
  BY <1>6
<1> DEFINE matched == CHOOSE g : Follows(g)
<1>8. IsSubsequence(s, t) <=> matched[L] = Len(s)
  BY DEF IsSubsequence
<1>9. Follows(matched)
  <2> HIDE DEF Follows
  <2>1. QED
    BY <1>7
<1> HIDE DEF matched
<1>10. /\ matched[0] = 0
       /\ \A i \in 1 .. L : matched[i] = More(matched[i - 1], i)
  <2>1. \A i \in 0 .. L : matched[i] = IF i = 0 THEN 0 ELSE More(matched[i - 1], i)
    BY <1>9
  <2> HIDE DEF More
  <2>2. 0 \in 0 .. L /\ \A i \in 1 .. L : i \in 0 .. L /\ i # 0
    BY <1>1
  <2>3. QED
    BY <2>1, <2>2
<1>11. PICK e : Embeds(e, s, t)
  BY DEF Within
<1> DEFINE R == {i \in Nat : i <= L =>
                     /\ matched[i] \in 0 .. Len(s)
                     /\ \A j \in 1 .. Len(s) : e[j] <= i => j <= matched[i]}
<1>12. 0 \in R
  <2>1. \A j \in 1 .. Len(s) : e[j] \in Nat /\ ~(e[j] <= 0)
    BY <1>11 DEF Embeds
  <2>2. QED
    BY <1>1, <1>10, <2>1
<1>13. ASSUME NEW i \in Nat, i \in R
       PROVE  i + 1 \in R
  <2> SUFFICES ASSUME i + 1 <= L
               PROVE  /\ matched[i + 1] \in 0 .. Len(s)
                      /\ \A j \in 1 .. Len(s) : e[j] <= i + 1 => j <= matched[i + 1]
    OBVIOUS
  <2> DEFINE n == matched[i]
  <2>1. n \in 0 .. Len(s) /\ \A j \in 1 .. Len(s) : e[j] <= i => j <= n
    BY <1>1, <1>13
  <2>2. matched[i + 1] = More(n, i + 1)
    <3>1. i + 1 \in 1 .. L /\ (i + 1) - 1 = i
      BY <1>1
    <3> HIDE DEF More
    <3>2. QED
      BY <1>10, <3>1
  <2> HIDE DEF n
  <2>3. matched[i + 1] \in 0 .. Len(s) /\ n <= matched[i + 1]
    BY <1>1, <2>1, <2>2
  <2>4. ASSUME NEW j \in 1 .. Len(s), e[j] <= i + 1
        PROVE  j <= matched[i + 1]
    <3>1. e[j] \in 1 .. L /\ s[j] = t[e[j]]
      BY <1>11 DEF Embeds
    <3>2. CASE e[j] <= i
      BY <1>1, <2>1, <2>3, <3>2
    <3>3. CASE ~(e[j] <= i)
      <4>1. e[j] = i + 1
        BY <1>1, <2>4, <3>1, <3>3
      <4>2. j - 1 <= n
        <5>1. CASE j = 1
          BY <2>1, <5>1
        <5>2. CASE j # 1
          <6>1. j - 1 \in 1 .. Len(s) /\ j - 1 < j
            BY <1>1, <5>2
          <6>2. e[j - 1] \in 1 .. L /\ e[j - 1] < e[j]
            BY <1>11, <6>1 DEF Embeds
          <6>3. e[j - 1] <= i
            BY <1>1, <4>1, <6>2
          <6>4. QED
            BY <2>1, <6>1, <6>3
        <5>3. QED
          BY <5>1, <5>2
      <4>3. CASE j <= n
        BY <1>1, <2>1, <2>3, <4>3
      <4>4. CASE ~(j <= n)
        <5>1. n + 1 = j /\ n < Len(s)
          BY <1>1, <2>1, <4>2, <4>4
        <5>2. s[n + 1] = t[i + 1]
          BY <3>1, <4>1, <5>1
        <5>3. matched[i + 1] = n + 1
          BY <2>2, <5>1, <5>2
        <5>4. QED
          BY <5>1, <5>3
      <4>5. QED
        BY <4>3, <4>4
    <3>4. QED
      BY <3>2, <3>3
  <2>5. QED
    BY <2>3, <2>4
<1>14. L \in R
  <2> HIDE DEF R
  <2>1. QED
    BY <1>1, <1>12, <1>13, Induction
<1>15. matched[L] \in 0 .. Len(s) /\ \A j \in 1 .. Len(s) : e[j] <= L => j <= matched[L]
  BY <1>1, <1>14
<1>16. matched[L] = Len(s)
  <2>1. CASE Len(s) = 0
    BY <1>15, <2>1
  <2>2. CASE Len(s) # 0
    <3>1. Len(s) \in 1 .. Len(s)
      BY <1>1, <2>2
    <3>2. e[Len(s)] \in 1 .. L
      BY <1>11, <3>1 DEF Embeds
    <3>3. e[Len(s)] <= L
      BY <1>1, <3>2
    <3>4. Len(s) <= matched[L]
      BY <1>15, <3>1, <3>3
    <3>5. QED
      BY <1>1, <1>15, <3>4
  <2>3. QED
    BY <2>1, <2>2
<1>17. QED
  BY <1>8, <1>16

\* What the parser shows of a text is within it.
LEMMA MarkupWithin ==
    ASSUME NEW P, NEW t \in Seq(P)
    PROVE  RemoveMarkup(t) \in Seq(P) /\ Within(RemoveMarkup(t), t)
<1>1. RemoveMarkup(t) = Kept(t, 1 .. Len(t) \ Hidden(t))
  BY RemoveMarkupIs
<1> DEFINE S == 1 .. Len(t) \ Hidden(t)
<1>2. S \in SUBSET (1 .. Len(t)) /\ RemoveMarkup(t) = Kept(t, S)
  BY <1>1
<1> HIDE DEF S
<1>3. QED
  BY <1>2, KeptWithin

\* The calls that ParseCalls finds are within the text.
LEMMA CallsWithin ==
    ASSUME NEW P, NEW t \in Seq(P)
    PROVE  ParseCalls(t) \in Seq(P) /\ Within(ParseCalls(t), t)
<1> DEFINE found == IF Wrapped(t) # {} THEN Wrapped(t) ELSE Closed(t)
           S == {i \in found : \A j \in found : j < i => t[j] # t[i]}
<1>1. Closed(t) \in SUBSET (1 .. Len(t)) /\ Wrapped(t) \in SUBSET (1 .. Len(t))
  BY ClosedIs, WrappedIs
<1>2. S \in SUBSET (1 .. Len(t))
  BY <1>1
<1>3. ParseCalls(t) = Kept(t, S)
  BY DEF ParseCalls
<1> HIDE DEF S
<1>4. QED
  BY <1>2, <1>3, KeptWithin

\* stripMalformedToolPreludePrefix only takes away.
LEMMA StripWithin ==
    ASSUME NEW P, NEW t \in Seq(P)
    PROVE  LET u == stripMalformedToolPreludePrefix(t)
           IN  u \in Seq(P) /\ Within(u, t)
<1> DEFINE tags == {n \in 0 .. Len(t) : \A m \in 0 .. n - 1 : At(t, 3 * m + 1, Open)}
           B == {n \in Nat : \A y \in tags : y <= n}
<1>1. Len(t) \in Nat
  BY LenProperties
<1>2. 0 \in tags /\ tags \in SUBSET (0 .. Len(t))
  BY <1>1
<1> HIDE DEF tags
<1>3. Max(tags) \in Nat
  <2>1. B \in SUBSET Nat /\ Len(t) \in B
    BY <1>1, <1>2
  <2>2. PICK n \in B : \A m \in B : n <= m
    <3> HIDE DEF B
    <3>1. QED
      BY <2>1, SmallestOf
  <2>3. n \in tags
    <3> SUFFICES ASSUME n \notin tags PROVE FALSE
      OBVIOUS
    <3>1. n \in Nat /\ \A y \in tags : y <= n /\ y # n /\ y \in Nat
      BY <1>2, <2>2
    <3>2. n - 1 \in Nat /\ \A y \in tags : y <= n - 1
      BY <1>2, <3>1
    <3>3. n - 1 \in B
      BY <3>2
    <3>4. QED
      BY <2>2, <3>1, <3>3
  <2>4. \A y \in tags : n >= y
    BY <1>2, <2>2
  <2>5. Max(tags) \in tags
    BY <2>3, <2>4 DEF Max
  <2>6. \A y \in tags : y \in Nat
    BY <1>1, <1>2
  <2>7. QED
    BY <2>5, <2>6, Zenon
<1> DEFINE a == 3 * Max(tags) + 1
<1>4. a \in Nat \ {0}
  BY <1>3
<1>5. stripMalformedToolPreludePrefix(t) = SubSeq(t, a, Len(t))
  BY DEF stripMalformedToolPreludePrefix, tags
<1> HIDE DEF a
<1>6. QED
  BY <1>1, <1>4, <1>5, CutWithin

-----------------------------------------------------------------------------
(* What one step lets the client hear. *)

\* The text before q and the text from q to n are the text to n.
LEMMA ShownGrows ==
    ASSUME NEW P, NEW t \in Seq(P), NEW n \in 0 .. Len(t), NEW q \in 0 .. n
    PROVE  /\ ShownTo(t, 0, n) = ShownTo(t, 0, q) \o ShownTo(t, q, n)
           /\ ShownTo(t, 0, q) \in Seq(P) /\ ShownTo(t, q, n) \in Seq(P)
<1> DEFINE S == (0 + 1 .. q) \ Hidden(t)
           R == (q + 1 .. n) \ Hidden(t)
<1>1. Len(t) \in Nat /\ n \in Nat /\ q \in Nat
  BY LenProperties
<1>2. S \in SUBSET (1 .. Len(t)) /\ R \in SUBSET (1 .. Len(t)) /\ \A i \in S, j \in R : i < j
  BY <1>1
<1>3. (0 + 1 .. n) \ Hidden(t) = S \cup R
  BY <1>1
<1>4. ShownTo(t, 0, q) = Kept(t, S) /\ ShownTo(t, q, n) = Kept(t, R)
  BY DEF ShownTo
<1>5. ShownTo(t, 0, n) = Kept(t, S \cup R)
  BY <1>3 DEF ShownTo
<1> HIDE DEF S, R
<1>6. Kept(t, S \cup R) = Kept(t, S) \o Kept(t, R)
  BY <1>2, KeptParts
<1>7. Kept(t, S) \in Seq(P) /\ Kept(t, R) \in Seq(P)
  BY <1>2, KeptText
<1>8. QED
  BY <1>4, <1>5, <1>6, <1>7

\* What is shown does not begin with half a tag.
LEMMA ShownIsNoTag ==
    ASSUME NEW P, NEW t \in Seq(P), Names(t), NEW n \in 0 .. Len(t), NEW q \in 0 .. n
    PROVE  ~At(ShownTo(t, q, n), 1, Marker)
<1> DEFINE S == (q + 1 .. n) \ Hidden(t)
           K == Kept(t, S)
<1>1. Len(t) \in Nat /\ n \in Nat /\ q \in Nat /\ NamesHidden(t)
  BY LenProperties, TidyNames
<1>2. S \in SUBSET (1 .. Len(t)) /\ \A i \in S : i \notin Hidden(t)
  BY <1>1
<1>3. ShownTo(t, q, n) = K
  BY DEF ShownTo
<1> HIDE DEF S
<1>4. /\ K \in Seq(P)
      /\ \E f : \A m \in 1 .. Len(K) : f[m] \in S /\ K[m] = t[f[m]]
  BY <1>2, KeptText
<1> HIDE DEF K
<1>5. \A m \in 1 .. Len(K) : K[m] # "ml_tool_calls"
  BY <1>1, <1>2, <1>4 DEF NamesHidden
<1>6. Marker \in Seq({"<", "ml_tool_calls"}) /\ Len(Marker) = 2 /\ Marker[2] = "ml_tool_calls"
  BY DEF Marker
<1>7. Len(K) \in Nat
  BY <1>4, LenProperties
<1> SUFFICES ASSUME At(K, 1, Marker) PROVE FALSE
  BY <1>3
<1>8. 1 \in 1 .. Len(K) + 1
  BY <1>7
<1>9. /\ 1 + Len(Marker) <= Len(K) + 1
      /\ \A j \in 1 .. Len(Marker) : K[1 + j - 1] = Marker[j]
  <2>1. K \in Seq(P)
    BY <1>4
  <2> DEFINE i == 1
  <2>2. i \in 1 .. Len(K) + 1 /\ At(K, i, Marker)
    BY <1>8
  <2>3. Marker \in Seq({"<", "ml_tool_calls"})
    BY <1>6
  <2> HIDE DEF i
  <2>4. /\ i + Len(Marker) <= Len(K) + 1
        /\ \A j \in 1 .. Len(Marker) : K[i + j - 1] = Marker[j]
    BY <2>1, <2>2, <2>3, AtIs
  <2>5. QED
    BY <2>4 DEF i
<1>10. 2 \in 1 .. Len(Marker) /\ 2 \in 1 .. Len(K)
  BY <1>6, <1>7, <1>9
<1>11. K[1 + 2 - 1] = Marker[2]
  BY <1>9, <1>10
<1>12. K[2] = "ml_tool_calls"
  BY <1>6, <1>11
<1>13. QED
  BY <1>5, <1>10, <1>12

\* An orderly answer is tidy, and has no markup where no tools were named.
LEMMA OrderlyIsTidy ==
    ASSUME TypeOK, Orderly
    PROVE  /\ answer \in Seq(Pieces) /\ Tidy(answer)
           /\ ~withTools => Hidden(answer) = {} /\ ParseCalls(answer) = <<>>
<1> DEFINE t == answer
           B == ToolBlocks(answer)
<1>1. t \in Seq(Pieces) /\ withTools \in BOOLEAN
  BY AnswersAreTexts DEF TypeOK
<1>2. IsFiniteSet(B)
  BY <1>1, BlocksAreFew
<1>3. Cardinality(B) \in Nat /\ (Cardinality(B) = 0 => B = {})
  BY <1>2, FS_CardinalityType, FS_EmptySet
<1>4. Cardinality(B) <= (IF withTools THEN 1 ELSE 0) /\ Complete(t)
  BY DEF Orderly
<1>5. Tidy(t)
  <2> HIDE DEF B
  <2>1. Cardinality(B) <= 1
    BY <1>1, <1>3, <1>4
  <2>2. OneTool(t)
    BY <1>4, <2>1 DEF OneTool, B
  <2>3. QED
    BY <1>1, <2>2, OneToolIsTidy
<1>6. ASSUME ~withTools PROVE Hidden(t) = {} /\ ParseCalls(t) = <<>>
  <2>1. B = {}
    <3> HIDE DEF B
    <3>1. Cardinality(B) <= 0
      BY <1>4, <1>6
    <3>2. QED
      BY <1>3, <3>1
  <2>2. ASSUME NEW o \in 1 .. Len(t), OpenTag(t, o) PROVE FALSE
    <3>1. t[o] = "<" /\ "<" \notin Calls
      BY <2>2, CallsAssumption DEF OpenTag
    <3>2. At(t, o, Marker)
      BY <1>1, <1>5, <2>2, MarkerIsTag DEF Tidy
    <3>3. o \in B
      BY <1>1, <3>1, <3>2, LenProperties DEF ToolBlocks, firstMarker
    <3>4. QED
      BY <2>1, <3>3
  <2>3. ASSUME NEW c \in 1 .. Len(t), t[c] \in Calls PROVE FALSE
    <3>1. \A o \in 1 .. c : ~At(t, o, Open)
      <4> SUFFICES ASSUME NEW o \in 1 .. c, At(t, o, Open) PROVE FALSE
        OBVIOUS
      <4>1. o \in 1 .. Len(t)
        BY <1>1, LenProperties
      <4>2. OpenTag(t, o)
        BY <1>1, <4>1, OpenAt DEF OpenTag
      <4>3. QED
        BY <2>2, <4>1, <4>2
    <3>2. c \in B
      BY <1>1, <2>3, <3>1, LenProperties DEF ToolBlocks, firstMarker
    <3>3. QED
      BY <2>1, <3>2
  <2>4. Shapes(t)
    BY <1>1, <1>5, TidyShapes
  <2>5. Hidden(t) = {}
    BY <2>2, <2>3, <2>4 DEF Shapes, IsWrapper, IsTagOnly, IsBareCall, ClosedAt
  <2>6. QED
    BY <1>1, <2>5, NothingHidden
<1>7. QED
  BY <1>1, <1>5, <1>6

\* What the handler makes of a chunk, and what it takes the markup out of.
Parses == ~(api = "openai" /\ ~withTools)

Got(chunk) == IF Parses THEN ProcessStreamChunk(stream, chunk)
              ELSE Result(stream, chunk, <<>>)

GotLast == IF Parses THEN FinalizeStream(stream) ELSE Result(stream, <<>>, <<>>)

Cleaned(content) == IF Parses THEN RemoveMarkup(content) ELSE content

\* The text, but that Anthropic's handler drops half a tag with what follows it.
Passed(content) == {content} \cup (IF At(content, 1, Marker) THEN {<<>>} ELSE {})

\* The OpenAI handler writes the calls and the content, in either order.
LEMMA OpenAIHeard ==
    ASSUME NEW es, NEW a, NEW b, Heard(es, a, b),
           NEW content \in Seq(Pieces), NEW calls \in Seq(Pieces)
    PROVE  /\ Heard(es \o ToolDeltas(calls) \o ContentDelta(content), a \o content, b \o calls)
           /\ Heard(es \o ContentDelta(content) \o ToolDeltas(calls), a \o content, b \o calls)
<1> DEFINE c == ContentDelta(content)
           d == ToolDeltas(calls)
<1>1. Heard(c, content, <<>>) /\ Heard(d, <<>>, calls)
  BY ContentHeard, DeltasHeard
<1> HIDE DEF c, d
<1>2. /\ a \in Seq(Pieces) /\ b \in Seq(Pieces)
      /\ a \o content \in Seq(Pieces) /\ b \o calls \in Seq(Pieces)
  BY HeardText, ConcatProperties
<1>3. /\ a \o <<>> = a /\ b \o <<>> = b
      /\ (a \o content) \o <<>> = a \o content /\ (b \o calls) \o <<>> = b \o calls
  BY <1>2, ConcatEmptySeq
<1>4. Heard(es \o d, a, b \o calls)
  <2>1. Heard(es \o d, a \o <<>>, b \o calls)
    BY <1>1, HeardBoth
  <2>2. QED
    BY <1>3, <2>1
<1>5. Heard((es \o d) \o c, a \o content, b \o calls)
  <2>1. Heard((es \o d) \o c, a \o content, (b \o calls) \o <<>>)
    BY <1>1, <1>4, HeardBoth
  <2>2. QED
    BY <1>3, <2>1
<1>6. Heard(es \o c, a \o content, b)
  <2>1. Heard(es \o c, a \o content, b \o <<>>)
    BY <1>1, HeardBoth
  <2>2. QED
    BY <1>3, <2>1
<1>7. Heard((es \o c) \o d, a \o content, b \o calls)
  <2>1. Heard((es \o c) \o d, (a \o content) \o <<>>, b \o calls)
    BY <1>1, <1>6, HeardBoth
  <2>2. QED
    BY <1>3, <2>1
<1>8. QED
  BY <1>5, <1>7 DEF c, d

\* Anthropic's handler writes the content, then the calls.
LEMMA AnthropicHeard ==
    ASSUME NEW w, Fresh(w) \/ Good(w), NEW a, NEW b, Heard(w.events, a, b),
           NEW content \in Seq(Pieces), NEW calls \in Seq(Pieces)
    PROVE  \E c \in Passed(content) :
              /\ Good(WithCalls(WithText(Started(w), content), calls))
              /\ Heard(WithCalls(WithText(Started(w), content), calls).events, a \o c, b \o calls)
<1> DEFINE v == Started(w)
           x == WithText(v, content)
<1>1. Good(v) /\ Heard(v.events, a, b)
  BY StartedOK, StartHeard
<1> HIDE DEF v
<1>2. Good(x) /\ (\/ Heard(x.events, a \o content, b)
                  \/ At(content, 1, Marker) /\ Heard(x.events, a, b))
  BY <1>1, TextOK, TextHeard
<1> HIDE DEF x
<1>3. a \in Seq(Pieces) /\ a \o <<>> = a /\ Len(calls) \in Nat
  BY HeardText, ConcatEmptySeq, LenProperties
<1>4. Good(WithCalls(x, calls))
  BY <1>2, <1>3, CallsOK
<1>5. CASE Heard(x.events, a \o content, b)
  <2>1. Heard(WithCalls(x, calls).events, a \o content, b \o calls)
    BY <1>2, <1>5, CallsHeard
  <2>2. content \in Passed(content)
    BY DEF Passed
  <2>3. QED
    BY <1>4, <2>1, <2>2 DEF x, v
<1>6. CASE At(content, 1, Marker) /\ Heard(x.events, a, b)
  <2>1. Heard(WithCalls(x, calls).events, a, b \o calls)
    BY <1>2, <1>6, CallsHeard
  <2>2. Heard(WithCalls(x, calls).events, a \o <<>>, b \o calls)
    BY <1>3, <2>1
  <2>3. <<>> \in Passed(content)
    BY <1>6 DEF Passed
  <2>4. QED
    BY <1>4, <2>2, <2>3 DEF x, v
<1>7. QED
  BY <1>2, <1>5, <1>6

\* A delta lets the client hear what the parser makes of it.
LEMMA DeltaHeard ==
    ASSUME IInv, ~ended, NEW chunk,
           \/ api = "openai" /\ OpenAIDelta(chunk)
           \/ api = "anthropic" /\ AnthropicDelta(chunk),
           NEW a, NEW b, Heard(events, a, b),
           NEW r, r = Got(chunk), NEW content \in Seq(Pieces), content = Cleaned(r.content),
           r.calls \in Seq(Pieces)
    PROVE  /\ stream' = r.state
           /\ \E c \in Passed(content) : Heard(events', a \o c, b \o r.calls)
<1>1. CASE api = "openai" /\ OpenAIDelta(chunk)
  <2>1. withTools \in BOOLEAN
    BY DEF IInv, TypeOK
  <2>2. Parses <=> withTools
    BY <1>1 DEF Parses
  <2>3. r = IF withTools THEN ProcessStreamChunk(stream, chunk)
            ELSE Result(stream, chunk, <<>>)
    BY <2>1, <2>2 DEF Got
  <2>4. content = IF withTools THEN RemoveMarkup(r.content) ELSE r.content
    BY <2>1, <2>2 DEF Cleaned
  <2>5. /\ stream' = r.state
        /\ events' = events \o ToolDeltas(r.calls) \o ContentDelta(content)
    BY <1>1, <2>3, <2>4 DEF OpenAIDelta
  <2>6. Heard(events', a \o content, b \o r.calls)
    BY <2>5, OpenAIHeard
  <2>7. content \in Passed(content)
    BY DEF Passed
  <2>8. QED
    BY <2>5, <2>6, <2>7
<1>2. CASE api = "anthropic" /\ AnthropicDelta(chunk)
  <2>1. Parses
    BY <1>2 DEF Parses
  <2>2. r = ProcessStreamChunk(stream, chunk) /\ content = RemoveMarkup(r.content)
    BY <2>1 DEF Got, Cleaned
  <2> DEFINE w == WithCalls(WithText(Started(Writer), content), r.calls)
  <2>3. stream' = r.state /\ Written(w)
    BY <1>2, <2>2 DEF AnthropicDelta
  <2>4. Fresh(Writer) \/ Good(Writer)
    BY <1>2 DEF IInv
  <2>5. Writer.events = events
    BY DEF Writer
  <2>6. \E c \in Passed(content) : Heard(w.events, a \o c, b \o r.calls)
    <3> DEFINE v == Writer
               calls == r.calls
    <3>1. Heard(v.events, a, b) /\ (Fresh(v) \/ Good(v)) /\ calls \in Seq(Pieces)
      BY <2>4, <2>5
    <3> HIDE DEF v, calls
    <3>2. \E c \in Passed(content) :
             Heard(WithCalls(WithText(Started(v), content), calls).events, a \o c, b \o calls)
      BY <3>1, AnthropicHeard
    <3>3. QED
      BY <3>2 DEF v, calls
  <2> HIDE DEF w
  <2>7. events' = w.events
    BY <2>3 DEF Written
  <2>8. QED
    BY <2>3, <2>6, <2>7
<1>3. QED
  BY <1>1, <1>2

\* The end lets the client hear what the parser makes of what it holds.
LEMMA FinishHeard ==
    ASSUME IInv, Finish, NEW a, NEW b, Heard(events, a, b),
           NEW r, r = GotLast, NEW content \in Seq(Pieces), content = RemoveMarkup(r.content),
           r.calls \in Seq(Pieces)
    PROVE  \E c \in Passed(content) : Heard(events', a \o c, b \o r.calls)
<1>1. /\ ~ended
      /\ \/ api = "openai" /\ OpenAIFinish
         \/ api = "anthropic" /\ AnthropicFinish
  BY DEF Finish
<1>2. CASE api = "openai" /\ OpenAIFinish
  <2>1. withTools \in BOOLEAN
    BY DEF IInv, TypeOK
  <2>2. Parses <=> withTools
    BY <1>2 DEF Parses
  <2>3. r = IF withTools THEN FinalizeStream(stream) ELSE Result(stream, <<>>, <<>>)
    BY <2>1, <2>2 DEF GotLast
  <2> DEFINE written == events \o ContentDelta(content) \o ToolDeltas(r.calls)
  <2>4. PICK what : events' = Append(written, Event("finish", 0, what))
    BY <1>2, <2>3 DEF OpenAIFinish
  <2>5. Heard(written, a \o content, b \o r.calls)
    BY OpenAIHeard
  <2> HIDE DEF written
  <2>6. "finish" \notin {"text", "tool_call"}
    OBVIOUS
  <2>7. Heard(events', a \o content, b \o r.calls)
    BY <2>4, <2>5, <2>6, HeardSilence
  <2>8. content \in Passed(content)
    BY DEF Passed
  <2>9. QED
    BY <2>7, <2>8
<1>3. CASE api = "anthropic" /\ AnthropicFinish
  <2> DEFINE v == Writer
             calls == r.calls
             u == WithCalls(WithText(Started(v), content), calls)
             w == BlockClosed(u)
  <2>1. Parses
    BY <1>3 DEF Parses
  <2>2. r = FinalizeStream(stream)
    BY <2>1 DEF GotLast
  <2>3. PICK reason :
            Written([w EXCEPT !.events = @ \o <<Event("finish", 0, reason),
                                                Event("message_stop", 0, <<>>)>>])
    BY <1>3, <2>2 DEF AnthropicFinish
  <2>4. Heard(v.events, a, b) /\ (Fresh(v) \/ Good(v)) /\ calls \in Seq(Pieces)
    <3>1. Writer.events = events
      BY DEF Writer
    <3>2. Fresh(Writer) \/ Good(Writer)
      BY <1>1, <1>3 DEF IInv
    <3>3. QED
      BY <3>1, <3>2
  <2> HIDE DEF v, calls
  <2>5. PICK c \in Passed(content) : Good(u) /\ Heard(u.events, a \o c, b \o calls)
    BY <2>4, AnthropicHeard
  <2> HIDE DEF u
  <2>6. Good(w) /\ Heard(w.events, a \o c, b \o calls)
    BY <2>5, ClosedOK, CloseHeard
  <2> HIDE DEF w
  <2> DEFINE d == Event("finish", 0, reason)
             e == Event("message_stop", 0, <<>>)
  <2>7. events' = w.events \o <<d, e>>
    <3>1. w = [events |-> w.events, block |-> w.block, nextIndex |-> w.nextIndex]
      BY <2>6 DEF Good
    <3> HIDE DEF d, e
    <3>2. QED
      BY <2>3, <3>1 DEF Written, d, e
  <2>8. IsText(w.events)
    BY <2>6, HeardText
  <2>9. events' = Append(Append(w.events, d), e)
    <3> HIDE DEF d, e
    <3>1. QED
      BY <2>7, <2>8, TwoMore
  <2>10. Heard(Append(w.events, d), a \o c, b \o calls)
    <3>1. "finish" \notin {"text", "tool_call"}
      OBVIOUS
    <3>2. QED
      BY <2>6, <3>1, HeardSilence
  <2> DEFINE f == Append(w.events, d)
  <2>11. Heard(f, a \o c, b \o calls) /\ events' = Append(f, e)
    BY <2>9, <2>10
  <2> HIDE DEF f
  <2>12. Heard(events', a \o c, b \o calls)
    <3>1. "message_stop" \notin {"text", "tool_call"}
      OBVIOUS
    <3>2. QED
      BY <2>11, <3>1, HeardSilence
  <2>13. QED
    BY <2>12 DEF calls
<1>4. QED
  BY <1>1, <1>2, <1>3

\* A text without markup is shown as it is.
LEMMA BareIsShown ==
    ASSUME NEW P, NEW t \in Seq(P), Names(t), Hidden(t) = {},
           NEW u \in Seq(P), NEW k, Part(u, t, k)
    PROVE  RemoveMarkup(u) = u
<1>1. NamesHidden(t) /\ Len(t) \in Nat /\ Len(u) \in Nat
  BY TidyNames, LenProperties
<1>2. ASSUME NEW i \in 1 .. Len(u) PROVE u[i] \notin Closing /\ u[i] # "ml_tool_calls"
  <2>1. k + i \in 1 .. Len(t) /\ u[i] = t[k + i]
    BY <1>1 DEF Part
  <2>2. QED
    BY <1>1, <2>1 DEF NamesHidden, Hidden
<1>3. QED
  BY <1>2, PlainIsShown DEF Plain

\* Where nothing is parsed there is nothing to find, and nothing is held.
Skips(t) == ~Parses => stream = NewStreamState /\ Hidden(t) = {} /\ ParseCalls(t) = <<>>

\* r is what the handler made of the text from q to n, and of what follows to m it holds on.
Tells(t, q, n, m, r) ==
    /\ Clear(t, n)
    /\ Held(r.state) = SubSeq(t, n + 1, m)
    /\ Cleaned(r.content) = ShownTo(t, q, n)
    /\ CallsBy(t, q) \o r.calls = CallsBy(t, n)

\* What the handler makes of the next chunk of a tidy text.
LEMMA GotShows ==
    ASSUME NEW t \in Seq(Pieces), Tidy(t),
           NEW m \in 0 .. Len(t), NEW k \in 0 .. m, NEW q \in 0 .. k, Clear(t, q),
           StreamOK(stream), Held(stream) = SubSeq(t, q + 1, k),
           Skips(t),
           NEW r, r = Got(SubSeq(t, k + 1, m))
    PROVE  r.calls \in Seq(Pieces) /\ \E n \in q .. m : Tells(t, q, n, m, r)
<1> DEFINE u == SubSeq(t, k + 1, m)
<1>1. /\ Len(t) \in Nat /\ m \in Nat /\ k \in Nat /\ q \in Nat
      /\ k \in q .. m /\ m \in 0 .. Len(t)
  BY LenProperties
<1>2. CASE Parses
  <2>1. r = ProcessStreamChunk(stream, u)
    BY <1>2 DEF Got
  <2>2. PICK n \in q .. m : Held(r.state) = SubSeq(t, n + 1, m) /\ Shown(t, q, n, r)
    BY <2>1, ChunkShows
  <2>3. /\ Clear(t, n)
        /\ RemoveMarkup(r.content) = ShownTo(t, q, n)
        /\ r.calls \in {<<>>, ParseCalls(t)}
        /\ CallsBy(t, q) \o r.calls = CallsBy(t, n)
    BY <2>2 DEF Shown
  <2>4. r.calls \in Seq(Pieces)
    BY <2>3, CallsWithin, EmptySeq
  <2>5. Cleaned(r.content) = ShownTo(t, q, n)
    BY <1>2, <2>3 DEF Cleaned
  <2>6. QED
    BY <2>2, <2>3, <2>4, <2>5 DEF Tells
<1>3. CASE ~Parses
  <2>1. Hidden(t) = {} /\ ParseCalls(t) = <<>> /\ stream = NewStreamState
    BY <1>3 DEF Skips
  <2>2. r = Result(stream, u, <<>>)
    BY <1>3 DEF Got
  <2>3. /\ u \in Seq(Pieces) /\ Len(u) = m - k /\ Part(u, t, k)
        /\ u = SubSeq(t, k + 1, m)
    BY PartOf
  <2> HIDE DEF u
  <2>4. r.state = stream /\ r.content = u /\ r.calls = <<>>
    BY <2>2 DEF Result
  <2>5. q = k
    <3>1. Held(stream) = <<>>
      BY <2>1, <2>3, HeldIs
    <3>2. k \in 0 .. Len(t)
      BY <1>1
    <3>3. Len(SubSeq(t, q + 1, k)) = k - q
      BY <3>2, PartOf
    <3>4. Len(<<>>) = 0
      OBVIOUS
    <3>5. k - q = 0
      BY <3>1, <3>3, <3>4
    <3>6. QED
      BY <1>1, <3>5
  <2>6. Held(stream) = SubSeq(t, m + 1, m)
    <3>1. Held(stream) = <<>> /\ SubSeq(t, m + 1, m) = <<>>
      BY <2>1, <2>3, HeldIs, NothingBehind
    <3>2. QED
      BY <3>1
  <2>7. Clear(t, m) /\ Uncut(t, k, m)
    BY <2>1 DEF Clear, Uncut
  <2>8. Cleaned(r.content) = ShownTo(t, q, m)
    <3>1. RemoveMarkup(u) = u
      BY <2>1, <2>3, BareIsShown DEF Tidy
    <3>2. RemoveMarkup(u) = ShownTo(t, k, m)
      <4>1. Uncut(t, k, m) /\ u = SubSeq(t, k + 1, m)
        BY <2>3, <2>7
      <4>2. m \in 0 .. Len(t) /\ k \in 0 .. m
        OBVIOUS
      <4>3. QED
        BY <4>1, <4>2, PartShows
    <3>3. Cleaned(r.content) = u
      BY <1>3, <2>4 DEF Cleaned
    <3>4. QED
      BY <2>5, <3>1, <3>2, <3>3
  <2>9. CallsBy(t, q) \o r.calls = CallsBy(t, m)
    <3>1. r.calls = <<>> /\ ParseCalls(t) = <<>> /\ q <= m
      BY <1>1, <2>1, <2>4
    <3>2. QED
      BY <1>1, <3>1, CallsGrow
  <2>10. r.calls \in Seq(Pieces) /\ m \in q .. m
    <3>1. r.calls \in Seq(Pieces)
      BY <2>4, EmptySeq
    <3>2. QED
      BY <1>1, <3>1
  <2>11. QED
    <3>1. Tells(t, q, m, m, r)
      BY <2>4, <2>6, <2>7, <2>8, <2>9 DEF Tells
    <3>2. QED
      BY <2>10, <3>1
<1>4. QED
  BY <1>2, <1>3

\* What the handler makes of what it holds at the end.
LEMMA GotLastShows ==
    ASSUME NEW t \in Seq(Pieces), Tidy(t), NEW q \in 0 .. Len(t), Clear(t, q),
           StreamOK(stream), Held(stream) = SubSeq(t, q + 1, Len(t)),
           Skips(t),
           NEW r, r = GotLast
    PROVE  /\ r.calls \in Seq(Pieces)
           /\ RemoveMarkup(r.content) = ShownTo(t, q, Len(t))
           /\ CallsBy(t, q) \o r.calls = CallsBy(t, Len(t))
<1>1. Len(t) \in Nat /\ q \in Nat /\ Len(t) \in 0 .. Len(t)
  BY LenProperties
<1>2. CASE Parses
  <2>1. r = FinalizeStream(stream) /\ stream.capturing \in BOOLEAN
    BY <1>2 DEF GotLast, StreamOK
  <2>2. Shown(t, q, Len(t), r)
    BY <2>1, EndShows
  <2>3. /\ RemoveMarkup(r.content) = ShownTo(t, q, Len(t))
        /\ r.calls \in {<<>>, ParseCalls(t)}
        /\ CallsBy(t, q) \o r.calls = CallsBy(t, Len(t))
    BY <2>2 DEF Shown
  <2>4. r.calls \in Seq(Pieces)
    BY <2>3, CallsWithin, EmptySeq
  <2>5. QED
    BY <2>3, <2>4
<1>3. CASE ~Parses
  <2>1. ParseCalls(t) = <<>> /\ stream = NewStreamState
    BY <1>3 DEF Skips
  <2>2. r = Result(stream, <<>>, <<>>)
    BY <1>3 DEF GotLast
  <2>3. r.content = <<>> /\ r.calls = <<>>
    BY <2>2 DEF Result
  <2>4. q = Len(t)
    <3>1. Held(stream) = <<>>
      BY <2>1, HeldIs
    <3>2. Len(SubSeq(t, q + 1, Len(t))) = Len(t) - q
      BY <1>1, PartOf
    <3>3. Len(<<>>) = 0
      OBVIOUS
    <3>4. Len(t) - q = 0
      BY <3>1, <3>2, <3>3
    <3>5. QED
      BY <1>1, <3>4
  <2>5. RemoveMarkup(r.content) = ShownTo(t, q, Len(t))
    <3>1. RemoveMarkup(<<>>) = <<>> /\ ShownTo(t, q, q) = <<>>
      BY <1>1, NothingShown
    <3>2. QED
      BY <2>3, <2>4, <3>1
  <2>6. CallsBy(t, q) \o r.calls = CallsBy(t, Len(t))
    <3>1. r.calls = <<>> /\ ParseCalls(t) = <<>> /\ q <= Len(t)
      BY <1>1, <2>1, <2>3
    <3>2. QED
      BY <1>1, <3>1, CallsGrow
  <2>7. QED
    BY <2>3, <2>5, <2>6, EmptySeq
<1>4. QED
  BY <1>2, <1>3

-----------------------------------------------------------------------------
(* What the client has heard of an orderly answer. *)

\* The text and the calls of the answer up to a place that splits no markup; what the
\* parser holds is the rest of what was sent.
Telling ==
    /\ ~Parses => stream = NewStreamState
    /\ (Orderly /\ ~ended) =>
          \E q \in 0 .. sent : /\ Clear(answer, q)
                               /\ Held(stream) = SubSeq(answer, q + 1, sent)
                               /\ Heard(events, ShownTo(answer, 0, q), CallsBy(answer, q))
    /\ (Orderly /\ ended /\ sent = Len(answer)) =>
          Heard(events, ShownTo(answer, 0, sent), CallsBy(answer, sent))

\* Telling holds at the start, ...
LEMMA InitTelling == Init => Telling
<1> SUFFICES ASSUME Init PROVE Telling
  OBVIOUS
<1>1. /\ events = <<>> /\ sent = 0 /\ stream = NewStreamState
      /\ answer \in Answers /\ ended = FALSE
  BY DEF Init
<1>2. answer \in Seq(Pieces) /\ Len(answer) \in Nat
  BY <1>1, AnswersAreTexts, LenProperties
<1>3. 0 \in 0 .. sent /\ Held(stream) = SubSeq(answer, 0 + 1, sent)
  <2>1. 0 \in 0 .. Len(answer)
    BY <1>2
  <2>2. SubSeq(answer, 0 + 1, 0) = <<>>
    BY <1>2, <2>1, NothingBehind
  <2>3. Held(NewStreamState) = <<>>
    BY <1>2, HeldIs
  <2>4. QED
    BY <1>1, <2>2, <2>3
<1>4. Clear(answer, 0)
  BY DEF Clear, Hidden
<1>5. ShownTo(answer, 0, 0) = <<>>
  BY <1>2, NothingShown
<1>6. CallsBy(answer, 0) = <<>>
  <2>1. (\A h \in Hidden(answer) : h <= 0) => Hidden(answer) = {}
    BY <1>2 DEF Hidden
  <2>2. (\A h \in Hidden(answer) : h <= 0) => ParseCalls(answer) = <<>>
    BY <1>2, <2>1, NothingHidden
  <2>3. QED
    BY <2>2 DEF CallsBy
<1>7. Heard(events, ShownTo(answer, 0, 0), CallsBy(answer, 0))
  BY <1>1, <1>5, <1>6, HeardNone
<1>8. QED
  BY <1>1, <1>3, <1>4, <1>7 DEF Telling

\* ... a delta keeps it, ...
LEMMA DeltaTelling ==
    ASSUME IInv, Telling, NEW n \in 1 .. (Len(answer) - sent), Delta(n)
    PROVE  Telling'
<1> DEFINE m == sent + n
           chunk == SubSeq(answer, sent + 1, m)
<1>1. /\ ~ended /\ sent' = m
      /\ UNCHANGED <<api, withTools, answer, odd, ended>>
      /\ \/ api = "openai" /\ OpenAIDelta(chunk)
         \/ api = "anthropic" /\ AnthropicDelta(chunk)
  BY DEF Delta
<1>2. /\ answer \in Seq(Pieces) /\ Len(answer) \in Nat
      /\ sent \in Nat /\ m \in 0 .. Len(answer) /\ sent \in 0 .. m
      /\ chunk \in Seq(Pieces)
      /\ StreamOK(stream) /\ withTools \in BOOLEAN /\ TypeOK
  BY ChunkIsText, AnswersAreTexts, LenProperties DEF IInv, TypeOK
<1>3. (Parses' <=> Parses) /\ (Orderly' <=> Orderly)
  BY <1>1 DEF Parses, Orderly
<1>4. ASSUME ~Parses PROVE stream' = NewStreamState
  <2>1. api = "openai" /\ ~withTools /\ OpenAIDelta(chunk)
    BY <1>1, <1>4 DEF Parses
  <2>2. stream' = Result(stream, chunk, <<>>).state
    BY <2>1 DEF OpenAIDelta
  <2>3. QED
    BY <1>4, <2>2 DEF Result, Telling
<1>5. ASSUME Orderly
      PROVE  \E q \in 0 .. m : /\ Clear(answer, q)
                               /\ Held(stream') = SubSeq(answer, q + 1, m)
                               /\ Heard(events', ShownTo(answer, 0, q), CallsBy(answer, q))
  <2>1. Tidy(answer) /\ (~withTools => Hidden(answer) = {} /\ ParseCalls(answer) = <<>>)
    BY <1>2, <1>5, OrderlyIsTidy
  <2>2. Skips(answer)
    BY <2>1 DEF Skips, Parses, Telling
  <2>3. PICK q \in 0 .. sent :
            /\ Clear(answer, q)
            /\ Held(stream) = SubSeq(answer, q + 1, sent)
            /\ Heard(events, ShownTo(answer, 0, q), CallsBy(answer, q))
    BY <1>1, <1>5 DEF Telling
  <2> DEFINE r == Got(chunk)
  <2>4. r = Got(SubSeq(answer, sent + 1, m))
    OBVIOUS
  <2> HIDE DEF m, r
  <2>5. /\ r.calls \in Seq(Pieces)
        /\ \E k \in q .. m : Tells(answer, q, k, m, r)
    <3>1. /\ answer \in Seq(Pieces) /\ Tidy(answer) /\ m \in 0 .. Len(answer)
          /\ sent \in 0 .. m /\ StreamOK(stream)
      BY <1>2, <2>1
    <3> HIDE DEF chunk
    <3>2. QED
      BY <2>2, <2>3, <2>4, <3>1, GotShows
  <2>6. PICK k \in q .. m : /\ Clear(answer, k)
                            /\ Held(r.state) = SubSeq(answer, k + 1, m)
                            /\ Cleaned(r.content) = ShownTo(answer, q, k)
                            /\ CallsBy(answer, q) \o r.calls = CallsBy(answer, k)
    BY <2>5 DEF Tells
  <2>7. k \in 0 .. Len(answer) /\ q \in 0 .. k /\ k \in 0 .. m
    BY <1>2
  <2> DEFINE content == ShownTo(answer, q, k)
             a == ShownTo(answer, 0, q)
             b == CallsBy(answer, q)
  <2>8. content \in Seq(Pieces) /\ ShownTo(answer, 0, k) = a \o content
    BY <1>2, <2>7, ShownGrows
  <2>9. ~At(content, 1, Marker)
    BY <1>2, <2>1, <2>7, ShownIsNoTag DEF Tidy
  <2>10. Heard(events, a, b) /\ content = Cleaned(r.content) /\ b \o r.calls = CallsBy(answer, k)
    BY <2>3, <2>6
  <2> HIDE DEF content, a, b, chunk
  <2>11. stream' = r.state /\ \E c \in Passed(content) : Heard(events', a \o c, b \o r.calls)
    BY <1>1, <2>5, <2>8, <2>10, DeltaHeard DEF r
  <2>12. Heard(events', a \o content, b \o r.calls)
    BY <2>9, <2>11 DEF Passed
  <2>13. QED
    BY <2>6, <2>7, <2>8, <2>10, <2>11, <2>12
<1>6. QED
  <2> HIDE DEF m
  <2>1. ~ended' /\ answer' = answer /\ sent' = m
    BY <1>1
  <2>2. (Orderly' /\ ~ended') =>
          \E q \in 0 .. sent' : /\ Clear(answer', q)
                                /\ Held(stream') = SubSeq(answer', q + 1, sent')
                                /\ Heard(events', ShownTo(answer', 0, q), CallsBy(answer', q))
    BY <1>3, <1>5, <2>1
  <2>3. QED
    BY <1>3, <1>4, <2>1, <2>2 DEF Telling, Clear, Hidden, InTag, OpenTag, Noisy, Held, Heard, Speaks, ShownTo, CallsBy

\* ... and a thought or an empty delta, which an orderly answer to Anthropic has not, ...
LEMMA OddTelling ==
    ASSUME IInv, Telling, NEW piece \in {Thought, Nil}, Odd(piece)
    PROVE  Telling'
<1>1. /\ ~ended /\ odd' = odd \cup {piece}
      /\ UNCHANGED <<api, withTools, answer, sent, ended>>
      /\ \/ api = "openai" /\ OpenAIOdd(piece)
         \/ api = "anthropic" /\ AnthropicDelta(<<piece>>)
  BY DEF Odd
<1>2. Parses' <=> Parses
  BY <1>1 DEF Parses
<1>3. CASE api = "openai" /\ OpenAIOdd(piece)
  <2>1. stream' = stream /\ (Orderly' <=> Orderly)
    BY <1>1, <1>3 DEF OpenAIOdd, Orderly
  <2>2. ASSUME NEW a, NEW b, Heard(events, a, b) PROVE Heard(events', a, b)
    <3>1. Heard(Append(events, Event("reasoning", 0, <<Thought>>)), a, b)
      <4>1. "reasoning" \notin {"text", "tool_call"}
        OBVIOUS
      <4>2. QED
        BY <2>2, <4>1, HeardSilence
    <3>2. events' = events \/ events' = Append(events, Event("reasoning", 0, <<Thought>>))
      BY <1>3 DEF OpenAIOdd
    <3>3. QED
      BY <2>2, <3>1, <3>2
  <2>3. (Orderly' /\ ~ended') =>
          \E q \in 0 .. sent' : /\ Clear(answer', q)
                                /\ Held(stream') = SubSeq(answer', q + 1, sent')
                                /\ Heard(events', ShownTo(answer', 0, q), CallsBy(answer', q))
    BY <1>1, <2>1, <2>2 DEF Telling
  <2>4. ~ended' /\ (~Parses' => stream' = NewStreamState)
    BY <1>1, <1>2, <2>1 DEF Telling
  <2>5. QED
    BY <2>3, <2>4 DEF Telling, Clear, Hidden, InTag, OpenTag, Noisy, Held, Heard, Speaks, ShownTo, CallsBy
<1>4. CASE api = "anthropic" /\ AnthropicDelta(<<piece>>)
  <2>1. ~Orderly' /\ Parses'
    BY <1>1, <1>4 DEF Orderly, Parses
  <2>2. QED
    BY <2>1 DEF Telling
<1>5. QED
  BY <1>1, <1>3, <1>4

\* ... and the end, ...
LEMMA FinishTelling ==
    ASSUME IInv, Telling, Finish
    PROVE  Telling'
<1>1. /\ ~ended /\ ended'
      /\ UNCHANGED <<api, withTools, answer, sent, odd, stream>>
  BY DEF Finish, OpenAIFinish, AnthropicFinish
<1>2. /\ answer \in Seq(Pieces) /\ Len(answer) \in Nat /\ StreamOK(stream) /\ TypeOK
  BY AnswersAreTexts, LenProperties DEF IInv, TypeOK
<1>3. (Parses' <=> Parses) /\ (Orderly' <=> Orderly)
  BY <1>1 DEF Parses, Orderly
<1>4. ASSUME Orderly, sent = Len(answer)
      PROVE  Heard(events', ShownTo(answer, 0, sent), CallsBy(answer, sent))
  <2>1. Tidy(answer) /\ (~withTools => Hidden(answer) = {} /\ ParseCalls(answer) = <<>>)
    BY <1>2, <1>4, OrderlyIsTidy
  <2>2. Skips(answer)
    BY <2>1 DEF Skips, Parses, Telling
  <2>3. PICK q \in 0 .. sent :
            /\ Clear(answer, q)
            /\ Held(stream) = SubSeq(answer, q + 1, sent)
            /\ Heard(events, ShownTo(answer, 0, q), CallsBy(answer, q))
    BY <1>1, <1>4 DEF Telling
  <2> DEFINE r == GotLast
             content == ShownTo(answer, q, sent)
             a == ShownTo(answer, 0, q)
             b == CallsBy(answer, q)
  <2>4. r = GotLast
    OBVIOUS
  <2> HIDE DEF r
  <2>5. /\ r.calls \in Seq(Pieces)
        /\ RemoveMarkup(r.content) = content
        /\ b \o r.calls = CallsBy(answer, sent)
    BY <1>2, <1>4, <2>1, <2>2, <2>3, <2>4, GotLastShows
  <2>6. sent \in 0 .. Len(answer) /\ q \in 0 .. sent
    BY <1>2, <1>4
  <2>7. content \in Seq(Pieces) /\ ShownTo(answer, 0, sent) = a \o content
    BY <1>2, <2>6, ShownGrows
  <2>8. ~At(content, 1, Marker)
    BY <1>2, <2>1, <2>6, ShownIsNoTag DEF Tidy
  <2>9. Heard(events, a, b) /\ content = RemoveMarkup(r.content)
    BY <2>3, <2>5
  <2> HIDE DEF content, a, b
  <2>10. \E c \in Passed(content) : Heard(events', a \o c, b \o r.calls)
    BY <2>4, <2>5, <2>7, <2>9, FinishHeard
  <2>11. Heard(events', a \o content, b \o r.calls)
    BY <2>8, <2>10 DEF Passed
  <2>12. QED
    BY <2>5, <2>7, <2>11
<1>5. (Orderly' /\ ended' /\ sent' = Len(answer')) =>
          Heard(events', ShownTo(answer', 0, sent'), CallsBy(answer', sent'))
  BY <1>1, <1>3, <1>4
<1>6. ended' /\ (~Parses' => stream' = NewStreamState)
  BY <1>1, <1>3 DEF Telling
<1>7. QED
  BY <1>5, <1>6 DEF Telling, Hidden, InTag, OpenTag, Noisy, Heard, Speaks, ShownTo, CallsBy

\* ... and so does every step.
LEMMA NextTelling == IInv /\ Telling /\ [Next]_vars => Telling'
<1> SUFFICES ASSUME IInv, Telling, [Next]_vars PROVE Telling'
  OBVIOUS
<1>1. ASSUME NEW n \in 1 .. (Len(answer) - sent), Delta(n) PROVE Telling'
  BY <1>1, DeltaTelling
<1>2. ASSUME NEW piece \in {Thought, Nil}, Odd(piece) PROVE Telling'
  BY <1>2, OddTelling
<1>3. CASE Finish
  BY <1>3, FinishTelling
<1>4. CASE UNCHANGED vars
  <2>1. (Parses' <=> Parses) /\ (Orderly' <=> Orderly)
    BY <1>4 DEF vars, Parses, Orderly
  <2>2. (Orderly' /\ ~ended') =>
          \E q \in 0 .. sent' : /\ Clear(answer', q)
                                /\ Held(stream') = SubSeq(answer', q + 1, sent')
                                /\ Heard(events', ShownTo(answer', 0, q), CallsBy(answer', q))
    BY <1>4, <2>1 DEF vars, Telling
  <2>3. (Orderly' /\ ended' /\ sent' = Len(answer')) =>
          Heard(events', ShownTo(answer', 0, sent'), CallsBy(answer', sent'))
    BY <1>4, <2>1 DEF vars, Telling
  <2>4. ~Parses' => stream' = NewStreamState
    BY <1>4, <2>1 DEF vars, Telling
  <2>5. QED
    BY <2>2, <2>3, <2>4 DEF Telling, Clear, Hidden, InTag, OpenTag, Noisy, Held, Heard, Speaks, ShownTo, CallsBy
<1>5. QED
  BY <1>1, <1>2, <1>3, <1>4 DEF Next

\* Heard is what the properties call Said.
LEMMA HeardIsSaid ==
    ASSUME NEW a, NEW b, Heard(events, a, b)
    PROVE  Said("text") = a /\ Said("tool_call") = b
BY SaidIs DEF Heard, Speaks

\* The whole text is what is shown of all of it.
LEMMA WholeIsShown ==
    ASSUME TypeOK, Orderly
    PROVE  /\ WholeText = ShownTo(answer, 0, Len(answer))
           /\ WholeCalls = CallsBy(answer, Len(answer))
<1>1. /\ answer \in Seq(Pieces) /\ Len(answer) \in Nat
      /\ ~withTools => ParseCalls(answer) = <<>>
      /\ withTools \in BOOLEAN
  BY OrderlyIsTidy, LenProperties DEF TypeOK
<1>2. RemoveMarkup(answer) = Kept(answer, 1 .. Len(answer) \ Hidden(answer))
  BY <1>1, RemoveMarkupIs
<1>3. 0 + 1 = 1
  OBVIOUS
<1>4. WholeText = ShownTo(answer, 0, Len(answer))
  BY <1>2, <1>3 DEF WholeText, ShownTo
<1>5. \A h \in Hidden(answer) : h <= Len(answer)
  BY <1>1 DEF Hidden
<1>6. CallsBy(answer, Len(answer)) = ParseCalls(answer)
  BY <1>5 DEF CallsBy
<1>7. WholeCalls = ParseCalls(answer)
  BY <1>1 DEF WholeCalls
<1>8. QED
  BY <1>4, <1>6, <1>7

\* However handleStream and handleAnthropicStream get an orderly answer cut, the client has
\* at the end the text and the tool calls that readCompletedChat makes of it in one piece.
THEOREM AgreesWithWholeHolds == Spec => []AgreesWithWhole
<1>1. IInv /\ Telling => AgreesWithWhole
  <2> SUFFICES ASSUME IInv, Telling, ended, sent = Len(answer), Orderly
               PROVE  Said("text") = WholeText /\ Said("tool_call") = WholeCalls
    BY DEF AgreesWithWhole
  <2>1. Heard(events, ShownTo(answer, 0, sent), CallsBy(answer, sent))
    BY DEF Telling
  <2>2. WholeText = ShownTo(answer, 0, sent) /\ WholeCalls = CallsBy(answer, sent)
    BY WholeIsShown DEF IInv
  <2>3. QED
    BY <2>1, <2>2, HeardIsSaid
<1>2. IInv /\ Telling /\ [Next]_vars => Telling'
  BY NextTelling
<1>3. QED
  BY InvHolds, InitTelling, <1>1, <1>2, PTL DEF Spec

\* Before the end the client has a beginning of that text: what the parser shows no later
\* delta turns into markup.
THEOREM NothingTakenBackHolds == Spec => []NothingTakenBack
<1>1. IInv /\ Telling => NothingTakenBack
  <2> SUFFICES ASSUME IInv, Telling, ~ended, Orderly
               PROVE  IsPrefix(Said("text"), WholeText)
    BY DEF NothingTakenBack
  <2>1. PICK q \in 0 .. sent : Heard(events, ShownTo(answer, 0, q), CallsBy(answer, q))
    BY DEF Telling
  <2> DEFINE a == ShownTo(answer, 0, q)
             b == ShownTo(answer, q, Len(answer))
  <2>2. /\ answer \in Seq(Pieces) /\ Len(answer) \in Nat
        /\ q \in 0 .. Len(answer) /\ Len(answer) \in 0 .. Len(answer)
    BY AnswersAreTexts, LenProperties DEF IInv, TypeOK
  <2>3. /\ ShownTo(answer, 0, Len(answer)) = a \o b
        /\ a \in Seq(Pieces) /\ b \in Seq(Pieces)
    BY <2>2, ShownGrows
  <2>4. WholeText = a \o b
    BY <2>3, WholeIsShown DEF IInv
  <2>5. Said("text") = a
    BY <2>1, HeardIsSaid
  <2> HIDE DEF a, b
  <2>6. /\ Len(a) \in Nat /\ Len(b) \in Nat /\ Len(a \o b) = Len(a) + Len(b)
        /\ DOMAIN a = 1 .. Len(a) /\ DOMAIN (a \o b) = 1 .. Len(a \o b)
        /\ \A i \in 1 .. Len(a) : (a \o b)[i] = a[i]
    BY <2>3, ConcatProperties, LenProperties
  <2>7. SubSeq(a \o b, 1, Len(a)) = a
    BY <2>3, <2>6
  <2>8. IsPrefix(a, a \o b)
    BY <2>6, <2>7 DEF IsPrefix
  <2>9. QED
    BY <2>4, <2>5, <2>8
<1>2. IInv /\ Telling /\ [Next]_vars => Telling'
  BY NextTelling
<1>3. QED
  BY InvHolds, InitTelling, <1>1, <1>2, PTL DEF Spec

-----------------------------------------------------------------------------
(* What the parser says and what it holds is within what it was given. *)

\* Of the text h the result r shows content, or has calls, and then holds the rest.
Keeps(r, content, h) ==
    /\ content \in Seq(Pieces) /\ r.calls \in Seq(Pieces) /\ Held(r.state) \in Seq(Pieces)
    /\ Within(content \o Held(r.state), h)
    /\ Within(r.calls \o Held(r.state), h)

\* A result that holds nothing keeps what it took within what was there, ...
LEMMA HoldsNoMore ==
    ASSUME NEW r, NEW content \in Seq(Pieces), r.calls \in Seq(Pieces),
           NEW h \in Seq(Pieces), Held(r.state) = <<>>,
           Within(content, h), Within(r.calls, h)
    PROVE  Keeps(r, content, h)
<1>1. content \o <<>> = content /\ r.calls \o <<>> = r.calls /\ <<>> \in Seq(Pieces)
  BY ConcatEmptySeq, EmptySeq
<1>2. QED
  BY <1>1 DEF Keeps

\* ... and so does one that holds the rest and found no call.
LEMMA HoldsTheRest ==
    ASSUME NEW r, NEW content \in Seq(Pieces), r.calls = <<>>,
           NEW a \in Seq(Pieces), NEW b \in Seq(Pieces), Held(r.state) = b,
           Within(content, a)
    PROVE  Keeps(r, content, a \o b)
<1>1. Within(b, b) /\ Within(<<>>, a) /\ <<>> \in Seq(Pieces)
  BY WithinItself, EmptySeq
<1>2. Within(content \o b, a \o b) /\ Within(<<>> \o b, a \o b)
  BY <1>1, WithinBoth
<1>3. QED
  BY <1>1, <1>2 DEF Keeps

\* What hides the markup of something within a text is within the text.
LEMMA MarkupOfPart ==
    ASSUME NEW h \in Seq(Pieces), NEW u \in Seq(Pieces), Within(u, h)
    PROVE  /\ RemoveMarkup(u) \in Seq(Pieces) /\ Within(RemoveMarkup(u), h)
           /\ ParseCalls(u) \in Seq(Pieces) /\ Within(ParseCalls(u), h)
           /\ LET v == stripMalformedToolPreludePrefix(u)
              IN  v \in Seq(Pieces) /\ Within(v, h)
<1> DEFINE a == RemoveMarkup(u)
           b == ParseCalls(u)
           v == stripMalformedToolPreludePrefix(u)
<1>1. a \in Seq(Pieces) /\ Within(a, u)
  BY MarkupWithin
<1>2. b \in Seq(Pieces) /\ Within(b, u)
  BY CallsWithin
<1>3. v \in Seq(Pieces) /\ Within(v, u)
  BY StripWithin
<1> HIDE DEF a, b, v
<1>4. Within(a, h) /\ Within(b, h) /\ Within(v, h)
  BY <1>1, <1>2, <1>3, WithinWithin
<1>5. QED
  BY <1>1, <1>2, <1>3, <1>4 DEF a, b, v

\* What tryConsumeCapture gives out is within the capture.
LEMMA ConsumeWithin ==
    ASSUME NEW h \in Seq(Pieces), NEW got, got = tryConsumeCapture(h)
    PROVE  /\ got.content \in Seq(Pieces) /\ Within(got.content, h)
           /\ got.calls \in Seq(Pieces) /\ Within(got.calls, h)
<1> DEFINE wrappers == {i \in DOMAIN h : At(h, i, Marker)}
           opens == IF wrappers # {} THEN wrappers ELSE firstMarker(h)
           close == IF wrappers # {} THEN "</ml_tool_calls>" ELSE "</ml_tool_call>"
           closes == {i \in DOMAIN h : h[i] = close /\ \E o \in opens : o < i}
           calls == ParseCalls(SubSeq(h, Min(opens), Max(closes)))
           strip == stripMalformedToolPreludePrefix(h)
           plain == RemoveMarkup(h)
<1>1. got = IF closes = {} THEN [ready |-> FALSE, content |-> <<>>, calls |-> <<>>]
            ELSE [ready |-> TRUE, content |-> IF calls # <<>> THEN plain ELSE strip,
                  calls |-> calls]
  BY DEF tryConsumeCapture
<1>2. DOMAIN h = 1 .. Len(h) /\ Len(h) \in Nat
  BY LenProperties
<1>3. /\ opens \in SUBSET (1 .. Len(h)) /\ closes \in SUBSET (1 .. Len(h))
      /\ closes # {} => opens # {}
  BY <1>2 DEF firstMarker
<1>4. Within(h, h) /\ Within(<<>>, h) /\ <<>> \in Seq(Pieces)
  BY WithinItself, EmptySeq
<1>5. plain \in Seq(Pieces) /\ Within(plain, h) /\ strip \in Seq(Pieces) /\ Within(strip, h)
  BY <1>4, MarkupOfPart
<1> HIDE DEF opens, closes, strip, plain
<1>6. ASSUME closes # {} PROVE calls \in Seq(Pieces) /\ Within(calls, h)
  <2> DEFINE a == Min(opens)
             b == Max(closes)
             u == SubSeq(h, a, b)
  <2>1. a \in 1 .. Len(h) /\ b \in 1 .. Len(h)
    BY <1>2, <1>3, <1>6, FirstAndLast
  <2> HIDE DEF a, b
  <2>2. a \in Nat \ {0} /\ b \in Nat /\ b <= Len(h)
    BY <1>2, <2>1
  <2>3. u \in Seq(Pieces) /\ Within(u, h)
    BY <2>2, CutWithin
  <2> HIDE DEF u
  <2>4. ParseCalls(u) \in Seq(Pieces) /\ Within(ParseCalls(u), h)
    BY <2>3, MarkupOfPart
  <2>5. QED
    BY <2>4 DEF u, a, b
<1> HIDE DEF calls
<1>7. CASE closes = {}
  <2>1. got.content = <<>> /\ got.calls = <<>>
    BY <1>1, <1>7
  <2>2. QED
    BY <1>4, <2>1
<1>8. CASE closes # {}
  <2>1. got.content \in {plain, strip} /\ got.calls = calls
    BY <1>1, <1>8
  <2>2. QED
    BY <1>5, <1>6, <1>8, <2>1
<1>9. QED
  BY <1>7, <1>8

\* A capture keeps what it was given, ...
LEMMA CapturedKeeps ==
    ASSUME NEW h \in Seq(Pieces), NEW r, r = Captured(h)
    PROVE  Keeps(r, RemoveMarkup(r.content), h)
<1> DEFINE got == tryConsumeCapture(h)
           strip == stripMalformedToolPreludePrefix(h)
<1>1. Within(h, h) /\ Within(<<>>, h) /\ <<>> \in Seq(Pieces)
  BY WithinItself, EmptySeq
<1>2. strip \in Seq(Pieces) /\ Within(strip, h)
  BY <1>1, MarkupOfPart
<1>3. /\ got.content \in Seq(Pieces) /\ Within(got.content, h)
      /\ got.calls \in Seq(Pieces) /\ Within(got.calls, h)
  BY ConsumeWithin
<1>4. Held(NewStreamState) = <<>> /\ Held(Capture(h)) = h
  BY HeldIs
<1>5. \/ r = Result(NewStreamState, got.content, got.calls)
      \/ r = Result(NewStreamState, strip, <<>>)
      \/ r = Result(Capture(h), <<>>, <<>>)
  BY DEF Captured
<1> HIDE DEF got, strip
<1>6. CASE r = Result(NewStreamState, got.content, got.calls)
  <2>1. r.content = got.content /\ r.calls = got.calls /\ r.state = NewStreamState
    BY <1>6 DEF Result
  <2>2. RemoveMarkup(r.content) \in Seq(Pieces) /\ Within(RemoveMarkup(r.content), h)
    BY <1>3, <2>1, MarkupOfPart
  <2>3. QED
    BY <1>3, <1>4, <2>1, <2>2, HoldsNoMore
<1>7. CASE r = Result(NewStreamState, strip, <<>>)
  <2>1. r.content = strip /\ r.calls = <<>> /\ r.state = NewStreamState
    BY <1>7 DEF Result
  <2>2. RemoveMarkup(r.content) \in Seq(Pieces) /\ Within(RemoveMarkup(r.content), h)
    BY <1>2, <2>1, MarkupOfPart
  <2>3. QED
    BY <1>1, <1>4, <2>1, <2>2, HoldsNoMore
<1>8. CASE r = Result(Capture(h), <<>>, <<>>)
  <2>1. r.content = <<>> /\ r.calls = <<>> /\ r.state = Capture(h)
    BY <1>8 DEF Result
  <2>2. RemoveMarkup(r.content) = <<>>
    BY <1>1, <2>1, NothingShown
  <2>3. Within(<<>>, <<>>)
    BY <1>1, WithinItself
  <2>4. Keeps(r, <<>>, <<>> \o h)
    BY <1>1, <1>4, <2>1, <2>3, HoldsTheRest
  <2>5. <<>> \o h = h
    BY ConcatEmptySeq
  <2>6. QED
    BY <2>2, <2>4, <2>5
<1>9. QED
  BY <1>5, <1>6, <1>7, <1>8

\* ... and the search for a marker, ...
LEMMA ScannedKeeps ==
    ASSUME NEW h \in Seq(Pieces), NEW r, r = Scanned(h)
    PROVE  Keeps(r, RemoveMarkup(r.content), h)
<1>1. Len(h) \in Nat /\ SubSeq(h, 1, Len(h)) = h /\ 0 + 1 = 1
  BY LenProperties, SubSeqFull
<1> DEFINE m == Len(h)
           q == 0
<1>2. m \in 0 .. Len(h) /\ q \in 0 .. m /\ q + 1 = 1
  BY <1>1
<1> HIDE DEF m, q
<1>3. r = Scanned(SubSeq(h, q + 1, m))
  BY <1>1, <1>2 DEF m
<1>4. PICK n \in q .. m : /\ Held(r.state) = SubSeq(h, n + 1, m)
                          /\ r.content = SubSeq(h, q + 1, n)
                          /\ r.calls = <<>>
                          /\ \A i \in q + 1 .. n : h[i] \notin Calls /\ ~At(h, i, Marker)
  BY <1>2, <1>3, ScannedIs
<1> DEFINE a == SubSeq(h, q + 1, n)
           b == SubSeq(h, n + 1, m)
<1>5. n \in 0 .. m /\ q \in 0 .. n /\ n \in 0 .. Len(h)
  BY <1>1, <1>2
<1>6. a \in Seq(Pieces) /\ b \in Seq(Pieces)
  BY <1>2, <1>5, PartOf
<1>7. a \o b = h
  <2>1. a \o b = SubSeq(h, q + 1, m)
    BY <1>2, <1>5, Joined
  <2>2. QED
    BY <1>1, <1>2, <2>1 DEF m
<1> HIDE DEF a, b
<1>8. RemoveMarkup(a) \in Seq(Pieces) /\ Within(RemoveMarkup(a), a)
  BY <1>6, MarkupWithin
<1>9. Held(r.state) = b /\ r.content = a /\ r.calls = <<>>
  BY <1>4 DEF a, b
<1>10. Keeps(r, RemoveMarkup(a), a \o b)
  BY <1>6, <1>8, <1>9, HoldsTheRest
<1>11. QED
  BY <1>7, <1>9, <1>10

\* ... and so what either handler makes of a chunk, with what was held before it, ...
LEMMA GotKeeps ==
    ASSUME StreamOK(stream), ~Parses => stream = NewStreamState,
           NEW chunk \in Seq(Pieces), NEW r, r = Got(chunk)
    PROVE  Keeps(r, Cleaned(r.content), Held(stream) \o chunk)
<1> DEFINE h == Held(stream) \o chunk
<1>1. Held(stream) \in Seq(Pieces) /\ stream.capturing \in BOOLEAN
  <2>1. stream.captureBuff \in Seq(Pieces) /\ stream.pending \in Seq(Pieces)
    BY DEF StreamOK
  <2>2. QED
    BY <2>1, ConcatProperties DEF Held, StreamOK
<1>2. h \in Seq(Pieces)
  BY <1>1, ConcatProperties
<1>3. CASE Parses
  <2>1. r = ProcessStreamChunk(stream, chunk) /\ Cleaned(r.content) = RemoveMarkup(r.content)
    BY <1>3 DEF Got, Cleaned
  <2>2. CASE stream.capturing
    <3>1. r = Captured(h)
      BY <2>1, <2>2 DEF ProcessStreamChunk, Held
    <3> HIDE DEF h
    <3>2. Keeps(r, RemoveMarkup(r.content), h)
      BY <1>2, <3>1, CapturedKeeps
    <3>3. QED
      BY <2>1, <3>2 DEF h
  <2>3. CASE ~stream.capturing
    <3>1. Held(stream) = stream.pending
      BY <2>3, ConcatEmptySeq DEF Held, StreamOK
    <3>2. r = Scanned(h)
      BY <2>1, <2>3, <3>1 DEF ProcessStreamChunk
    <3> HIDE DEF h
    <3>3. Keeps(r, RemoveMarkup(r.content), h)
      BY <1>2, <3>2, ScannedKeeps
    <3>4. QED
      BY <2>1, <3>3 DEF h
  <2>4. QED
    BY <1>1, <2>2, <2>3
<1>4. CASE ~Parses
  <2>1. r = Result(stream, chunk, <<>>) /\ stream = NewStreamState
    BY <1>4 DEF Got
  <2>2. r.state = NewStreamState /\ r.content = chunk /\ r.calls = <<>>
    BY <2>1 DEF Result
  <2>3. Cleaned(r.content) = chunk
    BY <1>4, <2>2 DEF Cleaned
  <2>4. Held(NewStreamState) = <<>> /\ <<>> \in Seq(Pieces)
    BY HeldIs, EmptySeq
  <2>5. h = chunk
    BY <2>1, <2>4, ConcatEmptySeq
  <2>6. Within(chunk, chunk) /\ Within(<<>>, chunk)
    BY WithinItself
  <2>7. Keeps(r, chunk, chunk)
    BY <2>2, <2>4, <2>6, HoldsNoMore
  <2>8. QED
    BY <2>3, <2>5, <2>7
<1>5. QED
  BY <1>3, <1>4

\* ... and what it makes of the rest at the end.
LEMMA GotLastKeeps ==
    ASSUME StreamOK(stream), NEW r, r = GotLast, NEW content, content = RemoveMarkup(r.content)
    PROVE  /\ content \in Seq(Pieces) /\ Within(content, Held(stream))
           /\ r.calls \in Seq(Pieces) /\ Within(r.calls, Held(stream))
<1> DEFINE t == Held(stream)
           got == tryConsumeCapture(t)
           plain == RemoveMarkup(t)
           calls == ParseCalls(t)
           strip == stripMalformedToolPreludePrefix(t)
           both == stripMalformedToolPreludePrefix(plain)
<1>1. t \in Seq(Pieces)
  BY ConcatProperties DEF Held, StreamOK
<1>2. \/ r.content = got.content /\ r.calls = got.calls
      \/ r.content = both /\ r.calls = <<>>
      \/ r.content = plain /\ r.calls = calls
      \/ r.content = strip /\ r.calls = calls
      \/ r.content = <<>> /\ r.calls = <<>>
  BY DEF GotLast, FinalizeStream, Result, Held
<1> HIDE DEF t
<1>3. Within(t, t) /\ Within(<<>>, t) /\ <<>> \in Seq(Pieces)
  BY <1>1, WithinItself, EmptySeq
<1>4. /\ got.content \in Seq(Pieces) /\ Within(got.content, t)
      /\ got.calls \in Seq(Pieces) /\ Within(got.calls, t)
  BY <1>1, ConsumeWithin
<1>5. /\ plain \in Seq(Pieces) /\ Within(plain, t)
      /\ calls \in Seq(Pieces) /\ Within(calls, t)
      /\ strip \in Seq(Pieces) /\ Within(strip, t)
  BY <1>1, <1>3, MarkupOfPart
<1> HIDE DEF plain
<1>6. both \in Seq(Pieces) /\ Within(both, t)
  BY <1>1, <1>5, MarkupOfPart
<1> HIDE DEF got, calls, strip, both
<1>7. /\ r.content \in Seq(Pieces) /\ Within(r.content, t)
      /\ r.calls \in Seq(Pieces) /\ Within(r.calls, t)
  BY <1>2, <1>3, <1>4, <1>5, <1>6
<1>8. content \in Seq(Pieces) /\ Within(content, t)
  BY <1>1, <1>7, MarkupOfPart
<1>9. QED
  BY <1>7, <1>8 DEF t

\* What was said and is held was received; then so is what is made of it and of the next
\* chunk.
LEMMA GoesOn ==
    ASSUME NEW a \in Seq(Pieces), NEW h \in Seq(Pieces), NEW chunk \in Seq(Pieces),
           NEW got \in Seq(Pieces), NEW c \in Seq(Pieces), NEW h2 \in Seq(Pieces),
           Within(a \o h, got), Within(c \o h2, h \o chunk)
    PROVE  Within((a \o c) \o h2, got \o chunk)
<1> DEFINE x == c \o h2
           y == h \o chunk
           z == a \o h
<1>1. x \in Seq(Pieces) /\ y \in Seq(Pieces) /\ z \in Seq(Pieces)
  BY ConcatProperties
<1>2. (a \o c) \o h2 = a \o x /\ z \o chunk = a \o y
  <2> HIDE DEF x, y, z
  <2>1. (a \o c) \o h2 = a \o (c \o h2)
    BY ConcatAssociative, SMTT(30)
  <2>2. (a \o h) \o chunk = a \o (h \o chunk)
    BY ConcatAssociative, SMTT(30)
  <2>3. QED
    BY <2>1, <2>2 DEF x, y, z
<1>3. Within(z, got) /\ Within(x, y)
  OBVIOUS
<1> HIDE DEF x, y, z
<1>4. Within(a, a) /\ Within(chunk, chunk)
  BY WithinItself
<1>5. Within(a \o x, a \o y) /\ Within(z \o chunk, got \o chunk)
  BY <1>1, <1>3, <1>4, WithinBoth
<1>6. a \o x \in Seq(Pieces) /\ a \o y \in Seq(Pieces) /\ got \o chunk \in Seq(Pieces)
  BY <1>1, ConcatProperties
<1>7. Within(a \o x, got \o chunk)
  <2> DEFINE u == a \o x
             v == a \o y
             w == got \o chunk
  <2>1. Within(u, v) /\ Within(v, w) /\ u \in Seq(Pieces) /\ v \in Seq(Pieces) /\ w \in Seq(Pieces)
    BY <1>2, <1>5, <1>6
  <2> HIDE DEF u, v, w
  <2>2. Within(u, w)
    BY <2>1, WithinWithin
  <2>3. QED
    BY <2>2 DEF u, w
<1>8. QED
  BY <1>2, <1>7

\* So it is if half a tag was dropped.
LEMMA PassedWithin ==
    ASSUME NEW content \in Seq(Pieces), NEW c \in Passed(content),
           NEW h \in Seq(Pieces), NEW t \in Seq(Pieces), Within(content \o h, t)
    PROVE  c \in Seq(Pieces) /\ Within(c \o h, t)
<1>1. CASE c = content
  BY <1>1
<1>2. CASE c = <<>>
  <2>1. Within(<<>>, content) /\ Within(h, h) /\ <<>> \in Seq(Pieces)
    BY WithinItself, EmptySeq
  <2>2. Within(<<>> \o h, content \o h)
    BY <2>1, WithinBoth
  <2> DEFINE u == <<>> \o h
             v == content \o h
  <2>3. u \in Seq(Pieces) /\ v \in Seq(Pieces) /\ Within(u, v) /\ Within(v, t)
    BY <2>1, <2>2, ConcatProperties
  <2> HIDE DEF u, v
  <2>4. Within(u, t)
    BY <2>3, WithinWithin
  <2>5. QED
    BY <1>2, <2>1, <2>4 DEF u
<1>3. QED
  BY <1>1, <1>2 DEF Passed

-----------------------------------------------------------------------------
(* What the client has heard was received. *)

\* What was said, and after it what the parser holds, is within what was received.
Faithful ==
    LET rest == IF ended THEN <<>> ELSE Held(stream)
    IN  /\ Nil \in odd => sent = Len(answer)
        /\ \E a, b : /\ Heard(events, a, b)
                     /\ Within(a \o rest, Received)
                     /\ Within(b \o rest, Received)

\* What was received is a text.
LEMMA ReceivedIsText ==
    ASSUME TypeOK
    PROVE  Received \in Seq(Pieces)
<1> DEFINE x == IF Thought \in odd THEN <<Thought>> ELSE <<>>
           y == SubSeq(answer, 1, sent)
           z == IF Nil \in odd THEN <<Nil>> ELSE <<>>
<1>1. answer \in Seq(Pieces) /\ sent \in 0 .. Len(answer) /\ Len(answer) \in Nat
  BY AnswersAreTexts, LenProperties DEF TypeOK
<1>2. Received = (x \o y) \o z
  BY DEF Received
<1>3. Thought \in Pieces /\ Nil \in Pieces
  BY DEF Pieces
<1>4. x \in Seq(Pieces) /\ z \in Seq(Pieces)
  <2>1. <<Thought>> \in Seq(Pieces) /\ <<Nil>> \in Seq(Pieces) /\ <<>> \in Seq(Pieces)
    BY <1>3
  <2>2. QED
    BY <2>1
<1>5. y \in Seq(Pieces)
  BY <1>1, Cut
<1> HIDE DEF x, y, z
<1>6. x \o y \in Seq(Pieces)
  BY <1>4, <1>5, ConcatProperties
<1>7. QED
  BY <1>2, <1>4, <1>6, ConcatProperties

\* Faithful holds at the start, ...
LEMMA InitFaithful == Init => Faithful
<1> SUFFICES ASSUME Init PROVE Faithful
  OBVIOUS
<1>1. events = <<>> /\ odd = {} /\ stream = NewStreamState /\ ended = FALSE
  BY DEF Init
<1>2. TypeOK
  BY InitInv DEF IInv
<1>3. Received \in Seq(Pieces) /\ <<>> \in Seq(Pieces)
  BY <1>2, ReceivedIsText, EmptySeq
<1>4. Heard(events, <<>>, <<>>)
  BY <1>1, HeardNone
<1>5. Held(stream) = <<>> /\ <<>> \o <<>> = <<>>
  BY <1>1, <1>3, HeldIs, ConcatEmptySeq
<1>6. Within(<<>> \o Held(stream), Received)
  BY <1>3, <1>5, WithinItself
<1>7. QED
  BY <1>1, <1>4, <1>6 DEF Faithful

\* A delta adds to what was received.
LEMMA DeltaFaithful ==
    ASSUME IInv, Telling, Faithful, ~ended, ~ended', NEW chunk \in Seq(Pieces),
           \/ api = "openai" /\ OpenAIDelta(chunk)
           \/ api = "anthropic" /\ AnthropicDelta(chunk),
           Received' = Received \o chunk, Nil \in odd' => sent' = Len(answer')
    PROVE  Faithful'
<1>1. PICK a, b : /\ Heard(events, a, b)
                  /\ Within(a \o Held(stream), Received)
                  /\ Within(b \o Held(stream), Received)
  BY DEF Faithful
<1> DEFINE r == Got(chunk)
           content == Cleaned(r.content)
           h == Held(stream)
           h2 == Held(r.state)
           calls == r.calls
<1>2. StreamOK(stream) /\ Received \in Seq(Pieces) /\ (~Parses => stream = NewStreamState)
  BY ReceivedIsText DEF IInv, Telling
<1>3. h \in Seq(Pieces)
  BY <1>2, ConcatProperties DEF Held, StreamOK
<1>4. Keeps(r, content, h \o chunk)
  BY <1>2, GotKeeps
<1>5. r = Got(chunk) /\ content = Cleaned(r.content)
  OBVIOUS
<1> HIDE DEF r
<1>6. /\ content \in Seq(Pieces) /\ r.calls \in Seq(Pieces) /\ h2 \in Seq(Pieces)
      /\ Within(content \o h2, h \o chunk)
      /\ Within(calls \o h2, h \o chunk)
  BY <1>4 DEF Keeps
<1> HIDE DEF content
<1>7. /\ stream' = r.state
      /\ \E c \in Passed(content) : Heard(events', a \o c, b \o r.calls)
  BY <1>1, <1>5, <1>6, DeltaHeard
<1>8. PICK c \in Passed(content) : Heard(events', a \o c, b \o r.calls)
  BY <1>7
<1>9. h \o chunk \in Seq(Pieces)
  BY <1>3, ConcatProperties
<1>10. Held(stream') = h2 /\ calls \in Seq(Pieces)
  BY <1>6, <1>7
<1> HIDE DEF h, h2, calls
<1>11. c \in Seq(Pieces) /\ Within(c \o h2, h \o chunk)
  BY <1>6, <1>9, PassedWithin
<1>12. a \in Seq(Pieces) /\ b \in Seq(Pieces)
  BY <1>1, HeardText
<1>13. Within(a \o h, Received) /\ Within(b \o h, Received)
  BY <1>1 DEF h
<1>14. /\ Within((a \o c) \o h2, Received \o chunk)
       /\ Within((b \o calls) \o h2, Received \o chunk)
  BY <1>2, <1>3, <1>6, <1>10, <1>11, <1>12, <1>13, GoesOn
<1>15. /\ Heard(events', a \o c, b \o calls)
       /\ Within((a \o c) \o Held(stream'), Received')
       /\ Within((b \o calls) \o Held(stream'), Received')
  BY <1>8, <1>10, <1>14 DEF calls
<1>16. QED
  BY <1>15 DEF Faithful, Heard, Speaks, Held

\* ... a delta adds its pieces to what was received, ...
LEMMA NextPieces ==
    ASSUME IInv, Nil \notin odd, NEW n \in 1 .. (Len(answer) - sent), Delta(n)
    PROVE  Received' = Received \o SubSeq(answer, sent + 1, sent + n)
<1> DEFINE x == IF Thought \in odd THEN <<Thought>> ELSE <<>>
           m == sent + n
           y == SubSeq(answer, 0 + 1, sent)
           z == SubSeq(answer, sent + 1, m)
<1>1. /\ answer \in Seq(Pieces) /\ Len(answer) \in Nat /\ sent \in 0 .. Len(answer)
      /\ m \in 0 .. Len(answer) /\ sent \in 0 .. m /\ 0 \in 0 .. sent /\ 0 \in 0 .. m
  BY AnswersAreTexts, LenProperties DEF IInv, TypeOK
<1>2. answer' = answer /\ odd' = odd /\ sent' = m
  BY DEF Delta
<1>3. Thought \in Pieces
  BY DEF Pieces
<1>4. x \in Seq(Pieces)
  <2>1. <<Thought>> \in Seq(Pieces) /\ <<>> \in Seq(Pieces)
    BY <1>3
  <2>2. QED
    BY <2>1
<1>5. Received = (x \o y) \o <<>>
  <2>1. 0 + 1 = 1
    OBVIOUS
  <2>2. QED
    BY <2>1 DEF Received
<1>6. Received' = (x \o SubSeq(answer, 0 + 1, m)) \o <<>>
  <2>1. 0 + 1 = 1
    OBVIOUS
  <2>2. QED
    BY <1>2, <2>1 DEF Received
<1> HIDE DEF x, m
<1>7. y \in Seq(Pieces) /\ z \in Seq(Pieces) /\ y \o z = SubSeq(answer, 0 + 1, m)
  BY <1>1, PartOf, Joined
<1> HIDE DEF y, z
<1>8. x \o y \in Seq(Pieces) /\ y \o z \in Seq(Pieces) /\ x \o (y \o z) \in Seq(Pieces)
  BY <1>4, <1>7, ConcatProperties
<1>9. Received = x \o y /\ Received' = x \o (y \o z)
  BY <1>5, <1>6, <1>7, <1>8, ConcatEmptySeq
<1>10. (x \o y) \o z = x \o (y \o z)
  <2>1. x \in Seq(Pieces) /\ y \in Seq(Pieces) /\ z \in Seq(Pieces)
    BY <1>4, <1>7
  <2>2. QED
    BY <2>1, ConcatAssociative
<1>11. QED
  BY <1>9, <1>10 DEF z, m

\* ... and a thought or an empty delta itself: no thought comes after the answer began; ...
LEMMA OddPiece ==
    ASSUME IInv, Faithful, NEW piece \in {Thought, Nil}, Odd(piece)
    PROVE  Received' = Received \o <<piece>> /\ (Nil \in odd' => sent' = Len(answer'))
<1> DEFINE x == IF Thought \in odd THEN <<Thought>> ELSE <<>>
           y == SubSeq(answer, 1, sent)
<1>1. /\ answer \in Seq(Pieces) /\ Len(answer) \in Nat /\ sent \in 0 .. Len(answer)
  BY AnswersAreTexts, LenProperties DEF IInv, TypeOK
<1>2. /\ answer' = answer /\ odd' = odd \cup {piece} /\ sent' = sent
      /\ piece \notin odd
      /\ piece = Thought => sent = 0 /\ Nil \notin odd
      /\ piece = Nil => sent = Len(answer)
  BY DEF Odd
<1>3. Thought # Nil
  BY MessageStreamAssumption
<1>4. Thought \in Pieces /\ Nil \in Pieces
  BY DEF Pieces
<1>5. x \in Seq(Pieces) /\ y \in Seq(Pieces) /\ <<piece>> \in Seq(Pieces) /\ <<>> \in Seq(Pieces)
  <2>1. <<Thought>> \in Seq(Pieces) /\ <<Nil>> \in Seq(Pieces) /\ <<>> \in Seq(Pieces)
    BY <1>4
  <2>2. y \in Seq(Pieces)
    BY <1>1, Cut
  <2>3. QED
    BY <2>1, <2>2
<1>6. CASE piece = Thought
  <2>1. y = <<>>
    BY <1>1, <1>2, <1>6, SubSeqEmpty
  <2>2. Received = (<<>> \o y) \o <<>>
    BY <1>2, <1>6 DEF Received
  <2>3. Received' = (<<piece>> \o y) \o <<>>
    BY <1>2, <1>3, <1>6 DEF Received
  <2> HIDE DEF y
  <2>4. <<>> \o <<>> = <<>> /\ <<piece>> \o <<>> = <<piece>> /\ <<>> \o <<piece>> = <<piece>>
    BY <1>5, ConcatEmptySeq
  <2>5. Received = <<>> /\ Received' = <<piece>>
    BY <2>1, <2>2, <2>3, <2>4
  <2>6. Nil \notin odd'
    BY <1>2, <1>3, <1>6
  <2>7. QED
    BY <2>4, <2>5, <2>6
<1>7. CASE piece = Nil
  <2>1. Received = (x \o y) \o <<>>
    BY <1>2, <1>7 DEF Received
  <2>2. Received' = (x \o y) \o <<piece>>
    BY <1>2, <1>3, <1>7 DEF Received
  <2> HIDE DEF x, y
  <2>3. x \o y \in Seq(Pieces)
    BY <1>5, ConcatProperties
  <2>4. Received = x \o y
    BY <2>1, <2>3, ConcatEmptySeq
  <2>5. QED
    BY <1>2, <1>7, <2>2, <2>4
<1>8. QED
  BY <1>6, <1>7

\* ... such a delta keeps Faithful, ...
LEMMA OddFaithful ==
    ASSUME IInv, Telling, Faithful, NEW piece \in {Thought, Nil}, Odd(piece)
    PROVE  Faithful'
<1>1. /\ ~ended /\ ~ended'
      /\ \/ api = "openai" /\ OpenAIOdd(piece)
         \/ api = "anthropic" /\ AnthropicDelta(<<piece>>)
  BY DEF Odd, IInv, TypeOK
<1>2. /\ Received' = Received \o <<piece>>
      /\ Nil \in odd' => sent' = Len(answer')
  BY OddPiece
<1>3. <<piece>> \in Seq(Pieces)
  <2>1. piece \in Pieces
    BY DEF Pieces
  <2>2. QED
    BY <2>1
<1>4. CASE api = "openai" /\ OpenAIOdd(piece)
  <2>1. PICK a, b : /\ Heard(events, a, b)
                    /\ Within(a \o Held(stream), Received)
                    /\ Within(b \o Held(stream), Received)
    BY <1>1 DEF Faithful
  <2>2. stream' = stream
    BY <1>4 DEF OpenAIOdd
  <2>3. Heard(events', a, b)
    <3>1. Heard(Append(events, Event("reasoning", 0, <<Thought>>)), a, b)
      <4>1. "reasoning" \notin {"text", "tool_call"}
        OBVIOUS
      <4>2. QED
        BY <2>1, <4>1, HeardSilence
    <3>2. events' = events \/ events' = Append(events, Event("reasoning", 0, <<Thought>>))
      BY <1>4 DEF OpenAIOdd
    <3>3. QED
      BY <2>1, <3>1, <3>2
  <2> DEFINE h == Held(stream)
             x == a \o h
             y == b \o h
             end == <<piece>>
  <2>4. h \in Seq(Pieces) /\ a \in Seq(Pieces) /\ b \in Seq(Pieces) /\ Received \in Seq(Pieces)
    BY <2>1, HeardText, ReceivedIsText, ConcatProperties DEF IInv, StreamOK, Held
  <2>5. Within(x, Received) /\ Within(y, Received) /\ end \in Seq(Pieces)
    BY <1>3, <2>1
  <2> HIDE DEF h, end
  <2>6. x \in Seq(Pieces) /\ y \in Seq(Pieces)
    BY <2>4, ConcatProperties
  <2> HIDE DEF x, y
  <2>7. Within(<<>>, end) /\ <<>> \in Seq(Pieces)
    BY <2>5, WithinItself, EmptySeq
  <2>8. Within(x \o <<>>, Received \o end) /\ Within(y \o <<>>, Received \o end)
    BY <2>4, <2>5, <2>6, <2>7, WithinBoth
  <2>9. x \o <<>> = x /\ y \o <<>> = y
    BY <2>6, ConcatEmptySeq
  <2>10. Within(x, Received') /\ Within(y, Received')
    BY <1>2, <2>8, <2>9 DEF end
  <2>11. Held(stream') = h
    BY <2>2 DEF h
  <2>12. /\ Heard(events', a, b)
         /\ Within(a \o Held(stream'), Received') /\ Within(b \o Held(stream'), Received')
    BY <2>3, <2>10, <2>11 DEF x, y
  <2>13. QED
    BY <1>1, <1>2, <2>12 DEF Faithful, Heard, Speaks, Held
<1>5. CASE api = "anthropic" /\ AnthropicDelta(<<piece>>)
  <2> DEFINE chunk == <<piece>>
  <2>1. chunk \in Seq(Pieces) /\ AnthropicDelta(chunk) /\ Received' = Received \o chunk
    BY <1>2, <1>3, <1>5
  <2> HIDE DEF chunk
  <2>2. QED
    BY <1>1, <1>2, <1>5, <2>1, DeltaFaithful
<1>6. QED
  BY <1>1, <1>4, <1>5

\* ... and the end, ...
LEMMA FinishFaithful ==
    ASSUME IInv, Telling, Faithful, Finish
    PROVE  Faithful'
<1>1. ~ended /\ ended' = TRUE /\ UNCHANGED <<answer, sent, odd>>
  BY DEF Finish
<1>2. PICK a, b : /\ Heard(events, a, b)
                  /\ Within(a \o Held(stream), Received)
                  /\ Within(b \o Held(stream), Received)
  BY <1>1 DEF Faithful
<1>3. Received' = Received /\ (Nil \in odd' => sent' = Len(answer'))
  BY <1>1 DEF Received, Faithful
<1> DEFINE r == GotLast
           content == RemoveMarkup(r.content)
           h == Held(stream)
           calls == r.calls
<1>4. r = GotLast /\ content = RemoveMarkup(r.content)
  OBVIOUS
<1>5. StreamOK(stream) /\ Received \in Seq(Pieces)
  BY ReceivedIsText DEF IInv
<1>6. h \in Seq(Pieces) /\ a \in Seq(Pieces) /\ b \in Seq(Pieces)
  BY <1>2, <1>5, HeardText, ConcatProperties DEF StreamOK, Held
<1> HIDE DEF r, content
<1>7. /\ content \in Seq(Pieces) /\ Within(content, h)
      /\ r.calls \in Seq(Pieces) /\ Within(calls, h)
  BY <1>4, <1>5, GotLastKeeps
<1>8. PICK c \in Passed(content) : Heard(events', a \o c, b \o r.calls)
  BY <1>2, <1>4, <1>7, FinishHeard
<1> HIDE DEF h
<1>9. calls \in Seq(Pieces) /\ Heard(events', a \o c, b \o calls)
  BY <1>7, <1>8
<1> HIDE DEF calls
<1>10. <<>> \in Seq(Pieces) /\ content \o <<>> = content /\ calls \o <<>> = calls
       /\ h \o <<>> = h /\ Received \o <<>> = Received
  BY <1>5, <1>6, <1>7, <1>9, EmptySeq, ConcatEmptySeq
<1>11. c \in Seq(Pieces) /\ Within(c \o <<>>, h)
  <2>1. Within(content \o <<>>, h)
    BY <1>7, <1>10
  <2>2. QED
    BY <1>6, <1>7, <1>10, <2>1, PassedWithin
<1>12. Within(a \o h, Received) /\ Within(b \o h, Received)
  BY <1>2 DEF h
<1>13. Within(c \o <<>>, h \o <<>>) /\ Within(calls \o <<>>, h \o <<>>)
  BY <1>7, <1>10, <1>11
<1>14. /\ Within((a \o c) \o <<>>, Received \o <<>>)
       /\ Within((b \o calls) \o <<>>, Received \o <<>>)
  BY <1>5, <1>6, <1>9, <1>10, <1>11, <1>12, <1>13, GoesOn
<1>15. /\ Within((a \o c) \o <<>>, Received') /\ Within((b \o calls) \o <<>>, Received')
  BY <1>3, <1>10, <1>14
<1>16. QED
  BY <1>1, <1>3, <1>9, <1>15 DEF Faithful, Heard, Speaks

\* ... and so does every step.
LEMMA NextFaithful == IInv /\ Telling /\ Faithful /\ [Next]_vars => Faithful'
<1> SUFFICES ASSUME IInv, Telling, Faithful, [Next]_vars PROVE Faithful'
  OBVIOUS
<1>1. ASSUME NEW n \in 1 .. (Len(answer) - sent), Delta(n) PROVE Faithful'
  <2> DEFINE chunk == SubSeq(answer, sent + 1, sent + n)
  <2>1. /\ ~ended /\ ~ended'
        /\ \/ api = "openai" /\ OpenAIDelta(chunk)
           \/ api = "anthropic" /\ AnthropicDelta(chunk)
        /\ odd' = odd
    BY <1>1 DEF Delta, IInv, TypeOK
  <2>2. Nil \notin odd
    <3>1. Len(answer) \in Nat /\ sent \in 0 .. Len(answer)
      BY AnswersAreTexts, LenProperties DEF IInv, TypeOK
    <3>2. sent # Len(answer)
      BY <3>1
    <3>3. QED
      BY <3>2 DEF Faithful
  <2>3. chunk \in Seq(Pieces)
    BY ChunkIsText DEF IInv
  <2>4. Received' = Received \o chunk
    BY <1>1, <2>2, NextPieces
  <2>5. Nil \notin odd'
    BY <2>1, <2>2
  <2> HIDE DEF chunk
  <2>6. QED
    BY <2>1, <2>3, <2>4, <2>5, DeltaFaithful
<1>2. ASSUME NEW piece \in {Thought, Nil}, Odd(piece) PROVE Faithful'
  BY <1>2, OddFaithful
<1>3. CASE Finish
  BY <1>3, FinishFaithful
<1>4. CASE UNCHANGED vars
  <2>1. UNCHANGED <<answer, sent, odd, stream, events, ended>>
    BY <1>4 DEF vars
  <2>2. Received' = Received
    BY <2>1 DEF Received
  <2>3. QED
    BY <2>1, <2>2 DEF Faithful, Heard, Speaks, Held
<1>5. QED
  BY <1>1, <1>2, <1>3, <1>4 DEF Next

\* Whatever the model writes and however its answer is cut or broken off, every piece that
\* handleStream and handleAnthropicStream write, as text or as tool calls, was received,
\* and they write none twice or out of order.
THEOREM NothingInventedHolds == Spec => []NothingInvented
<1>1. IInv /\ Faithful => NothingInvented
  <2> SUFFICES ASSUME IInv, Faithful PROVE NothingInvented
    OBVIOUS
  <2> DEFINE rest == IF ended THEN <<>> ELSE Held(stream)
  <2>1. PICK a, b : /\ Heard(events, a, b)
                    /\ Within(a \o rest, Received)
                    /\ Within(b \o rest, Received)
    BY DEF Faithful
  <2>2. rest \in Seq(Pieces)
    BY EmptySeq, ConcatProperties DEF IInv, StreamOK, Held
  <2> HIDE DEF rest
  <2>3. a \in Seq(Pieces) /\ b \in Seq(Pieces) /\ Received \in Seq(Pieces)
    BY <2>1, HeardText, ReceivedIsText DEF IInv
  <2>4. Within(a, a) /\ Within(b, b) /\ Within(<<>>, rest) /\ <<>> \in Seq(Pieces)
    BY <2>2, <2>3, WithinItself, EmptySeq
  <2>5. ASSUME NEW s \in Seq(Pieces), Within(s \o rest, Received)
        PROVE  IsSubsequence(s, Received)
    <3> DEFINE x == s \o rest
    <3>1. Within(s, s) /\ Within(<<>>, rest) /\ <<>> \in Seq(Pieces)
      BY <2>2, WithinItself, EmptySeq
    <3>2. Within(s \o <<>>, x)
      BY <2>2, <3>1, WithinBoth
    <3>3. x \in Seq(Pieces) /\ s \o <<>> = s /\ Within(x, Received)
      BY <2>2, <2>5, ConcatProperties, ConcatEmptySeq
    <3> HIDE DEF x
    <3>4. Within(s, Received)
      BY <2>3, <3>2, <3>3, WithinWithin
    <3>5. QED
      BY <2>3, <3>4, WithinIsSubsequence
  <2>6. Said("text") = a /\ Said("tool_call") = b
    BY <2>1, HeardIsSaid
  <2>7. QED
    BY <2>1, <2>3, <2>5, <2>6 DEF NothingInvented
<1>2. IInv /\ Telling /\ [Next]_vars => Telling'
  BY NextTelling
<1>3. IInv /\ Telling /\ Faithful /\ [Next]_vars => Faithful'
  BY NextFaithful
<1>4. QED
  BY InvHolds, InitTelling, InitFaithful, <1>1, <1>2, <1>3, PTL DEF Spec
=============================================================================
