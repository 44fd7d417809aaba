-------------------------- MODULE ContinuityProofs --------------------------
(***************************************************************************)
(* Proofs about Continuity, for any number of dialogues, chats and         *)
(* messages, and for transcripts of any length.                            *)
(***************************************************************************)
EXTENDS Continuity, SequenceTheorems, TLAPS

USE ContinuityAssumption

----------------------------------------------------------------------------
(* Sequences of messages. *)

\* What a turn looks like: it ends in a word, and computeContextHash leaves
\* out all of it or all but its first message.
LEMMA TurnShape ==
    ASSUME NEW t \in Turns
    PROVE  /\ t \in Seq(Messages)
           /\ t # <<>>
           /\ Len(t) \in Nat
           /\ Front(t) \in Seq(Messages)
           /\ t = Front(t) \o <<Last(t)>>
           /\ Last(t) \in Messages
           /\ Incremental(t) \in Seq(Messages)
           /\ \/ Front(t) = <<>> /\ Incremental(t) = t
              \/ \E v \in Words : Front(t) = <<v>>
<1>1. CASE \E v \in Words : t = <<v>>
  <2>1. PICK v \in Words : t = <<v>>
    BY <1>1
  <2>2. Front(t) = <<>> /\ Last(t) = v /\ Len(t) = 1
    BY <2>1 DEF Front, Last
  <2>3. v \in Messages
    BY <2>1 DEF Messages
  <2>4. Incremental(t) = t
    BY <2>2 DEF Incremental
  <2>5. t \in Seq(Messages) /\ t = <<>> \o <<v>>
    BY <2>1, <2>3
  <2>6. t # <<>> /\ Front(t) \in Seq(Messages) /\ Len(t) \in Nat
    BY <2>2, Len(<<>>) = 0
  <2>7. t = Front(t) \o <<Last(t)>> /\ Last(t) \in Messages
    BY <2>2, <2>3, <2>5
  <2>. QED
    BY <2>2, <2>4, <2>5, <2>6, <2>7
<1>2. CASE \E v, w \in Words : t = <<v, w>>
  <2>1. PICK v \in Words, w \in Words : t = <<v, w>>
    BY <1>2
  <2>2. v \in Messages /\ w \in Messages
    BY <2>1 DEF Messages
  <2>3. Len(t) = 2 /\ t[1] = v /\ t[2] = w /\ Last(t) = w
    BY <2>1 DEF Last
  <2>4. t \in Seq(Messages) /\ <<w>> \in Seq(Messages) /\ <<v>> \in Seq(Messages)
    BY <2>1, <2>2
  <2>5. Front(t) = <<v>>
    <3>1. Front(t) \in Seq(Messages) /\ Len(Front(t)) = 1 /\ Front(t)[1] = v
      BY <2>2, <2>3, SubSeqProperties DEF Front
    <3>. QED
      BY <3>1, <2>4, SeqEqual, Len(<<v>>) = 1, <<v>>[1] = v
  <2>6. t = <<v>> \o <<w>>
    <3>1. /\ Len(<<v>>) = 1 /\ Len(<<w>>) = 1
          /\ <<v>>[1] = v /\ <<w>>[1] = w
      OBVIOUS
    <3>2. /\ <<v>> \o <<w>> \in Seq(Messages)
          /\ Len(<<v>> \o <<w>>) = 2
          /\ (<<v>> \o <<w>>)[1] = v
          /\ (<<v>> \o <<w>>)[2] = w
      BY <2>4, <3>1, ConcatProperties
    <3>3. \A i \in 1..2 : (<<v>> \o <<w>>)[i] = t[i]
      BY <3>2, <2>3
    <3>4. ASSUME NEW x \in Seq(Messages), Len(x) = 2, \A i \in 1..2 : x[i] = t[i]
          PROVE  x = t
      BY <3>4, <2>3, <2>4, SeqEqual
    <3>. QED
      BY <3>2, <3>3, <3>4
  <2>7. Incremental(t) \in {t, <<w>>}
    BY <2>3 DEF Incremental
  <2>. QED
    <3>1. Len(t) = 2 /\ t # <<>> /\ Len(t) \in Nat
      BY <2>3
    <3>2. Incremental(t) \in Seq(Messages)
      BY <2>4, <2>7
    <3>3. t = Front(t) \o <<Last(t)>> /\ Last(t) \in Messages
      BY <2>2, <2>3, <2>5, <2>6
    <3>. QED
      BY <2>4, <2>5, <3>1, <3>2, <3>3
<1>. QED
  <2>1. t \in {<<v>> : v \in Words} \/ t \in {<<v, w>> : v, w \in Words}
    BY DEF Turns
  <2>. QED
    BY <1>1, <1>2, <2>1

\* The Preamble is a sequence of messages, and so is what a request expands to.
LEMMA PreambleType ==
    ASSUME NEW d \in Dialogues
    PROVE  Preamble[d] \in Seq(Messages)
<1>0. Preamble[d] = <<>> \/ \E s \in System : Preamble[d] = <<s>>
  <2>1. Preamble[d] \in {<<>>} \cup {<<s>> : s \in System}
    OBVIOUS
  <2>. QED
    BY <2>1
<1>1. CASE Preamble[d] = <<>>
  BY <1>1
<1>2. CASE \E s \in System : Preamble[d] = <<s>>
  BY <1>2 DEF Messages
<1>. QED
  BY <1>0, <1>1, <1>2

LEMMA PrefixOfConcat ==
    ASSUME NEW S, NEW s \in Seq(S), NEW t \in Seq(S)
    PROVE  IsPrefix(s, s \o t)
<1>1. /\ s \o t \in Seq(S)
      /\ Len(s \o t) = Len(s) + Len(t)
      /\ \A i \in 1..(Len(s) + Len(t)) :
            (s \o t)[i] = IF i <= Len(s) THEN s[i] ELSE t[i - Len(s)]
  BY ConcatProperties
<1>2. Len(s) \in Nat /\ Len(t) \in Nat
  BY LenProperties
<1>3. SubSeq(s, 1, Len(s)) = SubSeq(s \o t, 1, Len(s))
  BY <1>1, <1>2
<1>. QED
  BY <1>1, <1>2, <1>3 DEF IsPrefix

LEMMA PrefixExtends ==
    ASSUME NEW S, NEW s \in Seq(S), NEW t \in Seq(S), NEW u \in Seq(S),
           IsPrefix(s, t)
    PROVE  IsPrefix(s, t \o u)
<1>1. Len(s) <= Len(t) /\ SubSeq(s, 1, Len(s)) = SubSeq(t, 1, Len(s))
  BY DEF IsPrefix
<1>2. Len(t) <= Len(t \o u) /\ SubSeq(t, 1, Len(t)) = SubSeq(t \o u, 1, Len(t))
  BY PrefixOfConcat DEF IsPrefix
<1>3. Len(s) \in Nat /\ Len(t) \in Nat /\ Len(t \o u) \in Nat /\ t \o u \in Seq(S)
  BY ConcatProperties, LenProperties
<1>4. ASSUME NEW i \in 1..Len(s)
      PROVE  t[i] = (t \o u)[i]
  BY <1>1, <1>3, ConcatProperties
<1>5. SubSeq(t, 1, Len(s)) = SubSeq(t \o u, 1, Len(s))
  BY <1>1, <1>3, <1>4
<1>. QED
  BY <1>1, <1>2, <1>3, <1>5 DEF IsPrefix

LEMMA MessagePrefixes ==
    \A s, t \in Seq(Messages) :
        /\ IsPrefix(s, s \o t)
        /\ \A u \in Seq(Messages) : IsPrefix(s, t) => IsPrefix(s, t \o u)
<1>. SUFFICES ASSUME NEW s \in Seq(Messages), NEW t \in Seq(Messages)
              PROVE  /\ IsPrefix(s, s \o t)
                     /\ \A u \in Seq(Messages) :
                           IsPrefix(s, t) => IsPrefix(s, t \o u)
  OBVIOUS
<1>. QED
  BY PrefixOfConcat, PrefixExtends

\* A sequence that ends in an answer is not one that ends in a word.
LEMMA EndsDiffer ==
    ASSUME NEW s \in Seq(Messages), NEW v \in Words
    PROVE  Last(s \o <<v>>) \notin Answers
<1>1. v \in Messages /\ <<v>> \in Seq(Messages) /\ Len(<<v>>) = 1
  BY DEF Messages
<1>2. Len(s) \in Nat /\ Len(s \o <<v>>) = Len(s) + 1
  BY <1>1, ConcatProperties, LenProperties
<1>3. (s \o <<v>>)[Len(s) + 1] = v
  BY <1>1, <1>2, ConcatProperties
<1>. QED
  BY <1>2, <1>3 DEF Last
----------------------------------------------------------------------------
(* The inductive invariant. *)

\* The context hash of the request that runs in d, and the hash that its
\* dialogue will continue with when it has the answer.
Hash(d) == ContextHash(d, turn[d])
NextHash(d) == ContinuationHash(d, answer[d])

\* The chat c was sent this hash, or holds just the messages of it.
Vouched(h, c) == h \in hashes[c] \/ h = content[c]

\* What is known of a chat that was never sent one hash twice.
EndsInAnswer(c) == content[c] # <<>> => Last(content[c]) \in Answers
MappingsVouched(c) == \A m \in mapping : m[2] = c => Vouched(m[1], c)
SendersVouched(c) ==
    \A d \in Dialogues :
        (Sending(d) /\ target[d] = c) => Hash(d) # <<>> /\ Vouched(Hash(d), c)
ServersVouched(c) ==
    \A d \in Dialogues :
        (Serving(d) /\ target[d] = c) =>
            Hash(d) \in hashes[c] /\ Vouched(NextHash(d), c)
HashesAreHistory(c) ==
    \A h \in hashes[c] : content[c] # <<>> /\ IsPrefix(h, content[c])

Known(c) ==
    /\ content[c] = latest[c]
    /\ EndsInAnswer(c)
    /\ MappingsVouched(c)
    /\ SendersVouched(c)
    /\ ServersVouched(c)
    /\ HashesAreHistory(c)

\* A dialogue without a request has no chat, one that is served has.
Phases ==
    \A d \in Dialogues :
        /\ Idle(d) => target[d] = NoChat /\ answer[d] = NoAnswer
        /\ Serving(d) => target[d] \in Chats

IInv ==
    /\ TypeOK
    /\ Phases
    /\ \A c \in Chats \ forked : Known(c)

----------------------------------------------------------------------------
(* Helpers about the operators of the model. *)

\* What is hashed and what is sent are sequences of messages; the request
\* expands to its hash and its last message.  If the turn is one message, the
\* chat that holds the hash is sent exactly what it lacks; if not, the hash
\* does not end in an answer.
LEMMA RequestShape ==
    ASSUME TypeOK, NEW d \in Dialogues, ~Idle(d)
    PROVE  /\ turn[d] \in Turns
           /\ Hash(d) \in Seq(Messages)
           /\ Expanded(d) \in Seq(Messages)
           /\ Sent(d) \in Seq(Messages)
           /\ \E w \in Messages : Expanded(d) = Hash(d) \o <<w>>
           /\ \/ Expanded(d) = Hash(d) \o Incremental(turn[d])
              \/ Last(Hash(d)) \notin Answers
<1>. DEFINE t == turn[d]
            p == Preamble[d] \o transcript[d]
<1>1. t \in Turns
  BY DEF TypeOK, Idle
<1>2. /\ t \in Seq(Messages)
      /\ Front(t) \in Seq(Messages)
      /\ t = Front(t) \o <<Last(t)>>
      /\ Last(t) \in Messages
      /\ Incremental(t) \in Seq(Messages)
      /\ \/ Front(t) = <<>> /\ Incremental(t) = t
         \/ \E v \in Words : Front(t) = <<v>>
  BY <1>1, TurnShape
<1>3. p \in Seq(Messages)
  BY PreambleType, ConcatProperties DEF TypeOK
<1>4. Hash(d) = p \o Front(t) /\ Expanded(d) = p \o t
  BY DEF Hash, ContextHash, Expanded
<1>5. Hash(d) \in Seq(Messages) /\ Expanded(d) \in Seq(Messages)
  BY <1>2, <1>3, <1>4, ConcatProperties
<1>6. Sent(d) \in Seq(Messages)
  BY <1>2, <1>5 DEF Sent
<1>7. <<Last(t)>> \in Seq(Messages)
  BY <1>2
<1>8. Expanded(d) = Hash(d) \o <<Last(t)>>
  <2>1. p \o (Front(t) \o <<Last(t)>>) = (p \o Front(t)) \o <<Last(t)>>
    <3>1. ASSUME NEW x \in Seq(Messages), NEW y \in Seq(Messages),
                 NEW z \in Seq(Messages)
          PROVE  x \o (y \o z) = (x \o y) \o z
      BY ConcatAssociative
    <3>. QED
      BY <1>2, <1>3, <1>7, <3>1
  <2>. QED
    BY <1>2, <1>4, <2>1
<1>9. CASE Front(t) = <<>> /\ Incremental(t) = t
  <2>1. Hash(d) = p
    BY <1>3, <1>4, <1>9, ConcatEmptySeq
  <2>. QED
    BY <1>1, <1>2, <1>4, <1>5, <1>6, <1>8, <1>9, <2>1
<1>10. CASE \E v \in Words : Front(t) = <<v>>
  <2>1. Last(Hash(d)) \notin Answers
    BY <1>3, <1>4, <1>10, EndsDiffer
  <2>. QED
    BY <1>1, <1>2, <1>5, <1>6, <1>8, <2>1
<1>. QED
  BY <1>2, <1>9, <1>10

\* Saving the mappings of H keeps one chat per hash.
LEMMA SaveKeepsTypes ==
    ASSUME mapping \in SUBSET ((Seq(Messages) \ {<<>>}) \X Chats),
           \A m, n \in mapping : m[1] = n[1] => m = n,
           NEW H \in SUBSET Seq(Messages), NEW c \in Chats
    PROVE  /\ Mapped(H, c) \in SUBSET ((Seq(Messages) \ {<<>>}) \X Chats)
           /\ \A m, n \in Mapped(H, c) : m[1] = n[1] => m = n
           /\ \A m \in Mapped(H, c) : m \in mapping \/ (m[1] \in H /\ m[2] = c)
BY DEF Mapped
----------------------------------------------------------------------------
(* Type correctness. *)

\* What a failed request leaves behind has its type.
LEMMA LeftBehindType ==
    ASSUME TypeOK, NEW d \in Dialogues, Sending(d), LeavesBehind(d)
    PROVE  /\ content' \in [Chats -> Seq(Messages)]
           /\ forked' \in SUBSET Chats
<1>1. CASE UNCHANGED <<content, forked>>
  BY <1>1 DEF TypeOK
<1>2. ASSUME NEW c \in Chats, NEW r \in {<<>>} \cup {<<a>> : a \in Answers \ Cut},
             content' = [content EXCEPT ![c] = content[c] \o Sent(d) \o r],
             forked' = forked \cup {c}
      PROVE  /\ content' \in [Chats -> Seq(Messages)]
             /\ forked' \in SUBSET Chats
  <2>1. Sent(d) \in Seq(Messages)
    BY RequestShape DEF Sending, Idle
  <2>2. r \in Seq(Messages)
    <3>1. CASE r = <<>>
      BY <3>1
    <3>2. CASE r \in {<<a>> : a \in Answers \ Cut}
      <4>1. PICK a \in Answers : r = <<a>>
        BY <3>2, Zenon
      <4>2. a \in Messages
        BY DEF Messages
      <4>. QED
        BY <4>1, <4>2
    <3>. QED
      BY <3>1, <3>2
  <2>3. content[c] \o Sent(d) \o r \in Seq(Messages)
    BY <2>1, <2>2, ConcatProperties DEF TypeOK
  <2>. QED
    BY <1>2, <2>3 DEF TypeOK
<1>. QED
  BY <1>1, <1>2 DEF LeavesBehind, TypeOK

LEMMA TypeStep == TypeOK /\ Phases /\ [Next]_vars => TypeOK'
<1>. SUFFICES ASSUME TypeOK, Phases, [Next]_vars
              PROVE  TypeOK'
  OBVIOUS
<1>1. ASSUME NEW d \in Dialogues, NEW t \in Turns, Ask(d, t)
      PROVE  TypeOK'
  BY <1>1 DEF Ask, TypeOK
<1>2. ASSUME NEW d \in Dialogues, Fail(d)
      PROVE  TypeOK'
  <2>1. content' \in [Chats -> Seq(Messages)] /\ forked' \in SUBSET Chats
    BY <1>2, LeftBehindType DEF Fail
  <2>2. mapping' \subseteq mapping
    BY <1>2 DEF Fail, WithoutAliases
  <2>. QED
    BY <1>2, <2>1, <2>2 DEF Fail, TypeOK
<1>3. ASSUME NEW d \in Dialogues, NEW a \in Answers, NEW c \in Chats,
             Answer(d, a, c)
      PROVE  TypeOK'
  <2>1. /\ Hash(d) \in Seq(Messages)
        /\ Expanded(d) \in Seq(Messages)
        /\ Sent(d) \in Seq(Messages)
    BY <1>3, RequestShape DEF Answer, Sending, Idle
  <2>2. <<a>> \in Seq(Messages)
    BY DEF Messages
  <2>3. content[c] \o Sent(d) \o <<a>> \in Seq(Messages)
    BY <2>1, <2>2, ConcatProperties DEF TypeOK
  <2>4. Expanded(d) \o <<a>> \in Seq(Messages)
    BY <2>1, <2>2, ConcatProperties
  <2>5. /\ mapping' \in SUBSET ((Seq(Messages) \ {<<>>}) \X Chats)
        /\ \A m, n \in mapping' : m[1] = n[1] => m = n
    <3>1. mapping' = Mapped({Hash(d)}, c)
      BY <1>3 DEF Answer, Hash
    <3>2. {Hash(d)} \in SUBSET Seq(Messages)
      BY <2>1
    <3>. QED
      BY <3>1, <3>2, SaveKeepsTypes DEF TypeOK
  <2>6. /\ answer' = [answer EXCEPT ![d] = a]
        /\ target' = [target EXCEPT ![d] = c]
        /\ content' = [content EXCEPT ![c] = content[c] \o Sent(d) \o <<a>>]
        /\ latest' = [latest EXCEPT ![c] = Expanded(d) \o <<a>>]
        /\ hashes' = [hashes EXCEPT ![c] = hashes[c] \cup {Hash(d)}]
        /\ forked' \in {forked, forked \cup {c}}
        /\ UNCHANGED <<transcript, turn>>
    BY <1>3 DEF Answer, Hash
  <2>. QED
    BY <2>1, <2>3, <2>4, <2>5, <2>6 DEF TypeOK
<1>4. ASSUME NEW d \in Dialogues, NEW b \in Answers, Serving(d), Deliver(d, b),
             forked' \in {forked, forked \cup {target[d]}}
      PROVE  TypeOK'
  <2>1. target[d] \in Chats
    BY <1>4 DEF Phases
  <2>2. /\ turn[d] \in Seq(Messages)
        /\ Hash(d) \in Seq(Messages)
        /\ Expanded(d) \in Seq(Messages)
    <3>1. turn[d] # <<>>
      BY <1>4 DEF Phases, Serving, Idle
    <3>. QED
      BY <3>1, RequestShape, TurnShape DEF Idle
  <2>3. <<b>> \in Seq(Messages)
    BY DEF Messages
  <2>4. transcript[d] \o turn[d] \o <<b>> \in Seq(Messages)
    BY <2>2, <2>3, ConcatProperties DEF TypeOK
  <2>5. ContinuationHash(d, b) \in Seq(Messages)
    BY <2>2, <2>3, ConcatProperties DEF ContinuationHash
  <2>6. /\ mapping' \in SUBSET ((Seq(Messages) \ {<<>>}) \X Chats)
        /\ \A m, n \in mapping' : m[1] = n[1] => m = n
    <3> DEFINE H == {Hash(d), ContinuationHash(d, b)}
    <3>1. mapping' \in {mapping, Mapped(H, target[d])}
      BY <1>4 DEF Deliver, Hash
    <3>2. H \in SUBSET Seq(Messages)
      BY <2>2, <2>5
    <3> HIDE DEF H
    <3>3. /\ Mapped(H, target[d]) \in SUBSET ((Seq(Messages) \ {<<>>}) \X Chats)
          /\ \A m, n \in Mapped(H, target[d]) : m[1] = n[1] => m = n
      BY <2>1, <3>2, SaveKeepsTypes DEF TypeOK
    <3>. QED
      BY <3>1, <3>3 DEF TypeOK
  <2>. QED
    BY <1>4, <2>1, <2>4, <2>6 DEF Deliver, Done, TypeOK
<1>5. ASSUME NEW d \in Dialogues, Break(d)
      PROVE  TypeOK'
  <2>1. content' \in [Chats -> Seq(Messages)] /\ forked' \in SUBSET Chats
    <3>1. CASE Sending(d) /\ LeavesBehind(d)
      BY <3>1, LeftBehindType
    <3>2. CASE UNCHANGED <<content, forked>>
      BY <3>2 DEF TypeOK
    <3>. QED
      BY <1>5, <3>1, <3>2 DEF Break
  <2>2. mapping' \subseteq mapping
    BY <1>5 DEF Break, WithoutAliases
  <2>. QED
    BY <1>5, <2>1, <2>2 DEF Break, Done, TypeOK
<1>6. ASSUME NEW d \in Dialogues, Edit(d)
      PROVE  TypeOK'
  <2>1. PICK n \in 0..(Len(transcript[d]) - 1) :
              transcript' = [transcript EXCEPT ![d] = SubSeq(transcript[d], 1, n)]
    BY <1>6 DEF Edit
  <2>2. SubSeq(transcript[d], 1, n) \in Seq(Messages)
    <3>1. transcript[d] \in Seq(Messages) /\ Len(transcript[d]) \in Nat
      BY LenProperties DEF TypeOK
    <3>2. \A i \in 1..n : transcript[d][i] \in Messages
      BY <3>1, ElementOfSeq
    <3>. QED
      BY <3>1, <3>2, SubSeqProperties
  <2>. QED
    BY <1>6, <2>1, <2>2 DEF Edit, TypeOK
<1>7. CASE Lose
  BY <1>7 DEF Lose, TypeOK
<1>8. CASE UNCHANGED vars
  BY <1>8 DEF vars, TypeOK
<1>9. ASSUME NEW d \in Dialogues, Finish(d)
      PROVE  TypeOK'
  BY <1>4, <1>9 DEF Finish, Serving, TypeOK
<1>10. ASSUME NEW d \in Dialogues, NEW b \in Cut, CutShort(d, b)
      PROVE  TypeOK'
  BY <1>4, <1>10, ContinuityAssumption DEF CutShort
<1>. QED
  BY <1>1, <1>2, <1>3, <1>5, <1>6, <1>7, <1>8, <1>9, <1>10 DEF Next

\* Idle dialogues have no chat, served ones have: no action breaks it.
LEMMA PhasesStep == TypeOK /\ Phases /\ [Next]_vars => Phases'
<1>. SUFFICES ASSUME TypeOK, Phases, [Next]_vars
              PROVE  Phases'
  OBVIOUS
<1>1. ASSUME NEW d \in Dialogues, NEW t \in Turns, Ask(d, t)
      PROVE  Phases'
  <2>1. t # <<>>
    BY TurnShape
  <2>. QED
    BY <1>1, <2>1 DEF Ask, TypeOK, Phases, Idle, Serving
<1>2. ASSUME NEW d \in Dialogues, Fail(d)
      PROVE  Phases'
  BY <1>2 DEF Fail, TypeOK, Phases, Idle, Sending, Serving
<1>3. ASSUME NEW d \in Dialogues, NEW a \in Answers, NEW c \in Chats,
             Answer(d, a, c)
      PROVE  Phases'
  BY <1>3 DEF Answer, TypeOK, Phases, Idle, Sending, Serving
<1>4. ASSUME NEW d \in Dialogues, Done(d)
      PROVE  Phases'
  BY <1>4 DEF Done, TypeOK, Phases, Idle, Serving
<1>5. ASSUME NEW d \in Dialogues, Edit(d)
      PROVE  Phases'
  BY <1>5 DEF Edit, TypeOK, Phases, Idle, Serving
<1>6. CASE Lose \/ UNCHANGED vars
  BY <1>6 DEF Lose, vars, Phases, Idle, Serving
<1>7. ASSUME NEW d \in Dialogues,
             Finish(d) \/ Break(d) \/ \E b \in Cut : CutShort(d, b)
      PROVE  Done(d)
  BY <1>7 DEF Finish, Break, CutShort, Deliver
<1>. QED
  BY <1>1, <1>2, <1>3, <1>4, <1>5, <1>6, <1>7 DEF Next
----------------------------------------------------------------------------
(* What is known of the chats survives every step. *)

\* The steps that send nothing into c: it is as it was.
Quiet(c) ==
    content'[c] = content[c] /\ latest'[c] = latest[c] /\ hashes'[c] = hashes[c]

\* What a failed request leaves behind is in a chat that counts as forked.
LEMMA Untouched ==
    ASSUME TypeOK, NEW d \in Dialogues, LeavesBehind(d),
           UNCHANGED <<latest, hashes>>, NEW c \in Chats \ forked'
    PROVE  Quiet(c) /\ c \notin forked
BY DEF LeavesBehind, Quiet, TypeOK

LEMMA QuietKeeps ==
    ASSUME IInv, NEW c \in Chats \ forked, Quiet(c)
    PROVE  /\ Known(c)
           /\ content'[c] = latest'[c]
           /\ EndsInAnswer(c)'
           /\ HashesAreHistory(c)'
           /\ content'[c] = content[c] /\ hashes'[c] = hashes[c]
BY DEF IInv, Quiet, Known, EndsInAnswer, HashesAreHistory

LEMMA AskKeeps ==
    ASSUME IInv, NEW d \in Dialogues, NEW t \in Turns, Ask(d, t),
           NEW c \in Chats \ forked'
    PROVE  Known(c)'
<1>1. /\ Known(c)
      /\ content'[c] = latest'[c] /\ EndsInAnswer(c)' /\ HashesAreHistory(c)'
      /\ content'[c] = content[c] /\ hashes'[c] = hashes[c]
  BY QuietKeeps DEF Ask, Quiet
<1>2. /\ mapping' = mapping /\ transcript' = transcript /\ answer' = answer
      /\ turn' = [turn EXCEPT ![d] = t]
      /\ Idle(d)
  BY DEF Ask
<1>3. MappingsVouched(c)'
  BY <1>1, <1>2 DEF Known, MappingsVouched, Vouched
<1>4. SendersVouched(c)'
  <2>1. ASSUME NEW e \in Dialogues, Sending(e)', target'[e] = c
        PROVE  (Hash(e) # <<>> /\ Vouched(Hash(e), c))'
    <3>1. CASE e # d
      <4>1. Sending(e) /\ target[e] = c /\ Hash(e)' = Hash(e)
        BY <1>2, <2>1, <3>1 DEF Ask, Sending, TypeOK, IInv, Hash, ContextHash
      <4>. QED
        BY <1>1, <4>1 DEF Known, SendersVouched, Vouched
    <3>2. CASE e = d
      <4>1. Hash(d)' = ContextHash(d, t)
        BY <1>2 DEF Hash, ContextHash, TypeOK, IInv
      <4>2. target[d] = NoChat
        BY <1>2 DEF IInv, Phases
      <4>3. PICK m \in mapping : m[1] = ContextHash(d, t) /\ m[2] = c
        BY <2>1, <3>2, <4>2 DEF Ask, TypeOK, IInv
      <4>4. m[1] # <<>>
        BY <4>3 DEF IInv, TypeOK
      <4>. QED
        BY <1>1, <3>2, <4>1, <4>3, <4>4 DEF Known, MappingsVouched, Vouched
    <3>. QED
      BY <3>1, <3>2
  <2>. QED
    BY <2>1 DEF SendersVouched
<1>5. ServersVouched(c)'
  <2>1. ASSUME NEW e \in Dialogues, Serving(e)', target'[e] = c
        PROVE  (Hash(e) \in hashes[c] /\ Vouched(NextHash(e), c))'
    <3>1. e # d
      BY <1>2, <2>1 DEF IInv, Phases, Serving
    <3>2. /\ Serving(e) /\ target[e] = c /\ Hash(e)' = Hash(e)
          /\ NextHash(e)' = NextHash(e)
      BY <1>2, <2>1, <3>1
      DEF Ask, Serving, TypeOK, IInv, Hash, ContextHash, NextHash, ContinuationHash, Expanded
    <3>. QED
      BY <1>1, <3>2 DEF Known, ServersVouched, Vouched
  <2>. QED
    BY <2>1 DEF ServersVouched
<1>. QED
  BY <1>1, <1>3, <1>4, <1>5 DEF Known

\* The dialogue d gives its chat up, the others keep theirs, and what is
\* mapped now was mapped before, or is vouched for.
LEMMA LeavingKeeps ==
    ASSUME IInv, NEW d \in Dialogues, NEW c \in Chats \ forked, Quiet(c),
           target' = [target EXCEPT ![d] = NoChat],
           \A e \in Dialogues \ {d} :
              /\ transcript'[e] = transcript[e] /\ turn'[e] = turn[e]
              /\ answer'[e] = answer[e],
           \A m \in mapping' : m \in mapping \/ (m[2] = c => Vouched(m[1], c))
    PROVE  Known(c)'
<1>1. /\ Known(c)
      /\ content'[c] = latest'[c] /\ EndsInAnswer(c)' /\ HashesAreHistory(c)'
      /\ content'[c] = content[c] /\ hashes'[c] = hashes[c]
  BY QuietKeeps
<1>2. MappingsVouched(c)'
  BY <1>1 DEF Known, MappingsVouched, Vouched
<1>3. ASSUME NEW e \in Dialogues, target'[e] = c
      PROVE  /\ e # d /\ target[e] = c
             /\ Hash(e)' = Hash(e) /\ NextHash(e)' = NextHash(e)
             /\ Sending(e)' = Sending(e) /\ Serving(e)' = Serving(e)
  <2>1. e # d /\ target[e] = c
    BY <1>3, NoChat \notin Chats DEF IInv, TypeOK
  <2>2. /\ transcript'[e] = transcript[e] /\ turn'[e] = turn[e]
        /\ answer'[e] = answer[e]
    BY <2>1
  <2>. QED
    BY <2>1, <2>2
    DEF Hash, ContextHash, NextHash, ContinuationHash, Expanded, Sending, Serving
<1>4. SendersVouched(c)'
  BY <1>1, <1>3 DEF Known, SendersVouched, Vouched
<1>5. ServersVouched(c)'
  BY <1>1, <1>3 DEF Known, ServersVouched, Vouched
<1>. QED
  BY <1>1, <1>2, <1>4, <1>5 DEF Known

LEMMA FinishKeeps ==
    ASSUME IInv, NEW d \in Dialogues, Finish(d), NEW c \in Chats \ forked'
    PROVE  Known(c)'
<1>1. /\ Quiet(c) /\ c \in Chats \ forked
      /\ target' = [target EXCEPT ![d] = NoChat]
      /\ \A e \in Dialogues \ {d} :
            /\ transcript'[e] = transcript[e] /\ turn'[e] = turn[e]
            /\ answer'[e] = answer[e]
  BY DEF Finish, Deliver, Done, Quiet, IInv, TypeOK
<1>2. Known(c)
  BY <1>1, QuietKeeps
<1>3. ASSUME NEW m \in mapping', m \notin mapping, m[2] = c
      PROVE  Vouched(m[1], c)
  <2>1. m[1] \in {Hash(d), NextHash(d)} /\ m[2] = target[d]
    BY <1>3 DEF Finish, Deliver, Mapped, Hash, NextHash
  <2>. QED
    BY <1>2, <1>3, <2>1 DEF Finish, Known, ServersVouched, Vouched
<1>. QED
  BY <1>1, <1>3, LeavingKeeps

\* An answer that is cut short takes its own chat out, and maps no other.
LEMMA CutShortKeeps ==
    ASSUME IInv, NEW d \in Dialogues, NEW b, CutShort(d, b),
           NEW c \in Chats \ forked'
    PROVE  Known(c)'
<1>1. /\ Quiet(c) /\ c \in Chats \ forked /\ c # target[d]
      /\ target' = [target EXCEPT ![d] = NoChat]
      /\ \A e \in Dialogues \ {d} :
            /\ transcript'[e] = transcript[e] /\ turn'[e] = turn[e]
            /\ answer'[e] = answer[e]
  BY DEF CutShort, Deliver, Done, Quiet, IInv, TypeOK
<1>2. \A m \in mapping' : m \in mapping \/ m[2] # c
  BY <1>1 DEF CutShort, Deliver, Mapped
<1>. QED
  BY <1>1, <1>2, LeavingKeeps

----------------------------------------------------------------------------
(* The step that sends: a request reaches the chat c. *)

\* Into a chat that was never sent one hash twice, what is sent makes it the
\* transcript of this request.
LEMMA AnswerAgrees ==
    ASSUME IInv, NEW d \in Dialogues, NEW a \in Answers, NEW c \in Chats,
           Answer(d, a, c), c \notin forked'
    PROVE  /\ c \notin forked
           /\ Hash(d) \notin hashes[c]
           /\ content'[c] = Expanded(d) \o <<a>>
           /\ content[c] = <<>> => hashes[c] = {}
           /\ content[c] # <<>> => Hash(d) = content[c]
<1>1. /\ ~Idle(d) /\ Sending(d)
      /\ c = target[d] \/ (target[d] = NoChat /\ content[c] = <<>>)
      /\ content' = [content EXCEPT ![c] = content[c] \o Sent(d) \o <<a>>]
      /\ forked' = IF Hash(d) \in hashes[c] THEN forked \cup {c} ELSE forked
  BY DEF Answer, Sending, Idle, Hash
<1>2. c \notin forked /\ Hash(d) \notin hashes[c]
  BY <1>1
<1>3. Known(c) /\ TypeOK
  BY <1>2 DEF IInv
<1>4. content'[c] = content[c] \o Sent(d) \o <<a>>
  BY <1>1, <1>3 DEF TypeOK
<1>5. content[c] = <<>> => hashes[c] = {}
  BY <1>3 DEF Known, HashesAreHistory
<1>6. CASE target[d] = NoChat /\ content[c] = <<>>
  <2>1. Sent(d) = Expanded(d) /\ Expanded(d) \in Seq(Messages)
    BY <1>1, <1>3, <1>6, RequestShape DEF Sent
  <2>2. content'[c] = Expanded(d) \o <<a>>
    BY <1>4, <1>6, <2>1, ConcatEmptySeq
  <2>. QED
    BY <1>2, <1>5, <1>6, <2>2
<1>7. CASE c = target[d]
  <2>1. Hash(d) # <<>> /\ Hash(d) = content[c]
    BY <1>1, <1>2, <1>3, <1>7 DEF Known, SendersVouched, Vouched
  <2>2. Last(Hash(d)) \in Answers
    BY <1>3, <2>1 DEF Known, EndsInAnswer
  <2>3. Expanded(d) = Hash(d) \o Incremental(turn[d])
    BY <1>1, <1>3, <2>2, RequestShape
  <2>4. Sent(d) = Incremental(turn[d])
    BY <1>7, NoChat \notin Chats DEF Sent
  <2>. QED
    BY <1>2, <1>4, <1>5, <2>1, <2>3, <2>4
<1>. QED
  BY <1>1, <1>6, <1>7

LEMMA AnswerKeeps ==
    ASSUME IInv, NEW d \in Dialogues, NEW a \in Answers, NEW x \in Chats,
           Answer(d, a, x), NEW c \in Chats \ forked'
    PROVE  Known(c)'
<1>1. /\ TypeOK /\ Phases /\ ~Idle(d) /\ Sending(d)
      /\ x = target[d] \/ (target[d] = NoChat /\ content[x] = <<>>)
      /\ answer' = [answer EXCEPT ![d] = a]
      /\ target' = [target EXCEPT ![d] = x]
      /\ content' = [content EXCEPT ![x] = content[x] \o Sent(d) \o <<a>>]
      /\ mapping' = Mapped({Hash(d)}, x)
      /\ latest' = [latest EXCEPT ![x] = Expanded(d) \o <<a>>]
      /\ hashes' = [hashes EXCEPT ![x] = hashes[x] \cup {Hash(d)}]
      /\ forked' = IF Hash(d) \in hashes[x] THEN forked \cup {x} ELSE forked
      /\ UNCHANGED <<transcript, turn>>
  BY DEF Answer, Sending, Idle, Hash, IInv
<1>2. Known(c)
  BY <1>1 DEF IInv
<1>3. Hash(d)' = Hash(d) /\ Expanded(d)' = Expanded(d)
  BY <1>1 DEF Hash, ContextHash, Expanded
<1>4. ASSUME NEW e \in Dialogues \ {d}
      PROVE  /\ target'[e] = target[e]
             /\ Hash(e)' = Hash(e) /\ NextHash(e)' = NextHash(e)
             /\ Sending(e)' = Sending(e) /\ Serving(e)' = Serving(e)
  BY <1>1, <1>4
  DEF Hash, ContextHash, NextHash, ContinuationHash, Expanded, Sending, Serving, TypeOK
<1>5. answer'[d] = a /\ target'[d] = x /\ ~Sending(d)'
  BY <1>1, a # NoAnswer DEF TypeOK, Sending
<1>6. \A m \in mapping' : m \in mapping \/ (m[1] = Hash(d) /\ m[2] = x)
  BY <1>1 DEF Mapped
<1>7. CASE c # x
  <2>1. content'[c] = content[c] /\ latest'[c] = latest[c] /\ hashes'[c] = hashes[c]
    BY <1>1, <1>7 DEF TypeOK
  <2>2. content'[c] = latest'[c] /\ EndsInAnswer(c)' /\ HashesAreHistory(c)'
    BY <1>2, <2>1 DEF Known, EndsInAnswer, HashesAreHistory
  <2>3. MappingsVouched(c)'
    BY <1>2, <1>6, <1>7, <2>1 DEF Known, MappingsVouched, Vouched
  <2>4. SendersVouched(c)'
    BY <1>2, <1>4, <1>5, <2>1 DEF Known, SendersVouched, Vouched
  <2>5. ServersVouched(c)'
    BY <1>2, <1>4, <1>5, <1>7, <2>1 DEF Known, ServersVouched, Vouched
  <2>. QED
    BY <2>2, <2>3, <2>4, <2>5 DEF Known
<1>8. CASE c = x
  <2>1. /\ content'[c] = Expanded(d) \o <<a>>
        /\ content[c] = <<>> => hashes[c] = {}
        /\ content[c] # <<>> => Hash(d) = content[c]
    BY <1>1, <1>8, AnswerAgrees
  <2>2. latest'[c] = content'[c] /\ hashes'[c] = hashes[c] \cup {Hash(d)}
    BY <1>1, <1>8, <2>1 DEF TypeOK
  <2>3. /\ Hash(d) \in Seq(Messages) /\ Expanded(d) \in Seq(Messages)
        /\ \E w \in Messages : Expanded(d) = Hash(d) \o <<w>>
    BY <1>1, RequestShape
  <2>4. a \in Messages /\ <<a>> \in Seq(Messages)
    BY DEF Messages
  <2>5. NextHash(d)' = content'[c]
    BY <1>3, <1>5, <2>1 DEF NextHash, ContinuationHash
  <2>6. EndsInAnswer(c)'
    <3>1. /\ Len(content'[c]) = Len(Expanded(d)) + 1
          /\ Len(Expanded(d)) \in Nat
          /\ content'[c][Len(Expanded(d)) + 1] = a
      BY <2>1, <2>3, <2>4, ConcatProperties, LenProperties, Len(<<a>>) = 1, <<a>>[1] = a
    <3>. QED
      BY <3>1 DEF EndsInAnswer, Last
  <2>7. HashesAreHistory(c)'
    <3>1. Len(content'[c]) # 0 /\ content'[c] # <<>>
      BY <2>1, <2>3, <2>4, ConcatProperties, LenProperties, Len(<<a>>) = 1,
         Len(<<>>) = 0
    <3>2. IsPrefix(Hash(d), content'[c])
      <4>1. PICK w \in Messages : Expanded(d) = Hash(d) \o <<w>>
        BY <2>3
      <4>2. IsPrefix(Hash(d), Expanded(d))
        BY <2>3, <4>1, <<w>> \in Seq(Messages), MessagePrefixes
      <4>. QED
        <5>1. IsPrefix(Hash(d), Expanded(d) \o <<a>>)
          BY <2>3, <2>4, <4>2, MessagePrefixes, Zenon
        <5>. QED
          BY <2>1, <5>1
    <3>3. ASSUME NEW h \in hashes[c]
          PROVE  IsPrefix(h, content'[c])
      <4>1. content[c] # <<>> /\ IsPrefix(h, content[c])
        BY <1>2 DEF Known, HashesAreHistory
      <4>2. content[c] = Hash(d)
        BY <2>1, <4>1
      <4>3. h \in Seq(Messages)
        BY <1>1 DEF TypeOK
      <4>4. PICK w \in Messages : Expanded(d) = Hash(d) \o <<w>>
        BY <2>3
      <4>5. <<w>> \in Seq(Messages)
        OBVIOUS
      <4>6. IsPrefix(h, Hash(d))
        BY <4>1, <4>2
      <4>7. IsPrefix(h, Expanded(d))
        BY <2>3, <4>3, <4>4, <4>5, <4>6, MessagePrefixes
      <4>. QED
        BY <2>1, <2>3, <2>4, <4>3, <4>7, MessagePrefixes, Zenon
    <3>. QED
      BY <2>2, <3>1, <3>2, <3>3 DEF HashesAreHistory
  <2>8. ASSUME NEW h, Vouched(h, c), h # <<>>
        PROVE  h \in hashes'[c]
    BY <2>1, <2>2, <2>8 DEF Vouched
  <2>9. MappingsVouched(c)'
    <3>1. ASSUME NEW m \in mapping', m[2] = c
          PROVE  m[1] \in hashes'[c]
      <4>1. CASE m \in mapping
        BY <1>1, <1>2, <2>8, <3>1, <4>1 DEF Known, MappingsVouched, TypeOK
      <4>2. CASE m[1] = Hash(d)
        BY <2>2, <4>2
      <4>. QED
        BY <1>6, <4>1, <4>2
    <3>. QED
      BY <3>1 DEF MappingsVouched, Vouched
  <2>10. SendersVouched(c)'
    <3>1. ASSUME NEW e \in Dialogues, Sending(e)', target'[e] = c
          PROVE  Hash(e)' # <<>> /\ Hash(e)' \in hashes'[c]
      BY <1>2, <1>4, <1>5, <2>8, <3>1 DEF Known, SendersVouched
    <3>. QED
      BY <3>1 DEF SendersVouched, Vouched
  <2>11. ServersVouched(c)'
    <3>1. ASSUME NEW e \in Dialogues, Serving(e)', target'[e] = c, e # d
          PROVE  Hash(e)' \in hashes'[c] /\ NextHash(e)' \in hashes'[c]
      <4>1. /\ Hash(e) \in hashes[c]
            /\ Vouched(NextHash(e), c)
        BY <1>2, <1>4, <3>1 DEF Known, ServersVouched
      <4>2. content[c] # <<>>
        BY <2>1, <4>1
      <4>. QED
        BY <1>4, <2>1, <2>2, <3>1, <4>1, <4>2 DEF Vouched
    <3>2. Hash(d)' \in hashes'[c] /\ NextHash(d)' = content'[c]
      BY <1>3, <2>2, <2>5
    <3>. QED
      BY <3>1, <3>2 DEF ServersVouched, Vouched
  <2>. QED
    BY <2>2, <2>6, <2>7, <2>9, <2>10, <2>11 DEF Known
<1>. QED
  BY <1>7, <1>8

----------------------------------------------------------------------------
(* The theorems. *)

LEMMA InitIInv == Init => IInv
<1>. SUFFICES ASSUME Init
              PROVE  IInv
  OBVIOUS
<1>1. TypeOK
  BY DEF Init, TypeOK
<1>2. Phases
  BY DEF Init, Phases, Idle, Serving
<1>3. ASSUME NEW c \in Chats
      PROVE  Known(c)
  BY DEF Init, Known, EndsInAnswer, MappingsVouched, SendersVouched,
         ServersVouched, HashesAreHistory, Sending, Serving
<1>. QED
  BY <1>1, <1>2, <1>3 DEF IInv

LEMMA StepIInv == IInv /\ [Next]_vars => IInv'
<1>. SUFFICES ASSUME IInv, [Next]_vars
              PROVE  IInv'
  OBVIOUS
<1>1. TypeOK' /\ Phases'
  BY TypeStep, PhasesStep DEF IInv
<1>2. ASSUME NEW c \in Chats \ forked'
      PROVE  Known(c)'
  <2>1. ASSUME NEW d \in Dialogues, NEW t \in Turns, Ask(d, t)
        PROVE  Known(c)'
    BY <2>1, AskKeeps
  <2>2. ASSUME NEW d \in Dialogues, Fail(d)
        PROVE  Known(c)'
    <3>1. Quiet(c) /\ c \notin forked
      BY <2>2, Untouched DEF Fail, IInv
    <3>2. /\ target' = [target EXCEPT ![d] = NoChat]
          /\ UNCHANGED <<transcript, turn, answer>>
          /\ mapping' \subseteq mapping
      BY <2>2 DEF Fail, WithoutAliases
    <3>. QED
      BY <3>1, <3>2, LeavingKeeps
  <2>3. ASSUME NEW d \in Dialogues, NEW a \in Answers, NEW x \in Chats,
               Answer(d, a, x)
        PROVE  Known(c)'
    BY <2>3, AnswerKeeps
  <2>4. ASSUME NEW d \in Dialogues, Finish(d)
        PROVE  Known(c)'
    BY <2>4, FinishKeeps
  <2>5. ASSUME NEW d \in Dialogues, Break(d)
        PROVE  Known(c)'
    <3>1. \A e \in Dialogues \ {d} :
             /\ transcript'[e] = transcript[e] /\ turn'[e] = turn[e]
             /\ answer'[e] = answer[e]
      BY <2>5 DEF Break, Done, IInv, TypeOK
    <3>2. Quiet(c) /\ c \notin forked
      <4>1. CASE LeavesBehind(d)
        BY <2>5, <4>1, Untouched DEF Break, Done, IInv
      <4>2. CASE UNCHANGED <<content, forked>>
        BY <2>5, <4>2 DEF Break, Done, Quiet
      <4>. QED
        BY <2>5, <4>1, <4>2 DEF Break
    <3>3. target' = [target EXCEPT ![d] = NoChat] /\ mapping' \subseteq mapping
      BY <2>5 DEF Break, Done, WithoutAliases
    <3>. QED
      BY <3>1, <3>2, <3>3, LeavingKeeps
  <2>6. ASSUME NEW d \in Dialogues, Edit(d)
        PROVE  Known(c)'
    <3>1. /\ Quiet(c) /\ forked' = forked
          /\ target' = [target EXCEPT ![d] = NoChat] /\ mapping' = mapping
      BY <2>6 DEF Edit, Quiet, IInv, Phases, TypeOK
    <3>2. \A e \in Dialogues \ {d} :
             /\ transcript'[e] = transcript[e] /\ turn'[e] = turn[e]
             /\ answer'[e] = answer[e]
      BY <2>6 DEF Edit, IInv, TypeOK
    <3>. QED
      BY <3>1, <3>2, LeavingKeeps
  <2>7. CASE Lose \/ UNCHANGED vars
    <3>1. /\ UNCHANGED <<transcript, turn, target, answer, content, latest, hashes, forked>>
          /\ mapping' \subseteq mapping
      BY <2>7 DEF Lose, vars
    <3>2. Known(c)
      BY <3>1 DEF IInv
    <3>3. \A e \in Dialogues :
             /\ Hash(e)' = Hash(e) /\ NextHash(e)' = NextHash(e)
             /\ Sending(e)' = Sending(e) /\ Serving(e)' = Serving(e)
      BY <3>1 DEF Hash, ContextHash, NextHash, ContinuationHash, Expanded, Sending, Serving
    <3>. QED
      BY <3>1, <3>2, <3>3
      DEF Known, EndsInAnswer, MappingsVouched, SendersVouched, ServersVouched,
          HashesAreHistory, Vouched
  <2>8. ASSUME NEW d \in Dialogues, NEW b \in Cut, CutShort(d, b)
        PROVE  Known(c)'
    BY <2>8, CutShortKeeps
  <2>. QED
    BY <2>1, <2>2, <2>3, <2>4, <2>5, <2>6, <2>7, <2>8 DEF Next
<1>. QED
  BY <1>1, <1>2 DEF IInv

\* The inductive invariant holds in every behaviour.
THEOREM Invariance == Spec => []IInv
BY InitIInv, StepIInv, PTL DEF Spec

\* Every variable keeps its type, one hash never leads to two chats, and the
\* empty hash to none.
THEOREM TypeCorrect == Spec => []TypeOK
<1>1. IInv => TypeOK
  BY DEF IInv
<1>. QED
  BY <1>1, Invariance, PTL

\* A chat that was never sent one context hash twice, whose answers were
\* delivered whole, and that kept no message of a request that failed, holds
\* exactly the transcript its last answer was given to, whatever failed over,
\* broke off, expired or overlapped, though only the tails were sent.
THEOREM LinearAgree == Spec => []LinearChatsAgree
<1>1. IInv => LinearChatsAgree
  BY DEF IInv, Known, LinearChatsAgree
<1>. QED
  BY <1>1, Invariance, PTL

\* A mapping leads to a chat that begins with the messages of its hash.
THEOREM MappingsLeadToHistory == Spec => []MappingIsHistory
<1>1. ASSUME IInv, NEW m \in mapping, m[2] \notin forked
      PROVE  IsPrefix(m[1], content[m[2]])
  <2>1. m[1] \in Seq(Messages) /\ m[2] \in Chats
    BY <1>1 DEF IInv, TypeOK
  <2>2. Known(m[2])
    BY <1>1, <2>1 DEF IInv
  <2>3. CASE m[1] \in hashes[m[2]]
    BY <2>2, <2>3 DEF Known, HashesAreHistory
  <2>4. CASE m[1] = content[m[2]]
    BY <2>1, <2>4 DEF IsPrefix
  <2>. QED
    BY <2>2, <2>3, <2>4 DEF Known, MappingsVouched, Vouched
<1>2. IInv => MappingIsHistory
  BY <1>1 DEF MappingIsHistory
<1>. QED
  BY <1>2, Invariance, PTL
=============================================================================
