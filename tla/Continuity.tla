----------------------------- MODULE Continuity -----------------------------
(***************************************************************************)
(* How a dialogue finds its upstream chat again: the context hashes of     *)
(* internal/openai (computeContextHash, computeContinuationContextHash,    *)
(* selectIncrementalTailMessages) and the mapping from hash to chat.       *)
(*                                                                         *)
(* A client resends its whole transcript with every request.  The proxy    *)
(* looks up the hash of all messages but the last; when it is mapped, only *)
(* the tail of the transcript is sent, and the chat is taken to hold the   *)
(* rest.  ChatExecution models how the request then finds an account, and  *)
(* what the mapping is worth across accounts; this module models what the  *)
(* chats hold.                                                             *)
(*                                                                         *)
(* Abstractions.  A message is a model value, with its role: what users    *)
(* and tools say is in Words, what the model says in Answers.  SHA-256     *)
(* never collides, so a context hash is the sequence it is computed from.  *)
(* Model, chat type and tools are fixed.  The account is always available, *)
(* or the mapped chat fails (see Fail).                                    *)
(***************************************************************************)
EXTENDS Naturals, SequencesExt

CONSTANTS
    Dialogues,  \* the dialogues of the clients
    Words,      \* messages of users and tools
    Tools,      \* those of them with the role "tool"
    Answers,    \* messages of the assistant
    Cut,        \* those of them that are what is left of a broken stream
    System,     \* system messages
    Preamble,   \* Preamble[d]: the system message of d (its own, and the tool
                \* and control prompts), or <<>>
    Chats,      \* bound: the chats the upstream service will create
    NoChat,     \* no chat
    NoAnswer,   \* no answer
    MaxLength,  \* bound: messages of a transcript,
    MaxContent  \* and of a chat

Messages == Words \cup Answers \cup System

ASSUME ContinuityAssumption ==
    /\ Tools \subseteq Words
    /\ Cut \subseteq Answers
    /\ (Words \cup System) \cap Answers = {}
    /\ Preamble \in [Dialogues -> {<<>>} \cup {<<s>> : s \in System}]
    /\ NoChat \notin Chats
    /\ NoAnswer \notin Answers

VARIABLES
    transcript,  \* what the client of each dialogue will resend
    turn,        \* the messages its running request adds, <<>> without one
    target,      \* the chat of the request, NoChat if it has to open one
    answer,      \* the answer being streamed
    mapping,     \* the mappings <<context hash, chat>>
    content,     \* upstream: what each chat holds
    latest,      \* history: the transcript whose answer each chat gave last
    hashes,      \* history: the hashes of the requests sent into each chat
    forked       \* history: the chats that were sent one hash twice, of whose
                 \* answer a client got only the beginning, or that kept the
                 \* messages of a request that failed

vars == <<transcript, turn, target, answer, mapping, content, latest, hashes,
          forked>>

----------------------------------------------------------------------------
Init ==
    /\ transcript = [d \in Dialogues |-> <<>>]
    /\ turn = [d \in Dialogues |-> <<>>]
    /\ target = [d \in Dialogues |-> NoChat]
    /\ answer = [d \in Dialogues |-> NoAnswer]
    /\ mapping = {}
    /\ content = [c \in Chats |-> <<>>]
    /\ latest = [c \in Chats |-> <<>>]
    /\ hashes = [c \in Chats |-> {}]
    /\ forked = {}

\* One or two messages: a question, tool results, a tool result and a question,
\* two questions.
Turns == {<<v>> : v \in Words} \cup {<<v, w>> : v, w \in Words}

Idle(d) == turn[d] = <<>>
Sending(d) == turn[d] # <<>> /\ answer[d] = NoAnswer
Serving(d) == answer[d] # NoAnswer

Expanded(d) == Preamble[d] \o transcript[d] \o turn[d]

\* computeContextHash of the request that adds t to what d has: all messages
\* but the last, and nothing ("") if there is only one.
ContextHash(d, t) == Preamble[d] \o transcript[d] \o Front(t)

\* computeContinuationContextHash: the transcript with the answer.  The next
\* request finds it by its prefix.
WithoutAnswer(d, b) == Expanded(d)
ContinuationHash(d, b) == Expanded(d) \o <<b>>

\* selectIncrementalTailMessages: the last message and the tool results in
\* front of it.
Incremental(t) == IF Len(t) = 2 /\ t[1] \notin Tools THEN <<t[2]>> ELSE t

\* sessions.Save: the mappings of H now lead to c; "" is no hash.
MappedEvenEmpty(H, c) == {m \in mapping : m[1] \notin H} \cup {<<h, c>> : h \in H}
Mapped(H, c) == {m \in mapping : m[1] \notin H} \cup {<<h, c>> : h \in H \ {<<>>}}

\* What goes upstream: everything into a new chat, the tail into a mapped one.
OnlyTail(d) == Incremental(turn[d])
Sent(d) == IF target[d] = NoChat THEN Expanded(d) ELSE Incremental(turn[d])

----------------------------------------------------------------------------
\* The client asks; executeChatRequest looks its context hash up.
Ask(d, t) ==
    /\ Idle(d)
    /\ Len(transcript[d]) + Len(t) < MaxLength
    /\ turn' = [turn EXCEPT ![d] = t]
    /\ \/ \E m \in mapping :
             /\ m[1] = ContextHash(d, t)
             /\ target' = [target EXCEPT ![d] = m[2]]
       \/ /\ \A m \in mapping : m[1] # ContextHash(d, t)
          /\ UNCHANGED target
    /\ UNCHANGED <<transcript, answer, mapping, content, latest, hashes, forked>>

\* What a request leaves that fails before its stream begins well: nothing, or
\* the upstream service took the messages, and had an answer or not, before
\* the connection was lost or an error event came.  (A new chat is left without
\* a mapping: nobody names it again, and it is not modelled.)
LeavesBehind(d) ==
    \/ UNCHANGED <<content, forked>>
    \/ \E r \in {<<>>} \cup {<<a>> : a \in Answers \ Cut} :
          /\ target[d] # NoChat
          /\ content' = [content EXCEPT ![target[d]] = @ \o Sent(d) \o r]
          /\ Len(content'[target[d]]) <= MaxContent
          /\ forked' = forked \cup {target[d]}

\* sessions.Delete: the mapping of the request's hash, and those that lead
\* where it leads.
WithoutAliases(h) ==
    {m \in mapping : \A n \in mapping : n[1] = h => n[2] # m[2]}

\* The chat, mapped or new, fails, or the account of the mapped one is not
\* available: the request opens a chat of its own, and an error that names the
\* chat deletes the mappings.
Fail(d) ==
    /\ Sending(d)
    /\ LeavesBehind(d)
    /\ target' = [target EXCEPT ![d] = NoChat]
    /\ mapping' \in {mapping, WithoutAliases(ContextHash(d, turn[d]))}
    /\ UNCHANGED <<transcript, turn, answer, latest, hashes>>

\* The upstream service takes the messages and begins to answer; the request's
\* own hash is mapped to the chat before the answer is read.
Answer(d, a, c) ==
    LET hash == ContextHash(d, turn[d])
    IN  /\ Sending(d)
        /\ c = target[d] \/ (target[d] = NoChat /\ content[c] = <<>>)
        /\ answer' = [answer EXCEPT ![d] = a]
        /\ target' = [target EXCEPT ![d] = c]
        /\ content' = [content EXCEPT ![c] = @ \o Sent(d) \o <<a>>]
        /\ Len(content'[c]) <= MaxContent
        /\ mapping' = Mapped({hash}, c)
        /\ latest' = [latest EXCEPT ![c] = Expanded(d) \o <<a>>]
        /\ hashes' = [hashes EXCEPT ![c] = @ \cup {hash}]
        /\ forked' = IF hash \in hashes[c] THEN forked \cup {c} ELSE forked
        /\ UNCHANGED <<transcript, turn>>

Done(d) ==
    /\ turn' = [turn EXCEPT ![d] = <<>>]
    /\ target' = [target EXCEPT ![d] = NoChat]
    /\ answer' = [answer EXCEPT ![d] = NoAnswer]
    /\ UNCHANGED <<latest, hashes>>

\* The stream is over and b was written to the client.  HandleChatCompletion
\* maps both hashes (CacheExchangeWithAliases), the Anthropic handler neither.
Deliver(d, b) ==
    /\ transcript' = [transcript EXCEPT ![d] = @ \o turn[d] \o <<b>>]
    /\ mapping' \in {mapping,
                     Mapped({ContextHash(d, turn[d]), ContinuationHash(d, b)},
                            target[d])}
    /\ Done(d)
    /\ UNCHANGED content

Finish(d) ==
    /\ Serving(d)
    /\ Deliver(d, answer[d])
    /\ UNCHANGED forked

\* handleStream takes the end of a broken stream for the end of the answer.
CutShort(d, b) ==
    /\ Serving(d)
    /\ Deliver(d, b)
    /\ forked' = forked \cup {target[d]}

\* The request fails, or handleNonStream cannot read the answer: the client
\* has none, whether the chat has one or not, and may ask again.
Break(d) ==
    /\ \/ /\ Sending(d)
          /\ LeavesBehind(d)
          /\ mapping' \in {mapping, WithoutAliases(ContextHash(d, turn[d]))}
       \/ /\ Serving(d)
          /\ UNCHANGED <<content, forked, mapping>>
    /\ Done(d)
    /\ UNCHANGED transcript

\* The client takes messages back: "regenerate", an edited question, an answer
\* that was written when it had left.
Edit(d) ==
    /\ Idle(d)
    /\ \E n \in 0..(Len(transcript[d]) - 1) :
          /\ n > 0 => transcript[d][n] \in Answers
          /\ transcript' = [transcript EXCEPT ![d] = SubSeq(@, 1, n)]
    /\ UNCHANGED <<turn, target, answer, mapping, content, latest, hashes, forked>>

\* A mapping expires, or the store loses it.
Lose ==
    /\ \E m \in mapping : mapping' = mapping \ {m}
    /\ UNCHANGED <<transcript, turn, target, answer, content, latest, hashes,
                   forked>>

Next ==
    \/ \E d \in Dialogues :
          \/ \E t \in Turns : Ask(d, t)
          \/ Fail(d)
          \/ \E a \in Answers \ Cut, c \in Chats : Answer(d, a, c)
          \/ Finish(d)
          \/ \E b \in Cut : CutShort(d, b)
          \/ Break(d)
          \/ Edit(d)
    \/ Lose

Spec == Init /\ [][Next]_vars
----------------------------------------------------------------------------
(* Properties. *)

\* Every variable has its type.
TypeOK ==
    /\ transcript \in [Dialogues -> Seq(Messages)]
    /\ turn \in [Dialogues -> {<<>>} \cup Turns]
    /\ target \in [Dialogues -> Chats \cup {NoChat}]
    /\ answer \in [Dialogues -> Answers \cup {NoAnswer}]
    /\ mapping \in SUBSET ((Seq(Messages) \ {<<>>}) \X Chats)
    /\ \A m, n \in mapping : m[1] = n[1] => m = n
    /\ content \in [Chats -> Seq(Messages)]
    /\ latest \in [Chats -> Seq(Messages)]
    /\ hashes \in [Chats -> SUBSET Seq(Messages)]
    /\ forked \in SUBSET Chats

\* A chat that was never sent one context hash twice, whose answers were
\* delivered whole, and that kept no message of a request that failed, holds
\* exactly the transcript its last answer was given to, though it was told no
\* more than the tails, and requests failed over to other chats, broke off
\* after their answer had begun, and overlapped on the way.
LinearChatsAgree ==
    \A c \in Chats \ forked : content[c] = latest[c]

\* A mapping leads to a chat that begins with the messages of its hash.
MappingIsHistory ==
    \A m \in mapping : m[2] \notin forked => IsPrefix(m[1], content[m[2]])
============================================================================
