---------------------------- MODULE MessageStream ----------------------------
(***************************************************************************)
(* How an answer reaches the client while it is being written:             *)
(* handleStream (OpenAI) and handleAnthropicStream, over the stream parser *)
(* of ToolCalls, and what readCompletedChat makes of the same answer in    *)
(* one piece.                                                              *)
(*                                                                         *)
(* The upstream service sends a delta for every few pieces of the answer,  *)
(* and deltas that are none of it: a thought, a delta without content.     *)
(* The stream may break anywhere.  What is written is a sequence of        *)
(* events.  Token counts and flushing are left out.                        *)
(***************************************************************************)
EXTENDS ToolCalls

CONSTANTS
    Apis,      \* subset of {"openai", "anthropic"}
    Answers,   \* bound: the answers of the model, texts
    Thought,   \* what a delta of the phase "think" says
    Nil        \* the text "<nil>" that fmt.Sprint makes of no content

ASSUME MessageStreamAssumption ==
    /\ Apis \subseteq {"openai", "anthropic"}
    /\ Thought # Nil
    /\ \A t \in Answers : t \in Seq(Range(t))
    /\ \A t \in Answers : {Thought, Nil} \cap Range(t) = {}

VARIABLES
    api,        \* the handler that serves the request
    withTools,  \* the request names tools
    answer,     \* the answer,
    sent,       \* how many of its pieces have been sent,
    odd,        \* and the deltas beside it: subset of {Thought, Nil}
    stream,     \* streamState
    events,     \* what was written to the client
    block,      \* anthropicState: the index of the open text block, 0 if none,
    nextIndex,  \* and the index of the next block, from 1
    ended       \* the handler has returned

vars == <<api, withTools, answer, sent, odd, stream, events, block,
          nextIndex, ended>>

Init ==
    /\ api \in Apis
    /\ withTools \in BOOLEAN
    /\ answer \in Answers
    /\ sent = 0
    /\ odd = {}
    /\ stream = NewStreamState
    /\ events = <<>>
    /\ block = 0
    /\ nextIndex = 1
    /\ ended = FALSE

Event(type, index, what) == [type |-> type, index |-> index, what |-> what]

----------------------------------------------------------------------------
(* OpenAI. *)

AllFirst(calls) == [i \in DOMAIN calls |-> Event("tool_call", 1, <<calls[i]>>)]

\* FormatOpenAIToolCallsWithSchemas numbers the calls of one result.
ToolDeltas(calls) == [i \in DOMAIN calls |-> Event("tool_call", i, <<calls[i]>>)]

ContentDelta(content) ==
    IF content = <<>> THEN <<>> ELSE <<Event("text", 0, content)>>

\* A delta of the answer; without tools nothing is parsed.
OpenAIDelta(chunk) ==
    LET r == IF withTools THEN ProcessStreamChunk(stream, chunk)
             ELSE Result(stream, chunk, <<>>)
        content == IF withTools THEN RemoveMarkup(r.content) ELSE r.content
    IN  /\ stream' = r.state
        /\ events' = events \o ToolDeltas(r.calls) \o ContentDelta(content)
        /\ UNCHANGED <<block, nextIndex>>

OpenAIFinish ==
    LET r == IF withTools THEN FinalizeStream(stream)
             ELSE Result(stream, <<>>, <<>>)
        written == events \o ContentDelta(RemoveMarkup(r.content))
                          \o ToolDeltas(r.calls)
        called == \E i \in DOMAIN written : written[i].type = "tool_call"
    IN  /\ events' = Append(written, Event("finish", 0,
                        IF called THEN <<"tool_calls">> ELSE <<"stop">>))
        /\ UNCHANGED <<stream, block, nextIndex>>

\* A thought is written apart or dropped, as OUTPUT_THINK says; a delta without
\* a role is dropped.
OpenAIOdd(piece) ==
    /\ \/ UNCHANGED events
       \/ /\ piece = Thought
          /\ events' = Append(events, Event("reasoning", 0, <<Thought>>))
    /\ UNCHANGED <<stream, block, nextIndex>>

----------------------------------------------------------------------------
(* Anthropic: the writer w has written w.events, and knows the open block. *)

Writer == [events |-> events, block |-> block, nextIndex |-> nextIndex]

\* ensureAnthropicMessageStart
Started(w) ==
    IF w.events # <<>> THEN w
    ELSE [w EXCEPT !.events = <<Event("message_start", 0, <<>>)>>]

StoppedOnly(w) ==
    IF w.block = 0 THEN w
    ELSE [w EXCEPT !.events = Append(@, Event("block_stop", w.block, <<>>))]

\* closeAnthropicActiveBlock
BlockClosed(w) ==
    IF w.block = 0 THEN w
    ELSE [w EXCEPT !.events = Append(@, Event("block_stop", w.block, <<>>)),
                   !.block = 0]

\* emitAnthropicTextDelta; shouldSkipAnthropicTextChunk drops half a tag, and
\* what comes with it.
WithText(w, content) ==
    IF content = <<>> \/ At(content, 1, Marker) THEN w
    ELSE IF w.block # 0
    THEN [w EXCEPT !.events = Append(@, Event("text", w.block, content))]
    ELSE [events |-> w.events \o <<Event("block_start", w.nextIndex, <<>>),
                                   Event("text", w.nextIndex, content)>>,
          block |-> w.nextIndex,
          nextIndex |-> w.nextIndex + 1]

\* emitAnthropicToolUse: a block of its own for every call.
ToolUse(index, call) ==
    <<Event("block_start", index, <<>>),
      Event("tool_call", index, <<call>>),
      Event("block_stop", index, <<>>)>>

WithCall(w, call) ==
    LET c == BlockClosed(w)
    IN  [events |-> c.events \o ToolUse(c.nextIndex, call),
         block |-> c.block,
         nextIndex |-> c.nextIndex + 1]

WithCalls(w, calls) ==
    LET after[n \in 0..Len(calls)] ==
            IF n = 0 THEN w ELSE WithCall(after[n - 1], calls[n])
    IN  after[Len(calls)]

Written(w) ==
    /\ events' = w.events
    /\ block' = w.block
    /\ nextIndex' = w.nextIndex

\* The phase is not looked at, nor is the role, nor whether tools were named.
AnthropicDelta(chunk) ==
    LET r == ProcessStreamChunk(stream, chunk)
    IN  /\ stream' = r.state
        /\ Written(WithCalls(WithText(Started(Writer), RemoveMarkup(r.content)),
                             r.calls))

AnthropicFinish ==
    LET r == FinalizeStream(stream)
        w == BlockClosed(WithCalls(WithText(Started(Writer),
                                            RemoveMarkup(r.content)), r.calls))
        called == \E i \in DOMAIN w.events : w.events[i].type = "tool_call"
        reason == IF called THEN <<"tool_calls">> ELSE <<"stop">>
    IN  /\ Written([w EXCEPT !.events = @ \o <<Event("finish", 0, reason),
                                               Event("message_stop", 0, <<>>)>>])
        /\ UNCHANGED stream

----------------------------------------------------------------------------
\* A delta with the next n pieces of the answer.
Delta(n) ==
    LET chunk == SubSeq(answer, sent + 1, sent + n)
    IN  /\ ~ended
        /\ sent' = sent + n
        /\ \/ api = "openai" /\ OpenAIDelta(chunk)
           \/ api = "anthropic" /\ AnthropicDelta(chunk)
        /\ UNCHANGED <<api, withTools, answer, odd, ended>>

\* Thoughts come before the answer, a delta without content ends it.
Odd(piece) ==
    /\ ~ended
    /\ piece \notin odd
    /\ piece = Thought => sent = 0 /\ Nil \notin odd
    /\ piece = Nil => sent = Len(answer)
    /\ odd' = odd \cup {piece}
    /\ \/ api = "openai" /\ OpenAIOdd(piece)
       \/ api = "anthropic" /\ AnthropicDelta(<<piece>>)
    /\ UNCHANGED <<api, withTools, answer, sent, ended>>

\* The stream is over, or breaks: the scanner stops.
Finish ==
    /\ ~ended
    /\ ended' = TRUE
    /\ \/ api = "openai" /\ OpenAIFinish
       \/ api = "anthropic" /\ AnthropicFinish
    /\ UNCHANGED <<api, withTools, answer, sent, odd>>

Next ==
    \/ \E n \in 1..(Len(answer) - sent) : Delta(n)
    \/ \E piece \in {Thought, Nil} : Odd(piece)
    \/ Finish

Spec == Init /\ [][Next]_vars
----------------------------------------------------------------------------
(* What readCompletedChat makes of the answer in one piece. *)

WholeText == RemoveMarkup(answer)
WholeCalls == IF withTools THEN ParseCalls(answer) ELSE <<>>

----------------------------------------------------------------------------
(* Properties. *)

\* What the events of a type say, one after the other.
Said(type) ==
    FlattenSeq([i \in DOMAIN events |->
        IF events[i].type = type THEN events[i].what ELSE <<>>])

\* The tool blocks of a text: wrappers, and calls without a wrapper.
ToolBlocks(t) ==
    {i \in firstMarker(t) : t[i] \in Calls =>
        \A o \in 1..i : At(t, o, Open) =>
            \E e \in o..i : t[e] = "</ml_tool_calls>"}

\* The name of a wrapper is written in its tag only, what closes a tag comes
\* after the tag, and a wrapper in which a tag is closed begins with a call and
\* is closed.
Complete(t) ==
    /\ \A i \in DOMAIN t : t[i] = "ml_tool_calls" => i > 1 /\ At(t, i - 1, Open)
    /\ \A i \in DOMAIN t : t[i] = "</ml_tool_call>" => i > 1 /\ t[i - 1] \in Calls
    /\ \A e \in DOMAIN t : t[e] = "</ml_tool_calls>" =>
          \E o \in 1..e : At(t, o, Open) /\ \A j \in o..(e - 1) : t[j] # t[e]
    /\ \A o, i \in DOMAIN t :
          (At(t, o, Open) /\ o < i /\ t[i] \in Closing) =>
              t[o + 3] \in Calls /\ \E e \in i..Len(t) : t[e] = "</ml_tool_calls>"

\* The answer keeps to openai.toolcall.instructions: one complete tool block,
\* if it may use tools; and no delta reaches the client that is none of the
\* answer.
Orderly ==
    /\ Cardinality(ToolBlocks(answer)) <= (IF withTools THEN 1 ELSE 0)
    /\ Complete(answer)
    /\ api = "anthropic" => odd = {}

\* Every variable has its type.
TypeOK ==
    /\ api \in Apis /\ withTools \in BOOLEAN
    /\ answer \in Answers
    /\ sent \in 0..Len(answer)
    /\ odd \subseteq {Thought, Nil}
    /\ stream.capturing \in BOOLEAN
    /\ IF stream.capturing
       THEN stream.pending = <<>> /\ firstMarker(stream.captureBuff) # {}
       ELSE stream.captureBuff = <<>> /\ Len(stream.pending) <= 1
    /\ block \in 0..(nextIndex - 1)
    /\ ended \in BOOLEAN

\* However the answer was cut, the client has the text and the calls that it
\* would have got in one piece.
AgreesWithWhole ==
    (ended /\ sent = Len(answer) /\ Orderly) =>
        Said("text") = WholeText /\ Said("tool_call") = WholeCalls

\* What the client sees before the end is the beginning of the text: nothing
\* that a later piece turns into markup has been shown.
NothingTakenBack ==
    (~ended /\ Orderly) => IsPrefix(Said("text"), WholeText)

\* The deltas so far, one after the other.
Received ==
    LET Beside(piece) == IF piece \in odd THEN <<piece>> ELSE <<>>
    IN  Beside(Thought) \o SubSeq(answer, 1, sent) \o Beside(Nil)

IsSubsequence(s, t) ==
    LET matched[i \in 0..Len(t)] ==
            IF i = 0 THEN 0
            ELSE LET n == matched[i - 1]
                 IN  IF n < Len(s) /\ s[n + 1] = t[i] THEN n + 1 ELSE n
    IN  matched[Len(t)] = Len(s)

\* Any answer, broken off or not: no piece is written twice, out of order or
\* before it was received.
NothingInvented ==
    /\ IsSubsequence(Said("tool_call"), Received)
    /\ IsSubsequence(Said("text"), Received)

\* Anthropic: the message starts first and stops last, and its blocks are
\* numbered in order, opened before and closed after what they say, and never
\* two open at once.
BlocksNest ==
    LET Index(i) == events[i].index
        Type(i) == events[i].type
        last == Len(events)
        Starts(i) == Cardinality({j \in 1..i : Type(j) = "block_start"})
        Stops(i) == Cardinality({j \in 1..i : Type(j) = "block_stop"})
    IN  api = "anthropic" =>
        \A i \in 1..last :
            /\ Type(i) = "message_start" <=> i = 1
            /\ Type(i) = "message_stop" <=> (ended /\ i = last)
            /\ Type(i) = "finish" => Starts(i) = Stops(i)
            /\ Index(i) # 0 => Index(i) = Starts(i)
            /\ Starts(i) - Stops(i) =
                  (IF Index(i) # 0 /\ Type(i) # "block_stop" THEN 1 ELSE 0)

\* OpenAI: the index of a tool call is its own in the message.
IndexNamesOneCall ==
    (api = "openai" /\ Orderly) =>
        \A i, j \in DOMAIN events :
            /\ events[i].type = "tool_call"
            /\ events[j].type = "tool_call"
            /\ events[i].index = events[j].index
            => i = j
============================================================================
