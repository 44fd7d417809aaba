------------------------------ MODULE ToolCalls ------------------------------
(***************************************************************************)
(* The tool calls in an answer, internal/toolcall: finding them in a whole *)
(* text (ParseCalls), hiding their markup (RemoveMarkup), and doing both   *)
(* with a stream that was cut anywhere (ProcessStreamChunk,                *)
(* FinalizeStream).                                                        *)
(*                                                                         *)
(* A text is a sequence of pieces:                                         *)
(*     "<" "ml_tool_calls" ">" CALL "</ml_tool_call>" "</ml_tool_calls>"   *)
(* where CALL is `<ml_tool_call>' with the name and the parameters of one  *)
(* call.  All else is a word; a word does not begin with "<", but "<" may  *)
(* be prose.  Every place where a cut makes a difference to the parser is  *)
(* between two pieces.  Left out: whitespace, the old spellings of the     *)
(* tags, and the sentences that stripToolPromptLeakage removes.            *)
(***************************************************************************)
EXTENDS Naturals, SequencesExt

CONSTANT Calls  \* the calls the model may write

\* <ml_tool_calls>, and the part of it that is a start marker.
Marker == <<"<", "ml_tool_calls">>
Open == Marker \o <<">">>
Closing == {"</ml_tool_call>", "</ml_tool_calls>"}

ASSUME CallsAssumption == Calls \cap ({"<", "ml_tool_calls", ">"} \cup Closing) = {}

----------------------------------------------------------------------------
At(t, i, s) == IsPrefix(s, SubSeq(t, i, Len(t)))

\* What is left of t at the positions S.
Kept(t, S) ==
    LET Rank(i) == Cardinality({j \in S : j <= i})
    IN  [n \in 1..Cardinality(S) |-> t[CHOOSE i \in S : Rank(i) = n]]

\* xmlNoiseBlock: from an opening tag to the first closing one.
Noise(t) ==
    {i \in DOMAIN t : \E o \in 1..i, e \in i..Len(t) :
        /\ t[o] \in Calls \/ At(t, o, Open)
        /\ t[e] \in Closing
        /\ \A j \in o..(e - 1) : t[j] \notin Closing}

\* xmlResidualTag: any complete tag.  What an unclosed call says stays.
Residual(t) ==
    {i \in DOMAIN t : \/ t[i] \in Closing
                      \/ \E o \in 1..i : o + 2 >= i /\ At(t, o, Open)}

RemoveMarkup(t) == Kept(t, DOMAIN t \ (Noise(t) \cup Residual(t)))

Closed(t) ==
    {i \in DOMAIN t : t[i] \in Calls /\ At(t, i + 1, <<"</ml_tool_call>">>)}

Wrapped(t) ==
    {i \in Closed(t) : \E o \in 1..i, e \in i..Len(t) :
        /\ At(t, o, Open)
        /\ t[e] = "</ml_tool_calls>"
        /\ \A j \in o..(e - 1) : t[j] # "</ml_tool_calls>"}

\* The calls in closed wrappers, all closed calls if there are none; no call
\* twice (dedupe).
ParseCalls(t) ==
    LET found == IF Wrapped(t) # {} THEN Wrapped(t) ELSE Closed(t)
    IN  Kept(t, {i \in found : \A j \in found : j < i => t[j] # t[i]})

stripMalformedToolPreludePrefix(t) ==
    LET tags == {n \in 0..Len(t) : \A m \in 0..(n - 1) : At(t, 3 * m + 1, Open)}
    IN  SubSeq(t, 3 * Max(tags) + 1, Len(t))

----------------------------------------------------------------------------
firstMarker(t) == {i \in DOMAIN t : t[i] \in Calls \/ At(t, i, Marker)}

HoldsNothing(t) == 0

\* longestMarkerPrefixSuffix: "<" stands for every prefix of a marker.
heldBack(t) == IF t # <<>> /\ Last(t) = "<" THEN 1 ELSE 0

CallTagsFirst(t) ==
    LET opens == firstMarker(t)
        closes == {i \in DOMAIN t : t[i] = "</ml_tool_call>"}
        calls == ParseCalls(SubSeq(t, Min(opens), Max(closes)))
    IN  IF closes = {} THEN [ready |-> FALSE, content |-> <<>>, calls |-> <<>>]
        ELSE [ready |-> TRUE, content |-> RemoveMarkup(t), calls |-> calls]

\* A wrapper is captured up to its last closing tag, a bare call likewise.
tryConsumeCapture(t) ==
    LET wrappers == {i \in DOMAIN t : At(t, i, Marker)}
        opens == IF wrappers # {} THEN wrappers ELSE firstMarker(t)
        close == IF wrappers # {} THEN "</ml_tool_calls>" ELSE "</ml_tool_call>"
        closes == {i \in DOMAIN t : t[i] = close /\ \E o \in opens : o < i}
        calls == ParseCalls(SubSeq(t, Min(opens), Max(closes)))
    IN  IF closes = {} THEN [ready |-> FALSE, content |-> <<>>, calls |-> <<>>]
        ELSE [ready |-> TRUE,
              content |-> IF calls # <<>> THEN RemoveMarkup(t)
                          ELSE stripMalformedToolPreludePrefix(t),
              calls |-> calls]

shouldFallbackMalformedCapture(t) ==
    /\ At(t, 1, Open)
    /\ Len(t) > 3
    /\ t[4] \notin {"<"} \cup Calls \cup Closing

----------------------------------------------------------------------------
(* The stream parser: its state, and what it makes of the next chunk. *)

NewStreamState == [pending |-> <<>>, capturing |-> FALSE, captureBuff |-> <<>>]

Capture(t) == [NewStreamState EXCEPT !.capturing = TRUE, !.captureBuff = t]

Result(s, content, calls) == [state |-> s, content |-> content, calls |-> calls]

CapturedForEver(t) ==
    LET got == tryConsumeCapture(t)
    IN  Result(Capture(t), got.content, got.calls)

Captured(t) ==
    LET got == tryConsumeCapture(t)
    IN  IF got.ready THEN Result(NewStreamState, got.content, got.calls)
        ELSE IF shouldFallbackMalformedCapture(t)
        THEN Result(NewStreamState, stripMalformedToolPreludePrefix(t), <<>>)
        ELSE Result(Capture(t), <<>>, <<>>)

ScannedWithoutSplit(t) ==
    LET at == firstMarker(t)
    IN  IF at # {}
        THEN Result(Capture(SubSeq(t, Min(at), Len(t))), SubSeq(t, 1, Min(at) - 1), <<>>)
        ELSE IF heldBack(t) = 0 THEN Result(NewStreamState, t, <<>>)
        ELSE Result([NewStreamState EXCEPT !.pending = t], <<>>, <<>>)

Scanned(t) ==
    LET at == firstMarker(t)
        safe == Len(t) - heldBack(t)
    IN  IF at # {}
        THEN Result(Capture(SubSeq(t, Min(at), Len(t))), SubSeq(t, 1, Min(at) - 1), <<>>)
        ELSE Result([NewStreamState EXCEPT !.pending = SubSeq(t, safe + 1, Len(t))],
                    SubSeq(t, 1, safe), <<>>)

ProcessStreamChunk(s, chunk) ==
    IF s.capturing THEN Captured(s.captureBuff \o s.pending \o chunk)
    ELSE Scanned(s.pending \o chunk)

FinalizeStream(s) ==
    LET t == s.captureBuff \o s.pending
        got == tryConsumeCapture(t)
        calls == ParseCalls(t)
    IN  IF s.capturing
        THEN IF got.ready THEN Result(s, got.content, got.calls)
             ELSE Result(s, stripMalformedToolPreludePrefix(RemoveMarkup(t)), <<>>)
        ELSE Result(s, IF calls # <<>> THEN RemoveMarkup(t)
                       ELSE stripMalformedToolPreludePrefix(t), calls)
============================================================================
