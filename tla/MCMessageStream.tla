--------------------------- MODULE MCMessageStream ---------------------------
(* Values for model-checking MessageStream. *)
EXTENDS MessageStream

CONSTANTS x, y, k, l, MaxPieces

\* What an answer is made of: prose, half a tool block, tool blocks of one and
\* of two calls, a call without a wrapper.
Block(calls) == Open \o calls \o <<"</ml_tool_calls>">>
One == <<k, "</ml_tool_call>">>
Two == <<k, "</ml_tool_call>", l, "</ml_tool_call>">>
Parts == {<<x>>, <<y>>, <<"<">>, Open, Block(One), Block(Two), One}

\* A wrapper with prose in it, before its calls or between them.
Prosy == {Block(<<y>> \o Two), Block(One \o <<y, l, "</ml_tool_call>">>)}

MCAnswers ==
    Prosy \cup {t \in {<<>>} \cup Parts \cup {p \o q : p, q \in Parts}
         \cup {p \o q \o r : p, q, r \in Parts} : Len(t) <= MaxPieces}
=============================================================================
