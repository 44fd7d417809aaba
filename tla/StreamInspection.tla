------------------------- MODULE StreamInspection -------------------------
(***************************************************************************)
(* The look the proxy takes at the beginning of an upstream answer before  *)
(* it lets the client see any of it (internal/qwen/upstream.go): the body  *)
(* is read line by line and kept back until its first event tells whether  *)
(* it is an error or an answer.  A body is the sequence of its events and  *)
(* the way it ends.  What an event is, is told by what the code finds in   *)
(* it:                                                                     *)
(*   "silent"   nothing to show: response.created, a comment, something    *)
(*              that is not JSON, a role other than the assistant's, blank *)
(*              text;                                                      *)
(*   "prelude"  with it the text so far is the opening of a tool call;     *)
(*   "text"     with it there is visible text, or a function call;         *)
(*   "quota"    an error another account may be spared (Retryable);        *)
(*   "refused"  any other error;                                           *)
(*   "captcha"  a line with one of the words of Alibaba's human            *)
(*              verification, wherever it stands.                          *)
(***************************************************************************)
EXTENDS Integers, Sequences, SequencesExt

Silent  == {"silent", "prelude"}
Errors  == {"quota", "refused"}
Events  == Silent \union Errors \union {"text", "captcha"}

\* "whole": the last event is closed by its blank line; "cut": it is not, and is never
\* parsed; "broken": reading fails after the last event.
Endings == {"whole", "cut", "broken"}

Bodies(n) == [events : BoundedSeq(Events, n), ending : Endings]

\* parseSSEPayloads keeps the text after the last blank line for the next round, and
\* there is none at the end of the body.
Parsed(body, i) == ~(body.ending = "cut" /\ i = Len(body.events))

ReleasesPrelude(event) == event \in {"text", "prelude"}

\* shouldReleaseBufferedStream: the opening of a tool call is held back, as long as
\* nothing but the opening is there.
ReleasesStream(event) == event = "text"

\* One turn of the loop: the line is added to the chunks, all of which are searched for the
\* words of the verification, before its event is parsed, if it is complete.
Inspected(body, verdict, i) ==
    LET event == body.events[i]
    IN  IF verdict # "reading"          THEN verdict
        ELSE IF event = "captcha"       THEN "captcha"
        ELSE IF ~Parsed(body, i)        THEN verdict
        ELSE IF event \in Errors        THEN event
        ELSE IF ReleasesStream(event)   THEN "stream"
        ELSE verdict

VerdictAfter(body) ==
    LET after[n \in 0 .. Len(body.events)] ==
            IF n = 0 THEN "reading" ELSE Inspected(body, after[n - 1], n)
    IN  after

\* What the caller gets: an error, the stream with everything that was kept back at its
\* beginning, or "failed" when the body broke off first.  A body that ends without an
\* event that decides is an answer too, an empty one.
InspectUpstreamStream(body) ==
    LET verdict == VerdictAfter(body)[Len(body.events)]
    IN  IF verdict # "reading"           THEN verdict
        ELSE IF body.ending = "broken"   THEN "failed"
        ELSE "stream"

=============================================================================
