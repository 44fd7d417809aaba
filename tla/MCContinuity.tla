---------------------------- MODULE MCContinuity ----------------------------
(* Values for model-checking Continuity. *)
EXTENDS Continuity, TLC

CONSTANTS d, e

\* No system message: the first question of a dialogue has no context hash.
MCPlain == (d :> <<>>) @@ (e :> <<>>)

MCSymmetry == Permutations(Chats) \cup Permutations(Dialogues)

\* Of a chat that counts as forked no property and no guard reads more than how
\* long it is, and whether a hash is repeated in it no longer matters.
MCView ==
    <<transcript, turn, target, answer, mapping, forked,
      [c \in Chats |-> IF c \in forked
                        THEN Len(content[c])
                        ELSE <<content[c], latest[c], hashes[c]>>]>>
=============================================================================
