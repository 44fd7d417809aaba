--------------------------- MODULE MCAccountPool ---------------------------
(* Values for model-checking AccountPool. *)
EXTENDS AccountPool, TLC

CONSTANTS a, A, b

\* Every address is its own mailbox, except that A is another spelling of a.
MCMailbox == [k \in Keys |-> IF k = A THEN a ELSE k]
============================================================================
