-------------------------- MODULE MCChatExecution --------------------------
(* Values for model-checking ChatExecution. *)
EXTENDS ChatExecution, TLC

\* Nothing tells requests, hashes, chats or real accounts apart.
MCSymmetry ==
    Permutations(Emails) \cup Permutations(Requests)
        \cup Permutations(Hashes) \cup Permutations(Chats)
============================================================================
