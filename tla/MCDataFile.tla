----------------------------- MODULE MCDataFile -----------------------------
(* Values for model-checking DataFile. *)
EXTENDS DataFile, TLC

MCSymmetry == Permutations(Accounts) \cup Permutations(Sessions)
=============================================================================
