---------------------------- MODULE MCSettings ----------------------------
(* Values for model-checking Settings. *)
EXTENDS Settings, TLC

CONSTANTS admin, user, other

MCApiKeys  == <<admin, other, other>>
MCOuter    == {{}, {"interval"}, {"legacy"}, {"key", "overrides"}}
MCSymmetry == Permutations(Admins)
============================================================================
