--------------------------- MODULE MCChatCleanup ---------------------------
(* Values for model-checking ChatCleanup. *)
EXTENDS ChatCleanup, TLC

CONSTANTS a, c1, c2, g

MCOrder == <<c1, c2>>
MCOwner == (c1 :> a) @@ (c2 :> a)

MCOrderGuest == <<c1, c2, g>>
MCOwnerGuest == (c1 :> a) @@ (c2 :> a) @@ (g :> Guest)
=============================================================================
