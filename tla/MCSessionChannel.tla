--------------------------- MODULE MCSessionChannel ---------------------------
(* Two devices that hold the same seed, or two devices of two accounts. *)
EXTENDS SessionChannel, TLC

CONSTANTS d1, d2, a1, a2

SharedOwner == (d1 :> a1) @@ (d2 :> a1)
SeparateOwner == (d1 :> a1) @@ (d2 :> a2)
=============================================================================
