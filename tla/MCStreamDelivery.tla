--------------------------- MODULE MCStreamDelivery ---------------------------
(* Instances of StreamDelivery: one stream, three or two messages long. *)
EXTENDS StreamDelivery, TLC

ThreeMessages == "a" :> 2
TwoMessages == "a" :> 1
=============================================================================
