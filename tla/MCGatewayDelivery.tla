------------------------- MODULE MCGatewayDelivery -------------------------
(* Instances of GatewayDelivery for TLC. *)
EXTENDS GatewayDelivery

OneSession == [r \in Request |-> 1]
TwoSessions == [r \in Request |-> r]

AllStages == PartStage
AcceptOnly == {"CHANNEL_ACCEPTED"}
=============================================================================
