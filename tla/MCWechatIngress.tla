--------------------------- MODULE MCWechatIngress ---------------------------
(* The messages of one account: two sessions, one withheld, one malformed.      *)
EXTENDS WechatIngress, TLC

CONSTANTS a, b

MCSessionOf3 == <<a, a, a>>
MCSessionOf == <<a, b, a, a, a>>
=============================================================================
