-------------------------- MODULE MCWechatDelivery --------------------------
(* A message of two parts, of which the first has two segments, called twice. *)
EXTENDS WechatDelivery, TLC

CONSTANTS e1, t1, r1

MCEffectOf == t1 :> e1
MCRunOf == t1 :> r1
MCGenOf == t1 :> 1
MCTicketOf == <<t1, t1>>
MCSegments == e1 :> 3
MCClosing == e1 :> {2, 3}
=============================================================================
