-------------------------- MODULE MCDeliveryLedger --------------------------
(* Two effects and three tickets.  t1 and t2 are successive generations of   *)
(* the same run, so the fence matters; t2 and t3 name the same effect, so    *)
(* the second of them to arrive is a conflict.                               *)
EXTENDS DeliveryLedger, TLC

CONSTANTS e1, e2, t1, t2, t3, r1, r2

MCEffectOf == (t1 :> e1) @@ (t2 :> e2) @@ (t3 :> e2)
MCRunOf == (t1 :> r1) @@ (t2 :> r1) @@ (t3 :> r2)
MCGenOf == (t1 :> 1) @@ (t2 :> 2) @@ (t3 :> 1)
=============================================================================
