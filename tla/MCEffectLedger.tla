--------------------------- MODULE MCEffectLedger ---------------------------
(* Instances of EffectLedger: an execution x with a tool call and a granted *)
(* effect, and an execution y with a plan of one step, which takes both of  *)
(* them when x is not there.                                                *)
EXTENDS EffectLedger, TLC

CONSTANTS x, c, u, y, s

MCKindOf ==
    [e \in Effect |->
        CASE e \in {x, y} -> "execution" [] e = c -> "chain" [] e = u -> "sub" [] OTHER -> "step"]
MCParentOf == [e \in Effect |-> IF e \in {x, c, u} /\ x \in Effect THEN x ELSE y]
=============================================================================
