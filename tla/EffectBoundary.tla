--------------------------- MODULE EffectBoundary ---------------------------
(***************************************************************************)
(* What a side-effect ledger promises, independently of how it is stored.  *)
(*                                                                         *)
(* Every external effect (a message handed to WeChat or Feishu, a tool     *)
(* execution) has one durable phase.  The boundary is crossed at most      *)
(* once, only from a claim, and a crash after the crossing never returns   *)
(* the effect to a phase from which it could be sent again: the outcome is *)
(* known ("accepted", "failed") or it is "unknown" until an explicit       *)
(* reconciliation says what happened.                                      *)
(***************************************************************************)
CONSTANT Effect

VARIABLE phase

Phases == {"absent", "claimed", "crossed", "accepted", "failed",
           "unknown", "reconciled"}

EBTypeOK == phase \in [Effect -> Phases]

EBInit == phase = [e \in Effect |-> "absent"]

(* Authority for the effect is recorded before anything leaves the process. *)
Claim(e) ==
    /\ phase[e] = "absent"
    /\ phase' = [phase EXCEPT ![e] = "claimed"]

(* The intent to perform the effect is durable before the external call. *)
Cross(e) ==
    /\ phase[e] = "claimed"
    /\ phase' = [phase EXCEPT ![e] = "crossed"]

(* A failure may be recorded with or without a crossing. *)
Fail(e) ==
    /\ phase[e] \in {"claimed", "crossed"}
    /\ phase' = [phase EXCEPT ![e] = "failed"]

(* Success can only be recorded for an effect that crossed the boundary. *)
Accept(e) ==
    /\ phase[e] = "crossed"
    /\ phase' = [phase EXCEPT ![e] = "accepted"]

(* One or several crossed effects lose their outcome, together. *)
Lose(S) ==
    /\ \A e \in S : phase[e] = "crossed"
    /\ phase' = [e \in Effect |-> IF e \in S THEN "unknown" ELSE phase[e]]

(* Reconciliation is the only way out of "unknown". *)
Reconcile(e) ==
    /\ phase[e] = "unknown"
    /\ phase' = [phase EXCEPT ![e] = "reconciled"]

EBNext ==
    \/ \E e \in Effect : \/ Claim(e)
                         \/ Cross(e)
                         \/ Fail(e)
                         \/ Accept(e)
                         \/ Reconcile(e)
    \/ \E S \in SUBSET Effect : Lose(S)

EBSpec == EBInit /\ [][EBNext]_phase
=============================================================================
