---------------------------- MODULE ChannelAnswer ----------------------------
(***************************************************************************)
(* The answer of the communication service to one dispatch of a delivery,  *)
(* as the gateway stores it: a receipt with its status and the stages of   *)
(* its parts, or an error that is ambiguous or final.  GatewayDelivery     *)
(* assumes that the answers are Truthful; WechatDelivery checks that the   *)
(* answers of the text sender are.                                         *)
(*                                                                         *)
(* DELIVERED is folded into CHANNEL_ACCEPTED and RECONCILE_REQUIRED into   *)
(* AMBIGUOUS, which the gateway treats alike; parts that are still         *)
(* PLANNED, FETCHED or UPLOADED change none of its verdicts and are left   *)
(* out of the stages.                                                      *)
(***************************************************************************)

PartStage == {"CHANNEL_ACCEPTED", "FAILED_RETRYABLE", "FAILED_FINAL", "AMBIGUOUS"}
FailedStage == {"FAILED_RETRYABLE", "FAILED_FINAL"}

(* DeliveryReceipt.validate_aggregate_state. *)
ValidReceipt(status, stages) ==
    /\ status = "CHANNEL_ACCEPTED" => stages \subseteq {"CHANNEL_ACCEPTED"}
    /\ (status = "AMBIGUOUS") <=> ("AMBIGUOUS" \in stages)
    /\ status \in FailedStage => status \in stages

ReceiptAnswer(status, stages) == [kind |-> "receipt", status |-> status, stages |-> stages]
ErrorAnswer(status) == [kind |-> "error", status |-> status, stages |-> {}]
NoAnswer == [kind |-> "none", status |-> "none", stages |-> {}]

Accepted == {"none", "some", "all"}

(* Which answers tell the truth about a delivery of which the channel        *)
(* accepted this much.  A part reported accepted was accepted, a part        *)
(* reported failed was not, and a final error means that nothing was.        *)
Truthful(a, accepted) ==
    \/ a = ErrorAnswer("AMBIGUOUS")
    \/ a = ErrorAnswer("FAILED_FINAL") /\ accepted = "none"
    \/ /\ a.kind = "receipt"
       /\ accepted = "all" => a.stages \cap FailedStage = {}
       /\ accepted = "none" => "CHANNEL_ACCEPTED" \notin a.stages
       /\ accepted = "some" => /\ a.stages \cap {"CHANNEL_ACCEPTED", "AMBIGUOUS"} # {}
                               /\ a.stages # {"CHANNEL_ACCEPTED"}
=============================================================================
