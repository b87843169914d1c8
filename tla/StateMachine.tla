---------------------------- MODULE StateMachine ----------------------------
(***************************************************************************)
(* The state-machine contract shared by all services                       *)
(* (src/src/contracts/state_machine.py): the four machines, which states   *)
(* are terminal, which transitions are legal, who may request them and     *)
(* which need evidence, and the decision apply_transition takes.           *)
(***************************************************************************)
EXTENDS Naturals

Machine == {"request", "execution", "artifact", "delivery"}

STATE_VALUES ==
    [request |-> {"RECEIVED", "QUEUED", "PLANNING", "WAITING_CONFIRMATION",
                  "EXECUTING", "VALIDATING_ARTIFACTS", "DELIVERING",
                  "COMPLETED", "PARTIAL", "FAILED", "CANCELLED", "SUPERSEDED"},
     execution |-> {"NOT_STARTED", "PLANNED", "TICKET_ISSUED", "CLAIMED",
                    "RUNNING", "SUCCEEDED", "FAILED_RETRYABLE", "FAILED_FINAL",
                    "AMBIGUOUS", "RECONCILE_REQUIRED", "CANCELLED", "FENCED"},
     artifact |-> {"NOT_REQUIRED", "PENDING", "CREATED", "QC_PENDING",
                   "QC_PASSED", "QC_FAILED", "REJECTED", "SUPERSEDED"},
     delivery |-> {"NOT_PLANNED", "PLANNED", "TICKET_ISSUED", "FETCHING",
                   "UPLOADING", "SENDING", "CHANNEL_ACCEPTED", "DELIVERED",
                   "FAILED_RETRYABLE", "FAILED_FINAL", "AMBIGUOUS",
                   "RECONCILE_REQUIRED", "CANCELLED", "FENCED"}]

INITIAL_STATES ==
    [request |-> "RECEIVED", execution |-> "NOT_STARTED",
     artifact |-> "PENDING", delivery |-> "NOT_PLANNED"]

TERMINAL_STATES ==
    [request |-> {"COMPLETED", "PARTIAL", "FAILED", "CANCELLED", "SUPERSEDED"},
     execution |-> {"SUCCEEDED", "FAILED_FINAL", "CANCELLED", "FENCED"},
     artifact |-> {"NOT_REQUIRED", "QC_PASSED", "QC_FAILED", "REJECTED", "SUPERSEDED"},
     delivery |-> {"DELIVERED", "FAILED_FINAL", "CANCELLED", "FENCED"}]

Withdrawn == {"CANCELLED", "FENCED"}
Dropped == {"CANCELLED", "SUPERSEDED"}
Failures == {"FAILED_RETRYABLE", "FAILED_FINAL"}

RequestTransitions ==
    [RECEIVED |-> {"QUEUED", "PLANNING", "FAILED"} \cup Dropped,
     QUEUED |-> {"PLANNING", "FAILED"} \cup Dropped,
     PLANNING |-> {"WAITING_CONFIRMATION", "EXECUTING", "DELIVERING", "FAILED"} \cup Dropped,
     WAITING_CONFIRMATION |-> {"PLANNING", "EXECUTING", "FAILED"} \cup Dropped,
     EXECUTING |-> {"VALIDATING_ARTIFACTS", "DELIVERING", "FAILED"} \cup Dropped,
     VALIDATING_ARTIFACTS |-> {"DELIVERING", "FAILED"} \cup Dropped,
     DELIVERING |-> {"COMPLETED", "PARTIAL", "FAILED"} \cup Dropped]

ExecutionTransitions ==
    [NOT_STARTED |-> {"PLANNED"} \cup Withdrawn,
     PLANNED |-> {"TICKET_ISSUED", "FAILED_FINAL"} \cup Withdrawn,
     TICKET_ISSUED |-> {"CLAIMED"} \cup Failures \cup Withdrawn,
     CLAIMED |-> {"RUNNING", "SUCCEEDED", "AMBIGUOUS"} \cup Failures \cup Withdrawn,
     RUNNING |-> {"SUCCEEDED", "AMBIGUOUS"} \cup Failures \cup Withdrawn,
     FAILED_RETRYABLE |-> {"TICKET_ISSUED", "FAILED_FINAL"} \cup Withdrawn,
     AMBIGUOUS |-> {"RECONCILE_REQUIRED"},
     RECONCILE_REQUIRED |-> {"SUCCEEDED", "FAILED_FINAL"}]

ArtifactTransitions ==
    [PENDING |-> {"CREATED", "REJECTED", "SUPERSEDED"},
     CREATED |-> {"QC_PENDING", "REJECTED", "SUPERSEDED"},
     QC_PENDING |-> {"QC_PASSED", "QC_FAILED", "REJECTED", "SUPERSEDED"}]

DeliveryTransitions ==
    [NOT_PLANNED |-> {"PLANNED"} \cup Withdrawn,
     PLANNED |-> {"TICKET_ISSUED", "FAILED_FINAL"} \cup Withdrawn,
     TICKET_ISSUED |-> {"FETCHING", "SENDING"} \cup Failures \cup Withdrawn,
     FETCHING |-> {"UPLOADING", "SENDING"} \cup Failures \cup Withdrawn,
     UPLOADING |-> {"SENDING", "AMBIGUOUS"} \cup Failures \cup Withdrawn,
     SENDING |-> {"CHANNEL_ACCEPTED", "DELIVERED", "AMBIGUOUS"} \cup Failures \cup Withdrawn,
     CHANNEL_ACCEPTED |-> {"DELIVERED", "AMBIGUOUS", "RECONCILE_REQUIRED"},
     FAILED_RETRYABLE |-> {"TICKET_ISSUED", "FAILED_FINAL"} \cup Withdrawn,
     AMBIGUOUS |-> {"RECONCILE_REQUIRED"},
     RECONCILE_REQUIRED |-> {"CHANNEL_ACCEPTED", "DELIVERED", "FAILED_FINAL"}]

TRANSITIONS ==
    [request |-> RequestTransitions, execution |-> ExecutionTransitions,
     artifact |-> ArtifactTransitions, delivery |-> DeliveryTransitions]

ALLOWED_OWNERS ==
    [request |-> {"gateway"}, artifact |-> {"gateway"},
     execution |-> {"backend", "gateway"},
     delivery |-> {"communication", "gateway"}]

(* Mutant of EVIDENCE_REQUIRED: a delivery claims success without evidence.  *)
EvidenceOnFailure ==
    [request |-> {"FAILED"}, execution |-> Failures,
     artifact |-> {"QC_FAILED", "REJECTED"}, delivery |-> Failures]

EVIDENCE_REQUIRED ==
    [request |-> {"COMPLETED", "PARTIAL", "FAILED"},
     execution |-> {"SUCCEEDED", "AMBIGUOUS", "RECONCILE_REQUIRED"} \cup Failures,
     artifact |-> {"QC_PASSED", "QC_FAILED", "REJECTED"},
     delivery |-> {"CHANNEL_ACCEPTED", "DELIVERED", "AMBIGUOUS", "RECONCILE_REQUIRED"}
                    \cup Failures]

IsTerminal(m, s) == s \in TERMINAL_STATES[m]

(* Is the transition in the table?  A state without an entry has none. *)
Legal(m, from, to) ==
    /\ ~ IsTerminal(m, from)
    /\ from \in DOMAIN TRANSITIONS[m]
    /\ to \in TRANSITIONS[m][from]

(* TransitionDecision.disposition, without the two for a wrong digest and a   *)
(* wrong entity.                                                             *)
DISPOSITIONS ==
    {"APPLIED", "DUPLICATE", "LATE_IGNORED", "FUTURE_REJECTED", "REVISION_CONFLICT",
     "OWNER_REJECTED", "TERMINAL_REJECTED", "ILLEGAL_TRANSITION",
     "AMBIGUOUS_REQUIRED", "EVIDENCE_REJECTED"}

(* A withdrawal or a retry that an event admits comes after the side effect  *)
(* began: only AMBIGUOUS may follow.                                         *)
ForbiddenAfterSideEffect(m, event) ==
    /\ m \in {"execution", "delivery"}
    /\ event.sideEffectStarted
    /\ event.to \in {"CANCELLED", "FENCED", "FAILED_RETRYABLE"}

(* Mutants of RevisionConflict, an old revision is good enough, and of       *)
(* Backdated, the clock is not compared.                                     *)
FutureRevision(snapshot, event) == event.expectedRevision > snapshot.revision
NeverBackdated(snapshot, event) == FALSE

RevisionConflict(snapshot, event) == event.expectedRevision # snapshot.revision
Backdated(snapshot, event) == event.at < snapshot.at

(* The disposition apply_transition gives an event with a valid digest for   *)
(* the entity of this snapshot, in the order in which it tests.              *)
Disposition(m, snapshot, event, alreadyApplied) ==
    IF alreadyApplied THEN "DUPLICATE"
    ELSE IF event.generation < snapshot.generation THEN "LATE_IGNORED"
    ELSE IF event.generation > snapshot.generation THEN "FUTURE_REJECTED"
    ELSE IF RevisionConflict(snapshot, event) THEN "REVISION_CONFLICT"
    ELSE IF Backdated(snapshot, event) THEN "LATE_IGNORED"
    ELSE IF event.source \notin ALLOWED_OWNERS[m] THEN "OWNER_REJECTED"
    ELSE IF IsTerminal(m, snapshot.state) THEN "TERMINAL_REJECTED"
    ELSE IF ~ Legal(m, snapshot.state, event.to) THEN "ILLEGAL_TRANSITION"
    ELSE IF ForbiddenAfterSideEffect(m, event) THEN "AMBIGUOUS_REQUIRED"
    ELSE IF event.to \in EVIDENCE_REQUIRED[m] /\ ~ event.evidence THEN "EVIDENCE_REJECTED"
    ELSE "APPLIED"
=============================================================================
