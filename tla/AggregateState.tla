---------------------------- MODULE AggregateState ----------------------------
(***************************************************************************)
(* The event-sourced aggregates of the gateway store (store.py:            *)
(* initialize_snapshot, apply_event_with_outbox, _verify_full_event_chain) *)
(* over the state-machine contract (contracts/state_machine.py), and the   *)
(* status that the user interface is shown for one request                 *)
(* (aggregate_request_status).                                             *)
(*                                                                         *)
(* Any number of callers submit transition events, in any order and as     *)
(* often as they like.  The first submission of an event id is decided     *)
(* and logged, accepted or not, in one transaction with the snapshot and   *)
(* the outbox rows; a repeated one changes nothing, whether it is answered *)
(* with the stored decision or refused because its content differs.        *)
(***************************************************************************)
EXTENDS StateMachine

CONSTANTS
    Entity,         \* the entities of one request
    MachineOf,      \* the machine of each entity
    Generation,     \* the generation of the run that owns the entities
    Times,          \* clock readings
    OutboxId,       \* outbox_id values
    EventId,        \* event_id values
    Event,          \* the TransitionEvents that callers submit
    NoSnapshot,     \* an entity that was not initialized
    NoEvent         \* SQL NULL in last_event_id; an outbox row that is absent

State == UNION {STATE_VALUES[m] : m \in Machine}

EventType ==
    [id : EventId, entity : Entity, generation : Nat, expectedRevision : Nat,
     at : Times, source : {"gateway", "backend", "communication", "life"},
     to : State, sideEffectStarted : BOOLEAN, evidence : BOOLEAN,
     intents : SUBSET OutboxId]

Snapshot ==
    [generation : Nat, revision : Nat, at : Times, state : State,
     lastEvent : EventId \cup {NoEvent}]

ASSUME AggregateAssumption ==
    /\ MachineOf \in [Entity -> Machine]
    /\ Generation \in Nat
    /\ Times \subseteq Nat
    /\ Event \subseteq EventType
    /\ NoEvent \notin EventId
    /\ NoSnapshot \notin Snapshot

VARIABLES
    snapshot,       \* table aggregate_state
    log,            \* table event_log: at most one entry per event id
    rows            \* tables outbox and event_outbox: the event of each row

vars == <<snapshot, log, rows>>

Entry == [event : Event, disposition : DISPOSITIONS, before : Snapshot, after : Snapshot]

TypeOK ==
    /\ snapshot \in [Entity -> Snapshot \cup {NoSnapshot}]
    /\ \A e \in Entity : snapshot[e] # NoSnapshot =>
          snapshot[e].state \in STATE_VALUES[MachineOf[e]]
    /\ log \subseteq Entry
    /\ rows \in [OutboxId -> EventId \cup {NoEvent}]

Init ==
    /\ snapshot = [e \in Entity |-> NoSnapshot]
    /\ log = {}
    /\ rows = [o \in OutboxId |-> NoEvent]

-----------------------------------------------------------------------------
(* Operations.                                                              *)

(* Mutant of FirstStates: every machine may start as not required.           *)
NotRequiredAnywhere(m) == {INITIAL_STATES[m], "NOT_REQUIRED"}

(* new_state_snapshot and initialize_snapshot; an artifact that is not       *)
(* required starts in the terminal state NOT_REQUIRED.                       *)
FirstStates(m) ==
    {INITIAL_STATES[m]} \cup (IF m = "artifact" THEN {"NOT_REQUIRED"} ELSE {})

InitializeSnapshot(e, s, at) ==
    /\ snapshot[e] = NoSnapshot
    /\ s \in FirstStates(MachineOf[e])
    /\ snapshot' = [snapshot EXCEPT ![e] =
           [generation |-> Generation, revision |-> 0, at |-> at, state |-> s,
            lastEvent |-> NoEvent]]
    /\ UNCHANGED <<log, rows>>

Known(ev) == \E x \in log : x.event.id = ev.id

(* The snapshot that an applied event leaves. *)
Applied(s, ev) ==
    [generation |-> s.generation, revision |-> s.revision + 1, at |-> ev.at,
     state |-> ev.to, lastEvent |-> ev.id]

(* The outbox rows that an applied event inserts. *)
Linked(ev) == [o \in OutboxId |-> IF o \in ev.intents THEN ev.id ELSE rows[o]]

(* Mutant of ApplyEvent: the outbox rows are inserted whatever the decision. *)
ApplyAndLink(ev) ==
    LET s == snapshot[ev.entity]
        d == Disposition(MachineOf[ev.entity], s, ev, FALSE)
        t == IF d = "APPLIED" THEN Applied(s, ev) ELSE s
    IN  /\ ~ Known(ev)
        /\ s # NoSnapshot
        /\ \A o \in ev.intents : rows[o] = NoEvent
        /\ log' = log \cup {[event |-> ev, disposition |-> d, before |-> s, after |-> t]}
        /\ snapshot' = [snapshot EXCEPT ![ev.entity] = t]
        /\ rows' = Linked(ev)

(* apply_event_with_outbox, the first submission of this id.  An accepted    *)
(* event whose outbox identity is bound already raises, and rolls back.      *)
ApplyEvent(ev) ==
    LET s == snapshot[ev.entity]
        d == Disposition(MachineOf[ev.entity], s, ev, FALSE)
        t == IF d = "APPLIED" THEN Applied(s, ev) ELSE s
    IN  /\ ~ Known(ev)
        /\ s # NoSnapshot
        /\ d = "APPLIED" => \A o \in ev.intents : rows[o] = NoEvent
        /\ log' = log \cup {[event |-> ev, disposition |-> d, before |-> s, after |-> t]}
        /\ snapshot' = [snapshot EXCEPT ![ev.entity] = t]
        /\ rows' = IF d = "APPLIED" THEN Linked(ev) ELSE rows

(* A repeated submission. *)
RepeatEvent(ev) == Known(ev) /\ UNCHANGED vars

Next ==
    \/ \E e \in Entity, s \in State, at \in Times : InitializeSnapshot(e, s, at)
    \/ \E ev \in Event : ApplyEvent(ev) \/ RepeatEvent(ev)

Spec == Init /\ [][Next]_vars

-----------------------------------------------------------------------------
(* aggregate_request_status: what is claimed of a request in state req whose *)
(* executions, artifacts and deliveries are in the states ex, ar and dl.     *)

Status(recommended, phase) ==
    [recommended |-> recommended, phase |-> phase,
     complete |-> FALSE, delivered |-> FALSE, reconcile |-> FALSE]
Complete(phase) ==
    [Status("COMPLETED", phase) EXCEPT !.complete = TRUE, !.delivered = phase = "delivered"]

Unknown == {"AMBIGUOUS", "RECONCILE_REQUIRED"}
AcceptedStates == {"CHANNEL_ACCEPTED", "DELIVERED"}
ReadyArtifact == {"NOT_REQUIRED", "QC_PASSED", "SUPERSEDED"}

(* The phase of a request that has no child yet. *)
ChildlessPhase ==
    [RECEIVED |-> "received", QUEUED |-> "received", PLANNING |-> "planning",
     WAITING_CONFIRMATION |-> "waiting_confirmation", EXECUTING |-> "executing",
     VALIDATING_ARTIFACTS |-> "validating"]

ChildFailed(ex, ar, dl) ==
    \/ (ex \cup dl) \cap {"FAILED_FINAL", "FENCED", "CANCELLED"} # {}
    \/ ar \cap {"QC_FAILED", "REJECTED"} # {}

WithoutDelivery(req) ==
    IF req = "COMPLETED" THEN Complete("delivered")
    ELSE IF req = "WAITING_CONFIRMATION" THEN Status(req, "waiting_confirmation")
    ELSE Status("DELIVERING", "delivering")

(* Mutant of AggregateRequestStatus: the request's own state decides first.  *)
RequestDecides(req, ex, ar, dl) ==
    IF req = "COMPLETED" THEN Complete("delivered") ELSE Status(req, "executing")

AggregateRequestStatus(req, ex, ar, dl) ==
    LET all == ex \cup ar \cup dl IN
    IF req = "CANCELLED" THEN Status(req, "cancelled")
    ELSE IF req = "SUPERSEDED" THEN Status(req, "superseded")
    ELSE IF all \cap Unknown # {}
      THEN [Status(IF dl # {} THEN "DELIVERING" ELSE "EXECUTING", "reconcile_required")
              EXCEPT !.reconcile = TRUE]
    ELSE IF req = "FAILED" THEN Status(req, "failed")
    ELSE IF req = "PARTIAL" THEN Status(req, "partial")
    ELSE IF all = {} /\ req \in DOMAIN ChildlessPhase THEN Status(req, ChildlessPhase[req])
    ELSE IF ChildFailed(ex, ar, dl)
      THEN IF dl \cap AcceptedStates # {} THEN Status("PARTIAL", "partial")
           ELSE Status("FAILED", "failed")
    ELSE IF "FAILED_RETRYABLE" \in ex \cup dl
      THEN Status(IF "FAILED_RETRYABLE" \in dl THEN "DELIVERING" ELSE "EXECUTING",
                  IF dl # {} THEN "delivering" ELSE "executing")
    ELSE IF ex \ {"SUCCEEDED"} # {} THEN Status("EXECUTING", "executing")
    ELSE IF ar \ ReadyArtifact # {} THEN Status("VALIDATING_ARTIFACTS", "validating")
    ELSE IF dl = {} THEN WithoutDelivery(req)
    ELSE IF dl = {"DELIVERED"} THEN Complete("delivered")
    ELSE IF dl \subseteq AcceptedStates THEN Complete("channel_accepted")
    ELSE Status("DELIVERING", "delivering")

-----------------------------------------------------------------------------
(* Properties.                                                              *)

Present == {e \in Entity : snapshot[e] # NoSnapshot}
StatesOf(m) == {snapshot[e].state : e \in {x \in Present : MachineOf[x] = m}}
AcceptedOf(e) == {x \in log : x.event.entity = e /\ x.disposition = "APPLIED"}

(* A refused event changed nothing. *)
RefusalsChangeNothing == \A x \in log : x.disposition # "APPLIED" => x.after = x.before

(* Accepted events of one entity have distinct revisions, and each starts    *)
(* from the snapshot that the one before it left.                            *)
EventsLink ==
    \A e \in Entity : \A x \in AcceptedOf(e) :
        /\ snapshot[e] # NoSnapshot
        /\ x.before.revision = x.event.expectedRevision
        /\ x.after.revision = x.before.revision + 1
        /\ x.after.revision <= snapshot[e].revision
        /\ \A y \in AcceptedOf(e) :
              /\ y.after.revision = x.after.revision => y = x
              /\ y.before.revision = x.after.revision => y.before = x.after

(* No revision is missing. *)
RevisionsContiguous ==
    \A e \in Present : \A k \in 1 .. snapshot[e].revision :
        \E x \in AcceptedOf(e) : x.after.revision = k

(* The last accepted event left the current snapshot. *)
HeadIsCurrent ==
    \A e \in Present :
        IF snapshot[e].revision = 0 THEN snapshot[e].lastEvent = NoEvent
        ELSE \E x \in AcceptedOf(e) :
               x.event.id = snapshot[e].lastEvent /\ x.after = snapshot[e]

(* _verify_full_event_chain and _verify_current_state_rows, run whenever the *)
(* store is opened, accept every reachable store, whatever the order of      *)
(* submissions, repetitions and refusals: the accepted events of an entity   *)
(* carry the revisions 1, 2, ... without a gap, each starts from the         *)
(* snapshot that the one before it left, and the last one left the current   *)
(* snapshot; a refused event changed nothing.                                *)
FullEventChain ==
    RefusalsChangeNothing /\ EventsLink /\ RevisionsContiguous /\ HeadIsCurrent

(* The transactional outbox: a row exists exactly for the intents of the     *)
(* accepted events, each for one event, so that neither a refusal nor a      *)
(* repetition ever leaves an intent to be dispatched.                        *)
RowsFollowEvents ==
    \A o \in OutboxId :
        /\ rows[o] # NoEvent =>
              \E x \in log : /\ x.disposition = "APPLIED"
                             /\ x.event.id = rows[o] /\ o \in x.event.intents
        /\ \A x \in log : x.disposition = "APPLIED" /\ o \in x.event.intents =>
              rows[o] = x.event.id

(* What the interface claims is backed by the log: a request is shown as     *)
(* complete only if every delivery has an accepted event with evidence, from *)
(* a component that owns deliveries, that the channel accepted it, and no    *)
(* child failed or is unknown.                                               *)
ClaimIsEvidenced ==
    \A r \in {e \in Present : MachineOf[e] = "request"} :
        LET ex == StatesOf("execution")
            ar == StatesOf("artifact")
            dl == StatesOf("delivery")
            claim == AggregateRequestStatus(snapshot[r].state, ex, ar, dl)
        IN  claim.complete =>
              /\ ex \subseteq {"SUCCEEDED"} /\ ar \subseteq ReadyArtifact
              /\ \A d \in {e \in Present : MachineOf[e] = "delivery"} :
                   \E x \in AcceptedOf(d) :
                       /\ x.event.evidence
                       /\ x.event.source \in {"gateway", "communication"}
                       /\ x.event.to \in AcceptedStates
                       /\ claim.delivered => x.event.to = "DELIVERED"

(* History only goes forward: no entry of the log is lost or rewritten, an   *)
(* entity changes by one revision at a time, its clock and generation never  *)
(* go back, and a terminal entity never changes.                             *)
OnlyForward ==
    [][/\ log \subseteq log'
       /\ \A e \in Present : snapshot'[e] # snapshot[e] =>
            /\ snapshot'[e].revision = snapshot[e].revision + 1
            /\ snapshot'[e].at >= snapshot[e].at
            /\ snapshot'[e].generation = snapshot[e].generation
            /\ ~ IsTerminal(MachineOf[e], snapshot[e].state)]_vars
=============================================================================
