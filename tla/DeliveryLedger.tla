--------------------------- MODULE DeliveryLedger ---------------------------
(***************************************************************************)
(* The communication service's delivery ledger                             *)
(* (src/src/communication_service/delivery_ledger.py).                     *)
(*                                                                         *)
(* The ledger is one SQLite file.  Each operation below is one             *)
(* BEGIN IMMEDIATE transaction under the ledger's lock, hence one atomic   *)
(* action; a Python exception rolls the transaction back, hence a disabled *)
(* action; an idempotent return is a step that changes nothing.            *)
(*                                                                         *)
(* A delivery ticket is a signed, immutable message: the effect, the run   *)
(* (the pair request_id, run_id) and the generation it names are functions *)
(* of the ticket.  delivery_id is in bijection with effect_id and is not   *)
(* kept apart.  Times are positive naturals; 0 stands for SQL NULL.        *)
(***************************************************************************)
EXTENDS Naturals, Sequences

CONSTANTS
    Effect,      \* effect_id values
    Ticket,      \* ticket_id values
    Run,         \* (request_id, run_id) pairs
    EffectOf,    \* the effect a ticket authorises
    RunOf,       \* the run a ticket belongs to
    GenOf,       \* the generation a ticket was issued in
    Times,       \* clock readings the callers may pass
    NoTicket,    \* the ticket column of an effect that has no row
    NoReceipt    \* SQL NULL in the receipt columns

ASSUME LedgerAssumption ==
    /\ EffectOf \in [Ticket -> Effect]
    /\ RunOf \in [Ticket -> Run]
    /\ GenOf \in [Ticket -> Nat]
    /\ Times \subseteq Nat \ {0}
    /\ NoTicket \notin Ticket
    /\ NoReceipt \notin [ticket : Ticket,
                          status : {"CHANNEL_ACCEPTED", "DELIVERED",
                                    "FAILED_RETRYABLE", "FAILED_FINAL",
                                    "AMBIGUOUS", "RECONCILE_REQUIRED"},
                          observedAt : Times]

VARIABLES
    verified,    \* table verified_delivery_tickets: the set of ticket ids
    effects,     \* table delivery_effects, by effect_id
    events       \* table delivery_stage_events, by effect_id, in sequence order

vars == <<verified, effects, events>>

-----------------------------------------------------------------------------
(* Contract vocabulary. *)

AcceptedStatus == {"CHANNEL_ACCEPTED", "DELIVERED"}
FailedStatus == {"FAILED_RETRYABLE", "FAILED_FINAL"}
UnknownStatus == {"AMBIGUOUS", "RECONCILE_REQUIRED"}
ReceiptStatus == AcceptedStatus \cup FailedStatus \cup UnknownStatus

EffectState == AcceptedStatus \cup FailedStatus
                 \cup {"CLAIMED", "SIDE_EFFECT_STARTED",
                       "RECONCILE_REQUIRED", "RECONCILED"}

(* A receipt quotes the ticket it answers; two receipts are equal when all *)
(* of their fields are.                                                    *)
Receipt == [ticket : Ticket, status : ReceiptStatus, observedAt : Times]

(* reconcile_reason_code: NULL, the error code of the ambiguous receipt, or *)
(* the code recover_ambiguous writes.                                       *)
Reason == {"NULL", "receipt_error_code", "receipt_missing_after_restart"}

Row == [state : EffectState \cup {"NONE"},
        ticket : Ticket \cup {NoTicket},
        claimedAt : Times \cup {0},
        startedAt : Times \cup {0},
        updatedAt : Times \cup {0},
        receipt : Receipt \cup {NoReceipt},
        reason : Reason]

NoRow == [state |-> "NONE", ticket |-> NoTicket, claimedAt |-> 0,
          startedAt |-> 0, updatedAt |-> 0, receipt |-> NoReceipt,
          reason |-> "NULL"]

StageEvent == [from : EffectState \cup {"NULL"}, to : EffectState]

TypeOK ==
    /\ verified \subseteq Ticket
    /\ effects \in [Effect -> Row]
    /\ events \in [Effect -> Seq(StageEvent)]

Init ==
    /\ verified = {}
    /\ effects = [e \in Effect |-> NoRow]
    /\ events = [e \in Effect |-> <<>>]

-----------------------------------------------------------------------------
(* Operations. *)

AppendEvent(e, from, to) ==
    events' = [events EXCEPT ![e] = Append(@, [from |-> from, to |-> to])]

(* Mutant of AboveFence: the fence compares only tickets of one effect. *)
FencePerEffect(tk) ==
    \A u \in verified : EffectOf[u] = EffectOf[tk] => GenOf[tk] >= GenOf[u]

(* The SELECT MAX(generation) fence of consume_verified_ticket. *)
AboveFence(tk) ==
    \A u \in verified : RunOf[u] = RunOf[tk] => GenOf[tk] >= GenOf[u]

(* The row that _claim_locked inserts. *)
ClaimRow(tk, at) ==
    [NoRow EXCEPT !.state = "CLAIMED", !.ticket = tk,
                  !.claimedAt = at, !.updatedAt = at]

(* consume_verified_ticket: the fence is tested first, also for a ticket    *)
(* that was consumed before.  A ticket for an effect that another ticket    *)
(* already claimed is a conflict.                                           *)
ConsumeVerifiedTicket(tk, at) ==
    LET e == EffectOf[tk] IN
    /\ AboveFence(tk)
    /\ \/ /\ tk \in verified
          /\ effects[e].ticket = tk
          /\ UNCHANGED vars
       \/ /\ tk \notin verified
          /\ effects[e].state = "NONE"
          /\ verified' = verified \cup {tk}
          /\ effects' = [effects EXCEPT ![e] = ClaimRow(tk, at)]
          /\ AppendEvent(e, "NULL", "CLAIMED")

StartRow(row, at) ==
    [row EXCEPT !.state = "SIDE_EFFECT_STARTED",
                !.startedAt = at, !.updatedAt = at]

(* Mutant of MarkSideEffectStarted: an ambiguous effect may start again. *)
RestartAmbiguous(e, at) ==
    /\ effects[e].state \in {"CLAIMED", "RECONCILE_REQUIRED"}
    /\ at >= effects[e].claimedAt
    /\ effects' = [effects EXCEPT ![e] = StartRow(@, at)]
    /\ AppendEvent(e, effects[e].state, "SIDE_EFFECT_STARTED")
    /\ UNCHANGED verified

(* mark_side_effect_started *)
MarkSideEffectStarted(e, at) ==
    \/ /\ effects[e].state = "SIDE_EFFECT_STARTED"
       /\ effects[e].startedAt = at
       /\ UNCHANGED vars
    \/ /\ effects[e].state = "CLAIMED"
       /\ at >= effects[e].claimedAt
       /\ effects' = [effects EXCEPT ![e] = StartRow(@, at)]
       /\ AppendEvent(e, "CLAIMED", "SIDE_EFFECT_STARTED")
       /\ UNCHANGED verified

(* The state a receipt moves an effect to. *)
ReceiptTarget(state, status) ==
    IF state = "RECONCILE_REQUIRED" THEN "RECONCILED"
    ELSE IF status \in UnknownStatus THEN "RECONCILE_REQUIRED"
    ELSE status

ReceiptRow(row, r) ==
    LET target == ReceiptTarget(row.state, r.status) IN
    [row EXCEPT !.state = target, !.updatedAt = r.observedAt, !.receipt = r,
                !.reason = IF target = "RECONCILE_REQUIRED"
                           THEN "receipt_error_code" ELSE "NULL"]

(* Mutant of ReceiptAdmissible: the reconciliation flag opens settled       *)
(* effects too.                                                             *)
ReconcileAnything(row, r, absentVerified, reconciliation) ==
    /\ row.startedAt # 0
    /\ reconciliation \/ row.receipt = NoReceipt

(* The refusals of record_receipt for a receipt that is not already stored. *)
ReceiptAdmissible(row, r, absentVerified, reconciliation) ==
    /\ row.receipt # NoReceipt =>
           row.state = "RECONCILE_REQUIRED" /\ reconciliation
    /\ row.state = "RECONCILE_REQUIRED" => reconciliation
    /\ r.status \in AcceptedStatus \cup UnknownStatus => row.startedAt # 0
    /\ (row.state = "SIDE_EFFECT_STARTED" /\ r.status = "FAILED_RETRYABLE")
           => absentVerified
    /\ row.state \in {"CLAIMED", "SIDE_EFFECT_STARTED", "RECONCILE_REQUIRED"}

(* record_receipt.  The last guard is the column constraint                 *)
(* updated_at_ms >= claimed_at_ms, which rolls the update back.             *)
RecordReceipt(e, r, absentVerified, reconciliation) ==
    LET row == effects[e] IN
    /\ row.state # "NONE"
    /\ r.ticket = row.ticket
    /\ \/ /\ row.receipt = r
          /\ UNCHANGED vars
       \/ /\ row.receipt # r
          /\ ReceiptAdmissible(row, r, absentVerified, reconciliation)
          /\ r.observedAt >= row.claimedAt
          /\ effects' = [effects EXCEPT ![e] = ReceiptRow(@, r)]
          /\ AppendEvent(e, row.state, ReceiptTarget(row.state, r.status))
          /\ UNCHANGED verified

Started == {e \in Effect : effects[e].state = "SIDE_EFFECT_STARTED"}

(* Mutants of LostRow: no reason is given; the effect becomes sendable again. *)
LostWithoutReason(row, now) ==
    [row EXCEPT !.state = "RECONCILE_REQUIRED", !.updatedAt = now]
RequeuedRow(row, now) ==
    [row EXCEPT !.state = "CLAIMED", !.startedAt = 0, !.updatedAt = now]

LostRow(row, now) ==
    [row EXCEPT !.state = "RECONCILE_REQUIRED", !.updatedAt = now,
                !.reason = "receipt_missing_after_restart"]

(* Mutant of RecoverAmbiguous: the rows change without their stage events. *)
RecoverUnlogged(now) ==
    /\ \A e \in Started : now >= effects[e].startedAt
    /\ effects' = [e \in Effect |->
           IF e \in Started THEN LostRow(effects[e], now) ELSE effects[e]]
    /\ UNCHANGED <<verified, events>>

(* recover_ambiguous: run once when the service starts, for every effect    *)
(* whose boundary was crossed and whose receipt never became durable.       *)
RecoverAmbiguous(now) ==
    /\ \A e \in Started : now >= effects[e].startedAt
    /\ effects' = [e \in Effect |->
           IF e \in Started THEN LostRow(effects[e], now) ELSE effects[e]]
    /\ events' = [e \in Effect |->
           IF e \in Started
           THEN Append(events[e], [from |-> "SIDE_EFFECT_STARTED",
                                   to |-> "RECONCILE_REQUIRED"])
           ELSE events[e]]
    /\ UNCHANGED verified

LedgerStep ==
    \/ \E tk \in Ticket, at \in Times : ConsumeVerifiedTicket(tk, at)
    \/ \E e \in Effect, at \in Times : MarkSideEffectStarted(e, at)
    \/ \E e \in Effect, r \in Receipt, a, c \in BOOLEAN :
           RecordReceipt(e, r, a, c)
    \/ \E now \in Times : RecoverAmbiguous(now)

Next == LedgerStep

Spec == Init /\ [][Next]_vars

-----------------------------------------------------------------------------
(* Properties. *)

(* The CHECK clauses of a delivery_effects row. *)
RowOK(row) ==
    /\ row.state = "NONE" => row = NoRow
    /\ row.state \in {"CLAIMED", "SIDE_EFFECT_STARTED"} =>
           row.receipt = NoReceipt /\ row.reason = "NULL"
    /\ row.state = "CLAIMED" => row.startedAt = 0
    /\ row.state \in {"SIDE_EFFECT_STARTED", "RECONCILE_REQUIRED"} =>
           row.startedAt # 0
    /\ row.state = "RECONCILE_REQUIRED" => row.reason # "NULL"
    /\ row.state \in AcceptedStatus \cup FailedStatus \cup {"RECONCILED"} =>
           row.receipt # NoReceipt

(* The table constraint of delivery_effects: whatever the order of receipts, *)
(* restarts and reconciliations, every operation leaves rows that satisfy    *)
(* the CHECK clauses, so no code path ever fails on them half way.           *)
RowCheck == \A e \in Effect : RowOK(effects[e])

(* The part of _verify_rows about the stage events of one effect. *)
ChainOK(state, chain) ==
    /\ Len(chain) > 0
    /\ chain[1] = [from |-> "NULL", to |-> "CLAIMED"]
    /\ \A i \in 2..Len(chain) : chain[i].from = chain[i-1].to
    /\ chain[Len(chain)].to = state

(* The integrity scan _verify_rows, run at every open and before a drain,    *)
(* accepts every reachable ledger: tickets and effects pair up one to one    *)
(* and each effect's stage events form an unbroken chain that starts with    *)
(* the claim and ends in the row's state.                                    *)
VerifyRows ==
    /\ \A tk \in verified : effects[EffectOf[tk]].ticket = tk
    /\ \A e \in Effect : effects[e].state # "NONE" =>
         /\ effects[e].ticket \in verified
         /\ ChainOK(effects[e].state, events[e])

StartsIn(chain) == {i \in 1..Len(chain) : chain[i].to = "SIDE_EFFECT_STARTED"}

(* The external boundary of an effect is crossed at most once in the whole   *)
(* life of the ledger, whatever receipts, restarts and retries follow: the   *)
(* event log holds at most one start, exactly when the started column of     *)
(* the row says so.                                                          *)
AtMostOneStart ==
    \A e \in Effect :
      /\ \A i, j \in StartsIn(events[e]) : i = j
      /\ effects[e].startedAt # 0 <=> StartsIn(events[e]) # {}

(* A platform result, or a reconciled one, is only ever recorded for an      *)
(* effect whose start was durable before.                                    *)
NoResultWithoutStart ==
    \A e \in Effect :
      effects[e].state \in AcceptedStatus \cup {"RECONCILE_REQUIRED", "RECONCILED"}
        => effects[e].startedAt # 0

(* What the three tables must satisfy after every transaction: their types,  *)
(* the CHECK clauses of delivery_effects, and a durable start behind every   *)
(* result.                                                                   *)
TablesValid == TypeOK /\ RowCheck /\ NoResultWithoutStart

(* Two tickets never authorise the same effect, and the second ticket of a   *)
(* run never carries a lower generation than the first: the fence is         *)
(* monotone in the order of the claims.                                      *)
FenceMonotone ==
    [][\A tk \in verified' \ verified :
         /\ \A u \in verified : RunOf[u] = RunOf[tk] => GenOf[u] <= GenOf[tk]
         /\ \A u \in verified : EffectOf[u] # EffectOf[tk]]_vars

(* Once an effect has a settled outcome its row and its history never change *)
(* again; an ambiguous one changes only by becoming RECONCILED, and keeps    *)
(* the time at which it crossed.                                             *)
SettledIsFinal ==
    [][\A e \in Effect :
         /\ effects[e].state \in AcceptedStatus \cup FailedStatus \cup {"RECONCILED"}
              => effects'[e] = effects[e] /\ events'[e] = events[e]
         /\ effects[e].state = "RECONCILE_REQUIRED"
              => /\ effects'[e].state \in {"RECONCILE_REQUIRED", "RECONCILED"}
                 /\ effects'[e].startedAt = effects[e].startedAt]_vars

-----------------------------------------------------------------------------
(* The ledger implements the abstract effect boundary. *)

PhaseOf(state) ==
    CASE state = "NONE" -> "absent"
      [] state = "CLAIMED" -> "claimed"
      [] state = "SIDE_EFFECT_STARTED" -> "crossed"
      [] state \in AcceptedStatus -> "accepted"
      [] state \in FailedStatus -> "failed"
      [] state = "RECONCILE_REQUIRED" -> "unknown"
      [] OTHER -> "reconciled"

Boundary == INSTANCE EffectBoundary
              WITH phase <- [e \in Effect |-> PhaseOf(effects[e].state)]

(* Every ledger transaction is a step of EffectBoundary or none: the boundary *)
(* is crossed only from a claim, success needs a crossing, and a restart      *)
(* turns a crossed effect into "unknown", never back into a sendable one.     *)
ImplementsBoundary == Boundary!EBSpec
=============================================================================
