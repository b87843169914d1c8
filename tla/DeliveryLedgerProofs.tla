------------------------ MODULE DeliveryLedgerProofs ------------------------
(***************************************************************************)
(* Theorems about DeliveryLedger, for every set of effects, tickets, runs, *)
(* generations and times.                                                  *)
(***************************************************************************)
EXTENDS DeliveryLedger, TLAPS

(* The inductive invariant.  Beyond the checked invariants it says that the  *)
(* ticket of a row authorises that effect and no other, and that an effect   *)
(* without a row has no history.                                             *)
EffectInv(e) ==
    /\ RowOK(effects[e])
    /\ effects[e].state = "NONE" => events[e] = <<>>
    /\ effects[e].state # "NONE" =>
         /\ effects[e].ticket \in verified
         /\ EffectOf[effects[e].ticket] = e
         /\ ChainOK(effects[e].state, events[e])
    /\ \A i, j \in StartsIn(events[e]) : i = j
    /\ effects[e].startedAt # 0 <=> StartsIn(events[e]) # {}
    /\ effects[e].state \in AcceptedStatus \cup {"RECONCILE_REQUIRED", "RECONCILED"}
         => effects[e].startedAt # 0

LedgerInv ==
    /\ TypeOK
    /\ \A e \in Effect : EffectInv(e)
    /\ \A tk \in verified : effects[EffectOf[tk]].ticket = tk

-----------------------------------------------------------------------------
(* Rows built by the operations are rows, with the fields one expects. *)

(* The row a claim inserts. *)
LEMMA ClaimRowFields ==
    ASSUME NEW tk \in Ticket, NEW at \in Times
    PROVE  /\ ClaimRow(tk, at) \in Row
           /\ ClaimRow(tk, at).state = "CLAIMED"
           /\ ClaimRow(tk, at).ticket = tk
           /\ ClaimRow(tk, at).startedAt = 0
           /\ ClaimRow(tk, at).receipt = NoReceipt
           /\ ClaimRow(tk, at).reason = "NULL"
  BY DEF ClaimRow, NoRow, Row, EffectState, Reason

(* The row after mark_side_effect_started. *)
LEMMA StartRowFields ==
    ASSUME NEW row \in Row, NEW at \in Times
    PROVE  /\ StartRow(row, at) \in Row
           /\ StartRow(row, at).state = "SIDE_EFFECT_STARTED"
           /\ StartRow(row, at).ticket = row.ticket
           /\ StartRow(row, at).startedAt = at
           /\ StartRow(row, at).receipt = row.receipt
           /\ StartRow(row, at).reason = row.reason
  BY DEF StartRow, Row, EffectState

(* The row after recover_ambiguous. *)
LEMMA LostRowFields ==
    ASSUME NEW row \in Row, NEW now \in Times
    PROVE  /\ LostRow(row, now) \in Row
           /\ LostRow(row, now).state = "RECONCILE_REQUIRED"
           /\ LostRow(row, now).ticket = row.ticket
           /\ LostRow(row, now).startedAt = row.startedAt
           /\ LostRow(row, now).receipt = row.receipt
           /\ LostRow(row, now).reason = "receipt_missing_after_restart"
  BY DEF LostRow, Row, EffectState, Reason

(* The states a receipt can lead to. *)
LEMMA ReceiptTargetType ==
    ASSUME NEW state, NEW status \in ReceiptStatus
    PROVE  ReceiptTarget(state, status) \in
             AcceptedStatus \cup FailedStatus \cup {"RECONCILE_REQUIRED", "RECONCILED"}
  BY DEF ReceiptTarget, ReceiptStatus, UnknownStatus

(* The row after record_receipt. *)
LEMMA ReceiptRowFields ==
    ASSUME NEW row \in Row, NEW r \in Receipt
    PROVE  /\ ReceiptRow(row, r) \in Row
           /\ ReceiptRow(row, r).state = ReceiptTarget(row.state, r.status)
           /\ ReceiptRow(row, r).ticket = row.ticket
           /\ ReceiptRow(row, r).startedAt = row.startedAt
           /\ ReceiptRow(row, r).receipt = r
           /\ ReceiptRow(row, r).reason =
                IF ReceiptTarget(row.state, r.status) = "RECONCILE_REQUIRED"
                THEN "receipt_error_code" ELSE "NULL"
  <1> DEFINE target == ReceiptTarget(row.state, r.status)
  <1>1. target \in EffectState
    BY ReceiptTargetType DEF Receipt, EffectState
  <1>2. r.observedAt \in Times
    BY DEF Receipt
  <1> DEFINE reason == IF target = "RECONCILE_REQUIRED" THEN "receipt_error_code" ELSE "NULL"
             new == [row EXCEPT !.state = target, !.updatedAt = r.observedAt, !.receipt = r,
                                !.reason = reason]
  <1>3. ReceiptRow(row, r) = new
    BY DEF ReceiptRow
  <1>4. reason \in Reason
    BY DEF Reason
  <1> HIDE DEF target, reason
  <1>5. /\ new \in Row /\ new.state = target /\ new.ticket = row.ticket
        /\ new.startedAt = row.startedAt /\ new.receipt = r /\ new.reason = reason
    BY <1>1, <1>2, <1>4 DEF Row
  <1> HIDE DEF new
  <1> QED
    BY <1>3, <1>5 DEF target, reason

(* Appending the event of a state change keeps the chain unbroken, and adds  *)
(* a start exactly when the new state is SIDE_EFFECT_STARTED.                *)
LEMMA ChainAppend ==
    ASSUME NEW chain \in Seq(StageEvent), NEW from \in EffectState,
           NEW to \in EffectState, ChainOK(from, chain)
    PROVE  /\ Append(chain, [from |-> from, to |-> to]) \in Seq(StageEvent)
           /\ ChainOK(to, Append(chain, [from |-> from, to |-> to]))
           /\ to # "SIDE_EFFECT_STARTED" =>
                StartsIn(Append(chain, [from |-> from, to |-> to])) = StartsIn(chain)
           /\ to = "SIDE_EFFECT_STARTED" =>
                StartsIn(Append(chain, [from |-> from, to |-> to]))
                  = StartsIn(chain) \cup {Len(chain) + 1}
  <1> DEFINE ev == [from |-> from, to |-> to]
  <1> DEFINE new == Append(chain, ev)
  <1>1. ev \in StageEvent
    BY DEF StageEvent
  <1>2. /\ new \in Seq(StageEvent)
        /\ Len(chain) \in Nat
        /\ Len(new) = Len(chain) + 1
        /\ \A i \in 1..Len(chain) : new[i] = chain[i]
        /\ new[Len(chain) + 1] = ev
    BY <1>1
  <1> HIDE DEF new
  <1>3. ChainOK(to, new)
    <2>1. Len(chain) > 0 /\ chain[Len(chain)].to = from /\ ev.from = from /\ ev.to = to
      BY DEF ChainOK
    <2>2. new[1] = [from |-> "NULL", to |-> "CLAIMED"]
      BY <1>2, <2>1 DEF ChainOK
    <2> HIDE DEF ev
    <2>3. ASSUME NEW i \in 2 .. Len(new) PROVE new[i].from = new[i - 1].to
      <3>1. CASE i = Len(chain) + 1
        BY <3>1, <1>2, <2>1
      <3>2. CASE i # Len(chain) + 1
        <4>1. i \in 2 .. Len(chain) /\ i - 1 \in 1 .. Len(chain) /\ i \in 1 .. Len(chain)
          BY <3>2, <1>2
        <4> QED
          BY <4>1, <1>2 DEF ChainOK
      <3> QED
        BY <3>1, <3>2
    <2> QED
      BY <1>2, <2>1, <2>2, <2>3 DEF ChainOK
  <1>4. to # "SIDE_EFFECT_STARTED" => StartsIn(new) = StartsIn(chain)
    BY <1>2 DEF StartsIn
  <1>5. to = "SIDE_EFFECT_STARTED" =>
           StartsIn(new) = StartsIn(chain) \cup {Len(chain) + 1}
    BY <1>2 DEF StartsIn
  <1> QED
    BY <1>2, <1>3, <1>4, <1>5 DEF new

(* The first event of an effect. *)
LEMMA ChainFirst ==
    LET new == Append(<<>>, [from |-> "NULL", to |-> "CLAIMED"]) IN
    /\ new \in Seq(StageEvent)
    /\ ChainOK("CLAIMED", new)
    /\ StartsIn(new) = {}
  BY DEF ChainOK, StartsIn, StageEvent, EffectState

-----------------------------------------------------------------------------
(* Init establishes the invariant and every operation preserves it. *)

(* An empty ledger satisfies the invariant. *)
LEMMA InitInv == Init => LedgerInv
  <1> SUFFICES ASSUME Init PROVE LedgerInv
    OBVIOUS
  <1>1. NoRow \in Row
    BY DEF NoRow, Row, Reason
  <1>2. TypeOK
    BY <1>1 DEF Init, TypeOK
  <1>3. ASSUME NEW e \in Effect PROVE EffectInv(e)
    <2>1. effects[e] = NoRow /\ events[e] = <<>>
      BY DEF Init
    <2>2. StartsIn(<<>>) = {}
      BY DEF StartsIn
    <2>3. RowOK(NoRow)
      BY DEF RowOK, NoRow, AcceptedStatus, FailedStatus
    <2> QED
      BY <2>1, <2>2, <2>3 DEF EffectInv, NoRow, AcceptedStatus
  <1> QED
    BY <1>2, <1>3 DEF LedgerInv, Init

(* An idempotent return changes nothing. *)
LEMMA StutterInv == LedgerInv /\ UNCHANGED vars => LedgerInv'
  BY DEF LedgerInv, TypeOK, EffectInv, vars, RowOK, ChainOK, StartsIn

(* consume_verified_ticket preserves the invariant. *)
LEMMA ConsumeInv ==
    ASSUME LedgerInv, NEW tk \in Ticket, NEW at \in Times,
           ConsumeVerifiedTicket(tk, at)
    PROVE  LedgerInv'
  <1> USE LedgerAssumption
  <1>1. CASE UNCHANGED vars
    BY <1>1, StutterInv
  <1>2. CASE ~ UNCHANGED vars
    <2>1. PICK e \in Effect : e = EffectOf[tk]
      OBVIOUS
    <2>2. /\ tk \notin verified
          /\ effects[e].state = "NONE"
          /\ verified' = verified \cup {tk}
          /\ effects' = [effects EXCEPT ![e] = ClaimRow(tk, at)]
          /\ events' = [events EXCEPT ![e] = Append(@, [from |-> "NULL", to |-> "CLAIMED"])]
      BY <1>2, <2>1 DEF ConsumeVerifiedTicket, AppendEvent
    <2>3. events[e] = <<>>
      BY <2>2, <2>1 DEF LedgerInv, EffectInv
    <2>4. effects \in [Effect -> Row] /\ events \in [Effect -> Seq(StageEvent)]
          /\ verified \subseteq Ticket
      BY DEF LedgerInv, TypeOK
    <2>5. effects'[e] = ClaimRow(tk, at)
          /\ events'[e] = Append(<<>>, [from |-> "NULL", to |-> "CLAIMED"])
      BY <2>2, <2>1, <2>3, <2>4
    <2>6. \A x \in Effect : x # e => effects'[x] = effects[x] /\ events'[x] = events[x]
      BY <2>2, <2>4
    <2>7. TypeOK'
      BY <2>2, <2>1, <2>3, <2>4, ClaimRowFields, ChainFirst DEF TypeOK
    <2>8. EffectInv(e)'
      <3>1. RowOK(effects[e])'
        BY <2>5, ClaimRowFields DEF RowOK, AcceptedStatus, FailedStatus
      <3>2. EffectOf[tk] = e
        BY <2>1
      <3>3. ChainOK(effects[e].state, events[e])'
        <4> DEFINE c == Append(<<>>, [from |-> "NULL", to |-> "CLAIMED"])
        <4>1. effects'[e].state = "CLAIMED" /\ events'[e] = c
          BY <2>5, ClaimRowFields
        <4>2. ChainOK("CLAIMED", c)
          BY ChainFirst
        <4> HIDE DEF c
        <4>3. /\ Len(c) > 0
              /\ c[1] = [from |-> "NULL", to |-> "CLAIMED"]
              /\ \A i \in 2..Len(c) : c[i].from = c[i - 1].to
              /\ c[Len(c)].to = "CLAIMED"
          BY <4>2 DEF ChainOK
        <4> QED
          BY <4>1, <4>3 DEF ChainOK
      <3>4. StartsIn(events[e])' = {}
        BY <2>5, ChainFirst DEF StartsIn
      <3>5. /\ effects'[e].state = "CLAIMED"
            /\ effects'[e].ticket = tk
            /\ effects'[e].startedAt = 0
        BY <2>5, ClaimRowFields
      <3> QED
        BY <3>1, <3>2, <3>3, <3>4, <3>5, <2>2 DEF EffectInv, AcceptedStatus
    <2>9. ASSUME NEW x \in Effect, x # e PROVE EffectInv(x)'
      BY <2>2, <2>6, <2>9 DEF LedgerInv, EffectInv, ChainOK, StartsIn, RowOK
    <2>10. ASSUME NEW u \in verified' PROVE effects'[EffectOf[u]].ticket = u
      <3>1. CASE u = tk
        BY <3>1, <2>1, <2>5, ClaimRowFields
      <3>2. CASE u # tk
        <4>1. u \in verified /\ effects[EffectOf[u]].ticket = u
          BY <3>2, <2>2 DEF LedgerInv
        <4>2. EffectOf[u] \in Effect
          BY <4>1, <2>4
        <4>3. EffectOf[u] # e
          <5> SUFFICES ASSUME EffectOf[u] = e PROVE FALSE
            OBVIOUS
          <5>1. effects[e] = NoRow
            BY <2>2, <2>1 DEF LedgerInv, EffectInv, RowOK
          <5>2. u = NoTicket
            BY <4>1, <5>1 DEF NoRow
          <5> QED
            BY <5>2, <4>1, <2>4
        <4> QED
          BY <4>1, <4>2, <4>3, <2>6
      <3> QED
        BY <3>1, <3>2
    <2> QED
      BY <2>7, <2>8, <2>9, <2>10 DEF LedgerInv
  <1> QED
    BY <1>1, <1>2

(* What one update of a claimed effect's row and history must satisfy to     *)
(* preserve the invariant: shared by the two operations that do one.         *)
LEMMA UpdateInv ==
    ASSUME LedgerInv, NEW e \in Effect, NEW row \in Row, NEW to \in EffectState,
           effects[e].state # "NONE",
           effects' = [effects EXCEPT ![e] = row],
           events' = [events EXCEPT ![e] =
                        Append(@, [from |-> effects[e].state, to |-> to])],
           verified' = verified,
           row.state = to,
           row.ticket = effects[e].ticket,
           RowOK(row),
           to = "SIDE_EFFECT_STARTED" => effects[e].startedAt = 0,
           to # "SIDE_EFFECT_STARTED" => row.startedAt = effects[e].startedAt,
           to \in AcceptedStatus \cup {"RECONCILE_REQUIRED", "RECONCILED"}
             => effects[e].startedAt # 0
    PROVE  LedgerInv'
  <1> DEFINE ev == [from |-> effects[e].state, to |-> to]
  <1>1. effects \in [Effect -> Row] /\ events \in [Effect -> Seq(StageEvent)]
        /\ verified \subseteq Ticket
    BY DEF LedgerInv, TypeOK
  <1>2. effects[e].state \in EffectState
    BY <1>1 DEF Row
  <1>3. /\ events[e] \in Seq(StageEvent)
        /\ ChainOK(effects[e].state, events[e])
    BY <1>1 DEF LedgerInv, EffectInv
  <1>4. /\ Append(events[e], ev) \in Seq(StageEvent)
        /\ ChainOK(to, Append(events[e], ev))
        /\ to # "SIDE_EFFECT_STARTED" =>
             StartsIn(Append(events[e], ev)) = StartsIn(events[e])
        /\ to = "SIDE_EFFECT_STARTED" =>
             StartsIn(Append(events[e], ev)) = StartsIn(events[e]) \cup {Len(events[e]) + 1}
    BY <1>2, <1>3, ChainAppend
  <1>5. effects'[e] = row /\ events'[e] = Append(events[e], ev)
    BY <1>1
  <1>6. \A x \in Effect : x # e => effects'[x] = effects[x] /\ events'[x] = events[x]
    BY <1>1
  <1> HIDE DEF ev
  <1>7. TypeOK'
    <2>1. effects' \in [Effect -> Row]
      BY <1>1
    <2>2. events' \in [Effect -> Seq(StageEvent)]
      BY <1>1, <1>4 DEF ev
    <2> QED
      BY <2>1, <2>2, <1>1 DEF TypeOK
  <1>8. EffectInv(e)'
    <2>1. StartsIn(events[e]) = {} <=> effects[e].startedAt = 0
      BY DEF LedgerInv, EffectInv
    <2>2. \A i, j \in StartsIn(events[e]) : i = j
      BY DEF LedgerInv, EffectInv
    <2>3. (effects[e].ticket \in verified /\ EffectOf[effects[e].ticket] = e)
      BY DEF LedgerInv, EffectInv
    <2>4. /\ \A i, j \in StartsIn(Append(events[e], ev)) : i = j
          /\ row.startedAt # 0 <=> StartsIn(Append(events[e], ev)) # {}
      <3>1. CASE to = "SIDE_EFFECT_STARTED"
        <4>1. row.startedAt # 0
          BY <3>1 DEF RowOK
        <4>2. StartsIn(Append(events[e], ev)) = {Len(events[e]) + 1}
          BY <3>1, <2>1, <1>4
        <4> QED
          BY <4>1, <4>2
      <3>2. CASE to # "SIDE_EFFECT_STARTED"
        BY <3>2, <2>1, <2>2, <1>4
      <3> QED
        BY <3>1, <3>2
    <2>5. to # "NONE"
      BY DEF EffectState, AcceptedStatus, FailedStatus
    <2>6. row.state \in AcceptedStatus \cup {"RECONCILE_REQUIRED", "RECONCILED"}
             => row.startedAt # 0
      BY DEF AcceptedStatus
    <2>7. ChainOK(effects[e].state, events[e])'
      BY <1>4, <1>5 DEF ChainOK
    <2>8. RowOK(effects[e])'
      BY <1>5 DEF RowOK
    <2>9. /\ (\A i, j \in StartsIn(events[e]) : i = j)'
          /\ (effects[e].startedAt # 0 <=> StartsIn(events[e]) # {})'
      BY <2>4, <1>5 DEF StartsIn
    <2>10. /\ effects'[e].state # "NONE"
           /\ effects'[e].ticket \in verified' /\ EffectOf[effects'[e].ticket] = e
           /\ effects'[e].state \in AcceptedStatus \cup {"RECONCILE_REQUIRED", "RECONCILED"}
                => effects'[e].startedAt # 0
      BY <1>5, <2>3, <2>5, <2>6
    <2> QED
      BY <2>7, <2>8, <2>9, <2>10 DEF EffectInv, AcceptedStatus
  <1>9. ASSUME NEW x \in Effect, x # e PROVE EffectInv(x)'
    BY <1>6, <1>9 DEF LedgerInv, EffectInv, ChainOK, StartsIn, RowOK
  <1>10. ASSUME NEW u \in verified' PROVE effects'[EffectOf[u]].ticket = u
    <2>1. u \in verified /\ effects[EffectOf[u]].ticket = u /\ EffectOf[u] \in Effect
      BY <1>1, LedgerAssumption DEF LedgerInv
    <2> QED
      BY <2>1, <1>5, <1>6
  <1> QED
    BY <1>7, <1>8, <1>9, <1>10 DEF LedgerInv

(* mark_side_effect_started preserves the invariant. *)
LEMMA StartInv ==
    ASSUME LedgerInv, NEW e \in Effect, NEW at \in Times,
           MarkSideEffectStarted(e, at)
    PROVE  LedgerInv'
  <1>1. CASE UNCHANGED vars
    BY <1>1, StutterInv
  <1>2. CASE ~ UNCHANGED vars
    <2>1. /\ effects[e].state = "CLAIMED"
          /\ effects' = [effects EXCEPT ![e] = StartRow(effects[e], at)]
          /\ events' = [events EXCEPT ![e] =
                 Append(@, [from |-> "CLAIMED", to |-> "SIDE_EFFECT_STARTED"])]
          /\ verified' = verified
      BY <1>2 DEF MarkSideEffectStarted, AppendEvent
    <2>2. effects[e] \in Row /\ RowOK(effects[e])
      BY DEF LedgerInv, TypeOK, EffectInv
    <2> DEFINE row == StartRow(effects[e], at)
    <2>3. /\ row \in Row
          /\ row.state = "SIDE_EFFECT_STARTED"
          /\ row.ticket = effects[e].ticket
          /\ row.startedAt = at
          /\ row.receipt = effects[e].receipt
          /\ row.reason = effects[e].reason
      BY <2>2, StartRowFields
    <2>4. at # 0
      BY LedgerAssumption
    <2> HIDE DEF row
    <2>5. RowOK(row)
      BY <2>1, <2>2, <2>3, <2>4 DEF RowOK, AcceptedStatus, FailedStatus
    <2>6. effects[e].startedAt = 0
      BY <2>1, <2>2 DEF RowOK
    <2>7. "SIDE_EFFECT_STARTED" \in EffectState
          /\ "SIDE_EFFECT_STARTED" \notin AcceptedStatus \cup {"RECONCILE_REQUIRED", "RECONCILED"}
      BY DEF EffectState, AcceptedStatus
    <2>8. effects' = [effects EXCEPT ![e] = row]
          /\ events' = [events EXCEPT ![e] =
                 Append(@, [from |-> effects[e].state, to |-> "SIDE_EFFECT_STARTED"])]
      BY <2>1 DEF row
    <2> QED
      BY <2>1, <2>3, <2>5, <2>6, <2>7, <2>8, UpdateInv
  <1> QED
    BY <1>1, <1>2

(* record_receipt preserves the invariant. *)
LEMMA ReceiptInv ==
    ASSUME LedgerInv, NEW e \in Effect, NEW r \in Receipt,
           NEW absentVerified, NEW reconciliation,
           RecordReceipt(e, r, absentVerified, reconciliation)
    PROVE  LedgerInv'
  <1>1. CASE UNCHANGED vars
    BY <1>1, StutterInv
  <1>2. CASE ~ UNCHANGED vars
    <2> DEFINE target == ReceiptTarget(effects[e].state, r.status)
    <2> DEFINE row == ReceiptRow(effects[e], r)
    <2>1. /\ effects[e].state # "NONE"
          /\ ReceiptAdmissible(effects[e], r, absentVerified, reconciliation)
          /\ effects' = [effects EXCEPT ![e] = row]
          /\ events' = [events EXCEPT ![e] =
                 Append(@, [from |-> effects[e].state, to |-> target])]
          /\ verified' = verified
      BY <1>2 DEF RecordReceipt, AppendEvent
    <2>2. effects[e] \in Row /\ RowOK(effects[e])
      BY DEF LedgerInv, TypeOK, EffectInv
    <2>3. /\ row \in Row
          /\ row.state = target
          /\ row.ticket = effects[e].ticket
          /\ row.startedAt = effects[e].startedAt
          /\ row.receipt = r
          /\ target = "RECONCILE_REQUIRED" => row.reason = "receipt_error_code"
      BY <2>2, ReceiptRowFields
    <2>4. r.status \in ReceiptStatus
      BY DEF Receipt
    <2>5. target \in AcceptedStatus \cup FailedStatus \cup {"RECONCILE_REQUIRED", "RECONCILED"}
      BY <2>4, ReceiptTargetType
    <2>6. target \in EffectState /\ target # "SIDE_EFFECT_STARTED"
      BY <2>5 DEF EffectState, AcceptedStatus, FailedStatus
    <2>7. target \in AcceptedStatus \cup {"RECONCILE_REQUIRED", "RECONCILED"}
             => effects[e].startedAt # 0
      BY <2>1, <2>2, <2>4 DEF ReceiptTarget, ReceiptAdmissible, RowOK,
             ReceiptStatus, AcceptedStatus, FailedStatus, UnknownStatus
    <2>8. r # NoReceipt
      BY LedgerAssumption DEF Receipt, ReceiptStatus, AcceptedStatus,
             FailedStatus, UnknownStatus
    <2> HIDE DEF row, target
    <2>9. RowOK(row)
      BY <2>3, <2>5, <2>7, <2>8 DEF RowOK, AcceptedStatus, FailedStatus
    <2> QED
      BY <2>1, <2>3, <2>6, <2>7, <2>9, UpdateInv
  <1> QED
    BY <1>1, <1>2

(* recover_ambiguous preserves the invariant. *)
LEMMA RecoverInv ==
    ASSUME LedgerInv, NEW now \in Times, RecoverAmbiguous(now)
    PROVE  LedgerInv'
  <1>1. effects \in [Effect -> Row] /\ events \in [Effect -> Seq(StageEvent)]
        /\ verified \subseteq Ticket /\ verified' = verified
    BY DEF LedgerInv, TypeOK, RecoverAmbiguous
  <1> DEFINE lost == [from |-> "SIDE_EFFECT_STARTED", to |-> "RECONCILE_REQUIRED"]
  <1>2. ASSUME NEW e \in Effect, e \notin Started
        PROVE  effects'[e] = effects[e] /\ events'[e] = events[e]
    BY <1>2 DEF RecoverAmbiguous
  <1>3. ASSUME NEW e \in Effect, e \in Started
        PROVE  /\ effects[e].state = "SIDE_EFFECT_STARTED"
               /\ effects'[e] = LostRow(effects[e], now)
               /\ events'[e] = Append(events[e], lost)
    BY <1>3 DEF RecoverAmbiguous, Started
  <1>4. ASSUME NEW e \in Effect, e \in Started
        PROVE  /\ Append(events[e], lost) \in Seq(StageEvent)
               /\ ChainOK("RECONCILE_REQUIRED", Append(events[e], lost))
               /\ StartsIn(Append(events[e], lost)) = StartsIn(events[e])
    <2>1. /\ events[e] \in Seq(StageEvent)
          /\ ChainOK("SIDE_EFFECT_STARTED", events[e])
      BY <1>1, <1>3, <1>4 DEF LedgerInv, EffectInv
    <2>2. "SIDE_EFFECT_STARTED" \in EffectState /\ "RECONCILE_REQUIRED" \in EffectState
      BY DEF EffectState
    <2> QED
      BY <2>1, <2>2, ChainAppend
  <1> HIDE DEF lost
  <1>5. ASSUME NEW e \in Effect
        PROVE  effects'[e] \in Row /\ events'[e] \in Seq(StageEvent)
    <2>1. CASE e \in Started
      BY <2>1, <1>1, <1>3, <1>4, LostRowFields
    <2>2. CASE e \notin Started
      BY <2>2, <1>1, <1>2
    <2> QED
      BY <2>1, <2>2
  <1>6. TypeOK'
    <2>1. effects' = [e \in Effect |-> effects'[e]] /\ events' = [e \in Effect |-> events'[e]]
      BY DEF RecoverAmbiguous
    <2> QED
      BY <2>1, <1>1, <1>5 DEF TypeOK
  <1>7. ASSUME NEW e \in Effect PROVE EffectInv(e)'
    <2>1. CASE e \in Started
      <3>1. /\ effects'[e].state = "RECONCILE_REQUIRED"
            /\ effects'[e].ticket = effects[e].ticket
            /\ effects'[e].startedAt = effects[e].startedAt
            /\ effects'[e].reason = "receipt_missing_after_restart"
        BY <2>1, <1>1, <1>3, LostRowFields
      <3>2. EffectInv(e) /\ effects[e].state = "SIDE_EFFECT_STARTED"
        BY <2>1, <1>3 DEF LedgerInv
      <3>3. effects[e].startedAt # 0
        BY <3>2 DEF EffectInv, RowOK
      <3>4. RowOK(effects[e])'
        BY <3>1, <3>3 DEF RowOK, AcceptedStatus, FailedStatus
      <3>5. ChainOK(effects[e].state, events[e])'
        BY <3>1, <2>1, <1>3, <1>4 DEF ChainOK
      <3>6. StartsIn(events[e])' = StartsIn(events[e])
        BY <2>1, <1>3, <1>4 DEF StartsIn
      <3> QED
        BY <3>1, <3>2, <3>3, <3>4, <3>5, <3>6, <1>1 DEF EffectInv
    <2>2. CASE e \notin Started
      BY <2>2, <1>1, <1>2 DEF LedgerInv, EffectInv, ChainOK, StartsIn, RowOK
    <2> QED
      BY <2>1, <2>2
  <1>8. ASSUME NEW u \in verified' PROVE effects'[EffectOf[u]].ticket = u
    <2>1. u \in verified /\ effects[EffectOf[u]].ticket = u /\ EffectOf[u] \in Effect
      BY <1>1, LedgerAssumption DEF LedgerInv
    <2> QED
      BY <2>1, <1>1, <1>2, <1>3, LostRowFields
  <1> QED
    BY <1>6, <1>7, <1>8 DEF LedgerInv

(* One transaction of the ledger preserves the invariant. *)
LEMMA StepInv == LedgerInv /\ [Next]_vars => LedgerInv'
  <1> SUFFICES ASSUME LedgerInv, [Next]_vars PROVE LedgerInv'
    OBVIOUS
  <1>1. CASE UNCHANGED vars
    BY <1>1, StutterInv
  <1>2. ASSUME NEW tk \in Ticket, NEW at \in Times, ConsumeVerifiedTicket(tk, at)
        PROVE  LedgerInv'
    BY <1>2, ConsumeInv
  <1>3. ASSUME NEW e \in Effect, NEW at \in Times, MarkSideEffectStarted(e, at)
        PROVE  LedgerInv'
    BY <1>3, StartInv
  <1>4. ASSUME NEW e \in Effect, NEW r \in Receipt, NEW a \in BOOLEAN,
               NEW c \in BOOLEAN, RecordReceipt(e, r, a, c)
        PROVE  LedgerInv'
    BY <1>4, ReceiptInv
  <1>5. ASSUME NEW now \in Times, RecoverAmbiguous(now)
        PROVE  LedgerInv'
    BY <1>5, RecoverInv
  <1> QED
    BY <1>1, <1>2, <1>3, <1>4, <1>5 DEF Next, LedgerStep

(* The inductive invariant holds in every reachable state of the ledger. *)
THEOREM LedgerInvariant == Spec => []LedgerInv
  BY InitInv, StepInv, PTL DEF Spec

(* Type correctness of the three tables. *)
THEOREM TypeCorrect == Spec => []TypeOK
  <1>1. LedgerInv => TypeOK
    BY DEF LedgerInv
  <1> QED
    BY <1>1, LedgerInvariant, PTL

(* The delivery_effects CHECK clauses are never violated. *)
THEOREM RowsAlwaysValid == Spec => []RowCheck
  <1>1. LedgerInv => RowCheck
    BY DEF LedgerInv, EffectInv, RowCheck
  <1> QED
    BY <1>1, LedgerInvariant, PTL

(* The integrity scan run at every open never reports a corrupt ledger. *)
THEOREM ScanAlwaysAccepts == Spec => []VerifyRows
  <1>1. LedgerInv => VerifyRows
    BY DEF LedgerInv, EffectInv, VerifyRows
  <1> QED
    BY <1>1, LedgerInvariant, PTL

(* No effect ever crosses the external boundary twice. *)
THEOREM StartedAtMostOnce == Spec => []AtMostOneStart
  <1>1. LedgerInv => AtMostOneStart
    BY DEF LedgerInv, EffectInv, AtMostOneStart
  <1> QED
    BY <1>1, LedgerInvariant, PTL

(* No platform result without a durable start. *)
THEOREM ResultsFollowStart == Spec => []NoResultWithoutStart
  <1>1. LedgerInv => NoResultWithoutStart
    BY DEF LedgerInv, EffectInv, NoResultWithoutStart
  <1> QED
    BY <1>1, LedgerInvariant, PTL

(* The tables are well typed, satisfy the CHECK clauses of delivery_effects  *)
(* and hold no result without a start, after every transaction.              *)
THEOREM TablesAlwaysValid == Spec => []TablesValid
  <1>1. TypeOK /\ RowCheck /\ NoResultWithoutStart => TablesValid
    BY DEF TablesValid
  <1> QED
    BY <1>1, TypeCorrect, RowsAlwaysValid, ResultsFollowStart, PTL

-----------------------------------------------------------------------------
(* Action properties. *)

(* A claim is never admitted below the generation fence of its run, nor for  *)
(* an effect another ticket holds.                                           *)
THEOREM FenceIsMonotone == Spec => FenceMonotone
  <1> DEFINE Fence == \A tk \in verified' \ verified :
         /\ \A u \in verified : RunOf[u] = RunOf[tk] => GenOf[u] <= GenOf[tk]
         /\ \A u \in verified : EffectOf[u] # EffectOf[tk]
  <1>1. LedgerInv /\ [Next]_vars => [Fence]_vars
    <2> SUFFICES ASSUME LedgerInv, [Next]_vars,
                        NEW tk \in verified', tk \notin verified
                 PROVE  /\ \A u \in verified : RunOf[u] = RunOf[tk] => GenOf[u] <= GenOf[tk]
                        /\ \A u \in verified : EffectOf[u] # EffectOf[tk]
      OBVIOUS
    <2>1. PICK k \in Ticket, at \in Times : ConsumeVerifiedTicket(k, at)
      BY DEF Next, LedgerStep, vars, MarkSideEffectStarted, RecordReceipt, RecoverAmbiguous
    <2>2. /\ k = tk
          /\ AboveFence(tk)
          /\ effects[EffectOf[tk]].state = "NONE"
      BY <2>1 DEF ConsumeVerifiedTicket, vars
    <2>3. ASSUME NEW u \in verified, RunOf[u] = RunOf[tk] PROVE GenOf[u] <= GenOf[tk]
      <3>1. GenOf[tk] >= GenOf[u]
        BY <2>2, <2>3 DEF AboveFence
      <3>2. tk \in Ticket /\ u \in Ticket
        BY <2>1, <2>2 DEF LedgerInv, TypeOK
      <3> QED
        BY <3>1, <3>2, LedgerAssumption
    <2>4. ASSUME NEW u \in verified, EffectOf[u] = EffectOf[tk] PROVE FALSE
      <3>1. EffectOf[tk] \in Effect /\ u \in Ticket
        BY <2>1, <2>2, LedgerAssumption DEF LedgerInv, TypeOK
      <3>2. effects[EffectOf[tk]] = NoRow
        BY <2>2, <3>1 DEF LedgerInv, EffectInv, RowOK
      <3>3. effects[EffectOf[tk]].ticket = u
        BY <2>4 DEF LedgerInv
      <3> QED
        BY <3>1, <3>2, <3>3, LedgerAssumption DEF NoRow
    <2> QED
      BY <2>3, <2>4
  <1>2. Spec => [][Fence]_vars
    BY <1>1, LedgerInvariant, PTL DEF Spec
  <1> QED
    BY <1>2 DEF FenceMonotone

(* A settled effect is never touched again and an ambiguous one can only be  *)
(* reconciled, keeping its start time.                                       *)
THEOREM SettledStaysFinal == Spec => SettledIsFinal
  <1> DEFINE Final(e) ==
         /\ effects[e].state \in AcceptedStatus \cup FailedStatus \cup {"RECONCILED"}
              => effects'[e] = effects[e] /\ events'[e] = events[e]
         /\ effects[e].state = "RECONCILE_REQUIRED"
              => /\ effects'[e].state \in {"RECONCILE_REQUIRED", "RECONCILED"}
                 /\ effects'[e].startedAt = effects[e].startedAt
  <1>1. LedgerInv /\ [Next]_vars => [\A e \in Effect : Final(e)]_vars
    <2> SUFFICES ASSUME LedgerInv, Next, NEW e \in Effect PROVE Final(e)
      OBVIOUS
    <2>1. effects \in [Effect -> Row] /\ events \in [Effect -> Seq(StageEvent)]
      BY DEF LedgerInv, TypeOK
    <2>2. ASSUME effects'[e] = effects[e], events'[e] = events[e] PROVE Final(e)
      BY <2>2
    <2>3. ASSUME NEW tk \in Ticket, NEW at \in Times, ConsumeVerifiedTicket(tk, at)
          PROVE  Final(e)
      <3>1. CASE effects[e].state = "NONE"
        BY <3>1 DEF AcceptedStatus, FailedStatus
      <3>2. CASE effects[e].state # "NONE"
        BY <3>2, <2>1, <2>2, <2>3 DEF ConsumeVerifiedTicket, AppendEvent, vars
      <3> QED
        BY <3>1, <3>2
    <2>4. ASSUME NEW x \in Effect, NEW at \in Times, MarkSideEffectStarted(x, at)
          PROVE  Final(e)
      <3>1. CASE x # e \/ UNCHANGED vars
        BY <3>1, <2>1, <2>2, <2>4 DEF MarkSideEffectStarted, AppendEvent, vars
      <3>2. CASE x = e /\ ~ UNCHANGED vars
        BY <3>2, <2>4 DEF MarkSideEffectStarted, AcceptedStatus, FailedStatus
      <3> QED
        BY <3>1, <3>2
    <2>5. ASSUME NEW x \in Effect, NEW r \in Receipt, NEW a \in BOOLEAN,
                 NEW c \in BOOLEAN, RecordReceipt(x, r, a, c)
          PROVE  Final(e)
      <3>1. CASE x # e \/ UNCHANGED vars
        BY <3>1, <2>1, <2>2, <2>5 DEF RecordReceipt, AppendEvent, vars
      <3>2. CASE x = e /\ ~ UNCHANGED vars
        <4>1. /\ ReceiptAdmissible(effects[e], r, a, c)
              /\ effects' = [effects EXCEPT ![e] = ReceiptRow(effects[e], r)]
          BY <3>2, <2>5 DEF RecordReceipt
        <4>2. effects[e].state \in {"CLAIMED", "SIDE_EFFECT_STARTED", "RECONCILE_REQUIRED"}
          BY <4>1 DEF ReceiptAdmissible
        <4>3. effects'[e] = ReceiptRow(effects[e], r) /\ effects[e] \in Row
          BY <2>1, <4>1
        <4>4. /\ effects'[e].state = ReceiptTarget(effects[e].state, r.status)
              /\ effects'[e].startedAt = effects[e].startedAt
          BY <4>3, ReceiptRowFields
        <4> QED
          BY <4>2, <4>4 DEF ReceiptTarget, AcceptedStatus, FailedStatus
      <3> QED
        BY <3>1, <3>2
    <2>6. ASSUME NEW now \in Times, RecoverAmbiguous(now)
          PROVE  Final(e)
      <3>1. CASE e \notin Started
        BY <3>1, <2>2, <2>6 DEF RecoverAmbiguous
      <3>2. CASE e \in Started
        BY <3>2 DEF Started, AcceptedStatus, FailedStatus
      <3> QED
        BY <3>1, <3>2
    <2> QED
      BY <2>3, <2>4, <2>5, <2>6 DEF Next, LedgerStep
  <1>2. Spec => [][\A e \in Effect : Final(e)]_vars
    BY <1>1, LedgerInvariant, PTL DEF Spec
  <1> QED
    BY <1>2 DEF SettledIsFinal

-----------------------------------------------------------------------------
(* Refinement. *)

PhaseMap == [e \in Effect |-> PhaseOf(effects[e].state)]

(* A change of one row is a change of one phase. *)
LEMMA PhaseUpdate ==
    ASSUME TypeOK, NEW e \in Effect, NEW row,
           effects' = [effects EXCEPT ![e] = row]
    PROVE  PhaseMap' = [PhaseMap EXCEPT ![e] = PhaseOf(row.state)]
  <1>1. \A x \in Effect : effects'[x] = IF x = e THEN row ELSE effects[x]
    BY DEF TypeOK
  <1>2. PhaseMap' = [x \in Effect |-> PhaseOf(effects'[x].state)]
    BY DEF PhaseMap, PhaseOf
  <1>3. PhaseMap = [x \in Effect |-> PhaseOf(effects[x].state)]
    BY DEF PhaseMap
  <1> QED
    BY <1>1, <1>2, <1>3

(* The ledger implements the abstract effect boundary.                       *)
THEOREM LedgerRefinesBoundary == Spec => ImplementsBoundary
  <1>1. Init => Boundary!EBInit
    BY DEF Init, Boundary!EBInit, PhaseOf, NoRow, AcceptedStatus, FailedStatus
  <1>2. LedgerInv /\ [Next]_vars => [Boundary!EBNext]_PhaseMap
    <2> SUFFICES ASSUME LedgerInv, [Next]_vars
                 PROVE  Boundary!EBNext \/ PhaseMap' = PhaseMap
      OBVIOUS
    <2>1. TypeOK
      BY DEF LedgerInv
    <2>2. CASE UNCHANGED vars
      BY <2>2 DEF vars, PhaseMap
    <2>3. ASSUME NEW tk \in Ticket, NEW at \in Times, ConsumeVerifiedTicket(tk, at),
                 ~ UNCHANGED vars
          PROVE  Boundary!EBNext
      <3> DEFINE e == EffectOf[tk]
      <3>1. e \in Effect
        BY LedgerAssumption
      <3>2. /\ effects[e].state = "NONE"
            /\ effects' = [effects EXCEPT ![e] = ClaimRow(tk, at)]
        BY <2>3 DEF ConsumeVerifiedTicket
      <3> HIDE DEF e
      <3>3. PhaseMap' = [PhaseMap EXCEPT ![e] = PhaseOf(ClaimRow(tk, at).state)]
        BY <3>1, <3>2, <2>1, PhaseUpdate
      <3>4. PhaseOf(ClaimRow(tk, at).state) = "claimed" /\ PhaseMap[e] = "absent"
        BY <3>1, <3>2, ClaimRowFields
        DEF PhaseOf, PhaseMap, AcceptedStatus, FailedStatus
      <3> QED
        BY <3>1, <3>3, <3>4 DEF Boundary!EBNext, Boundary!Claim, PhaseMap
    <2>4. ASSUME NEW e \in Effect, NEW at \in Times, MarkSideEffectStarted(e, at),
                 ~ UNCHANGED vars
          PROVE  Boundary!EBNext
      <3>1. /\ effects[e].state = "CLAIMED" /\ effects[e] \in Row
            /\ effects' = [effects EXCEPT ![e] = StartRow(effects[e], at)]
        BY <2>1, <2>4 DEF MarkSideEffectStarted, TypeOK
      <3>2. PhaseMap' = [PhaseMap EXCEPT ![e] = PhaseOf(StartRow(effects[e], at).state)]
        BY <3>1, <2>1, PhaseUpdate
      <3>3. /\ PhaseOf(StartRow(effects[e], at).state) = "crossed"
            /\ PhaseMap[e] = "claimed"
        BY <3>1, StartRowFields
        DEF PhaseOf, PhaseMap, AcceptedStatus, FailedStatus
      <3> QED
        BY <3>2, <3>3 DEF Boundary!EBNext, Boundary!Cross, PhaseMap
    <2>5. ASSUME NEW e \in Effect, NEW r \in Receipt, NEW a \in BOOLEAN,
                 NEW c \in BOOLEAN, RecordReceipt(e, r, a, c), ~ UNCHANGED vars
          PROVE  Boundary!EBNext \/ PhaseMap' = PhaseMap
      <3> DEFINE target == ReceiptTarget(effects[e].state, r.status)
      <3>1. /\ ReceiptAdmissible(effects[e], r, a, c) /\ effects[e] \in Row
            /\ effects' = [effects EXCEPT ![e] = ReceiptRow(effects[e], r)]
        BY <2>1, <2>5 DEF RecordReceipt, TypeOK
      <3>2. PhaseMap' = [PhaseMap EXCEPT ![e] = PhaseOf(target)]
        <4>1. ReceiptRow(effects[e], r).state = target
          BY <3>1, ReceiptRowFields
        <4>2. PhaseMap' = [PhaseMap EXCEPT ![e] = PhaseOf(ReceiptRow(effects[e], r).state)]
          BY <3>1, <2>1, PhaseUpdate
        <4> QED
          BY <4>1, <4>2
      <3>3. RowOK(effects[e]) /\ r.status \in ReceiptStatus
        BY DEF LedgerInv, EffectInv, Receipt
      <3>4. CASE effects[e].state = "RECONCILE_REQUIRED"
        <4>1. PhaseMap[e] = "unknown" /\ PhaseOf(target) = "reconciled"
          BY <3>4 DEF PhaseMap, PhaseOf, ReceiptTarget, AcceptedStatus, FailedStatus
        <4> QED
          BY <4>1, <3>2 DEF Boundary!EBNext, Boundary!Reconcile, PhaseMap
      <3>5. CASE effects[e].state = "CLAIMED"
        <4>1. PhaseMap[e] = "claimed"
          BY <3>5 DEF PhaseMap, PhaseOf, AcceptedStatus, FailedStatus
        <4>2. r.status \in FailedStatus
          BY <3>1, <3>3, <3>5 DEF ReceiptAdmissible, RowOK, ReceiptStatus
        <4>3. PhaseOf(target) = "failed"
          BY <4>2, <3>5 DEF PhaseOf, ReceiptTarget, AcceptedStatus, FailedStatus,
                            UnknownStatus
        <4> QED
          BY <4>1, <4>3, <3>2 DEF Boundary!EBNext, Boundary!Fail, PhaseMap
      <3>6. CASE effects[e].state = "SIDE_EFFECT_STARTED"
        <4>1. PhaseMap[e] = "crossed"
          BY <3>6 DEF PhaseMap, PhaseOf, AcceptedStatus, FailedStatus
        <4>2. CASE r.status \in AcceptedStatus
          <5>1. PhaseOf(target) = "accepted"
            BY <4>2, <3>6 DEF PhaseOf, ReceiptTarget, AcceptedStatus, FailedStatus,
                              UnknownStatus
          <5> QED
            BY <4>1, <5>1, <3>2 DEF Boundary!EBNext, Boundary!Accept, PhaseMap
        <4>3. CASE r.status \in FailedStatus
          <5>1. PhaseOf(target) = "failed"
            BY <4>3, <3>6 DEF PhaseOf, ReceiptTarget, AcceptedStatus, FailedStatus,
                              UnknownStatus
          <5> QED
            BY <4>1, <5>1, <3>2 DEF Boundary!EBNext, Boundary!Fail, PhaseMap
        <4>4. CASE r.status \in UnknownStatus
          <5>1. PhaseOf(target) = "unknown"
            BY <4>4, <3>6 DEF PhaseOf, ReceiptTarget, AcceptedStatus, FailedStatus
          <5>2. PhaseMap' = [x \in Effect |-> IF x \in {e} THEN "unknown" ELSE PhaseMap[x]]
            BY <5>1, <3>2 DEF PhaseMap
          <5>3. \A x \in {e} : PhaseMap[x] = "crossed"
            BY <4>1
          <5>4. Boundary!Lose({e})
            BY <5>2, <5>3 DEF Boundary!Lose, PhaseMap
          <5> QED
            BY <5>4 DEF Boundary!EBNext
        <4> QED
          BY <4>2, <4>3, <4>4, <3>3 DEF ReceiptStatus
      <3> QED
        BY <3>1, <3>4, <3>5, <3>6 DEF ReceiptAdmissible
    <2>6. ASSUME NEW now \in Times, RecoverAmbiguous(now)
          PROVE  Boundary!EBNext
      <3>1. \A e \in Effect : effects'[e] = IF e \in Started THEN LostRow(effects[e], now)
                                              ELSE effects[e]
        BY <2>6 DEF RecoverAmbiguous
      <3>2. \A e \in Started : LostRow(effects[e], now).state = "RECONCILE_REQUIRED"
        BY <2>1, LostRowFields DEF TypeOK, Started
      <3>3. \A e \in Started : PhaseMap[e] = "crossed"
        BY DEF Started, PhaseMap, PhaseOf, AcceptedStatus, FailedStatus
      <3>4. PhaseOf("RECONCILE_REQUIRED") = "unknown"
        BY DEF PhaseOf, AcceptedStatus, FailedStatus
      <3>5. PhaseMap' = [e \in Effect |-> IF e \in Started THEN "unknown" ELSE PhaseMap[e]]
        BY <3>1, <3>2, <3>4 DEF PhaseMap, PhaseOf
      <3>6. Boundary!Lose(Started)
        BY <3>3, <3>5 DEF Boundary!Lose, PhaseMap
      <3>7. Started \in SUBSET Effect
        BY DEF Started
      <3> QED
        BY <3>6, <3>7 DEF Boundary!EBNext
    <2> QED
      BY <2>2, <2>3, <2>4, <2>5, <2>6 DEF Next, LedgerStep
  <1>3. [Boundary!EBNext]_PhaseMap
          => [Boundary!EBNext]_([e \in Effect |-> PhaseOf(effects[e].state)])
    BY DEF PhaseMap
  <1> QED
    BY <1>1, <1>2, <1>3, LedgerInvariant, PTL DEF Spec, ImplementsBoundary, Boundary!EBSpec
=============================================================================
