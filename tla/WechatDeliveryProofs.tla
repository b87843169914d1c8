------------------------ MODULE WechatDeliveryProofs ------------------------
(***************************************************************************)
(* Theorems about WechatDelivery, for every number of calls, segments,     *)
(* retries and restarts, and every way to divide a text into parts.        *)
(*                                                                         *)
(* IInv needs no assumption on the wall clock; what the gateway is told is *)
(* only true when the clock is never set back (TruthInv).                  *)
(***************************************************************************)
EXTENDS WechatDelivery, TLAPS

Answers ==
    [kind : {"none", "lost", "receipt", "error"}, status : Status \cup {"DELIVERED"},
     stages : SUBSET PartStage]

(* What is durable of an effect agrees with what the platform accepted of it. *)
EffectInv(e) ==
    /\ Len(sent[e]) <= Segments[e]
    /\ \A i \in 1 .. Len(sent[e]) : sent[e][i] = i
    /\ effects[e].state = "NONE" => effects[e].ticket = NoTicket
    /\ effects[e].state \in {"NONE", "CLAIMED"} => Len(sent[e]) = 0 /\ effects[e].receipt = NoReceipt
    /\ effects[e].state = "CHANNEL_ACCEPTED" => Len(sent[e]) = Segments[e]
    /\ effects[e].state = "FAILED_RETRYABLE" => Len(sent[e]) = 0
    /\ effects[e].state = "FAILED_FINAL" => Len(sent[e]) < Segments[e]

Sending == {"attempt", "send", "clear"}
Inside == Sending \cup {"record", "recover"}

(* A thread that sends holds the lock, knows how many segments were accepted, *)
(* and has made its start durable before the first of them; the status that   *)
(* it is about to record is true.                                             *)
CallInv(c) ==
    LET t == call[c]
        e == EffectOfCall(c)
    IN  /\ t.pc \in Inside => lock = c
        /\ t.pc \in {"new", "resolve", "enter"} => t.segment = 1 /\ t.from = 1
        /\ t.pc \in Sending =>
             /\ t.from >= 1 /\ t.from <= t.segment /\ t.segment <= Segments[e]
             /\ Len(sent[e]) = t.segment - 1
             /\ effects[e].state \in {"CLAIMED", "SIDE_EFFECT_STARTED"}
             /\ t.pc # "attempt" \/ t.segment > 1 => effects[e].state = "SIDE_EFFECT_STARTED"
        /\ t.pc = "record" =>
             /\ t.from >= 1 /\ t.from <= Len(sent[e]) + 1
             /\ effects[e].state \in {"CLAIMED", "SIDE_EFFECT_STARTED"}
             /\ t.status # "none"
             /\ t.status = "CHANNEL_ACCEPTED" => Len(sent[e]) = Segments[e]
             /\ t.status = "FAILED_RETRYABLE" => Len(sent[e]) = 0
             /\ t.status = "FAILED_FINAL" => Len(sent[e]) < Segments[e] /\ t.from = Len(sent[e]) + 1

IInv ==
    /\ TypeOK
    /\ answer \in [Call -> Answers]
    /\ \A e \in Effect : EffectInv(e)
    /\ \A c \in Call : CallInv(c)

-----------------------------------------------------------------------------
(* What the gateway is told.                                                *)

(* The wall clock is never set back and no two tickets name one effect.      *)
Trusted ==
    /\ ~ MayStepBack
    /\ \A tk, u \in Ticket : EffectOf[tk] = EffectOf[u] => tk = u

(* No durable or remembered time lies in the future.                         *)
ClockInv ==
    /\ \A e \in Effect : effects[e].claimedAt <= clock /\ effects[e].startedAt <= clock
    /\ \A c \in Call : call[c].partStarted <= clock

(* The first call of a ticket waits for its answer. *)
Waiting(c) == Earlier(c) = {} /\ answer[c] = NoAnswer

(* While the first call of a ticket waits, no other call of that ticket has   *)
(* begun, so that the record of the effect is what this call has made of it.  *)
WaitInv(c) ==
    LET e == EffectOfCall(c)
        pc == call[c].pc
    IN  Waiting(c) =>
          /\ \A d \in Call : TicketOf[d] = TicketOf[c] /\ d # c => call[d].pc = "new"
          /\ pc \notin {"recover", "end"}
          /\ pc = "new" => effects[e].state = "NONE"
          /\ pc \in {"resolve", "enter"} => effects[e].state = "CLAIMED"
          /\ pc = "raised" => effects[e].state = "SIDE_EFFECT_STARTED" \/ Len(sent[e]) = 0

TruthInv == ClockInv /\ \A c \in Call : WaitInv(c)

-----------------------------------------------------------------------------
(* The ledger's operations, as the sender uses them.                        *)

(* consume_verified_ticket claims an effect that has no row, or changes      *)
(* nothing.                                                                  *)
LEMMA ConsumeEffect ==
    ASSUME Ledger!TypeOK, NEW tk \in Ticket, NEW at \in Times,
           Ledger!ConsumeVerifiedTicket(tk, at)
    PROVE  /\ Ledger!TypeOK'
           /\ \A x \in Effect :
                \/ effects'[x] = effects[x] /\ (x = EffectOf[tk] => effects[x].ticket = tk)
                \/ /\ x = EffectOf[tk] /\ effects[x].state = "NONE"
                   /\ effects'[x].state = "CLAIMED" /\ effects'[x].receipt = NoReceipt
                   /\ effects'[x].claimedAt = at /\ effects'[x].startedAt = 0
                \/ effects'[x] = effects[x] /\ x # EffectOf[tk]
  <1>1. PICK e \in Effect : e = EffectOf[tk]
    BY LedgerConstants
  <1>2. CASE UNCHANGED Ledger!vars /\ effects[e].ticket = tk
    BY <1>1, <1>2 DEF Ledger!TypeOK, Ledger!vars
  <1>3. CASE ~ (UNCHANGED Ledger!vars /\ effects[e].ticket = tk)
    <2>1. /\ effects[e].state = "NONE"
          /\ verified' = verified \cup {tk}
          /\ effects' = [effects EXCEPT ![e] = Ledger!ClaimRow(tk, at)]
          /\ events' = [events EXCEPT ![e] = Append(@, [from |-> "NULL", to |-> "CLAIMED"])]
      BY <1>1, <1>3 DEF Ledger!ConsumeVerifiedTicket, Ledger!AppendEvent
    <2>2. /\ Ledger!ClaimRow(tk, at) \in Ledger!Row
          /\ Ledger!ClaimRow(tk, at).state = "CLAIMED"
          /\ Ledger!ClaimRow(tk, at).receipt = NoReceipt
          /\ Ledger!ClaimRow(tk, at).claimedAt = at
          /\ Ledger!ClaimRow(tk, at).startedAt = 0
      BY DEF Ledger!ClaimRow, Ledger!NoRow, Ledger!Row, Ledger!EffectState, Ledger!Reason
    <2>3. [from |-> "NULL", to |-> "CLAIMED"] \in Ledger!StageEvent
      BY DEF Ledger!StageEvent, Ledger!EffectState
    <2>4. Ledger!TypeOK'
      BY <2>1, <2>2, <2>3 DEF Ledger!TypeOK
    <2> QED
      BY <1>1, <2>1, <2>2, <2>4 DEF Ledger!TypeOK
  <1> QED
    BY <1>2, <1>3

(* mark_side_effect_started makes the start of a claimed effect durable.     *)
LEMMA StartEffect ==
    ASSUME Ledger!TypeOK, NEW e \in Effect, NEW at \in Times,
           effects[e].state = "CLAIMED", Ledger!MarkSideEffectStarted(e, at)
    PROVE  /\ Ledger!TypeOK'
           /\ \A x \in Effect : x # e => effects'[x] = effects[x]
           /\ effects'[e].state = "SIDE_EFFECT_STARTED"
           /\ effects'[e].claimedAt = effects[e].claimedAt /\ effects'[e].startedAt = at
  <1>1. /\ verified' = verified
        /\ effects' = [effects EXCEPT ![e] = Ledger!StartRow(@, at)]
        /\ events' = [events EXCEPT ![e] =
                        Append(@, [from |-> "CLAIMED", to |-> "SIDE_EFFECT_STARTED"])]
    BY DEF Ledger!MarkSideEffectStarted, Ledger!AppendEvent
  <1>2. effects[e] \in Ledger!Row
    BY DEF Ledger!TypeOK
  <1>3. /\ Ledger!StartRow(effects[e], at) \in Ledger!Row
        /\ Ledger!StartRow(effects[e], at).state = "SIDE_EFFECT_STARTED"
        /\ Ledger!StartRow(effects[e], at).claimedAt = effects[e].claimedAt
        /\ Ledger!StartRow(effects[e], at).startedAt = at
    BY <1>2 DEF Ledger!StartRow, Ledger!Row, Ledger!EffectState
  <1>4. [from |-> "CLAIMED", to |-> "SIDE_EFFECT_STARTED"] \in Ledger!StageEvent
    BY DEF Ledger!StageEvent, Ledger!EffectState
  <1>5. Ledger!TypeOK'
    BY <1>1, <1>3, <1>4 DEF Ledger!TypeOK
  <1> QED
    BY <1>1, <1>3, <1>5 DEF Ledger!TypeOK

(* record_receipt stores a receipt and its state, or finds it stored.        *)
LEMMA ReceiptEffect ==
    ASSUME Ledger!TypeOK, NEW e \in Effect, NEW r \in Ledger!Receipt,
           NEW absent, NEW reconciliation,
           Ledger!RecordReceipt(e, r, absent, reconciliation)
    PROVE  /\ Ledger!TypeOK'
           /\ \A x \in Effect : x # e => effects'[x] = effects[x]
           /\ \/ effects'[e] = effects[e] /\ effects[e].receipt = r
              \/ effects'[e].state = Ledger!ReceiptTarget(effects[e].state, r.status)
           /\ effects'[e].claimedAt = effects[e].claimedAt
           /\ effects'[e].startedAt = effects[e].startedAt
  <1>1. CASE UNCHANGED Ledger!vars /\ effects[e].receipt = r
    BY <1>1 DEF Ledger!TypeOK, Ledger!vars
  <1>2. CASE ~ (UNCHANGED Ledger!vars /\ effects[e].receipt = r)
    <2> DEFINE target == Ledger!ReceiptTarget(effects[e].state, r.status)
    <2>1. /\ verified' = verified
          /\ effects[e].state # "NONE"
          /\ effects' = [effects EXCEPT ![e] = Ledger!ReceiptRow(@, r)]
          /\ events' = [events EXCEPT ![e] = Append(@, [from |-> effects[e].state, to |-> target])]
      BY <1>2 DEF Ledger!RecordReceipt, Ledger!AppendEvent
    <2>2. effects[e] \in Ledger!Row
      BY DEF Ledger!TypeOK
    <2>3. target \in Ledger!EffectState
      BY DEF Ledger!Receipt, Ledger!ReceiptTarget, Ledger!ReceiptStatus, Ledger!UnknownStatus,
             Ledger!EffectState, Ledger!AcceptedStatus, Ledger!FailedStatus
    <2>4. r.observedAt \in Times
      BY DEF Ledger!Receipt
    <2> DEFINE reason == IF target = "RECONCILE_REQUIRED" THEN "receipt_error_code" ELSE "NULL"
    <2>a. reason \in Ledger!Reason
      BY DEF Ledger!Reason
    <2>b. Ledger!ReceiptRow(effects[e], r) =
            [effects[e] EXCEPT !.state = target, !.updatedAt = r.observedAt, !.receipt = r,
                               !.reason = reason]
      BY DEF Ledger!ReceiptRow
    <2> HIDE DEF target, reason
    <2>5. /\ Ledger!ReceiptRow(effects[e], r) \in Ledger!Row
          /\ Ledger!ReceiptRow(effects[e], r).state = target
          /\ Ledger!ReceiptRow(effects[e], r).claimedAt = effects[e].claimedAt
          /\ Ledger!ReceiptRow(effects[e], r).startedAt = effects[e].startedAt
      BY <2>2, <2>3, <2>4, <2>a, <2>b DEF Ledger!Row
    <2>6. [from |-> effects[e].state, to |-> target] \in Ledger!StageEvent
      BY <2>1, <2>2, <2>3 DEF Ledger!StageEvent, Ledger!Row
    <2>7. Ledger!TypeOK'
      BY <2>1, <2>5, <2>6 DEF Ledger!TypeOK
    <2> QED
      BY <2>1, <2>5, <2>7 DEF Ledger!TypeOK, target
  <1> QED
    BY <1>1, <1>2

(* recover_ambiguous moves every started effect to RECONCILE_REQUIRED.       *)
LEMMA RecoverEffect ==
    ASSUME Ledger!TypeOK, NEW now \in Times, Ledger!RecoverAmbiguous(now)
    PROVE  /\ Ledger!TypeOK'
           /\ \A x \in Effect :
                \/ effects'[x] = effects[x]
                \/ /\ effects[x].state = "SIDE_EFFECT_STARTED"
                   /\ effects'[x].state = "RECONCILE_REQUIRED"
                   /\ effects'[x].claimedAt = effects[x].claimedAt
                   /\ effects'[x].startedAt = effects[x].startedAt
  <1>1. ASSUME NEW x \in Effect
        PROVE  /\ Ledger!LostRow(effects[x], now) \in Ledger!Row
               /\ Ledger!LostRow(effects[x], now).state = "RECONCILE_REQUIRED"
               /\ Ledger!LostRow(effects[x], now).claimedAt = effects[x].claimedAt
               /\ Ledger!LostRow(effects[x], now).startedAt = effects[x].startedAt
    <2>1. effects[x] \in Ledger!Row
      BY DEF Ledger!TypeOK
    <2> QED
      BY <2>1 DEF Ledger!LostRow, Ledger!Row, Ledger!EffectState, Ledger!Reason
  <1>2. [from |-> "SIDE_EFFECT_STARTED", to |-> "RECONCILE_REQUIRED"] \in Ledger!StageEvent
    BY DEF Ledger!StageEvent, Ledger!EffectState
  <1>3. effects' \in [Effect -> Ledger!Row]
    BY <1>1 DEF Ledger!RecoverAmbiguous, Ledger!TypeOK
  <1>4. events' \in [Effect -> Seq(Ledger!StageEvent)]
    BY <1>2 DEF Ledger!RecoverAmbiguous, Ledger!TypeOK
  <1>5. Ledger!TypeOK'
    BY <1>3, <1>4 DEF Ledger!RecoverAmbiguous, Ledger!TypeOK
  <1> QED
    BY <1>1, <1>5 DEF Ledger!RecoverAmbiguous, Ledger!Started

-----------------------------------------------------------------------------
(* Threads and answers.                                                     *)

(* The effect of a call. *)
LEMMA CallEffect ==
    ASSUME NEW c \in Call
    PROVE  TicketOf[c] \in Ticket /\ EffectOfCall(c) \in Effect
           /\ Segments[EffectOfCall(c)] \in Nat /\ Segments[EffectOfCall(c)] >= 1
  BY LedgerConstants, WechatAssumption DEF EffectOfCall

(* Telling a client leaves every answer well formed. *)
LEMMA TellTypes ==
    ASSUME NEW c \in Call, NEW a \in Answers, answer \in [Call -> Answers], Tell(c, a)
    PROVE  answer' \in [Call -> Answers] /\ \A d \in Call : d # c => answer'[d] = answer[d]
  BY DEF Tell

(* The answers that the server builds. *)
LEMMA AnswerTypes ==
    /\ NoAnswer \in Answers /\ Lost \in Answers
    /\ \A s \in Status : ErrorAnswer(s) \in Answers
    /\ \A s \in Status \cup {"DELIVERED"}, p \in SUBSET PartStage : ReceiptAnswer(s, p) \in Answers
  BY DEF NoAnswer, Lost, Answers, Status, PartStage, ErrorAnswer, ReceiptAnswer

(* The thread of a call that has ended. *)
LEMMA NewThreadType ==
    ASSUME NEW pc \in Pc
    PROVE  /\ NewThread \in Thread /\ [NewThread EXCEPT !.pc = pc] \in Thread
           /\ [NewThread EXCEPT !.pc = pc].pc = pc
           /\ [NewThread EXCEPT !.pc = pc].partStarted = 0
  <1>1. RateRetries \in Nat
    BY WechatAssumption
  <1>2. 0 \in 0 .. RateRetries
    BY <1>1
  <1>3. NewThread \in Thread
    BY <1>2 DEF NewThread, Thread, Pc, Status
  <1> QED
    BY <1>3 DEF NewThread, Thread

(* What one step of a call must establish: its own part of the invariant,    *)
(* that of the effects, and that it leaves alone the call in the lock.       *)
LEMMA StepKeeps ==
    ASSUME IInv, NEW c \in Call, NEW t \in Thread,
           call' = [call EXCEPT ![c] = t],
           Ledger!TypeOK', stages' \in [Effect -> SUBSET PartStage], token' \in BOOLEAN,
           UNCHANGED <<clock, expired, restarts>>,
           answer' \in [Call -> Answers], sent' \in [Effect -> Seq(Nat)],
           lock' \in Call \cup {NoCall},
           \A d \in Call : d # c /\ lock = d =>
             /\ lock' = d
             /\ sent'[EffectOfCall(d)] = sent[EffectOfCall(d)]
             /\ effects[EffectOfCall(d)].state \in {"CLAIMED", "SIDE_EFFECT_STARTED"} =>
                  effects'[EffectOfCall(d)].state = effects[EffectOfCall(d)].state,
           \A x \in Effect : EffectInv(x)',
           CallInv(c)'
    PROVE  IInv'
  <1>1. TypeOK'
    BY DEF IInv, TypeOK, Answers
  <1>2. ASSUME NEW d \in Call, d # c PROVE CallInv(d)'
    <2>1. CallInv(d) /\ call'[d] = call[d]
      BY <1>2 DEF IInv, TypeOK
    <2>2. CASE lock = d
      <3>1. /\ lock' = d
            /\ sent'[EffectOfCall(d)] = sent[EffectOfCall(d)]
            /\ effects[EffectOfCall(d)].state \in {"CLAIMED", "SIDE_EFFECT_STARTED"} =>
                 effects'[EffectOfCall(d)].state = effects[EffectOfCall(d)].state
        BY <1>2, <2>2
      <3> QED
        BY <2>1, <3>1 DEF CallInv, EffectOfCall, Inside, Sending
    <2>3. CASE lock # d
      BY <2>1, <2>3 DEF CallInv, EffectOfCall, Inside, Sending
    <2> QED
      BY <2>2, <2>3
  <1> QED
    BY <1>1, <1>2 DEF IInv

(* A step that touches neither the ledger nor the platform. *)
LEMMA QuietEffects ==
    ASSUME IInv, UNCHANGED <<effects, sent>>
    PROVE  \A x \in Effect : EffectInv(x)'
  BY DEF IInv, EffectInv

(* A step that ends or raises: the thread is rewound and leaves the lock.    *)
LEMMA UnwindKeeps ==
    ASSUME IInv, NEW c \in Call, NEW pc \in {"raised", "end"}, Unwind(c, pc),
           Ledger!TypeOK', stages' \in [Effect -> SUBSET PartStage], token' \in BOOLEAN,
           UNCHANGED <<clock, expired, restarts, sent>>, answer' \in [Call -> Answers],
           \A d \in Call : d # c /\ lock = d
              /\ effects[EffectOfCall(d)].state \in {"CLAIMED", "SIDE_EFFECT_STARTED"} =>
                   effects'[EffectOfCall(d)].state = effects[EffectOfCall(d)].state,
           \A x \in Effect : EffectInv(x)'
    PROVE  IInv'
  <1>1. PICK t \in Thread : t = [NewThread EXCEPT !.pc = pc] /\ t.pc = pc
    BY NewThreadType DEF Pc
  <1>2. call' = [call EXCEPT ![c] = t] /\ lock' = IF lock = c THEN NoCall ELSE lock
    BY <1>1 DEF Unwind, Set, Leave
  <1>3. lock' \in Call \cup {NoCall}
        /\ \A d \in Call : d # c /\ lock = d => lock' = d
    BY <1>2 DEF IInv, TypeOK
  <1>4. sent' \in [Effect -> Seq(Nat)]
    BY DEF IInv, TypeOK
  <1>5. call'[c] = t
    BY <1>2 DEF IInv, TypeOK
  <1>6. CallInv(c)'
    BY <1>5, <1>1 DEF CallInv, Inside, Sending
  <1> QED
    BY <1>1, <1>2, <1>3, <1>4, <1>6, StepKeeps

(* The same, when nothing else happens. *)
LEMMA QuietUnwind ==
    ASSUME IInv, NEW c \in Call, NEW pc \in {"raised", "end"}, Unwind(c, pc),
           UNCHANGED <<ledger, stages, clock, expired, restarts, sent>>, token' \in BOOLEAN,
           answer' \in [Call -> Answers]
    PROVE  IInv'
  <1>1. \A x \in Effect : EffectInv(x)'
    BY QuietEffects DEF ledger
  <1>2. Ledger!TypeOK' /\ stages' \in [Effect -> SUBSET PartStage]
    BY DEF IInv, TypeOK, Ledger!TypeOK, ledger
  <1>3. effects' = effects
    BY DEF ledger
  <1> QED
    BY <1>1, <1>2, <1>3, UnwindKeeps

(* A call that raises, without any other change. *)
LEMMA RaiseKeeps ==
    ASSUME IInv, NEW c \in Call, Raise(c), token' \in BOOLEAN,
           UNCHANGED <<ledger, stages, clock, expired, restarts, sent>>
    PROVE  IInv'
  <1>1. Unwind(c, "raised") /\ answer' \in [Call -> Answers]
    BY DEF Raise, IInv
  <1> QED
    BY <1>1, QuietUnwind

(* A call that is answered, without any other change. *)
LEMMA EndKeeps ==
    ASSUME IInv, NEW c \in Call, NEW a \in Answers, End(c, a), token' \in BOOLEAN,
           UNCHANGED <<ledger, stages, clock, expired, restarts, sent>>
    PROVE  IInv'
  <1>1. Unwind(c, "end") /\ answer' \in [Call -> Answers]
    BY TellTypes DEF End, IInv
  <1> QED
    BY <1>1, QuietUnwind

(* A malformed request, without any other change. *)
LEMMA ValueErrorKeeps ==
    ASSUME IInv, NEW c \in Call, RaiseValueError(c), token' \in BOOLEAN,
           UNCHANGED <<ledger, stages, clock, expired, restarts, sent>>
    PROVE  IInv'
  <1>1. ErrorAnswer("FAILED_FINAL") \in Answers
    BY AnswerTypes DEF Status
  <1> QED
    BY <1>1, EndKeeps DEF RaiseValueError

(* The stored receipt is a well-formed answer. *)
LEMMA StoredType ==
    ASSUME IInv, NEW e \in Effect, effects[e].receipt # NoReceipt
    PROVE  Stored(e) \in Answers
  <1>1. effects[e].receipt \in Ledger!Receipt /\ stages[e] \in SUBSET PartStage
    BY DEF IInv, TypeOK, Ledger!TypeOK, Ledger!Row
  <1> DEFINE s == effects[e].receipt.status
  <1>2. s \in {"CHANNEL_ACCEPTED", "DELIVERED", "FAILED_RETRYABLE", "FAILED_FINAL",
               "AMBIGUOUS", "RECONCILE_REQUIRED"}
    BY <1>1 DEF Ledger!Receipt, Ledger!ReceiptStatus, Ledger!AcceptedStatus,
                Ledger!FailedStatus, Ledger!UnknownStatus
  <1> QED
    BY <1>1, <1>2, AnswerTypes DEF Stored, Ledger!UnknownStatus, Status

(* A step of a call that changes only its thread. *)
LEMMA GotoKeeps ==
    ASSUME IInv, NEW c \in Call, NEW t \in Thread, call' = [call EXCEPT ![c] = t],
           UNCHANGED <<ledger, stages, clock, expired, restarts, sent, answer>>,
           token' \in BOOLEAN,
           lock' \in {lock, c}, lock # NoCall => lock' = lock,
           CallInv(c)'
    PROVE  IInv'
  <1>1. \A x \in Effect : EffectInv(x)'
    BY QuietEffects DEF ledger
  <1>2. /\ Ledger!TypeOK' /\ stages' \in [Effect -> SUBSET PartStage]
        /\ answer' \in [Call -> Answers] /\ sent' \in [Effect -> Seq(Nat)]
        /\ effects' = effects
    BY DEF IInv, TypeOK, Ledger!TypeOK, ledger
  <1>3. /\ lock' \in Call \cup {NoCall}
        /\ \A d \in Call : d # c /\ lock = d => lock' = d
    BY DEF IInv, TypeOK, Call, NoCall
  <1>4. \A d \in Call : d # c /\ lock = d =>
          /\ lock' = d
          /\ sent'[EffectOfCall(d)] = sent[EffectOfCall(d)]
          /\ effects[EffectOfCall(d)].state \in {"CLAIMED", "SIDE_EFFECT_STARTED"} =>
               effects'[EffectOfCall(d)].state = effects[EffectOfCall(d)].state
    BY <1>2, <1>3
  <1> QED
    BY <1>1, <1>2, <1>3, <1>4, StepKeeps

-----------------------------------------------------------------------------
(* The entry.                                                               *)

(* Dispatch: the ticket is consumed, and the record decides. *)
LEMMA DispatchKeeps ==
    ASSUME IInv, NEW c \in Call, Dispatch(c)
    PROVE  IInv'
  <1> DEFINE e == EffectOfCall(c)
  <1>1. e \in Effect /\ TicketOf[c] \in Ticket /\ e = EffectOf[TicketOf[c]]
    BY CallEffect DEF EffectOfCall
  <1>2. /\ Ledger!ConsumeVerifiedTicket(TicketOf[c], clock)
        /\ UNCHANGED <<stages, token, clock, expired, sent, restarts>>
        /\ clock \in Times /\ Ledger!TypeOK
    BY DEF Dispatch, IInv, TypeOK
  <1>3. /\ Ledger!TypeOK'
        /\ \A x \in Effect :
             \/ effects'[x] = effects[x]
             \/ /\ x = e /\ effects[x].state = "NONE"
                /\ effects'[x].state = "CLAIMED" /\ effects'[x].receipt = NoReceipt
    BY <1>1, <1>2, ConsumeEffect
  <1> HIDE DEF e
  <1>4. ASSUME NEW x \in Effect PROVE EffectInv(x)'
    <2>1. EffectInv(x) /\ sent'[x] = sent[x]
      BY <1>2 DEF IInv
    <2>2. \/ effects'[x] = effects[x]
          \/ /\ x = e /\ effects[x].state = "NONE"
             /\ effects'[x].state = "CLAIMED" /\ effects'[x].receipt = NoReceipt
      BY <1>3
    <2> QED
      BY <2>1, <2>2 DEF EffectInv
  <1>5. ASSUME NEW d \in Call, effects[EffectOfCall(d)].state \in {"CLAIMED", "SIDE_EFFECT_STARTED"}
        PROVE  effects'[EffectOfCall(d)].state = effects[EffectOfCall(d)].state
    BY <1>3, <1>5, CallEffect
  <1>6. stages' \in [Effect -> SUBSET PartStage] /\ token' \in BOOLEAN
        /\ sent' \in [Effect -> Seq(Nat)]
    BY <1>2 DEF IInv, TypeOK
  <1>7. CASE effects[e].receipt # NoReceipt
    <2>1. Unwind(c, "end") /\ Tell(c, Stored(e))
      BY <1>7 DEF Dispatch, End, e
    <2>2. answer' \in [Call -> Answers]
      BY <2>1, <1>1, <1>7, StoredType, TellTypes DEF IInv
    <2> QED
      BY <2>1, <2>2, <1>2, <1>3, <1>4, <1>5, <1>6, UnwindKeeps
  <1>8. CASE effects[e].receipt = NoReceipt
    <2>1. PICK t \in Thread : t = [call[c] EXCEPT !.pc = "resolve"]
      <3>1. call[c] \in Thread
        BY DEF IInv, TypeOK
      <3>2. "resolve" \in Pc
        BY DEF Pc
      <3> QED
        BY <3>1, <3>2 DEF Thread
    <2>2. call' = [call EXCEPT ![c] = t] /\ UNCHANGED <<answer, lock>> /\ call[c].pc = "new"
      BY <2>1, <1>8 DEF Dispatch, Goto, Set, e, At
    <2>3. call'[c] = t /\ t.pc = "resolve" /\ t.segment = call[c].segment /\ t.from = call[c].from
      BY <2>1, <2>2 DEF IInv, TypeOK, Thread
    <2>4. call[c].segment = 1 /\ call[c].from = 1
      BY <2>2 DEF IInv, CallInv
    <2>5. CallInv(c)'
      BY <2>3, <2>4 DEF CallInv, Inside, Sending
    <2>6. answer' \in [Call -> Answers] /\ lock' \in Call \cup {NoCall} /\ lock' = lock
          /\ sent' = sent
      BY <2>2, <1>2 DEF IInv, TypeOK
    <2> QED
      BY <2>2, <2>5, <2>6, <1>2, <1>3, <1>4, <1>5, <1>6, StepKeeps
  <1> QED
    BY <1>7, <1>8

(* Refuse: an expired ticket, or one below the fence. *)
LEMMA RefuseKeeps ==
    ASSUME IInv, NEW c \in Call, Refuse(c)
    PROVE  IInv'
  <1>1. UNCHANGED <<ledger, stages, clock, expired, restarts, sent>> /\ token' \in BOOLEAN
    BY DEF Refuse, IInv, TypeOK
  <1>2. RaiseValueError(c) \/ Raise(c)
    BY DEF Refuse
  <1> QED
    BY <1>1, <1>2, ValueErrorKeeps, RaiseKeeps

(* ResolveContext reads the token before the lock is taken. *)
LEMMA ResolveKeeps ==
    ASSUME IInv, NEW c \in Call, ResolveContext(c)
    PROVE  IInv'
  <1>1. PICK t \in Thread : t = [call[c] EXCEPT !.pc = "enter", !.context = token]
    <2>1. call[c] \in Thread /\ token \in BOOLEAN
      BY DEF IInv, TypeOK
    <2>2. "enter" \in Pc
      BY DEF Pc
    <2> QED
      BY <2>1, <2>2 DEF Thread
  <1>2. call' = [call EXCEPT ![c] = t] /\ call[c].pc = "resolve"
        /\ UNCHANGED <<ledger, stages, token, clock, expired, lock, answer, sent, restarts>>
    BY <1>1 DEF ResolveContext, Set, At
  <1>3. call'[c] = t /\ t.pc = "enter" /\ t.segment = call[c].segment /\ t.from = call[c].from
    BY <1>1, <1>2 DEF IInv, TypeOK, Thread
  <1>4. call[c].segment = 1 /\ call[c].from = 1
    BY <1>2 DEF IInv, CallInv
  <1>5. CallInv(c)'
    BY <1>3, <1>4 DEF CallInv, Inside, Sending
  <1>6. token' \in BOOLEAN /\ lock' = lock
    BY <1>2 DEF IInv, TypeOK
  <1> QED
    BY <1>2, <1>5, <1>6, GotoKeeps

(* HandlerFails, GateStalled and AnswerError change one thread only. *)
LEMMA FailuresKeep ==
    ASSUME IInv, NEW c \in Call, HandlerFails(c) \/ GateStalled(c) \/ AnswerError(c)
    PROVE  IInv'
  <1>1. UNCHANGED <<ledger, stages, clock, expired, restarts, sent>> /\ token' \in BOOLEAN
    BY DEF HandlerFails, GateStalled, AnswerError, IInv, TypeOK
  <1>2. CASE HandlerFails(c) \/ GateStalled(c)
    BY <1>1, <1>2, RaiseKeeps DEF HandlerFails, GateStalled
  <1>3. CASE AnswerError(c)
    <2>1. ErrorAnswer("FAILED_FINAL") \in Answers /\ ErrorAnswer("AMBIGUOUS") \in Answers
      BY AnswerTypes DEF Status
    <2>2. End(c, ErrorAnswer("FAILED_FINAL")) \/ End(c, ErrorAnswer("AMBIGUOUS"))
      BY <1>3 DEF AnswerError
    <2> QED
      BY <1>1, <2>1, <2>2, EndKeeps
  <1> QED
    BY <1>2, <1>3

(* Enter: the lock is taken and the record decides. *)
LEMMA EnterKeeps ==
    ASSUME IInv, NEW c \in Call, Enter(c)
    PROVE  IInv'
  <1> DEFINE e == EffectOfCall(c)
  <1>1. /\ UNCHANGED <<ledger, stages, clock, expired, restarts, sent>>
        /\ token' \in BOOLEAN /\ e \in Effect /\ call[c].pc = "enter"
    BY CallEffect DEF Enter, IInv, TypeOK, At
  <1>2. CASE Raise(c)
    BY <1>1, <1>2, RaiseKeeps
  <1>3. CASE effects[e].receipt # NoReceipt /\ End(c, Stored(e))
    BY <1>1, <1>3, StoredType, EndKeeps
  <1>4. CASE /\ effects[e].receipt = NoReceipt /\ effects[e].state # "RECONCILE_REQUIRED"
             /\ Set(c, [call[c] EXCEPT
                          !.pc = IF effects[e].state = "CLAIMED" THEN "attempt" ELSE "recover",
                          !.partStarted = clock])
             /\ lock' = c /\ UNCHANGED answer
    <2> DEFINE pc == IF effects[e].state = "CLAIMED" THEN "attempt" ELSE "recover"
    <2>1. PICK t \in Thread : t = [call[c] EXCEPT !.pc = pc, !.partStarted = clock]
      <3>1. pc \in Pc /\ clock \in Times \cup {0} /\ call[c] \in Thread
        BY DEF IInv, TypeOK, Pc
      <3> QED
        BY <3>1 DEF Thread
    <2>2. call' = [call EXCEPT ![c] = t] /\ lock = NoCall
      BY <2>1, <1>4 DEF Enter, Set
    <2>3. call'[c] = t /\ t.pc = pc /\ t.segment = call[c].segment /\ t.from = call[c].from
      BY <2>1, <2>2 DEF IInv, TypeOK, Thread
    <2>4. call[c].segment = 1 /\ call[c].from = 1
      BY <1>1 DEF IInv, CallInv
    <2>5. EffectInv(e) /\ Segments[e] >= 1 /\ Segments[e] \in Nat
      BY <1>1, CallEffect DEF IInv
    <2>6. effects' = effects /\ sent' = sent
      BY <1>1 DEF ledger
    <2>7. CallInv(c)'
      <3>1. CASE effects[e].state = "CLAIMED"
        BY <3>1, <2>3, <2>4, <2>5, <2>6, <1>4 DEF CallInv, Inside, Sending, EffectInv, EffectOfCall
      <3>2. CASE effects[e].state # "CLAIMED"
        BY <3>2, <2>3, <1>4 DEF CallInv, Inside, Sending
      <3> QED
        BY <3>1, <3>2
    <2> QED
      BY <2>2, <2>7, <1>1, <1>4, GotoKeeps
  <1> QED
    BY <1>2, <1>3, <1>4 DEF Enter

-----------------------------------------------------------------------------
(* The loop.                                                                *)

(* Attempt: the first one makes the start durable. *)
LEMMA AttemptKeeps ==
    ASSUME IInv, NEW c \in Call, Attempt(c)
    PROVE  IInv'
  <1> DEFINE e == EffectOfCall(c)
  <1>1. /\ UNCHANGED <<stages, token, clock, expired, sent, restarts>>
        /\ token' \in BOOLEAN /\ stages' \in [Effect -> SUBSET PartStage]
        /\ sent' \in [Effect -> Seq(Nat)]
        /\ e \in Effect /\ call[c].pc = "attempt" /\ call[c] \in Thread /\ clock \in Times
        /\ Ledger!TypeOK
    BY CallEffect DEF Attempt, IInv, TypeOK, At
  <1>2. CallInv(c) /\ EffectInv(e)
    BY <1>1 DEF IInv
  <1>a. sent' = sent
    BY <1>1
  <1>3. CASE effects[e].state # "CLAIMED" /\ Goto(c, "send") /\ UNCHANGED <<ledger, answer, lock>>
    <2>1. PICK t \in Thread : t = [call[c] EXCEPT !.pc = "send"]
      BY <1>1 DEF Thread, Pc
    <2>2. call' = [call EXCEPT ![c] = t]
      BY <2>1, <1>3 DEF Goto, Set
    <2>3. call'[c] = t /\ t.pc = "send" /\ t.segment = call[c].segment /\ t.from = call[c].from
      BY <1>1, <2>1, <2>2 DEF IInv, TypeOK, Thread
    <2>4. CallInv(c)'
      BY <2>3, <1>1, <1>2, <1>3 DEF CallInv, Inside, Sending, EffectOfCall, ledger
    <2>5. lock' = lock
      BY <1>3
    <2> QED
      BY <2>2, <2>4, <2>5, <1>1, <1>3, GotoKeeps
  <1>4. CASE /\ effects[e].state = "CLAIMED"
             /\ Set(c, [call[c] EXCEPT !.pc = "record", !.status = "FAILED_RETRYABLE"])
             /\ UNCHANGED <<ledger, answer, lock>>
    <2>1. PICK t \in Thread : t = [call[c] EXCEPT !.pc = "record", !.status = "FAILED_RETRYABLE"]
      BY <1>1 DEF Thread, Pc, Status
    <2>2. call' = [call EXCEPT ![c] = t]
      BY <2>1, <1>4 DEF Set
    <2>3. /\ call'[c] = t /\ t.pc = "record" /\ t.status = "FAILED_RETRYABLE"
          /\ t.from = call[c].from /\ t.segment = call[c].segment
      BY <1>1, <2>1, <2>2 DEF IInv, TypeOK, Thread
    <2>4. call[c].segment \in Nat /\ Len(sent[e]) = 0
      BY <1>1, <1>2, <1>4 DEF EffectInv, Thread
    <2>5. effects' = effects /\ lock' = lock
      BY <1>4 DEF ledger
    <2>6. CallInv(c)'
      BY <2>3, <2>4, <2>5, <1>a, <1>1, <1>2, <1>4 DEF CallInv, Inside, Sending, EffectOfCall
    <2> QED
      BY <2>2, <2>5, <2>6, <1>1, <1>4, GotoKeeps
  <1>5. CASE /\ effects[e].state = "CLAIMED"
             /\ Ledger!MarkSideEffectStarted(e, clock)
             /\ Goto(c, "send") /\ UNCHANGED <<answer, lock>>
    <2>1. PICK t \in Thread : t = [call[c] EXCEPT !.pc = "send"]
      BY <1>1 DEF Thread, Pc
    <2>2. call' = [call EXCEPT ![c] = t]
      BY <2>1, <1>5 DEF Goto, Set
    <2>3. call'[c] = t /\ t.pc = "send" /\ t.segment = call[c].segment /\ t.from = call[c].from
      BY <1>1, <2>1, <2>2 DEF IInv, TypeOK, Thread
    <2>4. /\ Ledger!TypeOK'
          /\ \A x \in Effect : x # e => effects'[x] = effects[x]
          /\ effects'[e].state = "SIDE_EFFECT_STARTED"
      BY <1>1, <1>5, StartEffect
    <2>5. CallInv(c)'
      BY <2>3, <2>4, <1>a, <1>1, <1>2, <1>5 DEF CallInv, Inside, Sending, EffectOfCall
    <2>6. ASSUME NEW x \in Effect PROVE EffectInv(x)'
      <3>1. EffectInv(x)
        BY DEF IInv
      <3> QED
        BY <3>1, <2>4, <1>a DEF EffectInv
    <2>7. lock = c /\ lock' = lock /\ lock' \in Call \cup {NoCall}
      BY <1>1, <1>2, <1>5 DEF CallInv, Inside, Sending, IInv, TypeOK
    <2>8. answer' \in [Call -> Answers]
      BY <1>5 DEF IInv
    <2> QED
      BY <2>2, <2>4, <2>5, <2>6, <2>7, <2>8, <1>1, StepKeeps
  <1>6. CASE Raise(c) /\ UNCHANGED ledger
    BY <1>1, <1>6, RaiseKeeps
  <1> QED
    BY <1>3, <1>4, <1>5, <1>6 DEF Attempt

(* ClearContext: the next attempt goes without the token. *)
LEMMA ClearKeeps ==
    ASSUME IInv, NEW c \in Call, ClearContext(c)
    PROVE  IInv'
  <1> DEFINE e == EffectOfCall(c)
  <1>1. /\ UNCHANGED <<ledger, stages, clock, expired, sent, restarts>>
        /\ e \in Effect /\ call[c].pc = "clear" /\ call[c] \in Thread
        /\ sent' = sent /\ effects' = effects
    BY CallEffect DEF ClearContext, IInv, TypeOK, At, ledger
  <1>2. CallInv(c)
    BY DEF IInv
  <1>3. CASE /\ Set(c, [call[c] EXCEPT !.pc = "attempt", !.context = FALSE, !.retried = TRUE])
             /\ token' = FALSE /\ UNCHANGED <<answer, lock>>
    <2>1. PICK t \in Thread :
            t = [call[c] EXCEPT !.pc = "attempt", !.context = FALSE, !.retried = TRUE]
      BY <1>1 DEF Thread, Pc
    <2>2. call' = [call EXCEPT ![c] = t]
      BY <2>1, <1>3 DEF Set
    <2>3. call'[c] = t /\ t.pc = "attempt" /\ t.segment = call[c].segment /\ t.from = call[c].from
      BY <1>1, <2>1, <2>2 DEF IInv, TypeOK, Thread
    <2>4. CallInv(c)'
      BY <2>3, <1>1, <1>2, <1>3 DEF CallInv, Inside, Sending, EffectOfCall
    <2>5. lock' = lock /\ token' \in BOOLEAN
      BY <1>3
    <2> QED
      BY <2>2, <2>4, <2>5, <1>1, <1>3, GotoKeeps
  <1>4. CASE Raise(c) /\ UNCHANGED token
    <2>1. token' \in BOOLEAN
      BY <1>4 DEF IInv, TypeOK
    <2> QED
      BY <2>1, <1>1, <1>4, RaiseKeeps
  <1> QED
    BY <1>3, <1>4 DEF ClearContext

(* What a request does to the platform: the segment is appended or not.      *)
LEMMA PlatformTypes ==
    ASSUME IInv, NEW c \in Call, At(c, "send"), NEW response \in Response, Platform(c, response)
    PROVE  LET e == EffectOfCall(c) IN
           /\ sent' \in [Effect -> Seq(Nat)]
           /\ \A x \in Effect : x # e => sent'[x] = sent[x]
           /\ \/ sent'[e] = sent[e] /\ response # "accepted"
              \/ /\ response \in {"accepted", "unknown"}
                 /\ Len(sent'[e]) = Len(sent[e]) + 1
                 /\ \A i \in 1 .. Len(sent'[e]) : sent'[e][i] = i
           /\ Len(sent'[e]) <= Segments[e]
  <1> DEFINE e == EffectOfCall(c)
  <1>1. e \in Effect /\ sent \in [Effect -> Seq(Nat)] /\ call[c].segment \in Nat
        /\ sent[e] \in Seq(Nat) /\ Segments[e] \in Nat
    BY CallEffect DEF IInv, TypeOK, Thread
  <1>2. /\ \A i \in 1 .. Len(sent[e]) : sent[e][i] = i
        /\ Len(sent[e]) = call[c].segment - 1 /\ call[c].segment <= Segments[e]
        /\ Len(sent[e]) <= Segments[e]
    BY <1>1 DEF IInv, EffectInv, CallInv, Sending, At
  <1> HIDE DEF e
  <1>3. CASE response # "accepted" /\ UNCHANGED sent
    BY <1>1, <1>2, <1>3 DEF e
  <1>4. CASE /\ response \in {"accepted", "unknown"}
             /\ sent' = [sent EXCEPT ![e] = Append(@, call[c].segment)]
    <2>1. /\ sent'[e] = Append(sent[e], call[c].segment)
          /\ \A x \in Effect : x # e => sent'[x] = sent[x]
          /\ Append(sent[e], call[c].segment) \in Seq(Nat)
      BY <1>1, <1>4
    <2>2. sent' \in [Effect -> Seq(Nat)]
      BY <1>1, <1>4, <2>1
    <2>3. /\ Len(sent[e]) \in Nat
          /\ Len(sent'[e]) = Len(sent[e]) + 1
          /\ \A i \in 1 .. Len(sent[e]) : sent'[e][i] = sent[e][i]
          /\ sent'[e][Len(sent[e]) + 1] = call[c].segment
      BY <1>1, <2>1
    <2>4. ASSUME NEW i \in 1 .. Len(sent'[e]) PROVE sent'[e][i] = i
      <3>1. CASE i = Len(sent[e]) + 1
        BY <3>1, <1>1, <1>2, <2>3
      <3>2. CASE i # Len(sent[e]) + 1
        <4>1. i \in 1 .. Len(sent[e])
          BY <3>2, <2>3
        <4> QED
          BY <4>1, <1>2, <2>3
      <3> QED
        BY <3>1, <3>2
    <2> QED
      BY <1>1, <1>2, <1>4, <2>1, <2>2, <2>3, <2>4 DEF e
  <1> QED
    BY <1>3, <1>4 DEF Platform, e

(* A thread that goes on with its next segment. *)
LEMMA NextSegmentInv ==
    ASSUME NEW c \in Call, NEW n \in Nat, call'[c].pc = "attempt", lock' = c,
           call'[c].segment = n + 1, call'[c].from \in Nat, call'[c].from >= 1,
           call'[c].from <= n + 1, n + 1 <= Segments[EffectOfCall(c)],
           Len(sent'[EffectOfCall(c)]) = n,
           effects'[EffectOfCall(c)].state = "SIDE_EFFECT_STARTED"
    PROVE  CallInv(c)'
  <1>1. n = (n + 1) - 1
    OBVIOUS
  <1> QED
    BY <1>1 DEF CallInv, Inside, Sending, EffectOfCall

(* Send: the platform answers, and the thread goes on, tries again or stops. *)
LEMMA SendKeeps ==
    ASSUME IInv, NEW c \in Call, NEW response \in Response, Send(c, response)
    PROVE  IInv'
  <1> DEFINE e == EffectOfCall(c)
             t == call[c]
  <1>1. PICK s : s = call[c]
    OBVIOUS
  <1>2. /\ UNCHANGED <<ledger, stages, token, clock, expired, restarts>>
        /\ UNCHANGED <<clock, expired, restarts>>
        /\ At(c, "send") /\ Platform(c, response) /\ s \in Thread /\ s.pc = "send"
        /\ effects' = effects
        /\ stages' \in [Effect -> SUBSET PartStage] /\ token' \in BOOLEAN
        /\ Ledger!TypeOK' /\ clock \in Times
    BY <1>1 DEF Send, At, IInv, TypeOK, ledger, Ledger!TypeOK
  <1>3. /\ e \in Effect /\ Segments[e] \in Nat /\ Segments[e] >= 1
        /\ sent[e] \in Seq(Nat) /\ Len(sent[e]) \in Nat
    BY CallEffect DEF IInv, TypeOK
  <1>4. /\ sent' \in [Effect -> Seq(Nat)]
        /\ \A x \in Effect : x # e => sent'[x] = sent[x]
        /\ \/ sent'[e] = sent[e] /\ response # "accepted"
           \/ /\ response \in {"accepted", "unknown"}
              /\ Len(sent'[e]) = Len(sent[e]) + 1
              /\ \A i \in 1 .. Len(sent'[e]) : sent'[e][i] = i
        /\ Len(sent'[e]) <= Segments[e]
    BY <1>2, PlatformTypes
  <1>5. /\ lock = c /\ s.from >= 1 /\ s.from <= s.segment /\ s.segment <= Segments[e]
        /\ Len(sent[e]) = s.segment - 1 /\ effects[e].state = "SIDE_EFFECT_STARTED"
        /\ s.from \in Nat /\ s.segment \in Nat /\ s.rate \in 0 .. RateRetries
    BY <1>1, <1>2 DEF IInv, CallInv, Inside, Sending, Thread
  <1>6. ASSUME NEW x \in Effect PROVE EffectInv(x)'
    <2>1. EffectInv(x)
      BY DEF IInv
    <2>2. CASE x = e
      BY <2>1, <2>2, <1>2, <1>4, <1>5 DEF EffectInv
    <2>3. CASE x # e
      BY <2>1, <2>3, <1>2, <1>4 DEF EffectInv
    <2> QED
      BY <2>2, <2>3
  <1> HIDE DEF e
  <1>7. ASSUME NEW u \in Thread, call' = [call EXCEPT ![c] = u], UNCHANGED <<answer, lock>>,
               CallInv(c)'
        PROVE  IInv'
    <2>1. /\ answer' \in [Call -> Answers] /\ lock' \in Call \cup {NoCall}
          /\ \A d \in Call : ~ (d # c /\ lock = d)
      BY <1>5, <1>7 DEF IInv, TypeOK
    <2> QED
      BY <2>1, <1>2, <1>4, <1>6, <1>7, StepKeeps
  <1>8. ASSUME NEW u \in Thread, call' = [call EXCEPT ![c] = u]
        PROVE  call'[c] = u
    BY <1>8 DEF IInv, TypeOK
  <1>9. CASE response = "accepted" /\ s.segment \in Closing[e] /\ ClosePart(c)
    <2>1. CASE clock < s.partStarted
      <3>1. RaiseValueError(c)
        BY <2>1, <1>1, <1>9 DEF ClosePart
      <3>2. Unwind(c, "end") /\ Tell(c, ErrorAnswer("FAILED_FINAL"))
        BY <3>1 DEF RaiseValueError, End
      <3>3. answer' \in [Call -> Answers]
        BY <3>2, AnswerTypes, TellTypes DEF Status, IInv
      <3>4. PICK u \in Thread : u = [NewThread EXCEPT !.pc = "end"] /\ u.pc = "end"
        BY NewThreadType DEF Pc
      <3>5. call' = [call EXCEPT ![c] = u] /\ lock' = NoCall
        BY <3>2, <3>4, <1>5 DEF Unwind, Set, Leave
      <3>6. CallInv(c)'
        BY <3>4, <3>5, <1>8 DEF CallInv, Inside, Sending
      <3>7. lock' \in Call \cup {NoCall} /\ \A d \in Call : ~ (d # c /\ lock = d)
        BY <3>5, <1>5
      <3> QED
        BY <3>3, <3>5, <3>6, <3>7, <1>2, <1>4, <1>6, StepKeeps
    <2>2. CASE ~ (clock < s.partStarted)
      <3> DEFINE last == s.segment = Segments[e]
                 pc == IF last THEN "record" ELSE "attempt"
                 status == IF last THEN "CHANNEL_ACCEPTED" ELSE s.status
                 u == [s EXCEPT !.pc = pc, !.status = status, !.segment = s.segment + 1,
                                !.from = s.segment + 1, !.partStarted = clock,
                                !.retried = FALSE, !.rate = 0]
      <3>1. call' = [call EXCEPT ![c] = u] /\ UNCHANGED <<answer, lock>>
        BY <2>2, <1>1, <1>9 DEF ClosePart, Set, e
      <3>2. pc \in Pc /\ status \in Status /\ 0 \in 0 .. RateRetries /\ s.segment + 1 \in Nat
        BY <1>2, <1>5, WechatAssumption DEF Pc, Status, Thread
      <3> HIDE DEF pc, status
      <3>3. /\ u \in Thread /\ u.pc = pc /\ u.status = status
            /\ u.segment = s.segment + 1 /\ u.from = s.segment + 1
        BY <3>2, <1>2 DEF Thread
      <3> HIDE DEF u
      <3>4. call'[c] = u
        BY <3>1, <3>3, <1>8
      <3>5. Len(sent'[e]) = s.segment
        BY <1>4, <1>5, <1>9, <1>3
      <3>6. CallInv(c)'
        <4>1. CASE last
          <5>1. pc = "record" /\ status = "CHANNEL_ACCEPTED"
            BY <4>1 DEF pc, status
          <5> QED
            BY <5>1, <4>1, <3>1, <3>3, <3>4, <3>5, <1>2, <1>3, <1>5
            DEF CallInv, Inside, Sending, e, EffectOfCall
        <4>2. CASE ~ last
          <5>1. pc = "attempt" /\ s.segment + 1 <= Segments[e]
            BY <4>2, <1>3, <1>5 DEF pc
          <5>2. lock' = c /\ s.segment + 1 >= 1 /\ s.segment + 1 <= s.segment + 1
            BY <3>1, <1>5
          <5> QED
            BY <5>1, <5>2, <3>2, <3>3, <3>4, <3>5, <1>2, <1>5, NextSegmentInv DEF e
        <4> QED
          BY <4>1, <4>2
      <3> QED
        BY <3>1, <3>3, <3>6, <1>7
    <2> QED
      BY <2>1, <2>2
  <1>10. CASE ~ (response = "accepted" /\ s.segment \in Closing[e])
    <2> DEFINE u == IF response = "accepted"
                      THEN [s EXCEPT !.pc = "attempt", !.segment = s.segment + 1,
                                     !.retried = FALSE, !.rate = 0]
                    ELSE IF response = "context_expired" /\ s.context /\ ~ s.retried
                      THEN [s EXCEPT !.pc = "clear"]
                    ELSE IF response = "rate_limited" /\ RateLeft(s)
                      THEN [s EXCEPT !.pc = "attempt", !.rate = s.rate + 1]
                    ELSE [s EXCEPT !.pc = "record", !.status = FinalStatus(s, response)]
    <2>1. call' = [call EXCEPT ![c] = u] /\ UNCHANGED <<answer, lock>>
      BY <1>1, <1>10 DEF Send, Set, e
    <2>2. CASE response = "accepted"
      <3>1. u = [s EXCEPT !.pc = "attempt", !.segment = s.segment + 1,
                          !.retried = FALSE, !.rate = 0]
        BY <2>2
      <3>2. 0 \in 0 .. RateRetries /\ s.segment + 1 \in Nat
        BY <1>5, WechatAssumption
      <3>3. u \in Thread /\ u.pc = "attempt" /\ u.segment = s.segment + 1 /\ u.from = s.from
        BY <3>1, <3>2, <1>2 DEF Thread, Pc
      <3>4. s.segment # Segments[e]
        BY <1>3, <1>10, <2>2, WechatAssumption
      <3> HIDE DEF u
      <3>a. call'[c] = u
        BY <2>1, <3>3, <1>8
      <3>5. call'[c] = u /\ Len(sent'[e]) = s.segment
        BY <3>a, <2>2, <1>4, <1>5, <1>3
      <3>6. CallInv(c)'
        <4>1. lock' = c /\ s.segment + 1 <= Segments[e] /\ s.from <= s.segment + 1
          BY <2>1, <3>4, <1>3, <1>5
        <4> QED
          BY <4>1, <3>3, <3>5, <1>2, <1>5, NextSegmentInv DEF e
      <3> QED
        BY <2>1, <3>3, <3>6, <1>7
    <2>3. ASSUME response # "accepted", sent'[e] = sent[e],
                 u \in Thread, u.pc \in {"clear", "attempt"}, u.segment = s.segment, u.from = s.from
          PROVE  IInv'
      <3> HIDE DEF u
      <3>1. call'[c] = u
        BY <2>1, <2>3, <1>8
      <3>2. CallInv(c)'
        BY <2>1, <2>3, <3>1, <1>2, <1>3, <1>5 DEF CallInv, Inside, Sending, e, EffectOfCall
      <3> QED
        BY <2>1, <2>3, <3>2, <1>7
    <2>4. CASE response = "context_expired" /\ s.context /\ ~ s.retried
      <3>1. u = [s EXCEPT !.pc = "clear"]
        BY <2>4
      <3>2. u \in Thread /\ u.pc = "clear" /\ u.segment = s.segment /\ u.from = s.from
        BY <3>1, <1>2 DEF Thread, Pc
      <3> QED
        BY <2>3, <2>4, <3>2, <1>4
    <2>5. CASE response = "rate_limited" /\ RateLeft(s)
      <3>1. u = [s EXCEPT !.pc = "attempt", !.rate = s.rate + 1]
        BY <2>5
      <3>2. s.rate + 1 \in 0 .. RateRetries
        BY <2>5, <1>5, WechatAssumption DEF RateLeft
      <3>3. u \in Thread /\ u.pc = "attempt" /\ u.segment = s.segment /\ u.from = s.from
        BY <3>1, <3>2, <1>2 DEF Thread, Pc
      <3> QED
        BY <2>3, <2>5, <3>3, <1>4
    <2>6. CASE /\ response # "accepted"
               /\ ~ (response = "context_expired" /\ s.context /\ ~ s.retried)
               /\ ~ (response = "rate_limited" /\ RateLeft(s))
      <3> DEFINE f == FinalStatus(s, response)
      <3>1. u = [s EXCEPT !.pc = "record", !.status = f]
        BY <2>6
      <3>2. /\ f \in {"AMBIGUOUS", "FAILED_RETRYABLE", "FAILED_FINAL"}
            /\ f = "FAILED_RETRYABLE" => response # "unknown" /\ ~ (s.segment > 1)
            /\ f = "FAILED_FINAL" => response # "unknown" /\ ~ (s.segment > s.from)
        BY DEF FinalStatus
      <3> HIDE DEF f
      <3>3. u \in Thread /\ u.pc = "record" /\ u.status = f /\ u.from = s.from
        BY <3>1, <3>2, <1>2 DEF Thread, Pc, Status
      <3> HIDE DEF u
      <3>4. call'[c] = u
        BY <2>1, <3>3, <1>8
      <3>5. Len(sent'[e]) >= s.segment - 1 /\ Len(sent'[e]) \in Nat
            /\ (response # "unknown" => Len(sent'[e]) = s.segment - 1)
        BY <2>6, <1>3, <1>4, <1>5
      <3>6. /\ lock' = c /\ effects'[e].state = "SIDE_EFFECT_STARTED"
            /\ u.from >= 1 /\ u.from <= Len(sent'[e]) + 1
        BY <2>1, <3>3, <3>5, <1>2, <1>5
      <3>7. /\ f = "FAILED_RETRYABLE" => Len(sent'[e]) = 0
            /\ f = "FAILED_FINAL" => Len(sent'[e]) < Segments[e] /\ u.from = Len(sent'[e]) + 1
        BY <3>2, <3>3, <3>5, <1>3, <1>5
      <3>8. CallInv(c)'
        BY <3>2, <3>3, <3>4, <3>6, <3>7 DEF CallInv, Inside, Sending, e, EffectOfCall
      <3> QED
        BY <2>1, <3>3, <3>8, <1>7
    <2> QED
      BY <2>2, <2>4, <2>5, <2>6
  <1> QED
    BY <1>1, <1>9, <1>10 DEF Send, e

-----------------------------------------------------------------------------
(* The receipt.                                                             *)

(* Record: a status that is true of what the platform accepted becomes the   *)
(* durable receipt, or the ledger refuses the time.                          *)
LEMMA RecordKeeps ==
    ASSUME IInv, NEW c \in Call, NEW status \in Status, NEW p \in SUBSET PartStage,
           lock = c, status # "none", Record(c, status, p),
           UNCHANGED <<token, clock, expired, sent, restarts>>,
           status = "CHANNEL_ACCEPTED" => Len(sent[EffectOfCall(c)]) = Segments[EffectOfCall(c)],
           status = "FAILED_RETRYABLE" => Len(sent[EffectOfCall(c)]) = 0,
           status = "FAILED_FINAL" => Len(sent[EffectOfCall(c)]) < Segments[EffectOfCall(c)]
    PROVE  IInv'
  <1> DEFINE e == EffectOfCall(c)
             r == [ticket |-> TicketOf[c], status |-> LedgerStatus(status), observedAt |-> clock]
  <1>1. /\ e \in Effect /\ TicketOf[c] \in Ticket /\ clock \in Times /\ Ledger!TypeOK
        /\ token' \in BOOLEAN
    BY CallEffect DEF IInv, TypeOK
  <1>2. CASE Raise(c) /\ UNCHANGED <<ledger, stages>>
    BY <1>1, <1>2, RaiseKeeps
  <1>3. CASE /\ Ledger!RecordReceipt(e, r, status = "FAILED_RETRYABLE", FALSE)
             /\ stages' = [stages EXCEPT ![e] = p]
             /\ End(c, ReceiptAnswer(status, p))
    <2>1. LedgerStatus(status) \in Ledger!ReceiptStatus
          /\ LedgerStatus(status) = (IF status = "AMBIGUOUS" THEN "RECONCILE_REQUIRED" ELSE status)
      BY DEF LedgerStatus, Status, Ledger!ReceiptStatus, Ledger!AcceptedStatus,
             Ledger!FailedStatus, Ledger!UnknownStatus
    <2>2. r \in Ledger!Receipt /\ r.status = LedgerStatus(status)
      BY <2>1, <1>1 DEF Ledger!Receipt
    <2> HIDE DEF r
    <2>3. /\ Ledger!TypeOK'
          /\ \A x \in Effect : x # e => effects'[x] = effects[x]
          /\ \/ effects'[e] = effects[e]
             \/ effects'[e].state = Ledger!ReceiptTarget(effects[e].state, r.status)
      BY <2>2, <1>1, <1>3, ReceiptEffect
    <2>4. ASSUME NEW x \in Effect PROVE EffectInv(x)'
      <3>1. EffectInv(x) /\ sent'[x] = sent[x]
        BY DEF IInv
      <3>2. CASE effects'[x] = effects[x]
        BY <3>1, <3>2 DEF EffectInv
      <3>3. CASE x = e /\ effects'[e].state = Ledger!ReceiptTarget(effects[e].state, r.status)
        <4>1. \/ effects'[e].state \in {"RECONCILED", "RECONCILE_REQUIRED"}
              \/ effects'[e].state = status
          BY <3>3, <2>1, <2>2 DEF Ledger!ReceiptTarget
        <4>2. status \in {"CHANNEL_ACCEPTED", "FAILED_RETRYABLE", "FAILED_FINAL", "AMBIGUOUS"}
          BY DEF Status
        <4> QED
          BY <4>1, <4>2, <3>1, <3>3 DEF EffectInv
      <3> QED
        BY <3>2, <3>3, <2>3
    <2>5. Unwind(c, "end") /\ answer' \in [Call -> Answers]
      BY <1>3, AnswerTypes, TellTypes DEF End, IInv
    <2>6. stages' \in [Effect -> SUBSET PartStage]
      BY <1>3 DEF IInv, TypeOK
    <2>7. \A d \in Call : ~ (d # c /\ lock = d)
      OBVIOUS
    <2> QED
      BY <2>3, <2>4, <2>5, <2>6, <2>7, <1>1, UnwindKeeps
  <1> QED
    BY <1>2, <1>3 DEF Record

(* RecordOutcome: the status was true when the thread chose it. *)
LEMMA RecordOutcomeKeeps ==
    ASSUME IInv, NEW c \in Call, RecordOutcome(c)
    PROVE  IInv'
  <1> DEFINE t == call[c]
             before == IF t.from > 1 THEN {"CHANNEL_ACCEPTED"} ELSE {}
  <1>1. /\ UNCHANGED <<token, clock, expired, sent, restarts>> /\ token' \in BOOLEAN
        /\ t.pc = "record" /\ t \in Thread
    BY DEF RecordOutcome, IInv, TypeOK, At
  <1>2. CallInv(c)
    BY DEF IInv
  <1>3. t.status \in Status /\ t.status # "none" /\ before \cup {t.status} \in SUBSET PartStage
    BY <1>1, <1>2 DEF CallInv, Thread, Status, PartStage
  <1>4. CASE RaiseValueError(c) /\ UNCHANGED <<ledger, stages>>
    BY <1>1, <1>4, ValueErrorKeeps
  <1>5. CASE Record(c, t.status, before \cup {t.status})
    BY <1>1, <1>2, <1>3, <1>5, RecordKeeps DEF CallInv, Inside
  <1> QED
    BY <1>4, <1>5 DEF RecordOutcome

(* RecoverStarted: a start without a receipt is ambiguous. *)
LEMMA RecoverStartedKeeps ==
    ASSUME IInv, NEW c \in Call, RecoverStarted(c)
    PROVE  IInv'
  <1>1. /\ UNCHANGED <<token, clock, expired, sent, restarts>> /\ token' \in BOOLEAN
        /\ lock = c
    BY DEF RecoverStarted, IInv, TypeOK, At, CallInv, Inside
  <1>2. CASE RaiseValueError(c) /\ UNCHANGED <<ledger, stages>>
    BY <1>1, <1>2, ValueErrorKeeps
  <1>3. CASE Record(c, "AMBIGUOUS", {"AMBIGUOUS"})
    <2>1. "AMBIGUOUS" \in Status /\ {"AMBIGUOUS"} \in SUBSET PartStage
      BY DEF Status, PartStage
    <2> QED
      BY <1>1, <1>3, <2>1, RecordKeeps
  <1> QED
    BY <1>2, <1>3 DEF RecoverStarted

-----------------------------------------------------------------------------
(* The client, the session, the clock and the process.                      *)

(* GiveUp, SessionChanges, Tick and Expire touch neither the ledger nor the  *)
(* threads.                                                                  *)
LEMMA WorldKeeps ==
    ASSUME IInv, UNCHANGED <<ledger, stages, lock, call, sent, restarts>>,
           token' \in BOOLEAN, clock' \in Times, expired' \subseteq Ticket,
           answer' \in [Call -> Answers]
    PROVE  IInv'
  <1>1. TypeOK'
    BY DEF IInv, TypeOK, Ledger!TypeOK, ledger, Answers
  <1>2. \A x \in Effect : EffectInv(x)'
    BY QuietEffects DEF ledger
  <1>3. \A c \in Call : CallInv(c)'
    BY DEF IInv, CallInv, EffectOfCall, ledger
  <1> QED
    BY <1>1, <1>2, <1>3 DEF IInv

(* Restart: the threads are gone and every start is resolved as ambiguous.   *)
LEMMA RestartKeeps ==
    ASSUME IInv, Restart
    PROVE  IInv'
  <1>1. clock \in Times /\ Ledger!TypeOK /\ Ledger!RecoverAmbiguous(clock)
        /\ UNCHANGED <<stages, token, clock, expired, sent>>
    BY DEF Restart, IInv, TypeOK
  <1>2. /\ Ledger!TypeOK'
        /\ \A x \in Effect :
             \/ effects'[x] = effects[x]
             \/ effects'[x].state = "RECONCILE_REQUIRED"
    BY <1>1, RecoverEffect
  <1>3. ASSUME NEW x \in Effect PROVE EffectInv(x)'
    BY <1>1, <1>2 DEF IInv, EffectInv
  <1>4. PICK u \in Thread : u = [NewThread EXCEPT !.pc = "end"] /\ u.pc = "end"
    BY NewThreadType DEF Pc
  <1>5. \A c \in Call : call'[c] = u \/ (call'[c] = call[c] /\ call[c].pc = "new")
    BY <1>4 DEF Restart, At
  <1>6. call' \in [Call -> Thread]
    BY <1>4 DEF Restart, IInv, TypeOK
  <1>7. answer' \in [Call -> Answers]
    BY AnswerTypes DEF Restart, IInv
  <1>8. restarts' \in 0 .. MaxRestarts
    BY WechatAssumption DEF Restart, IInv, TypeOK
  <1>9. lock' \in Call \cup {NoCall}
    BY DEF Restart
  <1>10. TypeOK'
    BY <1>1, <1>2, <1>6, <1>7, <1>8, <1>9 DEF IInv, TypeOK, Answers
  <1>11. ASSUME NEW c \in Call PROVE CallInv(c)'
    <2>1. CallInv(c)
      BY DEF IInv
    <2> QED
      BY <2>1, <1>4, <1>5 DEF CallInv, Inside, Sending
  <1> QED
    BY <1>3, <1>7, <1>10, <1>11 DEF IInv

(* An idle service with an empty ledger satisfies the invariant. *)
LEMMA InitInv == Init => IInv
  <1> SUFFICES ASSUME Init PROVE IInv
    OBVIOUS
  <1>1. Ledger!NoRow \in Ledger!Row
    BY DEF Ledger!NoRow, Ledger!Row, Ledger!Reason
  <1>2. Ledger!TypeOK
    BY <1>1 DEF Init, Ledger!Init, Ledger!TypeOK
  <1>3. answer \in [Call -> Answers]
    BY AnswerTypes DEF Init
  <1>4. call \in [Call -> Thread]
    BY NewThreadType DEF Init, Pc
  <1>5. restarts \in 0 .. MaxRestarts
    BY WechatAssumption DEF Init
  <1>6. TypeOK
    BY <1>2, <1>3, <1>4, <1>5 DEF Init, TypeOK, Answers
  <1>7. ASSUME NEW e \in Effect PROVE EffectInv(e)
    <2>1. sent[e] = <<>> /\ effects[e] = Ledger!NoRow /\ Segments[e] \in Nat
      BY WechatAssumption DEF Init, Ledger!Init
    <2>2. Len(sent[e]) = 0
      BY <2>1
    <2> QED
      BY <2>1, <2>2 DEF EffectInv, Ledger!NoRow
  <1>8. ASSUME NEW c \in Call PROVE CallInv(c)
    BY DEF Init, CallInv, NewThread, Inside, Sending
  <1> QED
    BY <1>3, <1>6, <1>7, <1>8 DEF IInv

(* Every step preserves the invariant. *)
LEMMA StepInv == IInv /\ [Next]_vars => IInv'
  <1> SUFFICES ASSUME IInv, [Next]_vars PROVE IInv'
    OBVIOUS
  <1>1. ASSUME NEW c \in Call, ThreadStep(c) PROVE IInv'
    BY <1>1, DispatchKeeps, RefuseKeeps, ResolveKeeps, FailuresKeep, EnterKeeps, AttemptKeeps,
       ClearKeeps, SendKeeps, RecordOutcomeKeeps, RecoverStartedKeeps DEF ThreadStep
  <1>2. token \in BOOLEAN /\ clock \in Times /\ expired \subseteq Ticket /\ answer \in [Call -> Answers]
    BY DEF IInv, TypeOK
  <1>3. ASSUME NEW c \in Call, GiveUp(c) PROVE IInv'
    <2>1. answer' \in [Call -> Answers]
      BY <1>2, <1>3, TellTypes, AnswerTypes DEF GiveUp
    <2>2. UNCHANGED <<ledger, stages, lock, call, sent, restarts>>
          /\ token' \in BOOLEAN /\ clock' \in Times /\ expired' \subseteq Ticket
      BY <1>2, <1>3 DEF GiveUp
    <2> QED
      BY <2>1, <2>2, WorldKeeps
  <1>4. ASSUME NEW t \in Times, Tick(t) PROVE IInv'
    BY <1>2, <1>4, WorldKeeps DEF Tick
  <1>5. ASSUME NEW tk \in Ticket, Expire(tk) PROVE IInv'
    BY <1>2, <1>5, WorldKeeps DEF Expire
  <1>6. CASE SessionChanges
    <2>1. UNCHANGED <<ledger, stages, lock, call, sent, restarts>>
          /\ clock' \in Times /\ expired' \subseteq Ticket /\ answer' \in [Call -> Answers]
      BY <1>2, <1>6 DEF SessionChanges
    <2>2. token' \in BOOLEAN
      BY <1>6 DEF SessionChanges
    <2> QED
      BY <2>1, <2>2, WorldKeeps
  <1>7. CASE UNCHANGED vars
    BY <1>2, <1>7, WorldKeeps DEF vars
  <1> QED
    BY <1>1, <1>3, <1>4, <1>5, <1>6, <1>7, RestartKeeps DEF Next

(* The sender keeps its invariant. *)
THEOREM SenderInvariant == Spec => []IInv
  BY InitInv, StepInv, PTL DEF Spec

(* SentInOrder: whatever retries, repeated calls and restarts happen, the     *)
(* segments of a text reach the platform in order, each at most once.         *)
THEOREM AlwaysSentInOrder == Spec => []SentInOrder
  <1>1. IInv => SentInOrder
    BY DEF IInv, EffectInv, SentInOrder
  <1> QED
    BY <1>1, SenderInvariant, PTL

(* LedgerIsTruthful: the sender's state is well typed, and a durable receipt  *)
(* is true of what the platform accepted, also when the wall clock is set     *)
(* back.                                                                      *)
THEOREM LedgerAlwaysTruthful == Spec => []LedgerIsTruthful
  <1>1. ASSUME IInv, NEW e \in Effect
        PROVE  /\ effects[e].state = "CHANNEL_ACCEPTED" => Level(e) = "all"
               /\ effects[e].state = "FAILED_RETRYABLE" => Level(e) = "none"
               /\ effects[e].state = "FAILED_FINAL" => Level(e) # "all"
    <2>1. sent[e] \in Seq(Nat) /\ Segments[e] \in Nat /\ Segments[e] >= 1 /\ EffectInv(e)
      BY <1>1, WechatAssumption DEF IInv, TypeOK
    <2>2. Len(sent[e]) = 0 <=> sent[e] = <<>>
      BY <2>1
    <2> QED
      BY <2>1, <2>2 DEF EffectInv, Level
  <1>2. IInv => LedgerIsTruthful
    BY <1>1 DEF IInv, LedgerIsTruthful, ReceiptIsTruthful
  <1> QED
    BY <1>2, SenderInvariant, PTL

-----------------------------------------------------------------------------
(* What the gateway is told.                                                *)

(* What AnswerIsTruthful says of one call and one step. *)
Told(c) ==
    Earlier(c) = {} /\ answer'[c] # answer[c] /\ answer'[c] # Lost =>
        Truthful(answer'[c], Level(EffectOfCall(c))')

(* A step of a call: one thread, one client and one effect at most change,    *)
(* and a thread that has not begun waits for the earlier calls of its ticket. *)
Moves(c) ==
    /\ \A d \in Call : d # c => call'[d] = call[d] /\ answer'[d] = answer[d]
    /\ \A x \in Effect : x # EffectOfCall(c) => effects'[x] = effects[x] /\ sent'[x] = sent[x]
    /\ call[c].pc # "new" \/ \A d \in Earlier(c) : answer[d] # NoAnswer
    /\ answer'[c] # answer[c] \/ answer'[c] = NoAnswer => answer[c] = NoAnswer

(* How much the platform accepted, in terms of the number of segments. *)
LEMMA Levels ==
    ASSUME IInv, NEW e \in Effect
    PROVE  /\ Len(sent[e]) = 0 <=> Level(e) = "none"
           /\ Len(sent[e]) = Segments[e] => Level(e) = "all"
           /\ Len(sent[e]) < Segments[e] => Level(e) # "all"
           /\ Level(e) \in {"none", "some", "all"}
  <1>1. sent[e] \in Seq(Nat) /\ Segments[e] \in Nat /\ Segments[e] >= 1
    BY WechatAssumption DEF IInv, TypeOK
  <1>2. Len(sent[e]) = 0 <=> sent[e] = <<>>
    BY <1>1
  <1> QED
    BY <1>1, <1>2 DEF Level

(* A call changes nothing of what the first call of another ticket relies on. *)
LEMMA OtherWaits ==
    ASSUME Trusted, IInv, TruthInv, NEW c \in Call, NEW d \in Call, d # c, Moves(c)
    PROVE  WaitInv(d)'
  <1> SUFFICES ASSUME Earlier(d) = {}, answer'[d] = NoAnswer
               PROVE  WaitInv(d)'
    BY DEF WaitInv, Waiting, Earlier
  <1>1. answer[d] = NoAnswer /\ call'[d] = call[d]
    BY DEF Moves
  <1>2. WaitInv(d) /\ Waiting(d)
    BY <1>1 DEF TruthInv, Waiting
  <1>3. TicketOf[c] # TicketOf[d]
    <2> SUFFICES ASSUME TicketOf[c] = TicketOf[d] PROVE FALSE
      OBVIOUS
    <2>1. call[c].pc = "new"
      BY <1>2 DEF WaitInv
    <2>2. d \in Earlier(c)
      BY DEF Earlier, Call
    <2> QED
      BY <2>1, <2>2, <1>1 DEF Moves
  <1>4. EffectOfCall(c) # EffectOfCall(d) /\ EffectOfCall(d) \in Effect
    BY <1>3, CallEffect DEF Trusted, EffectOfCall
  <1>5. effects'[EffectOfCall(d)] = effects[EffectOfCall(d)]
        /\ sent'[EffectOfCall(d)] = sent[EffectOfCall(d)]
    BY <1>4 DEF Moves
  <1>6. \A x \in Call : TicketOf[x] = TicketOf[d] => call'[x] = call[x]
    BY <1>3 DEF Moves
  <1> QED
    BY <1>1, <1>2, <1>5, <1>6 DEF WaitInv, Waiting, EffectOfCall

(* What a client is told changes only while it waits. *)
LEMMA TellMoves ==
    ASSUME IInv, NEW c \in Call, NEW a, Tell(c, a)
    PROVE  /\ \A d \in Call : d # c => answer'[d] = answer[d]
           /\ answer'[c] # answer[c] => answer[c] = NoAnswer
           /\ answer[c] = NoAnswer => answer'[c] = a
           /\ answer[c] # NoAnswer => answer'[c] = answer[c]
  BY DEF Tell, IInv

(* The thread of a call that ended or raised. *)
LEMMA UnwindMoves ==
    ASSUME IInv, NEW c \in Call, NEW pc \in {"raised", "end"}, Unwind(c, pc)
    PROVE  /\ \A d \in Call : d # c => call'[d] = call[d]
           /\ call'[c].pc = pc /\ call'[c].partStarted = 0
  <1>1. call' = [call EXCEPT ![c] = [NewThread EXCEPT !.pc = pc]]
    BY DEF Unwind, Set
  <1>2. [NewThread EXCEPT !.pc = pc].pc = pc /\ [NewThread EXCEPT !.pc = pc].partStarted = 0
    BY NewThreadType DEF Pc
  <1> QED
    BY <1>1, <1>2 DEF IInv, TypeOK

(* What a step of a waiting first call must establish. *)
Good(c) ==
    /\ Moves(c)
    /\ Waiting(c) /\ answer'[c] # NoAnswer =>
         answer'[c] = Lost \/ Truthful(answer'[c], Level(EffectOfCall(c))')
    /\ Waiting(c) /\ answer'[c] = NoAnswer =>
         /\ call'[c].pc \notin {"recover", "end", "new"}
         /\ call'[c].pc \in {"resolve", "enter"} => effects'[EffectOfCall(c)].state = "CLAIMED"
         /\ call'[c].pc = "raised" => \/ effects'[EffectOfCall(c)].state = "SIDE_EFFECT_STARTED"
                                      \/ Len(sent'[EffectOfCall(c)]) = 0

(* Such a step keeps every waiting call informed, and what it tells is true.  *)
LEMMA GoodStep ==
    ASSUME Trusted, IInv, TruthInv, NEW c \in Call, Good(c)
    PROVE  /\ \A d \in Call : WaitInv(d)'
           /\ \A d \in Call : Told(d)
  <1>1. ASSUME NEW d \in Call, d # c PROVE WaitInv(d)' /\ Told(d)
    BY <1>1, OtherWaits DEF Good, Moves, Told
  <1>2. Told(c)
    BY DEF Good, Moves, Told, Waiting
  <1>3. WaitInv(c)'
    <2> SUFFICES ASSUME Earlier(c) = {}, answer'[c] = NoAnswer
                 PROVE  WaitInv(c)'
      BY DEF WaitInv, Waiting, Earlier
    <2>1. answer[c] = NoAnswer
      BY DEF Good, Moves
    <2>2. Waiting(c) /\ WaitInv(c)
      BY <2>1 DEF Waiting, TruthInv
    <2>3. \A d \in Call : TicketOf[d] = TicketOf[c] /\ d # c => call'[d].pc = "new"
      BY <2>2 DEF WaitInv, Good, Moves
    <2> QED
      BY <2>2, <2>3 DEF WaitInv, Good, EffectOfCall
  <1> QED
    BY <1>1, <1>2, <1>3

(* The times that a step of a call writes are times that were read. *)
Dated(c) ==
    /\ clock' = clock
    /\ \A x \in Effect :
         /\ effects'[x].claimedAt = effects[x].claimedAt \/ effects'[x].claimedAt = clock
         /\ effects'[x].startedAt = effects[x].startedAt \/ effects'[x].startedAt = clock
              \/ effects'[x].startedAt = 0
    /\ call'[c].partStarted = call[c].partStarted \/ call'[c].partStarted = clock
         \/ call'[c].partStarted = 0

(* Times and SQL NULL are numbers. *)
LEMMA TimesNat == \A t \in Times \cup {0} : t \in Nat
  BY LedgerConstants

(* Such a step writes no time that lies in the future. *)
LEMMA DatedStep ==
    ASSUME IInv, TruthInv, NEW c \in Call, Dated(c), Moves(c)
    PROVE  ClockInv'
  <1>1. clock \in Nat
    BY LedgerConstants DEF IInv, TypeOK
  <1>2. ASSUME NEW d \in Call PROVE call'[d].partStarted <= clock
    <2>1. call[d].partStarted <= clock
      BY DEF TruthInv, ClockInv
    <2> QED
      BY <1>1, <2>1 DEF Dated, Moves
  <1>3. ASSUME NEW x \in Effect
        PROVE  effects'[x].claimedAt <= clock /\ effects'[x].startedAt <= clock
    <2>1. effects[x].claimedAt <= clock /\ effects[x].startedAt <= clock
      BY DEF TruthInv, ClockInv
    <2> QED
      BY <1>1, <2>1 DEF Dated
  <1> QED
    BY <1>2, <1>3 DEF ClockInv, Dated

(* A step without a request, a receipt or a claim leaves the effects alone. *)
LEMMA QuietGood ==
    ASSUME IInv, TruthInv, NEW c \in Call, UNCHANGED <<effects, sent, clock>>,
           call[c].pc # "new" \/ \A d \in Earlier(c) : answer[d] # NoAnswer,
           Raise(c) \/ \E a : End(c, a) /\ a # NoAnswer /\
              (Waiting(c) => Truthful(a, Level(EffectOfCall(c)))),
           Waiting(c) => \/ effects[EffectOfCall(c)].state = "SIDE_EFFECT_STARTED"
                         \/ Len(sent[EffectOfCall(c)]) = 0
                         \/ ~ Raise(c)
    PROVE  Good(c) /\ Dated(c)
  <1>1. Level(EffectOfCall(c))' = Level(EffectOfCall(c))
    BY DEF Level, EffectOfCall
  <1>2. CASE Raise(c)
    <2>1. /\ \A d \in Call : d # c => call'[d] = call[d]
          /\ call'[c].pc = "raised" /\ call'[c].partStarted = 0 /\ answer' = answer
      BY <1>2, UnwindMoves DEF Raise
    <2> QED
      BY <2>1, <1>2 DEF Good, Moves, Dated, Waiting
  <1>3. ASSUME NEW a, End(c, a), a # NoAnswer, Waiting(c) => Truthful(a, Level(EffectOfCall(c)))
        PROVE  Good(c) /\ Dated(c)
    <2>1. /\ \A d \in Call : d # c => call'[d] = call[d]
          /\ call'[c].partStarted = 0
      BY <1>3, UnwindMoves DEF End
    <2>2. /\ \A d \in Call : d # c => answer'[d] = answer[d]
          /\ answer'[c] # answer[c] => answer[c] = NoAnswer
          /\ answer[c] = NoAnswer => answer'[c] = a
          /\ answer[c] # NoAnswer => answer'[c] = answer[c]
      BY <1>3, TellMoves DEF End
    <2> QED
      BY <2>1, <2>2, <1>1, <1>3 DEF Good, Moves, Dated, Waiting
  <1> QED
    BY <1>2, <1>3

(* An error that is final is true of a call that sent nothing. *)
LEMMA FinalErrorTrue ==
    ASSUME IInv, NEW e \in Effect, Len(sent[e]) = 0
    PROVE  /\ ErrorAnswer("FAILED_FINAL") # NoAnswer
           /\ Truthful(ErrorAnswer("FAILED_FINAL"), Level(e))
  BY Levels DEF ErrorAnswer, NoAnswer, Truthful

(* Dispatch: a first call finds no row, claims the effect and goes on. *)
LEMMA DispatchGood ==
    ASSUME IInv, TruthInv, NEW c \in Call, Dispatch(c)
    PROVE  Good(c) /\ Dated(c)
  <1> DEFINE e == EffectOfCall(c)
  <1>1. /\ e \in Effect /\ TicketOf[c] \in Ticket /\ e = EffectOf[TicketOf[c]]
        /\ clock \in Times /\ Ledger!TypeOK /\ clock' = clock /\ sent' = sent
        /\ \A d \in Earlier(c) : answer[d] # NoAnswer
    BY CallEffect DEF EffectOfCall, Dispatch, IInv, TypeOK
  <1>2. \A x \in Effect :
          \/ effects'[x] = effects[x] /\ (x = e => effects[x].ticket = TicketOf[c])
          \/ /\ x = e /\ effects[x].state = "NONE" /\ effects'[x].state = "CLAIMED"
             /\ effects'[x].claimedAt = clock /\ effects'[x].startedAt = 0
    BY <1>1, ConsumeEffect DEF Dispatch
  <1>3. Waiting(c) => effects[e].state = "NONE" /\ effects[e].receipt = NoReceipt
                      /\ effects[e].ticket # TicketOf[c]
    <2>1. EffectInv(e) /\ WaitInv(c) /\ call[c].pc = "new"
      BY <1>1 DEF IInv, TruthInv, Dispatch, At
    <2> QED
      BY <2>1, <1>1, LedgerConstants DEF EffectInv, WaitInv
  <1>4. /\ \A x \in Effect : x # e => effects'[x] = effects[x]
        /\ \A x \in Effect :
             /\ effects'[x].claimedAt = effects[x].claimedAt \/ effects'[x].claimedAt = clock
             /\ effects'[x].startedAt = effects[x].startedAt \/ effects'[x].startedAt = 0
        /\ Waiting(c) => effects'[e].state = "CLAIMED"
    BY <1>1, <1>2, <1>3
  <1>5. CASE effects[e].receipt # NoReceipt
    <2>1. End(c, Stored(e)) /\ ~ Waiting(c)
      BY <1>3, <1>5 DEF Dispatch
    <2>2. /\ \A d \in Call : d # c => call'[d] = call[d]
          /\ call'[c].partStarted = 0
      BY <2>1, UnwindMoves DEF End
    <2>3. /\ \A d \in Call : d # c => answer'[d] = answer[d]
          /\ answer'[c] # answer[c] => answer[c] = NoAnswer
          /\ answer[c] # NoAnswer => answer'[c] = answer[c]
      BY <2>1, TellMoves DEF End
    <2> QED
      BY <1>1, <1>4, <2>1, <2>2, <2>3 DEF Good, Moves, Dated
  <1>6. CASE effects[e].receipt = NoReceipt
    <2>1. call' = [call EXCEPT ![c] = [call[c] EXCEPT !.pc = "resolve"]] /\ answer' = answer
      BY <1>6 DEF Dispatch, Goto, Set
    <2>2. /\ \A d \in Call : d # c => call'[d] = call[d]
          /\ call'[c].pc = "resolve" /\ call'[c].partStarted = call[c].partStarted
      BY <2>1 DEF IInv, TypeOK, Thread
    <2> QED
      BY <1>1, <1>4, <2>1, <2>2 DEF Good, Moves, Dated, Waiting
  <1> QED
    BY <1>5, <1>6

(* Refuse: a first call that is refused has sent nothing. *)
LEMMA RefuseGood ==
    ASSUME IInv, TruthInv, NEW c \in Call, Refuse(c)
    PROVE  Good(c) /\ Dated(c)
  <1> DEFINE e == EffectOfCall(c)
  <1>1. /\ e \in Effect /\ UNCHANGED <<effects, sent, clock>>
        /\ \A d \in Earlier(c) : answer[d] # NoAnswer
        /\ Raise(c) \/ End(c, ErrorAnswer("FAILED_FINAL"))
    BY CallEffect DEF Refuse, ledger, RaiseValueError
  <1>2. Waiting(c) => Len(sent[e]) = 0
    <2>1. EffectInv(e) /\ WaitInv(c) /\ call[c].pc = "new"
      BY <1>1 DEF IInv, TruthInv, Refuse, At
    <2> QED
      BY <2>1 DEF EffectInv, WaitInv
  <1>3. ErrorAnswer("FAILED_FINAL") # NoAnswer
    BY DEF ErrorAnswer, NoAnswer
  <1> QED
    BY <1>1, <1>2, <1>3, QuietGood, FinalErrorTrue

(* HandlerFails and GateStalled raise when nothing was sent or the start is  *)
(* durable.                                                                  *)
LEMMA FailuresGood ==
    ASSUME IInv, TruthInv, NEW c \in Call, HandlerFails(c) \/ GateStalled(c)
    PROVE  Good(c) /\ Dated(c)
  <1> DEFINE e == EffectOfCall(c)
  <1>1. /\ e \in Effect /\ UNCHANGED <<effects, sent, clock>> /\ call[c].pc # "new"
        /\ Raise(c) /\ call[c].pc \in {"resolve", "attempt"}
    BY CallEffect DEF HandlerFails, GateStalled, ledger, At
  <1>2. Waiting(c) => effects[e].state = "SIDE_EFFECT_STARTED" \/ Len(sent[e]) = 0
    <2>1. EffectInv(e) /\ WaitInv(c) /\ CallInv(c)
      BY <1>1 DEF IInv, TruthInv
    <2> QED
      BY <1>1, <2>1 DEF EffectInv, WaitInv, CallInv, Sending
  <1> QED
    BY <1>1, <1>2, QuietGood

(* AnswerError: what the server reads in the ledger is what happened. *)
LEMMA AnswerErrorGood ==
    ASSUME IInv, TruthInv, NEW c \in Call, AnswerError(c)
    PROVE  Good(c) /\ Dated(c)
  <1> DEFINE e == EffectOfCall(c)
  <1>1. /\ e \in Effect /\ UNCHANGED <<effects, sent, clock>> /\ call[c].pc = "raised"
        /\ call[c].pc # "new"
    BY CallEffect DEF AnswerError, ledger, At
  <1>2. Waiting(c) => effects[e].state = "SIDE_EFFECT_STARTED" \/ Len(sent[e]) = 0
    BY <1>1 DEF TruthInv, WaitInv
  <1>3. CASE OutcomeUnknown(e)
    <2>1. End(c, ErrorAnswer("AMBIGUOUS"))
      BY <1>3 DEF AnswerError
    <2>2. ErrorAnswer("AMBIGUOUS") # NoAnswer /\ Truthful(ErrorAnswer("AMBIGUOUS"), Level(e))
      BY DEF ErrorAnswer, NoAnswer, Truthful
    <2> QED
      BY <1>1, <1>2, <2>1, <2>2, QuietGood
  <1>4. CASE ~ OutcomeUnknown(e)
    <2>1. End(c, ErrorAnswer("FAILED_FINAL"))
      BY <1>4 DEF AnswerError
    <2>2. Waiting(c) => Len(sent[e]) = 0
      BY <1>2, <1>4 DEF OutcomeUnknown
    <2>3. ErrorAnswer("FAILED_FINAL") # NoAnswer
      BY DEF ErrorAnswer, NoAnswer
    <2> QED
      BY <1>1, <2>1, <2>2, <2>3, QuietGood, FinalErrorTrue
  <1> QED
    BY <1>3, <1>4

(* A step that changes only the thread. *)
LEMMA GotoGood ==
    ASSUME IInv, TruthInv, NEW c \in Call, NEW t,
           call' = [call EXCEPT ![c] = t], answer' = answer, clock' = clock,
           \A x \in Effect : x # EffectOfCall(c) => effects'[x] = effects[x] /\ sent'[x] = sent[x],
           effects'[EffectOfCall(c)].claimedAt = effects[EffectOfCall(c)].claimedAt,
           \/ effects'[EffectOfCall(c)].startedAt = effects[EffectOfCall(c)].startedAt
           \/ effects'[EffectOfCall(c)].startedAt = clock,
           call[c].pc # "new",
           t.partStarted = call[c].partStarted \/ t.partStarted = clock,
           Waiting(c) =>
             \/ t.pc \in {"attempt", "send", "clear", "record"}
             \/ t.pc = "enter" /\ effects'[EffectOfCall(c)].state = "CLAIMED"
    PROVE  Good(c) /\ Dated(c)
  <1>1. call'[c] = t /\ \A d \in Call : d # c => call'[d] = call[d]
    BY DEF IInv, TypeOK
  <1>2. Moves(c)
    BY <1>1 DEF Moves
  <1>3. Dated(c)
    BY <1>1 DEF Dated
  <1> QED
    BY <1>1, <1>2, <1>3 DEF Good, Waiting

(* ResolveContext: the claim stands. *)
LEMMA ResolveGood ==
    ASSUME IInv, TruthInv, NEW c \in Call, ResolveContext(c)
    PROVE  Good(c) /\ Dated(c)
  <1>1. PICK t : t = [call[c] EXCEPT !.pc = "enter", !.context = token]
    OBVIOUS
  <1>2. call' = [call EXCEPT ![c] = t] /\ call[c].pc = "resolve" /\ answer' = answer
        /\ clock' = clock /\ effects' = effects /\ sent' = sent
    BY <1>1 DEF ResolveContext, Set, At, ledger
  <1>3. t.pc = "enter" /\ t.partStarted = call[c].partStarted
    BY <1>1 DEF IInv, TypeOK, Thread
  <1>4. Waiting(c) => effects[EffectOfCall(c)].state = "CLAIMED"
    BY <1>2 DEF TruthInv, WaitInv
  <1> QED
    BY <1>2, <1>3, <1>4, GotoGood

(* Enter: the first call of a ticket finds a claim and no more. *)
LEMMA EnterGood ==
    ASSUME IInv, TruthInv, NEW c \in Call, Enter(c)
    PROVE  Good(c) /\ Dated(c)
  <1> DEFINE e == EffectOfCall(c)
  <1>1. /\ e \in Effect /\ effects' = effects /\ sent' = sent /\ clock' = clock
        /\ call[c].pc = "enter" /\ call[c].pc # "new"
    BY CallEffect DEF Enter, ledger, At
  <1>2. Waiting(c) => /\ effects[e].state = "CLAIMED" /\ effects[e].receipt = NoReceipt
                      /\ Len(sent[e]) = 0
    <2>1. EffectInv(e) /\ WaitInv(c)
      BY <1>1 DEF IInv, TruthInv
    <2> QED
      BY <1>1, <2>1 DEF EffectInv, WaitInv
  <1>3. CASE Raise(c)
    BY <1>1, <1>2, <1>3, QuietGood
  <1>4. CASE effects[e].receipt # NoReceipt /\ End(c, Stored(e))
    <2>1. Stored(e) # NoAnswer
      BY DEF Stored, ReceiptAnswer, NoAnswer
    <2>2. ~ Waiting(c)
      BY <1>2, <1>4
    <2> QED
      BY <1>1, <1>4, <2>1, <2>2, QuietGood
  <1>5. CASE Set(c, [call[c] EXCEPT
                       !.pc = IF effects[e].state = "CLAIMED" THEN "attempt" ELSE "recover",
                       !.partStarted = clock]) /\ UNCHANGED answer
    <2>1. PICK t : t = [call[c] EXCEPT
                          !.pc = IF effects[e].state = "CLAIMED" THEN "attempt" ELSE "recover",
                          !.partStarted = clock]
      OBVIOUS
    <2>2. call' = [call EXCEPT ![c] = t] /\ answer' = answer
      BY <2>1, <1>5 DEF Set
    <2>3. /\ t.pc = (IF effects[e].state = "CLAIMED" THEN "attempt" ELSE "recover")
          /\ t.partStarted = clock
      BY <2>1 DEF IInv, TypeOK, Thread
    <2>4. Waiting(c) => t.pc = "attempt"
      BY <2>3, <1>2
    <2> QED
      BY <2>2, <2>3, <2>4, <1>1, GotoGood
  <1> QED
    BY <1>3, <1>4, <1>5 DEF Enter

(* Attempt: it raises only while the effect is merely claimed. *)
LEMMA AttemptGood ==
    ASSUME IInv, TruthInv, NEW c \in Call, Attempt(c)
    PROVE  Good(c) /\ Dated(c)
  <1> DEFINE e == EffectOfCall(c)
  <1>1. /\ e \in Effect /\ sent' = sent /\ clock' = clock /\ clock \in Times
        /\ call[c].pc = "attempt" /\ call[c].pc # "new" /\ call[c] \in Thread
    BY CallEffect DEF Attempt, At, IInv, TypeOK
  <1>2. CASE /\ UNCHANGED <<ledger, answer, lock>>
             /\ Goto(c, "send") \/ Set(c, [call[c] EXCEPT !.pc = "record", !.status = "FAILED_RETRYABLE"])
    <2>1. PICK t : /\ call' = [call EXCEPT ![c] = t]
                   /\ \/ t = [call[c] EXCEPT !.pc = "send"]
                      \/ t = [call[c] EXCEPT !.pc = "record", !.status = "FAILED_RETRYABLE"]
      BY <1>2 DEF Goto, Set
    <2>2. t.pc \in {"send", "record"} /\ t.partStarted = call[c].partStarted
      BY <2>1, <1>1 DEF Thread
    <2>3. effects' = effects /\ answer' = answer
      BY <1>2 DEF ledger
    <2> QED
      BY <2>1, <2>2, <2>3, <1>1, GotoGood
  <1>3. CASE /\ effects[e].state = "CLAIMED" /\ Ledger!MarkSideEffectStarted(e, clock)
             /\ Goto(c, "send") /\ UNCHANGED <<answer, lock>>
    <2>1. PICK t : /\ call' = [call EXCEPT ![c] = t] /\ t = [call[c] EXCEPT !.pc = "send"]
      BY <1>3 DEF Goto, Set
    <2>2. t.pc = "send" /\ t.partStarted = call[c].partStarted
      BY <2>1, <1>1 DEF Thread
    <2>3. /\ \A x \in Effect : x # e => effects'[x] = effects[x]
          /\ effects'[e].claimedAt = effects[e].claimedAt /\ effects'[e].startedAt = clock
      BY <1>1, <1>3, StartEffect DEF IInv, TypeOK
    <2>4. answer' = answer
      BY <1>3
    <2> QED
      BY <2>1, <2>2, <2>3, <2>4, <1>1, GotoGood
  <1>4. CASE effects[e].state = "CLAIMED" /\ Raise(c) /\ UNCHANGED ledger
    <2>1. Len(sent[e]) = 0
      BY <1>1, <1>4 DEF IInv, EffectInv
    <2>2. UNCHANGED <<effects, sent, clock>>
      BY <1>1, <1>4 DEF ledger
    <2> QED
      BY <2>1, <2>2, <1>1, <1>4, QuietGood
  <1> QED
    BY <1>2, <1>3, <1>4 DEF Attempt

(* ClearContext: it raises only after the start is durable. *)
LEMMA ClearGood ==
    ASSUME IInv, TruthInv, NEW c \in Call, ClearContext(c)
    PROVE  Good(c) /\ Dated(c)
  <1> DEFINE e == EffectOfCall(c)
  <1>1. /\ e \in Effect /\ sent' = sent /\ clock' = clock /\ effects' = effects
        /\ call[c].pc = "clear" /\ call[c].pc # "new" /\ call[c] \in Thread
    BY CallEffect DEF ClearContext, At, IInv, TypeOK, ledger
  <1>2. CASE /\ Set(c, [call[c] EXCEPT !.pc = "attempt", !.context = FALSE, !.retried = TRUE])
             /\ UNCHANGED <<answer, lock>>
    <2>1. PICK t : t = [call[c] EXCEPT !.pc = "attempt", !.context = FALSE, !.retried = TRUE]
      OBVIOUS
    <2>2. call' = [call EXCEPT ![c] = t] /\ answer' = answer
      BY <2>1, <1>2 DEF Set
    <2>3. t.pc = "attempt" /\ t.partStarted = call[c].partStarted
      BY <2>1, <1>1 DEF Thread
    <2> QED
      BY <2>2, <2>3, <1>1, GotoGood
  <1>3. CASE Raise(c)
    <2>1. effects[e].state = "SIDE_EFFECT_STARTED"
      BY <1>1 DEF IInv, CallInv, Sending
    <2> QED
      BY <2>1, <1>1, <1>3, QuietGood
  <1> QED
    BY <1>2, <1>3 DEF ClearContext

(* Send: the clock is not before the beginning of the part, so that no part   *)
(* receipt is refused after the platform accepted its segments.               *)
LEMMA SendGood ==
    ASSUME IInv, TruthInv, NEW c \in Call, NEW response \in Response, Send(c, response)
    PROVE  Good(c) /\ Dated(c)
  <1> DEFINE e == EffectOfCall(c)
  <1>1. /\ e \in Effect /\ clock' = clock /\ effects' = effects /\ clock \in Nat
        /\ call[c].pc = "send" /\ call[c].pc # "new" /\ call[c] \in Thread
        /\ At(c, "send") /\ Platform(c, response)
    BY CallEffect, LedgerConstants DEF Send, At, IInv, TypeOK, ledger
  <1>2. \A x \in Effect : x # e => sent'[x] = sent[x]
    BY <1>1, PlatformTypes
  <1>3. call[c].partStarted <= clock /\ call[c].partStarted \in Nat
    <2>1. call[c].partStarted \in Times \cup {0}
      BY <1>1 DEF Thread
    <2> QED
      BY <2>1, TimesNat DEF TruthInv, ClockInv
  <1>4. ~ (clock < call[c].partStarted)
    BY <1>1, <1>3
  <1>5. ASSUME NEW t, call' = [call EXCEPT ![c] = t], answer' = answer,
               t.pc \in {"attempt", "clear", "record"},
               t.partStarted = call[c].partStarted \/ t.partStarted = clock
        PROVE  Good(c) /\ Dated(c)
    BY <1>1, <1>2, <1>5, GotoGood
  <1> HIDE DEF e
  <1>6. CASE response = "accepted" /\ call[c].segment \in Closing[e]
    <2>1. ClosePart(c)
      BY <1>6 DEF Send, e
    <2> DEFINE last == call[c].segment = Segments[e]
    <2>2. PICK t : /\ call' = [call EXCEPT ![c] = t]
                   /\ t = [call[c] EXCEPT !.pc = IF last THEN "record" ELSE "attempt",
                                          !.status = IF last THEN "CHANNEL_ACCEPTED" ELSE @,
                                          !.segment = @ + 1, !.from = call[c].segment + 1,
                                          !.partStarted = clock, !.retried = FALSE, !.rate = 0]
      BY <2>1, <1>4 DEF ClosePart, Set, e
    <2>3. answer' = answer
      BY <2>1, <1>4 DEF ClosePart
    <2>4. t.pc \in {"attempt", "record"} /\ t.partStarted = clock
      BY <2>2, <1>1 DEF Thread
    <2> QED
      BY <2>2, <2>3, <2>4, <1>5
  <1>7. CASE ~ (response = "accepted" /\ call[c].segment \in Closing[e])
    <2>1. PICK t :
            /\ call' = [call EXCEPT ![c] = t]
            /\ \/ t = [call[c] EXCEPT !.pc = "attempt", !.segment = @ + 1,
                                      !.retried = FALSE, !.rate = 0]
               \/ t = [call[c] EXCEPT !.pc = "clear"]
               \/ t = [call[c] EXCEPT !.pc = "attempt", !.rate = @ + 1]
               \/ t = [call[c] EXCEPT !.pc = "record", !.status = FinalStatus(call[c], response)]
      BY <1>7 DEF Send, Set, e
    <2>2. answer' = answer
      BY <1>7 DEF Send, e
    <2>3. t.pc \in {"attempt", "clear", "record"} /\ t.partStarted = call[c].partStarted
      BY <2>1, <1>1 DEF Thread
    <2> QED
      BY <2>1, <2>2, <2>3, <1>5
  <1> QED
    BY <1>6, <1>7

(* The receipt that RecordOutcome stores is the answer, and it is true. *)
LEMMA ReceiptTrue ==
    ASSUME IInv, NEW c \in Call, call[c].pc = "record"
    PROVE  LET before == IF call[c].from > 1 THEN {"CHANNEL_ACCEPTED"} ELSE {}
               a == ReceiptAnswer(call[c].status, before \cup {call[c].status})
           IN  Truthful(a, Level(EffectOfCall(c)))
  <1> DEFINE e == EffectOfCall(c)
             status == call[c].status
             before == IF call[c].from > 1 THEN {"CHANNEL_ACCEPTED"} ELSE {}
             p == before \cup {status}
             a == ReceiptAnswer(status, p)
  <1>1. /\ e \in Effect /\ Segments[e] \in Nat /\ Segments[e] >= 1 /\ Len(sent[e]) \in Nat
        /\ call[c].from \in Nat
        /\ status \in {"CHANNEL_ACCEPTED", "FAILED_RETRYABLE", "FAILED_FINAL", "AMBIGUOUS"}
    BY CallEffect DEF IInv, TypeOK, Thread, Status, CallInv
  <1>2. /\ call[c].from >= 1 /\ call[c].from <= Len(sent[e]) + 1
        /\ status = "CHANNEL_ACCEPTED" => Len(sent[e]) = Segments[e]
        /\ status = "FAILED_RETRYABLE" => Len(sent[e]) = 0
        /\ status = "FAILED_FINAL" => Len(sent[e]) < Segments[e] /\ call[c].from = Len(sent[e]) + 1
    BY DEF IInv, CallInv
  <1>3. /\ Len(sent[e]) = 0 <=> Level(e) = "none"
        /\ Len(sent[e]) = Segments[e] => Level(e) = "all"
        /\ Len(sent[e]) < Segments[e] => Level(e) # "all"
        /\ Level(e) \in {"none", "some", "all"}
    BY <1>1, Levels
  <1>4. a.kind = "receipt" /\ a.stages = p
    BY DEF ReceiptAnswer
  <1> HIDE DEF e, a
  <1>5. Level(e) = "all" => p \cap FailedStage = {}
    BY <1>1, <1>2, <1>3 DEF FailedStage
  <1>6. Level(e) = "none" => "CHANNEL_ACCEPTED" \notin p
    BY <1>1, <1>2, <1>3
  <1>7. Level(e) = "some" => p \cap {"CHANNEL_ACCEPTED", "AMBIGUOUS"} # {} /\ p # {"CHANNEL_ACCEPTED"}
    <2> SUFFICES ASSUME Level(e) = "some"
                 PROVE  p \cap {"CHANNEL_ACCEPTED", "AMBIGUOUS"} # {} /\ p # {"CHANNEL_ACCEPTED"}
      OBVIOUS
    <2>1. Len(sent[e]) # 0 /\ Len(sent[e]) # Segments[e]
      BY <1>3
    <2>2. status = "AMBIGUOUS" \/ (status = "FAILED_FINAL" /\ call[c].from > 1)
      BY <1>1, <1>2, <2>1
    <2> QED
      BY <2>2
  <1>8. Truthful(a, Level(e))
    BY <1>4, <1>5, <1>6, <1>7 DEF Truthful
  <1> QED
    BY <1>8 DEF e, a

(* RecordOutcome: neither the part receipt nor the ledger refuses the time,   *)
(* so that the receipt is stored.                                             *)
LEMMA RecordOutcomeGood ==
    ASSUME IInv, TruthInv, NEW c \in Call, RecordOutcome(c)
    PROVE  Good(c) /\ Dated(c)
  <1> DEFINE e == EffectOfCall(c)
             status == call[c].status
             before == IF call[c].from > 1 THEN {"CHANNEL_ACCEPTED"} ELSE {}
             p == before \cup {status}
             a == ReceiptAnswer(status, p)
             r == [ticket |-> TicketOf[c], status |-> LedgerStatus(status), observedAt |-> clock]
  <1>1. /\ e \in Effect /\ TicketOf[c] \in Ticket /\ clock' = clock /\ sent' = sent
        /\ clock \in Nat /\ clock \in Times
        /\ call[c].pc = "record" /\ call[c].pc # "new" /\ call[c] \in Thread /\ Ledger!TypeOK
    BY CallEffect, LedgerConstants DEF RecordOutcome, At, IInv, TypeOK
  <1>2. call[c].partStarted <= clock /\ call[c].partStarted \in Nat
        /\ effects[e].claimedAt <= clock /\ effects[e].claimedAt \in Nat
    <2>1. call[c].partStarted \in Times \cup {0}
      BY <1>1 DEF Thread
    <2>2. effects[e].claimedAt \in Times \cup {0}
      BY <1>1 DEF Ledger!TypeOK, Ledger!Row
    <2> QED
      BY <1>1, <2>1, <2>2, TimesNat DEF TruthInv, ClockInv
  <1>3. ~ (clock < call[c].partStarted) /\ clock >= effects[e].claimedAt
    BY <1>1, <1>2
  <1>4. Record(c, status, p)
    BY <1>3 DEF RecordOutcome
  <1>5. Ledger!RecordReceipt(e, r, status = "FAILED_RETRYABLE", FALSE) /\ End(c, a)
    BY <1>3, <1>4 DEF Record
  <1>6. r \in Ledger!Receipt
    <2>1. status \in Status /\ status # "none"
      BY <1>1 DEF IInv, CallInv, Thread
    <2>2. LedgerStatus(status) \in Ledger!ReceiptStatus
      BY <2>1 DEF LedgerStatus, Status, Ledger!ReceiptStatus, Ledger!AcceptedStatus,
                  Ledger!FailedStatus, Ledger!UnknownStatus
    <2> QED
      BY <2>2, <1>1 DEF Ledger!Receipt
  <1> HIDE DEF r
  <1>7. /\ \A x \in Effect : x # e => effects'[x] = effects[x]
        /\ effects'[e].claimedAt = effects[e].claimedAt
        /\ effects'[e].startedAt = effects[e].startedAt
    BY <1>1, <1>5, <1>6, ReceiptEffect
  <1>8. Truthful(a, Level(e)) /\ a # NoAnswer
    <2>1. Truthful(a, Level(e))
      BY <1>1, ReceiptTrue
    <2> QED
      BY <2>1 DEF ReceiptAnswer, NoAnswer
  <1>9. Level(e)' = Level(e)
    BY <1>1 DEF Level, EffectOfCall
  <1> HIDE DEF a
  <1>10. /\ \A d \in Call : d # c => call'[d] = call[d]
         /\ call'[c].partStarted = 0
    BY <1>5, UnwindMoves DEF End
  <1>11. /\ \A d \in Call : d # c => answer'[d] = answer[d]
         /\ answer'[c] # answer[c] => answer[c] = NoAnswer
         /\ answer[c] = NoAnswer => answer'[c] = a
         /\ answer[c] # NoAnswer => answer'[c] = answer[c]
    BY <1>5, TellMoves DEF End
  <1>12. Moves(c)
    BY <1>1, <1>7, <1>10, <1>11 DEF Moves
  <1>13. Dated(c)
    BY <1>1, <1>7, <1>10 DEF Dated
  <1> QED
    BY <1>8, <1>9, <1>11, <1>12, <1>13 DEF Good, Waiting

(* RecoverStarted: not the first call of the ticket. *)
LEMMA RecoverStartedGood ==
    ASSUME IInv, TruthInv, NEW c \in Call, RecoverStarted(c)
    PROVE  Good(c) /\ Dated(c)
  <1> DEFINE e == EffectOfCall(c)
             a == ReceiptAnswer("AMBIGUOUS", {"AMBIGUOUS"})
             r == [ticket |-> TicketOf[c], status |-> LedgerStatus("AMBIGUOUS"), observedAt |-> clock]
  <1>1. /\ e \in Effect /\ TicketOf[c] \in Ticket /\ clock' = clock /\ sent' = sent
        /\ clock \in Times /\ call[c].pc = "recover" /\ call[c].pc # "new" /\ Ledger!TypeOK
    BY CallEffect DEF RecoverStarted, At, IInv, TypeOK
  <1>2. ~ Waiting(c)
    BY <1>1 DEF TruthInv, WaitInv
  <1>3. CASE RaiseValueError(c) /\ UNCHANGED <<ledger, stages>>
    <2>1. End(c, ErrorAnswer("FAILED_FINAL")) /\ ErrorAnswer("FAILED_FINAL") # NoAnswer
      BY <1>3 DEF RaiseValueError, ErrorAnswer, NoAnswer
    <2>2. UNCHANGED <<effects, sent, clock>>
      BY <1>1, <1>3 DEF ledger
    <2> QED
      BY <1>1, <1>2, <2>1, <2>2, QuietGood
  <1>4. CASE Raise(c) /\ UNCHANGED <<ledger, stages>>
    <2>1. UNCHANGED <<effects, sent, clock>>
      BY <1>1, <1>4 DEF ledger
    <2> QED
      BY <1>1, <1>2, <1>4, <2>1, QuietGood
  <1>5. CASE Ledger!RecordReceipt(e, r, FALSE, FALSE) /\ End(c, a)
    <2>1. r \in Ledger!Receipt
      BY <1>1 DEF LedgerStatus, Ledger!Receipt, Ledger!ReceiptStatus, Ledger!UnknownStatus
    <2> HIDE DEF r
    <2>2. /\ \A x \in Effect : x # e => effects'[x] = effects[x]
          /\ effects'[e].claimedAt = effects[e].claimedAt
          /\ effects'[e].startedAt = effects[e].startedAt
      BY <1>1, <1>5, <2>1, ReceiptEffect
    <2>3. /\ \A d \in Call : d # c => call'[d] = call[d]
          /\ call'[c].partStarted = 0
      BY <1>5, UnwindMoves DEF End
    <2>4. /\ \A d \in Call : d # c => answer'[d] = answer[d]
          /\ answer'[c] # answer[c] => answer[c] = NoAnswer
          /\ answer[c] # NoAnswer => answer'[c] = answer[c]
      BY <1>5, TellMoves DEF End
    <2> QED
      BY <1>1, <1>2, <2>2, <2>3, <2>4 DEF Good, Moves, Dated
  <1>6. Record(c, "AMBIGUOUS", {"AMBIGUOUS"}) \/ (RaiseValueError(c) /\ UNCHANGED <<ledger, stages>>)
    BY DEF RecoverStarted
  <1>7. ("AMBIGUOUS" = "FAILED_RETRYABLE") = FALSE
    OBVIOUS
  <1> QED
    BY <1>3, <1>4, <1>5, <1>6, <1>7 DEF Record

(* GiveUp: the client stops waiting. *)
LEMMA GiveUpGood ==
    ASSUME IInv, TruthInv, NEW c \in Call, GiveUp(c)
    PROVE  Good(c) /\ Dated(c)
  <1>1. /\ UNCHANGED <<effects, sent, clock, call>> /\ call[c].pc # "new"
        /\ Tell(c, Lost) /\ Lost # NoAnswer
    BY DEF GiveUp, ledger, At, Lost, NoAnswer
  <1>2. /\ \A d \in Call : d # c => answer'[d] = answer[d]
        /\ answer'[c] # answer[c] => answer[c] = NoAnswer
        /\ answer[c] = NoAnswer => answer'[c] = Lost
        /\ answer[c] # NoAnswer => answer'[c] = answer[c]
    BY <1>1, TellMoves
  <1> QED
    BY <1>1, <1>2 DEF Good, Moves, Dated, Waiting

(* A step of the world: the clock goes forward, nobody is told anything. *)
LEMMA WorldTruth ==
    ASSUME IInv, TruthInv, UNCHANGED <<effects, sent, call, answer>>,
           clock' \in Times, clock' >= clock
    PROVE  TruthInv' /\ \A c \in Call : Told(c)
  <1>1. clock \in Nat /\ clock' \in Nat
    BY LedgerConstants DEF IInv, TypeOK
  <1>2. ASSUME NEW t \in Times \cup {0}, t <= clock PROVE t <= clock'
    BY <1>1, <1>2, TimesNat
  <1>3. /\ \A e \in Effect : /\ effects[e].claimedAt \in Times \cup {0}
                             /\ effects[e].startedAt \in Times \cup {0}
        /\ \A c \in Call : call[c].partStarted \in Times \cup {0}
    BY DEF IInv, TypeOK, Ledger!TypeOK, Ledger!Row, Thread
  <1>4. ClockInv'
    BY <1>2, <1>3 DEF TruthInv, ClockInv
  <1>5. \A c \in Call : WaitInv(c)'
    BY DEF TruthInv, WaitInv, Waiting, Earlier, EffectOfCall
  <1>6. \A c \in Call : Told(c)
    BY DEF Told
  <1> QED
    BY <1>4, <1>5, <1>6 DEF TruthInv

(* Restart: every client that waited has lost its answer. *)
LEMMA RestartTruth ==
    ASSUME IInv, TruthInv, Restart
    PROVE  TruthInv' /\ \A c \in Call : Told(c)
  <1>1. /\ clock \in Times /\ Ledger!TypeOK /\ Ledger!RecoverAmbiguous(clock)
        /\ clock' = clock /\ sent' = sent /\ clock \in Nat
    BY LedgerConstants DEF Restart, IInv, TypeOK
  <1>2. \A x \in Effect :
          /\ effects'[x].claimedAt = effects[x].claimedAt
          /\ effects'[x].startedAt = effects[x].startedAt
          /\ effects[x].state = "NONE" => effects'[x] = effects[x]
    BY <1>1, RecoverEffect
  <1>3. PICK u \in Thread : u = [NewThread EXCEPT !.pc = "end"] /\ u.pc = "end" /\ u.partStarted = 0
    BY NewThreadType DEF Pc
  <1>4. \A c \in Call : /\ call[c].pc = "new" => call'[c] = call[c]
                        /\ call[c].pc # "new" => call'[c] = u
    BY <1>3 DEF Restart, At
  <1>5. \A c \in Call :
          /\ call[c].pc # "new" /\ answer[c] = NoAnswer => answer'[c] = Lost
          /\ ~ (call[c].pc # "new" /\ answer[c] = NoAnswer) => answer'[c] = answer[c]
    BY DEF Restart, At
  <1>6. Lost # NoAnswer
    BY DEF Lost, NoAnswer
  <1>7. ClockInv'
    <2>1. ASSUME NEW c \in Call PROVE call'[c].partStarted <= clock
      <3>1. call'[c] = call[c] \/ call'[c] = u
        BY <1>4
      <3>2. call[c].partStarted <= clock
        BY DEF TruthInv, ClockInv
      <3>3. u.partStarted <= clock
        BY <1>1, <1>3
      <3> QED
        BY <3>1, <3>2, <3>3
    <2> QED
      BY <2>1, <1>1, <1>2 DEF TruthInv, ClockInv
  <1>8. ASSUME NEW c \in Call PROVE WaitInv(c)'
    <2> SUFFICES ASSUME Earlier(c) = {}, answer'[c] = NoAnswer
                 PROVE  WaitInv(c)'
      BY DEF WaitInv, Waiting, Earlier
    <2>1. call[c].pc = "new" /\ answer[c] = NoAnswer /\ call'[c] = call[c]
      BY <1>4, <1>5, <1>6
    <2>2. Waiting(c) /\ WaitInv(c)
      BY <2>1 DEF Waiting, TruthInv
    <2>3. effects[EffectOfCall(c)].state = "NONE"
          /\ \A d \in Call : TicketOf[d] = TicketOf[c] /\ d # c => call'[d].pc = "new"
      BY <2>1, <2>2, <1>4 DEF WaitInv
    <2>4. effects'[EffectOfCall(c)].state = "NONE"
      BY <2>3, <1>2, CallEffect
    <2> QED
      BY <2>1, <2>3, <2>4 DEF WaitInv, EffectOfCall
  <1>9. \A c \in Call : Told(c)
    BY <1>5 DEF Told
  <1> QED
    BY <1>7, <1>8, <1>9 DEF TruthInv

(* Initially no call has begun. *)
LEMMA TruthInit == Init => TruthInv
  <1> SUFFICES ASSUME Init PROVE TruthInv
    OBVIOUS
  <1>1. clock \in Nat
    BY LedgerConstants DEF Init
  <1>2. /\ \A e \in Effect : effects[e] = Ledger!NoRow
        /\ \A c \in Call : call[c] = NewThread
    BY DEF Init, Ledger!Init
  <1>3. ClockInv
    BY <1>1, <1>2 DEF ClockInv, Ledger!NoRow, NewThread
  <1>4. \A c \in Call : WaitInv(c)
    BY <1>2, CallEffect DEF WaitInv, Ledger!NoRow, NewThread
  <1> QED
    BY <1>3, <1>4 DEF TruthInv

(* Every step keeps the waiting calls informed, and tells nothing untrue. *)
LEMMA TruthStep ==
    ASSUME Trusted, IInv, TruthInv, [Next]_vars
    PROVE  TruthInv' /\ \A c \in Call : Told(c)
  <1>1. ASSUME NEW c \in Call, ThreadStep(c) \/ GiveUp(c)
        PROVE  TruthInv' /\ \A d \in Call : Told(d)
    <2>1. Good(c) /\ Dated(c)
      BY <1>1, DispatchGood, RefuseGood, ResolveGood, FailuresGood, AnswerErrorGood, EnterGood,
         AttemptGood, ClearGood, SendGood, RecordOutcomeGood, RecoverStartedGood, GiveUpGood
      DEF ThreadStep
    <2>2. ClockInv'
      BY <2>1, DatedStep DEF Good
    <2> QED
      BY <2>1, <2>2, GoodStep DEF TruthInv
  <1>2. clock \in Times /\ clock \in Nat
    BY LedgerConstants DEF IInv, TypeOK
  <1>3. ASSUME NEW t \in Times, Tick(t) PROVE TruthInv' /\ \A d \in Call : Told(d)
    <2>1. t \in Nat /\ clock' = t /\ t > clock /\ UNCHANGED <<effects, sent, call, answer>>
      BY <1>3, LedgerConstants DEF Tick, Trusted, ledger
    <2>2. clock' >= clock
      BY <2>1, <1>2
    <2> QED
      BY <2>1, <2>2, WorldTruth
  <1>4. CASE SessionChanges \/ (\E tk \in Ticket : Expire(tk)) \/ UNCHANGED vars
    <2>1. UNCHANGED <<effects, sent, call, answer>> /\ clock' = clock
      BY <1>4 DEF SessionChanges, Expire, vars, ledger
    <2>2. clock' >= clock /\ clock' \in Times
      BY <2>1, <1>2
    <2> QED
      BY <2>1, <2>2, WorldTruth
  <1> QED
    BY <1>1, <1>3, <1>4, RestartTruth DEF Next

(* AnswerIsTruthful: when the wall clock is never set back and a ticket is    *)
(* the only one of its effect, what the gateway is told about its one call is *)
(* true of what the platform accepted, whatever rejections, lost answers,     *)
(* repeated calls and restarts happen.                                        *)
THEOREM AnswersAlwaysTruthful ==
    ASSUME Trusted
    PROVE  Spec => AnswerIsTruthful
  <1>1. Init => TruthInv
    BY TruthInit
  <1>2. IInv /\ TruthInv /\ [Next]_vars => TruthInv'
    BY TruthStep
  <1>3. IInv /\ TruthInv /\ [Next]_vars =>
          [\A c \in Call :
             Earlier(c) = {} /\ answer'[c] # answer[c] /\ answer'[c] # Lost =>
               Truthful(answer'[c], Level(EffectOfCall(c))')]_vars
    BY TruthStep DEF Told
  <1> QED
    BY <1>1, <1>2, <1>3, SenderInvariant, PTL DEF Spec, AnswerIsTruthful
=============================================================================
