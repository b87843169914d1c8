--------------------------- MODULE WechatDelivery ---------------------------
(***************************************************************************)
(* The WeChat text sender of the communication service                     *)
(* (wechat_text_outbound.py: WechatTextDeliveryService.send) behind its    *)
(* HTTP entry (server.py, delivery_dispatcher.py), over the delivery       *)
(* ledger.                                                                 *)
(*                                                                         *)
(* A text is sent as numbered segments; the last segment of a part closes  *)
(* the part.  Each call is a thread of the server.  The sender's lock      *)
(* admits one call at a time, but a thread reads the session's context     *)
(* token before it takes the lock.  Every action is one ledger or session  *)
(* transaction, one request to the platform, or what a thread does between *)
(* two of them; the process may stop between any two.                      *)
(*                                                                         *)
(* Calls of one ticket are numbered; a client calls again only when its    *)
(* earlier call was answered or lost.  The gateway calls once, so that the *)
(* first call is the one whose answer it acts upon.                        *)
(***************************************************************************)
EXTENDS Naturals, Sequences, ChannelAnswer

CONSTANTS
    Effect, Ticket, Run, EffectOf, RunOf, GenOf, Times, NoTicket, NoReceipt,
                    \* as in DeliveryLedger
    NCalls,         \* bound: how many calls are made
    TicketOf,       \* the ticket of each call
    Segments,       \* how many segments the text of an effect has
    Closing,        \* the segments that close a part of an effect
    RateRetries,    \* policy.rate_limit_retries
    MaxRestarts,    \* bound: restarts of the service
    MayStepBack     \* may the wall clock be set back?

Call == 1 .. NCalls
NoCall == 0

ASSUME WechatAssumption ==
    /\ NCalls \in Nat
    /\ TicketOf \in [Call -> Ticket]
    /\ Segments \in [Effect -> Nat \ {0}]
    /\ Closing \in [Effect -> SUBSET Nat]
    /\ \A e \in Effect : Segments[e] \in Closing[e]
    /\ RateRetries \in Nat /\ MaxRestarts \in Nat
    /\ MayStepBack \in BOOLEAN

VARIABLES
    verified, effects, events,  \* the delivery ledger
    stages,     \* the part stages of the receipt stored for an effect
    token,      \* does session_state hold a context token? (one session)
    clock,      \* time.time_ns() // 1_000_000
    expired,    \* the tickets whose expires_at_ms has passed
    lock,       \* the call inside _send_lock, or NoCall (volatile)
    call,       \* the thread of each call (volatile)
    answer,     \* what the client of each call was told
    sent,       \* the segments of an effect that the platform accepted, in order
    restarts

ledger == <<verified, effects, events>>
vars == <<ledger, stages, token, clock, expired, lock, call, answer, sent, restarts>>

Ledger == INSTANCE DeliveryLedger

(* What DeliveryLedger assumes of the tickets, the clock and SQL NULL. *)
ASSUME LedgerConstants ==
    /\ EffectOf \in [Ticket -> Effect]
    /\ Times \subseteq Nat \ {0}
    /\ NoTicket \notin Ticket
    /\ NoReceipt \notin Ledger!Receipt

-----------------------------------------------------------------------------
(* Threads.                                                                 *)

Pc == {"new", "resolve", "enter", "attempt", "send", "clear", "record", "recover",
       "raised", "end"}
Status == {"none", "CHANNEL_ACCEPTED", "FAILED_RETRYABLE", "FAILED_FINAL", "AMBIGUOUS"}

(* The local variables of send: the context token in use, the segment, the   *)
(* first segment of its part and when the part began, whether this segment   *)
(* was tried again without a token and how often after a rate limit, and the *)
(* status that is about to be recorded.                                      *)
Thread ==
    [pc : Pc, context : BOOLEAN, segment : Nat, from : Nat, partStarted : Times \cup {0},
     retried : BOOLEAN, rate : 0 .. RateRetries, status : Status]
NewThread ==
    [pc |-> "new", context |-> FALSE, segment |-> 1, from |-> 1, partStarted |-> 0,
     retried |-> FALSE, rate |-> 0, status |-> "none"]

Lost == [NoAnswer EXCEPT !.kind = "lost"]

TypeOK ==
    /\ Ledger!TypeOK
    /\ stages \in [Effect -> SUBSET PartStage]
    /\ token \in BOOLEAN /\ clock \in Times /\ expired \subseteq Ticket
    /\ lock \in Call \cup {NoCall}
    /\ call \in [Call -> Thread]
    /\ \A c \in Call : answer[c].kind \in {"none", "lost", "receipt", "error"}
    /\ sent \in [Effect -> Seq(Nat)]
    /\ restarts \in 0 .. MaxRestarts

Init ==
    /\ Ledger!Init
    /\ stages = [e \in Effect |-> {}]
    /\ token = TRUE
    /\ clock \in {t \in Times : \A u \in Times : t <= u}
    /\ expired = {}
    /\ lock = NoCall
    /\ call = [c \in Call |-> NewThread]
    /\ answer = [c \in Call |-> NoAnswer]
    /\ sent = [e \in Effect |-> <<>>]
    /\ restarts = 0

EffectOfCall(c) == EffectOf[TicketOf[c]]
At(c, pc) == call[c].pc = pc
Set(c, thread) == call' = [call EXCEPT ![c] = thread]
Goto(c, pc) == Set(c, [call[c] EXCEPT !.pc = pc])
(* Mutant of Leave: the lock is not released. *)
KeepLock(c) == lock' = lock
Leave(c) == lock' = IF lock = c THEN NoCall ELSE lock
Earlier(c) == {d \in Call : d < c /\ TicketOf[d] = TicketOf[c]}

(* An answer reaches the client that still waits for it. *)
Tell(c, a) == answer' = IF answer[c] = NoAnswer THEN [answer EXCEPT ![c] = a] ELSE answer
Unwind(c, pc) == Set(c, [NewThread EXCEPT !.pc = pc]) /\ Leave(c)
End(c, a) == Unwind(c, "end") /\ Tell(c, a)

(* A RuntimeError leaves the lock; the server reads the ledger afterwards.   *)
Raise(c) == Unwind(c, "raised") /\ UNCHANGED answer

(* A ValueError, also a contract model that refuses its fields, is answered  *)
(* as a malformed request: outcome_unknown is false.                         *)
RaiseValueError(c) == End(c, ErrorAnswer("FAILED_FINAL"))

(* The stored receipt as the gateway sees it. *)
Stored(e) ==
    LET s == effects[e].receipt.status
    IN  ReceiptAnswer(IF s \in Ledger!UnknownStatus THEN "AMBIGUOUS" ELSE s, stages[e])

-----------------------------------------------------------------------------
(* The entry.                                                               *)

(* dispatch: the ticket is consumed, then the handler is called unless the   *)
(* effect has its receipt.                                                   *)
Dispatch(c) ==
    LET e == EffectOfCall(c) IN
    /\ At(c, "new") /\ \A d \in Earlier(c) : answer[d] # NoAnswer
    /\ TicketOf[c] \notin expired
    /\ Ledger!ConsumeVerifiedTicket(TicketOf[c], clock)
    /\ IF effects[e].receipt # NoReceipt
         THEN End(c, Stored(e))
         ELSE Goto(c, "resolve") /\ UNCHANGED <<answer, lock>>
    /\ UNCHANGED <<stages, token, clock, expired, sent, restarts>>

(* verify_delivery_ticket refuses an expired ticket with a ValueError, the    *)
(* ledger one below the generation fence with a conflict.                    *)
Refuse(c) ==
    /\ At(c, "new") /\ \A d \in Earlier(c) : answer[d] # NoAnswer
    /\ TicketOf[c] \in expired \/ ~ Ledger!AboveFence(TicketOf[c])
    /\ IF TicketOf[c] \in expired THEN RaiseValueError(c) ELSE Raise(c)
    /\ UNCHANGED <<ledger, stages, token, clock, expired, sent, restarts>>

(* resolve_context_token, before the lock is taken. *)
ResolveContext(c) ==
    /\ At(c, "resolve")
    /\ Set(c, [call[c] EXCEPT !.pc = "enter", !.context = token])
    /\ UNCHANGED <<ledger, stages, token, clock, expired, lock, answer, sent, restarts>>

(* The handler finds no session, no credentials or no reply target.          *)
HandlerFails(c) ==
    /\ At(c, "resolve")
    /\ Raise(c)
    /\ UNCHANGED <<ledger, stages, token, clock, expired, sent, restarts>>

(* Mutant of Enter: a start without a receipt is sent again. *)
EnterAndResend(c) ==
    LET row == effects[EffectOfCall(c)] IN
    /\ At(c, "enter") /\ lock = NoCall
    /\ IF row.receipt # NoReceipt THEN End(c, Stored(EffectOfCall(c)))
       ELSE IF row.state = "RECONCILE_REQUIRED" THEN Raise(c)
       ELSE /\ Set(c, [call[c] EXCEPT !.pc = "attempt", !.partStarted = clock])
            /\ lock' = c /\ UNCHANGED answer
    /\ UNCHANGED <<ledger, stages, token, clock, expired, sent, restarts>>

(* The lock is taken and the record decides: a receipt is returned, an       *)
(* unresolved effect is refused, a start without a receipt is ambiguous.     *)
Enter(c) ==
    LET row == effects[EffectOfCall(c)] IN
    /\ At(c, "enter") /\ lock = NoCall
    /\ IF TicketOf[c] \in expired THEN Raise(c)
       ELSE IF row.receipt # NoReceipt THEN End(c, Stored(EffectOfCall(c)))
       ELSE IF row.state = "RECONCILE_REQUIRED" THEN Raise(c)
       ELSE /\ Set(c, [call[c] EXCEPT !.pc = IF row.state = "CLAIMED" THEN "attempt" ELSE "recover",
                                      !.partStarted = clock])
            /\ lock' = c /\ UNCHANGED answer
    /\ UNCHANGED <<ledger, stages, token, clock, expired, sent, restarts>>

-----------------------------------------------------------------------------
(* The loop over parts and segments.                                        *)

(* The first attempt makes the start durable, or finds the ticket expired or *)
(* the clock before the claim.                                               *)
Attempt(c) ==
    LET e == EffectOfCall(c) IN
    /\ At(c, "attempt")
    /\ IF effects[e].state # "CLAIMED"
         THEN Goto(c, "send") /\ UNCHANGED <<ledger, answer, lock>>
       ELSE IF TicketOf[c] \in expired
         THEN /\ Set(c, [call[c] EXCEPT !.pc = "record", !.status = "FAILED_RETRYABLE"])
              /\ UNCHANGED <<ledger, answer, lock>>
       ELSE IF clock >= effects[e].claimedAt
         THEN /\ Ledger!MarkSideEffectStarted(e, clock)
              /\ Goto(c, "send") /\ UNCHANGED <<answer, lock>>
       ELSE Raise(c) /\ UNCHANGED ledger
    /\ UNCHANGED <<stages, token, clock, expired, sent, restarts>>

(* WechatRateGate.wait: after the sleep the wall clock is still before the   *)
(* end of the wait.                                                          *)
GateStalled(c) ==
    /\ At(c, "attempt")
    /\ Raise(c)
    /\ UNCHANGED <<ledger, stages, token, clock, expired, sent, restarts>>

(* External: the platform accepts the segment or not; its answer is lost or  *)
(* unreadable ("unknown"), or classify_wechat_ilink_response reads it.       *)
Response == {"accepted", "context_expired", "rate_limited", "rejected_final", "unknown"}
Platform(c, response) ==
    LET e == EffectOfCall(c) IN
    \/ response \in {"accepted", "unknown"} /\ sent' = [sent EXCEPT ![e] = Append(@, call[c].segment)]
    \/ response # "accepted" /\ UNCHANGED sent

(* Mutant of FinalStatus: what was accepted before a rate limit is forgotten. *)
RateLimitIsRetryable(t, response) ==
    IF response = "unknown" THEN "AMBIGUOUS"
    ELSE IF response = "rate_limited" THEN "FAILED_RETRYABLE"
    ELSE "FAILED_FINAL"

(* The status of a segment that will not be tried again.                     *)
FinalStatus(t, response) ==
    IF \/ response = "unknown" \/ t.segment > t.from
       \/ response = "rate_limited" /\ t.segment > 1
      THEN "AMBIGUOUS"
    ELSE IF response = "rate_limited" THEN "FAILED_RETRYABLE"
    ELSE "FAILED_FINAL"

(* The part receipt of a closed part needs finished_at_ms >= started_at_ms.  *)
ClosePart(c) ==
    LET t == call[c]
        last == t.segment = Segments[EffectOfCall(c)]
    IN  IF clock < t.partStarted THEN RaiseValueError(c)
        ELSE /\ Set(c, [t EXCEPT !.pc = IF last THEN "record" ELSE "attempt",
                                 !.status = IF last THEN "CHANNEL_ACCEPTED" ELSE @,
                                 !.segment = @ + 1, !.from = t.segment + 1,
                                 !.partStarted = clock, !.retried = FALSE, !.rate = 0])
             /\ UNCHANGED <<answer, lock>>

RateLeft(t) == t.rate < RateRetries

Send(c, response) ==
    LET t == call[c] IN
    /\ At(c, "send")
    /\ Platform(c, response)
    /\ IF response = "accepted" /\ t.segment \in Closing[EffectOfCall(c)] THEN ClosePart(c)
       ELSE /\ Set(c, IF response = "accepted"
                        THEN [t EXCEPT !.pc = "attempt", !.segment = @ + 1,
                                       !.retried = FALSE, !.rate = 0]
                      ELSE IF response = "context_expired" /\ t.context /\ ~ t.retried
                        THEN [t EXCEPT !.pc = "clear"]
                      ELSE IF response = "rate_limited" /\ RateLeft(t)
                        THEN [t EXCEPT !.pc = "attempt", !.rate = @ + 1]
                      ELSE [t EXCEPT !.pc = "record", !.status = FinalStatus(t, response)])
            /\ UNCHANGED <<answer, lock>>
    /\ UNCHANGED <<ledger, stages, token, clock, expired, restarts>>

(* clear_context_token: it was cleared already, or it is now.                *)
ClearContext(c) ==
    /\ At(c, "clear")
    /\ IF token
         THEN /\ Set(c, [call[c] EXCEPT !.pc = "attempt", !.context = FALSE, !.retried = TRUE])
              /\ token' = FALSE /\ UNCHANGED <<answer, lock>>
         ELSE Raise(c) /\ UNCHANGED token
    /\ UNCHANGED <<ledger, stages, clock, expired, sent, restarts>>

-----------------------------------------------------------------------------
(* The receipt.                                                             *)

LedgerStatus(status) == IF status = "AMBIGUOUS" THEN "RECONCILE_REQUIRED" ELSE status

(* record_receipt with the stages of the parts; the server then answers.     *)
Record(c, status, partStages) ==
    LET e == EffectOfCall(c)
        r == [ticket |-> TicketOf[c], status |-> LedgerStatus(status), observedAt |-> clock]
    IN  IF clock >= effects[e].claimedAt
          THEN /\ Ledger!RecordReceipt(e, r, status = "FAILED_RETRYABLE", FALSE)
               /\ stages' = [stages EXCEPT ![e] = partStages]
               /\ End(c, ReceiptAnswer(status, partStages))
          ELSE Raise(c) /\ UNCHANGED <<ledger, stages>>

RecordOutcome(c) ==
    LET t == call[c]
        before == IF t.from > 1 THEN {"CHANNEL_ACCEPTED"} ELSE {}
    IN  /\ At(c, "record")
        /\ IF t.status # "CHANNEL_ACCEPTED" /\ clock < t.partStarted
             THEN RaiseValueError(c) /\ UNCHANGED <<ledger, stages>>
             ELSE Record(c, t.status, before \cup {t.status})
        /\ UNCHANGED <<token, clock, expired, sent, restarts>>

(* _recover_started *)
RecoverStarted(c) ==
    /\ At(c, "recover")
    /\ IF clock < effects[EffectOfCall(c)].startedAt
         THEN RaiseValueError(c) /\ UNCHANGED <<ledger, stages>>
         ELSE Record(c, "AMBIGUOUS", {"AMBIGUOUS"})
    /\ UNCHANGED <<token, clock, expired, sent, restarts>>

(* Mutant of OutcomeUnknown: only a stored receipt makes an outcome unknown. *)
UnknownByReceipt(e) ==
    effects[e].receipt # NoReceipt /\ effects[e].receipt.status \in Ledger!UnknownStatus

OutcomeUnknown(e) ==
    \/ effects[e].state \in {"SIDE_EFFECT_STARTED", "RECONCILE_REQUIRED"}
    \/ effects[e].receipt # NoReceipt /\ effects[e].receipt.status \in Ledger!UnknownStatus

(* The server's answer to a call that raised.                                *)
AnswerError(c) ==
    /\ At(c, "raised")
    /\ End(c, ErrorAnswer(IF OutcomeUnknown(EffectOfCall(c)) THEN "AMBIGUOUS" ELSE "FAILED_FINAL"))
    /\ UNCHANGED <<ledger, stages, token, clock, expired, sent, restarts>>

-----------------------------------------------------------------------------
(* The client, the session, the clock and the process.                      *)

GiveUp(c) ==
    /\ ~ At(c, "new") /\ answer[c] = NoAnswer
    /\ Tell(c, Lost)
    /\ UNCHANGED <<ledger, stages, token, clock, expired, lock, call, sent, restarts>>

(* An inbound message brings a context token; the file sender, which has a   *)
(* lock of its own, clears it.                                               *)
SessionChanges ==
    /\ token' = ~ token
    /\ UNCHANGED <<ledger, stages, clock, expired, lock, call, answer, sent, restarts>>

Tick(t) ==
    /\ t \in Times /\ t # clock /\ (t > clock \/ MayStepBack)
    /\ clock' = t
    /\ UNCHANGED <<ledger, stages, token, expired, lock, call, answer, sent, restarts>>

Expire(tk) ==
    /\ tk \notin expired /\ expired' = expired \cup {tk}
    /\ UNCHANGED <<ledger, stages, token, clock, lock, call, answer, sent, restarts>>

(* The threads are gone and their clients see a broken connection; the       *)
(* service starts with recover_ambiguous.                                    *)
Restart ==
    /\ restarts < MaxRestarts /\ restarts' = restarts + 1
    /\ Ledger!RecoverAmbiguous(clock)
    /\ lock' = NoCall
    /\ call' = [c \in Call |-> IF At(c, "new") THEN call[c] ELSE [NewThread EXCEPT !.pc = "end"]]
    /\ answer' = [c \in Call |->
           IF ~ At(c, "new") /\ answer[c] = NoAnswer THEN Lost ELSE answer[c]]
    /\ UNCHANGED <<stages, token, clock, expired, sent>>

-----------------------------------------------------------------------------
ThreadStep(c) ==
    \/ Dispatch(c) \/ Refuse(c) \/ ResolveContext(c) \/ HandlerFails(c)
    \/ Enter(c) \/ Attempt(c) \/ GateStalled(c) \/ ClearContext(c) \/ RecordOutcome(c) \/ RecoverStarted(c)
    \/ AnswerError(c)
    \/ \E response \in Response : Send(c, response)

Next ==
    \/ \E c \in Call : ThreadStep(c) \/ GiveUp(c)
    \/ \E t \in Times : Tick(t)
    \/ \E tk \in Ticket : Expire(tk)
    \/ SessionChanges \/ Restart

Spec == Init /\ [][Next]_vars

(* A thread keeps running.                                                   *)
FairSpec == Spec /\ \A c \in Call : WF_vars(ThreadStep(c))

-----------------------------------------------------------------------------
(* Properties.                                                              *)

Level(e) ==
    IF sent[e] = <<>> THEN "none" ELSE IF Len(sent[e]) < Segments[e] THEN "some" ELSE "all"

(* What the gateway is told about its one call is true of what the platform  *)
(* accepted: nothing that was accepted is reported failed, nothing that was  *)
(* not is reported accepted, and a final error means that nothing was sent   *)
(* (the assumption of GatewayDelivery).                                      *)
AnswerIsTruthful ==
    [][\A c \in Call :
        Earlier(c) = {} /\ answer'[c] # answer[c] /\ answer'[c] # Lost =>
            Truthful(answer'[c], Level(EffectOfCall(c))')]_vars

(* Segments reach the platform in order, each at most once, over retries,    *)
(* repeated calls and restarts.                                              *)
SentInOrder ==
    \A e \in Effect : \A i \in 1 .. Len(sent[e]) : sent[e][i] = i

(* The durable receipt is true: an accepted delivery is complete, a          *)
(* retryable one never reached the platform (side_effect_absent_verified),   *)
(* and a failed one is incomplete.                                           *)
ReceiptIsTruthful ==
    \A e \in Effect :
        /\ effects[e].state = "CHANNEL_ACCEPTED" => Level(e) = "all"
        /\ effects[e].state = "FAILED_RETRYABLE" => Level(e) = "none"
        /\ effects[e].state = "FAILED_FINAL" => Level(e) # "all"

(* The same of the whole state: the ledger is well typed and its receipts    *)
(* are true.                                                                 *)
LedgerIsTruthful == TypeOK /\ ReceiptIsTruthful

(* A thread that was started comes to its end: no call is left waiting for   *)
(* the lock, and retries are bounded.                                        *)
EveryCallEnds == \A c \in Call : call[c].pc = "resolve" ~> call[c].pc = "end"
=============================================================================
