---------------------------- MODULE WechatIngress ----------------------------
(***************************************************************************)
(* How a message of a WeChat account reaches the gateway's request journal *)
(* (wechat_worker.py, wechat_inbound.py, wechat_session.py, inbox.py, and  *)
(* channel_ingress.py and store.py of the gateway).                        *)
(*                                                                         *)
(* One worker thread per account loops: it forwards what the inbox has not *)
(* acknowledged, polls the platform with the cursor of the inbox, decides  *)
(* and persists each member of the batch, then forwards and acknowledges   *)
(* the batch.  A decision is a transaction of the session ledger; record,  *)
(* cursor and permit are one transaction of the inbox; a request is one    *)
(* transaction of the gateway.  The process may stop between any two.      *)
(*                                                                         *)
(* The platform numbers the messages of an account; the cursor it hands    *)
(* out is the number of messages it has passed.  It may deliver again what *)
(* it delivered before.  The raw payload of a poll is determined by what   *)
(* the poll returned.  Every poll captures its messages at a time of its   *)
(* own, so that an envelope that is built again differs from the first.    *)
(***************************************************************************)
EXTENDS Naturals, Sequences

CONSTANTS
    NMessages,      \* bound: how many messages the platform has
    Withheld,       \* messages the policy does not forward (own, group, empty...)
    Malformed,      \* messages without a sender
    Session, SessionOf,
    None,
    MayRedeliver,   \* may the platform deliver again what the cursor has passed?
    MaxCrashes      \* bound: restarts of the service

Message == 1 .. NMessages

ASSUME IngressAssumption ==
    /\ NMessages \in Nat
    /\ Withheld \subseteq Message /\ Malformed \subseteq Message
    /\ SessionOf \in [Message -> Session]
    /\ MayRedeliver \in BOOLEAN /\ MaxCrashes \in Nat

(* What a poll returned: the first and the last message and the cursor.     *)
Raw == [first : Message, last : Message, next : Message]

(* A cursor token: the platform's, or a local checkpoint after a member of  *)
(* a batch, which carries the platform's token of that batch.               *)
Token == [external : 0 .. NMessages, raw : Raw \cup {None}, member : 0 .. NMessages]
External(n) == [external |-> n, raw |-> None, member |-> 0]
Checkpoint(raw, m) == [external |-> raw.next, raw |-> raw, member |-> m]

Decision == [raw : Raw, class : {"ACCEPTED", "OUT_OF_ORDER", "WITHHELD"}]
Record ==
    [raw : Raw, persisted : 0 .. NMessages, next : Token,
     state : {"ACK_ELIGIBLE", "ACKED"}]

ASSUME NoneAssumption == None \notin Raw \cup Decision \cup Record

VARIABLES
    decision,   \* table message_decision
    last,       \* session_state.last_sequence, 0 if none
    inbox,      \* tables inbox_records and ack_permits
    cursor,     \* cursor_state.cursor_token; the token of the credentials at first
    revision,   \* cursor_state.revision
    journal,    \* the gateway's request journal, in the order of registration
    worker,     \* the worker thread (volatile)
    crashes

ledgers == <<decision, last, inbox, cursor, revision>>
vars == <<ledgers, journal, worker, crashes>>

(* The locals of the loop: the records still to be forwarded, in the flush  *)
(* or of the batch; the message at hand; the batch; the previous cursor the *)
(* next member must find; and when the batch was captured, counted in       *)
(* commits of the inbox, since two polls between which nothing was          *)
(* persisted never both persist.                                            *)
Pc == {"idle", "flush", "poll", "decide", "persist", "deliver"}
Thread ==
    [pc : Pc, todo : SUBSET Message, accepted : BOOLEAN, at : 0 .. NMessages,
     raw : Raw \cup {None}, previous : Token, captured : 0 .. NMessages]
Idle ==
    [pc |-> "idle", todo |-> {}, accepted |-> FALSE, at |-> 0, raw |-> None,
     previous |-> External(0), captured |-> 0]

TypeOK ==
    /\ decision \in [Message -> Decision \cup {None}]
    /\ last \in [Session -> 0 .. NMessages]
    /\ inbox \in [Message -> Record \cup {None}]
    /\ cursor \in Token
    /\ revision \in 0 .. NMessages
    /\ journal \in Seq(Message)
    /\ worker \in Thread
    /\ crashes \in 0 .. MaxCrashes

Init ==
    /\ decision = [m \in Message |-> None]
    /\ last = [s \in Session |-> 0]
    /\ inbox = [m \in Message |-> None]
    /\ cursor = External(0)
    /\ revision = 0
    /\ journal = <<>>
    /\ worker = Idle
    /\ crashes = 0

At(pc) == worker.pc = pc
Raise == worker' = Idle

Persisted == {m \in Message : inbox[m] # None}
Pending == {m \in Persisted : inbox[m].state = "ACK_ELIGIBLE"}
ShouldForward(m) == decision[m] # None /\ decision[m].class = "ACCEPTED"
Registered == {journal[i] : i \in 1 .. Len(journal)}

-----------------------------------------------------------------------------
(* Forwarding and acknowledging, in _flush_pending and after a batch.       *)

(* list_unacknowledged orders by persisted_at_ms, which the members of a    *)
(* batch share, then by the digest in the ingress id; a batch is forwarded  *)
(* in its own order.                                                        *)
Precedes(m, n) ==
    IF At("flush") THEN inbox[m].persisted < inbox[n].persisted ELSE m < n
Foremost == {m \in worker.todo : \A n \in worker.todo : ~Precedes(n, m)}

(* Mutant of StartFlush: nothing that was persisted before is taken up.     *)
StartFlushEmpty ==
    /\ At("idle")
    /\ worker' = [Idle EXCEPT !.pc = "flush"]
    /\ UNCHANGED <<ledgers, journal, crashes>>
StartFlush ==
    /\ At("idle")
    /\ worker' = [Idle EXCEPT !.pc = "flush", !.todo = Pending]
    /\ UNCHANGED <<ledgers, journal, crashes>>

(* register_request: one request per message, however often it arrives.     *)
(* Mutant of Register: a retry is another request.                          *)
RegisterAgain(m) == journal' = Append(journal, m)
Register(m) == journal' = IF m \in Registered THEN journal ELSE Append(journal, m)

(* The gateway registers the request and the acceptance arrives.            *)
ForwardAccepted(m) ==
    /\ At("flush") \/ At("deliver")
    /\ ~worker.accepted /\ m \in Foremost /\ ShouldForward(m)
    /\ Register(m)
    /\ worker' = [worker EXCEPT !.accepted = TRUE, !.at = m]
    /\ UNCHANGED <<ledgers, crashes>>

(* The request is registered and the acceptance is lost; or the submission  *)
(* is refused, by the authority gate or by the gateway.                     *)
(* Mutant of ForwardFails: a record that fails is passed over.              *)
ForwardFailsOn(m) ==
    /\ At("flush") \/ At("deliver")
    /\ ~worker.accepted /\ m \in Foremost /\ ShouldForward(m)
    /\ Register(m) \/ UNCHANGED journal
    /\ worker' = [worker EXCEPT !.todo = @ \ {m}]
    /\ UNCHANGED <<ledgers, crashes>>
ForwardFails(m) ==
    /\ At("flush") \/ At("deliver")
    /\ ~worker.accepted /\ m \in Foremost /\ ShouldForward(m)
    /\ Register(m) \/ UNCHANGED journal
    /\ Raise
    /\ UNCHANGED <<ledgers, crashes>>

(* mark_acknowledged: after the acceptance, or at once for a record that is *)
(* not forwarded.  A record that was acknowledged before keeps its receipt. *)
(* Mutant of MayAcknowledge: a record is acknowledged before the gateway    *)
(* has it.                                                                  *)
MayAcknowledgeEarly(m) == m \in Foremost
MayAcknowledge(m) ==
    IF worker.accepted THEN m = worker.at ELSE m \in Foremost /\ ~ShouldForward(m)
MarkAcknowledged(m) ==
    /\ At("flush") \/ At("deliver")
    /\ MayAcknowledge(m)
    /\ inbox' = [inbox EXCEPT ![m].state = "ACKED"]
    /\ worker' = [worker EXCEPT !.todo = @ \ {m}, !.accepted = FALSE, !.at = 0]
    /\ UNCHANGED <<decision, last, cursor, revision, journal, crashes>>

EndDeliver ==
    /\ At("deliver") /\ worker.todo = {}
    /\ Raise
    /\ UNCHANGED <<ledgers, journal, crashes>>

-----------------------------------------------------------------------------
(* Polling.                                                                 *)

(* external_cursor_from_local: a local checkpoint stands for the platform's *)
(* token of its batch.                                                      *)
(* Mutant of ExternalCursor: a checkpoint is not understood.                *)
ExternalCursorOfPlatform == IF cursor.member = 0 THEN cursor.external ELSE 0
ExternalCursor == cursor.external

StartPoll ==
    /\ At("flush") /\ worker.todo = {}
    /\ worker' = [Idle EXCEPT !.pc = "poll", !.at = ExternalCursor, !.previous = cursor,
                              !.captured = revision]
    /\ UNCHANGED <<ledgers, journal, crashes>>

PollReturns(first, final) ==
    LET next == IF final > worker.at THEN final ELSE worker.at IN
    /\ At("poll")
    /\ first <= final
    /\ worker' = [worker EXCEPT !.pc = "decide", !.at = first,
                                !.raw = [first |-> first, last |-> final, next |-> next]]
    /\ UNCHANGED <<ledgers, journal, crashes>>

(* The poll returns what follows the cursor, or older messages again.       *)
PollNew(final) == At("poll") /\ worker.at < NMessages /\ PollReturns(worker.at + 1, final)
PollOld(first, final) == At("poll") /\ MayRedeliver /\ first <= worker.at
                         /\ PollReturns(first, final)

(* The poll returns nothing or fails.                                       *)
PollEmpty ==
    /\ At("poll")
    /\ Raise
    /\ UNCHANGED <<ledgers, journal, crashes>>

-----------------------------------------------------------------------------
(* process_batch: each member is decided, then persisted.                   *)

(* decide: a message that is older than the last of its session is held.    *)
Classify(m) ==
    IF m \in Withheld THEN "WITHHELD"
    ELSE IF m < last[SessionOf[m]] THEN "OUT_OF_ORDER" ELSE "ACCEPTED"

Decide ==
    LET m == worker.at
        class == Classify(m) IN
    /\ At("decide") /\ m \notin Malformed /\ decision[m] = None
    /\ decision' = [decision EXCEPT ![m] = [raw |-> worker.raw, class |-> class]]
    /\ last' = IF class = "ACCEPTED" THEN [last EXCEPT ![SessionOf[m]] = m] ELSE last
    /\ worker' = [worker EXCEPT !.pc = "persist"]
    /\ UNCHANGED <<inbox, cursor, revision, journal, crashes>>

(* A message that was decided before is the same message only if its record *)
(* was persisted, which keeps its envelope, and its raw payload is the same.*)
SameMessage(m) == inbox[m] # None /\ inbox[m].raw = worker.raw
DecideAgain ==
    /\ At("decide") /\ worker.at \notin Malformed /\ decision[worker.at] # None
    /\ SameMessage(worker.at)
    /\ worker' = [worker EXCEPT !.pc = "persist"]
    /\ UNCHANGED <<ledgers, journal, crashes>>

(* WechatInboundError, or WechatSessionConflict: the whole batch is given   *)
(* up.                                                                      *)
DecideRaises ==
    /\ At("decide")
    /\ worker.at \in Malformed \/ (decision[worker.at] # None /\ ~SameMessage(worker.at))
    /\ Raise
    /\ UNCHANGED <<ledgers, journal, crashes>>

(* Mutant of NextToken: every checkpoint is the platform's final token.     *)
NextTokenFinal(m) == External(worker.raw.next)
NextToken(m) ==
    IF m = worker.raw.last THEN External(worker.raw.next) ELSE Checkpoint(worker.raw, m)

(* On to the next member with the cursor of this one, or to the delivery.   *)
NextMember(token) ==
    worker' = IF worker.at = worker.raw.last
              THEN [Idle EXCEPT !.pc = "deliver", !.todo = worker.raw.first .. worker.raw.last]
              ELSE [worker EXCEPT !.pc = "decide", !.at = @ + 1, !.previous = token]

(* persist_and_advance_cursor: record, cursor and permit in one transaction.*)
CursorMatches == worker.previous = cursor

Persist ==
    LET m == worker.at IN
    /\ At("persist") /\ inbox[m] = None /\ CursorMatches
    /\ inbox' = [inbox EXCEPT ![m] = [raw |-> worker.raw, persisted |-> worker.captured,
                                      next |-> NextToken(m), state |-> "ACK_ELIGIBLE"]]
    /\ cursor' = NextToken(m)
    /\ revision' = revision + 1
    /\ NextMember(NextToken(m))
    /\ UNCHANGED <<decision, last, journal, crashes>>

(* CursorConflictError.                                                     *)
PersistRaises ==
    /\ At("persist") /\ inbox[worker.at] = None /\ ~CursorMatches
    /\ Raise
    /\ UNCHANGED <<ledgers, journal, crashes>>

(* The stored permit of a duplicate, with the cursor it was issued for.     *)
PersistDuplicate ==
    /\ At("persist") /\ inbox[worker.at] # None
    /\ NextMember(inbox[worker.at].next)
    /\ UNCHANGED <<ledgers, journal, crashes>>

Crash ==
    /\ crashes < MaxCrashes /\ ~At("idle")
    /\ crashes' = crashes + 1
    /\ Raise
    /\ UNCHANGED <<ledgers, journal>>

-----------------------------------------------------------------------------
Flush ==
    \/ StartFlush \/ EndDeliver \/ StartPoll
    \/ \E m \in Message : ForwardAccepted(m) \/ ForwardFails(m) \/ MarkAcknowledged(m)
Process ==
    \/ Decide \/ DecideAgain \/ DecideRaises \/ Persist \/ PersistRaises \/ PersistDuplicate
PollNext ==
    \/ PollEmpty
    \/ \E n \in Message : PollNew(n) \/ \E m \in Message : PollOld(m, n)

Next == Flush \/ Process \/ PollNext \/ Crash

Spec == Init /\ [][Next]_vars

(* The worker runs; a submission that is repeated is accepted at last, and  *)
(* the platform does not hide new messages for ever.                        *)
FairSpec ==
    /\ Spec
    /\ WF_vars(Flush \/ Process \/ PollNext)
    /\ \A m \in Message : SF_vars(ForwardAccepted(m))
    /\ SF_vars(\E n \in Message : PollNew(n))

-----------------------------------------------------------------------------
(* Properties.                                                              *)

(* What is acknowledged is not lost: a message that is to be forwarded is   *)
(* marked ACKED only when the gateway has its request.                      *)
AckedIsRegistered ==
    \A m \in Persisted :
        inbox[m].state = "ACKED" /\ ShouldForward(m) => m \in Registered

(* One message is at most one request (IDEM-01), whatever is lost, repeated *)
(* or redelivered, and only of a message the inbox holds and the session    *)
(* ledger accepted.                                                         *)
OneRequestEach ==
    /\ \A i, j \in 1 .. Len(journal) : journal[i] = journal[j] => i = j
    /\ \A m \in Registered : m \in Persisted /\ ShouldForward(m)

(* The requests of a session are in the order of its messages, except for   *)
(* messages of one batch.                                                   *)
OrderedAcrossBatches ==
    \A i, j \in 1 .. Len(journal) :
        /\ i < j /\ SessionOf[journal[i]] = SessionOf[journal[j]]
        /\ journal[i] > journal[j]
        => inbox[journal[i]].persisted = inbox[journal[j]].persisted

(* Every record has a decision, which the flush needs to be able to forward *)
(* it (wechat_worker.py:266), and was made for the same payload.            *)
PersistedIsDecided ==
    \A m \in Persisted : decision[m] # None /\ decision[m].raw = inbox[m].raw

(* A message the cursor has passed is persisted, or it follows a persisted  *)
(* member of a batch that was given up: nothing else is ever skipped.       *)
SkippedOnlyInBatch ==
    \A m \in 1 .. cursor.external :
        \/ m \in Persisted
        \/ \E n \in Persisted :
            n < m /\ m <= inbox[n].raw.last /\ inbox[n].next.member = n

(* The two ledgers and the cursor agree, at every point where the process   *)
(* may stop: every record has its decision, and what the cursor passed and  *)
(* the inbox does not have is the rest of a batch that was given up.        *)
LedgersAgree == TypeOK /\ PersistedIsDecided /\ SkippedOnlyInBatch

(* What process_batch promises: a batch is persisted before its final       *)
(* external cursor is used for another poll.                                *)
PolledIsPersisted == At("poll") => 1 .. worker.at \subseteq Persisted

(* Every record is acknowledged at last.                                    *)
EveryRecordAcknowledged ==
    \A m \in Message : []<>(inbox[m] = None \/ inbox[m].state = "ACKED")

(* The worker catches up with the platform, unless the next message is one  *)
(* that cannot be decided: malformed, or decided before a crash and not     *)
(* persisted.                                                               *)
HeadBlocked ==
    LET m == cursor.external + 1 IN
    /\ cursor.external < NMessages
    /\ m \in Malformed \/ (decision[m] # None /\ inbox[m] = None)
CatchesUp == <>[](cursor.external = NMessages \/ HeadBlocked)
=============================================================================
