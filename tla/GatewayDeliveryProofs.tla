------------------------ MODULE GatewayDeliveryProofs ------------------------
(***************************************************************************)
(* Theorems about GatewayDelivery, for every number of requests, sessions, *)
(* restarts and cancellations and every kind of receipt.                   *)
(*                                                                         *)
(* The inductive invariant has three parts: what the session queue looks   *)
(* like, what the tables say of one request, and what the worker may rely  *)
(* on at each point of its program because only the worker changes it.     *)
(***************************************************************************)
EXTENDS GatewayDelivery, TLAPS, SequenceTheorems, WellFoundedInduction

-----------------------------------------------------------------------------
(* The session queue.                                                       *)

(* Requests are registered in order, and a request waits only behind a head. *)
QueueInv ==
    /\ \A r, q \in Request : q < r /\ queue[r] # "NONE" => queue[q] # "NONE"
    /\ \A r \in Request : queue[r] = "QUEUED" => \E q \in SameSession(r) : queue[q] = "ACTIVE"
    /\ SessionOrder

(* The lists hold a request at most once, and only what belongs there. *)
Once(s) == \A i, j \in DOMAIN s : s[i] = s[j] => i = j
Waits(o) == o.state \in {"PENDING", "CLAIMED"}
Answered(o) == o.state \in {"ACKED", "AMBIGUOUS"}
HeadsInv == Once(heads) /\ \A i \in DOMAIN heads : queue[heads[i]] = "ACTIVE"
IntentsInv == Once(intents) /\ \A i \in DOMAIN intents : Waits(outbox[intents[i]])
ResultsInv ==
    Once(results) /\ \A i \in DOMAIN results :
                        Answered(outbox[results[i]]) /\ ~ outbox[results[i]].finalized
ListInv == HeadsInv /\ IntentsInv /\ ResultsInv

-----------------------------------------------------------------------------
(* One request.                                                             *)

(* An outbox row: no answer before the boundary is crossed and answered, and  *)
(* what is stored is true of the channel.                                     *)
OutboxInv(r) ==
    LET o == outbox[r] IN
    /\ o.state = "NONE" => o = NoOutbox
    /\ Waits(o) => o.result = NoAnswer /\ ~ o.finalized
    /\ Answered(o) => /\ o.result \in Answer /\ Truthful(o.result, platform[r].accepted)
                      /\ o.state = "AMBIGUOUS" <=> o.result.status = "AMBIGUOUS"
    /\ platform[r].sends <= 1
    /\ o.boundary = 0 => platform[r].sends = 0 /\ platform[r].accepted = "none"
    /\ o.state = "AMBIGUOUS" /\ o.finalized => sm[r].delivery = "RECONCILE_REQUIRED"
    /\ HasOutbox(r) => r \notin Desktop

(* The verdict of a settled channel request is true, and a request is settled *)
(* without an answer only when it has no intent.                              *)
VerdictInv(r) ==
    /\ Settled(r) => (HasOutbox(r) => outbox[r].state = "ACKED")
    /\ r \notin Desktop =>
         /\ sm[r].request = "COMPLETED" => platform[r].accepted = "all"
         /\ sm[r].request = "PARTIAL" => platform[r].accepted = "some"
         /\ sm[r].request = "FAILED" => platform[r].accepted = "none"
         /\ HasOutbox(r) <=> sm[r].delivery \notin {"NONE", "NOT_PLANNED", "CANCELLED"}

GenerationInv(r) ==
    /\ gen[r].status = "NONE" => sm[r].request = "NONE" /\ ~ HasOutbox(r)
    /\ gen[r].status # "NONE" => queue[r] \in {"ACTIVE", "COMPLETED"}
    /\ gen[r].status = "RELEASED" =>
         Settled(r) /\ queue[r] = "COMPLETED" /\ (HasOutbox(r) => outbox[r].finalized)

RequestInv(r) == OutboxInv(r) /\ VerdictInv(r) /\ GenerationInv(r)

-----------------------------------------------------------------------------
(* The worker.                                                              *)

DesktopPc ==
    {"desktop_plan", "desktop_ticket", "desktop_send", "desktop_accept", "desktop_deliver",
     "persist_result", "desktop_complete", "desktop_retire"}
ClosingPc == {"unhandled_execution", "unhandled_delivery", "unhandled_request"}
FinalPc == {"finalize", "settle_delivery", "decide", "persist", "settle_request", "retire", "mark"}
DecidedPc == FinalPc \ {"finalize", "settle_delivery"}

(* What the worker relies on for the request that it serves. *)
WorkerInv ==
    LET r == w.r
        o == outbox[w.r]
    IN  w.pc # "loop" =>
          /\ gen[r].status # "NONE"
          /\ w.pc \in (ProcessPc \ {"delivering"}) \cup ClosingPc \cup {"unhandled_retire"}
               => ~ HasOutbox(r)
          /\ w.pc \in (ProcessPc \ {"fail_session", "desktop_retire"}) \cup ClosingPc => ~ Settled(r)
          /\ w.pc \in {"unhandled_retire", "retire", "mark"} => Settled(r)
          /\ w.pc \in DesktopPc => r \in Desktop
          /\ w.pc \in {"plan_delivery", "delivering"} => r \notin Desktop
          /\ w.pc \in {"load", "authority", "ticket", "sending", "boundary", "orphan", "call", "answer"}
               => o.state = "CLAIMED"
          /\ w.pc \in {"orphan", "call", "answer"} => o.boundary # 0
          /\ w.pc = "orphan" => o.expired
          /\ w.pc = "call" => platform[r].sends = 0
          /\ w.pc \in FinalPc => Answered(o) /\ ~ o.finalized
          /\ w.pc \in DecidedPc /\ o.state = "AMBIGUOUS" => sm[r].delivery = "RECONCILE_REQUIRED"
          /\ w.pc \in {"persist", "settle_request"} => Outcome(o.result) \in {"COMPLETED", "PARTIAL", "FAILED"}
          /\ w.pc = "mark" => queue[r] = "COMPLETED"

IInv ==
    /\ TypeOK
    /\ QueueInv
    /\ ListInv
    /\ \A r \in Request : RequestInv(r)
    /\ WorkerInv

-----------------------------------------------------------------------------
(* Sequences and numbers.                                                   *)

(* A nonempty set of numbers has a least one. *)
LEMMA LeastNumber ==
    ASSUME NEW S \in SUBSET Nat, S # {}
    PROVE  \E x \in S : \A y \in S : x <= y
  <1>1. PICK x \in S : \A y \in S : ~ (<<y, x>> \in OpToRel(<, Nat))
    BY NatLessThanWellFounded, WFMin, Zenon
  <1>2. ASSUME NEW y \in S PROVE x <= y
    <2>1. x \in Nat /\ y \in Nat
      OBVIOUS
    <2>2. ~ (y < x)
      BY <1>1, <2>1 DEF OpToRel
    <2> QED
      BY <2>1, <2>2
  <1> QED
    BY <1>2

(* A list of distinct members keeps its other members when one is dropped.   *)
LEMMA DropProps ==
    ASSUME NEW S, NEW s \in Seq(S), Once(s), NEW r
    PROVE  /\ Drop(s, r) \in Seq(S) /\ Once(Drop(s, r))
           /\ \A j \in DOMAIN Drop(s, r) :
                Drop(s, r)[j] # r /\ \E k \in DOMAIN s : Drop(s, r)[j] = s[k]
  <1>1. CASE ~ \E i \in DOMAIN s : s[i] = r
    BY <1>1 DEF Drop
  <1>2. CASE \E i \in DOMAIN s : s[i] = r
    <2>1. PICK i : i \in DOMAIN s /\ s[i] = r /\ i = CHOOSE k \in DOMAIN s : s[k] = r
      BY <1>2
    <2> DEFINE n == Len(s) - 1
               t == [j \in 1 .. n |-> s[IF j < i THEN j ELSE j + 1]]
    <2>2. /\ Len(s) \in Nat /\ DOMAIN s = 1 .. Len(s) /\ i \in 1 .. Len(s)
          /\ n \in Nat /\ \A k \in 1 .. Len(s) : s[k] \in S
      BY <2>1
    <2>3. Drop(s, r) = t
      BY <1>2, <2>1 DEF Drop
    <2>4. ASSUME NEW j \in 1 .. n
          PROVE  /\ t[j] = s[IF j < i THEN j ELSE j + 1]
                 /\ (IF j < i THEN j ELSE j + 1) \in 1 .. Len(s)
                 /\ (IF j < i THEN j ELSE j + 1) # i
      BY <2>2
    <2>5. t \in [1 .. n -> S]
      BY <2>2, <2>4
    <2>6. t \in Seq(S) /\ DOMAIN t = 1 .. n
      BY <2>2, <2>5, SeqDef
    <2>7. ASSUME NEW j \in 1 .. n PROVE t[j] # r /\ \E k \in DOMAIN s : t[j] = s[k]
      BY <2>1, <2>2, <2>4 DEF Once
    <2>8. ASSUME NEW j \in 1 .. n, NEW k \in 1 .. n, t[j] = t[k] PROVE j = k
      <3>1. (IF j < i THEN j ELSE j + 1) = (IF k < i THEN k ELSE k + 1)
        BY <2>2, <2>4, <2>8 DEF Once
      <3> QED
        BY <3>1, <2>2
    <2> HIDE DEF t
    <2> QED
      BY <2>3, <2>6, <2>7, <2>8 DEF Once
  <1> QED
    BY <1>1, <1>2

(* A new member at the end of a list of distinct members. *)
LEMMA AppendProps ==
    ASSUME NEW S, NEW s \in Seq(S), Once(s), NEW x \in S, \A i \in DOMAIN s : s[i] # x
    PROVE  /\ Append(s, x) \in Seq(S) /\ Once(Append(s, x))
           /\ \A i \in DOMAIN Append(s, x) :
                Append(s, x)[i] = x \/ \E k \in DOMAIN s : Append(s, x)[i] = s[k]
  <1> DEFINE t == Append(s, x)
  <1>1. /\ t \in Seq(S) /\ Len(s) \in Nat /\ Len(t) = Len(s) + 1
        /\ DOMAIN s = 1 .. Len(s) /\ DOMAIN t = 1 .. Len(t)
        /\ \A i \in 1 .. Len(s) : t[i] = s[i]
        /\ t[Len(s) + 1] = x
    OBVIOUS
  <1> HIDE DEF t
  <1>2. ASSUME NEW i \in DOMAIN t
        PROVE  (i = Len(s) + 1 /\ t[i] = x) \/ (i \in DOMAIN s /\ t[i] = s[i])
    BY <1>1
  <1>3. Once(t)
    BY <1>1, <1>2 DEF Once
  <1> QED
    BY <1>1, <1>2, <1>3 DEF t

(* The first of those who wait in a session. *)
LEMMA NextProps ==
    ASSUME NEW S \in SUBSET Request, S # {}
    PROVE  NextInLine(S) \in S /\ \A p \in S : NextInLine(S) <= p
  <1>1. S \in SUBSET Nat
    BY DEF Request
  <1>2. \E q \in S : \A p \in S : q <= p
    BY <1>1, LeastNumber
  <1> QED
    BY <1>2 DEF NextInLine

-----------------------------------------------------------------------------
(* The session queue.                                                       *)

QueueType ==
    /\ queue \in [Request -> {"NONE", "QUEUED", "ACTIVE", "COMPLETED"}]
    /\ heads \in Seq(Request)

(* Registering a request keeps the order of its session. *)
LEMMA RegisterQueue ==
    ASSUME QueueType, QueueInv, HeadsInv, NEW r \in Request, Register(r)
    PROVE  /\ QueueType' /\ QueueInv' /\ HeadsInv'
           /\ \A q \in Request : queue'[q] = queue[q] \/ queue[q] = "NONE"
  <1>1. queue[r] = "NONE" /\ \A q \in Request : q < r => queue[q] # "NONE"
    BY DEF Register
  <1>2. \A q \in Request : q \in Nat
    BY DEF Request
  <1>3. \A q \in Request : r < q => queue[q] = "NONE"
    BY <1>1 DEF QueueInv
  <1>4. CASE \E q \in SameSession(r) : queue[q] = "ACTIVE"
    <2>1. queue' = [queue EXCEPT ![r] = "QUEUED"] /\ heads' = heads
      BY <1>4 DEF Register
    <2>2. queue'[r] = "QUEUED" /\ \A q \in Request : q # r => queue'[q] = queue[q]
      BY <2>1 DEF QueueType
    <2>3. QueueType'
      BY <2>1 DEF QueueType
    <2>4. HeadsInv'
      BY <2>1, <2>2, <1>1 DEF HeadsInv, Once, QueueType
    <2>5. \A x, q \in Request : q < x /\ queue'[x] # "NONE" => queue'[q] # "NONE"
      BY <1>1, <1>2, <1>3, <2>2 DEF QueueInv
    <2>6. ASSUME NEW x \in Request, queue'[x] = "QUEUED"
          PROVE  \E q \in SameSession(x) : queue'[q] = "ACTIVE"
      <3>1. \E q \in SameSession(x) : queue[q] = "ACTIVE"
        BY <1>4, <2>2, <2>6 DEF QueueInv
      <3> QED
        BY <3>1, <2>2, <1>1 DEF SameSession
    <2>7. SessionOrder'
      BY <2>2, <1>1 DEF QueueInv, SessionOrder, SameSession
    <2> QED
      BY <2>2, <2>3, <2>4, <2>5, <2>6, <2>7, <1>1 DEF QueueInv, SameSession
  <1>5. CASE ~ \E q \in SameSession(r) : queue[q] = "ACTIVE"
    <2>1. queue' = [queue EXCEPT ![r] = "ACTIVE"] /\ heads' = Append(heads, r)
      BY <1>5 DEF Register
    <2>2. queue'[r] = "ACTIVE" /\ \A q \in Request : q # r => queue'[q] = queue[q]
      BY <2>1 DEF QueueType
    <2>3. \A i \in DOMAIN heads : heads[i] # r /\ heads[i] \in Request
      BY <1>1 DEF HeadsInv, QueueType
    <2>4. /\ heads' \in Seq(Request) /\ Once(heads)'
          /\ \A i \in DOMAIN heads' : heads'[i] = r \/ \E k \in DOMAIN heads : heads'[i] = heads[k]
      BY <2>1, <2>3, AppendProps DEF HeadsInv, QueueType, Once
    <2>5. QueueType'
      BY <2>1, <2>4 DEF QueueType
    <2>6. HeadsInv'
      BY <2>2, <2>3, <2>4 DEF HeadsInv
    <2>7. \A x, q \in Request : q < x /\ queue'[x] # "NONE" => queue'[q] # "NONE"
      BY <1>1, <1>2, <1>3, <2>2 DEF QueueInv
    <2>8. ASSUME NEW x \in Request, queue'[x] = "QUEUED"
          PROVE  \E q \in SameSession(x) : queue'[q] = "ACTIVE"
      <3>1. PICK q \in SameSession(x) : queue[q] = "ACTIVE"
        BY <2>2, <2>8 DEF QueueInv
      <3> QED
        BY <3>1, <2>2, <1>1 DEF SameSession
    <2>9. ASSUME NEW x \in Request, NEW q \in SameSession(x), q < x,
                 queue'[x] \in {"ACTIVE", "COMPLETED"}
          PROVE  queue'[q] = "COMPLETED"
      <3>1. q \in Request /\ SessionOf[q] = SessionOf[x]
        BY DEF SameSession
      <3>2. CASE x = r
        <4>1. queue[q] # "NONE" /\ queue[q] # "ACTIVE"
          BY <3>1, <3>2, <2>9, <1>1, <1>5
        <4>2. queue[q] # "QUEUED"
          BY <3>1, <3>2, <1>5 DEF QueueInv, SameSession
        <4> QED
          BY <4>1, <4>2, <3>1, <3>2, <2>2, <2>9, <1>2 DEF QueueType
      <3>3. CASE x # r
        <4>1. queue[x] \in {"ACTIVE", "COMPLETED"}
          BY <3>3, <2>2, <2>9
        <4>2. queue[q] = "COMPLETED"
          BY <4>1, <2>9, <3>1 DEF QueueInv, SessionOrder
        <4> QED
          BY <4>2, <3>1, <2>2, <1>1
      <3> QED
        BY <3>2, <3>3
    <2>10. SessionOrder'
      BY <2>9 DEF SessionOrder, SameSession
    <2> QED
      BY <2>2, <2>5, <2>6, <2>7, <2>8, <2>10, <1>1 DEF QueueInv, SameSession
  <1> QED
    BY <1>4, <1>5

(* Completing the head of a session promotes the next in line, and only it. *)
LEMMA CompleteQueue ==
    ASSUME QueueType, QueueInv, HeadsInv, NEW r \in Request, CompleteSession(r)
    PROVE  /\ QueueType' /\ QueueInv' /\ HeadsInv'
           /\ queue[r] \in {"ACTIVE", "COMPLETED"} => queue'[r] = "COMPLETED"
           /\ \A q \in Request : \/ queue'[q] = queue[q]
                                 \/ queue[q] = "QUEUED" /\ queue'[q] = "ACTIVE"
                                 \/ queue[q] = "ACTIVE" /\ queue'[q] = "COMPLETED"
  <1>1. CASE queue[r] # "ACTIVE"
    <2>1. queue' = queue /\ heads' = heads
      BY <1>1 DEF CompleteSession
    <2> QED
      BY <1>1, <2>1 DEF QueueType, QueueInv, HeadsInv, Once, SessionOrder, SameSession
  <1>2. CASE queue[r] = "ACTIVE" /\ Waiting(r) = {}
    <2>1. queue' = [queue EXCEPT ![r] = "COMPLETED"] /\ heads' = Drop(heads, r)
      BY <1>2 DEF CompleteSession
    <2>2. queue'[r] = "COMPLETED" /\ \A q \in Request : q # r => queue'[q] = queue[q]
      BY <2>1 DEF QueueType
    <2>3. /\ heads' \in Seq(Request) /\ Once(heads)'
          /\ \A j \in DOMAIN heads' : heads'[j] # r /\ \E k \in DOMAIN heads : heads'[j] = heads[k]
      BY <2>1, DropProps DEF HeadsInv, QueueType, Once
    <2>4. QueueType'
      BY <2>1, <2>3 DEF QueueType
    <2>5. HeadsInv'
      BY <2>2, <2>3 DEF HeadsInv, QueueType
    <2>6. \A x, q \in Request : q < x /\ queue'[x] # "NONE" => queue'[q] # "NONE"
      BY <1>2, <2>2 DEF QueueInv
    <2>7. ASSUME NEW x \in Request, queue'[x] = "QUEUED"
          PROVE  \E q \in SameSession(x) : queue'[q] = "ACTIVE"
      <3>1. x # r /\ queue[x] = "QUEUED"
        BY <2>2, <2>7
      <3>2. SessionOf[x] # SessionOf[r]
        BY <3>1, <1>2 DEF Waiting, SameSession
      <3>3. PICK q \in SameSession(x) : queue[q] = "ACTIVE"
        BY <3>1 DEF QueueInv
      <3> QED
        BY <3>2, <3>3, <2>2 DEF SameSession
    <2>8. SessionOrder'
      BY <1>2, <2>2 DEF QueueInv, SessionOrder, SameSession
    <2> QED
      BY <1>2, <2>2, <2>4, <2>5, <2>6, <2>7, <2>8 DEF QueueInv, SameSession
  <1>3. CASE queue[r] = "ACTIVE" /\ Waiting(r) # {}
    <2>1. PICK n : n = NextInLine(Waiting(r))
      OBVIOUS
    <2>2. /\ queue' = [queue EXCEPT ![r] = "COMPLETED", ![n] = "ACTIVE"]
          /\ heads' = Append(Drop(heads, r), n)
      BY <1>3, <2>1 DEF CompleteSession
    <2>3. /\ n \in Request /\ SessionOf[n] = SessionOf[r] /\ queue[n] = "QUEUED" /\ n # r
          /\ \A p \in Waiting(r) : n <= p
      BY <1>3, <2>1, NextProps DEF Waiting, SameSession
    <2>4. /\ queue'[r] = "COMPLETED" /\ queue'[n] = "ACTIVE"
          /\ \A q \in Request : q # r /\ q # n => queue'[q] = queue[q]
      BY <2>2, <2>3 DEF QueueType
    <2>5. PICK s : s = Drop(heads, r)
      OBVIOUS
    <2>6. /\ s \in Seq(Request) /\ Once(s)
          /\ \A j \in DOMAIN s : s[j] # r /\ \E k \in DOMAIN heads : s[j] = heads[k]
      BY <2>5, DropProps DEF HeadsInv, QueueType
    <2>7. \A j \in DOMAIN s : s[j] # n /\ queue[s[j]] = "ACTIVE" /\ s[j] \in Request
      BY <2>3, <2>6 DEF HeadsInv, QueueType
    <2>8. /\ heads' \in Seq(Request) /\ Once(heads)'
          /\ \A j \in DOMAIN heads' : heads'[j] = n \/ \E k \in DOMAIN s : heads'[j] = s[k]
      BY <2>2, <2>3, <2>5, <2>6, <2>7, AppendProps DEF Once
    <2>9. QueueType'
      BY <2>2, <2>3, <2>8 DEF QueueType
    <2>10. HeadsInv'
      BY <2>4, <2>6, <2>7, <2>8 DEF HeadsInv
    <2>11. \A x, q \in Request : q < x /\ queue'[x] # "NONE" => queue'[q] # "NONE"
      BY <1>3, <2>3, <2>4 DEF QueueInv
    <2>12. ASSUME NEW x \in Request, queue'[x] = "QUEUED"
           PROVE  \E q \in SameSession(x) : queue'[q] = "ACTIVE"
      <3>1. x # r /\ x # n /\ queue[x] = "QUEUED"
        BY <2>4, <2>12
      <3>2. CASE SessionOf[x] = SessionOf[r]
        BY <3>2, <2>3, <2>4 DEF SameSession
      <3>3. CASE SessionOf[x] # SessionOf[r]
        <4>1. PICK q \in SameSession(x) : queue[q] = "ACTIVE"
          BY <3>1 DEF QueueInv
        <4> QED
          BY <4>1, <3>3, <2>3, <2>4 DEF SameSession
      <3> QED
        BY <3>2, <3>3
    <2>13. ASSUME NEW x \in Request, NEW q \in SameSession(x), q < x,
                  queue'[x] \in {"ACTIVE", "COMPLETED"}
           PROVE  queue'[q] = "COMPLETED"
      <3>1. q \in Request /\ SessionOf[q] = SessionOf[x] /\ q \in Nat /\ x \in Nat
        BY DEF SameSession, Request
      <3>2. CASE x = n
        <4>1. q \in SameSession(r) /\ r \in SameSession(q) /\ q \in SameSession(n)
          BY <2>3, <3>1, <3>2 DEF SameSession
        <4>2. CASE q = r
          BY <4>2, <2>4
        <4>3. CASE q # r
          <5>1. queue[q] # "NONE"
            BY <2>3, <2>13, <3>1, <3>2 DEF QueueInv
          <5>2. queue[q] # "QUEUED"
            <6>1. CASE queue[q] = "QUEUED"
              <7>1. n <= q
                BY <6>1, <4>1, <2>3 DEF Waiting
              <7> QED
                BY <7>1, <2>13, <3>1, <3>2
            <6> QED
              BY <6>1
          <5>3. queue[q] # "ACTIVE"
            <6>1. CASE q < r
              BY <6>1, <4>1, <1>3 DEF QueueInv, SessionOrder
            <6>2. CASE r < q
              BY <6>2, <4>1, <3>1, <1>3 DEF QueueInv, SessionOrder
            <6>3. r \in Nat
              BY DEF Request
            <6> QED
              BY <6>1, <6>2, <6>3, <3>1, <4>3
          <5> QED
            BY <5>1, <5>2, <5>3, <4>3, <2>4, <2>13, <3>1, <3>2 DEF QueueType
        <4> QED
          BY <4>2, <4>3
      <3>3. CASE x # n
        <4>1. queue[x] \in {"ACTIVE", "COMPLETED"}
          BY <3>3, <2>4, <2>13, <1>3
        <4>2. queue[q] = "COMPLETED"
          BY <4>1, <2>13, <3>1 DEF QueueInv, SessionOrder
        <4> QED
          BY <4>2, <3>1, <2>3, <2>4, <1>3
      <3> QED
        BY <3>2, <3>3
    <2>14. SessionOrder'
      BY <2>13 DEF SessionOrder, SameSession
    <2> QED
      BY <1>3, <2>3, <2>4, <2>9, <2>10, <2>11, <2>12, <2>14 DEF QueueInv, SameSession
  <1> QED
    BY <1>1, <1>2, <1>3

-----------------------------------------------------------------------------
(* The parts of the invariant, and what keeps them.                         *)

Snapshot ==
    [request : STATE_VALUES.request \cup {"NONE"}, execution : STATE_VALUES.execution \cup {"NONE"},
     delivery : STATE_VALUES.delivery \cup {"NONE"}]
AllPc == {"loop"} \cup ProcessPc \cup DispatchPc \cup UnhandledPc

TableType ==
    /\ gen \in [Request -> Generation] /\ sm \in [Request -> Snapshot]
    /\ effect \in [Request -> EffectState] /\ outbox \in [Request -> Outbox]
    /\ intents \in Seq(Request) /\ results \in Seq(Request)
    /\ capsules \subseteq Request /\ epoch \in Epoch /\ cancelling \subseteq Request
    /\ platform \in [Request -> [sends : Nat, accepted : Accepted]]
WorkerType ==
    /\ w \in [pc : AllPc, r : 0 .. NRequests, fresh : BOOLEAN]
    /\ w.pc # "loop" => w.r \in Request

(* The invariant by its parts. *)
LEMMA Parts ==
    /\ IInv => /\ QueueType /\ TableType /\ WorkerType /\ QueueInv
               /\ HeadsInv /\ IntentsInv /\ ResultsInv
               /\ (\A r \in Request : RequestInv(r)) /\ WorkerInv
    /\ (/\ QueueType /\ TableType /\ WorkerType /\ QueueInv
        /\ HeadsInv /\ IntentsInv /\ ResultsInv
        /\ (\A r \in Request : RequestInv(r)) /\ WorkerInv) => IInv
  BY DEF IInv, TypeOK, QueueType, TableType, WorkerType, ListInv, Snapshot, AllPc

(* The same after a step. *)
LEMMA PartsAfter ==
    (/\ QueueType' /\ TableType' /\ WorkerType' /\ QueueInv'
     /\ HeadsInv' /\ IntentsInv' /\ ResultsInv'
     /\ (\A r \in Request : RequestInv(r)') /\ WorkerInv') => IInv'
  BY DEF IInv, TypeOK, QueueType, TableType, WorkerType, ListInv, Snapshot, AllPc

(* The numbers that a request stands for. *)
LEMMA RequestRange ==
    Request \subseteq 0 .. NRequests /\ \A r \in Request : r \in Nat
  BY GatewayAssumption DEF Request

(* How the queue entry of a request may move. *)
QueueMove(q) ==
    \/ queue'[q] = queue[q]
    \/ queue[q] = "NONE"
    \/ queue[q] = "QUEUED" /\ queue'[q] = "ACTIVE"
    \/ queue[q] = "ACTIVE" /\ queue'[q] = "COMPLETED"

(* How the generation of a request may move while its snapshots stay. *)
GenerationMove(q) ==
    \/ gen'[q].status = gen[q].status
    \/ gen[q].status = "ACTIVE" /\ gen'[q].status = "CANCELLED"
    \/ /\ gen[q].status = "ACTIVE" /\ gen'[q].status = "RELEASED"
       /\ Settled(q) /\ queue'[q] = "COMPLETED" /\ (HasOutbox(q) => outbox[q].finalized)

(* A request whose rows stay is kept by every move of its queue entry and of *)
(* its generation.                                                           *)
LEMMA RequestFrame ==
    ASSUME NEW q \in Request, RequestInv(q), outbox'[q] = outbox[q], sm'[q] = sm[q],
           platform'[q] = platform[q], QueueMove(q), GenerationMove(q)
    PROVE  RequestInv(q)'
  <1>1. OutboxInv(q)'
    BY DEF RequestInv, OutboxInv, HasOutbox
  <1>2. VerdictInv(q)'
    BY DEF RequestInv, VerdictInv, HasOutbox, Settled
  <1>3. GenerationInv(q)'
    BY DEF RequestInv, GenerationInv, HasOutbox, Settled, QueueMove, GenerationMove
  <1> QED
    BY <1>1, <1>2, <1>3 DEF RequestInv

(* A step that leaves the outbox, the snapshots and the channel alone. *)
LEMMA NeutralKeeps ==
    ASSUME IInv,
           outbox' = outbox, sm' = sm, platform' = platform, intents' = intents, results' = results,
           QueueType', QueueInv', HeadsInv', TableType', WorkerType', WorkerInv',
           \A q \in Request : QueueMove(q) /\ GenerationMove(q)
    PROVE  IInv'
  <1>1. IntentsInv /\ ResultsInv /\ \A q \in Request : RequestInv(q)
    BY Parts
  <1>2. IntentsInv' /\ ResultsInv'
    BY <1>1 DEF IntentsInv, ResultsInv, Once, Waits, Answered
  <1>3. \A q \in Request : RequestInv(q)'
    BY <1>1, RequestFrame
  <1> QED
    BY <1>2, <1>3, PartsAfter

(* A step that leaves the session queue alone. *)
LEMMA QueueStays ==
    ASSUME IInv, queue' = queue, heads' = heads
    PROVE  QueueType' /\ QueueInv' /\ HeadsInv' /\ \A q \in Request : QueueMove(q)
  BY Parts DEF QueueType, QueueInv, HeadsInv, Once, SessionOrder, SameSession, QueueMove

(* A step that only advances a machine of one request. *)
LEMMA SnapshotKeeps ==
    ASSUME IInv, NEW r \in Request, queue' = queue, heads' = heads, gen' = gen, effect' = effect,
           outbox' = outbox, intents' = intents, results' = results, capsules' = capsules,
           epoch' = epoch, cancelling' = cancelling, platform' = platform,
           sm' \in [Request -> Snapshot], \A q \in Request : q # r => sm'[q] = sm[q],
           RequestInv(r)', WorkerType', WorkerInv'
    PROVE  IInv'
  <1>1. /\ IntentsInv /\ ResultsInv /\ TableType /\ \A q \in Request : RequestInv(q)
    BY Parts
  <1>2. IntentsInv' /\ ResultsInv'
    BY <1>1 DEF IntentsInv, ResultsInv, Once, Waits, Answered
  <1>3. ASSUME NEW q \in Request, q # r PROVE RequestInv(q)'
    BY <1>1, <1>3, RequestFrame DEF QueueMove, GenerationMove
  <1>4. TableType'
    BY <1>1 DEF TableType
  <1> QED
    BY <1>2, <1>3, <1>4, QueueStays, PartsAfter

(* A step that only writes the outbox row of one request. *)
LEMMA OutboxKeeps ==
    ASSUME IInv, NEW r \in Request, queue' = queue, heads' = heads, gen' = gen, effect' = effect,
           sm' = sm, capsules' = capsules, epoch' = epoch, cancelling' = cancelling,
           platform' = platform, outbox' \in [Request -> Outbox],
           \A q \in Request : q # r => outbox'[q] = outbox[q],
           intents' \in Seq(Request), results' \in Seq(Request), IntentsInv', ResultsInv',
           RequestInv(r)', WorkerType', WorkerInv'
    PROVE  IInv'
  <1>1. TableType /\ \A q \in Request : RequestInv(q)
    BY Parts
  <1>3. ASSUME NEW q \in Request, q # r PROVE RequestInv(q)'
    BY <1>1, <1>3, RequestFrame DEF QueueMove, GenerationMove
  <1>4. TableType'
    BY <1>1 DEF TableType
  <1> QED
    BY <1>3, <1>4, QueueStays, PartsAfter

-----------------------------------------------------------------------------
(* The worker.                                                              *)

(* The worker is where it was, and what it relies on did not change. *)
LEMMA WorkerStays ==
    ASSUME IInv, w' = w,
           w.pc # "loop" =>
             /\ outbox'[w.r] = outbox[w.r] /\ sm'[w.r] = sm[w.r] /\ platform'[w.r] = platform[w.r]
             /\ gen[w.r].status # "NONE" => gen'[w.r].status # "NONE"
             /\ queue[w.r] = "COMPLETED" => queue'[w.r] = "COMPLETED"
    PROVE  WorkerType' /\ WorkerInv'
  <1>1. WorkerType'
    BY Parts DEF WorkerType
  <1>2. WorkerInv'
    BY Parts DEF WorkerInv, Answered, HasOutbox, Settled
  <1> QED
    BY <1>1, <1>2

(* The worker goes back to its loop. *)
LEMMA WorkerLoops ==
    ASSUME w' = Loop
    PROVE  WorkerType' /\ WorkerInv'
  BY GatewayAssumption DEF Loop, WorkerType, WorkerInv, AllPc

(* The worker goes on with its request. *)
LEMMA GotoType ==
    ASSUME WorkerType, w.pc # "loop", NEW pc \in AllPc, Goto(pc)
    PROVE  WorkerType' /\ w'.pc = pc /\ w'.r = w.r /\ w'.fresh = w.fresh
  BY DEF WorkerType, Goto

(* The worker's turn raises: what is left of it needs only the generation. *)
LEMMA RaiseKeeps ==
    ASSUME IInv, w.pc # "loop", Raise, gen'[w.r].status # "NONE"
    PROVE  WorkerType' /\ WorkerInv'
  <1>0. WorkerType
    BY Parts
  <1>1. CASE w.fresh
    <2>1. w' = [w EXCEPT !.pc = "unhandled", !.fresh = FALSE]
      BY <1>1 DEF Raise
    <2>2. w'.pc = "unhandled" /\ w'.r = w.r /\ w' \in [pc : AllPc, r : 0 .. NRequests, fresh : BOOLEAN]
      BY <2>1, <1>0 DEF WorkerType, AllPc, UnhandledPc
    <2>3. WorkerType'
      BY <2>2, <1>0 DEF WorkerType
    <2>4. WorkerInv'
      BY <2>2 DEF WorkerInv, ProcessPc, ClosingPc, DesktopPc, FinalPc, DecidedPc
    <2> QED
      BY <2>3, <2>4
  <1>2. CASE ~ w.fresh
    BY <1>2, WorkerLoops DEF Raise
  <1> QED
    BY <1>1, <1>2

-----------------------------------------------------------------------------
(* A turn of the loop.                                                      *)

(* What each of the six queries has selected. *)
LEMMA TurnFacts ==
    ASSUME IInv, NEW r \in Request
    PROVE  /\ Turn(1, r) => queue[r] = "ACTIVE" /\ gen[r].status # "NONE" /\ Settled(r)
           /\ Turn(2, r) => queue[r] = "ACTIVE" /\ gen[r].status = "CANCELLED"
           /\ Turn(3, r) => Recoverable(r) /\ ~ Settled(r)
           /\ Turn(4, r) => Answered(outbox[r]) /\ ~ outbox[r].finalized
           /\ Turn(5, r) => \/ outbox[r].state = "PENDING"
                            \/ outbox[r].state = "CLAIMED" /\ outbox[r].expired
           /\ Turn(6, r) => queue[r] = "ACTIVE" /\ gen[r].status = "NONE"
  <1>0. HeadsInv /\ IntentsInv /\ ResultsInv
    BY Parts
  <1>1. Turn(1, r) => queue[r] = "ACTIVE" /\ gen[r].status # "NONE" /\ Settled(r)
    <2>1. Turn(1, r) => \E i \in TerminalHeads : r = heads[i]
      BY DEF Turn, Work, List
    <2> QED
      BY <1>0, <2>1 DEF TerminalHeads, HeadsInv
  <1>2. Turn(2, r) => queue[r] = "ACTIVE" /\ gen[r].status = "CANCELLED"
    <2>1. Turn(2, r) => \E i \in CancelledHeads : r = heads[i]
      BY DEF Turn, Work, List
    <2> QED
      BY <1>0, <2>1 DEF CancelledHeads, HeadsInv
  <1>3. Turn(3, r) => Recoverable(r) /\ ~ Settled(r)
    <2>1. Turn(3, r) => \E i \in RecoverableHeads : r = heads[i]
      BY DEF Turn, Work, List
    <2> QED
      BY <2>1 DEF RecoverableHeads
  <1>4. Turn(4, r) => Answered(outbox[r]) /\ ~ outbox[r].finalized
    <2>1. Turn(4, r) => \E i \in DOMAIN results : r = results[i]
      BY DEF Turn, Work, List
    <2> QED
      BY <1>0, <2>1 DEF ResultsInv
  <1>5. Turn(5, r) => \/ outbox[r].state = "PENDING"
                      \/ outbox[r].state = "CLAIMED" /\ outbox[r].expired
    <2>1. Turn(5, r) => \E i \in Dispatchable : r = intents[i]
      BY DEF Turn, Work, List
    <2> QED
      BY <2>1 DEF Dispatchable
  <1>6. Turn(6, r) => queue[r] = "ACTIVE" /\ gen[r].status = "NONE"
    <2>1. Turn(6, r) => \E i \in Unclaimed : r = heads[i]
      BY DEF Turn, Work, List
    <2> QED
      BY <1>0, <2>1 DEF Unclaimed, HeadsInv
  <1> QED
    BY <1>1, <1>2, <1>3, <1>4, <1>5, <1>6

(* Only the queue moves. *)
LEMMA QueueOnly ==
    ASSUME IInv, QueueType', QueueInv', HeadsInv', \A q \in Request : QueueMove(q),
           gen' = gen, sm' = sm, effect' = effect, outbox' = outbox, intents' = intents,
           results' = results, capsules' = capsules, epoch' = epoch, w' = w,
           cancelling' \subseteq Request, platform' = platform
    PROVE  IInv'
  <1>1. TableType'
    BY Parts DEF TableType
  <1>2. \A q \in Request : GenerationMove(q)
    BY DEF GenerationMove
  <1>3. w.pc # "loop" => w.r \in Request
    BY Parts DEF WorkerType
  <1>4. WorkerType' /\ WorkerInv'
    BY <1>3, WorkerStays DEF QueueMove
  <1> QED
    BY <1>1, <1>2, <1>4, NeutralKeeps

(* A new request enters the queue of its session. *)
LEMMA RegisterKeeps ==
    ASSUME IInv, NEW r \in Request, Register(r)
    PROVE  IInv'
  <1>1. QueueType /\ QueueInv /\ HeadsInv
    BY Parts
  <1>2. /\ QueueType' /\ QueueInv' /\ HeadsInv'
        /\ \A q \in Request : queue'[q] = queue[q] \/ queue[q] = "NONE"
    BY <1>1, RegisterQueue
  <1>3. cancelling' \subseteq Request
    BY Parts DEF TableType, Register
  <1> QED
    BY <1>2, <1>3, QueueOnly DEF QueueMove, Register

(* Completing a session entry, as the moves it makes. *)
LEMMA CompleteMoves ==
    ASSUME IInv, NEW r \in Request, CompleteSession(r)
    PROVE  /\ QueueType' /\ QueueInv' /\ HeadsInv' /\ \A q \in Request : QueueMove(q)
           /\ queue[r] \in {"ACTIVE", "COMPLETED"} => queue'[r] = "COMPLETED"
  <1>1. QueueType /\ QueueInv /\ HeadsInv
    BY Parts
  <1> QED
    BY <1>1, CompleteQueue DEF QueueMove

(* A stranded head is retired by the loop, a cancelled one by the control    *)
(* thread.                                                                   *)
LEMMA RetireKeeps ==
    ASSUME IInv, NEW r \in Request,
           RetireTerminal(r) \/ RetireCancelled(r) \/ CancelRetire(r)
    PROVE  IInv'
  <1>1. /\ CompleteSession(r) /\ gen' = gen /\ sm' = sm /\ effect' = effect /\ outbox' = outbox
        /\ intents' = intents /\ results' = results /\ capsules' = capsules /\ epoch' = epoch
        /\ w' = w /\ platform' = platform
    BY DEF RetireTerminal, RetireCancelled, RetireStranded, CancelRetire
  <1>2. cancelling' \subseteq Request
    BY Parts DEF TableType, RetireTerminal, RetireCancelled, RetireStranded, CancelRetire
  <1> QED
    BY <1>1, <1>2, CompleteMoves, QueueOnly

(* Revisions stay within their bound. *)
LEMMA BumpType ==
    ASSUME NEW n \in 0 .. MaxRevision
    PROVE  Bump(n) \in 0 .. MaxRevision
  BY DEF Bump, MaxRevision

(* The types of the writes to the generation table. *)
LEMMA GenerationTypes ==
    ASSUME TableType, NEW r \in Request
    PROVE  /\ [gen EXCEPT ![r].status = "CANCELLED", ![r].revision = Bump(@)] \in [Request -> Generation]
           /\ [gen EXCEPT ![r].status = "RELEASED", ![r].revision = Bump(@)] \in [Request -> Generation]
           /\ [gen EXCEPT ![r].expired = TRUE] \in [Request -> Generation]
           /\ [gen EXCEPT ![r].revision = Bump(@)] \in [Request -> Generation]
           /\ [gen EXCEPT ![r].epoch = epoch, ![r].expired = FALSE, ![r].revision = Bump(@)]
                \in [Request -> Generation]
  <1>1. gen[r] \in Generation /\ Bump(gen[r].revision) \in 0 .. MaxRevision /\ epoch \in 0 .. MaxEpoch
    BY BumpType, GatewayAssumption DEF TableType, Generation, Epoch
  <1> QED
    BY <1>1 DEF TableType, Generation

(* Only generations move, and none is released or created. *)
LEMMA GenerationOnly ==
    ASSUME IInv, queue' = queue, heads' = heads, sm' = sm, effect' = effect, outbox' = outbox,
           intents' = intents, results' = results, capsules' = capsules, epoch' = epoch,
           cancelling' \subseteq Request, platform' = platform,
           gen' \in [Request -> Generation],
           \A q \in Request : \/ gen'[q].status = gen[q].status
                              \/ gen[q].status = "ACTIVE" /\ gen'[q].status = "CANCELLED",
           WorkerType', WorkerInv'
    PROVE  IInv'
  <1>1. TableType'
    BY Parts DEF TableType
  <1>2. \A q \in Request : GenerationMove(q)
    BY DEF GenerationMove
  <1> QED
    BY <1>1, <1>2, QueueStays, NeutralKeeps

(* Cancellation, the fence's expiry and the heartbeat write one generation.  *)
LEMMA FenceKeeps ==
    ASSUME IInv,
           \/ Heartbeat
           \/ \E r \in Request : CancelGeneration(r) \/ ExpireFence(r)
    PROVE  IInv'
  <1>1. TableType /\ WorkerType
    BY Parts
  <1>2. PICK r \in Request :
          \/ gen' = [gen EXCEPT ![r].revision = Bump(@)]
          \/ gen' = [gen EXCEPT ![r].expired = TRUE]
          \/ gen[r].status = "ACTIVE" /\ gen' = [gen EXCEPT ![r].status = "CANCELLED", ![r].revision = Bump(@)]
    <2>1. CASE Heartbeat
      BY <2>1, <1>1 DEF Heartbeat, WorkerType, ProcessPc
    <2>2. CASE \E r \in Request : CancelGeneration(r) \/ ExpireFence(r)
      BY <2>2 DEF CancelGeneration, ExpireFence
    <2> QED
      BY <2>1, <2>2
  <1>3. /\ queue' = queue /\ heads' = heads /\ sm' = sm /\ effect' = effect /\ outbox' = outbox
        /\ intents' = intents /\ results' = results /\ capsules' = capsules /\ epoch' = epoch
        /\ platform' = platform /\ w' = w /\ cancelling' \subseteq Request
    BY <1>1 DEF Heartbeat, CancelGeneration, ExpireFence, TableType
  <1>4. /\ gen' \in [Request -> Generation]
        /\ \A q \in Request : \/ gen'[q].status = gen[q].status
                              \/ gen[q].status = "ACTIVE" /\ gen'[q].status = "CANCELLED"
    <2>1. gen \in [Request -> Generation] /\ gen[r] \in Generation
      BY <1>1 DEF TableType
    <2>2. CASE gen' = [gen EXCEPT ![r].revision = Bump(@)]
      <3>1. gen' \in [Request -> Generation]
        BY <1>1, <2>2, GenerationTypes
      <3> QED
        BY <3>1, <2>1, <2>2 DEF Generation
    <2>3. CASE gen' = [gen EXCEPT ![r].expired = TRUE]
      <3>1. gen' \in [Request -> Generation]
        BY <1>1, <2>3, GenerationTypes
      <3> QED
        BY <3>1, <2>1, <2>3 DEF Generation
    <2>4. CASE gen[r].status = "ACTIVE" /\ gen' = [gen EXCEPT ![r].status = "CANCELLED", ![r].revision = Bump(@)]
      <3>1. gen' \in [Request -> Generation]
        BY <1>1, <2>4, GenerationTypes
      <3> QED
        BY <3>1, <2>1, <2>4 DEF Generation
    <2> QED
      BY <1>2, <2>2, <2>3, <2>4
  <1>6. WorkerType' /\ WorkerInv'
    BY <1>1, <1>3, <1>4, WorkerStays DEF WorkerType
  <1> QED
    BY <1>3, <1>4, <1>6, GenerationOnly

(* The process dies and starts again. *)
LEMMA RestartKeeps ==
    ASSUME IInv, Restart
    PROVE  IInv'
  <1>1. TableType'
    <2>1. epoch' \in Epoch
      BY Parts, GatewayAssumption DEF Restart, TableType, Epoch
    <2>2. effect' \in [Request -> EffectState]
      BY Parts DEF Restart, TableType, EffectState
    <2> QED
      BY <2>1, <2>2, Parts DEF Restart, TableType
  <1>2. WorkerType' /\ WorkerInv'
    BY WorkerLoops DEF Restart
  <1>3. \A q \in Request : GenerationMove(q)
    BY DEF GenerationMove, Restart
  <1> QED
    BY <1>1, <1>2, <1>3, QueueStays, NeutralKeeps DEF Restart

-----------------------------------------------------------------------------
(* Steps that move the worker and leave the outbox, the snapshots and the   *)
(* channel alone.                                                           *)

(* The worker takes up a request. *)
LEMMA ServeType ==
    ASSUME NEW r \in Request, NEW pc \in AllPc, Serve(pc, r)
    PROVE  WorkerType' /\ w'.pc = pc /\ w'.r = r
  BY RequestRange DEF Serve, WorkerType

(* Only the worker, the execution effect or the capsules move. *)
LEMMA LocalOnly ==
    ASSUME IInv, queue' = queue, heads' = heads, gen' = gen, sm' = sm, outbox' = outbox,
           intents' = intents, results' = results, epoch' = epoch, cancelling' = cancelling,
           platform' = platform, effect' \in [Request -> EffectState], capsules' \subseteq Request,
           WorkerType', WorkerInv'
    PROVE  IInv'
  <1>1. TableType'
    BY Parts DEF TableType
  <1>2. \A q \in Request : GenerationMove(q)
    BY DEF GenerationMove
  <1> QED
    BY <1>1, <1>2, QueueStays, NeutralKeeps

(* A waiting result, or an orphaned claim, is taken up. *)
LEMMA TakeUpKeeps ==
    ASSUME IInv, NEW r \in Request, FinalizeNext(r) \/ OrphanNext(r)
    PROVE  IInv'
  <1>1. /\ queue' = queue /\ heads' = heads /\ gen' = gen /\ sm' = sm /\ outbox' = outbox
        /\ intents' = intents /\ results' = results /\ epoch' = epoch /\ cancelling' = cancelling
        /\ platform' = platform /\ effect' = effect /\ capsules' = capsules
    BY DEF FinalizeNext, OrphanNext, durable
  <1>2. TableType /\ RequestInv(r)
    BY Parts
  <1>3. gen[r].status # "NONE" \/ ~ HasOutbox(r)
    BY <1>2 DEF RequestInv, GenerationInv
  <1>4. WorkerType' /\ WorkerInv'
    <2>1. CASE FinalizeNext(r)
      <3>1. Answered(outbox[r]) /\ ~ outbox[r].finalized
        BY <2>1, TurnFacts DEF FinalizeNext
      <3>2. WorkerType' /\ w'.pc = "finalize" /\ w'.r = r
        BY <2>1, ServeType DEF FinalizeNext, AllPc, DispatchPc
      <3> QED
        BY <1>1, <1>3, <3>1, <3>2
        DEF WorkerInv, Answered, HasOutbox, ProcessPc, ClosingPc, DesktopPc, FinalPc, DecidedPc
    <2>2. CASE OrphanNext(r)
      <3>1. outbox[r].state = "CLAIMED" /\ outbox[r].boundary # 0 /\ outbox[r].expired
        BY <2>2, TurnFacts DEF OrphanNext
      <3>2. WorkerType' /\ w'.pc = "orphan" /\ w'.r = r
        BY <2>2, ServeType DEF OrphanNext, AllPc, DispatchPc
      <3> QED
        BY <1>1, <1>3, <3>1, <3>2
        DEF WorkerInv, HasOutbox, ProcessPc, ClosingPc, DesktopPc, FinalPc, DecidedPc
    <2> QED
      BY <2>1, <2>2
  <1> QED
    BY <1>1, <1>2, <1>4, LocalOnly DEF TableType

(* recover_next takes the lease over and serves a request without an intent. *)
LEMMA RecoverKeeps ==
    ASSUME IInv, NEW r \in Request, RecoverNext(r)
    PROVE  IInv'
  <1>1. /\ queue' = queue /\ heads' = heads /\ sm' = sm /\ outbox' = outbox
        /\ intents' = intents /\ results' = results /\ epoch' = epoch /\ cancelling' = cancelling
        /\ platform' = platform /\ effect' = effect /\ capsules' = capsules
    BY DEF RecoverNext
  <1>2. TableType /\ cancelling \subseteq Request
    BY Parts DEF TableType
  <1>3. gen[r].status = "ACTIVE" /\ ~ Settled(r) /\ w.pc = "loop"
    BY TurnFacts DEF RecoverNext, Recoverable, Turn, At
  <1>4. gen' = [gen EXCEPT ![r].epoch = epoch, ![r].expired = FALSE, ![r].revision = Bump(@)]
    BY DEF RecoverNext, Takeover
  <1>5. gen' \in [Request -> Generation]
    BY <1>2, <1>4, GenerationTypes
  <1>6. \A q \in Request : gen'[q].status = gen[q].status
    BY <1>2, <1>4, <1>5 DEF TableType, Generation
  <1>7. WorkerType' /\ WorkerInv'
    <2>1. CASE HasOutbox(r)
      <3>1. w' = w
        BY <2>1 DEF RecoverNext
      <3> QED
        BY <3>1, <1>3, WorkerStays
    <2>2. CASE ~ HasOutbox(r)
      <3>1. PICK pc \in {"init_execution", "unhandled"} : Serve(pc, r)
        BY <2>2 DEF RecoverNext
      <3>2. WorkerType' /\ w'.pc = pc /\ w'.r = r
        BY <3>1, ServeType DEF AllPc, ProcessPc, UnhandledPc
      <3> QED
        BY <1>1, <1>3, <1>6, <2>2, <3>1, <3>2
        DEF WorkerInv, HasOutbox, Settled, ProcessPc, ClosingPc, DesktopPc, FinalPc, DecidedPc
    <2> QED
      BY <2>1, <2>2
  <1> QED
    BY <1>1, <1>2, <1>5, <1>6, <1>7, GenerationOnly

(* The worker's own steps that raise without changing what it relies on. *)
LEMMA StepRaises ==
    ASSUME IInv, w.pc # "loop", Raise, gen' = gen
    PROVE  WorkerType' /\ WorkerInv'
  <1>1. gen[w.r].status # "NONE"
    BY Parts DEF WorkerInv
  <1> QED
    BY <1>1, RaiseKeeps

(* The program points of the execution, where the request is open and has no *)
(* intent.                                                                   *)
ExecutionPc ==
    {"init_execution", "init_delivery", "planning", "plan_execution", "claim_effect",
     "ticket_execution", "claim_execution", "executing", "start_effect", "running",
     "await_backend", "exec_succeeded", "exec_failed", "exec_ambiguous",
     "exec_reconcile", "fail_request", "handover"}

(* What the worker relies on there. *)
LEMMA ExecutionInv ==
    ASSUME IInv, w.pc \in ExecutionPc
    PROVE  /\ w.pc # "loop" /\ w.r \in Request /\ gen[w.r].status # "NONE"
           /\ ~ HasOutbox(w.r) /\ ~ Settled(w.r)
  <1>1. WorkerType /\ WorkerInv
    BY Parts
  <1> QED
    BY <1>1 DEF WorkerType, WorkerInv, ProcessPc, ExecutionPc

(* The worker reaches such a point. *)
LEMMA ToExecution ==
    ASSUME IInv, w.pc # "loop", NEW pc \in ExecutionPc, Goto(pc), gen'[w.r].status # "NONE",
           outbox'[w.r].state = "NONE", ~ IsTerminal("request", sm'[w.r].request)
    PROVE  WorkerType' /\ WorkerInv'
  <1>1. WorkerType /\ pc \in AllPc
    BY Parts DEF AllPc, ProcessPc, ExecutionPc
  <1>2. WorkerType' /\ w'.pc = pc /\ w'.r = w.r
    BY <1>1, GotoType
  <1>3. WorkerInv'
    BY <1>2 DEF WorkerInv, HasOutbox, Settled, ExecutionPc, ProcessPc, ClosingPc, DesktopPc, FinalPc, DecidedPc
  <1> QED
    BY <1>2, <1>3

(* claim_effect, mark_effect_started, complete_effect and a refused plan. *)
LEMMA EffectKeeps ==
    ASSUME IInv,
           \/ ClaimEffect \/ StartEffect \/ RejectPlan
           \/ \E status \in {"SUCCEEDED", "FAILED_FINAL", "AMBIGUOUS"} : CompleteEffect(status)
    PROVE  IInv'
  <1>1. /\ queue' = queue /\ heads' = heads /\ gen' = gen /\ sm' = sm /\ outbox' = outbox
        /\ intents' = intents /\ results' = results /\ epoch' = epoch /\ cancelling' = cancelling
        /\ platform' = platform /\ capsules' = capsules
    BY DEF ClaimEffect, StartEffect, RejectPlan, CompleteEffect
  <1>2. w.pc \in ExecutionPc
    BY DEF ClaimEffect, StartEffect, RejectPlan, CompleteEffect, At, ExecutionPc
  <1>3. effect' \in [Request -> EffectState] /\ capsules' \subseteq Request
    BY <1>1, Parts DEF TableType, EffectState, ClaimEffect, StartEffect, RejectPlan, CompleteEffect
  <1>4. Raise \/ \E pc \in ExecutionPc : Goto(pc)
    <2>1. CASE \E status \in {"SUCCEEDED", "FAILED_FINAL", "AMBIGUOUS"} : CompleteEffect(status)
      BY <2>1 DEF CompleteEffect, ExecutionPc
    <2>2. CASE ClaimEffect \/ StartEffect \/ RejectPlan
      BY <2>2 DEF ClaimEffect, StartEffect, RejectPlan, ExecutionPc
    <2> QED
      BY <2>1, <2>2
  <1>5. WorkerType' /\ WorkerInv'
    <2>1. CASE Raise
      BY <2>1, <1>1, <1>2, ExecutionInv, StepRaises
    <2>2. CASE \E pc \in ExecutionPc : Goto(pc)
      BY <2>2, <1>1, <1>2, ExecutionInv, ToExecution DEF HasOutbox, Settled
    <2> QED
      BY <1>4, <2>1, <2>2
  <1> QED
    BY <1>1, <1>3, <1>5, LocalOnly

(* What fails in _process, and the handover to the desktop. *)
LEMMA HandoverKeeps ==
    ASSUME IInv, ProcessFails \/ ArtifactsFail \/ DesktopHandover
    PROVE  IInv'
  <1>1. /\ queue' = queue /\ heads' = heads /\ gen' = gen /\ sm' = sm /\ outbox' = outbox
        /\ intents' = intents /\ results' = results /\ epoch' = epoch /\ cancelling' = cancelling
        /\ platform' = platform /\ effect' = effect /\ capsules' = capsules
    BY DEF ProcessFails, ArtifactsFail, DesktopHandover, durable
  <1>2. w.pc \in ExecutionPc
    BY DEF ProcessFails, ArtifactsFail, DesktopHandover, At, ExecutionPc
  <1>3. WorkerType' /\ WorkerInv'
    <2>1. CASE ProcessFails
      BY <2>1, <1>1, <1>2, ExecutionInv, StepRaises DEF ProcessFails
    <2>2. CASE ArtifactsFail
      <3>1. Goto("fail_request") /\ "fail_request" \in ExecutionPc
        BY <2>2 DEF ArtifactsFail, ExecutionPc
      <3> QED
        BY <3>1, <1>1, <1>2, ExecutionInv, ToExecution DEF HasOutbox, Settled
    <2>3. CASE DesktopHandover
      <3>1. WorkerType /\ w.r \in Desktop
        BY <2>3, Parts DEF DesktopHandover
      <3>2. WorkerType' /\ w'.pc = "desktop_plan" /\ w'.r = w.r
        BY <2>3, <3>1, <1>2, ExecutionInv, GotoType DEF DesktopHandover, AllPc, ProcessPc
      <3> QED
        BY <3>1, <3>2, <1>1, <1>2, ExecutionInv
        DEF WorkerInv, HasOutbox, Settled, ProcessPc, ClosingPc, DesktopPc, FinalPc, DecidedPc
    <2> QED
      BY <2>1, <2>2, <2>3
  <1> QED
    BY <1>1, <1>3, Parts, LocalOnly DEF TableType

(* The terminal capsule is written, and then the request settled. *)
LEMMA PersistKeeps ==
    ASSUME IInv, DesktopPersist \/ ChannelPersist
    PROVE  IInv'
  <1>0. TableType /\ WorkerType /\ WorkerInv
    BY Parts
  <1>1. /\ queue' = queue /\ heads' = heads /\ gen' = gen /\ sm' = sm /\ outbox' = outbox
        /\ intents' = intents /\ results' = results /\ epoch' = epoch /\ cancelling' = cancelling
        /\ platform' = platform /\ effect' = effect /\ capsules' = capsules \cup {w.r}
    BY DEF DesktopPersist, ChannelPersist, PersistResult
  <1>2. /\ w.pc # "loop" /\ w.r \in Request
    BY <1>0 DEF DesktopPersist, ChannelPersist, PersistResult, At, WorkerType
  <1>3. WorkerType' /\ WorkerInv'
    <2>1. CASE DesktopPersist
      <3>1. w.pc = "persist_result" /\ Goto("desktop_complete")
        BY <2>1 DEF DesktopPersist, PersistResult, At
      <3>2. WorkerType' /\ w'.pc = "desktop_complete" /\ w'.r = w.r
        BY <3>1, <1>0, <1>2, GotoType DEF AllPc, ProcessPc
      <3> QED
        BY <3>1, <3>2, <1>0, <1>1
        DEF WorkerInv, HasOutbox, Settled, ProcessPc, ClosingPc, DesktopPc, FinalPc, DecidedPc
    <2>2. CASE ChannelPersist
      <3>1. w.pc = "persist" /\ Goto("settle_request")
        BY <2>2 DEF ChannelPersist, PersistResult, At
      <3>2. WorkerType' /\ w'.pc = "settle_request" /\ w'.r = w.r
        BY <3>1, <1>0, <1>2, GotoType DEF AllPc, DispatchPc
      <3> QED
        BY <3>1, <3>2, <1>0, <1>1
        DEF WorkerInv, HasOutbox, Settled, Answered, ProcessPc, ClosingPc, DesktopPc, FinalPc, DecidedPc
    <2> QED
      BY <2>1, <2>2
  <1> QED
    BY <1>0, <1>1, <1>2, <1>3, LocalOnly DEF TableType

(* The delivery boundary renews the lease or takes it over. *)
LEMMA ChannelHandoverKeeps ==
    ASSUME IInv, ChannelHandover
    PROVE  IInv'
  <1>0. TableType /\ WorkerType /\ WorkerInv
    BY Parts
  <1>1. /\ queue' = queue /\ heads' = heads /\ sm' = sm /\ outbox' = outbox
        /\ intents' = intents /\ results' = results /\ epoch' = epoch /\ cancelling' = cancelling
        /\ platform' = platform /\ effect' = effect /\ capsules' = capsules
        /\ cancelling' \subseteq Request
    BY <1>0 DEF ChannelHandover, TableType
  <1>2. /\ w.pc \in ExecutionPc /\ w.r \notin Desktop
    BY DEF ChannelHandover, At, ExecutionPc
  <1>3. /\ w.pc # "loop" /\ w.r \in Request /\ gen[w.r].status # "NONE"
        /\ ~ HasOutbox(w.r) /\ ~ Settled(w.r)
    BY <1>2, ExecutionInv
  <1>4. \/ gen' = gen /\ Raise
        \/ gen' = [gen EXCEPT ![w.r].revision = Bump(@)] /\ Goto("plan_delivery")
        \/ /\ gen' = [gen EXCEPT ![w.r].epoch = epoch, ![w.r].expired = FALSE, ![w.r].revision = Bump(@)]
           /\ Goto("plan_delivery")
    BY DEF ChannelHandover, Takeover
  <1>5. /\ gen' \in [Request -> Generation]
        /\ \A q \in Request : gen'[q].status = gen[q].status
    <2>1. gen \in [Request -> Generation] /\ gen[w.r] \in Generation
      BY <1>0, <1>3 DEF TableType
    <2>2. CASE gen' = gen
      BY <2>1, <2>2
    <2>3. CASE gen' = [gen EXCEPT ![w.r].revision = Bump(@)]
      <3>1. gen' \in [Request -> Generation]
        BY <1>0, <1>3, <2>3, GenerationTypes
      <3> QED
        BY <3>1, <2>1, <2>3 DEF Generation
    <2>4. CASE gen' = [gen EXCEPT ![w.r].epoch = epoch, ![w.r].expired = FALSE, ![w.r].revision = Bump(@)]
      <3>1. gen' \in [Request -> Generation]
        BY <1>0, <1>3, <2>4, GenerationTypes
      <3> QED
        BY <3>1, <2>1, <2>4 DEF Generation
    <2> QED
      BY <1>4, <2>2, <2>3, <2>4
  <1>6. WorkerType' /\ WorkerInv'
    <2>1. CASE gen' = gen /\ Raise
      BY <2>1, <1>3, StepRaises
    <2>2. CASE Goto("plan_delivery")
      <3>1. WorkerType' /\ w'.pc = "plan_delivery" /\ w'.r = w.r
        BY <2>2, <1>0, <1>3, GotoType DEF AllPc, ProcessPc
      <3> QED
        BY <3>1, <1>1, <1>2, <1>3, <1>5
        DEF WorkerInv, HasOutbox, Settled, ProcessPc, ClosingPc, DesktopPc, FinalPc, DecidedPc
    <2> QED
      BY <1>4, <2>1, <2>2
  <1> QED
    BY <1>1, <1>5, <1>6, GenerationOnly

(* Releasing a generation. *)
LEMMA ReleaseMoves ==
    ASSUME TableType, NEW r \in Request, Release(r)
    PROVE  /\ gen' \in [Request -> Generation]
           /\ gen'[r].status = IF gen[r].status = "ACTIVE" THEN "RELEASED" ELSE gen[r].status
           /\ \A q \in Request : q # r => gen'[q] = gen[q]
  <1>1. gen \in [Request -> Generation] /\ gen[r] \in Generation
    BY DEF TableType
  <1>2. CASE gen[r].status = "ACTIVE"
    <2>1. gen' = [gen EXCEPT ![r].status = "RELEASED", ![r].revision = Bump(@)]
      BY <1>2 DEF Release
    <2>2. gen' \in [Request -> Generation]
      BY <2>1, GenerationTypes
    <2> QED
      BY <1>1, <1>2, <2>1, <2>2 DEF Generation
  <1>3. CASE gen[r].status # "ACTIVE"
    BY <1>1, <1>3 DEF Release
  <1> QED
    BY <1>2, <1>3

(* The worker retires the head of its request, and may release its           *)
(* generation.                                                               *)
LEMMA WorkerRetires ==
    ASSUME IInv, w.pc # "loop", CompleteSession(w.r),
           \/ gen' = gen
           \/ Release(w.r) /\ Settled(w.r) /\ ~ HasOutbox(w.r),
           sm' = sm, effect' = effect, outbox' = outbox, intents' = intents, results' = results,
           capsules' = capsules, epoch' = epoch, cancelling' = cancelling, platform' = platform,
           WorkerType', WorkerInv'
    PROVE  IInv'
  <1>0. TableType /\ WorkerType /\ WorkerInv /\ \A q \in Request : RequestInv(q)
    BY Parts
  <1>1. w.r \in Request /\ gen[w.r].status # "NONE" /\ queue[w.r] \in {"ACTIVE", "COMPLETED"}
    BY <1>0 DEF WorkerType, WorkerInv, RequestInv, GenerationInv
  <1>2. /\ QueueType' /\ QueueInv' /\ HeadsInv' /\ \A q \in Request : QueueMove(q)
        /\ queue'[w.r] = "COMPLETED"
    BY <1>1, CompleteMoves
  <1>3. gen' \in [Request -> Generation] /\ \A q \in Request : GenerationMove(q)
    <2>1. CASE gen' = gen
      BY <2>1, <1>0 DEF TableType, GenerationMove
    <2>2. CASE Release(w.r) /\ Settled(w.r) /\ ~ HasOutbox(w.r)
      BY <2>2, <1>0, <1>1, <1>2, ReleaseMoves DEF GenerationMove
    <2> QED
      BY <2>1, <2>2
  <1>4. TableType'
    BY <1>0, <1>3 DEF TableType
  <1> QED
    BY <1>2, <1>3, <1>4, NeutralKeeps

(* The steps that do so. *)
LEMMA WorkerRetireKeeps ==
    ASSUME IInv, FailSession \/ DesktopRetire \/ RetireHead \/ RetireUnhandled
    PROVE  IInv'
  <1>0. WorkerType /\ WorkerInv /\ \A q \in Request : RequestInv(q)
    BY Parts
  <1>1. /\ sm' = sm /\ effect' = effect /\ outbox' = outbox /\ intents' = intents
        /\ results' = results /\ capsules' = capsules /\ epoch' = epoch
        /\ cancelling' = cancelling /\ platform' = platform
    BY DEF FailSession, DesktopRetire, RetireHead, RetireUnhandled
  <1>2. w.pc # "loop" /\ CompleteSession(w.r)
    BY DEF FailSession, DesktopRetire, RetireHead, RetireUnhandled, At
  <1>3. CASE FailSession
    <2>1. gen' = gen /\ Raise
      BY <1>3 DEF FailSession
    <2> QED
      BY <2>1, <1>1, <1>2, StepRaises, WorkerRetires
  <1>4. CASE DesktopRetire
    <2>1. gen' = gen /\ w' = Loop
      BY <1>4 DEF DesktopRetire
    <2> QED
      BY <2>1, <1>1, <1>2, WorkerLoops, WorkerRetires
  <1>5. CASE RetireHead
    <2>1. gen' = gen /\ w.pc = "retire" /\ Goto("mark")
      BY <1>5 DEF RetireHead, At
    <2>2. WorkerType' /\ w'.pc = "mark" /\ w'.r = w.r
      BY <2>1, <1>0, <1>2, GotoType DEF AllPc, DispatchPc
    <2>3. queue'[w.r] = "COMPLETED"
      <3>1. w.r \in Request /\ queue[w.r] \in {"ACTIVE", "COMPLETED"}
        BY <1>0, <1>2 DEF WorkerType, WorkerInv, RequestInv, GenerationInv
      <3> QED
        BY <3>1, <1>2, CompleteMoves
    <2>4. WorkerInv'
      BY <2>1, <2>2, <2>3, <1>0, <1>1
      DEF WorkerInv, HasOutbox, Settled, Answered, ProcessPc, ClosingPc, DesktopPc, FinalPc, DecidedPc
    <2> QED
      BY <2>1, <2>2, <2>4, <1>1, <1>2, WorkerRetires
  <1>6. CASE RetireUnhandled
    <2>1. Release(w.r) /\ w' = Loop /\ w.pc = "unhandled_retire"
      BY <1>6 DEF RetireUnhandled, At
    <2>2. Settled(w.r) /\ ~ HasOutbox(w.r)
      BY <2>1, <1>0 DEF WorkerInv
    <2> QED
      BY <2>1, <2>2, <1>1, <1>2, WorkerLoops, WorkerRetires
  <1> QED
    BY <1>3, <1>4, <1>5, <1>6

(* The except arm looks at what is durable. *)
LEMMA FinalizeUnhandledKeeps ==
    ASSUME IInv, FinalizeUnhandled
    PROVE  IInv'
  <1>0. WorkerType /\ WorkerInv /\ TableType
    BY Parts
  <1>1. /\ sm' = sm /\ effect' = effect /\ outbox' = outbox /\ intents' = intents
        /\ results' = results /\ capsules' = capsules /\ epoch' = epoch
        /\ cancelling' = cancelling /\ platform' = platform /\ w.pc # "loop"
    BY DEF FinalizeUnhandled, At
  <1>2. CASE HasOutbox(w.r)
    <2>1. queue' = queue /\ heads' = heads /\ gen' = gen /\ w' = Loop
      BY <1>2 DEF FinalizeUnhandled
    <2> QED
      BY <2>1, <1>0, <1>1, WorkerLoops, LocalOnly DEF TableType
  <1>3. CASE ~ HasOutbox(w.r) /\ Settled(w.r)
    <2>1. CompleteSession(w.r) /\ Release(w.r) /\ w' = Loop
      BY <1>3 DEF FinalizeUnhandled
    <2> QED
      BY <2>1, <1>1, <1>3, WorkerLoops, WorkerRetires
  <1>4. CASE ~ HasOutbox(w.r) /\ ~ Settled(w.r)
    <2>1. queue' = queue /\ heads' = heads /\ gen' = gen /\ Goto("unhandled_execution")
      BY <1>4 DEF FinalizeUnhandled
    <2>2. WorkerType' /\ w'.pc = "unhandled_execution" /\ w'.r = w.r
      BY <2>1, <1>0, <1>1, GotoType DEF AllPc, UnhandledPc
    <2>3. WorkerInv'
      BY <2>1, <2>2, <1>0, <1>1, <1>4
      DEF WorkerInv, HasOutbox, Settled, ProcessPc, ClosingPc, DesktopPc, FinalPc, DecidedPc
    <2> QED
      BY <2>1, <2>2, <2>3, <1>0, <1>1, LocalOnly DEF TableType
  <1> QED
    BY <1>2, <1>3, <1>4

-----------------------------------------------------------------------------
(* Steps that advance a machine.                                            *)

(* Everything but the snapshots and the worker stays. *)
OnlySnapshots ==
    /\ queue' = queue /\ heads' = heads /\ gen' = gen /\ effect' = effect /\ outbox' = outbox
    /\ intents' = intents /\ results' = results /\ capsules' = capsules /\ epoch' = epoch
    /\ cancelling' = cancelling /\ platform' = platform

(* What an advance writes. *)
LEMMA AdvanceMoves ==
    ASSUME TableType, NEW r \in Request, NEW to
    PROVE  /\ Advance(r, "request", to) /\ to \in STATE_VALUES.request =>
                /\ sm' \in [Request -> Snapshot] /\ sm'[r].request = to
                /\ sm'[r].execution = sm[r].execution /\ sm'[r].delivery = sm[r].delivery
                /\ \A q \in Request : q # r => sm'[q] = sm[q]
           /\ Advance(r, "execution", to) /\ to \in STATE_VALUES.execution =>
                /\ sm' \in [Request -> Snapshot] /\ sm'[r].execution = to
                /\ sm'[r].request = sm[r].request /\ sm'[r].delivery = sm[r].delivery
                /\ \A q \in Request : q # r => sm'[q] = sm[q]
           /\ Advance(r, "delivery", to) /\ to \in STATE_VALUES.delivery =>
                /\ sm' \in [Request -> Snapshot] /\ sm'[r].delivery = to
                /\ sm'[r].request = sm[r].request /\ sm'[r].execution = sm[r].execution
                /\ \A q \in Request : q # r => sm'[q] = sm[q]
  <1>1. sm \in [Request -> Snapshot] /\ sm[r] \in Snapshot
    BY DEF TableType
  <1>2. ASSUME Advance(r, "request", to), to \in STATE_VALUES.request
        PROVE  /\ sm' \in [Request -> Snapshot] /\ sm'[r].request = to
               /\ sm'[r].execution = sm[r].execution /\ sm'[r].delivery = sm[r].delivery
               /\ \A q \in Request : q # r => sm'[q] = sm[q]
    BY <1>1, <1>2 DEF Advance, Snapshot
  <1>3. ASSUME Advance(r, "execution", to), to \in STATE_VALUES.execution
        PROVE  /\ sm' \in [Request -> Snapshot] /\ sm'[r].execution = to
               /\ sm'[r].request = sm[r].request /\ sm'[r].delivery = sm[r].delivery
               /\ \A q \in Request : q # r => sm'[q] = sm[q]
    BY <1>1, <1>3 DEF Advance, Snapshot
  <1>4. ASSUME Advance(r, "delivery", to), to \in STATE_VALUES.delivery
        PROVE  /\ sm' \in [Request -> Snapshot] /\ sm'[r].delivery = to
               /\ sm'[r].request = sm[r].request /\ sm'[r].execution = sm[r].execution
               /\ \A q \in Request : q # r => sm'[q] = sm[q]
    BY <1>1, <1>4 DEF Advance, Snapshot
  <1> QED
    BY <1>2, <1>3, <1>4

(* A settled request is not advanced. *)
LEMMA RequestAdvance ==
    ASSUME NEW r \in Request, NEW to, CanAdvance(r, "request", to)
    PROVE  sm[r].request # "NONE" /\ (sm[r].request = to \/ ~ Settled(r))
  BY DEF CanAdvance, Legal, Settled

(* An execution machine advances. *)
LEMMA ExecutionAdvanceKeeps ==
    ASSUME IInv, NEW r \in Request, NEW to \in STATE_VALUES.execution, Advance(r, "execution", to),
           OnlySnapshots, WorkerType', WorkerInv'
    PROVE  IInv'
  <1>1. TableType /\ RequestInv(r)
    BY Parts
  <1>2. /\ sm' \in [Request -> Snapshot] /\ \A q \in Request : q # r => sm'[q] = sm[q]
        /\ sm'[r].request = sm[r].request /\ sm'[r].delivery = sm[r].delivery
    BY <1>1, AdvanceMoves
  <1>3. RequestInv(r)'
    BY <1>1, <1>2
    DEF RequestInv, OutboxInv, VerdictInv, GenerationInv, HasOutbox, Settled, OnlySnapshots, Waits, Answered
  <1> QED
    BY <1>2, <1>3, SnapshotKeeps DEF OnlySnapshots

(* A request machine advances, to an open state or to a true verdict. *)
LEMMA RequestAdvanceKeeps ==
    ASSUME IInv, NEW r \in Request, NEW to \in STATE_VALUES.request, Advance(r, "request", to),
           CanAdvance(r, "request", to), OnlySnapshots, WorkerType', WorkerInv',
           IsTerminal("request", to) => (HasOutbox(r) => outbox[r].state = "ACKED"),
           r \notin Desktop => /\ to = "COMPLETED" => platform[r].accepted = "all"
                               /\ to = "PARTIAL" => platform[r].accepted = "some"
                               /\ to = "FAILED" => platform[r].accepted = "none"
    PROVE  IInv'
  <1>1. TableType /\ RequestInv(r)
    BY Parts
  <1>2. /\ sm' \in [Request -> Snapshot] /\ \A q \in Request : q # r => sm'[q] = sm[q]
        /\ sm'[r].request = to /\ sm'[r].delivery = sm[r].delivery
    BY <1>1, AdvanceMoves
  <1>3. sm[r].request # "NONE" /\ (sm[r].request = to \/ ~ Settled(r))
    BY RequestAdvance
  <1>4. RequestInv(r)'
    <2>1. OutboxInv(r)'
      BY <1>1, <1>2 DEF RequestInv, OutboxInv, HasOutbox, OnlySnapshots, Waits, Answered
    <2>2. VerdictInv(r)'
      BY <1>1, <1>2 DEF RequestInv, VerdictInv, HasOutbox, Settled, OnlySnapshots
    <2>3. GenerationInv(r)'
      BY <1>1, <1>2, <1>3 DEF RequestInv, GenerationInv, HasOutbox, Settled, OnlySnapshots
    <2> QED
      BY <2>1, <2>2, <2>3 DEF RequestInv
  <1> QED
    BY <1>2, <1>4, SnapshotKeeps DEF OnlySnapshots

(* A delivery machine advances in step with the outbox. *)
LEMMA DeliveryAdvanceKeeps ==
    ASSUME IInv, NEW r \in Request, NEW to \in STATE_VALUES.delivery, Advance(r, "delivery", to),
           OnlySnapshots, WorkerType', WorkerInv',
           ~ (outbox[r].state = "AMBIGUOUS" /\ outbox[r].finalized),
           r \notin Desktop => (HasOutbox(r) <=> to \notin {"NONE", "NOT_PLANNED", "CANCELLED"})
    PROVE  IInv'
  <1>1. TableType /\ RequestInv(r)
    BY Parts
  <1>2. /\ sm' \in [Request -> Snapshot] /\ \A q \in Request : q # r => sm'[q] = sm[q]
        /\ sm'[r].request = sm[r].request /\ sm'[r].delivery = to
    BY <1>1, AdvanceMoves
  <1>3. RequestInv(r)'
    <2>1. OutboxInv(r)'
      BY <1>1, <1>2 DEF RequestInv, OutboxInv, HasOutbox, OnlySnapshots, Waits, Answered
    <2>2. VerdictInv(r)'
      BY <1>1, <1>2 DEF RequestInv, VerdictInv, HasOutbox, Settled, OnlySnapshots
    <2>3. GenerationInv(r)'
      BY <1>1, <1>2 DEF RequestInv, GenerationInv, HasOutbox, Settled, OnlySnapshots
    <2> QED
      BY <2>1, <2>2, <2>3 DEF RequestInv
  <1> QED
    BY <1>2, <1>3, SnapshotKeeps DEF OnlySnapshots

(* No machine moves, and the turn raises. *)
LEMMA SnapshotRaiseKeeps ==
    ASSUME IInv, w.pc # "loop", Raise, sm' = sm, OnlySnapshots
    PROVE  IInv'
  <1>1. WorkerType' /\ WorkerInv'
    BY StepRaises DEF OnlySnapshots
  <1> QED
    BY <1>1, Parts, LocalOnly DEF OnlySnapshots, TableType

(* No machine moves, and the worker moves on. *)
LEMMA SnapshotSameKeeps ==
    ASSUME IInv, sm' = sm, OnlySnapshots, WorkerType', WorkerInv'
    PROVE  IInv'
  BY Parts, LocalOnly DEF OnlySnapshots, TableType

(* _initialize of the execution and of the delivery machine. *)
LEMMA InitializeKeeps ==
    ASSUME IInv, InitializeExecution \/ InitializeDelivery
    PROVE  IInv'
  <1>0. OnlySnapshots /\ w.pc \in ExecutionPc
    BY DEF InitializeExecution, InitializeDelivery, Initialize, OnlySnapshots, At, ExecutionPc
  <1>1. /\ w.pc # "loop" /\ w.r \in Request /\ gen[w.r].status # "NONE"
        /\ ~ HasOutbox(w.r) /\ ~ Settled(w.r) /\ TableType
    BY <1>0, ExecutionInv, Parts
  <1>2. CASE Raise /\ sm' = sm
    BY <1>0, <1>1, <1>2, SnapshotRaiseKeeps
  <1>3. CASE InitializeExecution /\ ~ (Raise /\ sm' = sm)
    <2>1. Advance(w.r, "execution", "NOT_STARTED") /\ Goto("init_delivery")
      BY <1>3 DEF InitializeExecution, Initialize, INITIAL_STATES
    <2>2. "NOT_STARTED" \in STATE_VALUES.execution /\ "init_delivery" \in ExecutionPc
      BY DEF STATE_VALUES, ExecutionPc
    <2>3. sm'[w.r].request = sm[w.r].request
      BY <1>1, <2>1, <2>2, AdvanceMoves
    <2>4. WorkerType' /\ WorkerInv'
      BY <2>1, <2>2, <2>3, <1>0, <1>1, ToExecution DEF OnlySnapshots, HasOutbox, Settled
    <2> QED
      BY <2>1, <2>2, <2>4, <1>0, <1>1, ExecutionAdvanceKeeps
  <1>4. CASE InitializeDelivery /\ ~ (Raise /\ sm' = sm)
    <2>1. Advance(w.r, "delivery", "NOT_PLANNED") /\ Goto("planning")
      BY <1>4 DEF InitializeDelivery, Initialize, INITIAL_STATES
    <2>2. "NOT_PLANNED" \in STATE_VALUES.delivery /\ "planning" \in ExecutionPc
      BY DEF STATE_VALUES, ExecutionPc
    <2>3. sm'[w.r].request = sm[w.r].request
      BY <1>1, <2>1, <2>2, AdvanceMoves
    <2>4. WorkerType' /\ WorkerInv'
      BY <2>1, <2>2, <2>3, <1>0, <1>1, ToExecution DEF OnlySnapshots, HasOutbox, Settled
    <2> QED
      BY <2>1, <2>2, <2>4, <1>0, <1>1, DeliveryAdvanceKeeps DEF HasOutbox
  <1> QED
    BY <1>2, <1>3, <1>4

(* claim_next creates the generation and the request snapshot. *)
LEMMA ClaimNextKeeps ==
    ASSUME IInv, NEW r \in Request, ClaimNext(r)
    PROVE  IInv'
  <1>0. TableType /\ RequestInv(r) /\ \A q \in Request : RequestInv(q)
    BY Parts
  <1>1. queue[r] = "ACTIVE" /\ gen[r].status = "NONE"
    BY TurnFacts DEF ClaimNext
  <1>2. ~ HasOutbox(r) /\ sm[r].request = "NONE"
    BY <1>0, <1>1 DEF RequestInv, GenerationInv
  <1>3. /\ queue' = queue /\ heads' = heads /\ effect' = effect /\ outbox' = outbox
        /\ intents' = intents /\ results' = results /\ capsules' = capsules /\ epoch' = epoch
        /\ cancelling' = cancelling /\ platform' = platform
    BY DEF ClaimNext
  <1>4. /\ gen' \in [Request -> Generation] /\ gen'[r].status = "ACTIVE"
        /\ \A q \in Request : q # r => gen'[q] = gen[q]
    <2>1. [status |-> "ACTIVE", epoch |-> epoch, expired |-> FALSE, revision |-> 1] \in Generation
      BY <1>0, GatewayAssumption DEF TableType, Generation, Epoch, MaxRevision
    <2> QED
      BY <1>0, <2>1 DEF ClaimNext, TableType
  <1>5. /\ sm' \in [Request -> Snapshot] /\ sm'[r].request = "RECEIVED"
        /\ sm'[r].delivery = sm[r].delivery /\ \A q \in Request : q # r => sm'[q] = sm[q]
    <2>1. Advance(r, "request", "RECEIVED") /\ "RECEIVED" \in STATE_VALUES.request
      BY DEF ClaimNext, INITIAL_STATES, STATE_VALUES
    <2> QED
      BY <1>0, <2>1, AdvanceMoves
  <1>6. TableType'
    BY <1>0, <1>3, <1>4, <1>5 DEF TableType
  <1>7. WorkerType'
    BY RequestRange DEF ClaimNext, WorkerType, AllPc, ProcessPc
  <1>8. ~ IsTerminal("request", "RECEIVED")
    BY DEF IsTerminal, TERMINAL_STATES
  <1>9. w'.pc = "init_execution" /\ w'.r = r
    BY DEF ClaimNext
  <1>10. WorkerInv'
    BY <1>2, <1>3, <1>4, <1>5, <1>8, <1>9
    DEF WorkerInv, HasOutbox, Settled, ProcessPc, ClosingPc, DesktopPc, FinalPc, DecidedPc
  <1>11. RequestInv(r)'
    <2>1. OutboxInv(r)'
      BY <1>0, <1>3, <1>5 DEF RequestInv, OutboxInv, HasOutbox, Waits, Answered
    <2>2. VerdictInv(r)'
      BY <1>0, <1>2, <1>3, <1>5, <1>8 DEF RequestInv, VerdictInv, HasOutbox, Settled
    <2>3. GenerationInv(r)'
      BY <1>0, <1>1, <1>3, <1>4 DEF GenerationInv
    <2> QED
      BY <2>1, <2>2, <2>3 DEF RequestInv
  <1>12. ASSUME NEW q \in Request, q # r PROVE RequestInv(q)'
    BY <1>0, <1>3, <1>4, <1>5, <1>12, RequestFrame DEF QueueMove, GenerationMove
  <1>13. IntentsInv' /\ ResultsInv'
    BY <1>3, Parts DEF IntentsInv, ResultsInv, Once, Waits, Answered
  <1> QED
    BY <1>3, <1>6, <1>7, <1>10, <1>11, <1>12, <1>13, QueueStays, PartsAfter

(* The steps of the execution that only advance a machine. *)
PlainPc ==
    {"planning", "plan_execution", "ticket_execution", "claim_execution", "executing", "running",
     "exec_succeeded", "exec_failed", "exec_ambiguous", "exec_reconcile"}
(* The script by its rows: the rows of the execution stay within it. *)
LEMMA ScriptFacts ==
    /\ DOMAIN Script = PlainPc \cup
         {"fail_request", "desktop_plan", "desktop_ticket", "desktop_send", "desktop_accept",
          "desktop_deliver", "desktop_complete", "delivering", "ticket", "sending"}
    /\ \A pc \in PlainPc :
         /\ \/ /\ Script[pc].machine = "request" /\ Script[pc].to \in STATE_VALUES.request
               /\ ~ IsTerminal("request", Script[pc].to)
            \/ Script[pc].machine = "execution" /\ Script[pc].to \in STATE_VALUES.execution
         /\ Script[pc].next \in ExecutionPc
    /\ Script["fail_request"] = Step("request", "FAILED", "fail_session")
    /\ Script["desktop_plan"] = Step("delivery", "PLANNED", "desktop_ticket")
    /\ Script["desktop_ticket"] = Step("delivery", "TICKET_ISSUED", "desktop_send")
    /\ Script["desktop_send"] = Step("delivery", "SENDING", "desktop_accept")
    /\ Script["desktop_accept"] = Step("delivery", "CHANNEL_ACCEPTED", "desktop_deliver")
    /\ Script["desktop_deliver"] = Step("request", "DELIVERING", "persist_result")
    /\ Script["desktop_complete"] = Step("request", "COMPLETED", "desktop_retire")
    /\ Script["delivering"] = Step("request", "DELIVERING", "loop")
    /\ Script["ticket"] = Step("delivery", "TICKET_ISSUED", "sending")
    /\ Script["sending"] = Step("delivery", "SENDING", "boundary")
  <1>1. ASSUME NEW pc \in PlainPc
        PROVE  /\ \/ /\ Script[pc].machine = "request" /\ Script[pc].to \in STATE_VALUES.request
                     /\ ~ IsTerminal("request", Script[pc].to)
                  \/ Script[pc].machine = "execution" /\ Script[pc].to \in STATE_VALUES.execution
               /\ Script[pc].next \in ExecutionPc
    BY DEF PlainPc, Script, Step, STATE_VALUES, IsTerminal, TERMINAL_STATES, ExecutionPc
  <1>2. DOMAIN Script = PlainPc \cup
         {"fail_request", "desktop_plan", "desktop_ticket", "desktop_send", "desktop_accept",
          "desktop_deliver", "desktop_complete", "delivering", "ticket", "sending"}
    BY DEF Script, PlainPc
  <1> QED
    BY <1>1, <1>2 DEF Script

(* What a step of the script does. *)
LEMMA ScriptStep ==
    ASSUME AdvanceStep, NEW m, NEW to, NEW next, Script[w.pc] = Step(m, to, next)
    PROVE  /\ OnlySnapshots
           /\ \/ /\ CanAdvance(w.r, m, to) /\ Advance(w.r, m, to)
                 /\ IF next = "loop" THEN w' = Loop ELSE Goto(next)
              \/ Raise /\ sm' = sm
  BY DEF AdvanceStep, OnlySnapshots, Step

(* A step of the execution. *)
LEMMA PlainAdvanceKeeps ==
    ASSUME IInv, AdvanceStep, w.pc \in PlainPc
    PROVE  IInv'
  <1>0. OnlySnapshots /\ w.pc \in ExecutionPc
    BY DEF AdvanceStep, OnlySnapshots, PlainPc, ExecutionPc
  <1>1. /\ w.pc # "loop" /\ w.r \in Request /\ gen[w.r].status # "NONE"
        /\ ~ HasOutbox(w.r) /\ ~ Settled(w.r) /\ TableType
    BY <1>0, ExecutionInv, Parts
  <1>2. PICK m, to, next : m = Script[w.pc].machine /\ to = Script[w.pc].to /\ next = Script[w.pc].next
    OBVIOUS
  <1>3. /\ \/ m = "request" /\ to \in STATE_VALUES.request /\ ~ IsTerminal("request", to)
           \/ m = "execution" /\ to \in STATE_VALUES.execution
        /\ next \in ExecutionPc /\ next # "loop"
    BY <1>2, ScriptFacts DEF ExecutionPc
  <1>4. \/ CanAdvance(w.r, m, to) /\ Advance(w.r, m, to) /\ Goto(next)
        \/ Raise /\ sm' = sm
    BY <1>2, <1>3 DEF AdvanceStep
  <1>5. CASE Raise /\ sm' = sm
    BY <1>0, <1>1, <1>5, SnapshotRaiseKeeps
  <1>6. CASE m = "request" /\ CanAdvance(w.r, m, to) /\ Advance(w.r, m, to) /\ Goto(next)
    <2>1. Advance(w.r, "request", to) /\ CanAdvance(w.r, "request", to)
          /\ to \in STATE_VALUES.request /\ ~ IsTerminal("request", to)
      BY <1>6, <1>3
    <2>2. sm'[w.r].request = to
      BY <1>1, <2>1, AdvanceMoves
    <2>3. WorkerType' /\ WorkerInv'
      BY <1>0, <1>1, <1>3, <1>6, <2>1, <2>2, ToExecution DEF OnlySnapshots, HasOutbox
    <2>4. to \notin {"COMPLETED", "PARTIAL", "FAILED"}
      BY <2>1 DEF IsTerminal, TERMINAL_STATES
    <2> QED
      BY <1>0, <1>1, <2>1, <2>3, <2>4, RequestAdvanceKeeps
  <1>7. CASE m = "execution" /\ Advance(w.r, m, to) /\ Goto(next)
    <2>1. Advance(w.r, "execution", to) /\ to \in STATE_VALUES.execution
      BY <1>7, <1>3
    <2>2. sm'[w.r].request = sm[w.r].request
      BY <1>1, <2>1, AdvanceMoves
    <2>3. WorkerType' /\ WorkerInv'
      BY <1>0, <1>1, <1>3, <1>7, <2>2, ToExecution DEF OnlySnapshots, HasOutbox, Settled
    <2> QED
      BY <1>0, <1>1, <2>1, <2>3, ExecutionAdvanceKeeps
  <1> QED
    BY <1>3, <1>4, <1>5, <1>6, <1>7

(* Nothing was sent for a request without an intent. *)
LEMMA NothingSent ==
    ASSUME IInv, NEW r \in Request, ~ HasOutbox(r)
    PROVE  /\ outbox[r] = NoOutbox /\ platform[r].sends = 0 /\ platform[r].accepted = "none"
           /\ r \notin Desktop => sm[r].delivery \in {"NONE", "NOT_PLANNED", "CANCELLED"}
  <1>1. RequestInv(r)
    BY Parts
  <1> QED
    BY <1>1 DEF RequestInv, OutboxInv, VerdictInv, HasOutbox, NoOutbox

(* A request whose execution failed is settled as FAILED. *)
LEMMA FailRequestKeeps ==
    ASSUME IInv, AdvanceStep, w.pc = "fail_request"
    PROVE  IInv'
  <1>0. w.pc \in ExecutionPc /\ WorkerType
    BY Parts DEF ExecutionPc
  <1>1. /\ w.pc # "loop" /\ w.r \in Request /\ gen[w.r].status # "NONE"
        /\ ~ HasOutbox(w.r) /\ ~ Settled(w.r) /\ TableType
    BY <1>0, ExecutionInv, Parts
  <1>2. Script[w.pc] = Step("request", "FAILED", "fail_session")
    BY ScriptFacts
  <1>3. /\ OnlySnapshots
        /\ \/ /\ CanAdvance(w.r, "request", "FAILED") /\ Advance(w.r, "request", "FAILED")
              /\ Goto("fail_session")
           \/ Raise /\ sm' = sm
    BY <1>2, ScriptStep
  <1>4. CASE Raise /\ sm' = sm
    BY <1>1, <1>3, <1>4, SnapshotRaiseKeeps
  <1>5. CASE CanAdvance(w.r, "request", "FAILED") /\ Advance(w.r, "request", "FAILED") /\ Goto("fail_session")
    <2>1. WorkerType' /\ w'.pc = "fail_session" /\ w'.r = w.r
      BY <1>0, <1>5, GotoType, <1>1 DEF AllPc, ProcessPc
    <2>2. WorkerInv'
      BY <1>1, <1>3, <2>1
      DEF WorkerInv, OnlySnapshots, HasOutbox, Settled, ProcessPc, ClosingPc, DesktopPc, FinalPc, DecidedPc
    <2>3. "FAILED" \in STATE_VALUES.request
      BY DEF STATE_VALUES
    <2> QED
      BY <1>1, <1>3, <1>5, <2>1, <2>2, <2>3, NothingSent, RequestAdvanceKeeps
  <1> QED
    BY <1>3, <1>4, <1>5

(* The desktop tail plans, sends and settles without an outbox. *)
LEMMA DesktopDeliveryKeeps ==
    ASSUME IInv, AdvanceStep,
           w.pc \in {"desktop_plan", "desktop_ticket", "desktop_send", "desktop_accept"}
    PROVE  IInv'
  <1>0. TableType /\ WorkerType /\ WorkerInv
    BY Parts
  <1>1. /\ w.pc # "loop" /\ w.r \in Request /\ gen[w.r].status # "NONE" /\ w.r \in Desktop
        /\ ~ HasOutbox(w.r) /\ ~ Settled(w.r)
    BY <1>0 DEF WorkerType, WorkerInv, ProcessPc, DesktopPc
  <1>2. PICK to \in {"PLANNED", "TICKET_ISSUED", "SENDING", "CHANNEL_ACCEPTED"},
             next \in {"desktop_ticket", "desktop_send", "desktop_accept", "desktop_deliver"} :
               Script[w.pc] = Step("delivery", to, next)
    BY ScriptFacts
  <1>3. /\ OnlySnapshots
        /\ \/ Advance(w.r, "delivery", to) /\ Goto(next)
           \/ Raise /\ sm' = sm
    <2>1. next # "loop"
      OBVIOUS
    <2> QED
      BY <1>2, <2>1, ScriptStep
  <1>4. CASE Raise /\ sm' = sm
    BY <1>1, <1>3, <1>4, SnapshotRaiseKeeps
  <1>5. CASE Advance(w.r, "delivery", to) /\ Goto(next)
    <2>1. to \in STATE_VALUES.delivery /\ next \in AllPc
      BY DEF STATE_VALUES, AllPc, ProcessPc
    <2>2. WorkerType' /\ w'.pc = next /\ w'.r = w.r
      BY <1>0, <1>1, <1>5, <2>1, GotoType
    <2>3. sm'[w.r].request = sm[w.r].request
      BY <1>0, <1>1, <1>5, <2>1, AdvanceMoves
    <2>4. WorkerInv'
      BY <1>1, <1>3, <2>2, <2>3
      DEF WorkerInv, OnlySnapshots, HasOutbox, Settled, ProcessPc, ClosingPc, DesktopPc, FinalPc, DecidedPc
    <2> QED
      BY <1>1, <1>3, <1>5, <2>1, <2>2, <2>4, DeliveryAdvanceKeeps DEF HasOutbox
  <1> QED
    BY <1>3, <1>4, <1>5

(* It hands the answer to the pull and completes the request. *)
LEMMA DesktopRequestKeeps ==
    ASSUME IInv, AdvanceStep, w.pc \in {"desktop_deliver", "desktop_complete"}
    PROVE  IInv'
  <1>0. TableType /\ WorkerType /\ WorkerInv
    BY Parts
  <1>1. /\ w.pc # "loop" /\ w.r \in Request /\ gen[w.r].status # "NONE" /\ w.r \in Desktop
        /\ ~ HasOutbox(w.r) /\ ~ Settled(w.r)
    BY <1>0 DEF WorkerType, WorkerInv, ProcessPc, DesktopPc
  <1>2. PICK to, next : /\ \/ to = "DELIVERING" /\ next = "persist_result"
                           \/ to = "COMPLETED" /\ next = "desktop_retire"
                        /\ Script[w.pc] = Step("request", to, next)
    BY ScriptFacts
  <1>3. /\ OnlySnapshots
        /\ \/ CanAdvance(w.r, "request", to) /\ Advance(w.r, "request", to) /\ Goto(next)
           \/ Raise /\ sm' = sm
    <2>1. next # "loop"
      BY <1>2
    <2> QED
      BY <1>2, <2>1, ScriptStep
  <1>4. CASE Raise /\ sm' = sm
    BY <1>1, <1>3, <1>4, SnapshotRaiseKeeps
  <1>5. CASE CanAdvance(w.r, "request", to) /\ Advance(w.r, "request", to) /\ Goto(next)
    <2>1. to \in STATE_VALUES.request /\ next \in AllPc
      BY <1>2 DEF STATE_VALUES, AllPc, ProcessPc
    <2>2. WorkerType' /\ w'.pc = next /\ w'.r = w.r
      BY <1>0, <1>1, <1>5, <2>1, GotoType
    <2>3. sm'[w.r].request = to
      BY <1>0, <1>1, <1>5, <2>1, AdvanceMoves
    <2>4. WorkerInv'
      BY <1>1, <1>2, <1>3, <2>2, <2>3
      DEF WorkerInv, OnlySnapshots, HasOutbox, Settled, ProcessPc, ClosingPc, DesktopPc, FinalPc,
          DecidedPc, IsTerminal, TERMINAL_STATES
    <2> QED
      BY <1>1, <1>3, <1>5, <2>1, <2>2, <2>4, RequestAdvanceKeeps
  <1> QED
    BY <1>3, <1>4, <1>5

(* After the intent is durable the request is DELIVERING. *)
LEMMA DeliveringKeeps ==
    ASSUME IInv, AdvanceStep, w.pc = "delivering"
    PROVE  IInv'
  <1>0. WorkerType
    BY Parts
  <1>1. w.pc # "loop" /\ w.r \in Request
    BY <1>0 DEF WorkerType
  <1>2. Script[w.pc] = Step("request", "DELIVERING", "loop")
    BY ScriptFacts
  <1>3. /\ OnlySnapshots
        /\ \/ CanAdvance(w.r, "request", "DELIVERING") /\ Advance(w.r, "request", "DELIVERING") /\ w' = Loop
           \/ Raise /\ sm' = sm
    BY <1>2, ScriptStep
  <1>4. CASE Raise /\ sm' = sm
    BY <1>1, <1>3, <1>4, SnapshotRaiseKeeps
  <1>5. CASE CanAdvance(w.r, "request", "DELIVERING") /\ Advance(w.r, "request", "DELIVERING") /\ w' = Loop
    <2>1. "DELIVERING" \in STATE_VALUES.request /\ ~ IsTerminal("request", "DELIVERING")
      BY DEF STATE_VALUES, IsTerminal, TERMINAL_STATES
    <2> QED
      BY <1>1, <1>3, <1>5, <2>1, WorkerLoops, RequestAdvanceKeeps
  <1> QED
    BY <1>3, <1>4, <1>5

(* The delivery machine follows the claimed intent. *)
LEMMA SendingKeeps ==
    ASSUME IInv, AdvanceStep, w.pc \in {"ticket", "sending"}
    PROVE  IInv'
  <1>0. TableType /\ WorkerType /\ WorkerInv
    BY Parts
  <1>1. /\ w.pc # "loop" /\ w.r \in Request /\ gen[w.r].status # "NONE"
        /\ outbox[w.r].state = "CLAIMED"
    BY <1>0 DEF WorkerType, WorkerInv
  <1>2. PICK to \in {"TICKET_ISSUED", "SENDING"}, next \in {"sending", "boundary"} :
               Script[w.pc] = Step("delivery", to, next)
    BY ScriptFacts
  <1>3. /\ OnlySnapshots
        /\ \/ Advance(w.r, "delivery", to) /\ Goto(next)
           \/ Raise /\ sm' = sm
    <2>1. next # "loop"
      OBVIOUS
    <2> QED
      BY <1>2, <2>1, ScriptStep
  <1>4. CASE Raise /\ sm' = sm
    BY <1>1, <1>3, <1>4, SnapshotRaiseKeeps
  <1>5. CASE Advance(w.r, "delivery", to) /\ Goto(next)
    <2>1. to \in STATE_VALUES.delivery /\ next \in AllPc
      BY DEF STATE_VALUES, AllPc, DispatchPc
    <2>2. WorkerType' /\ w'.pc = next /\ w'.r = w.r
      BY <1>0, <1>1, <1>5, <2>1, GotoType
    <2>4. WorkerInv'
      BY <1>1, <1>3, <2>2
      DEF WorkerInv, OnlySnapshots, ProcessPc, ClosingPc, DesktopPc, FinalPc, DecidedPc
    <2> QED
      BY <1>1, <1>3, <1>5, <2>1, <2>2, <2>4, DeliveryAdvanceKeeps DEF HasOutbox
  <1> QED
    BY <1>3, <1>4, <1>5

(* Every step of the script. *)
LEMMA AdvanceStepKeeps ==
    ASSUME IInv, AdvanceStep
    PROVE  IInv'
  <1>1. w.pc \in DOMAIN Script
    BY DEF AdvanceStep
  <1> QED
    BY <1>1, ScriptFacts, PlainAdvanceKeeps, FailRequestKeeps, DesktopDeliveryKeeps,
       DesktopRequestKeeps, DeliveringKeeps, SendingKeeps

-----------------------------------------------------------------------------
(* What the except arm closes.                                              *)

(* The worker goes on to close the next machine. *)
LEMMA ToClosing ==
    ASSUME IInv, w.pc # "loop", NEW pc \in ClosingPc, w' = [w EXCEPT !.pc = pc] \/ (w.pc = pc /\ w' = w),
           gen'[w.r].status # "NONE", outbox'[w.r].state = "NONE",
           ~ IsTerminal("request", sm'[w.r].request)
    PROVE  WorkerType' /\ WorkerInv'
  <1>1. WorkerType /\ pc \in AllPc
    BY Parts DEF AllPc, UnhandledPc, ClosingPc
  <1>2. WorkerType' /\ w'.pc = pc /\ w'.r = w.r
    BY <1>1 DEF WorkerType
  <1>3. WorkerInv'
    BY <1>2 DEF WorkerInv, HasOutbox, Settled, ProcessPc, ClosingPc, DesktopPc, FinalPc, DecidedPc
  <1> QED
    BY <1>2, <1>3

(* What the worker relies on while it closes the machines. *)
LEMMA ClosingInv ==
    ASSUME IInv, w.pc \in ClosingPc
    PROVE  /\ w.pc # "loop" /\ w.r \in Request /\ gen[w.r].status # "NONE"
           /\ ~ HasOutbox(w.r) /\ ~ Settled(w.r)
  <1>1. WorkerType /\ WorkerInv
    BY Parts
  <1> QED
    BY <1>1 DEF WorkerType, WorkerInv, ClosingPc

(* The execution machine is closed. *)
LEMMA CloseExecutionKeeps ==
    ASSUME IInv, CloseExecution
    PROVE  IInv'
  <1>0. /\ OnlySnapshots /\ w.pc = "unhandled_execution"
    BY DEF CloseExecution, CloseMachine, At, OnlySnapshots
  <1>1. /\ w.pc # "loop" /\ w.r \in Request /\ gen[w.r].status # "NONE"
        /\ ~ HasOutbox(w.r) /\ ~ Settled(w.r) /\ TableType
    BY <1>0, ClosingInv, Parts DEF ClosingPc
  <1>2. PICK crossed : crossed = (effect[w.r] = "SIDE_EFFECT_STARTED")
    OBVIOUS
  <1>3. PICK s, to : s = sm[w.r].execution /\ to = ClosingState("execution", s, crossed)
    OBVIOUS
  <1>4. \/ s = to /\ Goto("unhandled_delivery") /\ sm' = sm
        \/ s # to /\ Advance(w.r, "execution", to) /\ w' = w
        \/ Raise /\ sm' = sm
    BY <1>2, <1>3 DEF CloseExecution, CloseMachine
  <1>5. CASE Raise /\ sm' = sm
    BY <1>0, <1>1, <1>5, SnapshotRaiseKeeps
  <1>6. CASE s = to /\ Goto("unhandled_delivery") /\ sm' = sm
    <2>1. WorkerType' /\ WorkerInv'
      BY <1>0, <1>1, <1>6, ToClosing DEF Goto, ClosingPc, OnlySnapshots, HasOutbox, Settled
    <2> QED
      BY <1>0, <1>6, <2>1, SnapshotSameKeeps
  <1>7. CASE s # to /\ Advance(w.r, "execution", to) /\ w' = w
    <2>1. to \in STATE_VALUES.execution
      BY <1>3, <1>7 DEF ClosingState, STATE_VALUES
    <2>2. sm'[w.r].request = sm[w.r].request
      BY <1>1, <1>7, <2>1, AdvanceMoves
    <2>3. WorkerType' /\ WorkerInv'
      BY <1>0, <1>1, <1>7, <2>2, ToClosing DEF ClosingPc, OnlySnapshots, HasOutbox, Settled
    <2> QED
      BY <1>0, <1>1, <1>7, <2>1, <2>3, ExecutionAdvanceKeeps
  <1> QED
    BY <1>4, <1>5, <1>6, <1>7

(* The delivery machine is closed: before any intent it is cancelled. *)
LEMMA CloseDeliveryKeeps ==
    ASSUME IInv, CloseDelivery
    PROVE  IInv'
  <1>0. /\ OnlySnapshots /\ w.pc = "unhandled_delivery"
    BY DEF CloseDelivery, CloseMachine, At, OnlySnapshots
  <1>1. /\ w.pc # "loop" /\ w.r \in Request /\ gen[w.r].status # "NONE"
        /\ ~ HasOutbox(w.r) /\ ~ Settled(w.r) /\ TableType
    BY <1>0, ClosingInv, Parts DEF ClosingPc
  <1>2. PICK crossed : crossed = (sm[w.r].delivery \in {"SENDING", "UPLOADING", "CHANNEL_ACCEPTED",
                                                        "AMBIGUOUS", "RECONCILE_REQUIRED"})
    OBVIOUS
  <1>3. PICK s, to : s = sm[w.r].delivery /\ to = ClosingState("delivery", s, crossed)
    OBVIOUS
  <1>4. \/ s = to /\ Goto("unhandled_request") /\ sm' = sm
        \/ s # to /\ Advance(w.r, "delivery", to) /\ w' = w
        \/ Raise /\ sm' = sm
    BY <1>2, <1>3 DEF CloseDelivery, CloseMachine
  <1>5. CASE Raise /\ sm' = sm
    BY <1>0, <1>1, <1>5, SnapshotRaiseKeeps
  <1>6. CASE s = to /\ Goto("unhandled_request") /\ sm' = sm
    <2>1. WorkerType' /\ WorkerInv'
      BY <1>0, <1>1, <1>6, ToClosing DEF Goto, ClosingPc, OnlySnapshots, HasOutbox, Settled
    <2> QED
      BY <1>0, <1>6, <2>1, SnapshotSameKeeps
  <1>7. CASE s # to /\ Advance(w.r, "delivery", to) /\ w' = w
    <2>1. to \in STATE_VALUES.delivery
      BY <1>3, <1>7 DEF ClosingState, STATE_VALUES
    <2>2. sm'[w.r].request = sm[w.r].request
      BY <1>1, <1>7, <2>1, AdvanceMoves
    <2>3. WorkerType' /\ WorkerInv'
      BY <1>0, <1>1, <1>7, <2>2, ToClosing DEF ClosingPc, OnlySnapshots, HasOutbox, Settled
    <2>4. w.r \notin Desktop => to = "CANCELLED"
      <3>1. w.r \notin Desktop => s \in {"NONE", "NOT_PLANNED", "CANCELLED"}
        BY <1>1, <1>3, NothingSent
      <3>2. w.r \notin Desktop => ~ crossed
        BY <1>2, <1>3, <3>1
      <3> QED
        BY <1>3, <1>7, <3>1, <3>2 DEF ClosingState, IsTerminal, TERMINAL_STATES, INITIAL_STATES
    <2> QED
      BY <1>0, <1>1, <1>7, <2>1, <2>3, <2>4, DeliveryAdvanceKeeps DEF HasOutbox
  <1> QED
    BY <1>4, <1>5, <1>6, <1>7

(* The request is failed, with nothing sent. *)
LEMMA FailUnhandledKeeps ==
    ASSUME IInv, FailUnhandled
    PROVE  IInv'
  <1>0. /\ OnlySnapshots /\ w.pc = "unhandled_request" /\ WorkerType
    BY Parts DEF FailUnhandled, At, OnlySnapshots
  <1>1. /\ w.pc # "loop" /\ w.r \in Request /\ gen[w.r].status # "NONE"
        /\ ~ HasOutbox(w.r) /\ ~ Settled(w.r) /\ TableType
    BY <1>0, ClosingInv, Parts DEF ClosingPc
  <1>2. CASE Raise /\ sm' = sm
    BY <1>0, <1>1, <1>2, SnapshotRaiseKeeps
  <1>3. CASE CanAdvance(w.r, "request", "FAILED") /\ Advance(w.r, "request", "FAILED")
             /\ Goto("unhandled_retire")
    <2>1. "FAILED" \in STATE_VALUES.request /\ IsTerminal("request", "FAILED")
      BY DEF STATE_VALUES, IsTerminal, TERMINAL_STATES
    <2>2. WorkerType' /\ w'.pc = "unhandled_retire" /\ w'.r = w.r
      BY <1>0, <1>1, <1>3, GotoType DEF AllPc, UnhandledPc
    <2>3. sm'[w.r].request = "FAILED"
      BY <1>1, <1>3, <2>1, AdvanceMoves
    <2>4. WorkerInv'
      BY <1>0, <1>1, <2>1, <2>2, <2>3
      DEF WorkerInv, OnlySnapshots, HasOutbox, Settled, ProcessPc, ClosingPc, DesktopPc, FinalPc, DecidedPc
    <2> QED
      BY <1>0, <1>1, <1>3, <2>1, <2>2, <2>4, NothingSent, RequestAdvanceKeeps
  <1> QED
    BY <1>2, <1>3 DEF FailUnhandled

-----------------------------------------------------------------------------
(* The outbox.                                                              *)

(* The two lists stay, and the row of one request keeps its place in them.  *)
LEMMA ListsStay ==
    ASSUME IInv, NEW r \in Request, intents' = intents, results' = results,
           \A q \in Request : q # r => outbox'[q] = outbox[q],
           Waits(outbox[r]), Waits(outbox'[r])
    PROVE  /\ intents' \in Seq(Request) /\ results' \in Seq(Request) /\ IntentsInv' /\ ResultsInv'
  <1>1. IntentsInv /\ ResultsInv /\ intents \in Seq(Request) /\ results \in Seq(Request)
    BY Parts DEF TableType
  <1>2. \A i \in DOMAIN intents : intents[i] \in Request
    BY <1>1
  <1>3. \A i \in DOMAIN results : results[i] \in Request /\ results[i] # r
    BY <1>1 DEF ResultsInv, Waits, Answered
  <1> QED
    BY <1>1, <1>2, <1>3 DEF IntentsInv, ResultsInv, Once

(* An answered request moves from the intents to the results. *)
LEMMA AnsweredLists ==
    ASSUME IInv, NEW r \in Request, intents' = Drop(intents, r), results' = Append(results, r),
           \A q \in Request : q # r => outbox'[q] = outbox[q],
           Waits(outbox[r]), Answered(outbox'[r]), ~ outbox'[r].finalized
    PROVE  /\ intents' \in Seq(Request) /\ results' \in Seq(Request) /\ IntentsInv' /\ ResultsInv'
  <1>1. IntentsInv /\ ResultsInv /\ intents \in Seq(Request) /\ results \in Seq(Request)
    BY Parts DEF TableType
  <1>2. \A i \in DOMAIN results : results[i] \in Request /\ results[i] # r
    BY <1>1 DEF ResultsInv, Waits, Answered
  <1>3. /\ intents' \in Seq(Request) /\ Once(intents)'
        /\ \A j \in DOMAIN intents' : intents'[j] # r /\ \E k \in DOMAIN intents : intents'[j] = intents[k]
    BY <1>1, DropProps DEF IntentsInv, Once
  <1>4. /\ results' \in Seq(Request) /\ Once(results)'
        /\ \A i \in DOMAIN results' : results'[i] = r \/ \E k \in DOMAIN results : results'[i] = results[k]
    BY <1>1, <1>2, AppendProps DEF ResultsInv, Once
  <1>5. \A j \in DOMAIN intents' : Waits(outbox'[intents'[j]])
    BY <1>1, <1>3 DEF IntentsInv
  <1>6. \A j \in DOMAIN results' : Answered(outbox'[results'[j]]) /\ ~ outbox'[results'[j]].finalized
    <2>1. \A k \in DOMAIN results :
             Answered(outbox'[results[k]]) /\ ~ outbox'[results[k]].finalized
      BY <1>1, <1>2 DEF ResultsInv
    <2> QED
      BY <1>4, <2>1
  <1> QED
    BY <1>3, <1>4, <1>5, <1>6 DEF IntentsInv, ResultsInv

(* A finalized request leaves the results. *)
LEMMA FinalizedLists ==
    ASSUME IInv, NEW r \in Request, intents' = intents, results' = Drop(results, r),
           \A q \in Request : q # r => outbox'[q] = outbox[q],
           Answered(outbox[r])
    PROVE  /\ intents' \in Seq(Request) /\ results' \in Seq(Request) /\ IntentsInv' /\ ResultsInv'
  <1>1. IntentsInv /\ ResultsInv /\ intents \in Seq(Request) /\ results \in Seq(Request)
    BY Parts DEF TableType
  <1>2. \A i \in DOMAIN intents : intents[i] \in Request /\ intents[i] # r
    BY <1>1 DEF IntentsInv, Waits, Answered
  <1>3. /\ results' \in Seq(Request) /\ Once(results)'
        /\ \A j \in DOMAIN results' : results'[j] # r /\ \E k \in DOMAIN results : results'[j] = results[k]
    BY <1>1, DropProps DEF ResultsInv, Once
  <1>4. \A j \in DOMAIN results' : Answered(outbox'[results'[j]]) /\ ~ outbox'[results'[j]].finalized
    BY <1>1, <1>3 DEF ResultsInv
  <1> QED
    BY <1>1, <1>2, <1>3, <1>4 DEF IntentsInv, ResultsInv, Once

(* Everything but the outbox and the worker stays. *)
OnlyOutbox ==
    /\ queue' = queue /\ heads' = heads /\ gen' = gen /\ sm' = sm /\ effect' = effect
    /\ capsules' = capsules /\ epoch' = epoch /\ cancelling' = cancelling /\ platform' = platform

(* A request with an intent is open until the intent is answered. *)
LEMMA WaitingIsOpen ==
    ASSUME IInv, NEW r \in Request, Waits(outbox[r])
    PROVE  /\ ~ Settled(r) /\ gen[r].status \notin {"NONE", "RELEASED"} /\ HasOutbox(r)
           /\ outbox[r].result = NoAnswer /\ ~ outbox[r].finalized /\ outbox[r] \in Outbox
  <1>1. RequestInv(r) /\ TableType
    BY Parts
  <1>2. HasOutbox(r) /\ outbox[r].result = NoAnswer /\ ~ outbox[r].finalized /\ ~ Settled(r)
    BY <1>1 DEF RequestInv, OutboxInv, VerdictInv, HasOutbox, Waits
  <1> QED
    BY <1>1, <1>2 DEF RequestInv, GenerationInv, TableType

(* An intent that still waits changes its claim, its expiry or its boundary. *)
LEMMA ClaimWritten ==
    ASSUME IInv, NEW r \in Request, OnlyOutbox, intents' = intents, results' = results,
           outbox' \in [Request -> Outbox], \A q \in Request : q # r => outbox'[q] = outbox[q],
           Waits(outbox[r]), Waits(outbox'[r]), outbox'[r].result = outbox[r].result,
           outbox'[r].finalized = outbox[r].finalized,
           outbox'[r].boundary = outbox[r].boundary \/ outbox'[r].boundary # 0,
           WorkerType', WorkerInv'
    PROVE  IInv'
  <1>1. RequestInv(r)
    BY Parts
  <1>2. ~ Settled(r) /\ gen[r].status \notin {"NONE", "RELEASED"} /\ HasOutbox(r)
    BY WaitingIsOpen
  <1>3. RequestInv(r)'
    <2>1. OutboxInv(r)'
      BY <1>1, <1>2 DEF RequestInv, OutboxInv, HasOutbox, Waits, Answered, OnlyOutbox
    <2>2. VerdictInv(r)'
      BY <1>1, <1>2 DEF RequestInv, VerdictInv, HasOutbox, Settled, Waits, OnlyOutbox
    <2>3. GenerationInv(r)'
      BY <1>1, <1>2 DEF RequestInv, GenerationInv, OnlyOutbox
    <2> QED
      BY <2>1, <2>2, <2>3 DEF RequestInv
  <1> QED
    BY <1>3, ListsStay, OutboxKeeps DEF OnlyOutbox

(* The writes of a claim, of its boundary and of its expiry. *)
LEMMA ClaimTypes ==
    ASSUME NEW o \in Outbox, NEW e \in 0 .. MaxEpoch
    PROVE  /\ [o EXCEPT !.state = "CLAIMED", !.by = e, !.expired = FALSE] \in Outbox
           /\ [o EXCEPT !.boundary = e] \in Outbox
           /\ [o EXCEPT !.expired = TRUE] \in Outbox
  <1> DEFINE N == 0 .. MaxEpoch
             A == Answer \cup {NoAnswer}
  <1>1. Outbox = [state : {"NONE", "PENDING", "CLAIMED", "ACKED", "AMBIGUOUS"}, by : N,
                  expired : BOOLEAN, boundary : N, result : A, finalized : BOOLEAN]
    BY DEF Outbox
  <1>2. e \in N
    OBVIOUS
  <1> HIDE DEF N, A
  <1> QED
    BY <1>1, <1>2

(* claim_outbox. *)
LEMMA ClaimOutboxKeeps ==
    ASSUME IInv, NEW r \in Request, ClaimOutbox(r)
    PROVE  IInv'
  <1>0. TableType
    BY Parts
  <1>1. OnlyOutbox /\ intents' = intents /\ results' = results
    BY DEF ClaimOutbox, OnlyOutbox
  <1>2. Waits(outbox[r])
    BY TurnFacts DEF ClaimOutbox, Waits
  <1>3. epoch \in 0 .. MaxEpoch
    BY <1>0, GatewayAssumption DEF TableType, Epoch
  <1>4. outbox' = [outbox EXCEPT ![r].state = "CLAIMED", ![r].by = epoch, ![r].expired = FALSE]
    BY DEF ClaimOutbox
  <1>5. /\ outbox' \in [Request -> Outbox] /\ outbox'[r].state = "CLAIMED"
        /\ outbox'[r].result = outbox[r].result /\ outbox'[r].finalized = outbox[r].finalized
        /\ outbox'[r].boundary = outbox[r].boundary
        /\ \A q \in Request : q # r => outbox'[q] = outbox[q]
    <2>1. outbox \in [Request -> Outbox] /\ outbox[r] \in Outbox
      BY <1>0 DEF TableType
    <2>2. outbox' = [outbox EXCEPT ![r] = [outbox[r] EXCEPT !.state = "CLAIMED", !.by = epoch, !.expired = FALSE]]
      BY <1>4, <2>1
    <2>3. outbox' \in [Request -> Outbox]
      BY <1>3, <2>1, <2>2, ClaimTypes
    <2> QED
      BY <2>1, <2>2, <2>3 DEF Outbox
  <1>6. gen[r].status # "NONE"
    BY <1>2, WaitingIsOpen
  <1>7. WorkerType' /\ w'.pc = "load" /\ w'.r = r
    BY ServeType DEF ClaimOutbox, AllPc, DispatchPc
  <1>8. WorkerInv'
    BY <1>1, <1>5, <1>6, <1>7
    DEF WorkerInv, OnlyOutbox, ProcessPc, ClosingPc, DesktopPc, FinalPc, DecidedPc
  <1> QED
    BY <1>1, <1>2, <1>5, <1>7, <1>8, ClaimWritten DEF Waits

(* A claim expires. *)
LEMMA ExpireClaimKeeps ==
    ASSUME IInv, NEW r \in Request, ExpireClaim(r)
    PROVE  IInv'
  <1>0. TableType /\ WorkerType /\ WorkerInv
    BY Parts
  <1>1. OnlyOutbox /\ intents' = intents /\ results' = results /\ w' = w
    BY DEF ExpireClaim, OnlyOutbox
  <1>2. outbox[r].state = "CLAIMED" /\ outbox' = [outbox EXCEPT ![r].expired = TRUE]
    BY DEF ExpireClaim
  <1>3. /\ outbox' \in [Request -> Outbox] /\ outbox'[r].state = "CLAIMED"
        /\ outbox'[r].result = outbox[r].result /\ outbox'[r].finalized = outbox[r].finalized
        /\ outbox'[r].boundary = outbox[r].boundary /\ outbox'[r].expired
        /\ \A q \in Request : q # r => outbox'[q] = outbox[q]
    BY <1>0, <1>2 DEF TableType, Outbox
  <1>4. WorkerType'
    BY <1>0, <1>1 DEF WorkerType
  <1>5. WorkerInv'
    <2>1. CASE w.pc = "loop"
      BY <2>1, <1>1 DEF WorkerInv
    <2>2. CASE w.pc # "loop" /\ w.r # r
      <3>1. w.r \in Request /\ outbox'[w.r] = outbox[w.r]
        BY <2>2, <1>0, <1>3 DEF WorkerType
      <3> QED
        BY <3>1, <1>1, WorkerStays DEF OnlyOutbox
    <2>3. CASE w.pc # "loop" /\ w.r = r
      BY <2>3, <1>0, <1>1, <1>2, <1>3 DEF WorkerInv, OnlyOutbox, HasOutbox, Settled, Answered
    <2> QED
      BY <2>1, <2>2, <2>3
  <1> QED
    BY <1>1, <1>2, <1>3, <1>4, <1>5, ClaimWritten DEF Waits

(* mark_outbox_dispatch_started: the boundary is crossed before anything is  *)
(* sent.                                                                     *)
LEMMA MarkDispatchStartedKeeps ==
    ASSUME IInv, MarkDispatchStarted
    PROVE  IInv'
  <1>0. TableType /\ WorkerType /\ WorkerInv
    BY Parts
  <1>1. /\ OnlyOutbox /\ intents' = intents /\ results' = results /\ w.pc = "boundary"
    BY DEF MarkDispatchStarted, OnlyOutbox, At
  <1>2. /\ w.pc # "loop" /\ w.r \in Request /\ outbox[w.r].state = "CLAIMED" /\ gen[w.r].status # "NONE"
    BY <1>0, <1>1 DEF WorkerType, WorkerInv
  <1>3. CASE Raise /\ outbox' = outbox
    <2>1. WorkerType' /\ WorkerInv'
      BY <1>1, <1>2, <1>3, StepRaises DEF OnlyOutbox
    <2> QED
      BY <1>0, <1>1, <1>3, <2>1, LocalOnly DEF OnlyOutbox, TableType
  <1>4. CASE ~ (Raise /\ outbox' = outbox)
    <2>1. outbox[w.r].boundary = 0 /\ outbox' = [outbox EXCEPT ![w.r].boundary = epoch] /\ Goto("call")
      BY <1>4 DEF MarkDispatchStarted
    <2>2. epoch \in 0 .. MaxEpoch /\ epoch # 0
      BY <1>0, GatewayAssumption DEF TableType, Epoch
    <2>3. /\ outbox' \in [Request -> Outbox] /\ outbox'[w.r].state = "CLAIMED"
          /\ outbox'[w.r].result = outbox[w.r].result /\ outbox'[w.r].finalized = outbox[w.r].finalized
          /\ outbox'[w.r].boundary # 0
          /\ \A q \in Request : q # w.r => outbox'[q] = outbox[q]
      <3>1. outbox \in [Request -> Outbox] /\ outbox[w.r] \in Outbox
        BY <1>0, <1>2 DEF TableType
      <3>2. outbox' = [outbox EXCEPT ![w.r] = [outbox[w.r] EXCEPT !.boundary = epoch]]
        BY <2>1, <3>1
      <3>3. outbox' \in [Request -> Outbox]
        BY <1>2, <2>2, <3>1, <3>2, ClaimTypes
      <3> QED
        BY <1>2, <2>2, <3>1, <3>2, <3>3 DEF Outbox
    <2>4. WorkerType' /\ w'.pc = "call" /\ w'.r = w.r
      BY <1>0, <1>2, <2>1, GotoType DEF AllPc, DispatchPc
    <2>5. platform[w.r].sends = 0
      BY <1>2, <2>1, Parts DEF RequestInv, OutboxInv
    <2>6. WorkerInv'
      BY <1>1, <1>2, <2>3, <2>4, <2>5
      DEF WorkerInv, OnlyOutbox, ProcessPc, ClosingPc, DesktopPc, FinalPc, DecidedPc
    <2> QED
      BY <1>1, <1>2, <2>3, <2>4, <2>6, ClaimWritten DEF Waits
  <1> QED
    BY <1>3, <1>4

-----------------------------------------------------------------------------
(* Answers and what follows from them.                                      *)

(* The two kinds of answer. *)
LEMMA AnswerFacts ==
    ASSUME NEW a \in Answer
    PROVE  /\ a.status \in PartStage
           /\ \/ /\ a.kind = "receipt" /\ a.stages \subseteq PartStage
                 /\ ValidReceipt(a.status, a.stages)
              \/ a = ErrorAnswer("AMBIGUOUS") \/ a = ErrorAnswer("FAILED_FINAL")
  <1>1. CASE a \in Receipt
    BY <1>1, GatewayAssumption DEF Receipt
  <1>2. CASE a = ErrorAnswer("AMBIGUOUS") \/ a = ErrorAnswer("FAILED_FINAL")
    BY <1>2 DEF ErrorAnswer, PartStage
  <1> QED
    BY <1>1, <1>2 DEF Answer

(* CompletionGate.evaluate tells the truth about a truthful answer. *)
LEMMA OutcomeIsTrue ==
    ASSUME NEW a \in Answer, NEW accepted \in Accepted, Truthful(a, accepted)
    PROVE  /\ Outcome(a) = "COMPLETED" => accepted = "all"
           /\ Outcome(a) = "PARTIAL" => accepted = "some"
           /\ Outcome(a) = "FAILED" => accepted = "none"
           /\ Outcome(a) \in {"COMPLETED", "PARTIAL", "FAILED"} => a.status # "AMBIGUOUS"
  <1>1. CASE a = ErrorAnswer("AMBIGUOUS")
    BY <1>1 DEF Outcome, ErrorAnswer
  <1>2. CASE a = ErrorAnswer("FAILED_FINAL")
    <2>1. a.kind = "error" /\ a.status = "FAILED_FINAL" /\ a.stages = {}
      BY <1>2 DEF ErrorAnswer
    <2>2. accepted = "none"
      BY <2>1 DEF Truthful, ErrorAnswer
    <2>3. Outcome(a) = "FAILED"
      BY <2>1 DEF Outcome
    <2> QED
      BY <2>1, <2>2, <2>3
  <1>3. CASE a.kind = "receipt"
    <2>1. a.status \in PartStage /\ a.stages \subseteq PartStage /\ ValidReceipt(a.status, a.stages)
      BY <1>3, AnswerFacts DEF ErrorAnswer
    <2>2. /\ accepted = "all" => a.stages \cap FailedStage = {}
          /\ accepted = "none" => "CHANNEL_ACCEPTED" \notin a.stages
          /\ accepted = "some" => /\ a.stages \cap {"CHANNEL_ACCEPTED", "AMBIGUOUS"} # {}
                                  /\ a.stages # {"CHANNEL_ACCEPTED"}
      BY <1>3 DEF Truthful, ErrorAnswer
    <2>3. CASE a.status = "AMBIGUOUS"
      BY <2>3 DEF Outcome
    <2>4. CASE a.status # "AMBIGUOUS"
      <3>1. "AMBIGUOUS" \notin a.stages
        BY <2>1, <2>4 DEF ValidReceipt
      <3>2. CASE "FAILED_FINAL" \in a.stages
        <4>1. Outcome(a) = IF "CHANNEL_ACCEPTED" \in a.stages THEN "PARTIAL" ELSE "FAILED"
          BY <2>4, <3>2 DEF Outcome
        <4>2. accepted # "all"
          BY <2>2, <3>2 DEF FailedStage
        <4>3. accepted = "some" => "CHANNEL_ACCEPTED" \in a.stages
          BY <2>2, <3>1
        <4> QED
          BY <2>2, <2>4, <4>1, <4>2, <4>3 DEF Accepted
      <3>3. CASE "FAILED_FINAL" \notin a.stages
        <4>1. Outcome(a) = IF a.stages = {"CHANNEL_ACCEPTED"} THEN "COMPLETED" ELSE "IN_PROGRESS"
          BY <1>3, <2>4, <3>3 DEF Outcome
        <4> QED
          BY <2>2, <2>4, <4>1 DEF Accepted
      <3> QED
        BY <3>2, <3>3
    <2> QED
      BY <2>3, <2>4
  <1> QED
    BY <1>1, <1>2, <1>3, AnswerFacts

(* A truthful answer is stored behind a crossed boundary. *)
LEMMA AnswerStored ==
    ASSUME IInv, NEW r \in Request, NEW a \in Answer, OnlyOutbox,
           outbox[r].state = "CLAIMED", outbox[r].boundary # 0, Truthful(a, platform[r].accepted),
           NEW s \in {"ACKED", "AMBIGUOUS"}, s = "AMBIGUOUS" <=> a.status = "AMBIGUOUS",
           outbox' = [outbox EXCEPT ![r].state = s, ![r].result = a],
           intents' = Drop(intents, r), results' = Append(results, r),
           WorkerType', WorkerInv'
    PROVE  IInv'
  <1>0. TableType /\ RequestInv(r) /\ Waits(outbox[r])
    BY Parts DEF Waits
  <1>1. /\ ~ Settled(r) /\ gen[r].status \notin {"NONE", "RELEASED"} /\ HasOutbox(r)
        /\ ~ outbox[r].finalized /\ outbox[r] \in Outbox
    BY <1>0, WaitingIsOpen
  <1>2. /\ outbox' \in [Request -> Outbox] /\ outbox'[r].state = s /\ outbox'[r].result = a
        /\ outbox'[r].finalized = outbox[r].finalized /\ outbox'[r].boundary = outbox[r].boundary
        /\ \A q \in Request : q # r => outbox'[q] = outbox[q]
    <2>1. outbox \in [Request -> Outbox]
      BY <1>0 DEF TableType
    <2>2. outbox' = [outbox EXCEPT ![r] = [outbox[r] EXCEPT !.state = s, !.result = a]]
      BY <2>1
    <2>3. [outbox[r] EXCEPT !.state = s, !.result = a] \in Outbox
      BY <1>1 DEF Outbox
    <2> QED
      BY <1>1, <2>1, <2>2, <2>3 DEF Outbox
  <1>3. Answered(outbox'[r]) /\ ~ outbox'[r].finalized
    BY <1>1, <1>2 DEF Answered
  <1>4. /\ intents' \in Seq(Request) /\ results' \in Seq(Request) /\ IntentsInv' /\ ResultsInv'
    BY <1>0, <1>2, <1>3, AnsweredLists
  <1>5. RequestInv(r)'
    <2>1. OutboxInv(r)'
      BY <1>0, <1>1, <1>2 DEF RequestInv, OutboxInv, HasOutbox, Waits, Answered, OnlyOutbox
    <2>2. VerdictInv(r)'
      BY <1>0, <1>1, <1>2 DEF RequestInv, VerdictInv, HasOutbox, Settled, OnlyOutbox
    <2>3. GenerationInv(r)'
      BY <1>0, <1>1 DEF RequestInv, GenerationInv, OnlyOutbox
    <2> QED
      BY <2>1, <2>2, <2>3 DEF RequestInv
  <1> QED
    BY <1>2, <1>4, <1>5, OutboxKeeps DEF OnlyOutbox

(* The answer of the communication service. *)
LEMMA RecordResultKeeps ==
    ASSUME IInv, NEW a \in Answer, RecordResult(a)
    PROVE  IInv'
  <1>0. TableType /\ WorkerType /\ WorkerInv
    BY Parts
  <1>1. w.pc = "answer" /\ OnlyOutbox /\ Goto("finalize") /\ Truthful(a, platform[w.r].accepted)
        /\ intents' = Drop(intents, w.r) /\ results' = Append(results, w.r)
    BY DEF RecordResult, At, OnlyOutbox
  <1>2. /\ w.pc # "loop" /\ w.r \in Request /\ outbox[w.r].state = "CLAIMED"
        /\ outbox[w.r].boundary # 0 /\ gen[w.r].status # "NONE"
    BY <1>0, <1>1 DEF WorkerType, WorkerInv
  <1>3. PICK s \in {"ACKED", "AMBIGUOUS"} :
          /\ s = "AMBIGUOUS" <=> a.status = "AMBIGUOUS"
          /\ outbox' = [outbox EXCEPT ![w.r].state = s, ![w.r].result = a]
    BY DEF RecordResult
  <1>4. WorkerType' /\ w'.pc = "finalize" /\ w'.r = w.r
    BY <1>0, <1>1, <1>2, GotoType DEF AllPc, DispatchPc
  <1>5. Answered(outbox'[w.r]) /\ ~ outbox'[w.r].finalized
    <2>1. outbox \in [Request -> Outbox] /\ outbox[w.r] \in Outbox /\ ~ outbox[w.r].finalized
      BY <1>0, <1>2, WaitingIsOpen DEF TableType, Waits
    <2> QED
      BY <1>2, <1>3, <2>1 DEF Answered, Outbox
  <1>6. WorkerInv'
    BY <1>1, <1>2, <1>4, <1>5
    DEF WorkerInv, OnlyOutbox, Answered, ProcessPc, ClosingPc, DesktopPc, FinalPc, DecidedPc
  <1> QED
    BY <1>1, <1>2, <1>3, <1>4, <1>6, AnswerStored

(* An unknown answer is always truthful. *)
LEMMA UnknownIsTruthful ==
    ErrorAnswer("AMBIGUOUS") \in Answer
    /\ ErrorAnswer("AMBIGUOUS").status = "AMBIGUOUS"
    /\ \A x : Truthful(ErrorAnswer("AMBIGUOUS"), x)
  BY DEF Answer, ErrorAnswer, Truthful

(* The orphan branch settles an expired claim as AMBIGUOUS, or raises. *)
LEMMA OrphanKeeps ==
    ASSUME IInv, Orphan
    PROVE  IInv'
  <1>0. TableType /\ WorkerType /\ WorkerInv
    BY Parts
  <1>1. w.pc = "orphan" /\ OnlyOutbox
    BY DEF Orphan, At, OnlyOutbox
  <1>2. /\ w.pc # "loop" /\ w.r \in Request /\ outbox[w.r].state = "CLAIMED"
        /\ outbox[w.r].boundary # 0 /\ outbox[w.r].expired /\ gen[w.r].status # "NONE"
    BY <1>0, <1>1 DEF WorkerType, WorkerInv
  <1>3. CASE PayloadLoads(w.r)
    <2>1. /\ Goto("finalize") /\ intents' = Drop(intents, w.r) /\ results' = Append(results, w.r)
          /\ outbox' = [outbox EXCEPT ![w.r].state = "AMBIGUOUS", ![w.r].result = ErrorAnswer("AMBIGUOUS")]
      BY <1>2, <1>3 DEF Orphan, MarkExpiredAmbiguous
    <2>2. WorkerType' /\ w'.pc = "finalize" /\ w'.r = w.r
      BY <1>0, <1>2, <2>1, GotoType DEF AllPc, DispatchPc
    <2>3. Answered(outbox'[w.r]) /\ ~ outbox'[w.r].finalized
      <3>1. outbox \in [Request -> Outbox] /\ outbox[w.r] \in Outbox /\ ~ outbox[w.r].finalized
        BY <1>0, <1>2, WaitingIsOpen DEF TableType, Waits
      <3> QED
        BY <1>2, <2>1, <3>1 DEF Answered, Outbox
    <2>4. WorkerInv'
      BY <1>1, <1>2, <2>2, <2>3
      DEF WorkerInv, OnlyOutbox, Answered, ProcessPc, ClosingPc, DesktopPc, FinalPc, DecidedPc
    <2> QED
      BY <1>1, <1>2, <2>1, <2>2, <2>4, UnknownIsTruthful, AnswerStored
  <1>4. CASE ~ PayloadLoads(w.r)
    <2>1. Raise /\ outbox' = outbox /\ intents' = intents /\ results' = results
      BY <1>4 DEF Orphan
    <2>2. WorkerType' /\ WorkerInv'
      BY <1>1, <1>2, <2>1, StepRaises DEF OnlyOutbox
    <2> QED
      BY <1>0, <1>1, <2>1, <2>2, LocalOnly DEF OnlyOutbox, TableType
  <1> QED
    BY <1>3, <1>4

(* A claimed payload is loaded, abandoned or left to raise. *)
LEMMA LoadPayloadKeeps ==
    ASSUME IInv, LoadPayload
    PROVE  IInv'
  <1>0. TableType /\ WorkerType /\ WorkerInv
    BY Parts
  <1>1. w.pc = "load" /\ OnlyOutbox
    BY DEF LoadPayload, At, OnlyOutbox
  <1>2. /\ w.pc # "loop" /\ w.r \in Request /\ outbox[w.r].state = "CLAIMED" /\ gen[w.r].status # "NONE"
    BY <1>0, <1>1 DEF WorkerType, WorkerInv
  <1>3. CASE PayloadLoads(w.r)
    <2>1. Goto("authority") /\ outbox' = outbox /\ intents' = intents /\ results' = results
      BY <1>3 DEF LoadPayload
    <2>2. WorkerType' /\ w'.pc = "authority" /\ w'.r = w.r
      BY <1>0, <1>2, <2>1, GotoType DEF AllPc, DispatchPc
    <2>3. WorkerInv'
      BY <1>1, <1>2, <2>1, <2>2
      DEF WorkerInv, OnlyOutbox, ProcessPc, ClosingPc, DesktopPc, FinalPc, DecidedPc
    <2> QED
      BY <1>0, <1>1, <2>1, <2>2, <2>3, LocalOnly DEF OnlyOutbox, TableType
  <1>4. CASE ~ PayloadLoads(w.r)
    <2>1. w' = Loop
      BY <1>4 DEF LoadPayload
    <2>2. CASE outbox' = outbox /\ intents' = intents /\ results' = results
      BY <1>0, <1>1, <2>1, <2>2, WorkerLoops, LocalOnly DEF OnlyOutbox, TableType
    <2>3. CASE ~ (outbox' = outbox /\ intents' = intents /\ results' = results)
      <3>1. /\ outbox[w.r].boundary # 0 /\ intents' = Drop(intents, w.r) /\ results' = Append(results, w.r)
            /\ outbox' = [outbox EXCEPT ![w.r].state = "AMBIGUOUS", ![w.r].result = ErrorAnswer("AMBIGUOUS")]
        BY <2>3 DEF LoadPayload, MarkExpiredAmbiguous
      <3> QED
        BY <1>1, <1>2, <2>1, <3>1, WorkerLoops, UnknownIsTruthful, AnswerStored
    <2> QED
      BY <2>2, <2>3
  <1> QED
    BY <1>3, <1>4

(* The calls that leave the tables alone. *)
LEMMA AuthorityKeeps ==
    ASSUME IInv, InstallAuthority \/ AuthorityFails \/ Finalize
    PROVE  IInv'
  <1>0. TableType /\ WorkerType /\ WorkerInv
    BY Parts
  <1>1. /\ OnlyOutbox /\ outbox' = outbox /\ intents' = intents /\ results' = results
        /\ w.pc \in {"authority", "finalize"}
    BY DEF InstallAuthority, AuthorityFails, Finalize, At, OnlyOutbox, durable
  <1>2. w.pc # "loop" /\ w.r \in Request /\ gen[w.r].status # "NONE"
    BY <1>0, <1>1 DEF WorkerType, WorkerInv
  <1>3. CASE Raise
    <2>1. WorkerType' /\ WorkerInv'
      BY <1>1, <1>2, <1>3, StepRaises DEF OnlyOutbox
    <2> QED
      BY <1>0, <1>1, <2>1, LocalOnly DEF OnlyOutbox, TableType
  <1>4. CASE ~ Raise
    <2>1. \/ w.pc = "authority" /\ Goto("ticket")
          \/ w.pc = "finalize" /\ Goto("settle_delivery")
      BY <1>4 DEF InstallAuthority, AuthorityFails, Finalize, At
    <2>2. /\ WorkerType' /\ w'.r = w.r
          /\ \/ w.pc = "authority" /\ w'.pc = "ticket"
             \/ w.pc = "finalize" /\ w'.pc = "settle_delivery"
      BY <1>0, <1>2, <2>1, GotoType DEF AllPc, DispatchPc
    <2>3. WorkerInv'
      BY <1>0, <1>1, <1>2, <2>2
      DEF WorkerInv, OnlyOutbox, Answered, ProcessPc, ClosingPc, DesktopPc, FinalPc, DecidedPc
    <2> QED
      BY <1>0, <1>1, <2>2, <2>3, LocalOnly DEF OnlyOutbox, TableType
  <1> QED
    BY <1>3, <1>4

(* The one call that sends. *)
LEMMA DispatchDeliveryKeeps ==
    ASSUME IInv, NEW accepted \in Accepted, DispatchDelivery(accepted)
    PROVE  IInv'
  <1>0. TableType /\ WorkerType /\ WorkerInv /\ \A q \in Request : RequestInv(q)
    BY Parts
  <1>1. /\ w.pc = "call" /\ Goto("answer")
        /\ queue' = queue /\ heads' = heads /\ gen' = gen /\ sm' = sm /\ effect' = effect
        /\ outbox' = outbox /\ intents' = intents /\ results' = results
        /\ capsules' = capsules /\ epoch' = epoch /\ cancelling' = cancelling
        /\ platform' = [platform EXCEPT ![w.r] = [sends |-> @.sends + 1, accepted |-> accepted]]
    BY DEF DispatchDelivery, At, durable
  <1>2. /\ w.pc # "loop" /\ w.r \in Request /\ gen[w.r].status # "NONE"
        /\ outbox[w.r].state = "CLAIMED" /\ outbox[w.r].boundary # 0 /\ platform[w.r].sends = 0
    BY <1>0, <1>1 DEF WorkerType, WorkerInv
  <1>3. /\ platform' \in [Request -> [sends : Nat, accepted : Accepted]]
        /\ platform'[w.r].sends = 1
        /\ \A q \in Request : q # w.r => platform'[q] = platform[q]
    <2>1. platform \in [Request -> [sends : Nat, accepted : Accepted]]
      BY <1>0 DEF TableType
    <2>2. platform' = [platform EXCEPT ![w.r] = [sends |-> 1, accepted |-> accepted]]
      BY <1>1, <1>2, <2>1
    <2>3. [sends |-> 1, accepted |-> accepted] \in [sends : Nat, accepted : Accepted]
      OBVIOUS
    <2> QED
      BY <1>2, <2>1, <2>2, <2>3
  <1>4. TableType'
    BY <1>0, <1>1, <1>3 DEF TableType
  <1>5. ~ Settled(w.r) /\ HasOutbox(w.r)
    BY <1>2, WaitingIsOpen DEF Waits
  <1>6. RequestInv(w.r)'
    <2>1. PICK r \in Request : r = w.r
      BY <1>2
    <2>2. OutboxInv(r)'
      BY <1>0, <1>1, <1>2, <1>3, <2>1 DEF RequestInv, OutboxInv, HasOutbox, Waits, Answered
    <2>3. VerdictInv(r)'
      BY <1>0, <1>1, <1>5, <2>1 DEF RequestInv, VerdictInv, HasOutbox, Settled, IsTerminal, TERMINAL_STATES
    <2>4. GenerationInv(r)'
      BY <1>0, <1>1, <2>1 DEF RequestInv, GenerationInv, HasOutbox, Settled
    <2>5. w'.r = r
      BY <1>0, <1>1, <1>2, <2>1, GotoType DEF AllPc, DispatchPc
    <2> QED
      BY <2>2, <2>3, <2>4, <2>5 DEF RequestInv, OutboxInv, VerdictInv, GenerationInv, HasOutbox, Settled
  <1>7. WorkerType' /\ w'.pc = "answer" /\ w'.r = w.r
    BY <1>0, <1>1, <1>2, GotoType DEF AllPc, DispatchPc
  <1>8. WorkerInv'
    BY <1>1, <1>2, <1>7
    DEF WorkerInv, ProcessPc, ClosingPc, DesktopPc, FinalPc, DecidedPc
  <1>9. ASSUME NEW q \in Request PROVE RequestInv(q)'
    <2>1. CASE q = w.r
      BY <2>1, <1>6, <1>7 DEF RequestInv, OutboxInv, VerdictInv, GenerationInv, HasOutbox, Settled
    <2>2. CASE q # w.r
      BY <2>2, <1>0, <1>1, <1>3, RequestFrame DEF QueueMove, GenerationMove
    <2> QED
      BY <2>1, <2>2
  <1>10. IntentsInv' /\ ResultsInv'
    BY <1>1, Parts DEF IntentsInv, ResultsInv, Once, Waits, Answered
  <1> QED
    BY <1>1, <1>4, <1>7, <1>8, <1>9, <1>10, QueueStays, PartsAfter

(* What the worker relies on while it finalizes. *)
LEMMA FinalInv ==
    ASSUME IInv, w.pc \in FinalPc
    PROVE  /\ w.pc # "loop" /\ w.r \in Request /\ gen[w.r].status # "NONE" /\ w.r \notin Desktop
           /\ Answered(outbox[w.r]) /\ ~ outbox[w.r].finalized /\ HasOutbox(w.r)
           /\ outbox[w.r].result \in Answer /\ Truthful(outbox[w.r].result, platform[w.r].accepted)
           /\ outbox[w.r].state = "AMBIGUOUS" <=> outbox[w.r].result.status = "AMBIGUOUS"
  <1>0. WorkerType /\ WorkerInv /\ \A q \in Request : RequestInv(q)
    BY Parts
  <1>1. /\ w.pc # "loop" /\ w.r \in Request /\ gen[w.r].status # "NONE"
        /\ Answered(outbox[w.r]) /\ ~ outbox[w.r].finalized
    BY <1>0 DEF WorkerType, WorkerInv, FinalPc
  <1> QED
    BY <1>0, <1>1 DEF RequestInv, OutboxInv, Answered, HasOutbox

(* The delivery machine follows the stored answer; an unknown outcome ends   *)
(* in RECONCILE_REQUIRED before the worker goes on.                          *)
LEMMA SettleDeliveryKeeps ==
    ASSUME IInv, SettleDelivery
    PROVE  IInv'
  <1>0. TableType /\ WorkerType /\ WorkerInv
    BY Parts
  <1>1. OnlySnapshots /\ w.pc = "settle_delivery"
    BY DEF SettleDelivery, OnlySnapshots, At
  <1>2. /\ w.pc # "loop" /\ w.r \in Request /\ gen[w.r].status # "NONE" /\ w.r \notin Desktop
        /\ Answered(outbox[w.r]) /\ ~ outbox[w.r].finalized /\ HasOutbox(w.r)
        /\ outbox[w.r].result \in Answer
        /\ outbox[w.r].state = "AMBIGUOUS" <=> outbox[w.r].result.status = "AMBIGUOUS"
    BY <1>1, FinalInv DEF FinalPc
  <1>3. PICK s, to : s = sm[w.r].delivery /\ to = DeliveryTarget(s, outbox[w.r].result)
    OBVIOUS
  <1>4. \/ s = to /\ Goto("decide") /\ sm' = sm
        \/ Advance(w.r, "delivery", to) /\ w' = w
        \/ Raise /\ sm' = sm
    BY <1>3 DEF SettleDelivery
  <1>5. outbox[w.r].result.status \in PartStage
    BY <1>2, AnswerFacts
  <1>6. /\ to \in STATE_VALUES.delivery /\ to \notin {"NONE", "NOT_PLANNED", "CANCELLED"}
        /\ outbox[w.r].state = "AMBIGUOUS" /\ s = to => s = "RECONCILE_REQUIRED"
    BY <1>2, <1>3, <1>5 DEF DeliveryTarget, PartStage, STATE_VALUES
  <1>7. CASE Raise /\ sm' = sm
    BY <1>1, <1>2, <1>7, SnapshotRaiseKeeps
  <1>8. CASE s = to /\ Goto("decide") /\ sm' = sm
    <2>1. WorkerType' /\ w'.pc = "decide" /\ w'.r = w.r
      BY <1>0, <1>2, <1>8, GotoType DEF AllPc, DispatchPc
    <2>2. WorkerInv'
      BY <1>1, <1>2, <1>3, <1>6, <1>8, <2>1
      DEF WorkerInv, OnlySnapshots, Answered, ProcessPc, ClosingPc, DesktopPc, FinalPc, DecidedPc
    <2> QED
      BY <1>1, <1>8, <2>1, <2>2, SnapshotSameKeeps
  <1>9. CASE Advance(w.r, "delivery", to) /\ w' = w
    <2>1. WorkerType'
      BY <1>0, <1>9 DEF WorkerType
    <2>2. WorkerInv'
      BY <1>1, <1>2, <1>9
      DEF WorkerInv, OnlySnapshots, Answered, ProcessPc, ClosingPc, DesktopPc, FinalPc, DecidedPc
    <2> QED
      BY <1>1, <1>2, <1>6, <1>9, <2>1, <2>2, DeliveryAdvanceKeeps
  <1> QED
    BY <1>4, <1>7, <1>8, <1>9

(* An outcome is settled, or the turn raises. *)
LEMMA SettleRequestKeeps ==
    ASSUME IInv, SettleRequest
    PROVE  IInv'
  <1>0. TableType /\ WorkerType /\ WorkerInv
    BY Parts
  <1>1. OnlySnapshots /\ w.pc = "settle_request"
    BY DEF SettleRequest, OnlySnapshots, At
  <1>2. /\ w.pc # "loop" /\ w.r \in Request /\ gen[w.r].status # "NONE" /\ w.r \notin Desktop
        /\ Answered(outbox[w.r]) /\ ~ outbox[w.r].finalized /\ HasOutbox(w.r)
        /\ outbox[w.r].result \in Answer /\ Truthful(outbox[w.r].result, platform[w.r].accepted)
        /\ outbox[w.r].state = "AMBIGUOUS" <=> outbox[w.r].result.status = "AMBIGUOUS"
    BY <1>1, FinalInv DEF FinalPc
  <1>3. PICK to : to = Outcome(outbox[w.r].result)
    OBVIOUS
  <1>4. to \in {"COMPLETED", "PARTIAL", "FAILED"}
    BY <1>0, <1>1, <1>3 DEF WorkerInv
  <1>5. /\ to = "COMPLETED" => platform[w.r].accepted = "all"
        /\ to = "PARTIAL" => platform[w.r].accepted = "some"
        /\ to = "FAILED" => platform[w.r].accepted = "none"
        /\ outbox[w.r].state = "ACKED"
    <2>1. platform[w.r].accepted \in Accepted
      BY <1>0, <1>2 DEF TableType
    <2> QED
      BY <1>2, <1>3, <1>4, <2>1, OutcomeIsTrue DEF Answered
  <1>6. CASE Raise /\ sm' = sm
    BY <1>1, <1>2, <1>6, SnapshotRaiseKeeps
  <1>7. CASE CanAdvance(w.r, "request", to) /\ Advance(w.r, "request", to) /\ Goto("retire")
    <2>1. to \in STATE_VALUES.request /\ IsTerminal("request", to)
      BY <1>4 DEF STATE_VALUES, IsTerminal, TERMINAL_STATES
    <2>2. WorkerType' /\ w'.pc = "retire" /\ w'.r = w.r
      BY <1>0, <1>2, <1>7, GotoType DEF AllPc, DispatchPc
    <2>3. sm'[w.r].request = to /\ sm'[w.r].delivery = sm[w.r].delivery
      BY <1>0, <1>2, <1>7, <2>1, AdvanceMoves
    <2>4. WorkerInv'
      BY <1>0, <1>1, <1>2, <2>1, <2>2, <2>3
      DEF WorkerInv, OnlySnapshots, Settled, Answered, ProcessPc, ClosingPc, DesktopPc, FinalPc, DecidedPc
    <2> QED
      BY <1>1, <1>2, <1>5, <1>7, <2>1, <2>2, <2>4, RequestAdvanceKeeps
  <1> QED
    BY <1>3, <1>6, <1>7 DEF SettleRequest

(* The types of a finalized row. *)
LEMMA FinalizedType ==
    ASSUME TableType, NEW r \in Request, outbox' = [outbox EXCEPT ![r].finalized = TRUE]
    PROVE  /\ outbox' \in [Request -> Outbox] /\ outbox'[r].finalized
           /\ outbox'[r].state = outbox[r].state /\ outbox'[r].result = outbox[r].result
           /\ outbox'[r].boundary = outbox[r].boundary
           /\ \A q \in Request : q # r => outbox'[q] = outbox[q]
  <1>1. PICK o \in Outbox : o = [outbox[r] EXCEPT !.finalized = TRUE]
    <2>1. outbox[r] \in Outbox
      BY DEF TableType
    <2> QED
      BY <2>1 DEF Outbox
  <1>2. o.finalized /\ o.state = outbox[r].state /\ o.result = outbox[r].result
        /\ o.boundary = outbox[r].boundary
    BY <1>1 DEF TableType, Outbox
  <1>3. outbox' = [outbox EXCEPT ![r] = o]
    BY <1>1
  <1> QED
    BY <1>2, <1>3 DEF TableType

(* An open outcome is finalized without settling the request. *)
LEMMA DecideKeeps ==
    ASSUME IInv, Decide
    PROVE  IInv'
  <1>0. TableType /\ WorkerType /\ WorkerInv /\ \A q \in Request : RequestInv(q)
    BY Parts
  <1>1. OnlyOutbox /\ w.pc = "decide" /\ intents' = intents
    BY DEF Decide, OnlyOutbox, At
  <1>2. /\ w.pc # "loop" /\ w.r \in Request /\ gen[w.r].status # "NONE"
        /\ Answered(outbox[w.r]) /\ ~ outbox[w.r].finalized /\ HasOutbox(w.r)
    BY <1>1, FinalInv DEF FinalPc
  <1>3. CASE Raise /\ outbox' = outbox /\ results' = results
    <2>1. WorkerType' /\ WorkerInv'
      BY <1>1, <1>2, <1>3, StepRaises DEF OnlyOutbox
    <2> QED
      BY <1>0, <1>1, <1>3, <2>1, LocalOnly DEF OnlyOutbox, TableType
  <1>4. CASE /\ Outcome(outbox[w.r].result) \notin {"IN_PROGRESS", "RECONCILE_REQUIRED"}
             /\ Goto("persist") /\ outbox' = outbox /\ results' = results
    <2>1. WorkerType' /\ w'.pc = "persist" /\ w'.r = w.r
      BY <1>0, <1>2, <1>4, GotoType DEF AllPc, DispatchPc
    <2>2. Outcome(outbox[w.r].result) \in {"COMPLETED", "PARTIAL", "FAILED"}
      BY <1>4 DEF Outcome
    <2>3. WorkerInv'
      BY <1>0, <1>1, <1>2, <1>4, <2>1, <2>2
      DEF WorkerInv, OnlyOutbox, Answered, ProcessPc, ClosingPc, DesktopPc, FinalPc, DecidedPc
    <2> QED
      BY <1>0, <1>1, <1>4, <2>1, <2>3, LocalOnly DEF OnlyOutbox, TableType
  <1>5. CASE MarkFinalized(w.r) /\ w' = Loop
    <2>1. PICK r \in Request : r = w.r
      BY <1>2
    <2>2. outbox' = [outbox EXCEPT ![r].finalized = TRUE] /\ results' = Drop(results, r)
      BY <1>5, <2>1 DEF MarkFinalized
    <2>3. /\ outbox' \in [Request -> Outbox] /\ outbox'[r].finalized
          /\ outbox'[r].state = outbox[r].state /\ outbox'[r].result = outbox[r].result
          /\ outbox'[r].boundary = outbox[r].boundary
          /\ \A q \in Request : q # r => outbox'[q] = outbox[q]
      BY <1>0, <2>2, FinalizedType
    <2>4. /\ intents' \in Seq(Request) /\ results' \in Seq(Request) /\ IntentsInv' /\ ResultsInv'
      BY <1>1, <1>2, <2>1, <2>2, <2>3, FinalizedLists
    <2>5. outbox[r].state = "AMBIGUOUS" => sm[r].delivery = "RECONCILE_REQUIRED"
      BY <1>0, <1>1, <2>1 DEF WorkerInv, DecidedPc, FinalPc
    <2>6. RequestInv(r)'
      <3>1. OutboxInv(r)'
        BY <1>0, <1>1, <1>2, <2>1, <2>3, <2>5
        DEF RequestInv, OutboxInv, HasOutbox, Waits, Answered, OnlyOutbox
      <3>2. VerdictInv(r)'
        BY <1>0, <1>1, <2>3 DEF RequestInv, VerdictInv, HasOutbox, Settled, OnlyOutbox
      <3>3. GenerationInv(r)'
        BY <1>0, <1>1, <2>3 DEF RequestInv, GenerationInv, HasOutbox, Settled, OnlyOutbox
      <3> QED
        BY <3>1, <3>2, <3>3 DEF RequestInv
    <2> QED
      BY <1>1, <1>5, <2>3, <2>4, <2>6, WorkerLoops, OutboxKeeps DEF OnlyOutbox
  <1> QED
    BY <1>3, <1>4, <1>5 DEF Decide

(* The settled request's row is finalized and its generation released. *)
LEMMA CloseOutboxKeeps ==
    ASSUME IInv, CloseOutbox
    PROVE  IInv'
  <1>0. TableType /\ WorkerType /\ WorkerInv /\ \A q \in Request : RequestInv(q)
    BY Parts
  <1>1. /\ w.pc = "mark" /\ intents' = intents /\ queue' = queue /\ heads' = heads /\ sm' = sm
        /\ effect' = effect /\ capsules' = capsules /\ epoch' = epoch
        /\ cancelling' = cancelling /\ platform' = platform /\ w' = Loop
        /\ MarkFinalized(w.r) /\ Release(w.r)
    BY DEF CloseOutbox, At
  <1>2. /\ w.pc # "loop" /\ w.r \in Request /\ gen[w.r].status # "NONE"
        /\ Answered(outbox[w.r]) /\ ~ outbox[w.r].finalized /\ HasOutbox(w.r)
    BY <1>1, FinalInv DEF FinalPc
  <1>3. PICK r \in Request : r = w.r
    BY <1>2
  <1>4. /\ outbox' = [outbox EXCEPT ![r].finalized = TRUE] /\ results' = Drop(results, r)
        /\ Release(r)
    BY <1>1, <1>3 DEF MarkFinalized
  <1>5. /\ outbox' \in [Request -> Outbox] /\ outbox'[r].finalized
        /\ outbox'[r].state = outbox[r].state /\ outbox'[r].result = outbox[r].result
        /\ outbox'[r].boundary = outbox[r].boundary
        /\ \A q \in Request : q # r => outbox'[q] = outbox[q]
    BY <1>0, <1>4, FinalizedType
  <1>6. /\ gen' \in [Request -> Generation]
        /\ gen'[r].status = IF gen[r].status = "ACTIVE" THEN "RELEASED" ELSE gen[r].status
        /\ \A q \in Request : q # r => gen'[q] = gen[q]
    BY <1>0, <1>4, ReleaseMoves
  <1>7. /\ intents' \in Seq(Request) /\ results' \in Seq(Request) /\ IntentsInv' /\ ResultsInv'
    BY <1>1, <1>2, <1>3, <1>4, <1>5, FinalizedLists
  <1>8. /\ outbox[r].state = "AMBIGUOUS" => sm[r].delivery = "RECONCILE_REQUIRED"
        /\ Settled(r) /\ queue[r] = "COMPLETED"
    BY <1>0, <1>1, <1>3 DEF WorkerInv, DecidedPc, FinalPc
  <1>9. RequestInv(r)'
    <2>1. OutboxInv(r)'
      BY <1>0, <1>1, <1>2, <1>3, <1>5, <1>8
      DEF RequestInv, OutboxInv, HasOutbox, Waits, Answered
    <2>2. VerdictInv(r)'
      BY <1>0, <1>1, <1>5 DEF RequestInv, VerdictInv, HasOutbox, Settled
    <2>3. GenerationInv(r)'
      BY <1>0, <1>1, <1>2, <1>3, <1>5, <1>6, <1>8
      DEF RequestInv, GenerationInv, HasOutbox, Settled
    <2> QED
      BY <2>1, <2>2, <2>3 DEF RequestInv
  <1>10. ASSUME NEW q \in Request, q # r PROVE RequestInv(q)'
    BY <1>0, <1>1, <1>5, <1>6, <1>10, RequestFrame DEF QueueMove, GenerationMove
  <1>11. TableType'
    BY <1>0, <1>1, <1>5, <1>6, <1>7 DEF TableType
  <1> QED
    BY <1>1, <1>7, <1>9, <1>10, <1>11, QueueStays, WorkerLoops, PartsAfter

(* The intent becomes durable together with the plan. *)
LEMMA PlanDeliveryKeeps ==
    ASSUME IInv, PlanDelivery
    PROVE  IInv'
  <1>0. TableType /\ WorkerType /\ WorkerInv /\ \A q \in Request : RequestInv(q)
    BY Parts
  <1>1. /\ w.pc = "plan_delivery" /\ queue' = queue /\ heads' = heads /\ gen' = gen
        /\ effect' = effect /\ results' = results /\ capsules' = capsules /\ epoch' = epoch
        /\ cancelling' = cancelling /\ platform' = platform
    BY DEF PlanDelivery, At
  <1>2. /\ w.pc # "loop" /\ w.r \in Request /\ gen[w.r].status # "NONE"
        /\ ~ HasOutbox(w.r) /\ ~ Settled(w.r) /\ w.r \notin Desktop
    BY <1>0, <1>1 DEF WorkerType, WorkerInv, ProcessPc
  <1>3. CASE Raise /\ sm' = sm /\ outbox' = outbox /\ intents' = intents
    BY <1>1, <1>2, <1>3, SnapshotRaiseKeeps DEF OnlySnapshots
  <1>4. CASE ~ (Raise /\ sm' = sm /\ outbox' = outbox /\ intents' = intents)
    <2>1. PICK r \in Request : r = w.r
      BY <1>2
    <2>2. /\ Advance(r, "delivery", "PLANNED") /\ outbox' = [outbox EXCEPT ![r].state = "PENDING"]
          /\ intents' = Append(intents, r) /\ Goto("delivering")
      BY <1>4, <2>1 DEF PlanDelivery
    <2>3. /\ sm' \in [Request -> Snapshot] /\ sm'[r].delivery = "PLANNED"
          /\ sm'[r].request = sm[r].request /\ \A q \in Request : q # r => sm'[q] = sm[q]
      <3>1. "PLANNED" \in STATE_VALUES.delivery
        BY DEF STATE_VALUES
      <3> QED
        BY <1>0, <2>2, <3>1, AdvanceMoves
    <2>4. outbox[r] = NoOutbox /\ platform[r].sends = 0 /\ platform[r].accepted = "none"
      BY <1>2, <2>1, NothingSent
    <2>5. /\ outbox' \in [Request -> Outbox] /\ outbox'[r] = [NoOutbox EXCEPT !.state = "PENDING"]
          /\ \A q \in Request : q # r => outbox'[q] = outbox[q]
      <3>1. outbox \in [Request -> Outbox] /\ outbox[r] \in Outbox
        BY <1>0 DEF TableType
      <3>2. outbox' = [outbox EXCEPT ![r] = [outbox[r] EXCEPT !.state = "PENDING"]]
        BY <2>2, <3>1
      <3>3. [outbox[r] EXCEPT !.state = "PENDING"] \in Outbox
        BY <3>1 DEF Outbox
      <3> QED
        BY <2>4, <3>1, <3>2, <3>3
    <2>6. /\ outbox'[r].state = "PENDING" /\ outbox'[r].result = NoAnswer
          /\ ~ outbox'[r].finalized /\ outbox'[r].boundary = 0
      BY <2>5 DEF NoOutbox
    <2>7. IntentsInv /\ ResultsInv /\ intents \in Seq(Request) /\ results \in Seq(Request)
      BY Parts DEF TableType
    <2>8. /\ \A i \in DOMAIN intents : intents[i] \in Request /\ intents[i] # r
          /\ \A i \in DOMAIN results : results[i] \in Request /\ results[i] # r
      BY <2>4, <2>7 DEF IntentsInv, ResultsInv, Waits, Answered, NoOutbox
    <2>9. /\ intents' \in Seq(Request) /\ Once(intents)'
          /\ \A i \in DOMAIN intents' : intents'[i] = r \/ \E k \in DOMAIN intents : intents'[i] = intents[k]
      BY <2>2, <2>7, <2>8, AppendProps DEF IntentsInv, Once
    <2>10. IntentsInv'
      <3>1. \A i \in DOMAIN intents' : Waits(outbox'[intents'[i]])
        <4>1. ASSUME NEW i \in DOMAIN intents' PROVE Waits(outbox'[intents'[i]])
          <5>1. CASE intents'[i] = r
            BY <5>1, <2>6 DEF Waits
          <5>2. CASE \E k \in DOMAIN intents : intents'[i] = intents[k]
            <6>1. PICK k \in DOMAIN intents : intents'[i] = intents[k]
              BY <5>2
            <6>2. outbox'[intents[k]] = outbox[intents[k]]
              BY <2>5, <2>8
            <6> QED
              BY <6>1, <6>2, <2>7 DEF IntentsInv
          <5> QED
            BY <5>1, <5>2, <2>9
        <4> QED
          BY <4>1
      <3> QED
        BY <2>9, <3>1 DEF IntentsInv
    <2>11. ResultsInv'
      BY <1>1, <2>5, <2>7, <2>8 DEF ResultsInv, Once
    <2>12. RequestInv(r)'
      <3>0. ~ Settled(r) /\ gen[r].status # "NONE" /\ r \notin Desktop
        BY <1>2, <2>1
      <3>1. OutboxInv(r)'
        BY <1>1, <2>4, <2>6, <3>0 DEF OutboxInv, HasOutbox, Waits, Answered
      <3>2. VerdictInv(r)'
        BY <1>0, <1>1, <2>3, <2>6, <3>0 DEF RequestInv, VerdictInv, HasOutbox, Settled
      <3>3. GenerationInv(r)'
        BY <1>0, <1>1, <2>3, <3>0 DEF RequestInv, GenerationInv, Settled
      <3> QED
        BY <3>1, <3>2, <3>3 DEF RequestInv
    <2>13. ASSUME NEW q \in Request, q # r PROVE RequestInv(q)'
      BY <1>0, <1>1, <2>3, <2>5, <2>13, RequestFrame DEF QueueMove, GenerationMove
    <2>14. TableType'
      BY <1>0, <1>1, <2>3, <2>5, <2>9 DEF TableType
    <2>15. WorkerType' /\ w'.pc = "delivering" /\ w'.r = w.r
      BY <1>0, <1>2, <2>2, GotoType DEF AllPc, ProcessPc
    <2>16. WorkerInv'
      BY <1>1, <1>2, <2>1, <2>3, <2>15
      DEF WorkerInv, Settled, ProcessPc, ClosingPc, DesktopPc, FinalPc, DecidedPc
    <2> QED
      BY <1>1, <2>10, <2>11, <2>12, <2>13, <2>14, <2>15, <2>16, QueueStays, PartsAfter
  <1> QED
    BY <1>3, <1>4

-----------------------------------------------------------------------------
(* The invariant.                                                           *)

(* It holds in the empty store. *)
LEMMA InitInv == Init => IInv
  <1> SUFFICES ASSUME Init PROVE IInv
    OBVIOUS
  <1>1. QueueType /\ QueueInv /\ HeadsInv
    BY DEF Init, QueueType, QueueInv, HeadsInv, Once, SessionOrder, SameSession
  <1>2. WorkerType /\ WorkerInv
    BY GatewayAssumption DEF Init, Loop, WorkerType, WorkerInv, AllPc
  <1>3. IntentsInv /\ ResultsInv
    BY DEF Init, IntentsInv, ResultsInv, Once
  <1>4. TableType
    <2>1. NoGeneration \in Generation
      BY GatewayAssumption DEF NoGeneration, Generation, MaxRevision
    <2>2. NoSnapshots \in Snapshot
      BY DEF NoSnapshots, Snapshot
    <2>3. NoOutbox \in Outbox
      BY GatewayAssumption DEF NoOutbox, Outbox
    <2>4. gen \in [Request -> Generation] /\ sm \in [Request -> Snapshot] /\ outbox \in [Request -> Outbox]
      BY <2>1, <2>2, <2>3 DEF Init
    <2>5. /\ effect \in [Request -> EffectState] /\ epoch \in Epoch
          /\ platform \in [Request -> [sends : Nat, accepted : Accepted]]
      BY GatewayAssumption DEF Init, EffectState, Epoch, Accepted
    <2>6. /\ intents \in Seq(Request) /\ results \in Seq(Request)
          /\ capsules \subseteq Request /\ cancelling \subseteq Request
      BY DEF Init
    <2> QED
      BY <2>4, <2>5, <2>6 DEF TableType
  <1>5. ASSUME NEW r \in Request PROVE RequestInv(r)
    <2>1. /\ outbox[r] = NoOutbox /\ sm[r] = NoSnapshots /\ gen[r] = NoGeneration
          /\ platform[r] = [sends |-> 0, accepted |-> "none"]
      BY DEF Init
    <2>2. OutboxInv(r)
      BY <2>1 DEF OutboxInv, NoOutbox, Waits, Answered, HasOutbox
    <2>3. VerdictInv(r)
      BY <2>1 DEF VerdictInv, NoOutbox, NoSnapshots, HasOutbox, Settled, IsTerminal, TERMINAL_STATES
    <2>4. GenerationInv(r)
      BY <2>1 DEF GenerationInv, NoGeneration, NoSnapshots, NoOutbox, HasOutbox
    <2> QED
      BY <2>2, <2>3, <2>4 DEF RequestInv
  <1> QED
    BY <1>1, <1>2, <1>3, <1>4, <1>5, Parts

(* A stuttering step keeps it. *)
LEMMA StutterKeeps ==
    ASSUME IInv, UNCHANGED vars
    PROVE  IInv'
  <1>1. /\ queue' = queue /\ heads' = heads /\ gen' = gen /\ sm' = sm /\ outbox' = outbox
        /\ intents' = intents /\ results' = results /\ epoch' = epoch /\ cancelling' = cancelling
        /\ platform' = platform /\ effect' = effect /\ capsules' = capsules /\ w' = w
    BY DEF vars, durable
  <1>2. WorkerType' /\ WorkerInv'
    BY <1>1, WorkerStays
  <1> QED
    BY <1>1, <1>2, Parts, LocalOnly DEF TableType

(* Every step of the worker keeps it. *)
LEMMA WorkerStepKeeps ==
    ASSUME IInv, WorkerStep
    PROVE  IInv'
  <1>1. CASE TurnStep
    <2>1. PICK r \in Request : \/ RetireTerminal(r) \/ RetireCancelled(r) \/ RecoverNext(r)
                               \/ DispatchTurn(r) \/ ClaimNext(r)
      BY <1>1 DEF TurnStep
    <2> QED
      BY <2>1, RetireKeeps, RecoverKeeps, TakeUpKeeps, ClaimOutboxKeeps, ClaimNextKeeps
      DEF DispatchTurn
  <1>2. CASE ProcessStep
    BY <1>2, InitializeKeeps, AdvanceStepKeeps, EffectKeeps, WorkerRetireKeeps, HandoverKeeps,
       PersistKeeps, ChannelHandoverKeeps, PlanDeliveryKeeps
    DEF ProcessStep
  <1>3. CASE DispatchStep
    BY <1>3, LoadPayloadKeeps, AuthorityKeeps, MarkDispatchStartedKeeps, DispatchDeliveryKeeps,
       RecordResultKeeps, OrphanKeeps, SettleDeliveryKeeps, DecideKeeps, PersistKeeps,
       SettleRequestKeeps, WorkerRetireKeeps, CloseOutboxKeeps
    DEF DispatchStep
  <1>4. CASE UnhandledStep
    BY <1>4, FinalizeUnhandledKeeps, CloseExecutionKeeps, CloseDeliveryKeeps, FailUnhandledKeeps,
       WorkerRetireKeeps
    DEF UnhandledStep
  <1> QED
    BY <1>1, <1>2, <1>3, <1>4 DEF WorkerStep

(* So does every step. *)
LEMMA StepInv == IInv /\ [Next]_vars => IInv'
  <1> SUFFICES ASSUME IInv, [Next]_vars PROVE IInv'
    OBVIOUS
  <1>1. CASE UNCHANGED vars
    BY <1>1, StutterKeeps
  <1>2. CASE WorkerStep
    BY <1>2, WorkerStepKeeps
  <1>3. CASE Heartbeat
    BY <1>3, FenceKeeps
  <1>4. CASE Restart
    BY <1>4, RestartKeeps
  <1>5. ASSUME NEW r \in Request, \/ Register(r) \/ ExpireFence(r) \/ ExpireClaim(r)
                                  \/ CancelGeneration(r) \/ CancelRetire(r)
        PROVE  IInv'
    BY <1>5, RegisterKeeps, FenceKeeps, ExpireClaimKeeps, RetireKeeps
  <1> QED
    BY <1>1, <1>2, <1>3, <1>4, <1>5 DEF Next

(* The inductive invariant holds in every reachable state: of any number of  *)
(* requests, restarts and cancellations.                                     *)
THEOREM GatewayInvariant == Spec => []IInv
  BY InitInv, StepInv, PTL DEF Spec

(* Every channel delivery that was planned has its intent and every intent   *)
(* its plan (apply_event_with_outbox), and the tables hold what they may.    *)
THEOREM TablesAlwaysAgree == Spec => []TablesAgree
  <1>1. IInv => TablesAgree
    BY DEF IInv, TablesAgree, IntentMatchesPlan, RequestInv, VerdictInv
  <1> QED
    BY <1>1, GatewayInvariant, PTL

(* The communication service is asked to send an answer at most once, over   *)
(* all restarts, takeovers and claims.                                       *)
THEOREM AlwaysAtMostOneSend == Spec => []AtMostOneSend
  <1>1. IInv => AtMostOneSend
    BY DEF IInv, AtMostOneSend, RequestInv, OutboxInv
  <1> QED
    BY <1>1, GatewayInvariant, PTL

(* RECOVERY-01: the verdict stored for a channel request is what happened at *)
(* the channel.                                                              *)
THEOREM VerdictAlwaysTrue == Spec => []VerdictIsTrue
  <1>1. IInv => VerdictIsTrue
    BY DEF IInv, VerdictIsTrue, RequestInv, VerdictInv
  <1> QED
    BY <1>1, GatewayInvariant, PTL

(* An unknown outcome is never settled by the gateway. *)
THEOREM AmbiguityAlwaysOpen == Spec => []AmbiguityStaysOpen
  <1>1. IInv => AmbiguityStaysOpen
    BY DEF IInv, AmbiguityStaysOpen, RequestInv, OutboxInv, VerdictInv, HasOutbox
  <1> QED
    BY <1>1, GatewayInvariant, PTL

(* The requests of a session are served one at a time, in the order in which *)
(* they were registered.                                                     *)
THEOREM AlwaysSessionOrder == Spec => []SessionOrder
  <1>1. IInv => SessionOrder
    BY DEF IInv, QueueInv
  <1> QED
    BY <1>1, GatewayInvariant, PTL

(* A released generation leaves nothing behind. *)
THEOREM ReleasedAlwaysSettled == Spec => []ReleasedIsSettled
  <1>1. IInv => ReleasedIsSettled
    BY DEF IInv, ReleasedIsSettled, RequestInv, GenerationInv
  <1> QED
    BY <1>1, GatewayInvariant, PTL

-----------------------------------------------------------------------------
(* What is ended stays ended.                                               *)

EndedStays(r) ==
    /\ gen[r].status \in {"CANCELLED", "RELEASED"} => gen'[r].status = gen[r].status
    /\ Settled(r) => sm'[r].request = sm[r].request /\ platform'[r].sends = platform[r].sends

(* A step that writes no generation but by releasing it, and no request. *)
LEMMA ReleaseOnly ==
    ASSUME TableType, sm' = sm, platform' = platform,
           gen' = gen \/ \E q \in Request : Release(q)
    PROVE  \A r \in Request : EndedStays(r)
  <1>1. CASE gen' = gen
    BY <1>1 DEF EndedStays
  <1>2. ASSUME NEW q \in Request, Release(q) PROVE \A r \in Request : EndedStays(r)
    <2>1. /\ gen'[q].status = IF gen[q].status = "ACTIVE" THEN "RELEASED" ELSE gen[q].status
          /\ \A r \in Request : r # q => gen'[r] = gen[r]
      BY <1>2, ReleaseMoves
    <2> QED
      BY <2>1 DEF EndedStays
  <1> QED
    BY <1>1, <1>2

(* A step that renews or takes over a lease, or cancels it. *)
LEMMA LeaseOnly ==
    ASSUME TableType, sm' = sm, platform' = platform, NEW q \in Request,
           \/ gen' = [gen EXCEPT ![q].revision = Bump(@)]
           \/ gen' = [gen EXCEPT ![q].expired = TRUE]
           \/ gen' = [gen EXCEPT ![q].epoch = epoch, ![q].expired = FALSE, ![q].revision = Bump(@)]
           \/ gen[q].status = "ACTIVE" /\ gen' = [gen EXCEPT ![q].status = "CANCELLED", ![q].revision = Bump(@)]
    PROVE  \A r \in Request : EndedStays(r)
  <1>1. gen \in [Request -> Generation] /\ gen[q] \in Generation
    BY DEF TableType
  <1>2. /\ \A r \in Request : r # q => gen'[r] = gen[r]
        /\ gen[q].status # "ACTIVE" => gen'[q].status = gen[q].status
    <2>1. CASE gen' = [gen EXCEPT ![q].revision = Bump(@)]
      BY <1>1, <2>1 DEF Generation
    <2>2. CASE gen' = [gen EXCEPT ![q].expired = TRUE]
      BY <1>1, <2>2 DEF Generation
    <2>3. CASE gen' = [gen EXCEPT ![q].epoch = epoch, ![q].expired = FALSE, ![q].revision = Bump(@)]
      BY <1>1, <2>3 DEF Generation
    <2>4. CASE gen[q].status = "ACTIVE" /\ gen' = [gen EXCEPT ![q].status = "CANCELLED", ![q].revision = Bump(@)]
      BY <1>1, <2>4 DEF Generation
    <2> QED
      BY <2>1, <2>2, <2>3, <2>4
  <1> QED
    BY <1>2 DEF EndedStays

(* A step that advances one machine. *)
LEMMA AdvanceOnly ==
    ASSUME TableType, gen' = gen, platform' = platform, NEW q \in Request,
           \/ sm' = sm
           \/ \E to \in STATE_VALUES.execution : Advance(q, "execution", to)
           \/ \E to \in STATE_VALUES.delivery : Advance(q, "delivery", to)
           \/ \E to \in STATE_VALUES.request : CanAdvance(q, "request", to) /\ Advance(q, "request", to)
    PROVE  \A r \in Request : EndedStays(r)
  <1>1. CASE sm' = sm
    BY <1>1 DEF EndedStays
  <1>2. ASSUME NEW to \in STATE_VALUES.execution, Advance(q, "execution", to)
        PROVE  \A r \in Request : EndedStays(r)
    <2>1. sm'[q].request = sm[q].request /\ \A r \in Request : r # q => sm'[r] = sm[r]
      BY <1>2, AdvanceMoves
    <2> QED
      BY <2>1 DEF EndedStays
  <1>3. ASSUME NEW to \in STATE_VALUES.delivery, Advance(q, "delivery", to)
        PROVE  \A r \in Request : EndedStays(r)
    <2>1. sm'[q].request = sm[q].request /\ \A r \in Request : r # q => sm'[r] = sm[r]
      BY <1>3, AdvanceMoves
    <2> QED
      BY <2>1 DEF EndedStays
  <1>4. ASSUME NEW to \in STATE_VALUES.request, CanAdvance(q, "request", to), Advance(q, "request", to)
        PROVE  \A r \in Request : EndedStays(r)
    <2>1. sm'[q].request = to /\ \A r \in Request : r # q => sm'[r] = sm[r]
      BY <1>4, AdvanceMoves
    <2>2. sm[q].request = to \/ ~ Settled(q)
      BY <1>4, RequestAdvance
    <2> QED
      BY <2>1, <2>2 DEF EndedStays
  <1> QED
    BY <1>1, <1>2, <1>3, <1>4

(* The turns of the loop. *)
LEMMA TurnRevivesNothing ==
    ASSUME IInv, TurnStep
    PROVE  \A r \in Request : EndedStays(r)
  <1>0. TableType /\ \A q \in Request : RequestInv(q)
    BY Parts
  <1>1. PICK q \in Request : \/ RetireTerminal(q) \/ RetireCancelled(q) \/ RecoverNext(q)
                             \/ DispatchTurn(q) \/ ClaimNext(q)
    BY DEF TurnStep
  <1>2. CASE RetireTerminal(q) \/ RetireCancelled(q) \/ DispatchTurn(q)
    BY <1>0, <1>2, ReleaseOnly
    DEF RetireTerminal, RetireCancelled, RetireStranded, DispatchTurn, FinalizeNext, OrphanNext,
        ClaimOutbox, durable
  <1>3. CASE RecoverNext(q)
    BY <1>0, <1>3, LeaseOnly DEF RecoverNext, Takeover
  <1>4. CASE ClaimNext(q)
    <2>1. gen[q].status = "NONE" /\ sm[q].request = "NONE"
      BY <1>0, <1>4, TurnFacts DEF ClaimNext, RequestInv, GenerationInv
    <2>2. ~ Settled(q)
      BY <2>1 DEF Settled, IsTerminal, TERMINAL_STATES
    <2>3. Advance(q, "request", "RECEIVED") /\ "RECEIVED" \in STATE_VALUES.request
      BY <1>4 DEF ClaimNext, INITIAL_STATES, STATE_VALUES
    <2>4. \A r \in Request : r # q => sm'[r] = sm[r] /\ gen'[r] = gen[r]
      BY <1>0, <1>4, <2>3, AdvanceMoves DEF ClaimNext, TableType
    <2> QED
      BY <1>4, <2>1, <2>2, <2>4 DEF EndedStays, ClaimNext
  <1> QED
    BY <1>1, <1>2, <1>3, <1>4

(* The steps of _process. *)
LEMMA ProcessRevivesNothing ==
    ASSUME IInv, ProcessStep
    PROVE  \A r \in Request : EndedStays(r)
  <1>0. TableType /\ WorkerType
    BY Parts
  <1>1. CASE InitializeExecution \/ InitializeDelivery
    <2>1. w.r \in Request
      BY <1>0, <1>1 DEF InitializeExecution, InitializeDelivery, Initialize, At, WorkerType
    <2>2. "NOT_STARTED" \in STATE_VALUES.execution /\ "NOT_PLANNED" \in STATE_VALUES.delivery
      BY DEF STATE_VALUES
    <2>3. \/ sm' = sm \/ Advance(w.r, "execution", "NOT_STARTED")
          \/ Advance(w.r, "delivery", "NOT_PLANNED")
      BY <1>1 DEF InitializeExecution, InitializeDelivery, Initialize, INITIAL_STATES
    <2>4. gen' = gen /\ platform' = platform
      BY <1>1 DEF InitializeExecution, InitializeDelivery, Initialize
    <2> QED
      BY <1>0, <2>1, <2>2, <2>3, <2>4, AdvanceOnly
  <1>2. CASE AdvanceStep
    <2>1. w.pc \in DOMAIN Script
      BY <1>2 DEF AdvanceStep
    <2>2. PICK m, to, next : m = Script[w.pc].machine /\ to = Script[w.pc].to /\ next = Script[w.pc].next
      OBVIOUS
    <2>3. \/ m = "request" /\ to \in STATE_VALUES.request
          \/ m = "execution" /\ to \in STATE_VALUES.execution
          \/ m = "delivery" /\ to \in STATE_VALUES.delivery
      <3>1. CASE w.pc \in PlainPc
        BY <3>1, <2>2, ScriptFacts
      <3>2. CASE w.pc \notin PlainPc
        BY <3>2, <2>1, <2>2, ScriptFacts DEF Step, STATE_VALUES
      <3> QED
        BY <3>1, <3>2
    <2>4. w.r \in Request
      BY <1>0, <2>1, ScriptFacts DEF WorkerType, PlainPc
    <2>5. /\ gen' = gen /\ platform' = platform
          /\ sm' = sm \/ (CanAdvance(w.r, m, to) /\ Advance(w.r, m, to))
      BY <1>2, <2>2 DEF AdvanceStep
    <2> QED
      BY <1>0, <2>3, <2>4, <2>5, AdvanceOnly
  <1>3. CASE PlanDelivery
    <2>1. w.r \in Request
      BY <1>0, <1>3 DEF PlanDelivery, At, WorkerType
    <2>2. "PLANNED" \in STATE_VALUES.delivery
      BY DEF STATE_VALUES
    <2>3. /\ gen' = gen /\ platform' = platform
          /\ sm' = sm \/ Advance(w.r, "delivery", "PLANNED")
      BY <1>3 DEF PlanDelivery
    <2> QED
      BY <1>0, <2>1, <2>2, <2>3, AdvanceOnly
  <1>4. CASE ChannelHandover
    <2>1. w.r \in Request
      BY <1>0, <1>4 DEF ChannelHandover, At, WorkerType
    <2>2. /\ sm' = sm /\ platform' = platform
          /\ \/ gen' = gen
             \/ gen' = [gen EXCEPT ![w.r].revision = Bump(@)]
             \/ gen' = [gen EXCEPT ![w.r].epoch = epoch, ![w.r].expired = FALSE, ![w.r].revision = Bump(@)]
      BY <1>4 DEF ChannelHandover, Takeover
    <2> QED
      BY <1>0, <2>1, <2>2, ReleaseOnly, LeaseOnly
  <1>5. CASE \/ ClaimEffect \/ StartEffect \/ FailSession \/ ProcessFails \/ ArtifactsFail \/ RejectPlan
             \/ \E status \in {"SUCCEEDED", "FAILED_FINAL", "AMBIGUOUS"} : CompleteEffect(status)
             \/ DesktopHandover \/ DesktopPersist \/ DesktopRetire
    <2>1. gen' = gen /\ sm' = sm /\ platform' = platform
      BY <1>5 DEF ClaimEffect, StartEffect, CompleteEffect, FailSession, ProcessFails, ArtifactsFail,
                  RejectPlan, DesktopHandover, DesktopPersist, PersistResult, DesktopRetire, durable
    <2> QED
      BY <1>0, <2>1, ReleaseOnly
  <1> QED
    BY <1>1, <1>2, <1>3, <1>4, <1>5 DEF ProcessStep

(* The steps of dispatch_next and _finalize. *)
LEMMA DispatchRevivesNothing ==
    ASSUME IInv, DispatchStep
    PROVE  \A r \in Request : EndedStays(r)
  <1>0. TableType /\ WorkerType /\ WorkerInv
    BY Parts
  <1>1. ASSUME NEW accepted \in Accepted, DispatchDelivery(accepted)
        PROVE  \A r \in Request : EndedStays(r)
    <2>1. w.pc = "call" /\ gen' = gen /\ sm' = sm
          /\ platform' = [platform EXCEPT ![w.r] = [sends |-> @.sends + 1, accepted |-> accepted]]
      BY <1>1 DEF DispatchDelivery, At, durable
    <2>2. w.r \in Request /\ outbox[w.r].state = "CLAIMED"
      BY <1>0, <2>1 DEF WorkerType, WorkerInv
    <2>3. ~ Settled(w.r)
      BY <2>2, WaitingIsOpen DEF Waits
    <2>4. \A r \in Request : r # w.r => platform'[r] = platform[r]
      BY <1>0, <2>1, <2>2 DEF TableType
    <2> QED
      BY <2>1, <2>3, <2>4 DEF EndedStays
  <1>2. CASE SettleDelivery
    <2>1. w.r \in Request /\ w.pc = "settle_delivery"
      BY <1>0, <1>2 DEF SettleDelivery, At, WorkerType
    <2>2. outbox[w.r].result.status \in PartStage
      BY <2>1, FinalInv, AnswerFacts DEF FinalPc
    <2>3. PICK to : to = DeliveryTarget(sm[w.r].delivery, outbox[w.r].result)
      OBVIOUS
    <2>4. to \in STATE_VALUES.delivery
      BY <2>2, <2>3 DEF DeliveryTarget, PartStage, STATE_VALUES
    <2>5. gen' = gen /\ platform' = platform /\ (sm' = sm \/ Advance(w.r, "delivery", to))
      BY <1>2, <2>3 DEF SettleDelivery
    <2> QED
      BY <1>0, <2>1, <2>4, <2>5, AdvanceOnly
  <1>3. CASE SettleRequest
    <2>1. w.r \in Request /\ w.pc = "settle_request"
      BY <1>0, <1>3 DEF SettleRequest, At, WorkerType
    <2>2. PICK to : to = Outcome(outbox[w.r].result)
      OBVIOUS
    <2>3. to \in STATE_VALUES.request
      BY <1>0, <2>1, <2>2 DEF WorkerInv, STATE_VALUES
    <2>4. /\ gen' = gen /\ platform' = platform
          /\ sm' = sm \/ (CanAdvance(w.r, "request", to) /\ Advance(w.r, "request", to))
      BY <1>3, <2>2 DEF SettleRequest
    <2> QED
      BY <1>0, <2>1, <2>3, <2>4, AdvanceOnly
  <1>4. CASE CloseOutbox
    <2>1. w.r \in Request /\ Release(w.r) /\ sm' = sm /\ platform' = platform
      BY <1>0, <1>4 DEF CloseOutbox, At, WorkerType
    <2> QED
      BY <1>0, <2>1, ReleaseOnly
  <1>5. CASE \/ LoadPayload \/ InstallAuthority \/ AuthorityFails \/ MarkDispatchStarted
             \/ \E a \in Answer : RecordResult(a)
             \/ Orphan \/ Finalize \/ Decide \/ ChannelPersist \/ RetireHead
    <2>1. gen' = gen /\ sm' = sm /\ platform' = platform
      BY <1>5 DEF LoadPayload, InstallAuthority, AuthorityFails, MarkDispatchStarted, RecordResult,
                  Orphan, Finalize, Decide, ChannelPersist, PersistResult, RetireHead, durable
    <2> QED
      BY <1>0, <2>1, ReleaseOnly
  <1> QED
    BY <1>1, <1>2, <1>3, <1>4, <1>5 DEF DispatchStep

(* The steps of _finalize_unhandled. *)
LEMMA UnhandledRevivesNothing ==
    ASSUME IInv, UnhandledStep
    PROVE  \A r \in Request : EndedStays(r)
  <1>0. TableType /\ WorkerType
    BY Parts
  <1>1. w.r \in Request /\ platform' = platform
    BY <1>0 DEF UnhandledStep, FinalizeUnhandled, CloseExecution, CloseDelivery, CloseMachine,
                FailUnhandled, RetireUnhandled, At, WorkerType
  <1>2. CASE FinalizeUnhandled \/ RetireUnhandled
    <2>1. sm' = sm /\ (gen' = gen \/ Release(w.r))
      BY <1>2 DEF FinalizeUnhandled, RetireUnhandled
    <2> QED
      BY <1>0, <1>1, <2>1, ReleaseOnly
  <1>3. CASE CloseExecution
    <2>1. PICK s, to : /\ s = sm[w.r].execution
                       /\ to = ClosingState("execution", s, effect[w.r] = "SIDE_EFFECT_STARTED")
      OBVIOUS
    <2>2. gen' = gen /\ (sm' = sm \/ (s # to /\ Advance(w.r, "execution", to)))
      BY <1>3, <2>1 DEF CloseExecution, CloseMachine
    <2>3. s # to => to \in STATE_VALUES.execution
      BY <2>1 DEF ClosingState, STATE_VALUES
    <2> QED
      BY <1>0, <1>1, <2>2, <2>3, AdvanceOnly
  <1>4. CASE CloseDelivery
    <2>0. PICK crossed : crossed = (sm[w.r].delivery \in {"SENDING", "UPLOADING", "CHANNEL_ACCEPTED",
                                                          "AMBIGUOUS", "RECONCILE_REQUIRED"})
      OBVIOUS
    <2>1. PICK s, to : s = sm[w.r].delivery /\ to = ClosingState("delivery", s, crossed)
      OBVIOUS
    <2>2. gen' = gen /\ (sm' = sm \/ (s # to /\ Advance(w.r, "delivery", to)))
      BY <1>4, <2>0, <2>1 DEF CloseDelivery, CloseMachine
    <2>3. s # to => to \in STATE_VALUES.delivery
      BY <2>1 DEF ClosingState, STATE_VALUES
    <2> QED
      BY <1>0, <1>1, <2>2, <2>3, AdvanceOnly
  <1>5. CASE FailUnhandled
    <2>1. "FAILED" \in STATE_VALUES.request
      BY DEF STATE_VALUES
    <2>2. /\ gen' = gen
          /\ sm' = sm \/ (CanAdvance(w.r, "request", "FAILED") /\ Advance(w.r, "request", "FAILED"))
      BY <1>5 DEF FailUnhandled
    <2> QED
      BY <1>0, <1>1, <2>1, <2>2, AdvanceOnly
  <1> QED
    BY <1>2, <1>3, <1>4, <1>5 DEF UnhandledStep

(* No step revives what is ended. *)
LEMMA StepRevivesNothing ==
    ASSUME IInv, Next
    PROVE  \A r \in Request : EndedStays(r)
  <1>0. TableType /\ WorkerType
    BY Parts
  <1>1. CASE WorkerStep
    BY <1>1, TurnRevivesNothing, ProcessRevivesNothing, DispatchRevivesNothing, UnhandledRevivesNothing
    DEF WorkerStep
  <1>2. CASE Heartbeat
    <2>1. w.r \in Request
      BY <1>0, <1>2 DEF Heartbeat, WorkerType, ProcessPc
    <2> QED
      BY <1>0, <1>2, <2>1, LeaseOnly DEF Heartbeat
  <1>3. CASE Restart
    BY <1>0, <1>3, ReleaseOnly DEF Restart
  <1>4. ASSUME NEW q \in Request, \/ Register(q) \/ ExpireFence(q) \/ ExpireClaim(q)
                                  \/ CancelGeneration(q) \/ CancelRetire(q)
        PROVE  \A r \in Request : EndedStays(r)
    <2>1. CASE Register(q) \/ ExpireClaim(q) \/ CancelRetire(q)
      BY <1>0, <2>1, ReleaseOnly DEF Register, ExpireClaim, CancelRetire
    <2>2. CASE ExpireFence(q) \/ CancelGeneration(q)
      BY <1>0, <2>2, LeaseOnly DEF ExpireFence, CancelGeneration
    <2> QED
      BY <1>4, <2>1, <2>2
  <1> QED
    BY <1>1, <1>2, <1>3, <1>4 DEF Next

(* A cancelled or released generation never becomes ACTIVE again, and a      *)
(* settled request is neither reopened nor sent for.                         *)
THEOREM NothingIsRevived == Spec => NoRevival
  <1>1. IInv /\ [Next]_vars =>
          [\A r \in Request :
             /\ gen[r].status \in {"CANCELLED", "RELEASED"} => gen'[r].status = gen[r].status
             /\ Settled(r) => sm'[r].request = sm[r].request
                              /\ platform'[r].sends = platform[r].sends]_vars
    BY StepRevivesNothing DEF EndedStays
  <1> QED
    BY <1>1, GatewayInvariant, PTL DEF Spec, NoRevival
=============================================================================
