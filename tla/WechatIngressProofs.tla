------------------------- MODULE WechatIngressProofs -------------------------
(***************************************************************************)
(* Proofs about WechatIngress, for any number of messages and sessions,    *)
(* whichever of them are withheld or malformed, and however often the      *)
(* platform delivers them again and the process stops.                     *)
(*                                                                         *)
(* The inductive invariant says why the order of the requests survives a   *)
(* restart: a poll starts only when no record is pending, so that all      *)
(* pending records were captured by the latest poll that persisted         *)
(* anything; and a message that was decided and not persisted is never     *)
(* persisted later, so that the accepted messages of a session were        *)
(* captured in their order.  The thread's part says which members of the   *)
(* batch at hand are persisted and that the cursor the batch ends with     *)
(* passes nothing else that is not accounted for.                          *)
(***************************************************************************)
EXTENDS WechatIngress, FiniteSetTheorems, TLAPS

(* A message the cursor may pass: persisted, or the rest of a batch that was *)
(* given up after one of its members.                                        *)
Covered(m) ==
    \/ m \in Persisted
    \/ \E n \in Persisted : n < m /\ m <= inbox[n].raw.last /\ inbox[n].next.member = n

(* The ledgers and the journal. *)
Counted ==
    /\ revision = Cardinality(Persisted)
    /\ \A m \in Persisted : inbox[m].persisted < revision
LastIsGreatest == \A m \in Message : ShouldForward(m) => m <= last[SessionOf[m]]
PendingIsLatest == \A m \in Pending, n \in Persisted : inbox[n].persisted <= inbox[m].persisted
CapturedInOrder ==
    \A m, n \in Persisted :
        ShouldForward(m) /\ ShouldForward(n) /\ SessionOf[m] = SessionOf[n] /\ m < n
        => inbox[m].persisted <= inbox[n].persisted
CursorCovered == \A m \in 1 .. cursor.external : Covered(m)
LedgerInv ==
    /\ PersistedIsDecided /\ AckedIsRegistered /\ OneRequestEach /\ OrderedAcrossBatches
    /\ Counted /\ LastIsGreatest /\ PendingIsLatest /\ CapturedInOrder /\ CursorCovered

(* The thread. *)
Forwarding ==
    /\ At("flush") => worker.todo = Pending
    /\ At("deliver") => worker.todo \subseteq Persisted
    /\ worker.accepted =>
        /\ At("flush") \/ At("deliver")
        /\ worker.at \in worker.todo /\ ShouldForward(worker.at) /\ worker.at \in Registered
Polling ==
    At("poll") => worker.at = cursor.external /\ Pending = {} /\ worker.captured = revision
Batch ==
    LET raw == worker.raw
        m == worker.at IN
    /\ raw \in Raw /\ m \in Message
    /\ raw.first <= m /\ m <= raw.last /\ raw.last <= raw.next
    /\ \A k \in Message : raw.first <= k /\ k < m => k \in Persisted
    /\ \A k \in Message : k <= raw.next => Covered(k) \/ (m <= k /\ k <= raw.last)
    /\ worker.captured <= revision
    /\ \A k \in Pending : inbox[k].persisted = worker.captured
    /\ \A k \in Persisted : inbox[k].persisted <= worker.captured
Decided ==
    LET m == worker.at IN
    /\ decision[m] # None
    /\ inbox[m] = None =>
        /\ decision[m].raw = worker.raw
        /\ ShouldForward(m) => \A k \in Message :
               ShouldForward(k) /\ SessionOf[k] = SessionOf[m] => k <= m
ThreadInv ==
    /\ Forwarding /\ Polling
    /\ At("decide") \/ At("persist") => Batch
    /\ At("persist") => Decided

IInv == TypeOK /\ LedgerInv /\ ThreadInv

-----------------------------------------------------------------------------
(* Types of what the ledgers hold.                                          *)

(* The numbers behind the types. *)
LEMMA Types ==
    ASSUME TypeOK
    PROVE  /\ NMessages \in Nat /\ revision \in Nat
           /\ \A m \in Message : m \in Nat /\ m >= 1 /\ m <= NMessages
           /\ \A m \in Persisted : /\ m \in Message /\ inbox[m] \in Record
                                   /\ inbox[m].persisted \in Nat /\ inbox[m].raw \in Raw
                                   /\ inbox[m].raw.last \in Nat
                                   /\ inbox[m].state \in {"ACK_ELIGIBLE", "ACKED"}
           /\ \A m \in Pending : m \in Persisted /\ inbox[m].state = "ACK_ELIGIBLE"
           /\ Persisted \subseteq Message
           /\ cursor.external \in 0 .. NMessages /\ cursor.external \in Nat
  <1>1. NMessages \in Nat
    BY IngressAssumption
  <1>2. \A m \in Message : m \in Nat /\ m >= 1 /\ m <= NMessages
    BY <1>1 DEF Message
  <1>3. ASSUME NEW m \in Persisted
        PROVE  /\ m \in Message /\ inbox[m] \in Record
               /\ inbox[m].persisted \in Nat /\ inbox[m].raw \in Raw /\ inbox[m].raw.last \in Nat
               /\ inbox[m].state \in {"ACK_ELIGIBLE", "ACKED"}
    <2>1. m \in Message /\ inbox[m] \in Record
      BY DEF Persisted, TypeOK
    <2>2. /\ inbox[m].persisted \in 0 .. NMessages /\ inbox[m].raw \in Raw
          /\ inbox[m].state \in {"ACK_ELIGIBLE", "ACKED"}
      BY <2>1 DEF Record
    <2>3. inbox[m].raw.last \in Message
      BY <2>2 DEF Raw
    <2> QED
      BY <1>1, <1>2, <2>1, <2>2, <2>3
  <1>4. cursor.external \in 0 .. NMessages
    BY DEF TypeOK, Token
  <1>5. revision \in 0 .. NMessages
    BY DEF TypeOK
  <1> QED
    BY <1>1, <1>2, <1>3, <1>4, <1>5 DEF Persisted, Pending

(* What a registered request is: a message at some place of the journal.    *)
LEMMA RegisteredFacts ==
    ASSUME TypeOK
    PROVE  /\ Len(journal) \in Nat /\ Registered \subseteq Message
           /\ \A i \in 1 .. Len(journal) : journal[i] \in Registered /\ journal[i] \in Message
  <1>1. journal \in Seq(Message)
    BY DEF TypeOK
  <1>2. Len(journal) \in Nat /\ \A i \in 1 .. Len(journal) : journal[i] \in Message
    BY <1>1
  <1> QED
    BY <1>2 DEF Registered

(* register_request adds the message at the end, if it is not there.         *)
LEMMA RegisterAdds ==
    ASSUME TypeOK, NEW m \in Message, Register(m)
    PROVE  /\ journal' \in Seq(Message)
           /\ Registered' = Registered \cup {m}
           /\ \/ UNCHANGED journal
              \/ /\ m \notin Registered
                 /\ Len(journal') = Len(journal) + 1 /\ journal'[Len(journal) + 1] = m
                 /\ \A i \in 1 .. Len(journal) : journal'[i] = journal[i]
  <1>1. journal \in Seq(Message) /\ Len(journal) \in Nat
    BY DEF TypeOK
  <1>2. CASE m \in Registered
    BY <1>1, <1>2 DEF Register, Registered
  <1>3. CASE m \notin Registered
    <2>1. journal' = Append(journal, m)
      BY <1>3 DEF Register
    <2>2. /\ journal' \in Seq(Message)
          /\ Len(journal') = Len(journal) + 1 /\ journal'[Len(journal) + 1] = m
          /\ \A i \in 1 .. Len(journal) : journal'[i] = journal[i]
      BY <1>1, <2>1
    <2>3. Registered' = Registered \cup {m}
      <3>1. ASSUME NEW x \in Registered' PROVE x \in Registered \cup {m}
        <4>1. PICK i \in 1 .. Len(journal') : x = journal'[i]
          BY DEF Registered
        <4>2. CASE i = Len(journal) + 1
          BY <2>2, <4>1, <4>2
        <4>3. CASE i \in 1 .. Len(journal)
          BY <2>2, <4>1, <4>3 DEF Registered
        <4> QED
          BY <1>1, <2>2, <4>2, <4>3
      <3>2. ASSUME NEW x \in Registered \cup {m} PROVE x \in Registered'
        <4>1. CASE x = m
          <5>1. Len(journal) + 1 \in 1 .. Len(journal')
            BY <1>1, <2>2
          <5> QED
            BY <2>2, <4>1, <5>1 DEF Registered
        <4>2. CASE x \in Registered
          <5>1. PICK i \in 1 .. Len(journal) : x = journal[i]
            BY <4>2 DEF Registered
          <5>2. i \in 1 .. Len(journal') /\ journal'[i] = x
            BY <1>1, <2>2, <5>1
          <5> QED
            BY <5>2 DEF Registered
        <4> QED
          BY <4>1, <4>2
      <3> QED
        BY <3>1, <3>2
    <2> QED
      BY <1>3, <2>2, <2>3
  <1> QED
    BY <1>2, <1>3

-----------------------------------------------------------------------------
(* Steps that leave the ledgers and the journal alone.                      *)

(* A step that writes no ledger keeps what they say. *)
LEMMA LedgersStay ==
    ASSUME IInv, UNCHANGED <<ledgers, journal>>
    PROVE  /\ LedgerInv'
           /\ UNCHANGED <<decision, last, inbox, cursor, revision, journal>>
           /\ Persisted' = Persisted /\ Pending' = Pending /\ Registered' = Registered
           /\ \A m : ShouldForward(m)' = ShouldForward(m) /\ Covered(m)' = Covered(m)
  <1>1. UNCHANGED <<decision, last, inbox, cursor, revision, journal>>
    BY DEF ledgers
  <1>2. Persisted' = Persisted /\ Pending' = Pending /\ Registered' = Registered
    BY <1>1 DEF Persisted, Pending, Registered
  <1>3. \A m : ShouldForward(m)' = ShouldForward(m) /\ Covered(m)' = Covered(m)
    BY <1>1, <1>2 DEF ShouldForward, Covered
  <1>4. PersistedIsDecided' /\ AckedIsRegistered' /\ OneRequestEach' /\ OrderedAcrossBatches'
    BY <1>1, <1>2, <1>3 DEF IInv, LedgerInv, PersistedIsDecided, AckedIsRegistered,
       OneRequestEach, OrderedAcrossBatches
  <1>5. Counted' /\ LastIsGreatest' /\ PendingIsLatest' /\ CapturedInOrder' /\ CursorCovered'
    BY <1>1, <1>2, <1>3 DEF IInv, LedgerInv, Counted, LastIsGreatest, PendingIsLatest,
       CapturedInOrder, CursorCovered
  <1> QED
    BY <1>1, <1>2, <1>3, <1>4, <1>5 DEF LedgerInv

(* An idle thread is well typed. *)
LEMMA IdleType == Idle \in Thread /\ Idle.pc = "idle" /\ ~Idle.accepted
  <1>1. NMessages \in Nat /\ 0 \in 0 .. NMessages
    BY IngressAssumption
  <1>2. External(0) \in Token
    BY <1>1 DEF External, Token
  <1> QED
    BY <1>1, <1>2 DEF Idle, Thread, Pc

(* The thread gives up what it was doing. *)
LEMMA RaiseThread == ASSUME Raise PROVE worker' \in Thread /\ ThreadInv'
BY IdleType DEF Raise, ThreadInv, Forwarding, Polling, At

(* A worker that raises, or dies, forgets its batch and nothing else. *)
LEMMA RaiseKeeps ==
    ASSUME IInv, Raise, UNCHANGED <<ledgers, journal>>, crashes' \in 0 .. MaxCrashes
    PROVE  IInv'
  <1>1. TypeOK'
    BY RaiseThread, LedgersStay DEF IInv, TypeOK
  <1> QED
    BY <1>1, RaiseThread, LedgersStay DEF IInv

(* The worker starts to flush the inbox. *)
LEMMA StartFlushKeeps == ASSUME IInv, StartFlush PROVE IInv'
  <1>1. UNCHANGED <<ledgers, journal, crashes>> /\ Pending \subseteq Message
    BY DEF StartFlush, Pending, Persisted
  <1>2. /\ worker' \in Thread /\ worker'.pc = "flush" /\ worker'.todo = Pending
        /\ ~worker'.accepted
    BY <1>1, IdleType DEF StartFlush, Thread, Pc, Idle
  <1>3. TypeOK'
    BY <1>1, <1>2, LedgersStay DEF IInv, TypeOK
  <1>4. ThreadInv'
    BY <1>1, <1>2, LedgersStay DEF ThreadInv, Forwarding, Polling, At
  <1> QED
    BY <1>1, <1>3, <1>4, LedgersStay DEF IInv

(* A poll starts only when nothing is pending. *)
LEMMA StartPollKeeps == ASSUME IInv, StartPoll PROVE IInv'
  <1>1. UNCHANGED <<ledgers, journal, crashes>> /\ worker.todo = {} /\ At("flush")
    BY DEF StartPoll
  <1>2. Pending = {}
    BY <1>1 DEF IInv, ThreadInv, Forwarding
  <1>3. cursor \in Token /\ cursor.external \in 0 .. NMessages /\ revision \in 0 .. NMessages
    BY DEF IInv, TypeOK, Token
  <1>4. /\ worker' \in Thread /\ worker'.pc = "poll" /\ worker'.at = cursor.external
        /\ worker'.captured = revision /\ ~worker'.accepted
    BY <1>3, IdleType DEF StartPoll, ExternalCursor, Thread, Pc, Idle
  <1>5. TypeOK'
    BY <1>1, <1>4, LedgersStay DEF IInv, TypeOK
  <1>6. ThreadInv'
    BY <1>1, <1>2, <1>4, LedgersStay DEF ThreadInv, Forwarding, Polling, At
  <1> QED
    BY <1>1, <1>5, <1>6, LedgersStay DEF IInv

(* A poll returns a batch that leaves no gap. *)
LEMMA PollReturnsKeeps ==
    ASSUME IInv, NEW first \in Message, NEW final \in Message, PollReturns(first, final),
           first <= worker.at + 1
    PROVE  IInv'
  <1> DEFINE next == IF final > worker.at THEN final ELSE worker.at
             raw == [first |-> first, last |-> final, next |-> next]
  <1>1. UNCHANGED <<ledgers, journal, crashes>> /\ first <= final /\ At("poll")
    BY DEF PollReturns
  <1>2. worker.at = cursor.external /\ Pending = {} /\ worker.captured = revision
    BY <1>1 DEF IInv, ThreadInv, Polling
  <1>3. first \in Nat /\ final \in Nat /\ final >= 1 /\ worker.at \in Nat /\ worker \in Thread
    BY <1>2, Types DEF IInv, TypeOK
  <1>4. next \in Message /\ final <= next /\ worker.at <= next
        /\ (next = worker.at \/ next = final)
    <2>1. worker.at \in 0 .. NMessages
      BY <1>2, Types DEF IInv
    <2> QED
      BY <1>3, <2>1 DEF Message
  <1> HIDE DEF next
  <1>5. raw \in Raw /\ raw.first = first /\ raw.last = final /\ raw.next = next
    BY <1>4 DEF Raw
  <1>6. worker' = [worker EXCEPT !.pc = "decide", !.at = first, !.raw = raw]
    BY DEF PollReturns, next
  <1> HIDE DEF raw
  <1>7. first \in 0 .. NMessages
    BY IngressAssumption DEF Message
  <1>8. /\ worker' \in Thread /\ worker'.pc = "decide" /\ worker'.at = first
        /\ worker'.raw = raw /\ worker'.captured = worker.captured
        /\ worker'.accepted = worker.accepted
    BY <1>3, <1>5, <1>6, <1>7 DEF Thread, Pc
  <1>9. ~worker.accepted
    BY <1>1 DEF IInv, ThreadInv, Forwarding, At
  <1>10. TypeOK'
    BY <1>1, <1>8, LedgersStay DEF IInv, TypeOK
  <1>11. Batch'
    <2>1. \A k \in Message : k <= next => Covered(k) \/ (first <= k /\ k <= final)
      <3> SUFFICES ASSUME NEW k \in Message, k <= next, ~(first <= k /\ k <= final)
                   PROVE  Covered(k)
        OBVIOUS
      <3>1. k \in Nat /\ k >= 1
        BY Types DEF IInv
      <3>2. k <= worker.at
        BY <1>3, <1>4, <3>1
      <3>3. k \in 1 .. cursor.external
        BY <1>2, <1>3, <3>1, <3>2
      <3> QED
        BY <3>3 DEF IInv, LedgerInv, CursorCovered
    <2>2. \A k \in Persisted : inbox[k].persisted <= revision
      <3>1. \A k \in Persisted : inbox[k].persisted < revision
        BY DEF IInv, LedgerInv, Counted
      <3> QED
        BY <3>1, Types DEF IInv
    <2>3. first <= first /\ revision <= revision /\ \A k \in Message : ~(first <= k /\ k < first)
      BY <1>3, Types DEF IInv
    <2> QED
      BY <1>1, <1>2, <1>4, <1>5, <1>8, <2>1, <2>2, <2>3, LedgersStay DEF Batch
  <1>12. ThreadInv'
    BY <1>8, <1>9, <1>11 DEF ThreadInv, Forwarding, Polling, At
  <1> QED
    BY <1>1, <1>10, <1>12, LedgersStay DEF IInv

(* So do a poll that returns what follows the cursor and one that returns older messages again. *)
LEMMA PollKeeps ==
    ASSUME IInv, NEW first \in Message, NEW final \in Message,
           PollNew(final) \/ PollOld(first, final)
    PROVE  IInv'
  <1>1. worker.at \in Nat
    BY DEF IInv, TypeOK, Thread
  <1>2. CASE PollNew(final)
    <2>1. worker.at + 1 \in Message /\ worker.at + 1 <= worker.at + 1
      BY <1>1, <1>2, IngressAssumption DEF PollNew, Message
    <2> QED
      BY <1>2, <2>1, PollReturnsKeeps DEF PollNew
  <1>3. CASE PollOld(first, final)
    <2>1. first <= worker.at + 1
      BY <1>1, <1>3, Types DEF PollOld, IInv
    <2> QED
      BY <1>3, <2>1, PollReturnsKeeps DEF PollOld
  <1> QED
    BY <1>2, <1>3

-----------------------------------------------------------------------------
(* Forwarding and acknowledging.                                            *)

(* The gateway registers the first message that is due, or knows it already. *)
LEMMA RegisterKeeps ==
    ASSUME IInv, NEW m \in Message, m \in worker.todo, At("flush") \/ At("deliver"),
           ShouldForward(m), Register(m), UNCHANGED ledgers
    PROVE  /\ LedgerInv' /\ journal' \in Seq(Message) /\ m \in Registered'
           /\ Registered \subseteq Registered'
           /\ UNCHANGED <<decision, last, inbox, cursor, revision>>
           /\ Persisted' = Persisted /\ Pending' = Pending
           /\ \A k : ShouldForward(k)' = ShouldForward(k)
  <1>0. TypeOK /\ LedgerInv
    BY DEF IInv
  <1>1. UNCHANGED <<decision, last, inbox, cursor, revision>>
    BY DEF ledgers
  <1>2. Persisted' = Persisted /\ Pending' = Pending
    BY <1>1 DEF Persisted, Pending
  <1>3. \A k : ShouldForward(k)' = ShouldForward(k) /\ Covered(k)' = Covered(k)
    BY <1>1, <1>2 DEF ShouldForward, Covered
  <1>4. /\ journal' \in Seq(Message) /\ Registered' = Registered \cup {m}
        /\ \/ UNCHANGED journal
           \/ /\ m \notin Registered
              /\ Len(journal') = Len(journal) + 1 /\ journal'[Len(journal) + 1] = m
              /\ \A i \in 1 .. Len(journal) : journal'[i] = journal[i]
    BY <1>0, RegisterAdds
  <1>5. m \in Persisted
    BY DEF IInv, ThreadInv, Forwarding, Pending
  <1>6. PersistedIsDecided' /\ AckedIsRegistered'
    BY <1>0, <1>1, <1>2, <1>3, <1>4 DEF LedgerInv, PersistedIsDecided, AckedIsRegistered
  <1>7. Counted' /\ LastIsGreatest' /\ PendingIsLatest' /\ CapturedInOrder' /\ CursorCovered'
    BY <1>0, <1>1, <1>2, <1>3 DEF LedgerInv, Counted, LastIsGreatest, PendingIsLatest,
       CapturedInOrder, CursorCovered
  <1>8. OneRequestEach' /\ OrderedAcrossBatches'
    <2>1. CASE UNCHANGED journal
      BY <1>0, <1>1, <1>2, <1>3, <2>1 DEF LedgerInv, OneRequestEach, OrderedAcrossBatches,
         Registered
    <2>2. CASE /\ m \notin Registered
               /\ Len(journal') = Len(journal) + 1 /\ journal'[Len(journal) + 1] = m
               /\ \A i \in 1 .. Len(journal) : journal'[i] = journal[i]
      <3>1. /\ Len(journal) \in Nat
            /\ \A i \in 1 .. Len(journal) : journal[i] \in Registered /\ journal[i] \in Message
        BY <1>0, RegisteredFacts
      <3>2. ASSUME NEW i \in 1 .. Len(journal')
            PROVE  \/ i \in 1 .. Len(journal) /\ journal'[i] = journal[i]
                   \/ i = Len(journal) + 1 /\ journal'[i] = m
        BY <2>2, <3>1
      <3>3. OneRequestEach'
        <4>1. ASSUME NEW i \in 1 .. Len(journal'), NEW j \in 1 .. Len(journal'),
                     journal'[i] = journal'[j]
              PROVE  i = j
          BY <1>0, <2>2, <3>1, <3>2, <4>1 DEF LedgerInv, OneRequestEach
        <4>2. \A k \in Registered' : k \in Persisted' /\ ShouldForward(k)'
          BY <1>0, <1>2, <1>3, <1>4, <1>5 DEF LedgerInv, OneRequestEach
        <4> QED
          BY <4>1, <4>2 DEF OneRequestEach
      <3>4. m \in Pending
        <4>1. inbox[m].state # "ACKED"
          BY <1>0, <1>5, <2>2 DEF LedgerInv, AckedIsRegistered
        <4> QED
          BY <1>0, <1>5, <4>1, Types DEF Pending
      <3>5. ASSUME NEW k \in Registered, SessionOf[k] = SessionOf[m], m < k
            PROVE  inbox[k].persisted = inbox[m].persisted
        <4>1. k \in Persisted /\ ShouldForward(k)
          BY <1>0 DEF LedgerInv, OneRequestEach
        <4>2. inbox[k].persisted <= inbox[m].persisted
          BY <1>0, <3>4, <4>1 DEF LedgerInv, PendingIsLatest
        <4>3. inbox[m].persisted <= inbox[k].persisted
          BY <1>0, <1>5, <3>5, <4>1 DEF LedgerInv, CapturedInOrder
        <4>4. inbox[m].persisted \in Nat /\ inbox[k].persisted \in Nat
          BY <1>0, <1>5, <4>1, Types
        <4> QED
          BY <4>2, <4>3, <4>4
      <3>6. OrderedAcrossBatches'
        <4> SUFFICES ASSUME NEW i \in 1 .. Len(journal'), NEW j \in 1 .. Len(journal'), i < j,
                            SessionOf[journal'[i]] = SessionOf[journal'[j]],
                            journal'[i] > journal'[j]
                     PROVE  inbox[journal'[i]].persisted = inbox[journal'[j]].persisted
          BY <1>1 DEF OrderedAcrossBatches
        <4>1. i \in 1 .. Len(journal) /\ journal'[i] = journal[i]
          BY <3>1, <3>2
        <4>2. CASE j \in 1 .. Len(journal) /\ journal'[j] = journal[j]
          BY <1>0, <4>1, <4>2 DEF LedgerInv, OrderedAcrossBatches
        <4>3. CASE journal'[j] = m
          <5>1. journal[i] \in Registered /\ journal[i] \in Nat /\ m \in Nat
            BY <1>0, <3>1, <4>1, Types
          <5> QED
            BY <3>5, <4>1, <4>3, <5>1
        <4> QED
          BY <3>2, <4>2, <4>3
      <3> QED
        BY <3>3, <3>6
    <2> QED
      BY <1>4, <2>1, <2>2
  <1> QED
    BY <1>1, <1>2, <1>3, <1>4, <1>6, <1>7, <1>8 DEF LedgerInv

(* The gateway accepts a message and its acknowledgement is stored. *)
LEMMA ForwardAcceptedKeeps == ASSUME IInv, NEW m \in Message, ForwardAccepted(m) PROVE IInv'
  <1>2. /\ m \in worker.todo /\ (At("flush") \/ At("deliver")) /\ ShouldForward(m)
        /\ Register(m) /\ UNCHANGED ledgers
    BY DEF ForwardAccepted, Foremost
  <1>3. /\ LedgerInv' /\ journal' \in Seq(Message) /\ m \in Registered'
        /\ UNCHANGED <<decision, last, inbox, cursor, revision>>
        /\ Persisted' = Persisted /\ Pending' = Pending
        /\ ShouldForward(m)' = ShouldForward(m)
    BY <1>2, RegisterKeeps
  <1>4. m \in 0 .. NMessages /\ worker \in Thread
    BY IngressAssumption DEF Message, IInv, TypeOK
  <1>5. /\ worker' \in Thread /\ worker'.pc = worker.pc /\ worker'.todo = worker.todo
        /\ worker'.at = m
    BY <1>4 DEF ForwardAccepted, Thread
  <1>6. TypeOK'
    BY <1>3, <1>5 DEF ForwardAccepted, IInv, TypeOK
  <1>7. Forwarding'
    BY <1>2, <1>3, <1>5 DEF IInv, ThreadInv, Forwarding, At
  <1>8. ThreadInv'
    BY <1>2, <1>5, <1>7 DEF ThreadInv, Polling, At
  <1> QED
    BY <1>3, <1>6, <1>8 DEF IInv

(* The forward fails, before or after the gateway registered it. *)
LEMMA ForwardFailsKeeps == ASSUME IInv, NEW m \in Message, ForwardFails(m) PROVE IInv'
  <1>1. /\ m \in worker.todo /\ (At("flush") \/ At("deliver")) /\ ShouldForward(m)
        /\ (Register(m) \/ UNCHANGED journal) /\ UNCHANGED <<ledgers, crashes>> /\ Raise
    BY DEF ForwardFails, Foremost
  <1>2. CASE Register(m)
    <2>1. /\ LedgerInv' /\ journal' \in Seq(Message)
          /\ UNCHANGED <<decision, last, inbox, cursor, revision>>
      BY <1>1, <1>2, RegisterKeeps
    <2>2. TypeOK'
      BY <1>1, <2>1, RaiseThread DEF IInv, TypeOK
    <2> QED
      BY <1>1, <2>1, <2>2, RaiseThread DEF IInv
  <1>3. CASE UNCHANGED journal
    BY <1>1, <1>3, RaiseKeeps DEF IInv, TypeOK
  <1> QED
    BY <1>1, <1>2, <1>3

(* An acknowledged record was forwarded, or is not to be forwarded. *)
LEMMA MarkAcknowledgedKeeps == ASSUME IInv, NEW m \in Message, MarkAcknowledged(m) PROVE IInv'
  <1>0. TypeOK /\ LedgerInv /\ worker \in Thread /\ inbox \in [Message -> Record \cup {None}]
    BY DEF IInv, TypeOK
  <1>1. m \in worker.todo /\ m \in Persisted /\ (ShouldForward(m) => m \in Registered)
    BY DEF MarkAcknowledged, MayAcknowledge, Foremost, IInv, ThreadInv, Forwarding, Pending
  <1>2. inbox[m] \in Record
    BY <1>0, <1>1, Types
  <1>3. /\ inbox' \in [Message -> Record \cup {None}]
        /\ inbox'[m] \in Record /\ inbox'[m].state = "ACKED"
        /\ inbox'[m].persisted = inbox[m].persisted /\ inbox'[m].raw = inbox[m].raw
        /\ inbox'[m].next = inbox[m].next
        /\ \A k \in Message : k # m => inbox'[k] = inbox[k]
    BY <1>0, <1>2 DEF MarkAcknowledged, Record
  <1>4. UNCHANGED <<decision, last, cursor, revision, journal, crashes>>
    BY DEF MarkAcknowledged
  <1>5. /\ Persisted' = Persisted /\ Registered' = Registered /\ Pending' = Pending \ {m}
        /\ \A k : ShouldForward(k)' = ShouldForward(k)
    <2>1. inbox'[m] # None
      BY <1>3, NoneAssumption
    <2>2. Persisted' = Persisted
      BY <1>1, <1>3, <2>1 DEF Persisted
    <2> QED
      BY <1>3, <1>4, <2>2 DEF Persisted, Pending, Registered, ShouldForward
  <1>6. \A k \in Persisted : /\ inbox'[k].persisted = inbox[k].persisted
                             /\ inbox'[k].raw = inbox[k].raw /\ inbox'[k].next = inbox[k].next
    BY <1>0, <1>3, Types
  <1>7. \A k : Covered(k)' = Covered(k)
    BY <1>5, <1>6 DEF Covered
  <1>8. PersistedIsDecided' /\ AckedIsRegistered'
    BY <1>0, <1>1, <1>3, <1>4, <1>5, <1>6, Types DEF LedgerInv, PersistedIsDecided,
       AckedIsRegistered
  <1>9. OneRequestEach'
    BY <1>0, <1>4, <1>5 DEF LedgerInv, OneRequestEach
  <1>10. OrderedAcrossBatches'
    <2> SUFFICES ASSUME NEW i \in 1 .. Len(journal), NEW j \in 1 .. Len(journal), i < j,
                        SessionOf[journal[i]] = SessionOf[journal[j]], journal[i] > journal[j]
                 PROVE  inbox'[journal[i]].persisted = inbox'[journal[j]].persisted
      BY <1>4 DEF OrderedAcrossBatches
    <2>1. journal[i] \in Persisted /\ journal[j] \in Persisted
      BY <1>0, RegisteredFacts DEF LedgerInv, OneRequestEach
    <2> QED
      BY <1>0, <1>6, <2>1 DEF LedgerInv, OrderedAcrossBatches
  <1>11. Counted' /\ LastIsGreatest' /\ PendingIsLatest' /\ CapturedInOrder' /\ CursorCovered'
    <2>1. Pending \subseteq Persisted
      BY DEF Pending
    <2> QED
      BY <1>0, <1>4, <1>5, <1>6, <1>7, <2>1 DEF LedgerInv, Counted, LastIsGreatest,
         PendingIsLatest, CapturedInOrder, CursorCovered
  <1>12. /\ worker' \in Thread /\ worker'.pc = worker.pc /\ worker'.todo = worker.todo \ {m}
         /\ ~worker'.accepted
    <2>1. 0 \in 0 .. NMessages
      BY IngressAssumption
    <2> QED
      BY <1>0, <2>1 DEF MarkAcknowledged, Thread
  <1>13. TypeOK'
    BY <1>0, <1>3, <1>4, <1>12 DEF TypeOK
  <1>14. ThreadInv'
    BY <1>5, <1>12 DEF MarkAcknowledged, IInv, ThreadInv, Forwarding, Polling, At
  <1> QED
    BY <1>8, <1>9, <1>10, <1>11, <1>13, <1>14 DEF IInv, LedgerInv

-----------------------------------------------------------------------------
(* Deciding and persisting a member.                                        *)

(* What the thread holds while it goes through a batch. *)
LEMMA ProcessingThread ==
    ASSUME IInv, At("decide") \/ At("persist")
    PROVE  /\ Batch /\ worker \in Thread /\ worker.raw \in Raw /\ worker.at \in Message
           /\ ~worker.accepted /\ worker.at \in Nat
           /\ worker.raw.first \in Message /\ worker.raw.last \in Message
           /\ worker.raw.next \in Message
           /\ worker.captured \in Nat /\ worker.captured \in 0 .. NMessages
  <1>1. Batch /\ worker \in Thread
    BY DEF IInv, ThreadInv, TypeOK
  <1>2. worker.raw \in Raw /\ worker.at \in Message
    BY <1>1 DEF Batch
  <1>3. ~worker.accepted
    BY DEF IInv, ThreadInv, Forwarding, At
  <1>4. worker.captured \in 0 .. NMessages
    BY <1>1 DEF Thread
  <1> QED
    BY <1>1, <1>2, <1>3, <1>4, Types DEF Raw, IInv

(* A message that was decided before keeps its decision. *)
LEMMA DecideAgainKeeps == ASSUME IInv, DecideAgain PROVE IInv'
  <1>1. /\ UNCHANGED <<ledgers, journal, crashes>> /\ At("decide")
        /\ decision[worker.at] # None /\ inbox[worker.at] # None
    BY DEF DecideAgain, SameMessage
  <1>2. Batch /\ worker \in Thread /\ ~worker.accepted
    BY <1>1, ProcessingThread
  <1>3. /\ worker' \in Thread /\ worker'.pc = "persist" /\ worker'.at = worker.at
        /\ worker'.raw = worker.raw /\ worker'.captured = worker.captured
        /\ worker'.accepted = worker.accepted
    BY <1>2 DEF DecideAgain, Thread, Pc
  <1>4. TypeOK'
    BY <1>1, <1>3, LedgersStay DEF IInv, TypeOK
  <1>5. Batch'
    BY <1>1, <1>2, <1>3, LedgersStay DEF Batch
  <1>6. Decided'
    BY <1>1, <1>3, LedgersStay DEF Decided
  <1>7. ThreadInv'
    BY <1>2, <1>3, <1>5, <1>6 DEF ThreadInv, Forwarding, Polling, At
  <1> QED
    BY <1>1, <1>4, <1>7, LedgersStay DEF IInv

(* A message is accepted only when no later one of its session was. *)
LEMMA DecideKeeps == ASSUME IInv, Decide PROVE IInv'
  <1>0. PICK m : m = worker.at
    OBVIOUS
  <1>1. PICK class : class = Classify(m)
    OBVIOUS
  <1>2. /\ At("decide") /\ decision[m] = None
        /\ decision' = [decision EXCEPT ![m] = [raw |-> worker.raw, class |-> class]]
        /\ last' = IF class = "ACCEPTED" THEN [last EXCEPT ![SessionOf[m]] = m] ELSE last
        /\ worker' = [worker EXCEPT !.pc = "persist"]
        /\ UNCHANGED <<inbox, cursor, revision, journal, crashes>>
    BY <1>0, <1>1 DEF Decide
  <1>3. /\ Batch /\ worker \in Thread /\ worker.raw \in Raw /\ m \in Message /\ m \in Nat
        /\ ~worker.accepted /\ TypeOK /\ LedgerInv
    BY <1>0, <1>2, ProcessingThread DEF IInv
  <1>4. class \in {"ACCEPTED", "OUT_OF_ORDER", "WITHHELD"}
    BY <1>1 DEF Classify
  <1>5. SessionOf[m] \in Session /\ \A k \in Message : SessionOf[k] \in Session
    BY <1>3, IngressAssumption
  <1>6. class = "ACCEPTED" => last[SessionOf[m]] <= m
    <2>1. last[SessionOf[m]] \in Nat
      BY <1>3, <1>5 DEF TypeOK
    <2> QED
      BY <1>1, <1>3, <2>1 DEF Classify
  <1> DEFINE d == [raw |-> worker.raw, class |-> class]
  <1>7. d \in Decision /\ d # None /\ d.raw = worker.raw /\ d.class = class
    <2>1. d \in Decision
      BY <1>3, <1>4 DEF Decision
    <2> QED
      BY <2>1, NoneAssumption
  <1>8. /\ decision' \in [Message -> Decision \cup {None}] /\ decision'[m] = d
        /\ \A k \in Message : k # m => decision'[k] = decision[k]
    BY <1>2, <1>3, <1>7 DEF TypeOK
  <1>9. /\ last' \in [Session -> 0 .. NMessages]
        /\ class = "ACCEPTED" => last'[SessionOf[m]] = m
        /\ \A x \in Session : x # SessionOf[m] \/ class # "ACCEPTED" => last'[x] = last[x]
    <2>1. last \in [Session -> 0 .. NMessages] /\ m \in 0 .. NMessages
      BY <1>3, IngressAssumption DEF TypeOK, Message
    <2> QED
      BY <1>2, <1>5, <2>1
  <1> HIDE DEF d
  <1>10. /\ worker' \in Thread /\ worker'.pc = "persist" /\ worker'.at = worker.at
         /\ worker'.raw = worker.raw /\ worker'.captured = worker.captured
         /\ worker'.accepted = worker.accepted
    BY <1>2, <1>3 DEF Thread, Pc
  <1>11. TypeOK'
    BY <1>2, <1>3, <1>8, <1>9, <1>10 DEF TypeOK
  <1>12. /\ Persisted' = Persisted /\ Pending' = Pending /\ Registered' = Registered
         /\ \A k : Covered(k)' = Covered(k)
    BY <1>2 DEF Persisted, Pending, Registered, Covered
  <1>13. m \notin Persisted
    BY <1>2, <1>3 DEF LedgerInv, PersistedIsDecided
  <1>14. /\ \A k \in Message : k # m => ShouldForward(k)' = ShouldForward(k)
         /\ ShouldForward(m)' = (class = "ACCEPTED")
         /\ ~ShouldForward(m)
    BY <1>2, <1>7, <1>8 DEF ShouldForward
  <1>15. \A k \in Persisted : k \in Message /\ k # m /\ ShouldForward(k)' = ShouldForward(k)
    BY <1>13, <1>14 DEF Persisted
  <1>16. PersistedIsDecided' /\ AckedIsRegistered' /\ OneRequestEach' /\ OrderedAcrossBatches'
    BY <1>2, <1>3, <1>8, <1>12, <1>15 DEF LedgerInv, PersistedIsDecided, AckedIsRegistered,
       OneRequestEach, OrderedAcrossBatches
  <1>17. Counted' /\ PendingIsLatest' /\ CapturedInOrder' /\ CursorCovered'
    BY <1>2, <1>3, <1>12, <1>15 DEF LedgerInv, Counted, PendingIsLatest, CapturedInOrder,
       CursorCovered
  <1>18. ASSUME class = "ACCEPTED", NEW k \in Message, ShouldForward(k)',
                SessionOf[k] = SessionOf[m]
         PROVE  k <= m
    <2>1. CASE k = m
      BY <1>3, <2>1
    <2>2. CASE k # m
      <3>1. k <= last[SessionOf[m]]
        BY <1>3, <1>14, <1>18, <2>2 DEF LedgerInv, LastIsGreatest
      <3>2. last[SessionOf[m]] \in Nat /\ k \in Nat
        BY <1>3, <1>5, Types DEF TypeOK
      <3> QED
        BY <1>3, <1>6, <1>18, <3>1, <3>2
    <2> QED
      BY <2>1, <2>2
  <1>19. LastIsGreatest'
    <2> SUFFICES ASSUME NEW k \in Message, ShouldForward(k)' PROVE k <= last'[SessionOf[k]]
      BY DEF LastIsGreatest
    <2>1. CASE class = "ACCEPTED" /\ SessionOf[k] = SessionOf[m]
      BY <1>9, <1>18, <2>1
    <2>2. CASE ~(class = "ACCEPTED" /\ SessionOf[k] = SessionOf[m])
      <3>1. k # m /\ ShouldForward(k)
        BY <1>14, <2>2
      <3>2. last'[SessionOf[k]] = last[SessionOf[k]]
        BY <1>5, <1>9, <2>2
      <3> QED
        BY <1>3, <3>1, <3>2 DEF LedgerInv, LastIsGreatest
    <2> QED
      BY <2>1, <2>2
  <1>20. Batch'
    BY <1>2, <1>3, <1>10, <1>12 DEF Batch
  <1>21. Decided'
    BY <1>0, <1>7, <1>8, <1>10, <1>14, <1>18 DEF Decided
  <1>22. ThreadInv'
    BY <1>3, <1>10, <1>20, <1>21 DEF ThreadInv, Forwarding, Polling, At
  <1> QED
    BY <1>11, <1>16, <1>17, <1>19, <1>22 DEF IInv, LedgerInv

(* On to the next member, or to the delivery of the whole batch. *)
LEMMA NextMemberThread ==
    ASSUME IInv, At("persist"), NEW token \in Token, NextMember(token),
           worker.at \in Persisted', Persisted \subseteq Persisted',
           \A k \in Message : Covered(k) => Covered(k)',
           worker.captured <= revision',
           \A k \in Pending' : inbox'[k].persisted = worker.captured,
           \A k \in Persisted' : inbox'[k].persisted <= worker.captured
    PROVE  worker' \in Thread /\ ThreadInv'
  <1>1. /\ Batch /\ worker \in Thread /\ worker.raw \in Raw /\ worker.at \in Message
        /\ ~worker.accepted /\ worker.at \in Nat
        /\ worker.raw.first \in Message /\ worker.raw.last \in Message
        /\ worker.raw.next \in Message
    BY ProcessingThread
  <1>2. /\ worker.raw.first \in Nat /\ worker.raw.last \in Nat /\ worker.raw.next \in Nat
        /\ worker.raw.last <= NMessages /\ NMessages \in Nat
    BY <1>1, Types DEF IInv
  <1>3. /\ worker.raw.first <= worker.at /\ worker.at <= worker.raw.last
        /\ worker.raw.last <= worker.raw.next
        /\ \A k \in Message : worker.raw.first <= k /\ k < worker.at => k \in Persisted
        /\ \A k \in Message : k <= worker.raw.next =>
              Covered(k) \/ (worker.at <= k /\ k <= worker.raw.last)
    BY <1>1 DEF Batch
  <1>4. \A k \in Message : k \in Nat /\ k >= 1
    BY Types DEF IInv
  <1>5. CASE worker.at = worker.raw.last
    <2> DEFINE T == worker.raw.first .. worker.raw.last
    <2>1. worker' = [Idle EXCEPT !.pc = "deliver", !.todo = T]
      BY <1>5 DEF NextMember
    <2>2. T \subseteq Message
      BY <1>1, <1>2 DEF Message
    <2>3. T \subseteq Persisted'
      <3> SUFFICES ASSUME NEW k \in T PROVE k \in Persisted'
        OBVIOUS
      <3>1. k \in Message /\ k \in Nat /\ worker.raw.first <= k /\ k <= worker.at
        BY <1>2, <1>5, <2>2
      <3> QED
        BY <1>1, <1>3, <3>1
    <2> HIDE DEF T
    <2>4. worker' \in Thread /\ worker'.pc = "deliver" /\ worker'.todo = T /\ ~worker'.accepted
      BY <2>1, <2>2, IdleType DEF Thread, Pc, Idle
    <2>5. ThreadInv'
      BY <2>3, <2>4 DEF ThreadInv, Forwarding, Polling, At
    <2> QED
      BY <2>4, <2>5
  <1>6. CASE worker.at # worker.raw.last
    <2>1. worker' = [worker EXCEPT !.pc = "decide", !.at = worker.at + 1, !.previous = token]
      BY <1>6 DEF NextMember
    <2>2. worker.at + 1 \in Message /\ worker.at + 1 <= worker.raw.last
      BY <1>1, <1>2, <1>3, <1>6 DEF Message
    <2>3. worker.at + 1 \in 0 .. NMessages
      BY <1>1, <1>2, <2>2
    <2>4. /\ worker' \in Thread /\ worker'.pc = "decide" /\ worker'.at = worker.at + 1
          /\ worker'.raw = worker.raw /\ worker'.captured = worker.captured
          /\ worker'.accepted = worker.accepted
      BY <1>1, <2>1, <2>3 DEF Thread, Pc
    <2>5. \A k \in Message : worker.raw.first <= k /\ k < worker.at + 1 => k \in Persisted'
      BY <1>1, <1>3, <1>4
    <2>6. \A k \in Message : k <= worker.raw.next =>
              Covered(k)' \/ (worker.at + 1 <= k /\ k <= worker.raw.last)
      <3> SUFFICES ASSUME NEW k \in Message, k <= worker.raw.next
                   PROVE  Covered(k)' \/ (worker.at + 1 <= k /\ k <= worker.raw.last)
        OBVIOUS
      <3>1. CASE Covered(k)
        BY <3>1
      <3>2. CASE k = worker.at
        BY <3>2 DEF Covered
      <3>3. CASE worker.at < k /\ k <= worker.raw.last
        BY <1>1, <1>4, <3>3
      <3> QED
        BY <1>1, <1>3, <1>4, <3>1, <3>2, <3>3
    <2>7. worker.raw.first <= worker.at + 1
      BY <1>1, <1>2, <1>3
    <2>8. Batch'
      BY <1>1, <1>3, <2>2, <2>4, <2>5, <2>6, <2>7 DEF Batch
    <2>9. ThreadInv'
      BY <1>1, <2>4, <2>8 DEF ThreadInv, Forwarding, Polling, At
    <2> QED
      BY <2>4, <2>9
  <1> QED
    BY <1>5, <1>6

(* A stored duplicate is skipped, with the cursor of its own record. *)
LEMMA PersistDuplicateKeeps == ASSUME IInv, PersistDuplicate PROVE IInv'
  <1>1. /\ At("persist") /\ inbox[worker.at] # None /\ NextMember(inbox[worker.at].next)
        /\ UNCHANGED <<ledgers, journal, crashes>>
    BY DEF PersistDuplicate
  <1>2. Batch /\ worker.at \in Message
    BY <1>1, ProcessingThread
  <1>3. worker.at \in Persisted
    BY <1>1, <1>2 DEF Persisted
  <1>4. inbox[worker.at] \in Record
    BY <1>3, Types DEF IInv
  <1>5. inbox[worker.at].next \in Token
    BY <1>4 DEF Record
  <1>6. /\ worker.captured <= revision
        /\ \A k \in Pending : inbox[k].persisted = worker.captured
        /\ \A k \in Persisted : inbox[k].persisted <= worker.captured
    BY <1>2 DEF Batch
  <1>7. worker' \in Thread /\ ThreadInv'
    BY <1>1, <1>3, <1>5, <1>6, LedgersStay, NextMemberThread
  <1>8. TypeOK'
    BY <1>1, <1>7, LedgersStay DEF IInv, TypeOK
  <1> QED
    BY <1>1, <1>7, <1>8, LedgersStay DEF IInv

(* A message and the cursor of its batch are stored together. *)
LEMMA PersistKeeps == ASSUME IInv, Persist PROVE IInv'
  <1>0. PICK m : m = worker.at
    OBVIOUS
  <1>1. PICK token : token = NextToken(m)
    OBVIOUS
  <1> DEFINE r == [raw |-> worker.raw, persisted |-> worker.captured, next |-> token,
                   state |-> "ACK_ELIGIBLE"]
  <1>2. /\ At("persist") /\ inbox[m] = None /\ inbox' = [inbox EXCEPT ![m] = r]
        /\ cursor' = token /\ revision' = revision + 1 /\ NextMember(token)
        /\ UNCHANGED <<decision, last, journal, crashes>>
    BY <1>0, <1>1 DEF Persist
  <1>3. /\ Batch /\ worker \in Thread /\ worker.raw \in Raw /\ m \in Message /\ m \in Nat
        /\ worker.raw.last \in Message /\ worker.raw.next \in Message
        /\ worker.captured \in Nat /\ worker.captured \in 0 .. NMessages
        /\ TypeOK /\ LedgerInv /\ Decided
    BY <1>0, <1>2, ProcessingThread DEF IInv, ThreadInv
  <1>4. \A k \in Message : k \in 0 .. NMessages /\ k \in Nat
    BY IngressAssumption DEF Message
  <1>5. /\ token \in Token /\ token.external = worker.raw.next
        /\ m # worker.raw.last => token.member = m
    <2>1. /\ worker.raw.next \in 0 .. NMessages /\ m \in 0 .. NMessages
          /\ 0 \in 0 .. NMessages
      <3>1. NMessages \in Nat
        BY IngressAssumption
      <3>2. 0 \in 0 .. NMessages
        BY <3>1
      <3> QED
        BY <1>3, <1>4, <3>2
    <2>2. CASE m = worker.raw.last
      BY <1>1, <2>1, <2>2 DEF NextToken, External, Token
    <2>3. CASE m # worker.raw.last
      BY <1>1, <1>3, <2>1, <2>3 DEF NextToken, Checkpoint, Token
    <2> QED
      BY <2>2, <2>3
  <1>6. /\ r \in Record /\ r # None /\ r.raw = worker.raw /\ r.persisted = worker.captured
        /\ r.next = token /\ r.state = "ACK_ELIGIBLE"
    <2>1. r \in Record
      BY <1>3, <1>5 DEF Record
    <2> QED
      BY <2>1, NoneAssumption
  <1>7. /\ inbox' \in [Message -> Record \cup {None}] /\ inbox'[m] = r
        /\ \A k \in Message : k # m => inbox'[k] = inbox[k]
    BY <1>2, <1>3, <1>6 DEF TypeOK
  <1> HIDE DEF r
  <1>8. /\ m \notin Persisted /\ Persisted' = Persisted \cup {m} /\ Pending' = Pending \cup {m}
        /\ Registered' = Registered /\ \A k : ShouldForward(k)' = ShouldForward(k)
    <2>1. m \notin Persisted
      BY <1>2 DEF Persisted
    <2>2. Persisted' = Persisted \cup {m}
      BY <1>3, <1>6, <1>7 DEF Persisted
    <2>3. Pending' = Pending \cup {m}
      BY <1>3, <1>6, <1>7, <2>1, <2>2 DEF Pending, Persisted
    <2> QED
      BY <1>2, <2>1, <2>2, <2>3 DEF Registered, ShouldForward
  <1>9. \A k \in Persisted : k \in Message /\ k # m /\ inbox'[k] = inbox[k]
    BY <1>7, <1>8 DEF Persisted
  <1>10. \A k : Covered(k) => Covered(k)'
    BY <1>8, <1>9 DEF Covered
  <1>11. /\ worker.captured <= revision /\ revision \in Nat /\ worker.captured <= worker.captured
         /\ \A k \in Pending : inbox[k].persisted = worker.captured
         /\ \A k \in Persisted : inbox[k].persisted <= worker.captured
    BY <1>3, Types DEF Batch
  <1>12. Pending \subseteq Persisted
    BY DEF Pending
  <1>13. worker' \in Thread /\ ThreadInv'
    <2>1. worker.at \in Persisted' /\ Persisted \subseteq Persisted'
      BY <1>0, <1>8
    <2>2. worker.captured <= revision'
      BY <1>2, <1>3, <1>11
    <2>3. \A k \in Pending' : inbox'[k].persisted = worker.captured
      BY <1>6, <1>7, <1>8, <1>9, <1>11, <1>12
    <2>4. \A k \in Persisted' : inbox'[k].persisted <= worker.captured
      BY <1>6, <1>7, <1>8, <1>9, <1>11
    <2> QED
      BY <1>2, <1>5, <1>10, <2>1, <2>2, <2>3, <2>4, NextMemberThread
  <1>14. Counted' /\ revision' \in 0 .. NMessages
    <2>1. IsFiniteSet(Message) /\ Cardinality(Message) = NMessages
      <3>1. NMessages \in Nat /\ NMessages \in Int /\ 1 \in Int
        BY IngressAssumption
      <3>2. IsFiniteSet(1 .. NMessages) /\ Cardinality(1 .. NMessages) = NMessages
        BY <3>1, FS_Interval
      <3> QED
        BY <3>2 DEF Message
    <2>2. Persisted \subseteq Message /\ Persisted' \subseteq Message
      BY DEF Persisted
    <2>3. IsFiniteSet(Persisted) /\ IsFiniteSet(Persisted')
          /\ Cardinality(Persisted') <= NMessages
      BY <2>1, <2>2, FS_Subset
    <2>4. Cardinality(Persisted') = Cardinality(Persisted) + 1
      BY <1>8, <2>3, FS_AddElement
    <2>5. revision' = Cardinality(Persisted')
      BY <1>2, <1>3, <2>4 DEF LedgerInv, Counted
    <2>6. revision' \in 0 .. NMessages
      BY <1>2, <1>11, <2>3, <2>5, IngressAssumption
    <2>7. \A k \in Persisted' : inbox'[k].persisted < revision'
      <3>1. \A k \in Persisted : inbox[k].persisted < revision /\ inbox[k].persisted \in Nat
        BY <1>3, Types DEF LedgerInv, Counted
      <3>2. worker.captured < revision'
        BY <1>2, <1>3, <1>11
      <3> QED
        BY <1>2, <1>6, <1>7, <1>8, <1>9, <1>11, <3>1, <3>2
    <2> QED
      BY <2>5, <2>6, <2>7 DEF Counted
  <1>15. TypeOK'
    BY <1>2, <1>3, <1>5, <1>7, <1>13, <1>14 DEF TypeOK
  <1>16. PersistedIsDecided'
    <2>1. decision[m] # None /\ decision[m].raw = worker.raw
      BY <1>0, <1>2, <1>3 DEF Decided
    <2> QED
      BY <1>2, <1>3, <1>6, <1>7, <1>8, <1>9, <2>1 DEF LedgerInv, PersistedIsDecided
  <1>17. AckedIsRegistered'
    BY <1>3, <1>6, <1>7, <1>8, <1>9 DEF LedgerInv, AckedIsRegistered
  <1>18. OneRequestEach'
    BY <1>2, <1>3, <1>8 DEF LedgerInv, OneRequestEach
  <1>19. OrderedAcrossBatches'
    <2> SUFFICES ASSUME NEW i \in 1 .. Len(journal), NEW j \in 1 .. Len(journal), i < j,
                        SessionOf[journal[i]] = SessionOf[journal[j]], journal[i] > journal[j]
                 PROVE  inbox'[journal[i]].persisted = inbox'[journal[j]].persisted
      BY <1>2 DEF OrderedAcrossBatches
    <2>1. journal[i] \in Persisted /\ journal[j] \in Persisted
      BY <1>3, RegisteredFacts DEF LedgerInv, OneRequestEach
    <2> QED
      BY <1>3, <1>9, <2>1 DEF LedgerInv, OrderedAcrossBatches
  <1>20. LastIsGreatest'
    BY <1>2, <1>3, <1>8 DEF LedgerInv, LastIsGreatest
  <1>21. PendingIsLatest'
    BY <1>6, <1>7, <1>8, <1>9, <1>11, <1>12 DEF PendingIsLatest
  <1>22. CapturedInOrder'
    <2> SUFFICES ASSUME NEW k \in Persisted', NEW n \in Persisted', ShouldForward(k),
                        ShouldForward(n), SessionOf[k] = SessionOf[n], k < n
                 PROVE  inbox'[k].persisted <= inbox'[n].persisted
      BY <1>8 DEF CapturedInOrder
    <2>1. CASE k \in Persisted /\ n \in Persisted
      BY <1>3, <1>9, <2>1 DEF LedgerInv, CapturedInOrder
    <2>2. CASE k \in Persisted /\ n = m
      BY <1>6, <1>7, <1>9, <1>11, <2>2
    <2>3. CASE k = m
      <3>1. n \in Message /\ n \in Nat
        BY <1>3, <1>4, <1>8 DEF Persisted
      <3>2. n <= m
        BY <1>0, <1>2, <1>3, <2>3, <3>1 DEF Decided
      <3> QED
        BY <1>3, <2>3, <3>1, <3>2
    <2> QED
      BY <1>8, <2>1, <2>2, <2>3
  <1>23. CursorCovered'
    <2> SUFFICES ASSUME NEW k \in 1 .. worker.raw.next PROVE Covered(k)'
      BY <1>2, <1>5 DEF CursorCovered
    <2>1. k \in Message /\ k \in Nat /\ k <= worker.raw.next
      BY <1>3, <1>4, IngressAssumption DEF Message
    <2>2. CASE Covered(k)
      BY <1>10, <2>2
    <2>3. CASE k = m
      BY <1>8, <2>3 DEF Covered
    <2>4. CASE m < k /\ k <= worker.raw.last
      <3>1. m # worker.raw.last
        BY <1>3, <1>4, <2>1, <2>4
      <3> QED
        BY <1>5, <1>6, <1>7, <1>8, <2>4, <3>1 DEF Covered
    <2>5. Covered(k) \/ (m <= k /\ k <= worker.raw.last)
      BY <1>0, <1>3, <2>1 DEF Batch
    <2> QED
      BY <1>3, <2>1, <2>2, <2>3, <2>4, <2>5
  <1> QED
    BY <1>13, <1>14, <1>15, <1>16, <1>17, <1>18, <1>19, <1>20, <1>21, <1>22, <1>23
    DEF IInv, LedgerInv

-----------------------------------------------------------------------------
(* The empty ledgers satisfy the invariant. *)
LEMMA InitInv == ASSUME Init PROVE IInv
  <1>0. NMessages \in Nat /\ 0 \in 0 .. NMessages /\ MaxCrashes \in Nat
    BY IngressAssumption
  <1>1. External(0) \in Token /\ External(0).external = 0
    BY <1>0 DEF External, Token
  <1>2. <<>> \in Seq(Message) /\ Len(<<>>) = 0
    OBVIOUS
  <1>3. TypeOK
    BY <1>0, <1>1, <1>2, IdleType DEF Init, TypeOK
  <1>4. Persisted = {} /\ Pending = {} /\ \A m \in Message : ~ShouldForward(m)
    BY DEF Init, Persisted, Pending, ShouldForward
  <1>5. Registered = {} /\ 1 .. Len(journal) = {} /\ 1 .. cursor.external = {}
    BY <1>1, <1>2 DEF Init, Registered
  <1>6. LedgerInv
    <2>1. Cardinality({}) = 0
      BY FS_EmptySet
    <2>2. Counted
      BY <1>4, <2>1 DEF Init, Counted
    <2> QED
      BY <1>4, <1>5, <2>2 DEF LedgerInv, PersistedIsDecided, AckedIsRegistered, OneRequestEach,
         OrderedAcrossBatches, LastIsGreatest, PendingIsLatest, CapturedInOrder, CursorCovered
  <1>7. ThreadInv
    BY IdleType DEF Init, ThreadInv, Forwarding, Polling, At
  <1> QED
    BY <1>3, <1>6, <1>7 DEF IInv

(* A stuttering step keeps it. *)
LEMMA StutterKeeps == ASSUME IInv, UNCHANGED vars PROVE IInv'
  <1>1. UNCHANGED <<ledgers, journal, worker, crashes>>
    BY DEF vars
  <1>2. TypeOK'
    BY <1>1, LedgersStay DEF IInv, TypeOK
  <1>3. Batch' = Batch
    BY <1>1, LedgersStay DEF Batch
  <1>4. Decided' = Decided
    BY <1>1, LedgersStay DEF Decided
  <1>5. Forwarding' /\ Polling'
    BY <1>1, LedgersStay DEF IInv, ThreadInv, Forwarding, Polling, At
  <1>6. ThreadInv'
    BY <1>1, <1>3, <1>4, <1>5 DEF IInv, ThreadInv, At
  <1> QED
    BY <1>1, <1>2, <1>6, LedgersStay DEF IInv

(* Every step keeps it. *)
LEMMA StepInv == ASSUME IInv, [Next]_vars PROVE IInv'
  <1>1. ASSUME EndDeliver \/ PollEmpty \/ DecideRaises \/ PersistRaises PROVE IInv'
    <2>1. Raise /\ UNCHANGED <<ledgers, journal, crashes>>
      BY <1>1 DEF EndDeliver, PollEmpty, DecideRaises, PersistRaises
    <2> QED
      BY <2>1, RaiseKeeps DEF IInv, TypeOK
  <1>2. ASSUME Crash PROVE IInv'
    <2>1. crashes' \in 0 .. MaxCrashes
      BY <1>2, IngressAssumption DEF Crash, IInv, TypeOK
    <2> QED
      BY <1>2, <2>1, RaiseKeeps DEF Crash
  <1>3. ASSUME Flush PROVE IInv'
    BY <1>1, <1>3, StartFlushKeeps, StartPollKeeps, ForwardAcceptedKeeps, ForwardFailsKeeps,
       MarkAcknowledgedKeeps DEF Flush
  <1>4. ASSUME Process PROVE IInv'
    BY <1>1, <1>4, DecideKeeps, DecideAgainKeeps, PersistKeeps, PersistDuplicateKeeps DEF Process
  <1>5. ASSUME PollNext PROVE IInv'
    BY <1>1, <1>5, PollKeeps DEF PollNext
  <1> QED
    BY <1>2, <1>3, <1>4, <1>5, StutterKeeps DEF Next

(* The inductive invariant holds in every reachable state. *)
THEOREM IngressInvariant == Spec => []IInv
  <1>1. Init => IInv
    BY InitInv
  <1>2. IInv /\ [Next]_vars => IInv'
    BY StepInv
  <1> QED
    BY <1>1, <1>2, PTL DEF Spec

(* Type correctness of the ingress' state. *)
THEOREM IngressTypeCorrect == Spec => []TypeOK
  <1>1. IInv => TypeOK
    BY DEF IInv
  <1> QED
    BY <1>1, IngressInvariant, PTL

(* Wherever the process stops, a message that is acknowledged and was to be  *)
(* forwarded has its request.                                                *)
THEOREM AckedAlwaysRegistered == Spec => []AckedIsRegistered
  <1>1. IInv => AckedIsRegistered
    BY DEF IInv, LedgerInv
  <1> QED
    BY <1>1, IngressInvariant, PTL

(* However often a message is delivered, submitted and answered, it is at    *)
(* most one request.                                                         *)
THEOREM AlwaysOneRequestEach == Spec => []OneRequestEach
  <1>1. IInv => OneRequestEach
    BY DEF IInv, LedgerInv
  <1> QED
    BY <1>1, IngressInvariant, PTL

(* The requests of a session are out of order at most within one batch.      *)
THEOREM AlwaysOrderedAcrossBatches == Spec => []OrderedAcrossBatches
  <1>1. IInv => OrderedAcrossBatches
    BY DEF IInv, LedgerInv
  <1> QED
    BY <1>1, IngressInvariant, PTL

(* The session ledger, the inbox and the cursor agree at every point where   *)
(* the process may stop.                                                     *)
THEOREM LedgersAlwaysAgree == Spec => []LedgersAgree
  <1>1. IInv => LedgersAgree
    BY DEF IInv, LedgerInv, LedgersAgree, SkippedOnlyInBatch, CursorCovered, Covered
  <1> QED
    BY <1>1, IngressInvariant, PTL

=============================================================================
