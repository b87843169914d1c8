------------------------ MODULE ChannelCutoverProofs ------------------------
(***************************************************************************)
(* Proofs about ChannelCutover, for any accounts, lease length, renewal    *)
(* window, clock skew, number of epochs and instants, for one process and  *)
(* for two.                                                                *)
(*                                                                         *)
(* The inductive invariant has three parts beside the properties.  The     *)
(* store: nothing is stored for a later epoch, no stored time is in the    *)
(* future, and a cutover began when every earlier owner had expired.  The  *)
(* coordinator: its locals are what it read from the store, and a cutover  *)
(* that has begun is finished in the same round.  The gate: whoever is     *)
(* inside holds a stored lease; a send or notify_start holds one that was  *)
(* valid at the time it presented, however long ago it read that time; and *)
(* once a cutover's facts have been read no poll or forward of an earlier  *)
(* owner can enter, not even with the stale time of a flush.               *)
(***************************************************************************)
EXTENDS ChannelCutover, FiniteSetTheorems, TLAPS

(* The store. *)
NothingLater(s) ==
    /\ \A g \in Epoch : g > epoch => cutover[s][g] = None
    /\ \A l \in rows[s] : l.epoch <= epoch /\ l.issued <= now
TimesFit(s) ==
    \A g \in Epoch : cutover[s][g] # None =>
        /\ cutover[s][g].started <= cutover[s][g].updated /\ cutover[s][g].updated <= now
OwnersApart(s) ==
    \A l, m \in rows[s] : l.epoch < m.epoch => Expires(l) + ClockSkew <= m.issued
StoreInv(s) ==
    /\ \A g \in Epoch : RowsFit(s, g)
    /\ NothingLater(s) /\ TimesFit(s) /\ OwnersApart(s)

(* The coordinator. *)
Installing == {"renewInstall", "actInstall"}
Reading == {"facts", "deliveries", "inflight"}
CoInv ==
    /\ co.t <= now
    /\ co.pc \in Installing \cup Reading \cup {"cutover"} => co.at \in Scope
    /\ co.pc \in Reading \cup {"act", "actInstall", "cutover"} => co.candidate \in Epoch
    /\ co.pc \in Installing => co.lease \in rows[co.at]
Unfinished(s) ==
    Current(s) # None /\ Current(s).state \in {"DRAINING", "DRAINED"} =>
        /\ co.pc = "cutover" /\ co.at = s
        /\ PriorExpired(s, co.t) /\ Current(s).started <= co.t

(* The gate. *)
LeasesStored(s) ==
    /\ gate[s] # None => gate[s] \in rows[s]
    /\ worker[s].pc \in Inside => worker[s].lease \in rows[s]
    /\ worker[s].pc \notin Inside => worker[s].lease = None
    /\ worker[s].pc = "notify" => Live(worker[s].lease, worker[s].at)
    /\ sender[s].lease # None =>
        sender[s].lease \in rows[s] /\ Live(sender[s].lease, sender[s].at)

(* The lease of a poll or forward that is inside of the gate. *)
WorkLeases(s) == {l \in {worker[s].lease} : worker[s].pc \in {"poll", "forward"}}

(* Epoch g owns the account, or is about to: the facts were read after its   *)
(* predecessors had expired.                                                 *)
Taken(s, g, pcs) ==
    \/ IsActive(cutover[s][g])
    \/ g = epoch /\ co.pc \in pcs /\ co.at = s /\ PriorExpired(s, co.t)
GateClosed(s) ==
    \A g \in Epoch : \A l \in rows[s] : l.epoch < g =>
        /\ Taken(s, g, {"deliveries", "inflight", "cutover"}) =>
            /\ Expires(l) <= now
            /\ worker[s].pc = "flush" /\ inbox[s] = "forward" => ~Live(l, worker[s].at)
        /\ Taken(s, g, {"cutover"}) => l \notin WorkLeases(s)

IInv ==
    /\ TypeOK /\ CoInv
    /\ \A s \in Scope : StoreInv(s) /\ Unfinished(s) /\ LeasesStored(s) /\ GateClosed(s)

-----------------------------------------------------------------------------
(* Facts about leases and the gate.                                         *)

(* The numbers of a lease. *)
LEMMA LeaseTypes ==
    ASSUME NEW l \in Lease
    PROVE  /\ l.epoch \in Epoch /\ l.issued \in Time /\ l.issued \in Nat /\ l.epoch \in Nat
           /\ Expires(l) \in Nat
BY CutoverAssumption DEF Lease, Time, Epoch, Expires

(* No lease of an earlier owner is valid once an epoch has the account. *)
LEMMA NoOldEntry ==
    ASSUME IInv, NEW s \in Scope, NEW g \in Epoch, NEW l \in rows[s], l.epoch < g,
           Taken(s, g, {"cutover"})
    PROVE  /\ ~Live(l, now)
           /\ worker[s].pc = "flush" /\ inbox[s] = "forward" => ~Live(l, worker[s].at)
  <1>1. Taken(s, g, {"deliveries", "inflight", "cutover"})
    BY DEF Taken
  <1>2. l \in Lease
    BY DEF IInv, TypeOK
  <1>3. now \in Nat
    BY CutoverAssumption DEF IInv, TypeOK, Time
  <1> QED
    BY <1>1, <1>2, <1>3, LeaseTypes DEF IInv, GateClosed, Live

(* What an action of the worker or of a sender leaves alone. *)
StoreFrame == UNCHANGED <<now, epoch, cutover, rows, held, co>>

(* The coordinator and the store are kept by a step that writes neither. *)
LEMMA FrameKeeps ==
    ASSUME IInv, StoreFrame
    PROVE  /\ CoInv'
           /\ \A s \in Scope : StoreInv(s)' /\ Unfinished(s)'
           /\ \A s \in Scope, g \in Epoch : \A pcs : Taken(s, g, pcs)' = Taken(s, g, pcs)
  <1>1. CoInv'
    BY DEF IInv, StoreFrame, CoInv
  <1>2. ASSUME NEW s \in Scope PROVE StoreInv(s)'
    <2>1. ASSUME NEW g \in Epoch PROVE RowsFit(s, g)'
      <3>1. RowsFit(s, g)
        BY DEF IInv, StoreInv
      <3>2. RowsFit(s, g)' = RowsFit(s, g)
        <4>1. Chain(s, g)' = Chain(s, g)
          BY DEF StoreFrame, Chain
        <4>2. cutover'[s][g] = cutover[s][g]
          BY DEF StoreFrame
        <4> QED
          BY <4>1, <4>2 DEF RowsFit
      <3> QED
        BY <3>1, <3>2
    <2>2. NothingLater(s)' /\ TimesFit(s)' /\ OwnersApart(s)'
      BY DEF IInv, StoreFrame, StoreInv, NothingLater, TimesFit, OwnersApart
    <2> QED
      BY <2>1, <2>2 DEF StoreInv
  <1>3. ASSUME NEW s \in Scope PROVE Unfinished(s)'
    BY DEF IInv, StoreFrame, Unfinished, Current, PriorExpired
  <1>4. ASSUME NEW s \in Scope, NEW g \in Epoch, NEW pcs
        PROVE  Taken(s, g, pcs)' = Taken(s, g, pcs)
    BY DEF StoreFrame, Taken, PriorExpired
  <1> QED
    BY <1>1, <1>2, <1>3, <1>4

(* Who enters presents a lease that is valid at the time it presents. *)
EntersWith(s, l) ==
    /\ gate[s] # None /\ l = gate[s]
    /\ \/ Live(l, now)
       \/ worker[s].pc = "flush" /\ inbox[s] = "forward" /\ Live(l, worker[s].at)

(* What a worker or sender step may do at the gate of an account. *)
GateStep(s) ==
    /\ \A x \in Scope : x # s =>
        /\ gate'[x] = gate[x] /\ worker'[x] = worker[x] /\ inbox'[x] = inbox[x]
        /\ sender'[x] = sender[x]
    /\ gate'[s] \in {gate[s], None}
    /\ \/ worker'[s].pc \notin Inside /\ worker'[s].lease = None
       \/ worker'[s] = worker[s]
       \/ worker'[s].pc \in {"poll", "forward"} /\ EntersWith(s, worker'[s].lease)
       \/ /\ worker'[s].pc = "notify" /\ gate[s] # None
          /\ worker'[s].lease = gate[s] /\ Live(gate[s], worker'[s].at)
    /\ \/ sender'[s] = sender[s]
       \/ sender'[s].lease = None
       \/ gate[s] # None /\ sender'[s].lease = gate[s] /\ Live(gate[s], sender'[s].at)
    /\ worker'[s].pc = "flush" /\ inbox'[s] = "forward" =>
           \/ worker'[s].at = now
           \/ worker[s].pc = "flush" /\ inbox[s] = "forward" /\ worker'[s].at = worker[s].at

(* So is the invariant, when gate and worker of one scope move lawfully. *)
LEMMA GateStepKeeps ==
    ASSUME IInv, StoreFrame, TypeOK', NEW s \in Scope, GateStep(s)
    PROVE  IInv'
  <1>1. ASSUME NEW x \in Scope PROVE LeasesStored(x)'
    <2>1. CASE x # s
      BY <2>1 DEF IInv, LeasesStored, GateStep, StoreFrame
    <2>2. CASE x = s
      <3>1. LeasesStored(s) /\ rows'[s] = rows[s]
        BY DEF IInv, StoreFrame
      <3> QED
        BY <2>2, <3>1 DEF LeasesStored, GateStep, EntersWith, Inside
    <2> QED
      BY <2>1, <2>2
  <1>2. ASSUME NEW x \in Scope, NEW g \in Epoch, NEW l \in rows[x], l.epoch < g,
               Taken(x, g, {"deliveries", "inflight", "cutover"})
        PROVE  /\ Expires(l) <= now
               /\ worker'[x].pc = "flush" /\ inbox'[x] = "forward" => ~Live(l, worker'[x].at)
    <2>1. /\ Expires(l) <= now
          /\ worker[x].pc = "flush" /\ inbox[x] = "forward" => ~Live(l, worker[x].at)
      BY <1>2 DEF IInv, GateClosed
    <2>2. ~Live(l, now)
      <3>1. l \in Lease /\ now \in Nat
        BY CutoverAssumption DEF IInv, TypeOK, Time
      <3> QED
        BY <2>1, <3>1, LeaseTypes DEF Live
    <2>3. CASE x # s
      BY <2>1, <2>3 DEF GateStep
    <2>4. CASE x = s
      BY <2>1, <2>2, <2>4 DEF GateStep
    <2> QED
      BY <2>3, <2>4
  <1>3. ASSUME NEW x \in Scope, NEW g \in Epoch, NEW l \in rows[x], l.epoch < g,
               Taken(x, g, {"cutover"})
        PROVE  l \notin WorkLeases(x)'
    <2>1. l \notin WorkLeases(x)
      BY <1>3 DEF IInv, GateClosed
    <2>2. CASE x # s
      BY <2>1, <2>2 DEF GateStep, WorkLeases
    <2>3. CASE x = s
      <3>1. l # None
        BY NoneAssumption DEF IInv, TypeOK
      <3>2. ~EntersWith(s, l)
        BY <1>3, <2>3, NoOldEntry DEF EntersWith
      <3> QED
        BY <2>1, <2>3, <3>1, <3>2 DEF GateStep, WorkLeases, Inside
    <2> QED
      BY <2>2, <2>3
  <1>4. ASSUME NEW x \in Scope PROVE GateClosed(x)'
    BY <1>2, <1>3, FrameKeeps DEF GateClosed, StoreFrame
  <1> QED
    BY <1>1, <1>4, FrameKeeps DEF IInv


-----------------------------------------------------------------------------
(* What the worker's moves do.                                              *)

WorkerMoves(s) ==
    /\ worker' \in [Scope -> Worker]
    /\ \A x \in Scope : x # s => worker'[x] = worker[x]
GateMoves(s) ==
    /\ gate' \in [Scope -> Lease \cup {None}]
    /\ \A x \in Scope : x # s => gate'[x] = gate[x]
    /\ gate'[s] \in {gate[s], None}

(* Setting the worker of a scope moves only that worker, *)
LEMMA SetWorkerMoves ==
    ASSUME TypeOK, NEW s \in Scope, NEW w \in Worker, SetWorker(s, w)
    PROVE  WorkerMoves(s) /\ worker'[s] = w
BY DEF TypeOK, SetWorker, WorkerMoves

(* which is idle and holds nothing at the start of its loop, *)
LEMMA LoopAgainMoves ==
    ASSUME TypeOK, NEW s \in Scope, LoopAgain(s)
    PROVE  /\ WorkerMoves(s)
           /\ worker'[s].pc = "idle" /\ worker'[s].at = 0 /\ worker'[s].lease = None
  <1> DEFINE w == [worker[s] EXCEPT !.pc = "idle", !.at = 0, !.lease = None]
  <1>1. worker[s] \in Worker
    BY DEF TypeOK
  <1>2. w \in Worker /\ w.pc = "idle" /\ w.at = 0 /\ w.lease = None
    BY <1>1 DEF Worker, WorkerPc
  <1>3. SetWorker(s, w)
    BY DEF LoopAgain
  <1> HIDE DEF w
  <1> QED
    BY <1>2, <1>3, SetWorkerMoves

(* or goes on without the lease that it held. *)
LEMMA WorkerGotoMoves ==
    ASSUME TypeOK, NEW s \in Scope, NEW pc \in WorkerPc, WorkerGoto(s, pc)
    PROVE  /\ WorkerMoves(s)
           /\ worker'[s].pc = pc /\ worker'[s].at = worker[s].at /\ worker'[s].lease = None
  <1> DEFINE w == [worker[s] EXCEPT !.pc = pc, !.lease = None]
  <1>1. worker[s] \in Worker
    BY DEF TypeOK
  <1>2. w \in Worker /\ w.pc = pc /\ w.at = worker[s].at /\ w.lease = None
    BY <1>1 DEF Worker
  <1>3. SetWorker(s, w)
    BY DEF WorkerGoto
  <1> HIDE DEF w
  <1> QED
    BY <1>2, <1>3, SetWorkerMoves

(* The gate may drop its lease when it is asked, *)
LEMMA AuthorizeMoves ==
    ASSUME TypeOK, NEW s \in Scope, NEW t, Authorize(s, t)
    PROVE  GateMoves(s)
BY DEF TypeOK, Authorize, GateMoves

(* and lets an operation in only under a live lease. *)
LEMMA EnterMoves ==
    ASSUME TypeOK, NEW s \in Scope, NEW pc \in {"notify", "forward"}, NEW t, Enter(s, pc, t)
    PROVE  /\ WorkerMoves(s) /\ GateMoves(s)
           /\ \/ /\ gate[s] # None /\ Live(gate[s], t)
                 /\ worker'[s].pc = pc /\ worker'[s].lease = gate[s]
                 /\ worker'[s].at = worker[s].at
              \/ worker'[s].pc = "idle" /\ worker'[s].lease = None
  <1>1. GateMoves(s)
    BY AuthorizeMoves DEF Enter
  <1>2. CASE Authorized(s, t)
    <2> DEFINE w == [worker[s] EXCEPT !.pc = pc, !.lease = gate[s]]
    <2>1. worker[s] \in Worker /\ gate[s] \in Lease \cup {None}
      BY DEF TypeOK
    <2>2. w \in Worker /\ w.pc = pc /\ w.lease = gate[s] /\ w.at = worker[s].at
      BY <2>1 DEF Worker, WorkerPc
    <2>3. SetWorker(s, w)
      BY <1>2 DEF Enter
    <2> HIDE DEF w
    <2> QED
      BY <1>1, <1>2, <2>2, <2>3, SetWorkerMoves DEF Authorized
  <1>3. CASE ~Authorized(s, t)
    BY <1>1, <1>3, LoopAgainMoves DEF Enter
  <1> QED
    BY <1>2, <1>3

(* A step of an account's worker: what it needs to keep the invariant. *)
WorkerStep(s) ==
    /\ WorkerMoves(s) /\ GateMoves(s)
    /\ inbox' \in [Scope -> {"clear", "forward", "withheld"}]
    /\ \A x \in Scope : x # s => inbox'[x] = inbox[x]
    /\ UNCHANGED <<now, gatewayVars, inst, bound, delivery, sender>>
    /\ \/ worker'[s].pc \notin Inside /\ worker'[s].lease = None
       \/ worker'[s].pc \in {"poll", "forward"} /\ EntersWith(s, worker'[s].lease)
       \/ /\ worker'[s].pc = "notify" /\ gate[s] # None
          /\ worker'[s].lease = gate[s] /\ Live(gate[s], worker'[s].at)
    /\ worker'[s].pc = "flush" /\ inbox'[s] = "forward" => worker'[s].at = now

(* A step of one channel worker keeps the invariant. *)
LEMMA WorkerStepKeeps ==
    ASSUME IInv, NEW s \in Scope, WorkerStep(s)
    PROVE  IInv'
  <1>1. StoreFrame
    BY DEF StoreFrame, WorkerStep, gatewayVars
  <1>2. TypeOK'
    BY DEF IInv, TypeOK, WorkerStep, WorkerMoves, GateMoves, gatewayVars
  <1>3. GateStep(s)
    BY DEF WorkerStep, WorkerMoves, GateMoves, GateStep, Inside
  <1> QED
    BY <1>1, <1>2, <1>3, GateStepKeeps

(* No step of the gate at all. *)
LEMMA GateStays ==
    ASSUME TypeOK, NEW s \in Scope, UNCHANGED gate
    PROVE  GateMoves(s)
BY DEF TypeOK, GateMoves

(* The worker starts to flush its inbox. *)
LEMMA StartFlushKeeps == ASSUME IInv, NEW s \in Scope, StartFlush(s) PROVE IInv'
  <1> DEFINE w == [worker[s] EXCEPT !.pc = "flush", !.at = now]
  <1>1. TypeOK /\ worker[s] \in Worker /\ now \in Time /\ worker[s].lease = None
    BY DEF IInv, TypeOK, LeasesStored, StartFlush, WorkerAt, Inside
  <1>2. w \in Worker /\ w.pc = "flush" /\ w.at = now /\ w.lease = None
    BY <1>1 DEF Worker, WorkerPc
  <1>3. SetWorker(s, w)
    BY DEF StartFlush
  <1> HIDE DEF w
  <1>4. WorkerMoves(s) /\ worker'[s] = w
    BY <1>1, <1>2, <1>3, SetWorkerMoves
  <1>5. WorkerStep(s)
    BY <1>1, <1>2, <1>4, GateStays DEF StartFlush, WorkerStep, Inside, gatewayVars, gateVars, TypeOK
  <1> QED
    BY <1>5, WorkerStepKeeps

(* A flushed message is forwarded under the gate's lease. *)
LEMMA FlushForwardKeeps == ASSUME IInv, NEW s \in Scope, FlushForward(s) PROVE IInv'
  <1>1. TypeOK
    BY DEF IInv
  <1>2. WorkerStep(s)
    BY <1>1, EnterMoves DEF FlushForward, WorkerAt, WorkerStep, EntersWith, Inside, TypeOK
  <1> QED
    BY <1>2, WorkerStepKeeps

(* The start notice enters the gate. *)
LEMMA NotifyStartKeeps == ASSUME IInv, NEW s \in Scope, NotifyStart(s) PROVE IInv'
  <1>1. TypeOK
    BY DEF IInv
  <1>2. WorkerStep(s)
    BY <1>1, EnterMoves DEF NotifyStart, WorkerStep, Inside, TypeOK
  <1> QED
    BY <1>2, WorkerStepKeeps

(* The start notice leaves it. *)
LEMMA NotifyEndKeeps == ASSUME IInv, NEW s \in Scope, NotifyEnd(s) PROVE IInv'
  <1> DEFINE w == [worker[s] EXCEPT !.pc = "cursor", !.at = 0, !.lease = None, !.started = TRUE]
  <1>1. TypeOK /\ worker[s] \in Worker
    BY DEF IInv, TypeOK
  <1>2. w \in Worker /\ w.pc = "cursor" /\ w.lease = None
    BY <1>1 DEF Worker, WorkerPc
  <1>3. SetWorker(s, w) \/ LoopAgain(s)
    BY DEF NotifyEnd
  <1> HIDE DEF w
  <1>4. WorkerMoves(s) /\ worker'[s].pc \in {"cursor", "idle"} /\ worker'[s].lease = None
    BY <1>1, <1>2, <1>3, SetWorkerMoves, LoopAgainMoves
  <1>5. WorkerStep(s)
    BY <1>1, <1>4, GateStays DEF NotifyEnd, WorkerStep, Inside, gateVars, TypeOK
  <1> QED
    BY <1>5, WorkerStepKeeps

(* A poll enters the gate. *)
LEMMA PollKeeps == ASSUME IInv, NEW s \in Scope, Poll(s) PROVE IInv'
  <1> DEFINE w == [worker[s] EXCEPT !.pc = "poll", !.at = 0, !.lease = gate[s]]
  <1>1. TypeOK /\ worker[s] \in Worker /\ gate[s] \in Lease \cup {None}
    BY DEF IInv, TypeOK
  <1>2. w \in Worker /\ w.pc = "poll" /\ w.lease = gate[s]
    BY <1>1 DEF Worker, WorkerPc
  <1>3. (Authorized(s, now) /\ SetWorker(s, w)) \/ LoopAgain(s)
    BY DEF Poll
  <1> HIDE DEF w
  <1>4. /\ WorkerMoves(s)
        /\ \/ worker'[s].pc = "idle" /\ worker'[s].lease = None
           \/ worker'[s].pc = "poll" /\ worker'[s].lease = gate[s] /\ Authorized(s, now)
    BY <1>1, <1>2, <1>3, SetWorkerMoves, LoopAgainMoves
  <1>5. WorkerStep(s)
    BY <1>1, <1>4, AuthorizeMoves DEF Poll, WorkerStep, EntersWith, Authorized, Inside, TypeOK
  <1> QED
    BY <1>5, WorkerStepKeeps

(* A poll returns. *)
LEMMA PollEndKeeps == ASSUME IInv, NEW s \in Scope, PollEnd(s) PROVE IInv'
  <1>1. TypeOK /\ "batch" \in WorkerPc
    BY DEF IInv, WorkerPc
  <1>2. WorkerMoves(s) /\ worker'[s].pc \in {"batch", "idle"} /\ worker'[s].lease = None
    BY <1>1, WorkerGotoMoves, LoopAgainMoves DEF PollEnd
  <1>3. WorkerStep(s)
    BY <1>1, <1>2, GateStays DEF PollEnd, WorkerStep, Inside, gateVars, TypeOK
  <1> QED
    BY <1>3, WorkerStepKeeps

(* What the poll brought is persisted. *)
LEMMA PersistKeeps == ASSUME IInv, NEW s \in Scope, Persist(s) PROVE IInv'
  <1>1. TypeOK /\ "deliver" \in WorkerPc
    BY DEF IInv, WorkerPc
  <1>2. WorkerMoves(s) /\ worker'[s].pc = "deliver" /\ worker'[s].lease = None
    BY <1>1, WorkerGotoMoves DEF Persist
  <1>3. /\ inbox' \in [Scope -> {"clear", "forward", "withheld"}]
        /\ \A x \in Scope : x # s => inbox'[x] = inbox[x]
    BY <1>1 DEF Persist, TypeOK
  <1>4. WorkerStep(s)
    BY <1>1, <1>2, <1>3, GateStays DEF Persist, WorkerStep, Inside, gateVars
  <1> QED
    BY <1>4, WorkerStepKeeps

(* A persisted message is forwarded under the gate's lease. *)
LEMMA DeliverInboundKeeps == ASSUME IInv, NEW s \in Scope, DeliverInbound(s) PROVE IInv'
  <1>1. TypeOK
    BY DEF IInv
  <1>2. /\ inbox' \in [Scope -> {"clear", "forward", "withheld"}]
        /\ \A x \in Scope : x # s => inbox'[x] = inbox[x]
    BY <1>1 DEF DeliverInbound, TypeOK
  <1>3. /\ WorkerMoves(s) /\ GateMoves(s)
        /\ \/ worker'[s].pc = "idle" /\ worker'[s].lease = None
           \/ /\ worker'[s].pc = "forward" /\ worker'[s].lease = gate[s]
              /\ gate[s] # None /\ Live(gate[s], now)
    BY <1>1, EnterMoves, LoopAgainMoves, GateStays DEF DeliverInbound
  <1>4. WorkerStep(s)
    BY <1>2, <1>3 DEF DeliverInbound, WorkerStep, EntersWith, Inside
  <1> QED
    BY <1>4, WorkerStepKeeps

(* The forward returns. *)
LEMMA ForwardEndKeeps == ASSUME IInv, NEW s \in Scope, ForwardEnd(s) PROVE IInv'
  <1>1. TypeOK /\ "ack" \in WorkerPc
    BY DEF IInv, WorkerPc
  <1>2. WorkerMoves(s) /\ worker'[s].pc \in {"ack", "idle"} /\ worker'[s].lease = None
    BY <1>1, WorkerGotoMoves, LoopAgainMoves DEF ForwardEnd
  <1>3. WorkerStep(s)
    BY <1>1, <1>2, GateStays DEF ForwardEnd, WorkerStep, Inside, gateVars, TypeOK
  <1> QED
    BY <1>3, WorkerStepKeeps

(* A forwarded message is acknowledged. *)
LEMMA AcknowledgeKeeps == ASSUME IInv, NEW s \in Scope, Acknowledge(s) PROVE IInv'
  <1>1. TypeOK /\ "flush" \in WorkerPc
    BY DEF IInv, WorkerPc
  <1>2. WorkerMoves(s) /\ worker'[s].pc \in {"flush", "idle"} /\ worker'[s].lease = None
    BY <1>1, WorkerGotoMoves, LoopAgainMoves DEF Acknowledge
  <1>3. /\ inbox' \in [Scope -> {"clear", "forward", "withheld"}]
        /\ \A x \in Scope : x # s => inbox'[x] = inbox[x]
        /\ inbox'[s] = "clear"
    BY <1>1 DEF Acknowledge, TypeOK
  <1>4. WorkerStep(s)
    BY <1>1, <1>2, <1>3, GateStays DEF Acknowledge, WorkerStep, Inside, gateVars
  <1> QED
    BY <1>4, WorkerStepKeeps

(* A step of an account's sender: what it needs to keep the invariant. *)
SenderStep(s) ==
    /\ \E w \in Sender : sender' = [sender EXCEPT ![s] = w]
    /\ GateMoves(s)
    /\ delivery' \in [Scope -> {"clear", "CLAIMED", "SIDE_EFFECT_STARTED",
                                "FAILED_RETRYABLE", "RECONCILE_REQUIRED"}]
    /\ UNCHANGED <<now, gatewayVars, inst, bound, worker, inbox>>
    /\ \/ sender'[s].lease = None
       \/ gate[s] # None /\ sender'[s].lease = gate[s] /\ Live(gate[s], sender'[s].at)

(* A step of one sender keeps the invariant. *)
LEMMA SenderStepKeeps ==
    ASSUME IInv, NEW s \in Scope, SenderStep(s)
    PROVE  IInv'
  <1>1. StoreFrame
    BY DEF StoreFrame, SenderStep, gatewayVars
  <1>2. PICK w \in Sender : sender' = [sender EXCEPT ![s] = w]
    BY DEF SenderStep
  <1>3. /\ sender' \in [Scope -> Sender] /\ \A x \in Scope : x # s => sender'[x] = sender[x]
    BY <1>2 DEF IInv, TypeOK
  <1>4. TypeOK'
    BY <1>3 DEF IInv, TypeOK, SenderStep, GateMoves, gatewayVars
  <1>5. GateStep(s)
    BY <1>3 DEF SenderStep, GateMoves, GateStep
  <1> QED
    BY <1>1, <1>4, <1>5, GateStepKeeps

(* A delivery reads the time it will present. *)
LEMMA SendBeginKeeps == ASSUME IInv, NEW s \in Scope, SendBegin(s) PROVE IInv'
  <1> DEFINE w == [at |-> now, lease |-> None]
  <1>1. TypeOK /\ sender \in [Scope -> Sender]
    BY DEF IInv, TypeOK
  <1>2. w \in Sender /\ w.lease = None
    BY DEF IInv, TypeOK, Sender
  <1>3. sender' = [sender EXCEPT ![s] = w] /\ UNCHANGED gate
    BY DEF SendBegin, gateVars
  <1> HIDE DEF w
  <1>4. sender'[s].lease = None
    BY <1>1, <1>2, <1>3
  <1>5. SenderStep(s)
    BY <1>1, <1>2, <1>3, <1>4, GateStays DEF SendBegin, SenderStep, gateVars, TypeOK
  <1> QED
    BY <1>5, SenderStepKeeps

(* It enters the gate with that time and is claimed, or gives up. *)
LEMMA SendEnterKeeps == ASSUME IInv, NEW s \in Scope, SendEnter(s) PROVE IInv'
  <1>1. /\ TypeOK /\ sender \in [Scope -> Sender] /\ sender[s] \in Sender
        /\ gate[s] \in Lease \cup {None}
    BY DEF IInv, TypeOK
  <1>2. GateMoves(s)
    BY <1>1, AuthorizeMoves DEF SendEnter
  <1>3. CASE Authorized(s, sender[s].at)
    <2> DEFINE w == [sender[s] EXCEPT !.lease = gate[s]]
    <2>1. w \in Sender /\ w.lease = gate[s] /\ w.at = sender[s].at
      BY <1>1 DEF Sender
    <2>2. sender' = [sender EXCEPT ![s] = w]
      BY <1>1, <1>3 DEF SendEnter
    <2> HIDE DEF w
    <2>3. sender'[s] = w
      BY <1>1, <2>2
    <2>4. delivery' = [delivery EXCEPT ![s] = "CLAIMED"]
      BY <1>3 DEF SendEnter
    <2>5. SenderStep(s)
      BY <1>1, <1>2, <1>3, <2>1, <2>2, <2>3, <2>4
         DEF SendEnter, SenderStep, Authorized, TypeOK
    <2> QED
      BY <2>5, SenderStepKeeps
  <1>4. CASE ~Authorized(s, sender[s].at)
    <2>1. NoSender \in Sender /\ NoSender.lease = None
      BY DEF NoSender, Sender
    <2>2. sender' = [sender EXCEPT ![s] = NoSender] /\ UNCHANGED delivery
      BY <1>4 DEF SendEnter
    <2>3. sender'[s].lease = None
      BY <1>1, <2>1, <2>2
    <2>4. SenderStep(s)
      BY <1>1, <1>2, <2>1, <2>2, <2>3 DEF SendEnter, SenderStep, TypeOK
    <2> QED
      BY <2>4, SenderStepKeeps
  <1> QED
    BY <1>3, <1>4

(* A claimed delivery starts its side effect. *)
LEMMA SendStartKeeps == ASSUME IInv, NEW s \in Scope, SendStart(s) PROVE IInv'
  <1>1. StoreFrame
    BY DEF StoreFrame, SendStart, gatewayVars
  <1>2. TypeOK'
    BY DEF IInv, TypeOK, SendStart, gatewayVars, gateVars
  <1>3. GateStep(s)
    BY DEF IInv, LeasesStored, GateStep, SendStart, gatewayVars, gateVars
  <1> QED
    BY <1>1, <1>2, <1>3, GateStepKeeps

(* A delivery ends. *)
LEMMA SendEndKeeps == ASSUME IInv, NEW s \in Scope, SendEnd(s) PROVE IInv'
  <1>1. TypeOK /\ sender \in [Scope -> Sender]
    BY DEF IInv, TypeOK
  <1>2. NoSender \in Sender /\ NoSender.lease = None
    BY DEF NoSender, Sender
  <1>3. sender' = [sender EXCEPT ![s] = NoSender] /\ UNCHANGED gate
    BY DEF SendEnd, gateVars
  <1>4. sender'[s].lease = None
    BY <1>1, <1>2, <1>3
  <1>5. delivery' \in [Scope -> {"clear", "CLAIMED", "SIDE_EFFECT_STARTED",
                                 "FAILED_RETRYABLE", "RECONCILE_REQUIRED"}]
    BY <1>1 DEF SendEnd, TypeOK
  <1>6. SenderStep(s)
    BY <1>1, <1>2, <1>3, <1>4, <1>5, GateStays DEF SendEnd, SenderStep, gateVars
  <1> QED
    BY <1>6, SenderStepKeeps

-----------------------------------------------------------------------------
(* What the coordinator's steps write.                                      *)

(* Every lease of an earlier epoch is in the chain of a cutover that was     *)
(* active, so that waiting for the last one waits for all of them.           *)
LEMMA OldExpired ==
    ASSUME IInv, NEW s \in Scope, NEW t \in Nat, PriorExpired(s, t),
           NEW l \in rows[s], l.epoch < epoch
    PROVE  Expires(l) + ClockSkew <= t
  <1>1. l \in Lease /\ l.epoch \in Epoch
    BY LeaseTypes DEF IInv, TypeOK
  <1> DEFINE c == cutover[s][l.epoch]
  <1>2. l \in Chain(s, l.epoch) /\ RowsFit(s, l.epoch) /\ c \in Cutover \cup {None}
    BY <1>1 DEF Chain, IInv, StoreInv, TypeOK
  <1>3. c # None /\ c.state = "CANDIDATE_ACTIVE"
    BY <1>2 DEF RowsFit, Cutover, State
  <1>4. c.lease \in Chain(s, l.epoch) /\ l.issued <= c.lease.issued
    BY <1>2, <1>3 DEF RowsFit
  <1>5. c.lease \in Lease
    BY <1>4 DEF Chain, IInv, TypeOK
  <1>6. t >= Expires(c.lease) + ClockSkew
    BY <1>1, <1>3 DEF PriorExpired, IsActive
  <1>7. LeaseTtl \in Nat /\ ClockSkew \in Nat
    BY CutoverAssumption
  <1> QED
    BY <1>1, <1>4, <1>5, <1>6, <1>7, LeaseTypes DEF Expires

(* What a store write by the coordinator must satisfy. *)
Writes(s, c, L) ==
    /\ SetCutover(s, c)
    /\ rows' = [rows EXCEPT ![s] = @ \cup L]
    /\ UNCHANGED <<now, epoch>>
    /\ c.started <= c.updated /\ c.updated <= now
    /\ \A l \in L : l.epoch = epoch /\ l.issued <= now
    /\ \A l \in L, m \in rows[s] : m.epoch < epoch => Expires(m) + ClockSkew <= l.issued

(* The types of a cutover record and its leases when they are written. *)
LEMMA WriteTypes ==
    ASSUME IInv, NEW s \in Scope, NEW c \in Cutover, NEW L \in SUBSET Lease, Writes(s, c, L)
    PROVE  /\ cutover' \in [Scope -> [Epoch -> Cutover \cup {None}]]
           /\ rows' \in [Scope -> SUBSET Lease]
           /\ cutover'[s][epoch] = c
           /\ \A x \in Scope, g \in Epoch : x # s \/ g # epoch => cutover'[x][g] = cutover[x][g]
           /\ rows'[s] = rows[s] \cup L
           /\ \A x \in Scope : x # s => rows'[x] = rows[x]
           /\ \A x \in Scope, g \in Epoch : x # s \/ g # epoch => Chain(x, g)' = Chain(x, g)
           /\ \A x \in Scope : \A t : PriorExpired(x, t)' = PriorExpired(x, t)
           /\ Chain(s, epoch)' = Chain(s, epoch) \cup L
  <1>1. /\ cutover \in [Scope -> [Epoch -> Cutover \cup {None}]]
        /\ rows \in [Scope -> SUBSET Lease] /\ epoch \in Epoch
    BY DEF IInv, TypeOK
  <1>2. /\ cutover' \in [Scope -> [Epoch -> Cutover \cup {None}]]
        /\ cutover'[s][epoch] = c
        /\ \A x \in Scope, g \in Epoch : x # s \/ g # epoch => cutover'[x][g] = cutover[x][g]
    BY <1>1 DEF Writes, SetCutover
  <1>3. /\ rows' \in [Scope -> SUBSET Lease]
        /\ rows'[s] = rows[s] \cup L
        /\ \A x \in Scope : x # s => rows'[x] = rows[x]
    BY <1>1 DEF Writes
  <1>4. ASSUME NEW x \in Scope, NEW g \in Epoch, x # s \/ g # epoch
        PROVE  Chain(x, g)' = Chain(x, g)
    <2>1. CASE x # s
      BY <2>1, <1>3 DEF Chain
    <2>2. CASE x = s /\ g # epoch
      BY <2>2, <1>3 DEF Chain, Writes
    <2> QED
      BY <1>4, <2>1, <2>2
  <1>5. Chain(s, epoch)' = Chain(s, epoch) \cup L
    BY <1>3 DEF Chain, Writes
  <1>6. ASSUME NEW x \in Scope, NEW t PROVE PriorExpired(x, t)' = PriorExpired(x, t)
    <2>1. \A g \in Epoch : g < epoch => cutover'[x][g] = cutover[x][g]
      BY <1>1, <1>2 DEF Epoch
    <2> QED
      BY <2>1 DEF PriorExpired, Writes
  <1> QED
    BY <1>2, <1>3, <1>4, <1>5, <1>6

(* The store is kept by a write whose leases fit the epoch that writes. *)
LEMMA WriteKeepsStore ==
    ASSUME IInv, NEW s \in Scope, NEW c \in Cutover, NEW L \in SUBSET Lease, Writes(s, c, L),
           RowsFit(s, epoch)'
    PROVE  \A x \in Scope : StoreInv(x)'
  <1> SUFFICES ASSUME NEW x \in Scope PROVE StoreInv(x)'
    OBVIOUS
  <1>0. epoch \in Epoch /\ epoch' = epoch /\ now' = now /\ StoreInv(x) /\ StoreInv(s)
    BY DEF IInv, TypeOK, Writes
  <1>1. ASSUME NEW g \in Epoch PROVE RowsFit(x, g)'
    <2>1. CASE x = s /\ g = epoch
      BY <2>1, <1>0
    <2>2. CASE x # s \/ g # epoch
      <3>1. RowsFit(x, g)
        BY <1>0 DEF StoreInv
      <3>2. cutover'[x][g] = cutover[x][g] /\ Chain(x, g)' = Chain(x, g)
        BY <2>2, WriteTypes
      <3>3. RowsFit(x, g)' = RowsFit(x, g)
        BY <3>2 DEF RowsFit
      <3> QED
        BY <3>1, <3>3
    <2> QED
      BY <2>1, <2>2
  <1>2. NothingLater(x)'
    <2>1. ASSUME NEW g \in Epoch, g > epoch PROVE cutover'[x][g] = None
      BY <1>0, <2>1, WriteTypes DEF StoreInv, NothingLater, Epoch
    <2>2. ASSUME NEW l \in rows'[x] PROVE l.epoch <= epoch /\ l.issued <= now
      <3>1. CASE l \in rows[x]
        BY <3>1, <1>0 DEF StoreInv, NothingLater
      <3>2. CASE l \in L
        BY <3>2, <1>0 DEF Writes, Epoch
      <3> QED
        BY <3>1, <3>2, <2>2, WriteTypes
    <2> QED
      BY <1>0, <2>1, <2>2 DEF NothingLater
  <1>3. TimesFit(x)'
    <2> SUFFICES ASSUME NEW g \in Epoch, cutover'[x][g] # None
                 PROVE  /\ cutover'[x][g].started <= cutover'[x][g].updated
                        /\ cutover'[x][g].updated <= now
      BY <1>0 DEF TimesFit
    <2>1. CASE x = s /\ g = epoch
      BY <2>1, WriteTypes DEF Writes
    <2>2. CASE x # s \/ g # epoch
      BY <2>2, <1>0, WriteTypes DEF StoreInv, TimesFit
    <2> QED
      BY <2>1, <2>2
  <1>4. OwnersApart(x)'
    <2> SUFFICES ASSUME NEW l \in rows'[x], NEW m \in rows'[x], l.epoch < m.epoch
                 PROVE  Expires(l) + ClockSkew <= m.issued
      BY DEF OwnersApart
    <2>1. CASE x # s
      BY <2>1, <1>0, WriteTypes DEF StoreInv, OwnersApart
    <2>2. CASE x = s /\ l \in rows[s] /\ m \in rows[s]
      BY <2>2, <1>0 DEF StoreInv, OwnersApart
    <2>3. CASE x = s /\ l \in rows[s] /\ m \in L
      BY <2>3 DEF Writes
    <2>4. CASE x = s /\ l \in L
      <3>1. m.epoch <= epoch /\ l.epoch = epoch
        BY <2>4, <1>2, <1>0 DEF NothingLater, Writes
      <3>2. m.epoch \in Epoch
        BY WriteTypes, LeaseTypes
      <3> QED
        BY <3>1, <3>2, <1>0 DEF Epoch
    <2> QED
      BY <2>1, <2>2, <2>3, <2>4, WriteTypes
  <1> QED
    BY <1>1, <1>2, <1>3, <1>4 DEF StoreInv

(* A step of the coordinator leaves the gate and those inside of it alone.   *)
CoFrame == UNCHANGED <<now, epoch, gate, worker, inbox, sender>>
RowsGrow == \A x \in Scope :
    rows[x] \subseteq rows'[x] /\ \A l \in rows'[x] : l \in rows[x] \/ l.epoch = epoch

(* A step of the coordinator keeps the invariant when what it took over is closed. *)
LEMMA CoStepKeeps ==
    ASSUME IInv, TypeOK', CoInv', CoFrame, RowsGrow,
           \A x \in Scope : StoreInv(x)' /\ Unfinished(x)',
           \A x \in Scope, g \in Epoch : \A l \in rows[x] : l.epoch < g =>
              /\ Taken(x, g, {"deliveries", "inflight", "cutover"})' =>
                  /\ Expires(l) <= now
                  /\ worker[x].pc = "flush" /\ inbox[x] = "forward" => ~Live(l, worker[x].at)
              /\ Taken(x, g, {"cutover"})' => l \notin WorkLeases(x)
    PROVE  IInv'
  <1>1. ASSUME NEW x \in Scope PROVE LeasesStored(x)'
    BY DEF IInv, LeasesStored, CoFrame, RowsGrow
  <1>2. ASSUME NEW x \in Scope PROVE GateClosed(x)'
    <2>1. ASSUME NEW g \in Epoch, NEW l \in rows'[x], l.epoch < g, l \notin rows[x], NEW pcs
          PROVE  ~Taken(x, g, pcs)'
      <3>1. l.epoch = epoch
        BY <2>1 DEF RowsGrow
      <3>2. cutover'[x][g] = None /\ g # epoch
        BY <2>1, <3>1 DEF CoFrame, StoreInv, NothingLater, Epoch, TypeOK
      <3> QED
        BY <3>2 DEF Taken, IsActive, CoFrame
    <2>2. WorkLeases(x)' = WorkLeases(x)
      BY DEF CoFrame, WorkLeases
    <2>3. /\ now' = now /\ worker' = worker /\ inbox' = inbox
      BY DEF CoFrame
    <2> SUFFICES ASSUME NEW g \in Epoch, NEW l \in rows'[x], l.epoch < g
                 PROVE  /\ Taken(x, g, {"deliveries", "inflight", "cutover"})' =>
                            /\ Expires(l) <= now
                            /\ worker[x].pc = "flush" /\ inbox[x] = "forward" =>
                                ~Live(l, worker[x].at)
                        /\ Taken(x, g, {"cutover"})' => l \notin WorkLeases(x)
      BY <2>2, <2>3 DEF GateClosed
    <2> QED
      BY <2>1
  <1> QED
    BY <1>1, <1>2 DEF IInv

(* A step that takes no account anew. *)
LEMMA QuietCoStepKeeps ==
    ASSUME IInv, TypeOK', CoInv', CoFrame, RowsGrow,
           \A x \in Scope : StoreInv(x)' /\ Unfinished(x)',
           \A x \in Scope, g \in Epoch :
              /\ Taken(x, g, {"cutover"})' => Taken(x, g, {"cutover"})
              /\ Taken(x, g, {"deliveries", "inflight", "cutover"})' =>
                    Taken(x, g, {"deliveries", "inflight", "cutover"})
    PROVE  IInv'
  <1>1. ASSUME NEW x \in Scope, NEW g \in Epoch, NEW l \in rows[x], l.epoch < g
        PROVE  /\ Taken(x, g, {"deliveries", "inflight", "cutover"})' =>
                  /\ Expires(l) <= now
                  /\ worker[x].pc = "flush" /\ inbox[x] = "forward" => ~Live(l, worker[x].at)
               /\ Taken(x, g, {"cutover"})' => l \notin WorkLeases(x)
    BY <1>1 DEF IInv, GateClosed
  <1> QED
    BY <1>1, CoStepKeeps

-----------------------------------------------------------------------------
(* The coordinator's steps that write no rows.                              *)

Idle(s) == ~(Current(s) # None /\ Current(s).state \in {"DRAINING", "DRAINED"})
StoreStays == UNCHANGED <<now, epoch, cutover, rows>>

(* The store is kept by a step that does not write it. *)
LEMMA StoreStaysKeeps ==
    ASSUME IInv, StoreStays
    PROVE  /\ RowsGrow /\ \A x \in Scope : StoreInv(x)'
           /\ \A x \in Scope : \A t : PriorExpired(x, t)' = PriorExpired(x, t)
  <1>1. RowsGrow
    BY DEF StoreStays, RowsGrow
  <1>2. ASSUME NEW s \in Scope PROVE StoreInv(s)'
    <2>1. ASSUME NEW g \in Epoch PROVE RowsFit(s, g)'
      <3>1. RowsFit(s, g)
        BY DEF IInv, StoreInv
      <3>2. RowsFit(s, g)' = RowsFit(s, g)
        <4>1. Chain(s, g)' = Chain(s, g)
          BY DEF StoreStays, Chain
        <4>2. cutover'[s][g] = cutover[s][g]
          BY DEF StoreStays
        <4> QED
          BY <4>1, <4>2 DEF RowsFit
      <3> QED
        BY <3>1, <3>2
    <2>2. NothingLater(s)' /\ TimesFit(s)' /\ OwnersApart(s)'
      BY DEF IInv, StoreStays, StoreInv, NothingLater, TimesFit, OwnersApart
    <2> QED
      BY <2>1, <2>2 DEF StoreInv
  <1>3. ASSUME NEW x \in Scope, NEW t PROVE PriorExpired(x, t)' = PriorExpired(x, t)
    BY DEF StoreStays, PriorExpired
  <1> QED
    BY <1>1, <1>2, <1>3

(* Between two rounds nothing is half done. *)
LEMMA AllIdle == ASSUME IInv, co.pc # "cutover" PROVE \A s \in Scope : Idle(s)
BY DEF IInv, Unfinished, Idle

(* A coordinator that leaves the drain needs nothing closed. *)
LEMMA CoMovesKeeps ==
    ASSUME IInv, StoreStays, UNCHANGED <<gateVars, workVars>>,
           co' \in Coordinator, held' \in [Scope -> Nat], CoInv',
           \A s \in Scope : Idle(s),
           co'.pc \notin {"deliveries", "inflight", "cutover"}
    PROVE  IInv'
  <1>1. TypeOK' /\ CoFrame
    BY DEF IInv, TypeOK, CoFrame, StoreStays, gateVars, workVars
  <1>2. ASSUME NEW x \in Scope PROVE Unfinished(x)'
    BY DEF Idle, Unfinished, Current, StoreStays
  <1>3. ASSUME NEW x \in Scope, NEW g \in Epoch
        PROVE  /\ Taken(x, g, {"cutover"})' => Taken(x, g, {"cutover"})
               /\ Taken(x, g, {"deliveries", "inflight", "cutover"})' =>
                    Taken(x, g, {"deliveries", "inflight", "cutover"})
    BY DEF Taken, StoreStays
  <1> QED
    BY <1>1, <1>2, <1>3, StoreStaysKeeps, QuietCoStepKeeps

(* A failed pass puts the coordinator back, *)
LEMMA RaiseMoves ==
    ASSUME IInv, Raise, UNCHANGED now
    PROVE  /\ co' \in Coordinator /\ CoInv'
           /\ co'.pc \notin {"deliveries", "inflight", "cutover"}
  <1>1. 1 \in Time /\ now \in Time
    BY CutoverAssumption DEF IInv, TypeOK, Time
  <1> QED
    BY <1>1 DEF Raise, FreshCoordinator, Coordinator, CoPc, CoInv, Installing, Reading, Time

(* and keeps the invariant. *)
LEMMA RaiseKeeps ==
    ASSUME IInv, StoreStays, UNCHANGED <<held, gateVars, workVars>>, Raise,
           \A s \in Scope : Idle(s)
    PROVE  IInv'
  <1>1. held' \in [Scope -> Nat]
    BY DEF IInv, TypeOK
  <1> QED
    BY <1>1, RaiseMoves, CoMovesKeeps DEF StoreStays

(* The coordinator starts a pass. *)
LEMMA StartLoopKeeps == ASSUME IInv, StartLoop PROVE IInv'
  <1>1. StoreStays /\ UNCHANGED <<gateVars, workVars>> /\ held' \in [Scope -> Nat]
    BY DEF StartLoop, StoreStays, Store, IInv, TypeOK
  <1>2. co \in Coordinator /\ now \in Time /\ Due \subseteq Scope /\ co.t <= now
    BY DEF IInv, TypeOK, Due, CoInv
  <1>3. /\ co' \in Coordinator /\ co'.pc \in {"health", "renew"}
        /\ co'.t \in {co.t, now}
    <2>1. {"health", "renew"} \subseteq CoPc
      BY DEF CoPc
    <2>2. \/ co' = [co EXCEPT !.pc = "health"]
          \/ co' = [co EXCEPT !.pc = "renew", !.t = now, !.todo = Due]
      BY DEF StartLoop, CoGoto
    <2> QED
      BY <1>2, <2>1, <2>2 DEF Coordinator
  <1>4. CoInv'
    BY <1>1, <1>2, <1>3 DEF CoInv, Installing, Reading, Time, StoreStays
  <1>5. co.pc # "cutover"
    BY DEF StartLoop, CoAt
  <1> QED
    BY <1>1, <1>3, <1>4, <1>5, AllIdle, CoMovesKeeps

(* The candidate answers, and all accounts are to be activated. *)
LEMMA HealthKeeps == ASSUME IInv, Health PROVE IInv'
  <1>1. StoreStays /\ UNCHANGED <<gateVars, workVars>> /\ held' \in [Scope -> Nat]
    BY DEF Health, StoreStays, Store, IInv, TypeOK
  <1>2. co \in Coordinator /\ now \in Time /\ inst \in Epoch
    BY DEF IInv, TypeOK
  <1>3. co' \in Coordinator /\ co'.pc = "act" /\ co'.t = now /\ co'.candidate = inst
    BY <1>2 DEF Health, Coordinator, CoPc
  <1>4. CoInv'
    BY <1>1, <1>2, <1>3 DEF CoInv, Installing, Reading, Time, StoreStays
  <1>5. co.pc # "cutover"
    BY DEF Health, CoAt
  <1> QED
    BY <1>1, <1>3, <1>4, <1>5, AllIdle, CoMovesKeeps

(* It installs again the lease of a cutover that is still live. *)
LEMMA ActivateLiveKeeps == ASSUME IInv, NEW s \in Scope, ActivateLive(s) PROVE IInv'
  <1>1. StoreStays /\ UNCHANGED <<held, gateVars, workVars>> /\ held' \in [Scope -> Nat]
    BY DEF ActivateLive, StoreStays, Store, IInv, TypeOK
  <1>2. co.pc = "act"
    BY DEF ActivateLive, CoAt
  <1>3. CASE Raise
    BY <1>1, <1>2, <1>3, AllIdle, RaiseKeeps
  <1>4. CASE co' = [co EXCEPT !.pc = "actInstall", !.at = s, !.lease = ActiveLease(s, co.t)]
    <2> DEFINE l == ActiveLease(s, co.t)
    <2>1. l # None /\ IsActive(Current(s)) /\ l = Current(s).lease
      BY DEF ActivateLive, ActiveLease
    <2>2. epoch \in Epoch /\ RowsFit(s, epoch)
      BY DEF IInv, TypeOK, StoreInv
    <2>3. l \in rows[s]
      BY <2>1, <2>2 DEF RowsFit, Current, IsActive, Chain
    <2>4. l \in Lease /\ co \in Coordinator /\ co.candidate \in Epoch /\ co.t <= now
      BY <1>2, <2>3 DEF IInv, TypeOK, CoInv
    <2> HIDE DEF l
    <2>5. /\ co' \in Coordinator /\ co'.pc = "actInstall" /\ co'.at = s /\ co'.lease = l
          /\ co'.t = co.t /\ co'.candidate = co.candidate
      BY <1>4, <2>4 DEF Coordinator, CoPc, l
    <2>6. CoInv'
      BY <1>1, <2>3, <2>4, <2>5 DEF CoInv, Installing, Reading, StoreStays
    <2> QED
      BY <1>1, <1>2, <2>5, <2>6, AllIdle, CoMovesKeeps
  <1> QED
    BY <1>3, <1>4 DEF ActivateLive

(* It goes on to drain an account without a live lease. *)
LEMMA ActivateAgainKeeps == ASSUME IInv, NEW s \in Scope, ActivateAgain(s) PROVE IInv'
  <1>1. StoreStays /\ UNCHANGED <<held, gateVars, workVars>> /\ held' \in [Scope -> Nat]
    BY DEF ActivateAgain, StoreStays, Store, IInv, TypeOK
  <1>2. co.pc = "act"
    BY DEF ActivateAgain, CoAt
  <1>3. CASE Raise
    BY <1>1, <1>2, <1>3, AllIdle, RaiseKeeps
  <1>4. CASE co' = [co EXCEPT !.pc = "facts", !.at = s]
    <2>1. co \in Coordinator /\ co.candidate \in Epoch /\ co.t <= now
      BY <1>2 DEF IInv, TypeOK, CoInv
    <2>2. /\ co' \in Coordinator /\ co'.pc = "facts" /\ co'.at = s
          /\ co'.t = co.t /\ co'.candidate = co.candidate
      BY <1>4, <2>1 DEF Coordinator, CoPc
    <2>3. CoInv'
      BY <1>1, <2>1, <2>2 DEF CoInv, Installing, Reading, StoreStays
    <2> QED
      BY <1>1, <1>2, <2>2, <2>3, AllIdle, CoMovesKeeps
  <1> QED
    BY <1>3, <1>4 DEF ActivateAgain

(* Reading a fact.  After the inbox was read nothing is left that a flush    *)
(* could forward, and after the gate was read nobody is inside of it.        *)
ReadsOn(pc, next) ==
    /\ co.pc = pc
    /\ co' = [co EXCEPT !.pc = next]
    /\ UNCHANGED <<now, epoch, cutover, rows, held, gateVars, workVars>>

(* One reading of the drain moves only the coordinator. *)
LEMMA ReadsOnMoves ==
    ASSUME IInv, NEW pc \in Reading, NEW next \in {"deliveries", "inflight", "cutover"},
           ReadsOn(pc, next)
    PROVE  /\ StoreStays /\ CoFrame /\ TypeOK' /\ CoInv'
           /\ co'.pc = next /\ co'.at = co.at /\ co.at \in Scope /\ co'.t = co.t
           /\ \A x \in Scope : Unfinished(x)'
  <1>1. StoreStays /\ CoFrame
    BY DEF ReadsOn, StoreStays, CoFrame, gateVars, workVars
  <1>2. co \in Coordinator /\ co.candidate \in Epoch /\ co.t <= now /\ co.at \in Scope
    BY DEF IInv, TypeOK, CoInv, ReadsOn, Reading
  <1>3. /\ co' \in Coordinator /\ co'.pc = next /\ co'.at = co.at
        /\ co'.t = co.t /\ co'.candidate = co.candidate
    BY <1>2 DEF ReadsOn, Coordinator, CoPc
  <1>4. CoInv'
    BY <1>1, <1>2, <1>3 DEF CoInv, Installing, Reading, StoreStays
  <1>5. TypeOK'
    BY <1>3 DEF IInv, TypeOK, ReadsOn, gateVars, workVars
  <1>6. co.pc # "cutover"
    BY DEF ReadsOn, Reading
  <1>7. ASSUME NEW x \in Scope PROVE Unfinished(x)'
    BY <1>1, <1>6, AllIdle DEF Idle, Unfinished, Current, StoreStays
  <1> QED
    BY <1>1, <1>2, <1>3, <1>4, <1>5, <1>7

(* The inbox is clear, and the earlier owners have expired. *)
LEMMA InboxReadKeeps ==
    ASSUME IInv, ReadsOn("facts", "deliveries"), inbox[co.at] = "clear"
    PROVE  IInv'
  <1>0. "facts" \in Reading /\ co.pc = "facts"
    BY DEF Reading, ReadsOn
  <1>1. /\ StoreStays /\ CoFrame /\ TypeOK' /\ CoInv'
        /\ co'.pc = "deliveries" /\ co'.at = co.at /\ co.at \in Scope /\ co'.t = co.t
        /\ \A x \in Scope : Unfinished(x)'
    BY <1>0, ReadsOnMoves
  <1>2. ASSUME NEW x \in Scope, NEW g \in Epoch, NEW l \in rows[x], l.epoch < g
        PROVE  /\ Taken(x, g, {"deliveries", "inflight", "cutover"})' =>
                  /\ Expires(l) <= now
                  /\ worker[x].pc = "flush" /\ inbox[x] = "forward" => ~Live(l, worker[x].at)
               /\ Taken(x, g, {"cutover"})' => l \notin WorkLeases(x)
    <2>1. CASE IsActive(cutover[x][g])
      BY <1>2, <2>1 DEF IInv, GateClosed, Taken
    <2>2. CASE g = epoch /\ co.at = x /\ PriorExpired(x, co.t) /\ ~IsActive(cutover[x][g])
      <3>1. co.t \in Time /\ co.t \in Nat /\ now \in Nat /\ co.t <= now /\ ClockSkew \in Nat
        BY CutoverAssumption DEF IInv, TypeOK, Coordinator, Time, CoInv
      <3>2. Expires(l) + ClockSkew <= co.t
        BY <1>2, <2>2, <3>1, OldExpired
      <3>3. Expires(l) <= now
        BY <3>1, <3>2, LeaseTypes DEF IInv, TypeOK
      <3>4. ~Taken(x, g, {"cutover"})'
        BY <1>1, <2>2 DEF Taken, StoreStays
      <3> QED
        BY <2>2, <3>3, <3>4
    <2>3. CASE ~IsActive(cutover[x][g]) /\ ~(g = epoch /\ co.at = x /\ PriorExpired(x, co.t))
      <3>1. PriorExpired(x, co.t)' = PriorExpired(x, co.t)
        BY <1>1 DEF PriorExpired, StoreStays
      <3> QED
        BY <1>1, <2>3, <3>1 DEF Taken, StoreStays
    <2> QED
      BY <2>1, <2>2, <2>3
  <1> QED
    BY <1>1, <1>2, StoreStaysKeeps, CoStepKeeps

(* No delivery is open when the deliveries were read. *)
LEMMA DeliveriesReadKeeps ==
    ASSUME IInv, ReadsOn("deliveries", "inflight")
    PROVE  IInv'
  <1>0. "deliveries" \in Reading /\ co.pc = "deliveries"
    BY DEF Reading, ReadsOn
  <1>1. /\ StoreStays /\ CoFrame /\ TypeOK' /\ CoInv'
        /\ co'.pc = "inflight" /\ co'.at = co.at /\ co.at \in Scope /\ co'.t = co.t
        /\ \A x \in Scope : Unfinished(x)'
    BY <1>0, ReadsOnMoves
  <1>2. ASSUME NEW x \in Scope, NEW g \in Epoch
        PROVE  /\ Taken(x, g, {"cutover"})' => Taken(x, g, {"cutover"})
               /\ Taken(x, g, {"deliveries", "inflight", "cutover"})' =>
                    Taken(x, g, {"deliveries", "inflight", "cutover"})
    <2>1. PriorExpired(x, co.t)' = PriorExpired(x, co.t)
      BY <1>1 DEF PriorExpired, StoreStays
    <2> QED
      BY <1>0, <1>1, <2>1 DEF Taken, StoreStays
  <1> QED
    BY <1>1, <1>2, StoreStaysKeeps, QuietCoStepKeeps

(* No operation is in flight when the count was read, *)
LEMMA InflightReadKeeps ==
    ASSUME IInv, ReadsOn("inflight", "cutover"), NoInflight(co.at)
    PROVE  IInv'
  <1>0. "inflight" \in Reading /\ co.pc = "inflight"
    BY DEF Reading, ReadsOn
  <1>1. /\ StoreStays /\ CoFrame /\ TypeOK' /\ CoInv'
        /\ co'.pc = "cutover" /\ co'.at = co.at /\ co.at \in Scope /\ co'.t = co.t
        /\ \A x \in Scope : Unfinished(x)'
    BY <1>0, ReadsOnMoves
  <1>2. ASSUME NEW x \in Scope, NEW g \in Epoch, NEW l \in rows[x], l.epoch < g
        PROVE  /\ Taken(x, g, {"deliveries", "inflight", "cutover"})' =>
                  /\ Expires(l) <= now
                  /\ worker[x].pc = "flush" /\ inbox[x] = "forward" => ~Live(l, worker[x].at)
               /\ Taken(x, g, {"cutover"})' => l \notin WorkLeases(x)
    <2>0. PriorExpired(x, co.t)' = PriorExpired(x, co.t)
      BY <1>1 DEF PriorExpired, StoreStays
    <2>1. Taken(x, g, {"deliveries", "inflight", "cutover"})' =>
              Taken(x, g, {"deliveries", "inflight", "cutover"})
      BY <1>0, <1>1, <2>0 DEF Taken, StoreStays
    <2>2. ASSUME Taken(x, g, {"cutover"})' PROVE l \notin WorkLeases(x)
      <3>1. CASE IsActive(cutover[x][g])
        BY <1>2, <3>1 DEF IInv, GateClosed, Taken
      <3>2. CASE x = co.at
        BY <3>2 DEF NoInflight, WorkLeases, Inside
      <3> QED
        BY <2>2, <3>1, <3>2, <1>1 DEF Taken, StoreStays
    <2> QED
      BY <1>2, <2>1, <2>2 DEF IInv, GateClosed
  <1> QED
    BY <1>1, <1>2, StoreStaysKeeps, CoStepKeeps

(* so the facts of the drain stay true until the cutover. *)
LEMMA DrainFactsKeeps == ASSUME IInv, DrainFacts PROVE IInv'
  <1>1. CASE Raise
    <2>1. StoreStays /\ UNCHANGED <<held, gateVars, workVars>> /\ co.pc # "cutover"
      BY DEF DrainFacts, ReadFacts, CoAt, Store, StoreStays
    <2> QED
      BY <1>1, <2>1, AllIdle, RaiseKeeps
  <1>2. CASE ReadsOn("facts", "deliveries") /\ inbox[co.at] = "clear"
    BY <1>2, InboxReadKeeps
  <1>3. CASE ReadsOn("deliveries", "inflight")
    BY <1>3, DeliveriesReadKeeps
  <1>4. CASE ReadsOn("inflight", "cutover") /\ NoInflight(co.at)
    BY <1>4, InflightReadKeeps
  <1> QED
    BY <1>1, <1>2, <1>3, <1>4 DEF DrainFacts, ReadFacts, ReadsOn, CoAt, CoGoto, Store

-----------------------------------------------------------------------------
(* The coordinator's steps that write the store.                            *)

(* No one has begun a cutover of a later epoch. *)
LEMMA NotSuperseded == ASSUME IInv, NEW s \in Scope PROVE ~Superseded(s)
BY DEF IInv, StoreInv, NothingLater, Superseded

(* A write for an account that is taken already, after which the only        *)
(* unfinished cutover, if any, is the one at the coordinator's account.      *)
LEMMA WriteKeeps ==
    ASSUME IInv, NEW s \in Scope, NEW c \in Cutover, NEW L \in SUBSET Lease, Writes(s, c, L),
           RowsFit(s, epoch)', UNCHANGED <<held, gateVars, workVars>>,
           co' \in Coordinator, CoInv', co'.t = co.t,
           \A x \in Scope : x # s => Idle(x),
           \/ co' = co /\ co.pc = "cutover" /\ co.at = s /\ c.state # "CANDIDATE_ACTIVE"
              /\ PriorExpired(s, co.t) /\ c.started <= co.t
           \/ co'.pc \in Installing /\ c.state = "CANDIDATE_ACTIVE"
              /\ Taken(s, epoch, {"cutover"})
    PROVE  IInv'
  <1>1. CoFrame /\ epoch \in Epoch /\ s \in Scope
    BY DEF CoFrame, Writes, gateVars, workVars, IInv, TypeOK
  <1>2. RowsGrow
    BY <1>1, WriteTypes DEF RowsGrow, Writes
  <1>3. TypeOK'
    BY <1>1, WriteTypes DEF IInv, TypeOK, CoFrame, gateVars, workVars
  <1>4. \A x \in Scope : StoreInv(x)'
    BY WriteKeepsStore
  <1>5. c # None
    BY NoneAssumption
  <1>6. ASSUME NEW x \in Scope PROVE Unfinished(x)'
    <2>1. PriorExpired(x, co.t)' = PriorExpired(x, co.t)
      BY WriteTypes
    <2>2. CASE x # s
      BY <1>1, <2>2, WriteTypes DEF Idle, Unfinished, Current, CoFrame
    <2>3. CASE x = s
      BY <1>1, <2>1, <2>3, WriteTypes DEF Unfinished, Current, CoFrame, Cutover, State
    <2> QED
      BY <2>2, <2>3
  <1>7. ASSUME NEW x \in Scope, NEW g \in Epoch
        PROVE  /\ Taken(x, g, {"cutover"})' => Taken(x, g, {"cutover"})
               /\ Taken(x, g, {"deliveries", "inflight", "cutover"})' =>
                    Taken(x, g, {"deliveries", "inflight", "cutover"})
    <2>1. PriorExpired(x, co.t)' = PriorExpired(x, co.t)
      BY WriteTypes
    <2>2. CASE x # s \/ g # epoch
      <3>1. cutover'[x][g] = cutover[x][g]
        BY <2>2, WriteTypes
      <3> QED
        BY <1>1, <2>1, <3>1 DEF Taken, CoFrame, Installing
    <2>3. CASE x = s /\ g = epoch
      <3>1. cutover'[x][g] = c
        BY <2>3, WriteTypes
      <3> QED
        BY <1>1, <2>1, <2>3, <3>1 DEF Taken, CoFrame, Installing, IsActive
    <2> QED
      BY <2>2, <2>3
  <1> QED
    BY <1>1, <1>2, <1>3, <1>4, <1>6, <1>7, QuietCoStepKeeps

(* Only the coordinator's account may be unfinished. *)
LEMMA OthersIdle == ASSUME IInv PROVE \A x \in Scope : x # co.at => Idle(x)
BY DEF IInv, Unfinished, Idle

(* What the coordinator knows when it is about to cut over. *)
LEMMA AtCutover ==
    ASSUME IInv, co.pc = "cutover"
    PROVE  /\ co.at \in Scope /\ co.candidate \in Epoch /\ co \in Coordinator /\ co.t \in Time
           /\ co.t <= now /\ epoch \in Epoch /\ now \in Time
           /\ Current(co.at) \in Cutover \cup {None} /\ RowsFit(co.at, epoch)
           /\ Time \subseteq Nat
BY DEF IInv, TypeOK, CoInv, Coordinator, Current, StoreInv, Time

(* The cutover is begun. *)
LEMMA BeginCutoverKeeps == ASSUME IInv, BeginCutover PROVE IInv'
  <1>0. PICK s : s = co.at
    OBVIOUS
  <1> DEFINE c == [state |-> "DRAINING", candidate |-> co.candidate, started |-> co.t,
                   updated |-> co.t, observed |-> 0, lease |-> None]
  <1>1. co.pc = "cutover" /\ Current(s) = None
    BY <1>0 DEF BeginCutover, CoAt
  <1>2. /\ s \in Scope /\ co.candidate \in Epoch /\ co \in Coordinator /\ co.t \in Time
        /\ co.t <= now /\ epoch \in Epoch /\ RowsFit(s, epoch) /\ Time \subseteq Nat
    BY <1>0, <1>1, AtCutover
  <1>3. CASE Raise /\ UNCHANGED cutover
    <2>1. \A x \in Scope : Idle(x)
      BY <1>0, <1>1, OthersIdle DEF Idle
    <2>2. StoreStays /\ UNCHANGED <<held, gateVars, workVars>>
      BY <1>0, <1>3 DEF BeginCutover, StoreStays
    <2> QED
      BY <1>0, <1>3, <2>1, <2>2, RaiseKeeps
  <1>4. CASE SetCutover(s, c) /\ UNCHANGED co /\ PriorExpired(s, co.t)
    <2>1. /\ c \in Cutover /\ c.started = co.t /\ c.updated = co.t /\ c.state = "DRAINING"
          /\ c.observed = 0
      BY <1>0, <1>2 DEF Cutover, State
    <2> HIDE DEF c
    <2>2. Writes(s, c, {})
      BY <1>0, <1>2, <1>4, <2>1 DEF Writes, BeginCutover, IInv, TypeOK
    <2>3. Chain(s, epoch) = {}
      BY <1>0, <1>1, <1>2 DEF RowsFit, Current
    <2>4. RowsFit(s, epoch)'
      <3>1. Chain(s, epoch)' = {} /\ cutover'[s][epoch] = c /\ epoch' = epoch
        BY <1>0, <1>2, <2>1, <2>2, <2>3, WriteTypes DEF Writes
      <3>2. c # None
        BY <1>0, <2>1, NoneAssumption
      <3> QED
        BY <1>0, <2>1, <3>1, <3>2 DEF RowsFit, Chain
    <2>5. CoInv'
      BY <1>0, <1>2, <1>1, <1>4, <2>2 DEF CoInv, Writes, Installing, Reading
    <2>6. UNCHANGED <<held, gateVars, workVars>>
      BY <1>0 DEF BeginCutover
    <2>7. {} \in SUBSET Lease
      OBVIOUS
    <2>8. c.started <= co.t
      BY <1>0, <2>1, <1>2 DEF Time
    <2> QED
      BY <1>0, <1>1, <1>2, <1>4, <2>1, <2>2, <2>4, <2>5, <2>6, <2>7, <2>8, OthersIdle, WriteKeeps
  <1> QED
    BY <1>0, <1>3, <1>4 DEF BeginCutover

(* What the coordinator began in this round it finds as it left it. *)
LEMMA RecordDrainKeeps == ASSUME IInv, RecordDrain PROVE IInv'
  <1>0. PICK s : s = co.at
    OBVIOUS
  <1> DEFINE c == [Current(s) EXCEPT !.state = "DRAINED", !.observed = co.t, !.updated = co.t]
  <1>1. co.pc = "cutover" /\ Current(s) # None /\ Current(s).state = "DRAINING"
    BY <1>0 DEF RecordDrain, CoAt
  <1>2. /\ s \in Scope /\ co.candidate \in Epoch /\ co \in Coordinator /\ co.t \in Time
        /\ co.t <= now /\ epoch \in Epoch /\ RowsFit(s, epoch) /\ Time \subseteq Nat
        /\ Current(s) \in Cutover
    BY <1>0, <1>1, AtCutover
  <1>3. PriorExpired(s, co.t) /\ Current(s).started <= co.t
    BY <1>0, <1>1, <1>2 DEF IInv, Unfinished
  <1>4. Current(s).started \in Nat
    BY <1>0, <1>2 DEF Cutover
  <1>5. SetCutover(s, c) /\ UNCHANGED co
    BY <1>0, <1>2, <1>3, <1>4 DEF RecordDrain
  <1>6. /\ c \in Cutover /\ c.started = Current(s).started /\ c.updated = co.t
        /\ c.state = "DRAINED" /\ c.observed = co.t
    BY <1>0, <1>2 DEF Cutover, State
  <1> HIDE DEF c
  <1>7. Writes(s, c, {})
    BY <1>0, <1>2, <1>3, <1>5, <1>6 DEF Writes, RecordDrain, IInv, TypeOK
  <1>8. Chain(s, epoch) = {}
    BY <1>0, <1>1, <1>2 DEF RowsFit, Current
  <1>9. RowsFit(s, epoch)'
    <2>1. Chain(s, epoch)' = {} /\ cutover'[s][epoch] = c /\ epoch' = epoch
      BY <1>0, <1>2, <1>6, <1>7, <1>8, WriteTypes DEF Writes
    <2>2. c # None
      BY <1>0, <1>6, NoneAssumption
    <2> QED
      BY <1>0, <1>6, <2>1, <2>2 DEF RowsFit, Chain
  <1>10. CoInv'
    BY <1>0, <1>2, <1>1, <1>5, <1>7 DEF CoInv, Writes, Installing, Reading
  <1>11. UNCHANGED <<held, gateVars, workVars>> /\ {} \in SUBSET Lease
    BY <1>0 DEF RecordDrain
  <1> QED
    BY <1>0, <1>1, <1>2, <1>3, <1>5, <1>6, <1>7, <1>9, <1>10, <1>11, OthersIdle, WriteKeeps

(* The candidate's lease starts no earlier than the record that it follows. *)
LEMMA NotBeforeFits ==
    ASSUME IInv, co.pc = "cutover", Current(co.at) # None
    PROVE  /\ NotBefore(co.at) \in Time /\ co.t <= NotBefore(co.at)
           /\ Current(co.at).updated <= NotBefore(co.at) /\ NotBefore(co.at) <= now
           /\ Current(co.at).started <= NotBefore(co.at)
  <1>1. /\ co.at \in Scope /\ co.t \in Time /\ co.t <= now /\ epoch \in Epoch
        /\ now \in Time /\ Current(co.at) \in Cutover /\ Time \subseteq Nat
    BY AtCutover
  <1>2. /\ Current(co.at).updated \in Time /\ Current(co.at).started \in Time
    BY <1>1 DEF Cutover
  <1>3. /\ Current(co.at).started <= Current(co.at).updated
        /\ Current(co.at).updated <= now
    BY <1>1 DEF IInv, StoreInv, TimesFit, Current
  <1> QED
    BY <1>1, <1>2, <1>3 DEF NotBefore, Time

(* The candidate becomes the owner. *)
LEMMA ActivateCandidateKeeps == ASSUME IInv, ActivateCandidate PROVE IInv'
  <1>0. PICK s : s = co.at
    OBVIOUS
  <1> DEFINE l == [epoch |-> epoch, owner |-> Current(s).candidate, prev |-> 0,
                   issued |-> NotBefore(s)]
             c == [Current(s) EXCEPT !.state = "CANDIDATE_ACTIVE", !.lease = l,
                                     !.updated = NotBefore(s)]
  <1>1. co.pc = "cutover" /\ Current(s) # None /\ Current(s).state = "DRAINED"
    BY <1>0 DEF ActivateCandidate, CoAt
  <1>2. /\ s \in Scope /\ co.candidate \in Epoch /\ co \in Coordinator /\ co.t \in Time
        /\ co.t <= now /\ epoch \in Epoch /\ RowsFit(s, epoch) /\ Time \subseteq Nat
        /\ Current(s) \in Cutover
    BY <1>0, <1>1, AtCutover
  <1>3. PriorExpired(s, co.t)
    BY <1>0, <1>1, <1>2 DEF IInv, Unfinished
  <1>4. /\ NotBefore(s) \in Time /\ co.t <= NotBefore(s) /\ NotBefore(s) <= now
        /\ Current(s).started <= NotBefore(s)
    BY <1>0, <1>1, NotBeforeFits
  <1>5. /\ SetCutover(s, c) /\ AddRow(s, l)
        /\ co' = [co EXCEPT !.pc = "actInstall", !.lease = l]
        /\ UNCHANGED <<now, epoch, held, gateVars, workVars>>
    BY <1>0, <1>2, NotSuperseded DEF ActivateCandidate
  <1>6. /\ l \in Lease /\ l.epoch = epoch /\ l.owner = Current(s).candidate
        /\ l.prev = 0 /\ l.issued = NotBefore(s)
    BY <1>0, <1>2, <1>4 DEF Lease, Cutover
  <1> HIDE DEF l
  <1>7. /\ c \in Cutover /\ c.started = Current(s).started /\ c.updated = NotBefore(s)
        /\ c.state = "CANDIDATE_ACTIVE" /\ c.lease = l /\ c.candidate = Current(s).candidate
    BY <1>0, <1>2, <1>4, <1>6 DEF Cutover, State
  <1>8. /\ co' \in Coordinator /\ co'.pc = "actInstall" /\ co'.lease = l /\ co'.at = s
        /\ co'.t = co.t /\ co'.candidate = co.candidate
    BY <1>0, <1>2, <1>5, <1>6 DEF Coordinator, CoPc
  <1> HIDE DEF c
  <1>9. \A m \in rows[s] : m.epoch < epoch => Expires(m) + ClockSkew <= l.issued
    <2> SUFFICES ASSUME NEW m \in rows[s], m.epoch < epoch
                 PROVE  Expires(m) + ClockSkew <= l.issued
      OBVIOUS
    <2>1. Expires(m) + ClockSkew <= co.t
      BY <1>0, <1>2, <1>3, OldExpired
    <2>2. Expires(m) \in Nat /\ ClockSkew \in Nat
      BY <1>0, <1>2, LeaseTypes, CutoverAssumption DEF IInv, TypeOK
    <2> QED
      BY <1>0, <1>2, <1>4, <1>6, <2>1, <2>2 DEF Time
  <1>10. Writes(s, c, {l})
    BY <1>0, <1>2, <1>4, <1>5, <1>6, <1>7, <1>9 DEF Writes, AddRow
  <1>11. Chain(s, epoch) = {}
    BY <1>0, <1>1, <1>2 DEF RowsFit, Current
  <1>12. {l} \in SUBSET Lease
    BY <1>0, <1>6
  <1>13. RowsFit(s, epoch)'
    <2>1. Chain(s, epoch)' = {l} /\ cutover'[s][epoch] = c /\ epoch' = epoch
      <3>1. Chain(s, epoch)' = Chain(s, epoch) \cup {l} /\ cutover'[s][epoch] = c
        BY <1>0, <1>2, <1>7, <1>10, <1>12, WriteTypes
      <3>2. epoch' = epoch
        BY <1>10 DEF Writes
      <3>3. Chain(s, epoch) \cup {l} = {l}
        BY <1>11
      <3> QED
        BY <3>1, <3>2, <3>3
    <2>2. c # None
      BY <1>0, <1>7, NoneAssumption
    <2>3. {m \in {l} : m.prev = 0} = {l}
      BY <1>0, <1>6
    <2>4. Cardinality({l}) = 1
      BY <1>0, FS_Singleton
    <2>5. l.issued <= l.issued
      BY <1>0, <1>2, <1>4, <1>6 DEF Time
    <2> QED
      BY <1>0, <1>6, <1>7, <2>1, <2>2, <2>3, <2>4, <2>5 DEF RowsFit, Chain
  <1>14. CoInv'
    BY <1>0, <1>2, <1>5, <1>7, <1>8, <1>10, <1>12, WriteTypes DEF CoInv, Installing, Reading
  <1>15. Taken(s, epoch, {"cutover"}) /\ co'.pc \in Installing
    BY <1>0, <1>1, <1>3, <1>8 DEF Taken, Installing
  <1> QED
    BY <1>0, <1>2, <1>5, <1>7, <1>8, <1>10, <1>12, <1>13, <1>14, <1>15, OthersIdle, WriteKeeps

(* renew_candidate_owner at a time that has come: the chain goes on. *)
LEMMA RenewWrites ==
    ASSUME IInv, NEW s \in Scope, NEW t \in Time, t <= now, MayRenew(s, t), RenewRows(s, t),
           UNCHANGED <<now, epoch>>
    PROVE  \E c \in Cutover, l \in Lease :
              /\ Writes(s, c, {l}) /\ RowsFit(s, epoch)' /\ l = Renewed(s, t)
              /\ c.state = "CANDIDATE_ACTIVE"
  <1> DEFINE o == Current(s)
             k == Current(s).lease
             l == Renewed(s, t)
             c == [o EXCEPT !.lease = l, !.updated = t]
  <1>1. /\ o \in Cutover /\ o # None /\ o.state = "CANDIDATE_ACTIVE" /\ epoch \in Epoch
        /\ RowsFit(s, epoch)
    BY DEF MayRenew, IsActive, Current, IInv, TypeOK, StoreInv
  <1>2. /\ k \in Chain(s, epoch) /\ o.updated = k.issued
        /\ \A m \in Chain(s, epoch) :
             /\ m.owner = o.candidate
             /\ m.issued <= k.issued
             /\ m # k => \E n \in Chain(s, epoch) : n.prev = m.issued /\ n.issued <= Expires(m)
             /\ m.prev = 0 \/ \E n \in Chain(s, epoch) :
                    n.issued = m.prev /\ n.issued < m.issued /\ m.issued <= Expires(n)
        /\ Cardinality({m \in Chain(s, epoch) : m.prev = 0}) = 1
    BY <1>1 DEF RowsFit, Current
  <1>3. k \in rows[s] /\ k \in Lease /\ k.epoch = epoch /\ Chain(s, epoch) \subseteq Lease
    BY <1>2 DEF Chain, IInv, TypeOK
  <1>4. \/ l = k /\ k.issued = t
        \/ /\ l = [k EXCEPT !.prev = k.issued, !.issued = t]
           /\ k.issued < t /\ t <= Expires(k)
    BY DEF MayRenew, Renewed, Successor, IsReplay, MayContinue
  <1>5. /\ l \in Lease /\ l.epoch = epoch /\ l.owner = k.owner /\ l.issued = t
        /\ k.issued <= t
    <2>1. CASE l = k /\ k.issued = t
      BY <2>1, <1>3 DEF Time
    <2>2. CASE l = [k EXCEPT !.prev = k.issued, !.issued = t] /\ k.issued < t
      <3>1. k.issued \in Time /\ k.issued \in Nat /\ t \in Nat
        BY <1>3, LeaseTypes DEF Time
      <3>2. k.issued <= t
        BY <2>2, <3>1
      <3> HIDE DEF k, l
      <3> QED
        BY <2>2, <1>3, <3>1, <3>2 DEF Lease
    <2> QED
      BY <2>1, <2>2, <1>4
  <1>6. l = k \/ (l.prev = k.issued /\ k.issued < t /\ t <= Expires(k))
    BY <1>3, <1>4 DEF Lease
  <1> HIDE DEF l
  <1>7. /\ c \in Cutover /\ c.started = o.started /\ c.updated = t /\ c.lease = l
        /\ c.state = "CANDIDATE_ACTIVE" /\ c.candidate = o.candidate
    BY <1>1, <1>5 DEF Cutover
  <1>8. SetCutover(s, c) /\ AddRow(s, l)
    BY DEF RenewRows, l
  <1> HIDE DEF c, o, k
  <1>9. o.started <= t /\ o.started \in Nat /\ k.issued \in Nat /\ t \in Nat /\ now \in Nat
    <2>1. o.started <= o.updated /\ o.started \in Time
      BY <1>1 DEF IInv, StoreInv, TimesFit, Current, o, Cutover
    <2>2. k.issued \in Time
      BY <1>3, LeaseTypes
    <2>3. now \in Time
      BY DEF IInv, TypeOK
    <2> QED
      BY <2>1, <2>2, <2>3, <1>2, <1>5 DEF Time
  <1>10. \A m \in rows[s] : m.epoch < epoch => Expires(m) + ClockSkew <= l.issued
    <2> SUFFICES ASSUME NEW m \in rows[s], m.epoch < epoch
                 PROVE  Expires(m) + ClockSkew <= l.issued
      OBVIOUS
    <2>1. Expires(m) + ClockSkew <= k.issued
      BY <1>3 DEF IInv, StoreInv, OwnersApart
    <2>2. Expires(m) \in Nat /\ ClockSkew \in Nat
      BY LeaseTypes, CutoverAssumption DEF IInv, TypeOK
    <2> QED
      BY <1>5, <1>9, <2>1, <2>2
  <1>11. Writes(s, c, {l})
    BY <1>5, <1>7, <1>8, <1>9, <1>10 DEF Writes, AddRow
  <1>12. /\ Chain(s, epoch)' = Chain(s, epoch) \cup {l} /\ cutover'[s][epoch] = c
         /\ epoch' = epoch
    <2>1. {l} \in SUBSET Lease
      BY <1>5
    <2> QED
      BY <1>7, <1>11, <2>1, WriteTypes
  <1>13. RowsFit(s, epoch)'
    <2> DEFINE C == Chain(s, epoch)
               D == C \cup {l}
    <2>1. c # None
      BY <1>7, NoneAssumption
    <2>2. c.lease \in D /\ c.updated = c.lease.issued
      BY <1>5, <1>7
    <2>3. ASSUME NEW m \in D PROVE m.owner = c.candidate /\ m.issued <= c.lease.issued
      <3>1. CASE m \in C
        <4>1. m.owner = o.candidate /\ m.issued <= k.issued /\ m \in Lease
          BY <3>1, <1>2, <1>3
        <4>2. m.issued \in Nat
          BY <4>1, LeaseTypes
        <4> QED
          BY <4>1, <4>2, <1>5, <1>7, <1>9
      <3>2. CASE m = l
        BY <3>2, <1>2, <1>5, <1>7, <1>9
      <3> QED
        BY <3>1, <3>2
    <2>4. ASSUME NEW m \in D, m # c.lease
          PROVE  \E n \in D : n.prev = m.issued /\ n.issued <= Expires(m)
      <3>1. CASE m = k
        BY <2>4, <3>1, <1>5, <1>6, <1>7
      <3>2. CASE m # k
        BY <2>4, <3>2, <1>2, <1>7
      <3> QED
        BY <3>1, <3>2
    <2>5. ASSUME NEW m \in D
          PROVE  m.prev = 0 \/ \E n \in D :
                    n.issued = m.prev /\ n.issued < m.issued /\ m.issued <= Expires(n)
      <3>1. CASE m \in C
        BY <3>1, <1>2
      <3>2. CASE m = l /\ l # k
        BY <3>2, <1>2, <1>5, <1>6
      <3> QED
        BY <3>1, <3>2, <1>2
    <2>6. {m \in D : m.prev = 0} = {m \in C : m.prev = 0}
      <3>1. l = k \/ l.prev # 0
        <4>1. k.issued # 0
          BY <1>3, LeaseTypes DEF Time
        <4> QED
          BY <1>6, <4>1
      <3> QED
        BY <3>1, <1>2
    <2>7. Cardinality({m \in D : m.prev = 0}) = 1
      BY <2>6, <1>2
    <2> HIDE DEF D
    <2>8. Chain(s, epoch)' = D
      BY <1>12 DEF D
    <2>9. /\ \A m \in D :
             /\ m.owner = c.candidate
             /\ m.issued <= c.lease.issued
             /\ m # c.lease => \E n \in D : n.prev = m.issued /\ n.issued <= Expires(m)
             /\ m.prev = 0 \/ \E n \in D :
                    n.issued = m.prev /\ n.issued < m.issued /\ m.issued <= Expires(n)
      BY <2>3, <2>4, <2>5
    <2>10. cutover'[s][epoch'] = c /\ c.state = "CANDIDATE_ACTIVE"
      BY <1>7, <1>12
    <2>11. Cardinality({m \in Chain(s, epoch)' : m.prev = 0}) = 1
      BY <2>7, <2>8
    <2>12. /\ c.lease \in Chain(s, epoch)'
           /\ \A m \in Chain(s, epoch)' :
                /\ m.owner = c.candidate
                /\ m.issued <= c.lease.issued
                /\ m # c.lease =>
                     \E n \in Chain(s, epoch)' : n.prev = m.issued /\ n.issued <= Expires(m)
                /\ m.prev = 0 \/ \E n \in Chain(s, epoch)' :
                     n.issued = m.prev /\ n.issued < m.issued /\ m.issued <= Expires(n)
      BY <2>2, <2>8, <2>9
    <2> QED
      BY <2>1, <2>2, <2>10, <2>11, <2>12 DEF RowsFit
  <1> QED
    BY <1>5, <1>7, <1>11, <1>13 DEF l

(* The renewal of an account, and the call that will install it. *)
LEMMA RenewKeeps ==
    ASSUME IInv, NEW s \in Scope, NEW t \in Time, t <= now, MayRenew(s, t), RenewRows(s, t),
           UNCHANGED <<now, epoch, held, gateVars, workVars>>,
           co.pc # "cutover" \/ co.at = s,
           co' \in Coordinator, co'.t = co.t, co'.at = s, co'.lease = Renewed(s, t),
           \/ co'.pc = "renewInstall"
           \/ co'.pc = "actInstall" /\ co'.candidate \in Epoch
    PROVE  IInv'
  <1>1. PICK c \in Cutover, l \in Lease :
              /\ Writes(s, c, {l}) /\ RowsFit(s, epoch)' /\ l = Renewed(s, t)
              /\ c.state = "CANDIDATE_ACTIVE"
    BY RenewWrites
  <1>2. {l} \in SUBSET Lease /\ epoch \in Epoch /\ co.t <= now
    BY DEF IInv, TypeOK, CoInv
  <1>3. l \in rows'[s]
    BY <1>1, <1>2, WriteTypes
  <1>4. CoInv'
    BY <1>1, <1>2, <1>3 DEF CoInv, Installing, Reading
  <1>5. \A x \in Scope : x # s => Idle(x)
    BY AllIdle, OthersIdle
  <1>6. Taken(s, epoch, {"cutover"}) /\ co'.pc \in Installing
    BY DEF Taken, MayRenew, Current, Installing
  <1> QED
    BY <1>1, <1>2, <1>4, <1>5, <1>6, WriteKeeps

(* A lease is due for renewal. *)
LEMMA RenewDueKeeps == ASSUME IInv, NEW s \in Scope, RenewDue(s) PROVE IInv'
  <1>1. /\ co.pc = "renew" /\ UNCHANGED <<now, epoch, held, gateVars, workVars>>
        /\ co \in Coordinator /\ co.t \in Time /\ co.t <= now
    BY DEF RenewDue, CoAt, IInv, TypeOK, Coordinator, CoInv
  <1>2. CASE MayRenew(s, co.t)
    <2>1. /\ RenewRows(s, co.t)
          /\ co' = [co EXCEPT !.pc = "renewInstall", !.at = s, !.lease = Renewed(s, co.t)]
      BY <1>2 DEF RenewDue
    <2>2. Renewed(s, co.t) \in Lease
      BY <1>1, <1>2, <2>1, RenewWrites
    <2>3. /\ co' \in Coordinator /\ co'.t = co.t /\ co'.at = s
          /\ co'.lease = Renewed(s, co.t) /\ co'.pc = "renewInstall"
      BY <1>1, <2>1, <2>2 DEF Coordinator, CoPc
    <2> QED
      BY <1>1, <1>2, <2>1, <2>3, RenewKeeps
  <1>3. CASE Raise /\ UNCHANGED Store
    BY <1>1, <1>3, AllIdle, RaiseKeeps DEF StoreStays, Store
  <1> QED
    BY <1>2, <1>3 DEF RenewDue

(* The owner's lease is renewed. *)
LEMMA RenewInPlaceKeeps == ASSUME IInv, RenewInPlace PROVE IInv'
  <1>0. PICK s : s = co.at
    OBVIOUS
  <1>1. PICK t : t = NotBefore(s)
    OBVIOUS
  <1>2. co.pc = "cutover" /\ IsActive(Current(s)) /\ Current(s) # None
    BY <1>0 DEF RenewInPlace, CoAt, IsActive
  <1>3. /\ s \in Scope /\ co.candidate \in Epoch /\ co \in Coordinator
        /\ UNCHANGED <<now, epoch, held, gateVars, workVars>>
        /\ t \in Time /\ t <= now
    BY <1>0, <1>1, <1>2, AtCutover, NotBeforeFits DEF RenewInPlace
  <1>4. CASE MayRenew(s, t)
    <2>1. /\ RenewRows(s, t)
          /\ co' = [co EXCEPT !.pc = "actInstall", !.lease = Renewed(s, t)]
      BY <1>0, <1>1, <1>4 DEF RenewInPlace
    <2>2. Renewed(s, t) \in Lease
      BY <1>3, <1>4, <2>1, RenewWrites
    <2>3. /\ co' \in Coordinator /\ co'.t = co.t /\ co'.at = s /\ co'.candidate = co.candidate
          /\ co'.lease = Renewed(s, t) /\ co'.pc = "actInstall"
      BY <1>0, <1>3, <2>1, <2>2 DEF Coordinator, CoPc
    <2> QED
      BY <1>0, <1>3, <1>4, <2>1, <2>3, RenewKeeps
  <1>5. CASE Raise /\ UNCHANGED Store
    <2>1. \A x \in Scope : Idle(x)
      BY <1>0, <1>2, OthersIdle DEF Idle, IsActive
    <2> QED
      BY <1>3, <1>5, <2>1, RaiseKeeps DEF StoreStays, Store
  <1> QED
    BY <1>0, <1>1, <1>4, <1>5 DEF RenewInPlace

-----------------------------------------------------------------------------
(* Installing, faults, restarts and the clock.                              *)

(* An install puts a stored lease into the gate, and starts a worker that    *)
(* is not inside of it.                                                      *)
LEMMA InstallKeeps ==
    ASSUME IInv, co.pc \in Installing, Install(co.at, co.lease),
           co' \in Coordinator, held' \in [Scope -> Nat], CoInv',
           co'.pc \notin {"deliveries", "inflight", "cutover"}
    PROVE  IInv'
  <1>0. PICK s : s = co.at
    OBVIOUS
  <1>1. PICK l : l = co.lease
    OBVIOUS
  <1>2. s \in Scope /\ l \in rows[s] /\ l \in Lease
    BY <1>0, <1>1 DEF IInv, CoInv, TypeOK, Installing
  <1>3. StoreStays /\ UNCHANGED <<inst, inbox, delivery, sender>>
    BY DEF Install, StoreStays, Store
  <1>4. /\ gate' \in [Scope -> Lease \cup {None}] /\ bound' \in Epoch \cup {0}
        /\ \A x \in Scope : gate'[x] # None => gate'[x] \in rows[x]
    <2>1. l.epoch \in Epoch
      BY <1>2, LeaseTypes
    <2>2. gate' = gate \/ gate' = [gate EXCEPT ![s] = l]
      BY <1>0, <1>1 DEF Install
    <2>3. bound' \in {l.epoch, bound}
      BY <1>0, <1>1 DEF Install, BoundBy
    <2> QED
      BY <1>2, <2>1, <2>2, <2>3 DEF IInv, TypeOK, LeasesStored
  <1>5. /\ worker' \in [Scope -> Worker]
        /\ \A x \in Scope : /\ worker'[x].lease = worker[x].lease
                            /\ worker'[x].at = worker[x].at
                            /\ \/ worker'[x].pc = worker[x].pc
                               \/ worker[x].pc = "off" /\ worker'[x].pc = "idle"
    <2>1. worker \in [Scope -> Worker]
      BY DEF IInv, TypeOK
    <2>2. CASE UNCHANGED worker
      BY <2>1, <2>2
    <2>3. CASE worker[s].pc = "off" /\ worker' = [worker EXCEPT ![s].pc = "idle"]
      BY <1>2, <2>1, <2>3 DEF Worker, WorkerPc
    <2> QED
      BY <1>0, <1>1, <2>2, <2>3 DEF Install
  <1>6. TypeOK'
    BY <1>3, <1>4, <1>5 DEF IInv, TypeOK, StoreStays
  <1>7. co.pc # "cutover"
    BY DEF Installing
  <1>8. ASSUME NEW x \in Scope
        PROVE  StoreInv(x)' /\ Unfinished(x)' /\ LeasesStored(x)' /\ GateClosed(x)'
    <2>1. StoreInv(x)'
      BY <1>3, StoreStaysKeeps
    <2>2. Unfinished(x)'
      BY <1>3, <1>7, AllIdle DEF Idle, Unfinished, Current, StoreStays
    <2>3. LeasesStored(x)'
      BY <1>3, <1>4, <1>5 DEF IInv, LeasesStored, StoreStays, Inside
    <2>4. WorkLeases(x)' = WorkLeases(x)
      BY <1>3, <1>5 DEF WorkLeases
    <2>5. ASSUME NEW g \in Epoch, NEW pcs \in SUBSET {"deliveries", "inflight", "cutover"},
                 Taken(x, g, pcs)'
          PROVE  Taken(x, g, {"cutover"}) /\ Taken(x, g, {"deliveries", "inflight", "cutover"})
      BY <1>3, <2>5 DEF Taken, StoreStays
    <2>6. GateClosed(x)'
      <3> SUFFICES ASSUME NEW g \in Epoch, NEW l2 \in rows[x], l2.epoch < g
                   PROVE  /\ Taken(x, g, {"deliveries", "inflight", "cutover"})' =>
                            /\ Expires(l2) <= now
                            /\ worker'[x].pc = "flush" /\ inbox[x] = "forward" =>
                                ~Live(l2, worker'[x].at)
                          /\ Taken(x, g, {"cutover"})' => l2 \notin WorkLeases(x)
        BY <1>3, <2>4 DEF GateClosed, StoreStays
      <3> QED
        BY <1>5, <2>5 DEF IInv, GateClosed
    <2> QED
      BY <2>1, <2>2, <2>3, <2>6
  <1> QED
    BY <1>6, <1>8 DEF IInv

(* The new lease is installed at the gate. *)
LEMMA InstallLeaseKeeps ==
    ASSUME IInv, NEW pc \in Installing, NEW next, NEW end, InstallLease(pc, next, end),
           \/ pc = "renewInstall" /\ next = "renew" /\ end = "health"
           \/ pc = "actInstall" /\ next = "act" /\ end = "idle"
    PROVE  IInv'
  <1>1. co.pc = pc /\ Install(co.at, co.lease) /\ now' = now
    BY DEF InstallLease, CoAt, Install
  <1>2. /\ co.at \in Scope /\ co.lease \in Lease /\ co \in Coordinator /\ co.t <= now
        /\ now \in Time /\ held \in [Scope -> Nat] /\ 1 \in Time
        /\ co.pc = "actInstall" => co.candidate \in Epoch
    BY <1>1, CutoverAssumption DEF IInv, CoInv, TypeOK, Installing, Time
  <1>3. CASE Raise /\ UNCHANGED held
    BY <1>1, <1>2, <1>3, RaiseMoves, InstallKeeps
  <1>4. CASE /\ held' = [held EXCEPT ![co.at] = Expires(co.lease)]
             /\ co' = [FreshCoordinator EXCEPT !.pc = end]
    <2>1. /\ co' \in Coordinator /\ co'.pc = end /\ co'.t = 1
      BY <1>2, <1>4 DEF FreshCoordinator, Coordinator, CoPc
    <2>2. CoInv'
      BY <1>1, <1>2, <2>1 DEF CoInv, Installing, Reading, Time
    <2>3. held' \in [Scope -> Nat]
      BY <1>2, <1>4, LeaseTypes
    <2> QED
      BY <1>1, <2>1, <2>2, <2>3, InstallKeeps
  <1>5. CASE /\ held' = [held EXCEPT ![co.at] = Expires(co.lease)]
             /\ co' = [co EXCEPT !.pc = next, !.todo = @ \ {co.at}, !.at = None, !.lease = None]
    <2>1. /\ co' \in Coordinator /\ co'.pc = next /\ co'.t = co.t /\ co'.candidate = co.candidate
      BY <1>2, <1>5 DEF Coordinator, CoPc
    <2>2. CoInv'
      BY <1>1, <1>2, <2>1 DEF CoInv, Installing, Reading
    <2>3. held' \in [Scope -> Nat]
      BY <1>2, <1>5, LeaseTypes
    <2> QED
      BY <1>1, <2>1, <2>2, <2>3, InstallKeeps
  <1> QED
    BY <1>3, <1>4, <1>5 DEF InstallLease

(* It is installed and the answer lost. *)
LEMMA InstallAnswerLostKeeps == ASSUME IInv, InstallAnswerLost PROVE IInv'
  <1>1. /\ co.pc \in Installing /\ Install(co.at, co.lease) /\ Raise /\ UNCHANGED <<now, held>>
        /\ held' \in [Scope -> Nat]
    BY DEF InstallAnswerLost, Installing, Install, IInv, TypeOK
  <1> QED
    BY <1>1, RaiseMoves, InstallKeeps

(* A call of the coordinator is lost. *)
LEMMA CallLostKeeps == ASSUME IInv, CallLost PROVE IInv'
  <1>1. /\ StoreStays /\ UNCHANGED <<held, gateVars, workVars>> /\ Raise /\ co.pc # "cutover"
    BY DEF CallLost, StoreStays, Store
  <1> QED
    BY <1>1, AllIdle, RaiseKeeps

(* After a restart of the gateway the new epoch has nothing stored. *)
LEMMA NewGatewayStore ==
    ASSUME IInv, NewGateway, UNCHANGED now
    PROVE  /\ epoch' \in Epoch /\ co' \in Coordinator /\ held' \in [Scope -> Nat] /\ CoInv'
           /\ UNCHANGED <<cutover, rows>>
           /\ \A x \in Scope : StoreInv(x)' /\ Unfinished(x)'
           /\ \A x \in Scope, g \in Epoch : \A pcs \in SUBSET {"deliveries", "inflight", "cutover"} :
                Taken(x, g, pcs)' => IsActive(cutover[x][g])
  <1>1. /\ epoch' \in Epoch /\ epoch' > epoch /\ UNCHANGED <<cutover, rows>> /\ epoch \in Epoch
        /\ held' \in [Scope -> Nat] /\ Raise
    BY CutoverAssumption DEF NewGateway, Store, IInv, TypeOK, Epoch, Raise
  <1>2. co' \in Coordinator /\ CoInv' /\ co'.pc \notin {"deliveries", "inflight", "cutover"}
    BY <1>1, RaiseMoves
  <1>3. ASSUME NEW x \in Scope PROVE StoreInv(x)'
    <2>1. ASSUME NEW g \in Epoch PROVE RowsFit(x, g)'
      <3>1. RowsFit(x, g)
        BY DEF IInv, StoreInv
      <3>2. Chain(x, g)' = Chain(x, g) /\ cutover'[x][g] = cutover[x][g]
        BY <1>1 DEF Chain
      <3> QED
        BY <3>1, <3>2 DEF RowsFit
    <2>2. NothingLater(x) /\ TimesFit(x) /\ OwnersApart(x) /\ rows[x] \subseteq Lease
      BY DEF IInv, StoreInv, TypeOK
    <2>3. NothingLater(x)'
      BY <1>1, <2>2, LeaseTypes DEF NothingLater, Epoch
    <2>4. TimesFit(x)' /\ OwnersApart(x)'
      BY <1>1, <2>2 DEF TimesFit, OwnersApart
    <2> QED
      BY <2>1, <2>3, <2>4 DEF StoreInv
  <1>4. ASSUME NEW x \in Scope PROVE Unfinished(x)'
    BY <1>1 DEF Unfinished, Current, IInv, StoreInv, NothingLater
  <1>5. ASSUME NEW x \in Scope, NEW g \in Epoch,
               NEW pcs \in SUBSET {"deliveries", "inflight", "cutover"}, Taken(x, g, pcs)'
        PROVE  IsActive(cutover[x][g])
    BY <1>1, <1>2, <1>5 DEF Taken
  <1> QED
    BY <1>1, <1>2, <1>3, <1>4, <1>5

(* The gateway restarts under a new epoch. *)
LEMMA GatewayRestartKeeps == ASSUME IInv, GatewayRestart PROVE IInv'
  <1>1. NewGateway /\ UNCHANGED <<now, gateVars, workVars>>
    BY DEF GatewayRestart
  <1>2. TypeOK' /\ CoInv'
    BY <1>1, NewGatewayStore DEF IInv, TypeOK, gateVars, workVars
  <1>3. ASSUME NEW x \in Scope PROVE LeasesStored(x)' /\ GateClosed(x)'
    <2>1. LeasesStored(x)'
      BY <1>1, NewGatewayStore DEF IInv, LeasesStored, gateVars, workVars
    <2>2. WorkLeases(x)' = WorkLeases(x)
      BY <1>1 DEF WorkLeases, workVars
    <2>3. UNCHANGED <<rows, now, worker, inbox>>
      BY <1>1, NewGatewayStore DEF workVars
    <2>4. ASSUME NEW g \in Epoch, NEW pcs \in SUBSET {"deliveries", "inflight", "cutover"},
                 Taken(x, g, pcs)'
          PROVE  Taken(x, g, pcs)
      BY <1>1, <2>4, NewGatewayStore DEF Taken
    <2>5. GateClosed(x)'
      BY <2>2, <2>3, <2>4 DEF IInv, GateClosed
    <2> QED
      BY <2>1, <2>5
  <1> QED
    BY <1>1, <1>2, <1>3, NewGatewayStore DEF IInv

(* After a restart of the service nobody is inside of the gate. *)
LEMMA NewServiceEmpty ==
    ASSUME IInv, NewService
    PROVE  /\ inst' \in Epoch /\ bound' \in Epoch \cup {0}
           /\ gate' \in [Scope -> Lease \cup {None}] /\ worker' \in [Scope -> Worker]
           /\ sender' \in [Scope -> Sender] /\ inbox' = inbox
           /\ delivery' \in [Scope -> {"clear", "CLAIMED", "SIDE_EFFECT_STARTED",
                                       "FAILED_RETRYABLE", "RECONCILE_REQUIRED"}]
           /\ \A x \in Scope : /\ gate'[x] = None /\ worker'[x].lease = None
                               /\ sender'[x].lease = None /\ worker'[x].pc = "off"
  <1>1. inst' \in Epoch
    BY CutoverAssumption DEF NewService, IInv, TypeOK, Epoch
  <1>2. FreshWorker \in Worker /\ FreshWorker.lease = None /\ FreshWorker.pc = "off"
    BY DEF FreshWorker, Worker, WorkerPc
  <1>3. NoSender \in Sender /\ NoSender.lease = None
    BY DEF NoSender, Sender
  <1>4. delivery' \in [Scope -> {"clear", "CLAIMED", "SIDE_EFFECT_STARTED",
                                 "FAILED_RETRYABLE", "RECONCILE_REQUIRED"}]
    BY DEF NewService, IInv, TypeOK
  <1> QED
    BY <1>1, <1>2, <1>3, <1>4 DEF NewService

(* A gate without a lease is closed to everyone. *)
LEMMA EmptyGateClosed ==
    ASSUME IInv, NewService, UNCHANGED <<now, cutover, rows>>, NEW x \in Scope,
           \A g \in Epoch : \A pcs \in SUBSET {"deliveries", "inflight", "cutover"} :
                Taken(x, g, pcs)' => Taken(x, g, pcs)
    PROVE  LeasesStored(x)' /\ GateClosed(x)'
  <1>1. LeasesStored(x)'
    BY NewServiceEmpty DEF LeasesStored, Inside
  <1>2. WorkLeases(x)' = {}
    BY NewServiceEmpty DEF WorkLeases
  <1>3. worker'[x].pc # "flush"
    BY NewServiceEmpty
  <1>4. GateClosed(x)'
    BY <1>2, <1>3 DEF IInv, GateClosed
  <1> QED
    BY <1>1, <1>4

(* Everything restarts. *)
LEMMA RestartKeeps == ASSUME IInv, Restart PROVE IInv'
  <1>1. NewGateway /\ NewService /\ UNCHANGED now
    BY DEF Restart
  <1>2. TypeOK' /\ CoInv'
    BY <1>1, NewGatewayStore, NewServiceEmpty DEF IInv, TypeOK
  <1>3. ASSUME NEW x \in Scope PROVE LeasesStored(x)' /\ GateClosed(x)'
    <2>1. ASSUME NEW g \in Epoch, NEW pcs \in SUBSET {"deliveries", "inflight", "cutover"},
                 Taken(x, g, pcs)'
          PROVE  Taken(x, g, pcs)
      BY <1>1, <2>1, NewGatewayStore DEF Taken
    <2> QED
      BY <1>1, <2>1, NewGatewayStore, EmptyGateClosed
  <1> QED
    BY <1>1, <1>2, <1>3, NewGatewayStore DEF IInv

(* The communication service restarts with an empty gate. *)
LEMMA ServiceRestartKeeps == ASSUME IInv, ServiceRestart PROVE IInv'
  <1>1. NewService /\ StoreStays /\ UNCHANGED <<held, co>>
    BY DEF ServiceRestart, gatewayVars, StoreStays
  <1>2. TypeOK' /\ CoInv'
    BY <1>1, NewServiceEmpty DEF IInv, TypeOK, CoInv, StoreStays
  <1>3. ASSUME NEW x \in Scope PROVE Unfinished(x)'
    BY <1>1, FrameKeeps DEF StoreStays, StoreFrame
  <1>4. ASSUME NEW x \in Scope PROVE LeasesStored(x)' /\ GateClosed(x)'
    <2>1. ASSUME NEW g \in Epoch, NEW pcs PROVE Taken(x, g, pcs)' => Taken(x, g, pcs)
      BY <1>1, FrameKeeps DEF StoreStays, StoreFrame
    <2> QED
      BY <1>1, <2>1, EmptyGateClosed DEF StoreStays
  <1> QED
    BY <1>1, <1>2, <1>3, <1>4, StoreStaysKeeps DEF IInv

(* Time passes: leases only expire. *)
LEMMA TickKeeps == ASSUME IInv, Tick PROVE IInv'
  <1>1. /\ now' = now + 1 /\ now' \in Time /\ now \in Nat
        /\ UNCHANGED <<epoch, cutover, rows, held, co, inst, bound, gate, worker, inbox, delivery,
                       sender>>
    BY CutoverAssumption DEF Tick, IInv, TypeOK, Time, gatewayVars, gateVars, workVars
  <1>2. TypeOK'
    BY <1>1 DEF IInv, TypeOK
  <1>3. CoInv'
    <2>1. co.t \in Nat /\ co.t <= now
      BY DEF IInv, TypeOK, CoInv, Coordinator, Time
    <2> QED
      BY <1>1, <2>1 DEF IInv, CoInv
  <1>4. ASSUME NEW x \in Scope PROVE StoreInv(x)'
    <2>1. ASSUME NEW g \in Epoch PROVE RowsFit(x, g)'
      <3>1. RowsFit(x, g)
        BY DEF IInv, StoreInv
      <3>2. Chain(x, g)' = Chain(x, g) /\ cutover'[x][g] = cutover[x][g]
        BY <1>1 DEF Chain
      <3> QED
        BY <3>1, <3>2 DEF RowsFit
    <2>2. NothingLater(x) /\ TimesFit(x) /\ OwnersApart(x) /\ rows[x] \subseteq Lease
      BY DEF IInv, StoreInv, TypeOK
    <2>3. NothingLater(x)'
      BY <1>1, <2>2, LeaseTypes DEF NothingLater
    <2>4. TimesFit(x)'
      <3>1. \A g \in Epoch : cutover[x][g] # None => cutover[x][g].updated \in Nat
        BY DEF IInv, TypeOK, Cutover, Time
      <3> QED
        BY <1>1, <2>2, <3>1 DEF TimesFit
    <2>5. OwnersApart(x)'
      BY <1>1, <2>2 DEF OwnersApart
    <2> QED
      BY <2>1, <2>3, <2>4, <2>5 DEF StoreInv
  <1>5. ASSUME NEW x \in Scope PROVE Unfinished(x)' /\ LeasesStored(x)'
    BY <1>1 DEF IInv, Unfinished, Current, PriorExpired, LeasesStored
  <1>6. ASSUME NEW x \in Scope PROVE GateClosed(x)'
    <2>1. ASSUME NEW g \in Epoch, NEW pcs PROVE Taken(x, g, pcs)' = Taken(x, g, pcs)
      BY <1>1 DEF Taken, PriorExpired
    <2>2. WorkLeases(x)' = WorkLeases(x)
      BY <1>1 DEF WorkLeases
    <2>3. \A l \in rows[x] : Expires(l) <= now => Expires(l) <= now'
      BY <1>1, LeaseTypes DEF IInv, TypeOK
    <2> QED
      BY <1>1, <2>1, <2>2, <2>3 DEF IInv, GateClosed
  <1> QED
    BY <1>2, <1>3, <1>4, <1>5, <1>6 DEF IInv

-----------------------------------------------------------------------------
(* The invariant holds at the start. *)
LEMMA InitInv == ASSUME Init PROVE IInv
  <1>1. 1 \in Time /\ 1 \in Epoch
    BY CutoverAssumption DEF Time, Epoch
  <1>2. FreshCoordinator \in Coordinator /\ FreshWorker \in Worker /\ NoSender \in Sender
    BY <1>1 DEF FreshCoordinator, Coordinator, CoPc, FreshWorker, Worker, WorkerPc, NoSender, Sender
  <1>3. TypeOK
    BY <1>1, <1>2 DEF Init, TypeOK
  <1>4. CoInv
    BY <1>1 DEF Init, CoInv, FreshCoordinator, Installing, Reading
  <1>5. ASSUME NEW s \in Scope
        PROVE  StoreInv(s) /\ Unfinished(s) /\ LeasesStored(s) /\ GateClosed(s)
    <2>1. rows[s] = {} /\ \A g \in Epoch : cutover[s][g] = None
      BY DEF Init
    <2>2. \A g \in Epoch : RowsFit(s, g)
      BY <2>1 DEF RowsFit, Chain
    <2>3. NothingLater(s) /\ TimesFit(s) /\ OwnersApart(s) /\ Unfinished(s) /\ GateClosed(s)
      BY <1>1, <2>1 DEF NothingLater, TimesFit, OwnersApart, Unfinished, Current, GateClosed, Init
    <2>4. LeasesStored(s)
      BY DEF Init, LeasesStored, FreshWorker, NoSender, Inside
    <2> QED
      BY <2>2, <2>3, <2>4 DEF StoreInv
  <1> QED
    BY <1>3, <1>4, <1>5 DEF IInv

(* A stuttering step keeps it. *)
LEMMA StutterKeeps == ASSUME IInv, UNCHANGED vars PROVE IInv'
  <1>1. StoreFrame /\ TypeOK'
    BY DEF StoreFrame, IInv, TypeOK, vars, gatewayVars, gateVars, workVars
  <1>2. ASSUME NEW s \in Scope PROVE LeasesStored(s)' /\ GateClosed(s)'
    <2>1. UNCHANGED <<now, rows, gate, worker, inbox, sender>>
      BY DEF vars, gatewayVars, gateVars, workVars
    <2>2. WorkLeases(s)' = WorkLeases(s)
      BY <2>1 DEF WorkLeases
    <2>3. \A g \in Epoch : \A pcs : Taken(s, g, pcs)' = Taken(s, g, pcs)
      BY <1>1, FrameKeeps
    <2>4. LeasesStored(s)'
      BY <2>1 DEF IInv, LeasesStored
    <2> QED
      BY <2>1, <2>2, <2>3, <2>4 DEF IInv, GateClosed
  <1> QED
    BY <1>1, <1>2, FrameKeeps DEF IInv

(* Every step keeps it. *)
LEMMA StepInv == ASSUME IInv, [Next]_vars PROVE IInv'
  <1>1. ASSUME NEW s \in Scope, Work(s) PROVE IInv'
    BY <1>1, StartFlushKeeps, FlushForwardKeeps, NotifyStartKeeps, NotifyEndKeeps, PollKeeps,
       PollEndKeeps, PersistKeeps, DeliverInboundKeeps, ForwardEndKeeps, AcknowledgeKeeps DEF Work
  <1>2. ASSUME NEW s \in Scope, SendBegin(s) \/ Send(s) PROVE IInv'
    BY <1>2, SendBeginKeeps, SendEnterKeeps, SendStartKeeps, SendEndKeeps DEF Send
  <1>3. ASSUME Coordinate PROVE IInv'
    <2>1. ASSUME InstallRenewed PROVE IInv'
      BY <2>1, InstallLeaseKeeps DEF InstallRenewed, Installing
    <2>2. ASSUME InstallActivated PROVE IInv'
      BY <2>2, InstallLeaseKeeps DEF InstallActivated, Installing
    <2> QED
      BY <1>3, <2>1, <2>2, StartLoopKeeps, HealthKeeps, DrainFactsKeeps, RenewDueKeeps,
         ActivateLiveKeeps, ActivateAgainKeeps, BeginCutoverKeeps, RecordDrainKeeps,
         ActivateCandidateKeeps, RenewInPlaceKeeps DEF Coordinate
  <1> QED
    BY <1>1, <1>2, <1>3, CallLostKeeps, InstallAnswerLostKeeps, RestartKeeps, GatewayRestartKeeps,
       ServiceRestartKeeps, TickKeeps, StutterKeeps DEF Next

(* The inductive invariant holds in every reachable state. *)
THEOREM CutoverInvariant == Spec => []IInv
  <1>1. Init => IInv
    BY InitInv
  <1>2. IInv /\ [Next]_vars => IInv'
    BY StepInv
  <1> QED
    BY <1>1, <1>2, PTL DEF Spec

(* Type correctness of the cutover protocol's state. *)
THEOREM CutoverTypeCorrect == Spec => []TypeOK
  <1>1. IInv => TypeOK
    BY DEF IInv
  <1> QED
    BY <1>1, CutoverInvariant, PTL

(* A store that the gateway wrote is never refused by its own scan, wherever *)
(* either service stopped.                                                   *)
THEOREM ScanAlwaysPasses == Spec => []ScanPasses
  <1>1. IInv => ScanPasses
    BY DEF IInv, ScanPasses, StoreInv
  <1> QED
    BY <1>1, CutoverInvariant, PTL

(* No account is owned by two epochs at the same time, for any lease length  *)
(* and clock skew.                                                           *)
THEOREM AlwaysSoleOwner == Spec => []SoleOwner
  <1>1. IInv => SoleOwner
    BY DEF IInv, SoleOwner, StoreInv, OwnersApart
  <1> QED
    BY <1>1, CutoverInvariant, PTL

(* An epoch with a lease has an active cutover. *)
LEMMA OwnerActive ==
    ASSUME IInv, NEW s \in Scope, NEW m \in rows[s]
    PROVE  m.epoch \in Epoch /\ IsActive(cutover[s][m.epoch])
  <1>1. m \in Lease /\ m.epoch \in Epoch
    BY LeaseTypes DEF IInv, TypeOK
  <1>2. /\ m \in Chain(s, m.epoch) /\ RowsFit(s, m.epoch)
        /\ cutover[s][m.epoch] \in Cutover \cup {None}
    BY <1>1 DEF Chain, IInv, StoreInv, TypeOK
  <1> QED
    BY <1>1, <1>2 DEF RowsFit, Cutover, State, IsActive

(* A time at which a lease was valid lies the skew before a later owner.     *)
LEMMA PresentedEarlier ==
    ASSUME IInv, NEW s \in Scope, NEW l \in rows[s], NEW t \in Nat, Live(l, t),
           NEW m \in Foreign(s, l)
    PROVE  t + ClockSkew < m.issued
  <1>1. /\ m \in rows[s] /\ l \in Lease /\ m \in Lease /\ m.epoch > l.epoch
        /\ \A k, n \in rows[s] : k.epoch < n.epoch => Expires(k) + ClockSkew <= n.issued
    BY DEF Foreign, IInv, TypeOK, StoreInv, OwnersApart
  <1>2. /\ Expires(l) \in Nat /\ m.issued \in Nat /\ ClockSkew \in Nat /\ t < Expires(l)
        /\ l.epoch \in Nat /\ m.epoch \in Nat
    BY <1>1, LeaseTypes, CutoverAssumption DEF Live
  <1> QED
    BY <1>1, <1>2

(* No poll or forward is inside of the gate under the lease of an epoch that *)
(* another one has replaced; a send or notify_start that is had read the     *)
(* time it presented before the old lease ran out.                           *)
THEOREM NeverForeignOperation == Spec => []NoForeignOperation
  <1>1. IInv => NoForeignOperation
    <2> SUFFICES ASSUME IInv, NEW s \in Scope
                 PROVE
                   /\ worker[s].pc \in Inside \ {"notify"} => Foreign(s, worker[s].lease) = {}
                   /\ worker[s].pc = "notify" =>
                        \A m \in Foreign(s, worker[s].lease) : worker[s].at + ClockSkew < m.issued
                   /\ sender[s].lease # None =>
                        \A m \in Foreign(s, sender[s].lease) : sender[s].at + ClockSkew < m.issued
      BY DEF NoForeignOperation
    <2>1. ASSUME worker[s].pc \in Inside \ {"notify"}, NEW m \in Foreign(s, worker[s].lease)
          PROVE  FALSE
      <3>1. PICK l \in rows[s] : l = worker[s].lease
        BY <2>1 DEF IInv, LeasesStored
      <3>2. m \in rows[s] /\ m.epoch > l.epoch /\ m \in Lease /\ l \in Lease
        BY <2>1, <3>1 DEF Foreign, IInv, TypeOK
      <3>3. l.epoch < m.epoch
        BY <3>2, LeaseTypes
      <3>4. m.epoch \in Epoch /\ Taken(s, m.epoch, {"cutover"})
        BY <3>2, OwnerActive DEF Taken
      <3>5. l \notin WorkLeases(s)
        BY <3>3, <3>4 DEF IInv, GateClosed
      <3> QED
        BY <2>1, <3>1, <3>5 DEF WorkLeases, Inside
    <2>2. /\ worker[s].at \in Nat /\ sender[s].at \in Nat
      BY DEF IInv, TypeOK, Worker, Sender, Time
    <2>3. ASSUME worker[s].pc = "notify", NEW m \in Foreign(s, worker[s].lease)
          PROVE  worker[s].at + ClockSkew < m.issued
      <3>1. worker[s].lease \in rows[s] /\ Live(worker[s].lease, worker[s].at)
        BY <2>3 DEF IInv, LeasesStored, Inside
      <3> QED
        BY <2>2, <2>3, <3>1, PresentedEarlier
    <2>4. ASSUME sender[s].lease # None, NEW m \in Foreign(s, sender[s].lease)
          PROVE  sender[s].at + ClockSkew < m.issued
      <3>1. sender[s].lease \in rows[s] /\ Live(sender[s].lease, sender[s].at)
        BY <2>4 DEF IInv, LeasesStored
      <3> QED
        BY <2>2, <2>4, <3>1, PresentedEarlier
    <2> QED
      BY <2>1, <2>3, <2>4
  <1> QED
    BY <1>1, CutoverInvariant, PTL

=============================================================================
