--------------------------- MODULE ChannelCutover ---------------------------
(***************************************************************************)
(* Which process may poll and send on a channel account.                   *)
(*                                                                         *)
(* The gateway's coordinator thread (cutover_coordinator.py) moves every   *)
(* account through DRAINING, DRAINED and CANDIDATE_ACTIVE once per gateway *)
(* epoch, in the gateway's store (store.py, contracts/cutover.py), and     *)
(* renews the ownership lease of an active account.  The communication     *)
(* service keeps the installed lease in its authority gate                 *)
(* (channel_authority.py); its channel worker and its senders enter the    *)
(* gate for every platform operation.                                      *)
(*                                                                         *)
(* Every action is one store transaction, one call between the services,   *)
(* one critical section of the gate, or what a thread does between two of  *)
(* them.  Time is the wall clock both services read.  A lease carries its  *)
(* epoch, the instance that owns it, when it was issued and, in place of   *)
(* the digest of its predecessor, when the predecessor was issued.         *)
(*                                                                         *)
(* In production the two services are one process (bootstrap.py:165), so   *)
(* that they restart together; as separate services each may restart alone *)
(* and a call between them may be lost.                                    *)
(***************************************************************************)
EXTENDS Integers, FiniteSets

CONSTANTS
    Scope,          \* the configured accounts: (channel, tenant, link account)
    None,
    LeaseTtl,       \* lease_ttl_ms
    RenewWindow,    \* a lease that has no more than this left is renewed
    ClockSkew,      \* CHANNEL_LEASE_CLOCK_SKEW_MS
    MaxTime,        \* bound: the last instant
    MaxEpoch,       \* bound: gateway epochs, and instances of the service
    Embedded,       \* are both services one process?
    MaySleep        \* may the clock run past a lease that is due for renewal?

ASSUME CutoverAssumption ==
    /\ LeaseTtl \in Nat \ {0} /\ RenewWindow \in Nat /\ ClockSkew \in Nat
    /\ MaxTime \in Nat \ {0} /\ MaxEpoch \in Nat \ {0}
    /\ Embedded \in BOOLEAN /\ MaySleep \in BOOLEAN

Time == 1 .. MaxTime
Epoch == 1 .. MaxEpoch

Lease == [epoch : Epoch, owner : Epoch, prev : Time \cup {0}, issued : Time]
Expires(l) == l.issued + LeaseTtl
Live(l, t) == l.issued <= t /\ t < Expires(l)

State == {"DRAINING", "DRAINED", "CANDIDATE_ACTIVE"}
Cutover ==
    [state : State, candidate : Epoch, started : Time, updated : Time,
     observed : Time \cup {0}, lease : Lease \cup {None}]

ASSUME NoneAssumption == None \notin Lease \cup Cutover \cup Int

VARIABLES
    now,
    epoch,      \* the gateway's epoch
    cutover,    \* table channel_cutover with its evidence and active lease
    rows,       \* table channel_ownership_lease
    held,       \* the coordinator's _leases: when the lease it installed expires
    co,         \* the coordinator thread
    inst,       \* the communication service's instance_id
    bound,      \* the gate's expected_gateway_epoch, 0 while there is no gate
    gate,       \* the gate's _leases
    worker,     \* the channel worker of an account
    inbox,      \* the record that is not acknowledged, if any
    delivery,   \* the ledger state of the account's delivery
    sender      \* the time a send presents, and the lease it is inside of

gatewayVars == <<epoch, cutover, rows, held, co>>
gateVars == <<inst, bound, gate>>
workVars == <<worker, inbox, delivery, sender>>
vars == <<now, gatewayVars, gateVars, workVars>>

CoPc == {"idle", "renew", "renewInstall", "health", "act", "actInstall",
         "facts", "deliveries", "inflight", "cutover"}
WorkerPc == {"off", "idle", "flush", "notify", "cursor", "poll", "batch",
             "deliver", "forward", "ack"}
Inside == {"notify", "poll", "forward"}

Coordinator ==
    [pc : CoPc, t : Time, candidate : Epoch \cup {0}, todo : SUBSET Scope,
     at : Scope \cup {None}, lease : Lease \cup {None}]
Sender == [at : Time \cup {0}, lease : Lease \cup {None}]
Worker ==
    [pc : WorkerPc, at : Time \cup {0}, lease : Lease \cup {None}, started : BOOLEAN]

TypeOK ==
    /\ now \in Time /\ epoch \in Epoch /\ inst \in Epoch
    /\ cutover \in [Scope -> [Epoch -> Cutover \cup {None}]]
    /\ rows \in [Scope -> SUBSET Lease]
    /\ held \in [Scope -> Nat]
    /\ co \in Coordinator
    /\ bound \in Epoch \cup {0}
    /\ gate \in [Scope -> Lease \cup {None}]
    /\ worker \in [Scope -> Worker]
    /\ inbox \in [Scope -> {"clear", "forward", "withheld"}]
    /\ delivery \in [Scope -> {"clear", "CLAIMED", "SIDE_EFFECT_STARTED",
                               "FAILED_RETRYABLE", "RECONCILE_REQUIRED"}]
    /\ sender \in [Scope -> Sender]

FreshCoordinator ==
    [pc |-> "idle", t |-> 1, candidate |-> 0, todo |-> {}, at |-> None, lease |-> None]
NoSender == [at |-> 0, lease |-> None]
FreshWorker == [pc |-> "off", at |-> 0, lease |-> None, started |-> FALSE]

Init ==
    /\ now = 1 /\ epoch = 1 /\ inst = 1
    /\ cutover = [s \in Scope |-> [g \in Epoch |-> None]]
    /\ rows = [s \in Scope |-> {}]
    /\ held = [s \in Scope |-> 0]
    /\ co = FreshCoordinator
    /\ bound = 0
    /\ gate = [s \in Scope |-> None]
    /\ worker = [s \in Scope |-> FreshWorker]
    /\ inbox = [s \in Scope |-> "clear"]
    /\ delivery = [s \in Scope |-> "clear"]
    /\ sender = [s \in Scope |-> NoSender]

-----------------------------------------------------------------------------
(* The store's rows for one account and the gateway's epoch.                *)

Current(s) == cutover[s][epoch]
IsActive(c) == c # None /\ c.state = "CANDIDATE_ACTIVE"

ActiveLease(s, t) ==
    IF IsActive(Current(s)) /\ Live(Current(s).lease, t) THEN Current(s).lease ELSE None

SetCutover(s, c) == cutover' = [cutover EXCEPT ![s][epoch] = c]
AddRow(s, l) == rows' = [rows EXCEPT ![s] = @ \cup {l}]
Superseded(s) == \E g \in Epoch : g > epoch /\ cutover[s][g] # None

(* Mutant of PriorExpired: the skew between the clocks is not waited for.   *)
PriorExpiredNoSkew(s, t) ==
    \A g \in Epoch : g < epoch /\ IsActive(cutover[s][g]) =>
        t >= Expires(cutover[s][g].lease)
PriorExpired(s, t) ==
    \A g \in Epoch : g < epoch /\ IsActive(cutover[s][g]) =>
        t >= Expires(cutover[s][g].lease) + ClockSkew

(* renew_candidate_owner: the new lease continues the current one.          *)
(* Mutant of MayContinue: an expired lease is continued as well.            *)
MayContinueLate(l, t) == l.issued < t
MayContinue(l, t) == l.issued < t /\ t <= Expires(l)
Successor(l, t) == [l EXCEPT !.prev = l.issued, !.issued = t]
IsReplay(l, t) == l.prev # 0 /\ l.issued = t

MayRenew(s, t) ==
    /\ IsActive(Current(s)) /\ ~Superseded(s)
    /\ IsReplay(Current(s).lease, t) \/ MayContinue(Current(s).lease, t)

(* The transaction of renew_channel_candidate, and the lease it returns.    *)
Renewed(s, t) ==
    LET l == Current(s).lease IN IF IsReplay(l, t) THEN l ELSE Successor(l, t)
RenewRows(s, t) ==
    /\ SetCutover(s, [Current(s) EXCEPT !.lease = Renewed(s, t), !.updated = t])
    /\ AddRow(s, Renewed(s, t))

-----------------------------------------------------------------------------
(* The coordinator thread.                                                  *)

CoAt(pc) == co.pc = pc
CoGoto(pc) == co' = [co EXCEPT !.pc = pc]
Raise == co' = FreshCoordinator
Store == <<cutover, rows>>

(* _run and _renew_due: the leases that are due at the time it reads first. *)
Due == {s \in Scope : held[s] # 0 /\ held[s] - now <= RenewWindow}
StartLoop ==
    /\ CoAt("idle")
    /\ IF Due = {} THEN CoGoto("health")
       ELSE co' = [co EXCEPT !.pc = "renew", !.t = now, !.todo = Due]
    /\ UNCHANGED <<now, epoch, Store, held, gateVars, workVars>>

RenewDue(s) ==
    /\ CoAt("renew") /\ s \in co.todo
    /\ IF MayRenew(s, co.t)
       THEN /\ RenewRows(s, co.t)
            /\ co' = [co EXCEPT !.pc = "renewInstall", !.at = s, !.lease = Renewed(s, co.t)]
       ELSE Raise /\ UNCHANGED Store
    /\ UNCHANGED <<now, epoch, held, gateVars, workVars>>

(* _bootstrap: the candidate is the instance that answers, and all accounts *)
(* are activated with the time that is read then.                           *)
Health ==
    /\ CoAt("health")
    /\ co' = [co EXCEPT !.pc = "act", !.t = now, !.candidate = inst, !.todo = Scope]
    /\ UNCHANGED <<now, epoch, Store, held, gateVars, workVars>>

(* _activate up to the drain facts.                                         *)
(* Mutant of ActivateLive: an account with a live lease is not installed    *)
(* again.                                                                   *)
ActivateLiveSkip(s) ==
    /\ CoAt("act") /\ s \in co.todo
    /\ ActiveLease(s, co.t) # None
    /\ co' = IF co.todo = {s} THEN FreshCoordinator ELSE [co EXCEPT !.todo = @ \ {s}]
    /\ UNCHANGED <<now, epoch, Store, held, gateVars, workVars>>
ActivateLive(s) ==
    /\ CoAt("act") /\ s \in co.todo
    /\ ActiveLease(s, co.t) # None
    /\ IF ActiveLease(s, co.t).owner = co.candidate
       THEN co' = [co EXCEPT !.pc = "actInstall", !.at = s, !.lease = ActiveLease(s, co.t)]
       ELSE Raise
    /\ UNCHANGED <<now, epoch, Store, held, gateVars, workVars>>

ActivateAgain(s) ==
    /\ CoAt("act") /\ s \in co.todo
    /\ ActiveLease(s, co.t) = None
    /\ IF Current(s) = None \/ Current(s).candidate = co.candidate
       THEN co' = [co EXCEPT !.pc = "facts", !.at = s]
       ELSE Raise
    /\ UNCHANGED <<now, epoch, Store, held, gateVars, workVars>>

(* channel_drain_facts_payload reads the inbox, then the delivery ledger,   *)
(* then the gate; _require_zero_drain raises unless all are zero.           *)
(* Mutant of NoInflight: the operations inside the gate are not counted.    *)
IgnoreInflight(s) == TRUE
NoInflight(s) == worker[s].pc \notin Inside /\ sender[s].lease = None

ReadFacts(pc, next, zero) ==
    /\ CoAt(pc)
    /\ IF zero THEN CoGoto(next) ELSE Raise
    /\ UNCHANGED <<now, epoch, Store, held, gateVars, workVars>>
DrainFacts ==
    \/ ReadFacts("facts", "deliveries", inbox[co.at] = "clear")
    \/ ReadFacts("deliveries", "inflight", delivery[co.at] = "clear")
    \/ ReadFacts("inflight", "cutover", NoInflight(co.at))

(* The rest of _activate.  No one else writes the cutovers of this epoch,   *)
(* so that the snapshot it holds is the stored one.                         *)
BeginCutover ==
    LET s == co.at IN
    /\ CoAt("cutover") /\ Current(s) = None
    /\ IF ~Superseded(s) /\ PriorExpired(s, co.t)
       THEN /\ SetCutover(s, [state |-> "DRAINING", candidate |-> co.candidate,
                              started |-> co.t, updated |-> co.t, observed |-> 0,
                              lease |-> None])
            /\ UNCHANGED co
       ELSE Raise /\ UNCHANGED cutover
    /\ UNCHANGED <<now, epoch, rows, held, gateVars, workVars>>

RecordDrain ==
    LET s == co.at IN
    /\ CoAt("cutover") /\ Current(s) # None /\ Current(s).state = "DRAINING"
    /\ IF co.t >= Current(s).started
       THEN /\ SetCutover(s, [Current(s) EXCEPT !.state = "DRAINED", !.observed = co.t,
                                                !.updated = co.t])
            /\ UNCHANGED co
       ELSE Raise /\ UNCHANGED cutover
    /\ UNCHANGED <<now, epoch, rows, held, gateVars, workVars>>

NotBefore(s) == IF co.t >= Current(s).updated THEN co.t ELSE Current(s).updated

ActivateCandidate ==
    LET s == co.at
        l == [epoch |-> epoch, owner |-> Current(s).candidate, prev |-> 0,
              issued |-> NotBefore(s)] IN
    /\ CoAt("cutover") /\ Current(s) # None /\ Current(s).state = "DRAINED"
    /\ IF Superseded(s)
       THEN Raise /\ UNCHANGED Store
       ELSE /\ SetCutover(s, [Current(s) EXCEPT !.state = "CANDIDATE_ACTIVE", !.lease = l,
                                                !.updated = NotBefore(s)])
            /\ AddRow(s, l)
            /\ co' = [co EXCEPT !.pc = "actInstall", !.lease = l]
    /\ UNCHANGED <<now, epoch, held, gateVars, workVars>>

RenewInPlace ==
    LET s == co.at IN
    /\ CoAt("cutover") /\ IsActive(Current(s))
    /\ IF MayRenew(s, NotBefore(s))
       THEN /\ RenewRows(s, NotBefore(s))
            /\ co' = [co EXCEPT !.pc = "actInstall", !.lease = Renewed(s, NotBefore(s))]
       ELSE Raise /\ UNCHANGED Store
    /\ UNCHANGED <<now, epoch, held, gateVars, workVars>>

-----------------------------------------------------------------------------
(* Installing a lease at the communication service: runtime.py, then        *)
(* ChannelAuthorityGate.install_lease, then the worker of the account is    *)
(* started if there is none.                                                *)

(* ensure_channel_authority binds the first gate, whether or not the lease  *)
(* is then accepted.                                                        *)
BoundBy(l) == IF l.owner = inst /\ bound = 0 THEN l.epoch ELSE bound

Continues(old, l) ==
    l = old \/ (l.prev = old.issued /\ old.issued < l.issued /\ l.issued <= Expires(old))

Installable(s, l) ==
    /\ l.owner = inst /\ l.epoch = BoundBy(l)
    /\ Live(l, now)
    /\ gate[s] # None => Continues(gate[s], l)

Install(s, l) ==
    /\ bound' = BoundBy(l)
    /\ IF Installable(s, l)
       THEN /\ gate' = [gate EXCEPT ![s] = l]
            /\ worker' = IF worker[s].pc = "off"
                         THEN [worker EXCEPT ![s].pc = "idle"] ELSE worker
       ELSE UNCHANGED <<gate, worker>>
    /\ UNCHANGED <<now, epoch, Store, inst, inbox, delivery, sender>>

(* The answer of an install lets the coordinator go on with the next        *)
(* account, or with what follows the last one; a refusal makes it give up   *)
(* this round.                                                              *)
InstallLease(pc, next, end) ==
    /\ CoAt(pc)
    /\ Install(co.at, co.lease)
    /\ IF Installable(co.at, co.lease)
       THEN /\ held' = [held EXCEPT ![co.at] = Expires(co.lease)]
            /\ co' = IF co.todo = {co.at} THEN [FreshCoordinator EXCEPT !.pc = end]
                     ELSE [co EXCEPT !.pc = next, !.todo = @ \ {co.at}, !.at = None,
                                     !.lease = None]
       ELSE Raise /\ UNCHANGED held
InstallRenewed == InstallLease("renewInstall", "renew", "health")
InstallActivated == InstallLease("actInstall", "act", "idle")

(* Faults happen only while there is time left to recover from them.        *)
TimeToRecover == now + LeaseTtl + ClockSkew <= MaxTime

(* Separate services: a call is not answered.                               *)
CallLost ==
    /\ ~Embedded /\ TimeToRecover
    /\ co.pc \in {"health", "facts", "deliveries", "inflight", "renewInstall", "actInstall"}
    /\ Raise
    /\ UNCHANGED <<now, epoch, Store, held, gateVars, workVars>>

(* Separate services: the lease is installed and the answer is lost.        *)
InstallAnswerLost ==
    /\ ~Embedded /\ TimeToRecover
    /\ co.pc \in {"renewInstall", "actInstall"}
    /\ Install(co.at, co.lease)
    /\ Raise /\ UNCHANGED held

-----------------------------------------------------------------------------
(* The authority gate seen by an operation that presents time t.            *)

Authorized(s, t) == gate[s] # None /\ Live(gate[s], t)

(* _authorize_locked removes a lease that is not valid at t.                *)
Authorize(s, t) ==
    gate' = IF gate[s] # None /\ ~Live(gate[s], t) THEN [gate EXCEPT ![s] = None] ELSE gate

WorkerAt(s, pc) == worker[s].pc = pc
SetWorker(s, w) == worker' = [worker EXCEPT ![s] = w]
WorkerGoto(s, pc) == SetWorker(s, [worker[s] EXCEPT !.pc = pc, !.lease = None])
LoopAgain(s) == SetWorker(s, [worker[s] EXCEPT !.pc = "idle", !.at = 0, !.lease = None])

(* Entering the gate: into the operation, or back to the loop's start.      *)
Enter(s, pc, t) ==
    /\ Authorize(s, t)
    /\ IF Authorized(s, t)
       THEN SetWorker(s, [worker[s] EXCEPT !.pc = pc, !.lease = gate[s]])
       ELSE LoopAgain(s)

(* The adapter's loop (wechat_worker.py: _run).  The time of the flush is   *)
(* read once, before it.                                                    *)
StartFlush(s) ==
    /\ WorkerAt(s, "idle")
    /\ SetWorker(s, [worker[s] EXCEPT !.pc = "flush", !.at = now])
    /\ UNCHANGED <<now, gatewayVars, gateVars, inbox, delivery, sender>>

FlushForward(s) ==
    /\ WorkerAt(s, "flush") /\ inbox[s] = "forward"
    /\ Enter(s, "forward", worker[s].at)
    /\ UNCHANGED <<now, gatewayVars, inst, bound, inbox, delivery, sender>>

NotifyStart(s) ==
    /\ WorkerAt(s, "flush") /\ inbox[s] = "clear" /\ ~worker[s].started
    /\ Enter(s, "notify", worker[s].at)
    /\ UNCHANGED <<now, gatewayVars, inst, bound, inbox, delivery, sender>>

NotifyEnd(s) ==
    /\ WorkerAt(s, "notify")
    /\ \/ SetWorker(s, [worker[s] EXCEPT !.pc = "cursor", !.at = 0, !.lease = None,
                                       !.started = TRUE])
       \/ LoopAgain(s)
    /\ UNCHANGED <<now, gatewayVars, gateVars, inbox, delivery, sender>>

(* The poll presents a time of its own.                                     *)
Poll(s) ==
    /\ \/ WorkerAt(s, "cursor")
       \/ WorkerAt(s, "flush") /\ inbox[s] = "clear" /\ worker[s].started
    /\ \/ Authorized(s, now) /\ SetWorker(s, [worker[s] EXCEPT !.pc = "poll", !.at = 0,
                                                             !.lease = gate[s]])
       \/ ~Authorized(s, now) /\ LoopAgain(s)
    /\ Authorize(s, now)
    /\ UNCHANGED <<now, gatewayVars, inst, bound, inbox, delivery, sender>>

(* get_updates returns nothing, fails, or returns a message.                *)
PollEnd(s) ==
    /\ WorkerAt(s, "poll")
    /\ \/ LoopAgain(s)
       \/ WorkerGoto(s, "batch")
    /\ UNCHANGED <<now, gatewayVars, gateVars, inbox, delivery, sender>>

(* The message is persisted, outside of the gate.  (One record stands for a *)
(* batch; a withheld one that waits behind a failed submission is cleared   *)
(* together with it.)                                                       *)
Persist(s) ==
    /\ WorkerAt(s, "batch")
    /\ inbox' \in {[inbox EXCEPT ![s] = i] : i \in {"forward", "withheld"}}
    /\ WorkerGoto(s, "deliver")
    /\ UNCHANGED <<now, gatewayVars, gateVars, delivery, sender>>

DeliverInbound(s) ==
    /\ WorkerAt(s, "deliver")
    /\ \/ /\ inbox[s] = "forward"
          /\ Enter(s, "forward", now)
          /\ UNCHANGED inbox
       \/ /\ inbox[s] = "withheld"
          /\ inbox' = [inbox EXCEPT ![s] = "clear"]
          /\ LoopAgain(s)
          /\ UNCHANGED gate
    /\ UNCHANGED <<now, gatewayVars, inst, bound, delivery, sender>>

(* The gateway accepts a submission only under the lease that is active     *)
(* then (channel_ingress.py: dispatch); the submission may also fail.       *)
ForwardEnd(s) ==
    /\ WorkerAt(s, "forward")
    /\ \/ ActiveLease(s, now) = worker[s].lease /\ WorkerGoto(s, "ack")
       \/ LoopAgain(s)
    /\ UNCHANGED <<now, gatewayVars, gateVars, inbox, delivery, sender>>

Acknowledge(s) ==
    /\ WorkerAt(s, "ack")
    /\ inbox' = [inbox EXCEPT ![s] = "clear"]
    /\ IF worker[s].at # 0 THEN WorkerGoto(s, "flush") ELSE LoopAgain(s)
    /\ UNCHANGED <<now, gatewayVars, gateVars, delivery, sender>>

(* delivery_dispatcher.py: the time is read, the ticket is verified, and    *)
(* the gate is entered with the time that was read.  The ticket is          *)
(* consumed, the send started and recorded inside of one SEND operation.    *)
SendBegin(s) ==
    /\ sender[s].at = 0 /\ delivery[s] = "clear"
    /\ sender' = [sender EXCEPT ![s] = [at |-> now, lease |-> None]]
    /\ UNCHANGED <<now, gatewayVars, gateVars, worker, inbox, delivery>>

SendEnter(s) ==
    /\ sender[s].at # 0 /\ sender[s].lease = None
    /\ Authorize(s, sender[s].at)
    /\ IF Authorized(s, sender[s].at)
       THEN /\ sender' = [sender EXCEPT ![s].lease = gate[s]]
            /\ delivery' = [delivery EXCEPT ![s] = "CLAIMED"]
       ELSE sender' = [sender EXCEPT ![s] = NoSender] /\ UNCHANGED delivery
    /\ UNCHANGED <<now, gatewayVars, inst, bound, worker, inbox>>

SendStart(s) ==
    /\ sender[s].lease # None /\ delivery[s] = "CLAIMED"
    /\ delivery' = [delivery EXCEPT ![s] = "SIDE_EFFECT_STARTED"]
    /\ UNCHANGED <<now, gatewayVars, gateVars, worker, inbox, sender>>

(* The send leaves the gate with a receipt, or raises and leaves the state. *)
SendEnd(s) ==
    /\ sender[s].lease # None
    /\ sender' = [sender EXCEPT ![s] = NoSender]
    /\ delivery' \in {[delivery EXCEPT ![s] = d] :
                      d \in {"clear", "FAILED_RETRYABLE", delivery[s]} \cup
                           (IF delivery[s] = "CLAIMED" THEN {} ELSE {"RECONCILE_REQUIRED"})}
    /\ UNCHANGED <<now, gatewayVars, gateVars, worker, inbox>>

-----------------------------------------------------------------------------
(* Restarts.  A gateway takes the next epoch; a communication service takes *)
(* a new instance_id, and recover_ambiguous turns a delivery that was       *)
(* started into one that must be reconciled.                                *)

NewGateway ==
    /\ epoch < MaxEpoch
    /\ epoch' = epoch + 1
    /\ co' = FreshCoordinator
    /\ held' = [s \in Scope |-> 0]
    /\ UNCHANGED Store

NewService ==
    /\ inst < MaxEpoch
    /\ inst' = inst + 1
    /\ bound' = 0
    /\ gate' = [s \in Scope |-> None]
    /\ worker' = [s \in Scope |-> FreshWorker]
    /\ sender' = [s \in Scope |-> NoSender]
    /\ delivery' = [s \in Scope |-> IF delivery[s] = "SIDE_EFFECT_STARTED"
                                    THEN "RECONCILE_REQUIRED" ELSE delivery[s]]
    /\ UNCHANGED inbox

Restart ==
    /\ TimeToRecover /\ NewGateway /\ NewService
    /\ UNCHANGED now
GatewayRestart ==
    /\ ~Embedded /\ TimeToRecover /\ NewGateway
    /\ UNCHANGED <<now, gateVars, workVars>>
ServiceRestart ==
    /\ ~Embedded /\ TimeToRecover /\ NewService
    /\ UNCHANGED <<now, gatewayVars>>

(* The coordinator looks every second at leases of thirty, so that the      *)
(* clock does not run past a lease that is due, unless the machine sleeps.  *)
RenewalWaits(s) ==
    held[s] # 0 /\ IsActive(Current(s)) /\ Expires(Current(s).lease) - now <= RenewWindow
Tick ==
    /\ now < MaxTime
    /\ MaySleep \/ \A s \in Scope : ~RenewalWaits(s)
    /\ now' = now + 1
    /\ UNCHANGED <<gatewayVars, gateVars, workVars>>

-----------------------------------------------------------------------------
Coordinate ==
    \/ StartLoop \/ Health \/ DrainFacts
    \/ \E s \in Scope : RenewDue(s) \/ ActivateLive(s) \/ ActivateAgain(s)
    \/ BeginCutover \/ RecordDrain \/ ActivateCandidate \/ RenewInPlace
    \/ InstallRenewed \/ InstallActivated
Work(s) ==
    \/ StartFlush(s) \/ FlushForward(s) \/ NotifyStart(s)
    \/ NotifyEnd(s) \/ Poll(s) \/ PollEnd(s) \/ Persist(s)
    \/ DeliverInbound(s) \/ ForwardEnd(s) \/ Acknowledge(s)
Send(s) == SendEnter(s) \/ SendStart(s) \/ SendEnd(s)

Next ==
    \/ Coordinate \/ CallLost \/ InstallAnswerLost
    \/ \E s \in Scope : Work(s) \/ SendBegin(s) \/ Send(s)
    \/ Restart \/ GatewayRestart \/ ServiceRestart
    \/ Tick

Spec == Init /\ [][Next]_vars

(* The threads run, the clock runs, and a platform call returns.            *)
FairSpec ==
    /\ Spec
    /\ WF_vars(Coordinate) /\ WF_vars(Tick)
    /\ \A s \in Scope : WF_vars(Work(s)) /\ WF_vars(Send(s))

-----------------------------------------------------------------------------
(* Properties.                                                              *)

(* What the store's own scan (_verify_channel_cutover_rows) demands of the  *)
(* rows when it is opened: the evidence and the leases a cutover has fit    *)
(* its state, the leases of a cutover form one chain without a gap whose    *)
(* last is the active one, and the epochs of an account do not overlap.  A  *)
(* store for which this fails is refused at the next start.                 *)
Chain(s, g) == {l \in rows[s] : l.epoch = g}
RowsFit(s, g) ==
    LET c == cutover[s][g] IN
    IF c = None THEN Chain(s, g) = {}
    ELSE /\ c.state = "DRAINING" =>
                /\ c.observed = 0 /\ Chain(s, g) = {} /\ c.updated = c.started
         /\ c.state = "DRAINED" => Chain(s, g) = {} /\ c.updated = c.observed
         /\ c.state = "CANDIDATE_ACTIVE" =>
                /\ c.lease \in Chain(s, g) /\ c.updated = c.lease.issued
                /\ \A l \in Chain(s, g) :
                    /\ l.owner = c.candidate
                    /\ l.issued <= c.lease.issued
                    /\ l # c.lease =>
                        \E m \in Chain(s, g) : m.prev = l.issued /\ m.issued <= Expires(l)
                    /\ l.prev = 0 \/ \E m \in Chain(s, g) :
                        m.issued = l.prev /\ m.issued < l.issued /\ l.issued <= Expires(m)
                /\ Cardinality({l \in Chain(s, g) : l.prev = 0}) = 1
ScanPasses == TypeOK /\ \A s \in Scope, g \in Epoch : RowsFit(s, g)

(* Two epochs never own an account at the same time: whoever was issued a   *)
(* lease in an older epoch has lost it, the clock skew included, before a   *)
(* newer epoch issues one.                                                  *)
SoleOwner ==
    \A s \in Scope : \A l, m \in rows[s] :
        l.epoch < m.epoch => Expires(l) + ClockSkew <= m.issued

(* When an epoch's candidate becomes active, no poll or forward of an       *)
(* earlier owner is inside of the gate, and none enters it later.  A send   *)
(* or notify_start enters with a time that was read before, so that a       *)
(* stalled one may still come in under the old lease; but only one that had *)
(* read its time before the old lease ran out, the clock skew before the    *)
(* new owner was issued any.                                                *)
Foreign(s, l) == {m \in rows[s] : m.epoch > l.epoch}
NoForeignOperation ==
    \A s \in Scope :
        /\ worker[s].pc \in Inside \ {"notify"} => Foreign(s, worker[s].lease) = {}
        /\ worker[s].pc = "notify" =>
               \A m \in Foreign(s, worker[s].lease) : worker[s].at + ClockSkew < m.issued
        /\ sender[s].lease # None =>
               \A m \in Foreign(s, sender[s].lease) : sender[s].at + ClockSkew < m.issued

(* channel_authority.py: no operation at all is inside of the gate under an *)
(* earlier owner's lease once the candidate is active.                      *)
NoLateOperation ==
    \A s \in Scope :
        /\ worker[s].pc \in Inside => Foreign(s, worker[s].lease) = {}
        /\ sender[s].lease # None => Foreign(s, sender[s].lease) = {}

(* An account is served while the gate holds the lease that is active at    *)
(* the gateway and the worker runs.                                         *)
Served(s) ==
    gate[s] # None /\ gate[s] = ActiveLease(s, now) /\ worker[s].pc # "off"

(* Records no worker may clear: the worker starts only with a lease.        *)
Unread(s) == worker[s].pc = "off" /\ inbox[s] # "clear"
Unresolved(s) == worker[s].pc = "off" /\ delivery[s] # "clear"
LeaseMissed(s) == IsActive(Current(s)) /\ now >= Expires(Current(s).lease)

(* One process: after a restart, a refusal or a lost renewal every account  *)
(* is served again, unless the restart found a record that was not          *)
(* acknowledged or a delivery that is not resolved, or the lease expired    *)
(* before it was renewed.                                                   *)
ServedOrBlocked ==
    \A s \in Scope :
        []<>(Served(s) \/ Unread(s) \/ Unresolved(s) \/ LeaseMissed(s))

(* What communication_service/runtime.py:259 says of recover_ambiguous: by  *)
(* moving an interrupted delivery to RECONCILE_REQUIRED it keeps it from    *)
(* blocking drain and cutover for ever.                                     *)
ReconcileNeverBlocks ==
    \A s \in Scope :
        []<>(\/ Served(s) \/ Unread(s) \/ LeaseMissed(s)
             \/ Unresolved(s) /\ delivery[s] # "RECONCILE_REQUIRED")
=============================================================================
