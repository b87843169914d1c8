--------------------------- MODULE GatewayDelivery ---------------------------
(***************************************************************************)
(* The total gateway's single orchestration worker                         *)
(* (src/src/total_gateway/orchestration.py, delivery_outbox.py,            *)
(* active_requests.py) against its durable store (store.py) and the        *)
(* desktop control thread that may cancel a run (desktop_api.py).          *)
(*                                                                         *)
(* A request waits in the queue of its session, becomes the session's      *)
(* head, is claimed by the worker under a generation lease, is executed,   *)
(* and its answer leaves through the outbox: claim, durable dispatch       *)
(* boundary, one call of the communication service, durable result,        *)
(* finalization.  Every action below is one store transaction (BEGIN       *)
(* IMMEDIATE ... COMMIT) or one external call, so that a restart or a      *)
(* cancellation can fall between any two of them.                          *)
(*                                                                         *)
(* Requests are numbered in the order in which they are registered.  Time  *)
(* is abstracted to two Booleans, "the fence expired" and "the outbox      *)
(* claim expired"; the gateway epoch, which every restart advances, also   *)
(* stands for the worker's instance id.                                    *)
(***************************************************************************)
EXTENDS StateMachine, ChannelAnswer, Sequences

CONSTANTS
    NRequests,      \* bound: how many requests are registered
    SessionOf,      \* the session_scope_hash of each request
    Desktop,        \* the requests of the desktop channel (pulled, never sent)
    Stages,         \* the stages that the parts of a receipt may report
    MaxEpoch,       \* bound: restarts + 1
    MayCancel,      \* does the user cancel runs?
    MayFail         \* may planning, execution or the authority call fail?

Request == 1 .. NRequests

ASSUME GatewayAssumption ==
    /\ NRequests \in Nat \ {0}
    /\ SessionOf \in [Request -> Nat]
    /\ Desktop \subseteq Request
    /\ Stages \subseteq PartStage
    /\ MaxEpoch \in Nat \ {0}
    /\ MayCancel \in BOOLEAN /\ MayFail \in BOOLEAN

VARIABLES
    queue,      \* session_queue.state of each request
    heads,      \* the ACTIVE requests in the order of activated_at_ms
    gen,        \* request_generation and its current fence
    sm,         \* aggregate_state: the state of each machine of each request
    effect,     \* effect_ledger: the execution effect of each request
    outbox,     \* outbox and outbox_dispatch_boundary of each request
    intents,    \* outbox rows without a result, by available_at_ms
    results,    \* boundaries with a result that are not finalized, by completed_at_ms
    capsules,   \* request_capsules: the requests with a TERMINAL capsule
    epoch,      \* the gateway epoch (volatile: the running instance's)
    w,          \* the worker: its program counter, its request, and whether the
                \* local variable `activation' of _run is set (volatile)
    cancelling, \* the requests whose cancellation is between its two transactions
    platform    \* what the channel saw: how many sends, how much was accepted

durable == <<queue, heads, gen, sm, effect, outbox, intents, results, capsules>>
vars == <<durable, epoch, w, cancelling, platform>>

-----------------------------------------------------------------------------
(* Answers of the communication service.                                    *)

Receipt ==
    {a \in [kind : {"receipt"}, status : Stages, stages : SUBSET Stages \ {{}}] :
        ValidReceipt(a.status, a.stages)}

Answer == Receipt \cup {ErrorAnswer("AMBIGUOUS"), ErrorAnswer("FAILED_FINAL")}

(* Mutants of Outcome: one accepted part is enough; an unknown outcome is a  *)
(* failure.                                                                  *)
AnyAccepted(a) ==
    IF a.status = "AMBIGUOUS" THEN "RECONCILE_REQUIRED"
    ELSE IF "CHANNEL_ACCEPTED" \in a.stages THEN "COMPLETED"
    ELSE IF a.status = "FAILED_RETRYABLE" THEN "IN_PROGRESS" ELSE "FAILED"
UnknownIsFailed(a) ==
    IF a.stages = {"CHANNEL_ACCEPTED"} THEN "COMPLETED"
    ELSE IF "CHANNEL_ACCEPTED" \in a.stages THEN "PARTIAL" ELSE "FAILED"

(* CompletionGate.evaluate for a succeeded execution and no verification     *)
(* plan.                                                                     *)
Outcome(a) ==
    IF a.status = "AMBIGUOUS" THEN "RECONCILE_REQUIRED"
    ELSE IF a.kind = "error" \/ "FAILED_FINAL" \in a.stages
      THEN IF "CHANNEL_ACCEPTED" \in a.stages THEN "PARTIAL" ELSE "FAILED"
    ELSE IF a.stages = {"CHANNEL_ACCEPTED"} THEN "COMPLETED" ELSE "IN_PROGRESS"

-----------------------------------------------------------------------------
(* Durable records.                                                         *)

MaxRevision == 4        \* bound: only revision <= 3 is ever tested
Bump(n) == IF n < MaxRevision THEN n + 1 ELSE n

Epoch == 1 .. MaxEpoch
Generation ==
    [status : {"NONE", "ACTIVE", "RELEASED", "CANCELLED"}, epoch : 0 .. MaxEpoch,
     expired : BOOLEAN, revision : 0 .. MaxRevision]
NoGeneration == [status |-> "NONE", epoch |-> 0, expired |-> FALSE, revision |-> 0]

Outbox ==
    [state : {"NONE", "PENDING", "CLAIMED", "ACKED", "AMBIGUOUS"}, by : 0 .. MaxEpoch,
     expired : BOOLEAN, boundary : 0 .. MaxEpoch, result : Answer \cup {NoAnswer},
     finalized : BOOLEAN]
NoOutbox ==
    [state |-> "NONE", by |-> 0, expired |-> FALSE, boundary |-> 0,
     result |-> NoAnswer, finalized |-> FALSE]

EffectState ==
    {"NONE", "CLAIMED", "SIDE_EFFECT_STARTED", "SUCCEEDED", "FAILED_FINAL", "AMBIGUOUS"}

NoSnapshots == [request |-> "NONE", execution |-> "NONE", delivery |-> "NONE"]

HasOutbox(r) == outbox[r].state # "NONE"
Settled(r) == IsTerminal("request", sm[r].request)

-----------------------------------------------------------------------------
(* The worker's program.                                                    *)

At(pc) == w.pc = pc
Goto(pc) == w' = [w EXCEPT !.pc = pc]
Loop == [pc |-> "loop", r |-> 0, fresh |-> FALSE]
Serve(pc, r) == w' = [pc |-> pc, r |-> r, fresh |-> FALSE]

(* The except arm of _run: only an activation taken by claim_next is         *)
(* finalized; a recovered one, and an outbox record, is left to a later turn. *)
Raise == w' = IF w.fresh THEN [w EXCEPT !.pc = "unhandled", !.fresh = FALSE] ELSE Loop

(* _advance: nothing to do when the machine is already there, an exception   *)
(* when the transition is rejected.  The events it builds always carry the   *)
(* current revision, the gateway as owner and the evidence they need.        *)
CanAdvance(r, m, to) ==
    sm[r][m] # "NONE" /\ (sm[r][m] = to \/ Legal(m, sm[r][m], to))
Advance(r, m, to) == sm' = [sm EXCEPT ![r][m] = to]

Step(m, to, next) == [machine |-> m, to |-> to, next |-> next]

(* The steps of _process, dispatch_next and _finalize that only advance a    *)
(* machine.                                                                  *)
Script ==
    [planning         |-> Step("request", "PLANNING", "plan_execution"),
     plan_execution   |-> Step("execution", "PLANNED", "claim_effect"),
     ticket_execution |-> Step("execution", "TICKET_ISSUED", "claim_execution"),
     claim_execution  |-> Step("execution", "CLAIMED", "executing"),
     executing        |-> Step("request", "EXECUTING", "start_effect"),
     running          |-> Step("execution", "RUNNING", "await_backend"),
     exec_succeeded   |-> Step("execution", "SUCCEEDED", "handover"),
     exec_failed      |-> Step("execution", "FAILED_FINAL", "fail_request"),
     exec_ambiguous   |-> Step("execution", "AMBIGUOUS", "exec_reconcile"),
     exec_reconcile   |-> Step("execution", "RECONCILE_REQUIRED", "fail_request"),
     fail_request     |-> Step("request", "FAILED", "fail_session"),
     desktop_plan     |-> Step("delivery", "PLANNED", "desktop_ticket"),
     desktop_ticket   |-> Step("delivery", "TICKET_ISSUED", "desktop_send"),
     desktop_send     |-> Step("delivery", "SENDING", "desktop_accept"),
     desktop_accept   |-> Step("delivery", "CHANNEL_ACCEPTED", "desktop_deliver"),
     desktop_deliver  |-> Step("request", "DELIVERING", "persist_result"),
     desktop_complete |-> Step("request", "COMPLETED", "desktop_retire"),
     delivering       |-> Step("request", "DELIVERING", "loop"),
     ticket           |-> Step("delivery", "TICKET_ISSUED", "sending"),
     sending          |-> Step("delivery", "SENDING", "boundary")]

ProcessPc ==
    {"init_execution", "init_delivery", "planning", "plan_execution", "claim_effect",
     "ticket_execution", "claim_execution", "executing", "start_effect", "running",
     "await_backend", "exec_succeeded", "exec_failed", "exec_ambiguous",
     "exec_reconcile", "fail_request", "fail_session", "handover", "desktop_plan",
     "desktop_ticket", "desktop_send", "desktop_accept", "desktop_deliver",
     "persist_result", "desktop_complete", "desktop_retire", "plan_delivery", "delivering"}
DispatchPc ==
    {"load", "authority", "ticket", "sending", "boundary", "call", "answer", "orphan",
     "finalize", "settle_delivery", "decide", "persist", "settle_request", "retire", "mark"}
UnhandledPc ==
    {"unhandled", "unhandled_execution", "unhandled_delivery", "unhandled_request",
     "unhandled_retire"}

TypeOK ==
    /\ queue \in [Request -> {"NONE", "QUEUED", "ACTIVE", "COMPLETED"}]
    /\ heads \in Seq(Request)
    /\ gen \in [Request -> Generation]
    /\ sm \in [Request -> [request : STATE_VALUES.request \cup {"NONE"},
                           execution : STATE_VALUES.execution \cup {"NONE"},
                           delivery : STATE_VALUES.delivery \cup {"NONE"}]]
    /\ effect \in [Request -> EffectState]
    /\ outbox \in [Request -> Outbox]
    /\ intents \in Seq(Request) /\ results \in Seq(Request)
    /\ capsules \subseteq Request
    /\ epoch \in Epoch
    /\ w \in [pc : {"loop"} \cup ProcessPc \cup DispatchPc \cup UnhandledPc,
              r : 0 .. NRequests, fresh : BOOLEAN]
    /\ w.pc # "loop" => w.r \in Request
    /\ cancelling \subseteq Request
    /\ platform \in [Request -> [sends : Nat, accepted : Accepted]]

Init ==
    /\ queue = [r \in Request |-> "NONE"]
    /\ heads = <<>>
    /\ gen = [r \in Request |-> NoGeneration]
    /\ sm = [r \in Request |-> NoSnapshots]
    /\ effect = [r \in Request |-> "NONE"]
    /\ outbox = [r \in Request |-> NoOutbox]
    /\ intents = <<>> /\ results = <<>> /\ capsules = {}
    /\ epoch = 1
    /\ w = Loop
    /\ cancelling = {}
    /\ platform = [r \in Request |-> [sends |-> 0, accepted |-> "none"]]

-----------------------------------------------------------------------------
(* Session queue and generation.                                            *)

(* A list without r, which it holds at most once.                            *)
Drop(s, r) ==
    IF \E i \in DOMAIN s : s[i] = r
      THEN LET i == CHOOSE i \in DOMAIN s : s[i] = r
           IN  [j \in 1 .. Len(s) - 1 |-> s[IF j < i THEN j ELSE j + 1]]
      ELSE s
SameSession(r) == {q \in Request : SessionOf[q] = SessionOf[r]}
Waiting(r) == {q \in SameSession(r) : queue[q] = "QUEUED"}
NextInLine(S) == CHOOSE q \in S : \A p \in S : q <= p

(* Mutant of Register: every request becomes a head.                         *)
RegisterActive(r) ==
    /\ queue[r] = "NONE"
    /\ \A q \in Request : q < r => queue[q] # "NONE"
    /\ queue' = [queue EXCEPT ![r] = "ACTIVE"] /\ heads' = Append(heads, r)
    /\ UNCHANGED <<gen, sm, effect, outbox, intents, results, capsules, epoch, w, cancelling, platform>>

(* register_request: the first of an idle session becomes its head.          *)
Register(r) ==
    /\ queue[r] = "NONE"
    /\ \A q \in Request : q < r => queue[q] # "NONE"
    /\ IF \E q \in SameSession(r) : queue[q] = "ACTIVE"
         THEN queue' = [queue EXCEPT ![r] = "QUEUED"] /\ UNCHANGED heads
         ELSE queue' = [queue EXCEPT ![r] = "ACTIVE"] /\ heads' = Append(heads, r)
    /\ UNCHANGED <<gen, sm, effect, outbox, intents, results, capsules, epoch, w, cancelling, platform>>

(* complete_session_request: idempotent, and it promotes the next in line.   *)
CompleteSession(r) ==
    IF queue[r] # "ACTIVE" THEN UNCHANGED <<queue, heads>>
    ELSE IF Waiting(r) = {}
      THEN /\ queue' = [queue EXCEPT ![r] = "COMPLETED"]
           /\ heads' = Drop(heads, r)
      ELSE LET next == NextInLine(Waiting(r))
           IN  /\ queue' = [queue EXCEPT ![r] = "COMPLETED", ![next] = "ACTIVE"]
               /\ heads' = Append(Drop(heads, r), next)

(* Mutant of Release: a cancelled generation is released as well.            *)
ReleaseAny(r) ==
    gen' = [gen EXCEPT ![r].status = "RELEASED", ![r].revision = Bump(@)]

(* _release_generation_locked: idempotent on RELEASED and CANCELLED.         *)
Release(r) ==
    gen' = IF gen[r].status = "ACTIVE"
             THEN [gen EXCEPT ![r].status = "RELEASED", ![r].revision = Bump(@)]
             ELSE gen

(* The lease of a recovery keeps the generation: new epoch, new fence.       *)
Takeover(r) ==
    gen' = [gen EXCEPT ![r].epoch = epoch, ![r].expired = FALSE, ![r].revision = Bump(@)]

Recoverable(r) ==
    gen[r].status = "ACTIVE" /\ gen[r].epoch <= epoch /\ gen[r].expired /\ queue[r] = "ACTIVE"

-----------------------------------------------------------------------------
(* One turn of _run: the first list that is not empty decides.  The lists    *)
(* are read one after the other, but only the worker shrinks them, except    *)
(* that a cancellation empties what its own transaction rechecks.            *)

(* Mutants of TerminalHeads, nobody looks for settled heads, and of          *)
(* Dispatchable, expired claims are not taken over.                          *)
NoTerminalHeads == {}
PendingOnly == {i \in DOMAIN intents : outbox[intents[i]].state = "PENDING"}

(* The positions of what each query selects, in the list that it reads.      *)
TerminalHeads ==
    {i \in DOMAIN heads : gen[heads[i]].status # "NONE" /\ Settled(heads[i])}
CancelledHeads == {i \in DOMAIN heads : gen[heads[i]].status = "CANCELLED"}
RecoverableHeads == {i \in DOMAIN heads : Recoverable(heads[i]) /\ ~ Settled(heads[i])}
Dispatchable ==
    {i \in DOMAIN intents :
        \/ outbox[intents[i]].state = "PENDING"
        \/ outbox[intents[i]].state = "CLAIMED" /\ outbox[intents[i]].expired}
Unclaimed == {i \in DOMAIN heads : gen[heads[i]].status = "NONE"}

List == <<heads, heads, heads, results, intents, heads>>
Work ==
    <<TerminalHeads, CancelledHeads, RecoverableHeads, DOMAIN results, Dispatchable, Unclaimed>>

Turn(k, r) ==
    /\ At("loop")
    /\ \A j \in 1 .. k - 1 : Work[j] = {}
    /\ \E i \in Work[k] : r = List[k][i] /\ \A j \in Work[k] : i <= j

(* _retire_one_stranded_terminal_session, and its twin for cancelled heads.  *)
RetireStranded(k, r) ==
    /\ Turn(k, r)
    /\ CompleteSession(r)
    /\ UNCHANGED <<gen, sm, effect, outbox, intents, results, capsules, epoch, w, cancelling, platform>>
RetireTerminal(r) == RetireStranded(1, r)
RetireCancelled(r) == RetireStranded(2, r)

(* recover_next, then: leave a request with an intent to the outbox, execute *)
(* it again while the generation is young, or finalize it as failed.         *)
RecoverNext(r) ==
    /\ Turn(3, r)
    /\ Takeover(r)
    /\ IF HasOutbox(r) THEN UNCHANGED w
       ELSE Serve(IF gen'[r].revision <= 3 THEN "init_execution" ELSE "unhandled", r)
    /\ UNCHANGED <<queue, heads, sm, effect, outbox, intents, results, capsules, epoch, cancelling, platform>>

(* dispatch_next, first branch: a result waits to be finalized.              *)
FinalizeNext(r) ==
    /\ Turn(4, r)
    /\ Serve("finalize", r)
    /\ UNCHANGED <<durable, epoch, cancelling, platform>>

(* dispatch_next, second branch: a claim expired behind a crossed boundary.  *)
OrphanNext(r) ==
    /\ Turn(5, r)
    /\ outbox[r].state = "CLAIMED" /\ outbox[r].boundary # 0
    /\ Serve("orphan", r)
    /\ UNCHANGED <<durable, epoch, cancelling, platform>>

(* dispatch_next, third branch: claim_outbox.                                *)
ClaimOutbox(r) ==
    /\ Turn(5, r)
    /\ ~ (outbox[r].state = "CLAIMED" /\ outbox[r].boundary # 0)
    /\ outbox' = [outbox EXCEPT ![r].state = "CLAIMED", ![r].by = epoch, ![r].expired = FALSE]
    /\ Serve("load", r)
    /\ UNCHANGED <<queue, heads, gen, sm, effect, intents, results, capsules, epoch, cancelling, platform>>

(* claim_next: activate_request_run writes the generation and the request    *)
(* snapshot together.                                                        *)
ClaimNext(r) ==
    /\ Turn(6, r)
    /\ gen' = [gen EXCEPT ![r] = [status |-> "ACTIVE", epoch |-> epoch,
                                  expired |-> FALSE, revision |-> 1]]
    /\ Advance(r, "request", INITIAL_STATES.request)
    /\ w' = [pc |-> "init_execution", r |-> r, fresh |-> TRUE]
    /\ UNCHANGED <<queue, heads, effect, outbox, intents, results, capsules, epoch, cancelling, platform>>

-----------------------------------------------------------------------------
(* _process: from the activation to the durable delivery intent.            *)

(* _initialize: a snapshot that exists was created at another time, so the   *)
(* store reports a conflict.                                                 *)
Initialize(pc, m, next) ==
    /\ At(pc)
    /\ IF sm[w.r][m] = "NONE"
         THEN Advance(w.r, m, INITIAL_STATES[m]) /\ Goto(next)
         ELSE Raise /\ UNCHANGED sm
    /\ UNCHANGED <<queue, heads, gen, effect, outbox, intents, results, capsules, epoch, cancelling, platform>>
InitializeExecution == Initialize("init_execution", "execution", "init_delivery")
InitializeDelivery == Initialize("init_delivery", "delivery", "planning")

AdvanceStep ==
    /\ w.pc \in DOMAIN Script
    /\ LET step == Script[w.pc]
       IN  IF CanAdvance(w.r, step.machine, step.to)
             THEN /\ Advance(w.r, step.machine, step.to)
                  /\ IF step.next = "loop" THEN w' = Loop ELSE Goto(step.next)
             ELSE Raise /\ UNCHANGED sm
    /\ UNCHANGED <<queue, heads, gen, effect, outbox, intents, results, capsules, epoch, cancelling, platform>>

(* claim_effect, mark_effect_started and complete_effect of the execution    *)
(* effect, with the answer of the backend.                                   *)
ClaimEffect ==
    /\ At("claim_effect")
    /\ IF effect[w.r] \in {"NONE", "CLAIMED"}
         THEN effect' = [effect EXCEPT ![w.r] = "CLAIMED"] /\ Goto("ticket_execution")
         ELSE Raise /\ UNCHANGED effect
    /\ UNCHANGED <<queue, heads, gen, sm, outbox, intents, results, capsules, epoch, cancelling, platform>>

StartEffect ==
    /\ At("start_effect") /\ effect[w.r] = "CLAIMED"
    /\ effect' = [effect EXCEPT ![w.r] = "SIDE_EFFECT_STARTED"]
    /\ Goto("running")
    /\ UNCHANGED <<queue, heads, gen, sm, outbox, intents, results, capsules, epoch, cancelling, platform>>

(* An effect that is only claimed can fail; once its start is durable an     *)
(* exception leaves it AMBIGUOUS.                                            *)
CompleteEffect(status) ==
    /\ \/ At("await_backend")
       \/ At("running") /\ status = "AMBIGUOUS"
       \/ At("start_effect") /\ status = "FAILED_FINAL"
    /\ status # "SUCCEEDED" => MayFail
    /\ effect' = [effect EXCEPT ![w.r] = status]
    /\ Goto([SUCCEEDED |-> "exec_succeeded", FAILED_FINAL |-> "exec_failed",
             AMBIGUOUS |-> "exec_ambiguous"][status])
    /\ UNCHANGED <<queue, heads, gen, sm, outbox, intents, results, capsules, epoch, cancelling, platform>>

(* A failed execution retires its session head and raises; the generation is *)
(* released by _finalize_unhandled.                                          *)
FailSession ==
    /\ At("fail_session")
    /\ CompleteSession(w.r) /\ Raise
    /\ UNCHANGED <<gen, sm, effect, outbox, intents, results, capsules, epoch, cancelling, platform>>

(* The authenticated desktop pull needs no outbox: its tail completes the    *)
(* request, and keeps the generation.                                        *)
DesktopHandover ==
    /\ At("handover") /\ w.r \in Desktop
    /\ Goto("desktop_plan")
    /\ UNCHANGED <<durable, epoch, cancelling, platform>>

(* persist_terminal_completion: the decision and the TERMINAL capsule.       *)
PersistResult(pc, next) ==
    /\ At(pc)
    /\ capsules' = capsules \cup {w.r}
    /\ Goto(next)
    /\ UNCHANGED <<queue, heads, gen, sm, effect, outbox, intents, results, epoch, cancelling, platform>>
DesktopPersist == PersistResult("persist_result", "desktop_complete")

DesktopRetire ==
    /\ At("desktop_retire")
    /\ CompleteSession(w.r) /\ w' = Loop
    /\ UNCHANGED <<gen, sm, effect, outbox, intents, results, capsules, epoch, cancelling, platform>>

(* The delivery boundary: renew the lease or take it over by id, else raise. *)
ChannelHandover ==
    /\ At("handover") /\ w.r \notin Desktop
    /\ LET g == gen[w.r]
       IN  IF g.status = "ACTIVE" /\ g.epoch = epoch /\ ~ g.expired
             THEN gen' = [gen EXCEPT ![w.r].revision = Bump(@)] /\ Goto("plan_delivery")
             ELSE IF Recoverable(w.r) THEN Takeover(w.r) /\ Goto("plan_delivery")
             ELSE Raise /\ UNCHANGED gen
    /\ UNCHANGED <<queue, heads, sm, effect, outbox, intents, results, capsules, epoch, cancelling, platform>>

(* Mutant of PlanDelivery: the transition and the row are two transactions.  *)
PlanThenInsert ==
    /\ At("plan_delivery")
    /\ IF sm[w.r].delivery # "PLANNED"
         THEN Advance(w.r, "delivery", "PLANNED") /\ UNCHANGED <<outbox, intents, w>>
         ELSE /\ outbox' = [outbox EXCEPT ![w.r].state = "PENDING"]
              /\ intents' = Append(intents, w.r)
              /\ Goto("delivering") /\ UNCHANGED sm
    /\ UNCHANGED <<queue, heads, gen, effect, results, capsules, epoch, cancelling, platform>>

(* The transition to PLANNED and the outbox row are one transaction          *)
(* (apply_event_with_outbox).                                                *)
PlanDelivery ==
    /\ At("plan_delivery")
    /\ IF CanAdvance(w.r, "delivery", "PLANNED")
         THEN /\ Advance(w.r, "delivery", "PLANNED")
              /\ outbox' = [outbox EXCEPT ![w.r].state = "PENDING"]
              /\ intents' = Append(intents, w.r)
              /\ Goto("delivering")
         ELSE Raise /\ UNCHANGED <<sm, outbox, intents>>
    /\ UNCHANGED <<queue, heads, gen, effect, results, capsules, epoch, cancelling, platform>>

(* Planning, or the assembly of the answer, raises; so does complete_effect  *)
(* when an effect that is only claimed is to be closed as AMBIGUOUS (the     *)
(* watchdog's timeout before the backend has started).                       *)
ProcessFails ==
    /\ MayFail /\ w.pc \in {"claim_effect", "start_effect", "handover"}
    /\ Raise
    /\ UNCHANGED <<durable, epoch, cancelling, platform>>

(* A required artifact fails its validation: the request fails as a failed   *)
(* execution's does, with the execution already SUCCEEDED.                   *)
ArtifactsFail ==
    /\ MayFail /\ At("handover")
    /\ Goto("fail_request")
    /\ UNCHANGED <<durable, epoch, cancelling, platform>>

(* The plan is refused between the claim of the effect and the ticket.       *)
RejectPlan ==
    /\ MayFail /\ At("ticket_execution")
    /\ effect' = [effect EXCEPT ![w.r] = "FAILED_FINAL"]
    /\ Raise
    /\ UNCHANGED <<queue, heads, gen, sm, outbox, intents, results, capsules, epoch, cancelling, platform>>

(* The heartbeat thread renews the lease while _process runs.                *)
Heartbeat ==
    /\ w.pc \in ProcessPc
    /\ gen[w.r].status = "ACTIVE" /\ gen[w.r].epoch = epoch /\ ~ gen[w.r].expired
    /\ gen[w.r].revision < MaxRevision
    /\ gen' = [gen EXCEPT ![w.r].revision = Bump(@)]
    /\ UNCHANGED <<queue, heads, sm, effect, outbox, intents, results, capsules, epoch, w, cancelling, platform>>

-----------------------------------------------------------------------------
(* dispatch_next and _finalize.                                             *)

(* _load_payload: the generation must be ACTIVE and of this instance.        *)
PayloadLoads(r) == gen[r].status = "ACTIVE" /\ gen[r].epoch = epoch

(* mark_expired_outbox_ambiguous: only behind a crossed boundary whose claim *)
(* has expired; it raises otherwise.                                         *)
MarkExpiredAmbiguous(r) ==
    IF outbox[r].boundary # 0 /\ outbox[r].state = "CLAIMED" /\ outbox[r].expired
      THEN /\ outbox' = [outbox EXCEPT ![r].state = "AMBIGUOUS",
                                       ![r].result = ErrorAnswer("AMBIGUOUS")]
           /\ intents' = Drop(intents, r) /\ results' = Append(results, r)
      ELSE UNCHANGED <<outbox, intents, results>>

(* After claim_outbox.  When the payload does not load, a cancelled          *)
(* generation's intent is abandoned, any other one raises.                   *)
LoadPayload ==
    /\ At("load")
    /\ IF PayloadLoads(w.r) THEN Goto("authority") ELSE w' = Loop
    /\ IF ~ PayloadLoads(w.r) /\ gen[w.r].status # "ACTIVE"
         THEN MarkExpiredAmbiguous(w.r)
         ELSE UNCHANGED <<outbox, intents, results>>
    /\ UNCHANGED <<queue, heads, gen, sm, effect, capsules, epoch, cancelling, platform>>

(* install_delivery_authority: a call of the communication service.          *)
InstallAuthority ==
    /\ At("authority")
    /\ Goto("ticket")
    /\ UNCHANGED <<durable, epoch, cancelling, platform>>
AuthorityFails ==
    /\ At("authority") /\ MayFail
    /\ Raise
    /\ UNCHANGED <<durable, epoch, cancelling, platform>>

(* mark_outbox_dispatch_started: the durable boundary of the side effect.    *)
MarkDispatchStarted ==
    /\ At("boundary")
    /\ LET o == outbox[w.r]
       IN  IF o.state = "CLAIMED" /\ o.by = epoch /\ o.boundary = 0
             THEN outbox' = [outbox EXCEPT ![w.r].boundary = epoch] /\ Goto("call")
             ELSE Raise /\ UNCHANGED outbox
    /\ UNCHANGED <<queue, heads, gen, sm, effect, intents, results, capsules, epoch, cancelling, platform>>

(* Mutant of DispatchDelivery: a call without an answer is repeated.         *)
DispatchWithRetry(accepted) ==
    /\ At("call")
    /\ platform' = [platform EXCEPT ![w.r] = [sends |-> @.sends + 1, accepted |-> accepted]]
    /\ Goto("answer") \/ (platform[w.r].sends = 0 /\ Goto("call"))
    /\ UNCHANGED <<durable, epoch, cancelling>>

(* External: the communication service sends, the channel accepts some, all  *)
(* or nothing of it.                                                         *)
DispatchDelivery(accepted) ==
    /\ At("call")
    /\ platform' = [platform EXCEPT ![w.r] = [sends |-> @.sends + 1, accepted |-> accepted]]
    /\ Goto("answer")
    /\ UNCHANGED <<durable, epoch, cancelling>>

(* record_outbox_dispatch_result.                                            *)
RecordResult(a) ==
    /\ At("answer") /\ Truthful(a, platform[w.r].accepted)
    /\ outbox' = [outbox EXCEPT ![w.r].state = IF a.status = "AMBIGUOUS" THEN "AMBIGUOUS" ELSE "ACKED",
                                ![w.r].result = a]
    /\ intents' = Drop(intents, w.r) /\ results' = Append(results, w.r)
    /\ Goto("finalize")
    /\ UNCHANGED <<queue, heads, gen, sm, effect, capsules, epoch, cancelling, platform>>

(* The call outlived its process, or raised past the handler: its claim      *)
(* expired behind the boundary, so the answer will never be known.           *)
Orphan ==
    /\ At("orphan")
    /\ IF PayloadLoads(w.r) THEN MarkExpiredAmbiguous(w.r) /\ Goto("finalize")
       ELSE Raise /\ UNCHANGED <<outbox, intents, results>>
    /\ UNCHANGED <<queue, heads, gen, sm, effect, capsules, epoch, cancelling, platform>>

Finalize ==
    /\ At("finalize")
    /\ IF PayloadLoads(w.r) THEN Goto("settle_delivery") ELSE Raise
    /\ UNCHANGED <<durable, epoch, cancelling, platform>>

(* _advance_ambiguity, or the receipt's own status; AMBIGUOUS takes two steps. *)
DeliveryTarget(s, a) ==
    IF a.status # "AMBIGUOUS" THEN a.status
    ELSE IF s \in {"AMBIGUOUS", "RECONCILE_REQUIRED"} THEN "RECONCILE_REQUIRED"
    ELSE "AMBIGUOUS"

SettleDelivery ==
    /\ At("settle_delivery")
    /\ LET s == sm[w.r].delivery
           to == DeliveryTarget(s, outbox[w.r].result)
       IN  IF s = to THEN Goto("decide") /\ UNCHANGED sm
           ELSE IF CanAdvance(w.r, "delivery", to) THEN Advance(w.r, "delivery", to) /\ UNCHANGED w
           ELSE Raise /\ UNCHANGED sm
    /\ UNCHANGED <<queue, heads, gen, effect, outbox, intents, results, capsules, epoch, cancelling, platform>>

(* mark_outbox_finalized.                                                    *)
MarkFinalized(r) ==
    /\ outbox' = [outbox EXCEPT ![r].finalized = TRUE]
    /\ results' = Drop(results, r)

(* _continuity_context needs a chain that is still open; the gate decides;   *)
(* an open outcome is finalized at once, without touching the request.       *)
Decide ==
    /\ At("decide")
    /\ IF w.r \in capsules THEN Raise /\ UNCHANGED <<outbox, results>>
       ELSE IF Outcome(outbox[w.r].result) \in {"IN_PROGRESS", "RECONCILE_REQUIRED"}
         THEN MarkFinalized(w.r) /\ w' = Loop
         ELSE Goto("persist") /\ UNCHANGED <<outbox, results>>
    /\ UNCHANGED <<queue, heads, gen, sm, effect, intents, capsules, epoch, cancelling, platform>>

ChannelPersist == PersistResult("persist", "settle_request")

SettleRequest ==
    /\ At("settle_request")
    /\ LET to == Outcome(outbox[w.r].result)
       IN  IF CanAdvance(w.r, "request", to)
             THEN Advance(w.r, "request", to) /\ Goto("retire")
             ELSE Raise /\ UNCHANGED sm
    /\ UNCHANGED <<queue, heads, gen, effect, outbox, intents, results, capsules, epoch, cancelling, platform>>

(* Mutant of RetireHead: the generation is released before the result is     *)
(* finalized.                                                                *)
RetireAndRelease ==
    /\ At("retire")
    /\ CompleteSession(w.r) /\ Release(w.r) /\ Goto("mark")
    /\ UNCHANGED <<sm, effect, outbox, intents, results, capsules, epoch, cancelling, platform>>

RetireHead ==
    /\ At("retire")
    /\ CompleteSession(w.r) /\ Goto("mark")
    /\ UNCHANGED <<gen, sm, effect, outbox, intents, results, capsules, epoch, cancelling, platform>>

(* Mutant of CloseOutbox: the finalization is not recorded.                  *)
CloseUnrecorded ==
    /\ At("mark")
    /\ Release(w.r) /\ w' = Loop
    /\ UNCHANGED <<queue, heads, sm, effect, outbox, intents, results, capsules, epoch, cancelling, platform>>

CloseOutbox ==
    /\ At("mark")
    /\ MarkFinalized(w.r) /\ Release(w.r) /\ w' = Loop
    /\ UNCHANGED <<queue, heads, sm, effect, intents, capsules, epoch, cancelling, platform>>

-----------------------------------------------------------------------------
(* _finalize_unhandled.                                                     *)

(* How an open machine is closed: AMBIGUOUS then RECONCILE_REQUIRED behind a *)
(* side effect, CANCELLED before any work, FAILED_FINAL otherwise.           *)
ClosingState(m, s, crossed) ==
    IF s = "NONE" \/ IsTerminal(m, s) THEN s
    ELSE IF crossed /\ s \notin {"AMBIGUOUS", "RECONCILE_REQUIRED"} THEN "AMBIGUOUS"
    ELSE IF crossed THEN "RECONCILE_REQUIRED"
    ELSE IF s = INITIAL_STATES[m] THEN "CANCELLED"
    ELSE "FAILED_FINAL"

FinalizeUnhandled ==
    /\ At("unhandled")
    /\ IF HasOutbox(w.r) THEN w' = Loop /\ UNCHANGED <<queue, heads, gen>>
       ELSE IF Settled(w.r) THEN CompleteSession(w.r) /\ Release(w.r) /\ w' = Loop
       ELSE Goto("unhandled_execution") /\ UNCHANGED <<queue, heads, gen>>
    /\ UNCHANGED <<sm, effect, outbox, intents, results, capsules, epoch, cancelling, platform>>

CloseMachine(pc, m, crossed, next) ==
    /\ At(pc)
    /\ LET s == sm[w.r][m]
           to == ClosingState(m, s, crossed)
       IN  IF s = to THEN Goto(next) /\ UNCHANGED sm
           ELSE IF CanAdvance(w.r, m, to) THEN Advance(w.r, m, to) /\ UNCHANGED w
           ELSE Raise /\ UNCHANGED sm
    /\ UNCHANGED <<queue, heads, gen, effect, outbox, intents, results, capsules, epoch, cancelling, platform>>

(* The backend owns the execution effect, so that only a started effect      *)
(* counts as crossed.                                                        *)
CloseExecution ==
    CloseMachine("unhandled_execution", "execution",
                 effect[w.r] = "SIDE_EFFECT_STARTED", "unhandled_delivery")
CloseDelivery ==
    CloseMachine("unhandled_delivery", "delivery",
                 sm[w.r].delivery \in {"SENDING", "UPLOADING", "CHANNEL_ACCEPTED",
                                       "AMBIGUOUS", "RECONCILE_REQUIRED"},
                 "unhandled_request")

FailUnhandled ==
    /\ At("unhandled_request")
    /\ IF CanAdvance(w.r, "request", "FAILED")
         THEN Advance(w.r, "request", "FAILED") /\ Goto("unhandled_retire")
         ELSE Raise /\ UNCHANGED sm
    /\ UNCHANGED <<queue, heads, gen, effect, outbox, intents, results, capsules, epoch, cancelling, platform>>

RetireUnhandled ==
    /\ At("unhandled_retire")
    /\ CompleteSession(w.r) /\ Release(w.r) /\ w' = Loop
    /\ UNCHANGED <<sm, effect, outbox, intents, results, capsules, epoch, cancelling, platform>>

-----------------------------------------------------------------------------
(* The control thread, the clock and the process.                           *)

(* run/control "cancel": fence the generation, then retire the head.         *)
CancelGeneration(r) ==
    /\ MayCancel /\ r \notin cancelling
    /\ gen[r].status = "ACTIVE"
    /\ gen' = [gen EXCEPT ![r].status = "CANCELLED", ![r].revision = Bump(@)]
    /\ cancelling' = cancelling \cup {r}
    /\ UNCHANGED <<queue, heads, sm, effect, outbox, intents, results, capsules, epoch, w, platform>>
CancelRetire(r) ==
    /\ r \in cancelling
    /\ CompleteSession(r)
    /\ cancelling' = cancelling \ {r}
    /\ UNCHANGED <<gen, sm, effect, outbox, intents, results, capsules, epoch, w, platform>>

ExpireFence(r) ==
    /\ gen[r].status = "ACTIVE" /\ ~ gen[r].expired
    /\ gen' = [gen EXCEPT ![r].expired = TRUE]
    /\ UNCHANGED <<queue, heads, sm, effect, outbox, intents, results, capsules, epoch, w, cancelling, platform>>
(* Not during the local read that follows the claim: the lease is 120 s.     *)
ExpireClaim(r) ==
    /\ ~ At("load") /\ outbox[r].state = "CLAIMED" /\ ~ outbox[r].expired
    /\ outbox' = [outbox EXCEPT ![r].expired = TRUE]
    /\ UNCHANGED <<queue, heads, gen, sm, effect, intents, results, capsules, epoch, w, cancelling, platform>>

(* The process dies at any point and starts again under the next epoch:      *)
(* recover_started_effects closes the backend's started effects.             *)
Restart ==
    /\ epoch < MaxEpoch
    /\ epoch' = epoch + 1
    /\ w' = Loop /\ cancelling' = {}
    /\ effect' = [r \in Request |-> IF effect[r] = "SIDE_EFFECT_STARTED"
                                      THEN "FAILED_FINAL" ELSE effect[r]]
    /\ UNCHANGED <<queue, heads, gen, sm, outbox, intents, results, capsules, platform>>

-----------------------------------------------------------------------------
ProcessStep ==
    \/ InitializeExecution \/ InitializeDelivery \/ AdvanceStep
    \/ ClaimEffect \/ StartEffect
    \/ \E status \in {"SUCCEEDED", "FAILED_FINAL", "AMBIGUOUS"} : CompleteEffect(status)
    \/ FailSession \/ ProcessFails \/ ArtifactsFail \/ RejectPlan
    \/ DesktopHandover \/ DesktopPersist \/ DesktopRetire
    \/ ChannelHandover \/ PlanDelivery
DispatchStep ==
    \/ LoadPayload \/ InstallAuthority \/ AuthorityFails \/ MarkDispatchStarted
    \/ \E accepted \in Accepted : DispatchDelivery(accepted)
    \/ \E a \in Answer : RecordResult(a)
    \/ Orphan \/ Finalize \/ SettleDelivery \/ Decide \/ ChannelPersist
    \/ SettleRequest \/ RetireHead \/ CloseOutbox
UnhandledStep ==
    \/ FinalizeUnhandled \/ CloseExecution \/ CloseDelivery
    \/ FailUnhandled \/ RetireUnhandled
DispatchTurn(r) == FinalizeNext(r) \/ OrphanNext(r) \/ ClaimOutbox(r)
TurnStep ==
    \E r \in Request : \/ RetireTerminal(r) \/ RetireCancelled(r) \/ RecoverNext(r)
                       \/ DispatchTurn(r) \/ ClaimNext(r)
WorkerStep == TurnStep \/ ProcessStep \/ DispatchStep \/ UnhandledStep

Next ==
    \/ WorkerStep
    \/ Heartbeat
    \/ Restart
    \/ \E r \in Request : \/ Register(r) \/ ExpireFence(r) \/ ExpireClaim(r)
                          \/ CancelGeneration(r) \/ CancelRetire(r)

Spec == Init /\ [][Next]_vars

(* The worker thread keeps running; leases expire as time passes; a control  *)
(* call ends.  A turn is far shorter than the 30 s lease, so that a lease    *)
(* which expires over and over does not keep the worker from the lists after *)
(* the recovery list, and the communication service is reachable now and     *)
(* then.                                                                     *)
Fairness ==
    /\ WF_vars(WorkerStep)
    /\ SF_vars(InstallAuthority)
    /\ \A r \in Request :
        /\ SF_vars(DispatchTurn(r)) /\ SF_vars(ClaimNext(r))
        /\ WF_vars(ExpireFence(r)) /\ WF_vars(ExpireClaim(r)) /\ WF_vars(CancelRetire(r))

FairSpec == Spec /\ Fairness

(* Only the worker thread is known to keep running.                          *)
WorkerFairSpec == Spec /\ WF_vars(WorkerStep)

-----------------------------------------------------------------------------
(* Safety.                                                                  *)

(* The communication service is asked to send a request's answer at most     *)
(* once, over all restarts, lease takeovers and outbox claims                *)
(* (mark_outbox_dispatch_started, the orphan branch of dispatch_next).       *)
AtMostOneSend == \A r \in Request : platform[r].sends <= 1

(* RECOVERY-01: the verdict stored for a channel request is what happened at *)
(* the channel, whatever crashed before or after the send.  COMPLETED means  *)
(* everything was accepted, PARTIAL that something was, and FAILED that      *)
(* nothing was (CompletionGate.evaluate, DeliveryOutboxWorker._finalize).    *)
VerdictIsTrue ==
    \A r \in Request \ Desktop :
        /\ sm[r].request = "COMPLETED" => platform[r].accepted = "all"
        /\ sm[r].request = "PARTIAL" => platform[r].accepted = "some"
        /\ sm[r].request = "FAILED" => platform[r].accepted = "none"

(* An unknown outcome is never settled by the gateway: the request stays     *)
(* open and the delivery machine does not leave the reconciliation states.   *)
AmbiguityStaysOpen ==
    \A r \in Request : outbox[r].state = "AMBIGUOUS" =>
        /\ ~ Settled(r)
        /\ outbox[r].finalized => sm[r].delivery = "RECONCILE_REQUIRED"

(* Every channel delivery that left NOT_PLANNED has its outbox intent and    *)
(* every intent its planned delivery: no crash separates the two             *)
(* (apply_event_with_outbox).                                                *)
IntentMatchesPlan ==
    \A r \in Request \ Desktop :
        HasOutbox(r) <=> sm[r].delivery \notin {"NONE", "NOT_PLANNED", "CANCELLED"}

(* The tables of the store agree after every transaction.                    *)
TablesAgree == TypeOK /\ IntentMatchesPlan

(* Requests of a session are served one at a time in the order in which they *)
(* were registered (register_request, complete_session_request), also when a *)
(* cancellation and the worker retire the same head.                         *)
SessionOrder ==
    \A r \in Request : \A q \in SameSession(r) :
        q < r /\ queue[r] \in {"ACTIVE", "COMPLETED"} => queue[q] = "COMPLETED"

(* A released generation leaves nothing behind: its request is settled, its  *)
(* session head retired and its outbox finalized.                            *)
ReleasedIsSettled ==
    \A r \in Request : gen[r].status = "RELEASED" =>
        Settled(r) /\ queue[r] = "COMPLETED" /\ (HasOutbox(r) => outbox[r].finalized)

(* A cancelled or released generation never becomes ACTIVE again             *)
(* (delivery_outbox.py relies on it), and a settled request is never         *)
(* reopened, by recovery, re-execution or late finalization; nor is anything *)
(* sent for it.                                                              *)
NoRevival ==
    [][\A r \in Request :
        /\ gen[r].status \in {"CANCELLED", "RELEASED"} => gen'[r].status = gen[r].status
        /\ Settled(r) => sm'[r].request = sm[r].request
                         /\ platform'[r].sends = platform[r].sends]_vars

(* Liveness.                                                                *)

(* A session head that is settled or cancelled is retired, also when the     *)
(* process died between the two transactions that do it                      *)
(* (list_terminal_active_session_request_ids and its cancelled twin).        *)
StrandedHeadRetired ==
    \A r \in Request :
        (queue[r] = "ACTIVE" /\ (gen[r].status = "CANCELLED" \/ Settled(r)))
            ~> queue[r] = "COMPLETED"

(* A session head is eventually taken by the worker.                         *)
HeadEventuallyClaimed ==
    \A r \in Request : queue[r] = "ACTIVE" ~> gen[r].status # "NONE"

(* A delivery intent is eventually dispatched and finalized.                 *)
IntentEventuallyFinalized ==
    \A r \in Request : HasOutbox(r) ~> outbox[r].finalized

(* "Settle it as AMBIGUOUS here": a claimed intent of a cancelled generation *)
(* that never reached the boundary is settled (_abandon_cancelled_outbox).   *)
CancelledIntentSettles ==
    \A r \in Request :
        (gen[r].status = "CANCELLED" /\ outbox[r].state = "CLAIMED" /\ outbox[r].boundary = 0)
            ~> outbox[r].state # "CLAIMED"

(* A recovered request without an intent is executed again: the worker that  *)
(* enters _process for it gets as far as its planning.                       *)
RecoveredIsReexecuted ==
    \A r \in Request :
        (w.pc = "init_execution" /\ w.r = r /\ ~ w.fresh) ~> (w.pc = "planning" /\ w.r = r)
=============================================================================
