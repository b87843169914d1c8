# Tiangong Zaowu v3: the delivery path, specified, model-checked and proved

These TLA+ modules describe how a message that reaches Tiangong Zaowu becomes one
request, how the request becomes an answer that leaves it *at most once*, which process
may touch the channel meanwhile, and what the system claims about all of it
afterwards. They are translated from the Python source (`src/src/...`); TLC checks
them on small instances, and TLAPS proves their safety properties for every instance.

Contents: 1 the system, 2 the modules and how they correspond to the code,
3 what the runs check, 4 bounds and fairness, 5 what is proved, 6 where code and
comments disagree, 7 what is not modelled, 8 the plan.

## 1. The system

Four local processes share nothing but HTTP calls and signed tickets. Each keeps its
state in SQLite files of its own, and every operation on them is one
`BEGIN IMMEDIATE ... COMMIT` under a process lock.

| component | state it keeps | operations | what makes it correct |
|---|---|---|---|
| **Total gateway**, 7184 (`total_gateway`) | | | |
| - event-sourced aggregates and transactional outbox (`store.py`, `contracts/state_machine.py`) | `aggregate_state`, `event_log`, `outbox`, `event_outbox` | initialize a snapshot, apply an event together with its intents, scan at open | the log explains the snapshot; intents exist exactly for accepted events; what the interface claims is backed by evidence |
| - session queue and generation leases (`store.py`, `active_requests.py`) | `session_queue`, `request_generation` | register, activate, heartbeat, recover, cancel, release, complete | one head per session, in order; a fenced generation stays fenced |
| - orchestration worker (`orchestration.py`) | a thread with one local `activation` | a turn of `_run`, `_process`, `_finalize_unhandled` | nothing that crashes or raises blocks the others for ever |
| - delivery outbox (`delivery_outbox.py`, `completion_gate.py`) | `outbox_dispatch_boundary` | `dispatch_next`, `_finalize` | at most one send; the verdict is what happened |
| - effect ledger, dispatch permits and action fence (`store.py`, driven by `orchestration.py`, `regenerative_provider.py`, `composition_step_execution.py`, `omni_grant_authority.py`) | `effect_ledger`, `effect_attempts`, `effect_facts`, `dispatch_permit_release`, `action_fence`, `execution_contract_epoch` | claim, start, acquire a permit, complete, release, admit a sub effect, raise the fence, activate a contract epoch, reconcile, recover in four passes | nothing is repeated behind its boundary; results are true; permits come back and zero traffic means quiet |
| - channel cutover coordinator (`cutover_coordinator.py`, `contracts/cutover.py`, `store.py`) | `channel_cutover`, `channel_drain_evidence`, `channel_ownership_lease` | begin, record the drain, activate, renew, install | one owner per account; an account that can be served is |
| - run control (`desktop_api.py`) | none | cancel (two transactions), queries | a cancellation leaves nothing behind |
| - response saga and continuity capsules, instance lease, omni grants and keys, object store, verification plane, composition and regenerative execution | further tables, key files | | see section 7 |
| **Communication service**, 7176 (`communication_service`) | | | |
| - delivery ledger (`delivery_ledger.py`) | `verified_delivery_tickets`, `delivery_effects`, `delivery_stage_events` | consume a ticket, mark the start, record a receipt, reconcile, recover at start | an effect starts at most once; a lost outcome is never guessed |
| - dispatcher and WeChat text sender (`server.py`, `delivery_dispatcher.py`, `wechat_text_outbound.py`, `wechat_session.py`) | a lock, the session's context token | one call per HTTP thread: segments, retries, receipts | no segment twice; answers are true |
| - channel authority (`channel_authority.py`, `runtime.py`) | the installed leases, in-flight counters | install, authorize, operation | no operation outside a lease |
| - WeChat worker, session ledger and inbox (`wechat_worker.py`, `wechat_inbound.py`, `wechat_session.py`, `inbox.py`) | `message_decision`, `session_state`, `inbox_records`, `cursor_state`, `ack_permits` | flush, poll, decide, persist with the cursor, forward, acknowledge | an acknowledged message is one request; nothing is skipped; order within a session |
| - WeChat file and Feishu senders and workers, attachments, login | further tables | | section 7 |
| **Life service**, 7175 (`life_service`) | an event-sourced store with one writer | | section 8 |
| **Backend**, 7174, world understanding, omni body, skills | prompts, tools, files | execute a plan | seen as the answer of one call |
| **Desktop application** (`app`) | Electron | supervises the processes | not modelled |

**How they interact.** A channel worker polls its platform under the lease that the
gateway's coordinator installed, commits message and cursor, and forwards the message to
the gateway, which registers a request in the queue of its session. The gateway's only
orchestration worker claims the head of a session under a generation lease, calls
the backend, plans a delivery (a state event and an outbox row in one transaction),
and dispatches the row: claim, durable boundary, one HTTP call to 7176 with a signed
ticket, durable result, finalization, retirement of the head, release of the
generation. The communication service consumes the ticket, makes the start of the
effect durable and calls the platform. A control thread of the gateway may cancel a
run at any moment, a heartbeat thread renews its lease, and either process may die
between any two transactions. At a restart the gateway gets a new epoch, and the
ledger marks what had started without a receipt as `RECONCILE_REQUIRED`.

**What is hard in it.** The crash between "sent" and "recorded", on both sides of the
HTTP call; leases that expire under a running worker; a cancellation between any two
transactions; calls that are repeated while the first one is still sending; part of a
message accepted and the rest refused; a handler that outlives the call that gave up on
it; a hand-over that is decided from facts read one after the other; a batch that is cut
in the middle; one worker that everybody waits for.
`PROJECT.json` lists these hazards with the lines where they bite, and the property
that would catch each one going wrong.

## 2. The modules

| module | what it models | from |
|---|---|---|
| `EffectBoundary` | abstract: a boundary that is crossed at most once, and a crash that never makes an effect sendable again | what the two ledgers promise |
| `DeliveryLedger` | the ledger of 7176, one action per transaction | `delivery_ledger.py` |
| `DeliveryLedgerProofs` | theorems about it | |
| `StateMachine` | the four machines, `apply_transition`, `aggregate_request_status` | `contracts/state_machine.py` |
| `AggregateState` | snapshots, event log and outbox rows under any submissions | `store.py` |
| `AggregateStateProofs` | theorems about it | |
| `ChannelAnswer` | the answers of 7176 and when they are true | `contracts/delivery.py`, the gateway's client |
| `GatewayDelivery` | worker, session queue, generations, outbox, cancellation, restart | `orchestration.py`, `delivery_outbox.py`, `active_requests.py`, `store.py`, `desktop_api.py`, `completion_gate.py` |
| `GatewayDeliveryProofs` | theorems about it | |
| `WechatDelivery` | the text sender's threads over an INSTANCE of `DeliveryLedger` | `wechat_text_outbound.py`, `server.py`, `delivery_dispatcher.py`, `wechat_session.py` |
| `WechatDeliveryProofs` | theorems about it | |
| `ChannelCutover` | coordinator, authority gate, worker and senders around the gate, restarts of either service | `cutover_coordinator.py`, `store.py`, `contracts/cutover.py`, `channel_authority.py`, `runtime.py`, `wechat_worker.py` |
| `ChannelCutoverProofs` | theorems about it | |
| `WechatIngress` | the worker's loop over session ledger, inbox and the gateway's journal | `wechat_worker.py`, `wechat_inbound.py`, `wechat_session.py`, `inbox.py`, `store.py` |
| `WechatIngressProofs` | theorems about it | |
| `EffectLedger` | effects, permits, fence and recovery with their callers | `store.py`, `orchestration.py`, `regenerative_provider.py`, `composition_step_execution.py`, `omni_grant_authority.py` |
| `EffectLedgerProofs` | theorems about it | |
| `MC...` | instances for TLC | |

`PROJECT.json` maps every definition to its lines.

**DeliveryLedger.** `verified` is the ticket table, `effects[e]` the row of an effect,
`events[e]` its stage events. A ticket is an immutable signed message, so its effect,
run and generation are functions (`EffectOf`, `RunOf`, `GenOf`). An exception rolls its
transaction back and is a disabled action; an idempotent return is a stuttering step.
`ConsumeVerifiedTicket` contains the generation fence, `RecordReceipt` the whole
decision table of `record_receipt`, `RecoverAmbiguous` the sweep over all started rows.

**AggregateState.** `snapshot` is `aggregate_state`, `log` is `event_log`, `rows` tells
which event inserted an outbox row. `ApplyEvent` is `apply_event_with_outbox` as a whole:
look the event id up, decide (`Disposition` keeps the order of the tests of
`apply_transition`), log, and, for an applied event, write the snapshot and the rows.

**GatewayDelivery.** One action per transaction or external call. The worker is a
program counter (`w.pc`) over the steps of `_run`, `_process`, `dispatch_next`,
`_finalize` and `_finalize_unhandled`; steps that only advance a machine are entries of
`Script`. `w.fresh` is the local variable `activation` of `_run`, which decides whether
an exception is finalized (`Raise`). The six lists that a turn of `_run` tries in
order are `Work`; `Turn(k, r)` says that list k is the first that is not empty. A turn that
takes a list's first request names its position, and an entry is removed by position (`Drop`),
which is what the proofs can reason about. Durable
state survives `Restart`; `w` and `cancelling` do not. `platform` is a history variable:
what the channel really saw.

**WechatDelivery.** One thread per HTTP call. The ledger's own actions are used
through `Ledger == INSTANCE DeliveryLedger`; `RecordReceipt` there and the answer here
are the same step only where the code makes them one. `sent` is the history of the
segments the platform accepted. The entry distinguishes the two ways to fail that
the server distinguishes: a `ValueError` is answered at once as a malformed request,
with `outcome_unknown` false; a `RuntimeError` makes the server read the ledger first
(`AnswerError`).

**ChannelCutover.** `cutover` and `rows` are the gateway's tables, `gate` the leases the
communication service holds, `held` the expiries the coordinator remembers. A round of the
coordinator is a program counter over its store transactions and its calls; the drain
facts are three separate reads (`DrainFacts`), because nothing keeps operations out between
them. The worker's loop is inside the gate in the states `Inside`, a sender while
`sender[s].lease` is set; everything else they do is reduced to what the drain facts count.
Who enters presents a time: a poll and a freshly persisted message read it at the gate, a
flush, the `notify_start` behind it and a send read it before (`StartFlush`, `SendBegin`), and
any amount of time may pass until they enter. A time that is too old for the gate's lease, or
that lies before it was issued, makes the gate drop the lease (`Authorize`). Time
is an integer clock; a lease keeps when its predecessor was issued in place of its digest.
`Embedded` is the production deployment, in which both services restart together.

**WechatIngress.** One worker over the durable ledgers `decision`, `last`, `inbox`, `cursor`
and the gateway's `journal`; each transaction is an action and `Crash` may come between any
two. A cursor token is the platform's or a local checkpoint, as in `process_batch`. The
platform numbers its messages, returns any run of them behind the cursor, and may return
old ones again. What the ledger compares when a message comes again (fingerprint and
envelope digest) is `SameMessage`: an envelope carries its time of capture, so that it is
the same only if it was persisted.

**EffectLedger.** An effect has a head, an attempt, a verdict and perhaps a permit. The four
kinds of effects differ in who calls them, which boundary they cross and who recovers
them; `MayCall` says when each may be called. `Complete` is `complete_effect` as a whole,
the return of the permit included. `handler` is the thread that does the work, and `applied`
is what really happened. Nothing orders the handlers: the tool loop runs read-only calls in a
pool of threads and abandons them, still running, at a deadline (`v3/zongdiaodu.py` 3564-3645),
so that any number of tool calls run at once and `ExecutionEnds` waits for none of them; a tool
thread may even make its call after the execution has returned. In the same way the worker
leaves an execution that its pool has not started (`LeaveUnstarted`), and the pool thread may
start it later. `revoked` holds the executions whose generation has ended (`GenerationEnds`, at
any moment): every operation of a tool call checks it (`Active`), so that the result of a late
call is refused (`FinishRefused`) with the head started and the permit open. `ReleaseFails` is
the release that the callback of a late step swallows. `phase` walks through the passes of
`start()` in their order; `ResumeRun`, `ReconcileStale`, `ResumeParent` and `RecoverFromFact` are
what closes effects while the gateway runs.

**Composition.** The gateway and 7176 are composed by assume/guarantee on
`ChannelAnswer`. `GatewayDelivery` assumes that a recorded answer is `Truthful` about
what the channel accepted (`RecordResult`); `WechatDelivery` checks exactly that of the
text sender (`AnswerIsTruthful`). The assumption is on one call per delivery, which is
what `AtMostOneSend` establishes on the gateway's side. The product of the two
modules is far out of the reach of TLC. In the same way `ChannelCutover` sees the inbox of
`WechatIngress` as empty or not, and `GatewayDelivery` sees the execution effect of
`EffectLedger` with one outcome. `EffectLedger` and `DeliveryLedger`, the ledgers of two
services, implement the same `EffectBoundary`.

## 3. The runs

| run | expected | distinct states | shows |
|---|---|---|---|
| `delivery_ledger` | pass | 11,476 | two effects and three tickets, of which two are successive generations of one run and two compete for one effect; receipts of every status, repeated, differing and reconciling; restarts. The tables are well typed, satisfy the CHECK clauses and hold no result without a start (`TablesValid`), the integrity scan accepts them (`VerifyRows`), an effect starts at most once (`AtMostOneStart`), the fence is monotone, settled effects are final, and the ledger implements `EffectBoundary` |
| `aggregate_state` | pass | 365,165 | a request and its delivery under 15 events: the ones that take both to the end, and late, early, foreign, unevidenced and repeated ones, and ids used for two contents. The full-chain scan accepts (`FullEventChain`), outbox rows are the intents of accepted events (`RowsFollowEvents`), history only goes forward (`OnlyForward`), and completion is claimed only with evidence (`ClaimIsEvidenced`) |
| `gateway_safety` | pass | 95,524 | one channel request, two restarts, cancellation, lease expiry, failures everywhere, every valid receipt: one send at most, `VerdictIsTrue`, unknown outcomes stay open, tables are typed and intents match plans (`TablesAgree`), a released generation leaves nothing behind, nothing fenced or settled revives or sends, and a settled or cancelled head is retired |
| `gateway_session` | pass | 621,238 | a channel and a desktop request of one session, a restart, cancellations: `SessionOrder` |
| `gateway_progress` | pass | 83,639 | two sessions, failures and expiring leases, no restart, no cancellation: every head is claimed, every intent finalized |
| `wechat_text` | pass | 174,970 | a text of two parts and three segments, called twice, every platform answer, lost connections, ticket expiry, a session token that comes and goes, two restarts: segments in order and once, truthful receipts (`LedgerIsTruthful`) and answers, every call ends |
| `channel_cutover` | pass | 1,633,821 | one account over two epochs and two instances of the service, restarted independently, calls and answers lost, the clock running past a lease, sends and flushes that present a stale time: the rows pass the scan at every open (`ScanPasses`), `SoleOwner`, `NoForeignOperation` |
| `channel_served` | pass | 272,624 | both services in one process, the clock not running past a lease that is due for renewal: an account is served again after whatever happens, unless one of three named conditions blocks it (`ServedOrBlocked`) |
| `wechat_ingress` | pass | 14,180 | five messages of two sessions, one withheld, one malformed, any batches, redelivery, lost acceptances, one crash: `AckedIsRegistered`, `OneRequestEach`, `OrderedAcrossBatches`, `LedgersAgree`, `EveryRecordAcknowledged`, `CatchesUp` |
| `effect_ledger` | pass | 326,384 | an execution that is bound to a plan, a tool call of it, a sub effect granted to it and a step of the plan; late starts, handlers that outlive their callers, lost facts, refused results and releases, a generation that ends, the watchdog, resumed runs, the fence, reconciliation, the contract epoch and a restart: the in-flight count is the number of open permits (`LedgerConsistent`), `ZeroTrafficIsQuiet`, `ResultIsTrue`, `PermitsDrain`, and the ledger implements `EffectBoundary` |
| `channel_wedged`, `wechat_batch` | violation | | section 6 |

Further configurations, which show the disagreements 3 to 12 of section 6 or repeat a
property elsewhere: `MCGatewayCrashQueue`, `MCGatewayCancelQueue`, `MCGatewayCancelledIntent`,
`MCGatewayReexecution`, `MCWechatClock`, `MCEffectFence`, `MCEffectReady`, `MCEffectZero`,
`MCEffectQuiet`, `MCChannelLate` (each ends with a counterexample), `MCEffectBoundary` (passes, 207,332
distinct states: `ImplementsBoundary` of an execution outside any plan, whose result can be
reconciled too), `MCAggregatePulled` (passes: `ClaimIsEvidenced` of a request answered
without a delivery, with an execution and an artifact), and `MCChannelSlept` (passes, 477,812
distinct states in about two minutes: `ServedOrBlocked` when the machine may also sleep past a lease
that is due; `channel_served` itself assumes that it does not).

Every property of a passing run has a mutant in `PROJECT.json`: a plausible bug (a
dropped guard, a lost reset, two transactions instead of one, a status taken from the
wrong place) under which TLC finds the property violated. The mutated operators are in
the modules, each before the definition it distorts and marked as a mutant.

## 4. Bounds and fairness

**Bounds.** All are CONSTANTS or named operators.

- Two effects, three tickets, two clock readings (ledger): the only couplings between
  tickets are "same run" and "same effect", and the instance has a pair of each. The
  proofs of section 5 need no bound.
- One request (`gateway_safety`): requests interact only through their session queue
  and through the worker; the two-request runs are about these. `MaxEpoch = 3` gives a
  crash, and a crash during the recovery from it. `MaxRevision = 4`: the code only
  tests `revision <= 3`, so that larger values are one.
- `Stages` is all of `PartStage` in `gateway_safety` and acceptance alone where the
  property is about order or progress, which do not depend on the parts of a receipt.
- Three segments, of which the second and the third close a part: a part of two
  segments and a later part are what `FinalStatus` tells apart. One rate-limit retry
  stands for the policy's number of them; two calls stand for a client that repeats.
- The wall clock has two readings. It only goes forward in `wechat_text`; in
  `MCWechatClock.cfg` it may be set back.
- One account, two epochs, two instances (`channel_cutover`): accounts share the round of
  the coordinator and nothing else, and an epoch only looks back at older ones. In
  `channel_cutover` lease, window and skew are one tick and the clock has four: a lease can be
  issued, be due, expire, be expired but not yet safe to take over, and the first lease of
  the next epoch comes at the third tick, so that one more tick shows who enters late. Renewal
  chains longer than that are in `channel_served`, with a lease of two ticks and no skew (with
  one process there is one clock). `TimeToRecover` lets a fault happen only while the
  bounded clock leaves time for the recovery, so that the end of the clock is not mistaken
  for a failure. The proofs need none of these bounds.
- Five messages (`wechat_ingress`): a batch with a checkpoint in its middle, a batch
  behind it, a withheld and a malformed message in either place. One crash: a second one
  starts from a state that the first may leave too, the ledgers being all that survives.
- Four effects, one of each kind, one raise of the fence, one restart, one reconciled effect
  (`effect_ledger`): the count of permits is a sum over effects, and two of them (a tool
  call and a step that outlived its caller) are open at the same time. The effects of one
  execution meet only in the fence, the worker and the generation. The code only tests
  whether the fence epoch is zero or has changed. `Reconcilable` lets the one effect that is
  reconciled be the tool call or the step, the two that hold a permit, which is what the
  fence looks at; in `MCEffectBoundary` it may be the execution or the sub effect. An
  execution bound to a plan and one outside any plan are in the two configurations. The
  proofs need none of these bounds.
- Symmetry is not used: the instances have distinguished tickets and requests.

Deadlock is checked in the delivery ledger, aggregate, WeChat and channel runs. The
gateway runs and the effect run say `CHECK_DEADLOCK FALSE` because a gateway without a
further request really stops.

**Fairness.** `WorkerFairSpec` only says that the worker thread keeps running; `_run` is
a loop that swallows every exception. `FairSpec` of `GatewayDelivery` adds weak fairness
of the clock (leases do expire) and of the second transaction of a cancellation, and
strong fairness of three things. `DispatchTurn` and `ClaimNext`: a turn takes milliseconds
and a generation lease 30 s, so that a lease that expires over and over cannot put the
recovery list in front of the others at *every* turn. `InstallAuthority`: the
communication service is reachable now and then. `FairSpec` of `WechatDelivery` is weak
fairness of each thread; a platform call ends because the HTTP client has a timeout,
and locks are always released (`Leave`). `FairSpec` of `ChannelCutover` is weak fairness of
the coordinator's loop, of the worker's loop, of a send that has begun (all three are
threads whose calls have timeouts) and of the clock. `FairSpec` of `WechatIngress` is
weak fairness of the worker, and strong fairness of two things that the services cannot
force: a submission that is repeated for ever is accepted at last, and the platform does
not hide a new message for ever. `FairSpec` of `EffectLedger` is weak fairness of the
worker, which leaves every call at the latest when its watchdog time has passed
(`WorkerGoesOn`); strong fairness of the watchdog for a tool call (`ReconcileStale`): `_run` calls
it between two requests, and the worker comes back to its loop again and again; weak fairness of
the handler of a step with its release, because a step has a timeout of its own; and of the
recovery passes, which one thread runs at the start. Tool threads, executions and the
operator get none: a tool thread may hang for ever.
No fairness is assumed of restarts,
cancellations, registrations, heartbeats, the platform's answers or the session.

## 5. What is proved

Seven proof modules, checked by TLAPS for all values of the constants that satisfy the
named assumptions. Every invariant and every action property that a passing run checks, and
both refinements of `EffectBoundary`, are stated by a theorem. None of the properties is
inductive by itself; each proof module begins with its inductive invariant (`IInv`, or
`LedgerInv` in `DeliveryLedgerProofs`), which TLC has checked on the instances of section 3.

| module | theorem | property of the runs |
|---|---|---|
| `DeliveryLedgerProofs` | `TablesAlwaysValid` (from `TypeCorrect`, `RowsAlwaysValid`, `ResultsFollowStart`), `ScanAlwaysAccepts`, `StartedAtMostOnce`, `FenceIsMonotone`, `SettledStaysFinal`, `LedgerRefinesBoundary` | `TablesValid`, `VerifyRows`, `AtMostOneStart`, `FenceMonotone`, `SettledIsFinal`, `ImplementsBoundary` |
| `AggregateStateProofs` | `TypeCorrect`, `ChainAlwaysVerifies`, `OutboxFollowsEvents`, `HistoryOnlyForward`, `ClaimAlwaysEvidenced` | `TypeOK`, `FullEventChain`, `RowsFollowEvents`, `OnlyForward`, `ClaimIsEvidenced` |
| `GatewayDeliveryProofs` | `TablesAlwaysAgree`, `AlwaysAtMostOneSend`, `VerdictAlwaysTrue`, `AmbiguityAlwaysOpen`, `AlwaysSessionOrder`, `ReleasedAlwaysSettled`, `NothingIsRevived` | `TablesAgree`, `AtMostOneSend`, `VerdictIsTrue`, `AmbiguityStaysOpen`, `SessionOrder`, `ReleasedIsSettled`, `NoRevival` |
| `WechatDeliveryProofs` | `AlwaysSentInOrder`, `LedgerAlwaysTruthful`, `AnswersAlwaysTruthful` | `SentInOrder`, `LedgerIsTruthful`, `AnswerIsTruthful` |
| `ChannelCutoverProofs` | `ScanAlwaysPasses`, `AlwaysSoleOwner`, `NeverForeignOperation` | `ScanPasses`, `SoleOwner`, `NoForeignOperation` |
| `WechatIngressProofs` | `AckedAlwaysRegistered`, `AlwaysOneRequestEach`, `AlwaysOrderedAcrossBatches`, `LedgersAlwaysAgree` | `AckedIsRegistered`, `OneRequestEach`, `OrderedAcrossBatches`, `LedgersAgree` |
| `EffectLedgerProofs` | `LedgerAlwaysConsistent`, `ZeroTrafficAlwaysQuiet`, `ResultAlwaysTrue`, `LedgerRefinesBoundary` | `LedgerConsistent`, `ZeroTrafficIsQuiet`, `ResultIsTrue`, `ImplementsBoundary` |

**DeliveryLedger**, from `LedgerAssumption` (tickets name effects, runs and natural
generations; times are positive; the two NULLs are no ordinary values). `AtMostOneStart`
needs that a CLAIMED row has no start in its history, which needs the CHECK clauses and
that an absent row has an empty history. `LedgerInv` is `TypeOK`, a local invariant
`EffectInv(e)` of each effect, and "a consumed ticket is the ticket of its effect's row".
The preservation proof has one lemma per shape of change (a claim, a changed row with one
more stage event, the sweep); an effect that an action does not touch keeps its `EffectInv`
because it only speaks of `effects[e]`, `events[e]` and a `verified` that grows.

**AggregateState**, from `AggregateAssumption` (entities have machines, events are
well-typed, NULLs are no ordinary values). `IInv` is the types, one log entry per event
id, the chain and the outbox rows; without the uniqueness of the ids a new entry could
collide with the one that a snapshot's `lastEvent` names. `ClaimAlwaysEvidenced` adds
`LawfulHistory`: every applied event came from an owner with the evidence its target needs
and left that target, and an entity at revision 0 is in its first state. A delivery that is
claimed as accepted is not in its first state, so its last event is the evidence; what
`aggregate_request_status` concludes from the states of the children is a lemma of its own
(`CompleteMeans`).

**GatewayDelivery**, from `GatewayAssumption` (requests are numbered, each has a session;
the receipts are a set of part stages). `QueueInv`: requests are registered in order and one
waits only behind a head, so that a head that is retired twice, by the worker and by a
cancellation, promotes the right request. `ListInv`: the lists that a turn of `_run` reads
hold a request once, and only what belongs there; without it the removal of one entry would
not make the request leave the list. `RequestInv(r)`: no send before the boundary, nothing
answered that is not true of the channel, no settled request with an intent that has no
answer, no generation released before everything is finalized. `WorkerInv`: what the
worker may rely on at each program counter, because nothing else writes it (an intent
under dispatch stays CLAIMED, the call is reached only with a boundary and without a send, a
finalization has an answer that is not finalized). A cancellation, an expiring lease and a
restart are the steps that move under the worker, and `WorkerInv` says exactly what survives them.
The composition with 7176 is the assumption of `RecordResult` that a recorded answer is
`Truthful`, which the theorem `AnswersAlwaysTruthful` establishes for the text sender.

**WechatDelivery**, from `WechatAssumption` (a text has at least one segment and its last
one closes a part) and `LedgerConstants` (what the sender needs of the ledger's constants).
`IInv` says of an effect that what is durable agrees with what the platform accepted, and of
a thread that it holds the lock while it sends, knows how many segments were accepted, has
made the start durable before the first one, and is about to record a status that is true.
`AlwaysSentInOrder` and `LedgerAlwaysTruthful` follow without any assumption on the wall
clock. `AnswersAlwaysTruthful` is stated under `Trusted`: the clock is never set back (6.7
shows that the property is false otherwise) and no two tickets name one effect: the
gateway signs one ticket for the one call of a delivery (`AtMostOneSend`). Its invariant `TruthInv` adds that no stored time lies in
the future and that, while the first call of a ticket waits, the record of the effect is its own.

**ChannelCutover**, from `CutoverAssumption` (a lease has a length, there are a first
instant and a first epoch; nothing relates the renewal window or the skew to the length) and
`NoneAssumption`. `StoreInv`: nothing is stored for a later epoch, no stored time is in the
future, and a cutover began when every earlier owner had expired. `CoInv`: the coordinator's
locals are what it read, and a cutover that has begun is finished in the same round.
`LeasesStored` and `GateClosed`: whoever is inside the gate holds a stored lease; a send or a
`notify_start` holds one that was valid at the time it presented; and once the drain facts of a
cutover have been read no poll or forward of an earlier owner can enter, although the three
facts are read one after the other and a flush presents a stale time. A send that read its
time long ago may still enter (6.12): that it read it before the old lease ran out, and so
more than the skew before the new owner's first lease, follows from `LeasesStored` and
`SoleOwner`.

**WechatIngress**, from `IngressAssumption` and `NoneAssumption` (a NULL is no record). The
order of the requests survives a restart because a poll starts only when no record is
pending, so that all pending records are of the latest poll that persisted anything
(`PendingIsLatest`), and because a message that was decided and not persisted is never
persisted later (`CapturedInOrder`). The thread's part says which members of the batch at
hand are persisted, and that the cursor it ends with passes nothing that is not accounted for.

**EffectLedger**, from `EffectAssumption` (every effect has an execution as its parent, and
there are finitely many: the ledger is a table). `EffectInv(e)`: a claim has nothing behind
it, a fact was recorded after its handler ended and says what it did, a running handler has a
caller and a state that fit its kind (only a step keeps its permit while it runs), an attempt
is reconciled only with the verdict APPLIED, and `start()` finds neither callers nor handlers.
Nothing in it relates the handler of a tool call to its execution, because nothing in the code
does. `InflightIsOpenPermits` is inductive only with `EffectInv`: a permit is given back once
because the row that gives it back is no longer open. `ContractHolds` is the rest of
`ZeroTrafficIsQuiet`: behind the contract epoch the fence stays raised with no permit open, so
that nothing starts any more, and what still runs was reconciled as APPLIED. The refinement
maps every step to a move of at most one effect, or a stutter.

**Only model-checked.** The liveness properties (`EveryCallEnds`, `StrandedHeadRetired`,
`HeadEventuallyClaimed`, `IntentEventuallyFinalized`, `ServedOrBlocked`,
`EveryRecordAcknowledged`, `CatchesUp`, `PermitsDrain`): fairness and ENABLED are out of the
reach of the installed provers. The disagreements of section 6 are counterexamples and need
no proof.

## 6. Where the code and its comments disagree

Each is a configuration whose one property states what a comment or a document promises,
and which TLC refutes. The first two are runs of `PROJECT.json`.

1. **A restart during a send takes the account out of service** (`channel_wedged`).
   `communication_service/runtime.py:259` explains that recovery moves interrupted deliveries
   to `RECONCILE_REQUIRED` because otherwise drain and cutover would be blocked for ever.
   `channel_drain_facts` counts `RECONCILE_REQUIRED` as unresolved, the coordinator demands
   zero, and nothing in the repository reconciles a delivery: no epoch gives the account a
   lease again.
2. **A batch that is cut loses its rest** (`wechat_batch`). `wechat_inbound.py:449`: a
   batch is persisted "before exposing its final external cursor". Each checkpoint inside
   the batch carries that cursor, and the next poll uses it. What the cursor passed and the
   inbox does not have is always the rest of such a batch (`LedgersAgree`).
3. **A crash can leave a result that blocks the queue** (`MCGatewayCrashQueue`).
   `orchestration.py:2474`: a crash after the terminal transition "must not wedge the
   queue". The sweep retires the head but does not release the generation. Recovery
   needs an ACTIVE session row, so no instance ever takes the generation over;
   `_load_payload` then refuses its recorded result on the epoch at every turn, and
   `dispatch_next` comes before `claim_next`: the promoted head is never claimed.
4. **So can a cancellation during the call** (`MCGatewayCancelQueue`;
   `desktop_api.py:1174`). The result is recorded, `_finalize` raises on the cancelled
   generation at every turn, ahead of `claim_next`.
5. **An abandoned intent is never settled** (`MCGatewayCancelledIntent`).
   `delivery_outbox.py:430` says it is settled as AMBIGUOUS instead of looping at every
   lease expiry. `mark_expired_outbox_ambiguous` raises without a boundary, and in any
   case right after the claim was renewed; the exception is swallowed and the record is
   claimed again.
6. **A recovered execution is not executed again** (`MCGatewayReexecution`;
   `orchestration.py:2519`). `_initialize` meets the snapshot of the first execution,
   which has another time, and the store reports a conflict.
7. **A clock that is set back turns an unknown outcome into a known one**
   (`MCWechatClock`; `GATEWAY_REFACTOR_PLAN.md:366`). A part receipt refuses
   `finished_at_ms < started_at_ms` with a `ValueError`, and the server answers every
   `ValueError` as a malformed request with `outcome_unknown` false, also when segments
   were accepted.
8. **A raised fence does not stop grants** (`MCEffectFence`). `store.py:9096`: with the fence
   raised, new admissions and dispatches are zero at once. A sub effect is admitted
   against the epoch its caller read a moment before (`omni_grant_authority.py:3163`), whatever
   it is, so that an execution that is still running goes on getting grants.
9. **An unknown result is not "unreconciled"** (`MCEffectReady`). `action_ready` is meant to
   be false while attempts are not reconciled (`total_gateway/runtime.py:721`).
   `complete_effect` overwrites the attempt with `AMBIGUOUS`, which
   `count_unreconciled_attempts` does not count.

10. **Zero traffic does not wait for the reconciliation** (`MCEffectZero`). `store.py:9606`:
    before every unreconciled attempt is cleared, zero traffic must not be declared. The
    in-flight count is of permits only, and an effect that is closed as AMBIGUOUS, or marked
    `RECONCILE_REQUIRED`, gives its permit back: the fence drains with the outcome unknown.
11. **The contract epoch may be activated over a running thread** (`MCEffectQuiet`).
    `activate_execution_contract_epoch` (`store.py:9018`) demands a raised fence, no permit
    in flight and a disposition of every effect that is not terminal. An execution has no
    permit, and a tool call whose result the watchdog wrote has given its own back; when
    such an effect is reconciled as APPLIED while its thread still runs, all three hold.
    `ZeroTrafficIsQuiet` says that this is the only way.
12. **A send may enter the gate after the hand-over** (`MCChannelLate`).
    `ChannelAuthorityGate` pins the channel's effects to one epoch (`channel_authority.py:27`).
    The dispatcher reads the time (`delivery_dispatcher.py:92`), verifies the ticket, and
    presents the gate the time it read: one that was stalled in between enters under the
    lease of the old epoch, if no one has made the gate drop it, when the candidate of the
    next one is already active. So does `notify_start` with the time of its flush. Polls and
    forwards cannot (`NoForeignOperation`). It takes two processes: in the embedded
    deployment the sender dies with the old epoch.

Two exceptions that the passing properties name are worth knowing too: a message that was
decided but not persisted when the process died blocks its account (`HeadBlocked`, it
conflicts with its own decision at every poll); and a lease that expired before its renewal is not
renewable and its epoch never serves the account again (`LeaseMissed`). `PermitsDrain` names
two kinds of steps whose permit does not come back by itself: one whose facts could not be
recorded or whose release failed waits for the next start (`WaitsForRestart`), and the start
overlooks one that was marked `RECONCILE_REQUIRED` after it had timed out (`Overlooked`): its
attempt is neither terminal nor its head started, so that the fence never drains.

The passing runs show how far these go: with the same restarts and cancellations nothing is
sent twice and no verdict is false (`gateway_safety`); heads are retired, and it is the
generation and the result behind them that stay.

## 7. What is not modelled

- Signatures, digests, canonical encodings and schema checks: they come before the
  modelled decisions, and a failed one rejects the operation without a change.
- In `DeliveryLedger`: the part-stage and transfer-progress tables.
- In `AggregateState`: `attach_life_event_outbox` (`store.py` 6542-6630), which adds the rows of
  a life event in a transaction of its own and touches no snapshot and no event.
- In `GatewayDelivery`: composition, learning and regenerative execution (one call with
  its outcomes), the verification plans of the completion gate, object staging, and the
  other desktop endpoints. The thread pool, the watchdog and a backend call that starts or ends
  after its worker has left it are in `EffectLedger`.
- In `WechatDelivery`: the channel lease around an operation (it is in `ChannelCutover`), and
  the structure of the text.
- In `ChannelCutover`: `begin_drain` and `abort_drain` of the gate, which nothing calls; the
  Feishu worker; several accounts in one round (a failing one ends the round for all, and
  the next round begins with the same).
- In `WechatIngress`: attachments of a message, a raw payload that is the same in two
  polls although what it was polled with differs, and a change of the credentials.
- In `EffectLedger`: `continue_effect_after_pna`, which nothing calls, further attempts of a
  claim, the execution event journal, repair executions, and the consumption of a handler's
  permit by its worker process.
- Instance lease, keys, object store, verification plane, attachments, login, Feishu,
  file sender, life service, world understanding, omni body, skills, desktop application:
  `PROJECT.json` gives the reason for each.
- Most of the 416,000 lines of the repository are outside of any such model: prompts,
  language-model and tool glue, file formats, schemas and their validation, HTML and Electron
  code, and complete copies of packages (`app/life-service/runtime314` repeats
  `src/life_service`). The modules cover the code that keeps durable state and coordinates
  threads and services on the path of a message; their share of the lines is small by
  nature of the repository.

## 8. Plan

The safety part of the modelled components is proved. What is left, in this order:

1. Stronger statements about what is modelled: what a restart of the gateway may lose
   (`RequestInv` says what it may not), and the exact set of heads that can be blocked
   (6.3, 6.4), as invariants.
2. The part stages and the transfer progress of the delivery ledger, then the WeChat
   file sender and the Feishu sender over it, against the same `Truthful`.
3. The consume-once table of omni grants; the writer epoch and the replay of the life
   store.
