---------------------------- MODULE EffectLedger ----------------------------
(***************************************************************************)
(* The gateway's effect ledger, its dispatch permits and the action fence  *)
(* (store.py), with the callers that drive them.                           *)
(*                                                                         *)
(*   "execution"  the call of the backend for a request; made by the one   *)
(*                orchestration worker, started by mark_effect_started     *)
(*   "chain"      a tool call of the loop of an execution; started under a *)
(*                dispatch permit (regenerative_provider.py)               *)
(*   "step"       a step of a composition plan; made by the worker under a *)
(*                permit once its execution has succeeded                  *)
(*                (composition_step_execution.py)                          *)
(*   "sub"        an effect a running execution is granted in one          *)
(*                transaction (admit_sub_effect)                           *)
(*                                                                         *)
(* Every operation of the store is one transaction.  Handlers run in       *)
(* threads of the gateway and die with it; a caller that gives up on one   *)
(* does not stop it: the tool calls of a loop run next to each other, and  *)
(* go on when a deadline has ended the loop.  What a handler reports is    *)
(* true.                                                                   *)
(***************************************************************************)
EXTENDS Naturals, FiniteSets

CONSTANTS
    Effect, KindOf,
    ParentOf,     \* the execution a chain, step or sub effect belongs to
    MaxFence,     \* bound: how often the fence is raised
    MaxCrashes,   \* bound: restarts of the gateway
    MaxReconciled, \* bound: how many effects are reconciled
    Reconcilable  \* bound: the effects among which they are

ASSUME EffectAssumption ==
    /\ KindOf \in [Effect -> {"execution", "chain", "step", "sub"}]
    /\ ParentOf \in [Effect -> Effect]
    /\ \A e \in Effect : KindOf[ParentOf[e]] = "execution"
    /\ \A e \in Effect : KindOf[e] = "execution" => ParentOf[e] = e
    /\ IsFiniteSet(Effect)
    /\ MaxFence \in Nat /\ MaxCrashes \in Nat /\ MaxReconciled \in Nat
    /\ Reconcilable \subseteq Effect

Executions == {e \in Effect : KindOf[e] = "execution"}
Chains == {e \in Effect : KindOf[e] = "chain"}
Steps == {e \in Effect : KindOf[e] = "step"}
Subs == {e \in Effect : KindOf[e] = "sub"}
Permitted == Chains \cup Steps
Called == Executions \cup Steps      \* the worker's own calls
PlanParents == {ParentOf[e] : e \in Steps}   \* executions bound to a plan
Recorded == Effect \ Subs            \* effects whose result is recorded

Open == {"CLAIMED", "SIDE_EFFECT_STARTED"}
Status == {"SUCCEEDED", "FAILED_FINAL", "AMBIGUOUS"}
Verdict == {"INCONCLUSIVE", "APPLIED", "PROVEN_NOT_APPLIED"}
AttemptState == {"NONE", "RECONCILE_REQUIRED", "RECONCILED"} \cup Open \cup Status

VARIABLES
    head,       \* effect_ledger.state
    attempt,    \* effect_attempts.state of the attempt of the claim
    verdict,    \* latest_effect_verdict
    permit,     \* the DISPATCH_PERMIT fact and its row in dispatch_permit_release
    fence,      \* table action_fence
    contract,   \* is there a row in execution_contract_epoch?
    revoked,    \* the executions whose request generation is no longer ACTIVE
    batch,      \* the result in the execution fact ledger
    applied,    \* what really happened: has a tool call or step taken effect?
    caller,     \* where the caller of the effect is (volatile)
    seen,       \* the fence epoch the caller of a sub effect has read (volatile)
    handler,    \* volatile
    phase,      \* start() of the worker, or "run"
    crashes

ledger == <<head, attempt, verdict, permit>>
store == <<ledger, fence, contract, revoked, batch>>
volatile == <<caller, seen, handler>>
vars == <<store, applied, volatile, phase, crashes>>

Fence == [epoch : 0 .. MaxFence, draining : BOOLEAN, inflight : 0 .. Cardinality(Effect)]

TypeOK ==
    /\ head \in [Effect -> {"NONE"} \cup Open \cup Status]
    /\ attempt \in [Effect -> AttemptState]
    /\ verdict \in [Effect -> {"NONE"} \cup Verdict]
    /\ permit \in [Effect -> {"none", "open", "released"}]
    /\ fence \in Fence
    /\ contract \in BOOLEAN
    /\ revoked \subseteq Executions
    /\ batch \in [Effect -> {"NONE"} \cup Status]
    /\ applied \in [Effect -> BOOLEAN]
    /\ caller \in [Effect -> {"idle", "ready", "left", "waiting", "recorded", "timedout", "done"}]
    /\ seen \in [Effect -> 0 .. MaxFence]
    /\ handler \in [Effect -> {"none", "running", "ended"}]
    /\ phase \in {"permits", "steps", "attempts", "heads", "run"}
    /\ crashes \in 0 .. MaxCrashes

Init ==
    /\ head = [e \in Effect |-> "NONE"]
    /\ attempt = [e \in Effect |-> "NONE"]
    /\ verdict = [e \in Effect |-> "NONE"]
    /\ permit = [e \in Effect |-> "none"]
    /\ fence = [epoch |-> 0, draining |-> FALSE, inflight |-> 0]
    /\ contract = FALSE
    /\ revoked = {}
    /\ batch = [e \in Effect |-> "NONE"]
    /\ applied = [e \in Effect |-> FALSE]
    /\ caller = [e \in Effect |-> "idle"]
    /\ seen = [e \in Effect |-> 0]
    /\ handler = [e \in Effect |-> "none"]
    /\ phase = "run"
    /\ crashes = 0

At(e, pc) == phase = "run" /\ caller[e] = pc
Goto(e, pc) == caller' = [caller EXCEPT ![e] = pc]

(* The worker is in one call at a time; it leaves a call that timed out.    *)
WorkerFree ==
    \A e \in Called : caller[e] \notin {"ready", "waiting", "recorded"}

(* A tool thread exists once the loop of its execution has run.  Nothing    *)
(* keeps the loop waiting for it, and it may make its call after the end.   *)
ToolThread(e) == handler[ParentOf[e]] # "none"

(* _identity: every operation of a tool call wants an ACTIVE generation.    *)
Active(e) == ParentOf[e] \notin revoked

MayCall(e) ==
    CASE e \in Executions -> WorkerFree
      [] e \in Steps -> WorkerFree /\ head[ParentOf[e]] = "SUCCEEDED"
      [] e \in Chains -> ToolThread(e) /\ Active(e)
      [] OTHER -> ToolThread(e)

-----------------------------------------------------------------------------
(* The operations of the store.                                             *)

(* A permit is given back once, with its row; the count is clamped at zero  *)
(* and the fence has drained when it gets there.                            *)
DecrementInflight ==
    fence' = IF fence.inflight = 0 THEN fence
             ELSE [fence EXCEPT !.inflight = @ - 1,
                                !.draining = @ /\ fence.inflight > 1]
Return(e) == permit' = [permit EXCEPT ![e] = "released"] /\ DecrementInflight

(* complete_effect: the first result wins.                                  *)
(* Mutant of MayComplete: an effect that was not started may be ambiguous.  *)
MayCompleteUnstarted(e, status) ==
    head[e] \in Open /\ (status = "SUCCEEDED" => head[e] = "SIDE_EFFECT_STARTED")
MayComplete(e, status) ==
    head[e] \in Open /\ (status # "FAILED_FINAL" => head[e] = "SIDE_EFFECT_STARTED")

(* Mutant of Settle: a result gives back a permit whether there is one or   *)
(* not.                                                                     *)
SettleWithoutPermit(e, retain) ==
    IF retain THEN UNCHANGED <<permit, fence>> ELSE Return(e)
Settle(e, retain) ==
    IF permit[e] = "open" /\ ~retain THEN Return(e) ELSE UNCHANGED <<permit, fence>>
Complete(e, status, retain) ==
    /\ MayComplete(e, status)
    /\ head' = [head EXCEPT ![e] = status]
    /\ attempt' = [attempt EXCEPT ![e] = status]
    /\ Settle(e, retain)
    /\ UNCHANGED <<verdict, contract, revoked>>

(* The epoch that the claim or the ticket of an effect is bound to must be  *)
(* the current one, and zero: then it was zero when it was bound.           *)
FenceOpen == fence.epoch = 0 /\ ~fence.draining

(* The attempt follows unless a reconciliation has moved it.                *)
Start(e) ==
    /\ head' = [head EXCEPT ![e] = "SIDE_EFFECT_STARTED"]
    /\ attempt' = [attempt EXCEPT ![e] = IF @ = "CLAIMED" THEN "SIDE_EFFECT_STARTED" ELSE @]
    /\ handler' = [handler EXCEPT ![e] = "running"]

-----------------------------------------------------------------------------
(* The callers.                                                             *)

ClaimEffect(e) ==
    /\ At(e, "idle") /\ e \in Recorded /\ MayCall(e) /\ head[e] = "NONE"
    /\ head' = [head EXCEPT ![e] = "CLAIMED"]
    /\ attempt' = [attempt EXCEPT ![e] = "CLAIMED"]
    /\ Goto(e, "ready")
    /\ UNCHANGED <<verdict, permit, fence, contract, revoked, batch, applied, seen, handler, phase, crashes>>

(* A step that was claimed before a restart is dispatched again; its claim  *)
(* is returned unchanged.                                                   *)
ClaimAgain(e) ==
    /\ At(e, "idle") /\ e \in Steps /\ MayCall(e) /\ head[e] = "CLAIMED"
    /\ Goto(e, "ready")
    /\ UNCHANGED <<store, applied, seen, handler, phase, crashes>>

(* The worker gives up on an execution whose pool thread has not started it *)
(* yet: complete_effect refuses AMBIGUOUS, and the claim stays open.        *)
LeaveUnstarted(e) ==
    /\ At(e, "ready") /\ e \in Executions /\ head[e] = "CLAIMED"
    /\ Goto(e, "left")
    /\ UNCHANGED <<store, applied, seen, handler, phase, crashes>>

(* The pool thread starts the execution, also after the worker has left.    *)
MarkEffectStarted(e) ==
    /\ At(e, "ready") \/ At(e, "left")
    /\ e \in Executions /\ head[e] = "CLAIMED"
    /\ FenceOpen
    /\ Start(e)
    /\ Goto(e, IF caller[e] = "left" THEN "done" ELSE "waiting")
    /\ UNCHANGED <<verdict, permit, fence, contract, revoked, batch, applied, seen, phase, crashes>>

AcquireDispatchPermit(e) ==
    /\ At(e, "ready") /\ e \in Permitted /\ attempt[e] = "CLAIMED" /\ head[e] = "CLAIMED"
    /\ FenceOpen /\ Active(e)
    /\ Start(e)
    /\ Goto(e, "waiting")
    /\ permit' = [permit EXCEPT ![e] = "open"]
    /\ fence' = [fence EXCEPT !.inflight = @ + 1]
    /\ UNCHANGED <<verdict, contract, revoked, batch, applied, seen, phase, crashes>>

(* The boundary refuses: the fence, the generation or another check.  The   *)
(* worker records that nothing happened; a tool thread leaves the claim.    *)
DispatchRefused(e) ==
    /\ At(e, "ready") /\ e \in Recorded
    /\ Goto(e, "done")
    /\ \/ e \in Chains /\ UNCHANGED <<ledger, fence, contract, revoked>>
       \/ e \in Called /\ Complete(e, "FAILED_FINAL", FALSE)
    /\ UNCHANGED <<batch, applied, seen, handler, phase, crashes>>

(* _recover: a resumed run closes the tool calls that have no result.  It   *)
(* is resumed after a restart, or in the same process when the worker has   *)
(* left it and its lease ran out: then tool threads may still be there.     *)
ResumeRun(e) ==
    /\ phase = "run" /\ e \in Chains /\ Active(e)
    /\ caller[ParentOf[e]] \in {"idle", "left", "done"}
    /\ Complete(e, IF head[e] = "CLAIMED" THEN "FAILED_FINAL" ELSE "AMBIGUOUS", FALSE)
    /\ UNCHANGED <<batch, applied, volatile, phase, crashes>>

ReadFence(e) ==
    /\ At(e, "idle") /\ e \in Subs /\ MayCall(e) /\ head[e] = "NONE"
    /\ seen' = [seen EXCEPT ![e] = fence.epoch]
    /\ Goto(e, "ready")
    /\ UNCHANGED <<store, applied, handler, phase, crashes>>

(* Claim, start and result in one transaction; the grant is then used.      *)
AdmitSubEffect(e) ==
    /\ At(e, "ready") /\ e \in Subs /\ fence.epoch = seen[e]
    /\ head' = [head EXCEPT ![e] = "SUCCEEDED"]
    /\ attempt' = [attempt EXCEPT ![e] = "SUCCEEDED"]
    /\ handler' = [handler EXCEPT ![e] = "running"]
    /\ seen' = [seen EXCEPT ![e] = 0]
    /\ Goto(e, "waiting")
    /\ UNCHANGED <<verdict, permit, fence, contract, revoked, batch, applied, phase, crashes>>

AdmissionRefused(e) ==
    /\ At(e, "ready") /\ e \in Subs /\ fence.epoch # seen[e]
    /\ seen' = [seen EXCEPT ![e] = 0]
    /\ Goto(e, "done")
    /\ UNCHANGED <<store, applied, handler, phase, crashes>>

(* The handler takes effect, at any time while it runs, and ends.  (An      *)
(* execution takes effect through its tool calls, and what a sub effect     *)
(* does is not recorded anywhere.)                                          *)
HandlerApplies(e) ==
    /\ handler[e] = "running" /\ ~applied[e] /\ e \in Permitted
    /\ applied' = [applied EXCEPT ![e] = TRUE]
    /\ UNCHANGED <<store, volatile, phase, crashes>>
HandlerEnds(e) ==
    /\ handler[e] = "running" /\ e \notin Executions
    /\ handler' = [handler EXCEPT ![e] = "ended"]
    /\ IF e \in Subs THEN Goto(e, "done") ELSE UNCHANGED caller
    /\ UNCHANGED <<store, applied, seen, phase, crashes>>

(* The tool loop ends and the execution returns: when it is done, or when a *)
(* deadline has passed, and then with tool calls that still run.            *)
ExecutionEnds(x) ==
    /\ handler[x] = "running" /\ x \in Executions
    /\ handler' = [handler EXCEPT ![x] = "ended"]
    /\ UNCHANGED <<store, applied, caller, seen, phase, crashes>>

(* What the handler reported: its outcome, or that it does not know.        *)
Reported(e) ==
    {"AMBIGUOUS"} \cup {st \in {"SUCCEEDED", "FAILED_FINAL"} :
                          e \in Permitted => (applied[e] <=> st = "SUCCEEDED")}

(* finish_effect of a tool call.  A result that the watchdog or a resumed   *)
(* run wrote first stays.                                                   *)
FinishEffect(e) ==
    /\ At(e, "waiting") /\ e \in Chains /\ handler[e] = "ended" /\ Active(e)
    /\ Goto(e, "done")
    /\ \/ head[e] = "SIDE_EFFECT_STARTED" /\ \E st \in Reported(e) : Complete(e, st, FALSE)
       \/ head[e] = "AMBIGUOUS" /\ UNCHANGED <<ledger, fence, contract, revoked>>
    /\ UNCHANGED <<batch, applied, seen, handler, phase, crashes>>

(* append_event or finish_effect refuses a call whose generation has been   *)
(* cancelled or released: the head stays started, the permit open.          *)
FinishRefused(e) ==
    /\ At(e, "waiting") /\ e \in Chains /\ handler[e] = "ended" /\ ~Active(e)
    /\ Goto(e, "done")
    /\ UNCHANGED <<store, applied, seen, handler, phase, crashes>>

(* record_execution, then complete_effect: two stores, two transactions.    *)
(* When record_execution raises, its facts may be there all the same.       *)
RecordExecution(e) ==
    /\ At(e, "waiting") /\ e \in Called /\ handler[e] = "ended"
    /\ \E st \in Reported(e) : batch' = [batch EXCEPT ![e] = st]
    /\ Goto(e, "recorded")
    /\ UNCHANGED <<ledger, fence, contract, revoked, applied, seen, handler, phase, crashes>>
RecordRaises(e) ==
    /\ At(e, "waiting") /\ e \in Called /\ handler[e] = "ended"
    /\ batch' = batch \/ \E st \in Reported(e) : batch' = [batch EXCEPT ![e] = st]
    /\ Goto(e, "done")
    /\ UNCHANGED <<ledger, fence, contract, revoked, applied, seen, handler, phase, crashes>>
CompleteEffect(e) ==
    /\ At(e, "recorded")
    /\ Goto(e, "done")
    /\ Complete(e, batch[e], FALSE)
    /\ UNCHANGED <<batch, applied, seen, handler, phase, crashes>>

(* The call raises after the boundary: the result is ambiguous.  A step     *)
(* whose handler still runs keeps its permit until the handler has ended.   *)
(* Mutant of Retains: the permit is given back with the result.             *)
RetainsNothing(e) == FALSE
Retains(e) == e \in Steps /\ handler[e] = "running"
CallRaises(e) ==
    /\ At(e, "waiting") /\ e \in Called
    /\ Complete(e, "AMBIGUOUS", Retains(e))
    /\ Goto(e, IF Retains(e) THEN "timedout" ELSE "done")
    /\ UNCHANGED <<batch, applied, seen, handler, phase, crashes>>
ReleaseAfterTransport(e) ==
    /\ At(e, "timedout") /\ handler[e] = "ended" /\ permit[e] = "open"
    /\ Return(e)
    /\ Goto(e, "done")
    /\ UNCHANGED <<head, attempt, verdict, contract, revoked, batch, applied, seen, handler, phase, crashes>>

(* The callback swallows the failure of the release; the permit is left to  *)
(* the next start of the gateway.                                           *)
ReleaseFails(e) ==
    /\ At(e, "timedout") /\ handler[e] = "ended"
    /\ Goto(e, "done")
    /\ UNCHANGED <<store, applied, seen, handler, phase, crashes>>

(* _reconcile_stale_effects, once the window has passed.  It leaves the     *)
(* steps, and the executions that are bound to a plan.                      *)
Generic == Effect \ (Steps \cup PlanParents)
ReconcileStale(e) ==
    /\ phase = "run" /\ e \in Generic /\ WorkerFree
    /\ Complete(e, "AMBIGUOUS", FALSE)
    /\ UNCHANGED <<batch, applied, volatile, phase, crashes>>

(* An execution that is bound to a plan is closed by the resumed request:   *)
(* from its fact, or as unknown, or as never started.                       *)
ResumeParent(x) ==
    /\ phase = "run" /\ x \in PlanParents /\ WorkerFree /\ Active(x)
    /\ batch[x] \in {"NONE", "SUCCEEDED"}
    /\ Complete(x, IF batch[x] = "SUCCEEDED" THEN "SUCCEEDED"
                   ELSE IF head[x] = "CLAIMED" THEN "FAILED_FINAL" ELSE "AMBIGUOUS", FALSE)
    /\ UNCHANGED <<batch, applied, volatile, phase, crashes>>

(* The exact fact of a step that is still started completes it, in a live   *)
(* request and at the start of the worker.                                  *)
RecoverFromFact(e) ==
    /\ phase = "run" /\ WorkerFree /\ e \in Steps
    /\ head[e] = "SIDE_EFFECT_STARTED" /\ batch[e] # "NONE"
    /\ Complete(e, batch[e], FALSE)
    /\ UNCHANGED <<batch, applied, volatile, phase, crashes>>

-----------------------------------------------------------------------------
(* The operator: fence, contract epoch, reconciliation.                     *)

IncrementActionFence ==
    /\ fence.epoch < MaxFence
    /\ fence' = [fence EXCEPT !.epoch = @ + 1, !.draining = TRUE]
    /\ UNCHANGED <<ledger, contract, revoked, batch, applied, volatile, phase, crashes>>

ActivateExecutionContractEpoch ==
    /\ fence.epoch # 0 /\ fence.inflight = 0 /\ ~contract
    /\ \A e \in Effect : attempt[e] \in {"NONE", "SUCCEEDED", "FAILED_FINAL", "RECONCILED"}
    /\ contract' = TRUE
    /\ fence' = [fence EXCEPT !.draining = FALSE]
    /\ UNCHANGED <<ledger, revoked, batch, applied, volatile, phase, crashes>>

(* cancel_generation, or the release when the request is settled.           *)
GenerationEnds(x) ==
    /\ phase = "run" /\ x \in Executions \ revoked
    /\ revoked' = revoked \cup {x}
    /\ UNCHANGED <<ledger, fence, contract, batch, applied, volatile, phase, crashes>>

(* record_effect_reconciliation, of any attempt of the run, whatever its    *)
(* state.  Of a tool call or a step the evidence is true when it is taken.  *)
Evidence(e) ==
    IF e \notin Permitted THEN Verdict
    ELSE {"INCONCLUSIVE", IF applied[e] THEN "APPLIED" ELSE "PROVEN_NOT_APPLIED"}
RecordReconciliation(e, v) ==
    /\ e \in Reconcilable
    /\ Cardinality({d \in Effect : verdict[d] # "NONE"} \cup {e}) <= MaxReconciled
    /\ phase = "run" /\ Active(e) /\ attempt[e] # "NONE"
    /\ v \in Evidence(e)
    /\ verdict[e] # "APPLIED"
    /\ verdict[e] = "PROVEN_NOT_APPLIED" => v = "APPLIED"
    /\ verdict' = [verdict EXCEPT ![e] = v]
    /\ attempt' = [attempt EXCEPT ![e] =
                       IF v = "APPLIED" THEN "RECONCILED" ELSE "RECONCILE_REQUIRED"]
    /\ UNCHANGED <<head, permit, fence, contract, revoked, batch, applied, volatile, phase, crashes>>

-----------------------------------------------------------------------------
(* Restart: start() of the worker goes through four passes.                 *)

Crash ==
    /\ crashes < MaxCrashes
    /\ crashes' = crashes + 1
    /\ phase' = "permits"
    /\ caller' = [e \in Effect |-> "idle"]
    /\ seen' = [e \in Effect |-> 0]
    /\ handler' = [e \in Effect |-> "none"]
    /\ UNCHANGED <<store, applied>>

(* recover_terminal_dispatch_permits, of the steps only.                    *)
(* Mutant of TerminalWithPermit: an ambiguous attempt is not terminal.      *)
SettledWithPermit ==
    {e \in Steps : permit[e] = "open" /\ attempt[e] \in {"SUCCEEDED", "FAILED_FINAL"}}
TerminalWithPermit ==
    {e \in Steps : permit[e] = "open" /\ attempt[e] \in Status \cup {"RECONCILED"}}
RecoverPermit(e) ==
    /\ phase = "permits" /\ e \in TerminalWithPermit
    /\ Return(e)
    /\ UNCHANGED <<head, attempt, verdict, contract, revoked, batch, applied, volatile, phase, crashes>>

StartedSteps == {e \in Steps : head[e] = "SIDE_EFFECT_STARTED"}
RecoverStep(e) ==
    /\ phase = "steps" /\ e \in StartedSteps
    /\ Complete(e, IF batch[e] = "NONE" THEN "AMBIGUOUS" ELSE batch[e], FALSE)
    /\ UNCHANGED <<batch, applied, volatile, phase, crashes>>

(* recover_started_attempts and recover_started_effects leave the steps to  *)
(* the passes above, and the parents of plans to the resumed request.       *)
StartedAttempts == {e \in Generic : attempt[e] = "SIDE_EFFECT_STARTED"}
RecoverAttempt(e) ==
    /\ phase = "attempts" /\ e \in StartedAttempts
    /\ attempt' = [attempt EXCEPT ![e] = "RECONCILE_REQUIRED"]
    /\ verdict' = [verdict EXCEPT ![e] = "INCONCLUSIVE"]
    /\ UNCHANGED <<head, permit, fence, contract, revoked, batch, applied, volatile, phase, crashes>>

(* Mutant of RecoveredStatus: every effect is closed as the wrapper is.     *)
RecoveredFailed(e) == "FAILED_FINAL"
RecoveredStatus(e) == IF e \in Executions THEN "FAILED_FINAL" ELSE "AMBIGUOUS"
StartedHeads == {e \in Generic : head[e] = "SIDE_EFFECT_STARTED"}
RecoverHead(e) ==
    /\ phase = "heads" /\ e \in StartedHeads
    /\ Complete(e, RecoveredStatus(e), FALSE)
    /\ UNCHANGED <<batch, applied, volatile, phase, crashes>>

NextPhase ==
    /\ phase # "run"
    /\ phase' = CASE phase = "permits" -> "steps" [] phase = "steps" -> "attempts"
                  [] phase = "attempts" -> "heads" [] OTHER -> "run"
    /\ phase = "permits" => TerminalWithPermit = {}
    /\ phase = "steps" => StartedSteps = {}
    /\ phase = "attempts" => StartedAttempts = {}
    /\ phase = "heads" => StartedHeads = {}
    /\ UNCHANGED <<store, applied, volatile, crashes>>

-----------------------------------------------------------------------------
Dispatch(e) ==
    \/ ClaimEffect(e) \/ ClaimAgain(e) \/ LeaveUnstarted(e) \/ MarkEffectStarted(e)
    \/ AcquireDispatchPermit(e)
    \/ DispatchRefused(e) \/ ReadFence(e) \/ AdmitSubEffect(e) \/ AdmissionRefused(e)
Finish(e) ==
    \/ FinishEffect(e) \/ FinishRefused(e)
    \/ RecordExecution(e) \/ RecordRaises(e) \/ CompleteEffect(e) \/ CallRaises(e)
    \/ ReleaseAfterTransport(e) \/ ReleaseFails(e)
Recover(e) == RecoverPermit(e) \/ RecoverStep(e) \/ RecoverAttempt(e) \/ RecoverHead(e)
Reconcile(e) ==
    ResumeRun(e) \/ ReconcileStale(e) \/ ResumeParent(e) \/ RecoverFromFact(e)
Operator ==
    \/ IncrementActionFence \/ ActivateExecutionContractEpoch
    \/ \E x \in Effect : GenerationEnds(x)
    \/ \E e \in Effect, v \in Verdict : RecordReconciliation(e, v)

Next ==
    \/ \E e \in Effect :
        \/ Dispatch(e) \/ Finish(e) \/ Recover(e) \/ Reconcile(e)
        \/ HandlerApplies(e) \/ HandlerEnds(e) \/ ExecutionEnds(e)
    \/ NextPhase \/ Operator \/ Crash

Spec == Init /\ [][Next]_vars

(* The worker leaves every call, at the latest when it times out, and its   *)
(* loop runs the watchdog between two requests; the handler of a step comes *)
(* to an end; and start() goes through its passes.  Nothing is assumed of   *)
(* the tool threads.                                                        *)
WorkerGoesOn ==
    \E e \in Called :
        \/ LeaveUnstarted(e) \/ MarkEffectStarted(e) \/ AcquireDispatchPermit(e)
        \/ DispatchRefused(e) \/ RecordExecution(e) \/ RecordRaises(e)
        \/ CompleteEffect(e) \/ CallRaises(e)
FairSpec ==
    /\ Spec
    /\ WF_vars(WorkerGoesOn)
    /\ \A e \in Chains : SF_vars(ReconcileStale(e))
    /\ \A e \in Steps : WF_vars(HandlerEnds(e) \/ ReleaseAfterTransport(e) \/ ReleaseFails(e))
    /\ WF_vars(NextPhase \/ \E e \in Effect : Recover(e))

-----------------------------------------------------------------------------
(* Properties.                                                              *)

(* inflight_count is the number of permits that were given and not given    *)
(* back, over results, late handlers, restarts and recoveries: the clamp at *)
(* zero is never needed, and no result takes the count of another effect.   *)
InflightIsOpenPermits ==
    fence.inflight = Cardinality({e \in Effect : permit[e] = "open"})

(* The tables fit together after every transaction.                         *)
LedgerConsistent == TypeOK /\ InflightIsOpenPermits

(* action_fence_status.                                                     *)
ZeroTrafficDeclared == fence.epoch > 0 /\ fence.inflight = 0 /\ ~fence.draining

(* When zero traffic is declared, and once the contract epoch is active, no *)
(* step is running, also one that its caller has given up on; and the only  *)
(* executions and tool calls that can still run behind the contract epoch   *)
(* are those that were reconciled as APPLIED while they ran.                *)
ZeroTrafficIsQuiet ==
    /\ ZeroTrafficDeclared \/ contract => \A e \in Steps : handler[e] # "running"
    /\ contract => \A e \in Recorded : handler[e] = "running" => verdict[e] = "APPLIED"

(* The result in the ledger is what happened, whoever wrote it: the caller, *)
(* the watchdog, or a recovery, in whatever order.                          *)
ResultIsTrue ==
    \A e \in Permitted :
        /\ head[e] = "SUCCEEDED" => applied[e]
        /\ head[e] = "FAILED_FINAL" => ~applied[e]

(* Every permit is given back, so that the fence can drain: by the result,  *)
(* by the watchdog when the result was refused or the thread never came     *)
(* back, by the handler that ends late, or by the recovery.  Two kinds of   *)
(* steps are left: one whose facts could not be recorded or whose release   *)
(* failed waits for a restart; and the restart overlooks one that was       *)
(* marked RECONCILE_REQUIRED after it had timed out.                        *)
WaitsForRestart(e) == e \in Steps /\ caller[e] = "done"
Overlooked(e) ==
    /\ e \in Steps /\ caller[e] = "idle" /\ phase = "run"
    /\ head[e] = "AMBIGUOUS" /\ verdict[e] # "NONE"
PermitsDrain ==
    \A e \in Permitted :
        permit[e] = "open" ~> permit[e] = "released" \/ WaitsForRestart(e) \/ Overlooked(e)

(* What an effect goes through is what EffectBoundary promises.             *)
PhaseOf(s) ==
    CASE s = "NONE" -> "absent" [] s = "CLAIMED" -> "claimed"
      [] s = "SIDE_EFFECT_STARTED" -> "crossed" [] s = "SUCCEEDED" -> "accepted"
      [] s = "FAILED_FINAL" -> "failed" [] OTHER -> "unknown"
Boundary == INSTANCE EffectBoundary WITH
    Effect <- Recorded,
    phase <- [e \in Recorded |-> PhaseOf(head[e])]
ImplementsBoundary == Boundary!EBSpec

(* increment_action_fence: nothing is admitted or dispatched any more.      *)
NothingStartsBehindFence ==
    [][\A e \in Effect : handler[e] = "none" /\ handler'[e] = "running" => fence.epoch = 0]_vars

(* count_unreconciled_attempts: an effect whose result is unknown is        *)
(* counted until it has a verdict.                                          *)
UnknownIsUnreconciled ==
    \A e \in Effect :
        head[e] = "AMBIGUOUS" /\ verdict[e] \notin {"APPLIED", "PROVEN_NOT_APPLIED"} =>
            attempt[e] \in {"SIDE_EFFECT_STARTED", "RECONCILE_REQUIRED"}

(* recover_started_attempts: zero traffic is not declared before every      *)
(* unreconciled attempt has been cleared.                                   *)
ZeroTrafficIsReconciled ==
    ZeroTrafficDeclared =>
        \A e \in Effect : attempt[e] \notin {"AMBIGUOUS", "RECONCILE_REQUIRED"}

(* activate_execution_contract_epoch: nothing runs behind the contract      *)
(* epoch.                                                                   *)
ContractIsQuiet == contract => \A e \in Recorded : handler[e] # "running"
=============================================================================
