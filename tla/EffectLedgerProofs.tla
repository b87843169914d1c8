------------------------- MODULE EffectLedgerProofs -------------------------
(***************************************************************************)
(* Proofs about EffectLedger, for every finite set of effects, however     *)
(* they belong together, and for any number of fences and restarts.        *)
(*                                                                         *)
(* None of the properties is inductive.  EffectInv adds, for one effect,   *)
(* what the callers rely on: a claim has no permit, no fact and no handler *)
(* behind it; a fact was recorded after the handler had ended; a running   *)
(* handler has a caller and a state that fit its kind; an attempt counts   *)
(* as reconciled only with the verdict APPLIED; and start() finds neither  *)
(* callers nor handlers.                                                   *)
(***************************************************************************)
EXTENDS EffectLedger, FiniteSetTheorems, TLAPS

(* Before the boundary there is nothing. *)
ClaimIsBare(e) ==
    head[e] \in {"NONE", "CLAIMED"} =>
        /\ permit[e] = "none" /\ batch[e] = "NONE"
        /\ ~applied[e] /\ handler[e] = "none"

(* The attempt follows the head unless a reconciliation has moved it. *)
AttemptFits(e) ==
    /\ head[e] = "CLAIMED" => attempt[e] \in {"CLAIMED", "RECONCILE_REQUIRED", "RECONCILED"}
    /\ attempt[e] = "RECONCILED" => verdict[e] = "APPLIED"

(* A fact is recorded when the handler has ended, and is what it reported. *)
FactIsTrue(e) ==
    /\ batch[e] # "NONE" => handler[e] # "running"
    /\ e \in Permitted => /\ batch[e] = "SUCCEEDED" => applied[e]
                          /\ batch[e] = "FAILED_FINAL" => ~applied[e]
    /\ caller[e] = "recorded" => batch[e] # "NONE"
    /\ e \in Subs => batch[e] = "NONE"

(* Who still waits for a running handler, and what the ledger says of it. *)
RunningFits(e) ==
    handler[e] = "running" /\ e \in Recorded =>
        /\ head[e] \in {"SIDE_EFFECT_STARTED", "AMBIGUOUS"}
        /\ e \in Steps => permit[e] = "open" /\ caller[e] \in {"waiting", "timedout"}
        /\ e \in Chains => caller[e] = "waiting"
        /\ attempt[e] \in {"SIDE_EFFECT_STARTED", "AMBIGUOUS", "RECONCILE_REQUIRED", "RECONCILED"}

(* A call that is not made yet, or was given up, has not started its effect. *)
NotAwaited(e) == caller[e] \in {"ready", "timedout"} => head[e] # "SIDE_EFFECT_STARTED"

(* start() begins with no thread. *)
NoThreads(e) == phase # "run" => handler[e] = "none" /\ caller[e] = "idle"

(* The result in the ledger is true, of one effect. *)
ResultFits(e) ==
    e \in Permitted => /\ head[e] = "SUCCEEDED" => applied[e]
                       /\ head[e] = "FAILED_FINAL" => ~applied[e]

EffectInv(e) ==
    /\ ClaimIsBare(e) /\ AttemptFits(e) /\ FactIsTrue(e) /\ RunningFits(e)
    /\ NotAwaited(e) /\ NoThreads(e) /\ ResultFits(e)

(* The contract epoch is activated behind a raised fence, with no permit     *)
(* open, and what still runs was reconciled as applied.                      *)
ContractHolds ==
    contract => /\ fence.epoch # 0 /\ fence.inflight = 0
                /\ \A e \in Recorded : handler[e] = "running" => verdict[e] = "APPLIED"

IInv ==
    /\ TypeOK /\ InflightIsOpenPermits
    /\ \A e \in Effect : EffectInv(e)
    /\ ContractHolds

-----------------------------------------------------------------------------
(* The types without the bound of the in-flight count, which follows from   *)
(* what it counts.                                                          *)
FenceRow == [epoch : 0 .. MaxFence, draining : BOOLEAN, inflight : Nat]
Types ==
    /\ head \in [Effect -> {"NONE"} \cup Open \cup Status]
    /\ attempt \in [Effect -> AttemptState]
    /\ verdict \in [Effect -> {"NONE"} \cup Verdict]
    /\ permit \in [Effect -> {"none", "open", "released"}]
    /\ fence \in FenceRow
    /\ contract \in BOOLEAN
    /\ revoked \subseteq Executions
    /\ batch \in [Effect -> {"NONE"} \cup Status]
    /\ applied \in [Effect -> BOOLEAN]
    /\ caller \in [Effect -> {"idle", "ready", "left", "waiting", "recorded", "timedout", "done"}]
    /\ seen \in [Effect -> 0 .. MaxFence]
    /\ handler \in [Effect -> {"none", "running", "ended"}]
    /\ phase \in {"permits", "steps", "attempts", "heads", "run"}
    /\ crashes \in 0 .. MaxCrashes

Rows == \A e \in Effect : EffectInv(e)
OpenPermits == {e \in Effect : permit[e] = "open"}

(* What a step may do to the permits: nothing, give one back, or give one    *)
(* that was never given before.  The count follows.                          *)
PermitStep(e) ==
    \/ permit' = permit /\ fence'.inflight = fence.inflight
    \/ /\ permit[e] = "open" /\ permit' = [permit EXCEPT ![e] = "released"]
       /\ fence'.inflight = IF fence.inflight = 0 THEN 0 ELSE fence.inflight - 1
    \/ /\ permit[e] = "none" /\ permit' = [permit EXCEPT ![e] = "open"]
       /\ fence'.inflight = fence.inflight + 1

(* Behind the contract epoch nothing starts, no permit is given, and a       *)
(* verdict that something was applied stays; nothing lowers the fence.       *)
QuietStep ==
    /\ fence.epoch # 0 => fence'.epoch # 0
    /\ contract /\ fence.epoch # 0 =>
        /\ fence.inflight = 0 => fence'.inflight = 0
        /\ \A e \in Recorded : handler'[e] = "running" =>
               handler[e] = "running" /\ (verdict[e] = "APPLIED" => verdict'[e] = "APPLIED")
    /\ contract' => \/ contract
                    \/ /\ fence'.epoch # 0 /\ fence'.inflight = 0
                       /\ \A e \in Recorded : handler'[e] = "running" => verdict'[e] = "APPLIED"

-----------------------------------------------------------------------------
(* The operations of the store.                                             *)

(* Only the clamped count and the draining flag change.                     *)
LEMMA DecrementShape ==
    ASSUME fence \in FenceRow, DecrementInflight
    PROVE  /\ fence' \in FenceRow /\ fence'.epoch = fence.epoch
           /\ fence'.inflight = IF fence.inflight = 0 THEN 0 ELSE fence.inflight - 1
  <1>1. CASE fence.inflight = 0
    BY <1>1 DEF DecrementInflight
  <1>2. CASE fence.inflight # 0
    <2> DEFINE d == fence.draining /\ fence.inflight > 1
    <2>1. d \in BOOLEAN
      OBVIOUS
    <2>2. fence' = [fence EXCEPT !.inflight = fence.inflight - 1, !.draining = d]
      BY <1>2 DEF DecrementInflight
    <2> HIDE DEF d
    <2>3. fence.inflight - 1 \in Nat
      BY <1>2 DEF FenceRow
    <2> QED
      BY <1>2, <2>1, <2>2, <2>3 DEF FenceRow
  <1> QED
    BY <1>1, <1>2

(* The whole transaction of complete_effect. *)
LEMMA CompleteShape ==
    ASSUME Types, NEW e \in Effect, NEW st, NEW retain, Complete(e, st, retain)
    PROVE  /\ head[e] \in Open /\ (st # "FAILED_FINAL" => head[e] = "SIDE_EFFECT_STARTED")
           /\ head' = [head EXCEPT ![e] = st] /\ attempt' = [attempt EXCEPT ![e] = st]
           /\ \/ /\ permit[e] = "open" /\ ~retain
                 /\ permit' = [permit EXCEPT ![e] = "released"]
                 /\ fence'.inflight = IF fence.inflight = 0 THEN 0 ELSE fence.inflight - 1
              \/ /\ permit[e] # "open" \/ retain
                 /\ permit' = permit /\ fence' = fence
           /\ fence' \in FenceRow /\ fence'.epoch = fence.epoch
           /\ verdict' = verdict /\ contract' = contract /\ revoked' = revoked
  <1>1. CASE permit[e] = "open" /\ ~retain
    BY <1>1, DecrementShape DEF Complete, MayComplete, Settle, Return, Types
  <1>2. CASE ~(permit[e] = "open" /\ ~retain)
    BY <1>2 DEF Complete, MayComplete, Settle, Types
  <1> QED
    BY <1>1, <1>2

(* What every caller of complete_effect must see to: it reports the truth,   *)
(* and what still runs is ambiguous, keeps the permit of a step and keeps    *)
(* the caller that waits for it.                                             *)
Responsible(e, st, retain) ==
    /\ st \in Status
    /\ e \in Permitted => (st = "SUCCEEDED" => applied[e]) /\ (st = "FAILED_FINAL" => ~applied[e])
    /\ handler[e] = "running" =>
        /\ st = "AMBIGUOUS"
        /\ e \in Steps => retain /\ caller'[e] = "timedout"
        /\ e \in Chains => caller' = caller
    /\ \/ caller' = caller
       \/ phase = "run" /\ \E pc \in {"done", "timedout"} : caller' = [caller EXCEPT ![e] = pc]
    /\ UNCHANGED <<batch, applied, seen, handler, phase, crashes>>

(* Writing a final status keeps types and rows when the writer may write it. *)
LEMMA CompleteKeeps ==
    ASSUME Types, Rows, NEW e \in Effect, NEW st, NEW retain,
           Complete(e, st, retain), Responsible(e, st, retain)
    PROVE  Types' /\ Rows' /\ PermitStep(e) /\ QuietStep
  <1>1. Types'
    BY CompleteShape DEF Types, Responsible, AttemptState, Open, Status
  <1>2. PermitStep(e)
    BY CompleteShape DEF PermitStep
  <1>3. QuietStep
    BY CompleteShape DEF QuietStep, Responsible
  <1>4. Rows'
    BY EffectAssumption, CompleteShape DEF Responsible, Types, Rows, EffectInv, ClaimIsBare,
       AttemptFits, FactIsTrue, RunningFits, NotAwaited, NoThreads,
       ResultFits, Open, Status, Executions, Chains, Steps, Subs, Permitted, Called, Recorded
  <1> QED
    BY <1>1, <1>2, <1>3, <1>4

(* A caller that goes on, with nothing running behind it. *)
LEMMA QuietCaller ==
    ASSUME Types, Rows, NEW e \in Effect, phase = "run", handler[e] # "running",
           caller' = [caller EXCEPT ![e] = "done"],
           UNCHANGED <<head, attempt, verdict, permit, fence, contract, revoked, batch, applied, seen,
                       handler, phase, crashes>>
    PROVE  Types' /\ Rows' /\ PermitStep(e) /\ QuietStep
  <1>1. Types'
    BY DEF Types
  <1>2. PermitStep(e) /\ QuietStep
    BY DEF PermitStep, QuietStep
  <1>3. Rows'
    BY DEF Types, Rows, EffectInv, ClaimIsBare, AttemptFits, FactIsTrue, RunningFits,
       NotAwaited, NoThreads, ResultFits, Chains, Executions, Steps,
       Permitted, Recorded, Subs
  <1> QED
    BY <1>1, <1>2, <1>3

(* claim_effect inserts a fresh row. *)
LEMMA ClaimEffectKeeps ==
    ASSUME Types, Rows, NEW e \in Effect, ClaimEffect(e)
    PROVE  Types' /\ Rows' /\ PermitStep(e) /\ QuietStep
  <1>1. Types'
    BY EffectAssumption DEF Types, FenceRow, ClaimEffect, At, Goto, MayCall, ToolThread, Active,
       AttemptState, Open, Status, ledger, store, volatile
  <1>2. PermitStep(e)
    BY EffectAssumption DEF PermitStep, Rows, EffectInv, ClaimIsBare, AttemptFits,
       Types, ClaimEffect, At, Goto, MayCall, ToolThread, Active, Open, ledger, store
  <1>3. QuietStep
    BY EffectAssumption DEF QuietStep, Rows, EffectInv, ClaimIsBare, Types, ClaimEffect,
       At, Goto, MayCall, ToolThread, Active, Open, ledger, store, volatile, Executions, Chains,
       Steps, Subs, Permitted, Called, Recorded
  <1>4. Rows'
    BY EffectAssumption DEF Types, Rows, EffectInv, ClaimIsBare, AttemptFits,
       FactIsTrue, RunningFits, NotAwaited, NoThreads, ResultFits,
       ClaimEffect, At, Goto, MayCall, ToolThread, Active, AttemptState, Open, Status, ledger,
       store, volatile, Executions, Chains, Steps, Subs, Permitted, Called,
       Recorded
  <1> QED
    BY <1>1, <1>2, <1>3, <1>4

(* claim_effect of a row that exists returns it unchanged. *)
LEMMA ClaimAgainKeeps ==
    ASSUME Types, Rows, NEW e \in Effect, ClaimAgain(e)
    PROVE  Types' /\ Rows' /\ PermitStep(e) /\ QuietStep
  <1>1. Types'
    BY EffectAssumption DEF Types, FenceRow, ClaimAgain, At, Goto, AttemptState, Open,
       Status, ledger, store, volatile
  <1>2. PermitStep(e)
    BY EffectAssumption DEF PermitStep, Rows, EffectInv, ClaimIsBare, AttemptFits,
       Types, ClaimAgain, At, Goto, Open, ledger, store
  <1>3. QuietStep
    BY EffectAssumption DEF QuietStep, Rows, EffectInv, ClaimIsBare, Types, ClaimAgain,
       At, Goto, Open, ledger, store, volatile, Executions, Chains, Steps, Subs,
       Permitted, Called, Recorded
  <1>4. Rows'
    BY EffectAssumption DEF Types, Rows, EffectInv, ClaimIsBare, AttemptFits,
       FactIsTrue, RunningFits, NotAwaited, NoThreads, ResultFits,
       ClaimAgain, At, Goto, AttemptState, Open, Status, ledger, store, volatile,
       Executions, Chains, Steps, Subs, Permitted, Called, Recorded
  <1> QED
    BY <1>1, <1>2, <1>3, <1>4

(* The worker gives up on an execution that its pool thread has not started. *)
LEMMA LeaveUnstartedKeeps ==
    ASSUME Types, Rows, NEW e \in Effect, LeaveUnstarted(e)
    PROVE  Types' /\ Rows' /\ PermitStep(e) /\ QuietStep
  <1>1. Types'
    BY EffectAssumption DEF Types, FenceRow, LeaveUnstarted, At, Goto, AttemptState,
       Open, Status, ledger, store, volatile
  <1>2. PermitStep(e)
    BY EffectAssumption DEF PermitStep, Rows, EffectInv, ClaimIsBare, AttemptFits,
       Types, LeaveUnstarted, At, Goto, Open, ledger, store
  <1>3. QuietStep
    BY EffectAssumption DEF QuietStep, Rows, EffectInv, ClaimIsBare, Types,
       LeaveUnstarted, At, Goto, Open, ledger, store, volatile, Executions, Chains,
       Steps, Subs, Permitted, Called, Recorded
  <1>4. Rows'
    BY EffectAssumption DEF Types, Rows, EffectInv, ClaimIsBare, AttemptFits,
       FactIsTrue, RunningFits, NotAwaited, NoThreads, ResultFits,
       LeaveUnstarted, At, Goto, AttemptState, Open, Status, ledger, store, volatile,
       Executions, Chains, Steps, Subs, Permitted, Called, Recorded
  <1> QED
    BY <1>1, <1>2, <1>3, <1>4

(* mark_effect_started starts an execution. *)
LEMMA MarkEffectStartedKeeps ==
    ASSUME Types, Rows, NEW e \in Effect, MarkEffectStarted(e)
    PROVE  Types' /\ Rows' /\ PermitStep(e) /\ QuietStep
  <1>1. Types'
    BY EffectAssumption DEF Types, FenceRow, MarkEffectStarted, At, Goto, Start,
       FenceOpen, AttemptState, Open, Status, ledger, store, volatile
  <1>2. PermitStep(e)
    BY EffectAssumption DEF PermitStep, Rows, EffectInv, ClaimIsBare, AttemptFits,
       Types, MarkEffectStarted, At, Goto, Start, FenceOpen, Open, ledger, store
  <1>3. QuietStep
    BY EffectAssumption DEF QuietStep, Rows, EffectInv, ClaimIsBare, Types,
       MarkEffectStarted, At, Goto, Start, FenceOpen, Open, ledger, store, volatile,
       Executions, Chains, Steps, Subs, Permitted, Called, Recorded
  <1>4. Rows'
    BY EffectAssumption DEF Types, Rows, EffectInv, ClaimIsBare, AttemptFits,
       FactIsTrue, RunningFits, NotAwaited, NoThreads, ResultFits,
       MarkEffectStarted, At, Goto, Start, FenceOpen, AttemptState, Open, Status,
       ledger, store, volatile, Executions, Chains, Steps, Subs, Permitted, Called, Recorded
  <1> QED
    BY <1>1, <1>2, <1>3, <1>4

(* acquire_dispatch_permit counts the permit that it opens. *)
LEMMA AcquireDispatchPermitKeeps ==
    ASSUME Types, Rows, NEW e \in Effect, AcquireDispatchPermit(e)
    PROVE  Types' /\ Rows' /\ PermitStep(e) /\ QuietStep
  <1>1. Types'
    BY EffectAssumption DEF Types, FenceRow, AcquireDispatchPermit, At, Goto, Start,
       FenceOpen, AttemptState, Open, Status, ledger, store, volatile
  <1>2. PermitStep(e)
    BY EffectAssumption DEF PermitStep, Rows, EffectInv, ClaimIsBare, AttemptFits,
       Types, AcquireDispatchPermit, At, Goto, Start, FenceOpen, Open, ledger, store
  <1>3. QuietStep
    BY EffectAssumption DEF QuietStep, Rows, EffectInv, ClaimIsBare, Types,
       AcquireDispatchPermit, At, Goto, Start, FenceOpen, Open, ledger, store, volatile,
       Executions, Chains, Steps, Subs, Permitted, Called, Recorded
  <1>4. Rows'
    BY EffectAssumption DEF Types, Rows, EffectInv, ClaimIsBare, AttemptFits,
       FactIsTrue, RunningFits, NotAwaited, NoThreads, ResultFits,
       AcquireDispatchPermit, At, Goto, Start, FenceOpen, AttemptState, Open, Status,
       ledger, store, volatile, Executions, Chains, Steps, Subs, Permitted, Called, Recorded
  <1> QED
    BY <1>1, <1>2, <1>3, <1>4

(* A refused dispatch opens no permit; the claim is closed as failed or left. *)
LEMMA DispatchRefusedKeeps ==
    ASSUME Types, Rows, NEW e \in Effect, DispatchRefused(e)
    PROVE  Types' /\ Rows' /\ PermitStep(e) /\ QuietStep
  <1>1. caller' = [caller EXCEPT ![e] = "done"] /\ phase = "run"
        /\ UNCHANGED <<batch, applied, seen, handler, phase, crashes>>
    BY DEF DispatchRefused, At, Goto
  <1>2. CASE e \in Chains /\ UNCHANGED <<ledger, fence, contract, revoked>>
    <2>1. UNCHANGED <<head, attempt, verdict, permit, fence, contract, revoked>>
      BY <1>2 DEF ledger
    <2>2. handler[e] # "running"
      BY <1>2 DEF DispatchRefused, At, Rows, EffectInv, RunningFits, Recorded
    <2> QED
      BY <1>1, <2>1, <2>2, QuietCaller
  <1>3. CASE e \in Called /\ Complete(e, "FAILED_FINAL", FALSE)
    <2>1. Responsible(e, "FAILED_FINAL", FALSE)
      BY <1>1, <1>3 DEF Responsible, DispatchRefused, At, Status, Complete, MayComplete, Open,
         Rows, EffectInv, ClaimIsBare, NotAwaited
    <2> QED
      BY <1>3, <2>1, CompleteKeeps
  <1> QED
    BY <1>2, <1>3 DEF DispatchRefused

(* Reading the fence writes nothing. *)
LEMMA ReadFenceKeeps ==
    ASSUME Types, Rows, NEW e \in Effect, ReadFence(e)
    PROVE  Types' /\ Rows' /\ PermitStep(e) /\ QuietStep
  <1>1. Types'
    BY EffectAssumption DEF Types, FenceRow, ReadFence, At, Goto, MayCall, ToolThread, Active,
       AttemptState, Open, Status, ledger, store, volatile
  <1>2. PermitStep(e)
    BY EffectAssumption DEF PermitStep, Rows, EffectInv, ClaimIsBare, AttemptFits,
       Types, ReadFence, At, Goto, MayCall, ToolThread, Active, Open, ledger, store
  <1>3. QuietStep
    BY EffectAssumption DEF QuietStep, Rows, EffectInv, ClaimIsBare, Types, ReadFence,
       At, Goto, MayCall, ToolThread, Active, Open, ledger, store, volatile, Executions, Chains,
       Steps, Subs, Permitted, Called, Recorded
  <1>4. Rows'
    BY EffectAssumption DEF Types, Rows, EffectInv, ClaimIsBare, AttemptFits,
       FactIsTrue, RunningFits, NotAwaited, NoThreads, ResultFits,
       ReadFence, At, Goto, MayCall, ToolThread, Active, AttemptState, Open, Status, ledger, store,
       volatile, Executions, Chains, Steps, Subs, Permitted, Called, Recorded
  <1> QED
    BY <1>1, <1>2, <1>3, <1>4

(* A sub effect is claimed, started and settled in one transaction. *)
LEMMA AdmitSubEffectKeeps ==
    ASSUME Types, Rows, NEW e \in Effect, AdmitSubEffect(e)
    PROVE  Types' /\ Rows' /\ PermitStep(e) /\ QuietStep
  <1>1. Types'
    BY EffectAssumption DEF Types, FenceRow, AdmitSubEffect, At, Goto, AttemptState,
       Open, Status, ledger, store, volatile
  <1>2. PermitStep(e)
    BY EffectAssumption DEF PermitStep, Rows, EffectInv, ClaimIsBare, AttemptFits,
       Types, AdmitSubEffect, At, Goto, Open, ledger, store
  <1>3. QuietStep
    BY EffectAssumption DEF QuietStep, Rows, EffectInv, ClaimIsBare, Types,
       AdmitSubEffect, At, Goto, Open, ledger, store, volatile, Executions, Chains,
       Steps, Subs, Permitted, Called, Recorded
  <1>4. Rows'
    BY EffectAssumption DEF Types, Rows, EffectInv, ClaimIsBare, AttemptFits,
       FactIsTrue, RunningFits, NotAwaited, NoThreads, ResultFits,
       AdmitSubEffect, At, Goto, AttemptState, Open, Status, ledger, store, volatile,
       Executions, Chains, Steps, Subs, Permitted, Called, Recorded
  <1> QED
    BY <1>1, <1>2, <1>3, <1>4

(* A refused sub effect leaves the ledger alone. *)
LEMMA AdmissionRefusedKeeps ==
    ASSUME Types, Rows, NEW e \in Effect, AdmissionRefused(e)
    PROVE  Types' /\ Rows' /\ PermitStep(e) /\ QuietStep
  <1>1. Types'
    BY EffectAssumption DEF Types, FenceRow, AdmissionRefused, At, Goto, AttemptState,
       Open, Status, ledger, store, volatile
  <1>2. PermitStep(e)
    BY EffectAssumption DEF PermitStep, Rows, EffectInv, ClaimIsBare, AttemptFits,
       Types, AdmissionRefused, At, Goto, Open, ledger, store
  <1>3. QuietStep
    BY EffectAssumption DEF QuietStep, Rows, EffectInv, ClaimIsBare, Types,
       AdmissionRefused, At, Goto, Open, ledger, store, volatile, Executions, Chains,
       Steps, Subs, Permitted, Called, Recorded
  <1>4. Rows'
    BY EffectAssumption DEF Types, Rows, EffectInv, ClaimIsBare, AttemptFits,
       FactIsTrue, RunningFits, NotAwaited, NoThreads, ResultFits,
       AdmissionRefused, At, Goto, AttemptState, Open, Status, ledger, store, volatile,
       Executions, Chains, Steps, Subs, Permitted, Called, Recorded
  <1> QED
    BY <1>1, <1>2, <1>3, <1>4

(* finish_effect stores what the handler of a tool call reported. *)
LEMMA FinishEffectKeeps ==
    ASSUME Types, Rows, NEW e \in Effect, FinishEffect(e)
    PROVE  Types' /\ Rows' /\ PermitStep(e) /\ QuietStep
  <1>1. CASE head[e] = "AMBIGUOUS" /\ UNCHANGED <<ledger, fence, contract, revoked>>
    <2>1. /\ UNCHANGED <<head, attempt, verdict, permit, fence, contract, revoked, batch, applied, seen,
                        handler, phase, crashes>>
          /\ caller[e] = "waiting" /\ handler[e] = "ended" /\ phase = "run"
          /\ e \in Chains /\ caller' = [caller EXCEPT ![e] = "done"]
      BY <1>1 DEF FinishEffect, At, Goto, ledger
    <2> QED
      BY <2>1, QuietCaller
  <1>2. CASE \E st \in Reported(e) : Complete(e, st, FALSE)
    <2>1. PICK st \in Reported(e) : Complete(e, st, FALSE)
      BY <1>2
    <2>2. Responsible(e, st, FALSE)
      BY DEF Responsible, FinishEffect, At, Goto, Status, Reported, Recorded, Chains, Subs
    <2> QED
      BY <2>1, <2>2, CompleteKeeps
  <1> QED
    BY <1>1, <1>2 DEF FinishEffect

(* finish_effect is refused, and the caller goes. *)
LEMMA FinishRefusedKeeps ==
    ASSUME Types, Rows, NEW e \in Effect, FinishRefused(e)
    PROVE  Types' /\ Rows' /\ PermitStep(e) /\ QuietStep
  <1>1. /\ UNCHANGED <<head, attempt, verdict, permit, fence, contract, revoked, batch, applied,
                       seen, handler, phase, crashes>>
        /\ caller[e] = "waiting" /\ handler[e] = "ended" /\ phase = "run"
        /\ caller' = [caller EXCEPT ![e] = "done"]
    BY DEF FinishRefused, At, Goto, store, ledger
  <1> QED
    BY <1>1, QuietCaller

(* The result is recorded before the effect is completed. *)
LEMMA RecordExecutionKeeps ==
    ASSUME Types, Rows, NEW e \in Effect, RecordExecution(e)
    PROVE  Types' /\ Rows' /\ PermitStep(e) /\ QuietStep
  <1>1. Types'
    BY EffectAssumption DEF Types, FenceRow, RecordExecution, At, Goto, Reported,
       AttemptState, Open, Status, ledger, store, volatile
  <1>2. PermitStep(e)
    BY EffectAssumption DEF PermitStep, Rows, EffectInv, ClaimIsBare, AttemptFits,
       Types, RecordExecution, At, Goto, Reported, Open, ledger, store
  <1>3. QuietStep
    BY EffectAssumption DEF QuietStep, Rows, EffectInv, ClaimIsBare, Types,
       RecordExecution, At, Goto, Reported, Open, ledger, store, volatile, Executions,
       Chains, Steps, Subs, Permitted, Called, Recorded
  <1>4. Rows'
    BY EffectAssumption DEF Types, Rows, EffectInv, ClaimIsBare, AttemptFits,
       FactIsTrue, RunningFits, NotAwaited, NoThreads, ResultFits,
       RecordExecution, At, Goto, Reported, AttemptState, Open, Status, ledger, store,
       volatile, Executions, Chains, Steps, Subs, Permitted, Called, Recorded
  <1> QED
    BY <1>1, <1>2, <1>3, <1>4

(* Recording the result raises, and the effect stays open. *)
LEMMA RecordRaisesKeeps ==
    ASSUME Types, Rows, NEW e \in Effect, RecordRaises(e)
    PROVE  Types' /\ Rows' /\ PermitStep(e) /\ QuietStep
  <1>1. Types'
    BY EffectAssumption DEF Types, FenceRow, RecordRaises, At, Goto, Reported,
       AttemptState, Open, Status, ledger, store, volatile
  <1>2. PermitStep(e)
    BY EffectAssumption DEF PermitStep, Rows, EffectInv, ClaimIsBare, AttemptFits,
       Types, RecordRaises, At, Goto, Reported, Open, ledger, store
  <1>3. QuietStep
    BY EffectAssumption DEF QuietStep, Rows, EffectInv, ClaimIsBare, Types,
       RecordRaises, At, Goto, Reported, Open, ledger, store, volatile, Executions,
       Chains, Steps, Subs, Permitted, Called, Recorded
  <1>4. Rows'
    BY EffectAssumption DEF Types, Rows, EffectInv, ClaimIsBare, AttemptFits,
       FactIsTrue, RunningFits, NotAwaited, NoThreads, ResultFits,
       RecordRaises, At, Goto, Reported, AttemptState, Open, Status, ledger, store,
       volatile, Executions, Chains, Steps, Subs, Permitted, Called, Recorded
  <1> QED
    BY <1>1, <1>2, <1>3, <1>4

(* complete_effect stores the recorded result and gives the permit back. *)
LEMMA CompleteEffectKeeps ==
    ASSUME Types, Rows, NEW e \in Effect, CompleteEffect(e)
    PROVE  Types' /\ Rows' /\ PermitStep(e) /\ QuietStep
  <1>1. Complete(e, batch[e], FALSE)
    BY DEF CompleteEffect
  <1>2. Responsible(e, batch[e], FALSE)
    BY DEF Responsible, CompleteEffect, At, Goto, Types, Rows, EffectInv, FactIsTrue, Called,
       Recorded, Executions, Steps, Subs
  <1> QED
    BY <1>1, <1>2, CompleteKeeps

(* The call raises: the effect is closed as ambiguous. *)
LEMMA CallRaisesKeeps ==
    ASSUME Types, Rows, NEW e \in Effect, CallRaises(e)
    PROVE  Types' /\ Rows' /\ PermitStep(e) /\ QuietStep
  <1>1. Complete(e, "AMBIGUOUS", Retains(e))
    BY DEF CallRaises
  <1>2. Responsible(e, "AMBIGUOUS", Retains(e))
    BY DEF Responsible, CallRaises, Retains, At, Goto, Status, Types, Called, Recorded,
       Executions, Chains, Steps, Subs
  <1> QED
    BY <1>1, <1>2, CompleteKeeps

(* A permit is given back once its handler has ended late. *)
LEMMA ReleaseAfterTransportKeeps ==
    ASSUME Types, Rows, NEW e \in Effect, ReleaseAfterTransport(e)
    PROVE  Types' /\ Rows' /\ PermitStep(e) /\ QuietStep
  <1>1. Types'
    BY EffectAssumption, DecrementShape DEF Types, FenceRow, ReleaseAfterTransport, At,
       Goto, Return, AttemptState, Open, Status, ledger, store, volatile
  <1>2. PermitStep(e)
    BY EffectAssumption, DecrementShape DEF PermitStep, Rows, EffectInv, ClaimIsBare,
       AttemptFits, Types, ReleaseAfterTransport, At, Goto, Return, Open, ledger,
       store
  <1>3. QuietStep
    BY EffectAssumption, DecrementShape DEF QuietStep, Rows, EffectInv, ClaimIsBare,
       Types, ReleaseAfterTransport, At, Goto, Return, Open, ledger, store, volatile,
       Executions, Chains, Steps, Subs, Permitted, Called, Recorded
  <1>4. Rows'
    BY EffectAssumption, DecrementShape DEF Types, Rows, EffectInv, ClaimIsBare,
       AttemptFits, FactIsTrue, RunningFits, NotAwaited, NoThreads, ResultFits, ReleaseAfterTransport, At, Goto, Return, AttemptState,
       Open, Status, ledger, store, volatile, Executions, Chains, Steps, Subs,
       Permitted, Called, Recorded
  <1> QED
    BY <1>1, <1>2, <1>3, <1>4

(* The release fails, and the permit stays open. *)
LEMMA ReleaseFailsKeeps ==
    ASSUME Types, Rows, NEW e \in Effect, ReleaseFails(e)
    PROVE  Types' /\ Rows' /\ PermitStep(e) /\ QuietStep
  <1>1. /\ UNCHANGED <<head, attempt, verdict, permit, fence, contract, revoked, batch, applied,
                       seen, handler, phase, crashes>>
        /\ caller[e] = "timedout" /\ handler[e] = "ended" /\ phase = "run"
        /\ caller' = [caller EXCEPT ![e] = "done"]
    BY DEF ReleaseFails, At, Goto, store, ledger
  <1> QED
    BY <1>1, QuietCaller

(* Recovery gives back the permit of a step that is terminal. *)
LEMMA RecoverPermitKeeps ==
    ASSUME Types, Rows, NEW e \in Effect, RecoverPermit(e)
    PROVE  Types' /\ Rows' /\ PermitStep(e) /\ QuietStep
  <1>1. Types'
    BY EffectAssumption, DecrementShape DEF Types, FenceRow, RecoverPermit, Return,
       TerminalWithPermit, AttemptState, Open, Status, ledger, store, volatile
  <1>2. PermitStep(e)
    BY EffectAssumption, DecrementShape DEF PermitStep, Rows, EffectInv, ClaimIsBare,
       AttemptFits, Types, RecoverPermit, Return, TerminalWithPermit, Open, ledger,
       store
  <1>3. QuietStep
    BY EffectAssumption, DecrementShape DEF QuietStep, Rows, EffectInv, ClaimIsBare,
       Types, RecoverPermit, Return, TerminalWithPermit, Open, ledger, store, volatile,
       Executions, Chains, Steps, Subs, Permitted, Called, Recorded
  <1>4. Rows'
    BY EffectAssumption, DecrementShape DEF Types, Rows, EffectInv, ClaimIsBare,
       AttemptFits, FactIsTrue, RunningFits, NotAwaited, NoThreads, ResultFits, RecoverPermit, Return, TerminalWithPermit, AttemptState,
       Open, Status, ledger, store, volatile, Executions, Chains, Steps, Subs,
       Permitted, Called, Recorded
  <1> QED
    BY <1>1, <1>2, <1>3, <1>4

(* Recovery closes a started step. *)
LEMMA RecoverStepKeeps ==
    ASSUME Types, Rows, NEW e \in Effect, RecoverStep(e)
    PROVE  Types' /\ Rows' /\ PermitStep(e) /\ QuietStep
  <1> DEFINE st == IF batch[e] = "NONE" THEN "AMBIGUOUS" ELSE batch[e]
  <1>1. Complete(e, st, FALSE)
    BY DEF RecoverStep
  <1>2. Responsible(e, st, FALSE)
    BY DEF Responsible, RecoverStep, StartedSteps, volatile, Status, Types, Rows, EffectInv,
       FactIsTrue, NoThreads, Recorded, Steps, Subs
  <1> QED
    BY <1>1, <1>2, CompleteKeeps

(* Recovery asks for the reconciliation of a started attempt. *)
LEMMA RecoverAttemptKeeps ==
    ASSUME Types, Rows, NEW e \in Effect, RecoverAttempt(e)
    PROVE  Types' /\ Rows' /\ PermitStep(e) /\ QuietStep
  <1>1. Types'
    BY EffectAssumption DEF Types, FenceRow, RecoverAttempt, StartedAttempts, Generic, Verdict,
       AttemptState, Open, Status, ledger, store, volatile
  <1>2. PermitStep(e)
    BY EffectAssumption DEF PermitStep, Rows, EffectInv, ClaimIsBare, AttemptFits,
       Types, RecoverAttempt, StartedAttempts, Generic, Open, ledger, store
  <1>3. QuietStep
    BY EffectAssumption DEF QuietStep, Rows, EffectInv, ClaimIsBare, NoThreads, Types,
       RecoverAttempt, StartedAttempts, Generic, Open, ledger, store, volatile,
       Executions, Chains, Steps, Subs, Permitted, Called, Recorded
  <1>4. Rows'
    BY EffectAssumption DEF Types, Rows, EffectInv, ClaimIsBare, AttemptFits,
       FactIsTrue, RunningFits, NotAwaited, NoThreads, ResultFits,
       RecoverAttempt, StartedAttempts, Generic, AttemptState, Open, Status, ledger,
       store, volatile, Executions, Chains, Steps, Subs, Permitted, Called,
       Recorded
  <1> QED
    BY <1>1, <1>2, <1>3, <1>4

(* Recovery closes a started head. *)
LEMMA RecoverHeadKeeps ==
    ASSUME Types, Rows, NEW e \in Effect, RecoverHead(e)
    PROVE  Types' /\ Rows' /\ PermitStep(e) /\ QuietStep
  <1>1. Complete(e, RecoveredStatus(e), FALSE)
    BY DEF RecoverHead
  <1>2. Responsible(e, RecoveredStatus(e), FALSE)
    BY DEF Responsible, RecoverHead, RecoveredStatus, volatile, Status, Rows, EffectInv,
       NoThreads, StartedHeads, Generic, Permitted, Executions, Chains, Steps
  <1> QED
    BY <1>1, <1>2, CompleteKeeps

(* The handler takes effect while it runs. *)
LEMMA HandlerAppliesKeeps ==
    ASSUME Types, Rows, NEW e \in Effect, HandlerApplies(e)
    PROVE  Types' /\ Rows' /\ PermitStep(e) /\ QuietStep
  <1>1. Types'
    BY EffectAssumption DEF Types, FenceRow, HandlerApplies, AttemptState, Open, Status,
       ledger, store, volatile
  <1>2. PermitStep(e)
    BY EffectAssumption DEF PermitStep, Rows, EffectInv, ClaimIsBare, AttemptFits,
       Types, HandlerApplies, Open, ledger, store
  <1>3. QuietStep
    BY EffectAssumption DEF QuietStep, Rows, EffectInv, ClaimIsBare, Types,
       HandlerApplies, Open, ledger, store, volatile, Executions, Chains, Steps, Subs,
       Permitted, Called, Recorded
  <1>4. Rows'
    BY EffectAssumption DEF Types, Rows, EffectInv, ClaimIsBare, AttemptFits,
       FactIsTrue, RunningFits, NotAwaited, NoThreads, ResultFits,
       HandlerApplies, AttemptState, Open, Status, ledger, store, volatile, Executions,
       Chains, Steps, Subs, Permitted, Called, Recorded
  <1> QED
    BY <1>1, <1>2, <1>3, <1>4

(* The handler ends. *)
LEMMA HandlerEndsKeeps ==
    ASSUME Types, Rows, NEW e \in Effect, HandlerEnds(e)
    PROVE  Types' /\ Rows' /\ PermitStep(e) /\ QuietStep
  <1>1. Types'
    BY EffectAssumption DEF Types, FenceRow, HandlerEnds, Goto, AttemptState,
       Open, Status, ledger, store, volatile
  <1>2. PermitStep(e)
    BY EffectAssumption DEF PermitStep, Rows, EffectInv, ClaimIsBare, AttemptFits,
       Types, HandlerEnds, Goto, Open, ledger, store
  <1>3. QuietStep
    BY EffectAssumption DEF QuietStep, Rows, EffectInv, ClaimIsBare, Types, HandlerEnds,
       Goto, Open, ledger, store, volatile, Executions, Chains, Steps, Subs,
       Permitted, Called, Recorded
  <1>4. Rows'
    BY EffectAssumption DEF Types, Rows, EffectInv, ClaimIsBare, AttemptFits,
       FactIsTrue, RunningFits, NotAwaited, NoThreads, ResultFits,
       HandlerEnds, Goto, AttemptState, Open, Status, ledger, store, volatile,
       Executions, Chains, Steps, Subs, Permitted, Called, Recorded
  <1> QED
    BY <1>1, <1>2, <1>3, <1>4

(* The tool loop ends, and leaves the tool calls that run. *)
LEMMA ExecutionEndsKeeps ==
    ASSUME Types, Rows, NEW e \in Effect, ExecutionEnds(e)
    PROVE  Types' /\ Rows' /\ PermitStep(e) /\ QuietStep
  <1>1. /\ UNCHANGED <<head, attempt, verdict, permit, fence, contract, revoked, batch, applied,
                       caller, seen, phase, crashes>>
        /\ handler[e] = "running" /\ handler' = [handler EXCEPT ![e] = "ended"]
    BY DEF ExecutionEnds, store, ledger
  <1>2. Types'
    BY <1>1 DEF Types
  <1>3. PermitStep(e) /\ QuietStep
    BY <1>1 DEF PermitStep, QuietStep, Types
  <1>4. Rows'
    BY <1>1 DEF Types, Rows, EffectInv, ClaimIsBare, AttemptFits, FactIsTrue, RunningFits,
       NotAwaited, NoThreads, ResultFits
  <1> QED
    BY <1>2, <1>3, <1>4

(* A resumed run closes the claims that were never dispatched, and the calls *)
(* without a result, whose handlers may still run.                           *)
LEMMA ResumeRunKeeps ==
    ASSUME Types, Rows, NEW e \in Effect, ResumeRun(e)
    PROVE  Types' /\ Rows' /\ PermitStep(e) /\ QuietStep
  <1> DEFINE st == IF head[e] = "CLAIMED" THEN "FAILED_FINAL" ELSE "AMBIGUOUS"
  <1>1. Complete(e, st, FALSE)
    BY DEF ResumeRun
  <1>2. Responsible(e, st, FALSE)
    BY DEF Responsible, ResumeRun, volatile, Status, Rows, EffectInv, ClaimIsBare, Chains, Steps
  <1> QED
    BY <1>1, <1>2, CompleteKeeps

(* The resumed request closes an execution that is bound to a plan. *)
LEMMA ResumeParentKeeps ==
    ASSUME Types, Rows, NEW e \in Effect, ResumeParent(e)
    PROVE  Types' /\ Rows' /\ PermitStep(e) /\ QuietStep
  <1> DEFINE st == IF batch[e] = "SUCCEEDED" THEN "SUCCEEDED"
                   ELSE IF head[e] = "CLAIMED" THEN "FAILED_FINAL" ELSE "AMBIGUOUS"
  <1>1. Complete(e, st, FALSE)
    BY DEF ResumeParent
  <1>2. e \in Executions
    BY EffectAssumption DEF ResumeParent, PlanParents, Executions, Steps
  <1>3. Responsible(e, st, FALSE)
    BY <1>2 DEF Responsible, ResumeParent, volatile, Status, Rows, EffectInv, ClaimIsBare,
       FactIsTrue, Permitted, Executions, Chains, Steps
  <1> QED
    BY <1>1, <1>3, CompleteKeeps

(* A stale started effect is closed as ambiguous. *)
LEMMA ReconcileStaleKeeps ==
    ASSUME Types, Rows, NEW e \in Effect, ReconcileStale(e)
    PROVE  Types' /\ Rows' /\ PermitStep(e) /\ QuietStep
  <1>1. Complete(e, "AMBIGUOUS", FALSE)
    BY DEF ReconcileStale
  <1>2. Responsible(e, "AMBIGUOUS", FALSE)
    BY DEF Responsible, ReconcileStale, Generic, volatile, Status, Chains, Steps
  <1> QED
    BY <1>1, <1>2, CompleteKeeps

(* The recorded result of a step that is still started completes it. *)
LEMMA RecoverFromFactKeeps ==
    ASSUME Types, Rows, NEW e \in Effect, RecoverFromFact(e)
    PROVE  Types' /\ Rows' /\ PermitStep(e) /\ QuietStep
  <1>1. Complete(e, batch[e], FALSE)
    BY DEF RecoverFromFact
  <1>2. Responsible(e, batch[e], FALSE)
    BY DEF Responsible, RecoverFromFact, volatile, Types, Rows, EffectInv, FactIsTrue,
       Recorded, Steps, Subs
  <1> QED
    BY <1>1, <1>2, CompleteKeeps

-----------------------------------------------------------------------------
(* The passes of start(), the operator and the restart.                     *)

(* Recovery moves on to its next phase and writes nothing. *)
LEMMA NextPhaseKeeps ==
    ASSUME Types, Rows, NextPhase
    PROVE  Types' /\ Rows' /\ UNCHANGED <<permit, fence>> /\ QuietStep
  <1>1. /\ UNCHANGED <<head, attempt, verdict, permit, fence, contract, revoked, batch, applied,
                       caller, seen, handler, crashes>>
        /\ phase # "run" /\ phase' \in {"permits", "steps", "attempts", "heads", "run"}
    BY DEF NextPhase, Types, ledger, store, volatile
  <1>2. Types'
    BY <1>1 DEF Types
  <1>3. QuietStep
    BY <1>1 DEF QuietStep
  <1>4. Rows'
    BY <1>1 DEF Rows, EffectInv, ClaimIsBare, AttemptFits, FactIsTrue, RunningFits,
       NotAwaited, NoThreads, ResultFits
  <1> QED
    BY <1>1, <1>2, <1>3, <1>4

(* A crash loses only what is volatile. *)
LEMMA CrashKeeps ==
    ASSUME Types, Rows, Crash
    PROVE  Types' /\ Rows' /\ UNCHANGED <<permit, fence>> /\ QuietStep
  <1>1. /\ UNCHANGED <<head, attempt, verdict, permit, fence, contract, revoked, batch, applied>>
        /\ phase' = "permits" /\ crashes < MaxCrashes /\ crashes' = crashes + 1
        /\ caller' = [e \in Effect |-> "idle"] /\ seen' = [e \in Effect |-> 0]
        /\ handler' = [e \in Effect |-> "none"]
    BY DEF Crash, ledger, store
  <1>2. Types'
    BY <1>1, EffectAssumption DEF Types
  <1>3. QuietStep
    BY <1>1 DEF QuietStep, Recorded
  <1>4. Rows'
    BY <1>1 DEF Rows, EffectInv, ClaimIsBare, AttemptFits, FactIsTrue, RunningFits,
       NotAwaited, NoThreads, ResultFits
  <1> QED
    BY <1>1, <1>2, <1>3, <1>4

(* Raising the fence leaves its permits and their count alone. *)
LEMMA IncrementKeeps ==
    ASSUME Types, Rows, IncrementActionFence
    PROVE  Types' /\ Rows' /\ permit' = permit /\ fence'.inflight = fence.inflight /\ QuietStep
  <1>1. /\ UNCHANGED <<head, attempt, verdict, permit, contract, revoked, batch, applied, caller, seen,
                       handler, phase, crashes>>
        /\ fence.epoch < MaxFence
        /\ fence' = [fence EXCEPT !.epoch = fence.epoch + 1, !.draining = TRUE]
    BY DEF IncrementActionFence, ledger, volatile
  <1>2. /\ fence' \in FenceRow /\ fence'.inflight = fence.inflight
        /\ fence'.epoch = fence.epoch + 1 /\ fence.epoch \in Nat
    <2>1. fence.epoch \in 0 .. MaxFence /\ MaxFence \in Nat
      BY EffectAssumption DEF Types, FenceRow
    <2>2. fence.epoch + 1 \in 0 .. MaxFence
      BY <1>1, <2>1
    <2> DEFINE n == fence.epoch + 1
    <2>3. n \in 0 .. MaxFence /\ fence' = [fence EXCEPT !.epoch = n, !.draining = TRUE]
      BY <1>1, <2>2
    <2> HIDE DEF n
    <2>4. fence' \in FenceRow /\ fence'.inflight = fence.inflight /\ fence'.epoch = n
      BY <2>3 DEF Types, FenceRow
    <2> QED
      BY <2>1, <2>4 DEF n
  <1>3. Types' /\ QuietStep
    BY <1>1, <1>2 DEF Types, QuietStep
  <1>4. Rows'
    BY <1>1 DEF Rows, EffectInv, ClaimIsBare, AttemptFits, FactIsTrue, RunningFits,
       NotAwaited, NoThreads, ResultFits
  <1> QED
    BY <1>1, <1>2, <1>3, <1>4

(* A reconciliation verdict is stored with the effect that it decides. *)
LEMMA ReconciliationKeeps ==
    ASSUME Types, Rows, NEW e \in Effect,
           NEW v \in Verdict,
           RecordReconciliation(e, v)
    PROVE  Types' /\ Rows' /\ UNCHANGED <<permit, fence>> /\ QuietStep
  <1>1. /\ UNCHANGED <<head, permit, fence, contract, revoked, batch, applied, caller, seen, handler,
                       phase, crashes>>
        /\ verdict[e] # "APPLIED" /\ attempt[e] # "NONE"
        /\ verdict' = [verdict EXCEPT ![e] = v]
        /\ \/ v = "APPLIED" /\ attempt' = [attempt EXCEPT ![e] = "RECONCILED"]
           \/ attempt' = [attempt EXCEPT ![e] = "RECONCILE_REQUIRED"]
    BY DEF RecordReconciliation, volatile
  <1>2. Types'
    BY <1>1 DEF Types, AttemptState
  <1>3. QuietStep
    BY <1>1 DEF QuietStep
  <1>4. Rows'
    BY <1>1 DEF Types, Rows, EffectInv, ClaimIsBare, AttemptFits, FactIsTrue, RunningFits,
       NotAwaited, NoThreads, ResultFits, Chains, Executions
  <1> QED
    BY <1>1, <1>2, <1>3, <1>4

(* A generation ends: nothing else is written. *)
LEMMA GenerationEndsKeeps ==
    ASSUME Types, Rows, NEW x \in Effect, GenerationEnds(x)
    PROVE  Types' /\ Rows' /\ UNCHANGED <<permit, fence>> /\ QuietStep
  <1>1. /\ UNCHANGED <<head, attempt, verdict, permit, fence, contract, batch, applied, caller,
                       seen, handler, phase, crashes>>
        /\ x \in Executions /\ revoked' = revoked \cup {x}
    BY DEF GenerationEnds, ledger, volatile
  <1>2. Types'
    BY <1>1 DEF Types
  <1>3. QuietStep
    BY <1>1 DEF QuietStep
  <1>4. Rows'
    BY <1>1 DEF Rows, EffectInv, ClaimIsBare, AttemptFits, FactIsTrue, RunningFits,
       NotAwaited, NoThreads, ResultFits
  <1> QED
    BY <1>1, <1>2, <1>3, <1>4

(* What runs has an attempt that is settled only when it was reconciled.     *)
LEMMA ActivateKeeps ==
    ASSUME Types, Rows, ActivateExecutionContractEpoch
    PROVE  Types' /\ Rows' /\ permit' = permit /\ fence'.inflight = fence.inflight /\ QuietStep
  <1>1. /\ UNCHANGED <<head, attempt, verdict, permit, revoked, batch, applied, caller, seen,
                       handler, phase, crashes>>
        /\ fence.epoch # 0 /\ fence.inflight = 0 /\ contract' = TRUE
        /\ \A e \in Effect : attempt[e] \in {"NONE", "SUCCEEDED", "FAILED_FINAL", "RECONCILED"}
        /\ fence' = [fence EXCEPT !.draining = FALSE]
    BY DEF ActivateExecutionContractEpoch, ledger, volatile
  <1>2. Types' /\ fence'.inflight = fence.inflight /\ fence'.epoch = fence.epoch
    BY <1>1 DEF Types, FenceRow
  <1>3. \A e \in Recorded : handler[e] = "running" => verdict[e] = "APPLIED"
    BY <1>1 DEF Rows, EffectInv, RunningFits, AttemptFits, Recorded
  <1>4. QuietStep
    BY <1>1, <1>2, <1>3 DEF QuietStep
  <1>5. Rows'
    BY <1>1 DEF Rows, EffectInv, ClaimIsBare, AttemptFits, FactIsTrue, RunningFits,
       NotAwaited, NoThreads, ResultFits
  <1> QED
    BY <1>1, <1>2, <1>4, <1>5

-----------------------------------------------------------------------------
(* The invariant.                                                           *)

(* The bound of the count is that of what it counts. *)
LEMMA TypesBound ==
    /\ TypeOK => Types
    /\ Types /\ InflightIsOpenPermits => TypeOK
  <1>1. Cardinality(Effect) \in Nat
    BY EffectAssumption, FS_CardinalityType
  <1>2. TypeOK => Types
    BY <1>1 DEF TypeOK, Types, Fence, FenceRow
  <1>3. ASSUME Types, InflightIsOpenPermits PROVE TypeOK
    <2>1. OpenPermits \in SUBSET Effect /\ fence.inflight = Cardinality(OpenPermits)
      BY <1>3 DEF InflightIsOpenPermits, OpenPermits
    <2>2. fence.inflight <= Cardinality(Effect)
      BY <2>1, EffectAssumption, FS_Subset
    <2>3. fence \in Fence
      BY <1>1, <1>3, <2>2 DEF Types, FenceRow, Fence
    <2> QED
      BY <1>3, <2>3 DEF TypeOK, Types
  <1> QED
    BY <1>2, <1>3

(* The in-flight count is within its bound after a step, being a number of effects. *)
LEMMA TypesBoundNext == ASSUME Types', InflightIsOpenPermits' PROVE TypeOK'
  <1>1. Cardinality(Effect) \in Nat
    BY EffectAssumption, FS_CardinalityType
  <1>2. OpenPermits' \in SUBSET Effect /\ fence'.inflight = Cardinality(OpenPermits')
    BY DEF InflightIsOpenPermits, OpenPermits
  <1>3. fence'.inflight <= Cardinality(Effect)
    BY <1>2, EffectAssumption, FS_Subset
  <1>4. fence' \in Fence
    BY <1>1, <1>3 DEF Types, FenceRow, Fence
  <1> QED
    BY <1>4 DEF TypeOK, Types

(* The empty ledger satisfies the invariant. *)
LEMMA InitInv == ASSUME Init PROVE IInv
  <1>1. Types /\ Rows /\ ContractHolds
    <2>1. Types
      <3>1. 0 \in 0 .. MaxFence /\ 0 \in 0 .. MaxCrashes
        BY EffectAssumption
      <3>2. fence \in FenceRow
        BY <3>1 DEF Init, FenceRow
      <3> QED
        BY <3>1, <3>2 DEF Init, Types, AttemptState
    <2>2. Rows /\ ContractHolds
      BY DEF Init, Rows, EffectInv, ClaimIsBare, AttemptFits, FactIsTrue, RunningFits,
         NotAwaited, NoThreads, ResultFits, ContractHolds
    <2> QED
      BY <2>1, <2>2
  <1>2. OpenPermits = {}
    BY DEF Init, OpenPermits
  <1>3. InflightIsOpenPermits
    BY <1>2, FS_EmptySet DEF Init, InflightIsOpenPermits, OpenPermits
  <1> QED
    BY <1>1, <1>3, TypesBound DEF IInv, Rows

(* The in-flight count follows the one permit that a step opens or gives back. *)
LEMMA CountFollows ==
    ASSUME Types, Types', InflightIsOpenPermits, NEW e \in Effect, PermitStep(e)
    PROVE  InflightIsOpenPermits'
  <1>1. IsFiniteSet(OpenPermits)
    BY EffectAssumption, FS_Subset DEF OpenPermits
  <1>2. fence.inflight = Cardinality(OpenPermits)
    BY DEF InflightIsOpenPermits, OpenPermits
  <1>3. SUFFICES fence'.inflight = Cardinality(OpenPermits')
    BY DEF InflightIsOpenPermits, OpenPermits
  <1>4. CASE permit' = permit /\ fence'.inflight = fence.inflight
    <2>1. OpenPermits' = OpenPermits
      BY <1>4 DEF OpenPermits
    <2> QED
      BY <2>1, <1>2, <1>4
  <1>5. CASE /\ permit[e] = "open" /\ permit' = [permit EXCEPT ![e] = "released"]
             /\ fence'.inflight = IF fence.inflight = 0 THEN 0 ELSE fence.inflight - 1
    <2>1. e \in OpenPermits /\ OpenPermits' = OpenPermits \ {e}
      BY <1>5 DEF OpenPermits, Types
    <2>2. Cardinality(OpenPermits') = Cardinality(OpenPermits) - 1
      BY <2>1, <1>1, FS_RemoveElement
    <2>3. Cardinality(OpenPermits) # 0
      BY <2>1, <1>1, FS_EmptySet
    <2> QED
      BY <1>2, <1>5, <2>2, <2>3
  <1>6. CASE /\ permit[e] = "none" /\ permit' = [permit EXCEPT ![e] = "open"]
             /\ fence'.inflight = fence.inflight + 1
    <2>1. e \notin OpenPermits /\ OpenPermits' = OpenPermits \cup {e}
      BY <1>6 DEF OpenPermits, Types
    <2>2. Cardinality(OpenPermits') = Cardinality(OpenPermits) + 1
      BY <2>1, <1>1, FS_AddElement
    <2> QED
      BY <1>2, <1>6, <2>2
  <1> QED
    BY <1>4, <1>5, <1>6 DEF PermitStep

(* Every step keeps the invariant. *)
LEMMA StepInv == ASSUME IInv, [Next]_vars PROVE IInv'
  <1>1. Types /\ Rows /\ InflightIsOpenPermits /\ ContractHolds
    BY TypesBound DEF IInv, Rows
  <1> DEFINE Kept == Types' /\ Rows' /\ QuietStep /\ InflightIsOpenPermits'
  <1>2. ASSUME NEW e \in Effect, Types', Rows', PermitStep(e), QuietStep PROVE Kept
    BY <1>1, <1>2, CountFollows
  <1>3. ASSUME Types', Rows', QuietStep, permit' = permit, fence'.inflight = fence.inflight
        PROVE  Kept
    BY <1>1, <1>3 DEF InflightIsOpenPermits
  <1> HIDE DEF Kept
  <1>4. ASSUME NEW e \in Effect, Dispatch(e) PROVE Kept
    BY <1>1, <1>2, <1>4, ClaimEffectKeeps, ClaimAgainKeeps, LeaveUnstartedKeeps,
       MarkEffectStartedKeeps, AcquireDispatchPermitKeeps, DispatchRefusedKeeps,
       ReadFenceKeeps, AdmitSubEffectKeeps, AdmissionRefusedKeeps DEF Dispatch
  <1>5. ASSUME NEW e \in Effect, Finish(e) PROVE Kept
    BY <1>1, <1>2, <1>5, FinishEffectKeeps, FinishRefusedKeeps, RecordExecutionKeeps,
       RecordRaisesKeeps, CompleteEffectKeeps, CallRaisesKeeps, ReleaseAfterTransportKeeps,
       ReleaseFailsKeeps DEF Finish
  <1>6. ASSUME NEW e \in Effect, Recover(e) PROVE Kept
    BY <1>1, <1>2, <1>6, RecoverPermitKeeps, RecoverStepKeeps, RecoverAttemptKeeps,
       RecoverHeadKeeps DEF Recover
  <1>7. ASSUME NEW e \in Effect,
               HandlerApplies(e) \/ HandlerEnds(e) \/ ExecutionEnds(e) \/ Reconcile(e)
        PROVE  Kept
    BY <1>1, <1>2, <1>7, HandlerAppliesKeeps, HandlerEndsKeeps, ExecutionEndsKeeps,
       ResumeRunKeeps, ReconcileStaleKeeps, ResumeParentKeeps, RecoverFromFactKeeps
       DEF Reconcile
  <1>8. ASSUME NextPhase \/ Crash PROVE Kept
    <2>1. Types' /\ Rows' /\ UNCHANGED <<permit, fence>> /\ QuietStep
      BY <1>1, <1>8, NextPhaseKeeps, CrashKeeps
    <2> QED
      BY <2>1, <1>3
  <1>9. ASSUME Operator PROVE Kept
    <2>1. CASE IncrementActionFence \/ ActivateExecutionContractEpoch
      BY <2>1, <1>1, <1>3, IncrementKeeps, ActivateKeeps
    <2>2. ASSUME NEW e \in Effect, NEW v \in Verdict,
                 RecordReconciliation(e, v)
          PROVE  Kept
      <3>1. Types' /\ Rows' /\ UNCHANGED <<permit, fence>> /\ QuietStep
        BY <2>2, <1>1, ReconciliationKeeps
      <3> QED
        BY <3>1, <1>3
    <2>3. ASSUME NEW x \in Effect, GenerationEnds(x) PROVE Kept
      <3>1. Types' /\ Rows' /\ UNCHANGED <<permit, fence>> /\ QuietStep
        BY <2>3, <1>1, GenerationEndsKeeps
      <3> QED
        BY <3>1, <1>3
    <2> QED
      BY <1>9, <2>1, <2>2, <2>3 DEF Operator
  <1>10. ASSUME UNCHANGED vars PROVE Kept
    <2>1. UNCHANGED <<head, attempt, verdict, permit, fence, contract, revoked, batch, applied, caller,
                      seen, handler, phase, crashes>>
      BY <1>10 DEF vars, store, ledger, volatile
    <2>2. Types'
      BY <1>1, <2>1 DEF Types
    <2>3. Rows'
      BY <1>1, <2>1 DEF Rows, EffectInv, ClaimIsBare, AttemptFits, FactIsTrue, RunningFits,
         NotAwaited, NoThreads, ResultFits
    <2>4. QuietStep
      BY <1>1, <2>1 DEF QuietStep, ContractHolds
    <2> QED
      BY <1>3, <2>1, <2>2, <2>3, <2>4
  <1>11. Kept
    BY <1>4, <1>5, <1>6, <1>7, <1>8, <1>9, <1>10 DEF Next
  <1>12. ContractHolds'
    BY <1>1, <1>11 DEF Kept, ContractHolds, QuietStep, Types
  <1> QED
    BY <1>11, <1>12, TypesBoundNext DEF Kept, IInv, Rows

(* The inductive invariant holds in every reachable state of the ledger. *)
THEOREM LedgerInvariant == Spec => []IInv
BY InitInv, StepInv, PTL DEF Spec

(* The tables of the effect ledger are well typed, and the in-flight count   *)
(* of the action fence is the number of dispatch permits that were given and *)
(* not given back (store.py: acquire_dispatch_permit, complete_effect,       *)
(* release_dispatch_permit_after_transport, the recoveries).                 *)
THEOREM LedgerAlwaysConsistent == Spec => []LedgerConsistent
  <1>1. IInv => LedgerConsistent
    BY DEF IInv, LedgerConsistent
  <1> QED
    BY <1>1, LedgerInvariant, PTL

(* Behind zero traffic and behind the contract epoch no step runs, and       *)
(* behind the contract epoch only what was reconciled as APPLIED while it    *)
(* ran (action_fence_status, activate_execution_contract_epoch).             *)
THEOREM ZeroTrafficAlwaysQuiet == Spec => []ZeroTrafficIsQuiet
  <1>1. ASSUME IInv PROVE ZeroTrafficIsQuiet
    <2>1. ASSUME NEW e \in Steps, handler[e] = "running" PROVE fence.inflight # 0
      <3>1. e \in OpenPermits
        BY <1>1, <2>1 DEF IInv, EffectInv, RunningFits, Steps, Recorded, Subs, OpenPermits
      <3>2. IsFiniteSet(OpenPermits)
        BY EffectAssumption, FS_Subset DEF OpenPermits
      <3> QED
        BY <1>1, <3>1, <3>2, FS_EmptySet DEF IInv, InflightIsOpenPermits, OpenPermits
    <2> QED
      BY <1>1, <2>1 DEF IInv, ZeroTrafficIsQuiet, ZeroTrafficDeclared, ContractHolds
  <1> QED
    BY <1>1, LedgerInvariant, PTL

(* The result that the ledger holds of a tool call or a step is what         *)
(* happened, whoever wrote it first.                                         *)
THEOREM ResultAlwaysTrue == Spec => []ResultIsTrue
  <1>1. IInv => ResultIsTrue
    BY DEF IInv, EffectInv, ResultFits, ResultIsTrue, Permitted, Chains, Steps
  <1> QED
    BY <1>1, LedgerInvariant, PTL

-----------------------------------------------------------------------------
(* Refinement.                                                              *)

(* The moves an effect may make in the ledger. *)
Move ==
    {<<"NONE", "CLAIMED">>, <<"CLAIMED", "SIDE_EFFECT_STARTED">>, <<"CLAIMED", "FAILED_FINAL">>,
     <<"SIDE_EFFECT_STARTED", "FAILED_FINAL">>, <<"SIDE_EFFECT_STARTED", "SUCCEEDED">>,
     <<"SIDE_EFFECT_STARTED", "AMBIGUOUS">>}

HeadStep ==
    \/ \A e \in Recorded : head'[e] = head[e]
    \/ \E e \in Recorded, st \in Open \cup Status :
           <<head[e], st>> \in Move /\ head' = [head EXCEPT ![e] = st]

(* Writing a final status is a move of the boundary or leaves it. *)
LEMMA CompleteMoves ==
    ASSUME Types, NEW e \in Effect, NEW st \in Status, NEW retain, Complete(e, st, retain)
    PROVE  HeadStep
  <1>1. /\ head[e] \in Open /\ (st # "FAILED_FINAL" => head[e] = "SIDE_EFFECT_STARTED")
        /\ head' = [head EXCEPT ![e] = st]
    BY DEF Complete, MayComplete
  <1>2. CASE e \in Subs
    BY <1>1, <1>2 DEF HeadStep, Recorded, Types
  <1>3. CASE e \notin Subs
    <2>1. e \in Recorded
      BY <1>3 DEF Recorded
    <2>2. <<head[e], st>> \in Move
      BY <1>1 DEF Move, Open, Status
    <2> QED
      BY <1>1, <2>1, <2>2 DEF HeadStep
  <1> QED
    BY <1>2, <1>3

(* So is every step before the handler runs, *)
LEMMA DispatchMoves ==
    ASSUME IInv, NEW e \in Effect, Dispatch(e)
    PROVE  HeadStep
  <1>1. Types /\ EffectInv(e)
    BY TypesBound DEF IInv
  <1>2. CASE ClaimEffect(e)
    BY <1>2 DEF ClaimEffect, HeadStep, Move, Open
  <1>3. CASE MarkEffectStarted(e)
    BY <1>3 DEF MarkEffectStarted, Start, HeadStep, Move, Open, Executions, Recorded, Subs
  <1>4. CASE AcquireDispatchPermit(e)
    BY <1>1, <1>4 DEF AcquireDispatchPermit, Start, HeadStep, Move,
       Open, Permitted, Chains, Steps, Recorded, Subs
  <1>5. CASE DispatchRefused(e)
    BY <1>1, <1>5, CompleteMoves DEF DispatchRefused, ledger, HeadStep, Status
  <1>6. CASE AdmitSubEffect(e)
    BY <1>1, <1>6 DEF AdmitSubEffect, HeadStep, Types, Recorded
  <1>7. CASE ClaimAgain(e) \/ LeaveUnstarted(e) \/ ReadFence(e) \/ AdmissionRefused(e)
    BY <1>7 DEF ClaimAgain, LeaveUnstarted, ReadFence, AdmissionRefused, HeadStep, store, ledger
  <1> QED
    BY <1>2, <1>3, <1>4, <1>5, <1>6, <1>7 DEF Dispatch

(* every step after it, *)
LEMMA FinishMoves ==
    ASSUME IInv, NEW e \in Effect, Finish(e)
    PROVE  HeadStep
  <1>1. Types /\ EffectInv(e)
    BY TypesBound DEF IInv
  <1>2. CASE FinishEffect(e)
    BY <1>1, <1>2, CompleteMoves DEF FinishEffect, Reported, ledger, HeadStep, Status
  <1>3. CASE \/ RecordExecution(e) \/ RecordRaises(e) \/ ReleaseAfterTransport(e)
             \/ FinishRefused(e) \/ ReleaseFails(e)
    BY <1>3 DEF RecordExecution, RecordRaises, ReleaseAfterTransport, FinishRefused,
       ReleaseFails, HeadStep, store, ledger
  <1>4. CASE CompleteEffect(e)
    <2>1. batch[e] \in Status
      BY <1>1, <1>4 DEF CompleteEffect, At, EffectInv, FactIsTrue, Types
    <2> QED
      BY <1>1, <1>4, <2>1, CompleteMoves DEF CompleteEffect
  <1>5. CASE CallRaises(e)
    BY <1>1, <1>5, CompleteMoves DEF CallRaises, Status
  <1> QED
    BY <1>2, <1>3, <1>4, <1>5 DEF Finish

(* and every step of the recovery. *)
LEMMA RecoveryMoves ==
    ASSUME IInv, NEW e \in Effect, Recover(e) \/ Reconcile(e)
    PROVE  HeadStep
  <1>1. Types
    BY TypesBound DEF IInv
  <1>2. CASE RecoverPermit(e) \/ RecoverAttempt(e)
    BY <1>2 DEF RecoverPermit, RecoverAttempt, HeadStep
  <1>3. CASE RecoverStep(e)
    <2> DEFINE st == IF batch[e] = "NONE" THEN "AMBIGUOUS" ELSE batch[e]
    <2>1. st \in Status
      BY <1>1 DEF Types, Status
    <2>2. Complete(e, st, FALSE)
      BY <1>3 DEF RecoverStep
    <2> HIDE DEF st
    <2> QED
      BY <1>1, <2>1, <2>2, CompleteMoves
  <1>4. CASE RecoverHead(e)
    BY <1>1, <1>4, CompleteMoves DEF RecoverHead, RecoveredStatus, Status
  <1>5. CASE ReconcileStale(e)
    BY <1>1, <1>5, CompleteMoves DEF ReconcileStale, Status
  <1>6. CASE RecoverFromFact(e)
    BY <1>1, <1>6, CompleteMoves DEF RecoverFromFact, Types
  <1>7. CASE ResumeRun(e)
    <2> DEFINE st == IF head[e] = "CLAIMED" THEN "FAILED_FINAL" ELSE "AMBIGUOUS"
    <2>1. st \in Status /\ Complete(e, st, FALSE)
      BY <1>7 DEF ResumeRun, Status
    <2> HIDE DEF st
    <2> QED
      BY <1>1, <2>1, CompleteMoves
  <1>8. CASE ResumeParent(e)
    <2> DEFINE st == IF batch[e] = "SUCCEEDED" THEN "SUCCEEDED"
                     ELSE IF head[e] = "CLAIMED" THEN "FAILED_FINAL" ELSE "AMBIGUOUS"
    <2>1. st \in Status /\ Complete(e, st, FALSE)
      BY <1>8 DEF ResumeParent, Status
    <2> HIDE DEF st
    <2> QED
      BY <1>1, <2>1, CompleteMoves
  <1> QED
    BY <1>2, <1>3, <1>4, <1>5, <1>6, <1>7, <1>8 DEF Recover, Reconcile

(* Every step moves at most one effect, by a move of the boundary. *)
LEMMA EveryStepMoves == ASSUME IInv, [Next]_vars PROVE HeadStep
  <1>1. ASSUME NEW e \in Effect, HandlerApplies(e) \/ HandlerEnds(e) \/ ExecutionEnds(e)
        PROVE  HeadStep
    BY <1>1 DEF HandlerApplies, HandlerEnds, ExecutionEnds, HeadStep, store, ledger
  <1>2. CASE NextPhase \/ Crash \/ Operator \/ UNCHANGED vars
    BY <1>2 DEF NextPhase, Crash, Operator, IncrementActionFence, RecordReconciliation,
       GenerationEnds, ActivateExecutionContractEpoch, HeadStep, vars, store, ledger
  <1> QED
    BY <1>1, <1>2, DispatchMoves, FinishMoves, RecoveryMoves DEF Next

PhaseMap == [e \in Recorded |-> PhaseOf(head[e])]

(* Such a step is a step of the boundary or a stutter. *)
LEMMA MoveMaps ==
    ASSUME Types, HeadStep
    PROVE  Boundary!EBNext \/ PhaseMap' = PhaseMap
  <1>1. CASE \A e \in Recorded : head'[e] = head[e]
    BY <1>1 DEF PhaseMap
  <1>2. ASSUME NEW e \in Recorded, NEW st \in Open \cup Status,
               <<head[e], st>> \in Move, head' = [head EXCEPT ![e] = st]
        PROVE  Boundary!EBNext
    <2>1. PhaseMap' = [PhaseMap EXCEPT ![e] = PhaseOf(st)] /\ PhaseMap[e] = PhaseOf(head[e])
      <3>1. \A x \in Recorded : head'[x] = IF x = e THEN st ELSE head[x]
        BY <1>2 DEF Types, Recorded
      <3> QED
        BY <3>1 DEF PhaseMap
    <2>2. CASE head[e] = "NONE" /\ st = "CLAIMED"
      <3>1. PhaseMap[e] = "absent" /\ PhaseOf(st) = "claimed"
        BY <2>1, <2>2 DEF PhaseOf
      <3> QED
        BY <2>1, <3>1 DEF Boundary!EBNext, Boundary!Claim, PhaseMap
    <2>3. CASE head[e] = "CLAIMED" /\ st = "SIDE_EFFECT_STARTED"
      <3>1. PhaseMap[e] = "claimed" /\ PhaseOf(st) = "crossed"
        BY <2>1, <2>3 DEF PhaseOf
      <3> QED
        BY <2>1, <3>1 DEF Boundary!EBNext, Boundary!Cross, PhaseMap
    <2>4. CASE head[e] \in Open /\ st = "FAILED_FINAL"
      <3>1. PhaseMap[e] \in {"claimed", "crossed"} /\ PhaseOf(st) = "failed"
        BY <2>1, <2>4 DEF PhaseOf, Open
      <3> QED
        BY <2>1, <3>1 DEF Boundary!EBNext, Boundary!Fail, PhaseMap
    <2>5. CASE head[e] = "SIDE_EFFECT_STARTED" /\ st = "SUCCEEDED"
      <3>1. PhaseMap[e] = "crossed" /\ PhaseOf(st) = "accepted"
        BY <2>1, <2>5 DEF PhaseOf
      <3> QED
        BY <2>1, <3>1 DEF Boundary!EBNext, Boundary!Accept, PhaseMap
    <2>6. CASE head[e] = "SIDE_EFFECT_STARTED" /\ st = "AMBIGUOUS"
      <3>1. PhaseMap[e] = "crossed" /\ PhaseOf(st) = "unknown"
        BY <2>1, <2>6 DEF PhaseOf
      <3>2. PhaseMap' = [x \in Recorded |-> IF x \in {e} THEN "unknown" ELSE PhaseMap[x]]
        BY <2>1, <3>1 DEF PhaseMap
      <3>3. Boundary!Lose({e})
        BY <3>1, <3>2 DEF Boundary!Lose, PhaseMap
      <3> QED
        BY <3>3 DEF Boundary!EBNext
    <2> QED
      BY <1>2, <2>2, <2>3, <2>4, <2>5, <2>6 DEF Move, Open
  <1> QED
    BY <1>1, <1>2 DEF HeadStep

(* The effect ledger implements the abstract effect boundary: an effect is   *)
(* claimed before it crosses, crosses once, and its result is final.         *)
THEOREM LedgerRefinesBoundary == Spec => ImplementsBoundary
  <1>1. Init => Boundary!EBInit
    BY DEF Init, Boundary!EBInit, PhaseOf, Recorded
  <1>2. ASSUME IInv, [Next]_vars PROVE [Boundary!EBNext]_PhaseMap
    BY <1>2, EveryStepMoves, MoveMaps, TypesBound DEF IInv
  <1>3. [Boundary!EBNext]_PhaseMap => [Boundary!EBNext]_([e \in Recorded |-> PhaseOf(head[e])])
    BY DEF PhaseMap
  <1> QED
    BY <1>1, <1>2, <1>3, LedgerInvariant, PTL DEF Spec, ImplementsBoundary, Boundary!EBSpec
=============================================================================
