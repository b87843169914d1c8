------------------------ MODULE AggregateStateProofs ------------------------
(***************************************************************************)
(* Proofs about AggregateState, for every set of entities, events, times   *)
(* and outbox identities.                                                  *)
(*                                                                         *)
(* The inductive invariant adds two facts to the properties: the types of  *)
(* the tables, and that an event id has one entry in the log.  The first   *)
(* is what the arithmetic on revisions needs, the second follows from the  *)
(* guard of ApplyEvent and is what makes an entry the only one of its      *)
(* event.  What is claimed of a request needs a third: every applied event *)
(* was lawful, and an entity without one is in its first state.            *)
(***************************************************************************)
EXTENDS AggregateState, TLAPS

Types ==
    /\ snapshot \in [Entity -> Snapshot \cup {NoSnapshot}]
    /\ log \subseteq Entry
    /\ rows \in [OutboxId -> EventId \cup {NoEvent}]

OneEntryPerEvent == \A x, y \in log : x.event.id = y.event.id => x = y

IInv == Types /\ OneEntryPerEvent /\ FullEventChain /\ RowsFollowEvents

-----------------------------------------------------------------------------
(* What apply_transition guarantees of an event that it applies. *)
LEMMA AppliedMeansCurrent ==
    ASSUME NEW m, NEW s, NEW ev,
           Disposition(m, s, ev, FALSE) = "APPLIED"
    PROVE  /\ ev.expectedRevision = s.revision
           /\ ~ (ev.at < s.at)
           /\ ~ IsTerminal(m, s.state)
           /\ Legal(m, s.state, ev.to)
BY DEF Disposition, RevisionConflict, Backdated

(* apply_transition always answers with one of its dispositions. *)
LEMMA DispositionType ==
    ASSUME NEW m, NEW s, NEW ev
    PROVE  Disposition(m, s, ev, FALSE) \in DISPOSITIONS
BY DEF Disposition, DISPOSITIONS

(* The snapshot that an event leaves is a snapshot. *)
LEMMA AppliedType ==
    ASSUME NEW s \in Snapshot, NEW ev \in EventType
    PROVE  /\ Applied(s, ev) \in Snapshot
           /\ Applied(s, ev).revision = s.revision + 1
           /\ Applied(s, ev).generation = s.generation
           /\ Applied(s, ev).at = ev.at
           /\ Applied(s, ev).lastEvent = ev.id
<1>1. /\ ev.at \in Times /\ ev.to \in State /\ ev.id \in EventId
      /\ s.generation \in Nat /\ s.revision \in Nat
  BY DEF Snapshot, EventType
<1> QED BY <1>1 DEF Applied, Snapshot

-----------------------------------------------------------------------------
(* The effect of one submission, in the terms that the invariant needs. *)

NewEntry(ev) ==
    LET s == snapshot[ev.entity]
        d == Disposition(MachineOf[ev.entity], s, ev, FALSE)
    IN  [event |-> ev, disposition |-> d, before |-> s,
         after |-> IF d = "APPLIED" THEN Applied(s, ev) ELSE s]

(* The types of what apply_event writes. *)
LEMMA ApplyTypes ==
    ASSUME Types, NEW ev \in Event, ApplyEvent(ev)
    PROVE  /\ ev \in EventType
           /\ ev.entity \in Entity
           /\ snapshot[ev.entity] \in Snapshot
           /\ NewEntry(ev) \in Entry
           /\ NewEntry(ev).event = ev
           /\ NewEntry(ev).before = snapshot[ev.entity]
           /\ log' = log \cup {NewEntry(ev)}
           /\ snapshot' = [snapshot EXCEPT ![ev.entity] = NewEntry(ev).after]
           /\ \A x \in log : x.event.id # ev.id
<1>1. ev \in EventType
  BY AggregateAssumption
<1>2. ev.entity \in Entity
  BY <1>1 DEF EventType
<1>3. snapshot[ev.entity] \in Snapshot
  BY <1>2 DEF Types, ApplyEvent
<1> DEFINE d == Disposition(MachineOf[ev.entity], snapshot[ev.entity], ev, FALSE)
<1>4. d \in DISPOSITIONS
  BY DispositionType
<1>5. Applied(snapshot[ev.entity], ev) \in Snapshot
  BY <1>1, <1>3, AppliedType
<1>6. NewEntry(ev) \in Entry
  <2> HIDE DEF d
  <2>1. NewEntry(ev) = [event |-> ev, disposition |-> d, before |-> snapshot[ev.entity],
                        after |-> IF d = "APPLIED" THEN Applied(snapshot[ev.entity], ev)
                                  ELSE snapshot[ev.entity]]
    BY DEF NewEntry, d
  <2> QED BY <2>1, <1>3, <1>4, <1>5 DEF Entry
<1>7. NewEntry(ev).event = ev /\ NewEntry(ev).before = snapshot[ev.entity]
  BY DEF NewEntry
<1>8. /\ log' = log \cup {NewEntry(ev)}
      /\ snapshot' = [snapshot EXCEPT ![ev.entity] = NewEntry(ev).after]
  BY DEF ApplyEvent, NewEntry
<1>9. \A x \in log : x.event.id # ev.id
  BY DEF ApplyEvent, Known
<1> QED BY <1>1, <1>2, <1>3, <1>6, <1>7, <1>8, <1>9

(* An accepted submission: revision and snapshot move on by one. *)
LEMMA AcceptedStep ==
    ASSUME Types, NEW ev \in Event, ApplyEvent(ev),
           NewEntry(ev).disposition = "APPLIED"
    PROVE  /\ NewEntry(ev).after = Applied(snapshot[ev.entity], ev)
           /\ NewEntry(ev).after.revision = snapshot[ev.entity].revision + 1
           /\ NewEntry(ev).after.lastEvent = ev.id
           /\ ev.expectedRevision = snapshot[ev.entity].revision
           /\ rows' = Linked(ev)
           /\ \A o \in ev.intents : rows[o] = NoEvent
<1> DEFINE d == Disposition(MachineOf[ev.entity], snapshot[ev.entity], ev, FALSE)
<1>1. d = "APPLIED"
  BY DEF NewEntry
<1>2. ev \in EventType /\ snapshot[ev.entity] \in Snapshot
  BY ApplyTypes
<1>3. ev.expectedRevision = snapshot[ev.entity].revision
  <2>1. \A m, s : Disposition(m, s, ev, FALSE) = "APPLIED" => ev.expectedRevision = s.revision
    BY AppliedMeansCurrent
  <2> QED BY <1>1, <2>1
<1>4. NewEntry(ev).after = Applied(snapshot[ev.entity], ev)
  BY <1>1 DEF NewEntry
<1>5. rows' = Linked(ev) /\ \A o \in ev.intents : rows[o] = NoEvent
  BY <1>1 DEF ApplyEvent
<1> QED BY <1>2, <1>3, <1>4, <1>5, AppliedType

(* A refused submission leaves snapshots and rows alone. *)
LEMMA RefusedStep ==
    ASSUME Types, NEW ev \in Event, ApplyEvent(ev),
           NewEntry(ev).disposition # "APPLIED"
    PROVE  /\ NewEntry(ev).after = NewEntry(ev).before
           /\ snapshot' = snapshot
           /\ rows' = rows
<1> DEFINE d == Disposition(MachineOf[ev.entity], snapshot[ev.entity], ev, FALSE)
<1>1. d # "APPLIED"
  BY DEF NewEntry
<1>2. NewEntry(ev).after = snapshot[ev.entity] /\ NewEntry(ev).before = snapshot[ev.entity]
  BY <1>1 DEF NewEntry
<1>3. snapshot' = snapshot
  BY <1>2, ApplyTypes DEF Types
<1>4. rows' = rows
  BY <1>1 DEF ApplyEvent
<1> QED BY <1>2, <1>3, <1>4

-----------------------------------------------------------------------------
(* Each part of the invariant, preserved by a submission. *)

(* Applying an event keeps the types, *)
LEMMA ApplyKeepsTypes ==
    ASSUME Types, NEW ev \in Event, ApplyEvent(ev)
    PROVE  Types'
<1>1. log' \subseteq Entry
  BY ApplyTypes DEF Types
<1>2. snapshot' \in [Entity -> Snapshot \cup {NoSnapshot}]
  <2>1. NewEntry(ev).after \in Snapshot
    BY ApplyTypes DEF Entry
  <2> QED BY <2>1, ApplyTypes DEF Types
<1>3. rows' \in [OutboxId -> EventId \cup {NoEvent}]
  <2>1. CASE NewEntry(ev).disposition = "APPLIED"
    <3>1. rows' = Linked(ev) /\ ev \in EventType
      BY <2>1, AcceptedStep, ApplyTypes
    <3> QED BY <3>1 DEF Linked, EventType, Types
  <2>2. CASE NewEntry(ev).disposition # "APPLIED"
    BY <2>2, RefusedStep DEF Types
  <2> QED BY <2>1, <2>2
<1> QED BY <1>1, <1>2, <1>3 DEF Types

(* the single entry of each event, *)
LEMMA ApplyKeepsOneEntry ==
    ASSUME Types, OneEntryPerEvent, NEW ev \in Event, ApplyEvent(ev)
    PROVE  OneEntryPerEvent'
BY ApplyTypes DEF OneEntryPerEvent

(* and the rows that follow the events. *)
LEMMA ApplyKeepsRows ==
    ASSUME Types, RowsFollowEvents, NEW ev \in Event, ApplyEvent(ev)
    PROVE  RowsFollowEvents'
<1>1. /\ log' = log \cup {NewEntry(ev)}
      /\ NewEntry(ev).event = ev
      /\ ev \in EventType
      /\ \A x \in log : x.event \in EventType
  BY ApplyTypes, AggregateAssumption DEF Types, Entry
<1>2. ev.id # NoEvent /\ \A x \in log : x.event.id # NoEvent
  BY <1>1, AggregateAssumption DEF EventType
<1>3. CASE NewEntry(ev).disposition = "APPLIED"
  <2>1. rows' = Linked(ev) /\ \A o \in ev.intents : rows[o] = NoEvent
    BY <1>3, AcceptedStep
  <2>2. \A o \in OutboxId : rows'[o] = IF o \in ev.intents THEN ev.id ELSE rows[o]
    BY <2>1 DEF Linked
  <2> SUFFICES ASSUME NEW o \in OutboxId
               PROVE  /\ rows'[o] # NoEvent =>
                            \E x \in log' : /\ x.disposition = "APPLIED"
                                            /\ x.event.id = rows'[o] /\ o \in x.event.intents
                      /\ \A x \in log' : x.disposition = "APPLIED" /\ o \in x.event.intents =>
                            rows'[o] = x.event.id
    BY DEF RowsFollowEvents
  <2>3. CASE o \in ev.intents
    <3>1. rows'[o] = ev.id /\ rows[o] = NoEvent
      BY <2>1, <2>2, <2>3
    <3>2. \A x \in log : ~ (x.disposition = "APPLIED" /\ o \in x.event.intents)
      BY <3>1, <1>2 DEF RowsFollowEvents
    <3> QED BY <3>1, <3>2, <1>1, <1>3, <2>3
  <2>4. CASE o \notin ev.intents
    <3>1. rows'[o] = rows[o]
      BY <2>2, <2>4
    <3> QED BY <3>1, <1>1, <2>4 DEF RowsFollowEvents
  <2> QED BY <2>3, <2>4
<1>4. CASE NewEntry(ev).disposition # "APPLIED"
  <2>1. rows' = rows
    BY <1>4, RefusedStep
  <2> QED BY <2>1, <1>1, <1>4 DEF RowsFollowEvents
<1> QED BY <1>3, <1>4

(* A refused submission does not touch the accepted events. *)
LEMMA RefusedKeepsChain ==
    ASSUME Types, FullEventChain, NEW ev \in Event, ApplyEvent(ev),
           NewEntry(ev).disposition # "APPLIED"
    PROVE  FullEventChain'
<1>1. /\ log' = log \cup {NewEntry(ev)}
      /\ NewEntry(ev).after = NewEntry(ev).before
      /\ snapshot' = snapshot
  BY ApplyTypes, RefusedStep
<1>2. \A e : AcceptedOf(e)' = AcceptedOf(e)
  BY <1>1 DEF AcceptedOf
<1>3. Present' = Present
  BY <1>1 DEF Present
<1>4. RefusalsChangeNothing'
  BY <1>1 DEF FullEventChain, RefusalsChangeNothing
<1>5. EventsLink'
  BY <1>1, <1>2 DEF FullEventChain, EventsLink
<1>6. RevisionsContiguous'
  BY <1>1, <1>2, <1>3 DEF FullEventChain, RevisionsContiguous
<1>7. HeadIsCurrent'
  BY <1>1, <1>2, <1>3 DEF FullEventChain, HeadIsCurrent
<1> QED BY <1>4, <1>5, <1>6, <1>7 DEF FullEventChain

(* An accepted submission extends the chain of its entity by one link, whose *)
(* tail is the snapshot that was current.                                    *)
LEMMA AcceptedExtendsChain ==
    ASSUME Types, FullEventChain, NEW ev \in Event, ApplyEvent(ev),
           NewEntry(ev).disposition = "APPLIED"
    PROVE  FullEventChain'
<1> DEFINE n == NewEntry(ev)
           f == ev.entity
           s == snapshot[f]
<1>1. /\ log' = log \cup {n}
      /\ n.event = ev /\ n.before = s /\ n \in Entry
      /\ f \in Entity /\ s \in Snapshot /\ s # NoSnapshot
      /\ snapshot' = [snapshot EXCEPT ![f] = n.after]
      /\ \A x \in log : x.event.id # ev.id
  BY ApplyTypes, AggregateAssumption
<1>2. /\ n.after.revision = s.revision + 1
      /\ n.after.lastEvent = ev.id
      /\ ev.expectedRevision = s.revision
      /\ n.disposition = "APPLIED"
  BY AcceptedStep
<1>3. n.after \in Snapshot /\ n.after # NoSnapshot
  BY <1>1, AggregateAssumption DEF Entry
<1> HIDE DEF n
<1>4. /\ snapshot'[f] = n.after
      /\ \A e \in Entity : e # f => snapshot'[e] = snapshot[e]
  BY <1>1 DEF Types
<1>5. Present' = Present /\ f \in Present
  BY <1>1, <1>3, <1>4 DEF Present
<1>6. /\ AcceptedOf(f)' = AcceptedOf(f) \cup {n}
      /\ \A e \in Entity : e # f => AcceptedOf(e)' = AcceptedOf(e)
  BY <1>1, <1>2 DEF AcceptedOf
<1>7. \A x \in AcceptedOf(f) :
         /\ x.before.revision \in Nat /\ x.after.revision \in Nat
         /\ x.after.revision = x.before.revision + 1
         /\ x.after.revision <= s.revision
  <2>1. \A x \in AcceptedOf(f) : x.before.revision \in Nat /\ x.after.revision \in Nat
    BY DEF AcceptedOf, Types, Entry, Snapshot
  <2> QED BY <2>1, <1>1 DEF FullEventChain, EventsLink
<1>8. s.revision \in Nat
  BY <1>1 DEF Snapshot
<1>9. RefusalsChangeNothing'
  BY <1>1, <1>2 DEF FullEventChain, RefusalsChangeNothing
<1>10. EventsLink'
  <2> SUFFICES ASSUME NEW e \in Entity, NEW x \in AcceptedOf(e)'
               PROVE  /\ snapshot'[e] # NoSnapshot
                      /\ x.before.revision = x.event.expectedRevision
                      /\ x.after.revision = x.before.revision + 1
                      /\ x.after.revision <= snapshot'[e].revision
                      /\ \A y \in AcceptedOf(e)' :
                            /\ y.after.revision = x.after.revision => y = x
                            /\ y.before.revision = x.after.revision => y.before = x.after
    BY DEF EventsLink
  <2>1. CASE e # f
    BY <2>1, <1>4, <1>6 DEF FullEventChain, EventsLink
  <2>2. CASE e = f /\ x = n
    <3>1. \A y \in AcceptedOf(f) : /\ y.after.revision # n.after.revision
                                   /\ y.before.revision # n.after.revision
      BY <1>2, <1>7, <1>8
    <3>2. n.before.revision # n.after.revision
      BY <1>1, <1>2, <1>8
    <3>3. n.after.revision <= n.after.revision
      BY <1>2, <1>8
    <3> QED BY <2>2, <3>1, <3>2, <3>3, <1>1, <1>2, <1>3, <1>4, <1>6
  <2>3. CASE e = f /\ x \in AcceptedOf(f)
    <3>1. x.after.revision <= snapshot'[f].revision
      BY <2>3, <1>2, <1>4, <1>7, <1>8
    <3>2. n.after.revision # x.after.revision
      BY <2>3, <1>2, <1>7, <1>8
    <3>3. n.before.revision = x.after.revision => n.before = x.after
      <4> SUFFICES ASSUME s.revision = x.after.revision PROVE s = x.after
        BY <1>1
      <4>1. s.revision # 0
        BY <2>3, <1>7
      <4>2. PICK z \in AcceptedOf(f) : z.after = s
        BY <4>1, <1>5 DEF FullEventChain, HeadIsCurrent
      <4>3. z = x
        BY <4>2, <2>3, <1>1 DEF FullEventChain, EventsLink
      <4> QED BY <4>2, <4>3
    <3>4. \A y \in AcceptedOf(f) :
             /\ y.after.revision = x.after.revision => y = x
             /\ y.before.revision = x.after.revision => y.before = x.after
      BY <2>3, <1>1 DEF FullEventChain, EventsLink
    <3>5. x.before.revision = x.event.expectedRevision
      BY <2>3, <1>1 DEF FullEventChain, EventsLink
    <3> QED BY <2>3, <3>1, <3>2, <3>3, <3>4, <3>5, <1>3, <1>4, <1>6, <1>7
  <2> QED BY <2>1, <2>2, <2>3, <1>6
<1>11. RevisionsContiguous'
  <2> SUFFICES ASSUME NEW e \in Present, NEW k \in 1 .. snapshot'[e].revision
               PROVE  \E x \in AcceptedOf(e)' : x.after.revision = k
    BY <1>5 DEF RevisionsContiguous
  <2>1. e \in Entity
    BY DEF Present
  <2>2. CASE e # f
    BY <2>1, <2>2, <1>4, <1>6 DEF FullEventChain, RevisionsContiguous
  <2>3. CASE e = f /\ k = s.revision + 1
    BY <2>3, <1>2, <1>6
  <2>4. CASE e = f /\ k # s.revision + 1
    <3>1. k \in 1 .. s.revision
      BY <2>4, <1>2, <1>4, <1>8
    <3> QED BY <3>1, <2>4, <1>5, <1>6 DEF FullEventChain, RevisionsContiguous
  <2> QED BY <2>2, <2>3, <2>4
<1>12. HeadIsCurrent'
  <2> SUFFICES ASSUME NEW e \in Present
               PROVE  IF snapshot'[e].revision = 0 THEN snapshot'[e].lastEvent = NoEvent
                      ELSE \E x \in AcceptedOf(e)' :
                             x.event.id = snapshot'[e].lastEvent /\ x.after = snapshot'[e]
    BY <1>5 DEF HeadIsCurrent
  <2>1. e \in Entity
    BY DEF Present
  <2>2. CASE e # f
    BY <2>1, <2>2, <1>4, <1>6 DEF FullEventChain, HeadIsCurrent
  <2>3. CASE e = f
    BY <2>3, <1>1, <1>2, <1>4, <1>6, <1>8
  <2> QED BY <2>2, <2>3
<1> QED BY <1>9, <1>10, <1>11, <1>12 DEF FullEventChain

(* A new snapshot has no accepted event, because accepted events need one. *)
LEMMA InitializeKeepsInv ==
    ASSUME IInv, NEW e \in Entity, NEW s \in State, NEW at \in Times,
           InitializeSnapshot(e, s, at)
    PROVE  IInv'
<1> DEFINE t == [generation |-> Generation, revision |-> 0, at |-> at, state |-> s,
                 lastEvent |-> NoEvent]
<1>1. t \in Snapshot /\ t # NoSnapshot
  BY AggregateAssumption DEF Snapshot
<1>2. /\ log' = log /\ rows' = rows
      /\ snapshot' = [snapshot EXCEPT ![e] = t]
      /\ snapshot[e] = NoSnapshot
  BY DEF InitializeSnapshot
<1>3. t.revision = 0 /\ t.lastEvent = NoEvent
  OBVIOUS
<1> HIDE DEF t
<1>4. /\ snapshot'[e] = t
      /\ \A f \in Entity : f # e => snapshot'[f] = snapshot[f]
  BY <1>2 DEF IInv, Types
<1>5. \A f : AcceptedOf(f)' = AcceptedOf(f)
  BY <1>2 DEF AcceptedOf
<1>6. AcceptedOf(e) = {}
  BY <1>2 DEF IInv, FullEventChain, EventsLink
<1>7. Types'
  BY <1>1, <1>2 DEF IInv, Types
<1>8. OneEntryPerEvent' /\ RowsFollowEvents' /\ RefusalsChangeNothing'
  BY <1>2 DEF IInv, OneEntryPerEvent, RowsFollowEvents, FullEventChain, RefusalsChangeNothing
<1>9. EventsLink'
  BY <1>4, <1>5, <1>6 DEF IInv, FullEventChain, EventsLink
<1>10. \A f \in Present' : f = e \/ (f \in Present /\ f # e /\ snapshot'[f] = snapshot[f])
  BY <1>4 DEF Present
<1>11. RevisionsContiguous'
  BY <1>3, <1>4, <1>5, <1>10 DEF IInv, FullEventChain, RevisionsContiguous
<1>12. HeadIsCurrent'
  BY <1>3, <1>4, <1>5, <1>10 DEF IInv, FullEventChain, HeadIsCurrent
<1> QED BY <1>7, <1>8, <1>9, <1>11, <1>12 DEF IInv, FullEventChain

(* Applying an event keeps the invariant. *)
LEMMA ApplyKeepsInv ==
    ASSUME IInv, NEW ev \in Event, ApplyEvent(ev)
    PROVE  IInv'
<1>1. Types' /\ OneEntryPerEvent' /\ RowsFollowEvents'
  BY ApplyKeepsTypes, ApplyKeepsOneEntry, ApplyKeepsRows DEF IInv
<1>2. FullEventChain'
  BY RefusedKeepsChain, AcceptedExtendsChain DEF IInv
<1> QED BY <1>1, <1>2 DEF IInv

(* So does a stuttering step. *)
LEMMA StutterKeepsInv ==
    ASSUME IInv, UNCHANGED vars
    PROVE  IInv'
<1>1. log' = log /\ snapshot' = snapshot /\ rows' = rows
  BY DEF vars
<1>2. Present' = Present /\ \A e : AcceptedOf(e)' = AcceptedOf(e)
  BY <1>1 DEF Present, AcceptedOf
<1>3. Types' /\ OneEntryPerEvent' /\ RowsFollowEvents'
  BY <1>1 DEF IInv, Types, OneEntryPerEvent, RowsFollowEvents
<1>4. RefusalsChangeNothing' /\ EventsLink' /\ RevisionsContiguous' /\ HeadIsCurrent'
  BY <1>1, <1>2 DEF IInv, FullEventChain, RefusalsChangeNothing, EventsLink,
                    RevisionsContiguous, HeadIsCurrent
<1> QED BY <1>3, <1>4 DEF IInv, FullEventChain

-----------------------------------------------------------------------------
(* The theorems. *)

(* The inductive invariant holds in every reachable state of the store. *)
THEOREM AggregateInvariant == Spec => []IInv
<1>1. Init => IInv
  BY DEF Init, IInv, Types, OneEntryPerEvent, RowsFollowEvents, FullEventChain,
         RefusalsChangeNothing, EventsLink, RevisionsContiguous, HeadIsCurrent,
         AcceptedOf, Present
<1>2. IInv /\ [Next]_vars => IInv'
  <2> SUFFICES ASSUME IInv, [Next]_vars PROVE IInv'
    OBVIOUS
  <2>1. ASSUME NEW e \in Entity, NEW s \in State, NEW at \in Times,
               InitializeSnapshot(e, s, at)
        PROVE  IInv'
    BY <2>1, InitializeKeepsInv
  <2>2. ASSUME NEW ev \in Event, ApplyEvent(ev)
        PROVE  IInv'
    BY <2>2, ApplyKeepsInv
  <2>3. ASSUME NEW ev \in Event, RepeatEvent(ev)
        PROVE  IInv'
    BY <2>3, StutterKeepsInv DEF RepeatEvent
  <2>4. CASE UNCHANGED vars
    BY <2>4, StutterKeepsInv
  <2> QED BY <2>1, <2>2, <2>3, <2>4 DEF Next
<1> QED BY <1>1, <1>2, PTL DEF Spec

(* The integrity scan that runs whenever the gateway store is opened         *)
(* (_verify_full_event_chain) never refuses a store that                     *)
(* apply_event_with_outbox wrote: for any events, submitted in any order and *)
(* any number of times.                                                      *)
THEOREM ChainAlwaysVerifies == Spec => []FullEventChain
<1>1. IInv => FullEventChain
  BY DEF IInv
<1> QED BY <1>1, AggregateInvariant, PTL

(* The outbox rows are exactly the intents of the accepted events            *)
(* (apply_event_with_outbox): an intent is never lost by a repetition nor    *)
(* created by a refusal.                                                     *)
THEOREM OutboxFollowsEvents == Spec => []RowsFollowEvents
<1>1. IInv => RowsFollowEvents
  BY DEF IInv
<1> QED BY <1>1, AggregateInvariant, PTL

(* History only goes forward: a log entry is never lost, and an entity       *)
(* changes one revision at a time, never backwards in time, never after it   *)
(* became terminal (apply_transition, apply_event_with_outbox).              *)
THEOREM HistoryOnlyForward == Spec => OnlyForward
<1> DEFINE Forward ==
       /\ log \subseteq log'
       /\ \A e \in Present : snapshot'[e] # snapshot[e] =>
            /\ snapshot'[e].revision = snapshot[e].revision + 1
            /\ snapshot'[e].at >= snapshot[e].at
            /\ snapshot'[e].generation = snapshot[e].generation
            /\ ~ IsTerminal(MachineOf[e], snapshot[e].state)
<1>1. IInv /\ [Next]_vars => [Forward]_vars
  <2> SUFFICES ASSUME IInv, [Next]_vars PROVE Forward \/ UNCHANGED vars
    OBVIOUS
  <2>1. ASSUME NEW e \in Entity, NEW s \in State, NEW at \in Times,
               InitializeSnapshot(e, s, at)
        PROVE  Forward
    <3>1. \A f \in Present : snapshot'[f] = snapshot[f]
      BY <2>1 DEF InitializeSnapshot, Present, IInv, Types
    <3>2. log' = log
      BY <2>1 DEF InitializeSnapshot
    <3> QED BY <3>1, <3>2
  <2>2. ASSUME NEW ev \in Event, ApplyEvent(ev)
        PROVE  Forward
    <3> DEFINE f == ev.entity
               d == Disposition(MachineOf[f], snapshot[f], ev, FALSE)
    <3>1. /\ log \subseteq log' /\ ev \in EventType
          /\ f \in Entity /\ snapshot[f] \in Snapshot
          /\ snapshot' = [snapshot EXCEPT ![f] = NewEntry(ev).after]
      BY <2>2, ApplyTypes DEF IInv
    <3>2. CASE NewEntry(ev).disposition = "APPLIED"
      <4>1. d = "APPLIED"
        BY <3>2 DEF NewEntry
      <4>2. ~ (ev.at < snapshot[f].at) /\ ~ IsTerminal(MachineOf[f], snapshot[f].state)
        BY <4>1, AppliedMeansCurrent
      <4>3. snapshot'[f] = Applied(snapshot[f], ev)
        BY <3>1, <3>2, <2>2, AcceptedStep DEF IInv, Types
      <4>4. /\ snapshot'[f].revision = snapshot[f].revision + 1
            /\ snapshot'[f].generation = snapshot[f].generation
            /\ snapshot'[f].at = ev.at
        BY <4>3, <3>1, AppliedType
      <4>5. ev.at \in Nat /\ snapshot[f].at \in Nat
        BY <3>1, AggregateAssumption DEF EventType, Snapshot
      <4>6. snapshot'[f].at >= snapshot[f].at
        BY <4>2, <4>4, <4>5
      <4>7. \A e \in Present : e # f => snapshot'[e] = snapshot[e]
        BY <3>1 DEF IInv, Types, Present
      <4> HIDE DEF f
      <4> QED BY <3>1, <4>2, <4>4, <4>6, <4>7
    <3>3. CASE NewEntry(ev).disposition # "APPLIED"
      BY <3>1, <3>3, <2>2, RefusedStep DEF IInv
    <3> QED BY <3>2, <3>3
  <2>3. ASSUME NEW ev \in Event, RepeatEvent(ev)
        PROVE  UNCHANGED vars
    BY <2>3 DEF RepeatEvent
  <2> QED BY <2>1, <2>2, <2>3 DEF Next
<1> QED BY <1>1, AggregateInvariant, PTL DEF Spec, OnlyForward

-----------------------------------------------------------------------------
(* The transition tables of the contract never lead out of a machine.        *)
LEMMA LegalStaysInMachine ==
    ASSUME NEW m \in Machine, NEW from, NEW to, Legal(m, from, to)
    PROVE  to \in STATE_VALUES[m]
<1>1. CASE m = "request"
  <2>1. from \in DOMAIN RequestTransitions /\ to \in RequestTransitions[from]
    BY <1>1 DEF Legal, TRANSITIONS
  <2>2. \A f \in DOMAIN RequestTransitions : RequestTransitions[f] \subseteq STATE_VALUES.request
    BY DEF RequestTransitions, STATE_VALUES, Dropped
  <2> QED BY <1>1, <2>1, <2>2
<1>2. CASE m = "execution"
  <2>1. from \in DOMAIN ExecutionTransitions /\ to \in ExecutionTransitions[from]
    BY <1>2 DEF Legal, TRANSITIONS
  <2>2. \A f \in DOMAIN ExecutionTransitions : ExecutionTransitions[f] \subseteq STATE_VALUES.execution
    BY DEF ExecutionTransitions, STATE_VALUES, Withdrawn, Failures
  <2> QED BY <1>2, <2>1, <2>2
<1>3. CASE m = "artifact"
  <2>1. from \in DOMAIN ArtifactTransitions /\ to \in ArtifactTransitions[from]
    BY <1>3 DEF Legal, TRANSITIONS
  <2>2. \A f \in DOMAIN ArtifactTransitions : ArtifactTransitions[f] \subseteq STATE_VALUES.artifact
    BY DEF ArtifactTransitions, STATE_VALUES
  <2> QED BY <1>3, <2>1, <2>2
<1>4. CASE m = "delivery"
  <2>1. from \in DOMAIN DeliveryTransitions /\ to \in DeliveryTransitions[from]
    BY <1>4 DEF Legal, TRANSITIONS
  <2>2. \A f \in DOMAIN DeliveryTransitions : DeliveryTransitions[f] \subseteq STATE_VALUES.delivery
    BY DEF DeliveryTransitions, STATE_VALUES, Withdrawn, Failures
  <2> QED BY <1>4, <2>1, <2>2
<1> QED BY <1>1, <1>2, <1>3, <1>4 DEF Machine

(* The tables keep their types, and an entity is always in a state of its    *)
(* own machine (new_state_snapshot, apply_transition).                       *)
THEOREM TypeCorrect == Spec => []TypeOK
<1> DEFINE InMachine == \A e \in Entity : snapshot[e] # NoSnapshot =>
                           snapshot[e].state \in STATE_VALUES[MachineOf[e]]
<1>1. Init => InMachine
  BY DEF Init
<1>2. IInv /\ InMachine /\ [Next]_vars => InMachine'
  <2> SUFFICES ASSUME IInv, InMachine, [Next]_vars PROVE InMachine'
    OBVIOUS
  <2>1. ASSUME NEW e \in Entity, NEW s \in State, NEW at \in Times,
               InitializeSnapshot(e, s, at)
        PROVE  InMachine'
    <3>1. FirstStates(MachineOf[e]) \subseteq STATE_VALUES[MachineOf[e]]
      <4>1. MachineOf[e] \in Machine
        BY AggregateAssumption
      <4> QED BY <4>1 DEF FirstStates, INITIAL_STATES, STATE_VALUES, Machine
    <3>2. s \in STATE_VALUES[MachineOf[e]]
      BY <2>1, <3>1 DEF InitializeSnapshot
    <3>3. \A f \in Entity : f # e => snapshot'[f] = snapshot[f]
      BY <2>1 DEF InitializeSnapshot, IInv, Types
    <3>4. snapshot'[e].state = s
      BY <2>1 DEF InitializeSnapshot, IInv, Types
    <3> QED BY <3>2, <3>3, <3>4
  <2>2. ASSUME NEW ev \in Event, ApplyEvent(ev)
        PROVE  InMachine'
    <3> DEFINE f == ev.entity
    <3>1. /\ f \in Entity /\ snapshot[f] \in Snapshot
          /\ snapshot' = [snapshot EXCEPT ![f] = NewEntry(ev).after]
      BY <2>2, ApplyTypes DEF IInv
    <3>2. CASE NewEntry(ev).disposition = "APPLIED"
      <4>1. Disposition(MachineOf[f], snapshot[f], ev, FALSE) = "APPLIED"
        BY <3>2 DEF NewEntry
      <4>2. Legal(MachineOf[f], snapshot[f].state, ev.to)
        BY <4>1, AppliedMeansCurrent
      <4>3. ev.to \in STATE_VALUES[MachineOf[f]]
        BY <4>2, <3>1, LegalStaysInMachine, AggregateAssumption
      <4>4. snapshot'[f] = Applied(snapshot[f], ev)
        BY <3>1, <3>2, <2>2, AcceptedStep DEF IInv, Types
      <4>5. snapshot'[f].state = ev.to
        BY <4>4 DEF Applied
      <4>6. \A e \in Entity : e # f => snapshot'[e] = snapshot[e]
        BY <3>1 DEF IInv, Types
      <4> HIDE DEF f
      <4> QED BY <4>3, <4>5, <4>6
    <3>3. CASE NewEntry(ev).disposition # "APPLIED"
      BY <3>3, <2>2, RefusedStep DEF IInv
    <3> QED BY <3>2, <3>3
  <2>3. CASE UNCHANGED vars
    BY <2>3 DEF vars
  <2> QED BY <2>1, <2>2, <2>3 DEF Next, RepeatEvent
<1>3. IInv /\ InMachine => TypeOK
  BY DEF IInv, Types, TypeOK
<1> QED BY <1>1, <1>2, <1>3, AggregateInvariant, PTL DEF Spec

-----------------------------------------------------------------------------
(* What the interface claims. *)

(* aggregate_request_status says that a request is complete only when no     *)
(* child failed or is unknown and every delivery was accepted.               *)
LEMMA CompleteMeans ==
    ASSUME NEW req, NEW ex, NEW ar, NEW dl,
           AggregateRequestStatus(req, ex, ar, dl).complete
    PROVE  /\ ex \subseteq {"SUCCEEDED"} /\ ar \subseteq ReadyArtifact
           /\ dl \subseteq AcceptedStates
           /\ AggregateRequestStatus(req, ex, ar, dl).delivered => dl \subseteq {"DELIVERED"}
<1> DEFINE claim == AggregateRequestStatus(req, ex, ar, dl)
           Settled == ex \subseteq {"SUCCEEDED"} /\ ar \subseteq ReadyArtifact
<1>1. \A p, q : ~ Status(p, q).complete
  BY DEF Status
<1>2. \A p, q : ~ [Status(p, q) EXCEPT !.reconcile = TRUE].complete
  BY DEF Status
<1>3. Complete("delivered").delivered /\ ~ Complete("channel_accepted").delivered
  BY DEF Complete, Status
<1>4. "DELIVERED" \in AcceptedStates
  BY DEF AcceptedStates
<1> HIDE DEF claim
<1>5. /\ Settled
      /\ \/ dl = {} /\ claim = WithoutDelivery(req)
         \/ dl = {"DELIVERED"} /\ claim = Complete("delivered")
         \/ dl \subseteq AcceptedStates /\ claim = Complete("channel_accepted")
  BY <1>1, <1>2 DEF claim, AggregateRequestStatus
<1> QED BY <1>3, <1>4, <1>5 DEF claim

(* An event that was applied came from an owner of its machine, with the     *)
(* evidence that its target needs, and left its target as the state.         *)
LawfulEntry(x) ==
    LET m == MachineOf[x.event.entity]
    IN  /\ x.after.state = x.event.to
        /\ x.event.source \in ALLOWED_OWNERS[m]
        /\ x.event.to \in EVIDENCE_REQUIRED[m] => x.event.evidence

(* Every applied event was lawful, and an entity without one is in the state *)
(* that it was created in.                                                   *)
LawfulHistory ==
    /\ \A x \in log : x.disposition = "APPLIED" => LawfulEntry(x)
    /\ \A e \in Present : snapshot[e].revision = 0 =>
           snapshot[e].state \in FirstStates(MachineOf[e])

(* apply_transition applies lawful events only. *)
LEMMA AppliedIsLawful ==
    ASSUME Types, NEW ev \in Event, ApplyEvent(ev), NewEntry(ev).disposition = "APPLIED"
    PROVE  LawfulEntry(NewEntry(ev))
<1> DEFINE m == MachineOf[ev.entity]
           s == snapshot[ev.entity]
<1>1. Disposition(m, s, ev, FALSE) = "APPLIED"
  BY DEF NewEntry
<1>2. ev.source \in ALLOWED_OWNERS[m] /\ (ev.to \in EVIDENCE_REQUIRED[m] => ev.evidence)
  BY <1>1 DEF Disposition
<1>3. NewEntry(ev).event = ev
  BY ApplyTypes
<1>4. NewEntry(ev).after = Applied(s, ev)
  BY AcceptedStep
<1>5. NewEntry(ev).after.state = ev.to
  BY <1>4 DEF Applied
<1> QED BY <1>2, <1>3, <1>5 DEF LawfulEntry

(* Every step keeps the history lawful. *)
LEMMA HistoryStaysLawful ==
    ASSUME IInv, LawfulHistory, [Next]_vars
    PROVE  LawfulHistory'
<1>1. ASSUME NEW e \in Entity, NEW s \in State, NEW at \in Times,
             InitializeSnapshot(e, s, at)
      PROVE  LawfulHistory'
  <2>1. log' = log /\ s \in FirstStates(MachineOf[e])
    BY <1>1 DEF InitializeSnapshot
  <2>2. snapshot'[e].state = s /\ \A f \in Entity : f # e => snapshot'[f] = snapshot[f]
    BY <1>1 DEF InitializeSnapshot, IInv, Types
  <2>3. \A f \in Present' : f = e \/ (f \in Present /\ snapshot'[f] = snapshot[f])
    BY <2>2 DEF Present
  <2> QED BY <2>1, <2>2, <2>3 DEF LawfulHistory
<1>2. ASSUME NEW ev \in Event, ApplyEvent(ev), NewEntry(ev).disposition = "APPLIED"
      PROVE  LawfulHistory'
  <2> DEFINE f == ev.entity
  <2>1. /\ log' = log \cup {NewEntry(ev)} /\ f \in Entity /\ snapshot[f] \in Snapshot
        /\ snapshot' = [snapshot EXCEPT ![f] = NewEntry(ev).after]
    BY <1>2, ApplyTypes DEF IInv
  <2>2. snapshot'[f].revision = snapshot[f].revision + 1
    BY <1>2, <2>1, AcceptedStep DEF IInv, Types
  <2>3. snapshot'[f].revision # 0
    BY <2>1, <2>2 DEF Snapshot
  <2>4. LawfulEntry(NewEntry(ev))
    BY <1>2, AppliedIsLawful DEF IInv
  <2>5. \A e \in Present' : e = f \/ (e \in Present /\ snapshot'[e] = snapshot[e])
    BY <2>1 DEF Present, IInv, Types
  <2> HIDE DEF f
  <2>6. \A x \in log' : x.disposition = "APPLIED" => LawfulEntry(x)
    BY <2>1, <2>4 DEF LawfulHistory
  <2> QED BY <2>3, <2>5, <2>6 DEF LawfulHistory
<1>3. ASSUME NEW ev \in Event, ApplyEvent(ev), NewEntry(ev).disposition # "APPLIED"
      PROVE  LawfulHistory'
  <2>1. log' = log \cup {NewEntry(ev)} /\ snapshot' = snapshot
    BY <1>3, ApplyTypes, RefusedStep DEF IInv
  <2> QED BY <1>3, <2>1 DEF LawfulHistory, Present
<1>4. CASE UNCHANGED vars
  BY <1>4 DEF vars, LawfulHistory, Present
<1> QED BY <1>1, <1>2, <1>3, <1>4 DEF Next, RepeatEvent

(* The user interface never claims more than the log has evidence for        *)
(* (aggregate_request_status over apply_event_with_outbox): a request that   *)
(* is shown as complete has an accepted event, with evidence and from a      *)
(* component that owns deliveries, for each of its deliveries, and no child  *)
(* that failed or is unknown.                                                *)
THEOREM ClaimAlwaysEvidenced == Spec => []ClaimIsEvidenced
<1>1. Init => LawfulHistory
  BY DEF Init, LawfulHistory, Present
<1>2. ASSUME IInv, LawfulHistory PROVE ClaimIsEvidenced
  <2> SUFFICES ASSUME NEW r \in Present,
                      AggregateRequestStatus(snapshot[r].state, StatesOf("execution"),
                          StatesOf("artifact"), StatesOf("delivery")).complete
               PROVE  /\ StatesOf("execution") \subseteq {"SUCCEEDED"}
                      /\ StatesOf("artifact") \subseteq ReadyArtifact
                      /\ \A d \in {e \in Present : MachineOf[e] = "delivery"} :
                           \E x \in AcceptedOf(d) :
                             /\ x.event.evidence
                             /\ x.event.source \in {"gateway", "communication"}
                             /\ x.event.to \in AcceptedStates
                             /\ AggregateRequestStatus(snapshot[r].state,
                                    StatesOf("execution"), StatesOf("artifact"),
                                    StatesOf("delivery")).delivered => x.event.to = "DELIVERED"
    BY DEF ClaimIsEvidenced
  <2>1. /\ StatesOf("execution") \subseteq {"SUCCEEDED"}
        /\ StatesOf("artifact") \subseteq ReadyArtifact
        /\ StatesOf("delivery") \subseteq AcceptedStates
        /\ AggregateRequestStatus(snapshot[r].state, StatesOf("execution"),
               StatesOf("artifact"), StatesOf("delivery")).delivered =>
             StatesOf("delivery") \subseteq {"DELIVERED"}
    BY CompleteMeans
  <2>2. ASSUME NEW d \in Present, MachineOf[d] = "delivery"
        PROVE  \E x \in AcceptedOf(d) :
                 /\ x.event.evidence
                 /\ x.event.source \in {"gateway", "communication"}
                 /\ x.event.to = snapshot[d].state
    <3>1. snapshot[d].state \in StatesOf("delivery")
      BY <2>2 DEF StatesOf
    <3>2. snapshot[d].state \in {"CHANNEL_ACCEPTED", "DELIVERED"}
      BY <3>1, <2>1 DEF AcceptedStates
    <3>3. snapshot[d].state \notin FirstStates("delivery")
      BY <3>2 DEF FirstStates, INITIAL_STATES
    <3>4. snapshot[d].revision # 0
      BY <3>3, <2>2, <1>2 DEF LawfulHistory
    <3>5. PICK x \in AcceptedOf(d) : x.after = snapshot[d]
      BY <3>4, <1>2 DEF IInv, FullEventChain, HeadIsCurrent
    <3>6. x.event.entity = d /\ LawfulEntry(x)
      BY <1>2 DEF AcceptedOf, LawfulHistory
    <3>7. /\ x.event.to = snapshot[d].state
          /\ x.event.source \in ALLOWED_OWNERS["delivery"]
          /\ x.event.to \in EVIDENCE_REQUIRED["delivery"] => x.event.evidence
      BY <3>5, <3>6, <2>2 DEF LawfulEntry
    <3>8. ALLOWED_OWNERS["delivery"] = {"gateway", "communication"}
      BY DEF ALLOWED_OWNERS
    <3>9. {"CHANNEL_ACCEPTED", "DELIVERED"} \subseteq EVIDENCE_REQUIRED["delivery"]
      BY DEF EVIDENCE_REQUIRED
    <3> QED BY <3>2, <3>7, <3>8, <3>9
  <2>3. \A d \in Present : MachineOf[d] = "delivery" => snapshot[d].state \in StatesOf("delivery")
    BY DEF StatesOf
  <2> QED BY <2>1, <2>2, <2>3
<1> QED BY <1>1, <1>2, HistoryStaysLawful, AggregateInvariant, PTL DEF Spec
=============================================================================
