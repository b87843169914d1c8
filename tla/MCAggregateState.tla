-------------------------- MODULE MCAggregateState --------------------------
(* One request with one delivery, in generation 1.  The events are the ones  *)
(* that take both to the end, and the ones that must be refused or ignored   *)
(* at some point of that way: events of an older and of a newer generation,  *)
(* of an older revision and of an earlier time, of a foreign component,      *)
(* without evidence, a withdrawal after the side effect began, and an id     *)
(* that is used for two contents.  The second instance is a request that is  *)
(* answered without a delivery: an execution and an artifact.                *)
EXTENDS AggregateState

Ids == 1 .. 10
MCMachineOf == [e \in {"r", "d"} |-> IF e = "r" THEN "request" ELSE "delivery"]

Ev(id, entity, revision, to) ==
    [id |-> id, entity |-> entity, generation |-> 1, expectedRevision |-> revision,
     at |-> 2, source |-> "gateway", to |-> to, sideEffectStarted |-> FALSE,
     evidence |-> TRUE, intents |-> {}]

Way ==
    {Ev(1, "r", 0, "PLANNING"),
     [Ev(2, "d", 0, "PLANNED") EXCEPT !.intents = {"o"}],
     Ev(3, "d", 1, "TICKET_ISSUED"),
     [Ev(4, "d", 2, "SENDING") EXCEPT !.sideEffectStarted = TRUE],
     Ev(5, "d", 3, "CHANNEL_ACCEPTED"),
     [Ev(5, "d", 3, "AMBIGUOUS") EXCEPT !.sideEffectStarted = TRUE],
     [Ev(6, "d", 4, "DELIVERED") EXCEPT !.source = "communication"]}

Refused ==
    {[Ev(7, "d", 3, "FAILED_FINAL") EXCEPT !.generation = 0],
     Ev(7, "d", 2, "FAILED_FINAL"),
     [Ev(7, "d", 1, "CANCELLED") EXCEPT !.at = 1],
     [Ev(7, "d", 3, "DELIVERED") EXCEPT !.source = "life"],
     [Ev(7, "d", 1, "PLANNED") EXCEPT !.intents = {"o"}],
     [Ev(8, "d", 2, "FENCED") EXCEPT !.generation = 2, !.intents = {"o"}],
     [Ev(8, "d", 3, "DELIVERED") EXCEPT !.evidence = FALSE],
     [Ev(8, "d", 3, "CANCELLED") EXCEPT !.sideEffectStarted = TRUE]}

MCEvent == Way \cup Refused

PulledMachineOf ==
    [e \in {"r", "x", "a"} |->
        IF e = "r" THEN "request" ELSE IF e = "x" THEN "execution" ELSE "artifact"]

PulledEvent ==
    {Ev(1, "r", 0, "PLANNING"), Ev(2, "r", 1, "DELIVERING"), Ev(3, "r", 2, "COMPLETED"),
     Ev(4, "x", 0, "PLANNED"), Ev(5, "x", 1, "TICKET_ISSUED"), Ev(5, "x", 1, "FAILED_FINAL"),
     Ev(9, "x", 2, "CLAIMED")}
    \cup {Ev(6, "a", 0, "CREATED"), Ev(7, "a", 1, "QC_PENDING")}
    \cup {Ev(8, "a", 2, to) : to \in {"QC_PASSED", "QC_FAILED"}}
    \cup {[Ev(10, "x", 3, to) EXCEPT !.sideEffectStarted = TRUE, !.source = "backend"] :
             to \in {"SUCCEEDED", "FAILED_RETRYABLE", "AMBIGUOUS"}}
=============================================================================
