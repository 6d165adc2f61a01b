--------------------------- MODULE EventPublisher ---------------------------
(***************************************************************************)
(* The event publisher: a goroutine in every server process that polls the *)
(* outbox_events table and hands what it finds to an external Publisher,   *)
(* marking, counting or giving up each event with one statement of its own.*)
(* No lock and no transaction spans two of those statements.               *)
(***************************************************************************)
EXTENDS Integers, FiniteSetsExt

CONSTANTS
  Publishers,   \* the server processes, each runs one publisher
  Events,       \* outbox rows, numbered in the order of their created_at
  Aggregate,    \* the aggregate each event belongs to
  BatchSize,    \* Config.BatchSize
  MaxAttempts,  \* Config.MaxAttempts
  MaxFaults     \* bound: failed statements and crashes in a behaviour

ASSUME PublisherAssumption ==
  /\ IsFiniteSet(Publishers)
  /\ Events \subseteq Nat /\ IsFiniteSet(Events)
  /\ BatchSize \in Nat \ {0}
  /\ MaxAttempts \in Nat \ {0}
  /\ MaxFaults \in Nat

VARIABLES
  outbox,    \* [Events -> row], a row once its transaction has committed
  pc,        \* where each publisher is in processEvents
  todo,      \* the events of its batch it has not finished
  received,  \* how often the outside world received each event
  failures,  \* how often Publish failed for each event
  lost,      \* how often the result of an attempt went unrecorded
  faults     \* faults so far

history == <<received, failures, lost>>
vars == <<outbox, pc, todo, history, faults>>

Row == [committed : BOOLEAN, sequence : Nat, published : BOOLEAN,
        dead : BOOLEAN, attempts : Nat]
Unborn == [committed |-> FALSE, sequence |-> 0, published |-> FALSE,
           dead |-> FALSE, attempts |-> 0]
Pc == {"poll", "publish", "mark", "record", "bury"}

Init ==
  /\ outbox = [e \in Events |-> Unborn]
  /\ pc = [p \in Publishers |-> "poll"]
  /\ todo = [p \in Publishers |-> {}]
  /\ received = [e \in Events |-> 0]
  /\ failures = [e \in Events |-> 0]
  /\ lost = [e \in Events |-> 0]
  /\ faults = 0

-----------------------------------------------------------------------------
Same(e) == {f \in Events : Aggregate[f] = Aggregate[e]}

(* A use case commits an event.  Transactions on one aggregate follow each *)
(* other under its row lock, and aggregate_sequence counts them; created_at*)
(* is the clock of whichever server runs the use case, and may be behind   *)
(* that of an event which is there already.                                *)
Committed(e) == {f \in Same(e) : outbox[f].committed}
NextSequence(e) == 1 + Max({0} \cup {outbox[f].sequence : f \in Committed(e)})

Create(e) ==
  /\ ~outbox[e].committed
  /\ outbox' = [outbox EXCEPT ![e].committed = TRUE,
                              ![e].sequence = NextSequence(e)]
  /\ UNCHANGED <<pc, todo, history, faults>>

(* GetUnpublished: neither published nor dead-lettered, oldest first.      *)
(* Mutant: the query forgets published_at.                                 *)
PendingThoughPublished(e) == outbox[e].committed /\ ~outbox[e].dead
Pending(e) ==
  outbox[e].committed /\ ~outbox[e].published /\ ~outbox[e].dead
Older(e) == {f \in Events : f < e /\ Pending(f)}
Unpublished ==
  {e \in Events : Pending(e) /\ Cardinality(Older(e)) < BatchSize}

GetUnpublished(p) ==
  /\ pc[p] = "poll"
  /\ Unpublished # {}
  /\ todo' = [todo EXCEPT ![p] = Unpublished]
  /\ pc' = [pc EXCEPT ![p] = "publish"]
  /\ UNCHANGED <<outbox, history, faults>>

-----------------------------------------------------------------------------
(* The loop over the batch.                                                *)

(* Mutant: the batch is not ordered.                                       *)
IsAnyOf(p, e) == e \in todo[p]
IsCurrent(p, e) == e \in todo[p] /\ \A f \in todo[p] : e <= f

Goto(p, next) ==
  /\ pc' = [pc EXCEPT ![p] = next]
  /\ UNCHANGED todo

(* Mutant: the loop does not notice that its batch is done.                *)
NextEventAlways(p, e) ==
  /\ todo' = [todo EXCEPT ![p] = todo[p] \ {e}]
  /\ pc' = [pc EXCEPT ![p] = "publish"]
NextEvent(p, e) ==
  /\ todo' = [todo EXCEPT ![p] = todo[p] \ {e}]
  /\ pc' = [pc EXCEPT ![p] = IF todo[p] = {e} THEN "poll" ELSE "publish"]

Publish(p, e) ==
  /\ pc[p] = "publish"
  /\ received' = [received EXCEPT ![e] = @ + 1]
  /\ Goto(p, "mark")
  /\ UNCHANGED <<outbox, failures, lost, faults>>

(* Publish returns an error, with or without the event having arrived; in  *)
(* the first case what the outside world knows goes unrecorded.            *)
PublishFails(p, e) ==
  /\ pc[p] = "publish"
  /\ failures' = [failures EXCEPT ![e] = @ + 1]
  /\ \/ UNCHANGED <<received, lost>>
     \/ /\ received' = [received EXCEPT ![e] = @ + 1]
        /\ lost' = [lost EXCEPT ![e] = @ + 1]
  /\ Goto(p, "record")
  /\ UNCHANGED <<outbox, faults>>

MarkPublished(p, e) ==
  /\ pc[p] = "mark"
  /\ outbox' = [outbox EXCEPT ![e].published = TRUE]
  /\ NextEvent(p, e)
  /\ UNCHANGED <<history, faults>>

(* UPDATE ... SET attempts = attempts + 1 RETURNING attempts.              *)
(* Mutant: one attempt too many.                                           *)
GivesUpLate(n) == n > MaxAttempts
GivesUp(n) == n >= MaxAttempts

RecordFailure(p, e) ==
  /\ pc[p] = "record"
  /\ outbox' = [outbox EXCEPT ![e].attempts = @ + 1]
  /\ IF GivesUp(outbox[e].attempts + 1) THEN Goto(p, "bury")
                                        ELSE NextEvent(p, e)
  /\ UNCHANGED <<history, faults>>

MarkDeadLettered(p, e) ==
  /\ pc[p] = "bury"
  /\ outbox' = [outbox EXCEPT ![e].dead = TRUE]
  /\ NextEvent(p, e)
  /\ UNCHANGED <<history, faults>>

(* A statement on the table fails; it is logged and the loop goes on.  It  *)
(* may have taken effect, and only its answer is lost: an event is marked  *)
(* or given up all the same, but a count comes without its verdict.        *)
StatementFails(p, e) ==
  /\ faults < MaxFaults
  /\ faults' = faults + 1
  /\ pc[p] \in {"mark", "record", "bury"}
  /\ lost' = [lost EXCEPT ![e] = @ + 1]
  /\ NextEvent(p, e)
  /\ UNCHANGED <<outbox, received, failures>>

AnswerLost(p, e) ==
  /\ faults < MaxFaults
  /\ faults' = faults + 1
  /\ \/ /\ pc[p] = "mark"
        /\ outbox' = [outbox EXCEPT ![e].published = TRUE]
        /\ UNCHANGED lost
     \/ /\ pc[p] = "record"
        /\ outbox' = [outbox EXCEPT ![e].attempts = @ + 1]
        /\ lost' = [lost EXCEPT ![e] = @ + 1]
     \/ /\ pc[p] = "bury"
        /\ outbox' = [outbox EXCEPT ![e].dead = TRUE]
        /\ UNCHANGED lost
  /\ NextEvent(p, e)
  /\ UNCHANGED <<received, failures>>

(* The process stops between any two steps.                                *)
Crash(p, e) ==
  /\ faults < MaxFaults
  /\ faults' = faults + 1
  /\ pc[p] # "poll"
  /\ lost' = IF pc[p] = "publish" THEN lost ELSE [lost EXCEPT ![e] = @ + 1]
  /\ pc' = [pc EXCEPT ![p] = "poll"]
  /\ todo' = [todo EXCEPT ![p] = {}]
  /\ UNCHANGED <<outbox, received, failures>>

Work(p, e) ==
  \/ Publish(p, e)
  \/ MarkPublished(p, e)
  \/ RecordFailure(p, e)
  \/ MarkDeadLettered(p, e)

Fault(p, e) ==
  \/ PublishFails(p, e)
  \/ StatementFails(p, e)
  \/ AnswerLost(p, e)
  \/ Crash(p, e)

processEvents(p) ==
  \/ GetUnpublished(p)
  \/ \E e \in Events : IsCurrent(p, e) /\ (Work(p, e) \/ PublishFails(p, e))

Next ==
  \/ \E e \in Events : Create(e)
  \/ \E p \in Publishers : GetUnpublished(p)
  \/ \E p \in Publishers, e \in Events :
       IsCurrent(p, e) /\ (Work(p, e) \/ Fault(p, e))

Spec == Init /\ [][Next]_vars

(* The ticker fires again and again and the loop goes on, whatever becomes *)
(* of each delivery.                                                       *)
FairSpec == Spec /\ \A p \in Publishers : WF_vars(processEvents(p))

-----------------------------------------------------------------------------
(* What is marked published was delivered, and by each process once at     *)
(* most, unless the result of a delivery went unrecorded; with one process *)
(* that is exactly once.                                                   *)
DeliveredOnceUnlessLost ==
  \A e \in Events :
    /\ outbox[e].published => received[e] > 0
    /\ received[e] <= Cardinality(Publishers) + lost[e]

(* An event is given up after MaxAttempts failed deliveries, not before,   *)
(* and as soon as they have been counted: what is tried more often is tried*)
(* because a count or the verdict was lost, or because another process had *)
(* fetched the event before.                                               *)
GivenUpOnTime ==
  \A e \in Events :
    /\ outbox[e].dead => failures[e] >= MaxAttempts
    /\ failures[e] <= MaxAttempts + Cardinality(Publishers) - 1 + lost[e]

(* No event is delivered before every event of its aggregate has at least  *)
(* been tried that precedes it by created_at and was committed before it.  *)
(* Where a clock was behind, created_at decides, and a failed event is     *)
(* overtaken: order is no more than this.                                  *)
Precedes(f, e) ==
  /\ f < e /\ outbox[f].committed
  /\ outbox[f].sequence < outbox[e].sequence
TriedInOrder ==
  \A e \in Events : received[e] > 0 =>
    \A f \in Same(e) : Precedes(f, e) => received[f] + failures[f] > 0

(* One poison message does not block the queue behind it: every event that *)
(* was committed leaves the queue.                                         *)
EventsLeaveQueue ==
  \A e \in Events : outbox[e].committed ~> outbox[e].published \/ outbox[e].dead
=============================================================================
