------------------------ MODULE EventPublisherProofs ------------------------
(***************************************************************************)
(* Proofs about EventPublisher, for any number of publishers and events,   *)
(* any batch size, and any number of failed statements and crashes.        *)
(***************************************************************************)
EXTENDS EventPublisher, FiniteSetTheorems, WellFoundedInduction, TLAPS

Types ==
  /\ outbox \in [Events -> Row]
  /\ pc \in [Publishers -> Pc]
  /\ todo \in [Publishers -> SUBSET Events]
  /\ received \in [Events -> Nat]
  /\ failures \in [Events -> Nat]
  /\ lost \in [Events -> Nat]
  /\ faults \in Nat

(* Publisher p is at its current event, e, in one of the steps of S.       *)
At(p, e, S) == pc[p] \in S /\ IsCurrent(p, e)

-----------------------------------------------------------------------------
(* Order.  A publisher tries each event before it goes on to the next, and *)
(* of those of the same aggregate that precede it, the ones it does not    *)
(* have have been tried before.                                            *)
Tried(e) == received[e] + failures[e] > 0

InOrder(p) ==
  /\ pc[p] = "poll" => todo[p] = {}
  /\ \A e \in todo[p] :
       /\ outbox[e].committed
       /\ \A f \in Same(e) : Precedes(f, e) => f \in todo[p] \/ Tried(f)
  /\ \A e \in Events :
       /\ At(p, e, {"mark"}) => received[e] > 0
       /\ At(p, e, {"record", "bury"}) => failures[e] > 0
       /\ At(p, e, {"bury"}) => outbox[e].attempts >= MaxAttempts

-----------------------------------------------------------------------------
(* Counts.  A delivery whose result is not lost is being marked, or the    *)
(* event is published and its publisher does not have it any more.         *)
Spent(e) ==
  {p \in Publishers : \/ At(p, e, {"mark"})
                      \/ outbox[e].published /\ e \notin todo[p]}
(* A failure whose count or verdict is not lost is being counted, or was.  *)
Counting(e) == {p \in Publishers : At(p, e, {"record"})}
(* Publishers that will not fail again on an event before it is dead.      *)
Failed(e) ==
  {p \in Publishers : \/ At(p, e, {"record", "bury"})
                      \/ outbox[e].dead /\ e \notin todo[p]}

Delivered(e) ==
  /\ outbox[e].published => received[e] > 0
  /\ received[e] <= Cardinality(Spent(e)) + lost[e]

Counted(e) ==
  /\ outbox[e].attempts + Cardinality(Counting(e)) <= failures[e]
  /\ failures[e] <= outbox[e].attempts + Cardinality(Counting(e)) + lost[e]
  /\ outbox[e].dead => outbox[e].attempts >= MaxAttempts
  /\ failures[e] <= MaxAttempts - 1 + Cardinality(Failed(e)) + lost[e]

PubInv ==
  /\ Types
  /\ \A p \in Publishers : InOrder(p)
  /\ \A e \in Events : Delivered(e) /\ Counted(e)
  /\ \A e \in Events : received[e] > 0 => outbox[e].committed
  /\ TriedInOrder

-----------------------------------------------------------------------------
(* Sets of publishers.                                                     *)
LEMMA Sizes ==
  ASSUME NEW S \in SUBSET Publishers, NEW T \in SUBSET Publishers,
         NEW p \in Publishers
  PROVE  /\ Cardinality(S) \in Nat /\ Cardinality(T) \in Nat
         /\ Cardinality(S) <= Cardinality(Publishers)
         /\ S \subseteq T => Cardinality(S) <= Cardinality(T)
         /\ S \subseteq T \cup {p} => Cardinality(S) <= Cardinality(T) + 1
         /\ p \notin S /\ S \cup {p} \subseteq T =>
              Cardinality(S) + 1 <= Cardinality(T)
<1>1. /\ IsFiniteSet(Publishers) /\ IsFiniteSet(S) /\ IsFiniteSet(T)
      /\ IsFiniteSet(T \cup {p}) /\ IsFiniteSet(S \cup {p})
  BY PublisherAssumption, FS_Subset, FS_AddElement
<1>2. /\ Cardinality(S) \in Nat /\ Cardinality(T) \in Nat
      /\ Cardinality(Publishers) \in Nat
  BY <1>1, FS_CardinalityType
<1>3. /\ Cardinality(T \cup {p}) <= Cardinality(T) + 1
      /\ p \notin S => Cardinality(S \cup {p}) = Cardinality(S) + 1
  BY <1>1, <1>2, FS_AddElement
<1>4. Cardinality(S) <= Cardinality(Publishers)
  BY <1>1, FS_Subset
<1>5. S \subseteq T => Cardinality(S) <= Cardinality(T)
  BY <1>1, FS_Subset
<1>6. ASSUME S \subseteq T \cup {p}
      PROVE  Cardinality(S) <= Cardinality(T) + 1
  <2>1. Cardinality(S) <= Cardinality(T \cup {p})
    BY <1>1, <1>6, FS_Subset
  <2>2. Cardinality(T \cup {p}) \in Nat
    BY <1>1, FS_CardinalityType
  <2> QED
    BY <1>2, <1>3, <2>1, <2>2
<1>7. ASSUME p \notin S, S \cup {p} \subseteq T
      PROVE  Cardinality(S) + 1 <= Cardinality(T)
  <2>1. Cardinality(S \cup {p}) <= Cardinality(T)
    BY <1>1, <1>7, FS_Subset
  <2> QED
    BY <1>3, <1>7, <2>1
<1> QED
  BY <1>2, <1>4, <1>5, <1>6, <1>7

(* A publisher is at one event at most.                                    *)
LEMMA OneCurrent ==
  ASSUME Types, NEW p \in Publishers, NEW e \in Events, NEW f \in Events,
         IsCurrent(p, e), IsCurrent(p, f)
  PROVE  e = f
  BY PublisherAssumption DEF Types, IsCurrent

(* The steps of a publisher at its current event.                          *)
Step(p, e) == IsCurrent(p, e) /\ (Work(p, e) \/ Fault(p, e))

(* A step at an event leaves the other publishers where they are, and p    *)
(* with what it had of the other events, unless it crashes.                *)
LEMMA Others ==
  ASSUME Types, NEW p \in Publishers, NEW e \in Events, Step(p, e)
  PROVE  /\ \A q \in Publishers \ {p} : pc'[q] = pc[q] /\ todo'[q] = todo[q]
         /\ \A x \in Events \ {e} :
              /\ outbox'[x] = outbox[x] /\ received'[x] = received[x]
              /\ failures'[x] = failures[x] /\ lost'[x] = lost[x]
         /\ todo'[p] \subseteq todo[p]
  BY DEF Step, Types, Work, Fault, Publish, PublishFails, MarkPublished,
         RecordFailure, MarkDeadLettered, StatementFails, AnswerLost, Crash,
         Goto, NextEvent, history

-----------------------------------------------------------------------------
(* The sequence numbers of an aggregate.                                   *)

(* Finitely many numbers have a largest: the one with the fewest above it. *)
LEMMA LargestOf ==
  ASSUME NEW T, T \subseteq Nat, IsFiniteSet(T), T # {}
  PROVE  Max(T) \in T /\ \A x \in T : x <= Max(T)
<1> DEFINE Above(x) == {y \in T : x < y}
           Bad == {U \in SUBSET T : \E x \in T : U = Above(x)}
           Order == StrictSubsetOrdering(T)
<1>1. PICK U \in Bad : \A V \in Bad : ~ (<<V, U>> \in Order)
  <2>1. Bad \subseteq SUBSET T /\ Bad # {}
    OBVIOUS
  <2>2. IsWellFoundedOn(Order, SUBSET T)
    BY FS_StrictSubsetOrderingWellFounded, FS_FiniteSubsetsOfFinite
  <2> HIDE DEF Bad, Order
  <2> QED
    BY <2>1, <2>2, WFMin
<1>2. PICK m \in T : U = Above(m)
  BY <1>1
<1>3. ASSUME NEW x \in T, ~ (x <= m) PROVE FALSE
  <2>1. m < x /\ x \in Nat /\ m \in Nat
    BY <1>3
  <2>2. \A y \in T : x < y => m < y
    BY <2>1
  <2>3. Above(x) \subseteq Above(m) /\ x \in Above(m) /\ x \notin Above(x)
    <3>1. Above(x) \subseteq Above(m)
      BY <2>2
    <3>2. x \in Above(m)
      BY <2>1
    <3>3. x \notin Above(x)
      BY <2>1
    <3> QED
      BY <3>1, <3>2, <3>3
  <2>4. Above(x) \in Bad /\ Above(x) \subseteq T
    OBVIOUS
  <2>5. <<Above(x), U>> \in Order
    BY <1>1, <1>2, <2>3, <2>4 DEF StrictSubsetOrdering
  <2> QED
    BY <1>1, <2>4, <2>5
<1>4. \E z \in T : \A x \in T : x <= z
  BY <1>3
<1> QED
  BY <1>4 DEF Max

LEMMA SequencesGrow ==
  ASSUME Types, NEW e \in Events
  PROVE  /\ NextSequence(e) \in Nat
         /\ \A f \in Committed(e) : outbox[f].sequence < NextSequence(e)
<1> DEFINE S == {outbox[f].sequence : f \in Committed(e)}
           T == {0} \cup S
<1>1. Committed(e) \subseteq Events /\ IsFiniteSet(Committed(e))
  <2>1. Committed(e) \in SUBSET Events
    BY DEF Committed, Same
  <2> QED
    BY <2>1, PublisherAssumption, FS_Subset
<1>2. S \subseteq Nat
  BY <1>1 DEF Types, Row
<1>3. IsFiniteSet(S)
  <2> DEFINE g == [f \in Committed(e) |-> outbox[f].sequence]
  <2>1. g \in Surjection(Committed(e), S)
    BY DEF Surjection
  <2> HIDE DEF g, S
  <2> QED
    BY <1>1, <2>1, FS_Surjection
<1>4. IsFiniteSet(S \cup {0})
  BY <1>3, FS_AddElement
<1>5. T \subseteq Nat /\ T # {} /\ T = S \cup {0} /\ S \subseteq T
  BY <1>2
<1>6. NextSequence(e) = 1 + Max(T)
  BY DEF NextSequence
<1>7. \A f \in Committed(e) : outbox[f].sequence \in S
  OBVIOUS
<1> HIDE DEF S, T
<1>8. Max(T) \in T /\ \A x \in T : x <= Max(T)
  BY <1>4, <1>5, LargestOf
<1> DEFINE m == Max(T)
<1>9. m \in Nat /\ NextSequence(e) = 1 + m /\ \A x \in S : x <= m /\ x \in Nat
  BY <1>2, <1>5, <1>6, <1>8
<1> HIDE DEF m
<1> QED
  BY <1>7, <1>9

-----------------------------------------------------------------------------
(* Types.                                                                  *)
LEMMA TypesKept == ASSUME Types, [Next]_vars PROVE Types'
<1> USE DEF Types, Row, Pc
<1>1. ASSUME NEW e \in Events, Create(e) PROVE Types'
  <2>1. NextSequence(e) \in Nat
    BY SequencesGrow
  <2>2. outbox' \in [Events -> Row]
    <3> DEFINE o == [outbox[e] EXCEPT !.committed = TRUE,
                                      !.sequence = NextSequence(e)]
    <3>1. o \in Row
      BY <2>1
    <3>2. outbox' = [outbox EXCEPT ![e] = o]
      BY <1>1 DEF Create
    <3> HIDE DEF o, Row
    <3> QED
      BY <3>1, <3>2
  <2>3. UNCHANGED <<pc, todo, received, failures, lost, faults>>
    BY <1>1 DEF Create, history
  <2> QED
    BY <2>2, <2>3
<1>2. ASSUME NEW p \in Publishers, GetUnpublished(p) PROVE Types'
  BY <1>2 DEF GetUnpublished, Unpublished, history
<1>3. ASSUME NEW p \in Publishers, NEW e \in Events, Step(p, e) PROVE Types'
  <2>1. CASE Publish(p, e)
    BY <2>1 DEF Publish, Goto
  <2>2. CASE PublishFails(p, e)
    <3>1. received' \in [Events -> Nat] /\ lost' \in [Events -> Nat]
      BY <2>2, SMTT(30) DEF PublishFails
    <3>2. /\ pc' \in [Publishers -> Pc] /\ failures' \in [Events -> Nat]
          /\ UNCHANGED <<outbox, todo, faults>>
      BY <2>2 DEF PublishFails, Goto
    <3> QED
      BY <3>1, <3>2
  <2>3. CASE MarkPublished(p, e)
    BY <2>3 DEF MarkPublished, NextEvent, history
  <2>4. CASE RecordFailure(p, e)
    BY <2>4, SMTT(30) DEF RecordFailure, NextEvent, Goto, history
  <2>5. CASE MarkDeadLettered(p, e)
    BY <2>5 DEF MarkDeadLettered, NextEvent, history
  <2>6. CASE StatementFails(p, e)
    BY <2>6 DEF StatementFails, NextEvent
  <2>7. CASE Crash(p, e)
    BY <2>7 DEF Crash
  <2>8. CASE AnswerLost(p, e)
    <3>1. faults' \in Nat /\ UNCHANGED <<received, failures>>
      BY <2>8 DEF AnswerLost
    <3>2. outbox' \in [Events -> Row]
      <4>1. CASE outbox' = [outbox EXCEPT ![e].published = TRUE]
        BY <4>1
      <4>2. CASE outbox' = [outbox EXCEPT ![e].attempts = @ + 1]
        BY <4>2
      <4>3. CASE outbox' = [outbox EXCEPT ![e].dead = TRUE]
        BY <4>3
      <4> QED
        BY <2>8, <4>1, <4>2, <4>3 DEF AnswerLost
    <3>3. lost' \in [Events -> Nat]
      <4>1. lost' = lost \/ lost' = [lost EXCEPT ![e] = @ + 1]
        BY <2>8 DEF AnswerLost
      <4> QED
        BY <4>1
    <3>4. pc' \in [Publishers -> Pc] /\ todo' \in [Publishers -> SUBSET Events]
      BY <2>8 DEF AnswerLost, NextEvent
    <3> QED
      BY <3>1, <3>2, <3>3, <3>4
  <2> QED
    BY <1>3, <2>1, <2>2, <2>3, <2>4, <2>5, <2>6, <2>7, <2>8
    DEF Step, Work, Fault
<1>4. CASE UNCHANGED vars
  BY <1>4 DEF vars, history
<1> QED
  BY <1>1, <1>2, <1>3, <1>4 DEF Next, Step

-----------------------------------------------------------------------------
(* Deliveries.                                                             *)
LEMMA SetsTyped ==
  ASSUME NEW x
  PROVE  /\ Spent(x) \in SUBSET Publishers /\ Spent(x)' \in SUBSET Publishers
         /\ Counting(x) \in SUBSET Publishers
         /\ Counting(x)' \in SUBSET Publishers
         /\ Failed(x) \in SUBSET Publishers /\ Failed(x)' \in SUBSET Publishers
  BY DEF Spent, Counting, Failed

(* The deliveries that are not lost stay with their publishers, if none is *)
(* added without a publisher and none is dropped without being lost.       *)
LEMMA DeliveredCount ==
  ASSUME Types, Types', NEW x \in Events, Delivered(x),
         NEW p \in Publishers,
         \/ /\ received'[x] = received[x] /\ lost'[x] >= lost[x]
            /\ Spent(x) \subseteq Spent(x)'
         \/ /\ received'[x] = received[x] + 1 /\ lost'[x] = lost[x]
            /\ p \notin Spent(x) /\ Spent(x) \cup {p} \subseteq Spent(x)'
         \/ /\ received'[x] = received[x] + 1 /\ lost'[x] = lost[x] + 1
            /\ Spent(x) \subseteq Spent(x)'
         \/ /\ received'[x] = received[x] /\ lost'[x] = lost[x] + 1
            /\ Spent(x) \subseteq Spent(x)' \cup {p}
  PROVE  received'[x] <= Cardinality(Spent(x)') + lost'[x]
<1> DEFINE S == Spent(x)
           T == Spent(x)'
<1>1. S \in SUBSET Publishers /\ T \in SUBSET Publishers
  BY SetsTyped
<1>2. received[x] <= Cardinality(S) + lost[x]
  BY DEF Delivered
<1>3. /\ received[x] \in Nat /\ received'[x] \in Nat
      /\ lost[x] \in Nat /\ lost'[x] \in Nat
  BY DEF Types
<1> HIDE DEF S, T
<1>4. /\ Cardinality(S) \in Nat /\ Cardinality(T) \in Nat
      /\ S \subseteq T => Cardinality(S) <= Cardinality(T)
      /\ S \subseteq T \cup {p} => Cardinality(S) <= Cardinality(T) + 1
      /\ p \notin S /\ S \cup {p} \subseteq T =>
           Cardinality(S) + 1 <= Cardinality(T)
  BY <1>1, Sizes
<1>5. received'[x] <= Cardinality(T) + lost'[x]
  BY <1>2, <1>3, <1>4 DEF S, T
<1> QED
  BY <1>5 DEF S, T

(* What a step of p at e leaves of the publishers' spent deliveries of x.  *)
LEMMA SpentOfOthers ==
  ASSUME Types, NEW p \in Publishers, NEW e \in Events, NEW x \in Events,
         Step(p, e), outbox[x].published => outbox'[x].published
  PROVE  Spent(x) \ {p} \subseteq Spent(x)'
  BY Others DEF Spent, At, IsCurrent

LEMMA SpentOfOtherEvents ==
  ASSUME Types, NEW p \in Publishers, NEW e \in Events, NEW x \in Events,
         Step(p, e), x # e
  PROVE  Spent(x) \subseteq Spent(x)'
<1>1. ~At(p, x, {"mark"})
  BY OneCurrent DEF At, Step
<1>2. outbox'[x] = outbox[x]
  BY Others
<1> QED
  BY <1>1, <1>2, SpentOfOthers, Others DEF Spent

LEMMA DeliveredKept ==
  ASSUME PubInv, Next, NEW x \in Events
  PROVE  Delivered(x)'
<1> USE DEF PubInv
<1>1. Types'
  BY TypesKept
<1>2. Delivered(x)
  OBVIOUS
<1>3. CASE \E e \in Events : Create(e)
  <2>1. PICK e \in Events : Create(e)
    BY <1>3
  <2>2. outbox'[x].published = outbox[x].published
    BY <2>1 DEF Create, Types, Row
  <2>3. UNCHANGED <<pc, todo, received, lost>>
    BY <2>1 DEF Create, history
  <2>4. Spent(x)' = Spent(x)
    BY <2>2, <2>3 DEF Spent, At, IsCurrent
  <2> QED
    BY <1>2, <2>2, <2>3, <2>4 DEF Delivered
<1>4. CASE \E p \in Publishers : GetUnpublished(p)
  <2>1. PICK p \in Publishers : GetUnpublished(p)
    BY <1>4
  <2>2. /\ UNCHANGED <<outbox, received, lost>>
        /\ \A q \in Publishers \ {p} : pc'[q] = pc[q] /\ todo'[q] = todo[q]
        /\ pc[p] = "poll" /\ todo'[p] = Unpublished
    BY <2>1 DEF GetUnpublished, Types, history
  <2>3. Spent(x) \subseteq Spent(x)'
    BY <2>2 DEF Spent, At, IsCurrent, Unpublished, Pending
  <2>4. received'[x] <= Cardinality(Spent(x)') + lost'[x]
    BY <1>1, <1>2, <2>2, <2>3, DeliveredCount DEF Types
  <2> QED
    BY <1>2, <2>2, <2>4 DEF Delivered
<1>5. ASSUME NEW p \in Publishers, NEW e \in Events, Step(p, e)
      PROVE  Delivered(x)'
  <2>1. CASE x # e
    <3>1. /\ outbox'[x] = outbox[x] /\ received'[x] = received[x]
          /\ lost'[x] = lost[x]
      BY <1>5, <2>1, Others
    <3>2. Spent(x) \subseteq Spent(x)'
      BY <1>5, <2>1, SpentOfOtherEvents
    <3>3. lost'[x] >= lost[x]
      BY <3>1 DEF Types
    <3>4. received'[x] <= Cardinality(Spent(x)') + lost'[x]
      BY <1>1, <1>2, <3>1, <3>2, <3>3, DeliveredCount
    <3> QED
      BY <1>2, <3>1, <3>4 DEF Delivered
  <2>2. CASE x = e
    <3> USE <2>2
    <3>a. e \in todo[p] /\ IsCurrent(p, e)
      BY <1>5 DEF Step, IsCurrent
    <3>b. /\ received[e] \in Nat /\ lost[e] \in Nat /\ outbox[e] \in Row
          /\ received \in [Events -> Nat] /\ lost \in [Events -> Nat]
          /\ pc \in [Publishers -> Pc] /\ todo \in [Publishers -> SUBSET Events]
          /\ outbox \in [Events -> Row]
      BY DEF Types
    <3>1. CASE Publish(p, e)
      <4>1. /\ received'[e] = received[e] + 1 /\ UNCHANGED <<outbox, lost, todo>>
            /\ pc[p] = "publish" /\ pc'[p] = "mark"
        BY <3>1, <3>b DEF Publish, Goto
      <4>2. p \notin Spent(e) /\ p \in Spent(e)'
        BY <3>a, <4>1 DEF Spent, At, IsCurrent
      <4>3. Spent(e) \cup {p} \subseteq Spent(e)'
        BY <1>5, <4>1, <4>2, SpentOfOthers
      <4>4. received'[e] <= Cardinality(Spent(e)') + lost'[e]
        BY <1>1, <1>2, <4>1, <4>2, <4>3, DeliveredCount
      <4> QED
        BY <4>1, <4>4, <3>b DEF Delivered
    <3>2. CASE PublishFails(p, e)
      <4>1. /\ UNCHANGED <<outbox, todo>>
            /\ pc[p] = "publish" /\ pc'[p] = "record"
            /\ \/ received'[e] = received[e] /\ lost'[e] = lost[e]
               \/ received'[e] = received[e] + 1 /\ lost'[e] = lost[e] + 1
        BY <3>2, <3>b DEF PublishFails, Goto
      <4>2. p \notin Spent(e)
        BY <3>a, <4>1 DEF Spent, At, IsCurrent
      <4>3. Spent(e) \subseteq Spent(e)'
        BY <1>5, <4>1, <4>2, SpentOfOthers
      <4>4. received'[e] <= Cardinality(Spent(e)') + lost'[e]
        BY <1>1, <1>2, <4>1, <4>3, <3>b, DeliveredCount
      <4> QED
        BY <1>2, <4>1, <4>4, <3>b DEF Delivered
    <3>3. CASE MarkPublished(p, e)
      <4>1. /\ UNCHANGED <<received, lost>> /\ outbox'[e].published
            /\ pc[p] = "mark" /\ todo'[p] = todo[p] \ {e}
        BY <3>3, <3>b DEF MarkPublished, NextEvent, history, Row
      <4>2. Spent(e) \subseteq Spent(e)'
        BY <1>5, <4>1, SpentOfOthers DEF Spent
      <4>3. received'[e] <= Cardinality(Spent(e)') + lost'[e]
        BY <1>1, <1>2, <4>1, <4>2, <3>b, DeliveredCount
      <4>4. received[e] > 0
        BY <4>1, <3>a DEF InOrder, At
      <4> QED
        BY <4>1, <4>3, <4>4 DEF Delivered
    <3>4. CASE RecordFailure(p, e) \/ MarkDeadLettered(p, e)
      <4>1. /\ UNCHANGED <<received, lost>>
            /\ outbox'[e].published = outbox[e].published
            /\ pc[p] \in {"record", "bury"}
        BY <3>4, <3>b DEF RecordFailure, MarkDeadLettered, history, Row
      <4>2. p \notin Spent(e)
        BY <3>a, <4>1 DEF Spent, At
      <4>3. Spent(e) \subseteq Spent(e)'
        BY <1>5, <4>1, <4>2, SpentOfOthers
      <4>4. received'[e] <= Cardinality(Spent(e)') + lost'[e]
        BY <1>1, <1>2, <4>1, <4>3, <3>b, DeliveredCount
      <4> QED
        BY <1>2, <4>1, <4>4 DEF Delivered
    <3>5. CASE StatementFails(p, e) \/ Crash(p, e)
      <4>1. /\ UNCHANGED <<outbox, received>>
            /\ \/ lost'[e] = lost[e] + 1
               \/ lost'[e] = lost[e] /\ pc[p] = "publish"
        BY <3>5, <3>b DEF StatementFails, Crash
      <4>2. Spent(e) \subseteq Spent(e)' \cup {p}
        BY <1>5, <4>1, SpentOfOthers
      <4>3. pc[p] = "publish" => p \notin Spent(e)
        BY <3>a DEF Spent, At
      <4>4. received'[e] <= Cardinality(Spent(e)') + lost'[e]
        BY <1>1, <1>2, <4>1, <4>2, <4>3, <3>b, DeliveredCount
      <4> QED
        BY <1>2, <4>1, <4>4 DEF Delivered
    <3>6. CASE AnswerLost(p, e) /\ pc[p] = "mark"
      <4>1. /\ UNCHANGED <<received, lost>> /\ outbox'[e].published
            /\ todo'[p] = todo[p] \ {e}
        BY <3>6, <3>b DEF AnswerLost, NextEvent, Row
      <4>2. Spent(e) \subseteq Spent(e)'
        BY <1>5, <4>1, SpentOfOthers DEF Spent
      <4>3. received'[e] <= Cardinality(Spent(e)') + lost'[e]
        BY <1>1, <1>2, <4>1, <4>2, <3>b, DeliveredCount
      <4>4. received[e] > 0
        BY <3>6, <3>a DEF InOrder, At
      <4> QED
        BY <4>1, <4>3, <4>4 DEF Delivered
    <3>7. CASE AnswerLost(p, e) /\ pc[p] \in {"record", "bury"}
      <4>1. /\ UNCHANGED received /\ lost'[e] >= lost[e]
            /\ outbox'[e].published = outbox[e].published
        BY <3>7, <3>b DEF AnswerLost, Row
      <4>2. p \notin Spent(e)
        BY <3>a, <3>7 DEF Spent, At
      <4>3. Spent(e) \subseteq Spent(e)'
        BY <1>5, <4>1, <4>2, SpentOfOthers
      <4>4. received'[e] <= Cardinality(Spent(e)') + lost'[e]
        BY <1>1, <1>2, <4>1, <4>3, DeliveredCount
      <4> QED
        BY <1>2, <4>1, <4>4 DEF Delivered
    <3>8. AnswerLost(p, e) => pc[p] \in {"mark", "record", "bury"}
      BY DEF AnswerLost
    <3> QED
      BY <1>5, <3>1, <3>2, <3>3, <3>4, <3>5, <3>6, <3>7, <3>8
      DEF Step, Work, Fault
  <2> QED
    BY <2>1, <2>2
<1> QED
  BY <1>3, <1>4, <1>5 DEF Next, Step

-----------------------------------------------------------------------------
(* Failures.                                                               *)

(* The failures counted, being counted and lost are those that happened, if*)
(* a publisher counts each once.                                           *)
LEMMA CountedFailures ==
  ASSUME Types, Types', NEW x \in Events, Counted(x), NEW p \in Publishers,
         \/ /\ failures'[x] = failures[x] + 1 /\ lost'[x] >= lost[x]
            /\ outbox'[x].attempts = outbox[x].attempts
            /\ p \notin Counting(x) /\ Counting(x)' = Counting(x) \cup {p}
         \/ /\ failures'[x] = failures[x] /\ lost'[x] >= lost[x]
            /\ outbox'[x].attempts = outbox[x].attempts + 1
            /\ p \in Counting(x) /\ Counting(x)' = Counting(x) \ {p}
         \/ /\ failures'[x] = failures[x] /\ lost'[x] = lost[x] + 1
            /\ outbox'[x].attempts = outbox[x].attempts
            /\ Counting(x)' = Counting(x) \ {p}
  PROVE  /\ outbox'[x].attempts + Cardinality(Counting(x)') <= failures'[x]
         /\ failures'[x] <=
              outbox'[x].attempts + Cardinality(Counting(x)') + lost'[x]
<1> DEFINE S == Counting(x)
           T == Counting(x)'
<1>1. S \in SUBSET Publishers /\ T \in SUBSET Publishers
  BY SetsTyped
<1>2. /\ outbox[x].attempts + Cardinality(S) <= failures[x]
      /\ failures[x] <= outbox[x].attempts + Cardinality(S) + lost[x]
  BY DEF Counted
<1>3. /\ failures[x] \in Nat /\ failures'[x] \in Nat
      /\ lost[x] \in Nat /\ lost'[x] \in Nat
      /\ outbox[x].attempts \in Nat /\ outbox'[x].attempts \in Nat
  BY DEF Types, Row
<1> HIDE DEF S, T
<1>4. /\ Cardinality(S) \in Nat /\ Cardinality(T) \in Nat
      /\ S \subseteq T \cup {p} => Cardinality(S) <= Cardinality(T) + 1
      /\ p \notin S /\ S \cup {p} \subseteq T =>
           Cardinality(S) + 1 <= Cardinality(T)
  BY <1>1, Sizes
<1>5. /\ T \subseteq S \cup {p} => Cardinality(T) <= Cardinality(S) + 1
      /\ T \subseteq S => Cardinality(T) <= Cardinality(S)
      /\ p \notin T /\ T \cup {p} \subseteq S =>
           Cardinality(T) + 1 <= Cardinality(S)
  BY <1>1, Sizes
<1>7. CASE /\ failures'[x] = failures[x] + 1 /\ p \notin S /\ T = S \cup {p}
           /\ outbox'[x].attempts = outbox[x].attempts
           /\ lost'[x] >= lost[x]
  <2>1. Cardinality(T) = Cardinality(S) + 1
    BY <1>4, <1>5, <1>7
  <2> QED
    BY <1>2, <1>3, <1>4, <1>7, <2>1 DEF S, T
<1>8. CASE /\ failures'[x] = failures[x] /\ p \in S /\ T = S \ {p}
           /\ outbox'[x].attempts = outbox[x].attempts + 1
           /\ lost'[x] >= lost[x]
  <2>1. Cardinality(S) = Cardinality(T) + 1
    BY <1>4, <1>5, <1>8
  <2> QED
    BY <1>2, <1>3, <1>4, <1>8, <2>1 DEF S, T
<1>9. CASE /\ failures'[x] = failures[x] /\ T = S \ {p}
           /\ outbox'[x].attempts = outbox[x].attempts
           /\ lost'[x] = lost[x] + 1
  <2>1. Cardinality(T) <= Cardinality(S) /\ Cardinality(S) <= Cardinality(T) + 1
    BY <1>4, <1>5, <1>9
  <2> QED
    BY <1>2, <1>3, <1>4, <1>9, <2>1 DEF S, T
<1> QED
  BY <1>7, <1>8, <1>9 DEF S, T

(* The bound on the failures, by the same argument; a publisher that has   *)
(* counted a failure which is not the last starts again from the count.    *)
LEMMA BoundedFailures ==
  ASSUME Types, Types', NEW x \in Events, Counted(x), NEW p \in Publishers,
         failures'[x] <=
           outbox'[x].attempts + Cardinality(Counting(x)') + lost'[x],
         \/ /\ failures'[x] = failures[x] /\ lost'[x] >= lost[x]
            /\ Failed(x) \subseteq Failed(x)'
         \/ /\ failures'[x] = failures[x] + 1 /\ lost'[x] >= lost[x]
            /\ p \notin Failed(x) /\ Failed(x) \cup {p} \subseteq Failed(x)'
         \/ /\ failures'[x] = failures[x] /\ lost'[x] = lost[x] + 1
            /\ Failed(x) \subseteq Failed(x)' \cup {p}
         \/ outbox'[x].attempts < MaxAttempts
  PROVE  failures'[x] <= MaxAttempts - 1 + Cardinality(Failed(x)') + lost'[x]
<1> DEFINE S == Failed(x)
           T == Failed(x)'
           C == Counting(x)'
<1>1. /\ S \in SUBSET Publishers /\ T \in SUBSET Publishers
      /\ C \in SUBSET Publishers
  BY SetsTyped
<1>2. C \subseteq T
  BY DEF Counting, Failed, At
<1>3. failures[x] <= MaxAttempts - 1 + Cardinality(S) + lost[x]
  BY DEF Counted
<1>4. /\ failures[x] \in Nat /\ failures'[x] \in Nat
      /\ lost[x] \in Nat /\ lost'[x] \in Nat
      /\ outbox'[x].attempts \in Nat /\ MaxAttempts \in Nat
  BY PublisherAssumption DEF Types, Row
<1> HIDE DEF S, T, C
<1>5. /\ Cardinality(S) \in Nat /\ Cardinality(T) \in Nat
      /\ S \subseteq T => Cardinality(S) <= Cardinality(T)
      /\ S \subseteq T \cup {p} => Cardinality(S) <= Cardinality(T) + 1
      /\ p \notin S /\ S \cup {p} \subseteq T =>
           Cardinality(S) + 1 <= Cardinality(T)
  BY <1>1, Sizes
<1>6. Cardinality(C) \in Nat /\ Cardinality(C) <= Cardinality(T)
  BY <1>1, <1>2, Sizes
<1>7. failures'[x] <= MaxAttempts - 1 + Cardinality(T) + lost'[x]
  <2>1. CASE outbox'[x].attempts < MaxAttempts
    <3>1. failures'[x] <= outbox'[x].attempts + Cardinality(C) + lost'[x]
      BY DEF C
    <3> QED
      BY <1>4, <1>5, <1>6, <2>1, <3>1
  <2>2. CASE outbox'[x].attempts >= MaxAttempts
    BY <1>3, <1>4, <1>5, <2>2 DEF S, T
  <2> QED
    BY <1>4, <2>1, <2>2
<1> QED
  BY <1>7 DEF T

(* A step at e leaves who counts and who has failed on other events.       *)
LEMMA FailuresOfOthers ==
  ASSUME Types, NEW p \in Publishers, NEW e \in Events, NEW x \in Events,
         Step(p, e), outbox[x].dead => outbox'[x].dead
  PROVE  /\ Counting(x)' \ {p} = Counting(x) \ {p}
         /\ Failed(x) \ {p} \subseteq Failed(x)'
  BY Others DEF Counting, Failed, At, IsCurrent

LEMMA FailuresOfOtherEvents ==
  ASSUME Types, NEW p \in Publishers, NEW e \in Events, NEW x \in Events,
         Step(p, e), x # e
  PROVE  Counting(x)' = Counting(x) /\ Failed(x) \subseteq Failed(x)'
<1>1. ~At(p, x, {"record"}) /\ ~At(p, x, {"record", "bury"})
  BY OneCurrent DEF At, Step
<1>2. pc'[p] \in {"record"} => todo'[p] = todo[p]
  BY DEF Step, Types, Work, Fault, Publish, PublishFails, MarkPublished,
         RecordFailure, MarkDeadLettered, StatementFails, AnswerLost, Crash,
         Goto, NextEvent
<1>3. ~At(p, x, {"record"})'
  BY <1>2, OneCurrent DEF At, Step, IsCurrent
<1>4. outbox'[x] = outbox[x]
  BY Others
<1> QED
  BY <1>1, <1>3, <1>4, FailuresOfOthers, Others DEF Counting, Failed

LEMMA CountedKept ==
  ASSUME PubInv, Next, NEW x \in Events
  PROVE  Counted(x)'
<1> USE DEF PubInv
<1>1. Types'
  BY TypesKept
<1>2. Counted(x)
  OBVIOUS
<1>b. /\ received[x] \in Nat /\ lost[x] \in Nat /\ outbox[x] \in Row
      /\ failures[x] \in Nat /\ outbox[x].attempts \in Nat
      /\ MaxAttempts \in Nat
      /\ received \in [Events -> Nat] /\ lost \in [Events -> Nat]
      /\ failures \in [Events -> Nat] /\ outbox \in [Events -> Row]
      /\ pc \in [Publishers -> Pc] /\ todo \in [Publishers -> SUBSET Events]
  BY PublisherAssumption DEF Types, Row
<1>3. CASE \E e \in Events : Create(e)
  <2>1. PICK e \in Events : Create(e)
    BY <1>3
  <2>2. /\ outbox'[x].dead = outbox[x].dead
        /\ outbox'[x].attempts = outbox[x].attempts
    BY <2>1, <1>b DEF Create, Row
  <2>3. UNCHANGED <<pc, todo, failures, lost>>
    BY <2>1 DEF Create, history
  <2>4. Counting(x)' = Counting(x) /\ Failed(x)' = Failed(x)
    BY <2>2, <2>3 DEF Counting, Failed, At, IsCurrent
  <2> QED
    BY <1>2, <2>2, <2>3, <2>4 DEF Counted
<1>4. CASE \E p \in Publishers : GetUnpublished(p)
  <2>1. PICK p \in Publishers : GetUnpublished(p)
    BY <1>4
  <2>2. /\ UNCHANGED <<outbox, failures, lost>>
        /\ \A q \in Publishers \ {p} : pc'[q] = pc[q] /\ todo'[q] = todo[q]
        /\ pc[p] = "poll" /\ todo'[p] = Unpublished /\ pc'[p] = "publish"
    BY <2>1, <1>b DEF GetUnpublished, history
  <2>3. Failed(x) \subseteq Failed(x)' /\ Counting(x)' = Counting(x)
    BY <2>2 DEF Failed, Counting, At, IsCurrent, Unpublished, Pending
  <2>4. /\ outbox'[x].attempts + Cardinality(Counting(x)') <= failures'[x]
        /\ failures'[x] <=
             outbox'[x].attempts + Cardinality(Counting(x)') + lost'[x]
    BY <1>2, <2>2, <2>3 DEF Counted
  <2>5. failures'[x] <= MaxAttempts - 1 + Cardinality(Failed(x)') + lost'[x]
    BY <1>1, <1>2, <1>b, <2>2, <2>3, <2>4, BoundedFailures
  <2> QED
    BY <1>2, <2>2, <2>4, <2>5 DEF Counted
<1>5. ASSUME NEW p \in Publishers, NEW e \in Events, Step(p, e)
      PROVE  Counted(x)'
  <2>1. CASE x # e
    <3>1. /\ outbox'[x] = outbox[x] /\ failures'[x] = failures[x]
          /\ lost'[x] = lost[x]
      BY <1>5, <2>1, Others
    <3>2. Failed(x) \subseteq Failed(x)' /\ Counting(x)' = Counting(x)
      BY <1>5, <2>1, FailuresOfOtherEvents
    <3>3. /\ outbox'[x].attempts + Cardinality(Counting(x)') <= failures'[x]
          /\ failures'[x] <=
               outbox'[x].attempts + Cardinality(Counting(x)') + lost'[x]
      BY <1>2, <3>1, <3>2 DEF Counted
    <3>4. failures'[x] <= MaxAttempts - 1 + Cardinality(Failed(x)') + lost'[x]
      BY <1>1, <1>2, <1>b, <3>1, <3>2, <3>3, BoundedFailures
    <3> QED
      BY <1>2, <3>1, <3>3, <3>4 DEF Counted
  <2>2. CASE x = e
    <3> USE <2>2
    <3>a. e \in todo[p] /\ IsCurrent(p, e)
      BY <1>5 DEF Step, IsCurrent
    <3>1. CASE Publish(p, e) \/ MarkPublished(p, e)
      <4>1. /\ outbox'[e].dead = outbox[e].dead
            /\ outbox'[e].attempts = outbox[e].attempts
            /\ UNCHANGED <<failures, lost>>
            /\ pc[p] \in {"publish", "mark"} /\ pc'[p] \in {"poll", "publish", "mark"}
        BY <3>1, <1>b DEF Publish, MarkPublished, Goto, NextEvent, history, Row
      <4>2. p \notin Counting(e) /\ p \notin Counting(e)' /\ p \notin Failed(e)
        BY <3>a, <4>1 DEF Counting, Failed, At
      <4>a. /\ Counting(e)' \ {p} = Counting(e) \ {p}
            /\ Failed(e) \ {p} \subseteq Failed(e)'
        BY <1>5, <4>1, FailuresOfOthers
      <4>3. Counting(e)' = Counting(e) /\ Failed(e) \subseteq Failed(e)'
        BY <4>2, <4>a
      <4>4. /\ outbox'[e].attempts + Cardinality(Counting(e)') <= failures'[e]
            /\ failures'[e] <=
                 outbox'[e].attempts + Cardinality(Counting(e)') + lost'[e]
        BY <1>2, <4>1, <4>3 DEF Counted
      <4>5. failures'[e] <= MaxAttempts - 1 + Cardinality(Failed(e)') + lost'[e]
        BY <1>1, <1>2, <1>b, <4>1, <4>3, <4>4, BoundedFailures
      <4> QED
        BY <1>2, <4>1, <4>4, <4>5 DEF Counted
    <3>2. CASE PublishFails(p, e)
      <4>1. /\ UNCHANGED <<outbox, todo>> /\ failures'[e] = failures[e] + 1
            /\ pc[p] = "publish" /\ pc'[p] = "record"
            /\ lost'[e] >= lost[e]
        BY <3>2, <1>b DEF PublishFails, Goto
      <4>2. p \notin Counting(e) /\ p \notin Failed(e)
        BY <3>a, <4>1 DEF Counting, Failed, At
      <4>3. p \in Counting(e)' /\ p \in Failed(e)'
        BY <3>a, <4>1 DEF Counting, Failed, At, IsCurrent
      <4>4. /\ Counting(e)' = Counting(e) \cup {p}
            /\ Failed(e) \cup {p} \subseteq Failed(e)'
        BY <1>5, <4>1, <4>2, <4>3, FailuresOfOthers
      <4>5. /\ outbox'[e].attempts + Cardinality(Counting(e)') <= failures'[e]
            /\ failures'[e] <=
                 outbox'[e].attempts + Cardinality(Counting(e)') + lost'[e]
        BY <1>1, <1>2, <1>b, <4>1, <4>2, <4>4, CountedFailures
      <4>6. failures'[e] <= MaxAttempts - 1 + Cardinality(Failed(e)') + lost'[e]
        BY <1>1, <1>2, <1>b, <4>1, <4>2, <4>4, <4>5, BoundedFailures
      <4> QED
        BY <1>2, <4>1, <4>5, <4>6 DEF Counted
    <3>3. CASE RecordFailure(p, e)
      <4>1. /\ outbox'[e].dead = outbox[e].dead
            /\ outbox'[e].attempts = outbox[e].attempts + 1
            /\ UNCHANGED <<failures, lost>> /\ pc[p] = "record"
        BY <3>3, <1>b DEF RecordFailure, history, Row
      <4>2. pc'[p] # "record"
        BY <3>3, <1>b DEF RecordFailure, Goto, NextEvent
      <4>3. p \in Counting(e) /\ p \notin Counting(e)'
        BY <3>a, <4>1, <4>2 DEF Counting, At
      <4>4. Counting(e)' = Counting(e) \ {p}
        BY <1>5, <4>1, <4>3, FailuresOfOthers
      <4>b. lost'[e] >= lost[e]
        BY <1>b, <4>1
      <4>5. /\ outbox'[e].attempts + Cardinality(Counting(e)') <= failures'[e]
            /\ failures'[e] <=
                 outbox'[e].attempts + Cardinality(Counting(e)') + lost'[e]
        BY <1>1, <1>2, <4>b, <4>1, <4>3, <4>4, CountedFailures
      <4>6. \/ outbox'[e].attempts < MaxAttempts
            \/ Failed(e) \subseteq Failed(e)'
        <5>1. SUFFICES ASSUME outbox[e].attempts + 1 >= MaxAttempts
                       PROVE  Failed(e) \subseteq Failed(e)'
          BY <4>1, <1>b
        <5>2. pc'[p] = "bury" /\ todo' = todo
          BY <3>3, <5>1, <1>b DEF RecordFailure, GivesUp, Goto
        <5>3. p \in Failed(e)'
          BY <3>a, <5>2 DEF Failed, At, IsCurrent
        <5> QED
          BY <1>5, <4>1, <5>3, FailuresOfOthers
      <4>7. failures'[e] <= MaxAttempts - 1 + Cardinality(Failed(e)') + lost'[e]
        BY <1>1, <1>2, <1>b, <4>1, <4>5, <4>6, BoundedFailures
      <4>8. outbox'[e].dead => outbox'[e].attempts >= MaxAttempts
        BY <1>2, <1>b, <4>1 DEF Counted
      <4> QED
        BY <4>5, <4>7, <4>8 DEF Counted
    <3>4. CASE MarkDeadLettered(p, e)
      <4>1. /\ outbox'[e].dead /\ outbox'[e].attempts = outbox[e].attempts
            /\ UNCHANGED <<failures, lost>> /\ pc[p] = "bury"
            /\ pc'[p] # "record" /\ e \notin todo'[p]
        BY <3>4, <1>b DEF MarkDeadLettered, NextEvent, history, Row
      <4>2. p \notin Counting(e) /\ p \notin Counting(e)' /\ p \in Failed(e)'
        BY <4>1 DEF Counting, Failed, At
      <4>a. /\ Counting(e)' \ {p} = Counting(e) \ {p}
            /\ Failed(e) \ {p} \subseteq Failed(e)'
        BY <1>5, <4>1, FailuresOfOthers
      <4>3. Counting(e)' = Counting(e) /\ Failed(e) \subseteq Failed(e)'
        BY <4>2, <4>a
      <4>4. /\ outbox'[e].attempts + Cardinality(Counting(e)') <= failures'[e]
            /\ failures'[e] <=
                 outbox'[e].attempts + Cardinality(Counting(e)') + lost'[e]
        BY <1>2, <4>1, <4>3 DEF Counted
      <4>5. failures'[e] <= MaxAttempts - 1 + Cardinality(Failed(e)') + lost'[e]
        BY <1>1, <1>2, <1>b, <4>1, <4>3, <4>4, BoundedFailures
      <4>6. outbox[e].attempts >= MaxAttempts
        BY <3>a, <4>1 DEF InOrder, At
      <4> QED
        BY <4>1, <4>4, <4>5, <4>6 DEF Counted
    <3>5. CASE StatementFails(p, e) \/ Crash(p, e)
      <4>1. /\ UNCHANGED <<outbox, failures>> /\ pc'[p] # "record"
            /\ \/ lost'[e] = lost[e] + 1
               \/ lost'[e] = lost[e] /\ pc[p] = "publish"
        BY <3>5, <1>b DEF StatementFails, Crash, NextEvent
      <4>2. /\ p \notin Counting(e)'
            /\ pc[p] = "publish" => p \notin Counting(e) /\ p \notin Failed(e)
        BY <3>a, <4>1 DEF Counting, Failed, At
      <4>3. /\ Counting(e)' = Counting(e) \ {p}
            /\ Failed(e) \subseteq Failed(e)' \cup {p}
        BY <1>5, <4>1, <4>2, FailuresOfOthers
      <4>4. \/ lost'[e] = lost[e] + 1
            \/ /\ lost'[e] >= lost[e] /\ Counting(e)' = Counting(e)
               /\ Failed(e) \subseteq Failed(e)'
        BY <1>b, <4>1, <4>2, <4>3
      <4>5. /\ outbox'[e].attempts + Cardinality(Counting(e)') <= failures'[e]
            /\ failures'[e] <=
                 outbox'[e].attempts + Cardinality(Counting(e)') + lost'[e]
        <5>1. CASE lost'[e] = lost[e] + 1
          BY <1>1, <1>2, <4>1, <4>3, <5>1, CountedFailures
        <5>2. CASE lost'[e] = lost[e] /\ Counting(e)' = Counting(e)
          BY <1>2, <4>1, <5>2 DEF Counted
        <5> QED
          BY <4>1, <4>4, <5>1, <5>2, <4>2, <4>3
      <4>6. failures'[e] <= MaxAttempts - 1 + Cardinality(Failed(e)') + lost'[e]
        BY <1>1, <1>2, <1>b, <4>1, <4>3, <4>4, <4>5, BoundedFailures
      <4> QED
        BY <1>2, <4>1, <4>5, <4>6 DEF Counted
    <3>6. CASE AnswerLost(p, e) /\ pc[p] = "mark"
      <4>1. /\ outbox'[e].dead = outbox[e].dead
            /\ outbox'[e].attempts = outbox[e].attempts
            /\ UNCHANGED <<failures, lost>> /\ pc'[p] \in {"poll", "publish"}
        BY <3>6, <1>b DEF AnswerLost, NextEvent, Row
      <4>2. p \notin Counting(e) /\ p \notin Counting(e)' /\ p \notin Failed(e)
        BY <3>a, <3>6, <4>1 DEF Counting, Failed, At
      <4>a. /\ Counting(e)' \ {p} = Counting(e) \ {p}
            /\ Failed(e) \ {p} \subseteq Failed(e)'
        BY <1>5, <4>1, FailuresOfOthers
      <4>3. Counting(e)' = Counting(e) /\ Failed(e) \subseteq Failed(e)'
        BY <4>2, <4>a
      <4>4. /\ outbox'[e].attempts + Cardinality(Counting(e)') <= failures'[e]
            /\ failures'[e] <=
                 outbox'[e].attempts + Cardinality(Counting(e)') + lost'[e]
        BY <1>2, <4>1, <4>3 DEF Counted
      <4>5. failures'[e] <= MaxAttempts - 1 + Cardinality(Failed(e)') + lost'[e]
        BY <1>1, <1>2, <1>b, <4>1, <4>3, <4>4, BoundedFailures
      <4> QED
        BY <1>2, <4>1, <4>4, <4>5 DEF Counted
    <3>7. CASE AnswerLost(p, e) /\ pc[p] = "record"
      <4>1. /\ outbox'[e].dead = outbox[e].dead
            /\ outbox'[e].attempts = outbox[e].attempts + 1
            /\ UNCHANGED failures /\ lost'[e] = lost[e] + 1
            /\ pc'[p] # "record"
        BY <3>7, <1>b DEF AnswerLost, NextEvent, Row
      <4>2. p \in Counting(e) /\ p \notin Counting(e)'
        BY <3>a, <3>7, <4>1 DEF Counting, At
      <4>3. /\ Counting(e)' = Counting(e) \ {p}
            /\ Failed(e) \subseteq Failed(e)' \cup {p}
        BY <1>5, <4>1, <4>2, FailuresOfOthers
      <4>b. lost'[e] >= lost[e]
        BY <1>b, <4>1
      <4>4. /\ outbox'[e].attempts + Cardinality(Counting(e)') <= failures'[e]
            /\ failures'[e] <=
                 outbox'[e].attempts + Cardinality(Counting(e)') + lost'[e]
        BY <1>1, <1>2, <4>b, <4>1, <4>2, <4>3, CountedFailures
      <4>5. failures'[e] <= MaxAttempts - 1 + Cardinality(Failed(e)') + lost'[e]
        BY <1>1, <1>2, <1>b, <4>1, <4>3, <4>4, BoundedFailures
      <4>6. outbox'[e].dead => outbox'[e].attempts >= MaxAttempts
        BY <1>2, <1>b, <4>1 DEF Counted
      <4> QED
        BY <4>4, <4>5, <4>6 DEF Counted
    <3>8. CASE AnswerLost(p, e) /\ pc[p] = "bury"
      <4>1. /\ outbox'[e].dead /\ outbox'[e].attempts = outbox[e].attempts
            /\ UNCHANGED <<failures, lost>>
            /\ pc'[p] # "record" /\ e \notin todo'[p]
        BY <3>8, <1>b DEF AnswerLost, NextEvent, Row
      <4>2. p \notin Counting(e) /\ p \notin Counting(e)' /\ p \in Failed(e)'
        BY <3>8, <4>1 DEF Counting, Failed, At
      <4>a. /\ Counting(e)' \ {p} = Counting(e) \ {p}
            /\ Failed(e) \ {p} \subseteq Failed(e)'
        BY <1>5, <4>1, FailuresOfOthers
      <4>3. Counting(e)' = Counting(e) /\ Failed(e) \subseteq Failed(e)'
        BY <4>2, <4>a
      <4>4. /\ outbox'[e].attempts + Cardinality(Counting(e)') <= failures'[e]
            /\ failures'[e] <=
                 outbox'[e].attempts + Cardinality(Counting(e)') + lost'[e]
        BY <1>2, <4>1, <4>3 DEF Counted
      <4>5. failures'[e] <= MaxAttempts - 1 + Cardinality(Failed(e)') + lost'[e]
        BY <1>1, <1>2, <1>b, <4>1, <4>3, <4>4, BoundedFailures
      <4>6. outbox[e].attempts >= MaxAttempts
        BY <3>a, <3>8 DEF InOrder, At
      <4> QED
        BY <4>1, <4>4, <4>5, <4>6 DEF Counted
    <3>9. AnswerLost(p, e) => pc[p] \in {"mark", "record", "bury"}
      BY DEF AnswerLost
    <3> QED
      BY <1>5, <3>1, <3>2, <3>3, <3>4, <3>5, <3>6, <3>7, <3>8, <3>9
      DEF Step, Work, Fault
  <2> QED
    BY <2>1, <2>2
<1> QED
  BY <1>3, <1>4, <1>5 DEF Next, Step

-----------------------------------------------------------------------------
(* Order.                                                                  *)

(* What is known of an event stays known.                                  *)
LEMMA Grows ==
  ASSUME Types, Next, NEW x \in Events
  PROVE  /\ outbox[x].committed =>
              outbox'[x].committed /\ outbox'[x].sequence = outbox[x].sequence
         /\ outbox'[x].attempts >= outbox[x].attempts
         /\ received'[x] >= received[x] /\ failures'[x] >= failures[x]
         /\ Tried(x) => Tried(x)'
<1>b. /\ received \in [Events -> Nat] /\ outbox \in [Events -> Row]
      /\ failures \in [Events -> Nat]
      /\ received[x] \in Nat /\ failures[x] \in Nat
      /\ outbox[x] \in Row /\ outbox[x].attempts \in Nat
  BY DEF Types, Row
<1>1. /\ outbox[x].committed =>
           outbox'[x].committed /\ outbox'[x].sequence = outbox[x].sequence
      /\ outbox'[x].attempts >= outbox[x].attempts
  <2>1. ASSUME NEW e \in Events, Create(e)
        PROVE  /\ outbox[x].committed =>
                    /\ outbox'[x].committed
                    /\ outbox'[x].sequence = outbox[x].sequence
               /\ outbox'[x].attempts = outbox[x].attempts
    BY <1>b, <2>1 DEF Create, Row
  <2>2. ASSUME NEW p \in Publishers, NEW e \in Events, Step(p, e)
        PROVE  /\ outbox'[x].committed = outbox[x].committed
               /\ outbox'[x].sequence = outbox[x].sequence
               /\ outbox'[x].attempts >= outbox[x].attempts
    <3>1. CASE x = e
      BY <1>b, <2>2, <3>1 DEF Step, Work, Fault, Publish, PublishFails, Row,
           MarkPublished, RecordFailure, MarkDeadLettered, StatementFails,
           AnswerLost, Crash
    <3>2. CASE x # e
      BY <1>b, <2>2, <3>2, Others
    <3> QED
      BY <3>1, <3>2
  <2>3. ASSUME NEW p \in Publishers, GetUnpublished(p) PROVE outbox' = outbox
    BY <2>3 DEF GetUnpublished
  <2>4. CASE \E e \in Events : Create(e)
    BY <1>b, <2>1, <2>4
  <2>5. CASE \E p \in Publishers : GetUnpublished(p)
    BY <1>b, <2>3, <2>5
  <2>6. CASE \E p \in Publishers, e \in Events : Step(p, e)
    BY <2>2, <2>6
  <2> QED
    BY <2>4, <2>5, <2>6 DEF Next, Step
<1>2. received'[x] >= received[x] /\ failures'[x] >= failures[x]
  <2>1. ASSUME NEW p \in Publishers, NEW e \in Events, Step(p, e)
        PROVE  received'[x] >= received[x] /\ failures'[x] >= failures[x]
    <3>1. CASE x = e
      BY <1>b, <2>1, <3>1 DEF Step, Work, Fault, Publish, PublishFails, history,
           MarkPublished, RecordFailure, MarkDeadLettered, StatementFails,
           AnswerLost, Crash
    <3>2. CASE x # e
      BY <1>b, <2>1, <3>2, Others
    <3> QED
      BY <3>1, <3>2
  <2>2. ASSUME NEW e \in Events, Create(e)
        PROVE  received' = received /\ failures' = failures
    BY <2>2 DEF Create, history
  <2>3. ASSUME NEW p \in Publishers, GetUnpublished(p)
        PROVE  received' = received /\ failures' = failures
    BY <2>3 DEF GetUnpublished, history
  <2>4. CASE received' = received /\ failures' = failures
    BY <1>b, <2>4
  <2> QED
    BY <2>1, <2>2, <2>3, <2>4 DEF Next, Step
<1>3. received'[x] \in Nat /\ failures'[x] \in Nat
  BY TypesKept DEF Types
<1> QED
  BY <1>b, <1>1, <1>2, <1>3 DEF Tried

(* What is committed later has the larger number.                          *)
LEMMA PrecedesKept ==
  ASSUME Types, Next, NEW e \in Events, NEW f \in Same(e),
         outbox[e].committed
  PROVE  Precedes(f, e)' => Precedes(f, e)
<1>1. f \in Events
  BY DEF Same
<1>2. outbox'[e].sequence = outbox[e].sequence
  BY Grows
<1>3. CASE outbox[f].committed
  BY <1>1, <1>2, <1>3, Grows DEF Precedes
<1>4. CASE ~ outbox[f].committed /\ \E x \in Events : Create(x)
  <2>1. PICK x \in Events : Create(x)
    BY <1>4
  <2>2. CASE x = f
    <3>1. outbox'[f].sequence = NextSequence(f)
      BY <1>1, <2>1, <2>2 DEF Create, Types, Row
    <3>2. e \in Committed(f)
      BY DEF Committed, Same
    <3>3. outbox[e].sequence < NextSequence(f) /\ NextSequence(f) \in Nat
      BY <1>1, <3>2, SequencesGrow
    <3>4. outbox[e].sequence \in Nat
      BY DEF Types, Row
    <3>5. ~ (outbox'[f].sequence < outbox'[e].sequence)
      BY <1>2, <3>1, <3>3, <3>4
    <3> QED
      BY <3>5 DEF Precedes
  <2>3. CASE x # f
    <3>1. ~ outbox'[f].committed
      BY <1>1, <1>4, <2>1, <2>3 DEF Create, Types
    <3> QED
      BY <3>1 DEF Precedes
  <2> QED
    BY <2>2, <2>3
<1>5. CASE ~ outbox[f].committed /\ ~ \E x \in Events : Create(x)
  <2>1. ASSUME NEW p \in Publishers, NEW x \in Events, Step(p, x)
        PROVE  outbox'[f].committed = outbox[f].committed
    <3>1. outbox \in [Events -> Row]
      BY <1>1 DEF Types
    <3>2. CASE UNCHANGED outbox
      BY <3>2
    <3>3. CASE \/ outbox' = [outbox EXCEPT ![x].published = TRUE]
               \/ outbox' = [outbox EXCEPT ![x].attempts = @ + 1]
               \/ outbox' = [outbox EXCEPT ![x].dead = TRUE]
      <4>1. outbox[x] \in Row
        BY <3>1
      <4>2. PICK o : /\ outbox' = [outbox EXCEPT ![x] = o]
                     /\ o.committed = outbox[x].committed
        BY <3>3, <4>1 DEF Row
      <4> QED
        BY <3>1, <4>2
    <3> QED
      BY <2>1, <3>2, <3>3 DEF Step, Work, Fault, Publish, PublishFails,
         MarkPublished, RecordFailure, MarkDeadLettered, StatementFails,
         AnswerLost, Crash
  <2>2. outbox'[f].committed = outbox[f].committed
    BY <1>5, <2>1 DEF Next, Step, GetUnpublished
  <2> QED
    BY <1>5, <2>2 DEF Precedes
<1> QED
  BY <1>3, <1>4, <1>5

(* Of the events that precede its own a batch leaves out only those that   *)
(* were published or given up.                                             *)
LEMMA BatchInOrder ==
  ASSUME PubInv, NEW e \in Unpublished, NEW f \in Same(e), Precedes(f, e)
  PROVE  f \in Unpublished \/ Tried(f)
<1>1. /\ e \in Events /\ f \in Events /\ Pending(e)
      /\ Cardinality(Older(e)) < BatchSize
  BY DEF Unpublished, Same
<1>2. outbox[f].committed /\ f < e
  BY DEF Precedes
<1>3. CASE Pending(f)
  <2>1. Older(f) \subseteq Older(e)
    <3>1. SUFFICES ASSUME NEW g \in Events, g < f PROVE g < e
      BY DEF Older
    <3>2. g \in Nat /\ f \in Nat /\ e \in Nat
      BY <1>1, PublisherAssumption
    <3> QED
      BY <1>2, <3>1, <3>2
  <2>2. Older(e) \subseteq Events /\ IsFiniteSet(Older(e)) /\ IsFiniteSet(Older(f))
    BY <2>1, PublisherAssumption, FS_Subset DEF Older
  <2>3. /\ Cardinality(Older(f)) \in Nat /\ Cardinality(Older(e)) \in Nat
        /\ Cardinality(Older(f)) <= Cardinality(Older(e))
    BY <2>1, <2>2, FS_Subset, FS_CardinalityType
  <2>4. Cardinality(Older(f)) < BatchSize
    BY <1>1, <2>3, PublisherAssumption
  <2> QED
    BY <1>1, <1>3, <2>4 DEF Unpublished
<1>4. CASE outbox[f].published
  BY <1>1, <1>4 DEF PubInv, Delivered, Tried, Types
<1>5. CASE outbox[f].dead
  <2>1. /\ outbox[f].attempts \in Nat /\ failures[f] \in Nat
        /\ received[f] \in Nat /\ MaxAttempts \in Nat \ {0}
        /\ Cardinality(Counting(f)) \in Nat
    BY <1>1, PublisherAssumption, SetsTyped, Sizes,
       FS_Subset, FS_CardinalityType DEF PubInv, Types, Row
  <2>2. /\ outbox[f].attempts >= MaxAttempts
        /\ outbox[f].attempts + Cardinality(Counting(f)) <= failures[f]
    BY <1>1, <1>5 DEF PubInv, Counted
  <2> QED
    BY <2>1, <2>2 DEF Tried
<1> QED
  BY <1>2, <1>3, <1>4, <1>5 DEF Pending

LEMMA InOrderKept ==
  ASSUME PubInv, Next, NEW q \in Publishers
  PROVE  InOrder(q)'
<1> USE DEF PubInv
<1>1. Types'
  BY TypesKept
<1>2. InOrder(q)
  OBVIOUS
<1>3. ASSUME pc'[q] = pc[q], todo'[q] = todo[q]
      PROVE  InOrder(q)'
  <2>1. \A S : \A e \in Events : At(q, e, S)' = At(q, e, S)
    BY <1>3 DEF At, IsCurrent
  <2>2. pc'[q] = "poll" => todo'[q] = {}
    BY <1>2, <1>3 DEF InOrder
  <2>3. \A e \in todo'[q] :
          /\ outbox'[e].committed
          /\ \A f \in Same(e) :
               Precedes(f, e)' => f \in todo'[q] \/ Tried(f)'
    <3> SUFFICES ASSUME NEW e \in todo[q]
                 PROVE  /\ outbox'[e].committed
                        /\ \A f \in Same(e) :
                             Precedes(f, e)' => f \in todo[q] \/ Tried(f)'
      BY <1>3
    <3>1. e \in Events /\ outbox[e].committed
      BY <1>2 DEF InOrder, Types
    <3>2. \A f \in Same(e) : Precedes(f, e)' => f \in todo[q] \/ Tried(f)
      BY <1>2, <3>1, PrecedesKept DEF InOrder
    <3>3. \A f \in Same(e) : f \in Events
      BY DEF Same
    <3> QED
      BY <3>1, <3>2, <3>3, Grows
  <2>4. \A e \in Events :
          /\ At(q, e, {"mark"}) => received'[e] > 0
          /\ At(q, e, {"record", "bury"}) => failures'[e] > 0
          /\ At(q, e, {"bury"}) => outbox'[e].attempts >= MaxAttempts
    <3>1. SUFFICES ASSUME NEW e \in Events
                   PROVE  /\ At(q, e, {"mark"}) => received'[e] > 0
                          /\ At(q, e, {"record", "bury"}) => failures'[e] > 0
                          /\ At(q, e, {"bury"}) => outbox'[e].attempts >= MaxAttempts
      OBVIOUS
    <3>2. /\ received'[e] >= received[e] /\ failures'[e] >= failures[e]
          /\ outbox'[e].attempts >= outbox[e].attempts
      BY Grows
    <3>3. /\ received[e] \in Nat /\ failures[e] \in Nat
          /\ received'[e] \in Nat /\ failures'[e] \in Nat
          /\ outbox[e].attempts \in Nat /\ outbox'[e].attempts \in Nat
          /\ MaxAttempts \in Nat
      BY <1>1, PublisherAssumption DEF Types, Row
    <3> QED
      BY <1>2, <3>2, <3>3 DEF InOrder
  <2> QED
    BY <2>1, <2>2, <2>3, <2>4 DEF InOrder
<1>4. CASE \E e \in Events : Create(e)
  BY <1>3, <1>4 DEF Create
<1>5. CASE \E p \in Publishers : GetUnpublished(p)
  <2>1. PICK p \in Publishers : GetUnpublished(p)
    BY <1>5
  <2>2. CASE q # p
    BY <1>3, <2>1, <2>2 DEF GetUnpublished, Types
  <2>3. CASE q = p
    <3>1. /\ pc'[q] = "publish" /\ todo'[q] = Unpublished
          /\ UNCHANGED <<outbox, received, failures>>
      BY <2>1, <2>3 DEF GetUnpublished, Types, history
    <3>2. \A e \in Unpublished : outbox[e].committed
      BY DEF Unpublished, Pending
    <3>3. \A e \in Unpublished : \A f \in Same(e) :
            Precedes(f, e) => f \in Unpublished \/ Tried(f)
      BY BatchInOrder
    <3>4. \A f, e : Tried(f)' = Tried(f) /\ Precedes(f, e)' = Precedes(f, e)
      BY <3>1 DEF Tried, Precedes
    <3>5. \A e : Same(e)' = Same(e)
      BY DEF Same
    <3> QED
      BY <3>1, <3>2, <3>3, <3>4, <3>5 DEF InOrder, At
  <2> QED
    BY <2>2, <2>3
<1>6. ASSUME NEW p \in Publishers, NEW e \in Events, Step(p, e)
      PROVE  InOrder(q)'
  <2>1. CASE q # p
    BY <1>3, <1>6, <2>1, Others
  <2>2. CASE q = p
    <3> USE <2>2
    <3>a. /\ IsCurrent(q, e) /\ e \in todo[q] /\ todo'[q] \subseteq todo[q]
          /\ todo[q] \subseteq Events
      BY <1>6, Others DEF Step, IsCurrent, Types
    <3>b. /\ pc \in [Publishers -> Pc] /\ todo \in [Publishers -> SUBSET Events]
          /\ received \in [Events -> Nat] /\ failures \in [Events -> Nat]
          /\ outbox \in [Events -> Row]
          /\ received[e] \in Nat /\ failures[e] \in Nat
          /\ outbox[e].attempts \in Nat
      BY DEF Types, Row
    <3>1. /\ pc'[q] = "poll" => todo'[q] = {}
          /\ \/ todo'[q] = todo[q]
             \/ Tried(e) /\ todo'[q] = todo[q] \ {e}
             \/ todo'[q] = {}
      <4>1. CASE Publish(p, e) \/ PublishFails(p, e)
        <5>1. todo' = todo /\ pc'[q] # "poll"
          BY <3>b, <4>1 DEF Publish, PublishFails, Goto
        <5> QED
          BY <5>1
      <4>2. CASE MarkPublished(p, e)
        BY <3>a, <3>b, <4>2, <1>2 DEF MarkPublished, NextEvent, InOrder, At, Tried
      <4>3. CASE RecordFailure(p, e) /\ ~GivesUp(outbox[e].attempts + 1)
        BY <3>a, <3>b, <4>3, <1>2 DEF RecordFailure, NextEvent, InOrder, At, Tried
      <4>4. CASE RecordFailure(p, e) /\ GivesUp(outbox[e].attempts + 1)
        <5>1. todo' = todo /\ pc'[q] # "poll"
          BY <3>b, <4>4 DEF RecordFailure, Goto
        <5> QED
          BY <5>1
      <4>5. CASE MarkDeadLettered(p, e)
        BY <3>a, <3>b, <4>5, <1>2 DEF MarkDeadLettered, NextEvent, InOrder, At, Tried
      <4>6. CASE StatementFails(p, e)
        BY <3>a, <3>b, <4>6, <1>2 DEF StatementFails, NextEvent, InOrder, At, Tried
      <4>8. CASE AnswerLost(p, e)
        BY <3>a, <3>b, <4>8, <1>2 DEF AnswerLost, NextEvent, InOrder, At, Tried
      <4>7. CASE Crash(p, e)
        BY <3>b, <4>7 DEF Crash
      <4> QED
        BY <1>6, <4>1, <4>2, <4>3, <4>4, <4>5, <4>6, <4>7, <4>8
        DEF Step, Work, Fault
    <3>2. \A x \in todo'[q] :
            /\ outbox'[x].committed
            /\ \A f \in Same(x) :
                 Precedes(f, x)' => f \in todo'[q] \/ Tried(f)'
      <4> SUFFICES ASSUME NEW x \in todo'[q]
                   PROVE  /\ outbox'[x].committed
                          /\ \A f \in Same(x) :
                               Precedes(f, x)' => f \in todo'[q] \/ Tried(f)'
        OBVIOUS
      <4>1. x \in todo[q] /\ x \in Events /\ outbox[x].committed
        BY <1>2, <3>a DEF InOrder
      <4>2. \A f \in Same(x) : Precedes(f, x)' => f \in todo[q] \/ Tried(f)
        BY <1>2, <4>1, PrecedesKept DEF InOrder
      <4>3. \A f \in Same(x) : f \in Events
        BY DEF Same
      <4>4. \A f \in todo[q] : f \in todo'[q] \/ Tried(f)
        BY <3>1
      <4> QED
        BY <4>1, <4>2, <4>3, <4>4, Grows
    <3>3. /\ pc'[q] = "mark" => todo'[q] = todo[q] /\ received'[e] > 0
          /\ pc'[q] \in {"record", "bury"} => todo'[q] = todo[q] /\ failures'[e] > 0
          /\ pc'[q] = "bury" => outbox'[e].attempts >= MaxAttempts
      <4>1. CASE Publish(p, e) \/ PublishFails(p, e)
        BY <3>b, <4>1 DEF Publish, PublishFails, Goto
      <4>2. CASE RecordFailure(p, e) /\ GivesUp(outbox[e].attempts + 1)
        <5>1. /\ todo' = todo /\ UNCHANGED failures /\ pc[q] = "record"
              /\ outbox'[e].attempts = outbox[e].attempts + 1 /\ pc'[q] = "bury"
          BY <3>b, <4>2 DEF RecordFailure, Goto, history, Row
        <5> QED
          BY <1>2, <3>a, <4>2, <5>1 DEF InOrder, At, GivesUp
      <4>3. CASE \/ RecordFailure(p, e) /\ ~GivesUp(outbox[e].attempts + 1)
                 \/ MarkPublished(p, e) \/ MarkDeadLettered(p, e)
                 \/ StatementFails(p, e) \/ AnswerLost(p, e) \/ Crash(p, e)
        BY <3>b, <4>3 DEF RecordFailure, MarkPublished, MarkDeadLettered,
             StatementFails, AnswerLost, Crash, NextEvent
      <4> QED
        BY <1>6, <4>1, <4>2, <4>3 DEF Step, Work, Fault
    <3>4. ASSUME NEW x \in Events, pc'[q] \in {"mark", "record", "bury"},
                 IsCurrent(q, x)'
          PROVE  x = e
      BY <3>3, <3>4, <3>a, OneCurrent DEF IsCurrent
    <3>5. \A x \in Events :
            /\ At(q, x, {"mark"})' => received'[x] > 0
            /\ At(q, x, {"record", "bury"})' => failures'[x] > 0
            /\ At(q, x, {"bury"})' => outbox'[x].attempts >= MaxAttempts
      BY <3>3, <3>4 DEF At
    <3> QED
      BY <3>1, <3>2, <3>5 DEF InOrder
  <2> QED
    BY <2>1, <2>2
<1> QED
  BY <1>4, <1>5, <1>6 DEF Next, Step

LEMMA ReceivedKept ==
  ASSUME PubInv, Next, NEW x \in Events, received'[x] > 0
  PROVE  outbox'[x].committed
<1>1. CASE received'[x] = received[x]
  BY <1>1, Grows DEF PubInv
<1>2. CASE received'[x] # received[x]
  <2>1. \E p \in Publishers : IsCurrent(p, x)
    <3>1. ASSUME NEW p \in Publishers, NEW e \in Events, Step(p, e)
          PROVE  IsCurrent(p, x)
      BY <1>2, <3>1, Others DEF Step, PubInv
    <3> QED
      BY <1>2, <3>1 DEF Next, Step, Create, GetUnpublished, history
  <2>2. PICK p \in Publishers : x \in todo[p]
    BY <2>1 DEF IsCurrent
  <2> QED
    BY <2>2, Grows DEF PubInv, InOrder
<1> QED
  BY <1>1, <1>2

LEMMA TriedInOrderKept ==
  ASSUME PubInv, Next
  PROVE  TriedInOrder'
<1> USE DEF PubInv
<1>1. SUFFICES ASSUME NEW x \in Events, received'[x] > 0,
                      NEW f \in Same(x), Precedes(f, x)'
               PROVE  Tried(f)'
  BY DEF TriedInOrder, Tried, Same
<1>2. f \in Events /\ f < x
  BY <1>1 DEF Same, Precedes
<1>3. SUFFICES Tried(f)
  BY <1>2, Grows
<1>4. CASE received[x] > 0
  <2>1. outbox[x].committed
    BY <1>4 DEF PubInv
  <2>2. Precedes(f, x)
    BY <1>1, <2>1, PrecedesKept
  <2> QED
    BY <1>4, <2>2 DEF TriedInOrder, Tried
<1>5. CASE ~(received[x] > 0)
  <2>1. received'[x] # received[x]
    BY <1>1, <1>5
  <2>2. \E p \in Publishers : IsCurrent(p, x)
    <3>1. ASSUME NEW p \in Publishers, NEW e \in Events, Step(p, e)
          PROVE  IsCurrent(p, x)
      BY <2>1, <3>1, Others DEF Step
    <3> QED
      BY <2>1, <3>1 DEF Next, Step, Create, GetUnpublished, history
  <2>3. PICK p \in Publishers : IsCurrent(p, x)
    BY <2>2
  <2>4. f \notin todo[p]
    <3>1. f \in Nat /\ x \in Nat /\ f < x
      BY <1>2, PublisherAssumption
    <3>2. f \in todo[p] => x <= f
      BY <2>3 DEF IsCurrent
    <3> QED
      BY <3>1, <3>2
  <2>5. InOrder(p) /\ x \in todo[p]
    BY <2>3 DEF IsCurrent
  <2>6. Precedes(f, x)
    BY <1>1, <2>5, PrecedesKept DEF InOrder
  <2> QED
    BY <2>4, <2>5, <2>6 DEF InOrder
<1> QED
  BY <1>4, <1>5

-----------------------------------------------------------------------------
(* The invariant, and what it says.                                        *)
LEMMA PubInvInit == ASSUME Init PROVE PubInv
<1> USE PublisherAssumption DEF Init
<1>1. Types
  BY DEF Types, Unborn, Row, Pc
<1>3. \A p \in Publishers : InOrder(p)
  BY DEF InOrder, At
<1>4. ASSUME NEW e \in Events PROVE Delivered(e) /\ Counted(e)
  <2>1. Spent(e) = {} /\ Counting(e) = {} /\ Failed(e) = {}
    BY DEF Spent, Counting, Failed, At, Unborn
  <2>2. Cardinality({}) = 0
    BY FS_EmptySet
  <2> QED
    BY <2>1, <2>2 DEF Delivered, Counted, Unborn
<1>5. TriedInOrder /\ \A e \in Events : received[e] > 0 => outbox[e].committed
  BY DEF TriedInOrder
<1> QED
  BY <1>1, <1>3, <1>4, <1>5 DEF PubInv

LEMMA PubInvStep == ASSUME PubInv, [Next]_vars PROVE PubInv'
<1>1. CASE Next
  <2>1. Types'
    BY <1>1, TypesKept DEF PubInv
  <2>2. \A p \in Publishers : InOrder(p)'
    BY <1>1, InOrderKept
  <2>3. \A e \in Events : Delivered(e)' /\ Counted(e)'
    BY <1>1, DeliveredKept, CountedKept
  <2>4. TriedInOrder'
    BY <1>1, TriedInOrderKept
  <2>5. \A e \in Events : received'[e] > 0 => outbox'[e].committed
    BY <1>1, ReceivedKept
  <2> QED
    BY <2>1, <2>2, <2>3, <2>4, <2>5 DEF PubInv
<1>2. CASE UNCHANGED vars
  BY <1>2 DEF vars, history, PubInv, Types, InOrder, At, Same, Precedes,
    IsCurrent, Tried, Delivered, Spent, Counted, Counting, Failed, TriedInOrder
<1> QED
  BY <1>1, <1>2

LEMMA PubInvAlways == Spec => []PubInv
<1>1. Init => PubInv
  BY PubInvInit
<1>2. PubInv /\ [Next]_vars => PubInv'
  BY PubInvStep
<1> QED
  BY <1>1, <1>2, PTL DEF Spec

(* What is marked published was delivered, and an event is delivered once  *)
(* by each process at most and once more for each result that was lost.    *)
THEOREM Deliveries == Spec => []DeliveredOnceUnlessLost
<1>1. ASSUME PubInv PROVE DeliveredOnceUnlessLost
  <2>1. SUFFICES ASSUME NEW e \in Events
                 PROVE  received[e] <= Cardinality(Publishers) + lost[e]
    BY <1>1 DEF PubInv, Delivered, DeliveredOnceUnlessLost
  <2>2. received[e] <= Cardinality(Spent(e)) + lost[e]
    BY <1>1 DEF PubInv, Delivered
  <2>3. received[e] \in Nat /\ lost[e] \in Nat
    BY <1>1 DEF PubInv, Types
  <2>4. Spent(e) \subseteq Publishers
    BY SetsTyped
  <2>5. /\ Cardinality(Spent(e)) <= Cardinality(Publishers)
        /\ Cardinality(Spent(e)) \in Nat /\ Cardinality(Publishers) \in Nat
    BY <2>4, PublisherAssumption, FS_Subset, FS_CardinalityType
  <2> QED
    BY <2>2, <2>3, <2>5
<1> QED
  BY <1>1, PubInvAlways, PTL

(* An event is given up after MaxAttempts failed deliveries and not before,*)
(* and is tried more often only by other processes that had fetched it, or *)
(* because a count or the verdict was lost.                                *)
THEOREM GivingUp == Spec => []GivenUpOnTime
<1>1. ASSUME PubInv PROVE GivenUpOnTime
  <2>1. SUFFICES ASSUME NEW e \in Events
                 PROVE  /\ outbox[e].dead => failures[e] >= MaxAttempts
                        /\ failures[e] <= MaxAttempts + Cardinality(Publishers)
                                            - 1 + lost[e]
    BY DEF GivenUpOnTime
  <2>2. Counted(e)
    BY <1>1 DEF PubInv
  <2>3. /\ failures[e] \in Nat /\ lost[e] \in Nat /\ MaxAttempts \in Nat
        /\ outbox[e].attempts \in Nat
    BY <1>1, PublisherAssumption DEF PubInv, Types, Row
  <2>4. Failed(e) \subseteq Publishers /\ Counting(e) \subseteq Publishers
    BY SetsTyped
  <2>5. /\ Cardinality(Failed(e)) <= Cardinality(Publishers)
        /\ Cardinality(Failed(e)) \in Nat /\ Cardinality(Publishers) \in Nat
        /\ Cardinality(Counting(e)) \in Nat
    BY <2>4, PublisherAssumption, FS_Subset, FS_CardinalityType
  <2>6. outbox[e].dead => failures[e] >= MaxAttempts
    BY <2>2, <2>3, <2>5 DEF Counted
  <2>7. failures[e] <= MaxAttempts + Cardinality(Publishers) - 1 + lost[e]
    BY <2>2, <2>3, <2>5 DEF Counted
  <2> QED
    BY <2>6, <2>7
<1> QED
  BY <1>1, PubInvAlways, PTL

(* No event is delivered before those of its aggregate have been tried that*)
(* precede it by created_at and by aggregate_sequence, whatever the clocks,*)
(* with any number of processes, faults and crashes.                       *)
THEOREM Ordering == Spec => []TriedInOrder
<1>1. PubInv => TriedInOrder
  BY DEF PubInv
<1> QED
  BY <1>1, PubInvAlways, PTL
=============================================================================
