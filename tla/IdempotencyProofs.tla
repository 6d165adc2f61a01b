------------------------- MODULE IdempotencyProofs -------------------------
(***************************************************************************)
(* Proofs about Idempotency, for any number of requests, keys and bodies.  *)
(***************************************************************************)
EXTENDS Idempotency, TLAPS

(* A request that has come has a call, and has not answered before it is   *)
(* done.                                                                   *)
Progress(r) ==
  /\ pc[r] # "new" => call[r] \in Call
  /\ pc[r] # "done" => answer[r] = Says("none")
  /\ pc[r] = "reread" => call[r].via = "http"
  /\ pc[r] = "update" => call[r].via = "http" /\ result[r] = "ok"
  /\ first[r] => pc[r] \in {"run", "update", "done"}
  /\ settled[r] => pc[r] \in {"get", "done"}

(* A claim or a settled key lasts until the key expires.                   *)
Remembered(r) ==
  /\ first[r] => store[Slot(r)] # Absent
  /\ settled[r] => store[Slot(r)].kind \in {"hash", "response"}

(* A request that is past the point where it writes its first value.       *)
Past(q) == pc[q] \notin {"new", "get", "set"}

(* The response of q, which succeeded over HTTP; the hash of a body, which *)
(* a call over gRPC has left; the placeholder of an HTTP request.          *)
Responded(q, s) ==
  pc[q] = "done" /\ Slot(q) = s /\ call[q].via = "http" /\ result[q] = "ok"
Hashed(s, b) ==
  \E q \in Requests :
    Past(q) /\ Slot(q) = s /\ call[q].via = "grpc" /\ call[q].body = b
Placed(s) == \E q \in Requests : Past(q) /\ Slot(q) = s /\ call[q].via = "http"

(* Where the values of the store come from, ...                            *)
ValueTraced(s, v) ==
  /\ \A q \in Requests : v = ResponseOf(q) => Responded(q, s)
  /\ \A b \in Bodies : v = HashOf(b) => Hashed(s, b)
  /\ v = Processing => Placed(s)

(* ... and the answers that were made of them.                             *)
Traced(r, a) ==
  /\ \A q \in Requests : a = ResponseOf(q) =>
       q # r /\ Responded(q, Slot(r)) /\ pc[r] # "new" /\ call[r].via = "http"
  /\ \A b \in Bodies : a = HashOf(b) =>
       Hashed(Slot(r), b) /\ pc[r] # "new" /\ call[r].via = "http"
  /\ a = Says("duplicate") =>
       /\ pc[r] # "new"
       /\ \E q \in Requests \ {r} :
            /\ Past(q) /\ Slot(q) = Slot(r)
            /\ call[q].via = "grpc" /\ call[q].body = call[r].body
  /\ a = Says("mismatch") =>
       /\ pc[r] # "new"
       /\ \/ Placed(Slot(r))
          \/ \E q \in Requests \ {r} :
               /\ Past(q) /\ Slot(q) = Slot(r)
               /\ call[q].via = "grpc" /\ call[q].body # call[r].body

IdemInv ==
  /\ TypeOK
  /\ \A r \in Requests : Progress(r)
  /\ \A r \in Requests : Remembered(r)
  /\ \A s \in Slots : ValueTraced(s, store[s])
  /\ \A r \in Requests : Traced(r, answer[r])
  /\ HttpClaimedOnce

-----------------------------------------------------------------------------
(* What values, answers and slots can be told apart by.                    *)
LEMMA ValueFacts ==
  /\ Absent \in Value /\ Processing \in Value
  /\ Absent.kind = "absent" /\ Processing.kind = "processing"
  /\ \A b : HashOf(b).kind = "hash"
  /\ \A r : ResponseOf(r).kind = "response"
  /\ \A b \in Bodies : HashOf(b) \in Value /\ HashOf(b) \in Answer
  /\ \A r \in Requests : ResponseOf(r) \in Value /\ ResponseOf(r) \in Answer
  /\ \A r, q : ResponseOf(r) = ResponseOf(q) => r = q
  /\ \A b, c : HashOf(b) = HashOf(c) => b = c
  /\ \A v \in Value \ {Absent, Processing} : v \in Answer
  /\ \A v \in Value :
       \/ v = Absent \/ v = Processing
       \/ \E b \in Bodies : v = HashOf(b)
       \/ \E r \in Requests : v = ResponseOf(r)
<1>1. \A r, q : ResponseOf(r) = ResponseOf(q) => r = q
  BY DEF ResponseOf
<1>2. \A b, c : HashOf(b) = HashOf(c) => b = c
  BY DEF HashOf
<1>3. \A v \in Value :
        \/ v = Absent \/ v = Processing
        \/ \E b \in Bodies : v = HashOf(b)
        \/ \E r \in Requests : v = ResponseOf(r)
  BY Zenon DEF Value
<1>4. \A r \in Requests : ResponseOf(r) \in Value /\ ResponseOf(r) \in Answer
  BY Zenon DEF Value, Answer
<1>5. \A b \in Bodies : HashOf(b) \in Value /\ HashOf(b) \in Answer
  BY Zenon DEF Value, Answer
<1>6. /\ Absent \in Value /\ Processing \in Value
      /\ Absent.kind = "absent" /\ Processing.kind = "processing"
      /\ \A b : HashOf(b).kind = "hash"
      /\ \A r : ResponseOf(r).kind = "response"
  BY DEF Value, Absent, Processing, HashOf, ResponseOf
<1>7. \A v \in Value \ {Absent, Processing} : v \in Answer
  BY <1>3, <1>4, <1>5
<1> QED
  BY <1>1, <1>2, <1>3, <1>4, <1>5, <1>6, <1>7

LEMMA AnswerFacts ==
  /\ \A w \in {"none", "duplicate", "mismatch", "unavailable"} :
       /\ Says(w) \in Answer
       /\ Says(w).kind = w
       /\ \A r : Says(w) # ResponseOf(r)
       /\ \A b : Says(w) # HashOf(b)
  /\ \A w, u : Says(w) = Says(u) => w = u
  /\ \A r, b : ResponseOf(r) # HashOf(b)
  BY DEF Answer, Says, ResponseOf, HashOf

LEMMA SlotFacts ==
  ASSUME NEW c \in Call
  PROVE  /\ SlotOf(c) \in Slots
         /\ c.via \in {"http", "grpc"}
         /\ c.via = "grpc" => c.body \in Bodies /\ SlotOf(c)[1] = "grpc"
  BY DEF Slots, SlotOf, Call

(* A request that has come has a slot.                                     *)
LEMMA OwnSlot ==
  ASSUME IdemInv, NEW r \in Requests, pc[r] # "new"
  PROVE  /\ call[r] \in Call /\ Slot(r) \in Slots /\ store[Slot(r)] \in Value
         /\ call[r].via \in {"http", "grpc"}
         /\ call[r].via = "grpc" =>
              call[r].body \in Bodies /\ Slot(r)[1] = "grpc"
  BY SlotFacts DEF IdemInv, TypeOK, Progress, Slot

-----------------------------------------------------------------------------
(* Requests only move on: what was traced to one stays traced to it.       *)
Onward ==
  \A q \in Requests :
    /\ pc[q] # "new" => pc'[q] # "new" /\ call'[q] = call[q]
    /\ Past(q) => Past(q)'
    /\ pc[q] = "done" => pc'[q] = "done" /\ result'[q] = result[q]

LEMMA MovesOn ==
  ASSUME IdemInv, Next
  PROVE  Onward
<1>1. pc \in [Requests -> Pc] /\ call \in [Requests -> Call \cup {NoCall}]
      /\ result \in [Requests -> {"none", "ok", "error"}]
  BY DEF IdemInv, TypeOK
<1> DEFINE To(r, n) == pc' = [pc EXCEPT ![r] = n] /\ UNCHANGED <<call, result>>
<1>2. ASSUME NEW r \in Requests, NEW n, To(r, n), pc[r] \notin {"new", "done"},
             n \notin {"new", "get"}, pc[r] \in {"get", "set"} \/ n # "set"
      PROVE  Onward
  BY <1>1, <1>2 DEF Onward, Past
<1>3. ASSUME NEW r \in Requests, NEW c \in Call, Arrive(r, c) PROVE Onward
  BY <1>1, <1>3 DEF Arrive, Goto, Onward, Past
<1>4. ASSUME NEW r \in Requests, NEW v, Decide(r, v) PROVE \E n \in {"run", "done"} : pc' = [pc EXCEPT ![r] = n]
  BY <1>4, Zenon DEF Decide, DecideHttp, DecideGrpc, Respond, Goto
<1>5. ASSUME NEW r \in Requests, CheckAndGet(r) PROVE Onward
  <2>1. \E n \in {"set", "run", "done"} : pc' = [pc EXCEPT ![r] = n]
    BY <1>4, <1>5, Zenon DEF CheckAndGet, Goto
  <2> QED BY <1>2, <1>5, <2>1 DEF CheckAndGet
<1>6. ASSUME NEW r \in Requests, SetHash(r) \/ SetNX(r) PROVE Onward
  <2>1. \E n \in {"run", "reread"} : pc' = [pc EXCEPT ![r] = n]
    BY <1>6, Zenon DEF SetHash, SetNX, Claim, Goto
  <2>2. pc[r] = "set" /\ UNCHANGED <<call, result>>
    BY <1>6 DEF SetHash, SetNX
  <2> QED BY <1>2, <2>1, <2>2
<1>7. ASSUME NEW r \in Requests, CheckAgain(r) PROVE Onward
  <2>1. \E n \in {"run", "done"} : pc' = [pc EXCEPT ![r] = n]
    BY <1>4, <1>7 DEF CheckAgain
  <2> QED BY <1>2, <1>7, <2>1 DEF CheckAgain
<1>8. ASSUME NEW r \in Requests, CheckFails(r) PROVE Onward
  <2>1. \E n \in {"run", "done"} : pc' = [pc EXCEPT ![r] = n]
    BY <1>8, Zenon DEF CheckFails, Respond, Goto
  <2> QED BY <1>2, <1>8, <2>1 DEF CheckFails
<1>9. ASSUME NEW r \in Requests, Execute(r) PROVE Onward
  BY <1>1, <1>9 DEF Execute, Goto, Onward, Past
<1>10. ASSUME NEW r \in Requests, Update(r) \/ Lose(r) PROVE Onward
  BY <1>2, <1>10 DEF Update, Lose, Goto
<1>11. ASSUME NEW s \in Slots, Expire(s) PROVE Onward
  BY <1>11 DEF Expire, Onward, Past
<1> QED
  BY <1>3, <1>5, <1>6, <1>7, <1>8, <1>9, <1>10, <1>11 DEF Next

LEMMA StaysTraced ==
  ASSUME Onward, IdemInv
  PROVE  /\ \A s, q : q \in Requests /\ Responded(q, s) => Responded(q, s)'
         /\ \A s, b : Hashed(s, b) => Hashed(s, b)'
         /\ \A s : Placed(s) => Placed(s)'
         /\ \A s, v : ValueTraced(s, v) => ValueTraced(s, v)'
         /\ \A r \in Requests : \A a : Traced(r, a) => Traced(r, a)'
<1>1. \A q \in Requests : pc[q] # "new" => Slot(q)' = Slot(q)
  BY DEF Onward, Slot
<1>2. \A q \in Requests : Past(q) =>
        Past(q)' /\ Slot(q)' = Slot(q) /\ call'[q] = call[q]
  BY <1>1 DEF Onward, Past
<1>3. \A s, q : q \in Requests /\ Responded(q, s) => Responded(q, s)'
  BY <1>1 DEF Onward, Responded
<1>4. \A s, b : Hashed(s, b) => Hashed(s, b)'
  BY <1>2, Zenon DEF Hashed
<1>5. \A s : Placed(s) => Placed(s)'
  BY <1>2, Zenon DEF Placed
<1>6. \A s, v : ValueTraced(s, v) => ValueTraced(s, v)'
  BY <1>3, <1>4, <1>5, Zenon DEF ValueTraced
<1>7. ASSUME NEW r \in Requests, NEW a, Traced(r, a)
      PROVE  Traced(r, a)'
  <2>1. \A q \in Requests : a = ResponseOf(q) =>
          (q # r /\ Responded(q, Slot(r)) /\ pc[r] # "new" /\ call[r].via = "http")'
    <3>1. ASSUME NEW q \in Requests, a = ResponseOf(q)
          PROVE  (q # r /\ Responded(q, Slot(r)) /\ pc[r] # "new"
                  /\ call[r].via = "http")'
      <4>1. q # r /\ Responded(q, Slot(r)) /\ pc[r] # "new" /\ call[r].via = "http"
        BY <1>7, <3>1 DEF Traced
      <4>2. Slot(r)' = Slot(r) /\ pc'[r] # "new" /\ call'[r] = call[r]
        BY <1>1, <4>1 DEF Onward
      <4> QED BY <1>3, <4>1, <4>2
    <3> QED BY <3>1
  <2>2. \A b \in Bodies : a = HashOf(b) =>
          (Hashed(Slot(r), b) /\ pc[r] # "new" /\ call[r].via = "http")'
    <3>1. ASSUME NEW b \in Bodies, a = HashOf(b)
          PROVE  (Hashed(Slot(r), b) /\ pc[r] # "new" /\ call[r].via = "http")'
      <4>1. Hashed(Slot(r), b) /\ pc[r] # "new" /\ call[r].via = "http"
        BY <1>7, <3>1 DEF Traced
      <4>2. Slot(r)' = Slot(r) /\ pc'[r] # "new" /\ call'[r] = call[r]
        BY <1>1, <4>1 DEF Onward
      <4> QED BY <1>4, <4>1, <4>2
    <3> QED BY <3>1
  <2>3. a \in {Says("duplicate"), Says("mismatch")} =>
          pc[r] # "new" /\ pc'[r] # "new" /\ Slot(r)' = Slot(r) /\ call'[r] = call[r]
    BY <1>1, <1>7 DEF Traced, Onward
  <2>4. a = Says("duplicate") =>
          /\ pc'[r] # "new"
          /\ \E q \in Requests \ {r} :
               /\ Past(q)' /\ Slot(q)' = Slot(r)'
               /\ call'[q].via = "grpc" /\ call'[q].body = call'[r].body
    BY <1>2, <1>7, <2>3, Zenon DEF Traced
  <2>5. a = Says("mismatch") =>
          /\ pc'[r] # "new"
          /\ \/ Placed(Slot(r))'
             \/ \E q \in Requests \ {r} :
                  /\ Past(q)' /\ Slot(q)' = Slot(r)'
                  /\ call'[q].via = "grpc" /\ call'[q].body # call'[r].body
    <3>1. SUFFICES ASSUME a = Says("mismatch")
                   PROVE  \/ Placed(Slot(r))'
                          \/ \E q \in Requests \ {r} :
                               /\ Past(q)' /\ Slot(q)' = Slot(r)'
                               /\ call'[q].via = "grpc"
                               /\ call'[q].body # call'[r].body
      BY <2>3, Zenon
    <3>2. CASE Placed(Slot(r))
      BY <1>5, <2>3, <3>1, <3>2, Zenon
    <3>3. CASE \E q \in Requests \ {r} :
                 /\ Past(q) /\ Slot(q) = Slot(r)
                 /\ call[q].via = "grpc" /\ call[q].body # call[r].body
      BY <1>2, <2>3, <3>1, <3>3, Zenon
    <3> QED BY <1>7, <3>1, <3>2, <3>3, Zenon DEF Traced
  <2> QED BY <2>1, <2>2, <2>4, <2>5, Zenon DEF Traced
<1> QED BY <1>3, <1>4, <1>5, <1>6, <1>7

(* What a middleware makes of the value it finds is traced, if the value   *)
(* is.                                                                     *)
LEMMA DecidedTraced ==
  ASSUME IdemInv, NEW r \in Requests, Decide(r, store[Slot(r)]),
         store[Slot(r)] # Absent \/ call[r].via = "http",
         pc[r] \in {"get", "reread"}, pc[r] = "reread" => call[r].via = "http"
  PROVE  \E a \in Answer : answer' = [answer EXCEPT ![r] = a] /\ Traced(r, a)
                          /\ (pc'[r] # "done" => a = Says("none"))
<1> DEFINE v == store[Slot(r)]
<1>1. /\ call[r] \in Call /\ Slot(r) \in Slots /\ v \in Value
      /\ call[r].via \in {"http", "grpc"}
      /\ call[r].via = "grpc" => call[r].body \in Bodies
  BY OwnSlot
<1>2. ValueTraced(Slot(r), v)
  BY <1>1 DEF IdemInv
<1>3. answer \in [Requests -> Answer] /\ pc \in [Requests -> Pc]
      /\ answer[r] = Says("none")
  BY DEF IdemInv, TypeOK, Progress
<1>4. CASE call[r].via = "http" /\ v \in {Absent, Processing}
  <2>1. answer' = [answer EXCEPT ![r] = Says("none")]
    BY <1>3, <1>4 DEF Decide, DecideHttp
  <2>2. Traced(r, Says("none"))
    BY AnswerFacts DEF Traced
  <2> QED BY <2>1, <2>2, AnswerFacts
<1>5. CASE call[r].via = "http" /\ v \notin {Absent, Processing}
  <2>1. answer' = [answer EXCEPT ![r] = v] /\ pc' = [pc EXCEPT ![r] = "done"]
    BY <1>5, Zenon DEF Decide, DecideHttp, Respond, Goto
  <2>2. v \in Answer
    BY <1>1, <1>5, ValueFacts
  <2>3. Traced(r, v)
    <3>1. \A q \in Requests : v = ResponseOf(q) => Responded(q, Slot(r)) /\ q # r
      BY <1>2 DEF ValueTraced, Responded
    <3>2. \A b \in Bodies : v = HashOf(b) => Hashed(Slot(r), b)
      BY <1>2 DEF ValueTraced
    <3>3. v # Says("duplicate") /\ v # Says("mismatch")
      BY <1>1, <1>5, ValueFacts, AnswerFacts
    <3>4. pc[r] # "new"
      OBVIOUS
    <3> HIDE DEF v
    <3> QED BY <1>5, <3>1, <3>2, <3>3, <3>4, Zenon DEF Traced
  <2>4. pc'[r] = "done"
    BY <1>3, <2>1
  <2> QED BY <2>1, <2>2, <2>3, <2>4
<1>6. CASE call[r].via = "grpc"
  <2> DEFINE w == IF v = HashOf(call[r].body) THEN "duplicate" ELSE "mismatch"
  <2>1. answer' = [answer EXCEPT ![r] = Says(w)] /\ pc'[r] = "done"
    BY <1>3, <1>6 DEF Decide, DecideGrpc, Respond, Goto
  <2>2. v # Absent /\ pc[r] = "get"
    BY <1>6
  <2>3. \/ v = Processing \/ \E b \in Bodies : v = HashOf(b)
        \/ \E q \in Requests : v = ResponseOf(q)
    BY <1>1, <2>2, ValueFacts
  <2>4. CASE v = Processing \/ \E q \in Requests : v = ResponseOf(q)
    <3>1. Placed(Slot(r))
      BY <1>2, <2>4 DEF ValueTraced, Responded, Placed, Past
    <3>2. w = "mismatch"
      BY <2>4, ValueFacts
    <3>3. Traced(r, Says("mismatch"))
      BY <2>2, <3>1, AnswerFacts DEF Traced
    <3> QED BY <2>1, <3>2, <3>3, AnswerFacts
  <2>5. ASSUME NEW b \in Bodies, v = HashOf(b)
        PROVE  \E a \in Answer : answer' = [answer EXCEPT ![r] = a] /\ Traced(r, a)
                          /\ (pc'[r] # "done" => a = Says("none"))
    <3>1. PICK q \in Requests : Past(q) /\ Slot(q) = Slot(r)
                               /\ call[q].via = "grpc" /\ call[q].body = b
      BY <1>2, <2>5 DEF ValueTraced, Hashed
    <3>2. q \in Requests \ {r}
      BY <2>2, <3>1 DEF Past
    <3>3. CASE b = call[r].body
      <4>1. w = "duplicate"
        BY <2>5, <3>3
      <4>2. Traced(r, Says("duplicate"))
        BY <2>2, <3>1, <3>2, <3>3, AnswerFacts DEF Traced
      <4> QED BY <2>1, <4>1, <4>2, AnswerFacts
    <3>4. CASE b # call[r].body
      <4>1. w = "mismatch"
        BY <2>5, <3>4, ValueFacts
      <4>2. Traced(r, Says("mismatch"))
        BY <2>2, <3>1, <3>2, <3>4, AnswerFacts DEF Traced
      <4> QED BY <2>1, <4>1, <4>2, AnswerFacts
    <3> QED BY <3>3, <3>4
  <2> QED BY <2>3, <2>4, <2>5
<1> QED BY <1>1, <1>4, <1>5, <1>6

(* A value that a request leaves in its slot.                              *)
Written(r, v) ==
  \/ v = Processing /\ call[r].via = "http"
  \/ v = HashOf(call[r].body) /\ call[r].via = "grpc"

StoreTraced == \A s \in Slots : ValueTraced(s, store[s])
AnswersAreTraced == \A r \in Requests : Traced(r, answer[r])

LEMMA StoreStays ==
  ASSUME IdemInv, Onward,
         \/ store' = store
         \/ \E s \in Slots : \E v : store' = [store EXCEPT ![s] = v] /\ ValueTraced(s, v)'
  PROVE  StoreTraced'
<1>1. store \in [Slots -> Value] /\ \A s \in Slots : ValueTraced(s, store[s])
  BY DEF IdemInv, TypeOK
<1>2. \A s, v : ValueTraced(s, v) => ValueTraced(s, v)'
  BY StaysTraced
<1>3. CASE store' = store
  BY <1>1, <1>2, <1>3 DEF StoreTraced
<1>4. ASSUME NEW s \in Slots, NEW v, store' = [store EXCEPT ![s] = v], ValueTraced(s, v)'
      PROVE  StoreTraced'
  <2>1. ASSUME NEW u \in Slots PROVE ValueTraced(u, store[u])'
    <3>1. CASE u = s
      BY <1>1, <1>4, <3>1, Zenon
    <3>2. CASE u # s
      <4>1. store'[u] = store[u]
        BY <1>1, <1>4, <3>2
      <4> QED BY <1>1, <1>2, <4>1, Zenon
    <3> QED BY <3>1, <3>2
  <2> QED BY <2>1 DEF StoreTraced
<1> QED BY <1>3, <1>4

LEMMA AnswersStay ==
  ASSUME IdemInv, Onward,
         \/ answer' = answer
         \/ \E r \in Requests : \E a : answer' = [answer EXCEPT ![r] = a] /\ Traced(r, a)
  PROVE  AnswersAreTraced'
<1>1. answer \in [Requests -> Answer] /\ \A r \in Requests : Traced(r, answer[r])
  BY DEF IdemInv, TypeOK
<1>2. \A r \in Requests : \A a : Traced(r, a) => Traced(r, a)'
  BY StaysTraced
<1>3. CASE answer' = answer
  BY <1>1, <1>2, <1>3 DEF AnswersAreTraced
<1>4. ASSUME NEW r \in Requests, NEW a, answer' = [answer EXCEPT ![r] = a], Traced(r, a)
      PROVE  AnswersAreTraced'
  <2>1. ASSUME NEW q \in Requests PROVE Traced(q, answer[q])'
    <3>1. CASE q = r
      BY <1>1, <1>2, <1>4, <3>1, Zenon
    <3>2. CASE q # r
      <4>1. answer'[q] = answer[q]
        BY <1>1, <1>4, <3>2
      <4> QED BY <1>1, <1>2, <4>1, Zenon
    <3> QED BY <3>1, <3>2
  <2> QED BY <2>1 DEF AnswersAreTraced
<1> QED BY <1>3, <1>4

(* What a request writes when it gets past its write is traced to it.      *)
LEMMA WrittenTraced ==
  ASSUME IdemInv, NEW r \in Requests, NEW v, Written(r, v), NEW s, s = Slot(r),
         Past(r)', call'[r] = call[r]
  PROVE  ValueTraced(s, v)'
<1>1. Slot(r)' = s
  BY DEF Slot
<1>2. CASE v = Processing /\ call[r].via = "http"
  <2>1. Placed(s)'
    BY <1>1, <1>2 DEF Placed
  <2> QED BY <1>1, <1>2, <2>1, ValueFacts DEF ValueTraced
<1>3. CASE v = HashOf(call[r].body) /\ call[r].via = "grpc"
  <2>1. \A b \in Bodies : v = HashOf(b) => Hashed(s, b)'
    BY <1>1, <1>3, ValueFacts DEF Hashed
  <2> QED BY <1>1, <1>3, <2>1, ValueFacts DEF ValueTraced
<1> QED BY <1>2, <1>3 DEF Written

LEMMA IdemInvInit == Init => IdemInv
<1> SUFFICES ASSUME Init PROVE IdemInv
  OBVIOUS
<1>1. TypeOK
  BY ValueFacts, AnswerFacts DEF Init, TypeOK, Pc
<1>2. ASSUME NEW r \in Requests PROVE Progress(r) /\ Remembered(r)
  BY ValueFacts, AnswerFacts DEF Init, Progress, Remembered
<1>3. HttpClaimedOnce
  BY DEF Init, HttpClaimedOnce, FirstOver
<1>4. ASSUME NEW s \in Slots PROVE ValueTraced(s, store[s])
  BY ValueFacts DEF Init, ValueTraced
<1>5. ASSUME NEW r \in Requests PROVE Traced(r, answer[r])
  BY AnswerFacts DEF Init, Traced
<1> QED BY <1>1, <1>2, <1>3, <1>4, <1>5 DEF IdemInv

LEMMA ArriveKeeps ==
  ASSUME IdemInv, NEW r \in Requests, NEW c \in Call, Arrive(r, c)
  PROVE  IdemInv'
<1>0. Onward
  BY MovesOn DEF Next
<1>1. TypeOK'
  BY ValueFacts, AnswerFacts, SlotFacts
     DEF Arrive, IdemInv, TypeOK, Progress, Slot, Pc, Goto, seen
<1>2. ASSUME NEW q \in Requests PROVE Progress(q)'
  BY <1>2, ValueFacts, AnswerFacts, SlotFacts
     DEF Arrive, IdemInv, TypeOK, Progress, Remembered, Slot, Pc, Goto, seen
<1>3. ASSUME NEW q \in Requests PROVE Remembered(q)'
  BY <1>3, ValueFacts, AnswerFacts, SlotFacts
     DEF Arrive, IdemInv, TypeOK, Progress, Remembered, Slot, Pc, Goto, seen
<1>4. HttpClaimedOnce'
  BY ValueFacts, AnswerFacts, SlotFacts
     DEF Arrive, IdemInv, TypeOK, Progress, Remembered, HttpClaimedOnce,
         FirstOver, SameSlot, Slot, Pc, Goto, seen
<1>5. StoreTraced'
  BY <1>0, StoreStays DEF Arrive, seen
<1>6. AnswersAreTraced'
  BY <1>0, AnswersStay DEF Arrive, seen
<1> QED BY <1>1, <1>2, <1>3, <1>4, <1>5, <1>6
  DEF IdemInv, StoreTraced, AnswersAreTraced

LEMMA CheckAndGetKeeps ==
  ASSUME IdemInv, NEW r \in Requests, CheckAndGet(r)
  PROVE  IdemInv'
<1>0. Onward
  BY MovesOn DEF Next
<1>a. pc[r] = "reread" => call[r].via = "http"
  BY DEF IdemInv, Progress
<1>b. /\ pc[r] \in {"get", "reread"} /\ pc[r] # "new"
      /\ UNCHANGED <<store, call, result, first, settled>>
  BY DEF CheckAndGet, seen
<1>c. \/ pc' = [pc EXCEPT ![r] = "set"] /\ answer' = answer /\ pc[r] = "get"
      \/ /\ Decide(r, store[Slot(r)])
         /\ store[Slot(r)] # Absent \/ call[r].via = "http"
  BY <1>a DEF CheckAndGet, Goto
<1>d. \E n \in {"run", "done", "set"} : pc' = [pc EXCEPT ![r] = n]
  BY <1>c, Zenon DEF Decide, DecideHttp, DecideGrpc, Respond, Goto
<1>e. \E a \in Answer : answer' = [answer EXCEPT ![r] = a] /\ Traced(r, a)
                     /\ (pc'[r] # "done" => a = Says("none"))
  <2>1. CASE answer' = answer /\ pc' = [pc EXCEPT ![r] = "set"]
    <3>1. answer[r] = Says("none") /\ answer \in [Requests -> Answer]
      BY <1>b DEF IdemInv, Progress, TypeOK
    <3>2. Traced(r, answer[r])
      BY DEF IdemInv
    <3> QED BY <2>1, <3>1, <3>2
  <2>2. CASE Decide(r, store[Slot(r)]) /\ (store[Slot(r)] # Absent \/ call[r].via = "http")
    BY <1>a, <1>b, <2>2, DecidedTraced
  <2> QED BY <1>c, <2>1, <2>2
<1>f. \A s \in {settled[r]} : s => pc'[r] \in {"get", "done"}
  <2>1. SUFFICES ASSUME settled[r] PROVE pc'[r] = "done"
    OBVIOUS
  <2>2. store[Slot(r)].kind \in {"hash", "response"}
    BY <2>1 DEF IdemInv, Remembered
  <2>3. store[Slot(r)] \notin {Absent, Processing}
    BY <2>2, ValueFacts
  <2>4. Decide(r, store[Slot(r)])
    BY <2>3 DEF CheckAndGet
  <2>5. pc' = [pc EXCEPT ![r] = "done"]
    BY <2>3, <2>4, Zenon DEF Decide, DecideHttp, DecideGrpc, Respond, Goto
  <2> QED BY <2>5 DEF IdemInv, TypeOK
<1>1. TypeOK'
  BY <1>b, <1>d, <1>e DEF IdemInv, TypeOK, Pc
<1>2. ASSUME NEW q \in Requests PROVE Progress(q)'
  <2>1. pc \in [Requests -> Pc] /\ answer \in [Requests -> Answer]
    BY DEF IdemInv, TypeOK
  <2>2. CASE q = r
    BY <1>b, <1>d, <1>e, <1>f, <2>1, <2>2 DEF IdemInv, Progress
  <2>3. CASE q # r
    BY <1>b, <1>d, <1>e, <2>1, <2>3 DEF IdemInv, Progress
  <2> QED BY <2>2, <2>3
<1>3. ASSUME NEW q \in Requests PROVE Remembered(q)'
  BY <1>b DEF IdemInv, Remembered, Slot
<1>4. HttpClaimedOnce'
  BY <1>b, <1>d DEF IdemInv, TypeOK, HttpClaimedOnce, FirstOver, SameSlot, Slot, Progress
<1>5. StoreTraced'
  BY <1>0, <1>b, StoreStays
<1>6. AnswersAreTraced'
  BY <1>0, <1>e, AnswersStay
<1> QED BY <1>1, <1>2, <1>3, <1>4, <1>5, <1>6
  DEF IdemInv, StoreTraced, AnswersAreTraced

LEMMA CheckAgainKeeps ==
  ASSUME IdemInv, NEW r \in Requests, CheckAgain(r)
  PROVE  IdemInv'
<1>0. Onward
  BY MovesOn DEF Next
<1>a. pc[r] = "reread" => call[r].via = "http"
  BY DEF IdemInv, Progress
<1>b. /\ pc[r] \in {"get", "reread"} /\ pc[r] # "new"
      /\ UNCHANGED <<store, call, result, first, settled>>
  BY DEF CheckAgain, seen
<1>c. \/ pc' = [pc EXCEPT ![r] = "set"] /\ answer' = answer /\ pc[r] = "get"
      \/ /\ Decide(r, store[Slot(r)])
         /\ store[Slot(r)] # Absent \/ call[r].via = "http"
  BY <1>a DEF CheckAgain, Goto
<1>d. \E n \in {"run", "done", "set"} : pc' = [pc EXCEPT ![r] = n]
  BY <1>c, Zenon DEF Decide, DecideHttp, DecideGrpc, Respond, Goto
<1>e. \E a \in Answer : answer' = [answer EXCEPT ![r] = a] /\ Traced(r, a)
                     /\ (pc'[r] # "done" => a = Says("none"))
  <2>1. CASE answer' = answer /\ pc' = [pc EXCEPT ![r] = "set"]
    <3>1. answer[r] = Says("none") /\ answer \in [Requests -> Answer]
      BY <1>b DEF IdemInv, Progress, TypeOK
    <3>2. Traced(r, answer[r])
      BY DEF IdemInv
    <3> QED BY <2>1, <3>1, <3>2
  <2>2. CASE Decide(r, store[Slot(r)]) /\ (store[Slot(r)] # Absent \/ call[r].via = "http")
    BY <1>a, <1>b, <2>2, DecidedTraced
  <2> QED BY <1>c, <2>1, <2>2
<1>f. \A s \in {settled[r]} : s => pc'[r] \in {"get", "done"}
  <2>1. SUFFICES ASSUME settled[r] PROVE pc'[r] = "done"
    OBVIOUS
  <2>2. store[Slot(r)].kind \in {"hash", "response"}
    BY <2>1 DEF IdemInv, Remembered
  <2>3. store[Slot(r)] \notin {Absent, Processing}
    BY <2>2, ValueFacts
  <2>4. Decide(r, store[Slot(r)])
    BY <2>3 DEF CheckAgain
  <2>5. pc' = [pc EXCEPT ![r] = "done"]
    BY <2>3, <2>4, Zenon DEF Decide, DecideHttp, DecideGrpc, Respond, Goto
  <2> QED BY <2>5 DEF IdemInv, TypeOK
<1>1. TypeOK'
  BY <1>b, <1>d, <1>e DEF IdemInv, TypeOK, Pc
<1>2. ASSUME NEW q \in Requests PROVE Progress(q)'
  <2>1. pc \in [Requests -> Pc] /\ answer \in [Requests -> Answer]
    BY DEF IdemInv, TypeOK
  <2>2. CASE q = r
    BY <1>b, <1>d, <1>e, <1>f, <2>1, <2>2 DEF IdemInv, Progress
  <2>3. CASE q # r
    BY <1>b, <1>d, <1>e, <2>1, <2>3 DEF IdemInv, Progress
  <2> QED BY <2>2, <2>3
<1>3. ASSUME NEW q \in Requests PROVE Remembered(q)'
  BY <1>b DEF IdemInv, Remembered, Slot
<1>4. HttpClaimedOnce'
  BY <1>b, <1>d DEF IdemInv, TypeOK, HttpClaimedOnce, FirstOver, SameSlot, Slot, Progress
<1>5. StoreTraced'
  BY <1>0, <1>b, StoreStays
<1>6. AnswersAreTraced'
  BY <1>0, <1>e, AnswersStay
<1> QED BY <1>1, <1>2, <1>3, <1>4, <1>5, <1>6
  DEF IdemInv, StoreTraced, AnswersAreTraced

LEMMA SetHashKeeps ==
  ASSUME IdemInv, NEW r \in Requests, SetHash(r)
  PROVE  IdemInv'
<1>0. Onward
  BY MovesOn DEF Next
<1>1. TypeOK'
  BY ValueFacts, AnswerFacts, SlotFacts
     DEF SetHash, Claim, IdemInv, TypeOK, Progress, Slot, Pc, Goto, seen
<1>2. ASSUME NEW q \in Requests PROVE Progress(q)'
  BY <1>2, ValueFacts, AnswerFacts, SlotFacts
     DEF SetHash, Claim, IdemInv, TypeOK, Progress, Remembered, Slot, Pc, Goto, seen
<1>3. ASSUME NEW q \in Requests PROVE Remembered(q)'
  BY <1>3, ValueFacts, AnswerFacts, SlotFacts
     DEF SetHash, Claim, IdemInv, TypeOK, Progress, Remembered, Slot, Pc, Goto, seen
<1>4. HttpClaimedOnce'
  BY ValueFacts, AnswerFacts, SlotFacts
     DEF SetHash, Claim, IdemInv, TypeOK, Progress, Remembered, HttpClaimedOnce,
         FirstOver, SameSlot, Slot, Pc, Goto, seen
<1>5. StoreTraced'
  <2>1. pc[r] # "new" /\ Past(r)' /\ call' = call
    BY DEF SetHash, Claim, Respond, Goto, IdemInv, TypeOK, Past
  <2>2. PICK s \in Slots : s = Slot(r)
    BY <2>1, OwnSlot
  <2>3. PICK v : v = HashOf(call[r].body)
    OBVIOUS
  <2>4. Written(r, v) /\ store' = [store EXCEPT ![s] = v]
    BY <2>2, <2>3 DEF Written, SetHash, Claim
  <2>5. ValueTraced(s, v)'
    BY <2>1, <2>2, <2>4, WrittenTraced
  <2> QED BY <1>0, <2>4, <2>5, StoreStays
<1>6. AnswersAreTraced'
  BY <1>0, AnswersStay DEF SetHash, seen
<1> QED BY <1>1, <1>2, <1>3, <1>4, <1>5, <1>6
  DEF IdemInv, StoreTraced, AnswersAreTraced

LEMMA SetNXKeeps ==
  ASSUME IdemInv, NEW r \in Requests, SetNX(r)
  PROVE  IdemInv'
<1>0. Onward
  BY MovesOn DEF Next
<1>1. TypeOK'
  <2>1. pc[r] # "new"
    BY DEF SetNX
  <2>2. Slot(r) \in Slots /\ (call[r].via = "grpc" => call[r].body \in Bodies)
    BY <2>1, OwnSlot
  <2>3. store' \in [Slots -> Value]
    BY <2>2, ValueFacts DEF SetNX, Claim, IdemInv, TypeOK
  <2>4. /\ pc' \in [Requests -> Pc]
        /\ call' \in [Requests -> Call \cup {NoCall}]
        /\ result' \in [Requests -> {"none", "ok", "error"}]
        /\ answer' \in [Requests -> Answer]
        /\ first' \in [Requests -> BOOLEAN]
        /\ settled' \in [Requests -> BOOLEAN]
    BY AnswerFacts DEF SetNX, Claim, IdemInv, TypeOK, Goto, Pc
  <2> QED BY <2>3, <2>4 DEF TypeOK
<1>2. ASSUME NEW q \in Requests PROVE Progress(q)'
  BY <1>2, ValueFacts, AnswerFacts, SlotFacts
     DEF SetNX, Claim, IdemInv, TypeOK, Progress, Remembered, Slot, Pc, Goto, seen
<1>3. ASSUME NEW q \in Requests PROVE Remembered(q)'
  BY <1>3, ValueFacts, AnswerFacts, SlotFacts
     DEF SetNX, Claim, IdemInv, TypeOK, Progress, Remembered, Slot, Pc, Goto, seen
<1>4. HttpClaimedOnce'
  BY ValueFacts, AnswerFacts, SlotFacts
     DEF SetNX, Claim, IdemInv, TypeOK, Progress, Remembered, HttpClaimedOnce,
         FirstOver, SameSlot, Slot, Pc, Goto, seen
<1>5. StoreTraced'
  <2>1. pc[r] # "new" /\ Past(r)' /\ call' = call
    BY DEF SetNX, Claim, Respond, Goto, IdemInv, TypeOK, Past
  <2>2. PICK s \in Slots : s = Slot(r)
    BY <2>1, OwnSlot
  <2>3. store' = store \/ store' = [store EXCEPT ![s] = Processing]
    BY <2>2 DEF SetNX, Claim
  <2>4. Written(r, Processing)
    BY DEF Written, SetNX
  <2>5. ValueTraced(s, Processing)'
    BY <2>1, <2>2, <2>4, WrittenTraced
  <2> QED BY <1>0, <2>3, <2>5, StoreStays
<1>6. AnswersAreTraced'
  BY <1>0, AnswersStay DEF SetNX, seen
<1> QED BY <1>1, <1>2, <1>3, <1>4, <1>5, <1>6
  DEF IdemInv, StoreTraced, AnswersAreTraced

LEMMA CheckFailsKeeps ==
  ASSUME IdemInv, NEW r \in Requests, CheckFails(r)
  PROVE  IdemInv'
<1>0. Onward
  BY MovesOn DEF Next
<1>1. TypeOK'
  <2>1. pc[r] # "new"
    BY DEF CheckFails
  <2>2. Slot(r) \in Slots /\ (call[r].via = "grpc" => call[r].body \in Bodies)
    BY <2>1, OwnSlot
  <2>3. store' \in [Slots -> Value]
    BY <2>2, ValueFacts DEF CheckFails, SetUnanswered, IdemInv, TypeOK
  <2>4. /\ pc' \in [Requests -> Pc]
        /\ call' \in [Requests -> Call \cup {NoCall}]
        /\ result' \in [Requests -> {"none", "ok", "error"}]
        /\ answer' \in [Requests -> Answer]
        /\ first' \in [Requests -> BOOLEAN]
        /\ settled' \in [Requests -> BOOLEAN]
    BY AnswerFacts DEF CheckFails, Respond, IdemInv, TypeOK, Goto, Pc
  <2> QED BY <2>3, <2>4 DEF TypeOK
<1>2. ASSUME NEW q \in Requests PROVE Progress(q)'
  BY <1>2, ValueFacts, AnswerFacts, SlotFacts
     DEF CheckFails, SetUnanswered, Respond, IdemInv, TypeOK, Progress, Remembered, Slot, Pc, Goto, seen
<1>3. ASSUME NEW q \in Requests PROVE Remembered(q)'
  BY <1>3, ValueFacts, AnswerFacts, SlotFacts
     DEF CheckFails, SetUnanswered, Respond, IdemInv, TypeOK, Progress, Remembered, Slot, Pc, Goto, seen
<1>4. HttpClaimedOnce'
  BY ValueFacts, AnswerFacts, SlotFacts
     DEF CheckFails, SetUnanswered, Respond, IdemInv, TypeOK, Progress, Remembered, HttpClaimedOnce,
         FirstOver, SameSlot, Slot, Pc, Goto, seen
<1>5. StoreTraced'
  <2>1. pc[r] # "new" /\ Past(r)' /\ call' = call
    BY DEF CheckFails, Claim, Respond, Goto, IdemInv, TypeOK, Past
  <2>2. PICK s \in Slots : s = Slot(r)
    BY <2>1, OwnSlot
  <2>3. CASE UNCHANGED store
    BY <1>0, <2>3, StoreStays
  <2>4. CASE SetUnanswered(r) /\ store' # store
    <3>1. \E v : Written(r, v) /\ store' = [store EXCEPT ![s] = v]
      <4>1. call[r].via \in {"http", "grpc"}
        BY <2>1, OwnSlot
      <4>2. CASE call[r].via = "grpc"
        BY <2>2, <2>4, <4>2 DEF SetUnanswered, Written
      <4>3. CASE call[r].via = "http"
        <5>1. store[s] = Absent /\ store' = [store EXCEPT ![s] = Processing]
          <6>1. store \in [Slots -> Value]
            BY DEF IdemInv, TypeOK
          <6> QED BY <2>2, <2>4, <4>3, <6>1 DEF SetUnanswered
        <5> QED BY <4>3, <5>1 DEF Written
      <4> QED BY <4>1, <4>2, <4>3
    <3>2. PICK v : Written(r, v) /\ store' = [store EXCEPT ![s] = v]
      BY <3>1
    <3>3. ValueTraced(s, v)'
      BY <2>1, <2>2, <3>2, WrittenTraced
    <3> QED BY <1>0, <3>2, <3>3, StoreStays
  <2> QED BY <2>3, <2>4 DEF CheckFails
<1>6. AnswersAreTraced'
  <2>1. CASE answer' = answer
    BY <1>0, <2>1, AnswersStay
  <2>2. CASE answer' = [answer EXCEPT ![r] = Says("unavailable")]
    <3>1. Traced(r, Says("unavailable"))
      BY AnswerFacts DEF Traced
    <3> QED BY <1>0, <2>2, <3>1, AnswersStay
  <2> QED BY <2>1, <2>2 DEF CheckFails, Respond
<1> QED BY <1>1, <1>2, <1>3, <1>4, <1>5, <1>6
  DEF IdemInv, StoreTraced, AnswersAreTraced

LEMMA ExecuteKeeps ==
  ASSUME IdemInv, NEW r \in Requests, Execute(r)
  PROVE  IdemInv'
<1>0. Onward
  BY MovesOn DEF Next
<1>1. TypeOK'
  BY ValueFacts, AnswerFacts, SlotFacts
     DEF Execute, IsStored, IdemInv, TypeOK, Progress, Slot, Pc, Goto, seen
<1>2. ASSUME NEW q \in Requests PROVE Progress(q)'
  BY <1>2, ValueFacts, AnswerFacts, SlotFacts
     DEF Execute, IsStored, IdemInv, TypeOK, Progress, Remembered, Slot, Pc, Goto, seen
<1>3. ASSUME NEW q \in Requests PROVE Remembered(q)'
  BY <1>3, ValueFacts, AnswerFacts, SlotFacts
     DEF Execute, IsStored, IdemInv, TypeOK, Progress, Remembered, Slot, Pc, Goto, seen
<1>4. HttpClaimedOnce'
  BY ValueFacts, AnswerFacts, SlotFacts
     DEF Execute, IsStored, IdemInv, TypeOK, Progress, Remembered, HttpClaimedOnce,
         FirstOver, SameSlot, Slot, Pc, Goto, seen
<1>5. StoreTraced'
  BY <1>0, StoreStays DEF Execute, seen
<1>6. AnswersAreTraced'
  BY <1>0, AnswersStay DEF Execute, seen
<1> QED BY <1>1, <1>2, <1>3, <1>4, <1>5, <1>6
  DEF IdemInv, StoreTraced, AnswersAreTraced

LEMMA UpdateKeeps ==
  ASSUME IdemInv, NEW r \in Requests, Update(r)
  PROVE  IdemInv'
<1>0. Onward
  BY MovesOn DEF Next
<1>1. TypeOK'
  BY ValueFacts, AnswerFacts, SlotFacts
     DEF Update, IdemInv, TypeOK, Progress, Slot, Pc, Goto, seen
<1>2. ASSUME NEW q \in Requests PROVE Progress(q)'
  BY <1>2, ValueFacts, AnswerFacts, SlotFacts
     DEF Update, IdemInv, TypeOK, Progress, Remembered, Slot, Pc, Goto, seen
<1>3. ASSUME NEW q \in Requests PROVE Remembered(q)'
  BY <1>3, ValueFacts, AnswerFacts, SlotFacts
     DEF Update, IdemInv, TypeOK, Progress, Remembered, Slot, Pc, Goto, seen
<1>4. HttpClaimedOnce'
  BY ValueFacts, AnswerFacts, SlotFacts
     DEF Update, IdemInv, TypeOK, Progress, Remembered, HttpClaimedOnce,
         FirstOver, SameSlot, Slot, Pc, Goto, seen
<1>5. StoreTraced'
  <2>1. pc[r] = "update" /\ call[r].via = "http" /\ result[r] = "ok"
    BY DEF Update, IdemInv, Progress
  <2>2. PICK s \in Slots : s = Slot(r)
    BY <2>1, OwnSlot
  <2>3. Responded(r, s)'
    BY <2>1, <2>2 DEF Update, Goto, Responded, Slot, IdemInv, TypeOK
  <2>4. ValueTraced(s, ResponseOf(r))'
    BY <2>3, ValueFacts, AnswerFacts DEF ValueTraced
  <2>5. store' = [store EXCEPT ![s] = ResponseOf(r)]
    BY <2>2 DEF Update
  <2> QED BY <1>0, <2>4, <2>5, StoreStays
<1>6. AnswersAreTraced'
  BY <1>0, AnswersStay DEF Update, seen
<1> QED BY <1>1, <1>2, <1>3, <1>4, <1>5, <1>6
  DEF IdemInv, StoreTraced, AnswersAreTraced

LEMMA LoseKeeps ==
  ASSUME IdemInv, NEW r \in Requests, Lose(r)
  PROVE  IdemInv'
<1>0. Onward
  BY MovesOn DEF Next
<1>1. TypeOK'
  BY ValueFacts, AnswerFacts, SlotFacts
     DEF Lose, IdemInv, TypeOK, Progress, Slot, Pc, Goto, seen
<1>2. ASSUME NEW q \in Requests PROVE Progress(q)'
  BY <1>2, ValueFacts, AnswerFacts, SlotFacts
     DEF Lose, IdemInv, TypeOK, Progress, Remembered, Slot, Pc, Goto, seen
<1>3. ASSUME NEW q \in Requests PROVE Remembered(q)'
  BY <1>3, ValueFacts, AnswerFacts, SlotFacts
     DEF Lose, IdemInv, TypeOK, Progress, Remembered, Slot, Pc, Goto, seen
<1>4. HttpClaimedOnce'
  BY ValueFacts, AnswerFacts, SlotFacts
     DEF Lose, IdemInv, TypeOK, Progress, Remembered, HttpClaimedOnce,
         FirstOver, SameSlot, Slot, Pc, Goto, seen
<1>5. StoreTraced'
  BY <1>0, StoreStays DEF Lose, seen
<1>6. AnswersAreTraced'
  BY <1>0, AnswersStay DEF Lose, seen
<1> QED BY <1>1, <1>2, <1>3, <1>4, <1>5, <1>6
  DEF IdemInv, StoreTraced, AnswersAreTraced

LEMMA ExpireKeeps ==
  ASSUME IdemInv, NEW s \in Slots, Expire(s)
  PROVE  IdemInv'
<1>0. Onward
  BY MovesOn DEF Next
<1>1. TypeOK'
  BY ValueFacts DEF Expire, IdemInv, TypeOK, Pc
<1>2. ASSUME NEW q \in Requests PROVE Progress(q)'
  BY <1>2 DEF Expire, IdemInv, TypeOK, Progress, Slot
<1>3. ASSUME NEW q \in Requests PROVE Remembered(q)'
  <2>1. CASE pc[q] = "new"
    BY <1>3, <2>1 DEF Expire, IdemInv, TypeOK, Progress, Remembered
  <2>2. CASE pc[q] # "new"
    <3>1. Slot(q) \in Slots
      BY <1>3, <2>2, OwnSlot
    <3> QED
      BY <1>3, <2>2, <3>1, ValueFacts
         DEF Expire, IdemInv, TypeOK, Remembered, Slot
  <2> QED BY <2>1, <2>2
<1>4. HttpClaimedOnce'
  BY DEF Expire, IdemInv, TypeOK, HttpClaimedOnce, FirstOver, SameSlot, Slot
<1>5. StoreTraced'
  <2>1. ValueTraced(s, Absent)'
    BY ValueFacts DEF ValueTraced
  <2> QED BY <1>0, <2>1, StoreStays DEF Expire
<1>6. AnswersAreTraced'
  BY <1>0, AnswersStay DEF Expire, seen
<1> QED BY <1>1, <1>2, <1>3, <1>4, <1>5, <1>6
  DEF IdemInv, StoreTraced, AnswersAreTraced

LEMMA IdemInvStep == IdemInv /\ [Next]_vars => IdemInv'
<1> SUFFICES ASSUME IdemInv, [Next]_vars PROVE IdemInv'
  OBVIOUS
<1>1. CASE UNCHANGED vars
  BY <1>1 DEF vars, seen, IdemInv, TypeOK, Progress, Remembered, ValueTraced,
              Traced, Responded, Hashed, Placed, Past, HttpClaimedOnce,
              FirstOver, SameSlot, Slot
<1>2. CASE Next
  BY <1>2, ArriveKeeps, CheckAndGetKeeps, SetHashKeeps, SetNXKeeps,
     CheckAgainKeeps, CheckFailsKeeps, ExecuteKeeps, UpdateKeeps, LoseKeeps,
     ExpireKeeps
     DEF Next
<1> QED BY <1>1, <1>2

LEMMA IdemInvAlways == Spec => []IdemInv
  BY IdemInvInit, IdemInvStep, PTL DEF Spec

-----------------------------------------------------------------------------
(* What is answered without running goes back to another request with the  *)
(* same name in the store, whatever Redis does and whichever names clients *)
(* write over HTTP.                                                        *)
THEOREM AnswersCorrect == Spec => []AnswersTraced
<1>1. IdemInv => AnswersTraced
  <2> SUFFICES ASSUME IdemInv, NEW r \in Requests
               PROVE  /\ \A q \in Requests : answer[r] = ResponseOf(q) =>
                           /\ q \in SameSlot(r) \ {r}
                           /\ call[q].via = "http" /\ call[r].via = "http"
                           /\ result[q] = "ok"
                      /\ \A b \in Bodies : answer[r] = HashOf(b) =>
                           /\ call[r].via = "http" /\ Slot(r)[1] = "grpc"
                           /\ \E q \in OthersOverGrpc(r) : call[q].body = b
                      /\ answer[r] = Says("duplicate") =>
                           \E q \in OthersOverGrpc(r) : call[q].body = call[r].body
                      /\ answer[r] = Says("mismatch") =>
                           \/ \E q \in OthersOverGrpc(r) :
                                call[q].body # call[r].body
                           \/ \E q \in SameSlot(r) : call[q].via = "http"
    BY Zenon DEF AnswersTraced
  <2>1. Traced(r, answer[r])
    BY DEF IdemInv
  <2>2. \A q \in Requests : Past(q) /\ pc[r] # "new" /\ Slot(q) = Slot(r) =>
                             q \in SameSlot(r)
    BY DEF Past, SameSlot
  <2>3. \A q \in Requests : Responded(q, Slot(r)) /\ pc[r] # "new" =>
          q \in SameSlot(r) /\ call[q].via = "http" /\ result[q] = "ok"
    BY <2>2 DEF Responded, Past
  <2>4. \A q \in Requests \ {r} :
          Past(q) /\ pc[r] # "new" /\ Slot(q) = Slot(r) /\ call[q].via = "grpc" =>
          q \in OthersOverGrpc(r)
    BY <2>2 DEF OthersOverGrpc
  <2>5. \A q \in Requests : answer[r] = ResponseOf(q) =>
           /\ q \in SameSlot(r) \ {r}
           /\ call[q].via = "http" /\ call[r].via = "http" /\ result[q] = "ok"
    BY <2>1, <2>3, Zenon DEF Traced
  <2>6. ASSUME NEW b \in Bodies, answer[r] = HashOf(b)
        PROVE  /\ call[r].via = "http" /\ Slot(r)[1] = "grpc"
               /\ \E q \in OthersOverGrpc(r) : call[q].body = b
    <3>1. Hashed(Slot(r), b) /\ pc[r] # "new" /\ call[r].via = "http"
      BY <2>1, <2>6, Zenon DEF Traced
    <3>2. PICK q \in Requests : Past(q) /\ Slot(q) = Slot(r)
                               /\ call[q].via = "grpc" /\ call[q].body = b
      BY <3>1 DEF Hashed
    <3>3. q # r /\ pc[q] # "new"
      BY <3>1, <3>2 DEF Past
    <3> QED BY <2>4, <3>1, <3>2, <3>3, OwnSlot
  <2>7. answer[r] = Says("duplicate") =>
          \E q \in OthersOverGrpc(r) : call[q].body = call[r].body
    BY <2>1, <2>4, Zenon DEF Traced
  <2>8. answer[r] = Says("mismatch") =>
           \/ \E q \in OthersOverGrpc(r) : call[q].body # call[r].body
           \/ \E q \in SameSlot(r) : call[q].via = "http"
    BY <2>1, <2>2, <2>4, Zenon DEF Traced, Placed
  <2> QED BY <2>5, <2>6, <2>7, <2>8
<1> QED BY <1>1, IdemInvAlways, PTL

(* A request that comes when its key is settled does not run, whoever else *)
(* is under way with the key.                                              *)
THEOREM SettledCorrect == Spec => []SettledNotRepeated
<1>1. IdemInv => SettledNotRepeated
  BY DEF IdemInv, Progress, SettledNotRepeated
<1> QED BY <1>1, IdemInvAlways, PTL

(* SETNX lets one HTTP request claim a key.                                *)
THEOREM ClaimCorrect == Spec => []HttpClaimedOnce
  BY IdemInvAlways, PTL DEF IdemInv
=============================================================================
