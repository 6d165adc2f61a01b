----------------------------- MODULE Idempotency -----------------------------
(***************************************************************************)
(* The idempotency middlewares in front of the use cases, the HTTP one and *)
(* the gRPC one, over the key store they share in Redis.  Requests run     *)
(* concurrently and every Redis command is a step of its own.  Requests    *)
(* without a key pass by the store and are not modelled.                   *)
(***************************************************************************)
EXTENDS FiniteSets

CONSTANTS
  Requests,  \* incoming calls
  Keys,      \* idempotency keys clients choose, over gRPC with the method
  Bodies     \* request bodies

(* The names in the store: <<"grpc", k>> is the string the interceptor     *)
(* makes of method and key, <<"plain", k>> is a string of any other form.  *)
Slots == {"plain", "grpc"} \X Keys

(* The HTTP middleware hands the header to the store as it is, so a client *)
(* may write a name there that the interceptor makes.  It does not look at *)
(* the body.                                                               *)
Call == [via : {"http"}, key : Slots] \cup [via : {"grpc"}, key : Keys, body : Bodies]
NoCall == [via |-> "none"]
SlotOf(c) == IF c.via = "grpc" THEN <<"grpc", c.key>> ELSE c.key

(* What a name holds: nothing, the placeholder, the hash of a gRPC request,*)
(* or the response of the request that stored it.                          *)
Absent == [kind |-> "absent"]
Processing == [kind |-> "processing"]
HashOf(body) == [kind |-> "hash", body |-> body]
ResponseOf(r) == [kind |-> "response", of |-> r]
Value == {Absent, Processing}
         \cup {HashOf(b) : b \in Bodies} \cup {ResponseOf(r) : r \in Requests}

VARIABLES
  store,    \* [Slots -> Value]
  pc,       \* where each request is
  call,     \* what it asks for
  result,   \* how its handler ended: none, ok, error
  answer,   \* what the middleware answered by itself
  first,    \* CheckAndSet told it that it is the first with its key
  settled   \* when it came, an earlier request with its key was settled

seen == <<first, settled>>
vars == <<store, pc, call, result, answer, seen>>

Pc == {"new", "get", "set", "reread", "run", "update", "done"}
Says(what) == [kind |-> what]
Answer == {Says(w) : w \in {"none", "duplicate", "mismatch", "unavailable"}}
          \cup {HashOf(b) : b \in Bodies} \cup {ResponseOf(r) : r \in Requests}

Init ==
  /\ store = [s \in Slots |-> Absent]
  /\ pc = [r \in Requests |-> "new"]
  /\ call = [r \in Requests |-> NoCall]
  /\ result = [r \in Requests |-> "none"]
  /\ answer = [r \in Requests |-> Says("none")]
  /\ first = [r \in Requests |-> FALSE]
  /\ settled = [r \in Requests |-> FALSE]

Slot(r) == SlotOf(call[r])
SameSlot(r) ==
  {q \in Requests : pc[q] # "new" /\ pc[r] # "new" /\ Slot(q) = Slot(r)}
Goto(r, next) == pc' = [pc EXCEPT ![r] = next]

-----------------------------------------------------------------------------
Arrive(r, c) ==
  /\ pc[r] = "new"
  /\ call' = [call EXCEPT ![r] = c]
  /\ settled' = [settled EXCEPT ![r] =
                   store[SlotOf(c)].kind \in {"hash", "response"}]
  /\ Goto(r, "get")
  /\ UNCHANGED <<store, result, answer, first>>

(* What the middleware makes of an existing value.  Over HTTP, neither the *)
(* placeholder nor a key that has just gone keeps a request from running,  *)
(* and anything else is replayed, the hash of a gRPC request included.     *)
Respond(r, a) ==
  /\ answer' = [answer EXCEPT ![r] = a]
  /\ Goto(r, "done")

DecideHttp(r, v) ==
  IF v \in {Absent, Processing} THEN Goto(r, "run") /\ UNCHANGED answer
                                ELSE Respond(r, v)
DecideGrpc(r, v) ==
  Respond(r, IF v = HashOf(call[r].body) THEN Says("duplicate")
                                         ELSE Says("mismatch"))

Decide(r, v) ==
  IF call[r].via = "http" THEN DecideHttp(r, v) ELSE DecideGrpc(r, v)

(* CheckAndSet: GET, and if there is nothing, SET (gRPC, which passes a    *)
(* value) or SETNX of the placeholder (HTTP).                              *)
CheckAndGet(r) ==
  LET v == store[Slot(r)] IN
  /\ pc[r] = "get"
  /\ IF v = Absent THEN Goto(r, "set") /\ UNCHANGED answer
                   ELSE Decide(r, v)
  /\ UNCHANGED <<store, call, result, seen>>

Claim(r, v) ==
  /\ store' = [store EXCEPT ![Slot(r)] = v]
  /\ first' = [first EXCEPT ![r] = TRUE]
  /\ Goto(r, "run")

SetHash(r) ==
  /\ pc[r] = "set" /\ call[r].via = "grpc"
  /\ Claim(r, HashOf(call[r].body))
  /\ UNCHANGED <<call, result, answer, settled>>

(* Mutant: SET instead of SETNX.                                           *)
SetAlways(r) ==
  /\ pc[r] = "set" /\ call[r].via = "http"
  /\ Claim(r, Processing)
  /\ UNCHANGED <<call, result, answer, settled>>
SetNX(r) ==
  /\ pc[r] = "set" /\ call[r].via = "http"
  /\ IF store[Slot(r)] = Absent
     THEN Claim(r, Processing)
     ELSE Goto(r, "reread") /\ UNCHANGED <<store, first>>
  /\ UNCHANGED <<call, result, answer, settled>>

CheckAgain(r) ==
  /\ pc[r] = "reread"
  /\ Decide(r, store[Slot(r)])
  /\ UNCHANGED <<store, call, result, seen>>

(* A Redis command fails, or its answer is lost after it set the key: HTTP *)
(* refuses the request, gRPC runs it without idempotency.                  *)
SetUnanswered(r) ==
  /\ pc[r] = "set"
  /\ store' = [store EXCEPT ![Slot(r)] =
       IF call[r].via = "grpc" THEN HashOf(call[r].body)
       ELSE IF @ = Absent THEN Processing ELSE @]

CheckFails(r) ==
  /\ pc[r] \in {"get", "set", "reread"}
  /\ UNCHANGED store \/ SetUnanswered(r)
  /\ IF call[r].via = "http"
     THEN Respond(r, Says("unavailable")) /\ UNCHANGED settled
     ELSE /\ Goto(r, "run")
          /\ settled' = [settled EXCEPT ![r] = FALSE]
          /\ UNCHANGED answer
  /\ UNCHANGED <<call, result, first>>

(* Mutant: responses of any status are stored.                             *)
IsStoredAlways(r, res) == call[r].via = "http"
(* Only HTTP responses of success are stored.                              *)
IsStored(r, res) == call[r].via = "http" /\ res = "ok"

(* The use case behind the middleware succeeds or fails.                   *)
Execute(r) ==
  \E res \in {"ok", "error"} :
    /\ pc[r] = "run"
    /\ result' = [result EXCEPT ![r] = res]
    /\ Goto(r, IF IsStored(r, res) THEN "update" ELSE "done")
    /\ UNCHANGED <<store, call, answer, seen>>

Update(r) ==
  /\ pc[r] = "update"
  /\ store' = [store EXCEPT ![Slot(r)] = ResponseOf(r)]
  /\ Goto(r, "done")
  /\ UNCHANGED <<call, result, answer, seen>>

(* The server stops, or the update fails, which is ignored.                *)
Lose(r) ==
  /\ pc[r] \in {"run", "update"}
  /\ Goto(r, "done")
  /\ UNCHANGED <<store, call, result, answer, seen>>

(* The key outlives its TTL, or Redis loses it: who comes later starts     *)
(* afresh.                                                                 *)
Expire(s) ==
  LET here == {r \in Requests : pc[r] # "new" /\ Slot(r) = s} IN
  /\ store[s] # Absent
  /\ store' = [store EXCEPT ![s] = Absent]
  /\ first' = [r \in Requests |-> first[r] /\ r \notin here]
  /\ settled' = [r \in Requests |-> settled[r] /\ r \notin here]
  /\ UNCHANGED <<pc, call, result, answer>>

Next ==
  \/ \E r \in Requests, c \in Call : Arrive(r, c)
  \/ \E r \in Requests :
       \/ CheckAndGet(r) \/ SetHash(r) \/ SetNX(r) \/ CheckAgain(r)
       \/ CheckFails(r) \/ Execute(r) \/ Update(r) \/ Lose(r)
  \/ \E s \in Slots : Expire(s)

Spec == Init /\ [][Next]_vars

-----------------------------------------------------------------------------
(* Every variable keeps its type; no answer is ever the placeholder.       *)
TypeOK ==
  /\ store \in [Slots -> Value]
  /\ pc \in [Requests -> Pc]
  /\ call \in [Requests -> Call \cup {NoCall}]
  /\ result \in [Requests -> {"none", "ok", "error"}]
  /\ answer \in [Requests -> Answer]
  /\ first \in [Requests -> BOOLEAN]
  /\ settled \in [Requests -> BOOLEAN]

(* Another call over gRPC with the same name in the store.                 *)
OthersOverGrpc(r) == {q \in SameSlot(r) \ {r} : call[q].via = "grpc"}

(* Whatever a middleware answers by itself goes back to another request    *)
(* with the same name in the store that was not turned away: a replayed    *)
(* response to one over HTTP that succeeded; "already processed" to a call *)
(* over gRPC with the same body; "different request body" to a call with   *)
(* another one, or to an HTTP request that wrote the name of a gRPC key.   *)
(* Only who writes such a name over HTTP may be given the hash of a body.  *)
AnswersTraced ==
  \A r \in Requests :
    /\ \A q \in Requests : answer[r] = ResponseOf(q) =>
         /\ q \in SameSlot(r) \ {r}
         /\ call[q].via = "http" /\ call[r].via = "http" /\ result[q] = "ok"
    /\ \A b \in Bodies : answer[r] = HashOf(b) =>
         /\ call[r].via = "http" /\ Slot(r)[1] = "grpc"
         /\ \E q \in OthersOverGrpc(r) : call[q].body = b
    /\ answer[r] = Says("duplicate") =>
         \E q \in OthersOverGrpc(r) : call[q].body = call[r].body
    /\ answer[r] = Says("mismatch") =>
         \/ \E q \in OthersOverGrpc(r) : call[q].body # call[r].body
         \/ \E q \in SameSlot(r) : call[q].via = "http"

(* Once a key is settled - its response stored over HTTP, its hash over    *)
(* gRPC - no request that comes later runs again, however the ones already *)
(* under way interleave, as long as Redis answers and keeps the key.       *)
SettledNotRepeated ==
  \A r \in Requests : settled[r] => pc[r] # "run"

FirstOver(via) == {r \in Requests : first[r] /\ call[r].via = via}

(* SETNX makes exactly one of the HTTP requests with a key the first.      *)
HttpClaimedOnce ==
  \A r, q \in FirstOver("http") : q \in SameSlot(r) => q = r

(* "CheckAndSet atomically checks if key exists, sets if not", also when   *)
(* it is given a value to set, as the gRPC interceptor does.               *)
GrpcClaimedOnce ==
  \A r, q \in FirstOver("grpc") : q \in SameSlot(r) => q = r
=============================================================================
