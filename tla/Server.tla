------------------------------- MODULE Server -------------------------------
(***************************************************************************)
(* The life of a server process, from run() to its exit: connections are   *)
(* opened in order, requests come in over HTTP and gRPC, a signal makes    *)
(* the main goroutine stop the workers and the two servers one after the   *)
(* other, and its deferred calls close Redis and the pool, while the other *)
(* goroutines go on until the process ends under them.                     *)
(***************************************************************************)
EXTENDS Integers, FiniteSets

CONSTANTS
  Requests,  \* the requests sent to this process
  MaxConns   \* DATABASE_MAX_CONNS

ASSUME ServerAssumption == MaxConns \in Nat \ {0}

VARIABLES
  main,     \* where the main goroutine is
  code,     \* how the process ends
  pool,     \* the PostgreSQL pool: none, open, closed (to new users)
  redis,    \* the Redis client
  expired,  \* HTTPShutdownTimeout has passed since the signal
  worker,   \* the background goroutines
  via,      \* the server each request came to
  pc,       \* where its goroutine is
  owes,     \* what it still has to do for its client
  failed    \* its best-effort statements that failed by themselves

process == <<main, code, pool, redis, expired>>
requests == <<via, pc, owes, failed>>
vars == <<process, worker, requests>>

Main == {"connect", "migrate", "redis", "serving", "grpcStop", "httpStop",
         "closeRedis", "closePool", "drain", "flush", "exited"}
Code == {"none", "clean", "late", "failed", "died"}
Workers == {"publisher", "reconciliation"}
Running == {"held", "claim", "begin", "tx", "record", "store", "answer"}

Init ==
  /\ main = "connect" /\ code = "none"
  /\ pool = "none" /\ redis = "none"
  /\ expired = FALSE
  /\ worker = [w \in Workers |-> "off"]
  /\ via = [r \in Requests |-> "none"]
  /\ pc = [r \in Requests |-> "new"]
  /\ owes = [r \in Requests |-> {}]
  /\ failed = [r \in Requests |-> {}]

InFlight(v) == {r \in Requests : via[r] = v /\ pc[r] \in Running}

(* A transaction keeps a connection of the pool until it ends; every other *)
(* statement takes one for its own duration.                               *)
(* Mutant: the connection goes back when the request is answered.          *)
UsersToTheEnd ==
  {r \in Requests : pc[r] \in {"tx", "record"}}
    \cup {w \in Workers : worker[w] = "busy"}
Users ==
  {r \in Requests : pc[r] = "tx"} \cup {w \in Workers : worker[w] = "busy"}
Acquirable == pool = "open" /\ Cardinality(Users) < MaxConns

-----------------------------------------------------------------------------
(* Start.  What fails returns 1 through the deferred calls made so far.    *)

Fail(at) == main' = at /\ code' = "failed"

NewPool ==
  /\ main = "connect"
  /\ \/ pool' = "open" /\ main' = "migrate" /\ UNCHANGED code
     \/ Fail("flush") /\ UNCHANGED pool
  /\ UNCHANGED <<redis, expired, worker, requests>>

RunMigrations ==
  /\ main = "migrate"
  /\ \/ main' = "redis" /\ UNCHANGED code
     \/ Fail("closePool")
  /\ UNCHANGED <<pool, redis, expired, worker, requests>>

(* An interval of 0 leaves the reconciliation scheduler off.               *)
NewClient ==
  /\ main = "redis"
  /\ \/ /\ redis' = "open" /\ main' = "serving"
        /\ worker' \in {[w \in Workers |-> IF w \in on THEN "idle" ELSE "off"] :
                          on \in {Workers, {"publisher"}}}
        /\ UNCHANGED code
     \/ Fail("closePool") /\ UNCHANGED <<redis, worker>>
  /\ UNCHANGED <<pool, expired, requests>>

-----------------------------------------------------------------------------
(* The end.                                                                *)

(* The signal starts the timer of the HTTP shutdown and cancels the        *)
(* contexts of the workers; nobody waits for them.                         *)
Cancelled == main \notin {"connect", "migrate", "redis", "serving"}
Signal ==
  /\ main = "serving"
  /\ main' = "grpcStop"
  /\ UNCHANGED <<code, pool, redis, expired, worker, requests>>

Expire ==
  /\ main \in {"grpcStop", "httpStop"} /\ ~expired
  /\ expired' = TRUE
  /\ UNCHANGED <<main, code, pool, redis, worker, requests>>

(* GracefulStop waits for the calls under way, however long they take and  *)
(* however long their clients hold them.                                   *)
(* Mutant: Stop instead.                                                   *)
StopGrpc ==
  /\ main = "grpcStop"
  /\ main' = "httpStop"
  /\ UNCHANGED <<code, pool, redis, expired, worker, requests>>
GracefulStop ==
  /\ main = "grpcStop"
  /\ InFlight("grpc") = {}
  /\ main' = "httpStop"
  /\ UNCHANGED <<code, pool, redis, expired, worker, requests>>

(* httpServer.Shutdown waits for the requests under way until the timer,   *)
(* which has been running since the signal, runs out.                      *)
(* Mutant: an expired timer is no error.                                   *)
ShutdownNoError ==
  /\ main = "httpStop"
  /\ InFlight("http") = {} \/ expired
  /\ code' = "clean"
  /\ main' = "closeRedis"
  /\ UNCHANGED <<pool, redis, expired, worker, requests>>
Shutdown ==
  /\ main = "httpStop"
  /\ \/ InFlight("http") = {} /\ code' = "clean"
     \/ InFlight("http") # {} /\ expired /\ code' = "late"
  /\ main' = "closeRedis"
  /\ UNCHANGED <<pool, redis, expired, worker, requests>>

CloseRedis ==
  /\ main = "closeRedis"
  /\ redis' = "closed" /\ main' = "closePool"
  /\ UNCHANGED <<code, pool, expired, worker, requests>>

(* pool.Close gives out no connection any more and waits for those it gave.*)
ClosePool ==
  /\ main = "closePool"
  /\ pool' = "closed" /\ main' = "drain"
  /\ UNCHANGED <<code, redis, expired, worker, requests>>

(* Mutant: Close does not wait.                                            *)
DrainedAtOnce ==
  /\ main = "drain"
  /\ main' = "flush"
  /\ UNCHANGED <<code, pool, redis, expired, worker, requests>>
Drained ==
  /\ main = "drain"
  /\ Users = {}
  /\ main' = "flush"
  /\ UNCHANGED <<code, pool, redis, expired, worker, requests>>

(* The end of the process is the end of every goroutine.                   *)
End ==
  /\ main' = "exited"
  /\ pc' = [r \in Requests |-> IF pc[r] \in Running THEN "cut" ELSE pc[r]]
  /\ worker' = [w \in Workers |-> IF worker[w] = "off" THEN "off" ELSE "stopped"]
  /\ UNCHANGED <<pool, redis, expired, via, owes, failed>>

Exit == main = "flush" /\ End /\ UNCHANGED code

(* os.Exit in the goroutine of a server that cannot listen or serve, which *)
(* skips every deferred call, or a kill from outside.                      *)
Die == main # "exited" /\ End /\ code' = "died"

-----------------------------------------------------------------------------
(* Requests.                                                               *)

Goto(r, next) == pc' = [pc EXCEPT ![r] = next]
Settle(r, what) == owes' = [owes EXCEPT ![r] = @ \ {what}]

(* The gRPC server takes calls until GracefulStop, the HTTP server until   *)
(* Shutdown, which comes after.  A reflection stream, or a call whose      *)
(* message has not all arrived, has no deadline: its client holds it.      *)
Accept(r, v) ==
  /\ pc[r] = "new"
  /\ main = "serving" \/ (v = "http" /\ main = "grpcStop")
  /\ via' = [via EXCEPT ![r] = v]
  /\ owes' = [owes EXCEPT ![r] = {"answer"}]
  /\ Goto(r, "claim") \/ (v = "grpc" /\ Goto(r, "held"))
  /\ UNCHANGED <<process, worker, failed>>

(* The client sends the rest, or ends its stream.                          *)
Release(r) ==
  /\ pc[r] = "held"
  /\ Goto(r, "claim") \/ Goto(r, "answer")
  /\ UNCHANGED <<process, worker, via, owes, failed>>

(* The idempotency middleware: without Redis, HTTP answers by itself.      *)
Claim(r) ==
  /\ pc[r] = "claim"
  /\ Goto(r, IF redis = "open" \/ via[r] = "grpc" THEN "begin" ELSE "answer")
  /\ UNCHANGED <<process, worker, via, owes, failed>>

Begin(r) ==
  /\ pc[r] = "begin"
  /\ \/ Acquirable /\ Goto(r, "tx")
     \/ pool = "closed" /\ Goto(r, "answer")
  /\ UNCHANGED <<process, worker, via, owes, failed>>

(* What a transaction leaves to be done: the audit row of a void or a      *)
(* capture, and of a hold request or a transfer whose transaction failed;  *)
(* and, for what succeeds, the response kept for its idempotency key,      *)
(* which gRPC does not keep.                                               *)
Leave(r, audit, response) ==
  /\ pc[r] = "tx"
  /\ owes' = [owes EXCEPT ![r] = @ \cup audit \cup response]
  /\ Goto(r, IF audit # {} THEN "record" ELSE "store")
  /\ UNCHANGED <<process, worker, via, failed>>

Commit(r) ==
  \E audit \in {{}, {"record"}} :
    Leave(r, audit, IF via[r] = "http" THEN {"store"} ELSE {})
Rollback(r) == \E audit \in {{}, {"record"}} : Leave(r, audit, {})

Record(r) ==
  /\ pc[r] = "record"
  /\ \/ Acquirable /\ Settle(r, "record")
     \/ pool = "closed" /\ UNCHANGED owes
  /\ Goto(r, "store")
  /\ UNCHANGED <<process, worker, via, failed>>

Store(r) ==
  /\ pc[r] = "store"
  /\ IF redis = "open" THEN Settle(r, "store") ELSE UNCHANGED owes
  /\ Goto(r, "answer")
  /\ UNCHANGED <<process, worker, via, failed>>

(* Either statement may fail although its server is there: the client goes *)
(* away and cancels the context, or the server refuses.  Nobody looks at   *)
(* the error.                                                              *)
IgnoreError(r) ==
  /\ \/ pc[r] = "record" /\ pool = "open" /\ Goto(r, "store")
     \/ /\ pc[r] = "store" /\ redis = "open"
        /\ "store" \in owes[r]
        /\ Goto(r, "answer")
  /\ failed' = [failed EXCEPT ![r] = @ \cup {pc[r]}]
  /\ UNCHANGED <<process, worker, via, owes>>

Answer(r) ==
  /\ pc[r] = "answer"
  /\ Settle(r, "answer")
  /\ Goto(r, "done")
  /\ UNCHANGED <<process, worker, via, failed>>

-----------------------------------------------------------------------------
(* The publisher and the reconciliation scheduler.                         *)

Set(w, state) == worker' = [worker EXCEPT ![w] = state]

(* A statement, which a cancelled context keeps from starting.             *)
Query(w) ==
  /\ worker[w] = "idle" /\ ~Cancelled
  /\ Acquirable
  /\ Set(w, "busy")
  /\ UNCHANGED <<process, requests>>

Rest(w) ==
  /\ worker[w] = "busy"
  /\ Set(w, "idle")
  /\ UNCHANGED <<process, requests>>

Stop(w) ==
  /\ worker[w] = "idle" /\ Cancelled /\ main # "exited"
  /\ Set(w, "stopped")
  /\ UNCHANGED <<process, requests>>

-----------------------------------------------------------------------------
Boot == NewPool \/ RunMigrations \/ NewClient
ShutDown ==
  GracefulStop \/ Shutdown \/ CloseRedis \/ ClosePool \/ Drained \/ Exit

Step(r) == Claim(r) \/ Commit(r) \/ Rollback(r) \/ Store(r) \/ Answer(r)
Acquire(r) == Begin(r) \/ Record(r)

Next ==
  \/ Boot \/ Signal \/ Expire \/ ShutDown \/ Die
  \/ \E r \in Requests :
       \/ \E v \in {"http", "grpc"} : Accept(r, v)
       \/ Release(r) \/ Step(r) \/ Acquire(r) \/ IgnoreError(r)
  \/ \E w \in Workers : Query(w) \/ Rest(w) \/ Stop(w)

Spec == Init /\ [][Next]_vars

(* Timers fire, goroutines run, statements end (a transaction at the       *)
(* latest when its context expires), and the pool serves those who wait    *)
(* for a connection in turn.  Nothing makes a client release its call.     *)
Fairness ==
  /\ WF_vars(Expire) /\ WF_vars(ShutDown)
  /\ \A r \in Requests : WF_vars(Step(r)) /\ SF_vars(Acquire(r))
  /\ \A w \in Workers : WF_vars(Rest(w))

FairSpec == Spec /\ Fairness

-----------------------------------------------------------------------------
(* A process that ends with 0 owes nothing to anybody but what a statement *)
(* of the request itself failed to do: every request it took was answered, *)
(* and no audit row or kept response is missing because the process was    *)
(* shutting down, though requests still came in over HTTP while gRPC was   *)
(* stopping.                                                               *)
CleanExitOwesNothing ==
  code = "clean" => \A r \in Requests : owes[r] \subseteq failed[r]

(* The timeout of the HTTP shutdown cuts HTTP requests only: a gRPC call   *)
(* is answered and finds Redis and the pool open to its end, unless the    *)
(* process dies, and misses only what failed by itself.                    *)
GrpcCallsFinish ==
  code # "died" =>
    \A r \in Requests : via[r] = "grpc" /\ pc[r] \in {"done", "cut"} =>
      owes[r] \subseteq failed[r]

(* "every defer [...] actually runs before the process exits": whenever    *)
(* run() returns, no transaction is left open behind it, not even that of  *)
(* a request the timeout has cut off from its client.                      *)
ReturnLeavesNoTransaction ==
  [][Exit => Users = {}]_vars

(* A signal ends the process, whatever its workers are doing and however   *)
(* few connections its requests share, if every client lets go of its gRPC *)
(* calls in the end: GracefulStop itself would wait for ever.              *)
ShutdownEnds ==
  (\A r \in Requests : []<>(pc[r] # "held"))
    => (main = "grpcStop" ~> main = "exited")
=============================================================================
