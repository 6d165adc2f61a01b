---------------------------- MODULE ServerProofs ----------------------------
(***************************************************************************)
(* Proofs about Server, for any number of requests and a pool of any size. *)
(***************************************************************************)
EXTENDS Server, TLAPS

Booting == {"connect", "migrate", "redis"}
Up == {"serving", "grpcStop", "httpStop"}

(* What a request may still owe where it is, besides what failed, as long  *)
(* as it finds Redis and the pool open.                                    *)
Due(at) ==
  CASE at \in {"held", "claim", "begin", "tx"} -> {"answer"}
    [] at = "record" -> {"answer", "record", "store"}
    [] at = "store"  -> {"answer", "store"}
    [] at = "answer" -> {"answer"}
    [] OTHER         -> {}

Types ==
  /\ main \in Main /\ code \in Code
  /\ worker \in [Workers -> {"off", "idle", "busy", "stopped"}]
  /\ via \in [Requests -> {"none", "http", "grpc"}]
  /\ pc \in [Requests -> Running \cup {"new", "done", "cut"}]
  /\ owes \in [Requests -> SUBSET {"answer", "record", "store"}]
  /\ failed \in [Requests -> SUBSET {"record", "store"}]

(* The main goroutine opens what requests use before it serves, and closes *)
(* it only after it has waited for them.                                   *)
Phases ==
  /\ main \in Booting \cup Up => code = "none"
  /\ main \in Up \cup {"migrate", "redis"} => pool = "open"
  /\ main \in Up => redis = "open"
  /\ main \in Booting \/ code = "failed" =>
       /\ \A r \in Requests : pc[r] = "new"
       /\ \A w \in Workers : worker[w] = "off"
  /\ main = "drain" => pool = "closed"
  /\ main = "connect" => pool = "none"
  /\ main = "flush" => pool # "open" /\ Users = {}

RequestInv(r) ==
  /\ pc[r] = "new" => via[r] = "none" /\ owes[r] = {}
  /\ pc[r] \in Running =>
       /\ via[r] \in {"http", "grpc"} /\ main # "exited"
       /\ via[r] = "grpc" => main \in {"serving", "grpcStop"}
       /\ main \notin Up => code = "late"
  /\ pc[r] = "cut" =>
       code \in {"late", "died"} /\ (via[r] = "grpc" => code = "died")
  /\ code \notin {"late", "died"} => owes[r] \subseteq Due(pc[r]) \cup failed[r]
  /\ via[r] = "grpc" /\ code # "died" => owes[r] \subseteq Due(pc[r]) \cup failed[r]

ServerInv == Types /\ Phases /\ \A r \in Requests : RequestInv(r)

-----------------------------------------------------------------------------
LEMMA ServerInvInit == Init => ServerInv
  BY DEF Init, ServerInv, Types, Phases, RequestInv, Booting, Up, Main, Code,
         Running, Workers, Due, Users

(* What keeps the main goroutine where it is and touches one request or    *)
(* none leaves the other requests as they were.                            *)
LEMMA OthersKeep ==
  ASSUME ServerInv, UNCHANGED process,
         NEW q \in Requests,
         pc'[q] = pc[q], via'[q] = via[q], owes'[q] = owes[q],
         failed'[q] = failed[q]
  PROVE  RequestInv(q)'
  BY DEF ServerInv, RequestInv, Due, Up, Running, process

LEMMA NewPoolKeeps == ASSUME ServerInv, NewPool PROVE ServerInv'
<1>1. Types'
  BY DEF NewPool, Fail, ServerInv, Types, Phases, Booting, Main, Code,
     Running, Workers, requests
<1>2. Phases'
  BY DEF NewPool, Fail, ServerInv, Types, Phases, RequestInv, Booting, Up,
     Main, Code, Running, Workers, Users, requests
<1>3. ASSUME NEW q \in Requests PROVE RequestInv(q)'
  BY <1>3 DEF NewPool, Fail, ServerInv, Types, Phases, RequestInv, Due,
     Booting, Up, Main, Code, Running, requests
<1> QED BY <1>1, <1>2, <1>3 DEF ServerInv

LEMMA RunMigrationsKeeps == ASSUME ServerInv, RunMigrations PROVE ServerInv'
<1>1. Types'
  BY DEF RunMigrations, Fail, ServerInv, Types, Phases, Booting, Main, Code,
     Running, Workers, requests
<1>2. Phases'
  BY DEF RunMigrations, Fail, ServerInv, Types, Phases, RequestInv, Booting,
     Up, Main, Code, Running, Workers, Users, requests
<1>3. ASSUME NEW q \in Requests PROVE RequestInv(q)'
  BY <1>3 DEF RunMigrations, Fail, ServerInv, Types, Phases, RequestInv, Due,
     Booting, Up, Main, Code, Running, requests
<1> QED BY <1>1, <1>2, <1>3 DEF ServerInv

LEMMA NewClientKeeps == ASSUME ServerInv, NewClient PROVE ServerInv'
<1>1. Types'
  BY DEF NewClient, Fail, ServerInv, Types, Phases, Booting, Main, Code,
     Running, Workers, requests
<1>2. Phases'
  BY DEF NewClient, Fail, ServerInv, Types, Phases, RequestInv, Booting, Up,
     Main, Code, Running, Workers, Users, requests
<1>3. ASSUME NEW q \in Requests PROVE RequestInv(q)'
  BY <1>3 DEF NewClient, Fail, ServerInv, Types, Phases, RequestInv, Due,
     Booting, Up, Main, Code, Running, requests
<1> QED BY <1>1, <1>2, <1>3 DEF ServerInv

LEMMA SignalKeeps == ASSUME ServerInv, Signal PROVE ServerInv'
<1>1. Types'
  BY DEF Signal, ServerInv, Types, Phases, Booting, Main, Code, Running,
     Workers, requests
<1>2. Phases'
  BY DEF Signal, ServerInv, Types, Phases, RequestInv, Booting, Up, Main,
     Code, Running, Workers, Users, requests
<1>3. ASSUME NEW q \in Requests PROVE RequestInv(q)'
  BY <1>3 DEF Signal, ServerInv, Types, Phases, RequestInv, Due, Booting, Up,
     Main, Code, Running, requests
<1> QED BY <1>1, <1>2, <1>3 DEF ServerInv

LEMMA ExpireKeeps == ASSUME ServerInv, Expire PROVE ServerInv'
<1>1. Types'
  BY DEF Expire, ServerInv, Types, Phases, Booting, Main, Code, Running,
     Workers, requests
<1>2. Phases'
  BY DEF Expire, ServerInv, Types, Phases, RequestInv, Booting, Up, Main,
     Code, Running, Workers, Users, requests
<1>3. ASSUME NEW q \in Requests PROVE RequestInv(q)'
  BY <1>3 DEF Expire, ServerInv, Types, Phases, RequestInv, Due, Booting, Up,
     Main, Code, Running, requests
<1> QED BY <1>1, <1>2, <1>3 DEF ServerInv

LEMMA GracefulStopKeeps == ASSUME ServerInv, GracefulStop PROVE ServerInv'
<1>1. Types'
  BY DEF GracefulStop, InFlight, ServerInv, Types, Phases, Booting, Main,
     Code, Running, Workers, requests
<1>2. Phases'
  BY DEF GracefulStop, InFlight, ServerInv, Types, Phases, RequestInv,
     Booting, Up, Main, Code, Running, Workers, Users, requests
<1>3. ASSUME NEW q \in Requests PROVE RequestInv(q)'
  BY <1>3 DEF GracefulStop, InFlight, ServerInv, Types, Phases, RequestInv,
     Due, Booting, Up, Main, Code, Running, requests
<1> QED BY <1>1, <1>2, <1>3 DEF ServerInv

LEMMA ShutdownKeeps == ASSUME ServerInv, Shutdown PROVE ServerInv'
<1>1. Types'
  BY DEF Shutdown, InFlight, ServerInv, Types, Phases, Booting, Main, Code,
     Running, Workers, requests
<1>2. Phases'
  BY DEF Shutdown, InFlight, ServerInv, Types, Phases, RequestInv, Booting,
     Up, Main, Code, Running, Workers, Users, requests
<1>3. ASSUME NEW q \in Requests PROVE RequestInv(q)'
  BY <1>3 DEF Shutdown, InFlight, ServerInv, Types, Phases, RequestInv, Due,
     Booting, Up, Main, Code, Running, requests
<1> QED BY <1>1, <1>2, <1>3 DEF ServerInv

LEMMA CloseRedisKeeps == ASSUME ServerInv, CloseRedis PROVE ServerInv'
<1>1. Types'
  BY DEF CloseRedis, ServerInv, Types, Phases, Booting, Main, Code, Running,
     Workers, requests
<1>2. Phases'
  BY DEF CloseRedis, ServerInv, Types, Phases, RequestInv, Booting, Up, Main,
     Code, Running, Workers, Users, requests
<1>3. ASSUME NEW q \in Requests PROVE RequestInv(q)'
  BY <1>3 DEF CloseRedis, ServerInv, Types, Phases, RequestInv, Due, Booting,
     Up, Main, Code, Running, requests
<1> QED BY <1>1, <1>2, <1>3 DEF ServerInv

LEMMA ClosePoolKeeps == ASSUME ServerInv, ClosePool PROVE ServerInv'
<1>1. Types'
  BY DEF ClosePool, ServerInv, Types, Phases, Booting, Main, Code, Running,
     Workers, requests
<1>2. Phases'
  BY DEF ClosePool, ServerInv, Types, Phases, RequestInv, Booting, Up, Main,
     Code, Running, Workers, Users, requests
<1>3. ASSUME NEW q \in Requests PROVE RequestInv(q)'
  BY <1>3 DEF ClosePool, ServerInv, Types, Phases, RequestInv, Due, Booting,
     Up, Main, Code, Running, requests
<1> QED BY <1>1, <1>2, <1>3 DEF ServerInv

LEMMA DrainedKeeps == ASSUME ServerInv, Drained PROVE ServerInv'
<1>1. Types'
  BY DEF Drained, ServerInv, Types, Phases, Booting, Main, Code, Running,
     Workers, requests
<1>2. Phases'
  BY DEF Drained, ServerInv, Types, Phases, RequestInv, Booting, Up, Main,
     Code, Running, Workers, Users, requests
<1>3. ASSUME NEW q \in Requests PROVE RequestInv(q)'
  BY <1>3 DEF Drained, ServerInv, Types, Phases, RequestInv, Due, Booting,
     Up, Main, Code, Running, requests
<1> QED BY <1>1, <1>2, <1>3 DEF ServerInv

LEMMA ExitKeeps == ASSUME ServerInv, Exit PROVE ServerInv'
<1>1. Types'
  BY DEF Exit, End, ServerInv, Types, Phases, Booting, Main, Code, Running,
     Workers, requests
<1>2. Phases'
  BY DEF Exit, End, ServerInv, Types, Phases, RequestInv, Booting, Up, Main,
     Code, Running, Workers, Users, requests
<1>3. ASSUME NEW q \in Requests PROVE RequestInv(q)'
  BY <1>3 DEF Exit, End, ServerInv, Types, Phases, RequestInv, Due, Booting,
     Up, Main, Code, Running, requests
<1> QED BY <1>1, <1>2, <1>3 DEF ServerInv

LEMMA DieKeeps == ASSUME ServerInv, Die PROVE ServerInv'
<1>1. Types'
  BY DEF Die, End, ServerInv, Types, Phases, Booting, Main, Code, Running,
     Workers, requests
<1>2. Phases'
  BY DEF Die, End, ServerInv, Types, Phases, RequestInv, Booting, Up, Main,
     Code, Running, Workers, Users, requests
<1>3. ASSUME NEW q \in Requests PROVE RequestInv(q)'
  BY <1>3 DEF Die, End, ServerInv, Types, Phases, RequestInv, Due, Booting,
     Up, Main, Code, Running, requests
<1> QED BY <1>1, <1>2, <1>3 DEF ServerInv

LEMMA AcceptKeeps ==
  ASSUME ServerInv, NEW r \in Requests, NEW v \in {"http", "grpc"}, Accept(r, v)
  PROVE  ServerInv'
<1>1. Types'
  BY DEF Accept, Goto, ServerInv, Types, Running, process
<1>2. Phases'
  BY DEF Accept, Goto, ServerInv, Types, Phases, RequestInv, Booting, Up,
     Running, Workers, Users, process
<1>3. RequestInv(r)'
  BY DEF Accept, Goto, ServerInv, Types, Phases, RequestInv, Due, Booting,
     Up, Running, process
<1>4. ASSUME NEW q \in Requests PROVE RequestInv(q)'
  BY <1>3, <1>4, OthersKeep DEF Accept, Goto, ServerInv, Types
<1> QED BY <1>1, <1>2, <1>4 DEF ServerInv

LEMMA ClaimKeeps ==
  ASSUME ServerInv, NEW r \in Requests, Claim(r)
  PROVE  ServerInv'
<1>1. Types'
  BY DEF Claim, Goto, ServerInv, Types, Running, process
<1>2. Phases'
  BY DEF Claim, Goto, ServerInv, Types, Phases, RequestInv, Booting, Up,
     Running, Workers, Users, process
<1>3. RequestInv(r)'
  BY DEF Claim, Goto, ServerInv, Types, Phases, RequestInv, Due, Booting, Up,
     Running, process
<1>4. ASSUME NEW q \in Requests PROVE RequestInv(q)'
  BY <1>3, <1>4, OthersKeep DEF Claim, Goto, ServerInv, Types
<1> QED BY <1>1, <1>2, <1>4 DEF ServerInv

LEMMA BeginKeeps ==
  ASSUME ServerInv, NEW r \in Requests, Begin(r)
  PROVE  ServerInv'
<1>1. Types'
  BY DEF Begin, Goto, Acquirable, ServerInv, Types, Running, process
<1>2. Phases'
  BY DEF Begin, Goto, Acquirable, ServerInv, Types, Phases, RequestInv,
     Booting, Up, Running, Workers, Users, process
<1>3. RequestInv(r)'
  BY DEF Begin, Goto, Acquirable, ServerInv, Types, Phases, RequestInv, Due,
     Booting, Up, Running, process
<1>4. ASSUME NEW q \in Requests PROVE RequestInv(q)'
  BY <1>3, <1>4, OthersKeep DEF Begin, Goto, Acquirable, ServerInv, Types
<1> QED BY <1>1, <1>2, <1>4 DEF ServerInv

LEMMA CommitKeeps ==
  ASSUME ServerInv, NEW r \in Requests, Commit(r)
  PROVE  ServerInv'
<1>1. Types'
  BY DEF Commit, Leave, Goto, ServerInv, Types, Running, process
<1>2. Phases'
  BY DEF Commit, Leave, Goto, ServerInv, Types, Phases, RequestInv, Booting, Up,
     Running, Workers, Users, process
<1>3. RequestInv(r)'
  BY DEF Commit, Leave, Goto, ServerInv, Types, Phases, RequestInv, Due, Booting,
     Up, Running, process
<1>4. ASSUME NEW q \in Requests PROVE RequestInv(q)'
  BY <1>3, <1>4, OthersKeep DEF Commit, Leave, Goto, ServerInv, Types
<1> QED BY <1>1, <1>2, <1>4 DEF ServerInv

LEMMA RollbackKeeps ==
  ASSUME ServerInv, NEW r \in Requests, Rollback(r)
  PROVE  ServerInv'
<1>1. Types'
  BY DEF Rollback, Leave, Goto, ServerInv, Types, Running, process
<1>2. Phases'
  BY DEF Rollback, Leave, Goto, ServerInv, Types, Phases, RequestInv, Booting, Up,
     Running, Workers, Users, process
<1>3. RequestInv(r)'
  BY DEF Rollback, Leave, Goto, ServerInv, Types, Phases, RequestInv, Due, Booting,
     Up, Running, process
<1>4. ASSUME NEW q \in Requests PROVE RequestInv(q)'
  BY <1>3, <1>4, OthersKeep DEF Rollback, Leave, Goto, ServerInv, Types
<1> QED BY <1>1, <1>2, <1>4 DEF ServerInv

LEMMA RecordKeeps ==
  ASSUME ServerInv, NEW r \in Requests, Record(r)
  PROVE  ServerInv'
<1>1. Types'
  BY DEF Record, Goto, Settle, Acquirable, ServerInv, Types, Running, process
<1>2. Phases'
  BY DEF Record, Goto, Settle, Acquirable, ServerInv, Types, Phases,
     RequestInv, Booting, Up, Running, Workers, Users, process
<1>3. RequestInv(r)'
  BY DEF Record, Goto, Settle, Acquirable, ServerInv, Types, Phases,
     RequestInv, Due, Booting, Up, Running, process
<1>4. ASSUME NEW q \in Requests PROVE RequestInv(q)'
  BY <1>3, <1>4, OthersKeep
    DEF Record, Goto, Settle, Acquirable, ServerInv, Types
<1> QED BY <1>1, <1>2, <1>4 DEF ServerInv

LEMMA StoreKeeps ==
  ASSUME ServerInv, NEW r \in Requests, Store(r)
  PROVE  ServerInv'
<1>1. Types'
  BY DEF Store, Goto, Settle, ServerInv, Types, Running, process
<1>2. Phases'
  BY DEF Store, Goto, Settle, ServerInv, Types, Phases, RequestInv, Booting,
     Up, Running, Workers, Users, process
<1>3. RequestInv(r)'
  BY DEF Store, Goto, Settle, ServerInv, Types, Phases, RequestInv, Due,
     Booting, Up, Running, process
<1>4. ASSUME NEW q \in Requests PROVE RequestInv(q)'
  BY <1>3, <1>4, OthersKeep DEF Store, Goto, Settle, ServerInv, Types
<1> QED BY <1>1, <1>2, <1>4 DEF ServerInv

LEMMA ReleaseKeeps ==
  ASSUME ServerInv, NEW r \in Requests, Release(r)
  PROVE  ServerInv'
<1>1. Types'
  BY DEF Release, Goto, ServerInv, Types, Running, process
<1>2. Phases'
  BY DEF Release, Goto, ServerInv, Types, Phases, RequestInv, Booting, Up,
     Running, Workers, Users, process
<1>3. RequestInv(r)'
  BY DEF Release, Goto, ServerInv, Types, Phases, RequestInv, Due, Booting,
     Up, Running, process
<1>4. ASSUME NEW q \in Requests PROVE RequestInv(q)'
  BY <1>3, <1>4, OthersKeep DEF Release, Goto, ServerInv, Types
<1> QED BY <1>1, <1>2, <1>4 DEF ServerInv

LEMMA IgnoreErrorKeeps ==
  ASSUME ServerInv, NEW r \in Requests, IgnoreError(r)
  PROVE  ServerInv'
<1>1. Types'
  BY DEF IgnoreError, Goto, ServerInv, Types, Running, process
<1>2. Phases'
  BY DEF IgnoreError, Goto, ServerInv, Types, Phases, RequestInv, Booting,
     Up, Running, Workers, Users, process
<1>3. RequestInv(r)'
  BY DEF IgnoreError, Goto, ServerInv, Types, Phases, RequestInv, Due,
     Booting, Up, Running, process
<1>4. ASSUME NEW q \in Requests PROVE RequestInv(q)'
  BY <1>3, <1>4, OthersKeep DEF IgnoreError, Goto, ServerInv, Types
<1> QED BY <1>1, <1>2, <1>4 DEF ServerInv

LEMMA AnswerKeeps ==
  ASSUME ServerInv, NEW r \in Requests, Answer(r)
  PROVE  ServerInv'
<1>1. Types'
  BY DEF Answer, Goto, Settle, ServerInv, Types, Running, process
<1>2. Phases'
  BY DEF Answer, Goto, Settle, ServerInv, Types, Phases, RequestInv, Booting,
     Up, Running, Workers, Users, process
<1>3. RequestInv(r)'
  BY DEF Answer, Goto, Settle, ServerInv, Types, Phases, RequestInv, Due,
     Booting, Up, Running, process
<1>4. ASSUME NEW q \in Requests PROVE RequestInv(q)'
  BY <1>3, <1>4, OthersKeep DEF Answer, Goto, Settle, ServerInv, Types
<1> QED BY <1>1, <1>2, <1>4 DEF ServerInv

LEMMA QueryKeeps ==
  ASSUME ServerInv, NEW w \in Workers, Query(w)
  PROVE  ServerInv'
<1>1. Types'
  BY DEF Query, Set, Acquirable, Cancelled, ServerInv, Types, process, requests
<1>2. Phases'
  BY DEF Query, Set, Acquirable, Cancelled, ServerInv, Types, Phases,
     Booting, Up, Users, process, requests
<1>3. ASSUME NEW q \in Requests PROVE RequestInv(q)'
  BY <1>3, OthersKeep DEF Query, requests
<1> QED BY <1>1, <1>2, <1>3 DEF ServerInv

LEMMA RestKeeps ==
  ASSUME ServerInv, NEW w \in Workers, Rest(w)
  PROVE  ServerInv'
<1>1. Types'
  BY DEF Rest, Set, ServerInv, Types, process, requests
<1>2. Phases'
  BY DEF Rest, Set, ServerInv, Types, Phases, Booting, Up, Users, process,
     requests
<1>3. ASSUME NEW q \in Requests PROVE RequestInv(q)'
  BY <1>3, OthersKeep DEF Rest, requests
<1> QED BY <1>1, <1>2, <1>3 DEF ServerInv

LEMMA StopKeeps ==
  ASSUME ServerInv, NEW w \in Workers, Stop(w)
  PROVE  ServerInv'
<1>1. Types'
  BY DEF Stop, Set, ServerInv, Types, process, requests
<1>2. Phases'
  BY DEF Stop, Set, ServerInv, Types, Phases, Booting, Up, Users, process,
     requests
<1>3. ASSUME NEW q \in Requests PROVE RequestInv(q)'
  BY <1>3, OthersKeep DEF Stop, requests
<1> QED BY <1>1, <1>2, <1>3 DEF ServerInv

LEMMA ServerInvStep == ServerInv /\ [Next]_vars => ServerInv'
<1> SUFFICES ASSUME ServerInv, [Next]_vars PROVE ServerInv'
  OBVIOUS
<1>1. CASE UNCHANGED vars
  BY <1>1 DEF vars, process, requests, ServerInv, Types, Phases, RequestInv,
              Users
<1>2. CASE Boot \/ Signal \/ Expire \/ ShutDown \/ Die
  BY <1>2, NewPoolKeeps, RunMigrationsKeeps, NewClientKeeps, SignalKeeps,
     ExpireKeeps, GracefulStopKeeps, ShutdownKeeps, CloseRedisKeeps,
     ClosePoolKeeps, DrainedKeeps, ExitKeeps, DieKeeps
     DEF Boot, ShutDown
<1>3. ASSUME NEW r \in Requests, NEW v \in {"http", "grpc"}, Accept(r, v)
      PROVE  ServerInv'
  BY <1>3, AcceptKeeps
<1>4. ASSUME NEW r \in Requests,
             Release(r) \/ Step(r) \/ Acquire(r) \/ IgnoreError(r)
      PROVE  ServerInv'
  BY <1>4, ReleaseKeeps, IgnoreErrorKeeps, ClaimKeeps, CommitKeeps, RollbackKeeps, StoreKeeps, AnswerKeeps,
     BeginKeeps, RecordKeeps
     DEF Step, Acquire
<1>5. ASSUME NEW w \in Workers, Query(w) \/ Rest(w) \/ Stop(w)
      PROVE  ServerInv'
  BY <1>5, QueryKeeps, RestKeeps, StopKeeps
<1> QED BY <1>1, <1>2, <1>3, <1>4, <1>5 DEF Next

LEMMA ServerInvAlways == Spec => []ServerInv
  BY ServerInvInit, ServerInvStep, PTL DEF Spec

-----------------------------------------------------------------------------
(* A process that returns 0 has answered every request it took and done    *)
(* what those requests left to be done after their transactions, but for   *)
(* the statements that failed with Redis and the pool open.                *)
THEOREM CleanExit == Spec => []CleanExitOwesNothing
<1>1. ServerInv => CleanExitOwesNothing
  BY DEF ServerInv, Types, Phases, RequestInv, Due, Up, Booting, Running,
         Main, Code, CleanExitOwesNothing
<1> QED BY <1>1, ServerInvAlways, PTL

(* GracefulStop comes first and waits: whatever the HTTP timeout does, no  *)
(* gRPC call is cut off or loses a row because Redis or the pool is closed.*)
THEOREM GrpcFinishes == Spec => []GrpcCallsFinish
<1>1. ServerInv => GrpcCallsFinish
  BY DEF ServerInv, Types, Phases, RequestInv, Due, Running, GrpcCallsFinish
<1> QED BY <1>1, ServerInvAlways, PTL

(* Closing the pool waits for every transaction and statement, and gives   *)
(* out no connection meanwhile: run() leaves none behind.                  *)
THEOREM ReturnIsTidy == Spec => ReturnLeavesNoTransaction
<1>1. ServerInv /\ [Next]_vars => [Exit => Users = {}]_vars
  BY DEF ServerInv, Phases, Exit
<1> QED
  BY <1>1, ServerInvAlways, PTL DEF Spec, ReturnLeavesNoTransaction
=============================================================================
