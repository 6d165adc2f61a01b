------------------------------- MODULE Access -------------------------------
(***************************************************************************)
(* Users, the tokens issued to them, and the requests admitted with them:  *)
(* a user row is read, changed and written back without a lock, a token    *)
(* keeps the role its user had at login until it expires, and an operation *)
(* reached over HTTP, gRPC or the command line leaves an audit row and an  *)
(* answer.  The operations themselves are those of Ledger: here one is its *)
(* result.  The idempotency layer in front of both servers is Idempotency. *)
(***************************************************************************)
EXTENDS Transports, Integers

CONSTANTS
  Users,          \* the IDs CreateUser may generate
  Emails,
  Granted,        \* the roles users are given, valid or not
  Managers,       \* callers of UserUseCase
  Clients,        \* each logs in and sends one request
  TokenDuration,  \* JWT_EXPIRATION, in ticks
  MaxTime,        \* bound: the clock stops there
  MaxJobs         \* bound: changes of users begun

User == [email : Emails, role : Granted, active : BOOLEAN]

ASSUME AccessAssumption ==
  /\ None \notin Users \cup User
  /\ TokenDuration \in Nat \ {0} /\ MaxTime \in Nat /\ MaxJobs \in Nat

VARIABLES
  authEnabled,  \* AUTH_ENABLED
  clock,
  users,        \* the table, by ID; None when there is no row
  fresh,        \* the IDs not generated yet
  job,          \* what each manager is doing
  jobs,         \* how many were begun
  session,      \* each client's login or token
  call,         \* each client's request
  audit,        \* audit_logs
  asked,        \* history: each row as the calls that succeeded asked for it
  torn,         \* history: users of whom two changes overlapped
  lastHeld      \* history: when each user was last active in a role

people == <<users, fresh, job, jobs, asked, torn, lastHeld>>
vars == <<authEnabled, clock, people, session, call, audit>>

NoCall == [pc |-> "none", via |-> None, op |-> None, user |-> None,
           done |-> FALSE, answer |-> None]

Init ==
  /\ authEnabled \in BOOLEAN
  /\ clock = 0
  /\ users = [u \in Users |-> None] /\ fresh = Users
  /\ job = [m \in Managers |-> None] /\ jobs = 0
  /\ session = [c \in Clients |-> None]
  /\ call = [c \in Clients |-> NoCall]
  /\ audit = {}
  /\ asked = [u \in Users |-> None] /\ torn = {}
  /\ lastHeld = [u \in Users |-> [r \in Granted |-> -1]]

(* Bound: once every client has sent its request nothing reads the users   *)
(* or the clock on its behalf, and neither changes further.                *)
Awaited == \E c \in Clients : call[c].pc = "none"

(* Bound: what does not depend on the users table - a login that fails, a  *)
(* request nobody need be known for, and an operation once it is admitted  *)
(* - is tried before its second change only.                               *)
Calm == jobs <= 1

(* A tick is long beside a login, which reads a user and issues its token  *)
(* within one, and short beside a token's life.                            *)
Tick ==
  /\ clock < MaxTime /\ Awaited
  /\ \A c \in Clients : session[c] # None => session[c].state # "checked"
  /\ clock' = clock + 1
  /\ lastHeld' = [u \in Users |-> [r \in Granted |->
       IF users[u] # None /\ users[u].active /\ users[u].role = r
       THEN clock' ELSE lastHeld[u][r]]]
  /\ UNCHANGED <<authEnabled, users, fresh, job, jobs, asked, torn, session,
                 call, audit>>

-----------------------------------------------------------------------------
(* The users table.                                                        *)

EmailTaken(e) == \E v \in Users : users[v] # None /\ users[v].email = e

Write(u, row) ==
  /\ users' = [users EXCEPT ![u] = row]
  /\ lastHeld' = IF row # None /\ row.active
                 THEN [lastHeld EXCEPT ![u][row.role] = clock]
                 ELSE lastHeld

(* INSERT: the primary key and the e-mail's unique constraint decide.      *)
Insert(u, row) ==
  IF users[u] # None \/ EmailTaken(row.email)
  THEN UNCHANGED <<users, asked, lastHeld>>
  ELSE Write(u, row) /\ asked' = [asked EXCEPT ![u] = row]

(* Mutant: an upsert.                                                      *)
Upsert(u, row) == Write(u, row)
(* UPDATE sets the whole row but its e-mail; of no row it updates nothing, *)
(* and says so to nobody.                                                  *)
Update(u, row) ==
  IF users[u] = None THEN UNCHANGED <<users, lastHeld>>
  ELSE Write(u, [row EXCEPT !.email = users[u].email])

Delete(u) == Write(u, None)

-----------------------------------------------------------------------------
(* UserUseCase.  A manager makes one change at a time; a job is what it    *)
(* holds between its two statements.                                       *)

Count == jobs < MaxJobs /\ Awaited /\ jobs' = jobs + 1

Begin(m, j) ==
  /\ Count
  /\ job' = [job EXCEPT ![m] = j]

Changes(u) == {m \in Managers : job[m] # None /\ job[m].user = u}
Tear(u, overlapped) == torn' = IF overlapped THEN torn \cup {u} ELSE torn

(* generateID reads the clock only: two users created at once may be given *)
(* the same ID.                                                            *)
generateID ==
  fresh \cup {u \in Users : \E m \in Changes(u) : job[m].op = "create"}

(* CreateUser finds no row with the e-mail.                                *)
CreateUserCheck(m) ==
  \E u \in generateID, e \in Emails, r \in Granted :
    /\ job[m] = None /\ IsValid(r) /\ ~EmailTaken(e)
    /\ Begin(m, [op |-> "create", user |-> u,
                 row |-> [email |-> e, role |-> r, active |-> TRUE]])
    /\ fresh' = fresh \ {u}
    /\ UNCHANGED <<authEnabled, clock, users, asked, torn, lastHeld, session,
                   call, audit>>

CreateUserInsert(m) ==
  /\ job[m] # None /\ job[m].op = "create"
  /\ Insert(job[m].user, job[m].row)
  /\ job' = [job EXCEPT ![m] = None]
  /\ UNCHANGED <<authEnabled, clock, fresh, jobs, torn, session, call, audit>>

Found(u) == users[u] # None

(* UpdateUser reads the row and changes its copy: a role, or being active. *)
UpdateUserRead(m) ==
  \E u \in Users :
    /\ job[m] = None /\ Found(u)
    /\ \E ch \in {[field |-> "role", to |-> r] : r \in Granted \cap Roles}
                    \cup {[field |-> "active", to |-> b] : b \in BOOLEAN} :
         Begin(m, [op |-> "update", user |-> u, row |-> users[u], change |-> ch])
    /\ Tear(u, Changes(u) # {})
    /\ UNCHANGED <<authEnabled, clock, users, fresh, asked, lastHeld, session,
                   call, audit>>

Changed(row, ch) ==
  IF ch.field = "role" THEN [row EXCEPT !.role = ch.to]
  ELSE [row EXCEPT !.active = ch.to]

UpdateUserWrite(m) ==
  /\ job[m] # None /\ job[m].op = "update"
  /\ LET u == job[m].user IN
       /\ Update(u, Changed(job[m].row, job[m].change))
       /\ asked' = IF asked[u] = None THEN asked
                   ELSE [asked EXCEPT ![u] = Changed(asked[u], job[m].change)]
  /\ job' = [job EXCEPT ![m] = None]
  /\ UNCHANGED <<authEnabled, clock, fresh, jobs, torn, session, call, audit>>

DeleteUser(m) ==
  \E u \in Users :
    /\ job[m] = None /\ users[u] # None
    /\ Count
    /\ Delete(u) /\ asked' = [asked EXCEPT ![u] = None]
    /\ Tear(u, Changes(u) # {})
    /\ UNCHANGED <<authEnabled, clock, fresh, job, session, call, audit>>

(* The command line inserts without looking, whatever the role.            *)
createUser(r) ==
  \E u \in fresh, e \in Emails :
    /\ Count
    /\ Insert(u, [email |-> e, role |-> r, active |-> TRUE])
    /\ fresh' = fresh \ {u}
    /\ UNCHANGED <<authEnabled, clock, job, torn, session, call, audit>>

userCmd == \E r \in Granted : createUser(r)
setupCmd == "admin" \in Granted /\ createUser("admin")

-----------------------------------------------------------------------------
(* Login.                                                                  *)

AuditRow(action, actor, status, c) ==
  [action |-> action, actor |-> actor, status |-> status, client |-> c]

(* Rows written outside a transaction are best effort.                     *)
AuditBestEffort(row) == \/ audit' = audit \cup {row}
                        \/ UNCHANGED audit

(* An inactive user is refused, and so is any error of the query or a      *)
(* wrong password.                                                         *)
Admissible(u) == users[u] # None /\ users[u].active

Authenticate(c) ==
  \E u \in Users :
    /\ session[c] = None /\ Admissible(u)
    /\ session' = [session EXCEPT ![c] =
                     [state |-> "checked", user |-> u, role |-> users[u].role, exp |-> 0]]
    /\ UNCHANGED <<authEnabled, clock, people, call, audit>>

AuthenticateFails(c) ==
  \E e \in Emails :
    /\ session[c] = None /\ Calm
    /\ AuditBestEffort(AuditRow("user.login", e, "failure", c))
    /\ UNCHANGED <<authEnabled, clock, people, session, call>>

Generate(c) ==
  /\ session[c] # None /\ session[c].state = "checked"
  /\ session' = [session EXCEPT ![c].state = "token",
                                ![c].exp = clock + TokenDuration]
  /\ AuditBestEffort(AuditRow("user.login", session[c].user, "success", c))
  /\ UNCHANGED <<authEnabled, clock, people, call>>

(* Mutant: the expiry is not compared.                                     *)
VerifySignature(c) == session[c] # None /\ session[c].state = "token"
Verify(c) ==
  session[c] # None /\ session[c].state = "token" /\ clock < session[c].exp

-----------------------------------------------------------------------------
(* Requests.  A request is admitted with the user its context carries.     *)

MinRole(via, op) == IF via = "http" THEN Routes[op] ELSE MethodRole(op)

MayEnter(c, via, op) ==
  /\ Verify(c)
  /\ MinRole(via, op) # None => RequireRole(MinRole(via, op), session[c].role)

Offered(via) == CASE via = "http" -> DOMAIN Routes
                  [] via = "grpc" -> Methods
                  [] via = "cli" -> Commands

Send(c, via, op) ==
  /\ call[c].pc = "none" /\ op \in Offered(via)
  /\ UNCHANGED <<authEnabled, clock, people, session, audit>>

Admit(c, via, op, user) ==
  call' = [call EXCEPT ![c] = [NoCall EXCEPT !.pc = "admitted", !.via = via,
                                             !.op = op, !.user = user]]

Answered(c, via, op, user, done, answer) ==
  call' = [call EXCEPT ![c] =
             [pc |-> "answered", via |-> via, op |-> op, user |-> user,
              done |-> done, answer |-> answer]]

Enter(c) ==
  \E via \in {"http", "grpc"}, op \in Offered("http") \cup Offered("grpc") :
    /\ Send(c, via, op)
    /\ IF authEnabled THEN MayEnter(c, via, op) ELSE Calm
    /\ Admit(c, via, op, IF authEnabled THEN session[c].user ELSE None)

Refuse(c) ==
  \E via \in {"http", "grpc"}, op \in Offered("http") \cup Offered("grpc") :
    /\ Send(c, via, op)
    /\ authEnabled /\ ~MayEnter(c, via, op) /\ Calm
    /\ Answered(c, via, op, None, FALSE,
         CASE via = "http" -> IF Verify(c) THEN "403" ELSE "401"
           [] via = "grpc" -> IF Verify(c) THEN "PermissionDenied"
                              ELSE "Unauthenticated")

Command(c) ==
  \E op \in Commands : Send(c, "cli", op) /\ Calm /\ Admit(c, "cli", op, None)

(* Mutant: the middleware's key is not the domain's, as over gRPC.         *)
UserUnderOwnKey(c) == None
(* What domain.UserFromContext finds: the HTTP middleware stores the user  *)
(* under the domain's key, the gRPC interceptor under one of its own.      *)
UserFromContext(c) == IF call[c].via = "http" THEN call[c].user ELSE None

auditActor(c) == IF UserFromContext(c) = None THEN "system" ELSE UserFromContext(c)

GetCurrentUser(c) == IF UserFromContext(c) = None THEN "401" ELSE "ok"

Answer(via, op, err) ==
  CASE via = "http" -> HttpAnswer(op, err)
    [] via = "grpc" -> GrpcAnswer(op, err)
    [] via = "cli" -> CommandAnswer(err)

(* The row of a void or a capture is written after COMMIT, as best it can. *)
AfterCommit == {"hold.void", "hold.capture"}

(* The rows of an operation that went through, and of one that came back   *)
(* with an error: both, when the error came after COMMIT was sent.  A      *)
(* transfer to reverse that is not there leaves no row.                    *)
Attribute(c, op, res) ==
  LET success == AuditRow(AuditAction(op), auditActor(c), "success", c)
      failure == AuditRow(AuditAction(op), auditActor(c), "failure", c)
      made == IF res.done /\ op \notin AfterCommit
              THEN audit \cup {success} ELSE audit
  IN  \/ audit' = made
      \/ op \in AfterCommit /\ res.done /\ res.err = None
           /\ audit' = audit \cup {success}
      \/ /\ op \in Mutations /\ res.err # None
         /\ ~(op = "transfer.reverse" /\ res.err = "TransferNotFound")
         /\ audit' = made \cup {failure}

Handle(c) ==
  LET k == call[c] IN
    /\ k.pc = "admitted" /\ Calm
    /\ \E res \in Results(k.op) :
         /\ Attribute(c, k.op, res)
         /\ Answered(c, k.via, k.op, k.user, res.done,
              IF k.op = "auth.me" THEN GetCurrentUser(c)
              ELSE Answer(k.via, k.op, res.err))
    /\ UNCHANGED <<authEnabled, clock, people, session>>

HandleMalformed(c) ==
  LET k == call[c] IN
    /\ k.pc = "admitted" /\ Calm /\ k.op \in Parsed(k.via)
    /\ Answered(c, k.via, k.op, k.user, FALSE, Answer(k.via, k.op, "malformed"))
    /\ UNCHANGED <<authEnabled, clock, people, session, audit>>

-----------------------------------------------------------------------------
Next ==
  \/ Tick \/ userCmd \/ setupCmd
  \/ \E m \in Managers :
       \/ CreateUserCheck(m) \/ CreateUserInsert(m)
       \/ UpdateUserRead(m) \/ UpdateUserWrite(m) \/ DeleteUser(m)
  \/ \E c \in Clients :
       \/ Authenticate(c) \/ AuthenticateFails(c) \/ Generate(c)
       \/ Enter(c) \/ Refuse(c) \/ Command(c) \/ Handle(c) \/ HandleMalformed(c)

Spec == Init /\ [][Next]_vars

-----------------------------------------------------------------------------
(* What domain.Role lets a role do; a read, anyone who logged in.          *)
Permitted(op, role) ==
  CASE op = "account.create" -> CanManageAccounts(role)
    [] op \in Mutations \ {"account.create"} -> CanCreate(role)
    [] op = "audit.read" -> role = "admin"
    [] OTHER -> TRUE

(* A request is admitted only if its user was active, within a token's     *)
(* life before, in the role that lets it do what it asks: over either      *)
(* transport, and however often the role was changed or taken away while   *)
(* the user logged in (AuthMiddleware, AuthInterceptor, Verify).           *)
PowersWereHeld ==
  [][\A c \in Clients :
       (call[c].pc = "none" /\ call'[c].pc = "admitted"
          /\ call'[c].via # "cli" /\ authEnabled) =>
         \E r \in Granted : /\ Permitted(call'[c].op, r)
                            /\ lastHeld[call'[c].user][r] > clock - TokenDuration
                            /\ lastHeld[call'[c].user][r] >= 0]_vars

(* A user row is what the changes that succeeded asked for, unless two of  *)
(* them overlapped: UpdateUser writes back a row it read before.  A user   *)
(* deleted stays deleted even then, since an update of no row writes none. *)
UpdatesKept ==
  \A u \in Users :
    /\ u \notin torn => users[u] = asked[u]
    /\ asked[u] = None => users[u] = None

(* An answer that blames the request or its sender is given only to        *)
(* requests that changed nothing, and a success only to those whose change *)
(* was made: a client may believe both, whichever transport it used and    *)
(* whatever became of COMMIT.                                              *)
AnswersBelievable ==
  \A c \in Clients :
    call[c].pc = "answered" =>
      /\ call[c].answer \in FinalAnswers => ~call[c].done
      /\ call[c].answer = "ok" /\ call[c].op \in Mutations => call[c].done

(* A change made over HTTP has an audit row that names its user, unless the*)
(* row is written after the change, and no row names a user whose request  *)
(* did not come that way.                                                  *)
HttpChangesNamed ==
  /\ \A c \in Clients :
       (call[c].done /\ call[c].via = "http" /\ authEnabled
          /\ call[c].op \notin AfterCommit) =>
         \E row \in audit : /\ row.client = c /\ row.action = AuditAction(call[c].op)
                            /\ row.status = "success" /\ row.actor = call[c].user
  /\ \A row \in audit :
       row.action # "user.login" /\ row.actor # "system" =>
         row.actor = call[row.client].user
=============================================================================
