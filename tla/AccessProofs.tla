---------------------------- MODULE AccessProofs ----------------------------
(***************************************************************************)
(* Proofs about Access, for any number of users, managers and clients, any *)
(* roles given and any life of a token.                                    *)
(***************************************************************************)
EXTENDS Access, TLAPS

Change == [field : {"role"}, to : Granted] \cup [field : {"active"}, to : BOOLEAN]

Types ==
  /\ clock \in Nat
  /\ users \in [Users -> User \cup {None}]
  /\ asked \in [Users -> User \cup {None}]
  /\ lastHeld \in [Users -> [Granted -> Int]]
  /\ fresh \subseteq Users
  /\ DOMAIN job = Managers /\ DOMAIN session = Clients /\ DOMAIN call = Clients

(* What a manager means to write back is the row as it still is, unless    *)
(* another change of the same user overlapped with its own.                *)
Job(m) ==
  job[m] # None =>
    /\ job[m].op \in {"create", "update"}
    /\ job[m].user \in Users /\ job[m].row \in User
    /\ job[m].op = "update" =>
         /\ job[m].change \in Change
         /\ job[m].user \notin torn =>
              job[m].row # None /\ users[job[m].user] = job[m].row

OneUpdate ==
  \A m, n \in Managers :
    (m # n /\ job[m] # None /\ job[n] # None
       /\ job[m].op = "update" /\ job[n].op = "update"
       /\ job[m].user = job[n].user) => job[m].user \in torn

(* When a user was last active in a role is remembered, and the roles held *)
(* now are held now.                                                       *)
Held ==
  /\ \A u \in Users, r \in Granted : lastHeld[u][r] <= clock
  /\ \A u \in Users :
       users[u] # None /\ users[u].active => lastHeld[u][users[u].role] = clock

PeopleInv ==
  /\ Types
  /\ \A m \in Managers : Job(m)
  /\ OneUpdate
  /\ UpdatesKept
  /\ Held

(* A token's role was its user's when the login read the row, which is no  *)
(* longer ago than the token's life.                                       *)
Session(c) ==
  session[c] # None =>
    LET s == session[c] IN
      /\ s.user \in Users /\ s.role \in Granted
      /\ s.state = "checked" => lastHeld[s.user][s.role] = clock
      /\ s.state = "token" =>
           /\ s.exp \in Nat /\ s.exp >= TokenDuration
           /\ lastHeld[s.user][s.role] >= s.exp - TokenDuration

(* A request admitted with authentication on carries its user, has changed *)
(* nothing yet and has left no row of its own.                             *)
Request(c) ==
  LET k == call[c] IN
    /\ k.pc # "answered" => ~k.done
    /\ k.pc = "admitted" => k.via \in {"http", "grpc", "cli"} /\ k.op \in Offered(k.via)
    /\ k.via = "http" /\ authEnabled /\ (k.pc = "admitted" \/ k.done) => k.user # None

Rows ==
  \A row \in audit :
    row.action # "user.login" /\ row.actor # "system" =>
      /\ row.client \in Clients /\ call[row.client].pc = "answered"
      /\ row.actor = call[row.client].user

AccessInv ==
  /\ PeopleInv
  /\ \A c \in Clients : Session(c) /\ Request(c)
  /\ AnswersBelievable
  /\ HttpChangesNamed
  /\ Rows

-----------------------------------------------------------------------------
(* The users table.                                                        *)

(* The steps of managers, of the command line and of the clock.            *)
ManagerStep(m) ==
  \/ CreateUserCheck(m) \/ CreateUserInsert(m)
  \/ UpdateUserRead(m) \/ UpdateUserWrite(m) \/ DeleteUser(m)
TableStep == Tick \/ userCmd \/ setupCmd \/ \E m \in Managers : ManagerStep(m)
ClientStep(c) ==
  \/ Authenticate(c) \/ AuthenticateFails(c) \/ Generate(c)
  \/ Enter(c) \/ Refuse(c) \/ Command(c) \/ Handle(c) \/ HandleMalformed(c)

LEMMA NextSteps == Next <=> TableStep \/ \E c \in Clients : ClientStep(c)
  BY DEF Next, TableStep, ManagerStep, ClientStep

(* A row inserted or written back is a user's.                             *)
LEMMA ChangedType ==
  ASSUME NEW row \in User, NEW ch \in Change
  PROVE  /\ Changed(row, ch) \in User
         /\ Changed(row, ch).email = row.email
  BY DEF User, Change, Changed

(* Writing a row remembers the role it gives, and forgets none.            *)
LEMMA WriteHeld ==
  ASSUME Types, Held, NEW u \in Users, NEW row \in User \cup {None},
         Write(u, row), clock' = clock
  PROVE  /\ users' = [users EXCEPT ![u] = row]
         /\ users' \in [Users -> User \cup {None}]
         /\ lastHeld' \in [Users -> [Granted -> Int]]
         /\ Held'
         /\ \A v \in Users, r \in Granted : lastHeld'[v][r] >= lastHeld[v][r]
<1>1. /\ users' = [users EXCEPT ![u] = row]
      /\ users' \in [Users -> User \cup {None}]
  BY DEF Write, Types
<1>2. CASE row # None /\ row.active
  <2>1. row.role \in Granted
    BY <1>2 DEF User
  <2>2. lastHeld' = [lastHeld EXCEPT ![u][row.role] = clock]
    BY <1>2 DEF Write
  <2>3. /\ lastHeld' \in [Users -> [Granted -> Int]]
        /\ lastHeld'[u][row.role] = clock
        /\ \A v \in Users, r \in Granted :
             lastHeld'[v][r] = lastHeld[v][r] \/ lastHeld'[v][r] = clock
        /\ \A v \in Users \ {u} : lastHeld'[v] = lastHeld[v]
    BY <2>1, <2>2 DEF Types
  <2>4. Held'
    BY <1>1, <2>3, SMTT(30) DEF Held, Types
  <2>5. ASSUME NEW v \in Users, NEW r \in Granted
        PROVE  lastHeld'[v][r] >= lastHeld[v][r]
    <3>1. lastHeld[v][r] \in Int /\ clock \in Int /\ lastHeld[v][r] <= clock
      BY DEF Held, Types
    <3> QED
      BY <2>3, <3>1
  <2> QED
    BY <1>1, <2>3, <2>4, <2>5
<1>3. CASE ~(row # None /\ row.active)
  <2>1. lastHeld' = lastHeld
    BY <1>3 DEF Write
  <2>2. Held'
    BY <1>1, <1>3, <2>1 DEF Held, Types
  <2> QED
    BY <1>1, <2>1, <2>2 DEF Types
<1> QED
  BY <1>2, <1>3

(* A change that leaves users and memory alone keeps both.                 *)
LEMMA NoWriteHeld ==
  ASSUME Types, Held, clock' = clock, UNCHANGED <<users, lastHeld>>
  PROVE  /\ users' \in [Users -> User \cup {None}]
         /\ lastHeld' \in [Users -> [Granted -> Int]]
         /\ Held'
         /\ \A v \in Users, r \in Granted : lastHeld'[v][r] >= lastHeld[v][r]
  BY DEF Types, Held

LEMMA PeopleInvTick ==
  ASSUME PeopleInv, Tick PROVE PeopleInv'
<1> USE DEF PeopleInv
<1>1. /\ clock' = clock + 1 /\ clock \in Nat
      /\ UNCHANGED <<users, fresh, job, asked, torn, session, call>>
  BY DEF Tick, Types
<1>2. lastHeld' = [u \in Users |-> [r \in Granted |->
        IF users[u] # None /\ users[u].active /\ users[u].role = r
        THEN clock' ELSE lastHeld[u][r]]]
  BY DEF Tick
<1>3. Types'
  BY <1>1, <1>2 DEF Types
<1>4. \A u \in Users, r \in Granted :
        lastHeld'[u][r] = lastHeld[u][r] \/ lastHeld'[u][r] = clock'
  BY <1>2
<1>5. \A u \in Users, r \in Granted : lastHeld'[u][r] <= clock'
  BY <1>1, <1>4 DEF Types, Held
<1>6. ASSUME NEW u \in Users, users[u] # None, users[u].active
      PROVE  lastHeld'[u][users[u].role] = clock'
  <2>1. users[u].role \in Granted
    BY <1>6 DEF Types, User
  <2> QED
    BY <1>2, <1>6, <2>1
<1>7. Held'
  BY <1>1, <1>5, <1>6 DEF Held
<1> QED
  BY <1>1, <1>3, <1>7 DEF Job, OneUpdate, UpdatesKept

(* INSERT adds a row where there is none, and asks for what it adds.       *)
LEMMA InsertKeeps ==
  ASSUME PeopleInv, NEW u \in Users, NEW row \in User, Insert(u, row),
         clock' = clock, torn' = torn
  PROVE  /\ users' \in [Users -> User \cup {None}]
         /\ asked' \in [Users -> User \cup {None}]
         /\ lastHeld' \in [Users -> [Granted -> Int]]
         /\ Held' /\ UpdatesKept'
         /\ \A v \in Users : users[v] # None => users'[v] = users[v]
         /\ \A v \in Users, r \in Granted : lastHeld'[v][r] >= lastHeld[v][r]
<1> USE DEF PeopleInv
<1>1. CASE users[u] # None \/ EmailTaken(row.email)
  <2>1. UNCHANGED <<users, asked, lastHeld>>
    BY <1>1 DEF Insert
  <2> QED
    BY <2>1, NoWriteHeld DEF Types, UpdatesKept
<1>2. CASE ~(users[u] # None \/ EmailTaken(row.email))
  <2>1. Write(u, row) /\ asked' = [asked EXCEPT ![u] = row] /\ users[u] = None
    BY <1>2 DEF Insert
  <2>2. /\ users' = [users EXCEPT ![u] = row]
        /\ users' \in [Users -> User \cup {None}]
        /\ lastHeld' \in [Users -> [Granted -> Int]]
        /\ Held'
        /\ \A v \in Users, r \in Granted : lastHeld'[v][r] >= lastHeld[v][r]
    BY <2>1, WriteHeld
  <2>3. asked' \in [Users -> User \cup {None}]
    BY <2>1 DEF Types
  <2>4. UpdatesKept'
    BY <2>1, <2>2 DEF Types, UpdatesKept
  <2>5. \A v \in Users : users[v] # None => users'[v] = users[v]
    BY <2>1, <2>2 DEF Types
  <2> QED
    BY <2>2, <2>3, <2>4, <2>5
<1> QED
  BY <1>1, <1>2

(* What a manager holds stays good, if the row it read is as it was or its *)
(* user was torn.                                                          *)
LEMMA JobKept ==
  ASSUME Types, NEW n \in Managers, Job(n), job'[n] = job[n],
         torn \subseteq torn',
         \/ job[n] = None
         \/ job[n].op # "update"
         \/ job[n].user \in torn'
         \/ users[job[n].user] # None =>
              users'[job[n].user] = users[job[n].user]
  PROVE  Job(n)'
  BY DEF Job

LEMMA PeopleInvCreateCheck ==
  ASSUME PeopleInv, NEW m \in Managers, CreateUserCheck(m) PROVE PeopleInv'
<1> USE DEF PeopleInv
<1>1. PICK u \in generateID, e \in Emails, r \in Granted :
        /\ job' = [job EXCEPT ![m] = [op |-> "create", user |-> u,
                     row |-> [email |-> e, role |-> r, active |-> TRUE]]]
        /\ fresh' = fresh \ {u}
        /\ UNCHANGED <<clock, users, asked, torn, lastHeld, session, call>>
  BY DEF CreateUserCheck, Begin
<1>2. u \in Users
  BY <1>1 DEF generateID, Changes, Job, Types
<1>3. Types' /\ UpdatesKept' /\ Held'
  BY <1>1 DEF Types, UpdatesKept, Held
<1>4. /\ \A n \in Managers \ {m} : job'[n] = job[n]
      /\ job'[m].op = "create" /\ job'[m].user = u /\ job'[m].row \in User
  BY <1>1, <1>2 DEF Types, User
<1>5. Job(m)'
  BY <1>2, <1>4 DEF Job
<1>6. \A n \in Managers \ {m} : Job(n)'
  BY <1>1, <1>4, JobKept
<1>7. OneUpdate'
  BY <1>1, <1>4 DEF OneUpdate
<1> QED
  BY <1>3, <1>5, <1>6, <1>7

LEMMA PeopleInvCreateInsert ==
  ASSUME PeopleInv, NEW m \in Managers, CreateUserInsert(m) PROVE PeopleInv'
<1> USE DEF PeopleInv
<1>1. /\ job[m] # None /\ Insert(job[m].user, job[m].row)
      /\ job' = [job EXCEPT ![m] = None]
      /\ UNCHANGED <<clock, fresh, torn, session, call>>
  BY DEF CreateUserInsert
<1>2. job[m].user \in Users /\ job[m].row \in User
  BY <1>1 DEF Job
<1>3. /\ users' \in [Users -> User \cup {None}]
      /\ asked' \in [Users -> User \cup {None}]
      /\ lastHeld' \in [Users -> [Granted -> Int]]
      /\ Held' /\ UpdatesKept'
      /\ \A v \in Users : users[v] # None => users'[v] = users[v]
  BY <1>1, <1>2, InsertKeeps
<1>4. job'[m] = None /\ \A n \in Managers \ {m} : job'[n] = job[n]
  BY <1>1 DEF Types
<1>5. Types'
  BY <1>1, <1>3 DEF Types
<1>6. \A n \in Managers \ {m} : Job(n)'
  BY <1>1, <1>3, <1>4, JobKept DEF Job
<1>7. OneUpdate' /\ Job(m)'
  BY <1>1, <1>4 DEF OneUpdate, Job
<1> QED
  BY <1>3, <1>5, <1>6, <1>7

LEMMA PeopleInvUpdateRead ==
  ASSUME PeopleInv, NEW m \in Managers, UpdateUserRead(m) PROVE PeopleInv'
<1> USE DEF PeopleInv
<1>1. PICK u \in Users, ch \in Change :
        /\ job[m] = None /\ Found(u)
        /\ job' = [job EXCEPT ![m] =
             [op |-> "update", user |-> u, row |-> users[u], change |-> ch]]
        /\ torn' = IF Changes(u) # {} THEN torn \cup {u} ELSE torn
        /\ UNCHANGED <<clock, users, fresh, asked, lastHeld, session, call>>
  BY DEF UpdateUserRead, Begin, Tear, Change
<1>2. Types' /\ UpdatesKept' /\ Held'
  BY <1>1 DEF Types, UpdatesKept, Held
<1>3. /\ \A n \in Managers \ {m} : job'[n] = job[n]
      /\ job'[m].op = "update" /\ job'[m].user = u /\ job'[m].row = users[u]
      /\ job'[m].change = ch
  BY <1>1 DEF Types
<1>4. Job(m)'
  BY <1>1, <1>3 DEF Job, Found, Types
<1>5. \A n \in Managers \ {m} : Job(n)'
  BY <1>1, <1>3, JobKept
<1>6. \A n \in Managers \ {m} :
        job[n] # None /\ job[n].user = u => u \in torn'
  BY <1>1 DEF Changes
<1>7. OneUpdate'
  BY <1>1, <1>3, <1>6 DEF OneUpdate
<1> QED
  BY <1>2, <1>4, <1>5, <1>7

LEMMA PeopleInvUpdateWrite ==
  ASSUME PeopleInv, NEW m \in Managers, UpdateUserWrite(m) PROVE PeopleInv'
<1> USE DEF PeopleInv
<1> DEFINE u == job[m].user
           new == Changed(job[m].row, job[m].change)
<1>1. /\ job[m] # None /\ job[m].op = "update" /\ Update(u, new)
      /\ asked' = IF asked[u] = None THEN asked
                  ELSE [asked EXCEPT ![u] = Changed(asked[u], job[m].change)]
      /\ job' = [job EXCEPT ![m] = None]
      /\ UNCHANGED <<clock, fresh, torn, session, call>>
  BY DEF UpdateUserWrite
<1>2. /\ u \in Users /\ job[m].row \in User /\ job[m].change \in Change
      /\ u \notin torn => job[m].row # None /\ users[u] = job[m].row
  BY <1>1 DEF Job
<1>3. new \in User /\ new.email = job[m].row.email
  BY <1>2, ChangedType
<1>4. job'[m] = None /\ \A n \in Managers \ {m} : job'[n] = job[n]
  BY <1>1 DEF Types
<1>5. asked' \in [Users -> User \cup {None}]
  BY <1>1, <1>2, ChangedType DEF Types
<1>6. Job(m)' /\ OneUpdate'
  BY <1>1, <1>4 DEF Job, OneUpdate
<1>7. ASSUME NEW n \in Managers \ {m}, job[n] # None, job[n].op = "update",
             job[n].user = u
      PROVE  u \in torn
  BY <1>1, <1>7 DEF OneUpdate
<1> HIDE DEF u, new
<1>8. CASE users[u] = None
  <2>1. UNCHANGED <<users, lastHeld>>
    BY <1>1, <1>8 DEF Update
  <2>2. Types' /\ Held'
    BY <1>1, <1>5, <2>1, NoWriteHeld DEF Types
  <2>3. \A n \in Managers \ {m} : Job(n)'
    BY <1>1, <1>4, <2>1, JobKept
  <2>4. u \in torn
    BY <1>2, <1>8
  <2>5. UpdatesKept'
    <3>1. users'[u] = None
      BY <1>8, <2>1
    <3>2. \A v \in Users \ {u} : users'[v] = users[v] /\ asked'[v] = asked[v]
      BY <1>1, <2>1 DEF Types
    <3> QED
      BY <1>1, <2>4, <3>1, <3>2 DEF UpdatesKept
  <2> QED
    BY <1>6, <2>2, <2>3, <2>5
<1>9. CASE users[u] # None
  <2> DEFINE row == [new EXCEPT !.email = users[u].email]
  <2>1. row \in User /\ Write(u, row)
    BY <1>1, <1>2, <1>3, <1>9 DEF Update, Types, User
  <2>2. u \notin torn => row = new
    BY <1>2, <1>3 DEF User
  <2>3. u \notin torn => asked[u] = job[m].row /\ asked[u] # None
    BY <1>2 DEF UpdatesKept
  <2> HIDE DEF row
  <2>4. /\ users' = [users EXCEPT ![u] = row]
        /\ users' \in [Users -> User \cup {None}]
        /\ lastHeld' \in [Users -> [Granted -> Int]]
        /\ Held'
    BY <1>1, <1>2, <2>1, WriteHeld
  <2>5. Types'
    BY <1>1, <1>5, <2>4 DEF Types
  <2>6. ASSUME NEW v \in Users
        PROVE  /\ v \notin torn => users'[v] = asked'[v]
               /\ asked'[v] = None => users'[v] = None
    <3>1. CASE v # u
      BY <1>1, <2>4, <3>1 DEF UpdatesKept, Types
    <3>2. CASE v = u /\ u \notin torn
      <4>1. asked'[u] = new
        BY <1>1, <1>2, <2>3, <3>2 DEF new, Types
      <4>2. users'[u] = new
        BY <1>2, <2>2, <2>4, <3>2 DEF Types
      <4> QED
        BY <3>2, <4>1, <4>2
    <3>3. CASE v = u /\ u \in torn
      <4>1. asked[u] # None
        BY <1>2, <1>9 DEF UpdatesKept
      <4>2. asked[u] \in User
        BY <1>2, <4>1 DEF Types
      <4>3. asked'[u] = Changed(asked[u], job[m].change)
        BY <1>1, <1>2, <4>1 DEF Types
      <4> QED
        BY <1>2, <3>3, <4>2, <4>3, ChangedType, AccessAssumption
    <3> QED
      BY <3>1, <3>2, <3>3
  <2>7. UpdatesKept'
    BY <1>1, <2>6 DEF UpdatesKept
  <2>8. ASSUME NEW n \in Managers \ {m} PROVE Job(n)'
    <3>1. CASE job[n] # None /\ job[n].op = "update" /\ job[n].user = u
      BY <1>1, <1>4, <1>7, <3>1, JobKept
    <3>2. CASE ~(job[n] # None /\ job[n].op = "update" /\ job[n].user = u)
      BY <1>1, <1>2, <1>4, <2>4, <3>2, JobKept DEF Job, Types
    <3> QED
      BY <3>1, <3>2
  <2> QED
    BY <1>6, <2>4, <2>5, <2>7, <2>8
<1> QED
  BY <1>8, <1>9

LEMMA PeopleInvDelete ==
  ASSUME PeopleInv, NEW m \in Managers, DeleteUser(m) PROVE PeopleInv'
<1> USE DEF PeopleInv
<1>1. PICK u \in Users :
        /\ job[m] = None /\ Write(u, None) /\ asked' = [asked EXCEPT ![u] = None]
        /\ torn' = IF Changes(u) # {} THEN torn \cup {u} ELSE torn
        /\ UNCHANGED <<clock, fresh, job, session, call>>
  BY DEF DeleteUser, Delete, Tear
<1>2. /\ users' = [users EXCEPT ![u] = None]
      /\ users' \in [Users -> User \cup {None}]
      /\ lastHeld' \in [Users -> [Granted -> Int]]
      /\ Held'
  BY <1>1, WriteHeld
<1>3. Types'
  BY <1>1, <1>2 DEF Types
<1>4. UpdatesKept' /\ OneUpdate'
  BY <1>1, <1>2 DEF UpdatesKept, OneUpdate, Types
<1>5. ASSUME NEW n \in Managers PROVE Job(n)'
  <2>1. CASE job[n] # None /\ job[n].user = u
    <3>1. u \in torn'
      BY <1>1, <2>1 DEF Changes
    <3> QED
      BY <1>1, <2>1, <3>1, JobKept
  <2>2. CASE ~(job[n] # None /\ job[n].user = u)
    BY <1>1, <1>2, <2>2, JobKept DEF Job, Types
  <2> QED
    BY <2>1, <2>2
<1> QED
  BY <1>2, <1>3, <1>4, <1>5

LEMMA PeopleInvCommand ==
  ASSUME PeopleInv, userCmd \/ setupCmd PROVE PeopleInv'
<1> USE DEF PeopleInv
<1>1. PICK r \in Granted, u \in fresh, e \in Emails :
        /\ Insert(u, [email |-> e, role |-> r, active |-> TRUE])
        /\ fresh' = fresh \ {u}
        /\ UNCHANGED <<clock, job, torn, session, call>>
  BY DEF userCmd, setupCmd, createUser
<1>2. u \in Users /\ [email |-> e, role |-> r, active |-> TRUE] \in User
  BY <1>1 DEF Types, User
<1>3. /\ users' \in [Users -> User \cup {None}]
      /\ asked' \in [Users -> User \cup {None}]
      /\ lastHeld' \in [Users -> [Granted -> Int]]
      /\ Held' /\ UpdatesKept'
      /\ \A v \in Users : users[v] # None => users'[v] = users[v]
  BY <1>1, <1>2, InsertKeeps
<1>4. Types' /\ OneUpdate'
  BY <1>1, <1>3 DEF Types, OneUpdate
<1>5. \A n \in Managers : Job(n)'
  BY <1>1, <1>3, JobKept DEF Job
<1> QED
  BY <1>3, <1>4, <1>5

(* Clients leave the table, its managers and the clock alone.              *)
LEMMA ClientLeaves ==
  ASSUME NEW c \in Clients, ClientStep(c)
  PROVE  UNCHANGED <<authEnabled, clock, people>>
  BY DEF ClientStep, Authenticate, AuthenticateFails, Generate, Enter, Refuse,
         Command, Handle, HandleMalformed, Send

LEMMA PeopleInvClient ==
  ASSUME PeopleInv, NEW c \in Clients, ClientStep(c) PROVE PeopleInv'
<1> USE DEF PeopleInv
<1>1. UNCHANGED <<authEnabled, clock, people>>
  BY ClientLeaves
<1>2. DOMAIN session' = DOMAIN session /\ DOMAIN call' = DOMAIN call
  BY DEF ClientStep, Authenticate, AuthenticateFails, Generate, Enter, Refuse,
         Command, Handle, HandleMalformed, Send, Admit, Answered
<1> QED
  BY <1>1, <1>2 DEF people, Types, Job, OneUpdate, UpdatesKept, Held

LEMMA PeopleInvStep == ASSUME PeopleInv, [Next]_vars PROVE PeopleInv'
<1>1. CASE TableStep
  BY <1>1, PeopleInvTick, PeopleInvCreateCheck, PeopleInvCreateInsert,
     PeopleInvUpdateRead, PeopleInvUpdateWrite, PeopleInvDelete,
     PeopleInvCommand DEF TableStep, ManagerStep
<1>2. CASE \E c \in Clients : ClientStep(c)
  BY <1>2, PeopleInvClient
<1>3. CASE UNCHANGED vars
  BY <1>3 DEF vars, people, PeopleInv, Types, Job, OneUpdate, UpdatesKept, Held
<1> QED
  BY <1>1, <1>2, <1>3, NextSteps

(* A user's row is what the changes that succeeded asked for, unless two of*)
(* them overlapped, and a deleted user stays deleted even then.            *)
THEOREM UpdatesAreKept == Spec => []UpdatesKept
<1>1. Init => PeopleInv
  <2> SUFFICES ASSUME Init PROVE PeopleInv
    OBVIOUS
  <2>1. Types
    BY DEF Init, Types
  <2> QED
    BY <2>1 DEF Init, PeopleInv, Job, OneUpdate, UpdatesKept, Held
<1>2. PeopleInv /\ [Next]_vars => PeopleInv'
  BY PeopleInvStep
<1>3. PeopleInv => UpdatesKept
  BY DEF PeopleInv
<1> QED
  BY <1>1, <1>2, <1>3, PTL DEF Spec

-----------------------------------------------------------------------------
(* Tokens.                                                                 *)

(* What is remembered of a role is never forgotten; a tick, which makes it *)
(* older, comes when no login is half done.                                *)
LEMMA HeldGrows ==
  ASSUME PeopleInv, [Next]_vars, NEW u \in Users, NEW r \in Granted
  PROVE  /\ lastHeld'[u][r] >= lastHeld[u][r]
         /\ clock' = clock \/ Tick
<1> USE DEF PeopleInv
<1>0. lastHeld[u][r] \in Int /\ lastHeld[u][r] <= clock /\ clock \in Nat
  BY DEF Types, Held
<1>1. CASE Tick
  <2>1. lastHeld'[u][r] = lastHeld[u][r] \/ lastHeld'[u][r] = clock + 1
    BY <1>1 DEF Tick
  <2> QED
    BY <1>0, <1>1, <2>1
<1>2. CASE userCmd \/ setupCmd
  <2>1. PICK g \in Granted, v \in fresh, e \in Emails :
          /\ Insert(v, [email |-> e, role |-> g, active |-> TRUE])
          /\ clock' = clock /\ torn' = torn
    BY <1>2 DEF userCmd, setupCmd, createUser
  <2>2. v \in Users /\ [email |-> e, role |-> g, active |-> TRUE] \in User
    BY <2>1 DEF Types, User
  <2> QED
    BY <2>1, <2>2, InsertKeeps
<1>3. ASSUME NEW m \in Managers, ManagerStep(m)
      PROVE  lastHeld'[u][r] >= lastHeld[u][r] /\ clock' = clock
  <2>1. CASE CreateUserCheck(m) \/ UpdateUserRead(m)
    <3>1. UNCHANGED <<lastHeld, clock>>
      BY <2>1 DEF CreateUserCheck, UpdateUserRead
    <3> QED
      BY <1>0, <3>1
  <2>2. CASE CreateUserInsert(m)
    <3>1. /\ job[m] # None /\ Insert(job[m].user, job[m].row)
          /\ clock' = clock /\ torn' = torn
      BY <2>2 DEF CreateUserInsert
    <3>2. job[m].user \in Users /\ job[m].row \in User
      BY <3>1 DEF Job
    <3> QED
      BY <3>1, <3>2, InsertKeeps
  <2>3. CASE UpdateUserWrite(m)
    <3> DEFINE v == job[m].user
               new == Changed(job[m].row, job[m].change)
    <3>1. job[m] # None /\ job[m].op = "update" /\ Update(v, new) /\ clock' = clock
      BY <2>3 DEF UpdateUserWrite
    <3>2. v \in Users /\ new \in User
      BY <3>1, ChangedType DEF Job
    <3> HIDE DEF v, new
    <3>3. CASE users[v] = None
      BY <1>0, <3>1, <3>3 DEF Update
    <3>4. CASE users[v] # None
      <4>1. [new EXCEPT !.email = users[v].email] \in User
        BY <3>2, <3>4 DEF Types, User
      <4>2. Write(v, [new EXCEPT !.email = users[v].email])
        BY <3>1, <3>4 DEF Update
      <4> QED
        BY <3>1, <3>2, <4>1, <4>2, WriteHeld
    <3> QED
      BY <3>3, <3>4
  <2>4. CASE DeleteUser(m)
    BY <2>4, WriteHeld DEF DeleteUser, Delete
  <2> QED
    BY <1>3, <2>1, <2>2, <2>3, <2>4 DEF ManagerStep
<1>4. CASE \E c \in Clients : ClientStep(c)
  BY <1>0, <1>4, ClientLeaves DEF people
<1>5. CASE UNCHANGED vars
  BY <1>0, <1>5 DEF vars, people
<1> QED
  BY <1>1, <1>2, <1>3, <1>4, <1>5, NextSteps DEF TableStep

LEMMA TableLeaves ==
  ASSUME TableStep
  PROVE  UNCHANGED <<authEnabled, session, call, audit>>
  BY DEF TableStep, ManagerStep, Tick, userCmd, setupCmd, createUser,
         CreateUserCheck, CreateUserInsert, UpdateUserRead, UpdateUserWrite,
         DeleteUser

LEMMA SessionKept ==
  ASSUME PeopleInv, \A c \in Clients : Session(c), [Next]_vars,
         NEW c \in Clients
  PROVE  Session(c)'
<1> USE DEF PeopleInv
<1>a. PeopleInv'
  BY PeopleInvStep
<1>b. /\ clock \in Nat /\ clock' \in Nat /\ TokenDuration \in Nat
      /\ lastHeld \in [Users -> [Granted -> Int]]
      /\ lastHeld' \in [Users -> [Granted -> Int]]
      /\ DOMAIN session = Clients
  BY <1>a, AccessAssumption DEF Types
<1>1. CASE session'[c] = session[c]
  <2>1. SUFFICES ASSUME session[c] # None
                 PROVE  Session(c)'
    BY <1>1 DEF Session
  <2>2. session[c].user \in Users /\ session[c].role \in Granted
    BY <2>1 DEF Session
  <2> DEFINE a == lastHeld[session[c].user][session[c].role]
             b == lastHeld'[session[c].user][session[c].role]
  <2>3. a \in Int /\ b \in Int /\ b >= a /\ b <= clock'
    BY <1>a, <1>b, <2>2, HeldGrows DEF Held
  <2>4. session[c].state = "checked" => clock' = clock
    BY <2>1, <2>2, HeldGrows DEF Tick
  <2>5. session[c].state = "checked" => b = clock'
    <3>1. SUFFICES ASSUME session[c].state = "checked" PROVE b = clock'
      OBVIOUS
    <3>2. a = clock /\ clock' = clock
      BY <2>1, <2>4, <3>1 DEF Session
    <3> HIDE DEF a, b
    <3> QED
      BY <1>b, <2>3, <3>2
  <2>6. session[c].state = "token" =>
          /\ session[c].exp \in Nat /\ session[c].exp >= TokenDuration
          /\ b >= session[c].exp - TokenDuration
    BY <1>b, <2>1, <2>3 DEF Session
  <2> QED
    BY <1>1, <2>2, <2>5, <2>6 DEF Session
<1>2. CASE Authenticate(c)
  <2>1. PICK u \in Users :
          /\ users[u] # None /\ users[u].active
          /\ session' = [session EXCEPT ![c] =
               [state |-> "checked", user |-> u, role |-> users[u].role, exp |-> 0]]
          /\ UNCHANGED <<clock, lastHeld>>
    BY <1>2 DEF Authenticate, Admissible, people
  <2>2. users[u].role \in Granted /\ lastHeld[u][users[u].role] = clock
    BY <2>1 DEF Types, User, Held
  <2>3. /\ session'[c].state = "checked" /\ session'[c].user = u
        /\ session'[c].role = users[u].role
    BY <1>b, <2>1
  <2> QED
    BY <2>1, <2>2, <2>3 DEF Session
<1>3. CASE Generate(c)
  <2>1. /\ session[c] # None /\ session[c].state = "checked"
        /\ session' = [session EXCEPT ![c].state = "token",
                                      ![c].exp = clock + TokenDuration]
        /\ UNCHANGED <<clock, lastHeld>>
    BY <1>3 DEF Generate, people
  <2>2. /\ session[c].user \in Users /\ session[c].role \in Granted
        /\ lastHeld[session[c].user][session[c].role] = clock
    BY <2>1 DEF Session
  <2>3. session'[c] = [[session[c] EXCEPT !.state = "token"]
                         EXCEPT !.exp = clock + TokenDuration]
    BY <1>b, <2>1
  <2>4. /\ session'[c].user = session[c].user /\ session'[c].role = session[c].role
        /\ session'[c].state = "token" /\ session'[c].exp = clock + TokenDuration
    BY <1>b, <2>1, <2>3
  <2> QED
    BY <1>b, <2>1, <2>2, <2>4 DEF Session
<1>4. session'[c] # session[c] => Authenticate(c) \/ Generate(c)
  <2>1. ASSUME NEW d \in Clients, ClientStep(d), session'[c] # session[c]
        PROVE  Authenticate(c) \/ Generate(c)
    <3>1. Authenticate(d) \/ Generate(d)
      BY <2>1 DEF ClientStep, AuthenticateFails, Enter, Refuse, Command, Handle,
                  HandleMalformed, Send
    <3>2. c = d
      BY <1>b, <2>1, <3>1 DEF Authenticate, Generate
    <3> QED
      BY <3>1, <3>2
  <2> QED
    BY <2>1, TableLeaves, NextSteps DEF vars
<1> QED
  BY <1>1, <1>2, <1>3, <1>4

(* The routes and the methods ask for the roles the domain asks for.       *)
LEMMA RolesSuffice ==
  ASSUME NEW via \in {"http", "grpc"}, NEW op \in Offered(via), NEW role,
         MinRole(via, op) # None => RequireRole(MinRole(via, op), role)
  PROVE  Permitted(op, role)
<1>n. \A x \in {"admin", "operator", "viewer"} : x # None
  BY NoneAssumption DEF Roles
<1>1. CASE via = "http"
  <2>1. op \in DOMAIN Routes /\ MinRole(via, op) = Routes[op]
    BY <1>1 DEF Offered, MinRole
  <2>2. CASE op \in {"account.create", "audit.read"}
    <3>1. Routes[op] = "admin"
      BY <2>1, <2>2 DEF Routes, Mutations
    <3>2. role = "admin"
      BY <1>n, <2>1, <3>1 DEF RequireRole
    <3> QED
      BY <2>2, <3>2 DEF Permitted, CanManageAccounts, Mutations
  <2>3. CASE op \in Mutations \ {"account.create"}
    <3>1. Routes[op] = "operator"
      BY <2>1, <2>3 DEF Routes, Mutations
    <3>2. role \in {"admin", "operator"}
      BY <1>n, <2>1, <3>1 DEF RequireRole
    <3> QED
      BY <2>3, <3>2 DEF Permitted, CanCreate, Mutations
  <2>4. CASE op \notin Mutations \cup {"audit.read"}
    BY <2>4 DEF Permitted, Mutations
  <2> QED
    BY <2>2, <2>3, <2>4 DEF Mutations
<1>2. CASE via = "grpc"
  <2>1. op \in Methods /\ MinRole(via, op) = MethodRole(op)
    BY <1>2 DEF Offered, MinRole
  <2>2. CASE op \in Mutations
    <3>1. MethodRole(op) = IF op = "account.create" THEN "admin" ELSE "operator"
      BY <2>2 DEF MethodRole, grpcMethodRoles
    <3>2. IF op = "account.create" THEN role = "admin"
                                   ELSE role \in {"admin", "operator"}
      BY <1>n, <2>1, <3>1 DEF RequireRole
    <3> QED
      BY <2>2, <3>2 DEF Permitted, CanCreate, CanManageAccounts, Mutations
  <2>3. CASE op \notin Mutations
    BY <2>1, <2>3 DEF Permitted, Mutations, Methods, AccountOps, TransferOps, HoldOps
  <2> QED
    BY <2>2, <2>3
<1> QED
  BY <1>1, <1>2

SessionInv == PeopleInv /\ \A c \in Clients : Session(c)

LEMMA SessionInvAlways == Spec => []SessionInv
<1>1. Init => SessionInv
  <2> SUFFICES ASSUME Init PROVE SessionInv
    OBVIOUS
  <2>1. Types
    BY DEF Init, Types
  <2> QED
    BY <2>1 DEF Init, SessionInv, PeopleInv, Job, OneUpdate, UpdatesKept, Held,
                Session
<1>2. SessionInv /\ [Next]_vars => SessionInv'
  BY PeopleInvStep, SessionKept DEF SessionInv
<1> QED
  BY <1>1, <1>2, PTL DEF Spec

(* A request is admitted only in a role its user held within a token's life*)
(* before, and that lets it do what it asks, over either transport.        *)
THEOREM PowersAreHeld == Spec => PowersWereHeld
<1>1. ASSUME SessionInv, Next, NEW c \in Clients,
             call[c].pc = "none", call'[c].pc = "admitted",
             call'[c].via # "cli", authEnabled
      PROVE  \E r \in Granted : /\ Permitted(call'[c].op, r)
                                /\ lastHeld[call'[c].user][r] > clock - TokenDuration
                                /\ lastHeld[call'[c].user][r] >= 0
  <2> USE DEF SessionInv, PeopleInv
  <2>1. DOMAIN call = Clients
    BY <1>1 DEF Types
  <2>2. Enter(c)
    <3>1. ASSUME NEW d \in Clients, ClientStep(d) PROVE Enter(c)
      <4>1. call' = call \/ \E k : call' = [call EXCEPT ![d] = k]
        BY <3>1 DEF ClientStep, Authenticate, AuthenticateFails, Generate, Enter,
             Refuse, Command, Handle, HandleMalformed, Admit, Answered
      <4>2. d = c
        BY <1>1, <2>1, <4>1
      <4>3. ~(Authenticate(c) \/ AuthenticateFails(c) \/ Generate(c))
        BY <1>1 DEF Authenticate, AuthenticateFails, Generate
      <4>4. ~(Refuse(c) \/ Handle(c) \/ HandleMalformed(c))
        BY <1>1, <2>1 DEF Refuse, Handle, HandleMalformed, Answered
      <4>5. ~Command(c)
        BY <1>1, <2>1 DEF Command, Admit, NoCall
      <4> QED
        BY <3>1, <4>2, <4>3, <4>4, <4>5 DEF ClientStep
    <3> QED
      BY <1>1, <3>1, TableLeaves, NextSteps
  <2>3. PICK via \in {"http", "grpc"}, op \in Offered("http") \cup Offered("grpc") :
          /\ op \in Offered(via) /\ MayEnter(c, via, op)
          /\ Admit(c, via, op, session[c].user)
    BY <1>1, <2>2 DEF Enter, Send
  <2>4. call'[c].op = op /\ call'[c].user = session[c].user
    BY <2>1, <2>3 DEF Admit, NoCall
  <2>5. /\ session[c] # None /\ session[c].state = "token" /\ clock < session[c].exp
        /\ MinRole(via, op) # None => RequireRole(MinRole(via, op), session[c].role)
    BY <2>3 DEF MayEnter, Verify
  <2>6. Permitted(op, session[c].role)
    BY <2>3, <2>5, RolesSuffice
  <2>7. /\ session[c].user \in Users /\ session[c].role \in Granted
        /\ session[c].exp \in Nat /\ session[c].exp >= TokenDuration
        /\ lastHeld[session[c].user][session[c].role] >= session[c].exp - TokenDuration
    BY <1>1, <2>5 DEF Session
  <2>8. /\ clock \in Nat /\ TokenDuration \in Nat
        /\ lastHeld[session[c].user][session[c].role] \in Int
    BY <1>1, <2>7, AccessAssumption DEF Types
  <2>9. /\ lastHeld[session[c].user][session[c].role] > clock - TokenDuration
        /\ lastHeld[session[c].user][session[c].role] >= 0
    BY <2>5, <2>7, <2>8
  <2> QED
    BY <2>4, <2>6, <2>7, <2>9
<1>2. SessionInv /\ [Next]_vars =>
        [\A c \in Clients :
           (call[c].pc = "none" /\ call'[c].pc = "admitted"
              /\ call'[c].via # "cli" /\ authEnabled) =>
             \E r \in Granted :
               /\ Permitted(call'[c].op, r)
               /\ lastHeld[call'[c].user][r] > clock - TokenDuration
               /\ lastHeld[call'[c].user][r] >= 0]_vars
  BY <1>1
<1> QED
  BY <1>2, SessionInvAlways, PTL DEF Spec, PowersWereHeld

-----------------------------------------------------------------------------
(* Answers and the rows they leave.                                        *)

(* An error is never answered with a success.                              *)
LEMMA ErrorsAreTold ==
  ASSUME NEW via \in {"http", "grpc", "cli"}, NEW op \in Offered(via), NEW err,
         err # None, op # "auth.me"
  PROVE  Answer(via, op, err) # "ok"
<1>1. CASE via = "http"
  <2>1. op \in AccountOps \cup TransferOps \cup HoldOps
                \cup {"entry.list", "ledger.consistency", "audit.read"}
    BY <1>1 DEF Offered, Routes
  <2>2. mapDomainError(err) # "ok"
    BY DEF mapDomainError
  <2>3. AccountHandler(op, err) # "ok" /\ TransferHandler(op, err) # "ok"
    BY <2>2 DEF AccountHandler, TransferHandler
  <2>4. HoldHandler(err) # "ok" /\ EntryHandler(err) # "ok"
        /\ LedgerHandler(err) # "ok" /\ AuditHandler(err) # "ok"
    BY <2>2 DEF HoldHandler, EntryHandler, LedgerHandler, AuditHandler
  <2>5. HttpAnswer(op, err) # "ok"
    BY <2>1, <2>3, <2>4 DEF HttpAnswer
  <2> QED
    BY <1>1, <2>5 DEF Answer
<1>2. CASE via = "grpc"
  <2>1. op \in AccountOps \cup TransferOps \cup HoldOps
    BY <1>2 DEF Offered, Methods
  <2>2. MapDomainError(err) # "ok"
    BY DEF MapDomainError
  <2>3. GrpcAnswer(op, err) # "ok"
    BY <2>1, <2>2 DEF GrpcAnswer, AccountServer, TransferServer, HoldServer
  <2> QED
    BY <1>2, <2>3 DEF Answer
<1>3. CASE via = "cli"
  BY <1>3 DEF Answer, CommandAnswer
<1> QED
  BY <1>1, <1>2, <1>3

(* What is in doubt is never blamed on the request.                        *)
LEMMA DoubtIsTold ==
  ASSUME NEW via \in {"http", "grpc", "cli"}, NEW op \in Mutations,
         NEW err \in ServerErrors \cup {None}
  PROVE  Answer(via, op, err) \notin FinalAnswers
<1>1. CASE err = None
  <2>1. Answer(via, op, err) = "ok"
    <3>1. HttpAnswer(op, err) = "ok"
      BY <1>1 DEF HttpAnswer
    <3>2. GrpcAnswer(op, err) = "ok"
      BY <1>1 DEF GrpcAnswer
    <3>3. CommandAnswer(err) = "ok"
      BY <1>1 DEF CommandAnswer
    <3> QED
      BY <3>1, <3>2, <3>3 DEF Answer
  <2> QED
    BY <2>1 DEF FinalAnswers
<1>2. CASE err # None
  <2>1. err \in {"deadline", "canceled", "database"}
    BY <1>2 DEF ServerErrors, ContextErrors
  <2>2. CASE via = "http"
    <3>1. mapDomainError(err) = "500"
      BY <2>1 DEF mapDomainError, LimitErrors
    <3>2. \/ op \in AccountOps /\ op # "account.get"
          \/ op \in TransferOps /\ op \notin AccountOps /\ op # "transfer.list"
          \/ op \in HoldOps /\ op \notin AccountOps \cup TransferOps
      BY DEF Mutations, AccountOps, TransferOps, HoldOps
    <3>3. HttpAnswer(op, err) = "500"
      <4>1. CASE op \in AccountOps /\ op # "account.get"
        BY <1>2, <2>1, <4>1 DEF HttpAnswer, AccountHandler, AccountOps,
             TransferOps, HoldOps
      <4>2. CASE op \in TransferOps /\ op \notin AccountOps /\ op # "transfer.list"
        BY <1>2, <2>1, <3>1, <4>2 DEF HttpAnswer, TransferHandler,
             TransferOps, HoldOps
      <4>3. CASE op \in HoldOps /\ op \notin AccountOps \cup TransferOps
        BY <1>2, <2>1, <3>1, <4>3 DEF HttpAnswer, HoldHandler, HoldOps
      <4> QED
        BY <3>2, <4>1, <4>2, <4>3
    <3> QED
      BY <2>2, <3>3 DEF Answer, FinalAnswers
  <2>3. CASE via = "grpc"
    <3>1. MapDomainError(err) \in {"DeadlineExceeded", "Canceled", "Internal"}
      BY <2>1 DEF MapDomainError, LimitErrors
    <3>2. op \in AccountOps \cup TransferOps \cup HoldOps
      BY DEF Mutations, AccountOps, TransferOps, HoldOps
    <3>3. GrpcAnswer(op, err) = MapDomainError(err)
      BY <1>2, <2>1, <3>2 DEF GrpcAnswer, AccountServer, TransferServer, HoldServer
    <3> QED
      BY <2>3, <3>1, <3>3 DEF Answer, FinalAnswers
  <2>4. CASE via = "cli"
    BY <1>2, <2>4 DEF Answer, CommandAnswer, FinalAnswers
  <2> QED
    BY <2>2, <2>3, <2>4
<1> QED
  BY <1>1, <1>2

(* What a use case comes back with: a change made by a mutation only, and  *)
(* in doubt only after an error of the server.                             *)
LEMMA ResultFacts ==
  ASSUME NEW op \in Methods \cup DOMAIN Routes, NEW res \in Results(op)
  PROVE  /\ res.done => op \in Mutations /\ res.err \in ServerErrors \cup {None}
         /\ op \in Mutations /\ res.err = None => res.done
<1>1. CASE res = [done |-> op \in Mutations, err |-> None]
  BY <1>1
<1>2. CASE \E e \in Refusals(op) \cup ServerErrors : res = [done |-> FALSE, err |-> e]
  BY <1>2, NoneAssumption
<1>3. CASE op \in Mutations /\ \E e \in ServerErrors : res = [done |-> TRUE, err |-> e]
  BY <1>3
<1> QED
  BY <1>1, <1>2, <1>3 DEF Results

(* A request that has been answered, as it is.                             *)
Believable(k) ==
  k.pc = "answered" =>
    /\ k.answer \in FinalAnswers => ~k.done
    /\ k.answer = "ok" /\ k.op \in Mutations => k.done

Named(c) ==
  (call[c].done /\ call[c].via = "http" /\ authEnabled
     /\ call[c].op \notin AfterCommit) =>
    \E row \in audit : /\ row.client = c /\ row.action = AuditAction(call[c].op)
                       /\ row.status = "success" /\ row.actor = call[c].user

LEMMA NamedParts ==
  /\ AnswersBelievable <=> \A c \in Clients : Believable(call[c])
  /\ Rows => (HttpChangesNamed <=> \A c \in Clients : Named(c))
  BY DEF AnswersBelievable, Believable, HttpChangesNamed, Named, Rows

(* The request of a client is its own: only its steps change it.           *)
LEMMA OwnRequest ==
  ASSUME PeopleInv, NEW d \in Clients, ClientStep(d)
  PROVE  /\ \A c \in Clients \ {d} : call'[c] = call[c]
         /\ authEnabled' = authEnabled
         /\ audit \subseteq audit'
  BY DEF PeopleInv, Types, ClientStep, Authenticate, AuthenticateFails, Generate,
         Enter, Refuse, Command, Handle, HandleMalformed, Admit, Answered, Send,
         AuditBestEffort, Attribute

(* The rows a login leaves.                                                *)
LEMMA LoginRows ==
  ASSUME PeopleInv, Rows, NEW d \in Clients,
         Authenticate(d) \/ AuthenticateFails(d) \/ Generate(d)
  PROVE  Rows' /\ call' = call
<1>1. call' = call
  BY DEF Authenticate, AuthenticateFails, Generate
<1>2. \A row \in audit' : row \in audit \/ row.action = "user.login"
  BY DEF Authenticate, AuthenticateFails, Generate, AuditBestEffort, AuditRow
<1> QED
  BY <1>1, <1>2 DEF Rows

(* A step that leaves the audit log alone and answers no request twice.    *)
LEMMA QuietRows ==
  ASSUME PeopleInv, Rows, NEW d \in Clients, audit' = audit,
         call[d].pc # "answered",
         \A c \in Clients \ {d} : call'[c] = call[c]
  PROVE  Rows'
  BY DEF Rows

(* What an operation leaves: the row of its success when it changed        *)
(* something, and rows of its own client and actor only.                   *)
LEMMA AttributeRows ==
  ASSUME NEW c \in Clients, NEW op, NEW res, Attribute(c, op, res)
  PROVE  /\ audit \subseteq audit'
         /\ res.done /\ op \notin AfterCommit =>
              AuditRow(AuditAction(op), auditActor(c), "success", c) \in audit'
         /\ \A row \in audit' : row \in audit
                                 \/ (row.client = c /\ row.actor = auditActor(c))
<1> DEFINE success == AuditRow(AuditAction(op), auditActor(c), "success", c)
           failure == AuditRow(AuditAction(op), auditActor(c), "failure", c)
           made == IF res.done /\ op \notin AfterCommit
                   THEN audit \cup {success} ELSE audit
<1>1. /\ audit \subseteq audit' /\ audit' \subseteq audit \cup {success, failure}
      /\ res.done /\ op \notin AfterCommit => success \in audit'
  <2>1. \/ audit' = made
        \/ op \in AfterCommit /\ audit' = audit \cup {success}
        \/ audit' = made \cup {failure}
    BY DEF Attribute
  <2> QED
    BY <2>1
<1>2. /\ success.client = c /\ success.actor = auditActor(c)
      /\ failure.client = c /\ failure.actor = auditActor(c)
  BY DEF AuditRow
<1>3. ASSUME NEW row \in audit'
      PROVE  row \in audit \/ (row.client = c /\ row.actor = auditActor(c))
  <2>1. CASE row \in audit
    BY <2>1
  <2>2. CASE row = success
    BY <1>2, <2>2
  <2>3. CASE row = failure
    BY <1>2, <2>3
  <2> QED
    BY <1>1, <2>1, <2>2, <2>3
<1> QED
  BY <1>1, <1>3

LEMMA RequestStep ==
  ASSUME AccessInv, NEW d \in Clients, ClientStep(d)
  PROVE  /\ Request(d)' /\ Believable(call[d])' /\ Named(d)' /\ Rows'
<1> USE DEF AccessInv, PeopleInv
<1>a. /\ DOMAIN call = Clients /\ authEnabled' = authEnabled
      /\ \A c \in Clients \ {d} : call'[c] = call[c]
  BY OwnRequest DEF Types
<1>b. Believable(call[d]) /\ Named(d) /\ Request(d) /\ Rows
  BY NamedParts
<1>1. CASE Authenticate(d) \/ AuthenticateFails(d) \/ Generate(d)
  <2>1. call' = call /\ Rows'
    BY <1>1, LoginRows
  <2>2. audit \subseteq audit'
    BY OwnRequest
  <2> QED
    BY <1>a, <1>b, <2>1, <2>2 DEF Request, Believable, Named
<1>2. CASE Enter(d)
  <2>1. PICK via \in {"http", "grpc"}, op \in Offered("http") \cup Offered("grpc") :
          /\ Send(d, via, op)
          /\ IF authEnabled THEN MayEnter(d, via, op) ELSE Calm
          /\ Admit(d, via, op, IF authEnabled THEN session[d].user ELSE None)
    BY <1>2 DEF Enter
  <2>2. call'[d] = [NoCall EXCEPT !.pc = "admitted", !.via = via, !.op = op,
                       !.user = IF authEnabled THEN session[d].user ELSE None]
    BY <1>a, <2>1 DEF Admit
  <2>3. /\ call'[d].pc = "admitted" /\ call'[d].via = via /\ call'[d].op = op
        /\ call'[d].user = (IF authEnabled THEN session[d].user ELSE None)
        /\ call'[d].done = FALSE
    BY <2>2 DEF NoCall
  <2>4. authEnabled => session[d].user # None
    BY <2>1, AccessAssumption DEF MayEnter, Verify, Session
  <2>5. op \in Offered(via) /\ call[d].pc = "none" /\ audit' = audit
    BY <2>1 DEF Send
  <2>6. Rows'
    BY <1>a, <1>b, <2>5, QuietRows
  <2>7. Request(d)'
    BY <1>a, <2>3, <2>4, <2>5 DEF Request, Offered
  <2> QED
    BY <2>3, <2>6, <2>7 DEF Believable, Named
<1>3. CASE Refuse(d)
  <2>1. PICK via \in {"http", "grpc"}, op \in Offered("http") \cup Offered("grpc") :
          /\ Send(d, via, op)
          /\ Answered(d, via, op, None, FALSE,
               CASE via = "http" -> IF Verify(d) THEN "403" ELSE "401"
                 [] via = "grpc" -> IF Verify(d) THEN "PermissionDenied"
                                    ELSE "Unauthenticated")
    BY <1>3 DEF Refuse
  <2>2. /\ call'[d].pc = "answered" /\ call'[d].done = FALSE
        /\ call'[d].answer \in {"403", "401", "PermissionDenied", "Unauthenticated"}
    BY <1>a, <2>1 DEF Answered
  <2>3. call[d].pc = "none" /\ audit' = audit
    BY <2>1 DEF Send
  <2>4. Rows'
    BY <1>a, <1>b, <2>3, QuietRows
  <2> QED
    BY <2>2, <2>4 DEF Request, Believable, Named
<1>4. CASE Command(d)
  <2>1. PICK op \in Commands : Send(d, "cli", op) /\ Admit(d, "cli", op, None)
    BY <1>4 DEF Command
  <2>2. /\ call'[d].pc = "admitted" /\ call'[d].via = "cli" /\ call'[d].op = op
        /\ call'[d].done = FALSE
    BY <1>a, <2>1 DEF Admit, NoCall
  <2>3. op \in Offered("cli") /\ call[d].pc = "none" /\ audit' = audit
    BY <2>1 DEF Send
  <2>4. Rows'
    BY <1>a, <1>b, <2>3, QuietRows
  <2> QED
    BY <2>2, <2>3, <2>4 DEF Request, Believable, Named, Offered
<1>5. CASE Handle(d)
  <2> DEFINE k == call[d]
  <2>1. PICK res \in Results(k.op) :
          /\ Attribute(d, k.op, res)
          /\ Answered(d, k.via, k.op, k.user, res.done,
               IF k.op = "auth.me" THEN GetCurrentUser(d)
               ELSE Answer(k.via, k.op, res.err))
    BY <1>5 DEF Handle
  <2>2. /\ k.pc = "admitted" /\ k.via \in {"http", "grpc", "cli"}
        /\ k.op \in Offered(k.via)
        /\ k.via = "http" /\ authEnabled => k.user # None
    BY <1>5, <1>b DEF Handle, Request
  <2>3. /\ call'[d].pc = "answered" /\ call'[d].via = k.via /\ call'[d].op = k.op
        /\ call'[d].user = k.user /\ call'[d].done = res.done
        /\ call'[d].answer = IF k.op = "auth.me" THEN GetCurrentUser(d)
                             ELSE Answer(k.via, k.op, res.err)
    BY <1>a, <2>1 DEF Answered
  <2>4. k.op \in Methods \cup DOMAIN Routes
    BY <2>2 DEF Offered, Methods, Commands, AccountCmds, TransferCmds, HoldCmds,
                AccountOps, TransferOps, HoldOps
  <2>5. /\ res.done => k.op \in Mutations /\ res.err \in ServerErrors \cup {None}
        /\ k.op \in Mutations /\ res.err = None => res.done
    BY <2>1, <2>4, ResultFacts
  <2>6. /\ audit \subseteq audit'
        /\ res.done /\ k.op \notin AfterCommit =>
             AuditRow(AuditAction(k.op), auditActor(d), "success", d) \in audit'
        /\ \A row \in audit' : row \in audit
                                \/ (row.client = d /\ row.actor = auditActor(d))
    BY <2>1, AttributeRows
  <2>7. auditActor(d) = IF k.via = "http" /\ k.user # None THEN k.user ELSE "system"
    BY NoneAssumption DEF auditActor, UserFromContext
  <2>8. Request(d)'
    BY <1>a, <2>2, <2>3 DEF Request
  <2>9. Believable(call[d])'
    <3>1. CASE k.op = "auth.me"
      <4>1. ~res.done /\ k.op \notin Mutations
        BY <2>5, <3>1 DEF Mutations
      <4> QED
        BY <2>3, <4>1 DEF Believable
    <3>2. CASE k.op # "auth.me"
      <4>1. res.done => Answer(k.via, k.op, res.err) \notin FinalAnswers
        BY <2>2, <2>5, DoubtIsTold
      <4>2. Answer(k.via, k.op, res.err) = "ok" => res.err = None
        BY <2>2, <3>2, ErrorsAreTold
      <4> QED
        BY <2>3, <2>5, <3>2, <4>1, <4>2 DEF Believable
    <3> QED
      BY <3>1, <3>2
  <2>10. Named(d)'
    BY <1>a, <2>2, <2>3, <2>6, <2>7 DEF Named, AuditRow
  <2>11. Rows'
    <3>1. SUFFICES ASSUME NEW row \in audit', row.action # "user.login",
                          row.actor # "system"
                   PROVE  /\ row.client \in Clients
                          /\ call'[row.client].pc = "answered"
                          /\ row.actor = call'[row.client].user
      BY DEF Rows
    <3>2. CASE row \in audit
      BY <1>a, <1>b, <2>2, <3>1, <3>2 DEF Rows
    <3>3. CASE row.client = d /\ row.actor = auditActor(d)
      BY <2>3, <2>7, <3>1, <3>3
    <3> QED
      BY <2>6, <3>2, <3>3
  <2> QED
    BY <2>8, <2>9, <2>10, <2>11
<1>6. CASE HandleMalformed(d)
  <2> DEFINE k == call[d]
  <2>1. /\ k.pc = "admitted" /\ k.op \in Parsed(k.via) /\ audit' = audit
        /\ Answered(d, k.via, k.op, k.user, FALSE,
                    Answer(k.via, k.op, "malformed"))
    BY <1>6 DEF HandleMalformed
  <2>2. /\ call'[d].pc = "answered" /\ call'[d].done = FALSE
        /\ call'[d].answer = Answer(k.via, k.op, "malformed")
    BY <1>a, <2>1 DEF Answered
  <2>3. k.via \in {"http", "grpc", "cli"} /\ k.op \in Offered(k.via)
    BY <1>b, <2>1 DEF Request
  <2>4. k.op # "auth.me"
    BY <2>1, <2>3 DEF Parsed, Mutations
  <2>5. Answer(k.via, k.op, "malformed") # "ok"
    BY <2>3, <2>4, ErrorsAreTold, NoneAssumption
  <2>6. Rows'
    BY <1>a, <1>b, <2>1, QuietRows
  <2> QED
    BY <2>2, <2>5, <2>6 DEF Request, Believable, Named
<1> QED
  BY <1>1, <1>2, <1>3, <1>4, <1>5, <1>6 DEF ClientStep

LEMMA AccessInvInit == ASSUME Init PROVE AccessInv
<1>1. Types
  BY DEF Init, Types
<1>2. PeopleInv
  BY <1>1 DEF Init, PeopleInv, Job, OneUpdate, UpdatesKept, Held
<1>3. \A c \in Clients : call[c] = NoCall /\ session[c] = None
  BY DEF Init
<1>4. \A c \in Clients : Session(c) /\ Request(c)
  BY <1>3 DEF Session, Request, NoCall
<1>5. AnswersBelievable
  BY <1>3 DEF AnswersBelievable, NoCall
<1>6. HttpChangesNamed /\ Rows
  BY <1>3 DEF Init, HttpChangesNamed, Rows, NoCall
<1> QED
  BY <1>2, <1>4, <1>5, <1>6 DEF AccessInv

LEMMA AccessInvStep == ASSUME AccessInv, [Next]_vars PROVE AccessInv'
<1>1. PeopleInv' /\ \A c \in Clients : Session(c)'
  BY PeopleInvStep, SessionKept DEF AccessInv
<1>2. SUFFICES /\ \A c \in Clients : /\ Request(c)' /\ Believable(call[c])'
                                     /\ Named(c)'
               /\ Rows'
  <2>1. AnswersBelievable' <=> \A c \in Clients : Believable(call[c])'
    BY DEF AnswersBelievable, Believable
  <2>2. Rows' => (HttpChangesNamed' <=> \A c \in Clients : Named(c)')
    BY DEF HttpChangesNamed, Named, Rows
  <2> QED
    BY <1>1, <2>1, <2>2 DEF AccessInv
<1>3. /\ \A c \in Clients : Request(c) /\ Believable(call[c]) /\ Named(c)
      /\ Rows /\ PeopleInv
  BY NamedParts DEF AccessInv
<1>4. CASE UNCHANGED <<authEnabled, call, audit>>
  BY <1>3, <1>4 DEF Request, Believable, Named, Rows
<1>5. ASSUME NEW d \in Clients, ClientStep(d)
      PROVE  /\ \A c \in Clients : /\ Request(c)' /\ Believable(call[c])'
                                   /\ Named(c)'
             /\ Rows'
  <2>1. Request(d)' /\ Believable(call[d])' /\ Named(d)' /\ Rows'
    BY <1>5, RequestStep
  <2>2. ASSUME NEW c \in Clients \ {d}
        PROVE  Request(c)' /\ Believable(call[c])' /\ Named(c)'
    <3>1. call'[c] = call[c] /\ authEnabled' = authEnabled /\ audit \subseteq audit'
      BY <1>3, <1>5, <2>2, OwnRequest
    <3> QED
      BY <1>3, <3>1 DEF Request, Believable, Named
  <2> QED
    BY <2>1, <2>2
<1> QED
  BY <1>4, <1>5, NextSteps, TableLeaves DEF vars

LEMMA AccessInvAlways == Spec => []AccessInv
<1>1. Init => AccessInv
  BY AccessInvInit
<1>2. AccessInv /\ [Next]_vars => AccessInv'
  BY AccessInvStep
<1> QED
  BY <1>1, <1>2, PTL DEF Spec

(* An answer that blames the request is given only to requests that changed*)
(* nothing, and a success only to those whose change was made, whichever   *)
(* the transport and whatever became of COMMIT.                            *)
THEOREM AnswersAreTrue == Spec => []AnswersBelievable
<1>1. AccessInv => AnswersBelievable
  BY DEF AccessInv
<1> QED
  BY <1>1, AccessInvAlways, PTL

(* A change made over HTTP has an audit row that names its user, and no row*)
(* names a user whose request did not come that way.                       *)
THEOREM ChangesAreNamed == Spec => []HttpChangesNamed
<1>1. AccessInv => HttpChangesNamed
  BY DEF AccessInv
<1> QED
  BY <1>1, AccessInvAlways, PTL
=============================================================================
