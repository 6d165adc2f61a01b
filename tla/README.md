# GoLedger in TLA+

This directory is a specification of GoLedger: TLA+ modules translated from the
Go code and the SQL under `src/`, TLC configurations that check them on small
instances, and proofs that TLAPS checks. `PROJECT.json` ties every definition to
the lines it stands for, every property to the run that checks it, to a change of
the code that breaks it (its mutant) and to the hazard it is there for.

## 1. The system

GoLedger is a double-entry ledger. A server process answers HTTP and gRPC
requests; each request is a goroutine that runs a use case against PostgreSQL, in
one READ COMMITTED transaction when it changes anything. Two goroutines work in
the background: the event publisher and the reconciliation scheduler. Redis keeps
idempotency keys. Several server processes may share the database and Redis. A
command line tool runs the same use cases without a server.

| component | state | operations | interacts through | module |
|---|---|---|---|---|
| Transfers (`usecase/transfer_usecase.go`) | `transfers`, `entries`, `accounts.balance`, `accounts.version` | create, batch, reverse | row locks on accounts, outbox rows, audit rows, the retrier | `Ledger` |
| Holds (`usecase/hold_usecase.go`) | `holds`, `accounts.encumbered_balance`, `accounts.version` | hold, void, capture | row locks on holds and accounts, outbox and audit rows | `Ledger` |
| Accounts (`usecase/account_usecase.go`) | `accounts` | create | audit rows | `Ledger` |
| PostgreSQL access (`repository/postgres`) | locks, open transactions | begin, lock, update, commit, roll back, retry | everything above | `Ledger` |
| Entry and ledger reads (`entry_usecase.go`, `ledger_usecase.go`) | a cursor | balance at a time, pages, sums, totals | reads while requests commit | `LedgerHistory`, `Reconciliation` |
| Event publisher (`infrastructure/eventpublisher`) | `outbox_events`: published, attempts, dead_lettered_at | poll, publish, mark, count, give up | the outbox rows, an external sink | `EventPublisher` |
| Idempotency (`middleware/idempotency.go` twice, `repository/redis`) | a Redis key per request key | check and set, update | sits in front of the use cases | `Idempotency` |
| Audit log (`audit_repo.go`, migrations 000010, 000012) | `audit_logs`, `audit_log_chain_state` | insert (hash chain), verify, scrub, drop a month | one locked row all inserts share | `AuditChain` |
| Reconciliation (`reconciliation_usecase.go`, scheduler) | none | compare balances, entries, entry chains | reads while requests commit | `Reconciliation` |
| Users and authentication (`user_usecase.go`, `auth/jwt.go`) | `users`; tokens in the hands of clients | create, update, delete, authenticate | plain reads and writes | `Access` |
| Roles, routes, answers (`router.go`, handlers, gRPC services, both `middleware/auth.go`) | none | admit, call the use case, turn its error into an answer | contexts | `Transports`, `Access` |
| Command line (`cmd/cli/main.go`) | none | the same use cases | the database | `Transports`, `Access` |
| Server start and shutdown (`cmd/server/main.go`) | the pool, the Redis client, two servers, two workers | start and stop them in order | contexts, `os.Exit` | `Server` |

What is hard about it, and what makes each part correct:

* *Transfers and holds* compute new balances in Go from a row they read, and write
  absolute values back. That is only right if the row is locked before it is read
  and all that happens to it since is in the transaction's own copy. Correct means:
  the columns agree with the transfers and holds they summarise, limits hold in
  every row written, the entries of an account form one chain, a batch is all or
  nothing, a hold is settled once, a transfer is reversed once, nobody deadlocks.
* *Outbox and audit rows* must be there exactly for what committed; void and
  capture write their audit row after the commit.
* *Reads of the past* trust `created_at` and the order of ids, both taken from
  the clocks of several processes while transactions overlap.
* *The publisher* runs one statement at a time without a transaction: it may
  deliver twice, but must never lose an event, give up early or never, or let
  a poison message block the queue.
* *Idempotency* is two or three Redis commands which concurrent requests with one
  key interleave, of two middlewares that keep different things in one namespace.
* *The hash chain* is only a chain if concurrent inserts see each other's hash, and
  what an alarm or its absence is worth depends on what is hashed.
* *Reconciliation* compares what it read in separate statements while requests
  commit: what it reports needs a cause, and what it may miss should be known.
* *Users* are read and then written without a lock; tokens outlive what they say.
* *The shutdown* stops workers and servers one after the other while requests,
  timers and `os.Exit` go on beside it.

The full list, line by line, is under `hazards` in `PROJECT.json`.

## 2. The modules

| module | what it is |
|---|---|
| `LedgerTypes` | the rows, `ValidateDebit`/`ValidateCredit`, the CHECK constraints, and what a sum over rows is |
| `Journal` | abstract: a set of transfers and a register of holds, balances computed on demand |
| `Commits` | abstract: the tables, changed by one commit at a time |
| `Ledger` | the transactional ledger: use cases, locks, commits, failures |
| `LedgerProperties` | what else `Ledger` keeps true, and that it implements `Journal` and `Commits` |
| `LedgerHistory` | `Ledger` with the clocks and ids of several processes and `created_at`, beside a reader of past balances and pages |
| `EventPublisher` | the publishers of several processes over one outbox table |
| `Idempotency` | both middlewares over the Redis store |
| `AuditLog` | abstract: an append-only list |
| `AuditChain` | the trigger, verification and retention over `audit_logs` |
| `Reconciliation` | the scheduler beside the commits of `Commits` |
| `Server` | a process from its first connection to its exit |
| `Transports` | operators: routes, methods, roles, the errors of use cases and the answers they become |
| `Access` | users, tokens and requests, over HTTP, gRPC and the command line |
| `LedgerProofs`, `LedgerRecords` | theorems about `Ledger`: types, sums and limits, deadlock; records, chains and refinement; and about `LedgerHistory` |
| `AuditChainProofs`, `IdempotencyProofs`, `ServerProofs`, `EventPublisherProofs`, `AccessProofs`, `ReconciliationProofs` | theorems about these |
| `MC...` | instances for TLC, mutants |

How they compose: `Ledger` implements `Journal` (what a client is promised) and
`Commits` (what another process sees). `Reconciliation` extends `Commits`, so that
what holds of a run beside it holds beside the overlapping transactions of `Ledger`.
`LedgerHistory` extends `Ledger` itself, because the moment at which a transaction
reads its clock matters to it. `Access` extends `Transports`. The queue that
`Ledger` fills is the one `EventPublisher` empties; the lock `chainLock` of
`Ledger` is the lock that `AuditChain` opens up.

### Ledger

Every client serves one request at a time (`req`, `pc`); its transaction is a
record `tx`: the accounts still to lock, the rows read under a lock with the updates
applied so far (the code's `accountMap`, and what the transaction itself sees in
the table), the items still to process, and the rows it has inserted. Committed
tables are `accounts`, `row`, `transfers`, `entries`, `holds`, `outbox` and `audit`;
`rowLock`, `holdLock`, `chainLock` say which transaction holds which row lock.

| `pc` | the code is | leaves by |
|---|---|---|
| `begin` | before the first statement | `Begin` |
| `holdLock` | in `GetHoldByIDForUpdate` | `LockHold`, refused if the hold is not active |
| `lock` | in `SELECT ... ORDER BY id FOR UPDATE` | `LockAccount`, one row at a time |
| `work` | computing and writing rows | `ProcessTransfer` (once for each item), `PlaceHold`, `ReleaseHold`, `SettleHold`, or `Refuse` |
| `audit` | inserting audit rows inside the transaction | `AuditInTx`, which waits for the chain |
| `commit` | in `COMMIT` | `Commit`, `CommitUnanswered` |
| `record` | after the commit of a void or capture | `AuditAfterCommit` |
| `failed` | in the deferred failure audit | `AuditFailure` |

Statements that neither wait for another transaction nor read what one may change
are merged with the one before: between two waits a transaction only touches rows
it has locked and rows nobody else sees. Failures are kept apart, because they may
strike anywhere: `Abort` (any statement fails, the ten-second context expires),
`Retry` (a deadlock or serialization error, for transfers only, at most `MaxRetries`
times), `CommitUnanswered` (the commit took effect and the use case is told that
it failed), `Crash` (the process stops, or the best-effort audit row fails). Row
locks are granted one at a time: a statement that locks two rows in the order of
their ids takes one, then waits for the other, as PostgreSQL does.

Abstractions: amounts are whole numbers (`decimal.Decimal` over `NUMERIC`, both
exact); metadata, names, timestamps and payloads are left out; metrics and logs
are left out; reads that change nothing are left out, except that
`ReverseTransfer` starts from a committed transfer; a failure audit row refers to
nothing but itself and is kept only for its claim on the audit chain. The empty
batch, which the use case would accept, commits nothing and is left out. A
`CreateAccount` takes effect in one step: nobody can see its row before.

### Journal

What the ledger promises if it had no columns to keep up to date: batches appear
as a whole and leave every account within its limits *as computed from the
transfers and holds*, holds are placed against the computed available balance,
settled once, and captured by one transfer of the same amount. `Ledger` implements
it with `accounts`, `transfers` and `holds` mapped to themselves
(`ImplementsJournal`, checked by TLC and proved): every commit is one step of the
journal, everything else stutters.

### Commits

What every other process can see: `accounts`, their rows, transfers, entries and
holds change one commit at a time, and each commit starts from the rows, versions
and entries the one before it left. `Ledger` implements it (`ImplementsCommits`),
which says that overlapping READ COMMITTED transactions are serializable here.

### LedgerHistory

`clock[s]` is `time.Now()` of the process `s`, `now[p]` what a transaction has read
from the clock of the process that runs it, `server[p]`, and `createdAt` the
`created_at` of what it posted. Ids are ULIDs of `ulid.Make`, which grow within one
process: `maker[id]` is the process that generated an id, and those of two processes
come in any order. When a clock is read relative to the row locks is the point: a
transaction that reads it before it waits may commit an older time after a newer one.
The reader asks for balances at past times and walks the transfers of `Listed` with a
cursor, one page for each step.

Clocks are assumed to stay within `MaxSkew` of each other, whatever that is, and not to
go back; the code neither compares nor corrects them. What holds then:

* *Versions and time* (`HistoryMatchesVersions`). Entries of one process on an account
  have times and ids in the order of their versions. Of two processes, a later version
  may have an earlier time, by `MaxSkew` at most. An account that one process posted on
  has at any time the balance its last version by then left; where two posted, that
  balance may be the one of an earlier version, and no property says otherwise.
* *The past settles* (`PastSettles`) with any number of processes: when all clocks have
  passed a time, and all transactions that read one by then have ended, balances at
  that time change no more.
* *Pages* (`PagesMissNothing`) show all that was there when the first one was read, once
  and in order. With one process they show nothing else. With two, a transfer
  committed meanwhile is shown as well if its id is below that of another process
  that was there. The comment on the query, that it "doesn't skip/duplicate rows under
  concurrent inserts" (`queries/transfer.sql:18`), holds of the rows that were there
  in both cases; a row inserted meanwhile with an id above the cursor is not shown.

### EventPublisher

One publisher for each server process. `processEvents` is cut at every call: the
poll, the delivery, and one UPDATE for each outcome. A delivery that returns an
error may have arrived all the same. `StatementFails` is an UPDATE that fails and
is logged, `AnswerLost` one that took effect and looks as if it had failed, `Crash` a
process that stops between any two calls, or whose context
the shutdown cancels in the middle of a batch. Ghost variables count what happened,
for the properties.

Events are numbered by `created_at`, which is the clock of the server that ran the
use case; they commit in any order, those of one aggregate one after the other under a
row lock, which `aggregate_sequence` counts (`sequence`). The two orders differ when
one server's clock is behind: the query sorts by `created_at` alone
(`queries/outbox.sql:20`), so a void may be delivered before the hold it voids. A
failed event stays behind too and is overtaken by the next one of its aggregate.
`TriedInOrder` says what is left: an event is not delivered before those that precede
it by both orders have been tried.

### Idempotency

The middleware and the store in one: `CheckAndGet` is the `GET`, `SetHash` the
unconditional `SET` that gRPC uses, `SetNX` the one of HTTP, `CheckAgain` the second
`GET`. Commands fail, with or without effect (`CheckFails`), keys expire, the server
stops. Both middlewares write into one namespace of Redis: gRPC under
`grpc:<method>:<key>`, HTTP under the client's header as it is. So a name (`Slots`) is
one that the interceptor would make of method and key, or any other string; gRPC uses
the first kind only, HTTP both. A client that writes such a name over HTTP
meets what gRPC left there, and the other way round.
`first` and `settled` record what a request was told, for the properties. Both
middlewares run before authentication and know nothing of users, so they are a
module of their own.

### AuditChain

Each writer's transaction inserts rows one by one: the trigger takes the lock on the
single row of `audit_log_chain_state`, reads the head under it, links the row and
moves the head; commit or rollback frees the lock. Beside the writers are the jobs of
an operator: scrubbing personal data and dropping the partition of an old month. And
rows are altered and deleted behind the application's back, which is what the chain is
there to show: `Alter` changes what is hashed (`text`), what is not (`state`, for
`before_state`, `after_state` and `request_id`) or a stored digest, to one
that fits the rows that are there or does not, each column of a row once; `Delete`
takes away any row, the newest too. `chain_seq` and `audit_log_chain_state` themselves
are left alone: the model asks what verification finds in `audit_logs`, and it
never looks at the state row. SHA-256 is taken to have no collisions: a digest is the
list of what was digested. `gone` and `altered` remember what was done.

Three properties say what verification is worth. An alarm has a cause
(`AlarmsAreReal`). Silence vouches for every row before one that still has the digest it
was committed with (`SilenceVouches`). And the promise of the migration, that any
historical row that was altered is detected, does not hold (`AlterationsDetected`).

### Reconciliation

`runOnce` with each of its statements a step: list the accounts (one page, as
`ValidatePagination` caps the 10000 asked for), then for each the row and the sum of
its entries, then the totals by currency, then the entry chain of each account.
Between any two of them requests of `Commits` commit. Statements fail, at most
`MaxErrors`; `Damage` raises or lowers a balance without an entry, on at most
`MaxDamage` accounts, again and again, so that damage goes away, moves from one account
to another, or cancels. `damage` is what each balance is off by, `struck` in the report
what was damaged since the run began. A
run may raise a false alarm for an account that was touched between its two reads;
`AlarmsExplained` says that this, damage and gaps in versions are the only causes.

An account beyond the page is seen only in the total of its currency. So damage that
cancels there - money moved from one account to another without entries, neither of
them on the page - is never reported, whatever the number of runs. `NoFalseAllClear`
and `DriftReported` are about damage that is on the page or does not cancel
(`Uncancelled`).

### Server

`main` follows `run()`: connect, migrate, Redis, serve, then, after a signal, the
workers' context is cancelled, `GracefulStop` waits for the gRPC calls, the HTTP
`Shutdown` waits for as much of `HTTPShutdownTimeout` as is left, and the deferred
calls close Redis and the pool. `Expire` may happen at any time after the signal,
because the timer starts before `GracefulStop`. Requests take and return
connections of a pool of `MaxConns`, claim their key in Redis, record the audit row
after the transaction, store the response and answer; `owes` is what each still has to
do. The audit row and the stored response are best-effort statements whose errors nobody
looks at (`hold_usecase.go:250`, `:438`, `http/middleware/idempotency.go:68`):
`IgnoreError` lets them fail although the pool and Redis are open, and `failed`
remembers that, to tell it from what the shutdown would be to blame for. A call over
gRPC may be `held` by its client, who has sent half a message or keeps a stream of the
reflection service open; `Release` is up to the client.
`Die` is the `os.Exit` of a goroutine whose server cannot listen. Failures of the
configuration and of tracing come before anything is open and are left out.

### Transports and Access

`Transports` holds the tables: which operations each transport offers, the minimum
role of each route and method, which errors a use case can return, and the HTTP
status, gRPC code or exit code each error becomes. `Access` has the state: rows of
`users`, what each manager has read before it writes the whole row back, tokens with
the role their user had at login, requests on their way through authentication,
role check, use case, audit row and answer. The operation itself is its result
here; what it does is in `Ledger`. In the server only `Authenticate` of `UserUseCase`
has a caller; creating and changing users is done by whoever calls it, two managers
here, and by the command line, which also makes the first administrator.
`MaxJobs` bounds the changes of users begun, `MaxTime` the clock.

## 3. The runs

| run | instance | question |
|---|---|---|
| `ledger` | 2 clients, 3 accounts, 2 transfers, 1 hold, amounts up to 2, no retry, from an empty database | do columns, entries, events and audit rows agree with an atomic journal, and with one commit at a time, under every interleaving and failure? |
| `liveness` | 2 clients, 3 opened accounts, 1 transfer, 1 hold, 1 retry | can requests wait for each other in a circle, and does every request end? |
| `history` | 2 clients, 2 processes with clocks up to 2 and 1 apart, 2 accounts without limits, one payment made, 3 transfers, pages of 1 | is a transfer reversed twice; do past balances settle, and how far do they agree with the versions; do pages miss or repeat a transfer? |
| `publisher` | 2 publishers, 2 events of one aggregate committed in either order, batches of 2, 2 attempts, 2 faults | is delivery repeated and given up only as failures and the second process explain, what order is left, and does every event leave the queue? |
| `idempotency` | 3 requests, 1 key, under both kinds of names, 2 bodies | what does a key guarantee? |
| `audit_chain` | 2 writers, 3 rows, 2 months, 3 columns altered, any rows deleted | do rows and head agree with an append-only list, and what are alarms and silence worth? |
| `reconciliation` | 3 accounts in 2 currencies, pages of 1, 1 transfer, 1 hold, 1 failing statement, 2 damaged accounts | what may a report say, and which wrong balances can it miss? |
| `server` | 2 requests, both workers, a pool of 1 | what does an exit leave undone, and does a signal end the process? |
| `access` | 2 users, 2 e-mails, 2 managers, 1 client, roles admin, operator and an unknown one, tokens of 2 ticks, 2 ticks, 3 jobs | who may do what, and do answers and audit rows tell what was done? |
| `entry_versions` | 2 accounts, 1 transfer, 1 hold, nothing damaged | `VerifyEntryChain` against the versions entries really get (violated) |
| `idempotency_claim` | 2 gRPC requests | "atomically checks if key exists, sets if not" (violated) |
| `audit_altered` | as `audit_chain`, 2 columns altered | "altering or deleting a historical row breaks the chain at that point" (violated) |

`MCLedger` gives the accounts their limits: account 1 may go negative and never
positive, the others may not go negative. So debits and credits are both refused and
accepted, and a wallet's payment depends on what another request left. Two clients
suffice for every race between two transactions over a row, and the proofs cover any
number; three accounts give a circle of waits a chance (`MCRing`). One hold suffices
for races about its status, two transfers for a capture or a payment that depends on
an earlier one, three for two reversals of one transfer. A page of one account leaves
two of one currency beyond it, between which damage can cancel; one transfer, which may
be a payment or a capture, is enough to move an account between two reads of a run, and
reversals are left to the proofs. A pool of one connection makes the second
connection that the audit row needs one to wait for; of two requests one can be
cut off, or held by its client, while the other one finishes. Three altered columns are
what it takes to alter a row in the middle and make its digest and the next row fit.

Bounds, all of them constants: `TransferIds`, `HoldIds` and `Ids` end a behaviour (the
real generator never runs dry, `OutOfIds` refuses what comes after), `MaxAmount`, the
set `Batches`, `MaxRetries` (3 in the code), `MaxFaults`, `MaxErrors`, `MaxDamage`, `MaxAltered`,
`MaxTime`, `MaxSkew` (1 in the run, any in the proofs), `MaxMonth`, `MaxJobs`, `BatchSize` and `MaxAttempts` (100 and 5 by default),
`PageCap`. Requests, processes, writers, users and ids are symmetric where no liveness is
checked and no order is read into them; account ids are not, being sorted. `access`, `publisher`, `idempotency`, `reconciliation` and
`server` switch the deadlock check off: everything may be answered, delivered or
over. The others check it.

Fairness. `RequestsEnd` assumes that goroutines keep running (weak fairness of each
client's own steps) and that PostgreSQL grants row locks to waiters in turn (strong
fairness of the steps that wait; its lock queues are first come first served, and
transactions end by themselves or by the ten-second context). No failure is ever
assumed to happen. `EventsLeaveQueue` and `DriftReported` assume the tickers, which
call `processEvents` and `runOnce` again and again whatever became of the last call;
neither needs fairness of the sink or of the requests, but failing statements and
crashes must end, which the bounds on them say. `ShutdownEnds` assumes that the
timer runs out, that the main goroutine and those with something to do run, and that
the pool serves its waiters in turn (strong fairness of `Acquire`). It assumes nothing of
`Release`: that every client lets go of its gRPC call is the premise of the property
itself, since `GracefulStop` has no timeout, and without it the process may never end.

### What the violated runs show

* *Entry versions.* `accounts.version` counts updates of the encumbered balance too,
  so after a hold the next entry skips a version. The chain of entries is correct
  (`EntriesChain` holds: unique versions, each entry starting from where the one
  before left), but not contiguous, and `VerifyEntryChain`, run by the scheduler,
  reports it as broken.
* *Idempotency over gRPC.* `GET` then `SET` is not atomic: two requests with one key
  may both run.
* *Altered audit rows.* `before_state`, `after_state` and `request_id` are not in the
  canonical string (`000012_audit_log_hash_chain.up.sql:72`): what a row says it changed
  may be altered, and verification returns nothing. Neither does it if a row and all
  digests from it on are rewritten, or if the newest rows are deleted. What does hold is
  `SilenceVouches`.

### What else the models show

Facts that no property states as a promise, found while the models were written:

* A commit may take effect while its answer is lost. The failure rows then say that
  no transfer was created (`transfer_usecase.go:203`), and a client that tries again
  creates it a second time unless an idempotency key stops it.
* Over gRPC the hash is stored before the handler runs and stays for 24 hours when
  it fails, so a failed request cannot be tried again under its key, although
  `idempotency.go:95-96` does not cache errors in order to "allow retry". Over HTTP
  the placeholder does not keep a second request with the same key from running next
  to the first; only a stored response does. A response is replayed for whatever
  request comes with its key, the body is not compared.
* An HTTP request whose key is spelled like a name of the gRPC interceptor,
  `grpc:<method>:<key>`, gets the hash that a gRPC call left there as if it were a cached
  response, or leaves a placeholder or a response there, with which gRPC calls fail as
  if their body had changed. `AnswersTraced` says that nobody else is given a hash.
* Over gRPC the interceptor stores the user under a context key of its own package,
  `domain.UserFromContext` looks for another, and the audit row says "system", where
  `TODO.md:16` says that it names the real user. Over HTTP the user is named
  (`HttpChangesNamed`).
* Delivery of events is at least once: an event whose mark was lost is delivered
  again, and two server processes deliver most events twice. Events of one aggregate
  arrive out of order when the first one fails, or when the clock of a later one's
  server is behind; a consumer has `aggregate_sequence` to tell.
* The audit rows of voids and captures, written after the commit with their errors
  ignored, may be missing, and so may failure rows and responses kept for a key; no
  property excludes that.
* Damage that cancels within a currency, on accounts beyond the newest thousand, is
  never found by the reconciliation.
* Two updates of a user that overlap lose one of them, and a row may end up with
  fields of both; `UpdatesKept` is about changes that do not overlap. That e-mails
  are unique rests on the database constraint alone.
* The command line accepts any role for a user. With a role that is none of the
  three, such a user may still read, although `domain.CanViewAll` would say no.
* `GracefulStop` has no timeout of its own and uses up the time of the HTTP
  shutdown, all of it and more if a client keeps a call open; a goroutine that ends the process with `os.Exit` passes by every
  deferred call and by the requests of the other server.

## 4. The proofs

Proved, for every value of the constants that satisfies the named assumptions
(`TypesAssumption`, `LedgerAssumption` and `HistoryAssumption`, `ChainAssumption`, `ServerAssumption`,
`PublisherAssumption`, `AccessAssumption`, `NoneAssumption` and
`ReconciliationAssumption`; each says no more than
that bounds are natural numbers, that sets which are finite in the code are finite,
that ids are numbers in the order they are generated, that payments are between
accounts and of amounts, and that `None` is a value of its own):

| module | theorems |
|---|---|
| `LedgerProofs` | `[]TypeOK`, `[]EncumberedIsHeld`, `[]BalanceIsNet`, `[]LimitsRespected`, `[]NoDeadlock` |
| `LedgerRecords` | `ImplementsJournal`, `ImplementsCommits`, `[]EntriesChain`, `[]CapturedOnce`, `[]ReversedOnce`, `[]ReversalsNeverMeet`, `[]OutboxTellsAll`, `[]AuditMatches`; of `LedgerHistory`: `[]HistoryMatchesVersions`, `PastSettles`, `[]PagesMissNothing` |
| `AuditChainProofs` | `[]RowsAreTheLog`, `[]AlarmsAreReal`, `[]SilenceVouches`, `ImplementsLog` |
| `IdempotencyProofs` | `[]AnswersTraced`, `[]SettledNotRepeated`, `[]HttpClaimedOnce` |
| `ServerProofs` | `CleanExitOwesNothing`, `GrpcCallsFinish`, `ReturnLeavesNoTransaction` |
| `EventPublisherProofs` | `[]DeliveredOnceUnlessLost`, `[]GivenUpOnTime`, `[]TriedInOrder` |
| `ReconciliationProofs` | `[]AlarmsExplained`, `[]ConsistentUntilDamaged`, `NoFalseAllClear` |
| `AccessProofs` | `[]UpdatesKept`, `PowersWereHeld`, `[]AnswersBelievable`, `[]HttpChangesNamed` |

### Types

`LedgerProofs` proves `TypeCorrect`: `Spec => []TypeOK` for all accounts, clients,
batches and bounds that satisfy `TypesAssumption` and `LedgerAssumption`. The type
invariant alone is not inductive: that a new row is an account row with an integer
balance and a natural version needs what the operators return (the first part of the module: rows
posted, captured or encumbered are rows, entries of a transfer are entries, `Tail` of
the remaining items is a sequence of inputs, ...), and that the row a capture inserts
is a transfer needs to know which fields a request has and what its transaction read
when its `pc` says so. The strengthening therefore adds, for each `pc`, the request
and the hold that go with it; there is a lemma for each action.

### Sums and limits

`LedgerProofs` also proves `Spec => []EncumberedIsHeld` (`EncumberedCorrect`),
`Spec => []BalanceIsNet` (`BalanceCorrect`) and `Spec => []LimitsRespected`
(`LimitsCorrect`), under the same two assumptions: any number of requests at the same
time, any finite set of accounts, ids and amounts, batches of any length, any number
of retries, crashes and lost answers to COMMIT.

None of the three is inductive. What a commit writes is the transaction's copy of a
row, read some steps before, so the invariant `SafeInv` has to say what these copies
are worth while other requests commit:

- `CommittedSums`: every accounts row is the net of the transfers and the sum of the
  active holds, passes the CHECK constraints, and is empty while the account is not
  there; `HoldersExist`: the account of a hold exists.
- `ViewSums(p)`: a row that p has locked is, in p's copy, what the committed tables
  *together with what p has staged* add up to, and passes the CHECK constraints.
- `OwnRows(p)`: p stages nothing before it has all its locks, and only transfers
  between rows it has locked (an item of the batch names accounts of the batch, whose
  rows `AllFound` requires).
- `OwnHold(p)`: the hold p works on is locked by p and still as p read it, or is
  new; its account is locked by p, or will be. `HoldsApart`: no two requests work on
  the same hold.

The step lemmas follow from three facts. A step that commits nothing leaves the
others' copies as they were (`UntouchedSafe`, `QuietStep`). An update of a copy that
`ValidateDebit` or `ValidateCredit` let pass changes the copy by exactly what it
changes the sum by, and keeps the CHECK constraints (`NetOfOneMore`,
`HeldWithActive`, `HeldWithInactive`, `Debit`, `Credit`, `Release`); in particular
the `max(0, ...)` of `VoidHold` never cuts anything off, because the hold is part of
the sum (`HeldAtLeast`). And a commit concerns only accounts and a hold that its
transaction has locked, so the sums of everyone else's rows stay, with whatever they
have staged on top (`OtherSums`, `ApplyOthers`; writes of different holds commute,
`HoldsCommute`). The proof is where the row locks are needed: without `RowFree` or
`HoldFree`, `LockAccountSafe` and `LockHoldSafe` fail. TLC checked `SafeInv` on the
instance of the run `ledger` before the proof.

### Records, chains and the refinement

`LedgerRecords` builds on `SafeInv`. Where that says what the staged *rows* are worth,
`RecordsInv` says what the staged *records* are. `Committed`: ids are unique, a
transfer is reversed by at most one, which undoes it, a hold is captured by exactly
one transfer of its account and amount, and the outbox and the audit log tell of
exactly that. `Staged(p)` and `Asked(p)`: what a request has inserted so far
corresponds to the events it has inserted so far and to the items it has worked off,
and a batch is either all new transfers or one reversal of a committed transfer. The
ids of requests side by side are apart.

Two facts carry it. A reversal stages under the locks of both accounts of the
original, and so would another reversal of the same transfer: that is why they never
meet (`NeverMeetCorrect`) and why the check for an existing reversal, made under
those locks, is enough (`ReversedCorrect`). And a transaction posts only if the
limits hold in its own copies, which `SafeInv` equates with the sums the journal
computes: so a commit of a batch is a `PostsBatch` step of `Journal`, and likewise
`PlacesHold`, `VoidsHold`, `CapturesHold` (`LedgerImplementsJournal`).

`EntriesChain` is not inductive either: `EntriesInv` says that the chain of an account
goes on in the view of the request that holds its row lock - committed entries, then
staged ones, each from the balance and above the version of the one before, up to
the row in the request's copy - and a commit makes that view the committed chain.

### One after the other

That `Ledger` implements `Commits` (`LedgerImplementsCommits`) is serializability: what
overlapping READ COMMITTED transactions leave in rows, versions and entries, some
order of them one after the other leaves too. `SerialInv` gives each transaction the
rows `v` it found. On the accounts it has locked they stay the rows of the tables
until it commits (`Found`), because another request writes only rows it has locked
itself, and an account is created only where no lock can be (`RowsElsewhere`). What it
has made of `v` is remembered as well (`Made`): a hold, a void or a capture is one
update of it, a batch is a *run* - a sequence of transfers and the rows each of
them leaves, with the debit and the credit that were checked on the way. The order of
the run is the one `Commits` is given: at the commit the tables differ from `v` only in
rows that the transaction does not touch, so the same run leads from them to what is
written (`Over`, `OverPosted`).

`Commits` computes a batch with a fold. `FoldingExists` shows that the recursive function
behind it exists, and `AfterRun` that it computes what any run computes; both argue
by the least length for which it would not. That `VoidHold` never takes more than is
encumbered, where the code would stop at zero, follows from `SafeInv`.

### The past and the pages

The middle part of `LedgerRecords` is about `LedgerHistory`, whose steps are steps of
`Ledger` with clocks and ids beside them (`LedgerSteps`), so that the invariants above
hold there too. Of a step of a request only its effect on transfers, entries and
locked rows matters: it leaves, opens, moves on in, adds to or commits a transaction
(`Effects`). `HistoryInv` says of each account that its entries - committed ones and
those staged by whoever has the row locked - are in the same order by version as by
`created_at` and id, where one process made them, and in that of the times up to
`MaxSkew` anyway (`InOrder`). It says of whoever has read a clock that everything posted
on its rows is no younger than what it read, or than that and `MaxSkew`, if another
process posted it (`Before`). This holds when the clock is read, because that is done
with all rows locked, and stays because nobody else can post there: it is the step
that fails if the time is read earlier. `LastPosted` shows that ordering by time finds
the last version where one process posted. For `PastCorrect` that is not needed:
`PostedByStays` and `StillPassed` leave the set the query chooses from, and the times
in it, as they are.

For the pages, `PagesInv` says that whatever touches the account and was not there at
the start has an id larger than any of the same process that was: the process took it
while the row was locked, after those had committed (`StagedTransfers`). All that was
shown is at or above the cursor, and something that was there too, so that a page of
what is left shows nothing new of a process that had posted the larger one.
`OnePage` says what a page is - the largest ids of what is left, all of it or
`PageSize` - by way of the least and the greatest element of a finite set of numbers.
The rows of a page are put in order by `Descending`, a choice that `Listing` shows to
exist. The theorems are about `SpecAll`, for any number of processes and any
`MaxSkew`; the run `history` checks the same steps from a state with one payment.

### Deadlock

Locks are taken in the order hold, accounts by id, audit chain. `LockInv` says which
locks a request may own where it is (`OrderedLocks`); it follows that who waits for
another waits at a later place of that order, and a group of requests has one whose
place is the last, by a well-founded argument that needs no bound on their number.

### The other modules

* `AuditChainProofs`: the head's digest is a list in which no row occurs twice
  (`IsLog`), and the digest of every committed row is a beginning of it (`InLog`); a
  transaction that has the lock extends it without a gap (`Extends`, `Inserted`), and
  since nobody else has it the list is still the committed one at the commit. A step of the chain that moves the head is a `Record`
  of `AuditLog`; dropping, scrubbing, altering and deleting rows leave the list as it was.
  That silence vouches (`SilenceCorrect`) goes down from the row that has its digest:
  verification has compared it with the row before, which must then be the one that was
  committed before it, and have its digest too.
* `IdempotencyProofs`: the store remembers what requests were told (`Remembered`) as
  long as keys do not expire, and when one does, what was told under it is forgotten
  too.
* `ServerProofs`: what a request may still owe depends on where it is (`Due`), and the
  phase of the main goroutine on who may still run (`Phases`): Redis and the pool
  close only after those who were waited for have ended. What else is owed is in `failed`.
* `EventPublisherProofs`: the bounds on deliveries and failures are counts of
  publishers. `PubInv` says which: those that deliver an event now, or are past it now
  that it is published (`Spent`), and those that count a failure of it, or bury it, or
  are past it now that it is dead (`Failed`); what was tried beyond them was `lost`. A
  step at an event moves one publisher into such a set or out of it (`Sizes`), and
  leaves the others where they are (`Others`). For the order, `InOrder` says that of
  the events that precede one in its batch (`Precedes`) a publisher either still has
  them in its batch or finds them tried; `Create` cannot add to them, since
  it numbers a new event behind all of its aggregate that are there.
* `AccessProofs`: a manager's copy of a row is the row, unless the change it
  makes has overlapped with another of the same user (`Job`, `OneUpdate`); a token's
  role is one its user had within the life of the token (`Held`, `Session`); a
  request that was answered is over, so that its audit row keeps the name it has
  (`Request`, `Rows`). `AnswersBelievable` comes down to the tables of `Transports`:
  every answer of every handler to every error, over each transport, and none of
  those that blame the request for an error that leaves the outcome open.

### Reconciliation

`ReconciliationProofs` is about the commits of `Commits` and the damage beside them.
`TablesInv`: the balance of an account is what its entries add up to and what `damage`
says it is off by (`Books`); the entries of the accounts of any choice of
currencies add up to zero (`Zero`); and versions are distinct and the row is above them
all, the links between entries whole unless the account was damaged (`Chains`). A step
of the ledger is one of three kinds for that: a transfer is posted, rows keep their
balances, or a balance is damaged (`TablesChange`); a transfer moves its amount between
two accounts of one currency, which leaves sums as they were (`SumOfMoved`).

Where `LedgerProofs` counts units, these sums are the library's `SumFunction`, a
recursive function that takes elements away in the order of a `CHOOSE`. The first part
of the module shows what it computes: there is a function that adds in any order
(`SumsExist`), and the library's agrees with it (`SumIs`), both because a set of
subsets that are counterexamples would have a minimal one (`Minimal`). The library's
induction theorems take an operator and cannot be instantiated, but this fact about
minimal elements can be cited for one set at a time.

With that, the totals of a currency differ exactly by the sum of its damage
(`TotalsShow`), so that they disagree where it does not cancel; an undamaged ledger
passes (`AddsUp`), a broken link means damage or a gap (`Contiguous`) and a gap is never
closed again (`GapsStay`). `ReportInv` carries this through a run whose reads are apart:
an account that was compared and is off is reported, or has moved or been struck since the
run began, and so is a currency whose damage does not cancel once the totals were read
(`Alleged`). Requests that commit between the reads change neither (`Unharmed`); damage
adds to what was struck (`Harmed`).

### Only model-checked

Liveness under fairness (`RequestsEnd`, `EventsLeaveQueue`, `DriftReported`,
`ShutdownEnds`) is out of the prover's
reach, as is `ENABLED`. The invariants, the action properties and the refinements of
the passing runs are all proved.

## 5. Not modelled

* *Rate limiter*: no server configures one (`router.go:72` gets nil), and
  `CleanupLimiters` has no caller.
* *Validation* of names, currencies, e-mails, passwords and metadata is about the form
  of strings; it is one kind of refusal in `Transports`. Amounts and page limits
  are modelled where properties depend on them.
* *Plain listings* with an offset change nothing. A listing that is read while rows
  are added may repeat a row on the next page; the cursor of `LedgerHistory` is the
  one the code offers for a steady order.
* `DeletePublished` has no caller. Were it called, the sequence of an aggregate
  could start again, being the maximum of the rows that are left.
* *Configuration, metrics, logging, tracing, migrations* have no behaviour the ledger's
  correctness depends on; that they fail at the start is in `Server`.
* *Printing* by the command line, and generated code, which restates the SQL and the
  protocol files it was made from.
