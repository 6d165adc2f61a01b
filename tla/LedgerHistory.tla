--------------------------- MODULE LedgerHistory ---------------------------
(***************************************************************************)
(* The ledger's past, as reads see it: the balance an account had at a     *)
(* time, and its transfers page by page.  The clock of the process that    *)
(* runs a transaction gives the created_at of what it posts.  Ids grow in  *)
(* the order in which one process generates them; those of two processes   *)
(* come in any order.  Clocks are at most MaxSkew apart and never go back. *)
(***************************************************************************)
EXTENDS LedgerProperties, SequencesExt

CONSTANTS
  Servers,   \* the processes that run the ledger: servers, command line
  MaxSkew,   \* how far their clocks may be apart
  MaxTime,   \* bound: how far the clocks run
  Listed,    \* the account whose transfers are listed
  PageSize   \* the limit of the reader that lists them

ASSUME HistoryAssumption ==
  /\ TransferIds = 1..Cardinality(TransferIds)
  /\ MaxTime \in Nat \ {0} /\ PageSize \in Nat \ {0}
  /\ Servers # {} /\ None \notin Servers /\ MaxSkew \in Nat
  /\ Listed \in AccountIds

VARIABLES
  clock,     \* time.Now() of each process
  now,       \* what each transaction has read from it, 0 before
  server,    \* the process that runs it, None before it matters
  createdAt, \* the created_at of the entries of each transfer
  maker,     \* the process that generated an id, None if it is unused
  cursor,    \* NextCursor of the last page, 0 if there is none
  shown,     \* what the pages have shown
  start      \* what was there when the first page was read

time == <<clock, now, server, createdAt, maker>>
reader == <<cursor, shown, start>>
historyVars == <<vars, time, reader>>

InitHistory ==
  /\ clock = [s \in Servers |-> 1]
  /\ now = [p \in Clients |-> 0]
  /\ server = [p \in Clients |-> None]
  /\ createdAt = [id \in TransferIds |-> 0]
  /\ maker = [id \in TransferIds |-> None]
  /\ cursor = 0 /\ shown = <<>> /\ start = {}

-----------------------------------------------------------------------------
(* Writing.  The clock is read once per transaction, when the rows of all  *)
(* its accounts are locked.                                                *)

(* Mutant: before the rows are locked.                                     *)
BeforeLocking(p) == pc[p] = "lock" /\ Locked(p) = {}
AllLocked(p) == pc[p] = "work"

ReadClock(p, s) ==
  /\ AllLocked(p) /\ req[p].op \in {"transfer", "capture"}
  /\ now[p] = 0
  /\ now' = [now EXCEPT ![p] = clock[s]]
  /\ server' = [server EXCEPT ![p] = s]
  /\ UNCHANGED <<vars, clock, createdAt, maker, reader>>

(* Mutant: entries take the event_at that the caller gives.                *)
EventAt(p) == 1
EntryTime(p) == now[p]

(* ULIDs of a process grow, and the id of a transfer that is rolled back   *)
(* is not used again.                                                      *)
Staged(p) == {t.id : t \in tx'[p].transfers \ tx[p].transfers}
Generate(p, id) ==
  /\ now[p] # 0
  /\ maker[id] = None /\ \A n \in TransferIds : maker[n] = server[p] => n < id
  /\ Step(p) /\ Staged(p) = {id}
  /\ createdAt' = [createdAt EXCEPT ![id] = EntryTime(p)]
  /\ maker' = [maker EXCEPT ![id] = server[p]]
  /\ UNCHANGED <<clock, now, server, reader>>

(* A transaction that has ended forgets the time.                          *)
Handle(p) ==
  \/ \E s \in Servers : ReadClock(p, s)
  \/ \E id \in TransferIds : Generate(p, id)
  \/ /\ Call(p) \/ Acquire(p) \/ Step(p) \/ Fault(p)
     /\ Staged(p) = {}
     /\ LET on == pc'[p] \in {"lock", "work", "audit", "commit"} IN
        /\ now' = [now EXCEPT ![p] = IF on THEN @ ELSE 0]
        /\ server' = [server EXCEPT ![p] = IF on THEN @ ELSE None]
     /\ UNCHANGED <<clock, createdAt, maker, reader>>

Tick(S) ==
  /\ clock' = [s \in Servers |-> IF s \in S THEN clock[s] + 1 ELSE clock[s]]
  /\ \A s, o \in Servers :
       clock'[s] <= MaxTime /\ clock'[s] <= clock'[o] + MaxSkew
  /\ UNCHANGED <<vars, now, server, createdAt, maker, reader>>

-----------------------------------------------------------------------------
(* Reading.                                                                *)

Later(e, f) ==
  \/ createdAt[e.transfer] > createdAt[f.transfer]
  \/ /\ createdAt[e.transfer] = createdAt[f.transfer]
     /\ e.transfer > f.transfer
PostedBy(a, t) == {e \in C!EntriesFor(a) : createdAt[e.transfer] <= t}

(* ORDER BY created_at DESC, id DESC LIMIT 1.                              *)
GetAccountBalanceAtTime(a, t) ==
  IF PostedBy(a, t) = {} THEN 0
  ELSE (CHOOSE e \in PostedBy(a, t) :
          \A f \in PostedBy(a, t) \ {e} : Later(e, f)).current

Touching(a) == {t.id : t \in {s \in transfers : a \in {s.from, s.to}}}

(* Mutant: OFFSET instead of the cursor.                                   *)
PageByOffset(c) ==
  {id \in Touching(Listed) :
     LET newer == {n \in Touching(Listed) : n > id} IN
     Cardinality(newer) \in Len(shown)..(Len(shown) + PageSize - 1)}
(* WHERE id < cursor ORDER BY id DESC LIMIT.                               *)
Page(c) ==
  LET older == {id \in Touching(Listed) : c = 0 \/ id < c} IN
  {id \in older : Cardinality({n \in older : n > id}) < PageSize}

(* ORDER BY id DESC.                                                       *)
Descending(ids) ==
  CHOOSE s \in [1..Cardinality(ids) -> ids] :
    \A i, j \in 1..Cardinality(ids) : i < j => s[i] > s[j]

Show(page, before) ==
  /\ shown' = before \o Descending(page)
  /\ cursor' = IF Cardinality(page) = PageSize
               THEN CHOOSE id \in page : \A n \in page : id <= n
               ELSE 0

FirstPage ==
  /\ cursor = 0
  /\ start' = Touching(Listed)
  /\ Show(Page(0), <<>>)
  /\ UNCHANGED <<vars, time>>

NextPage ==
  /\ cursor # 0
  /\ Show(Page(cursor), shown)
  /\ UNCHANGED <<vars, time, start>>

InitAll == Init /\ InitHistory
NextAll ==
  \/ \E p \in Clients : Handle(p)
  \/ \E S \in SUBSET Servers : Tick(S)
  \/ FirstPage \/ NextPage
SpecAll == InitAll /\ [][NextAll]_historyVars

-----------------------------------------------------------------------------
(* Time runs with the versions of an account, up to MaxSkew where two      *)
(* processes posted, although created_at is chosen long before the entry   *)
(* can be seen; and the balance at a time of an account that one process   *)
(* has posted on is the one that the last version posted by then left.     *)
HistoryMatchesVersions ==
  \A a \in AccountIds :
    LET posted == C!EntriesFor(a) IN
    /\ \A e, f \in posted :
         e.version < f.version =>
           IF maker[e.transfer] = maker[f.transfer] THEN Later(f, e)
           ELSE createdAt[e.transfer] <= createdAt[f.transfer] + MaxSkew
    /\ \A s \in Servers :
         (\A e \in posted : maker[e.transfer] = s) =>
           /\ \A t \in 0..clock[s] :
                GetAccountBalanceAtTime(a, t) = C!BalanceAfter(PostedBy(a, t))
           /\ GetAccountBalanceAtTime(a, clock[s]) = row[a].balance

(* The balance at a past time is final once all clocks have passed it and  *)
(* no transaction is under way that read one of them by then.              *)
Passed(t) ==
  /\ \A s \in Servers : clock[s] > t
  /\ \A p \in Clients : now[p] = 0 \/ now[p] > t
PastSettles ==
  [][\A a \in AccountIds, t \in 0..MaxTime :
       Passed(t) =>
         /\ Passed(t)'
         /\ GetAccountBalanceAtTime(a, t)' = GetAccountBalanceAtTime(a, t)
    ]_historyVars

(* "doesn't skip/duplicate rows under concurrent inserts": pages show no   *)
(* transfer twice and leave out none that was there when the first one was *)
(* read.  Any other they show has an id below that of another process: one *)
(* process generates ids under the lock of the account, so that what it    *)
(* inserts later comes before the pages that are left.                     *)
PagesMissNothing ==
  /\ \A i, j \in 1..Len(shown) : i < j => shown[i] > shown[j]
  /\ {id \in start : id >= cursor} \subseteq ToSet(shown)
  /\ \A id \in ToSet(shown) \ start :
       \E n \in start : n > id /\ maker[n] # maker[id]
=============================================================================
