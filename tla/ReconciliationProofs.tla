------------------------ MODULE ReconciliationProofs ------------------------
(***************************************************************************)
(* Proofs about Reconciliation, for any accounts, requests, page size and  *)
(* any number of failures and damages: what a report holds against the     *)
(* ledger has a cause, the totals pass at any moment of a ledger that      *)
(* nobody has damaged, and what a run may miss is what it cannot see.      *)
(***************************************************************************)
EXTENDS Reconciliation, FiniteSetTheorems, WellFoundedInduction, TLAPS

-----------------------------------------------------------------------------
(* Sums over finite sets.                                                  *)

(* If a set of subsets is not empty, it has one from which no element can  *)
(* be taken away.                                                          *)
LEMMA Minimal ==
  ASSUME NEW S, IsFiniteSet(S), NEW Bad, Bad \subseteq SUBSET S, Bad # {}
  PROVE  \E s \in Bad : \A x \in s : s \ {x} \notin Bad
<1>1. IsWellFoundedOn(StrictSubsetOrdering(S), SUBSET S)
  BY FS_StrictSubsetOrderingWellFounded, FS_FiniteSubsetsOfFinite
<1>2. PICK s \in Bad : \A t \in Bad : ~ (<<t, s>> \in StrictSubsetOrdering(S))
  BY <1>1, WFMin
<1>3. ASSUME NEW x \in s, s \ {x} \in Bad PROVE FALSE
  BY <1>2, <1>3 DEF StrictSubsetOrdering
<1> QED
  BY <1>3

(* g holds the sums of the numbers f over the subsets of S: it does not    *)
(* matter in which order they are added.                                   *)
Sums(f, S, g) ==
  /\ g \in [SUBSET S -> Int] /\ g[{}] = 0
  /\ \A t \in SUBSET S : \A x \in t : g[t] = f[x] + g[t \ {x}]

LEMMA SumsExist ==
  ASSUME NEW S, IsFiniteSet(S), NEW f, \A x \in S : f[x] \in Int
  PROVE  \E g : Sums(f, S, g)
<1> DEFINE Bad == {t \in SUBSET S : ~ \E g : Sums(f, t, g)}
<1> SUFFICES ASSUME Bad # {} PROVE FALSE
  OBVIOUS
<1>1. PICK s \in Bad : \A x \in s : s \ {x} \notin Bad
  <2>1. Bad \subseteq SUBSET S
    OBVIOUS
  <2> HIDE DEF Bad
  <2> QED
    BY <2>1, Minimal
<1>2. s \in SUBSET S /\ ~ \E g : Sums(f, s, g)
  BY <1>1
<1>3. ASSUME s = {} PROVE FALSE
  <2> DEFINE g == [t \in SUBSET s |-> 0]
  <2>1. Sums(f, s, g)
    BY <1>3 DEF Sums
  <2> QED
    BY <1>2, <2>1
<1>4. ASSUME NEW y \in s PROVE FALSE
  <2>1. PICK g : Sums(f, s \ {y}, g)
    BY <1>1, <1>2
  <2> DEFINE k == [t \in SUBSET s |->
                     IF y \in t THEN f[y] + g[t \ {y}] ELSE g[t]]
  <2>2. f[y] \in Int /\ \A x \in s : f[x] \in Int
    BY <1>2
  <2>3. \A t \in SUBSET s : /\ t \ {y} \in SUBSET (s \ {y})
                            /\ y \notin t => t \in SUBSET (s \ {y})
    OBVIOUS
  <2>4. \A t \in SUBSET (s \ {y}) : g[t] \in Int
    BY <2>1 DEF Sums
  <2>5. k \in [SUBSET s -> Int] /\ k[{}] = 0
    BY <2>1, <2>2, <2>3, <2>4 DEF Sums
  <2>6. ASSUME NEW t \in SUBSET s, NEW x \in t
        PROVE  k[t] = f[x] + k[t \ {x}]
    <3>1. CASE x = y
      BY <2>3, <3>1
    <3>2. CASE x # y /\ y \in t
      <4>1. /\ k[t] = f[y] + g[t \ {y}]
            /\ k[t \ {x}] = f[y] + g[(t \ {x}) \ {y}]
        BY <3>2
      <4>2. /\ t \ {y} \in SUBSET (s \ {y}) /\ x \in t \ {y}
            /\ (t \ {x}) \ {y} = (t \ {y}) \ {x}
        BY <3>2
      <4>3. g[t \ {y}] = f[x] + g[(t \ {y}) \ {x}]
        BY <2>1, <4>2 DEF Sums
      <4>4. /\ f[x] \in Int /\ g[(t \ {y}) \ {x}] \in Int
        BY <2>2, <2>4, <4>2
      <4> DEFINE r == g[(t \ {y}) \ {x}]
      <4>5. /\ k[t] = f[y] + (f[x] + r) /\ k[t \ {x}] = f[y] + r
            /\ f[x] \in Int /\ f[y] \in Int /\ r \in Int
        BY <2>2, <4>1, <4>2, <4>3, <4>4
      <4> HIDE DEF k, r
      <4> QED
        BY <4>5
    <3>3. CASE y \notin t
      <4>1. k[t] = g[t] /\ k[t \ {x}] = g[t \ {x}] /\ t \in SUBSET (s \ {y})
        BY <3>3
      <4> QED
        BY <2>1, <4>1 DEF Sums
    <3> QED
      BY <3>1, <3>2, <3>3
  <2>7. Sums(f, s, k)
    BY <2>5, <2>6 DEF Sums
  <2> QED
    BY <1>2, <2>7
<1> QED
  BY <1>3, <1>4

(* The library's sum, which takes elements away in the order of CHOOSE.    *)
LEMMA SumIs ==
  ASSUME NEW S, IsFiniteSet(S), NEW f, NEW g, Sums(f, S, g)
  PROVE  SumFunctionOnSet(f, S) = g[S]
<1> DEFINE One(s) == CHOOSE x \in s : TRUE
           Iter(h) == [s \in SUBSET S |->
                         IF s = {} THEN 0 ELSE f[One(s)] + h[s \ {One(s)}]]
           h == CHOOSE h : h = Iter(h)
           Bad == {s \in SUBSET S : h[s] # g[s]}
<1>1. SumFunctionOnSet(f, S) = h[S]
  BY DEF SumFunctionOnSet, FoldFunctionOnSet, MapThenFoldSet
<1>2. \A s \in SUBSET S : s # {} => One(s) \in s
  OBVIOUS
<1> HIDE DEF One
<1>3. g = Iter(g)
  <2>1. \A s \in SUBSET S :
          g[s] = IF s = {} THEN 0 ELSE f[One(s)] + g[s \ {One(s)}]
    BY <1>2 DEF Sums
  <2>2. g = [s \in SUBSET S |-> g[s]]
    BY DEF Sums
  <2> QED
    BY <2>1, <2>2
<1>4. h = Iter(h)
  BY <1>3
<1> HIDE DEF h
<1>5. \A s \in SUBSET S :
        h[s] = IF s = {} THEN 0 ELSE f[One(s)] + h[s \ {One(s)}]
  BY <1>4
<1>6. ASSUME Bad # {} PROVE FALSE
  <2>1. PICK s \in Bad : \A x \in s : s \ {x} \notin Bad
    <3>1. Bad \subseteq SUBSET S
      OBVIOUS
    <3> HIDE DEF Bad
    <3> QED
      BY <1>6, <3>1, Minimal
  <2>2. s \in SUBSET S /\ h[s] # g[s]
    BY <2>1
  <2>3. s # {}
    BY <1>5, <2>2 DEF Sums
  <2>4. One(s) \in s /\ h[s \ {One(s)}] = g[s \ {One(s)}]
    BY <1>2, <2>1, <2>2, <2>3
  <2> QED
    BY <1>5, <2>2, <2>3, <2>4 DEF Sums
<1> QED
  BY <1>1, <1>6

LEMMA SumsOf ==
  ASSUME NEW S, IsFiniteSet(S), NEW f, \A x \in S : f[x] \in Int
  PROVE  \E g : /\ Sums(f, S, g)
                /\ \A t \in SUBSET S : SumFunctionOnSet(f, t) = g[t]
<1>1. PICK g : Sums(f, S, g)
  BY SumsExist
<1>2. ASSUME NEW t \in SUBSET S PROVE SumFunctionOnSet(f, t) = g[t]
  <2> DEFINE k == [s \in SUBSET t |-> g[s]]
  <2>1. SUBSET t \subseteq SUBSET S /\ IsFiniteSet(t)
    BY FS_Subset
  <2>2. Sums(f, t, k)
    BY <1>1, <2>1 DEF Sums
  <2>3. k[t] = g[t]
    OBVIOUS
  <2> HIDE DEF k
  <2> QED
    BY <2>1, <2>2, <2>3, SumIs
<1> QED
  BY <1>1, <1>2

LEMMA SumOfNone == \A f : SumFunctionOnSet(f, {}) = 0
<1> SUFFICES ASSUME NEW f PROVE SumFunctionOnSet(f, {}) = 0
  OBVIOUS
<1>1. PICK g : /\ Sums(f, {}, g)
               /\ \A t \in SUBSET {} : SumFunctionOnSet(f, t) = g[t]
  BY SumsOf, FS_EmptySet
<1> QED
  BY <1>1 DEF Sums

LEMMA SumOfOneMore ==
  ASSUME NEW S, IsFiniteSet(S), NEW f, NEW x,
         \A y \in S \cup {x} : f[y] \in Int
  PROVE  /\ SumFunctionOnSet(f, S) \in Int
         /\ x \notin S =>
              SumFunctionOnSet(f, S \cup {x}) = f[x] + SumFunctionOnSet(f, S)
<1>1. IsFiniteSet(S \cup {x})
  BY FS_AddElement
<1>2. PICK g : /\ Sums(f, S \cup {x}, g)
               /\ \A t \in SUBSET (S \cup {x}) : SumFunctionOnSet(f, t) = g[t]
  BY <1>1, SumsOf
<1>3. /\ S \in SUBSET (S \cup {x}) /\ S \cup {x} \in SUBSET (S \cup {x})
      /\ x \in S \cup {x}
      /\ x \notin S => (S \cup {x}) \ {x} = S
  OBVIOUS
<1>4. g[S] \in Int /\ g[S \cup {x}] = f[x] + g[(S \cup {x}) \ {x}]
  BY <1>2, <1>3 DEF Sums
<1> QED
  BY <1>2, <1>3, <1>4

LEMMA SumOfSame ==
  ASSUME NEW S, IsFiniteSet(S), NEW f, NEW k,
         \A x \in S : f[x] \in Int /\ k[x] = f[x]
  PROVE  SumFunctionOnSet(k, S) = SumFunctionOnSet(f, S)
<1>1. PICK g : Sums(f, S, g)
  BY SumsExist
<1>2. Sums(k, S, g)
  BY <1>1 DEF Sums
<1> QED
  BY <1>1, <1>2, SumIs

LEMMA SumType ==
  ASSUME NEW S, IsFiniteSet(S), NEW f, \A x \in S : f[x] \in Int
  PROVE  SumFunctionOnSet(f, S) \in Int
<1>1. PICK g : /\ Sums(f, S, g)
               /\ \A t \in SUBSET S : SumFunctionOnSet(f, t) = g[t]
  BY SumsOf
<1> QED
  BY <1>1 DEF Sums

(* The sum of sums.                                                        *)
LEMMA SumOfSums ==
  ASSUME NEW S, IsFiniteSet(S), NEW f, NEW k, NEW m,
         \A x \in S : f[x] \in Int /\ k[x] \in Int /\ m[x] = f[x] + k[x]
  PROVE  /\ SumFunctionOnSet(f, S) \in Int /\ SumFunctionOnSet(k, S) \in Int
         /\ SumFunctionOnSet(m, S)
              = SumFunctionOnSet(f, S) + SumFunctionOnSet(k, S)
<1>1. PICK g : Sums(f, S, g)
  BY SumsExist
<1>2. PICK h : Sums(k, S, h)
  BY SumsExist
<1> DEFINE s == [t \in SUBSET S |-> g[t] + h[t]]
<1>3. \A t \in SUBSET S : g[t] \in Int /\ h[t] \in Int
  BY <1>1, <1>2 DEF Sums
<1>4. s \in [SUBSET S -> Int] /\ s[{}] = 0
  <2>1. g[{}] = 0 /\ h[{}] = 0 /\ {} \in SUBSET S
    BY <1>1, <1>2 DEF Sums
  <2> QED
    BY <1>3, <2>1
<1>5. ASSUME NEW t \in SUBSET S, NEW x \in t
      PROVE  s[t] = m[x] + s[t \ {x}]
  <2> DEFINE a == g[t \ {x}]
             b == h[t \ {x}]
  <2>1. t \ {x} \in SUBSET S
    OBVIOUS
  <2>2. g[t] = f[x] + a /\ h[t] = k[x] + b
    BY <1>1, <1>2 DEF Sums
  <2>3. a \in Int /\ b \in Int
    BY <1>3, <2>1
  <2>4. s[t] = g[t] + h[t] /\ s[t \ {x}] = a + b
    BY <2>1
  <2>5. f[x] \in Int /\ k[x] \in Int /\ m[x] = f[x] + k[x]
    OBVIOUS
  <2> HIDE DEF a, b, s
  <2> QED
    BY <2>2, <2>3, <2>4, <2>5
<1>6. Sums(m, S, s)
  BY <1>4, <1>5 DEF Sums
<1>7. SumFunctionOnSet(m, S) = s[S] /\ s[S] = g[S] + h[S]
  <2>1. s[S] = g[S] + h[S]
    OBVIOUS
  <2> HIDE DEF s
  <2> QED
    BY <1>6, <2>1, SumIs
<1> HIDE DEF s
<1> QED
  BY <1>1, <1>2, <1>3, <1>7, SumIs

(* What goes from one place to another leaves the sum as it was.           *)
LEMMA SumOfMoved ==
  ASSUME NEW S, IsFiniteSet(S), NEW f, NEW k, NEW from, NEW to, from # to,
         from \in S <=> to \in S, NEW m \in Int,
         \A x \in S : f[x] \in Int,
         \A x \in S : k[x] = IF x = from THEN f[x] - m
                             ELSE IF x = to THEN f[x] + m ELSE f[x]
  PROVE  SumFunctionOnSet(k, S) = SumFunctionOnSet(f, S)
<1>1. CASE from \notin S
  BY <1>1, SumOfSame
<1>2. CASE from \in S
  <2>1. PICK g : Sums(f, S, g)
    BY SumsExist
  <2>2. PICK h : Sums(k, S, h)
    BY SumsExist
  <2> DEFINE rest == (S \ {from}) \ {to}
  <2>3. /\ S \in SUBSET S /\ S \ {from} \in SUBSET S /\ rest \in SUBSET S
        /\ from \in S /\ to \in S \ {from} /\ IsFiniteSet(rest)
    BY <1>2, FS_Subset
  <2>4. /\ g[S] = f[from] + g[S \ {from}] /\ h[S] = k[from] + h[S \ {from}]
        /\ g[S \ {from}] = f[to] + g[rest] /\ h[S \ {from}] = k[to] + h[rest]
        /\ g[rest] \in Int /\ h[rest] \in Int
    BY <2>1, <2>2, <2>3 DEF Sums
  <2>5. h[rest] = g[rest]
    <3>1. \A x \in rest : f[x] \in Int /\ k[x] = f[x]
      OBVIOUS
    <3>2. SumFunctionOnSet(k, rest) = SumFunctionOnSet(f, rest)
      <4> HIDE DEF rest
      <4> QED
        BY <2>3, <3>1, SumOfSame
    <3>3. Sums(f, rest, [t \in SUBSET rest |-> g[t]])
      BY <2>1 DEF Sums
    <3>4. Sums(k, rest, [t \in SUBSET rest |-> h[t]])
      BY <2>2 DEF Sums
    <3> QED
      BY <2>3, <3>2, <3>3, <3>4, SumIs
  <2>6. /\ f[from] \in Int /\ f[to] \in Int
        /\ k[from] = f[from] - m /\ k[to] = f[to] + m
    BY <2>3
  <2>7. h[S] = g[S]
    BY <2>4, <2>5, <2>6
  <2> QED
    BY <2>1, <2>2, <2>7, SumIs
<1> QED
  BY <1>1, <1>2

-----------------------------------------------------------------------------
(* The tables, as commits and damages leave them.                          *)

Tables ==
  /\ accounts \subseteq AccountIds /\ damaged \subseteq accounts
  /\ damage \in [AccountIds -> Int]
  /\ row \in [AccountIds -> Row]
  /\ transfers \subseteq Transfer
  /\ entries \subseteq Entry /\ IsFiniteSet(entries)
  /\ \A e \in entries : e.account \in accounts
  /\ \A e \in entries : \E t \in transfers : t.id = e.transfer
  /\ holds \in [HoldIds -> Hold]
  /\ \A h \in HoldIds : holds[h].status # "none" =>
       holds[h].account \in accounts /\ holds[h].amount \in Amount

(* A balance is off what the entries add up to by the damage done to it.   *)
Books ==
  \A a \in AccountIds :
    /\ SumAmountsByAccount(a) \in Int
    /\ row[a].balance = SumAmountsByAccount(a) + damage[a]
    /\ a \notin damaged => damage[a] = 0

(* The entries in any choice of currencies add up to zero.                 *)
In(K) == {a \in accounts : Currency[a] \in K}
Currencies == {Currency[a] : a \in AccountIds}
Zero == \A K \in SUBSET Currencies : TotalEntries(In(K)) = 0

(* The versions of the entries E of an account whose row is r, and the     *)
(* links between them.                                                     *)
Versioned(E, r) ==
  /\ \A e \in E : e.version <= r.version
  /\ \A e, f \in E : e.version = f.version => e = f
Linked(E, r) ==
  /\ r.balance = BalanceAfter(E)
  /\ \A e \in E : e.prev = BalanceAfter({f \in E : f.version < e.version})
Chains ==
  \A a \in AccountIds :
    /\ Versioned(EntriesFor(a), row[a])
    /\ a \notin damaged => Linked(EntriesFor(a), row[a])

TablesInv == Tables /\ Books /\ Zero /\ Chains

(* The report: the accounts it has compared are in order, unless it says   *)
(* otherwise or they moved or were struck, and so are the totals.          *)
Report ==
  [results : SUBSET AccountIds, discrepancies : SUBSET AccountIds,
   breaks : SUBSET AccountIds, consistent : BOOLEAN,
   raced : SUBSET AccountIds, failed : BOOLEAN, struck : SUBSET AccountIds]
Compared == IF at \in {"balance", "sum"} THEN report.results \ todo
            ELSE report.results
Excused == report.discrepancies \cup report.raced \cup report.struck
Alleged ==
  /\ report \in Report
  /\ at = "wait" => report = NoReport
  /\ Compared \cap Off \subseteq Excused
  /\ at = "chain" /\ report.consistent =>
       \A c \in Uncancelled : Mine(c) \cap report.struck # {}

ReportInv == TablesInv /\ AlarmsExplained /\ Alleged
-----------------------------------------------------------------------------
(* What a step does to the tables.                                         *)

(* t moves its amount in w, which was v, and counts both rows up.          *)
Moved(w, v, t) ==
  \A a \in AccountIds :
    /\ w[a].balance = v[a].balance +
         (IF a = t.from THEN -t.amount ELSE IF a = t.to THEN t.amount ELSE 0)
    /\ w[a].version = v[a].version + (IF a \in {t.from, t.to} THEN 1 ELSE 0)

Posting(t) ==
  /\ \A s \in transfers : s.id # t.id
  /\ t.from # t.to /\ Currency[t.from] = Currency[t.to]
  /\ {t.from, t.to} \subseteq accounts
  /\ transfers' = transfers \cup {t}
  /\ entries' = entries \cup EntriesOf(row, t)
  /\ row' \in [AccountIds -> Row] /\ Moved(row', row, t)
Posts == UNCHANGED <<accounts, damaged, damage>> /\ \E t \in Transfer : Posting(t)

(* Rows keep their balances, and an account may open.                      *)
Keeps ==
  /\ UNCHANGED <<transfers, entries, damaged, damage>>
  /\ \/ accounts' = accounts
     \/ \E a \in AccountIds : a \notin accounts /\ accounts' = accounts \cup {a}
  /\ row' \in [AccountIds -> Row]
  /\ \A a \in AccountIds :
       /\ row'[a].balance = row[a].balance /\ row'[a].version >= row[a].version
Harms == \E a \in AccountIds, by \in Int : Damage(a, by)

(* Types of what the rows become.                                          *)
LEMMA NewRows ==
  ASSUME NEW v \in [AccountIds -> Row], NEW t \in Transfer, t.from # t.to,
         NEW w \in {Posted(v, t), Captured(v, t)}
  PROVE  w \in [AccountIds -> Row] /\ Moved(w, v, t)
<1>1. t.from \in AccountIds /\ t.to \in AccountIds /\ t.amount \in Int
  BY DEF Transfer, Amount
<1>2. ASSUME NEW r \in Row, NEW b \in Int, NEW n \in Int
      PROVE  /\ Updated(r, b, n) \in Row /\ Updated(r, b, n).balance = b
             /\ Updated(r, b, n).version = r.version + 1
  BY DEF Updated, Row
<1>3. \A a \in AccountIds :
        /\ v[a] \in Row /\ v[a].balance \in Int /\ v[a].encumbered \in Int
        /\ v[a].version \in Nat
  BY DEF Row
<1> DEFINE F(e) == Updated(v[t.from], v[t.from].balance - t.amount, e)
           T == Updated(v[t.to], v[t.to].balance + t.amount, v[t.to].encumbered)
<1>4. PICK e \in Int : w = [v EXCEPT ![t.from] = F(e), ![t.to] = T]
  <2>1. v[t.from].encumbered \in Int /\ v[t.from].encumbered - t.amount \in Int
    BY <1>1, <1>3
  <2> QED
    BY <1>1, <2>1 DEF Posted, Captured
<1>5. /\ F(e) \in Row /\ F(e).balance = v[t.from].balance - t.amount
      /\ F(e).version = v[t.from].version + 1
      /\ T \in Row /\ T.balance = v[t.to].balance + t.amount
      /\ T.version = v[t.to].version + 1
  BY <1>1, <1>2, <1>3
<1> HIDE DEF F, T
<1>6. w \in [AccountIds -> Row]
  BY <1>1, <1>4, <1>5
<1>7. \A a \in AccountIds :
        w[a] = IF a = t.to THEN T ELSE IF a = t.from THEN F(e) ELSE v[a]
  BY <1>1, <1>4
<1>8. Moved(w, v, t)
  BY <1>1, <1>3, <1>5, <1>7 DEF Moved
<1> QED
  BY <1>6, <1>8

(* A batch of one.                                                         *)
LEMMA BatchOfOne ==
  ASSUME NEW t, PostBatch(<<t>>)
  PROVE  /\ New(t) /\ Undoes(t) /\ t.hold = None /\ Allowed(row, t)
         /\ transfers' = transfers \cup {t}
         /\ row' = Posted(row, t) /\ entries' = entries \cup EntriesOf(row, t)
         /\ UNCHANGED <<accounts, holds>>
<1> DEFINE base == [row |-> row, entries |-> entries]
           one == <<t>>
           none == <<>>
<1>1. After(none) = base
  <2> DEFINE Iter(h) == [s \in SUBSET DOMAIN none |->
                           IF s = {} THEN base
                           ELSE Post(h[s \ {Max(s)}], none[Max(s)])]
             g == [s \in SUBSET DOMAIN none |-> base]
  <2>1. After(none) = (CHOOSE h : h = Iter(h))[DOMAIN none]
    BY DEF After, FoldLeft, MapThenFoldSet
  <2>2. SUBSET DOMAIN none = {{}} /\ DOMAIN none = {}
    OBVIOUS
  <2>3. g = Iter(g)
    BY <2>2
  <2> DEFINE h == CHOOSE h : h = Iter(h)
  <2>4. h = Iter(h)
    BY <2>3
  <2> HIDE DEF h
  <2>5. h[{}] = base
    BY <2>2, <2>4
  <2> QED
    BY <2>1, <2>2, <2>5 DEF h
<1>2. After(one) = Post(base, t)
  <2> DEFINE Iter(h) == [s \in SUBSET DOMAIN one |->
                           IF s = {} THEN base
                           ELSE Post(h[s \ {Max(s)}], one[Max(s)])]
             g == [s \in SUBSET DOMAIN one |->
                     IF s = {} THEN base ELSE Post(base, t)]
             h == CHOOSE h : h = Iter(h)
  <2>1. After(one) = h[DOMAIN one]
    BY DEF After, FoldLeft, MapThenFoldSet
  <2>2. /\ DOMAIN one = {1} /\ one[1] = t
        /\ \A s \in SUBSET DOMAIN one : s = {} \/ s = {1}
    <3>1. DOMAIN one = {1} /\ one[1] = t
      OBVIOUS
    <3> HIDE DEF one
    <3>2. \A s \in SUBSET {1} : s = {} \/ s = {1}
      OBVIOUS
    <3> QED
      BY <3>1, <3>2
  <2>3. Max({1}) = 1
    BY DEF Max
  <2> HIDE DEF one, base
  <2>4. g = Iter(g)
    <3>1. \A s \in SUBSET DOMAIN one :
            g[s] = IF s = {} THEN base
                   ELSE Post(g[s \ {Max(s)}], one[Max(s)])
      <4> SUFFICES ASSUME NEW s \in SUBSET DOMAIN one
                   PROVE  g[s] = IF s = {} THEN base
                                 ELSE Post(g[s \ {Max(s)}], one[Max(s)])
        OBVIOUS
      <4>1. CASE s = {}
        BY <4>1
      <4>2. CASE s = {1}
        <5>1. s \ {Max(s)} = {} /\ one[Max(s)] = t /\ s # {}
          BY <2>2, <2>3, <4>2
        <5>2. g[{}] = base /\ g[s] = Post(base, t)
          BY <5>1
        <5> HIDE DEF g
        <5> QED
          BY <5>1, <5>2
      <4> QED
        BY <2>2, <4>1, <4>2
    <3> QED
      BY <3>1
  <2>5. h = Iter(h)
    BY <2>4
  <2> HIDE DEF h
  <2>6. h[{}] = base /\ h[{1}] = Post(h[{1} \ {Max({1})}], one[Max({1})])
    <3>1. {} \in SUBSET DOMAIN one /\ {1} \in SUBSET DOMAIN one /\ {1} # {}
      BY <2>2
    <3>2. \A s \in SUBSET DOMAIN one :
            h[s] = IF s = {} THEN base ELSE Post(h[s \ {Max(s)}], one[Max(s)])
      BY <2>5
    <3> HIDE DEF Iter
    <3> QED
      BY <3>1, <3>2
  <2>7. {1} \ {Max({1})} = {}
    BY <2>3
  <2>8. h[{1}] = Post(base, t)
    BY <2>2, <2>3, <2>6, <2>7
  <2> QED
    BY <2>1, <2>2, <2>8
<1>3. /\ Len(<<t>>) = 1 /\ <<t>>[1] = t /\ SubSeq(<<t>>, 1, 1 - 1) = <<>>
      /\ ToSet(<<t>>) = {t}
  BY DEF ToSet
<1>4. /\ New(<<t>>[1]) /\ Undoes(<<t>>[1]) /\ <<t>>[1].hold = None
      /\ Allowed(After(SubSeq(<<t>>, 1, 1 - 1)).row, <<t>>[1])
  BY <1>3 DEF PostBatch
<1>5. New(t) /\ Undoes(t) /\ t.hold = None /\ Allowed(After(<<>>).row, t)
  BY <1>3, <1>4
<1>6. /\ transfers' = transfers \cup {t}
      /\ row' = After(<<t>>).row /\ entries' = After(<<t>>).entries
      /\ UNCHANGED <<accounts, holds>>
  BY <1>3 DEF PostBatch
<1> QED
  BY <1>1, <1>2, <1>5, <1>6 DEF Post

(* What a transfer leaves is a table again.                                *)
LEMMA LegsTyped ==
  ASSUME Tables, NEW t \in Transfer
  PROVE  \A e \in EntriesOf(row, t) :
           /\ e \in Entry /\ e.transfer = t.id /\ e.account \in {t.from, t.to}
<1>1. /\ t.id \in TransferIds /\ t.from \in AccountIds /\ t.to \in AccountIds
      /\ t.amount \in Int /\ -t.amount \in Int
  BY DEF Transfer, Amount
<1>2. \A a \in AccountIds : row[a].balance \in Int /\ row[a].version \in Nat
  BY DEF Tables, Row
<1>3. ASSUME NEW a \in AccountIds, NEW m \in Int
      PROVE  Leg(row, t, a, m) \in Entry /\ Leg(row, t, a, m).transfer = t.id
             /\ Leg(row, t, a, m).account = a
  BY <1>1, <1>2 DEF Leg, Entry
<1> QED
  BY <1>1, <1>3 DEF EntriesOf

LEMMA PostingTables ==
  ASSUME Tables, NEW t \in Transfer, New(t), t.from # t.to,
         {t.from, t.to} \subseteq accounts, Currency[t.from] = Currency[t.to],
         transfers' = transfers \cup {t},
         row' \in {Posted(row, t), Captured(row, t)},
         entries' = entries \cup EntriesOf(row, t),
         UNCHANGED <<accounts, damaged, damage>>, holds' \in [HoldIds -> Hold],
         \A h \in HoldIds : holds'[h].status # "none" =>
           holds'[h].account \in accounts /\ holds'[h].amount \in Amount
  PROVE  Posts /\ Tables'
<1>1. row \in [AccountIds -> Row]
  BY DEF Tables
<1>2. Posts
  BY <1>1, NewRows DEF Posts, Posting, New
<1>3. IsFiniteSet(entries') /\ entries' \subseteq Entry
  <2>1. IsFiniteSet(EntriesOf(row, t))
    <3> DEFINE x == Leg(row, t, t.from, -t.amount)
               y == Leg(row, t, t.to, t.amount)
    <3>1. EntriesOf(row, t) = {x} \cup {y}
      BY DEF EntriesOf
    <3> HIDE DEF x, y
    <3> QED
      <4>1. IsFiniteSet({x})
        BY FS_Singleton
      <4>2. IsFiniteSet({x} \cup {y})
        BY <4>1, FS_AddElement
      <4> QED
        BY <3>1, <4>2
  <2> QED
    BY <2>1, LegsTyped, FS_Union DEF Tables
<1>4. \A e \in entries' : /\ e.account \in accounts
                          /\ \E s \in transfers' : s.id = e.transfer
  BY LegsTyped DEF Tables
<1>5. row' \in [AccountIds -> Row]
  BY <1>2 DEF Posts, Posting
<1> QED
  BY <1>2, <1>3, <1>4, <1>5 DEF Tables

(* The tables change in one of these ways, or not at all.                  *)
LEMMA PayPosts ==
  ASSUME Tables, NEW id \in TransferIds, NEW from \in AccountIds,
         NEW to \in AccountIds, NEW amount \in Amount,
         NEW reversed \in TransferIds \cup {None},
         Pay(id, from, to, amount, reversed), UNCHANGED harm
  PROVE  Posts /\ Tables'
<1> DEFINE t == [id |-> id, from |-> from, to |-> to, amount |-> amount,
                 reversed |-> reversed, hold |-> None]
<1>1. /\ New(t) /\ Allowed(row, t)
      /\ transfers' = transfers \cup {t}
      /\ row' = Posted(row, t) /\ entries' = entries \cup EntriesOf(row, t)
      /\ UNCHANGED <<accounts, holds>>
  BY BatchOfOne DEF Pay
<1>2. t \in Transfer
  BY DEF Transfer
<1>3. /\ t.from # t.to /\ {t.from, t.to} \subseteq accounts
      /\ Currency[t.from] = Currency[t.to]
  BY <1>1 DEF Allowed
<1>4. /\ holds' \in [HoldIds -> Hold]
      /\ \A h \in HoldIds : holds'[h].status # "none" =>
           holds'[h].account \in accounts /\ holds'[h].amount \in Amount
  BY <1>1 DEF Tables
<1> HIDE DEF t
<1> QED
  BY <1>1, <1>2, <1>3, <1>4, PostingTables DEF harm

LEMMA CapturePosts ==
  ASSUME Tables,
         NEW h \in HoldIds, NEW id \in TransferIds, NEW to \in AccountIds,
         CaptureHold(h, id, to), UNCHANGED harm
  PROVE  Posts /\ Tables'
<1> DEFINE t == [id |-> id, from |-> holds[h].account, to |-> to,
                 amount |-> holds[h].amount, reversed |-> None, hold |-> h]
<1>1. /\ holds[h].status = "active"
      /\ New(t) /\ t.from # t.to /\ {t.from, t.to} \subseteq accounts
      /\ Currency[t.from] = Currency[t.to]
      /\ transfers' = transfers \cup {t}
      /\ row' = Captured(row, t) /\ entries' = entries \cup EntriesOf(row, t)
      /\ holds' = [holds EXCEPT ![h].status = "captured"]
      /\ UNCHANGED accounts
  BY DEF CaptureHold
<1>2. t \in Transfer
  BY <1>1 DEF Tables, Transfer
<1>3. /\ holds' \in [HoldIds -> Hold]
      /\ \A k \in HoldIds : holds'[k].status # "none" =>
           holds'[k].account \in accounts /\ holds'[k].amount \in Amount
  BY <1>1 DEF Tables, Hold, HoldStatus
<1> HIDE DEF t
<1> QED
  BY <1>1, <1>2, <1>3, PostingTables DEF harm

(* Statements about holds leave balances and entries alone.                *)
LEMMA HoldKeeps ==
  ASSUME Tables, NEW h \in HoldIds, UNCHANGED harm,
         \/ \E a \in AccountIds, m \in Amount : PlaceHold(h, a, m)
         \/ VoidHold(h)
  PROVE  Keeps /\ Tables'
<1>1. ASSUME NEW a \in AccountIds, NEW n \in Int, row' = Encumber(row, a, n),
             UNCHANGED <<accounts, transfers, entries>>
      PROVE  Keeps
  <2>1. /\ row[a] \in Row /\ row \in [AccountIds -> Row]
        /\ \A b \in AccountIds : row[b].version \in Nat
    BY DEF Tables, Row
  <2>2. /\ Updated(row[a], row[a].balance, n) \in Row
        /\ Updated(row[a], row[a].balance, n).balance = row[a].balance
        /\ Updated(row[a], row[a].balance, n).version = row[a].version + 1
    BY <2>1 DEF Updated, Row
  <2>3. row' = [row EXCEPT ![a] = Updated(row[a], row[a].balance, n)]
    BY <1>1 DEF Encumber
  <2>4. row' \in [AccountIds -> Row]
    BY <2>1, <2>2, <2>3
  <2>5. \A b \in AccountIds :
          /\ row'[b].balance = row[b].balance
          /\ row'[b].version >= row[b].version
    BY <2>1, <2>2, <2>3
  <2> QED
    BY <1>1, <2>4, <2>5 DEF Keeps, Tables, harm
<1>2. ASSUME NEW a \in AccountIds, NEW m \in Amount, PlaceHold(h, a, m)
      PROVE  Keeps /\ Tables'
  <2>1. /\ row' = Encumber(row, a, row[a].encumbered + m)
        /\ a \in accounts /\ UNCHANGED <<accounts, transfers, entries>>
        /\ holds' = [holds EXCEPT ![h] = [account |-> a, amount |-> m,
                                          status |-> "active"]]
    BY <1>2 DEF PlaceHold
  <2>2. row[a].encumbered + m \in Int
    BY DEF Tables, Row, Amount
  <2>3. Keeps
    BY <1>1, <2>1, <2>2
  <2>4. /\ holds' \in [HoldIds -> Hold]
        /\ \A k \in HoldIds : holds'[k].status # "none" =>
             holds'[k].account \in accounts /\ holds'[k].amount \in Amount
    BY <2>1 DEF Tables, Hold, HoldStatus, Amount
  <2> QED
    BY <2>1, <2>3, <2>4 DEF Tables, Keeps, harm
<1>3. CASE VoidHold(h)
  <2>1. /\ row' = Encumber(row, holds[h].account,
                           row[holds[h].account].encumbered - holds[h].amount)
        /\ holds[h].status = "active"
        /\ UNCHANGED <<accounts, transfers, entries>>
        /\ holds' = [holds EXCEPT ![h].status = "voided"]
    BY <1>3 DEF VoidHold
  <2>2. holds[h].account \in AccountIds /\ holds[h].amount \in Int
    BY <2>1 DEF Tables, Amount
  <2>3. row[holds[h].account].encumbered - holds[h].amount \in Int
    BY <2>2 DEF Tables, Row
  <2>4. Keeps
    BY <1>1, <2>1, <2>2, <2>3
  <2>5. /\ holds' \in [HoldIds -> Hold]
        /\ \A k \in HoldIds : holds'[k].status # "none" =>
             holds'[k].account \in accounts /\ holds'[k].amount \in Amount
    BY <2>1 DEF Tables, Hold, HoldStatus
  <2> QED
    BY <2>1, <2>4, <2>5 DEF Tables, Keeps, harm
<1> QED
  BY <1>2, <1>3

(* What a request does to the tables.                                      *)
LEMMA RequestChanges ==
  ASSUME Tables, Request, UNCHANGED harm
  PROVE  (Posts \/ Keeps) /\ Tables'
<1>1. ASSUME NEW id \in NextId
      PROVE  id \in TransferIds
  BY <1>1 DEF NextId
<1>2. ASSUME NEW id \in NextId, NEW x \in Asked,
             Pay(id, x.pay.from, x.pay.to, x.pay.amount, x.reversed)
      PROVE  Posts /\ Tables'
  <2>1. /\ x.pay.from \in AccountIds /\ x.pay.to \in AccountIds
        /\ x.pay.amount \in Amount /\ x.reversed \in TransferIds \cup {None}
    BY ReconciliationAssumption DEF Asked, Tables, Transfer
  <2> QED
    BY <1>1, <1>2, <2>1, PayPosts
<1>3. ASSUME NEW id \in NextId, NEW h \in HoldIds, NEW to \in AccountIds,
             CaptureHold(h, id, to)
      PROVE  Posts /\ Tables'
  BY <1>1, <1>3, CapturePosts
<1>4. ASSUME NEW a \in AccountIds, CreateAccount(a)
      PROVE  Keeps /\ Tables'
  BY <1>4 DEF CreateAccount, Keeps, Tables, Row, harm
<1>5. ASSUME NEW h \in HoldIds,
             \/ \E i \in Holdings : PlaceHold(h, i.account, i.amount)
             \/ VoidHold(h)
      PROVE  Keeps /\ Tables'
  <2>1. \A i \in Holdings : i.account \in AccountIds /\ i.amount \in Amount
    BY ReconciliationAssumption
  <2>2. \/ \E b \in AccountIds, m \in Amount : PlaceHold(h, b, m)
        \/ VoidHold(h)
    BY <1>5, <2>1
  <2> QED
    BY <2>2, HoldKeeps
<1> QED
  BY <1>2, <1>3, <1>4, <1>5 DEF Request

(* The tables change in one of these ways, or not at all.                  *)
LEMMA TablesChange ==
  ASSUME Tables, [NextAll]_allVars
  PROVE  /\ Posts \/ Keeps \/ Harms
         /\ Tables'
<1>1. CASE UNCHANGED <<vars, harm>>
  BY <1>1 DEF vars, harm, Tables, Keeps, Row
<1>2. ASSUME NEW a \in AccountIds, NEW by \in -MaxAmount..MaxAmount,
             Damage(a, by)
      PROVE  Harms /\ Tables'
  <2>1. /\ a \in accounts /\ row' = [row EXCEPT ![a].balance = @ + by]
        /\ damaged' = damaged \cup {a}
        /\ damage' = [damage EXCEPT ![a] = @ + by]
        /\ UNCHANGED <<accounts, transfers, entries, holds>>
    BY <1>2 DEF Damage
  <2>2. by \in Int
    BY TypesAssumption
  <2>3. row' \in [AccountIds -> Row]
    BY <2>1, <2>2 DEF Tables, Row
  <2>4. damage' \in [AccountIds -> Int]
    BY <2>1, <2>2 DEF Tables
  <2> QED
    BY <1>2, <2>1, <2>2, <2>3, <2>4 DEF Harms, Tables
<1> QED
  BY <1>1, <1>2, RequestChanges DEF NextAll, allVars, harm

-----------------------------------------------------------------------------
(* The sums.                                                               *)

Amounts(E) == SumFunction([e \in E |-> e.amount])
Part(t, a) == IF a = t.from THEN -t.amount ELSE t.amount

LEMMA AmountsOfOneMore ==
  ASSUME NEW E, E \subseteq Entry, IsFiniteSet(E), NEW e \in Entry, e \notin E
  PROVE  /\ Amounts(E) \in Int /\ e.amount \in Int
         /\ Amounts(E \cup {e}) = Amounts(E) + e.amount
<1> DEFINE f == [x \in E |-> x.amount]
           k == [x \in E \cup {e} |-> x.amount]
<1>1. \A x \in E \cup {e} : x.amount \in Int
  BY DEF Entry
<1>2. /\ \A x \in E \cup {e} : k[x] \in Int
      /\ \A x \in E : f[x] \in Int /\ k[x] = f[x]
      /\ k[e] = e.amount /\ DOMAIN f = E /\ DOMAIN k = E \cup {e}
  BY <1>1
<1>3. Amounts(E) = SumFunctionOnSet(f, E)
  BY DEF Amounts, SumFunction
<1>4. Amounts(E \cup {e}) = SumFunctionOnSet(k, E \cup {e})
  BY DEF Amounts, SumFunction
<1> HIDE DEF f, k
<1>5. /\ SumFunctionOnSet(k, E) \in Int
      /\ SumFunctionOnSet(k, E \cup {e}) = k[e] + SumFunctionOnSet(k, E)
  BY <1>2, SumOfOneMore
<1>6. SumFunctionOnSet(k, E) = SumFunctionOnSet(f, E)
  BY <1>2, SumOfSame
<1> QED
  BY <1>1, <1>2, <1>3, <1>4, <1>5, <1>6

LEMMA NoAmounts == Amounts({}) = 0
BY SumOfNone DEF Amounts, SumFunction

LEMMA EntriesOfTables ==
  ASSUME Tables
  PROVE  \A a : EntriesFor(a) \subseteq Entry /\ IsFiniteSet(EntriesFor(a))
<1>1. \A a : EntriesFor(a) \in SUBSET entries
  BY DEF EntriesFor
<1> QED
  BY <1>1, FS_Subset DEF Tables

(* A transfer adds an entry to each of its accounts.                       *)
LEMMA PostedEntries ==
  ASSUME Tables, NEW t \in Transfer, Posting(t)
  PROVE  /\ \A a \in AccountIds \ {t.from, t.to} :
              EntriesFor(a)' = EntriesFor(a)
         /\ \A a \in {t.from, t.to} :
              LET e == Leg(row, t, a, Part(t, a)) IN
              /\ EntriesFor(a)' = EntriesFor(a) \cup {e}
              /\ e \notin EntriesFor(a) /\ e \in Entry
<1>1. /\ entries' = entries \cup EntriesOf(row, t) /\ t.from # t.to
      /\ \A s \in transfers : s.id # t.id
  BY DEF Posting
<1>2. EntriesOf(row, t) = {Leg(row, t, a, Part(t, a)) : a \in {t.from, t.to}}
  BY <1>1 DEF EntriesOf, Part
<1>3. \A a \in {t.from, t.to} :
        LET e == Leg(row, t, a, Part(t, a)) IN
        e \in Entry /\ e.transfer = t.id /\ e.account = a
  <2>1. \A a \in {t.from, t.to} : LET e == Leg(row, t, a, Part(t, a)) IN
          e \in EntriesOf(row, t) /\ e.transfer = t.id /\ e.account = a
    BY <1>2 DEF Leg
  <2> QED
    BY <2>1, LegsTyped
<1>4. \A e \in entries : e.transfer # t.id
  BY <1>1 DEF Tables
<1>5. ASSUME NEW a \in AccountIds \ {t.from, t.to}
      PROVE  EntriesFor(a)' = EntriesFor(a)
  BY <1>1, <1>2, <1>3 DEF EntriesFor
<1>6. ASSUME NEW a \in {t.from, t.to}
      PROVE  LET e == Leg(row, t, a, Part(t, a)) IN
             /\ EntriesFor(a)' = EntriesFor(a) \cup {e}
             /\ e \notin EntriesFor(a)
  BY <1>1, <1>2, <1>3, <1>4 DEF EntriesFor
<1> QED
  BY <1>3, <1>5, <1>6

(* What an account has entered, and what a transfer does to it.            *)
LEMMA AmountsType ==
  ASSUME NEW E, E \subseteq Entry, IsFiniteSet(E)
  PROVE  Amounts(E) \in Int
<1> DEFINE f == [x \in E |-> x.amount]
<1>1. Amounts(E) = SumFunctionOnSet(f, E) /\ \A x \in E : f[x] \in Int
  BY DEF Amounts, SumFunction, Entry
<1> HIDE DEF f
<1> QED
  BY <1>1, SumType

LEMMA EnteredType ==
  ASSUME Tables PROVE \A a : SumAmountsByAccount(a) \in Int
<1> SUFFICES ASSUME NEW a PROVE SumAmountsByAccount(a) \in Int
  OBVIOUS
<1>1. SumAmountsByAccount(a) = Amounts(EntriesFor(a))
  BY DEF SumAmountsByAccount, Amounts
<1>2. EntriesFor(a) \subseteq Entry /\ IsFiniteSet(EntriesFor(a))
  BY EntriesOfTables
<1> QED
  BY <1>1, <1>2, AmountsType

LEMMA EnteredTypeNext ==
  ASSUME Tables' PROVE \A a : SumAmountsByAccount(a)' \in Int
<1> SUFFICES ASSUME NEW a PROVE SumAmountsByAccount(a)' \in Int
  OBVIOUS
<1>1. SumAmountsByAccount(a)' = Amounts(EntriesFor(a)')
  BY DEF SumAmountsByAccount, Amounts
<1>2. EntriesFor(a)' \in SUBSET entries'
  BY DEF EntriesFor
<1>3. EntriesFor(a)' \subseteq Entry /\ IsFiniteSet(EntriesFor(a)')
  BY <1>2, FS_Subset DEF Tables
<1> QED
  BY <1>1, <1>3, AmountsType

LEMMA EnteredPosted ==
  ASSUME Tables, NEW t \in Transfer, Posting(t), NEW a \in AccountIds
  PROVE  SumAmountsByAccount(a)' = SumAmountsByAccount(a) +
           (IF a = t.from THEN -t.amount ELSE IF a = t.to THEN t.amount ELSE 0)
<1>1. /\ SumAmountsByAccount(a) = Amounts(EntriesFor(a))
      /\ SumAmountsByAccount(a)' = Amounts(EntriesFor(a)')
  BY DEF SumAmountsByAccount, Amounts
<1>2. SumAmountsByAccount(a) \in Int
  BY EnteredType
<1>3. CASE a \in {t.from, t.to}
  <2> DEFINE e == Leg(row, t, a, Part(t, a))
  <2>1. /\ EntriesFor(a)' = EntriesFor(a) \cup {e}
        /\ e \notin EntriesFor(a) /\ e \in Entry
    BY <1>3, PostedEntries
  <2>2. e.amount = Part(t, a)
    BY DEF Leg
  <2> HIDE DEF e
  <2>3. Amounts(EntriesFor(a) \cup {e}) = Amounts(EntriesFor(a)) + e.amount
    BY <2>1, EntriesOfTables, AmountsOfOneMore
  <2> QED
    BY <1>1, <1>3, <2>1, <2>2, <2>3 DEF Part
<1>4. CASE a \notin {t.from, t.to}
  BY <1>1, <1>2, <1>4, PostedEntries
<1> QED
  BY <1>3, <1>4

LEMMA EnteredKept ==
  entries' = entries =>
    \A a : /\ EntriesFor(a)' = EntriesFor(a)
           /\ SumAmountsByAccount(a)' = SumAmountsByAccount(a)
BY DEF EntriesFor, SumAmountsByAccount

LEMMA BooksStep ==
  ASSUME Tables, Books, Tables', Posts \/ Keeps \/ Harms
  PROVE  Books'
<1>1. \A a \in AccountIds : row[a].balance \in Int
  BY DEF Tables, Row
<1>2. \A a : SumAmountsByAccount(a)' \in Int /\ SumAmountsByAccount(a) \in Int
  BY EnteredType, EnteredTypeNext
<1>3. CASE Posts
  <2>1. PICK t \in Transfer : Posting(t)
    BY <1>3 DEF Posts
  <2>2. t.amount \in Int /\ damaged' = damaged /\ damage' = damage
    BY <1>3 DEF Transfer, Amount, Posts
  <2>3. ASSUME NEW a \in AccountIds
        PROVE  row'[a].balance = SumAmountsByAccount(a)' + damage[a]
    <3> DEFINE d == IF a = t.from THEN -t.amount
                    ELSE IF a = t.to THEN t.amount ELSE 0
               b == row[a].balance
               s == SumAmountsByAccount(a)
               o == damage[a]
    <3>1. /\ row'[a].balance = b + d /\ d \in Int
          /\ SumAmountsByAccount(a)' = s + d
      BY <2>1, <2>2, EnteredPosted DEF Posting, Moved
    <3>2. b = s + o /\ s \in Int /\ o \in Int
      BY <1>2 DEF Books, Tables
    <3> HIDE DEF d, b, s, o
    <3>3. row'[a].balance = SumAmountsByAccount(a)' + o
      BY <3>1, <3>2
    <3> QED
      BY <3>3 DEF o
  <2> QED
    BY <1>2, <2>2, <2>3 DEF Books
<1>4. CASE Keeps
  BY <1>2, <1>4, EnteredKept DEF Keeps, Books
<1>5. CASE Harms
  <2>1. PICK h \in AccountIds, by \in Int : Damage(h, by)
    BY <1>5 DEF Harms
  <2>2. /\ row' = [row EXCEPT ![h].balance = @ + by]
        /\ damage' = [damage EXCEPT ![h] = @ + by]
        /\ damaged' = damaged \cup {h} /\ entries' = entries
    BY <2>1 DEF Damage
  <2>3. ASSUME NEW a \in AccountIds
        PROVE  /\ row'[a].balance = SumAmountsByAccount(a) + damage'[a]
               /\ a \notin damaged' => damage'[a] = 0
    <3>1. /\ row'[a].balance = row[a].balance + (IF a = h THEN by ELSE 0)
          /\ damage'[a] = damage[a] + (IF a = h THEN by ELSE 0)
          /\ damage[a] \in Int
      BY <1>1, <2>2 DEF Tables, Row
    <3>2. /\ row[a].balance = SumAmountsByAccount(a) + damage[a]
          /\ a \notin damaged => damage[a] = 0
      BY DEF Books
    <3> QED
      BY <1>1, <1>2, <2>2, <3>1, <3>2
  <2> QED
    BY <1>2, <2>2, <2>3, EnteredKept DEF Books
<1> QED
  BY <1>3, <1>4, <1>5

(* Totals.                                                                 *)
LEMMA InFinite ==
  Tables => \A K : IsFiniteSet(In(K)) /\ In(K) \subseteq AccountIds
<1> SUFFICES ASSUME Tables, NEW K
             PROVE  IsFiniteSet(In(K)) /\ In(K) \subseteq AccountIds
  OBVIOUS
<1>1. In(K) \in SUBSET AccountIds
  BY DEF Tables, In
<1> QED
  BY <1>1, FS_Subset, TypesAssumption

LEMMA ZeroStep ==
  ASSUME Tables, Zero, Tables', Posts \/ Keeps \/ Harms
  PROVE  Zero'
<1> SUFFICES ASSUME NEW K \in SUBSET Currencies
             PROVE  TotalEntries(In(K))' = 0
  BY DEF Zero, Currencies
<1> DEFINE A == In(K)
           f == [a \in A |-> SumAmountsByAccount(a)]
           k == [a \in In(K)' |-> SumAmountsByAccount(a)']
<1>1. TotalEntries(A) = 0
  BY DEF Zero
<1>2. TotalEntries(A) = SumFunctionOnSet(f, A)
  BY DEF TotalEntries, SumFunction
<1>3. TotalEntries(In(K))' = SumFunctionOnSet(k, In(K)')
  BY DEF TotalEntries, SumFunction
<1>4. IsFiniteSet(A) /\ A \subseteq AccountIds
  BY InFinite
<1>5. \A a : SumAmountsByAccount(a)' \in Int /\ SumAmountsByAccount(a) \in Int
  BY EnteredType, EnteredTypeNext
<1>6. \A a \in A : f[a] = SumAmountsByAccount(a) /\ f[a] \in Int
  BY <1>5
<1>7. \A a \in In(K)' : k[a] = SumAmountsByAccount(a)' /\ k[a] \in Int
  BY <1>5
<1>8. A = {a \in accounts : Currency[a] \in K}
      /\ In(K)' = {a \in accounts' : Currency[a] \in K}
  BY DEF In
<1> HIDE DEF f, k, A
<1>9. CASE Posts
  <2>1. PICK t \in Transfer : Posting(t)
    BY <1>9 DEF Posts
  <2>2. /\ t.amount \in Int /\ In(K)' = A
        /\ t.from # t.to /\ (t.from \in A <=> t.to \in A)
    BY <1>8, <1>9, <2>1 DEF Transfer, Amount, Posts, Posting
  <2>3. \A a \in A : k[a] = IF a = t.from THEN f[a] - t.amount
                            ELSE IF a = t.to THEN f[a] + t.amount ELSE f[a]
    <3> SUFFICES ASSUME NEW a \in A
                 PROVE  k[a] = IF a = t.from THEN f[a] - t.amount
                               ELSE IF a = t.to THEN f[a] + t.amount ELSE f[a]
      OBVIOUS
    <3>1. SumAmountsByAccount(a)' = SumAmountsByAccount(a) +
           (IF a = t.from THEN -t.amount ELSE IF a = t.to THEN t.amount ELSE 0)
      BY <1>4, <2>1, EnteredPosted
    <3> QED
      BY <1>6, <1>7, <2>2, <3>1
  <2>4. SumFunctionOnSet(k, A) = SumFunctionOnSet(f, A)
    <3> DEFINE from == t.from
               to == t.to
               m == t.amount
    <3>1. /\ from # to /\ (from \in A <=> to \in A) /\ m \in Int
          /\ \A a \in A : f[a] \in Int
          /\ \A a \in A : k[a] = IF a = from THEN f[a] - m
                                 ELSE IF a = to THEN f[a] + m ELSE f[a]
      BY <1>6, <2>2, <2>3
    <3> HIDE DEF from, to, m
    <3> QED
      BY <1>4, <3>1, SumOfMoved
  <2> QED
    BY <1>1, <1>2, <1>3, <2>2, <2>4
<1>10. ASSUME entries' = entries, In(K)' = A
       PROVE  TotalEntries(In(K))' = 0
  <2>1. \A a \in A : f[a] \in Int /\ k[a] = f[a]
    BY <1>6, <1>7, <1>10, EnteredKept
  <2>2. SumFunctionOnSet(k, A) = SumFunctionOnSet(f, A)
    BY <1>4, <2>1, SumOfSame
  <2> QED
    BY <1>1, <1>2, <1>3, <1>10, <2>2
<1>11. ASSUME entries' = entries, NEW a, a \notin accounts, In(K)' = A \cup {a}
       PROVE  TotalEntries(In(K))' = 0
  <2>1. a \notin A
    BY <1>8, <1>11
  <2>2. k[a] = 0
    <3>1. EntriesFor(a) = {}
      BY <1>11 DEF Tables, EntriesFor
    <3>2. SumAmountsByAccount(a) = Amounts(EntriesFor(a))
      BY DEF SumAmountsByAccount, Amounts
    <3>3. SumAmountsByAccount(a)' = 0
      BY <1>11, <3>1, <3>2, NoAmounts, EnteredKept
    <3> QED
      BY <1>7, <1>11, <3>3
  <2>3. \A x \in A : f[x] \in Int /\ k[x] = f[x]
    BY <1>6, <1>7, <1>11, EnteredKept
  <2>4. \A x \in A \cup {a} : k[x] \in Int
    BY <1>7, <1>11
  <2>5. /\ SumFunctionOnSet(k, A \cup {a}) = k[a] + SumFunctionOnSet(k, A)
        /\ SumFunctionOnSet(k, A) \in Int
    BY <1>4, <2>1, <2>4, SumOfOneMore
  <2>6. SumFunctionOnSet(k, A) = SumFunctionOnSet(f, A)
    BY <1>4, <2>3, SumOfSame
  <2> QED
    BY <1>1, <1>2, <1>3, <1>11, <2>2, <2>5, <2>6
<1>12. CASE Keeps
  <2>1. entries' = entries
    BY <1>12 DEF Keeps
  <2>2. CASE accounts' = accounts
    BY <1>8, <1>10, <2>1, <2>2
  <2>3. ASSUME NEW a \in AccountIds, a \notin accounts,
               accounts' = accounts \cup {a}
        PROVE  TotalEntries(In(K))' = 0
    <3>1. CASE Currency[a] \in K
      <4>1. In(K)' = A \cup {a}
        BY <1>8, <2>3, <3>1
      <4> QED
        BY <1>11, <2>1, <2>3, <4>1
    <3>2. CASE Currency[a] \notin K
      <4>1. In(K)' = A
        BY <1>8, <2>3, <3>2
      <4> QED
        BY <1>10, <2>1, <4>1
    <3> QED
      BY <3>1, <3>2
  <2> QED
    BY <1>12, <2>2, <2>3 DEF Keeps
<1>13. CASE Harms
  <2>1. entries' = entries /\ accounts' = accounts
    BY <1>13 DEF Harms, Damage
  <2> QED
    BY <1>8, <1>10, <2>1
<1> QED
  BY <1>9, <1>12, <1>13

-----------------------------------------------------------------------------
(* The chains.                                                             *)

LEMMA LatestIs ==
  ASSUME NEW E, E \subseteq Entry, NEW e \in E,
         \A f \in E \ {e} : f.version < e.version
  PROVE  Latest(E) = e /\ BalanceAfter(E) = e.current
<1>1. \A f \in E : f.version \in Nat
  BY DEF Entry
<1>2. \A f \in E : f.version <= e.version
  BY <1>1
<1>3. ASSUME NEW x \in E, \A f \in E : f.version <= x.version PROVE x = e
  <2>1. e.version <= x.version /\ e.version \in Nat /\ x.version \in Nat
    BY <1>1, <1>3
  <2> QED
    BY <2>1
<1>4. Latest(E) = e
  BY <1>2, <1>3 DEF Latest
<1> QED
  BY <1>4 DEF BalanceAfter

(* One more entry, made from the row as it was.                            *)
LEMMA LinkedMore ==
  ASSUME NEW E, E \subseteq Entry, NEW e \in Entry,
         NEW r \in Row, NEW s \in Row,
         e.version = r.version + 1, s.version = r.version + 1,
         e.prev = r.balance, e.current = s.balance, Versioned(E, r)
  PROVE  /\ Versioned(E \cup {e}, s)
         /\ Linked(E, r) => Linked(E \cup {e}, s)
<1>1. \A f \in E : f.version \in Nat /\ f.version <= r.version
  BY DEF Entry, Versioned
<1>2. r.version \in Nat
  BY DEF Row
<1>3. \A f \in E : f.version < e.version /\ f # e
  BY <1>1, <1>2
<1>4. Versioned(E \cup {e}, s)
  <2>1. \A f \in E \cup {e} : f.version <= s.version
    BY <1>1, <1>2
  <2>2. ASSUME NEW f \in E \cup {e}, NEW g \in E \cup {e}, f.version = g.version
        PROVE  f = g
    <3>1. CASE f \in E /\ g \in E
      BY <2>2, <3>1 DEF Versioned
    <3>2. CASE f \in E /\ g = e
      BY <1>1, <1>2, <2>2, <3>2
    <3>3. CASE f = e /\ g \in E
      BY <1>1, <1>2, <2>2, <3>3
    <3> QED
      BY <3>1, <3>2, <3>3
  <2> QED
    BY <2>1, <2>2 DEF Versioned
<1>5. ASSUME Linked(E, r) PROVE Linked(E \cup {e}, s)
  <2>1. BalanceAfter(E \cup {e}) = e.current
    BY <1>3, LatestIs
  <2>2. ASSUME NEW g \in E \cup {e}
        PROVE  g.prev = BalanceAfter({f \in E \cup {e} : f.version < g.version})
    <3>1. CASE g = e
      <4>1. {f \in E \cup {e} : f.version < g.version} = E
        BY <1>2, <1>3, <3>1
      <4> QED
        BY <1>5, <3>1, <4>1 DEF Linked
    <3>2. CASE g \in E
      <4>1. {f \in E \cup {e} : f.version < g.version} =
              {f \in E : f.version < g.version}
        BY <1>1, <1>2, <3>2
      <4> QED
        BY <1>5, <3>2, <4>1 DEF Linked
    <3> QED
      BY <3>1, <3>2
  <2> QED
    BY <2>1, <2>2 DEF Linked
<1> QED
  BY <1>4, <1>5

LEMMA PostedChain ==
  ASSUME Tables, Chains, Tables', NEW t \in Transfer, Posting(t),
         NEW a \in {t.from, t.to}
  PROVE  LET e == Leg(row, t, a, Part(t, a)) IN
         /\ Versioned(EntriesFor(a) \cup {e}, row'[a])
         /\ Linked(EntriesFor(a), row[a]) =>
              Linked(EntriesFor(a) \cup {e}, row'[a])
<1> DEFINE e == Leg(row, t, a, Part(t, a))
<1>1. a \in AccountIds /\ t.from # t.to
  BY DEF Transfer, Posting
<1>2. /\ row[a] \in Row /\ row'[a] \in Row /\ EntriesFor(a) \subseteq Entry
      /\ Versioned(EntriesFor(a), row[a])
  BY <1>1, EntriesOfTables DEF Tables, Chains
<1>3. e \in Entry
  BY PostedEntries
<1>4. /\ e.version = row[a].version + 1 /\ e.prev = row[a].balance
      /\ e.current = row[a].balance + Part(t, a)
  BY DEF Leg
<1>5. /\ row'[a].version = row[a].version + 1
      /\ row'[a].balance = row[a].balance + Part(t, a)
  BY <1>1 DEF Posting, Moved, Part
<1> HIDE DEF e
<1> QED
  BY <1>2, <1>3, <1>4, <1>5, LinkedMore DEF e

LEMMA ChainsStep ==
  ASSUME Tables, Chains, Tables', Posts \/ Keeps \/ Harms
  PROVE  Chains'
<1> SUFFICES ASSUME NEW a \in AccountIds
             PROVE  /\ Versioned(EntriesFor(a)', row'[a])
                    /\ a \notin damaged' => Linked(EntriesFor(a)', row'[a])
  BY DEF Chains, Versioned, Linked, BalanceAfter, Latest
<1>1. /\ Versioned(EntriesFor(a), row[a])
      /\ a \notin damaged => Linked(EntriesFor(a), row[a])
  BY DEF Chains
<1>2. ASSUME EntriesFor(a)' = EntriesFor(a), row'[a].version >= row[a].version,
             a \notin damaged' =>
               a \notin damaged /\ row'[a].balance = row[a].balance
      PROVE  /\ Versioned(EntriesFor(a)', row'[a])
             /\ a \notin damaged' => Linked(EntriesFor(a)', row'[a])
  <2>1. /\ row[a].version \in Nat /\ row'[a].version \in Nat
        /\ \A e \in EntriesFor(a) : e.version \in Nat
    BY EntriesOfTables DEF Tables, Row, Entry
  <2>2. Versioned(EntriesFor(a), row'[a])
    BY <1>1, <1>2, <2>1 DEF Versioned
  <2>3. a \notin damaged' => Linked(EntriesFor(a), row'[a])
    BY <1>1, <1>2 DEF Linked
  <2> QED
    BY <1>2, <2>2, <2>3
<1>3. CASE Posts
  <2>1. PICK t \in Transfer : Posting(t)
    BY <1>3 DEF Posts
  <2>2. damaged' = damaged
    BY <1>3 DEF Posts
  <2>3. CASE a \in {t.from, t.to}
    <3>1. EntriesFor(a)' = EntriesFor(a) \cup {Leg(row, t, a, Part(t, a))}
      BY <2>1, <2>3, PostedEntries
    <3> QED
      BY <1>1, <2>1, <2>2, <2>3, <3>1, PostedChain
  <2>4. CASE a \notin {t.from, t.to}
    <3>1. EntriesFor(a)' = EntriesFor(a)
      BY <2>1, <2>4, PostedEntries
    <3>2. row'[a].version = row[a].version /\ row'[a].balance = row[a].balance
      <4>1. row[a].version \in Nat /\ row[a].balance \in Int
        BY DEF Tables, Row
      <4> QED
        BY <2>1, <2>4, <4>1 DEF Posting, Moved
    <3>3. row[a].version \in Nat
      BY DEF Tables, Row
    <3> QED
      BY <1>2, <2>2, <3>1, <3>2, <3>3
  <2> QED
    BY <2>3, <2>4
<1>4. CASE Keeps
  BY <1>2, <1>4, EnteredKept DEF Keeps
<1>5. CASE Harms
  <2>1. PICK h \in AccountIds, by \in Int : Damage(h, by)
    BY <1>5 DEF Harms
  <2>2. /\ row' = [row EXCEPT ![h].balance = @ + by]
        /\ damaged' = damaged \cup {h} /\ entries' = entries
    BY <2>1 DEF Damage
  <2>3. /\ row'[a].version = row[a].version /\ row[a].version \in Nat
        /\ a # h => row'[a].balance = row[a].balance
    BY <2>2 DEF Tables, Row
  <2> QED
    BY <1>2, <2>2, <2>3, EnteredKept
<1> QED
  BY <1>3, <1>4, <1>5

(* Together: what holds of the tables at any time.                         *)
LEMMA TablesInit == InitAll => TablesInv
<1> SUFFICES ASSUME InitAll PROVE TablesInv
  OBVIOUS
<1> USE DEF InitAll, InitReconciler
<1>1. /\ accounts = {} /\ transfers = {} /\ entries = {}
      /\ row = [a \in AccountIds |-> NewRow]
      /\ holds = [h \in HoldIds |-> NoHold]
  BY DEF Init
<1>2. Tables
  <2>1. NoHold \in Hold /\ NewRow \in Row
    BY TypesAssumption DEF NoHold, Hold, HoldStatus, NewRow, Row
  <2>2. \A h \in HoldIds : holds[h].status = "none"
    BY <1>1 DEF NoHold
  <2> QED
    BY <1>1, <2>1, <2>2, FS_EmptySet DEF Tables
<1>3. \A a : EntriesFor(a) = {} /\ SumAmountsByAccount(a) = 0
  <2>1. \A a : EntriesFor(a) = {}
    BY <1>1 DEF EntriesFor
  <2>2. \A a : SumAmountsByAccount(a) = Amounts(EntriesFor(a))
    BY DEF SumAmountsByAccount, Amounts
  <2> QED
    BY <2>1, <2>2, NoAmounts
<1>4. Books
  BY <1>1, <1>3 DEF Books, NewRow
<1>5. Zero
  <2>1. \A K : In(K) = {}
    BY <1>1 DEF In
  <2>2. TotalEntries({}) = 0
    BY SumOfNone DEF TotalEntries, SumFunction
  <2> QED
    BY <2>1, <2>2 DEF Zero
<1>6. Chains
  BY <1>1, <1>3 DEF Chains, Versioned, Linked, BalanceAfter, NewRow
<1> QED
  BY <1>2, <1>4, <1>5, <1>6 DEF TablesInv

LEMMA TablesStep == TablesInv /\ [NextAll]_allVars => TablesInv'
BY TablesChange, BooksStep, ZeroStep, ChainsStep DEF TablesInv

LEMMA TablesAlways == SpecAll => []TablesInv
<1>1. InitAll => TablesInv
  BY TablesInit
<1> QED
  BY <1>1, TablesStep, PTL DEF SpecAll

-----------------------------------------------------------------------------
(* What the checks of a run find in such tables.                           *)

LEMMA MineIsIn == \A c : Mine(c) = In({c})
BY DEF Mine, In

(* Undamaged, everything adds up.                                          *)
LEMMA AddsUp == TablesInv => ConsistentUntilDamaged
<1> SUFFICES ASSUME TablesInv, damaged = {}
             PROVE  /\ CheckLedgerConsistency /\ CheckConsistency
                    /\ \A c \in {Currency[a] : a \in accounts} :
                         TotalBalance(Mine(c)) = 0
  BY DEF ConsistentUntilDamaged
<1>1. accounts \subseteq AccountIds
  BY DEF TablesInv, Tables
<1>2. ASSUME NEW A, A \subseteq accounts
      PROVE  TotalBalance(A) = TotalEntries(A)
  <2>1. \A a \in A : row[a].balance = SumAmountsByAccount(a)
    <3>1. \A a \in A : /\ row[a].balance = SumAmountsByAccount(a) + damage[a]
                       /\ damage[a] = 0 /\ SumAmountsByAccount(a) \in Int
      BY <1>1, <1>2 DEF TablesInv, Books
    <3> QED
      BY <3>1
  <2>2. [a \in A |-> row[a].balance] = [a \in A |-> SumAmountsByAccount(a)]
    BY <2>1
  <2> QED
    BY <2>2 DEF TotalBalance, TotalEntries
<1>3. ASSUME NEW K \in SUBSET Currencies
      PROVE  TotalBalance(In(K)) = 0 /\ TotalEntries(In(K)) = 0
  <2>1. In(K) \subseteq accounts
    BY DEF In
  <2> QED
    BY <1>2, <2>1 DEF TablesInv, Zero
<1>4. \A c \in {Currency[a] : a \in accounts} :
        TotalBalance(Mine(c)) = 0 /\ TotalEntries(Mine(c)) = 0
  BY <1>1, <1>3, MineIsIn DEF Currencies
<1>5. In(Currencies) = accounts
  BY <1>1 DEF In, Currencies
<1>6. TotalBalance(accounts) = 0 /\ TotalEntries(accounts) = 0
  BY <1>3, <1>5
<1> QED
  BY <1>4, <1>6 DEF CheckLedgerConsistency, CheckConsistency

(* The totals of a currency differ by the damage done in it.               *)
LEMMA TotalsShow ==
  TablesInv => (CheckLedgerConsistency <=> Uncancelled = {})
<1> SUFFICES ASSUME TablesInv, NEW c
             PROVE  TotalBalance(Mine(c)) = TotalEntries(Mine(c))
                      <=> TotalDamage(Mine(c)) = 0
  BY DEF CheckLedgerConsistency, Uncancelled
<1> DEFINE A == Mine(c)
           f == [a \in A |-> SumAmountsByAccount(a)]
           k == [a \in A |-> damage[a]]
           m == [a \in A |-> row[a].balance]
<1>1. IsFiniteSet(A) /\ A \subseteq AccountIds
  BY MineIsIn, InFinite DEF TablesInv
<1>2. /\ TotalBalance(A) = SumFunctionOnSet(m, A)
      /\ TotalEntries(A) = SumFunctionOnSet(f, A)
      /\ TotalDamage(A) = SumFunctionOnSet(k, A)
  BY DEF TotalBalance, TotalEntries, TotalDamage, SumFunction
<1>3. \A a \in A : f[a] \in Int /\ k[a] \in Int /\ m[a] = f[a] + k[a]
  BY <1>1 DEF TablesInv, Tables, Books
<1> HIDE DEF A, f, k, m
<1>4. /\ SumFunctionOnSet(f, A) \in Int /\ SumFunctionOnSet(k, A) \in Int
      /\ SumFunctionOnSet(m, A)
           = SumFunctionOnSet(f, A) + SumFunctionOnSet(k, A)
  BY <1>1, <1>3, SumOfSums
<1>5. TotalBalance(A) = TotalEntries(A) <=> TotalDamage(A) = 0
  BY <1>2, <1>4
<1> QED
  BY <1>5 DEF A

-----------------------------------------------------------------------------
(* Where a link is broken, the account was damaged or a version is missing.*)
LEMMA Contiguous ==
  ASSUME TablesInv, NEW a \in AccountIds, a \notin damaged, ~ Gapped(a)
  PROVE  VerifyEntryChain(a)
<1> DEFINE E == EntriesFor(a)
           n == Cardinality(E)
<1>1. Versioned(E, row[a]) /\ Linked(E, row[a])
  BY DEF TablesInv, Chains
<1>2. E \subseteq Entry /\ n \in Nat /\ \A e \in E : e.version \in Nat
  BY EntriesOfTables, FS_CardinalityType DEF TablesInv, Entry
<1>3. {e.version : e \in E} = 1..n
  BY DEF Gapped
<1> HIDE DEF n
<1> SUFFICES ASSUME NEW e \in E
             PROVE  IF Before(a, e) = {} THEN e.version = 1
                    ELSE LET f == Latest(Before(a, e)) IN
                         e.prev = f.current /\ e.version = f.version + 1
  BY DEF VerifyEntryChain
<1>4. Before(a, e) = {f \in E : f.version < e.version}
  BY DEF Before
<1> HIDE DEF E
<1>5. e.version \in 1..n /\ e.version \in Nat
  BY <1>2, <1>3
<1>6. CASE e.version = 1
  <2>1. \A f \in E : f.version \in 1..n
    BY <1>3
  <2>2. \A f \in E : ~ (f.version < e.version)
    BY <1>2, <1>6, <2>1
  <2> QED
    BY <1>4, <1>6, <2>2
<1>7. CASE e.version # 1
  <2>1. e.version - 1 \in 1..n
    BY <1>2, <1>5, <1>7
  <2>2. PICK f \in E : f.version = e.version - 1
    BY <1>3, <2>1
  <2>3. f \in Before(a, e)
    BY <1>4, <1>5, <2>2
  <2>4. \A g \in Before(a, e) \ {f} : g.version < f.version
    <3> SUFFICES ASSUME NEW g \in Before(a, e), g # f
                 PROVE  g.version < f.version
      OBVIOUS
    <3>1. g \in E /\ g.version < e.version /\ g.version \in Nat
      BY <1>2, <1>4
    <3>2. g.version # f.version
      BY <1>1, <3>1 DEF Versioned
    <3> QED
      BY <1>5, <2>2, <3>1, <3>2
  <2>5. Latest(Before(a, e)) = f /\ BalanceAfter(Before(a, e)) = f.current
    BY <1>2, <1>4, <2>3, <2>4, LatestIs
  <2>6. e.prev = BalanceAfter(Before(a, e))
    BY <1>1, <1>4 DEF Linked
  <2> QED
    BY <1>5, <2>2, <2>3, <2>5, <2>6
<1> QED
  BY <1>6, <1>7

(* A version that is missing stays missing: later entries have larger ones.*)
LEMMA GapsStay ==
  ASSUME TablesInv, [NextAll]_allVars, NEW a \in AccountIds, Gapped(a)
  PROVE  Gapped(a)'
<1> DEFINE E == EntriesFor(a)
           V == {e.version : e \in E}
           n == Cardinality(E)
<1>1. /\ Posts \/ Keeps \/ Harms
      /\ IsFiniteSet(E) /\ E \subseteq Entry /\ n \in Nat
  BY TablesChange, EntriesOfTables, FS_CardinalityType DEF TablesInv
<1>2. CASE EntriesFor(a)' = E
  BY <1>2 DEF Gapped
<1>3. ASSUME NEW e \in Entry, e \notin E, EntriesFor(a)' = E \cup {e},
             e.version = row[a].version + 1
      PROVE  Gapped(a)'
  <2>1. Cardinality(E \cup {e}) = n + 1
    BY <1>1, <1>3, FS_AddElement
  <2>2. {x.version : x \in E \cup {e}} = V \cup {e.version}
    OBVIOUS
  <2>3. V # 1..n
    BY DEF Gapped
  <2>4. \A v \in V : v \in Nat /\ v < e.version
    <3>1. \A x \in E : x.version \in Nat /\ x.version <= row[a].version
      BY <1>1 DEF TablesInv, Chains, Versioned, Entry
    <3>2. row[a].version \in Nat
      BY DEF TablesInv, Tables, Row
    <3> QED
      BY <1>3, <3>1, <3>2
  <2>5. e.version \in Nat
    BY DEF Entry
  <2> HIDE DEF V, n
  <2>6. ASSUME V \cup {e.version} = 1..(n + 1) PROVE FALSE
    <3>1. n + 1 \in V \cup {e.version} /\ e.version \in 1..(n + 1)
      BY <1>1, <2>6
    <3>2. e.version = n + 1
      BY <1>1, <2>4, <2>5, <3>1
    <3>3. ASSUME NEW v PROVE v \in V <=> v \in 1..n
      <4>1. v \in V => v \in 1..(n + 1) /\ v < n + 1
        BY <2>4, <2>6, <3>2
      <4>2. v \in 1..n => v \in 1..(n + 1) /\ v # n + 1
        BY <1>1
      <4> QED
        BY <1>1, <2>6, <3>2, <4>1, <4>2
    <3> QED
      BY <2>3, <3>3
  <2> QED
    BY <1>3, <2>1, <2>2, <2>6 DEF Gapped
<1>4. CASE Posts
  <2>1. PICK t \in Transfer : Posting(t)
    BY <1>4 DEF Posts
  <2>2. CASE a \in {t.from, t.to}
    <3> DEFINE e == Leg(row, t, a, Part(t, a))
    <3>1. EntriesFor(a)' = E \cup {e} /\ e \notin E /\ e \in Entry
      BY <2>1, <2>2, PostedEntries DEF TablesInv
    <3>2. e.version = row[a].version + 1
      BY DEF Leg
    <3> HIDE DEF e, E
    <3> QED
      BY <1>3, <3>1, <3>2
  <2>3. CASE a \notin {t.from, t.to}
    BY <1>2, <2>1, <2>3, PostedEntries DEF TablesInv
  <2> QED
    BY <2>2, <2>3
<1>5. CASE Keeps \/ Harms
  BY <1>2, <1>5, EnteredKept DEF Keeps, Harms, Damage
<1> QED
  BY <1>1, <1>4, <1>5

-----------------------------------------------------------------------------
(* What damage changes.                                                    *)

(* Only accounts in S, and the totals of their currencies.                 *)
Disturbed(S) ==
  /\ Off' \subseteq Off \cup S /\ Off \subseteq Off' \cup S
  /\ \A c : /\ Mine(c) \subseteq Mine(c)'
            /\ ~ (c \in Uncancelled <=> c \in Uncancelled') =>
                 Mine(c)' \cap S # {}

LEMMA InUncancelled ==
  ASSUME Tables, NEW c
  PROVE  c \in Uncancelled <=> Mine(c) # {} /\ TotalDamage(Mine(c)) # 0
BY DEF Uncancelled, Mine

LEMMA InUncancelledNext ==
  ASSUME Tables', NEW c
  PROVE  c \in Uncancelled' <=> Mine(c)' # {} /\ TotalDamage(Mine(c))' # 0
BY DEF Uncancelled, Mine

LEMMA NoDamage == TotalDamage({}) = 0
BY SumOfNone DEF TotalDamage, SumFunction

(* A new account brings no damage with it.                                 *)
LEMMA DamageOfOneMore ==
  ASSUME Tables, NEW A, A \subseteq AccountIds, IsFiniteSet(A),
         NEW x \in AccountIds, x \notin A, damage[x] = 0
  PROVE  TotalDamage(A \cup {x}) = TotalDamage(A)
<1> DEFINE f == [a \in A |-> damage[a]]
           k == [a \in A \cup {x} |-> damage[a]]
<1>1. /\ TotalDamage(A) = SumFunctionOnSet(f, A)
      /\ TotalDamage(A \cup {x}) = SumFunctionOnSet(k, A \cup {x})
  BY DEF TotalDamage, SumFunction
<1>2. /\ \A a \in A \cup {x} : k[a] \in Int
      /\ \A a \in A : f[a] \in Int /\ k[a] = f[a]
      /\ k[x] = 0
  BY DEF Tables
<1> HIDE DEF f, k
<1>3. /\ SumFunctionOnSet(k, A) \in Int
      /\ SumFunctionOnSet(k, A \cup {x}) = k[x] + SumFunctionOnSet(k, A)
  BY <1>2, SumOfOneMore
<1>4. SumFunctionOnSet(k, A) = SumFunctionOnSet(f, A)
  BY <1>2, SumOfSame
<1> QED
  BY <1>1, <1>2, <1>3, <1>4

LEMMA Unharmed ==
  ASSUME TablesInv, Tables', UNCHANGED harm, Posts \/ Keeps
  PROVE  Disturbed({})
<1>1. /\ Tables /\ damage' = damage /\ accounts \subseteq AccountIds
      /\ \A a \in AccountIds : a \notin accounts => damage[a] = 0
  BY DEF TablesInv, Tables, Books, harm
<1>2. \/ accounts' = accounts
      \/ \E a \in AccountIds : a \notin accounts /\ accounts' = accounts \cup {a}
  BY DEF Posts, Keeps
<1>3. Off' = Off /\ \A c : Mine(c) \subseteq Mine(c)'
  BY <1>1, <1>2 DEF Off, Mine
<1>4. ASSUME NEW c PROVE c \in Uncancelled <=> c \in Uncancelled'
  <2> DEFINE A == Mine(c)
             B == Mine(c)'
  <2>1. TotalDamage(Mine(c))' = TotalDamage(B)
    BY <1>1 DEF TotalDamage
  <2>2. IsFiniteSet(A) /\ A \subseteq AccountIds
    BY <1>1, MineIsIn, InFinite
  <2>3. B = A \/ \E x \in AccountIds \ accounts : x \notin A /\ B = A \cup {x}
    BY <1>2 DEF Mine
  <2> HIDE DEF A, B
  <2>4. TotalDamage(B) = TotalDamage(A)
    BY <1>1, <2>2, <2>3, DamageOfOneMore
  <2>5. A = {} => TotalDamage(A) = 0
    BY NoDamage
  <2>6. /\ c \in Uncancelled <=> A # {} /\ TotalDamage(A) # 0
        /\ c \in Uncancelled' <=> B # {} /\ TotalDamage(B) # 0
    BY <1>1, <2>1, InUncancelled, InUncancelledNext DEF A, B
  <2> QED
    BY <2>3, <2>4, <2>5, <2>6
<1> QED
  BY <1>3, <1>4 DEF Disturbed

LEMMA Harmed ==
  ASSUME TablesInv, Tables', NEW a \in AccountIds, NEW by \in Int,
         Damage(a, by)
  PROVE  Disturbed({a})
<1>1. /\ Tables /\ accounts \subseteq AccountIds /\ a \in accounts
      /\ damage' = [damage EXCEPT ![a] = @ + by] /\ accounts' = accounts
  BY DEF TablesInv, Tables, Damage
<1>2. \A b \in AccountIds \ {a} : damage'[b] = damage[b]
  BY <1>1 DEF Tables
<1>3. /\ Off' \subseteq Off \cup {a} /\ Off \subseteq Off' \cup {a}
      /\ \A c : Mine(c)' = Mine(c)
  BY <1>1, <1>2 DEF Off, Mine
<1>4. ASSUME NEW c, a \notin Mine(c)
      PROVE  c \in Uncancelled <=> c \in Uncancelled'
  <2>1. Mine(c) \subseteq AccountIds \ {a}
    BY <1>1, <1>4 DEF Mine
  <2>2. [b \in Mine(c) |-> damage'[b]] = [b \in Mine(c) |-> damage[b]]
    BY <1>2, <2>1
  <2>3. TotalDamage(Mine(c))' = TotalDamage(Mine(c))
    BY <1>3, <2>2 DEF TotalDamage
  <2> QED
    BY <1>1, <1>3, <2>3, InUncancelled, InUncancelledNext
<1> QED
  BY <1>3, <1>4 DEF Disturbed

-----------------------------------------------------------------------------
(* The report.                                                             *)

LEMMA EmptyReport ==
  ASSUME report' = NoReport, at' = "wait"
  PROVE  AlarmsExplained' /\ Alleged'
<1>1. /\ report'.discrepancies = {} /\ report'.breaks = {}
      /\ report'.consistent = TRUE /\ report'.results = {}
      /\ report' \in Report
  BY DEF NoReport, Report
<1>2. Compared' = {}
  BY <1>1 DEF Compared
<1> QED
  BY <1>1, <1>2 DEF AlarmsExplained, Alleged

(* What the report holds against the ledger goes on being explained while  *)
(* requests commit and accounts are struck, and so does what it does not.  *)
LEMMA SameReport ==
  ASSUME ReportInv, NEW S \in SUBSET AccountIds, Disturbed(S),
         damaged \subseteq damaged',
         \A a \in AccountIds : Gapped(a) => Gapped(a)',
         report' = [report EXCEPT !.struck = @ \cup S],
         at' = at, todo' = todo, at # "wait"
  PROVE  AlarmsExplained' /\ Alleged'
<1>1. report \in Report
  BY DEF ReportInv, Alleged
<1>2. /\ report' \in Report
      /\ report'.results = report.results
      /\ report'.discrepancies = report.discrepancies
      /\ report'.breaks = report.breaks /\ report.breaks \subseteq AccountIds
      /\ report'.consistent = report.consistent
      /\ report'.raced = report.raced /\ report'.failed = report.failed
      /\ report'.struck = report.struck \cup S
  BY <1>1 DEF Report
<1>3. AlarmsExplained'
  <2>1. report.discrepancies \subseteq Off \cup report.struck \cup report.raced
    BY DEF ReportInv, AlarmsExplained
  <2>2. \A a \in report.breaks : a \in damaged \/ Gapped(a)
    BY DEF ReportInv, AlarmsExplained
  <2>3. ~ report.consistent =>
          Uncancelled # {} \/ report.struck # {} \/ report.failed
    BY DEF ReportInv, AlarmsExplained
  <2>4. Uncancelled # {} => Uncancelled' # {} \/ S # {}
    BY DEF Disturbed
  <2>5. report'.discrepancies
          \subseteq Off' \cup report'.struck \cup report'.raced
    BY <1>2, <2>1 DEF Disturbed
  <2>6. \A a \in report'.breaks : a \in damaged' \/ Gapped(a)'
    BY <1>2, <2>2
  <2>7. ~ report'.consistent =>
          Uncancelled' # {} \/ report'.struck # {} \/ report'.failed
    BY <1>2, <2>3, <2>4
  <2> QED
    BY <2>5, <2>6, <2>7 DEF AlarmsExplained
<1>4. Compared' \cap Off' \subseteq Excused'
  <2>1. Compared' = Compared
    BY <1>2 DEF Compared
  <2>2. Compared \cap Off \subseteq Excused
    BY DEF ReportInv, Alleged
  <2>3. Excused' = Excused \cup S
    BY <1>2 DEF Excused
  <2> QED
    BY <2>1, <2>2, <2>3 DEF Disturbed
<1>5. ASSUME at = "chain", report.consistent, NEW c \in Uncancelled'
      PROVE  Mine(c)' \cap report'.struck # {}
  <2>1. CASE c \in Uncancelled
    <3>1. Mine(c) \cap report.struck # {}
      BY <1>5, <2>1 DEF ReportInv, Alleged
    <3> QED
      BY <1>2, <3>1 DEF Disturbed
  <2>2. CASE c \notin Uncancelled
    BY <1>2, <1>5, <2>2 DEF Disturbed
  <2> QED
    BY <2>1, <2>2
<1> QED
  BY <1>2, <1>3, <1>4, <1>5 DEF Alleged

(* A step of a run only reads the tables.                                  *)
LEMMA TablesRead ==
  UNCHANGED <<vars, harm>> =>
    /\ damaged' = damaged /\ Off' = Off /\ Uncancelled' = Uncancelled
    /\ \A a : Gapped(a)' = Gapped(a) /\ Mine(a)' = Mine(a)
BY DEF vars, harm, Gapped, EntriesFor, Off, Uncancelled, Mine, TotalDamage

(* If the report says no less of what it has compared, and what it says    *)
(* more is explained, it stays right.                                      *)
LEMMA ReadReport ==
  ASSUME ReportInv, UNCHANGED <<vars, harm>>, report' \in Report,
         report.discrepancies \subseteq report'.discrepancies,
         report'.discrepancies
           \subseteq report.discrepancies \cup Off \cup report'.raced,
         \A a \in report'.breaks :
           a \in report.breaks \/ a \in damaged \/ Gapped(a),
         report.raced \subseteq report'.raced, report'.struck = report.struck,
         at' # "wait",
         Compared' \cap Off \subseteq Compared \cup Excused',
         \/ /\ report'.consistent = report.consistent
            /\ report'.failed = report.failed
            /\ at' = "chain" => at = "chain"
         \/ /\ ~ report'.consistent => Uncancelled # {} \/ report'.failed
            /\ report'.consistent => Uncancelled = {}
  PROVE  AlarmsExplained' /\ Alleged'
<1>1. /\ damaged' = damaged /\ Off' = Off /\ Uncancelled' = Uncancelled
      /\ \A a : Gapped(a)' = Gapped(a) /\ Mine(a)' = Mine(a)
  BY TablesRead
<1>2. AlarmsExplained'
  <2>1. report'.discrepancies
          \subseteq Off \cup report'.struck \cup report'.raced
    BY DEF ReportInv, AlarmsExplained
  <2>2. \A a \in report'.breaks : a \in damaged \/ Gapped(a)
    BY DEF ReportInv, AlarmsExplained
  <2>3. ~ report'.consistent =>
          Uncancelled # {} \/ report'.struck # {} \/ report'.failed
    BY DEF ReportInv, AlarmsExplained
  <2> QED
    BY <1>1, <2>1, <2>2, <2>3 DEF AlarmsExplained
<1>3. Compared' \cap Off \subseteq Excused'
  <2>1. Compared \cap Off \subseteq Excused /\ Excused \subseteq Excused'
    BY DEF ReportInv, Alleged, Excused
  <2> QED
    BY <2>1
<1>4. at' = "chain" /\ report'.consistent =>
        \A c \in Uncancelled : Mine(c) \cap report'.struck # {}
  BY DEF ReportInv, Alleged
<1> QED
  BY <1>1, <1>2, <1>3, <1>4 DEF Alleged

LEMMA StartReport ==
  ASSUME ReportInv, ReconcileAllAccounts, UNCHANGED <<vars, harm>>
  PROVE  AlarmsExplained' /\ Alleged'
<1>1. /\ report' = [NoReport EXCEPT !.results = ListAccounts]
      /\ todo' = ListAccounts
      /\ at' = IF ListAccounts = {} THEN "totals" ELSE "balance"
  BY DEF ReconcileAllAccounts
<1>2. ListAccounts \subseteq AccountIds
  BY DEF ListAccounts, ReportInv, TablesInv, Tables
<1>3. /\ report'.discrepancies = {} /\ report'.breaks = {}
      /\ report'.consistent = TRUE /\ report'.results = ListAccounts
      /\ report' \in Report
  BY <1>1, <1>2 DEF NoReport, Report
<1>4. Compared' = {} /\ at' # "chain" /\ at' # "wait"
  BY <1>1, <1>3 DEF Compared
<1> QED
  BY <1>3, <1>4 DEF AlarmsExplained, Alleged

LEMMA BalanceReport ==
  ASSUME ReportInv, NEW a \in AccountIds, ReadBalance(a),
         UNCHANGED <<vars, harm>>
  PROVE  AlarmsExplained' /\ Alleged'
<1>1. report' = report /\ at = "balance" /\ at' = "sum" /\ todo' = todo
  BY DEF ReadBalance
<1>2. Compared' = Compared
  BY <1>1 DEF Compared
<1>3. /\ report' \in Report /\ report'.discrepancies = report.discrepancies
      /\ report'.breaks = report.breaks
  BY <1>1 DEF ReportInv, Alleged
<1> QED
  BY <1>1, <1>2, <1>3, ReadReport

LEMMA SumReport ==
  ASSUME ReportInv, NEW a \in AccountIds, ReconcileAccount(a),
         UNCHANGED <<vars, harm>>
  PROVE  AlarmsExplained' /\ Alleged'
<1> DEFINE found == IF IsReconciled(a) THEN {} ELSE {a}
           moved == IF seen = row[a] THEN {} ELSE {a}
<1>1. /\ report' = [report EXCEPT !.discrepancies = @ \cup found,
                                  !.raced = @ \cup moved]
      /\ at = "sum" /\ at' \in {"totals", "balance"}
      /\ todo' = todo \ {a} /\ (at' = "totals" => todo = {a})
  BY DEF ReconcileAccount
<1>2. found \subseteq AccountIds /\ moved \subseteq AccountIds
  OBVIOUS
<1>3. moved = {} => (found = {} <=> a \notin Off)
  <2>1. /\ row[a].balance = SumAmountsByAccount(a) + damage[a]
        /\ SumAmountsByAccount(a) \in Int /\ damage[a] \in Int
        /\ a \notin accounts => damage[a] = 0
    BY DEF ReportInv, TablesInv, Tables, Books
  <2>2. row[a].balance = SumAmountsByAccount(a) <=> a \notin Off
    BY <2>1 DEF Off
  <2> QED
    BY <2>2 DEF IsReconciled
<1>4. found \subseteq {a} /\ moved \subseteq {a}
  OBVIOUS
<1> HIDE DEF found, moved
<1>5. report \in Report
  BY DEF ReportInv, Alleged
<1>6. /\ report' \in Report
      /\ report'.results = report.results
      /\ report'.discrepancies = report.discrepancies \cup found
      /\ report'.raced = report.raced \cup moved
      /\ report'.breaks = report.breaks
      /\ report'.consistent = report.consistent
      /\ report'.failed = report.failed /\ report'.struck = report.struck
  BY <1>1, <1>2, <1>5 DEF Report
<1>7. Compared' \subseteq Compared \cup {a}
  BY <1>1, <1>6 DEF Compared
<1>8. a \in Off => a \in found \cup moved
  BY <1>3, <1>4
<1>9. Compared' \cap Off \subseteq Compared \cup Excused'
  BY <1>6, <1>7, <1>8 DEF Excused
<1>10. found \subseteq Off \cup report'.raced
  BY <1>3, <1>4, <1>6
<1>11. at' # "chain" /\ at' # "wait"
  BY <1>1
<1> QED
  BY <1>6, <1>9, <1>10, <1>11, ReadReport

LEMMA ChainReport ==
  ASSUME ReportInv, NEW a \in AccountIds, VerifyChain(a),
         UNCHANGED <<vars, harm>>
  PROVE  AlarmsExplained' /\ Alleged'
<1> DEFINE found == IF VerifyEntryChain(a) THEN {} ELSE {a}
<1>1. /\ report' = [report EXCEPT !.breaks = @ \cup found]
      /\ at' = at /\ at = "chain"
  BY DEF VerifyChain
<1>2. found \subseteq AccountIds
  OBVIOUS
<1>3. \A b \in found : b \in damaged \/ Gapped(b)
  BY Contiguous DEF ReportInv
<1> HIDE DEF found
<1>4. report \in Report
  BY DEF ReportInv, Alleged
<1>5. /\ report' \in Report
      /\ report'.results = report.results
      /\ report'.breaks = report.breaks \cup found
      /\ report'.discrepancies = report.discrepancies
      /\ report'.raced = report.raced
      /\ report'.consistent = report.consistent
      /\ report'.failed = report.failed /\ report'.struck = report.struck
  BY <1>1, <1>2, <1>4 DEF Report
<1>6. Compared' = Compared
  BY <1>1, <1>5 DEF Compared
<1> QED
  BY <1>1, <1>3, <1>5, <1>6, ReadReport

LEMMA TotalsReport ==
  ASSUME ReportInv, NEW failed \in BOOLEAN, CompareTotals(failed),
         UNCHANGED <<vars, harm>>
  PROVE  AlarmsExplained' /\ Alleged'
<1> DEFINE ok == ~ failed /\ CheckLedgerConsistency
<1>1. /\ report' = [report EXCEPT !.consistent = ok, !.failed = failed]
      /\ at = "totals" /\ at' = "chain"
  BY DEF CompareTotals
<1>2. /\ ok \in BOOLEAN
      /\ ~ ok => Uncancelled # {} \/ failed
      /\ ok => Uncancelled = {}
  BY TotalsShow DEF ReportInv
<1> HIDE DEF ok
<1>3. report \in Report
  BY DEF ReportInv, Alleged
<1>4. /\ report' \in Report
      /\ report'.results = report.results
      /\ report'.breaks = report.breaks
      /\ report'.discrepancies = report.discrepancies
      /\ report'.raced = report.raced
      /\ report'.consistent = ok
      /\ report'.failed = failed /\ report'.struck = report.struck
  BY <1>1, <1>2, <1>3 DEF Report
<1>5. Compared' = Compared
  BY <1>1, <1>4 DEF Compared
<1> QED
  BY <1>1, <1>2, <1>4, <1>5, ReadReport

(* Requests and damage, while a run is under way or between two runs.      *)
LEMMA HarmReport ==
  ASSUME ReportInv, [NextAll]_allVars, NEW S \in SUBSET AccountIds,
         Disturbed(S), damaged \subseteq damaged', at' = at, todo' = todo,
         report' = [report EXCEPT !.struck =
                      IF at = "wait" THEN {} ELSE @ \cup S]
  PROVE  AlarmsExplained' /\ Alleged'
<1>1. CASE at = "wait"
  <2>1. report = NoReport
    BY <1>1 DEF ReportInv, Alleged
  <2>2. report' = NoReport
    BY <1>1, <2>1 DEF NoReport
  <2> QED
    BY <1>1, <2>2, EmptyReport
<1>2. CASE at # "wait"
  <2>1. report' = [report EXCEPT !.struck = @ \cup S]
    BY <1>2
  <2>2. \A a \in AccountIds : Gapped(a) => Gapped(a)'
    BY GapsStay DEF ReportInv
  <2> QED
    BY <1>2, <2>1, <2>2, SameReport
<1> QED
  BY <1>1, <1>2

LEMMA ReportStep == ReportInv /\ [NextAll]_allVars => ReportInv'
<1> SUFFICES ASSUME ReportInv, [NextAll]_allVars
             PROVE  AlarmsExplained' /\ Alleged'
  BY TablesStep DEF ReportInv
<1>1. TablesInv /\ TablesInv' /\ Tables /\ Tables'
  BY TablesStep DEF ReportInv, TablesInv
<1>2. ASSUME runOnce, UNCHANGED <<vars, harm>>
      PROVE  AlarmsExplained' /\ Alleged'
  <2>1. CASE ReconcileAllAccounts
    BY <1>2, <2>1, StartReport
  <2>2. ASSUME NEW a \in AccountIds, ReadBalance(a)
        PROVE  AlarmsExplained' /\ Alleged'
    BY <1>2, <2>2, BalanceReport
  <2>3. ASSUME NEW a \in AccountIds, ReconcileAccount(a)
        PROVE  AlarmsExplained' /\ Alleged'
    BY <1>2, <2>3, SumReport
  <2>4. ASSUME NEW a \in AccountIds, VerifyChain(a)
        PROVE  AlarmsExplained' /\ Alleged'
    BY <1>2, <2>4, ChainReport
  <2>5. CASE CompareTotals(FALSE)
    BY <1>2, <2>5, TotalsReport
  <2>6. CASE Finish
    BY <2>6, EmptyReport DEF Finish
  <2> QED
    BY <1>2, <2>1, <2>2, <2>3, <2>4, <2>5, <2>6 DEF runOnce
<1>3. ASSUME StatementFails, UNCHANGED <<vars, harm>>
      PROVE  AlarmsExplained' /\ Alleged'
  <2>1. CASE CompareTotals(TRUE)
    BY <1>3, <2>1, TotalsReport
  <2>2. CASE report' = NoReport /\ at' = AfterError
    BY <2>2, EmptyReport DEF AfterError
  <2> QED
    BY <1>3, <2>1, <2>2 DEF StatementFails
<1>4. ASSUME UNCHANGED <<reconciler, harm>>, Posts \/ Keeps
      PROVE  AlarmsExplained' /\ Alleged'
  <2>1. Disturbed({})
    BY <1>1, <1>4, Unharmed
  <2>2. /\ report' = report /\ at' = at /\ todo' = todo
        /\ damaged' = damaged
    BY <1>4 DEF reconciler, harm
  <2>3. report' = [report EXCEPT !.struck =
                     IF at = "wait" THEN {} ELSE @ \cup {}]
    <3>1. at = "wait" => report = NoReport
      BY DEF ReportInv, Alleged
    <3>2. report \in Report
      BY DEF ReportInv, Alleged
    <3>3. [report EXCEPT !.struck = report.struck] = report
      BY <3>2 DEF Report
    <3>4. at = "wait" => report.struck = {}
      BY <3>1 DEF NoReport
    <3> QED
      BY <2>2, <3>3, <3>4
  <2>4. {} \in SUBSET AccountIds
    OBVIOUS
  <2> QED
    BY <2>1, <2>2, <2>3, <2>4, HarmReport
<1>5. ASSUME NEW a \in AccountIds, NEW by \in -MaxAmount..MaxAmount,
             Damage(a, by)
      PROVE  AlarmsExplained' /\ Alleged'
  <2>1. by \in Int
    BY TypesAssumption
  <2>2. Disturbed({a})
    BY <1>1, <1>5, <2>1, Harmed
  <2>3. /\ report' = [report EXCEPT !.struck =
                        IF at = "wait" THEN {} ELSE @ \cup {a}]
        /\ at' = at /\ todo' = todo /\ damaged' = damaged \cup {a}
    BY <1>5 DEF Damage
  <2> QED
    BY <2>2, <2>3, HarmReport
<1>6. CASE UNCHANGED allVars
  <2>1. UNCHANGED <<reconciler, harm>> /\ UNCHANGED vars
    BY <1>6 DEF allVars
  <2>2. Keeps
    BY <1>1, <2>1 DEF Keeps, Tables, vars, harm, Row
  <2> QED
    BY <1>4, <2>1, <2>2
<1>7. ASSUME Request, UNCHANGED <<reconciler, harm>>
      PROVE  AlarmsExplained' /\ Alleged'
  BY <1>1, <1>4, <1>7, RequestChanges DEF harm
<1> QED
  BY <1>2, <1>3, <1>5, <1>6, <1>7 DEF NextAll

LEMMA ReportAlways == SpecAll => []ReportInv
<1>1. InitAll => AlarmsExplained /\ Alleged
  <2> SUFFICES ASSUME InitAll PROVE AlarmsExplained /\ Alleged
    OBVIOUS
  <2>1. report = NoReport /\ at = "wait"
    BY DEF InitAll, InitReconciler
  <2>2. /\ report.discrepancies = {} /\ report.breaks = {}
        /\ report.consistent = TRUE /\ report.results = {} /\ report \in Report
    BY <2>1 DEF NoReport, Report
  <2>3. Compared = {}
    BY <2>1, <2>2 DEF Compared
  <2> QED
    BY <2>1, <2>2, <2>3 DEF AlarmsExplained, Alleged
<1>2. InitAll => ReportInv
  BY <1>1, TablesInit DEF ReportInv
<1> QED
  BY <1>2, ReportStep, PTL DEF SpecAll

(* What a report holds against the ledger has a cause, for any number of   *)
(* accounts and requests: an account that is off or was struck during the  *)
(* run, one that moved between the two reads, a gap in the versions,       *)
(* damage that does not cancel in its currency, totals that could not be   *)
(* read.                                                                   *)
THEOREM AlarmsCorrect == SpecAll => []AlarmsExplained
<1>1. ReportInv => AlarmsExplained
  BY DEF ReportInv
<1> QED
  BY <1>1, ReportAlways, PTL

(* Undamaged, the totals of balances and of entries agree and are zero in  *)
(* every currency and together, at any moment between two commits.         *)
THEOREM TotalsCorrect == SpecAll => []ConsistentUntilDamaged
BY AddsUp, TablesAlways, PTL

(* A run that finds nothing has missed nothing but what it cannot see: for *)
(* any page, any damage up or down, on it or beyond it, and any requests   *)
(* that commit meanwhile.                                                  *)
THEOREM NoDamagePasses == SpecAll => NoFalseAllClear
<1>1. ReportInv =>
        (Finish /\ outcome' = "ok" =>
           /\ \A a \in report.results \ (report.raced \cup report.struck) :
                a \notin Off
           /\ \A c \in Uncancelled : Mine(c) \cap report.struck # {})
  <2> SUFFICES ASSUME ReportInv, Finish, outcome' = "ok"
               PROVE
                 /\ \A a \in report.results \ (report.raced \cup report.struck) :
                      a \notin Off
                 /\ \A c \in Uncancelled : Mine(c) \cap report.struck # {}
    OBVIOUS
  <2>1. at = "chain" /\ ~ Drifted
    BY DEF Finish
  <2>2. report.consistent /\ report.discrepancies = {}
    BY <2>1 DEF Drifted
  <2>3. Compared = report.results
    BY <2>1 DEF Compared
  <2> QED
    BY <2>1, <2>2, <2>3 DEF ReportInv, Alleged, Excused
<1> QED
  BY <1>1, ReportAlways, PTL DEF NoFalseAllClear, SpecAll
=============================================================================
