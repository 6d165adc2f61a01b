-------------------------- MODULE AuditChainProofs --------------------------
(***************************************************************************)
(* Proofs about AuditChain, for any number of writers, rows and months:    *)
(* the rows are the log, the log is the list that AuditLog promises, and   *)
(* what verification finds and what its silence is worth.                  *)
(***************************************************************************)
EXTENDS AuditChain, SequenceTheorems, WellFoundedInduction, TLAPS

Entry == Ids \X Text
Hash == Seq(Entry)
HeadType == [hash : Hash, seq : Nat]
Row == [id : Ids, text : Text, state : Text, at : Nat, pii : BOOLEAN,
        prev : Hash, seq : Nat, hash : Hash]

Types ==
  /\ rows \subseteq Row
  /\ head \in HeadType
  /\ lock \in Writers \cup {None}
  /\ pc \in [Writers -> {"idle", "built", "open"}]
  /\ tx \in [Writers -> [at : Nat, rows : SUBSET Row, head : HeadType]]
  /\ month \in Nat
  /\ gone \subseteq Nat

(* A head stands for the log up to it, in which no row occurs twice; rows  *)
(* are part of a log as they were written, and no two of them the same     *)
(* part.                                                                   *)
Distinct(s) == \A i, j \in 1..Len(s) : s[i][1] = s[j][1] => i = j
IsLog(h) == h.seq = Len(h.hash) /\ Distinct(h.hash)

AsWritten(r) == r.text = "as written"
Entered(r, e) == e = <<r.id, "as written">>
InLog(r, h) ==
  /\ r.seq \in 1..h.seq
  /\ r.hash = SubSeq(h.hash, 1, r.seq)
  /\ r.prev = SubSeq(h.hash, 1, r.seq - 1)
  /\ AsWritten(r) /\ Entered(r, h.hash[r.seq])

(* A committed row is that still, but for the columns that were altered.   *)
Kept(r, column) == <<r.seq, column>> \notin altered
Recorded(r, h) ==
  /\ r.seq \in 1..h.seq
  /\ Entered(r, h.hash[r.seq])
  /\ Kept(r, "hash") => r.hash = SubSeq(h.hash, 1, r.seq)
  /\ Kept(r, "prev") => r.prev = SubSeq(h.hash, 1, r.seq - 1)
  /\ Kept(r, "text") => AsWritten(r)

Apart(rs) == \A r, s \in rs : r.seq = s.seq => r = s

(* What a transaction has inserted follows what is committed, without a    *)
(* gap: nobody else moves the head while it has the lock.                  *)
Extends(h, g) == g.seq < h.seq /\ SubSeq(h.hash, 1, g.seq) = g.hash
Inserted(w) ==
  /\ lock = w <=> tx[w].rows # {}
  /\ pc[w] = "open" => tx[w].rows # {}
  /\ tx[w].rows # {} =>
       /\ IsLog(tx[w].head) /\ Extends(tx[w].head, head)
       /\ Apart(tx[w].rows)
       /\ \A r \in tx[w].rows : InLog(r, tx[w].head)
       /\ {r.seq : r \in tx[w].rows} = (head.seq + 1)..tx[w].head.seq

ChainInv ==
  /\ Types
  /\ IsLog(head)
  /\ Apart(rows)
  /\ \A r \in rows : Recorded(r, head)
  /\ {r.seq : r \in rows} \cup gone = 1..head.seq
  /\ \A w \in Writers : Inserted(w)

-----------------------------------------------------------------------------
(* Facts about logs.                                                       *)

LEMMA Pair ==
  ASSUME NEW a, NEW b
  PROVE  <<a, b>>[1] = a /\ <<a, b>>[2] = b
OBVIOUS

LEMMA EnteredAs ==
  ASSUME NEW r, NEW e, Entered(r, e)
  PROVE  e[1] = r.id /\ e[2] = "as written"
<1>1. e = <<r.id, "as written">>
  BY DEF Entered
<1>2. <<r.id, "as written">>[1] = r.id /\ <<r.id, "as written">>[2] = "as written"
  BY Pair, Zenon
<1> QED BY <1>1, <1>2, Zenon

LEMMA Prefixes ==
  ASSUME NEW s \in Hash, NEW e \in Entry
  PROVE  /\ Append(s, e) \in Hash
         /\ Len(Append(s, e)) = Len(s) + 1
         /\ Append(s, e)[Len(s) + 1] = e
         /\ \A i \in 1..Len(s) : Append(s, e)[i] = s[i]
         /\ \A n \in 0..Len(s) :
              SubSeq(Append(s, e), 1, n) = SubSeq(s, 1, n)
         /\ SubSeq(s, 1, Len(s)) = s
<1>1. /\ Append(s, e) \in Hash
      /\ Len(Append(s, e)) = Len(s) + 1
      /\ Append(s, e)[Len(s) + 1] = e
      /\ \A i \in 1..Len(s) : Append(s, e)[i] = s[i]
  BY DEF Hash
<1>2. ASSUME NEW n \in 0..Len(s)
      PROVE  SubSeq(Append(s, e), 1, n) = SubSeq(s, 1, n)
  <2>1. Len(s) \in Nat /\ n \in Int
    BY LenProperties DEF Hash
  <2>2. \A i \in 1..n : s[i] \in Entry /\ Append(s, e)[i] = s[i]
    BY <1>1, <2>1, ElementOfSeq DEF Hash
  <2>3. /\ SubSeq(s, 1, n) \in Hash
        /\ Len(SubSeq(s, 1, n)) = IF 1 <= n THEN n - 1 + 1 ELSE 0
        /\ \A i \in 1..(n - 1 + 1) : SubSeq(s, 1, n)[i] = s[1 + i - 1]
    BY <2>1, <2>2, SubSeqProperties DEF Hash
  <2>4. /\ SubSeq(Append(s, e), 1, n) \in Hash
        /\ Len(SubSeq(Append(s, e), 1, n)) = IF 1 <= n THEN n - 1 + 1 ELSE 0
        /\ \A i \in 1..(n - 1 + 1) :
             SubSeq(Append(s, e), 1, n)[i] = Append(s, e)[1 + i - 1]
    <3>1. \A i \in 1..n : Append(s, e)[i] \in Entry
      BY <2>2
    <3> HIDE DEF Entry
    <3> QED BY <2>1, <3>1, SubSeqProperties DEF Hash
  <2> QED
    <3>1. Len(SubSeq(s, 1, n)) = n /\ Len(SubSeq(Append(s, e), 1, n)) = n
      BY <2>1, <2>3, <2>4
    <3>2. ASSUME NEW i \in 1..n
          PROVE  SubSeq(s, 1, n)[i] = SubSeq(Append(s, e), 1, n)[i]
      <4>1. i \in 1..(n - 1 + 1) /\ 1 + i - 1 = i
        BY <2>1
      <4> QED BY <2>2, <2>3, <2>4, <4>1
    <3> QED BY <2>3, <2>4, <3>1, <3>2, SeqEqual DEF Hash
<1>3. SubSeq(s, 1, Len(s)) = s
  BY SubSeqFull DEF Hash
<1> QED BY <1>1, <1>2, <1>3

LEMMA FreshAppended ==
  ASSUME NEW s \in Hash, NEW e \in Entry, Distinct(s),
         \A i \in 1..Len(s) : s[i][1] # e[1]
  PROVE  Distinct(Append(s, e))
<1> DEFINE t == Append(s, e)
           n == Len(s)
<1>1. n \in Nat
  BY LenProperties DEF Hash
<1>2. Len(t) = n + 1 /\ t[n + 1] = e /\ \A i \in 1..n : t[i] = s[i]
  BY Prefixes
<1> HIDE DEF t, n
<1>3. \A k \in 1..(n + 1) : k \in 1..n \/ k = n + 1
  BY <1>1
<1>4. /\ \A i, j \in 1..n : s[i][1] = s[j][1] => i = j
      /\ \A i \in 1..n : s[i][1] # e[1]
  BY DEF Distinct, n
<1>5. \A i, j \in 1..(n + 1) : t[i][1] = t[j][1] => i = j
  BY <1>2, <1>3, <1>4
<1> QED BY <1>2, <1>5 DEF Distinct, t

LEMMA HeadFacts ==
  ASSUME NEW h \in HeadType, IsLog(h)
  PROVE  /\ h.hash \in Hash /\ h.seq \in Nat /\ h.seq = Len(h.hash)
         /\ Distinct(h.hash) /\ h = HeadAt(h.hash, Len(h.hash))
BY DEF HeadType, IsLog, HeadAt

(* A fresh row appended to a log makes a longer one of which all that was  *)
(* part of the shorter is part.                                            *)
LEMMA Appended ==
  ASSUME NEW s \in Hash, NEW e \in Entry, Distinct(s),
         \A i \in 1..Len(s) : s[i][1] # e[1]
  PROVE  LET h == HeadAt(s, Len(s))
             g == HeadAt(Append(s, e), Len(s) + 1)
         IN  /\ g \in HeadType /\ IsLog(g) /\ Extends(g, h)
             /\ \A x : /\ x.seq = g.seq /\ x.hash = g.hash /\ x.prev = s
                     /\ AsWritten(x) /\ Entered(x, e)
                   => InLog(x, g)
             /\ \A x : InLog(x, h) => InLog(x, g)
             /\ \A x \in HeadType : Extends(h, x) => Extends(g, x)
<1> DEFINE n == Len(s)
           t == Append(s, e)
           h == HeadAt(s, n)
           g == HeadAt(t, n + 1)
<1>1. n \in Nat
  BY LenProperties DEF Hash
<1>2. /\ t \in Hash /\ Len(t) = n + 1 /\ t[n + 1] = e
      /\ \A i \in 1..n : t[i] = s[i]
      /\ \A k \in 0..n : SubSeq(t, 1, k) = SubSeq(s, 1, k)
      /\ SubSeq(s, 1, n) = s
  BY Prefixes
<1>3. SubSeq(t, 1, n + 1) = t
  BY <1>2, SubSeqFull DEF Hash
<1>4. h.hash = s /\ h.seq = n /\ g.hash = t /\ g.seq = n + 1
  BY DEF HeadAt
<1>5. g = [hash |-> t, seq |-> n + 1]
  BY DEF HeadAt
<1>6. Distinct(t)
  BY FreshAppended
<1> HIDE DEF n, t, g, h
<1>7. g \in HeadType /\ IsLog(g)
  BY <1>1, <1>2, <1>5, <1>4, <1>6 DEF HeadType, IsLog
<1>8. Extends(g, h)
  BY <1>1, <1>2, <1>4 DEF Extends
<1>9. ASSUME NEW x, x.seq = g.seq, x.hash = g.hash, x.prev = s,
             AsWritten(x), Entered(x, e)
      PROVE  InLog(x, g)
  <2>1. n \in 0..n /\ n + 1 - 1 = n /\ n + 1 \in 1..(n + 1)
    BY <1>1
  <2>2. SubSeq(t, 1, n) = s
    BY <1>2, <2>1
  <2> QED BY <1>2, <1>3, <1>4, <1>9, <2>1, <2>2 DEF InLog
<1>10. ASSUME NEW x, InLog(x, h) PROVE InLog(x, g)
  <2>1. /\ x.seq \in 1..n /\ x.hash = SubSeq(s, 1, x.seq)
        /\ x.prev = SubSeq(s, 1, x.seq - 1)
        /\ AsWritten(x) /\ Entered(x, s[x.seq])
    BY <1>4, <1>10 DEF InLog
  <2>2. x.seq \in 0..n /\ x.seq - 1 \in 0..n /\ x.seq \in 1..(n + 1)
    BY <1>1, <2>1
  <2> QED BY <1>2, <1>4, <2>1, <2>2 DEF InLog
<1>11. ASSUME NEW x \in HeadType, Extends(h, x) PROVE Extends(g, x)
  <2>1. x.seq \in 0..n /\ x.seq < n + 1 /\ SubSeq(s, 1, x.seq) = x.hash
    BY <1>1, <1>4, <1>11 DEF HeadType, Extends
  <2> QED BY <1>2, <1>4, <2>1 DEF Extends
<1> QED BY <1>7, <1>8, <1>9, <1>10, <1>11 DEF n, t, g, h

(* A log agrees with every log that extends it.                            *)
LEMMA PrefixAgrees ==
  ASSUME NEW g \in HeadType, NEW h \in HeadType, IsLog(h), Extends(h, g)
  PROVE  /\ g.seq \in Nat /\ h.seq \in Nat /\ g.seq < h.seq
         /\ \A i \in 1..g.seq : g.hash[i] = h.hash[i]
         /\ \A n \in 0..g.seq : SubSeq(g.hash, 1, n) = SubSeq(h.hash, 1, n)
<1>1. /\ g.seq \in Nat /\ h.seq \in Nat
      /\ g.seq < h.seq /\ g.hash = SubSeq(h.hash, 1, g.seq)
      /\ h.hash \in Hash /\ g.hash \in Hash /\ Len(h.hash) = h.seq
  BY DEF Extends, IsLog, HeadType
<1>2. \A i \in 1..g.seq : h.hash[i] \in Entry
  BY <1>1, ElementOfSeq DEF Hash
<1>3. \A i \in 1..g.seq : g.hash[i] = h.hash[i]
  <2>1. \A i \in 1..(g.seq - 1 + 1) :
          SubSeq(h.hash, 1, g.seq)[i] = h.hash[1 + i - 1]
    BY <1>1, <1>2, SubSeqProperties
  <2> SUFFICES ASSUME NEW i \in 1..g.seq PROVE g.hash[i] = h.hash[i]
    OBVIOUS
  <2>2. i \in 1..(g.seq - 1 + 1) /\ 1 + i - 1 = i
    BY <1>1
  <2> QED BY <1>1, <2>1, <2>2
<1>4. ASSUME NEW n \in 0..g.seq
      PROVE  SubSeq(g.hash, 1, n) = SubSeq(h.hash, 1, n)
  <2>1. CASE n = 0
    BY <2>1, SubSeqEmpty
  <2>2. CASE n # 0
    <3>1. n \in 1..g.seq
      BY <1>1, <2>2
    <3> QED BY <1>1, <3>1, SubSeqOfSubSeq DEF Hash
  <2> QED BY <2>1, <2>2
<1> QED BY <1>1, <1>3, <1>4

LEMMA StillInLog ==
  ASSUME NEW g \in HeadType, NEW h \in HeadType, IsLog(h), Extends(h, g),
         NEW r, InLog(r, g)
  PROVE  InLog(r, h)
<1>1. r.seq \in 0..g.seq /\ r.seq - 1 \in 0..g.seq /\ r.seq \in 1..h.seq
  BY PrefixAgrees DEF InLog
<1> QED BY <1>1, PrefixAgrees DEF InLog

LEMMA StillRecorded ==
  ASSUME NEW g \in HeadType, NEW h \in HeadType, IsLog(h), Extends(h, g),
         NEW r, Recorded(r, g)
  PROVE  Recorded(r, h)
<1>1. /\ r.seq \in 0..g.seq /\ r.seq - 1 \in 0..g.seq
      /\ r.seq \in 1..h.seq /\ r.seq \in 1..g.seq
  BY PrefixAgrees DEF Recorded
<1>2. /\ g.hash[r.seq] = h.hash[r.seq]
      /\ SubSeq(g.hash, 1, r.seq) = SubSeq(h.hash, 1, r.seq)
      /\ SubSeq(g.hash, 1, r.seq - 1) = SubSeq(h.hash, 1, r.seq - 1)
  BY <1>1, PrefixAgrees
<1> QED BY <1>1, <1>2 DEF Recorded

LEMMA FirstRecorded ==
  ASSUME NEW r, NEW h, InLog(r, h)
  PROVE  Recorded(r, h)
BY DEF InLog, Recorded

(* The part of a log up to a place is the part before it and what is there.*)
LEMMA LastOf ==
  ASSUME NEW s \in Hash, NEW n \in 1..Len(s)
  PROVE  /\ s[n] \in Entry
         /\ SubSeq(s, 1, n) \in Hash /\ SubSeq(s, 1, n - 1) \in Hash
         /\ SubSeq(s, 1, n) = Append(SubSeq(s, 1, n - 1), s[n])
         /\ n # 1 => SubSeq(s, 1, n - 1) # <<>>
<1>1. /\ Len(s) \in Nat /\ n \in Int /\ n - 1 \in Int
      /\ \A i \in 1..n : s[i] \in Entry
      /\ \A i \in 1..(n - 1) : s[i] \in Entry
  <2>1. Len(s) \in Nat
    BY LenProperties DEF Hash
  <2>2. \A i \in 1..Len(s) : s[i] \in Entry
    BY ElementOfSeq DEF Hash
  <2> QED BY <2>1, <2>2
<1>2. /\ SubSeq(s, 1, n) \in Hash
      /\ Len(SubSeq(s, 1, n)) = IF 1 <= n THEN n - 1 + 1 ELSE 0
      /\ \A i \in 1..(n - 1 + 1) : SubSeq(s, 1, n)[i] = s[1 + i - 1]
  BY <1>1, SubSeqProperties DEF Hash
<1>3. /\ SubSeq(s, 1, n - 1) \in Hash
      /\ Len(SubSeq(s, 1, n - 1))
           = IF 1 <= n - 1 THEN n - 1 - 1 + 1 ELSE 0
      /\ \A i \in 1..(n - 1 - 1 + 1) :
           SubSeq(s, 1, n - 1)[i] = s[1 + i - 1]
  BY <1>1, SubSeqProperties DEF Hash
<1> DEFINE a == SubSeq(s, 1, n - 1)
           b == SubSeq(s, 1, n)
           e == s[n]
<1>4. e \in Entry
  BY <1>1
<1>5. /\ a \in Hash /\ Len(a) = n - 1
      /\ b \in Hash /\ Len(b) = n
      /\ \A i \in 1..(n - 1) : a[i] = s[i]
      /\ \A i \in 1..n : b[i] = s[i]
  BY <1>1, <1>2, <1>3
<1>6. b[n] = e
  BY <1>1, <1>5
<1> HIDE DEF a, b, e
<1>7. /\ Append(a, e) \in Hash /\ Len(Append(a, e)) = n
      /\ Append(a, e)[n] = e
      /\ \A i \in 1..(n - 1) : Append(a, e)[i] = a[i]
  <2>1. Len(a) + 1 = n
    BY <1>1, <1>5
  <2> QED BY <1>4, <1>5, <2>1, Prefixes
<1>8. \A i \in 1..n : b[i] = Append(a, e)[i]
  <2>1. \A i \in 1..n : i \in 1..(n - 1) \/ i = n
    BY <1>1
  <2>2. \A i \in 1..(n - 1) : b[i] = a[i]
    BY <1>1, <1>5
  <2> QED BY <1>6, <1>7, <2>1, <2>2
<1>9. b = Append(a, e)
  BY <1>5, <1>7, <1>8, SeqEqual DEF Hash
<1>10. n # 1 => a # <<>>
  <2>1. Len(<<>>) = 0
    OBVIOUS
  <2> QED BY <1>1, <1>5, <2>1
<1> QED BY <1>4, <1>5, <1>9, <1>10 DEF a, b, e

-----------------------------------------------------------------------------
(* The invariant.                                                          *)

LEMMA ChainInvInit == Init => ChainInv
<1> SUFFICES ASSUME Init PROVE ChainInv
  OBVIOUS
<1>1. <<>> \in Hash /\ Len(<<>>) = 0
  BY EmptySeq DEF Hash
<1>2. Types
  BY <1>1 DEF Init, Types, HeadType, HeadAt, Genesis, NoTx
<1>3. IsLog(head)
  BY <1>1 DEF Init, IsLog, Distinct, HeadAt, Genesis
<1>4. {r.seq : r \in rows} \cup gone = 1..head.seq
  BY DEF Init, HeadAt
<1>5. \A w \in Writers : Inserted(w)
  BY ChainAssumption DEF Init, Inserted, NoTx
<1> QED BY <1>2, <1>3, <1>4, <1>5 DEF ChainInv, Init, Apart

(* The row lock: who has inserted rows has it, and nobody else.            *)
LEMMA OthersEmpty ==
  ASSUME ChainInv, NEW w \in Writers, lock \in {None, w}
  PROVE  \A v \in Writers \ {w} : tx[v].rows = {}
BY ChainAssumption DEF ChainInv, Inserted

(* The head a transaction sees is one whose rows it knows.                 *)
LEMMA Seen ==
  ASSUME ChainInv, NEW w \in Writers, NEW id \in Ids, HeadFree(w), Fresh(id)
  PROVE  /\ SeenHead(w) \in HeadType /\ IsLog(SeenHead(w))
         /\ SeenHead(w) = head \/ Extends(SeenHead(w), head)
         /\ head.seq <= SeenHead(w).seq
         /\ {r.seq : r \in tx[w].rows} = (head.seq + 1)..SeenHead(w).seq
         /\ \A r \in tx[w].rows : InLog(r, SeenHead(w))
         /\ Apart(tx[w].rows)
         /\ \A i \in 1..Len(SeenHead(w).hash) : SeenHead(w).hash[i][1] # id
<1>1. head \in HeadType /\ head.seq \in Nat /\ head.seq = Len(head.hash)
  BY DEF ChainInv, Types, IsLog, HeadType
<1>2. CASE tx[w].rows = {}
  <2>1. SeenHead(w) = head
    BY <1>2 DEF SeenHead
  <2> QED BY <1>1, <1>2, <2>1 DEF ChainInv, Apart, Fresh
<1>3. CASE tx[w].rows # {}
  <2> DEFINE h == tx[w].head
  <2>1. SeenHead(w) = h
    BY <1>3 DEF SeenHead
  <2>2. /\ h \in HeadType /\ IsLog(h) /\ Extends(h, head)
        /\ Apart(tx[w].rows) /\ \A r \in tx[w].rows : InLog(r, h)
        /\ {r.seq : r \in tx[w].rows} = (head.seq + 1)..h.seq
    BY <1>3 DEF ChainInv, Types, Inserted
  <2> HIDE DEF h
  <2>3. /\ h.seq \in Nat /\ head.seq < h.seq /\ h.seq = Len(h.hash)
        /\ \A i \in 1..head.seq : head.hash[i] = h.hash[i]
    BY <1>1, <2>2, PrefixAgrees DEF IsLog
  <2>4. ASSUME NEW i \in 1..h.seq PROVE h.hash[i][1] # id
    <3>1. CASE i <= head.seq
      BY <1>1, <2>3, <3>1 DEF Fresh
    <3>2. CASE i > head.seq
      <4>1. i \in (head.seq + 1)..h.seq
        BY <1>1, <2>3, <3>2
      <4>2. PICK r \in tx[w].rows : r.seq = i
        BY <2>2, <4>1
      <4>3. h.hash[i][1] = r.id
        BY <2>2, <4>2, EnteredAs DEF InLog
      <4> QED BY <4>2, <4>3 DEF Fresh
    <3> QED BY <1>1, <3>1, <3>2
  <2> QED BY <2>1, <2>2, <2>3, <2>4, <1>1
<1> QED BY <1>2, <1>3

LEMMA CreateKeeps ==
  ASSUME ChainInv, NEW w \in Writers, NEW id \in Ids, Create(w, id)
  PROVE  ChainInv'
<1> DEFINE r == Linked(w, id)
           h == SeenHead(w)
           e == <<id, "as written">>
           g == HeadAt(Append(h.hash, e), Len(h.hash) + 1)
<1>1. /\ HeadFree(w) /\ Fresh(id) /\ lock' = w
      /\ tx' = [tx EXCEPT ![w].rows = @ \cup {r},
                          ![w].head = HeadAt(r.hash, r.seq)]
      /\ pc' = [pc EXCEPT ![w] = "open"]
      /\ UNCHANGED <<rows, head, month, gone, altered>>
  BY DEF Create, past
<1>2. e \in Entry /\ e[1] = id
  BY DEF Entry, Text
<1>3. /\ h \in HeadType /\ IsLog(h) /\ (h = head \/ Extends(h, head))
      /\ head.seq <= h.seq
      /\ {x.seq : x \in tx[w].rows} = (head.seq + 1)..h.seq
      /\ \A x \in tx[w].rows : InLog(x, h)
      /\ Apart(tx[w].rows)
      /\ \A i \in 1..Len(h.hash) : h.hash[i][1] # id
  BY <1>1, Seen
<1>4. /\ h.hash \in Hash /\ h.seq \in Nat /\ h.seq = Len(h.hash)
      /\ Distinct(h.hash) /\ h = HeadAt(h.hash, Len(h.hash))
  BY <1>3, HeadFacts
<1>5. /\ r.seq = h.seq + 1 /\ r.hash = Append(h.hash, e) /\ r.id = id
      /\ r.prev = h.hash /\ HeadAt(r.hash, r.seq) = g
  BY <1>4 DEF Linked, Digest
<1>5a. AsWritten(r) /\ Entered(r, e)
  BY DEF Linked, AsWritten, Entered
<1>6. g.hash = Append(h.hash, e) /\ g.seq = h.seq + 1
  BY <1>4 DEF HeadAt
<1> HIDE DEF r, h, e, g
<1>7. /\ g \in HeadType /\ IsLog(g) /\ Extends(g, h)
      /\ InLog(r, g)
      /\ \A x : InLog(x, h) => InLog(x, g)
      /\ \A x \in HeadType : Extends(h, x) => Extends(g, x)
  <2>1. \A i \in 1..Len(h.hash) : h.hash[i][1] # e[1]
    BY <1>2, <1>3
  <2>2. /\ HeadAt(Append(h.hash, e), Len(h.hash) + 1) \in HeadType
        /\ IsLog(HeadAt(Append(h.hash, e), Len(h.hash) + 1))
    BY <1>2, <1>4, <2>1, Appended
  <2>3. LET k == HeadAt(h.hash, Len(h.hash))
            l == HeadAt(Append(h.hash, e), Len(h.hash) + 1)
        IN  /\ Extends(l, k)
            /\ \A x : /\ x.seq = l.seq /\ x.hash = l.hash /\ x.prev = h.hash
                    /\ AsWritten(x) /\ Entered(x, e)
                  => InLog(x, l)
            /\ \A x : InLog(x, k) => InLog(x, l)
            /\ \A x \in HeadType : Extends(k, x) => Extends(l, x)
    BY <1>2, <1>4, <2>1, Appended
  <2> QED BY <1>2, <1>4, <1>5, <1>5a, <1>6, <2>2, <2>3 DEF g
<1>8. r \in Row
  <2>1. tx[w].at \in Nat
    BY DEF ChainInv, Types
  <2>2. Append(h.hash, e) \in Hash
    BY <1>6, <1>7 DEF HeadType
  <2>3. h.seq + 1 \in Nat
    BY <1>4
  <2>4. r = [id |-> id, text |-> "as written", state |-> "as written",
             at |-> tx[w].at, pii |-> TRUE, prev |-> h.hash,
             seq |-> h.seq + 1, hash |-> Append(h.hash, e)]
    BY DEF r, h, e, Linked, Digest
  <2> QED BY <1>4, <2>1, <2>2, <2>3, <2>4 DEF Row, Text
<1>9. tx' \in [Writers -> [at : Nat, rows : SUBSET Row, head : HeadType]]
      /\ tx'[w].rows = tx[w].rows \cup {r} /\ tx'[w].head = g
      /\ \A v \in Writers \ {w} : tx'[v] = tx[v]
  BY <1>1, <1>5, <1>7, <1>8 DEF ChainInv, Types
<1>10. Types'
  BY <1>1, <1>9 DEF ChainInv, Types
<1>11. Inserted(w)'
  <2>1. Extends(g, head)
    BY <1>3, <1>7 DEF ChainInv, Types
  <2>2. \A x \in tx[w].rows \cup {r} : InLog(x, g)
    BY <1>3, <1>7
  <2>3. Apart(tx[w].rows \cup {r})
    <3>1. \A x \in tx[w].rows : x.seq \in (head.seq + 1)..h.seq
      BY <1>3
    <3>2. h.seq + 1 \notin (head.seq + 1)..h.seq
      BY <1>4
    <3>3. \A x \in tx[w].rows : x.seq # r.seq
      BY <3>1, <3>2, <1>5
    <3> QED BY <1>3, <3>3 DEF Apart
  <2>4. {x.seq : x \in tx[w].rows \cup {r}} = (head.seq + 1)..g.seq
    <3>1. head.seq \in Nat
      BY DEF ChainInv, Types, HeadType
    <3>2. (head.seq + 1)..(h.seq + 1) = ((head.seq + 1)..h.seq) \cup {h.seq + 1}
      BY <1>3, <1>4, <3>1
    <3>3. {x.seq : x \in tx[w].rows \cup {r}}
            = {x.seq : x \in tx[w].rows} \cup {r.seq}
      OBVIOUS
    <3> QED BY <1>3, <1>5, <1>6, <3>2, <3>3
  <2> QED BY <1>1, <1>7, <1>9, <2>1, <2>2, <2>3, <2>4 DEF Inserted
<1>12. ASSUME NEW v \in Writers \ {w} PROVE Inserted(v)'
  <2>1. tx[v].rows = {}
    BY <1>1, OthersEmpty DEF HeadFree
  <2>2. pc'[v] = pc[v]
    BY <1>1 DEF ChainInv, Types
  <2> QED BY <1>1, <1>9, <2>1, <2>2 DEF Inserted, ChainInv
<1> QED BY <1>1, <1>10, <1>11, <1>12 DEF ChainInv, Apart, Recorded, Kept

(* Whoever ends its transaction leaves the lock to the others.             *)
LEMMA EndInserted ==
  ASSUME ChainInv, NEW w \in Writers, End(w),
         tx[w].rows = {} => UNCHANGED head
  PROVE  \A v \in Writers : Inserted(v)'
<1>1. /\ lock' = IF lock = w THEN None ELSE lock
      /\ pc'[w] = "idle" /\ tx'[w].rows = {}
      /\ \A v \in Writers \ {w} : pc'[v] = pc[v] /\ tx'[v] = tx[v]
  BY DEF End, NoTx, ChainInv, Types
<1>2. CASE lock = w
  <2>1. \A v \in Writers \ {w} : tx[v].rows = {}
    BY <1>2, OthersEmpty
  <2> QED BY <1>1, <1>2, <2>1, ChainAssumption DEF Inserted, ChainInv
<1>3. CASE lock # w
  <2>1. tx[w].rows = {} /\ UNCHANGED <<head, lock>>
    BY <1>1, <1>3 DEF ChainInv, Inserted
  <2> QED BY <1>1, <1>3, <2>1 DEF Inserted, ChainInv
<1> QED BY <1>2, <1>3

LEMMA CommitKeeps ==
  ASSUME ChainInv, NEW w \in Writers, Commit(w)
  PROVE  ChainInv' /\ Extends(head', head)
<1> DEFINE h == tx[w].head
           rs == tx[w].rows
<1>1. /\ pc[w] = "open" /\ rows' = rows \cup rs /\ head' = h /\ End(w)
  BY DEF Commit
<1>2. /\ h \in HeadType /\ IsLog(h) /\ Extends(h, head) /\ rs \subseteq Row
      /\ Apart(rs) /\ \A r \in rs : InLog(r, h)
      /\ {r.seq : r \in rs} = (head.seq + 1)..h.seq /\ rs # {}
  BY <1>1 DEF ChainInv, Types, Inserted
<1>3. head \in HeadType /\ head.seq \in Nat
      /\ \A r \in rows : Recorded(r, head)
  BY DEF ChainInv, Types, HeadType
<1>4. \A v \in Writers : Inserted(v)'
  BY <1>1, <1>2, EndInserted
<1>5. Types'
  <2>1. <<>> \in Hash
    BY EmptySeq DEF Hash
  <2>2. NoTx \in [at : Nat, rows : SUBSET Row, head : HeadType]
    BY <2>1 DEF NoTx, HeadAt, HeadType, Genesis
  <2> QED BY <1>1, <1>2, <2>2 DEF ChainInv, Types, End, past
<1> HIDE DEF h, rs
<1>6. /\ h.seq \in Nat /\ head.seq < h.seq
  BY <1>2, <1>3, PrefixAgrees
<1>7. \A r \in rows \cup rs : Recorded(r, h)
  BY <1>2, <1>3, StillRecorded, FirstRecorded
<1>8. Apart(rows \cup rs)
  <2>1. \A r \in rows : r.seq \in 1..head.seq
    BY <1>3 DEF Recorded
  <2>2. \A r \in rs : r.seq \in (head.seq + 1)..h.seq
    BY <1>2
  <2>3. \A r \in rows, s \in rs : r.seq # s.seq
    BY <1>3, <1>6, <2>1, <2>2
  <2> QED BY <1>2, <2>3 DEF ChainInv, Apart
<1>9. {r.seq : r \in rows \cup rs} \cup gone = 1..h.seq
  <2>1. {r.seq : r \in rows \cup rs}
          = {r.seq : r \in rows} \cup {r.seq : r \in rs}
    OBVIOUS
  <2>2. 1..h.seq = (1..head.seq) \cup ((head.seq + 1)..h.seq)
    BY <1>3, <1>6
  <2> QED BY <1>2, <2>1, <2>2 DEF ChainInv
<1>10. gone' = gone /\ altered' = altered
  BY <1>1 DEF End, past
<1>11. \A r \in rows' : Recorded(r, head)'
  BY <1>1, <1>7, <1>10 DEF Recorded, Kept
<1> QED BY <1>1, <1>2, <1>4, <1>5, <1>8, <1>9, <1>10, <1>11 DEF ChainInv

LEMMA RollbackKeeps ==
  ASSUME ChainInv, NEW w \in Writers, Rollback(w)
  PROVE  ChainInv'
<1>1. End(w) /\ UNCHANGED <<rows, head>>
  BY DEF Rollback
<1>2. \A v \in Writers : Inserted(v)'
  BY <1>1, EndInserted
<1>3. Types'
  <2>1. <<>> \in Hash
    BY EmptySeq DEF Hash
  <2>2. NoTx \in [at : Nat, rows : SUBSET Row, head : HeadType]
    BY <2>1 DEF NoTx, HeadAt, HeadType, Genesis
  <2> QED BY <1>1, <2>2 DEF ChainInv, Types, End, past
<1> QED BY <1>1, <1>2, <1>3 DEF ChainInv, End, Apart, Recorded, Kept, past

LEMMA NewAuditLogKeeps ==
  ASSUME ChainInv, NEW w \in Writers, NewAuditLog(w)
  PROVE  ChainInv'
<1>1. /\ pc' = [pc EXCEPT ![w] = "built"]
      /\ tx' = [tx EXCEPT ![w].at = month]
      /\ UNCHANGED <<rows, head, lock, month, gone, altered>>
  BY DEF NewAuditLog, past
<1>2. Types'
  BY <1>1 DEF ChainInv, Types
<1>3. ASSUME NEW v \in Writers PROVE Inserted(v)'
  <2>1. tx'[v].rows = tx[v].rows /\ tx'[v].head = tx[v].head
        /\ (pc'[v] = "open" => pc[v] = "open")
    BY <1>1 DEF ChainInv, Types
  <2> QED BY <1>1, <2>1 DEF ChainInv, Inserted
<1> QED BY <1>1, <1>2, <1>3 DEF ChainInv, Apart, Recorded, Kept

(* What is done to committed rows is nobody's transaction's business.      *)
LEMMA RowsChanged ==
  ASSUME ChainInv, UNCHANGED <<head, lock, pc, tx, month>>,
         rows' \subseteq Row, gone' \subseteq Nat,
         \A r \in rows' : Recorded(r, head)',
         Apart(rows'),
         {r.seq : r \in rows'} \cup gone' = 1..head.seq
  PROVE  ChainInv'
<1>1. \A w \in Writers : Inserted(w)'
  BY DEF ChainInv, Inserted
<1> QED BY <1>1 DEF ChainInv, Types

LEMMA ScrubKeeps ==
  ASSUME ChainInv, NEW cutoff, scrub_audit_log_pii(cutoff)
  PROVE  ChainInv'
<1> DEFINE f(r) == IF r.at < cutoff THEN Scrubbed(r) ELSE r
<1>1. /\ rows' = {f(r) : r \in rows}
      /\ UNCHANGED <<head, lock, pc, tx, month, gone, altered>>
  BY DEF scrub_audit_log_pii, past
<1>2. ASSUME NEW r \in rows
      PROVE  /\ f(r) \in Row /\ f(r).seq = r.seq
             /\ f(r).hash = r.hash /\ f(r).id = r.id
             /\ f(r).prev = r.prev /\ f(r).text = r.text
  BY DEF ChainInv, Types, Row, Scrubbed
<1> HIDE DEF f
<1>3. rows' \subseteq Row
  BY <1>1, <1>2
<1>4. \A r \in rows' : Recorded(r, head)'
  <2>1. ASSUME NEW r \in rows PROVE Recorded(f(r), head)
    BY <1>2, <2>1 DEF ChainInv, Recorded, Kept, AsWritten, Entered
  <2> QED BY <1>1, <2>1 DEF Recorded, Kept
<1>5. Apart(rows')
  BY <1>1, <1>2 DEF ChainInv, Apart
<1>6. {r.seq : r \in rows'} = {r.seq : r \in rows}
  BY <1>1, <1>2
<1> QED BY <1>1, <1>3, <1>4, <1>5, <1>6, RowsChanged DEF ChainInv, Types

LEMMA DropPartitionKeeps ==
  ASSUME ChainInv, NEW m, DropPartition(m)
  PROVE  ChainInv'
<1>1. /\ rows' = {r \in rows : r.at # m}
      /\ gone' = gone \cup {r.seq : r \in {x \in rows : x.at = m}}
      /\ UNCHANGED <<head, lock, pc, tx, month, altered>>
  BY DEF DropPartition
<1>2. rows' \subseteq Row /\ gone' \subseteq Nat
  BY <1>1 DEF ChainInv, Types, Row
<1>3. {r.seq : r \in rows'} \cup gone' = {r.seq : r \in rows} \cup gone
  BY <1>1
<1>4. \A r \in rows' : Recorded(r, head)'
  BY <1>1 DEF ChainInv, Recorded, Kept
<1> QED BY <1>1, <1>2, <1>3, <1>4, RowsChanged DEF ChainInv, Apart

LEMMA DeleteKeeps ==
  ASSUME ChainInv, NEW r \in rows, Delete(r)
  PROVE  ChainInv'
<1>1. /\ rows' = rows \ {r} /\ gone' = gone \cup {r.seq}
      /\ UNCHANGED <<head, lock, pc, tx, month, altered>>
  BY DEF Delete
<1>2. rows' \subseteq Row /\ gone' \subseteq Nat
  BY <1>1 DEF ChainInv, Types, Row
<1>3. {x.seq : x \in rows'} \cup gone' = {x.seq : x \in rows} \cup gone
  BY <1>1
<1>4. \A x \in rows' : Recorded(x, head)'
  BY <1>1 DEF ChainInv, Recorded, Kept
<1> QED BY <1>1, <1>2, <1>3, <1>4, RowsChanged DEF ChainInv, Apart

(* The column that is rewritten is one that the row need not have kept.    *)
LEMMA RewriteKeeps ==
  ASSUME ChainInv, NEW r \in rows, NEW column, NEW s \in Row,
         Rewrite(r, column, s), s.seq = r.seq, s.id = r.id,
         column # "text" => s.text = r.text,
         column # "prev" => s.prev = r.prev,
         column # "hash" => s.hash = r.hash
  PROVE  ChainInv'
<1>1. /\ rows' = (rows \ {r}) \cup {s}
      /\ altered' = altered \cup {<<r.seq, column>>}
      /\ UNCHANGED <<head, lock, pc, tx, month, gone>>
  BY DEF Rewrite
<1>2. rows' \subseteq Row
  BY <1>1 DEF ChainInv, Types
<1>3. ASSUME NEW x \in rows' PROVE Recorded(x, head)'
  <2>1. \A c : <<x.seq, c>> \notin altered' => <<x.seq, c>> \notin altered
    BY <1>1
  <2>2. CASE x # s
    <3>1. Recorded(x, head)
      BY <1>1, <2>2 DEF ChainInv
    <3> QED BY <1>1, <2>1, <3>1 DEF Recorded, Kept
  <2>3. CASE x = s
    <3>1. Recorded(r, head)
      BY DEF ChainInv
    <3>2. \A c : <<r.seq, c>> \notin altered' => c # column
      BY <1>1
    <3> QED BY <1>1, <2>1, <2>3, <3>1, <3>2 DEF Recorded, Kept, AsWritten, Entered
  <2> QED BY <2>2, <2>3
<1>4. Apart(rows')
  BY <1>1 DEF ChainInv, Apart
<1>5. {x.seq : x \in rows'} = {x.seq : x \in rows}
  BY <1>1
<1> QED BY <1>1, <1>2, <1>3, <1>4, <1>5, RowsChanged DEF ChainInv, Types

LEMMA LargestUpTo ==
  ASSUME NEW n \in Nat, NEW T, T \subseteq 1..n, T # {}
  PROVE  \E m \in T : \A x \in T : x <= m
<1> DEFINE Rest == {n - x : x \in T}
           Less == OpToRel(<, Nat)
<1>1. Rest \subseteq Nat /\ Rest # {}
  <2>1. \A x \in 1..n : n - x \in Nat
    OBVIOUS
  <2>2. \A x \in T : n - x \in Nat
    BY <2>1
  <2> QED BY <2>2
<1>2. IsWellFoundedOn(Less, Nat)
  BY NatLessThanWellFounded
<1>3. \A i, j \in Nat : <<i, j>> \in Less <=> i < j
  BY DEF OpToRel
<1>4. PICK k \in Rest : \A l \in Rest : ~ (<<l, k>> \in Less)
  <2> HIDE DEF Rest, Less
  <2> QED BY <1>1, <1>2, WFMin
<1>5. PICK m \in T : k = n - m
  BY <1>4
<1> HIDE DEF Less
<1>6. ASSUME NEW x \in T PROVE x <= m
  <2>1. n - x \in Rest /\ n - x \in Nat /\ n - m \in Nat
    BY <1>1
  <2>2. ~ (n - x < n - m)
    BY <1>3, <1>4, <1>5, <2>1
  <2> QED BY <2>2
<1> QED BY <1>6

(* Verification expects before a row the digest of the nearest row before  *)
(* it, if there is any.                                                    *)
LEMMA PrevRow ==
  ASSUME ChainInv, NEW r \in rows
  PROVE  \/ /\ \A s \in rows : ~ (s.seq < r.seq)
            /\ expected_prev_hash(r) = <<>>
         \/ \E c \in rows :
              /\ c.seq < r.seq /\ expected_prev_hash(r) = c.hash
              /\ \A s \in rows : s.seq < r.seq => s.seq <= c.seq
<1>1. CASE Earlier(r) = {}
  <2>1. \A s \in rows : ~ (s.seq < r.seq)
    BY <1>1 DEF Earlier
  <2> QED BY <1>1, <2>1 DEF expected_prev_hash, Genesis
<1>2. CASE Earlier(r) # {}
  <2> DEFINE Last(s) == \A t \in Earlier(r) : t.seq <= s.seq
             c == CHOOSE s \in Earlier(r) : Last(s)
             T == {s.seq : s \in Earlier(r)}
  <2>1. head.seq \in Nat /\ \A s \in Earlier(r) : s.seq \in 1..head.seq
    BY DEF ChainInv, Types, HeadType, Recorded, Earlier
  <2>2. \E m \in T : \A x \in T : x <= m
    <3>1. T \subseteq 1..head.seq /\ T # {}
      BY <1>2, <2>1
    <3> HIDE DEF T
    <3> QED BY <2>1, <3>1, LargestUpTo
  <2>3. \E s \in Earlier(r) : Last(s)
    BY <2>2
  <2>4. c \in Earlier(r) /\ Last(c)
    BY <2>3
  <2>5. expected_prev_hash(r) = c.hash
    BY <1>2 DEF expected_prev_hash
  <2> HIDE DEF c, T
  <2> QED BY <2>4, <2>5 DEF Earlier
<1> QED BY <1>1, <1>2

LEMMA FittingTyped ==
  ASSUME ChainInv, NEW r \in rows
  PROVE  r \in Row /\ expected_prev_hash(r) \in Hash /\ Fitting(r) \subseteq Hash
<1>1. rows \subseteq Row /\ <<>> \in Hash
  BY EmptySeq DEF ChainInv, Types, Hash
<1>2. \A c \in rows : c.hash \in Hash
  BY <1>1 DEF Row
<1>3. expected_prev_hash(r) \in Hash
  BY <1>1, <1>2, PrevRow
<1>4. Digest(r.prev, r.id, r.text) \in Hash
  <2>1. r.prev \in Hash /\ <<r.id, r.text>> \in Entry
    BY <1>1 DEF Row, Entry
  <2> QED BY <2>1, Prefixes DEF Digest
<1> QED BY <1>1, <1>3, <1>4 DEF Fitting, Genesis

LEMMA AlterKeeps ==
  ASSUME ChainInv, NEW r \in rows, Alter(r)
  PROVE  ChainInv'
<1>1. r \in Row /\ Fitting(r) \subseteq Hash
  BY FittingTyped
<1>2. CASE Rewrite(r, "text", [r EXCEPT !.text = "altered"])
  <2> DEFINE s == [r EXCEPT !.text = "altered"]
  <2>1. /\ s \in Row /\ s.seq = r.seq /\ s.id = r.id
        /\ s.prev = r.prev /\ s.hash = r.hash
    BY <1>1 DEF Row, Text
  <2> HIDE DEF s
  <2>2. Rewrite(r, "text", s)
    BY <1>2 DEF s
  <2> QED BY <2>1, <2>2, RewriteKeeps
<1>3. CASE Rewrite(r, "state", [r EXCEPT !.state = "altered"])
  <2> DEFINE s == [r EXCEPT !.state = "altered"]
  <2>1. /\ s \in Row /\ s.seq = r.seq /\ s.id = r.id
        /\ s.prev = r.prev /\ s.hash = r.hash /\ s.text = r.text
    BY <1>1 DEF Row, Text
  <2> HIDE DEF s
  <2>2. Rewrite(r, "state", s)
    BY <1>3 DEF s
  <2> QED BY <2>1, <2>2, RewriteKeeps
<1>4. ASSUME NEW h \in Fitting(r), Rewrite(r, "prev", [r EXCEPT !.prev = h])
      PROVE  ChainInv'
  <2> DEFINE s == [r EXCEPT !.prev = h]
  <2>1. /\ s \in Row /\ s.seq = r.seq /\ s.id = r.id
        /\ s.text = r.text /\ s.hash = r.hash
    BY <1>1 DEF Row
  <2> HIDE DEF s
  <2>2. Rewrite(r, "prev", s)
    BY <1>4 DEF s
  <2> QED BY <2>1, <2>2, RewriteKeeps
<1>5. ASSUME NEW h \in Fitting(r), Rewrite(r, "hash", [r EXCEPT !.hash = h])
      PROVE  ChainInv'
  <2> DEFINE s == [r EXCEPT !.hash = h]
  <2>1. /\ s \in Row /\ s.seq = r.seq /\ s.id = r.id
        /\ s.text = r.text /\ s.prev = r.prev
    BY <1>1 DEF Row
  <2> HIDE DEF s
  <2>2. Rewrite(r, "hash", s)
    BY <1>5 DEF s
  <2> QED BY <2>1, <2>2, RewriteKeeps
<1> QED BY <1>2, <1>3, <1>4, <1>5 DEF Alter

(* Only a commit moves the head, and it extends the log.                   *)
LEMMA ChainInvStep ==
  ASSUME ChainInv, [Next]_vars
  PROVE  ChainInv' /\ (UNCHANGED head \/ Extends(head', head))
<1>1. CASE UNCHANGED vars
  BY <1>1 DEF vars, past, ChainInv, Types, Inserted, Apart, Recorded, Kept
<1>2. ASSUME NEW w \in Writers, Write(w)
      PROVE  ChainInv' /\ (UNCHANGED head \/ Extends(head', head))
  <2>1. CASE NewAuditLog(w)
    BY <2>1, NewAuditLogKeeps DEF NewAuditLog
  <2>2. ASSUME NEW id \in Ids, Create(w, id)
        PROVE  ChainInv' /\ UNCHANGED head
    BY <2>2, CreateKeeps DEF Create
  <2>3. CASE Commit(w)
    BY <2>3, CommitKeeps
  <2>4. CASE Rollback(w)
    BY <2>4, RollbackKeeps DEF Rollback
  <2> QED BY <1>2, <2>1, <2>2, <2>3, <2>4 DEF Write
<1>3. ASSUME NEW m, scrub_audit_log_pii(m) \/ DropPartition(m)
      PROVE  ChainInv' /\ UNCHANGED head
  BY <1>3, ScrubKeeps, DropPartitionKeeps
     DEF scrub_audit_log_pii, DropPartition
<1>4. ASSUME NEW r \in rows, Alter(r) \/ Delete(r)
      PROVE  ChainInv' /\ UNCHANGED head
  BY <1>4, AlterKeeps, DeleteKeeps DEF Alter, Rewrite, Delete
<1>5. CASE Tick
  <2>1. month' \in Nat /\ UNCHANGED <<rows, head, lock, pc, tx, gone, altered>>
    BY <1>5 DEF Tick, past, ChainInv, Types
  <2>2. \A w \in Writers : Inserted(w)'
    BY <2>1 DEF ChainInv, Inserted
  <2>3. \A r \in rows' : Recorded(r, head)'
    BY <2>1 DEF ChainInv, Recorded, Kept
  <2> QED BY <2>1, <2>2, <2>3 DEF ChainInv, Types, Apart
<1> QED BY <1>1, <1>2, <1>3, <1>4, <1>5 DEF Next

LEMMA ChainInvAlways == Spec => []ChainInv
<1>1. ChainInv /\ [Next]_vars => ChainInv'
  BY ChainInvStep
<1> QED BY <1>1, ChainInvInit, PTL DEF Spec

-----------------------------------------------------------------------------
(* Every committed row has its own place in the log and its own digest, and*)
(* no place is empty but those of rows that were dropped or deleted:       *)
(* however many requests insert, commit and roll back at the same time.    *)
THEOREM LogCorrect == Spec => []RowsAreTheLog
<1>1. ChainInv => RowsAreTheLog
  <2> SUFFICES ASSUME ChainInv PROVE RowsAreTheLog
    OBVIOUS
  <2>1. head.seq = Len(head.hash)
    BY DEF ChainInv, IsLog
  <2>2. \A r, s \in rows : r.seq = s.seq => r = s
    BY DEF ChainInv, Apart
  <2>3. \A r \in rows : /\ <<r.seq, "hash">> \notin altered =>
                            r.hash = SubSeq(head.hash, 1, r.seq)
                       /\ r.id = head.hash[r.seq][1]
    BY EnteredAs DEF ChainInv, Recorded, Kept
  <2> QED BY <2>1, <2>2, <2>3 DEF ChainInv, RowsAreTheLog
<1> QED BY <1>1, ChainInvAlways, PTL

(* The chain implements the list of AuditLog: it starts empty, and a step  *)
(* either leaves the log alone or appends to it rows that are not in it.   *)
THEOREM ChainImplementsLog == Spec => ImplementsLog
<1>1. Init => L!Init
  BY DEF Init, L!Init, HeadAt, Genesis
<1>2. ASSUME ChainInv, [Next]_vars
      PROVE  [L!Record]_(head.hash)
  <2>1. CASE UNCHANGED head
    BY <2>1
  <2>2. CASE Extends(head', head)
    <3>1. ChainInv'
      BY <1>2, ChainInvStep
    <3>2. /\ head.seq = Len(head.hash) /\ head'.seq = Len(head'.hash)
          /\ Distinct(head'.hash)
      BY <1>2, <3>1 DEF ChainInv, IsLog
    <3>3. Len(head'.hash) > Len(head.hash)
          /\ SubSeq(head'.hash, 1, Len(head.hash)) = head.hash
      BY <2>2, <3>2, <1>2, <3>1 DEF Extends, ChainInv, Types, HeadType
    <3>4. \A i, j \in 1..Len(head'.hash) :
            head'.hash[i] = head'.hash[j] => i = j
      BY <3>2 DEF Distinct
    <3> QED BY <3>3, <3>4 DEF L!Record, L!NoRecordTwice
  <2> QED BY <1>2, <2>1, <2>2, ChainInvStep
<1>3. ChainInv /\ [Next]_vars => [L!Record]_(head.hash)
  BY <1>2
<1> QED
  BY <1>1, <1>3, ChainInvAlways, PTL DEF Spec, ImplementsLog, L!Spec

-----------------------------------------------------------------------------
(* What verification finds.                                                *)

(* What a row that is not named says of the digest before it.              *)
LEMMA NotNamed ==
  ASSUME NEW r \in rows, \A x \in rows : x.id = r.id => x = r
  PROVE  r.id \notin verify_audit_log_chain
           <=> /\ r.prev = expected_prev_hash(r)
               /\ r.hash = Digest(expected_prev_hash(r), r.id, r.text)
BY DEF verify_audit_log_chain

(* Rows of the log have ids of their own.                                  *)
LEMMA OwnIds ==
  ASSUME ChainInv, NEW r \in rows, NEW s \in rows, r.id = s.id
  PROVE  r = s
<1>1. /\ r.seq \in 1..Len(head.hash) /\ s.seq \in 1..Len(head.hash)
      /\ Entered(r, head.hash[r.seq]) /\ Entered(s, head.hash[s.seq])
  BY DEF ChainInv, Recorded, IsLog
<1>2. head.hash[r.seq][1] = head.hash[s.seq][1]
  BY <1>1 DEF Entered
<1>3. r.seq = s.seq
  BY <1>1, <1>2 DEF ChainInv, IsLog, Distinct
<1> QED BY <1>3 DEF ChainInv, Apart

(* Whatever was inserted, rolled back, scrubbed, dropped, deleted and      *)
(* altered in whatever order: an alarm has a cause, and hashed text that   *)
(* was altered under a digest that was not is named.                       *)
THEOREM AlarmsCorrect == Spec => []AlarmsAreReal
<1>1. ASSUME ChainInv PROVE AlarmsAreReal
  <2> SUFFICES ASSUME NEW r \in rows
               PROVE  /\ r.id \in verify_audit_log_chain =>
                           \/ \E c \in Columns \ {"state"} : <<r.seq, c>> \in altered
                           \/ <<r.seq - 1, "hash">> \in altered
                           \/ r.seq - 1 \in gone
                      /\ r.text = "altered" /\ <<r.seq, "hash">> \notin altered =>
                           r.id \in verify_audit_log_chain
    BY DEF AlarmsAreReal
  <2> DEFINE log == head.hash
             n == r.seq
             E == expected_prev_hash(r)
  <2>1. /\ log \in Hash /\ head.seq = Len(log) /\ head.seq \in Nat
        /\ Recorded(r, head) /\ n \in 1..Len(log) /\ n \in Nat
        /\ Entered(r, log[n])
    BY <1>1 DEF ChainInv, Types, HeadType, IsLog, Recorded
  <2>2. /\ log[n] \in Entry
        /\ SubSeq(log, 1, n) \in Hash /\ SubSeq(log, 1, n - 1) \in Hash
        /\ SubSeq(log, 1, n) = Append(SubSeq(log, 1, n - 1), log[n])
    BY <2>1, LastOf
  <2>3. r \in Row /\ E \in Hash
    BY <1>1, FittingTyped
  <2>4. r.id \notin verify_audit_log_chain
          <=> r.prev = E /\ r.hash = Append(E, <<r.id, r.text>>)
    BY <1>1, NotNamed, OwnIds DEF Digest
  <2>5. ASSUME \A c \in Columns \ {"state"} : <<n, c>> \notin altered,
               <<n - 1, "hash">> \notin altered, n - 1 \notin gone
        PROVE  r.id \notin verify_audit_log_chain
    <3>1. /\ r.hash = SubSeq(log, 1, n) /\ r.prev = SubSeq(log, 1, n - 1)
          /\ AsWritten(r)
      BY <2>1, <2>5 DEF Recorded, Kept, Columns
    <3>2. E = SubSeq(log, 1, n - 1)
      <4>1. CASE n = 1
        <5>1. \A s \in rows : s.seq \in 1..head.seq
          BY <1>1 DEF ChainInv, Recorded, Kept
        <5>2. \A s \in rows : ~ (s.seq < r.seq)
          BY <2>1, <4>1, <5>1
        <5>3. E = <<>>
          BY <1>1, <5>2, PrevRow
        <5> QED BY <4>1, <5>3, SubSeqEmpty
      <4>2. CASE n # 1
        <5>1. n - 1 \in 1..head.seq
          BY <2>1, <4>2
        <5>2. PICK s \in rows : s.seq = n - 1
          BY <1>1, <2>5, <5>1 DEF ChainInv
        <5>3. s.hash = SubSeq(log, 1, n - 1)
          BY <1>1, <2>5, <5>2 DEF ChainInv, Recorded, Kept
        <5>4. s.seq < r.seq
          BY <2>1, <5>2
        <5>5. PICK c \in rows : /\ c.seq < r.seq /\ E = c.hash
                                /\ \A x \in rows : x.seq < r.seq => x.seq <= c.seq
          BY <1>1, <5>4, PrevRow
        <5>6. c.seq \in Nat /\ s.seq <= c.seq
          BY <1>1, <2>1, <5>4, <5>5 DEF ChainInv, Recorded
        <5>7. c.seq = s.seq
          BY <2>1, <5>2, <5>5, <5>6
        <5>8. c = s
          BY <1>1, <5>7 DEF ChainInv, Apart
        <5> QED BY <5>3, <5>5, <5>8
      <4> QED BY <4>1, <4>2
    <3>3. log[n] = <<r.id, r.text>>
      BY <2>1, <3>1 DEF Entered, AsWritten
    <3> HIDE DEF log, n, E
    <3> QED BY <2>2, <2>4, <3>1, <3>2, <3>3
  <2>6. ASSUME r.text = "altered", <<n, "hash">> \notin altered
        PROVE  r.id \in verify_audit_log_chain
    <3>1. r.hash = Append(SubSeq(log, 1, n - 1), log[n])
      BY <2>1, <2>2, <2>6 DEF Recorded, Kept
    <3>2. <<r.id, "altered">> \in Entry
      BY <2>3 DEF Row, Entry, Text
    <3>3. log[n] # <<r.id, "altered">>
      <4>1. log[n][2] = "as written"
        BY <2>1, EnteredAs, Zenon
      <4>2. <<r.id, "altered">>[2] = "altered"
        BY Pair, Zenon
      <4> HIDE DEF log, n
      <4> QED BY <4>1, <4>2
    <3>4. \A x \in Hash, y \in Hash, e \in Entry, f \in Entry :
            Append(x, e) = Append(y, f) => e = f
      BY AppendInjective DEF Hash
    <3>5. r.hash # Append(E, <<r.id, "altered">>)
      <4> HIDE DEF log, n, E
      <4> QED BY <2>2, <2>3, <3>1, <3>2, <3>3, <3>4
    <3> QED BY <2>4, <2>6, <3>5
  <2> QED BY <2>5, <2>6
<1> QED BY <1>1, ChainInvAlways, PTL

(* A row that is there with the digest of all up to its place, in a trail  *)
(* of which verification names nobody, has the row of the place before it  *)
(* there in the same way.                                                  *)
Vouched(n) == \E s \in rows : s.seq = n /\ s.hash = SubSeq(head.hash, 1, n)

LEMMA VouchesForPrevious ==
  ASSUME ChainInv, verify_audit_log_chain = {},
         NEW n \in 1..Len(head.hash), Vouched(n)
  PROVE  /\ \E s \in rows : s.seq = n /\ <<s.id, s.text>> = head.hash[n]
         /\ n # 1 => Vouched(n - 1)
<1> DEFINE log == head.hash
<1>1. /\ log \in Hash /\ Len(log) \in Nat /\ rows \subseteq Row
      /\ Distinct(log) /\ head.seq = Len(log)
  BY LenProperties DEF ChainInv, Types, HeadType, IsLog, Hash
<1>2. PICK s \in rows : s.seq = n /\ s.hash = SubSeq(log, 1, n)
  BY DEF Vouched
<1>3. \A x \in rows : /\ expected_prev_hash(x) \in Hash /\ <<x.id, x.text>> \in Entry
                      /\ x.hash = Append(expected_prev_hash(x), <<x.id, x.text>>)
  <2> SUFFICES ASSUME NEW x \in rows
               PROVE  /\ expected_prev_hash(x) \in Hash /\ <<x.id, x.text>> \in Entry
                      /\ x.hash = Append(expected_prev_hash(x), <<x.id, x.text>>)
    OBVIOUS
  <2>1. x \in Row /\ expected_prev_hash(x) \in Hash
    BY FittingTyped
  <2>2. <<x.id, x.text>> \in Entry
    BY <2>1 DEF Row, Entry
  <2>3. x.hash = Append(expected_prev_hash(x), <<x.id, x.text>>)
    BY OwnIds, NotNamed DEF Digest
  <2> QED BY <2>1, <2>2, <2>3
<1>4. ASSUME NEW k \in 1..Len(log), NEW x \in rows, x.hash = SubSeq(log, 1, k)
      PROVE  /\ expected_prev_hash(x) = SubSeq(log, 1, k - 1)
             /\ <<x.id, x.text>> = log[k]
  <2>1. /\ log[k] \in Entry /\ SubSeq(log, 1, k - 1) \in Hash
        /\ SubSeq(log, 1, k) = Append(SubSeq(log, 1, k - 1), log[k])
    BY <1>1, LastOf
  <2>2. Append(expected_prev_hash(x), <<x.id, x.text>>)
          = Append(SubSeq(log, 1, k - 1), log[k])
    BY <1>3, <1>4, <2>1
  <2> HIDE DEF log
  <2>3. \A a \in Hash, b \in Hash, e \in Entry, f \in Entry :
          Append(a, e) = Append(b, f) => a = b /\ e = f
    BY AppendInjective DEF Hash
  <2>4. expected_prev_hash(x) \in Hash /\ <<x.id, x.text>> \in Entry
    BY <1>3
  <2> DEFINE a == expected_prev_hash(x)
             b == SubSeq(log, 1, k - 1)
             e == <<x.id, x.text>>
             f == log[k]
  <2>5. /\ a \in Hash /\ b \in Hash /\ e \in Entry /\ f \in Entry
        /\ Append(a, e) = Append(b, f)
    BY <2>1, <2>2, <2>4
  <2> HIDE DEF a, b, e, f
  <2>6. a = b /\ e = f
    BY <2>3, <2>5
  <2> QED BY <2>6 DEF a, b, e, f
<1>5. ASSUME n # 1 PROVE Vouched(n - 1)
  <2>1. n - 1 \in 1..Len(log)
    BY <1>1, <1>5
  <2>2. expected_prev_hash(s) = SubSeq(log, 1, n - 1) /\ SubSeq(log, 1, n - 1) # <<>>
    BY <1>1, <1>2, <1>4, <1>5, LastOf
  <2>3. PICK c \in rows : c.hash = SubSeq(log, 1, n - 1)
    BY <2>2, PrevRow
  <2>4. <<c.id, c.text>> = log[n - 1]
    BY <1>4, <2>1, <2>3
  <2>5. c.seq \in 1..Len(log) /\ Entered(c, log[c.seq])
    BY <1>1 DEF ChainInv, Recorded, Kept
  <2>6. log[c.seq][1] = log[n - 1][1]
    <3>1. <<c.id, c.text>>[1] = c.id /\ log[c.seq][1] = c.id
      BY <2>5, Pair, EnteredAs, Zenon
    <3> QED BY <2>4, <3>1
  <2>7. c.seq = n - 1
    BY <1>1, <2>1, <2>5, <2>6 DEF Distinct
  <2> QED BY <2>3, <2>7 DEF Vouched
<1> QED BY <1>2, <1>4, <1>5

(* An alarm is missing only where nothing that was committed vouches: in a *)
(* trail without an alarm, all rows up to the last one with the digest it  *)
(* was committed with are there, and say what was committed.               *)
THEOREM SilenceCorrect == Spec => []SilenceVouches
<1>1. ASSUME ChainInv PROVE SilenceVouches
  <2> SUFFICES ASSUME verify_audit_log_chain = {},
                      NEW r \in rows, r.hash = SubSeq(head.hash, 1, r.seq),
                      NEW n \in 1..r.seq
               PROVE  \E s \in rows : s.seq = n /\ <<s.id, s.text>> = head.hash[n]
    BY DEF SilenceVouches
  <2>1. r.seq \in 1..Len(head.hash) /\ r.seq \in Nat /\ Len(head.hash) \in Nat
    BY <1>1 DEF ChainInv, Types, HeadType, IsLog, Recorded
  <2>2. Vouched(r.seq)
    BY DEF Vouched
  <2> DEFINE T == {k \in 1..r.seq : ~ Vouched(k)}
  <2>3. ASSUME T # {} PROVE FALSE
    <3>1. T \subseteq 1..r.seq
      OBVIOUS
    <3>2. PICK m \in T : \A x \in T : x <= m
      <4> HIDE DEF T
      <4> QED BY <2>1, <2>3, <3>1, LargestUpTo
    <3>3. m \in 1..r.seq /\ ~ Vouched(m)
      OBVIOUS
    <3>4. m # r.seq
      BY <2>2, <3>3
    <3>5. m + 1 \in 1..r.seq /\ ~ (m + 1 <= m)
      BY <2>1, <3>3, <3>4
    <3>6. Vouched(m + 1)
      BY <3>2, <3>5
    <3>7. m + 1 \in 1..Len(head.hash) /\ m + 1 # 1 /\ (m + 1) - 1 = m
      BY <2>1, <3>3, <3>5
    <3>8. Vouched((m + 1) - 1)
      BY <1>1, <3>6, <3>7, VouchesForPrevious
    <3> QED BY <3>3, <3>7, <3>8
  <2>4. Vouched(n)
    BY <2>3
  <2>5. n \in 1..Len(head.hash)
    BY <2>1
  <2> QED BY <1>1, <2>4, <2>5, VouchesForPrevious
<1> QED BY <1>1, ChainInvAlways, PTL
=============================================================================
