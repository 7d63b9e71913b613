--------------------------- MODULE JournalProofs ----------------------------
(***************************************************************************)
(* The safety properties of Journal for every size of a block, every set   *)
(* of ranges and any number of transactions, syncs and crashes: the type   *)
(* invariant, that the file's data is never lost, and that the journal     *)
(* implements DurableLog.                                                  *)
(***************************************************************************)
EXTENDS Journal, TLAPS, FiniteSetTheorems, SequenceTheorems, NaturalsInduction, WellFoundedInduction

-----------------------------------------------------------------------------
(***************************************************************************)
(* The inductive invariant.  mt is the block at which the journal was last *)
(* mounted, c the number of transactions that the mount replayed.          *)
(***************************************************************************)
\* The state of the reading loop after n records.
Acc(recs, n) == ReadTransactions(recs)[n]

Kinds == {"EndBlock", "Padding", "Version", "Discard", "DidFlushDevice", "Mutation", "Commit"}
Records == [kind : Kinds, num : Nat, new : Nat, old : Nat]
Histories == [recs : Seq(Records), resets : SUBSET Nat]
Entries == [offset : Nat, num : Nat, new : Nat, old : Nat]

\* s is how l begins.
Begins(s, l) == Len(s) <= Len(l) /\ \A i \in 1..Len(s) : s[i] = l[i]

\* Each transaction moves the file from where the one before it put it.
Chained(l) ==
  /\ \A i \in 1..Len(l) : l[i].new # l[i].old
  /\ \A i \in 1..(Len(l) - 1) : l[i + 1].old = l[i].new /\ l[i].offset + 2 <= l[i + 1].offset

LogOK(l) == l \in Seq(Txs) /\ l # <<>> /\ Chained(l)

\* A transaction whose checksums may be verified shares its range with none
\* that comes later.
Distinct(a) ==
  \A i, j \in 1..Len(a.transactions) :
    i < j /\ a.transactions[i].offset >= a.flushed =>
      a.transactions[j].new \notin {a.transactions[i].new, a.transactions[i].old}

\* What has been read as flushed, was: df is device_flushed.
Known(mt, a, df) == a.flushed <= df \/ a.flushed <= Start(mt) + 1

\* Nothing is taken back after this place in the journal.
Forward(recs, n) == \A i \in 1..Len(recs) : recs[i].kind \in {"Version", "Discard"} => i <= n

\* Block b of the journal, on the device or in its cache.
StoredOK(mt, h, b, logs, df) ==
  /\ h \in Histories /\ Len(h.recs) = Start(b + 1) /\ \A r \in h.resets : r <= b
  /\ Forward(h.recs, Start(mt) + 2)
  /\ \E l \in logs : Begins(Acc(h.recs, Start(b + 1)).transactions, l)
  /\ Distinct(Acc(h.recs, Start(b + 1)))
  /\ Known(mt, Acc(h.recs, Start(b + 1)), df)

\* The blocks of the journal h that have been taken are where they should be.
BlocksOK(mt, h, tk, fl, df, dk, ca) ==
  /\ mt \in Nat /\ fl \in Nat /\ tk \in Nat /\ df \in Nat /\ h \in Histories
  /\ 1 <= mt /\ mt <= fl /\ fl <= tk /\ Start(tk) <= Len(h.recs)
  /\ Start(mt) <= df /\ df <= Start(fl)
  /\ IsFiniteSet(DOMAIN dk) /\ DOMAIN dk \subseteq Nat /\ DOMAIN ca \subseteq mt..(tk - 1)
  /\ \A b \in 0..(tk - 1) : b \notin DOMAIN ca => b \in DOMAIN dk /\ dk[b] = Cut(h, b + 1)
  /\ \A b \in DOMAIN ca : ca[b] = Cut(h, b + 1) /\ df <= Start(b)
  /\ mt \in DOMAIN dk => Cut(dk[mt], mt) # Cut(h, mt) \/ (mt < tk /\ dk[mt] = Cut(h, mt + 1))

StoresOK(mt, dk, ca, logs, df) ==
  /\ \A b \in DOMAIN dk : StoredOK(mt, dk[b], b, logs, df)
  /\ \A b \in DOMAIN ca : StoredOK(mt, ca[b], b, logs, df)

\* What is read from the first n records of the journal is what was applied.
Match(a, n, l) ==
  /\ Begins(a.transactions, l)
  /\ \A i \in 1..Len(a.transactions) : l[i].offset + 2 <= n
  /\ \/ a.current = <<>> /\ \A i \in (Len(a.transactions) + 1)..Len(l) : n <= l[i].offset
     \/ /\ Len(a.transactions) < Len(l)
        /\ a.current = <<l[Len(a.transactions) + 1]>>
        /\ l[Len(a.transactions) + 1].offset = n - 1

MatchOK(mt, a, n, l, df) == Match(a, n, l) /\ Distinct(a) /\ Known(mt, a, df)

ReadOK(mt, recs, l, df) ==
  /\ Forward(recs, Start(mt) + 2)
  /\ \A n \in 0..Len(recs) : Start(mt) + 2 <= n => MatchOK(mt, Acc(recs, n), n, l, df)
  /\ Start(mt) < Len(recs) => MatchOK(mt, Acc(recs, Len(recs)), Len(recs), l, df)

\* What the last mount read, a, and kept.
MountOK(mt, c, a, l, df) ==
  /\ c \in 1..Len(l) /\ c <= Len(a.transactions)
  /\ \A i \in 1..c : a.transactions[i] = l[i] /\ l[i].offset + 2 <= Start(mt)
  /\ \A i \in (c + 1)..Len(l) : Start(mt) + 1 <= l[i].offset
  /\ c < Len(a.transactions) => a.flushed <= a.transactions[c + 1].offset
  /\ Distinct(a) /\ Known(mt, a, df)

\* Until the reset is journaled, n records being in the journal: what it takes
\* back.
ResetOK(mt, c, a, l, rv, d, n) ==
  /\ rv =>
       /\ n = Start(mt) /\ c = Len(l)
       /\ d = 0 => Len(a.transactions) = c
       /\ d # 0 =>
            /\ \A i \in 1..c : l[i].offset < d
            /\ \A i \in (c + 1)..Len(a.transactions) : d <= a.transactions[i].offset
  /\ ~rv => Start(mt) < n /\ d = 0

BlocksInv(mt) == BlocksOK(mt, journal, taken, flushed, device_flushed, disk, cached)
StoredInv(mt) == StoresOK(mt, disk, cached, past \cup {log}, device_flushed)
ReadInv(mt) == ReadOK(mt, journal.recs, log, device_flushed)
MountInv(mt, c) == MountOK(mt, c, Acc(journal.recs, Start(mt)), log, device_flushed)
ResetInv(mt, c) ==
  ResetOK(mt, c, Acc(journal.recs, Start(mt)), log, reset_version, discard, Len(journal.recs))

LogInv ==
  /\ LogOK(log) /\ \A l \in past : LogOK(l)
  /\ \A i \in 1..Len(log) : log[i].offset + 2 <= Offset
  /\ \A i \in 1..Len(log) : log[i].offset < device_flushed => log[i].offset + 2 <= device_flushed
  /\ durable \in 1..Len(log) /\ \A i \in 1..durable : log[i].offset < device_flushed

SyncInv ==
  /\ sync.stage \in {"idle", "wait", "parked", "flush", "flushed", "free"}
  /\ sync.offset \in Nat /\ sync.offset <= Offset /\ sync.covers \in 0..Len(log)
  /\ \A i \in 1..sync.covers : log[i].offset + 2 <= sync.offset
  /\ sync.stage # "idle" => \A i \in (sync.covers + 1)..Len(log) : sync.offset <= log[i].offset
  /\ sync.stage \in {"flush", "flushed", "free"} => sync.offset <= Start(flushed)
  /\ sync.stage = "flushed" =>
       /\ device_flushed < sync.offset
       /\ \A b \in DOMAIN cached : sync.offset <= Start(b)
  /\ sync.stage = "free" => device_flushed = sync.offset

\* What a range holds, in the cache or else on the device.
Held(r) == IF r \in DOMAIN dcached THEN dcached[r] ELSE data[r]

\* A crash may find the log cut after this transaction, when the device has
\* been flushed up to an offset.
Live(i, offset) == i < Len(log) => offset <= log[i + 1].offset

DataInv ==
  /\ \A i \in 1..Len(log) : Live(i, device_flushed) =>
       /\ Held(log[i].new) = log[i].num
       /\ log[i].offset < device_flushed => log[i].new \notin DOMAIN dcached
  /\ sync.stage = "flushed" =>
       \A i \in 1..Len(log) : Live(i, sync.offset) /\ log[i].offset < sync.offset =>
         log[i].new \notin DOMAIN dcached
  /\ \A i \in 1..Len(log) : device_flushed <= log[i].offset =>
       [offset |-> log[i].offset, range |-> log[i].old] \in deallocs

CommitInv ==
  /\ commit.stage \in {"written", "prepared"} =>
       /\ commit.tx.new # Current /\ commit.tx.old = Current
       /\ Held(commit.tx.new) = commit.tx.num
  /\ commit.stage = "written" =>
       \A i \in 1..Len(log) : device_flushed <= log[i].offset => commit.tx.new # log[i].old
  /\ commit.stage = "prepared" =>
       /\ ~reset_version
       /\ \A i \in 1..Len(log) : Acc(journal.recs, Offset).flushed <= log[i].offset =>
            commit.tx.new # log[i].old
  /\ reset_version => ~needs_did_flush
  /\ ~needs_did_flush /\ ~reset_version => device_flushed <= Acc(journal.recs, Offset).flushed

\* The types that the other parts leave out.
TypeInv ==
  /\ data \in [Ranges -> NotWritten..MaxTxs]
  /\ DOMAIN dcached \subseteq Ranges /\ \A r \in DOMAIN dcached : dcached[r] \in 1..MaxTxs
  /\ discard \in 0..device_flushed
  /\ needs_did_flush \in BOOLEAN /\ reset_version \in BOOLEAN /\ terminate \in BOOLEAN
  /\ deallocs \subseteq [offset : Nat, range : Ranges]
  /\ commit \in [stage : {"idle", "written", "prepared", "applied"},
                 tx : [num : 0..MaxTxs, new : Ranges, old : Ranges \cup {0}]]
  /\ sync \in [stage : {"idle", "wait", "parked", "flush", "flushed", "free"},
               offset : Nat, covers : Nat]
  /\ flusher \in {"ready", "parked", "writing", "ended"}
  /\ txs \in 0..MaxTxs /\ syncs \in 0..MaxSyncs /\ crashes \in 0..MaxCrashes

Inv(mt, c) ==
  /\ TypeInv /\ BlocksInv(mt) /\ StoredInv(mt) /\ ReadInv(mt)
  /\ MountInv(mt, c) /\ ResetInv(mt, c)
  /\ LogInv /\ SyncInv /\ DataInv /\ CommitInv

IInv == \E mt \in Nat, c \in Nat : Inv(mt, c)
-----------------------------------------------------------------------------
(***************************************************************************)
(* Numbers.                                                                *)
(***************************************************************************)
\* A set of numbers that is not empty has a least one.
LEMMA LeastNat == ASSUME NEW S \in SUBSET Nat, NEW x \in S PROVE \E m \in S : \A j \in S : m <= j
<1>1. PICK m \in S : \A j \in S : ~(<<j, m>> \in OpToRel(<, Nat))
  BY NatLessThanWellFounded, WFMin, Zenon
<1>2. \A j \in S : ~(j < m)
  <2>1. \A j \in S : j \in Nat /\ m \in Nat
    OBVIOUS
  <2>2. \A j \in S : j < m => <<j, m>> \in OpToRel(<, Nat)
    BY <2>1, Zenon DEF OpToRel
  <2> QED BY <1>1, <2>2, Zenon
<1> QED BY <1>2

\* Min finds it.
LEMMA MinNat ==
  ASSUME NEW S \in SUBSET Nat, NEW x \in S
  PROVE  Min(S) \in S /\ Min(S) \in Nat /\ \A j \in S : Min(S) <= j
<1>1. \E m \in S : \A j \in S : m <= j BY LeastNat
<1>2. Min(S) \in S /\ \A j \in S : Min(S) <= j BY <1>1, Zenon DEF Min
<1> QED BY <1>2

\* Max finds the greatest of a set of numbers that has a bound.
LEMMA MaxNat ==
  ASSUME NEW S \in SUBSET Nat, NEW x \in S, NEW e \in Nat, \A j \in S : j <= e
  PROVE  Max(S) \in S /\ Max(S) \in Nat /\ \A j \in S : j <= Max(S)
<1> DEFINE U == {u \in Nat : \A j \in S : j <= u}
<1>1. U \in SUBSET Nat /\ e \in U OBVIOUS
<1>2. PICK u \in U : \A v \in U : u <= v
  <2> HIDE DEF U
  <2> QED BY <1>1, LeastNat
<1>3. u \in S
  <2>1. SUFFICES ASSUME u \notin S PROVE FALSE OBVIOUS
  <2>2. u \in Nat /\ \A j \in S : j \in Nat /\ j <= u /\ j # u BY <1>2, <2>1
  <2>3. x \in Nat /\ x < u BY <2>2
  <2>4. u - 1 \in U BY <2>2, <2>3
  <2> QED BY <1>2, <2>2, <2>4
<1>4. \A j \in S : u >= j BY <1>2
<1>5. Max(S) \in S /\ \A j \in S : Max(S) >= j BY <1>3, <1>4, Zenon DEF Max
<1> QED BY <1>5

\* What ends before a place ends before a later one.
LEMMA Farther ==
  ASSUME NEW x \in Nat, NEW n \in Nat, x + 2 <= n
  PROVE  x + 2 <= n + 2
  OBVIOUS

\* The greater of two numbers.
LEMMA MaxPair ==
  ASSUME NEW x \in Nat, NEW y \in Nat
  PROVE  Max({x, y}) \in Nat /\ x <= Max({x, y}) /\ y <= Max({x, y}) /\ Max({x, y}) \in {x, y}
<1>1. x + y \in Nat /\ {x, y} \in SUBSET Nat /\ \A j \in {x, y} : j <= x + y OBVIOUS
<1>2. x \in {x, y} /\ y \in {x, y} OBVIOUS
<1>3. Max({x, y}) \in {x, y} /\ \A j \in {x, y} : j <= Max({x, y}) BY <1>1, <1>2, MaxNat
<1> QED BY <1>2, <1>3

\* Where blocks begin.
LEMMA StartFacts ==
  /\ BlockSize \in Nat /\ BlockSize >= 2
  /\ Start(0) = 0
  /\ \A b \in Nat : Start(b) \in Nat /\ Start(b + 1) = Start(b) + BlockSize
<1>1. BlockSize \in Nat /\ BlockSize >= 2 BY JournalAssumption
<1>2. Start(0) = 0 BY <1>1 DEF Start
<1>3. ASSUME NEW b \in Nat PROVE Start(b) \in Nat /\ Start(b + 1) = Start(b) + BlockSize
  BY <1>1 DEF Start
<1> QED BY <1>1, <1>2, <1>3

\* A later block begins after the earlier one ends.
LEMMA StartMono ==
  ASSUME NEW a \in Nat, NEW b \in Nat
  PROVE  /\ a < b => Start(a) + BlockSize <= Start(b)
         /\ a <= b => Start(a) <= Start(b)
         /\ Start(a) < Start(b) => a < b
         /\ Start(a) <= Start(b) => a <= b
         /\ a <= Start(a)
<1>1. \A x, y \in Nat : x < y => Start(x) + BlockSize <= Start(y)
  <2> DEFINE T == {y \in Nat : \E x \in Nat : x < y /\ ~(Start(x) + BlockSize <= Start(y))}
  <2>1. SUFFICES ASSUME NEW z \in T PROVE FALSE OBVIOUS
  <2>2. PICK y \in T : \A j \in T : y <= j
    <3>1. T \in SUBSET Nat OBVIOUS
    <3> HIDE DEF T
    <3> QED BY <3>1, <2>1, LeastNat
  <2>3. PICK x \in Nat : x < y /\ ~(Start(x) + BlockSize <= Start(y)) BY <2>2
  <2>4. y \in Nat /\ y - 1 \in Nat /\ y - 1 \notin T BY <2>2, <2>3
  <2>5. x = y - 1 \/ (x < y - 1 /\ Start(x) + BlockSize <= Start(y - 1)) BY <2>3, <2>4
  <2>6. Start(y) = Start(y - 1) + BlockSize /\ Start(y - 1) \in Nat /\ Start(x) \in Nat /\ BlockSize \in Nat
    BY <2>3, <2>4, StartFacts
  <2>7. CASE x = y - 1
    <3>1. Start(x) = Start(y - 1) BY <2>7
    <3> QED BY <2>3, <2>6, <3>1
  <2>8. CASE x < y - 1 /\ Start(x) + BlockSize <= Start(y - 1) BY <2>3, <2>6, <2>8
  <2> QED BY <2>5, <2>7, <2>8
<1>2. Start(a) \in Nat /\ Start(b) \in Nat /\ BlockSize \in Nat /\ BlockSize >= 2 BY StartFacts
<1>3. a < b => Start(a) + BlockSize <= Start(b) BY <1>1
<1>4. b < a => Start(b) + BlockSize <= Start(a) BY <1>1
<1>5. a = b => Start(a) = Start(b) OBVIOUS
<1>6. a <= Start(a)
  <2> DEFINE T == {y \in Nat : ~(y <= Start(y))}
  <2>1. SUFFICES ASSUME a \in T PROVE FALSE OBVIOUS
  <2>2. PICK y \in T : \A j \in T : y <= j
    <3>1. T \in SUBSET Nat OBVIOUS
    <3> HIDE DEF T
    <3> QED BY <3>1, <2>1, LeastNat
  <2>3. y # 0 BY <2>2, StartFacts
  <2>4. y \in Nat /\ y - 1 \in Nat /\ y - 1 <= Start(y - 1) BY <2>2, <2>3
  <2>5. Start((y - 1) + 1) = Start(y - 1) + BlockSize /\ (y - 1) + 1 = y /\ Start(y - 1) \in Nat BY <2>4, StartFacts
  <2> QED BY <1>2, <2>2, <2>4, <2>5
<1> QED BY <1>2, <1>3, <1>4, <1>5, <1>6

\* The whole blocks in n records.
LEMMA WholeFacts ==
  ASSUME NEW n \in Nat
  PROVE  Whole(n) \in Nat /\ Start(Whole(n)) <= n /\ n < Start(Whole(n)) + BlockSize
<1> DEFINE S == {b \in 0..n : Start(b) <= n}
<1>1. S \in SUBSET Nat /\ 0 \in S /\ \A j \in S : j <= n BY StartFacts
<1>2. Whole(n) = Max(S) BY DEF Whole
<1>3. Whole(n) \in S /\ \A j \in S : j <= Whole(n)
  <2> HIDE DEF S
  <2> QED BY <1>1, <1>2, MaxNat
<1>4. Whole(n) \in Nat /\ Whole(n) + 1 \notin S /\ Whole(n) + 1 \in Nat BY <1>3
<1>5. Start(Whole(n) + 1) = Start(Whole(n)) + BlockSize /\ Start(Whole(n) + 1) \in Nat BY <1>4, StartFacts
<1>6. Whole(n) + 1 <= Start(Whole(n) + 1) BY <1>4, StartMono
<1> QED BY <1>3, <1>4, <1>5, <1>6
-----------------------------------------------------------------------------
(***************************************************************************)
(* Blocks.                                                                 *)
(***************************************************************************)
\* What a cut leaves.
LEMMA CutFacts ==
  ASSUME NEW h \in Histories, NEW n \in Nat, Start(n) <= Len(h.recs)
  PROVE  /\ Cut(h, n) \in Histories
         /\ Len(Cut(h, n).recs) = Start(n)
         /\ \A i \in 1..Start(n) : Cut(h, n).recs[i] = h.recs[i]
         /\ Cut(h, n).resets = {b \in h.resets : b < n}
<1>1. h.recs \in Seq(Records) /\ h.resets \in SUBSET Nat /\ Len(h.recs) \in Nat BY DEF Histories
<1>2. Start(n) \in Nat BY StartFacts
<1> DEFINE s == SubSeq(h.recs, 1, Start(n))
<1>3. s \in Seq(Records) /\ Len(s) = Start(n) /\ \A i \in 1..Start(n) : s[i] = h.recs[i]
  BY <1>1, <1>2, SubSeqProperties
<1>4. {b \in h.resets : b < n} \in SUBSET Nat BY <1>1
<1>5. Cut(h, n) = [recs |-> s, resets |-> {b \in h.resets : b < n}] BY DEF Cut
<1> HIDE DEF s
<1> QED BY <1>3, <1>4, <1>5 DEF Histories

\* Histories with the same records and resets are the same.
LEMMA HistoryEqual ==
  ASSUME NEW g \in Histories, NEW h \in Histories, Len(g.recs) = Len(h.recs),
         \A i \in 1..Len(g.recs) : g.recs[i] = h.recs[i], g.resets = h.resets
  PROVE  g = h
<1>1. g.recs \in Seq(Records) /\ h.recs \in Seq(Records) BY DEF Histories
<1>2. g.recs = h.recs BY <1>1, SeqEqual
<1>3. g = [recs |-> g.recs, resets |-> g.resets] /\ h = [recs |-> h.recs, resets |-> h.resets] BY DEF Histories
<1> QED BY <1>2, <1>3

\* A cut of a cut is a cut.
LEMMA CutCut ==
  ASSUME NEW h \in Histories, NEW n \in Nat, NEW k \in Nat, k <= n, Start(n) <= Len(h.recs)
  PROVE  Cut(Cut(h, n), k) = Cut(h, k)
<1>1. Start(k) <= Start(n) /\ Start(k) \in Nat /\ Start(n) \in Nat BY StartFacts, StartMono
<1>2. Len(h.recs) \in Nat BY DEF Histories
<1>3. Start(k) <= Len(h.recs) BY <1>1, <1>2
<1>4. PICK g \in Histories : g = Cut(h, n) BY CutFacts
<1>5. Len(g.recs) = Start(n) /\ (\A i \in 1..Start(n) : g.recs[i] = h.recs[i])
      /\ g.resets = {b \in h.resets : b < n} BY <1>4, CutFacts
<1>6. /\ Cut(g, k) \in Histories /\ Len(Cut(g, k).recs) = Start(k)
      /\ \A i \in 1..Start(k) : Cut(g, k).recs[i] = g.recs[i]
      /\ Cut(g, k).resets = {b \in g.resets : b < k}
  BY <1>1, <1>5, CutFacts
<1>7. /\ Cut(h, k) \in Histories /\ Len(Cut(h, k).recs) = Start(k)
      /\ \A i \in 1..Start(k) : Cut(h, k).recs[i] = h.recs[i]
      /\ Cut(h, k).resets = {b \in h.resets : b < k}
  BY <1>3, CutFacts
<1>8. h.resets \in SUBSET Nat BY DEF Histories
<1>9. Cut(g, k).resets = Cut(h, k).resets BY <1>5, <1>6, <1>7, <1>8
<1>10. \A i \in 1..Start(k) : Cut(g, k).recs[i] = Cut(h, k).recs[i] BY <1>1, <1>5, <1>6, <1>7
<1>11. Cut(g, k) = Cut(h, k) BY <1>6, <1>7, <1>9, <1>10, HistoryEqual
<1> QED BY <1>4, <1>11

-----------------------------------------------------------------------------
(***************************************************************************)
(* The loop that reads the journal.                                        *)
(***************************************************************************)
Open == {s \in Seq(Entries) : Len(s) <= 1}
Accs == [transactions : Seq(Entries), current : Open, flushed : Nat]
Nothing == [transactions |-> <<>>, current |-> <<>>, flushed |-> 0]

\* The fields of a transaction are numbers.
LEMMA EntryFacts == \A e \in Entries : e.offset \in Nat /\ e.num \in Nat /\ e.new \in Nat /\ e.old \in Nat
  BY DEF Entries

\* What is dropped from the end of the list is all at the offset or after it.
LEMMA TruncateFacts ==
  ASSUME NEW s \in Seq(Entries), NEW n \in Nat
  PROVE  /\ Truncate(s, n) \in Seq(Entries)
         /\ Len(Truncate(s, n)) <= Len(s)
         /\ \A i \in 1..Len(Truncate(s, n)) : Truncate(s, n)[i] = s[i]
         /\ Truncate(s, n) # <<>> => s[Len(Truncate(s, n))].offset < n
         /\ \A i \in (Len(Truncate(s, n)) + 1)..Len(s) : n <= s[i].offset
<1> DEFINE S == {0} \cup {i \in DOMAIN s : s[i].offset < n}
           k == Max(S)
<1>1. Len(s) \in Nat /\ DOMAIN s = 1..Len(s) /\ \A i \in 1..Len(s) : s[i] \in Entries /\ s[i].offset \in Nat
  BY EntryFacts
<1>2. S \in SUBSET Nat /\ 0 \in S /\ \A j \in S : j <= Len(s) BY <1>1
<1>3. k \in S /\ k \in Nat /\ \A j \in S : j <= k
  <2> HIDE DEF S
  <2> QED BY <1>1, <1>2, MaxNat
<1>4. k <= Len(s) /\ (k # 0 => s[k].offset < n) BY <1>2, <1>3
<1>5. ASSUME NEW i \in (k + 1)..Len(s) PROVE n <= s[i].offset
  <2>1. i \in Nat /\ i \in 1..Len(s) /\ ~(i <= k) /\ s[i].offset \in Nat BY <1>1, <1>3
  <2>2. i \notin S BY <1>3, <2>1
  <2> QED BY <1>1, <2>1, <2>2
<1>6. Truncate(s, n) = SubSeq(s, 1, k) BY DEF Truncate
<1> HIDE DEF k
<1>7. SubSeq(s, 1, k) \in Seq(Entries) /\ Len(SubSeq(s, 1, k)) = k /\ \A i \in 1..k : SubSeq(s, 1, k)[i] = s[i]
  BY <1>1, <1>3, <1>4, SubSeqProperties
<1> QED BY <1>3, <1>4, <1>5, <1>6, <1>7

\* A mutation opens a transaction, or goes on with the one that is open.
LEMMA ReadMutation ==
  ASSUME NEW a \in Accs, NEW r \in Records, NEW n \in Nat, r.kind = "Mutation"
  PROVE  /\ ReadRecord(a, r, n) \in Accs
         /\ ReadRecord(a, r, n).transactions = a.transactions
         /\ ReadRecord(a, r, n).current = IF a.current = <<>> THEN <<Placed(r, n)>> ELSE a.current
         /\ ReadRecord(a, r, n).flushed = a.flushed
<1>1. /\ a.transactions \in Seq(Entries) /\ a.current \in Open /\ a.flushed \in Nat
      /\ a = [transactions |-> a.transactions, current |-> a.current, flushed |-> a.flushed]
  BY DEF Accs
<1> DEFINE x == IF a.current = <<>> THEN <<Placed(r, n)>> ELSE a.current
<1>2. ReadRecord(a, r, n) = [transactions |-> a.transactions, current |-> x, flushed |-> a.flushed]
  BY <1>1 DEF ReadRecord
<1>3. Placed(r, n) \in Entries BY DEF Placed, Entries, Records
<1>4. <<Placed(r, n)>> \in Open
  <2>1. <<Placed(r, n)>> \in Seq(Entries) /\ Len(<<Placed(r, n)>>) = 1 BY <1>3
  <2> QED BY <2>1 DEF Open
<1>5. x \in Open BY <1>1, <1>4
<1> HIDE DEF x
<1>6. ReadRecord(a, r, n) \in Accs BY <1>1, <1>2, <1>5 DEF Accs
<1>7. /\ ReadRecord(a, r, n).transactions = a.transactions /\ ReadRecord(a, r, n).current = x
      /\ ReadRecord(a, r, n).flushed = a.flushed
  BY <1>2
<1> QED BY <1>6, <1>7 DEF x

\* A commit closes it.
LEMMA ReadCommit ==
  ASSUME NEW a \in Accs, NEW r \in Records, NEW n \in Nat, r.kind = "Commit"
  PROVE  /\ ReadRecord(a, r, n) \in Accs
         /\ ReadRecord(a, r, n).transactions = a.transactions \o a.current
         /\ ReadRecord(a, r, n).current = <<>>
         /\ ReadRecord(a, r, n).flushed = a.flushed
<1>1. /\ a.transactions \in Seq(Entries) /\ a.current \in Seq(Entries) /\ a.flushed \in Nat
      /\ a = [transactions |-> a.transactions, current |-> a.current, flushed |-> a.flushed]
  BY DEF Accs, Open
<1>2. ReadRecord(a, r, n) = [transactions |-> a.transactions \o a.current, current |-> <<>>, flushed |-> a.flushed]
  BY <1>1 DEF ReadRecord
<1>3. PICK x \in Seq(Entries) : x = a.transactions \o a.current
  <2>1. a.transactions \o a.current \in Seq(Entries) BY <1>1
  <2> QED BY <2>1
<1>4. <<>> \in Open
  <2>1. <<>> \in Seq(Entries) /\ Len(<<>>) = 0 OBVIOUS
  <2> QED BY <2>1 DEF Open
<1>5. ReadRecord(a, r, n) = [transactions |-> x, current |-> <<>>, flushed |-> a.flushed] BY <1>2, <1>3
<1>6. ReadRecord(a, r, n) \in Accs BY <1>1, <1>4, <1>5 DEF Accs
<1>7. /\ ReadRecord(a, r, n).transactions = x /\ ReadRecord(a, r, n).current = <<>>
      /\ ReadRecord(a, r, n).flushed = a.flushed
  BY <1>5
<1> QED BY <1>3, <1>6, <1>7

\* The end of a block says nothing.
LEMMA ReadPadding ==
  ASSUME NEW a, NEW r, NEW n, r.kind \in {"EndBlock", "Padding"}
  PROVE  ReadRecord(a, r, n) = a
  BY DEF ReadRecord

\* One record, field by field.
LEMMA ReadRecordFacts ==
  ASSUME NEW a \in Accs, NEW r \in Records, NEW n \in Nat
  PROVE  /\ ReadRecord(a, r, n) \in Accs
         /\ r.kind = "Version" =>
              /\ ReadRecord(a, r, n).transactions = a.transactions
              /\ ReadRecord(a, r, n).current = <<>>
              /\ ReadRecord(a, r, n).flushed = Max({a.flushed, n + 1})
         /\ r.kind = "Mutation" =>
              /\ ReadRecord(a, r, n).transactions = a.transactions
              /\ ReadRecord(a, r, n).current = IF a.current = <<>> THEN <<Placed(r, n)>> ELSE a.current
              /\ ReadRecord(a, r, n).flushed = a.flushed
         /\ r.kind = "Commit" =>
              /\ ReadRecord(a, r, n).transactions = a.transactions \o a.current
              /\ ReadRecord(a, r, n).current = <<>>
              /\ ReadRecord(a, r, n).flushed = a.flushed
         /\ r.kind = "Discard" /\ a.current = <<>> =>
              /\ ReadRecord(a, r, n).transactions = Truncate(a.transactions, r.num)
              /\ ReadRecord(a, r, n).current = <<>>
              /\ ReadRecord(a, r, n).flushed = a.flushed
         /\ r.kind = "DidFlushDevice" =>
              /\ ReadRecord(a, r, n).transactions = a.transactions
              /\ ReadRecord(a, r, n).current = a.current
              /\ ReadRecord(a, r, n).flushed = Max({a.flushed, r.num})
         /\ r.kind \in {"EndBlock", "Padding"} => ReadRecord(a, r, n) = a
<1>1. /\ a.transactions \in Seq(Entries) /\ a.current \in Seq(Entries) /\ a.current \in Open /\ a.flushed \in Nat
      /\ a = [transactions |-> a.transactions, current |-> a.current, flushed |-> a.flushed]
  BY DEF Accs, Open
<1>2. r.kind \in Kinds /\ r.num \in Nat /\ r.new \in Nat /\ r.old \in Nat BY DEF Records
<1>3. <<>> \in Open
  <2>1. <<>> \in Seq(Entries) /\ Len(<<>>) = 0 OBVIOUS
  <2> QED BY <2>1 DEF Open
<1>4. CASE r.kind = "Version"
  <2>1. ReadRecord(a, r, n) = [transactions |-> a.transactions, current |-> <<>>, flushed |-> Max({a.flushed, n + 1})]
    BY <1>1, <1>4 DEF ReadRecord
  <2>2. n + 1 \in Nat OBVIOUS
  <2>3. Max({a.flushed, n + 1}) \in Nat BY <1>1, <2>2, MaxPair
  <2> QED BY <1>1, <1>3, <1>4, <2>1, <2>3 DEF Accs
<1>5. CASE r.kind = "Mutation" BY <1>5, ReadMutation
<1>6. CASE r.kind = "Commit" BY <1>6, ReadCommit
<1>7. CASE r.kind = "Discard"
  <2>1. CASE ~(a.current = <<>> \/ a.current[1].offset >= r.num)
    <3>1. ReadRecord(a, r, n) = a BY <1>7, <2>1 DEF ReadRecord
    <3> QED BY <1>7, <2>1, <3>1
  <2>2. CASE a.current = <<>> \/ a.current[1].offset >= r.num
    <3>1. ReadRecord(a, r, n) = [transactions |-> Truncate(a.transactions, r.num), current |-> <<>>, flushed |-> a.flushed]
      BY <1>1, <1>7, <2>2 DEF ReadRecord
    <3>2. Truncate(a.transactions, r.num) \in Seq(Entries) BY <1>1, <1>2, TruncateFacts
    <3> QED BY <1>1, <1>3, <1>7, <3>1, <3>2 DEF Accs
  <2> QED BY <2>1, <2>2
<1>8. CASE r.kind = "DidFlushDevice"
  <2>1. ReadRecord(a, r, n) = [transactions |-> a.transactions, current |-> a.current, flushed |-> Max({a.flushed, r.num})]
    BY <1>1, <1>8 DEF ReadRecord
  <2>2. Max({a.flushed, r.num}) \in Nat BY <1>1, <1>2, MaxPair
  <2> QED BY <1>1, <1>8, <2>1, <2>2 DEF Accs
<1>9. CASE r.kind \in {"EndBlock", "Padding"}
  <2>1. ReadRecord(a, r, n) = a BY <1>9, ReadPadding
  <2> QED BY <1>9, <2>1
<1> QED BY <1>2, <1>4, <1>5, <1>6, <1>7, <1>8, <1>9 DEF Kinds

\* The loop runs: it begins with nothing and reads one record after the other.
LEMMA Loop ==
  ASSUME NEW s \in Seq(Records)
  PROVE  /\ Acc(s, 0) = Nothing
         /\ \A n \in 0..Len(s) : Acc(s, n) \in Accs
         /\ \A n \in 1..Len(s) : Acc(s, n) = ReadRecord(Acc(s, n - 1), s[n], n - 1)
<1> DEFINE e == Len(s)
           Run(g, m) == g[0] = Nothing /\ \A i \in 1..m : g[i] = ReadRecord(g[i - 1], s[i], i - 1)
           Eqn(g) == g = [n \in 0..e |-> IF n = 0 THEN [transactions |-> <<>>, current |-> <<>>, flushed |-> 0]
                                         ELSE ReadRecord(g[n - 1], s[n], n - 1)]
           F == CHOOSE g : Eqn(g)
<1>1. e \in Nat /\ \A i \in 1..e : s[i] \in Records OBVIOUS
<1>2. Nothing \in Accs
  <2>1. <<>> \in Seq(Entries) /\ Len(<<>>) = 0 OBVIOUS
  <2> QED BY <2>1 DEF Nothing, Accs, Open
<1>3. \E g \in [0..e -> Accs] : Run(g, e)
  <2> DEFINE T == {m \in 0..e : ~\E g \in [0..m -> Accs] : Run(g, m)}
  <2>1. SUFFICES ASSUME e \in T PROVE FALSE BY <1>1
  <2>2. PICK m \in T : \A j \in T : m <= j
    <3>1. T \in SUBSET Nat OBVIOUS
    <3> HIDE DEF T
    <3> QED BY <2>1, <3>1, LeastNat
  <2>3. CASE m = 0
    <3>1. Run([i \in 0..0 |-> Nothing], 0) /\ [i \in 0..0 |-> Nothing] \in [0..0 -> Accs] BY <1>2
    <3> QED BY <2>2, <2>3, <3>1
  <2>4. CASE m # 0
    <3>1. m - 1 \in 0..e /\ m \in 1..e /\ ~(m <= m - 1) /\ m - 1 \in Nat BY <1>1, <2>2, <2>4
    <3>2. PICK g \in [0..(m - 1) -> Accs] : Run(g, m - 1) BY <2>2, <3>1
    <3> DEFINE x == ReadRecord(g[m - 1], s[m], m - 1)
               h == [i \in 0..m |-> IF i = m THEN x ELSE g[i]]
    <3>3. g[m - 1] \in Accs /\ s[m] \in Records BY <1>1, <3>1, <3>2
    <3>4. x \in Accs BY <3>1, <3>3, ReadRecordFacts
    <3>5. h \in [0..m -> Accs]
      <4> HIDE DEF x
      <4> QED BY <3>1, <3>2, <3>4
    <3>6. h[0] = Nothing
      <4> HIDE DEF x
      <4> QED BY <3>1, <3>2
    <3>7. ASSUME NEW i \in 1..m PROVE h[i] = ReadRecord(h[i - 1], s[i], i - 1)
      <4>1. i - 1 \in 0..m /\ i - 1 # m /\ i \in 0..m BY <3>1, <3>7
      <4>2. h[i - 1] = g[i - 1] BY <4>1
      <4>3. CASE i = m BY <4>1, <4>2, <4>3
      <4>4. CASE i # m
        <5>1. i \in 1..(m - 1) BY <3>1, <3>7, <4>4
        <5>2. g[i] = ReadRecord(g[i - 1], s[i], i - 1) BY <3>2, <5>1
        <5>3. h[i] = g[i] BY <4>1, <4>4
        <5> QED BY <4>2, <5>2, <5>3
      <4> QED BY <4>3, <4>4
    <3> HIDE DEF h
    <3> QED BY <2>2, <3>5, <3>6, <3>7
  <2> QED BY <2>3, <2>4
<1>4. PICK g \in [0..e -> Accs] : Run(g, e) BY <1>3
<1>5. Eqn(g)
  <2>1. \A i \in 0..e : i # 0 => i \in 1..e BY <1>1
  <2> QED BY <1>1, <1>4, <2>1 DEF Nothing
<1>6. Eqn(F) BY <1>5, Zenon
<1>7. ReadTransactions(s) = F BY DEF ReadTransactions
<1> HIDE DEF F
<1>8. F[0] = Nothing /\ \A i \in 1..e : F[i] = ReadRecord(F[i - 1], s[i], i - 1)
  <2>1. 0 \in 0..e /\ \A i \in 1..e : i \in 0..e /\ i # 0 BY <1>1
  <2>2. \A i \in 0..e : F[i] = IF i = 0 THEN [transactions |-> <<>>, current |-> <<>>, flushed |-> 0]
                               ELSE ReadRecord(F[i - 1], s[i], i - 1)
    BY <1>6, Zenon
  <2> QED BY <2>1, <2>2 DEF Nothing
<1>9. \A n \in 0..e : F[n] \in Accs
  <2> DEFINE T == {m \in 0..e : F[m] \notin Accs}
  <2>1. SUFFICES ASSUME NEW z \in T PROVE FALSE OBVIOUS
  <2>2. PICK m \in T : \A j \in T : m <= j
    <3>1. T \in SUBSET Nat OBVIOUS
    <3> HIDE DEF T
    <3> QED BY <2>1, <3>1, LeastNat
  <2>3. m # 0 BY <1>2, <1>8, <2>2
  <2>4. m - 1 \in 0..e /\ m \in 1..e /\ ~(m <= m - 1) /\ m - 1 \in Nat BY <1>1, <2>2, <2>3
  <2>5. F[m - 1] \in Accs BY <2>2, <2>4
  <2>6. F[m] = ReadRecord(F[m - 1], s[m], m - 1) /\ s[m] \in Records BY <1>1, <1>8, <2>4
  <2>7. F[m] \in Accs BY <2>4, <2>5, <2>6, ReadRecordFacts
  <2> QED BY <2>2, <2>7
<1> QED BY <1>7, <1>8, <1>9 DEF Acc

\* What is read from the first n records depends on these only.
LEMMA LoopLocal ==
  ASSUME NEW s \in Seq(Records), NEW t \in Seq(Records), NEW n \in Nat, n <= Len(s), n <= Len(t),
         \A i \in 1..n : s[i] = t[i]
  PROVE  Acc(s, n) = Acc(t, n)
<1> DEFINE T == {m \in 0..n : Acc(s, m) # Acc(t, m)}
<1>1. SUFFICES ASSUME n \in T PROVE FALSE OBVIOUS
<1>2. PICK m \in T : \A j \in T : m <= j
  <2>1. T \in SUBSET Nat OBVIOUS
  <2> HIDE DEF T
  <2> QED BY <1>1, <2>1, LeastNat
<1>3. Acc(s, 0) = Nothing /\ Acc(t, 0) = Nothing BY Loop
<1>4. m # 0 BY <1>2, <1>3
<1>5. m \in 1..Len(s) /\ m \in 1..Len(t) /\ m \in 1..n /\ m - 1 \in 0..n /\ ~(m <= m - 1) BY <1>2, <1>4
<1>6. Acc(s, m) = ReadRecord(Acc(s, m - 1), s[m], m - 1) /\ Acc(t, m) = ReadRecord(Acc(t, m - 1), t[m], m - 1)
  BY <1>5, Loop
<1>7. Acc(s, m - 1) = Acc(t, m - 1) /\ s[m] = t[m] BY <1>2, <1>5
<1> QED BY <1>2, <1>6, <1>7

\* The transaction that is being read is added.
LEMMA ConcatFacts ==
  ASSUME NEW s \in Seq(Entries), NEW t \in Seq(Entries), Len(t) <= 1
  PROVE  /\ s \o t \in Seq(Entries) /\ Len(s \o t) = Len(s) + Len(t)
         /\ Len(s) \in Nat /\ Len(t) \in Nat /\ Len(s \o t) \in Nat
         /\ \A i \in 1..Len(s) : (s \o t)[i] = s[i]
         /\ \A i \in 1..Len(s \o t) : i <= Len(s) \/ (i = Len(s) + 1 /\ Len(t) = 1 /\ t # <<>> /\ (s \o t)[i] = t[1])
<1>1. /\ s \o t \in Seq(Entries) /\ Len(s \o t) = Len(s) + Len(t)
      /\ Len(s) \in Nat /\ Len(t) \in Nat /\ Len(s \o t) \in Nat
      /\ \A i \in 1..Len(s) : (s \o t)[i] = s[i]
  OBVIOUS
<1>2. ASSUME NEW i \in 1..Len(s \o t), ~(i <= Len(s))
      PROVE  i = Len(s) + 1 /\ Len(t) = 1 /\ t # <<>> /\ (s \o t)[i] = t[1]
  <2>1. PICK e \in Nat, m \in Nat, n \in Nat : e = Len(s \o t) /\ m = Len(s) /\ n = Len(t) BY <1>1
  <2>2. e = m + n /\ n <= 1 /\ i \in 1..e /\ ~(i <= m) BY <1>1, <1>2, <2>1
  <2>3. i = m + 1 /\ n = 1 BY <2>2
  <2>4. i = Len(s) + 1 /\ Len(t) = 1 BY <2>1, <2>3
  <2>5. (s \o t)[Len(s) + 1] = t[1] BY <2>4, <1>1
  <2>6. t # <<>> BY <2>4
  <2> QED BY <2>4, <2>5, <2>6
<1> QED BY <1>1, <1>2

\* Where the transactions that have been read can be.
LEMMA LoopBounds ==
  ASSUME NEW s \in Seq(Records), NEW n \in 0..Len(s)
  PROVE  /\ \A i \in 1..Len(Acc(s, n).transactions) : Acc(s, n).transactions[i].offset + 2 <= n
         /\ Acc(s, n).current # <<>> => Acc(s, n).current[1].offset + 1 <= n
<1> DEFINE P(a, m) == /\ \A i \in 1..Len(a.transactions) : a.transactions[i].offset + 2 <= m
                      /\ a.current # <<>> => a.current[1].offset + 1 <= m
           T == {m \in 0..Len(s) : ~P(Acc(s, m), m)}
<1>1. SUFFICES ASSUME n \in T PROVE FALSE OBVIOUS
<1>2. PICK m \in T : \A j \in T : m <= j
  <2>1. T \in SUBSET Nat OBVIOUS
  <2> HIDE DEF T
  <2> QED BY <1>1, <2>1, LeastNat
<1>3. m # 0
  <2>1. SUFFICES ASSUME m = 0 PROVE FALSE OBVIOUS
  <2>2. Acc(s, 0) = Nothing BY Loop
  <2>3. Len(<<>>) = 0 OBVIOUS
  <2>4. P(Nothing, 0) BY <2>3 DEF Nothing
  <2> HIDE DEF P
  <2> QED BY <1>2, <2>1, <2>2, <2>4
<1>4. m \in 1..Len(s) /\ m - 1 \in 0..Len(s) /\ m - 1 \in Nat /\ ~(m <= m - 1) /\ m \in 0..Len(s) BY <1>2, <1>3
<1>5. P(Acc(s, m - 1), m - 1)
  <2> HIDE DEF P
  <2> QED BY <1>2, <1>4
<1>6. PICK a \in Accs : a = Acc(s, m - 1) BY <1>4, Loop
<1>7. PICK r \in Records : r = s[m] BY <1>4
<1>8. PICK b \in Accs : b = Acc(s, m) BY <1>4, Loop
<1>9. b = ReadRecord(a, r, m - 1) BY <1>4, <1>6, <1>7, <1>8, Loop
<1>10. P(a, m - 1) /\ ~P(b, m)
  <2> HIDE DEF P
  <2> QED BY <1>2, <1>5, <1>6, <1>8
<1>11. /\ a.transactions \in Seq(Entries) /\ a.current \in Seq(Entries) /\ Len(a.current) <= 1
       /\ b.transactions \in Seq(Entries) /\ b.current \in Seq(Entries) /\ Len(b.current) <= 1
  BY DEF Accs, Open
<1>12. /\ \A i \in 1..Len(a.transactions) : a.transactions[i].offset \in Nat
       /\ \A i \in 1..Len(a.current) : a.current[i].offset \in Nat
  BY <1>11, EntryFacts
<1>13. P(a, m)
  <2>1. a.current # <<>> => 1 \in 1..Len(a.current) BY <1>11
  <2> QED BY <1>4, <1>10, <1>12, <2>1
<1>14. CASE r.kind = "Version" \/ r.kind = "DidFlushDevice"
  <2>1. b.transactions = a.transactions /\ (b.current = <<>> \/ b.current = a.current)
    BY <1>4, <1>9, <1>14, ReadRecordFacts
  <2> QED BY <1>10, <1>13, <2>1
<1>15. CASE r.kind = "Mutation"
  <2>1. b.transactions = a.transactions /\ b.current = IF a.current = <<>> THEN <<Placed(r, m - 1)>> ELSE a.current
    BY <1>4, <1>9, <1>15, ReadMutation
  <2>2. Placed(r, m - 1).offset = m - 1 BY DEF Placed
  <2>3. <<Placed(r, m - 1)>>[1] = Placed(r, m - 1) OBVIOUS
  <2> QED BY <1>4, <1>10, <1>13, <2>1, <2>2, <2>3
<1>16. CASE r.kind = "Commit"
  <2>1. b.transactions = a.transactions \o a.current /\ b.current = <<>> BY <1>4, <1>9, <1>16, ReadCommit
  <2>2. PICK u \in Seq(Entries), v \in Seq(Entries) : u = a.transactions /\ v = a.current BY <1>11
  <2>3. Len(v) <= 1 /\ b.transactions = u \o v BY <1>11, <2>1, <2>2
  <2>4. ASSUME NEW i \in 1..Len(b.transactions) PROVE b.transactions[i].offset + 2 <= m
    <3>1. CASE i <= Len(a.transactions)
      <4>1. i \in 1..Len(a.transactions) BY <1>11, <3>1
      <4>2. b.transactions[i] = a.transactions[i] BY <2>2, <2>3, <4>1, ConcatFacts
      <4> QED BY <1>11, <1>13, <4>1, <4>2
    <3>2. CASE ~(i <= Len(a.transactions))
      <4>1. i \in 1..Len(u \o v) /\ ~(i <= Len(u)) BY <2>2, <2>3, <3>2
      <4>2. Len(v) = 1 /\ (u \o v)[i] = v[1] /\ v # <<>> BY <2>3, <4>1, ConcatFacts
      <4>3. Len(a.current) = 1 /\ b.transactions[i] = a.current[1] /\ a.current # <<>> BY <2>2, <2>3, <4>2
      <4>4. a.current[1].offset \in Nat BY <1>12, <4>3
      <4>5. PICK o \in Nat : o = a.current[1].offset BY <4>4
      <4>6. o + 1 <= m - 1 BY <1>10, <4>3, <4>5
      <4>7. o + 2 <= m BY <1>4, <4>6
      <4> QED BY <4>3, <4>5, <4>7
    <3> QED BY <3>1, <3>2
  <2> QED BY <1>10, <2>1, <2>4
<1>17. CASE r.kind = "Discard"
  <2>1. r.num \in Nat BY DEF Records
  <2>2. CASE a.current = <<>> \/ a.current[1].offset >= r.num
    <3>1. b = [transactions |-> Truncate(a.transactions, r.num), current |-> <<>>, flushed |-> a.flushed]
      BY <1>9, <1>17, <2>2 DEF ReadRecord
    <3>2. b.transactions = Truncate(a.transactions, r.num) /\ b.current = <<>> BY <3>1
    <3>3. Len(b.transactions) <= Len(a.transactions) /\ \A i \in 1..Len(b.transactions) : b.transactions[i] = a.transactions[i]
      BY <1>11, <2>1, <3>2, TruncateFacts
    <3>4. \A i \in 1..Len(b.transactions) : i \in 1..Len(a.transactions) BY <1>11, <3>3
    <3> QED BY <1>10, <1>13, <3>2, <3>3, <3>4
  <2>3. CASE ~(a.current = <<>> \/ a.current[1].offset >= r.num)
    <3>1. b = a BY <1>9, <1>17, <2>3 DEF ReadRecord
    <3> QED BY <1>10, <1>13, <3>1
  <2> QED BY <2>2, <2>3
<1>18. CASE r.kind \in {"EndBlock", "Padding"}
  <2>1. b = a BY <1>4, <1>9, <1>18, ReadPadding
  <2> QED BY <1>10, <1>13, <2>1
<1> QED BY <1>14, <1>15, <1>16, <1>17, <1>18 DEF Records, Kinds

\* b has been read after a; what was added is at x or after it.
Follows(a, b, x) ==
  /\ Begins(a.transactions, b.transactions)
  /\ \A i \in (Len(a.transactions) + 1)..Len(b.transactions) : x <= b.transactions[i].offset
  /\ b.current # <<>> => x <= b.current[1].offset

\* Where nothing is taken back, transactions are only added.
LEMMA LoopForward ==
  ASSUME NEW s \in Seq(Records), NEW k \in Nat, NEW n \in Nat, k <= n, n <= Len(s),
         Forward(s, k), NEW x \in Nat, x <= k,
         Acc(s, k).current # <<>> => x <= Acc(s, k).current[1].offset
  PROVE  Follows(Acc(s, k), Acc(s, n), x)
<1> DEFINE T == {m \in k..n : ~Follows(Acc(s, k), Acc(s, m), x)}
<1>1. SUFFICES ASSUME n \in T PROVE FALSE OBVIOUS
<1>2. PICK m \in T : \A j \in T : m <= j
  <2>1. T \in SUBSET Nat OBVIOUS
  <2> HIDE DEF T
  <2> QED BY <1>1, <2>1, LeastNat
<1>3. k \in 0..Len(s) /\ m \in 0..Len(s) /\ Len(s) \in Nat BY <1>2
<1>4. PICK z \in Accs : z = Acc(s, k) BY <1>3, Loop
<1>5. z.transactions \in Seq(Entries) /\ z.current \in Seq(Entries) BY DEF Accs, Open
<1>6. m # k
  <2>1. Follows(z, z, x) BY <1>4, <1>5 DEF Follows, Begins
  <2> QED BY <1>2, <1>4, <2>1
<1>7. m \in 1..Len(s) /\ m - 1 \in 0..Len(s) /\ m - 1 \in Nat /\ ~(m <= m - 1) /\ m - 1 \in k..n /\ k <= m - 1
  BY <1>2, <1>3, <1>6
<1>8. Follows(z, Acc(s, m - 1), x) BY <1>2, <1>4, <1>7
<1>9. PICK a \in Accs : a = Acc(s, m - 1) BY <1>7, Loop
<1>10. PICK r \in Records : r = s[m] BY <1>7
<1>11. PICK b \in Accs : b = Acc(s, m) BY <1>3, Loop
<1>12. b = ReadRecord(a, r, m - 1) BY <1>7, <1>9, <1>10, <1>11, Loop
<1>13. Follows(z, a, x) /\ ~Follows(z, b, x) BY <1>2, <1>4, <1>8, <1>9, <1>11
<1>14. r.kind \notin {"Version", "Discard"}
  <2>1. ~(m <= k) BY <1>7
  <2> QED BY <1>7, <1>10, <2>1 DEF Forward
<1>15. /\ a.transactions \in Seq(Entries) /\ a.current \in Seq(Entries) /\ Len(a.current) <= 1
       /\ b.transactions \in Seq(Entries) /\ b.current \in Seq(Entries) /\ Len(b.current) <= 1
  BY DEF Accs, Open
<1>16. CASE r.kind = "DidFlushDevice"
  <2>1. b.transactions = a.transactions /\ b.current = a.current BY <1>7, <1>12, <1>16, ReadRecordFacts
  <2> QED BY <1>13, <2>1 DEF Follows
<1>17. CASE r.kind = "Mutation"
  <2>1. b.transactions = a.transactions /\ b.current = IF a.current = <<>> THEN <<Placed(r, m - 1)>> ELSE a.current
    BY <1>7, <1>12, <1>17, ReadMutation
  <2>2. Placed(r, m - 1).offset = m - 1 /\ x <= m - 1 BY <1>7 DEF Placed
  <2>3. <<Placed(r, m - 1)>>[1] = Placed(r, m - 1) OBVIOUS
  <2>4. b.current # <<>> => x <= b.current[1].offset BY <1>13, <2>1, <2>2, <2>3 DEF Follows
  <2> QED BY <1>13, <2>1, <2>4 DEF Follows
<1>18. CASE r.kind = "Commit"
  <2>1. b.transactions = a.transactions \o a.current /\ b.current = <<>> BY <1>7, <1>12, <1>18, ReadCommit
  <2>2. PICK u \in Seq(Entries), v \in Seq(Entries), y \in Seq(Entries) :
          u = a.transactions /\ v = a.current /\ y = z.transactions
    BY <1>5, <1>15
  <2>3. PICK w \in Seq(Entries) : w = b.transactions BY <1>15
  <2>4. Len(v) <= 1 /\ w = u \o v BY <1>15, <2>1, <2>2, <2>3
  <2>5. Len(w) = Len(u) + Len(v) /\ Len(u) \in Nat /\ Len(v) \in Nat /\ Len(w) \in Nat /\ Len(y) \in Nat
        /\ (\A i \in 1..Len(u) : w[i] = u[i])
        /\ \A i \in 1..Len(w) : i <= Len(u) \/ (i = Len(u) + 1 /\ Len(v) = 1 /\ v # <<>> /\ w[i] = v[1])
    BY <2>4, ConcatFacts
  <2>6. Len(y) <= Len(u) /\ (\A i \in 1..Len(y) : y[i] = u[i])
        /\ (\A i \in (Len(y) + 1)..Len(u) : x <= u[i].offset) /\ (v # <<>> => x <= v[1].offset)
    BY <1>13, <2>2 DEF Follows, Begins
  <2>7. Len(y) <= Len(w) /\ \A i \in 1..Len(y) : y[i] = w[i] BY <2>5, <2>6
  <2>8. ASSUME NEW i \in (Len(y) + 1)..Len(w) PROVE x <= w[i].offset
    <3>1. i \in 1..Len(w) BY <2>5
    <3>2. CASE i <= Len(u)
      <4>1. i \in (Len(y) + 1)..Len(u) /\ i \in 1..Len(u) BY <2>5, <3>2
      <4> QED BY <2>5, <2>6, <4>1
    <3>3. CASE ~(i <= Len(u)) BY <2>5, <2>6, <3>1, <3>3
    <3> QED BY <3>2, <3>3
  <2> QED BY <1>13, <2>1, <2>2, <2>3, <2>7, <2>8 DEF Follows, Begins
<1>19. CASE r.kind \in {"EndBlock", "Padding"}
  <2>1. b = a BY <1>7, <1>12, <1>19, ReadPadding
  <2> QED BY <1>13, <2>1
<1> QED BY <1>14, <1>16, <1>17, <1>18, <1>19 DEF Records, Kinds

\* Records added at the end.
LEMMA LoopAppend ==
  ASSUME NEW s \in Seq(Records), NEW t \in Seq(Records)
  PROVE  /\ s \o t \in Seq(Records) /\ Len(s \o t) = Len(s) + Len(t)
         /\ \A i \in 1..Len(s) : (s \o t)[i] = s[i]
         /\ \A i \in 1..Len(t) : (s \o t)[Len(s) + i] = t[i]
         /\ \A n \in 0..Len(s) : Acc(s \o t, n) = Acc(s, n)
         /\ \A i \in 1..Len(t) : Acc(s \o t, Len(s) + i) = ReadRecord(Acc(s \o t, Len(s) + i - 1), t[i], Len(s) + i - 1)
<1>1. /\ s \o t \in Seq(Records) /\ Len(s \o t) = Len(s) + Len(t) /\ Len(s) \in Nat /\ Len(t) \in Nat
      /\ \A i \in 1..Len(s) : (s \o t)[i] = s[i]
      /\ \A i \in 1..Len(t) : (s \o t)[Len(s) + i] = t[i]
  OBVIOUS
<1>2. ASSUME NEW n \in 0..Len(s) PROVE Acc(s \o t, n) = Acc(s, n)
  <2>1. n \in Nat /\ n <= Len(s) /\ n <= Len(s \o t) /\ \A i \in 1..n : (s \o t)[i] = s[i] BY <1>1
  <2> QED BY <1>1, <2>1, LoopLocal
<1>3. ASSUME NEW i \in 1..Len(t)
      PROVE Acc(s \o t, Len(s) + i) = ReadRecord(Acc(s \o t, Len(s) + i - 1), t[i], Len(s) + i - 1)
  <2>1. PICK u \in Seq(Records) : u = s \o t BY <1>1
  <2>2. PICK m \in 1..Len(u) : m = Len(s) + i BY <1>1, <2>1
  <2>3. Acc(u, m) = ReadRecord(Acc(u, m - 1), u[m], m - 1) BY Loop
  <2>4. u[m] = t[i] BY <1>1, <2>1, <2>2
  <2> QED BY <2>1, <2>2, <2>3, <2>4
<1> QED BY <1>1, <1>2, <1>3

\* Padding is read over.
LEMMA LoopPad ==
  ASSUME NEW s \in Seq(Records), NEW p \in Nat
  PROVE  /\ Pad(p) \in Seq(Records) /\ Len(Pad(p)) = p
         /\ \A i \in 1..p : Pad(p)[i].kind \in {"EndBlock", "Padding"}
         /\ \A n \in Len(s)..(Len(s) + p) : Acc(s \o Pad(p), n) = Acc(s, Len(s))
<1>1. EndBlock \in Records /\ Padding \in Records /\ EndBlock.kind = "EndBlock" /\ Padding.kind = "Padding"
  BY DEF EndBlock, Padding, Record, Records, Kinds
<1>2. Pad(p) \in Seq(Records) /\ Len(Pad(p)) = p /\ \A i \in 1..p : Pad(p)[i] = IF i = 1 THEN EndBlock ELSE Padding
  <2> HIDE DEF EndBlock, Padding, Records
  <2>1. Pad(p) \in [1..p -> Records] BY <1>1 DEF Pad
  <2>2. Pad(p) \in Seq(Records) BY <2>1, SeqDef
  <2>3. DOMAIN Pad(p) = 1..p BY DEF Pad
  <2>4. Len(Pad(p)) = p BY <2>2, <2>3, LenProperties
  <2> QED BY <2>2, <2>4 DEF Pad
<1>3. ASSUME NEW i \in 1..p PROVE Pad(p)[i].kind \in {"EndBlock", "Padding"} /\ Pad(p)[i] \in Records BY <1>1, <1>2
<1>4. PICK t \in Seq(Records) : t = Pad(p) BY <1>2
<1>5. Len(s) \in Nat /\ Len(s \o t) = Len(s) + p BY <1>2, <1>4
<1>6. Acc(s \o t, Len(s)) = Acc(s, Len(s)) BY <1>5, LoopAppend
<1>7. \A n \in Len(s)..(Len(s) + p) : Acc(s \o t, n) = Acc(s, Len(s))
  <2> DEFINE T == {m \in Len(s)..(Len(s) + p) : Acc(s \o t, m) # Acc(s, Len(s))}
  <2>1. SUFFICES ASSUME NEW z \in T PROVE FALSE OBVIOUS
  <2>2. PICK m \in T : \A j \in T : m <= j
    <3>1. T \in SUBSET Nat BY <1>5
    <3> HIDE DEF T
    <3> QED BY <2>1, <3>1, LeastNat
  <2>3. m # Len(s) BY <1>6, <2>2
  <2>4. PICK i \in 1..p : m = Len(s) + i
    <3>1. m - Len(s) \in 1..p BY <1>5, <2>2, <2>3
    <3>2. m = Len(s) + (m - Len(s)) BY <1>5, <2>2
    <3> QED BY <3>1, <3>2
  <2>5. m - 1 \in Len(s)..(Len(s) + p) /\ ~(m <= m - 1) /\ Len(s) + i - 1 = m - 1 /\ m - 1 \in Nat BY <1>5, <2>2, <2>4
  <2>6. Acc(s \o t, m - 1) = Acc(s, Len(s)) BY <2>2, <2>5
  <2>7. i \in 1..Len(t) BY <1>2, <1>4, <2>4
  <2>8. Acc(s \o t, Len(s) + i) = ReadRecord(Acc(s \o t, Len(s) + i - 1), t[i], Len(s) + i - 1) BY <2>7, LoopAppend
  <2>9. Acc(s \o t, m) = ReadRecord(Acc(s \o t, m - 1), t[i], m - 1) BY <2>4, <2>5, <2>8
  <2>10. Acc(s, Len(s)) \in Accs BY <1>5, Loop
  <2>11. t[i].kind \in {"EndBlock", "Padding"} /\ t[i] \in Records BY <1>3, <1>4, <2>4
  <2>12. Acc(s \o t, m) = Acc(s, Len(s)) BY <2>6, <2>9, <2>11, ReadPadding
  <2> QED BY <2>2, <2>12
<1> QED BY <1>2, <1>3, <1>4, <1>7
-----------------------------------------------------------------------------
(***************************************************************************)
(* ChecksumList.                                                           *)
(***************************************************************************)
\* The transactions of a log are at offsets that grow.
LEMMA ChainedOrder ==
  ASSUME NEW l \in Seq(Entries), Chained(l), NEW i \in 1..Len(l), NEW j \in 1..Len(l), i < j
  PROVE  l[i].offset + 2 <= l[j].offset
<1> DEFINE T == {k \in (i + 1)..Len(l) : ~(l[i].offset + 2 <= l[k].offset)}
<1>1. Len(l) \in Nat /\ \A k \in 1..Len(l) : l[k].offset \in Nat BY EntryFacts
<1>2. SUFFICES ASSUME j \in T PROVE FALSE BY <1>1
<1>3. PICK k \in T : \A m \in T : k <= m
  <2>1. T \in SUBSET Nat BY <1>1
  <2> HIDE DEF T
  <2> QED BY <1>2, <2>1, LeastNat
<1>4. k \in 2..Len(l) /\ k - 1 \in 1..(Len(l) - 1) /\ (k - 1) + 1 = k /\ ~(k <= k - 1) /\ k - 1 \in 1..Len(l)
  <2>1. k \in (i + 1)..Len(l) BY <1>3
  <2> QED BY <1>1, <2>1
<1>5. l[k - 1].offset + 2 <= l[k].offset BY <1>4 DEF Chained
<1>6. k - 1 = i \/ l[i].offset + 2 <= l[k - 1].offset
  <2>1. k - 1 = i \/ k - 1 \in (i + 1)..Len(l) BY <1>1, <1>3, <1>4
  <2> QED BY <1>3, <1>4, <2>1
<1>7. l[k].offset \in Nat /\ l[k - 1].offset \in Nat /\ l[i].offset \in Nat BY <1>1, <1>3, <1>4
<1>8. ~(l[i].offset + 2 <= l[k].offset) BY <1>3
<1>9. CASE k - 1 = i
  <2>1. l[k - 1] = l[i] BY <1>9
  <2> QED BY <1>5, <1>7, <1>8, <2>1
<1>10. CASE l[i].offset + 2 <= l[k - 1].offset
  <2>1. PICK x \in Nat, y \in Nat, z \in Nat : x = l[i].offset /\ y = l[k - 1].offset /\ z = l[k].offset BY <1>7
  <2>2. x + 2 <= y /\ y + 2 <= z /\ ~(x + 2 <= z) BY <1>5, <1>8, <1>10, <2>1
  <2> QED BY <2>2
<1> QED BY <1>6, <1>9, <1>10

\* The entry of a transaction that is not known to have been flushed.
LEMMA EntryOf ==
  ASSUME NEW a \in Accs, Chained(a.transactions), Distinct(a),
         NEW i \in 1..Len(a.transactions), a.flushed <= a.transactions[i].offset
  PROVE  /\ a.transactions[i] \in Unflushed(a)
         /\ Pushed(a, a.transactions[i].new) = {a.transactions[i]}
         /\ EntryOffset(a, a.transactions[i].new) = a.transactions[i].offset
         /\ Deallocations(a, a.transactions[i].new) =
              IF i < Len(a.transactions) THEN {a.transactions[i + 1].offset} ELSE {}
<1>1. PICK s \in Seq(Entries) : s = a.transactions BY DEF Accs
<1>2. a.flushed \in Nat BY DEF Accs
<1> DEFINE r == s[i].new
<1>3. Len(s) \in Nat /\ i \in 1..Len(s) /\ (\A k \in 1..Len(s) : s[k] \in Entries /\ s[k].offset \in Nat)
      /\ Chained(s) /\ a.flushed <= s[i].offset
  BY <1>1, EntryFacts
<1>4. Range(s) = {s[k] : k \in 1..Len(s)}
  <2>1. DOMAIN s = 1..Len(s) OBVIOUS
  <2> QED BY <2>1 DEF Range
<1>5. Unflushed(a) = {t \in {s[k] : k \in 1..Len(s)} : t.offset >= a.flushed} BY <1>1, <1>4 DEF Unflushed
<1>6. s[i] \in Unflushed(a) BY <1>2, <1>3, <1>5
<1>7. ASSUME NEW t \in Unflushed(a), t.new = r PROVE t = s[i]
  <2>1. PICK k \in 1..Len(s) : t = s[k] /\ s[k].offset >= a.flushed BY <1>5
  <2>2. CASE k < i BY <1>1, <1>2, <1>3, <1>7, <2>1, <2>2 DEF Distinct
  <2>3. CASE i < k BY <1>1, <1>3, <1>7, <2>1, <2>3 DEF Distinct
  <2>4. CASE k = i BY <2>1, <2>4
  <2> QED BY <1>3, <2>2, <2>3, <2>4
<1>8. Pushed(a, r) = {s[i]} BY <1>6, <1>7 DEF Pushed
<1>9. EntryOffset(a, r) = s[i].offset
  <2>1. {t.offset : t \in Pushed(a, r)} = {s[i].offset} BY <1>8
  <2>2. {s[i].offset} \in SUBSET Nat /\ s[i].offset \in {s[i].offset} BY <1>3
  <2>3. Min({s[i].offset}) \in {s[i].offset} BY <2>2, MinNat
  <2> QED BY <2>1, <2>3 DEF EntryOffset
<1> HIDE DEF r
<1> DEFINE D == {t \in Unflushed(a) : t.old = r /\ t.offset >= EntryOffset(a, r)}
<1>10. ASSUME NEW t \in D PROVE i < Len(s) /\ t = s[i + 1]
  <2>1. PICK k \in 1..Len(s) : t = s[k] /\ s[k].offset >= a.flushed /\ s[k].old = r /\ s[k].offset >= s[i].offset
    BY <1>5, <1>9
  <2>2. ~(k < i)
    <3>1. k < i => s[k].offset + 2 <= s[i].offset BY <1>3, ChainedOrder
    <3> QED BY <1>3, <2>1, <3>1
  <2>3. k # i BY <1>3, <2>1 DEF Chained, r
  <2>4. k = i + 1
    <3>1. SUFFICES ASSUME k # i + 1 PROVE FALSE OBVIOUS
    <3>2. k - 1 \in 1..(Len(s) - 1) /\ k - 1 \in 1..Len(s) /\ i < k - 1 /\ (k - 1) + 1 = k BY <1>3, <2>2, <2>3, <3>1
    <3>3. s[k].old = s[k - 1].new BY <1>3, <3>2 DEF Chained
    <3>4. s[k - 1].new # s[i].new BY <1>1, <1>2, <1>3, <3>2 DEF Distinct
    <3> QED BY <2>1, <3>3, <3>4 DEF r
  <2> QED BY <1>3, <2>1, <2>4
<1>11. i < Len(s) => s[i + 1] \in D
  <2>1. SUFFICES ASSUME i < Len(s) PROVE s[i + 1] \in D OBVIOUS
  <2>2. i \in 1..(Len(s) - 1) /\ i + 1 \in 1..Len(s) BY <1>3, <2>1
  <2>3. s[i + 1].old = r /\ s[i].offset + 2 <= s[i + 1].offset BY <1>3, <2>2 DEF Chained, r
  <2>4. s[i + 1].offset \in Nat /\ s[i].offset \in Nat BY <1>3, <2>2
  <2>5. s[i + 1].offset >= s[i].offset BY <2>3, <2>4
  <2>6. a.flushed \in Nat BY DEF Accs
  <2>7. s[i + 1].offset >= a.flushed BY <1>3, <2>4, <2>5, <2>6
  <2>8. s[i + 1] \in Unflushed(a) BY <1>5, <2>2, <2>7
  <2> QED BY <1>9, <2>3, <2>5, <2>8
<1>12. D = IF i < Len(s) THEN {s[i + 1]} ELSE {}
  <2> HIDE DEF D
  <2> QED BY <1>10, <1>11
<1>13. Deallocations(a, r) = {t.offset : t \in D} BY DEF Deallocations
<1>14. Deallocations(a, r) = IF i < Len(s) THEN {s[i + 1].offset} ELSE {}
  <2> HIDE DEF D
  <2> QED BY <1>12, <1>13
<1> QED BY <1>1, <1>6, <1>8, <1>9, <1>14 DEF r

\* When the entry stops replay.
LEMMA BadEntry ==
  ASSUME NEW a \in Accs, Chained(a.transactions), Distinct(a), NEW contents, NEW to \in Nat,
         NEW i \in 1..Len(a.transactions), a.flushed <= a.transactions[i].offset
  PROVE  Bad(a, contents, a.transactions[i].new, to) <=>
           /\ a.transactions[i].offset < to
           /\ i < Len(a.transactions) => to <= a.transactions[i + 1].offset
           /\ contents[a.transactions[i].new] # a.transactions[i].num
<1>1. PICK s \in Seq(Entries) : s = a.transactions BY DEF Accs
<1>2. Len(s) \in Nat /\ i \in 1..Len(s) /\ (\A k \in 1..Len(s) : s[k].offset \in Nat) BY <1>1, EntryFacts
<1> DEFINE r == s[i].new
<1>3. /\ Pushed(a, r) = {s[i]} /\ EntryOffset(a, r) = s[i].offset
      /\ Deallocations(a, r) = IF i < Len(s) THEN {s[i + 1].offset} ELSE {}
  BY <1>1, EntryOf
<1>4. {t.num : t \in Pushed(a, r)} = {s[i].num} BY <1>3
<1>5. i < Len(s) => Max({s[i + 1].offset}) = s[i + 1].offset
  <2>1. SUFFICES ASSUME i < Len(s) PROVE Max({s[i + 1].offset}) = s[i + 1].offset OBVIOUS
  <2>2. PICK o \in Nat : o = s[i + 1].offset BY <1>2, <2>1
  <2>3. {o} \in SUBSET Nat /\ o \in {o} /\ \A j \in {o} : j <= o OBVIOUS
  <2>4. Max({o}) \in {o} BY <2>3, MaxNat
  <2> QED BY <2>2, <2>4
<1>6. (Deallocations(a, r) # {} => Max(Deallocations(a, r)) >= to) <=> (i < Len(s) => to <= s[i + 1].offset)
  <2>1. CASE i < Len(s)
    <3>1. Deallocations(a, r) = {s[i + 1].offset} BY <1>3, <2>1
    <3>2. Max(Deallocations(a, r)) = s[i + 1].offset /\ Deallocations(a, r) # {} BY <1>5, <2>1, <3>1
    <3>3. s[i + 1].offset \in Nat BY <1>2, <2>1
    <3> QED BY <2>1, <3>2, <3>3
  <2>2. CASE ~(i < Len(s)) BY <1>3, <2>2
  <2> QED BY <2>1, <2>2
<1> HIDE DEF r
<1>7. Bad(a, contents, r, to) <=> s[i].offset < to /\ (i < Len(s) => to <= s[i + 1].offset) /\ contents[r] # s[i].num
  BY <1>3, <1>4, <1>6 DEF Bad
<1> QED BY <1>1, <1>7 DEF r

\* Replay up to where the checksums allow keeps what was safe on the device,
\* and ends with a transaction that has its data.
LEMMA VerifySound ==
  ASSUME NEW a \in Accs, Chained(a.transactions), Distinct(a), NEW contents, NEW end \in Nat,
         \A i \in 1..Len(a.transactions) : a.transactions[i].offset < end,
         NEW q \in 1..Len(a.transactions),
         q < Len(a.transactions) => a.flushed <= a.transactions[q + 1].offset,
         contents[a.transactions[q].new] = a.transactions[q].num
  PROVE  \E c \in q..Len(a.transactions) :
           /\ Verify(a, contents, end) \in Nat /\ Verify(a, contents, end) <= end
           /\ Len(Truncate(a.transactions, Verify(a, contents, end))) = c
           /\ \A i \in 1..c : a.transactions[i].offset < Verify(a, contents, end)
           /\ \A i \in (c + 1)..Len(a.transactions) : Verify(a, contents, end) <= a.transactions[i].offset
           /\ Verify(a, contents, end) = end => c = Len(a.transactions)
           /\ c < Len(a.transactions) => a.flushed <= a.transactions[c + 1].offset
           /\ contents[a.transactions[c].new] = a.transactions[c].num
<1>1. PICK s \in Seq(Entries) : s = a.transactions BY DEF Accs
<1>2. PICK f \in Nat : f = a.flushed BY DEF Accs
<1>3. Len(s) \in Nat /\ (\A k \in 1..Len(s) : s[k] \in Entries /\ s[k].offset \in Nat /\ s[k].offset < end)
      /\ Chained(s) /\ q \in 1..Len(s)
  BY <1>1, EntryFacts
<1>4. \A i, j \in 1..Len(s) : i < j => s[i].offset + 2 <= s[j].offset BY <1>3, ChainedOrder
<1> DEFINE entries == {t.new : t \in Unflushed(a)}
           C == {end} \cup {EntryOffset(a, range) : range \in entries}
           S == {to \in C : \A range \in entries : ~Bad(a, contents, range, to)}
           v == Max(S)
<1>5. Verify(a, contents, end) = v BY DEF Verify
<1>6. ASSUME NEW t \in Unflushed(a) PROVE \E i \in 1..Len(s) : t = s[i] /\ f <= s[i].offset
  <2>1. Range(s) = {s[k] : k \in 1..Len(s)}
    <3>1. DOMAIN s = 1..Len(s) OBVIOUS
    <3> QED BY <3>1 DEF Range
  <2>2. t \in {s[k] : k \in 1..Len(s)} /\ t.offset >= f BY <1>1, <1>2, <2>1 DEF Unflushed
  <2> QED BY <1>3, <2>2
<1>7. \A r \in entries : \E i \in 1..Len(s) : r = s[i].new /\ f <= s[i].offset BY <1>6
<1>8. \A i \in 1..Len(s) : f <= s[i].offset => s[i].new \in entries /\ EntryOffset(a, s[i].new) = s[i].offset
  BY <1>1, <1>2, EntryOf
<1>9. \A to \in Nat : \A i \in 1..Len(s) : f <= s[i].offset =>
        (Bad(a, contents, s[i].new, to) <=>
           s[i].offset < to /\ (i < Len(s) => to <= s[i + 1].offset) /\ contents[s[i].new] # s[i].num)
  BY <1>1, <1>2, BadEntry
<1> HIDE DEF entries
<1>10. \A to \in C : to = end \/ \E i \in 1..Len(s) : to = s[i].offset /\ f <= s[i].offset
  BY <1>7, <1>8
<1>11. end \in C /\ \A i \in 1..Len(s) : f <= s[i].offset => s[i].offset \in C BY <1>8
<1> HIDE DEF C
<1>12. C \in SUBSET Nat /\ \A to \in C : to <= end
  <2>1. ASSUME NEW to \in C PROVE to \in Nat /\ to <= end
    <3>1. CASE to = end BY <3>1
    <3>2. CASE to # end
      <4>1. PICK i \in 1..Len(s) : to = s[i].offset BY <1>10, <3>2
      <4> QED BY <1>3, <4>1
    <3> QED BY <3>1, <3>2
  <2> QED BY <2>1
<1> DEFINE w == IF q < Len(s) THEN s[q + 1].offset ELSE end
<1>13. w \in C /\ w \in Nat /\ s[q].offset < w
  <2>1. CASE q < Len(s)
    <3>1. q + 1 \in 1..Len(s) /\ f <= s[q + 1].offset BY <1>1, <1>2, <1>3, <2>1
    <3>2. s[q].offset + 2 <= s[q + 1].offset /\ s[q].offset \in Nat /\ s[q + 1].offset \in Nat BY <1>3, <1>4, <3>1
    <3> QED BY <1>11, <2>1, <3>1, <3>2
  <2>2. CASE ~(q < Len(s)) BY <1>3, <1>11, <2>2
  <2> QED BY <2>1, <2>2
<1>14. ASSUME NEW r \in entries PROVE ~Bad(a, contents, r, w)
  <2>1. PICK i \in 1..Len(s) : r = s[i].new /\ f <= s[i].offset BY <1>7
  <2>2. Bad(a, contents, r, w) <=>
           s[i].offset < w /\ (i < Len(s) => w <= s[i + 1].offset) /\ contents[s[i].new] # s[i].num
    BY <1>9, <1>13, <2>1
  <2>3. CASE i < q
    <3>1. i + 1 \in 1..Len(s) /\ i < Len(s) /\ (i + 1 = q \/ i + 1 < q) BY <1>3, <2>3
    <3>2. s[i + 1].offset <= s[q].offset
      <4>1. CASE i + 1 = q BY <1>3, <4>1
      <4>2. CASE i + 1 < q
        <5>1. s[i + 1].offset + 2 <= s[q].offset /\ s[q].offset \in Nat /\ s[i + 1].offset \in Nat
          BY <1>3, <1>4, <3>1, <4>2
        <5> QED BY <5>1
      <4> QED BY <3>1, <4>1, <4>2
    <3>3. ~(w <= s[i + 1].offset)
      <4> HIDE DEF w
      <4> QED BY <1>3, <1>13, <3>1, <3>2
    <3> QED BY <2>2, <3>1, <3>3
  <2>4. CASE i = q
    <3>1. contents[s[i].new] = s[i].num BY <1>1, <2>4
    <3> QED BY <2>2, <3>1
  <2>5. CASE q < i
    <3>1. q < Len(s) /\ q + 1 \in 1..Len(s) /\ (i = q + 1 \/ q + 1 < i) BY <1>3, <2>5
    <3>2. w = s[q + 1].offset BY <3>1
    <3>3. s[q + 1].offset <= s[i].offset
      <4>1. CASE i = q + 1 BY <1>3, <4>1
      <4>2. CASE q + 1 < i
        <5>1. s[q + 1].offset + 2 <= s[i].offset /\ s[i].offset \in Nat /\ s[q + 1].offset \in Nat
          BY <1>3, <1>4, <3>1, <4>2
        <5> QED BY <5>1
      <4> QED BY <3>1, <4>1, <4>2
    <3>4. ~(s[i].offset < w) BY <1>3, <3>1, <3>2, <3>3
    <3> QED BY <2>2, <3>4
  <2> QED BY <1>3, <2>3, <2>4, <2>5
<1> HIDE DEF w
<1>15. w \in S BY <1>13, <1>14
<1>16. S \in SUBSET Nat /\ \A to \in S : to <= end BY <1>12
<1>17. \A to \in S : to \in C /\ \A r \in entries : ~Bad(a, contents, r, to) OBVIOUS
<1> HIDE DEF S
<1>18. v \in S /\ v \in Nat /\ w <= v /\ v <= end BY <1>15, <1>16, MaxNat
<1> HIDE DEF v
<1> DEFINE c == Len(Truncate(s, v))
<1>19. /\ c \in Nat /\ c <= Len(s)
       /\ Truncate(s, v) # <<>> => s[c].offset < v
       /\ \A i \in (c + 1)..Len(s) : v <= s[i].offset
  BY <1>18, TruncateFacts
<1>20. c # 0 => Truncate(s, v) # <<>> OBVIOUS
<1> HIDE DEF c
<1>21. q <= c
  <2>1. SUFFICES ASSUME c < q PROVE FALSE BY <1>3, <1>19
  <2>2. q \in (c + 1)..Len(s) BY <1>3, <1>19, <2>1
  <2>3. v <= s[q].offset /\ s[q].offset \in Nat BY <1>3, <1>19, <2>2
  <2> QED BY <1>13, <1>18, <2>3
<1>22. c \in q..Len(s) /\ c \in 1..Len(s) /\ s[c].offset < v BY <1>3, <1>19, <1>20, <1>21
<1>23. ASSUME NEW i \in 1..c PROVE s[i].offset < v
  <2>1. CASE i = c BY <1>22, <2>1
  <2>2. CASE i # c
    <3>1. i < c /\ i \in 1..Len(s) BY <1>22, <2>2
    <3>2. s[i].offset + 2 <= s[c].offset /\ s[i].offset \in Nat /\ s[c].offset \in Nat BY <1>3, <1>4, <1>22, <3>1
    <3>3. PICK x \in Nat, y \in Nat : x = s[i].offset /\ y = s[c].offset BY <3>2
    <3>4. x + 2 <= y /\ y < v /\ v \in Nat BY <1>18, <1>22, <3>2, <3>3
    <3>5. x < v BY <3>4
    <3> QED BY <3>3, <3>5
  <2> QED BY <2>1, <2>2
<1>24. v = end => c = Len(s)
  <2>1. SUFFICES ASSUME v = end, c # Len(s) PROVE FALSE OBVIOUS
  <2>2. c + 1 \in (c + 1)..Len(s) /\ c + 1 \in 1..Len(s) BY <1>3, <1>22, <2>1
  <2>3. v <= s[c + 1].offset /\ s[c + 1].offset < end /\ s[c + 1].offset \in Nat BY <1>3, <1>19, <2>2
  <2> QED BY <2>1, <2>3
<1>25. ASSUME NEW i \in (q + 1)..Len(s) PROVE f <= s[i].offset
  <2>1. q < Len(s) /\ q + 1 \in 1..Len(s) /\ i \in 1..Len(s) /\ (i = q + 1 \/ q + 1 < i) BY <1>3
  <2>2. f <= s[q + 1].offset BY <1>1, <1>2, <2>1
  <2>3. CASE i = q + 1 BY <2>2, <2>3
  <2>4. CASE q + 1 < i
    <3>1. s[q + 1].offset + 2 <= s[i].offset /\ s[i].offset \in Nat /\ s[q + 1].offset \in Nat BY <1>3, <1>4, <2>1, <2>4
    <3> QED BY <2>2, <3>1
  <2> QED BY <2>1, <2>3, <2>4
<1>26. c < Len(s) => f <= s[c + 1].offset
  <2>1. c < Len(s) => c + 1 \in (q + 1)..Len(s) BY <1>3, <1>22
  <2> QED BY <1>25, <2>1
<1>27. contents[s[c].new] = s[c].num
  <2>1. CASE f <= s[c].offset
    <3>1. s[c].new \in entries BY <1>8, <1>22, <2>1
    <3>2. ~Bad(a, contents, s[c].new, v) BY <1>17, <1>18, <3>1
    <3>3. c < Len(s) => v <= s[c + 1].offset
      <4>1. c < Len(s) => c + 1 \in (c + 1)..Len(s) BY <1>3, <1>22
      <4> QED BY <1>19, <4>1
    <3> QED BY <1>9, <1>18, <1>22, <2>1, <3>2, <3>3
  <2>2. CASE ~(f <= s[c].offset)
    <3>1. c \notin (q + 1)..Len(s) BY <1>25, <2>2
    <3>2. c = q BY <1>3, <1>22, <3>1
    <3> QED BY <1>1, <3>2
  <2> QED BY <2>1, <2>2
<1>28. Len(Truncate(s, v)) = c BY DEF c
<1> QED BY <1>1, <1>2, <1>5, <1>18, <1>19, <1>22, <1>23, <1>24, <1>26, <1>27, <1>28
-----------------------------------------------------------------------------
(***************************************************************************)
(* The blocks that are found after a crash.                                *)
(***************************************************************************)
\* What makes D a set of blocks.
Blocks(D) ==
  /\ IsFiniteSet(DOMAIN D) /\ DOMAIN D \subseteq Nat
  /\ \A b \in DOMAIN D : D[b] \in Histories /\ Len(D[b].recs) = Start(b + 1)

\* All the blocks before the first bad one are read, and it is not.
LEMMA ReadableFacts ==
  ASSUME NEW D, Blocks(D)
  PROVE  /\ Readable(D) \in Nat
         /\ \A b \in 0..(Readable(D) - 1) : b \in DOMAIN D /\ Valid(D, b)
         /\ Readable(D) \in DOMAIN D => ~Valid(D, Readable(D))
<1> DEFINE S == {b \in 0..Cardinality(DOMAIN D) : b \notin DOMAIN D \/ ~Valid(D, b)}
           n == Cardinality(DOMAIN D)
<1>1. IsFiniteSet(DOMAIN D) /\ DOMAIN D \subseteq Nat BY DEF Blocks
<1>2. n \in Nat BY <1>1, FS_CardinalityType
<1>3. \E b \in 0..n : b \notin DOMAIN D
  <2>1. SUFFICES ASSUME 0..n \subseteq DOMAIN D PROVE FALSE OBVIOUS
  <2> HIDE DEF n
  <2>2. Cardinality(0..n) <= Cardinality(DOMAIN D) BY <1>1, <2>1, FS_Subset
  <2>3. Cardinality(0..n) = IF 0 > n THEN 0 ELSE n - 0 + 1 BY <1>2, FS_Interval
  <2>4. Cardinality(0..n) = n + 1 BY <1>2, <2>3
  <2> QED BY <1>2, <2>2, <2>4 DEF n
<1>4. PICK x \in S : TRUE BY <1>3
<1>5. S \in SUBSET Nat BY <1>2
<1>6. Readable(D) = Min(S) BY DEF Readable
<1>7. Readable(D) \in S /\ Readable(D) \in Nat /\ \A j \in S : Readable(D) <= j
  <2> HIDE DEF S
  <2> QED BY <1>4, <1>5, <1>6, MinNat
<1>8. ASSUME NEW b \in 0..(Readable(D) - 1) PROVE b \in DOMAIN D /\ Valid(D, b)
  <2>1. b \in 0..n /\ ~(Readable(D) <= b) BY <1>2, <1>7
  <2>2. b \notin S BY <1>7, <2>1
  <2> QED BY <2>1, <2>2
<1> QED BY <1>7, <1>8

\* The last block that is read stands for those before it.
LEMMA ReadableChain ==
  ASSUME NEW D, Blocks(D), NEW k \in Nat, k <= Readable(D), NEW j \in Nat, 1 <= j, j < k
  PROVE  k - 1 \in DOMAIN D /\ j - 1 \in DOMAIN D /\ Cut(D[k - 1], j) = D[j - 1]
<1> DEFINE T == {i \in Nat : j < i /\ i <= k /\ ~(Cut(D[i - 1], j) = D[j - 1])}
<1>1. Readable(D) \in Nat /\ \A b \in 0..(Readable(D) - 1) : b \in DOMAIN D /\ Valid(D, b) BY ReadableFacts
<1>2. \A b \in 0..(k - 1) : b \in DOMAIN D /\ Valid(D, b) BY <1>1
<1>3. k - 1 \in 0..(k - 1) /\ j - 1 \in 0..(k - 1) OBVIOUS
<1>4. SUFFICES ASSUME k \in T PROVE FALSE BY <1>2, <1>3
<1>5. PICK i \in T : \A m \in T : i <= m
  <2>1. T \in SUBSET Nat OBVIOUS
  <2> HIDE DEF T
  <2> QED BY <1>4, <2>1, LeastNat
<1>6. i \in Nat /\ i - 1 \in Nat /\ i - 1 \in 0..(k - 1) /\ i - 1 # 0 /\ (i - 1) - 1 \in 0..(k - 1)
      /\ j <= i - 1 /\ ~(i <= i - 1) /\ i - 1 <= k
  BY <1>5
<1>7. Cut(D[i - 1], i - 1) = D[(i - 1) - 1] BY <1>2, <1>6 DEF Valid
<1>8. CASE j = i - 1 BY <1>5, <1>7, <1>8
<1>9. CASE j # i - 1
  <2>1. i - 1 \notin T BY <1>5, <1>6
  <2>2. Cut(D[(i - 1) - 1], j) = D[j - 1] BY <1>6, <1>9, <2>1
  <2>3. PICK h \in Histories : h = D[i - 1] /\ Len(h.recs) = Start((i - 1) + 1) BY <1>2, <1>6 DEF Blocks
  <2>4. Start(i - 1) <= Len(h.recs)
    <3>1. Start((i - 1) + 1) = Start(i - 1) + BlockSize /\ Start(i - 1) \in Nat /\ BlockSize \in Nat BY <1>6, StartFacts
    <3> QED BY <2>3, <3>1
  <2>5. Cut(Cut(h, i - 1), j) = Cut(h, j) BY <1>6, <2>3, <2>4, CutCut
  <2> QED BY <1>5, <1>7, <2>2, <2>3, <2>5
<1> QED BY <1>8, <1>9

\* Blocks that were cut from one history are read.
LEMMA GoodReadable ==
  ASSUME NEW D, Blocks(D), NEW h \in Histories, NEW f \in Nat, Start(f) <= Len(h.recs),
         \A b \in 0..(f - 1) : b \in DOMAIN D /\ D[b] = Cut(h, b + 1)
  PROVE  f <= Readable(D)
<1>1. PICK k \in Nat : k = Readable(D) /\ (k \in DOMAIN D => ~Valid(D, k)) BY ReadableFacts
<1>2. SUFFICES ASSUME k < f PROVE FALSE BY <1>1
<1>3. k \in 0..(f - 1) BY <1>2
<1>4. k \in DOMAIN D /\ D[k] = Cut(h, k + 1) /\ k # 0 BY <1>1, <1>3 DEF Valid
<1>5. k - 1 \in 0..(f - 1) /\ (k - 1) + 1 = k BY <1>2, <1>4
<1>6. k - 1 \in DOMAIN D /\ D[k - 1] = Cut(h, k) BY <1>5
<1>7. PICK p \in Nat : p = k + 1 /\ p <= f /\ k <= p BY <1>2
<1>8. Start(p) <= Start(f) /\ Start(f) \in Nat /\ Start(p) \in Nat BY <1>7, StartFacts, StartMono
<1>9. Len(h.recs) \in Nat BY DEF Histories
<1>10. Cut(Cut(h, p), k) = Cut(h, k)
  <2>1. Start(p) <= Len(h.recs) BY <1>8, <1>9
  <2> QED BY <1>7, <2>1, CutCut
<1> QED BY <1>1, <1>4, <1>6, <1>7, <1>10 DEF Valid

\* The blocks on the device after a crash that keeps part B of its cache.
LEMMA Survivors ==
  ASSUME NEW mt, NEW h, NEW tk, NEW fl, NEW df, NEW dk, NEW ca, NEW logs, NEW D,
         BlocksOK(mt, h, tk, fl, df, dk, ca), StoresOK(mt, dk, ca, logs, df),
         NEW B \in SUBSET DOMAIN ca, D = Over(dk, ca, B)
  PROVE  /\ Blocks(D)
         /\ \A b \in DOMAIN D : StoredOK(mt, D[b], b, logs, df)
         /\ \A b \in 0..(tk - 1) : b \notin DOMAIN ca \/ b \in B => b \in DOMAIN D /\ D[b] = Cut(h, b + 1)
         /\ \A b \in DOMAIN D : b \notin B => b \in DOMAIN dk /\ D[b] = dk[b]
<1>1. /\ IsFiniteSet(DOMAIN dk) /\ DOMAIN dk \subseteq Nat /\ DOMAIN ca \subseteq mt..(tk - 1)
      /\ mt \in Nat /\ tk \in Nat /\ 1 <= mt
      /\ \A b \in 0..(tk - 1) : b \notin DOMAIN ca => b \in DOMAIN dk /\ dk[b] = Cut(h, b + 1)
      /\ \A b \in DOMAIN ca : ca[b] = Cut(h, b + 1)
  BY DEF BlocksOK
<1>2. DOMAIN D = DOMAIN dk \cup B /\ \A b \in DOMAIN D : D[b] = IF b \in B THEN ca[b] ELSE dk[b] BY DEF Over
<1>3. B \subseteq mt..(tk - 1) BY <1>1
<1>4. IsFiniteSet(DOMAIN D)
  <2>1. IsFiniteSet(mt..(tk - 1)) BY <1>1, FS_Interval
  <2>2. IsFiniteSet(B) BY <1>3, <2>1, FS_Subset
  <2> QED BY <1>1, <1>2, <2>2, FS_Union
<1>5. DOMAIN D \subseteq Nat BY <1>1, <1>2, <1>3
<1>6. \A b \in DOMAIN D : StoredOK(mt, D[b], b, logs, df) BY <1>2 DEF StoresOK
<1>7. \A b \in DOMAIN D : D[b] \in Histories /\ Len(D[b].recs) = Start(b + 1) BY <1>6 DEF StoredOK
<1>8. \A b \in 0..(tk - 1) : b \notin DOMAIN ca \/ b \in B => b \in DOMAIN D /\ D[b] = Cut(h, b + 1) BY <1>1, <1>2
<1>9. \A b \in DOMAIN D : b \notin B => b \in DOMAIN dk /\ D[b] = dk[b] BY <1>2
<1> QED BY <1>4, <1>5, <1>6, <1>7, <1>8, <1>9 DEF Blocks

\* f blocks of h have survived, all those that were flushed among them.
Survive(mt, h, tk, df, D, f) ==
  /\ mt <= f /\ f <= tk /\ f <= Readable(D) /\ df <= Start(f)
  /\ mt < Readable(D) => mt < f
  /\ \A b \in 0..(f - 1) : b \in DOMAIN D /\ D[b] = Cut(h, b + 1)

\* What was flushed is read, and so is the mount before the crash, when
\* anything after it is.
LEMMA FlushedRead ==
  ASSUME NEW mt, NEW h, NEW tk, NEW fl, NEW df, NEW dk, NEW ca, NEW logs, NEW D,
         BlocksOK(mt, h, tk, fl, df, dk, ca), StoresOK(mt, dk, ca, logs, df),
         NEW B \in SUBSET DOMAIN ca, D = Over(dk, ca, B)
  PROVE  \E f \in Nat : Survive(mt, h, tk, df, D, f)
<1>1. /\ mt \in Nat /\ fl \in Nat /\ tk \in Nat /\ df \in Nat /\ h \in Histories
      /\ 1 <= mt /\ mt <= fl /\ fl <= tk /\ Start(tk) <= Len(h.recs)
      /\ df <= Start(fl) /\ DOMAIN ca \subseteq mt..(tk - 1)
      /\ \A b \in DOMAIN ca : df <= Start(b)
      /\ mt \in DOMAIN dk => Cut(dk[mt], mt) # Cut(h, mt) \/ (mt < tk /\ dk[mt] = Cut(h, mt + 1))
  BY DEF BlocksOK
<1>2. /\ Blocks(D)
      /\ \A b \in 0..(tk - 1) : b \notin DOMAIN ca \/ b \in B => b \in DOMAIN D /\ D[b] = Cut(h, b + 1)
      /\ \A b \in DOMAIN D : b \notin B => b \in DOMAIN dk /\ D[b] = dk[b]
  BY Survivors
<1> DEFINE T == {i \in Nat : mt <= i /\ df <= Start(i)}
<1>3. PICK f \in T : \A i \in T : f <= i
  <2>1. T \in SUBSET Nat /\ fl \in T BY <1>1
  <2> HIDE DEF T
  <2> QED BY <2>1, LeastNat
<1>4. f \in Nat /\ mt <= f /\ df <= Start(f) /\ f <= fl /\ f <= tk
  <2>1. fl \in T BY <1>1
  <2>2. f \in Nat /\ mt <= f /\ df <= Start(f) /\ f <= fl BY <1>3, <2>1
  <2> QED BY <1>1, <2>2
<1>5. ASSUME NEW b \in 0..(f - 1) PROVE b \in DOMAIN D /\ D[b] = Cut(h, b + 1)
  <2>1. b \in Nat /\ b \in 0..(tk - 1) /\ ~(f <= b) BY <1>1, <1>4
  <2>2. b \notin T BY <1>3, <2>1
  <2>3. b \notin DOMAIN ca BY <1>1, <2>1, <2>2
  <2> QED BY <1>2, <2>1, <2>3
<1>6. \A g \in Nat : g <= tk => Start(g) <= Len(h.recs)
  <2>1. ASSUME NEW g \in Nat, g <= tk PROVE Start(g) <= Len(h.recs)
    <3>1. Start(g) \in Nat /\ Start(tk) \in Nat /\ Start(g) <= Start(tk) BY <1>1, <2>1, StartFacts, StartMono
    <3>2. Len(h.recs) \in Nat BY <1>1 DEF Histories
    <3> QED BY <1>1, <3>1, <3>2
  <2> QED BY <2>1
<1>7. f <= Readable(D) BY <1>1, <1>2, <1>4, <1>5, <1>6, GoodReadable
<1> HIDE DEF T
<1>8. CASE mt < f \/ ~(mt < Readable(D)) BY <1>4, <1>5, <1>7, <1>8 DEF Survive
<1>9. CASE ~(mt < f) /\ mt < Readable(D)
  <2>1. f = mt BY <1>1, <1>4, <1>9
  <2>2. PICK k \in Nat : k = Readable(D) /\ \A b \in 0..(k - 1) : b \in DOMAIN D /\ Valid(D, b) BY <1>2, ReadableFacts
  <2>3. mt \in 0..(k - 1) /\ mt - 1 \in 0..(f - 1) /\ mt # 0 /\ (mt - 1) + 1 = mt BY <1>1, <1>9, <2>1, <2>2
  <2>4. mt \in DOMAIN D /\ Cut(D[mt], mt) = D[mt - 1] BY <2>2, <2>3 DEF Valid
  <2>5. D[mt - 1] = Cut(h, mt) BY <1>5, <2>3
  <2>6. mt < tk /\ D[mt] = Cut(h, mt + 1)
    <3>1. CASE mt \in B
      <4>1. mt \in 0..(tk - 1) BY <1>1, <3>1
      <4> QED BY <1>1, <1>2, <3>1, <4>1
    <3>2. CASE mt \notin B BY <1>1, <1>2, <2>4, <2>5, <3>2
    <3> QED BY <3>1, <3>2
  <2>7. PICK g \in Nat : g = mt + 1 BY <1>1
  <2>8. \A b \in 0..(g - 1) : b \in DOMAIN D /\ D[b] = Cut(h, b + 1)
    <3>1. ASSUME NEW b \in 0..(g - 1) PROVE b = mt \/ b \in 0..(f - 1) BY <1>1, <2>1, <2>7
    <3> QED BY <1>5, <2>4, <2>6, <3>1
  <2>9. mt <= g /\ g <= tk /\ mt < g BY <1>1, <2>6, <2>7
  <2>10. g <= Readable(D) BY <1>1, <1>2, <1>6, <2>8, <2>9, GoodReadable
  <2>11. df <= Start(g)
    <3>1. Start(mt + 1) = Start(mt) + BlockSize /\ Start(mt) \in Nat /\ BlockSize \in Nat /\ df <= Start(mt)
      BY <1>1, <1>4, <2>1, StartFacts
    <3> QED BY <1>1, <2>7, <3>1
  <2> QED BY <2>8, <2>9, <2>10, <2>11 DEF Survive
<1> QED BY <1>8, <1>9

\* What is read of them is what was read there before the crash.
LEMMA SameRead ==
  ASSUME NEW D, Blocks(D), NEW h \in Histories, NEW f \in Nat, 1 <= f, f <= Readable(D), Start(f) <= Len(h.recs),
         D[f - 1] = Cut(h, f), NEW k, k = Readable(D)
  PROVE  /\ k \in Nat /\ k - 1 \in Nat /\ (k - 1) + 1 = k /\ k - 1 \in DOMAIN D
         /\ D[k - 1] \in Histories /\ Len(D[k - 1].recs) = Start(k) /\ Start(f) <= Start(k)
         /\ Acc(D[k - 1].recs, Start(f)) = Acc(h.recs, Start(f))
<1>1. k \in Nat /\ \A b \in 0..(k - 1) : b \in DOMAIN D BY ReadableFacts
<1>2. k - 1 \in Nat /\ k - 1 \in 0..(k - 1) /\ (k - 1) + 1 = k BY <1>1
<1>3. k - 1 \in DOMAIN D BY <1>1, <1>2
<1>4. PICK g \in Histories : g = D[k - 1] /\ Len(g.recs) = Start(k) BY <1>2, <1>3 DEF Blocks
<1>5. Start(f) <= Start(k) /\ Start(f) \in Nat /\ Start(k) \in Nat BY <1>1, StartFacts, StartMono
<1>6. \A i \in 1..Start(f) : Cut(h, f).recs[i] = h.recs[i] BY CutFacts
<1>7. \A i \in 1..Start(f) : g.recs[i] = h.recs[i]
  <2>1. CASE f = k BY <1>4, <1>6, <2>1
  <2>2. CASE f # k
    <3>1. f < k BY <1>1, <2>2
    <3>2. k <= Readable(D) /\ k \in Nat BY <1>1
    <3>3. Cut(D[k - 1], f) = D[f - 1] BY <3>1, <3>2, ReadableChain, Zenon
    <3>4. Cut(g, f) = D[f - 1] BY <1>4, <3>3
    <3>5. \A i \in 1..Start(f) : Cut(g, f).recs[i] = g.recs[i] BY <1>4, <1>5, CutFacts
    <3> QED BY <1>6, <3>4, <3>5
  <2> QED BY <2>1, <2>2
<1>8. g.recs \in Seq(Records) /\ h.recs \in Seq(Records) BY DEF Histories
<1>9. PICK s \in Seq(Records), t \in Seq(Records) : s = g.recs /\ t = h.recs BY <1>8
<1>10. Acc(s, Start(f)) = Acc(t, Start(f))
  <2>1. PICK n \in Nat : n = Start(f) BY <1>5
  <2>2. n <= Len(s) /\ n <= Len(t) BY <1>4, <1>5, <1>9, <2>1
  <2>3. \A i \in 1..n : s[i] = t[i] BY <1>7, <1>9, <2>1
  <2>4. Acc(s, n) = Acc(t, n) BY <2>2, <2>3, LoopLocal
  <2> QED BY <2>1, <2>4
<1> QED BY <1>1, <1>2, <1>3, <1>4, <1>5, <1>9, <1>10

\* The state at a crash: the journal h, its blocks, the log l.
Crashed(mt, c, h, tk, fl, df, dk, ca, logs, l) ==
  /\ BlocksOK(mt, h, tk, fl, df, dk, ca) /\ StoresOK(mt, dk, ca, logs, df)
  /\ ReadOK(mt, h.recs, l, df) /\ MountOK(mt, c, Acc(h.recs, Start(mt)), l, df)
  /\ Chained(l) /\ \A i \in 1..Len(l) : l[i].offset < df => l[i].offset + 2 <= df

\* q counts the transactions before df.
Before(l, q, df) == (\A i \in 1..q : l[i].offset < df) /\ (q < Len(l) => df <= l[q + 1].offset)

\* What is read after it.
Found(dk, ca, B, D, k, a) == D = Over(dk, ca, B) /\ k = Readable(D) /\ a = Acc(D[k - 1].recs, Start(k))

\* The transactions before df are in it, and the next is not taken to be flushed.
Kept(mt, df, l, q, D, k, a) ==
  /\ k \in Nat /\ mt <= k /\ df <= Start(k) /\ k - 1 \in DOMAIN D /\ a \in Accs
  /\ q <= Len(a.transactions) /\ \A i \in 1..q : a.transactions[i] = l[i]
  /\ q < Len(a.transactions) => a.flushed <= a.transactions[q + 1].offset

\* The transactions that were flushed are read, and nothing after them is taken
\* to have been flushed.
LEMMA CrashReads ==
  ASSUME NEW mt, NEW c, NEW h, NEW tk, NEW fl, NEW df, NEW dk, NEW ca, NEW logs, NEW l \in Seq(Entries),
         Crashed(mt, c, h, tk, fl, df, dk, ca, logs, l), NEW B \in SUBSET DOMAIN ca,
         NEW q \in 1..Len(l), Before(l, q, df), NEW D, NEW k, NEW a, Found(dk, ca, B, D, k, a)
  PROVE  Kept(mt, df, l, q, D, k, a)
<1> SUFFICES /\ k \in Nat /\ mt <= k /\ df <= Start(k) /\ k - 1 \in DOMAIN D /\ a \in Accs
             /\ q <= Len(a.transactions) /\ \A i \in 1..q : a.transactions[i] = l[i]
             /\ q < Len(a.transactions) => a.flushed <= a.transactions[q + 1].offset
  BY DEF Kept
<1> USE DEF Crashed, Before, Found
<1>1. /\ mt \in Nat /\ tk \in Nat /\ df \in Nat /\ h \in Histories
      /\ 1 <= mt /\ Start(tk) <= Len(h.recs) /\ Start(mt) <= df
  BY DEF BlocksOK
<1>2. Blocks(D) /\ \A b \in DOMAIN D : StoredOK(mt, D[b], b, logs, df) BY Survivors
<1>3. PICK f \in Nat : Survive(mt, h, tk, df, D, f) BY FlushedRead
<1>4. /\ mt <= f /\ f <= tk /\ f <= Readable(D) /\ df <= Start(f)
      /\ mt < Readable(D) => mt < f
      /\ \A b \in 0..(f - 1) : b \in DOMAIN D /\ D[b] = Cut(h, b + 1)
  BY <1>3 DEF Survive
<1>5. 1 <= f /\ f - 1 \in 0..(f - 1) /\ (f - 1) + 1 = f BY <1>1, <1>4
<1>6. D[f - 1] = Cut(h, f) BY <1>4, <1>5
<1>7. PICK e \in Nat : e = Len(h.recs) BY <1>1 DEF Histories
<1>8. PICK n \in Nat, m \in Nat, w \in Nat : n = Start(f) /\ m = Start(mt) /\ w = Start(k)
  <2>1. k \in Nat BY <1>2, ReadableFacts
  <2> QED BY <1>1, <2>1, StartFacts
<1>9. n <= e
  <2>1. Start(f) <= Start(tk) /\ Start(tk) \in Nat BY <1>1, <1>4, StartFacts, StartMono
  <2> QED BY <1>1, <1>7, <1>8, <2>1
<1>10. /\ k \in Nat /\ k - 1 \in Nat /\ (k - 1) + 1 = k /\ k - 1 \in DOMAIN D
      /\ D[k - 1] \in Histories /\ Len(D[k - 1].recs) = Start(k) /\ Start(f) <= Start(k)
      /\ Acc(D[k - 1].recs, Start(f)) = Acc(h.recs, Start(f))
  BY <1>1, <1>2, <1>4, <1>5, <1>6, <1>7, <1>8, <1>9, SameRead, SMTT(30)
<1>11. PICK s \in Seq(Records), t \in Seq(Records) : s = D[k - 1].recs /\ t = h.recs BY <1>1, <1>10 DEF Histories
<1>12. Len(s) = w /\ n <= w /\ Acc(s, n) = Acc(t, n) /\ a = Acc(s, w) /\ Len(t) = e BY <1>7, <1>8, <1>10, <1>11
<1>13. a \in Accs BY <1>8, <1>12, Loop
<1>14. PICK T \in Seq(Entries), g \in Nat : T = a.transactions /\ g = a.flushed BY <1>13 DEF Accs
<1>15. Len(T) \in Nat /\ Len(l) \in Nat /\ (\A i \in 1..Len(T) : T[i].offset \in Nat) /\ (\A i \in 1..Len(l) : l[i].offset \in Nat)
  BY EntryFacts
<1>16. mt <= k /\ df <= Start(k)
  <2>1. df <= n /\ n <= w BY <1>4, <1>8, <1>12
  <2>2. df <= w BY <1>1, <2>1
  <2>3. mt <= k BY <1>1, <1>4, <1>10
  <2> QED BY <1>8, <2>2, <2>3
<1>17. g <= df \/ g <= m + 1
  <2>1. Known(mt, a, df) BY <1>2, <1>10 DEF StoredOK
  <2> QED BY <1>8, <1>14, <2>1 DEF Known
<1>18. /\ c \in 1..Len(l)
       /\ \A i \in 1..c : l[i].offset + 2 <= m
       /\ \A i \in (c + 1)..Len(l) : m + 1 <= l[i].offset
  BY <1>8 DEF MountOK
<1>19. CASE k = mt
  <2>1. f = mt /\ n = w /\ w = m /\ df = m BY <1>1, <1>4, <1>8, <1>19
  <2>2. a = Acc(h.recs, Start(mt)) BY <1>8, <1>11, <1>12, <2>1
  <2>3. q = c
    <3>1. ~(q < c)
      <4>1. SUFFICES ASSUME q < c PROVE FALSE OBVIOUS
      <4>2. q < Len(l) /\ q + 1 \in 1..c /\ q + 1 \in 1..Len(l) BY <1>15, <1>18, <4>1
      <4>3. m <= l[q + 1].offset /\ l[q + 1].offset + 2 <= m /\ l[q + 1].offset \in Nat BY <1>15, <1>18, <2>1, <4>2
      <4> QED BY <4>3
    <3>2. ~(c < q)
      <4>1. SUFFICES ASSUME c < q PROVE FALSE OBVIOUS
      <4>2. q \in (c + 1)..Len(l) /\ q \in 1..q BY <1>15, <1>18, <4>1
      <4>3. m + 1 <= l[q].offset /\ l[q].offset < m /\ l[q].offset \in Nat BY <1>15, <1>18, <2>1, <4>2
      <4> QED BY <4>3
    <3> QED BY <1>15, <1>18, <3>1, <3>2
  <2>4. /\ c <= Len(a.transactions) /\ \A i \in 1..c : a.transactions[i] = l[i]
        /\ c < Len(a.transactions) => a.flushed <= a.transactions[c + 1].offset
    BY <2>2 DEF MountOK
  <2> QED BY <1>10, <1>13, <1>16, <2>3, <2>4
<1>20. CASE k # mt
  <2>1. mt < k /\ mt < f BY <1>1, <1>4, <1>10, <1>16, <1>20
  <2>2. m + 2 <= n
    <3>1. Start(mt) + BlockSize <= Start(f) /\ BlockSize \in Nat /\ BlockSize >= 2 BY <1>1, <2>1, StartFacts, StartMono
    <3>2. PICK z \in Nat : z = BlockSize /\ z >= 2 /\ m + z <= n BY <1>8, <3>1
    <3> QED BY <3>2
  <2>3. MatchOK(mt, Acc(t, n), n, l, df)
    <3>1. n \in 0..Len(h.recs) BY <1>7, <1>9
    <3>2. MatchOK(mt, Acc(h.recs, n), n, l, df) BY <1>8, <2>2, <3>1 DEF ReadOK
    <3> QED BY <1>11, <3>2
  <2>4. PICK z \in Accs : z = Acc(t, n) /\ z = Acc(s, n)
    <3>1. n \in 0..Len(t) BY <1>9, <1>12
    <3> QED BY <1>12, <3>1, Loop
  <2>5. PICK Z \in Seq(Entries), y \in Seq(Entries) : Z = z.transactions /\ y = z.current /\ Len(y) <= 1
    BY <2>4 DEF Accs, Open
  <2>6. PICK p \in Nat : p = Len(Z) BY <2>5
  <2>7. /\ p <= Len(l) /\ (\A i \in 1..p : Z[i] = l[i])
        /\ \/ y = <<>> /\ \A i \in (p + 1)..Len(l) : n <= l[i].offset
           \/ p < Len(l) /\ y = <<l[p + 1]>> /\ l[p + 1].offset = n - 1
    BY <2>3, <2>4, <2>5, <2>6 DEF MatchOK, Match, Begins
  <2>8. PICK y1 \in Nat : y1 = df BY <1>1
  <2>9. y1 <= n BY <1>4, <1>8, <2>8
  <2>10. PICK x \in Nat : x <= n /\ df <= x /\ m + 1 <= x /\ x \in {df, m + 1}
    <3>1. m + 1 \in Nat /\ m + 1 <= n /\ n <= n BY <2>2
    <3>2. y1 <= m + 1 \/ m + 1 <= y1 BY <3>1
    <3>3. CASE y1 <= m + 1
      <4>1. m + 1 <= m + 1 OBVIOUS
      <4> QED BY <2>8, <3>1, <3>3, <4>1
    <3>4. CASE m + 1 <= y1
      <4>1. y1 <= y1 OBVIOUS
      <4> QED BY <2>8, <2>9, <3>4, <4>1
    <3> QED BY <3>2, <3>3, <3>4
  <2>11. y # <<>> => p < Len(l) /\ y[1] = l[p + 1] /\ x <= l[p + 1].offset
    <3>1. SUFFICES ASSUME y # <<>> PROVE p < Len(l) /\ y[1] = l[p + 1] /\ x <= l[p + 1].offset OBVIOUS
    <3>2. p < Len(l) /\ y = <<l[p + 1]>> /\ l[p + 1].offset = n - 1 BY <2>7, <3>1
    <3>3. p + 1 \in 1..Len(l) BY <1>15, <3>2
    <3>4. PICK o \in Nat : o = l[p + 1].offset BY <1>15, <3>3
    <3>5. o < df => o + 2 <= df BY <3>3, <3>4
    <3>6. o = n - 1 BY <3>2, <3>4
    <3>7. x <= o BY <1>1, <2>2, <2>8, <2>9, <2>10, <3>5, <3>6
    <3> QED BY <3>2, <3>4, <3>7
  <2>12. Follows(z, a, x)
    <3>1. Forward(s, n)
      <4>1. Forward(s, m + 2) BY <1>2, <1>8, <1>10, <1>11 DEF StoredOK
      <4> QED BY <2>2, <4>1 DEF Forward
    <3>2. z.current # <<>> => x <= z.current[1].offset BY <2>5, <2>11
    <3> QED BY <1>12, <2>4, <2>10, <3>1, <3>2, LoopForward
  <2>13. p <= Len(T) /\ (\A i \in 1..p : Z[i] = T[i]) /\ \A i \in (p + 1)..Len(T) : x <= T[i].offset
    BY <1>14, <2>5, <2>6, <2>12 DEF Follows, Begins
  <2>14. q <= p
    <3>1. SUFFICES ASSUME p < q PROVE FALSE BY <2>6
    <3>2. p + 1 \in 1..q /\ p + 1 \in (p + 1)..Len(l) /\ p + 1 \in 1..Len(l) BY <1>15, <2>6, <3>1
    <3>3. l[p + 1].offset < df /\ l[p + 1].offset \in Nat BY <1>15, <3>2
    <3>4. CASE y = <<>>
      <4>1. n <= l[p + 1].offset BY <2>7, <3>2, <3>4
      <4>2. PICK o \in Nat : o = l[p + 1].offset /\ o < y1 /\ n <= o BY <2>8, <3>3, <4>1
      <4> QED BY <2>9, <4>2
    <3>5. CASE y # <<>>
      <4>1. PICK o \in Nat : o = l[p + 1].offset /\ o < y1 /\ x <= o BY <2>8, <2>11, <3>3, <3>5
      <4>2. y1 <= x BY <2>8, <2>10
      <4> QED BY <4>1, <4>2
    <3> QED BY <3>4, <3>5
  <2>15. q <= Len(T) /\ \A i \in 1..q : T[i] = l[i]
    <3>1. \A i \in 1..q : i \in 1..p BY <2>6, <2>14
    <3>2. q <= Len(T) BY <1>15, <2>6, <2>13, <2>14
    <3> QED BY <2>7, <2>13, <3>1, <3>2
  <2>16. q < Len(T) => g <= T[q + 1].offset
    <3>1. SUFFICES ASSUME q < Len(T) PROVE g <= T[q + 1].offset OBVIOUS
    <3>2. q + 1 \in 1..Len(T) BY <1>15, <3>1
    <3>3. PICK o \in Nat : o = T[q + 1].offset BY <1>15, <3>2
    <3>4. df <= o /\ m + 1 <= o
      <4>1. CASE q + 1 <= p
        <5>1. q + 1 \in 1..p /\ q < Len(l) /\ q + 1 \in 1..Len(l) BY <1>15, <2>6, <2>7, <4>1
        <5>2. l[q + 1].offset = o BY <2>7, <2>13, <3>3, <5>1
        <5>3. df <= o BY <5>1, <5>2
        <5>4. q + 1 \notin 1..c
          <6>1. SUFFICES ASSUME q + 1 \in 1..c PROVE FALSE OBVIOUS
          <6>2. o + 2 <= m BY <1>18, <5>2, <6>1
          <6> QED BY <1>1, <1>8, <5>3, <6>2
        <5>5. q + 1 \in (c + 1)..Len(l) BY <1>18, <5>1, <5>4
        <5> QED BY <1>18, <5>2, <5>3, <5>5
      <4>2. CASE ~(q + 1 <= p)
        <5>1. q + 1 \in (p + 1)..Len(T) BY <2>6, <3>2, <4>2
        <5>2. x <= o BY <2>13, <3>3, <5>1
        <5> QED BY <1>1, <2>10, <5>2
      <4> QED BY <4>1, <4>2
    <3>5. g <= o BY <1>1, <1>17, <3>4
    <3> QED BY <3>3, <3>5
  <2> QED BY <1>10, <1>13, <1>14, <1>16, <2>15, <2>16
<1> QED BY <1>19, <1>20

\* Known to have been flushed before a crash, known after it.
LEMMA StoredMono ==
  ASSUME NEW mt \in Nat, NEW k \in Nat, mt <= k, NEW h, NEW b \in Nat, NEW logs, NEW more, logs \subseteq more,
         NEW df \in Nat, NEW df2 \in Nat, df <= df2, StoredOK(mt, h, b, logs, df)
  PROVE  StoredOK(k, h, b, more, df2)
<1>1. Start(mt) <= Start(k) /\ Start(mt) \in Nat /\ Start(k) \in Nat BY StartFacts, StartMono
<1>2. h \in Histories /\ Len(h.recs) = Start(b + 1) /\ \A r \in h.resets : r <= b BY DEF StoredOK
<1>3. PICK s \in Seq(Records), n \in Nat : s = h.recs /\ n = Start(b + 1)
  <2>1. b + 1 \in Nat OBVIOUS
  <2> QED BY <1>2, <2>1, StartFacts DEF Histories
<1>4. Forward(s, Start(k) + 2)
  <2>1. Forward(s, Start(mt) + 2) BY <1>3 DEF StoredOK
  <2> QED BY <1>1, <2>1 DEF Forward
<1>5. PICK a \in Accs : a = Acc(s, n)
  <2>1. n \in 0..Len(s) BY <1>2, <1>3
  <2> QED BY <2>1, Loop
<1>6. (\E l \in logs : Begins(a.transactions, l)) /\ Distinct(a) /\ Known(mt, a, df) BY <1>3, <1>5 DEF StoredOK
<1>7. Known(k, a, df2)
  <2>1. PICK f \in Nat : f = a.flushed BY DEF Accs
  <2>2. f <= df \/ f <= Start(mt) + 1 BY <1>6, <2>1 DEF Known
  <2>3. f <= df2 \/ f <= Start(k) + 1 BY <1>1, <2>2
  <2> QED BY <2>1, <2>3 DEF Known
<1> QED BY <1>2, <1>3, <1>4, <1>5, <1>6, <1>7 DEF StoredOK

\* The blocks D are mounted at k, with h for a journal.
MountedAt(mt, df, logs, D, k, h) ==
  /\ Blocks(D) /\ \A b \in DOMAIN D : StoredOK(mt, D[b], b, logs, df)
  /\ k = Readable(D) /\ 1 <= mt /\ mt <= k /\ df <= Start(k) /\ k - 1 \in DOMAIN D
  /\ h.recs = D[k - 1].recs /\ h.resets = D[k - 1].resets \cup {k}

\* The journal goes on after the last block that was read.
LEMMA ReplayBlocks ==
  ASSUME NEW mt \in Nat, NEW df \in Nat, NEW logs, NEW D, NEW k \in Nat, NEW h \in Histories,
         MountedAt(mt, df, logs, D, k, h), NEW L
  PROVE  /\ h.recs = D[k - 1].recs
         /\ BlocksOK(k, h, k, k, Start(k), D, <<>>)
         /\ StoresOK(k, D, <<>>, logs \cup {L}, Start(k))
         /\ ReadOK(k, h.recs, L, Start(k))
<1> USE DEF MountedAt
<1>1. /\ k \in Nat /\ \A b \in 0..(k - 1) : b \in DOMAIN D
      /\ k \in DOMAIN D => ~Valid(D, k)
  BY ReadableFacts
<1>2. 1 <= k /\ k - 1 \in Nat /\ (k - 1) + 1 = k /\ k # 0 BY <1>1
<1>3. Start(k) \in Nat BY <1>1, StartFacts
<1>4. PICK g \in Histories : g = D[k - 1] /\ Len(g.recs) = Start(k) /\ \A r \in g.resets : r <= k - 1
  BY <1>2 DEF StoredOK
<1>5. PICK s \in Seq(Records), R \in SUBSET Nat : s = g.recs /\ R = g.resets BY DEF Histories
<1>6. h.resets = R \cup {k} BY <1>4, <1>5
<1>7. h.recs = s /\ Len(s) = Start(k) BY <1>4, <1>5
<1>8. Cut(h, k) = g
  <2>1. /\ Cut(h, k) \in Histories /\ Len(Cut(h, k).recs) = Start(k)
        /\ \A i \in 1..Start(k) : Cut(h, k).recs[i] = h.recs[i]
        /\ Cut(h, k).resets = {b \in h.resets : b < k}
    BY <1>1, <1>3, <1>7, CutFacts
  <2>2. {b \in R \cup {k} : b < k} = R BY <1>1, <1>4, <1>5
  <2>3. Cut(h, k).resets = g.resets BY <1>5, <1>6, <2>1, <2>2
  <2>4. \A i \in 1..Start(k) : Cut(h, k).recs[i] = g.recs[i] BY <1>5, <1>7, <2>1
  <2> QED BY <1>4, <2>1, <2>3, <2>4, HistoryEqual
<1>9. ASSUME NEW b \in 0..(k - 1) PROVE b \in DOMAIN D /\ D[b] = Cut(h, b + 1)
  <2>1. CASE b = k - 1 BY <1>1, <1>2, <1>4, <1>8, <2>1
  <2>2. CASE b # k - 1
    <3>1. PICK j \in Nat : j = b + 1 /\ 1 <= j /\ j < k /\ j - 1 = b BY <1>1, <2>2
    <3>2. Blocks(D) /\ k <= Readable(D) BY <1>1
    <3> HIDE DEF MountedAt
    <3>3. Cut(D[k - 1], j) = D[j - 1] BY <3>1, <3>2, ReadableChain, Zenon
    <3>4. Cut(g, j) = D[b] BY <1>4, <3>1, <3>3
    <3>5. Cut(Cut(h, k), j) = Cut(h, j) BY <1>1, <1>3, <1>7, <3>1, CutCut
    <3> QED BY <1>1, <1>8, <3>1, <3>4, <3>5
  <2> QED BY <2>1, <2>2
<1>10. DOMAIN <<>> = {} OBVIOUS
<1>11. k \in DOMAIN D => Cut(D[k], k) # Cut(h, k) BY <1>1, <1>2, <1>4, <1>8 DEF Valid
<1>12. BlocksOK(k, h, k, k, Start(k), D, <<>>)
  <2>1. PICK E : E = <<>> /\ DOMAIN E = {} BY <1>10
  <2>2. Start(k) <= Len(h.recs) BY <1>3, <1>7
  <2>3. IsFiniteSet(DOMAIN D) /\ DOMAIN D \subseteq Nat BY DEF Blocks
  <2>4. BlocksOK(k, h, k, k, Start(k), D, E) BY <1>1, <1>2, <1>3, <1>9, <1>11, <2>1, <2>2, <2>3 DEF BlocksOK
  <2> QED BY <2>1, <2>4
<1>13. StoresOK(k, D, <<>>, logs \cup {L}, Start(k))
  <2>1. ASSUME NEW b \in DOMAIN D PROVE StoredOK(k, D[b], b, logs \cup {L}, Start(k))
    <3>1. b \in Nat BY DEF Blocks
    <3>2. logs \subseteq logs \cup {L} OBVIOUS
    <3> QED BY <1>1, <1>3, <3>1, <3>2, StoredMono
  <2> QED BY <1>10, <2>1 DEF StoresOK
<1>14. ReadOK(k, s, L, Start(k)) BY <1>3, <1>7 DEF ReadOK, Forward
<1> QED BY <1>4, <1>5, <1>7, <1>12, <1>13, <1>14

\* What the log holds can be what is read from the journal.
LEMMA TxEntries == Txs \subseteq Entries /\ Seq(Txs) \subseteq Seq(Entries)
<1>1. Ranges \subseteq Nat /\ MaxTxs \in Nat BY JournalAssumption
<1>2. ASSUME NEW t \in Txs PROVE t \in Entries
  <2>1. t = [offset |-> t.offset, num |-> t.num, new |-> t.new, old |-> t.old]
        /\ t.offset \in Nat /\ t.num \in 0..MaxTxs /\ t.new \in Ranges /\ t.old \in Ranges \cup {0}
    BY DEF Txs
  <2>2. t.num \in Nat /\ t.new \in Nat /\ t.old \in Nat BY <1>1, <2>1
  <2> QED BY <2>1, <2>2 DEF Entries
<1> HIDE DEF Txs, Entries
<1> QED BY <1>2

\* The beginning of a log is one.
LEMMA BeginsLog ==
  ASSUME NEW l, LogOK(l), NEW s \in Seq(Entries), Begins(s, l), s # <<>>
  PROVE  LogOK(s)
<1>1. l \in Seq(Txs) /\ Chained(l) BY DEF LogOK
<1>2. Len(s) \in Nat /\ Len(l) \in Nat /\ Len(s) <= Len(l) /\ \A i \in 1..Len(s) : i \in 1..Len(l) /\ s[i] = l[i]
  BY <1>1 DEF Begins
<1>3. s \in Seq(Txs)
  <2>1. \A i \in 1..Len(s) : s[i] \in Txs BY <1>1, <1>2
  <2>2. s \in [1..Len(s) -> Txs]
    <3>1. s \in [1..Len(s) -> Entries] OBVIOUS
    <3> QED BY <2>1, <3>1
  <2> QED BY <1>2, <2>2, SeqDef
<1>4. Chained(s)
  <2>1. \A i \in 1..Len(s) : s[i].new # s[i].old BY <1>1, <1>2 DEF Chained
  <2>2. ASSUME NEW i \in 1..(Len(s) - 1) PROVE s[i + 1].old = s[i].new /\ s[i].offset + 2 <= s[i + 1].offset
    <3>1. i \in 1..Len(s) /\ i + 1 \in 1..Len(s) /\ i \in 1..(Len(l) - 1) BY <1>2
    <3> QED BY <1>1, <1>2, <3>1 DEF Chained
  <2> QED BY <2>1, <2>2 DEF Chained
<1> QED BY <1>3, <1>4 DEF LogOK

\* What is replayed: all that was flushed, and it ends with a transaction that
\* a, read from the records s, has the first q transactions of l and the data of
\* the last of them is there.
Survived(logs, l, q, contents, k, s, a) ==
  /\ \A x \in logs : LogOK(x)
  /\ Len(s) = Start(k) /\ a = Acc(s, Start(k))
  /\ (\E x \in logs : Begins(a.transactions, x)) /\ Distinct(a) /\ Known(k, a, Start(k))
  /\ q <= Len(a.transactions) /\ \A i \in 1..q : a.transactions[i] = l[i]
  /\ q < Len(a.transactions) => a.flushed <= a.transactions[q + 1].offset
  /\ contents[l[q].new] = l[q].num

\* L is replayed of it, and d is to be discarded.
Verified(a, contents, k, to, L, d) ==
  /\ to = Verify(a, contents, Start(k)) /\ L = Truncate(a.transactions, to)
  /\ d = (IF to < Start(k) THEN to ELSE 0)

\* The log after a mount.
MountLog(contents, k, a, L, d, logs) ==
  /\ LogOK(L) /\ (\E x \in logs : Begins(L, x)) /\ \A i \in 1..Len(L) : L[i].offset + 2 <= Start(k)
  /\ contents[L[Len(L)].new] = L[Len(L)].num
  /\ MountOK(k, Len(L), a, L, Start(k)) /\ ResetOK(k, Len(L), a, L, TRUE, d, Start(k))
  /\ d \in 0..Start(k)

\* has its data.
LEMMA ReplayLog ==
  ASSUME NEW logs, NEW l \in Seq(Entries), NEW q \in 1..Len(l), NEW contents, NEW k \in Nat, NEW s \in Seq(Records),
         NEW a \in Accs, Survived(logs, l, q, contents, k, s, a), NEW to, NEW L, NEW d, Verified(a, contents, k, to, L, d)
  PROVE  MountLog(contents, k, a, L, d, logs) /\ q <= Len(L) /\ \A i \in 1..q : L[i] = l[i]
<1> SUFFICES /\ LogOK(L) /\ q <= Len(L) /\ (\A i \in 1..q : L[i] = l[i]) /\ (\E x \in logs : Begins(L, x))
             /\ \A i \in 1..Len(L) : L[i].offset + 2 <= Start(k)
             /\ contents[L[Len(L)].new] = L[Len(L)].num
             /\ MountOK(k, Len(L), a, L, Start(k)) /\ ResetOK(k, Len(L), a, L, TRUE, d, Start(k))
             /\ d \in 0..Start(k)
  BY DEF MountLog
<1> USE DEF Survived, Verified
<1>1. PICK T \in Seq(Entries), e \in Nat, n \in Nat : T = a.transactions /\ e = Start(k) /\ n = Len(T)
  <2>1. Start(k) \in Nat BY StartFacts
  <2> QED BY <2>1 DEF Accs
<1>2. \A i \in 1..n : T[i] \in Entries /\ T[i].offset \in Nat BY <1>1, EntryFacts
<1>3. \A i \in 1..n : T[i].offset + 2 <= e
  <2>1. e \in 0..Len(s) BY <1>1
  <2> QED BY <1>1, <2>1, LoopBounds
<1>4. PICK x \in logs : Begins(T, x) BY <1>1
<1>5. T # <<>>
  <2>1. q <= n /\ 1 <= q BY <1>1
  <2>2. T = <<>> => n = 0 BY <1>1
  <2> QED BY <1>1, <2>1, <2>2
<1>6. LogOK(x) /\ LogOK(T) BY <1>4, <1>5, BeginsLog
<1>7. q \in 1..n /\ T[q] = l[q] BY <1>1
<1>8. \E c \in q..n :
           /\ to \in Nat /\ to <= e
           /\ Len(Truncate(T, to)) = c
           /\ \A i \in 1..c : T[i].offset < to
           /\ \A i \in (c + 1)..n : to <= T[i].offset
           /\ to = e => c = n
           /\ c < n => a.flushed <= T[c + 1].offset
           /\ contents[T[c].new] = T[c].num
  <2>1. Chained(a.transactions) BY <1>1, <1>6 DEF LogOK
  <2>2. \A i \in 1..Len(a.transactions) : a.transactions[i].offset < e BY <1>1, <1>2, <1>3
  <2>3. q \in 1..Len(a.transactions) BY <1>1
  <2>4. contents[a.transactions[q].new] = a.transactions[q].num BY <1>1, <1>7
  <2>5. \E c \in q..Len(a.transactions) :
           /\ Verify(a, contents, e) \in Nat /\ Verify(a, contents, e) <= e
           /\ Len(Truncate(a.transactions, Verify(a, contents, e))) = c
           /\ \A i \in 1..c : a.transactions[i].offset < Verify(a, contents, e)
           /\ \A i \in (c + 1)..Len(a.transactions) : Verify(a, contents, e) <= a.transactions[i].offset
           /\ Verify(a, contents, e) = e => c = Len(a.transactions)
           /\ c < Len(a.transactions) => a.flushed <= a.transactions[c + 1].offset
           /\ contents[a.transactions[c].new] = a.transactions[c].num
    BY <2>1, <2>2, <2>3, <2>4, VerifySound, ZenonT(60)
  <2> QED BY <1>1, <2>5
<1>9. PICK c \in q..n :
           /\ to \in Nat /\ to <= e
           /\ Len(Truncate(T, to)) = c
           /\ \A i \in 1..c : T[i].offset < to
           /\ \A i \in (c + 1)..n : to <= T[i].offset
           /\ to = e => c = n
           /\ c < n => a.flushed <= T[c + 1].offset
           /\ contents[T[c].new] = T[c].num
  BY <1>8
<1>10. c \in Nat /\ 1 <= c /\ c <= n /\ q <= c BY <1>1, <1>7, <1>9
<1>11. L \in Seq(Entries) /\ Len(L) = c /\ \A i \in 1..c : L[i] = T[i]
  <2>1. L = Truncate(T, to) /\ to \in Nat BY <1>1, <1>9
  <2>2. L \in Seq(Entries) /\ \A i \in 1..Len(L) : L[i] = T[i] BY <2>1, TruncateFacts
  <2> QED BY <1>9, <2>1, <2>2
<1>12. Begins(L, T) /\ Begins(L, x)
  <2>1. Begins(L, T) BY <1>1, <1>10, <1>11 DEF Begins
  <2>2. n <= Len(x) /\ (\A i \in 1..n : T[i] = x[i]) BY <1>1, <1>4 DEF Begins
  <2>3. Len(x) \in Nat BY <1>6 DEF LogOK
  <2>4. c <= Len(x) /\ \A i \in 1..c : i \in 1..n BY <1>10, <2>2, <2>3, <1>1
  <2> QED BY <1>11, <2>1, <2>2, <2>4 DEF Begins
<1>13. LogOK(L)
  <2>1. L # <<>> BY <1>10, <1>11
  <2> QED BY <1>6, <1>11, <1>12, <2>1, BeginsLog
<1>14. \A i \in 1..q : L[i] = l[i]
  <2>1. \A i \in 1..q : i \in 1..c BY <1>10
  <2> QED BY <1>1, <1>11, <2>1
<1>15. \A i \in 1..c : L[i].offset + 2 <= e
  <2>1. \A i \in 1..c : i \in 1..n BY <1>1, <1>10
  <2> QED BY <1>3, <1>11, <2>1
<1>16. contents[L[c].new] = L[c].num
  <2>1. c \in 1..c BY <1>10
  <2> QED BY <1>9, <1>11, <2>1
<1>17. MountOK(k, c, a, L, e)
  <2>1. c \in 1..Len(L) /\ c <= Len(a.transactions) BY <1>1, <1>10, <1>11
  <2>2. \A i \in 1..c : a.transactions[i] = L[i] /\ L[i].offset + 2 <= Start(k) BY <1>1, <1>11, <1>15
  <2>3. \A i \in (c + 1)..Len(L) : Start(k) + 1 <= L[i].offset BY <1>10, <1>11
  <2>4. c < Len(a.transactions) => a.flushed <= a.transactions[c + 1].offset BY <1>1, <1>9
  <2> QED BY <1>1, <2>1, <2>2, <2>3, <2>4 DEF MountOK
<1>18. d \in 0..e /\ (d = 0 => c = n) /\ (d # 0 => d = to)
  <2>1. 1 \in 1..c /\ 1 \in 1..n BY <1>1, <1>10
  <2>2. T[1].offset < to /\ T[1].offset \in Nat BY <1>2, <1>9, <2>1
  <2>3. to # 0 BY <1>9, <2>2
  <2> QED BY <1>1, <1>9, <2>3
<1>19. ResetOK(k, c, a, L, TRUE, d, e)
  <2>1. d # 0 => \A i \in 1..c : L[i].offset < d BY <1>9, <1>11, <1>18
  <2>2. d # 0 => \A i \in (c + 1)..Len(a.transactions) : d <= a.transactions[i].offset BY <1>1, <1>9, <1>18
  <2>3. e = Start(k) /\ c = Len(L) /\ (d = 0 => Len(a.transactions) = c) BY <1>1, <1>11, <1>18
  <2> QED BY <2>1, <2>2, <2>3 DEF ResetOK
<1> QED BY <1>1, <1>10, <1>11, <1>12, <1>13, <1>14, <1>15, <1>16, <1>17, <1>18, <1>19
-----------------------------------------------------------------------------
(***************************************************************************)
(* Each part of the invariant depends on these variables only.             *)
(***************************************************************************)
LEMMA FrameType ==
  ASSUME TypeInv, UNCHANGED <<data, dcached, discard, device_flushed, needs_did_flush, reset_version, terminate,
                              deallocs, commit, sync, flusher, txs, syncs, crashes>>
  PROVE  TypeInv'
  BY DEF TypeInv

\* A step that leaves the blocks alone.
LEMMA FrameBlocks ==
  ASSUME NEW mt, BlocksInv(mt), UNCHANGED <<journal, taken, flushed, device_flushed, disk, cached>>
  PROVE  BlocksInv(mt)'
  BY DEF BlocksInv

\* A step that leaves alone what is stored.
LEMMA FrameStored ==
  ASSUME NEW mt, StoredInv(mt), UNCHANGED <<disk, cached, past, log, device_flushed>>
  PROVE  StoredInv(mt)'
  BY DEF StoredInv

\* A step that leaves alone what would be read.
LEMMA FrameRead ==
  ASSUME NEW mt, NEW c, ReadInv(mt), MountInv(mt, c), UNCHANGED <<journal, log, device_flushed>>
  PROVE  ReadInv(mt)' /\ MountInv(mt, c)'
  BY DEF ReadInv, MountInv

\* A step that leaves alone what the last mount kept and took back.
LEMMA FrameReset ==
  ASSUME NEW mt, NEW c, ResetInv(mt, c), UNCHANGED <<journal, log, reset_version, discard>>
  PROVE  ResetInv(mt, c)'
  BY DEF ResetInv

\* A step that leaves the log and its promise alone.
LEMMA FrameLog ==
  ASSUME LogInv, UNCHANGED <<log, past, journal, device_flushed, durable>>
  PROVE  LogInv'
  BY DEF LogInv, Offset

\* A step that leaves alone what a sync waits for.
LEMMA FrameSync ==
  ASSUME SyncInv, UNCHANGED <<sync, journal, log, flushed, device_flushed, cached>>
  PROVE  SyncInv'
  BY DEF SyncInv, Offset

\* A step that leaves the data alone.
LEMMA FrameData ==
  ASSUME DataInv, UNCHANGED <<log, device_flushed, dcached, data, sync, deallocs>>
  PROVE  DataInv'
  BY DEF DataInv, Held, Live

\* A step that leaves the commit alone.
LEMMA FrameCommit ==
  ASSUME CommitInv,
         UNCHANGED <<commit, log, dcached, data, device_flushed, reset_version, journal, needs_did_flush>>
  PROVE  CommitInv'
  BY DEF CommitInv, Held, Current, Last, Offset
-----------------------------------------------------------------------------
(***************************************************************************)
(* Each action preserves the invariant.                                    *)
(***************************************************************************)
\* What the log looks like, entry by entry.
LEMMA LogFacts ==
  ASSUME LogInv
  PROVE  /\ log \in Seq(Txs) /\ log \in Seq(Entries) /\ Chained(log) /\ log # <<>>
         /\ Len(log) \in Nat /\ 1 <= Len(log) /\ Len(log) \in 1..Len(log)
         /\ \A i \in 1..Len(log) : /\ log[i] \in Txs /\ log[i].offset \in Nat /\ log[i].num \in 0..MaxTxs
                                   /\ log[i].new \in Ranges /\ log[i].old \in Ranges \cup {0}
         /\ Current = log[Len(log)].new
         /\ \A i, j \in 1..Len(log) : i < j => log[i].offset + 2 <= log[j].offset
<1>1. log \in Seq(Txs) /\ Chained(log) /\ log # <<>> BY DEF LogInv, LogOK
<1>2. log \in Seq(Entries) BY <1>1, TxEntries
<1>3. Len(log) \in Nat /\ 1 <= Len(log) /\ Len(log) \in 1..Len(log) BY <1>1
<1>4. \A t \in Txs : t.offset \in Nat /\ t.num \in 0..MaxTxs /\ t.new \in Ranges /\ t.old \in Ranges \cup {0} BY DEF Txs
<1>5. \A i \in 1..Len(log) : log[i] \in Txs BY <1>1
<1>6. Current = log[Len(log)].new BY DEF Current, Last
<1>7. \A i, j \in 1..Len(log) : i < j => log[i].offset + 2 <= log[j].offset BY <1>1, <1>2, ChainedOrder
<1> QED BY <1>1, <1>2, <1>3, <1>4, <1>5, <1>6, <1>7

\* A range that can be given out holds nothing that a crash could need.
LEMMA FreeFacts ==
  ASSUME LogInv, DataInv, device_flushed \in Nat, NEW r \in Free
  PROVE  /\ r \in Ranges /\ r # Current
         /\ \A i \in 1..Len(log) : device_flushed <= log[i].offset => r # log[i].old
         /\ \A i \in 1..Len(log) : Live(i, device_flushed) => r # log[i].new
<1>1. r \in Ranges /\ r # Current /\ \A d \in deallocs : d.range # r BY DEF Free
<1>2. \A i \in 1..Len(log) : device_flushed <= log[i].offset => r # log[i].old
  <2>1. ASSUME NEW i \in 1..Len(log), device_flushed <= log[i].offset PROVE r # log[i].old
    <3>1. [offset |-> log[i].offset, range |-> log[i].old] \in deallocs BY <2>1 DEF DataInv
    <3> QED BY <1>1, <3>1
  <2> QED BY <2>1
<1>3. ASSUME NEW i \in 1..Len(log), Live(i, device_flushed) PROVE r # log[i].new
  <2>1. CASE i = Len(log) BY <1>1, <2>1, LogFacts
  <2>2. CASE i # Len(log)
    <3>1. Len(log) \in Nat BY LogFacts
    <3>2. i < Len(log) /\ i \in 1..(Len(log) - 1) /\ i + 1 \in 1..Len(log) BY <2>2, <3>1
    <3>3. device_flushed <= log[i + 1].offset BY <1>3, <3>2 DEF Live
    <3>4. log[i + 1].old = log[i].new BY <3>2, LogFacts DEF Chained
    <3> QED BY <1>2, <3>2, <3>3, <3>4
  <2> QED BY <2>1, <2>2
<1> QED BY <1>1, <1>2, <1>3

\* Data goes to a free range: no transaction that a crash may uncover needs it.
LEMMA WriteDataInv ==
  ASSUME NEW mt, NEW c, Inv(mt, c), WriteData
  PROVE  Inv(mt, c)'
<1>1. /\ TypeInv /\ BlocksInv(mt) /\ StoredInv(mt) /\ ReadInv(mt) /\ MountInv(mt, c) /\ ResetInv(mt, c)
      /\ LogInv /\ SyncInv /\ DataInv /\ CommitInv
  BY DEF Inv
<1>2. /\ commit.stage = "idle" /\ txs < MaxTxs /\ txs' = txs + 1
      /\ UNCHANGED <<disk, cached, data, writer, inner, deallocs, sync, flusher, promise, syncs, crashes>>
  BY DEF WriteData
<1>3. UNCHANGED <<disk, cached, data, journal, taken, flushed, device_flushed, needs_did_flush, reset_version,
                  discard, terminate, deallocs, sync, flusher, log, durable, past, syncs, crashes>>
  BY <1>2 DEF writer, inner, promise
<1>4. PICK r \in Free :
        /\ dcached' = [s \in DOMAIN dcached \cup {r} |-> IF s = r THEN txs' ELSE dcached[s]]
        /\ commit' = [stage |-> "written", tx |-> [num |-> txs', new |-> r, old |-> Current]]
  BY DEF WriteData
<1>5. device_flushed \in Nat BY <1>1 DEF BlocksInv, BlocksOK
<1>6. /\ r \in Ranges /\ r # Current
      /\ \A i \in 1..Len(log) : device_flushed <= log[i].offset => r # log[i].old
      /\ \A i \in 1..Len(log) : Live(i, device_flushed) => r # log[i].new
  BY <1>1, <1>5, FreeFacts
<1>7. PICK num \in Nat : num = txs' /\ num \in 1..MaxTxs
  <2>1. txs \in 0..MaxTxs /\ MaxTxs \in Nat BY <1>1, JournalAssumption DEF TypeInv
  <2> QED BY <1>2, <2>1
<1>8. PICK old \in Ranges : old = Current BY <1>1, LogFacts
<1>9. commit' = [stage |-> "written", tx |-> [num |-> num, new |-> r, old |-> old]] BY <1>4, <1>7, <1>8
<1>10. DOMAIN dcached' = DOMAIN dcached \cup {r} /\ dcached'[r] = num
       /\ \A s \in DOMAIN dcached : s # r => dcached'[s] = dcached[s] BY <1>4, <1>7
<1>11. TypeInv'
  <2>1. DOMAIN dcached' \subseteq Ranges /\ \A s \in DOMAIN dcached' : dcached'[s] \in 1..MaxTxs
    BY <1>1, <1>6, <1>7, <1>10 DEF TypeInv
  <2>2. num \in 0..MaxTxs BY <1>7, JournalAssumption
  <2>3. commit' \in [stage : {"idle", "written", "prepared", "applied"},
                     tx : [num : 0..MaxTxs, new : Ranges, old : Ranges \cup {0}]]
    BY <1>6, <1>8, <1>9, <2>2
  <2> QED BY <1>1, <1>3, <1>7, <2>1, <2>2, <2>3 DEF TypeInv
<1>12. DataInv'
  <2>1. ASSUME NEW i \in 1..Len(log), Live(i, device_flushed)
        PROVE  Held(log[i].new)' = log[i].num /\ (log[i].offset < device_flushed => log[i].new \notin DOMAIN dcached')
    <3>1. Held(log[i].new) = log[i].num /\ (log[i].offset < device_flushed => log[i].new \notin DOMAIN dcached)
      BY <1>1, <2>1 DEF DataInv
    <3>2. log[i].new # r BY <1>6, <2>1
    <3>3. log[i].new \in DOMAIN dcached' <=> log[i].new \in DOMAIN dcached BY <1>10, <3>2
    <3>4. Held(log[i].new)' = Held(log[i].new) BY <1>3, <1>10, <3>2 DEF Held
    <3> QED BY <3>1, <3>3, <3>4
  <2>2. ASSUME sync.stage = "flushed", NEW i \in 1..Len(log), Live(i, sync.offset), log[i].offset < sync.offset
        PROVE  log[i].new \notin DOMAIN dcached'
    <3>1. log[i].new \notin DOMAIN dcached BY <1>1, <2>2 DEF DataInv
    <3>2. device_flushed < sync.offset /\ sync.offset \in Nat BY <1>1, <2>2 DEF SyncInv
    <3>3. Live(i, device_flushed)
      <4>1. i < Len(log) => i + 1 \in 1..Len(log) BY <1>1, LogFacts
      <4>2. i < Len(log) => log[i + 1].offset \in Nat BY <1>1, <4>1, LogFacts
      <4> QED BY <1>5, <2>2, <3>2, <4>2 DEF Live
    <3>4. log[i].new # r BY <1>6, <3>3
    <3> QED BY <1>10, <3>1, <3>4
  <2>3. \A i \in 1..Len(log) : device_flushed <= log[i].offset =>
          [offset |-> log[i].offset, range |-> log[i].old] \in deallocs
    BY <1>1 DEF DataInv
  <2> QED BY <1>3, <2>1, <2>2, <2>3 DEF DataInv, Live
<1>13. CommitInv'
  <2>1. commit'.stage = "written" /\ commit'.tx.new = r /\ commit'.tx.old = old /\ commit'.tx.num = num BY <1>9
  <2>2. Current' = Current BY <1>3 DEF Current, Last
  <2>3. Held(commit.tx.new)' = num BY <1>10, <2>1 DEF Held
  <2>4. commit'.stage # "prepared" BY <2>1
  <2>5. reset_version' => ~needs_did_flush' BY <1>1, <1>3 DEF CommitInv
  <2>6. ~needs_did_flush' /\ ~reset_version' => device_flushed' <= Acc(journal.recs, Offset)'.flushed
    BY <1>1, <1>3 DEF CommitInv, Offset
  <2> QED BY <1>3, <1>6, <1>8, <2>1, <2>2, <2>3, <2>4, <2>5, <2>6 DEF CommitInv
<1> QED BY <1>1, <1>3, <1>11, <1>12, <1>13, FrameBlocks, FrameStored, FrameRead, FrameReset, FrameLog, FrameSync DEF Inv
\* The end of a commit preserves the invariant.
LEMMA EndCommitInv ==
  ASSUME NEW mt, NEW c, Inv(mt, c), EndCommit
  PROVE  Inv(mt, c)'
<1>1. /\ TypeInv /\ BlocksInv(mt) /\ StoredInv(mt) /\ ReadInv(mt) /\ MountInv(mt, c) /\ ResetInv(mt, c)
      /\ LogInv /\ SyncInv /\ DataInv /\ CommitInv
  BY DEF Inv
<1>2. /\ UNCHANGED <<disk, cached, data, dcached, journal, taken, flushed, device_flushed, needs_did_flush,
                     reset_version, discard, terminate, deallocs, sync, log, durable, past, txs, syncs, crashes>>
      /\ flusher' = IF flusher = "parked" THEN "ready" ELSE flusher
      /\ commit' = [stage |-> "idle", tx |-> [num |-> 0, new |-> Home, old |-> 0]]
  BY DEF EndCommit, WakeFlusher, NoCommit, device, writer, inner, promise, counters
<1>3. Home \in Ranges
  <2>1. Ranges \in SUBSET Nat /\ Ranges # {} BY JournalAssumption
  <2>2. PICK x \in Ranges : TRUE BY <2>1
  <2> QED BY <2>1, <2>2, MinNat DEF Home
<1>4. TypeInv'
  <2>1. PICK home \in Ranges : home = Home BY <1>3
  <2>2. 0 \in 0..MaxTxs BY JournalAssumption
  <2>3. commit' \in [stage : {"idle", "written", "prepared", "applied"},
                     tx : [num : 0..MaxTxs, new : Ranges, old : Ranges \cup {0}]]
    BY <1>2, <2>1, <2>2
  <2> QED BY <1>1, <1>2, <2>3 DEF TypeInv
<1>5. CommitInv' BY <1>1, <1>2 DEF CommitInv, Offset
<1> QED BY <1>1, <1>2, <1>4, <1>5, FrameBlocks, FrameStored, FrameRead, FrameReset, FrameLog, FrameSync, FrameData DEF Inv

\* A sync that waits, and goes on to wait, changes nothing.
LEMMA WaitingInv ==
  ASSUME NEW mt, NEW c, Inv(mt, c), NEW stage \in {"wait", "parked"}, sync.stage \in {"wait", "parked"},
         sync' = [sync EXCEPT !.stage = stage],
         UNCHANGED <<disk, cached, data, dcached, journal, device_flushed, deallocs, log>>
  PROVE  /\ sync' \in [stage : {"idle", "wait", "parked", "flush", "flushed", "free"}, offset : Nat, covers : Nat]
         /\ SyncInv' /\ DataInv'
<1>1. TypeInv /\ SyncInv /\ DataInv BY DEF Inv
<1>2. sync \in [stage : {"idle", "wait", "parked", "flush", "flushed", "free"}, offset : Nat, covers : Nat]
  BY <1>1 DEF TypeInv
<1>3. sync'.stage = stage /\ sync'.offset = sync.offset /\ sync'.covers = sync.covers BY <1>2
<1>4. sync' \in [stage : {"idle", "wait", "parked", "flush", "flushed", "free"}, offset : Nat, covers : Nat]
  BY <1>2
<1>5. SyncInv' BY <1>1, <1>3 DEF SyncInv, Offset
<1>6. DataInv' BY <1>1, <1>3 DEF DataInv, Held, Live
<1> QED BY <1>4, <1>5, <1>6

\* Waking a sync preserves what it waits for.
LEMMA WakeSyncInv ==
  ASSUME NEW mt, NEW c, Inv(mt, c), WakeSync, flushed \in Nat, flushed' \in Nat, flushed <= flushed',
         UNCHANGED <<disk, cached, data, dcached, journal, device_flushed, deallocs, log>>
  PROVE  /\ sync' \in [stage : {"idle", "wait", "parked", "flush", "flushed", "free"}, offset : Nat, covers : Nat]
         /\ SyncInv' /\ DataInv'
<1>1. TypeInv /\ SyncInv /\ DataInv BY DEF Inv
<1>2. CASE sync.stage = "parked"
  <2>1. sync' = [sync EXCEPT !.stage = "wait"] BY <1>2 DEF WakeSync
  <2> QED BY <1>2, <2>1, WaitingInv
<1>3. CASE sync.stage # "parked"
  <2>1. sync' = sync BY <1>3 DEF WakeSync
  <2>2. Start(flushed) <= Start(flushed') /\ Start(flushed) \in Nat /\ Start(flushed') \in Nat BY StartFacts, StartMono
  <2>3. sync.offset \in Nat BY <1>1 DEF SyncInv
  <2>4. SyncInv' BY <1>1, <2>1, <2>2, <2>3 DEF SyncInv, Offset
  <2>5. DataInv' BY <1>1, <2>1 DEF DataInv, Held, Live
  <2> QED BY <1>1, <2>1, <2>4, <2>5 DEF TypeInv
<1> QED BY <1>2, <1>3

\* The end of a write of the flush task, or its failure, preserves the invariant.
LEMMA FlushedInv ==
  ASSUME NEW mt, NEW c, Inv(mt, c), Flushed \/ FlushFails
  PROVE  Inv(mt, c)'
<1>1. /\ TypeInv /\ BlocksInv(mt) /\ StoredInv(mt) /\ ReadInv(mt) /\ MountInv(mt, c) /\ ResetInv(mt, c)
      /\ LogInv /\ SyncInv /\ DataInv /\ CommitInv
  BY DEF Inv
<1>2. /\ UNCHANGED <<disk, cached, data, dcached, journal, taken, device_flushed, needs_did_flush,
                     reset_version, discard, deallocs, commit, log, durable, past, txs, syncs, crashes>>
      /\ WakeSync /\ flusher' \in {"ready", "ended"} /\ terminate' \in {terminate, TRUE}
      /\ flushed' \in {taken, flushed}
  BY DEF Flushed, FlushFails, device, writer, inner, promise, counters
<1>3. /\ mt \in Nat /\ flushed \in Nat /\ taken \in Nat /\ mt <= flushed /\ flushed <= taken /\ device_flushed \in Nat
      /\ device_flushed <= Start(flushed)
  BY <1>1 DEF BlocksInv, BlocksOK
<1>4. flushed' \in Nat /\ flushed <= flushed' /\ flushed' <= taken BY <1>2, <1>3
<1>5. /\ sync' \in [stage : {"idle", "wait", "parked", "flush", "flushed", "free"}, offset : Nat, covers : Nat]
      /\ SyncInv' /\ DataInv'
  BY <1>2, <1>3, <1>4, WakeSyncInv
<1>6. TypeInv' BY <1>1, <1>2, <1>5 DEF TypeInv
<1>7. BlocksInv(mt)'
  <2>1. PICK fl \in Nat : fl = flushed' BY <1>4
  <2>2. Start(flushed) <= Start(fl) /\ Start(flushed) \in Nat /\ Start(fl) \in Nat BY <1>3, <1>4, <2>1, StartFacts, StartMono
  <2>3. device_flushed <= Start(fl) /\ mt <= fl /\ fl <= taken BY <1>3, <1>4, <2>1, <2>2
  <2>4. BlocksOK(mt, journal, taken, fl, device_flushed, disk, cached)
    BY <1>1, <2>3 DEF BlocksInv, BlocksOK
  <2> QED BY <1>2, <2>1, <2>4 DEF BlocksInv
<1> QED BY <1>1, <1>2, <1>5, <1>6, <1>7, FrameStored, FrameRead, FrameReset, FrameLog, FrameCommit DEF Inv

\* A sync that ends.
LEMMA NoSyncInv ==
  ASSUME NEW mt, NEW c, Inv(mt, c), sync' = NoSync, UNCHANGED <<journal, log, flushed, device_flushed, cached, dcached, data>>,
         deallocs' = deallocs \/ (deallocs' = {d \in deallocs : d.offset >= sync.offset} /\ device_flushed = sync.offset)
  PROVE  /\ sync' \in [stage : {"idle", "wait", "parked", "flush", "flushed", "free"}, offset : Nat, covers : Nat]
         /\ SyncInv' /\ DataInv'
<1>1. DataInv /\ LogInv /\ BlocksInv(mt) BY DEF Inv
<1>2. sync' = [stage |-> "idle", offset |-> 0, covers |-> 0] BY DEF NoSync
<1>3. sync'.stage = "idle" /\ sync'.offset = 0 /\ sync'.covers = 0 BY <1>2
<1>4. sync' \in [stage : {"idle", "wait", "parked", "flush", "flushed", "free"}, offset : Nat, covers : Nat] BY <1>2
<1>5. Len(journal.recs) \in Nat /\ Len(log) \in Nat
  <2>1. journal.recs \in Seq(Records) BY <1>1 DEF BlocksInv, BlocksOK, Histories
  <2> QED BY <1>1, <2>1, LogFacts
<1>6. SyncInv'
  <2>1. 0 <= Offset' /\ sync'.offset <= Offset' /\ sync'.offset \in Nat /\ sync'.covers \in 0..Len(log')
        /\ 1..sync'.covers = {} BY <1>3, <1>5 DEF Offset
  <2> QED BY <1>3, <2>1 DEF SyncInv
<1>7. ASSUME NEW i \in 1..Len(log), device_flushed <= log[i].offset
      PROVE  [offset |-> log[i].offset, range |-> log[i].old] \in deallocs'
  <2>1. [offset |-> log[i].offset, range |-> log[i].old] \in deallocs BY <1>1, <1>7 DEF DataInv
  <2>2. log[i].offset \in Nat /\ device_flushed \in Nat BY <1>1, LogFacts DEF BlocksInv, BlocksOK
  <2> QED BY <1>7, <2>1, <2>2
<1>8. DataInv' BY <1>1, <1>3, <1>7 DEF DataInv, Held, Live
<1> QED BY <1>4, <1>6, <1>8

\* A sync that goes on has what it waits for in written blocks.
LEMMA AwaitFlushInv ==
  ASSUME NEW mt, NEW c, Inv(mt, c), AwaitFlush
  PROVE  Inv(mt, c)'
<1>1. /\ TypeInv /\ BlocksInv(mt) /\ StoredInv(mt) /\ ReadInv(mt) /\ MountInv(mt, c) /\ ResetInv(mt, c)
      /\ LogInv /\ SyncInv /\ DataInv /\ CommitInv
  BY DEF Inv
<1>2. UNCHANGED <<disk, cached, data, dcached, journal, taken, flushed, device_flushed, needs_did_flush,
                  reset_version, discard, terminate, deallocs, commit, flusher, log, durable, past, txs, syncs, crashes>>
  BY DEF AwaitFlush, device, writer, inner, promise, counters
<1>3. /\ sync' \in [stage : {"idle", "wait", "parked", "flush", "flushed", "free"}, offset : Nat, covers : Nat]
      /\ SyncInv' /\ DataInv'
  <2>1. CASE sync' = NoSync BY <1>2, <2>1, NoSyncInv
  <2>2. CASE sync' = [sync EXCEPT !.stage = "parked"]
    <3>1. sync.stage \in {"wait", "parked"} BY DEF AwaitFlush
    <3> QED BY <1>2, <2>2, <3>1, WaitingInv
  <2>3. CASE Start(flushed) >= sync.offset /\ sync' = [sync EXCEPT !.stage = "flush"]
    <3>1. sync \in [stage : {"idle", "wait", "parked", "flush", "flushed", "free"}, offset : Nat, covers : Nat]
      BY <1>1 DEF TypeInv
    <3>2. sync'.stage = "flush" /\ sync'.offset = sync.offset /\ sync'.covers = sync.covers BY <2>3, <3>1
    <3>3. sync' \in [stage : {"idle", "wait", "parked", "flush", "flushed", "free"}, offset : Nat, covers : Nat]
      BY <2>3, <3>1
    <3>4. sync.stage = "wait" BY DEF AwaitFlush
    <3>5. flushed \in Nat BY <1>1 DEF BlocksInv, BlocksOK
    <3>6. sync.offset <= Start(flushed) BY <2>3, <3>1, <3>5, StartFacts
    <3>7. SyncInv' BY <1>1, <1>2, <3>2, <3>4, <3>6 DEF SyncInv, Offset
    <3>8. DataInv' BY <1>1, <1>2, <3>2 DEF DataInv, Held, Live
    <3> QED BY <3>3, <3>7, <3>8
  <2> QED BY <2>1, <2>2, <2>3 DEF AwaitFlush
<1>4. TypeInv' BY <1>1, <1>2, <1>3 DEF TypeInv
<1> QED BY <1>1, <1>2, <1>3, <1>4, FrameBlocks, FrameStored, FrameRead, FrameReset, FrameLog, FrameCommit DEF Inv

\* A sync that returns promises what it covers, which has been flushed.
LEMMA SyncReturnsLog ==
  ASSUME NEW mt, NEW c, Inv(mt, c), SyncReturns, sync.offset <= device_flushed, UNCHANGED <<log, past, journal, device_flushed>>
  PROVE  /\ LogInv' /\ durable' \in durable..Len(log)
<1>1. LogInv /\ SyncInv /\ BlocksInv(mt) BY DEF Inv
<1>2. sync.offset \in Nat /\ device_flushed \in Nat /\ sync.covers \in 0..Len(log) /\ Len(log) \in Nat
  BY <1>1, LogFacts DEF SyncInv, BlocksInv, BlocksOK
<1>3. durable \in 1..Len(log) /\ \A i \in 1..durable : log[i].offset < device_flushed BY <1>1 DEF LogInv
<1>4. \A i \in 1..sync.covers : log[i].offset < device_flushed
  <2>1. ASSUME NEW i \in 1..sync.covers PROVE log[i].offset < device_flushed
    <3>1. i \in 1..Len(log) BY <1>2
    <3>2. log[i].offset + 2 <= sync.offset /\ log[i].offset \in Nat BY <1>1, <3>1, LogFacts DEF SyncInv
    <3> QED BY <1>2, <3>2
  <2> QED BY <2>1
<1>5. durable' = IF durable < sync.covers THEN sync.covers ELSE durable BY DEF SyncReturns
<1>6. /\ durable' \in 1..Len(log) /\ durable' \in durable..Len(log)
      /\ \A i \in 1..durable' : log[i].offset < device_flushed
  BY <1>2, <1>3, <1>4, <1>5
<1> QED BY <1>1, <1>6 DEF LogInv, Offset

\* A sync returns, and promises no more than has been flushed.
LEMMA SyncReturnsInv ==
  ASSUME NEW mt, NEW c, Inv(mt, c), NoFlush \/ FreeRanges
  PROVE  Inv(mt, c)' /\ durable' \in durable..Len(log)
<1>1. /\ TypeInv /\ BlocksInv(mt) /\ StoredInv(mt) /\ ReadInv(mt) /\ MountInv(mt, c) /\ ResetInv(mt, c)
      /\ LogInv /\ SyncInv /\ DataInv /\ CommitInv
  BY DEF Inv
<1>2. /\ UNCHANGED <<disk, cached, data, dcached, journal, taken, flushed, device_flushed, needs_did_flush,
                     reset_version, discard, terminate, commit, flusher, log, past, txs, syncs, crashes>>
      /\ SyncReturns
  BY DEF NoFlush, FreeRanges, device, writer, inner, counters
<1>3. sync' = NoSync BY <1>2 DEF SyncReturns
<1>4. sync.offset \in Nat /\ device_flushed \in Nat BY <1>1 DEF SyncInv, BlocksInv, BlocksOK
<1>5. /\ sync.offset <= device_flushed
      /\ deallocs' = deallocs \/ (deallocs' = {d \in deallocs : d.offset >= sync.offset} /\ device_flushed = sync.offset)
  <2>1. CASE NoFlush BY <1>4, <2>1 DEF NoFlush, NeedsFlush
  <2>2. CASE FreeRanges
    <3>1. device_flushed = sync.offset BY <1>1, <2>2 DEF FreeRanges, SyncInv
    <3> QED BY <1>4, <2>2, <3>1 DEF FreeRanges
  <2> QED BY <2>1, <2>2
<1>6. /\ sync' \in [stage : {"idle", "wait", "parked", "flush", "flushed", "free"}, offset : Nat, covers : Nat]
      /\ SyncInv' /\ DataInv'
  BY <1>2, <1>3, <1>5, NoSyncInv
<1>7. TypeInv'
  <2>1. deallocs' \subseteq deallocs BY <1>5
  <2> QED BY <1>1, <1>2, <1>6, <2>1 DEF TypeInv
<1>8. LogInv' /\ durable' \in durable..Len(log) BY <1>2, <1>5, SyncReturnsLog
<1> QED BY <1>1, <1>2, <1>6, <1>7, <1>8, FrameBlocks, FrameStored, FrameRead, FrameReset, FrameCommit DEF Inv

\* The cache when blocks tk to w of h have been added to it.
Added(h, tk, w, ca, more) ==
  /\ DOMAIN more = DOMAIN ca \cup (tk..(w - 1))
  /\ \A b \in DOMAIN more : more[b] = IF b >= tk THEN Cut(h, b + 1) ELSE ca[b]

\* Blocks are taken from the buffer up to block w.
LEMMA TakeBlocks ==
  ASSUME NEW mt, NEW h \in Histories, NEW tk \in Nat, NEW fl, NEW df, NEW dk, NEW ca, NEW w \in Nat, tk < w, Start(w) <= Len(h.recs),
         BlocksOK(mt, h, tk, fl, df, dk, ca), NEW more, Added(h, tk, w, ca, more)
  PROVE  BlocksOK(mt, h, w, fl, df, dk, more)
<1>1. /\ mt \in Nat /\ fl \in Nat /\ tk \in Nat /\ df \in Nat /\ h \in Histories
      /\ 1 <= mt /\ mt <= fl /\ fl <= tk /\ df <= Start(fl) /\ DOMAIN ca \subseteq mt..(tk - 1)
      /\ \A b \in 0..(tk - 1) : b \notin DOMAIN ca => b \in DOMAIN dk /\ dk[b] = Cut(h, b + 1)
      /\ \A b \in DOMAIN ca : ca[b] = Cut(h, b + 1) /\ df <= Start(b)
  BY DEF BlocksOK
<1>2. /\ DOMAIN more = DOMAIN ca \cup (tk..(w - 1))
      /\ \A b \in DOMAIN more : more[b] = IF b >= tk THEN Cut(h, b + 1) ELSE ca[b]
  BY DEF Added
<1>3. \A b \in DOMAIN ca : b \in DOMAIN more /\ ~(b >= tk) BY <1>1, <1>2
<1>4. \A b \in DOMAIN ca : more[b] = ca[b] BY <1>2, <1>3
<1>5. \A b \in tk..(w - 1) : b \in DOMAIN more /\ b >= tk /\ more[b] = Cut(h, b + 1)
  <2>1. ASSUME NEW b \in tk..(w - 1) PROVE b \in DOMAIN more /\ b >= tk BY <1>1, <1>2
  <2> QED BY <1>2, <2>1
<1>6. \A b \in DOMAIN more : more[b] = Cut(h, b + 1) BY <1>1, <1>2, <1>4, <1>5
<1>7. \A b \in DOMAIN more : df <= Start(b)
  <2>1. ASSUME NEW b \in tk..(w - 1) PROVE df <= Start(b)
    <3>1. b \in Nat /\ fl <= b BY <1>1
    <3>2. Start(fl) <= Start(b) /\ Start(fl) \in Nat /\ Start(b) \in Nat BY <1>1, <3>1, StartFacts, StartMono
    <3> QED BY <1>1, <3>2
  <2> QED BY <1>1, <1>2, <2>1
<1>8. DOMAIN more \subseteq mt..(w - 1) BY <1>1, <1>2
<1>9. \A b \in 0..(w - 1) : b \notin DOMAIN more => b \in DOMAIN dk /\ dk[b] = Cut(h, b + 1)
  <2>1. ASSUME NEW b \in 0..(w - 1), b \notin DOMAIN more PROVE b \in 0..(tk - 1) /\ b \notin DOMAIN ca BY <1>1, <1>2, <2>1
  <2> QED BY <1>1, <2>1
<1>10. mt \in DOMAIN dk => Cut(dk[mt], mt) # Cut(h, mt) \/ (mt < w /\ dk[mt] = Cut(h, mt + 1)) BY <1>1 DEF BlocksOK
<1>11. fl <= w BY <1>1
<1> QED BY <1>6, <1>7, <1>8, <1>9, <1>10, <1>11 DEF BlocksOK

\* A block of the journal can be written to the device.
LEMMA TakenStored ==
  ASSUME NEW mt \in Nat, NEW h \in Histories, NEW l, NEW df, NEW logs, l \in logs, ReadOK(mt, h.recs, l, df),
         NEW b \in Nat, mt <= b, Start(b + 1) <= Len(h.recs)
  PROVE  StoredOK(mt, Cut(h, b + 1), b, logs, df)
<1>1. PICK p \in Nat : p = b + 1 OBVIOUS
<1>2. PICK n \in Nat, e \in Nat : n = Start(p) /\ e = Len(h.recs)
  <2>1. Start(p) \in Nat BY StartFacts
  <2> QED BY <2>1 DEF Histories
<1>3. PICK g \in Histories : g = Cut(h, p) BY <1>1, CutFacts
<1>4. /\ Len(g.recs) = n /\ (\A i \in 1..n : g.recs[i] = h.recs[i]) /\ g.resets = {r \in h.resets : r < p}
  BY <1>1, <1>2, <1>3, CutFacts
<1>5. PICK s \in Seq(Records), t \in Seq(Records) : s = g.recs /\ t = h.recs BY DEF Histories
<1>6. n <= e /\ Len(s) = n /\ Len(t) = e /\ \A i \in 1..n : s[i] = t[i] BY <1>1, <1>2, <1>4, <1>5
<1>7. Acc(s, n) = Acc(t, n) BY <1>6, LoopLocal
<1>8. Start(mt) + 2 <= n
  <2>1. mt < p BY <1>1
  <2>2. Start(mt) + BlockSize <= Start(p) /\ Start(mt) \in Nat /\ BlockSize \in Nat /\ BlockSize >= 2
    BY <2>1, StartFacts, StartMono
  <2> QED BY <1>2, <2>2
<1>9. MatchOK(mt, Acc(t, n), n, l, df)
  <2>1. n \in 0..e BY <1>6
  <2> QED BY <1>2, <1>5, <1>8, <2>1 DEF ReadOK
<1>10. Forward(s, Start(mt) + 2)
  <2>1. Forward(t, Start(mt) + 2) BY <1>5 DEF ReadOK
  <2> QED BY <1>6, <2>1 DEF Forward
<1>11. \A r \in g.resets : r <= b
  <2>1. h.resets \in SUBSET Nat BY DEF Histories
  <2> QED BY <1>1, <1>4, <2>1
<1>12. Distinct(Acc(s, n)) /\ Known(mt, Acc(s, n), df) /\ Begins(Acc(s, n).transactions, l)
  BY <1>7, <1>9 DEF MatchOK, Match
<1>13. StoredOK(mt, g, b, logs, df) BY <1>1, <1>2, <1>4, <1>5, <1>10, <1>11, <1>12 DEF StoredOK
<1> QED BY <1>1, <1>3, <1>13

\* The blocks that the flush task takes are whole and not yet written.
LEMMA FlushTaskInv ==
  ASSUME NEW mt, NEW c, Inv(mt, c), FlushTask
  PROVE  Inv(mt, c)'
<1>1. /\ TypeInv /\ BlocksInv(mt) /\ StoredInv(mt) /\ ReadInv(mt) /\ MountInv(mt, c) /\ ResetInv(mt, c)
      /\ LogInv /\ SyncInv /\ DataInv /\ CommitInv
  BY DEF Inv
<1>2. /\ UNCHANGED <<disk, data, dcached, journal, flushed, device_flushed, needs_did_flush, reset_version, discard,
                     terminate, deallocs, commit, sync, log, durable, past, txs, syncs, crashes>>
      /\ flusher' \in {"parked", "writing"}
  BY DEF FlushTask, inner, promise, counters
<1>3. TypeInv' BY <1>1, <1>2 DEF TypeInv
<1>4. CASE UNCHANGED <<cached, taken>>
  BY <1>1, <1>2, <1>3, <1>4, FrameBlocks, FrameStored, FrameRead, FrameReset, FrameLog, FrameSync, FrameData, FrameCommit DEF Inv
<1>5. CASE ~UNCHANGED <<cached, taken>>
  <2>1. PICK w : /\ w = Whole(Offset) /\ w > taken /\ taken' = w
                 /\ cached' = [b \in DOMAIN cached \cup (taken..(w - 1)) |->
                                 IF b >= taken THEN Cut(journal, b + 1) ELSE cached[b]]
    BY <1>5 DEF FlushTask
  <2>2. /\ BlocksOK(mt, journal, taken, flushed, device_flushed, disk, cached) /\ journal \in Histories
        /\ mt \in Nat /\ taken \in Nat /\ flushed \in Nat /\ mt <= taken /\ flushed <= taken
    BY <1>1 DEF BlocksInv, BlocksOK
  <2>3. Offset \in Nat BY <2>2 DEF Offset, Histories
  <2>4. w \in Nat /\ Start(w) <= Len(journal.recs) /\ taken < w BY <2>1, <2>2, <2>3, WholeFacts DEF Offset
  <2>5. PICK more : more = cached' /\ Added(journal, taken, w, cached, more) BY <2>1 DEF Added
  <2>6. BlocksOK(mt, journal, w, flushed, device_flushed, disk, more) BY <2>2, <2>4, <2>5, TakeBlocks
  <2>7. DOMAIN cached \subseteq mt..(taken - 1) BY <2>2 DEF BlocksOK
  <2>8. ASSUME NEW b \in DOMAIN more, b \notin taken..(w - 1) PROVE b \in DOMAIN cached /\ more[b] = cached[b]
    <3>1. b \in DOMAIN cached BY <2>5, <2>8 DEF Added
    <3>2. ~(b >= taken) BY <2>2, <2>7, <3>1
    <3> QED BY <2>5, <3>1, <3>2 DEF Added
  <2>9. ASSUME NEW b \in DOMAIN more, b \in taken..(w - 1) PROVE more[b] = Cut(journal, b + 1)
    <3>1. b >= taken BY <2>2, <2>4, <2>9
    <3> QED BY <2>5, <3>1 DEF Added
  <2>10. BlocksInv(mt)' BY <1>2, <2>1, <2>5, <2>6 DEF BlocksInv
  <2>11. ASSUME NEW b \in taken..(w - 1) PROVE StoredOK(mt, Cut(journal, b + 1), b, past \cup {log}, device_flushed)
    <3>1. b \in Nat /\ mt <= b BY <2>2, <2>4
    <3>2. Start(b + 1) <= Len(journal.recs)
      <4>1. PICK p \in Nat : p = b + 1 /\ p <= w BY <2>4, <3>1
      <4>2. Start(p) <= Start(w) /\ Start(p) \in Nat /\ Start(w) \in Nat BY <2>4, <4>1, StartFacts, StartMono
      <4> QED BY <2>3, <2>4, <4>1, <4>2 DEF Offset
    <3>3. log \in past \cup {log} OBVIOUS
    <3> QED BY <1>1, <2>2, <3>1, <3>2, <3>3, TakenStored DEF ReadInv
  <2>12. StoresOK(mt, disk, more, past \cup {log}, device_flushed)
    BY <1>1, <2>11, <2>8, <2>9 DEF StoredInv, StoresOK
  <2>13. StoredInv(mt)' BY <1>2, <2>5, <2>12 DEF StoredInv
  <2>14. ASSUME sync.stage = "flushed", NEW b \in DOMAIN cached' PROVE sync.offset <= Start(b)
    <3>1. CASE b \in DOMAIN cached BY <1>1, <2>14, <3>1 DEF SyncInv
    <3>2. CASE b \in taken..(w - 1)
      <4>1. b \in Nat /\ flushed <= b BY <2>2, <3>2
      <4>2. Start(flushed) <= Start(b) /\ Start(flushed) \in Nat /\ Start(b) \in Nat BY <2>2, <4>1, StartFacts, StartMono
      <4>3. sync.offset <= Start(flushed) /\ sync.offset \in Nat BY <1>1, <2>14 DEF SyncInv
      <4> QED BY <4>2, <4>3
    <3> QED BY <2>5, <2>8, <3>1, <3>2
  <2>15. SyncInv' BY <1>1, <1>2, <2>14 DEF SyncInv, Offset
  <2> QED BY <1>1, <1>2, <1>3, <2>10, <2>13, <2>15, FrameRead, FrameReset, FrameLog, FrameData, FrameCommit DEF Inv
<1> QED BY <1>4, <1>5

\* The cache without part B of it.
Rest(ca, B, rest) == DOMAIN rest = DOMAIN ca \ B /\ \A b \in DOMAIN rest : rest[b] = ca[b]

\* The blocks after a flush of the device.
LEMMA FlushBlocks ==
  ASSUME NEW mt, NEW h, NEW tk, NEW fl, NEW df, NEW dk, NEW ca, NEW logs, NEW D,
         BlocksOK(mt, h, tk, fl, df, dk, ca), StoresOK(mt, dk, ca, logs, df),
         NEW B \in SUBSET DOMAIN ca, D = Over(dk, ca, B),
         NEW rest, Rest(ca, B, rest)
  PROVE  BlocksOK(mt, h, tk, fl, df, D, rest) /\ StoresOK(mt, D, rest, logs, df)
<1>1. /\ mt \in Nat /\ tk \in Nat /\ DOMAIN ca \subseteq mt..(tk - 1) /\ 1 <= mt
      /\ \A b \in DOMAIN ca : ca[b] = Cut(h, b + 1) /\ df <= Start(b)
      /\ mt \in DOMAIN dk => Cut(dk[mt], mt) # Cut(h, mt) \/ (mt < tk /\ dk[mt] = Cut(h, mt + 1))
  BY DEF BlocksOK
<1>2. /\ Blocks(D)
      /\ \A b \in DOMAIN D : StoredOK(mt, D[b], b, logs, df)
      /\ \A b \in 0..(tk - 1) : b \notin DOMAIN ca \/ b \in B => b \in DOMAIN D /\ D[b] = Cut(h, b + 1)
      /\ \A b \in DOMAIN D : b \notin B => b \in DOMAIN dk /\ D[b] = dk[b]
  BY Survivors
<1>3. \A b \in 0..(tk - 1) : b \notin DOMAIN rest => b \in DOMAIN D /\ D[b] = Cut(h, b + 1) BY <1>2 DEF Rest
<1>4. \A b \in DOMAIN rest : rest[b] = Cut(h, b + 1) /\ df <= Start(b) BY <1>1 DEF Rest
<1>5. mt \in DOMAIN D => Cut(D[mt], mt) # Cut(h, mt) \/ (mt < tk /\ D[mt] = Cut(h, mt + 1))
  <2>1. CASE mt \in B
    <3>1. mt \in 0..(tk - 1) /\ mt < tk BY <1>1, <2>1
    <3> QED BY <1>2, <2>1, <3>1
  <2>2. CASE mt \notin B BY <1>1, <1>2, <2>2
  <2> QED BY <2>1, <2>2
<1>6. IsFiniteSet(DOMAIN D) /\ DOMAIN D \subseteq Nat /\ DOMAIN rest \subseteq mt..(tk - 1) BY <1>1, <1>2 DEF Blocks, Rest
<1>7. BlocksOK(mt, h, tk, fl, df, D, rest) BY <1>3, <1>4, <1>5, <1>6 DEF BlocksOK
<1>8. \A b \in DOMAIN rest : StoredOK(mt, rest[b], b, logs, df) BY DEF StoresOK, Rest
<1> QED BY <1>2, <1>7, <1>8 DEF StoresOK

\* A flush of the device leaves what was written as it was read before.
LEMMA FlushDeviceInv ==
  ASSUME NEW mt, NEW c, Inv(mt, c), FlushDevice
  PROVE  Inv(mt, c)'
<1>1. /\ TypeInv /\ BlocksInv(mt) /\ StoredInv(mt) /\ ReadInv(mt) /\ MountInv(mt, c) /\ ResetInv(mt, c)
      /\ LogInv /\ SyncInv /\ DataInv /\ CommitInv
  BY DEF Inv
<1>2. /\ UNCHANGED <<journal, taken, flushed, device_flushed, needs_did_flush, reset_version, discard, terminate,
                     deallocs, commit, flusher, log, durable, past, txs, syncs, crashes>>
      /\ sync.stage = "flush" /\ device_flushed < sync.offset
  BY DEF FlushDevice, NeedsFlush, writer, inner, promise, counters
<1>3. CASE sync' = NoSync /\ UNCHANGED device
  <2>1. UNCHANGED <<disk, cached, data, dcached>> BY <1>3 DEF device
  <2>2. /\ sync' \in [stage : {"idle", "wait", "parked", "flush", "flushed", "free"}, offset : Nat, covers : Nat]
        /\ SyncInv' /\ DataInv'
    BY <1>2, <1>3, <2>1, NoSyncInv
  <2>3. TypeInv' BY <1>1, <1>2, <2>1, <2>2 DEF TypeInv
  <2> QED BY <1>1, <1>2, <2>1, <2>2, <2>3, FrameBlocks, FrameStored, FrameRead, FrameReset, FrameLog, FrameCommit DEF Inv
<1>4. CASE ~(sync' = NoSync /\ UNCHANGED device)
  <2> DEFINE B == {b \in DOMAIN cached : b < flushed}
  <2>1. /\ disk' = Over(disk, cached, B)
        /\ cached' = [b \in DOMAIN cached \ B |-> cached[b]]
        /\ data' = Over(data, dcached, DOMAIN dcached) /\ dcached' = <<>>
        /\ sync' = [sync EXCEPT !.stage = "flushed"]
    BY <1>4 DEF FlushDevice
  <2>2. /\ flushed \in Nat /\ mt \in Nat /\ taken \in Nat /\ DOMAIN cached \subseteq mt..(taken - 1)
    BY <1>1 DEF BlocksInv, BlocksOK
  <2>3. B \in SUBSET DOMAIN cached /\ \A b \in DOMAIN cached \ B : b \in Nat /\ flushed <= b BY <2>2
  <2> HIDE DEF B
  <2>4. PICK D, rest : D = disk' /\ rest = cached' OBVIOUS
  <2>5. D = Over(disk, cached, B) /\ Rest(cached, B, rest) BY <2>1, <2>4 DEF Rest
  <2>6. PICK logs : logs = past \cup {log} OBVIOUS
  <2>7. /\ BlocksOK(mt, journal, taken, flushed, device_flushed, disk, cached)
         /\ StoresOK(mt, disk, cached, logs, device_flushed)
    BY <1>1, <2>6 DEF BlocksInv, StoredInv
  <2>8. /\ BlocksOK(mt, journal, taken, flushed, device_flushed, D, rest)
        /\ StoresOK(mt, D, rest, logs, device_flushed)
    BY <2>3, <2>5, <2>7, FlushBlocks
  <2>9. BlocksInv(mt)' /\ StoredInv(mt)' BY <1>2, <2>4, <2>8, <2>6 DEF BlocksInv, StoredInv
  <2>10. sync \in [stage : {"idle", "wait", "parked", "flush", "flushed", "free"}, offset : Nat, covers : Nat]
    BY <1>1 DEF TypeInv
  <2>11. sync'.stage = "flushed" /\ sync'.offset = sync.offset /\ sync'.covers = sync.covers BY <2>1, <2>10
  <2>12. sync' \in [stage : {"idle", "wait", "parked", "flush", "flushed", "free"}, offset : Nat, covers : Nat]
    BY <2>1, <2>10
  <2>13. ASSUME NEW b \in DOMAIN cached' PROVE sync.offset <= Start(b)
    <3>1. b \in Nat /\ flushed <= b BY <2>3, <2>4, <2>5 DEF Rest
    <3>2. Start(flushed) <= Start(b) /\ Start(flushed) \in Nat /\ Start(b) \in Nat BY <2>2, <3>1, StartFacts, StartMono
    <3>3. sync.offset <= Start(flushed) /\ sync.offset \in Nat BY <1>1, <1>2 DEF SyncInv
    <3> QED BY <3>2, <3>3
  <2>14. SyncInv' BY <1>1, <1>2, <2>11, <2>13 DEF SyncInv, Offset
  <2>15. DOMAIN dcached' = {} BY <2>1
  <2>16. /\ data \in [Ranges -> NotWritten..MaxTxs] /\ DOMAIN dcached \subseteq Ranges
         /\ \A r \in DOMAIN dcached : dcached[r] \in 1..MaxTxs
    BY <1>1 DEF TypeInv
  <2>17. data' = [r \in Ranges |-> IF r \in DOMAIN dcached THEN dcached[r] ELSE data[r]]
    <3>1. DOMAIN data \cup DOMAIN dcached = Ranges BY <2>16
    <3> QED BY <2>1, <3>1 DEF Over
  <2>18. \A r \in Ranges : data'[r] = Held(r) BY <2>17 DEF Held
  <2>19. TypeInv'
    <3>1. 1..MaxTxs \subseteq NotWritten..MaxTxs BY JournalAssumption DEF NotWritten
    <3>2. data' \in [Ranges -> NotWritten..MaxTxs] BY <2>16, <2>17, <3>1
    <3>3. DOMAIN dcached' \subseteq Ranges /\ \A r \in DOMAIN dcached' : dcached'[r] \in 1..MaxTxs BY <2>15
    <3> QED BY <1>1, <1>2, <2>12, <3>2, <3>3 DEF TypeInv
  <2>20. DataInv'
    <3>1. ASSUME NEW i \in 1..Len(log), Live(i, device_flushed)
          PROVE  Held(log[i].new)' = log[i].num /\ log[i].new \notin DOMAIN dcached'
      <4>1. Held(log[i].new) = log[i].num BY <1>1, <3>1 DEF DataInv
      <4>2. log[i].new \in Ranges BY <1>1, LogFacts
      <4>3. Held(log[i].new)' = data'[log[i].new] BY <1>2, <2>15 DEF Held
      <4> QED BY <2>15, <2>18, <4>1, <4>2, <4>3
    <3>2. \A i \in 1..Len(log) : device_flushed <= log[i].offset =>
            [offset |-> log[i].offset, range |-> log[i].old] \in deallocs
      BY <1>1 DEF DataInv
    <3> QED BY <1>2, <2>15, <3>1, <3>2 DEF DataInv, Live
  <2>21. CommitInv'
    <3>1. commit.tx.new \in Ranges BY <1>1 DEF TypeInv
    <3>2. Held(commit.tx.new)' = Held(commit.tx.new) BY <1>2, <2>15, <2>18, <3>1 DEF Held
    <3>3. Current' = Current BY <1>2 DEF Current, Last
    <3> QED BY <1>1, <1>2, <3>2, <3>3 DEF CommitInv, Offset
  <2> QED BY <1>1, <1>2, <2>9, <2>14, <2>19, <2>20, <2>21, FrameRead, FrameReset, FrameLog DEF Inv
<1> QED BY <1>3, <1>4

\* What was known to be flushed stays so.
LEMMA KnownMono ==
  ASSUME NEW mt \in Nat, NEW a \in Accs, NEW df \in Nat, NEW df2 \in Nat, df <= df2, Known(mt, a, df)
  PROVE  Known(mt, a, df2)
<1>1. PICK f \in Nat : f = a.flushed BY DEF Accs
<1>2. PICK m \in Nat : m = Start(mt) BY StartFacts
<1>3. f <= df \/ f <= m + 1 BY <1>1, <1>2 DEF Known
<1>4. f <= df2 \/ f <= m + 1 BY <1>3
<1> QED BY <1>1, <1>2, <1>4 DEF Known

\* What would be read from the journal stays so when more is flushed.
LEMMA ReadMono ==
  ASSUME NEW mt \in Nat, NEW s \in Seq(Records), NEW l, NEW df \in Nat, NEW df2 \in Nat, df <= df2, ReadOK(mt, s, l, df)
  PROVE  ReadOK(mt, s, l, df2)
<1>1. \A n \in 0..Len(s) : MatchOK(mt, Acc(s, n), n, l, df) => MatchOK(mt, Acc(s, n), n, l, df2)
  <2>1. \A n \in 0..Len(s) : Acc(s, n) \in Accs BY Loop
  <2> QED BY <2>1, KnownMono DEF MatchOK
<1>2. Len(s) \in 0..Len(s) OBVIOUS
<1> QED BY <1>1, <1>2 DEF ReadOK

\* The offset flushed moves up: fewer cuts of the log remain, and their data is safe.
LEMMA DidFlushInv ==
  ASSUME NEW mt, NEW c, Inv(mt, c), DidFlush
  PROVE  Inv(mt, c)'
<1>1. /\ TypeInv /\ BlocksInv(mt) /\ StoredInv(mt) /\ ReadInv(mt) /\ MountInv(mt, c) /\ ResetInv(mt, c)
      /\ LogInv /\ SyncInv /\ DataInv /\ CommitInv
  BY DEF Inv
<1>2. /\ UNCHANGED <<disk, cached, data, dcached, journal, taken, flushed, reset_version, discard, terminate, deallocs,
                     commit, flusher, log, durable, past, txs, syncs, crashes>>
      /\ sync.stage = "flushed" /\ device_flushed' = sync.offset /\ needs_did_flush' = TRUE
      /\ sync' = [sync EXCEPT !.stage = "free"]
  BY DEF DidFlush, device, writer, promise, counters
<1>3. PICK df \in Nat, df2 \in Nat : df = device_flushed /\ df2 = sync.offset
  BY <1>1 DEF SyncInv, BlocksInv, BlocksOK
<1>4. /\ df < df2 /\ df2 <= Start(flushed) /\ df2 <= Offset /\ (\A b \in DOMAIN cached : df2 <= Start(b))
      /\ sync.covers \in 0..Len(log)
      /\ \A i \in 1..sync.covers : log[i].offset + 2 <= df2
      /\ \A i \in (sync.covers + 1)..Len(log) : df2 <= log[i].offset
  BY <1>1, <1>2, <1>3 DEF SyncInv
<1>5. df <= df2 /\ mt \in Nat /\ Start(mt) \in Nat /\ Start(mt) <= df /\ journal \in Histories /\ flushed \in Nat
  <2>1. mt \in Nat /\ Start(mt) <= df /\ journal \in Histories /\ flushed \in Nat BY <1>1, <1>3 DEF BlocksInv, BlocksOK
  <2>2. Start(mt) \in Nat BY <2>1, StartFacts
  <2>3. df < df2 => df <= df2 OBVIOUS
  <2> QED BY <1>4, <2>1, <2>2, <2>3
<1>6. PICK s \in Seq(Records), e \in Nat : s = journal.recs /\ e = Len(s) /\ e = Offset BY <1>5 DEF Histories, Offset
<1>7. \A i \in 1..Len(log) : log[i].offset \in Nat BY <1>1, LogFacts
<1>8. BlocksInv(mt)'
  <2>1. Start(mt) <= df2 BY <1>4, <1>5
  <2>2. BlocksOK(mt, journal, taken, flushed, df2, disk, cached) BY <1>1, <1>4, <2>1 DEF BlocksInv, BlocksOK
  <2> QED BY <1>2, <1>3, <2>2 DEF BlocksInv
<1>9. StoredInv(mt)'
  <2>1. PICK logs : logs = past \cup {log} OBVIOUS
  <2>2. DOMAIN disk \subseteq Nat /\ DOMAIN cached \subseteq Nat BY <1>1, <1>5 DEF BlocksInv, BlocksOK
  <2>3. StoresOK(mt, disk, cached, logs, df) BY <1>1, <1>3, <2>1 DEF StoredInv
  <2>4. mt <= mt /\ logs \subseteq logs BY <1>5
  <2>5. \A b \in DOMAIN disk : StoredOK(mt, disk[b], b, logs, df2) BY <1>5, <2>2, <2>3, <2>4, StoredMono DEF StoresOK
  <2>6. \A b \in DOMAIN cached : StoredOK(mt, cached[b], b, logs, df2) BY <1>5, <2>2, <2>3, <2>4, StoredMono DEF StoresOK
  <2>7. StoresOK(mt, disk, cached, logs, df2) BY <2>5, <2>6 DEF StoresOK
  <2> QED BY <1>2, <1>3, <2>1, <2>7 DEF StoredInv
<1>10. ReadInv(mt)'
  <2>1. ReadOK(mt, s, log, df) BY <1>1, <1>3, <1>6 DEF ReadInv
  <2>2. ReadOK(mt, s, log, df2) BY <1>5, <2>1, ReadMono
  <2> QED BY <1>2, <1>3, <1>6, <2>2 DEF ReadInv
<1>11. MountInv(mt, c)'
  <2>1. Start(mt) \in 0..Len(s)
    <3>1. Start(mt) <= e BY <1>4, <1>5, <1>6
    <3> QED BY <1>5, <1>6, <3>1
  <2>2. PICK a \in Accs : a = Acc(s, Start(mt)) BY <2>1, Loop
  <2>3. MountOK(mt, c, a, log, df) BY <1>1, <1>3, <1>6, <2>2 DEF MountInv
  <2>4. Known(mt, a, df2) BY <1>5, <2>3, KnownMono DEF MountOK
  <2>5. MountOK(mt, c, a, log, df2) BY <2>3, <2>4 DEF MountOK
  <2> QED BY <1>2, <1>3, <1>6, <2>2, <2>5 DEF MountInv
<1>12. LogInv'
  <2>1. ASSUME NEW i \in 1..Len(log), log[i].offset < df2 PROVE log[i].offset + 2 <= df2
    <3>1. Len(log) \in Nat BY <1>1, LogFacts
    <3>2. i \in 1..sync.covers \/ i \in (sync.covers + 1)..Len(log) BY <1>4, <3>1
    <3>3. CASE i \in 1..sync.covers BY <1>4, <3>3
    <3>4. CASE i \in (sync.covers + 1)..Len(log) BY <1>4, <1>7, <2>1, <3>4
    <3> QED BY <3>2, <3>3, <3>4
  <2>2. \A i \in 1..durable : log[i].offset < df2
    <3>1. durable \in 1..Len(log) /\ \A i \in 1..durable : log[i].offset < df BY <1>1, <1>3 DEF LogInv
    <3>2. \A i \in 1..durable : i \in 1..Len(log) BY <3>1, <1>1, LogFacts
    <3> QED BY <1>4, <1>7, <3>1, <3>2
  <2> QED BY <1>1, <1>2, <1>3, <2>1, <2>2 DEF LogInv, Offset
<1>13. sync \in [stage : {"idle", "wait", "parked", "flush", "flushed", "free"}, offset : Nat, covers : Nat]
  BY <1>1 DEF TypeInv
<1>14. sync'.stage = "free" /\ sync'.offset = df2 /\ sync'.covers = sync.covers BY <1>2, <1>3, <1>13
<1>15. sync' \in [stage : {"idle", "wait", "parked", "flush", "flushed", "free"}, offset : Nat, covers : Nat] BY <1>2, <1>13
<1>16. SyncInv' BY <1>1, <1>2, <1>3, <1>4, <1>14 DEF SyncInv, Offset
<1>17. TypeInv'
  <2>1. discard \in 0..df2
    <3>1. discard \in 0..df BY <1>1, <1>3 DEF TypeInv
    <3> QED BY <1>5, <3>1
  <2> QED BY <1>1, <1>2, <1>3, <1>15, <2>1 DEF TypeInv
<1>18. DataInv'
  <2>1. ASSUME NEW i \in 1..Len(log), Live(i, df2)
        PROVE  Held(log[i].new) = log[i].num /\ (log[i].offset < df2 => log[i].new \notin DOMAIN dcached)
    <3>1. log[i].offset < df2 => log[i].new \notin DOMAIN dcached BY <1>1, <1>2, <1>3, <2>1 DEF DataInv
    <3>2. Live(i, df)
      <4>1. i < Len(log) => i + 1 \in 1..Len(log) BY <1>1, LogFacts
      <4>2. i < Len(log) => log[i + 1].offset \in Nat BY <1>7, <4>1
      <4> QED BY <1>5, <2>1, <4>2 DEF Live
    <3>3. Held(log[i].new) = log[i].num BY <1>1, <1>3, <3>2 DEF DataInv
    <3> QED BY <3>1, <3>3
  <2>2. ASSUME NEW i \in 1..Len(log), df2 <= log[i].offset
        PROVE  [offset |-> log[i].offset, range |-> log[i].old] \in deallocs
    <3>1. df <= log[i].offset BY <1>5, <1>7, <2>2
    <3> QED BY <1>1, <1>3, <3>1 DEF DataInv
  <2> QED BY <1>2, <1>3, <1>14, <2>1, <2>2 DEF DataInv, Live, Held
<1>19. ~reset_version
  <2>1. reset_version => e = Start(mt) BY <1>1, <1>6 DEF ResetInv, ResetOK
  <2> QED BY <1>4, <1>5, <1>6, <2>1
<1>20. CommitInv'
  <2>1. commit.stage = "written" => \A i \in 1..Len(log) : df2 <= log[i].offset => commit.tx.new # log[i].old
    BY <1>1, <1>3, <1>5, <1>7 DEF CommitInv
  <2>2. Current' = Current BY <1>2 DEF Current, Last
  <2> QED BY <1>1, <1>2, <1>3, <1>19, <2>1, <2>2 DEF CommitInv, Held, Offset
<1> QED BY <1>1, <1>2, <1>8, <1>9, <1>10, <1>11, <1>12, <1>16, <1>17, <1>18, <1>20, FrameReset DEF Inv
-----------------------------------------------------------------------------
(***************************************************************************)
(* The actions that write to the journal.                                  *)
(***************************************************************************)
\* g is h with the records s added.
Grown(h, g, s) == g.recs = h.recs \o s /\ g.resets = h.resets

\* Records added to the journal change no block that was whole.
LEMMA CutGrown ==
  ASSUME NEW h \in Histories, NEW g \in Histories, NEW s \in Seq(Records), Grown(h, g, s),
         NEW n \in Nat, Start(n) <= Len(h.recs)
  PROVE  Cut(g, n) = Cut(h, n)
<1>1. PICK t \in Seq(Records), u \in Seq(Records), e \in Nat : t = h.recs /\ u = g.recs /\ e = Start(n)
  <2>1. Start(n) \in Nat BY StartFacts
  <2> QED BY <2>1 DEF Histories
<1>2. u = t \o s /\ e <= Len(t) BY <1>1 DEF Grown
<1>3. Len(u) = Len(t) + Len(s) /\ Len(t) \in Nat /\ Len(s) \in Nat /\ \A i \in 1..Len(t) : u[i] = t[i] BY <1>2
<1>4. e <= Len(u) /\ \A i \in 1..e : i \in 1..Len(t) BY <1>2, <1>3
<1>5. /\ Cut(g, n) \in Histories /\ Len(Cut(g, n).recs) = e
      /\ \A i \in 1..e : Cut(g, n).recs[i] = u[i]
      /\ Cut(g, n).resets = {b \in g.resets : b < n}
  BY <1>1, <1>4, CutFacts
<1>6. /\ Cut(h, n) \in Histories /\ Len(Cut(h, n).recs) = e
      /\ \A i \in 1..e : Cut(h, n).recs[i] = t[i]
      /\ Cut(h, n).resets = {b \in h.resets : b < n}
  BY <1>1, <1>2, CutFacts
<1>7. \A i \in 1..e : Cut(g, n).recs[i] = Cut(h, n).recs[i] BY <1>3, <1>4, <1>5, <1>6
<1>8. Cut(g, n).resets = Cut(h, n).resets BY <1>5, <1>6 DEF Grown
<1> QED BY <1>5, <1>6, <1>7, <1>8, HistoryEqual

\* Records added to the journal leave its blocks where they should be.
LEMMA BlocksGrown ==
  ASSUME NEW mt, NEW h \in Histories, NEW g \in Histories, NEW s \in Seq(Records), Grown(h, g, s),
         NEW tk, NEW fl, NEW df, NEW dk, NEW ca, BlocksOK(mt, h, tk, fl, df, dk, ca)
  PROVE  BlocksOK(mt, g, tk, fl, df, dk, ca)
<1>1. /\ mt \in Nat /\ tk \in Nat /\ fl \in Nat /\ mt <= fl /\ fl <= tk /\ 1 <= mt /\ Start(tk) <= Len(h.recs)
      /\ DOMAIN ca \subseteq mt..(tk - 1)
      /\ \A b \in 0..(tk - 1) : b \notin DOMAIN ca => b \in DOMAIN dk /\ dk[b] = Cut(h, b + 1)
      /\ \A b \in DOMAIN ca : ca[b] = Cut(h, b + 1) /\ df <= Start(b)
      /\ mt \in DOMAIN dk => Cut(dk[mt], mt) # Cut(h, mt) \/ (mt < tk /\ dk[mt] = Cut(h, mt + 1))
  BY DEF BlocksOK
<1>2. PICK t \in Seq(Records), u \in Seq(Records) : t = h.recs /\ u = g.recs BY DEF Histories
<1>3. Len(u) = Len(t) + Len(s) /\ Len(t) \in Nat /\ Len(s) \in Nat
  <2>1. u = t \o s BY <1>2 DEF Grown
  <2> QED BY <2>1
<1>4. ASSUME NEW n \in Nat, n <= tk PROVE Cut(g, n) = Cut(h, n)
  <2>1. Start(n) <= Start(tk) /\ Start(n) \in Nat /\ Start(tk) \in Nat BY <1>1, <1>4, StartFacts, StartMono
  <2>2. Start(n) <= Len(h.recs) BY <1>1, <1>2, <1>3, <2>1
  <2> QED BY <2>2, CutGrown
<1>5. Start(tk) <= Len(g.recs)
  <2>1. Start(tk) \in Nat BY <1>1, StartFacts
  <2> QED BY <1>1, <1>2, <1>3, <2>1
<1>6. \A b \in 0..(tk - 1) : b + 1 \in Nat /\ b + 1 <= tk /\ Cut(g, b + 1) = Cut(h, b + 1)
  <2>1. \A b \in 0..(tk - 1) : b + 1 \in Nat /\ b + 1 <= tk BY <1>1
  <2> QED BY <1>4, <2>1
<1>7. \A b \in DOMAIN ca : b \in 0..(tk - 1) BY <1>1
<1>8. Cut(g, mt) = Cut(h, mt) BY <1>1, <1>4
<1>9. mt < tk => Cut(g, mt + 1) = Cut(h, mt + 1)
  <2>1. mt < tk => mt \in 0..(tk - 1) BY <1>1
  <2> QED BY <1>6, <2>1
<1>10. \A b \in 0..(tk - 1) : b \notin DOMAIN ca => b \in DOMAIN dk /\ dk[b] = Cut(g, b + 1) BY <1>1, <1>6
<1>11. \A b \in DOMAIN ca : ca[b] = Cut(g, b + 1) /\ df <= Start(b) BY <1>1, <1>6, <1>7
<1>12. mt \in DOMAIN dk => Cut(dk[mt], mt) # Cut(g, mt) \/ (mt < tk /\ dk[mt] = Cut(g, mt + 1)) BY <1>1, <1>8, <1>9
<1> QED BY <1>5, <1>10, <1>11, <1>12 DEF BlocksOK

\* Records are added after which what is read matches the log l2.
LEMMA ReadGrown ==
  ASSUME NEW mt \in Nat, NEW t \in Seq(Records), NEW s \in Seq(Records), NEW u \in Seq(Records), u = t \o s, s # <<>>,
         NEW l, NEW l2, NEW df, ReadOK(mt, t, l, df), Forward(u, Start(mt) + 2),
         \A n \in 0..Len(t) : MatchOK(mt, Acc(t, n), n, l, df) => MatchOK(mt, Acc(t, n), n, l2, df),
         \A i \in 1..Len(s) : Start(mt) + 2 <= Len(t) + i \/ i = Len(s) =>
           MatchOK(mt, Acc(u, Len(t) + i), Len(t) + i, l2, df)
  PROVE  ReadOK(mt, u, l2, df)
<1>1. PICK e \in Nat, p \in Nat : e = Len(t) /\ p = Len(s) /\ Len(u) = e + p /\ p # 0
  <2>1. Len(u) = Len(t) + Len(s) /\ Len(t) \in Nat /\ Len(s) \in Nat BY LoopAppend
  <2> QED BY <2>1
<1>2. \A n \in 0..e : Acc(u, n) = Acc(t, n) BY <1>1, LoopAppend
<1>3. PICK m \in Nat : m = Start(mt) BY StartFacts
<1>4. ASSUME NEW n \in 0..(e + p), m + 2 <= n \/ n = e + p PROVE MatchOK(mt, Acc(u, n), n, l2, df)
  <2>1. CASE n <= e
    <3>1. n \in 0..e /\ n # e + p /\ m + 2 <= n BY <1>1, <1>4, <2>1
    <3>2. MatchOK(mt, Acc(t, n), n, l, df) BY <1>1, <1>3, <3>1 DEF ReadOK
    <3>3. MatchOK(mt, Acc(t, n), n, l2, df) BY <1>1, <3>1, <3>2
    <3> QED BY <1>2, <3>1, <3>3
  <2>2. CASE ~(n <= e)
    <3>1. PICK i \in 1..p : n = e + i
      <4>1. n - e \in 1..p /\ n = e + (n - e) BY <1>1, <1>4, <2>2
      <4> QED BY <4>1
    <3>2. m + 2 <= e + i \/ i = p BY <1>1, <1>4, <3>1
    <3>3. MatchOK(mt, Acc(u, e + i), e + i, l2, df) BY <1>1, <1>3, <3>2
    <3> QED BY <3>1, <3>3
  <2> QED BY <2>1, <2>2
<1>5. \A n \in 0..Len(u) : Start(mt) + 2 <= n => MatchOK(mt, Acc(u, n), n, l2, df) BY <1>1, <1>3, <1>4
<1>6. MatchOK(mt, Acc(u, Len(u)), Len(u), l2, df)
  <2>1. e + p \in 0..(e + p) BY <1>1
  <2> QED BY <1>1, <1>4, <2>1
<1> QED BY <1>5, <1>6 DEF ReadOK

\* At the end of the journal all that was applied has been read.
LEMMA Closed ==
  ASSUME NEW l \in Seq(Entries), NEW n \in Nat, \A i \in 1..Len(l) : l[i].offset + 2 <= n, NEW a \in Accs, Match(a, n, l)
  PROVE  Len(a.transactions) = Len(l) /\ a.current = <<>> /\ \A i \in 1..Len(l) : a.transactions[i] = l[i]
<1>1. PICK T \in Seq(Entries), p \in Nat, q \in Nat : T = a.transactions /\ p = Len(T) /\ q = Len(l) BY DEF Accs
<1>2. /\ p <= q /\ (\A i \in 1..p : T[i] = l[i])
      /\ \/ a.current = <<>> /\ \A i \in (p + 1)..q : n <= l[i].offset
         \/ p < q /\ l[p + 1].offset = n - 1
  BY <1>1 DEF Match, Begins
<1>3. \A i \in 1..q : l[i].offset \in Nat /\ l[i].offset + 2 <= n BY <1>1, EntryFacts
<1>4. ~(p < q)
  <2>1. SUFFICES ASSUME p < q PROVE FALSE OBVIOUS
  <2>2. p + 1 \in 1..q /\ p + 1 \in (p + 1)..q BY <1>1, <2>1
  <2>3. l[p + 1].offset \in Nat /\ l[p + 1].offset + 2 <= n BY <1>3, <2>2
  <2>4. n <= l[p + 1].offset \/ l[p + 1].offset = n - 1 BY <1>2, <2>2
  <2> QED BY <2>3, <2>4
<1> QED BY <1>1, <1>2, <1>4

\* It still has been when records follow that add nothing.
LEMMA StillClosed ==
  ASSUME NEW l \in Seq(Entries), NEW n \in Nat, \A i \in 1..Len(l) : l[i].offset + 2 <= n, NEW a \in Accs,
         Len(a.transactions) = Len(l), a.current = <<>>, \A i \in 1..Len(l) : a.transactions[i] = l[i],
         NEW k \in Nat, n <= k
  PROVE  Match(a, k, l)
<1>1. Len(l) \in Nat /\ \A i \in 1..Len(l) : l[i].offset \in Nat BY EntryFacts
<1>2. Begins(a.transactions, l) BY <1>1 DEF Begins
<1>3. \A i \in 1..Len(a.transactions) : l[i].offset + 2 <= k BY <1>1
<1>4. \A i \in (Len(a.transactions) + 1)..Len(l) : k <= l[i].offset BY <1>1
<1> QED BY <1>2, <1>3, <1>4 DEF Match

\* Records are added that take nothing back, or early enough.
LEMMA ForwardGrown ==
  ASSUME NEW t \in Seq(Records), NEW s \in Seq(Records), NEW k \in Nat, Forward(t, k),
         \A i \in 1..Len(s) : s[i].kind \in {"Version", "Discard"} => Len(t) + i <= k
  PROVE  Forward(t \o s, k)
<1>1. PICK u \in Seq(Records), n \in Nat, p \in Nat : u = t \o s /\ n = Len(t) /\ p = Len(s)
  <2>1. t \o s \in Seq(Records) /\ Len(t) \in Nat /\ Len(s) \in Nat OBVIOUS
  <2> QED BY <2>1
<1>2. Len(u) = n + p /\ (\A i \in 1..n : u[i] = t[i]) /\ (\A i \in 1..p : u[n + i] = s[i])
  <2>1. Len(t \o s) = Len(t) + Len(s) /\ (\A i \in 1..Len(t) : (t \o s)[i] = t[i])
        /\ \A i \in 1..Len(s) : (t \o s)[Len(t) + i] = s[i] BY LoopAppend
  <2> QED BY <1>1, <2>1
<1>3. ASSUME NEW i \in 1..(n + p), u[i].kind \in {"Version", "Discard"} PROVE i <= k
  <2>1. CASE i <= n
    <3>1. i \in 1..n /\ u[i] = t[i] BY <1>2, <2>1
    <3> QED BY <1>1, <1>3, <3>1 DEF Forward
  <2>2. CASE ~(i <= n)
    <3>1. i - n \in 1..p /\ i = n + (i - n) BY <1>3, <2>2
    <3>2. PICK j \in 1..p : i = n + j BY <3>1
    <3>3. u[i] = s[j] BY <1>2, <3>2
    <3>4. n + j <= k BY <1>1, <1>3, <3>3
    <3> QED BY <3>2, <3>4
  <2> QED BY <2>1, <2>2
<1>4. Forward(u, k) BY <1>2, <1>3 DEF Forward
<1> QED BY <1>1, <1>4

\* One record is added.
LEMMA AppendOne ==
  ASSUME NEW t \in Seq(Records), NEW r \in Records
  PROVE  /\ <<r>> \in Seq(Records) /\ Len(<<r>>) = 1 /\ <<r>> # <<>> /\ <<r>>[1] = r
         /\ Acc(t \o <<r>>, Len(t) + 1) = ReadRecord(Acc(t, Len(t)), r, Len(t))
<1>1. PICK s \in Seq(Records) : s = <<r>> /\ Len(s) = 1 /\ s # <<>> /\ s[1] = r
  <2>1. <<r>> \in Seq(Records) OBVIOUS
  <2>2. Len(<<r>>) = 1 /\ <<r>>[1] = r OBVIOUS
  <2>3. <<r>> # <<>> OBVIOUS
  <2> QED BY <2>1, <2>2, <2>3
<1>2. PICK n \in Nat : n = Len(t) OBVIOUS
<1>3. 1 \in 1..Len(s) /\ n + 1 - 1 = n /\ n \in 0..Len(t) BY <1>1, <1>2
<1>4. Acc(t \o s, n + 1) = ReadRecord(Acc(t \o s, n + 1 - 1), s[1], n + 1 - 1) BY <1>2, <1>3, LoopAppend
<1>5. Acc(t \o s, n) = Acc(t, n) BY <1>3, LoopAppend
<1>6. Acc(t \o s, n + 1) = ReadRecord(Acc(t, n), r, n) BY <1>1, <1>3, <1>4, <1>5
<1> QED BY <1>1, <1>2, <1>6

\* Two records are added.
LEMMA AppendTwo ==
  ASSUME NEW t \in Seq(Records), NEW s \in Seq(Records), Len(s) = 2, NEW n \in Nat, n = Len(t)
  PROVE  /\ Acc(t \o s, n + 1) = ReadRecord(Acc(t, n), s[1], n)
         /\ Acc(t \o s, n + 2) = ReadRecord(Acc(t \o s, n + 1), s[2], n + 1)
<1>1. 1 \in 1..Len(s) /\ 2 \in 1..Len(s) /\ n + 1 - 1 = n /\ n + 2 - 1 = n + 1 /\ n \in 0..Len(t) OBVIOUS
<1>2. Acc(t \o s, n + 1) = ReadRecord(Acc(t \o s, n + 1 - 1), s[1], n + 1 - 1) BY <1>1, LoopAppend
<1>3. Acc(t \o s, n + 2) = ReadRecord(Acc(t \o s, n + 2 - 1), s[2], n + 2 - 1) BY <1>1, LoopAppend
<1>4. Acc(t \o s, n) = Acc(t, n) BY <1>1, LoopAppend
<1> QED BY <1>1, <1>2, <1>3, <1>4

\* Whatever is written to the journal, the blocks taken from it stay.
LEMMA WriteInv ==
  ASSUME NEW mt, NEW c, Inv(mt, c), NEW s \in Seq(Records), Write(s), UNCHANGED <<disk, cached, device_flushed>>
  PROVE  /\ journal.recs \in Seq(Records) /\ journal'.recs \in Seq(Records) /\ journal'.recs = journal.recs \o s
         /\ Offset \in Nat /\ Offset' = Offset + Len(s) /\ Offset <= Offset'
         /\ UNCHANGED <<taken, flushed>> /\ BlocksInv(mt)'
         /\ Start(mt) \in Nat /\ Start(mt) <= device_flushed /\ device_flushed <= Offset /\ device_flushed \in Nat
         /\ Acc(journal'.recs, Start(mt)) = Acc(journal.recs, Start(mt))
<1>1. /\ BlocksOK(mt, journal, taken, flushed, device_flushed, disk, cached) /\ journal \in Histories
      /\ mt \in Nat /\ flushed \in Nat /\ taken \in Nat /\ device_flushed \in Nat /\ flushed <= taken
      /\ Start(mt) <= device_flushed /\ device_flushed <= Start(flushed) /\ Start(taken) <= Offset
  BY DEF Inv, BlocksInv, BlocksOK, Offset
<1>2. PICK t \in Seq(Records) : t = journal.recs BY <1>1 DEF Histories
<1>3. journal' = [journal EXCEPT !.recs = journal.recs \o s] /\ UNCHANGED <<taken, flushed>> BY DEF Write
<1>4. journal'.recs = journal.recs \o s /\ journal'.resets = journal.resets
      /\ journal' = [recs |-> journal.recs \o s, resets |-> journal.resets]
  BY <1>1, <1>3 DEF Histories
<1>5. t \o s \in Seq(Records) /\ Len(t \o s) = Len(t) + Len(s) /\ Len(t) \in Nat /\ Len(s) \in Nat OBVIOUS
<1>6. PICK g \in Histories : g = journal'
  <2>1. journal.resets \in SUBSET Nat BY <1>1 DEF Histories
  <2> QED BY <1>2, <1>4, <1>5, <2>1 DEF Histories
<1>7. Grown(journal, g, s) BY <1>4, <1>6 DEF Grown
<1>8. BlocksOK(mt, g, taken, flushed, device_flushed, disk, cached) BY <1>1, <1>7, BlocksGrown
<1>9. BlocksInv(mt)' BY <1>3, <1>6, <1>8 DEF BlocksInv
<1>10. Start(flushed) <= Start(taken) /\ Start(flushed) \in Nat /\ Start(taken) \in Nat /\ Start(mt) \in Nat
  BY <1>1, StartFacts, StartMono
<1>11. Offset \in Nat /\ Offset' = Offset + Len(s) /\ Offset <= Offset' BY <1>2, <1>4, <1>5 DEF Offset
<1>12. device_flushed <= Offset /\ Start(mt) <= Offset BY <1>1, <1>10, <1>11
<1>13. Acc(t \o s, Start(mt)) = Acc(t, Start(mt))
  <2>1. Start(mt) \in 0..Len(t) BY <1>2, <1>10, <1>12 DEF Offset
  <2> QED BY <2>1, LoopAppend
<1> QED BY <1>1, <1>2, <1>3, <1>4, <1>5, <1>9, <1>10, <1>11, <1>12, <1>13

\* The parts that only say that the journal is long enough.
LEMMA LongerInv ==
  ASSUME NEW mt, NEW c, Inv(mt, c), NEW s \in Seq(Records), Write(s),
         UNCHANGED <<disk, cached, device_flushed, log, past, durable>>
  PROVE  LogInv' /\ MountInv(mt, c)' /\ (UNCHANGED sync => SyncInv')
<1>1. LogInv /\ MountInv(mt, c) /\ SyncInv BY DEF Inv
<1>2. Offset \in Nat /\ Offset' \in Nat /\ Offset <= Offset' /\ UNCHANGED <<taken, flushed>>
      /\ Acc(journal'.recs, Start(mt)) = Acc(journal.recs, Start(mt))
  <2>1. Len(s) \in Nat OBVIOUS
  <2> QED BY <2>1, WriteInv
<1>3. \A i \in 1..Len(log) : log[i].offset \in Nat BY <1>1, LogFacts
<1>4. \A i \in 1..Len(log) : log[i].offset + 2 <= Offset' BY <1>1, <1>2, <1>3 DEF LogInv
<1>5. LogInv' BY <1>1, <1>4 DEF LogInv
<1>6. MountInv(mt, c)' BY <1>1, <1>2 DEF MountInv
<1>7. ASSUME UNCHANGED sync PROVE SyncInv'
  <2>1. sync.offset \in Nat /\ sync.offset <= Offset BY <1>1 DEF SyncInv
  <2>2. sync.offset <= Offset' BY <1>2, <2>1
  <2> QED BY <1>1, <1>2, <1>7, <2>2 DEF SyncInv
<1> QED BY <1>5, <1>6, <1>7

\* What is read at the end of the journal once the reset has been journaled.
LEMMA EndRead ==
  ASSUME NEW mt, NEW c, Inv(mt, c), ~reset_version
  PROVE  /\ mt \in Nat /\ Start(mt) < Offset /\ discard = 0
         /\ Acc(journal.recs, Offset) \in Accs /\ MatchOK(mt, Acc(journal.recs, Offset), Offset, log, device_flushed)
         /\ Len(Acc(journal.recs, Offset).transactions) = Len(log) /\ Acc(journal.recs, Offset).current = <<>>
         /\ \A i \in 1..Len(log) : Acc(journal.recs, Offset).transactions[i] = log[i]
<1>1. ResetInv(mt, c) /\ LogInv /\ ReadInv(mt) /\ BlocksInv(mt) BY DEF Inv
<1>2. PICK t \in Seq(Records), n \in Nat : t = journal.recs /\ n = Len(t) /\ n = Offset
  BY <1>1 DEF BlocksInv, BlocksOK, Histories, Offset
<1>3. Start(mt) < n /\ discard = 0 BY <1>1, <1>2 DEF ResetInv, ResetOK
<1>4. MatchOK(mt, Acc(t, n), n, log, device_flushed) BY <1>1, <1>2, <1>3 DEF ReadInv, ReadOK
<1>5. PICK a \in Accs : a = Acc(t, n)
  <2>1. n \in 0..Len(t) BY <1>2
  <2> QED BY <2>1, Loop
<1>6. Match(a, n, log) /\ log \in Seq(Entries) /\ \A i \in 1..Len(log) : log[i].offset + 2 <= n
  BY <1>1, <1>2, <1>4, <1>5, LogFacts DEF MatchOK, LogInv
<1>7. Len(a.transactions) = Len(log) /\ a.current = <<>> /\ \A i \in 1..Len(log) : a.transactions[i] = log[i]
  BY <1>6, Closed
<1>8. mt \in Nat BY <1>1 DEF BlocksInv, BlocksOK
<1> QED BY <1>2, <1>3, <1>4, <1>5, <1>7, <1>8

\* The padding of a sync reads as nothing.
LEMMA SyncActionInv ==
  ASSUME NEW mt, NEW c, Inv(mt, c), Sync
  PROVE  Inv(mt, c)'
<1>1. /\ TypeInv /\ BlocksInv(mt) /\ StoredInv(mt) /\ ReadInv(mt) /\ MountInv(mt, c) /\ ResetInv(mt, c)
      /\ LogInv /\ SyncInv /\ DataInv /\ CommitInv
  BY DEF Inv
<1>2. /\ UNCHANGED <<disk, cached, data, dcached, device_flushed, needs_did_flush, reset_version, discard, terminate,
                     deallocs, commit, log, durable, past, txs, crashes>>
      /\ syncs < MaxSyncs /\ syncs' = syncs + 1 /\ sync.stage = "idle"
      /\ sync' = [stage |-> "wait", offset |-> Offset, covers |-> Len(log)]
  BY DEF Sync, device, inner, promise, counters
<1>3. PICK t \in Seq(Records), n \in Nat : t = journal.recs /\ n = Len(t) /\ n = Offset
  BY <1>1 DEF BlocksInv, BlocksOK, Histories, Offset
<1>4. Len(log) \in Nat BY <1>1, LogFacts
<1>5. sync'.stage = "wait" /\ sync'.offset = n /\ sync'.covers = Len(log) BY <1>2, <1>3
<1>6. sync' \in [stage : {"idle", "wait", "parked", "flush", "flushed", "free"}, offset : Nat, covers : Nat]
  BY <1>2, <1>3, <1>4
<1>7. flusher' \in {"ready", "parked", "writing", "ended"} BY <1>1 DEF Sync, TypeInv, WakeFlusher
<1>8. TypeInv'
  <2>1. syncs' \in 0..MaxSyncs
    <3>1. syncs \in 0..MaxSyncs /\ MaxSyncs \in Nat BY <1>1, JournalAssumption DEF TypeInv
    <3> QED BY <1>2, <3>1
  <2> QED BY <1>1, <1>2, <1>6, <1>7, <2>1 DEF TypeInv
<1>9. DataInv' BY <1>1, <1>2, <1>5 DEF DataInv, Held, Live
<1>10. ASSUME Offset' \in Nat, n <= Offset' PROVE SyncInv'
  <2>1. sync'.covers \in 0..Len(log) /\ (\A i \in 1..Len(log) : log[i].offset + 2 <= n) BY <1>1, <1>3, <1>4, <1>5 DEF LogInv
  <2>2. (Len(log) + 1)..Len(log) = {} BY <1>4
  <2> QED BY <1>2, <1>3, <1>5, <1>10, <2>1, <2>2 DEF SyncInv
<1>11. CASE UNCHANGED <<writer, flusher>>
  <2>1. UNCHANGED <<journal, taken, flushed>> BY <1>11 DEF writer
  <2>2. SyncInv' BY <1>3, <1>10, <2>1 DEF Offset
  <2> QED BY <1>1, <1>2, <1>8, <1>9, <2>1, <2>2, FrameBlocks, FrameStored, FrameRead, FrameReset, FrameLog, FrameCommit DEF Inv
<1>12. CASE ~UNCHANGED <<writer, flusher>>
  <2>1. PICK w : w = Whole(n) /\ n - Start(w) # 0 /\ Write(Pad(BlockSize - (n - Start(w)))) BY <1>3, <1>12 DEF Sync
  <2>2. w \in Nat /\ Start(w) <= n /\ n < Start(w) + BlockSize /\ Start(w) \in Nat /\ BlockSize \in Nat
    BY <2>1, WholeFacts, StartFacts
  <2>3. PICK p \in Nat : p = BlockSize - (n - Start(w)) /\ p # 0 BY <2>2
  <2>4. PICK s \in Seq(Records) : /\ s = Pad(p) /\ Len(s) = p /\ \A i \in 1..p : s[i].kind \in {"EndBlock", "Padding"}
                                  /\ \A k \in n..(n + p) : Acc(t \o s, k) = Acc(t, n)
    <3>1. /\ Pad(p) \in Seq(Records) /\ Len(Pad(p)) = p
          /\ \A i \in 1..p : Pad(p)[i].kind \in {"EndBlock", "Padding"}
          /\ \A k \in Len(t)..(Len(t) + p) : Acc(t \o Pad(p), k) = Acc(t, Len(t))
      BY LoopPad
    <3> QED BY <1>3, <3>1
  <2>5. Write(s) BY <2>1, <2>3, <2>4
  <2>6. /\ journal'.recs = t \o s /\ journal'.recs \in Seq(Records) /\ Offset' = n + p
        /\ UNCHANGED <<taken, flushed>> /\ BlocksInv(mt)' /\ device_flushed \in Nat
        /\ Start(mt) \in Nat /\ Start(mt) <= device_flushed /\ device_flushed <= n
        /\ Acc(journal'.recs, Start(mt)) = Acc(t, Start(mt))
    BY <1>2, <1>3, <2>4, <2>5, WriteInv
  <2>7. LogInv' /\ MountInv(mt, c)' BY <1>2, <2>5, LongerInv
  <2>8. SyncInv'
    <3>1. n + p \in Nat /\ n <= n + p BY <2>3
    <3> QED BY <1>10, <2>6, <3>1
  <2>9. mt \in Nat BY <1>1 DEF BlocksInv, BlocksOK
  <2>10. ~reset_version
    <3>1. SUFFICES ASSUME n = Start(mt) PROVE FALSE BY <1>1, <1>3 DEF ResetInv, ResetOK
    <3>2. PICK v \in Nat : v = w + 1 /\ Start(v) = Start(w) + BlockSize /\ Start(v) \in Nat BY <2>2, StartFacts
    <3>3. Start(w) <= Start(mt) /\ Start(mt) < Start(v) BY <2>2, <3>1, <3>2
    <3>4. w <= mt /\ mt < v BY <2>2, <2>9, <3>2, <3>3, StartMono
    <3>5. w = mt BY <2>2, <2>9, <3>2, <3>4
    <3> QED BY <2>1, <2>2, <3>1, <3>5
  <2>11. PICK a \in Accs :
           /\ a = Acc(t, n) /\ MatchOK(mt, a, n, log, device_flushed) /\ Start(mt) < n /\ discard = 0
           /\ Len(a.transactions) = Len(log) /\ a.current = <<>> /\ \A i \in 1..Len(log) : a.transactions[i] = log[i]
    BY <1>3, <2>10, EndRead
  <2>12. PICK u \in Seq(Records), df \in Nat : u = t \o s /\ df = device_flushed BY <2>6
  <2>13. ASSUME NEW i \in 1..Len(s) PROVE MatchOK(mt, Acc(u, n + i), n + i, log, df)
    <3>1. n + i \in n..(n + p) /\ n + i \in Nat /\ n <= n + i BY <2>3, <2>4
    <3>2. Acc(u, n + i) = a BY <2>4, <2>11, <2>12, <3>1
    <3>3. log \in Seq(Entries) /\ \A j \in 1..Len(log) : log[j].offset + 2 <= n BY <1>1, <1>3, LogFacts DEF LogInv
    <3>4. Match(a, n + i, log) BY <2>11, <3>1, <3>3, StillClosed
    <3> QED BY <2>11, <2>12, <3>2, <3>4 DEF MatchOK
  <2>14. Forward(u, Start(mt) + 2)
    <3>1. Forward(t, Start(mt) + 2) BY <1>1, <1>3 DEF ReadInv, ReadOK
    <3>2. \A i \in 1..Len(s) : s[i].kind \in {"Version", "Discard"} => Len(t) + i <= Start(mt) + 2 BY <2>4
    <3>3. Start(mt) + 2 \in Nat BY <2>6
    <3> QED BY <2>12, <3>1, <3>2, <3>3, ForwardGrown
  <2>15. ReadInv(mt)'
    <3>1. ReadOK(mt, t, log, df) BY <1>1, <1>3, <2>12 DEF ReadInv
    <3>2. s # <<>> BY <2>3, <2>4
    <3>3. \A i \in 1..Len(s) : Start(mt) + 2 <= Len(t) + i \/ i = Len(s) => MatchOK(mt, Acc(u, Len(t) + i), Len(t) + i, log, df)
      BY <1>3, <2>13
    <3>4. ReadOK(mt, u, log, df) BY <2>9, <2>12, <2>14, <3>1, <3>2, <3>3, ReadGrown
    <3> QED BY <1>2, <2>6, <2>12, <3>4 DEF ReadInv
  <2>16. ResetInv(mt, c)'
    <3>1. Start(mt) < n + p /\ Len(journal'.recs) = n + p BY <2>3, <2>6, <2>11 DEF Offset
    <3> QED BY <1>2, <2>10, <2>11, <3>1 DEF ResetInv, ResetOK
  <2>17. CommitInv'
    <3>1. n + p \in n..(n + p) BY <2>3
    <3>2. Acc(journal'.recs, Offset') = Acc(journal.recs, Offset) BY <1>3, <2>4, <2>6, <3>1
    <3>3. Current' = Current BY <1>2 DEF Current, Last
    <3> QED BY <1>1, <1>2, <3>2, <3>3 DEF CommitInv, Held
  <2> QED BY <1>1, <1>2, <1>8, <1>9, <2>6, <2>7, <2>8, <2>15, <2>16, <2>17, FrameStored DEF Inv
<1> QED BY <1>11, <1>12

\* What is read after the reset has been journaled.
LEMMA MountRead ==
  ASSUME NEW mt \in Nat, NEW m \in Nat, m = Start(mt), NEW l \in Seq(Entries), \A i \in 1..Len(l) : l[i].offset + 2 <= m,
         NEW b \in Accs, Len(b.transactions) = Len(l), \A i \in 1..Len(l) : b.transactions[i] = l[i],
         b.current = <<>>, b.flushed = m + 1, NEW k \in Nat, m <= k, NEW df \in Nat
  PROVE  MatchOK(mt, b, k, l, df)
<1>1. Match(b, k, l) BY StillClosed
<1>2. \A i \in 1..Len(l) : l[i].offset \in Nat BY EntryFacts
<1>3. ASSUME NEW i \in 1..Len(b.transactions), b.flushed <= b.transactions[i].offset PROVE FALSE
  <2>1. i \in 1..Len(l) /\ b.transactions[i] = l[i] OBVIOUS
  <2>2. m + 1 <= l[i].offset /\ l[i].offset + 2 <= m /\ l[i].offset \in Nat BY <1>2, <1>3, <2>1
  <2> QED BY <2>2
<1>4. \A i \in 1..Len(b.transactions) : b.transactions[i].offset >= b.flushed => FALSE
  <2>1. \A i \in 1..Len(b.transactions) : b.transactions[i].offset \in Nat BY <1>2
  <2> QED BY <1>3, <2>1
<1>5. Distinct(b) BY <1>4 DEF Distinct
<1>6. Known(mt, b, df) BY DEF Known
<1> QED BY <1>1, <1>5, <1>6 DEF MatchOK

\* The records that name an offset, or nothing.
LEMMA Markers ==
  /\ Version \in Records /\ Version.kind = "Version"
  /\ Commit \in Records /\ Commit.kind = "Commit"
  /\ \A d \in Nat : Discard(d) \in Records /\ Discard(d).kind = "Discard" /\ Discard(d).num = d
  /\ \A d \in Nat : DidFlushDevice(d) \in Records /\ DidFlushDevice(d).kind = "DidFlushDevice" /\ DidFlushDevice(d).num = d
<1>1. Version \in Records /\ Version.kind = "Version" BY DEF Version, Record, Records, Kinds
<1>2. Commit \in Records /\ Commit.kind = "Commit" BY DEF Commit, Record, Records, Kinds
<1>3. ASSUME NEW d \in Nat PROVE Discard(d) \in Records /\ Discard(d).kind = "Discard" /\ Discard(d).num = d
  BY DEF Discard, Record, Records, Kinds
<1>4. ASSUME NEW d \in Nat
      PROVE  DidFlushDevice(d) \in Records /\ DidFlushDevice(d).kind = "DidFlushDevice" /\ DidFlushDevice(d).num = d
  BY DEF DidFlushDevice, Record, Records, Kinds
<1> QED BY <1>1, <1>2, <1>3, <1>4

\* A version ends the transaction that lacks its Commit.
LEMMA ReadVersion ==
  ASSUME NEW a \in Accs, NEW n \in Nat, a.flushed <= n + 1
  PROVE  \E b \in Accs : /\ b = ReadRecord(a, Version, n) /\ b.transactions = a.transactions
                         /\ b.current = <<>> /\ b.flushed = n + 1
<1>1. PICK v \in Records, y \in Nat, f \in Nat : v = Version /\ v.kind = "Version" /\ y = n + 1 /\ f = a.flushed
  BY Markers DEF Accs
<1>2. f <= Max({f, y}) /\ y <= Max({f, y}) /\ Max({f, y}) \in {f, y} BY MaxPair
<1>3. Max({f, y}) = y BY <1>1, <1>2
<1>4. PICK b \in Accs : b = ReadRecord(a, v, n) BY ReadRecordFacts
<1>5. /\ ReadRecord(a, v, n).transactions = a.transactions /\ ReadRecord(a, v, n).current = <<>>
      /\ ReadRecord(a, v, n).flushed = Max({a.flushed, n + 1})
  <2>1. v.kind = "Version" BY <1>1
  <2> QED BY <2>1, ReadRecordFacts
<1> QED BY <1>1, <1>3, <1>4, <1>5

\* Short sequences put together.
LEMMA PairConcat ==
  ASSUME NEW v \in Records, NEW x \in Records
  PROVE  <<v>> \o <<x>> = <<v, x>> /\ \E q \in Seq(Records) : q = <<v, x>> /\ Len(q) = 2 /\ q[1] = v /\ q[2] = x /\ q # <<>>
<1>1. PICK a \in Seq(Records) : a = <<v>> /\ Len(a) = 1 /\ a[1] = v
  <2>1. <<v>> \in Seq(Records) /\ Len(<<v>>) = 1 /\ <<v>>[1] = v OBVIOUS
  <2> QED BY <2>1
<1>2. PICK b \in Seq(Records) : b = <<x>> /\ Len(b) = 1 /\ b[1] = x
  <2>1. <<x>> \in Seq(Records) /\ Len(<<x>>) = 1 /\ <<x>>[1] = x OBVIOUS
  <2> QED BY <2>1
<1>3. PICK q \in Seq(Records) : q = <<v, x>> /\ Len(q) = 2 /\ q[1] = v /\ q[2] = x /\ q # <<>>
  <2>1. <<v, x>> \in Seq(Records) /\ Len(<<v, x>>) = 2 /\ <<v, x>>[1] = v /\ <<v, x>>[2] = x /\ <<v, x>> # <<>> OBVIOUS
  <2> QED BY <2>1
<1>4. a \o b \in Seq(Records) /\ Len(a \o b) = 2 /\ (a \o b)[1] = v /\ (a \o b)[2] = x BY <1>1, <1>2
<1>5. \A i \in 1..2 : (a \o b)[i] = q[i] BY <1>3, <1>4
<1>6. a \o b = q BY <1>3, <1>4, <1>5, SeqEqual
<1> QED BY <1>1, <1>2, <1>3, <1>6

\* Two records added at the end.
LEMMA TwoRecords ==
  ASSUME NEW t \in Seq(Records), NEW n \in Nat, n = Len(t), NEW v \in Records, NEW x \in Records, NEW s, s = <<v, x>>
  PROVE  /\ s \in Seq(Records) /\ Len(s) = 2 /\ s # <<>> /\ s[1] = v /\ s[2] = x
         /\ Acc(t \o s, n + 1) = ReadRecord(Acc(t, n), v, n)
         /\ Acc(t \o s, n + 2) = ReadRecord(Acc(t \o s, n + 1), x, n + 1)
<1>1. s \in Seq(Records) /\ Len(s) = 2 /\ s # <<>> /\ s[1] = v /\ s[2] = x OBVIOUS
<1>2. Acc(t \o s, n + 1) = ReadRecord(Acc(t, n), s[1], n) /\ Acc(t \o s, n + 2) = ReadRecord(Acc(t \o s, n + 1), s[2], n + 1)
  BY <1>1, AppendTwo
<1> QED BY <1>1, <1>2

\* Then what is to be discarded is.
LEMMA ReadDiscard ==
  ASSUME NEW a \in Accs, a.current = <<>>, NEW n \in Nat, NEW d \in Nat
  PROVE  \E b \in Accs : /\ b = ReadRecord(a, Discard(d), n) /\ b.transactions = Truncate(a.transactions, d)
                         /\ b.current = <<>> /\ b.flushed = a.flushed
<1>1. PICK x \in Records : x = Discard(d) /\ x.kind = "Discard" /\ x.num = d BY Markers
<1>2. PICK b \in Accs : b = ReadRecord(a, x, n) BY ReadRecordFacts
<1>3. a.flushed \in Nat /\ a = [transactions |-> a.transactions, current |-> a.current, flushed |-> a.flushed] BY DEF Accs
<1>4. b = [transactions |-> Truncate(a.transactions, x.num), current |-> <<>>, flushed |-> a.flushed]
  BY <1>1, <1>2, <1>3 DEF ReadRecord
<1>5. b.transactions = Truncate(a.transactions, x.num) /\ b.current = <<>> /\ b.flushed = a.flushed BY <1>4
<1> QED BY <1>1, <1>2, <1>5

\* The first records after a mount: the version, and what is discarded.
ResetRecords(d) == IF d = 0 THEN <<Version>> ELSE <<Version>> \o <<Discard(d)>>

\* The journal t ends at the mount, which found l and has to discard what is at d
\* or after it.
Mounted(mt, m, t, l, c, a, d) ==
  /\ m = Start(mt) /\ Len(t) = m /\ a = Acc(t, m) /\ d <= m
  /\ \A i \in 1..Len(l) : l[i].offset + 2 <= m
  /\ MountOK(mt, c, a, l, m) /\ ResetOK(mt, c, a, l, TRUE, d, m) /\ ReadOK(mt, t, l, m)

\* With the records s added, the journal reads as the log l, all of it flushed.
Resets(mt, m, t, l, s) ==
  /\ s \in Seq(Records) /\ s # <<>> /\ Len(s) \in Nat
  /\ ReadOK(mt, t \o s, l, m) /\ Acc(t \o s, m + Len(s)).flushed = m + 1

\* They are read as the mount wants.
LEMMA ResetRead ==
  ASSUME NEW mt \in Nat, NEW m \in Nat, NEW t \in Seq(Records), NEW l \in Seq(Entries), NEW c,
         NEW a \in Accs, NEW d \in Nat, Mounted(mt, m, t, l, c, a, d)
  PROVE  Resets(mt, m, t, l, ResetRecords(d))
<1> PICK s : s = ResetRecords(d) OBVIOUS
<1> SUFFICES /\ s \in Seq(Records) /\ s # <<>> /\ Len(s) \in Nat
             /\ ReadOK(mt, t \o s, l, m) /\ Acc(t \o s, m + Len(s)).flushed = m + 1
  BY DEF Resets
<1> USE DEF Mounted
<1>1. PICK v \in Records : v = Version /\ v.kind = "Version" BY Markers
<1>2. PICK x \in Records : x = Discard(d) /\ x.kind = "Discard" /\ x.num = d BY Markers
<1>3. PICK T \in Seq(Entries), f \in Nat, q \in Nat : T = a.transactions /\ f = a.flushed /\ q = Len(l) BY DEF Accs
<1>4. c = q /\ q <= Len(T) /\ \A i \in 1..q : T[i] = l[i] BY <1>3 DEF MountOK, ResetOK
<1>5. f <= m + 1
  <2>1. f <= m \/ f <= m + 1 BY <1>3 DEF MountOK, Known
  <2> QED BY <2>1
<1>6. PICK b \in Accs : b = ReadRecord(a, v, m) /\ b.transactions = T /\ b.current = <<>> /\ b.flushed = m + 1
  BY <1>1, <1>3, <1>5, ReadVersion
<1>7. Forward(t, m + 2) BY DEF ReadOK
<1>8. \A n \in 0..Len(t) : MatchOK(mt, Acc(t, n), n, l, m) => MatchOK(mt, Acc(t, n), n, l, m) OBVIOUS
<1>9. CASE d = 0
  <2>1. s = <<v>> BY <1>1, <1>9 DEF ResetRecords
  <2>2. s \in Seq(Records) /\ Len(s) = 1 /\ s # <<>> /\ s[1] = v /\ Acc(t \o s, m + 1) = b
    BY <1>6, <2>1, AppendOne
  <2>3. Len(T) = q BY <1>3, <1>4, <1>9 DEF ResetOK
  <2>4. MatchOK(mt, b, m + 1, l, m)
    <3>1. Len(b.transactions) = Len(l) /\ \A i \in 1..Len(l) : b.transactions[i] = l[i] BY <1>3, <1>4, <1>6, <2>3
    <3>2. m + 1 \in Nat /\ m <= m + 1 OBVIOUS
    <3> QED BY <1>6, <3>1, <3>2, MountRead
  <2>5. PICK z \in Seq(Records) : z = s BY <2>2
  <2>6. Forward(t \o z, m + 2)
    <3>1. \A i \in 1..Len(z) : Len(t) + i <= m + 2
      <4>1. Len(z) = 1 BY <2>2, <2>5
      <4> QED BY <4>1
    <3>2. m + 2 \in Nat OBVIOUS
    <3> QED BY <1>7, <3>1, <3>2, ForwardGrown
  <2>7. \A i \in 1..Len(z) : MatchOK(mt, Acc(t \o z, Len(t) + i), Len(t) + i, l, m)
    <3>1. Len(z) = 1 /\ Acc(t \o z, m + 1) = b BY <2>2, <2>5
    <3>2. \A i \in 1..Len(z) : i = 1 /\ Len(t) + i = m + 1 BY <3>1
    <3> QED BY <2>4, <3>1, <3>2
  <2>8. PICK u \in Seq(Records) : u = t \o z BY LoopAppend
  <2>9. ReadOK(mt, u, l, m) BY <1>8, <2>2, <2>5, <2>6, <2>7, <2>8, ReadGrown
  <2> QED BY <1>6, <2>2, <2>5, <2>8, <2>9
<1>10. CASE d # 0
  <2>1. s = <<v, x>>
    <3>1. s = <<v>> \o <<x>> BY <1>1, <1>2, <1>10 DEF ResetRecords
    <3>2. <<v>> \o <<x>> = <<v, x>> BY PairConcat
    <3> QED BY <3>1, <3>2
  <2>2. PICK z \in Seq(Records) : z = s /\ Len(z) = 2 /\ z[1] = v /\ z[2] = x /\ z # <<>>
    BY <2>1, PairConcat
  <2>3. Acc(t \o z, m + 1) = b /\ Acc(t \o z, m + 2) = ReadRecord(b, x, m + 1)
    <3>1. z = <<v, x>> BY <2>1, <2>2
    <3>2. Acc(t \o z, m + 1) = ReadRecord(Acc(t, m), v, m) BY <3>1, TwoRecords
    <3>3. Acc(t \o z, m + 2) = ReadRecord(Acc(t \o z, m + 1), x, m + 1) BY <3>1, TwoRecords
    <3> QED BY <1>6, <3>2, <3>3
  <2>4. PICK U \in Seq(Entries) : U = Truncate(T, d) BY TruncateFacts
  <2>5. PICK e \in Accs : e = ReadRecord(b, x, m + 1) /\ e.transactions = U /\ e.current = <<>> /\ e.flushed = m + 1
    <3>1. m + 1 \in Nat OBVIOUS
    <3>2. b.current = <<>> /\ b.flushed = m + 1 /\ Truncate(b.transactions, d) = U BY <1>6, <2>4
    <3>3. PICK e \in Accs : /\ e = ReadRecord(b, Discard(d), m + 1) /\ e.transactions = Truncate(b.transactions, d)
                            /\ e.current = <<>> /\ e.flushed = b.flushed
      BY <3>1, <3>2, ReadDiscard
    <3> QED BY <1>2, <3>2, <3>3
  <2>6. /\ \A i \in 1..q : T[i].offset < d
        /\ \A i \in (q + 1)..Len(T) : d <= T[i].offset
    BY <1>3, <1>4, <1>10 DEF ResetOK
  <2>7. Len(U) = q /\ \A i \in 1..q : U[i] = l[i]
    <3>1. /\ Len(U) <= Len(T) /\ Len(U) \in Nat /\ Len(T) \in Nat
          /\ (\A i \in 1..Len(U) : U[i] = T[i])
          /\ (U # <<>> => T[Len(U)].offset < d)
          /\ \A i \in (Len(U) + 1)..Len(T) : d <= T[i].offset
      BY <2>4, TruncateFacts
    <3>2. \A i \in 1..Len(T) : T[i].offset \in Nat BY EntryFacts
    <3>3. ~(Len(U) < q)
      <4>1. SUFFICES ASSUME Len(U) < q PROVE FALSE OBVIOUS
      <4>2. q \in (Len(U) + 1)..Len(T) /\ q \in 1..q /\ q \in 1..Len(T) BY <1>3, <1>4, <3>1, <4>1
      <4>3. d <= T[q].offset /\ T[q].offset < d /\ T[q].offset \in Nat BY <2>6, <3>1, <3>2, <4>2
      <4> QED BY <4>3
    <3>4. ~(q < Len(U))
      <4>1. SUFFICES ASSUME q < Len(U) PROVE FALSE OBVIOUS
      <4>2. Len(U) \in (q + 1)..Len(T) /\ Len(U) \in 1..Len(T) /\ Len(U) # 0 BY <1>3, <3>1, <4>1
      <4>3. U # <<>> BY <4>2
      <4>4. d <= T[Len(U)].offset /\ T[Len(U)].offset < d /\ T[Len(U)].offset \in Nat BY <2>6, <3>1, <3>2, <4>2, <4>3
      <4> QED BY <4>4
    <3>5. Len(U) = q BY <1>3, <3>1, <3>3, <3>4
    <3> QED BY <1>4, <3>1, <3>5
  <2>8. MatchOK(mt, e, m + 2, l, m)
    <3>1. Len(e.transactions) = Len(l) /\ \A i \in 1..Len(l) : e.transactions[i] = l[i] BY <1>3, <2>5, <2>7
    <3>2. m + 2 \in Nat /\ m <= m + 2 OBVIOUS
    <3> QED BY <2>5, <3>1, <3>2, MountRead
  <2>9. Forward(t \o z, m + 2)
    <3>1. \A i \in 1..Len(z) : z[i].kind \in {"Version", "Discard"} => Len(t) + i <= m + 2 BY <2>2
    <3>2. m + 2 \in Nat OBVIOUS
    <3> QED BY <1>7, <3>1, <3>2, ForwardGrown
  <2>10. ASSUME NEW i \in 1..Len(z), m + 2 <= Len(t) + i \/ i = Len(z)
         PROVE  MatchOK(mt, Acc(t \o z, Len(t) + i), Len(t) + i, l, m)
    <3>1. i = 2 BY <2>2, <2>10
    <3>2. Len(t) + i = m + 2 BY <3>1
    <3> QED BY <2>3, <2>5, <2>8, <3>2
  <2>11. PICK u \in Seq(Records) : u = t \o z BY LoopAppend
  <2>12. ReadOK(mt, u, l, m) BY <1>8, <2>2, <2>9, <2>10, <2>11, ReadGrown
  <2>13. Acc(u, m + Len(z)).flushed = m + 1 BY <2>2, <2>3, <2>5, <2>11
  <2> QED BY <2>2, <2>11, <2>12, <2>13
<1> QED BY <1>9, <1>10

\* What is due has been written: the parts of the invariant besides what is read.
LEMMA PreparedInv ==
  ASSUME NEW mt, NEW c, Inv(mt, c), PreCommit, NEW s \in Seq(Records), Write(s),
         NEW t \in Seq(Records), t = journal.recs, NEW n \in Nat, n = Len(t) + Len(s),
         ReadOK(mt, t \o s, log, device_flushed), Start(mt) < n, device_flushed <= Acc(t \o s, n).flushed
  PROVE  Inv(mt, c)'
<1>1. /\ TypeInv /\ BlocksInv(mt) /\ StoredInv(mt) /\ ReadInv(mt) /\ MountInv(mt, c) /\ ResetInv(mt, c)
      /\ LogInv /\ SyncInv /\ DataInv /\ CommitInv
  BY DEF Inv
<1>2. /\ UNCHANGED <<disk, cached, data, dcached, device_flushed, terminate, deallocs, sync, flusher,
                     log, durable, past, txs, syncs, crashes>>
      /\ reset_version' = FALSE /\ discard' = 0 /\ needs_did_flush' = FALSE
      /\ commit.stage = "written" /\ commit' = [commit EXCEPT !.stage = "prepared"]
  BY DEF PreCommit, device, inner, promise, counters
<1>3. /\ journal'.recs = t \o s /\ BlocksInv(mt)' /\ device_flushed \in Nat /\ Offset' = n
      /\ Acc(journal'.recs, Start(mt)) = Acc(t, Start(mt))
  BY <1>2, WriteInv DEF Offset
<1>4. /\ commit' \in [stage : {"idle", "written", "prepared", "applied"},
                      tx : [num : 0..MaxTxs, new : Ranges, old : Ranges \cup {0}]]
      /\ commit'.stage = "prepared" /\ commit'.tx = commit.tx
  <2>1. commit \in [stage : {"idle", "written", "prepared", "applied"},
                    tx : [num : 0..MaxTxs, new : Ranges, old : Ranges \cup {0}]] BY <1>1 DEF TypeInv
  <2> QED BY <1>2, <2>1
<1>5. TypeInv'
  <2>1. /\ UNCHANGED <<data, dcached, device_flushed, terminate, deallocs, sync, flusher, txs, syncs, crashes>>
        /\ reset_version' = FALSE /\ discard' = 0 /\ needs_did_flush' = FALSE
    BY <1>2
  <2>2. discard' \in 0..device_flushed BY <1>3, <2>1
  <2> QED BY <1>1, <1>4, <2>1, <2>2 DEF TypeInv
<1>6. LogInv' /\ MountInv(mt, c)' /\ SyncInv' BY <1>2, LongerInv
<1>7. ReadInv(mt)' BY <1>2, <1>3 DEF ReadInv
<1>8. ResetInv(mt, c)'
  <2>1. Len(journal'.recs) = n BY <1>3 DEF Offset
  <2> QED BY <1>2, <2>1 DEF ResetInv, ResetOK
<1>9. CommitInv'
  <2>1. Current' = Current BY <1>2 DEF Current, Last
  <2>2. PICK a \in Accs : a = Acc(t \o s, n)
    <3>1. t \o s \in Seq(Records) /\ n \in 0..Len(t \o s) BY LoopAppend
    <3> QED BY <3>1, Loop
  <2>3. a.flushed \in Nat /\ device_flushed <= a.flushed /\ a = Acc(journal.recs, Offset)' BY <1>3, <2>2 DEF Accs
  <2>4. \A i \in 1..Len(log) : a.flushed <= log[i].offset => commit.tx.new # log[i].old
    <3>1. \A i \in 1..Len(log) : log[i].offset \in Nat BY <1>1, LogFacts
    <3>2. \A i \in 1..Len(log) : device_flushed <= log[i].offset => commit.tx.new # log[i].old
      BY <1>1, <1>2 DEF CommitInv
    <3> QED BY <1>3, <2>3, <3>1, <3>2
  <2>5. commit.tx.new # Current /\ commit.tx.old = Current /\ Held(commit.tx.new) = commit.tx.num
    BY <1>1, <1>2 DEF CommitInv
  <2>6. Held(commit.tx.new)' = commit'.tx.num BY <1>2, <1>4, <2>5 DEF Held
  <2> QED BY <1>2, <1>3, <1>4, <2>1, <2>2, <2>3, <2>4, <2>5, <2>6 DEF CommitInv, Held
<1> QED BY <1>1, <1>2, <1>3, <1>5, <1>6, <1>7, <1>8, <1>9, FrameStored, FrameData DEF Inv

\* The record of a flush.
LEMMA ReadDidFlush ==
  ASSUME NEW a \in Accs, NEW n \in Nat, NEW d \in Nat, NEW x \in Records, x.kind = "DidFlushDevice", x.num = d,
         NEW b, b = ReadRecord(a, x, n)
  PROVE  /\ b \in Accs /\ b.transactions = a.transactions /\ b.current = a.current
         /\ b.flushed \in {a.flushed, d} /\ a.flushed <= b.flushed /\ d <= b.flushed
<1>1. b \in Accs BY ReadRecordFacts
<1>2. b.transactions = a.transactions /\ b.current = a.current /\ b.flushed = Max({a.flushed, x.num})
  BY ReadRecordFacts
<1>3. a.flushed \in Nat BY DEF Accs
<1>4. /\ a.flushed <= Max({a.flushed, d}) /\ d <= Max({a.flushed, d}) /\ Max({a.flushed, d}) \in {a.flushed, d}
  BY <1>3, MaxPair
<1> QED BY <1>1, <1>2, <1>4

\* It was: what is read is still right.
LEMMA DidFlushRead ==
  ASSUME NEW mt \in Nat, NEW n \in Nat, NEW l \in Seq(Entries), \A i \in 1..Len(l) : l[i].offset + 2 <= n,
         NEW a \in Accs, NEW df \in Nat, MatchOK(mt, a, n, l, df), NEW b \in Accs, b.transactions = a.transactions,
         b.current = a.current, b.flushed \in {a.flushed, df}, a.flushed <= b.flushed
  PROVE  MatchOK(mt, b, n + 1, l, df)
<1>1. Match(a, n, l) /\ Distinct(a) /\ Known(mt, a, df) BY DEF MatchOK
<1>2. Len(a.transactions) = Len(l) /\ a.current = <<>> /\ \A i \in 1..Len(l) : a.transactions[i] = l[i] BY <1>1, Closed
<1>3. n + 1 \in Nat /\ n <= n + 1 OBVIOUS
<1>4. Match(b, n + 1, l) BY <1>2, <1>3, StillClosed
<1>5. PICK T \in Seq(Entries), f \in Nat, g \in Nat : T = a.transactions /\ f = a.flushed /\ g = b.flushed BY DEF Accs
<1>6. Distinct(b)
  <2>1. \A i \in 1..Len(T) : T[i].offset \in Nat BY EntryFacts
  <2>2. \A i, j \in 1..Len(T) : i < j /\ T[i].offset >= f => T[j].new \notin {T[i].new, T[i].old} BY <1>1, <1>5 DEF Distinct
  <2>3. \A i, j \in 1..Len(T) : i < j /\ T[i].offset >= g => T[j].new \notin {T[i].new, T[i].old} BY <1>5, <2>1, <2>2
  <2> QED BY <1>5, <2>3 DEF Distinct
<1>7. Known(mt, b, df)
  <2>1. df <= df OBVIOUS
  <2> QED BY <1>1, <2>1 DEF Known
<1> QED BY <1>4, <1>6, <1>7 DEF MatchOK

\* pre_commit.
LEMMA PreCommitInv ==
  ASSUME NEW mt, NEW c, Inv(mt, c), PreCommit
  PROVE  Inv(mt, c)'
<1>1. /\ TypeInv /\ BlocksInv(mt) /\ ReadInv(mt) /\ MountInv(mt, c) /\ ResetInv(mt, c) /\ LogInv /\ CommitInv
  BY DEF Inv
<1>2. PICK t \in Seq(Records), n \in Nat, df \in Nat, m \in Nat :
        /\ t = journal.recs /\ n = Len(t) /\ n = Offset /\ df = device_flushed /\ m = Start(mt) /\ mt \in Nat
        /\ m <= df /\ df <= n
  <2>1. /\ journal \in Histories /\ mt \in Nat /\ flushed \in Nat /\ taken \in Nat /\ flushed <= taken /\ device_flushed \in Nat
        /\ Start(mt) <= device_flushed /\ device_flushed <= Start(flushed) /\ Start(taken) <= Len(journal.recs)
    BY <1>1 DEF BlocksInv, BlocksOK
  <2>2. Start(mt) \in Nat /\ Start(flushed) \in Nat /\ Start(taken) \in Nat /\ Start(flushed) <= Start(taken)
    BY <2>1, StartFacts, StartMono
  <2>3. journal.recs \in Seq(Records) /\ Len(journal.recs) \in Nat BY <2>1 DEF Histories
  <2>4. device_flushed <= Len(journal.recs) BY <2>1, <2>2, <2>3
  <2> QED BY <2>1, <2>2, <2>3, <2>4 DEF Offset
<1>3. log \in Seq(Entries) /\ \A i \in 1..Len(log) : log[i].offset + 2 <= n BY <1>1, <1>2, LogFacts DEF LogInv
<1>4. /\ reset_version \in BOOLEAN /\ needs_did_flush \in BOOLEAN /\ discard \in Nat /\ discard <= df
  BY <1>1, <1>2 DEF TypeInv
<1>5. Write((IF reset_version THEN <<Version>> ELSE <<>>)
            \o (IF discard # 0 THEN <<Discard(discard)>> ELSE <<>>)
            \o (IF needs_did_flush THEN <<DidFlushDevice(device_flushed)>> ELSE <<>>))
  BY DEF PreCommit
<1>6. \A w \in Seq(Records) : <<>> \o w = w /\ w \o <<>> = w BY ConcatEmptySeq
<1>7. <<>> \in Seq(Records) /\ Len(<<>>) = 0 OBVIOUS
<1>8. CASE reset_version
  <2>1. ~needs_did_flush /\ n = m BY <1>1, <1>2, <1>8 DEF CommitInv, ResetInv, ResetOK
  <2>2. df = m /\ Len(t) = m BY <1>2, <2>1
  <2>3. PICK a \in Accs : a = Acc(t, m)
    <3>1. m \in 0..Len(t) BY <2>2
    <3> QED BY <3>1, Loop
  <2>4. PICK d \in Nat : d = discard /\ d <= m BY <1>4, <2>2
  <2>5. MountOK(mt, c, a, log, m) /\ ReadOK(mt, t, log, m) BY <1>1, <1>2, <2>2, <2>3 DEF MountInv, ReadInv
  <2>6. ResetOK(mt, c, a, log, TRUE, d, m) BY <1>1, <1>2, <1>8, <2>1, <2>2, <2>3, <2>4 DEF ResetInv, ResetOK
  <2>7. \A i \in 1..Len(log) : log[i].offset + 2 <= m BY <1>3, <2>1
  <2>8. Mounted(mt, m, t, log, c, a, d) BY <1>2, <2>2, <2>3, <2>4, <2>5, <2>6, <2>7 DEF Mounted
  <2>9. PICK s \in Seq(Records) :
          /\ s = ResetRecords(d) /\ s # <<>> /\ Len(s) \in Nat
          /\ ReadOK(mt, t \o s, log, m) /\ Acc(t \o s, m + Len(s)).flushed = m + 1
    <3>1. mt \in Nat BY <1>2
    <3>2. Resets(mt, m, t, log, ResetRecords(d)) BY <1>3, <2>8, <3>1, ResetRead
    <3> QED BY <3>2 DEF Resets
  <2>10. Write(s)
    <3>1. <<Version>> \in Seq(Records) /\ <<Version>> \o <<>> = <<Version>> /\ s \o <<>> = s
      <4>1. <<Version>> \in Seq(Records) BY Markers
      <4> QED BY <1>6, <2>9, <4>1
    <3>2. Write((IF d = 0 THEN <<Version>> \o <<>> ELSE <<Version>> \o <<Discard(d)>>) \o <<>>)
      BY <1>5, <1>8, <2>1, <2>4, Zenon
    <3> QED BY <2>9, <3>1, <3>2, Zenon DEF ResetRecords
  <2>11. PICK k \in Nat : k = m + Len(s) /\ m < k
    <3>1. Len(s) # 0 BY <2>9, EmptySeq
    <3> QED BY <2>9, <3>1
  <2>12. df <= Acc(t \o s, k).flushed BY <2>2, <2>9, <2>11
  <2> QED BY <1>2, <2>2, <2>9, <2>10, <2>11, <2>12, PreparedInv
<1>9. CASE ~reset_version
  <2>1. PICK a \in Accs : a = Acc(t, n) /\ MatchOK(mt, a, n, log, df) /\ m < n /\ discard = 0
    BY <1>2, <1>9, EndRead
  <2>2. ReadOK(mt, t, log, df) BY <1>1, <1>2 DEF ReadInv
  <2>3. CASE ~needs_did_flush
    <3>1. Write(<<>>)
      <4>1. Write(<<>> \o <<>> \o <<>>) BY <1>5, <1>9, <2>1, <2>3, Zenon
      <4>2. <<>> \o <<>> = <<>> BY <1>6, <1>7
      <4> QED BY <4>1, <4>2
    <3>2. t \o <<>> = t BY <1>6
    <3>3. df <= a.flushed BY <1>1, <1>2, <1>9, <2>1, <2>3 DEF CommitInv
    <3>4. n = Len(t) + Len(<<>>) BY <1>2, <1>7
    <3> QED BY <1>2, <1>7, <2>1, <2>2, <3>1, <3>2, <3>3, <3>4, PreparedInv
  <2>4. CASE needs_did_flush
    <3>1. PICK r \in Records : r = DidFlushDevice(df) /\ r.kind = "DidFlushDevice" /\ r.num = df BY Markers
    <3>2. PICK s \in Seq(Records) : s = <<r>> /\ Len(s) = 1 /\ s # <<>> /\ s[1] = r /\ Acc(t \o s, n + 1) = ReadRecord(a, r, n)
      <4>1. /\ <<r>> \in Seq(Records) /\ Len(<<r>>) = 1 /\ <<r>> # <<>> /\ <<r>>[1] = r
            /\ Acc(t \o <<r>>, Len(t) + 1) = ReadRecord(Acc(t, Len(t)), r, Len(t))
        BY AppendOne
      <4> QED BY <1>2, <2>1, <4>1
    <3>3. Write(s)
      <4>1. Write(<<>> \o <<>> \o <<DidFlushDevice(df)>>) BY <1>2, <1>5, <1>9, <2>1, <2>4, Zenon
      <4>2. <<>> \o <<>> = <<>> /\ <<>> \o s = s BY <1>6, <1>7
      <4>3. Write(<<>> \o <<>> \o s) BY <3>1, <3>2, <4>1
      <4> QED BY <4>2, <4>3
    <3>4. PICK b \in Accs : /\ b = ReadRecord(a, r, n) /\ b.transactions = a.transactions /\ b.current = a.current
                            /\ b.flushed \in {a.flushed, df} /\ a.flushed <= b.flushed /\ df <= b.flushed
      <4>1. PICK b : b = ReadRecord(a, r, n) OBVIOUS
      <4>2. /\ b \in Accs /\ b.transactions = a.transactions /\ b.current = a.current
            /\ b.flushed \in {a.flushed, df} /\ a.flushed <= b.flushed /\ df <= b.flushed
        BY <3>1, <4>1, ReadDidFlush
      <4> QED BY <4>1, <4>2
    <3>5. MatchOK(mt, b, n + 1, log, df) BY <1>2, <1>3, <2>1, <3>4, DidFlushRead
    <3>6. PICK u \in Seq(Records) : u = t \o s BY LoopAppend
    <3>7. Forward(u, m + 2)
      <4>1. Forward(t, m + 2) /\ m + 2 \in Nat BY <1>2, <2>2 DEF ReadOK
      <4>2. \A i \in 1..Len(s) : s[i].kind \in {"Version", "Discard"} => Len(t) + i <= m + 2 BY <3>1, <3>2
      <4> QED BY <3>6, <4>1, <4>2, ForwardGrown
    <3>8. \A i \in 1..Len(s) : m + 2 <= Len(t) + i \/ i = Len(s) => MatchOK(mt, Acc(u, Len(t) + i), Len(t) + i, log, df)
      <4>1. \A i \in 1..Len(s) : i = 1 BY <3>2
      <4> QED BY <1>2, <3>2, <3>4, <3>5, <3>6, <4>1
    <3>9. ReadOK(mt, u, log, df) BY <1>2, <2>2, <3>2, <3>6, <3>7, <3>8, ReadGrown, ZenonT(60)
    <3>10. PICK k \in Nat : k = n + 1 /\ k = Len(t) + Len(s) /\ m < k BY <1>2, <2>1, <3>2
    <3>11. df <= Acc(t \o s, k).flushed BY <3>2, <3>4, <3>10
    <3> QED BY <1>2, <3>3, <3>6, <3>9, <3>10, <3>11, PreparedInv
  <2> QED BY <2>3, <2>4
<1> QED BY <1>8, <1>9

\* A log with one entry more.
LEMMA AppendFacts ==
  ASSUME NEW S, NEW l \in Seq(S), NEW e \in S, NEW l2, l2 = Append(l, e)
  PROVE  /\ l2 \in Seq(S) /\ Len(l2) = Len(l) + 1 /\ Len(l) \in Nat /\ l2 # <<>>
         /\ (\A i \in 1..Len(l) : l2[i] = l[i]) /\ l2[Len(l) + 1] = e
         /\ \A i \in 1..Len(l2) : i \in 1..Len(l) \/ i = Len(l) + 1
<1>1. l2 \in Seq(S) /\ Len(l2) = Len(l) + 1 /\ Len(l) \in Nat OBVIOUS
<1>2. (\A i \in 1..Len(l) : l2[i] = l[i]) /\ l2[Len(l) + 1] = e OBVIOUS
<1>3. l2 # <<>> BY <1>1
<1>4. \A i \in 1..Len(l2) : i \in 1..Len(l) \/ i = Len(l) + 1 BY <1>1
<1> QED BY <1>1, <1>2, <1>3, <1>4

\* What was read before is as it was.
LEMMA MatchLonger ==
  ASSUME NEW l \in Seq(Entries), NEW e \in Entries, NEW l2, l2 = Append(l, e), NEW k \in Nat, k <= e.offset,
         NEW a \in Accs, Match(a, k, l)
  PROVE  Match(a, k, l2)
<1>1. PICK p \in Nat, q \in Nat : p = Len(a.transactions) /\ q = Len(l)
  <2>1. a.transactions \in Seq(Entries) BY DEF Accs
  <2> QED BY <2>1
<1>2. Len(l2) = q + 1 /\ (\A i \in 1..q : l2[i] = l[i]) /\ l2[q + 1] = e BY <1>1, AppendFacts
<1>3. p <= q /\ \A i \in 1..p : a.transactions[i] = l[i] /\ l[i].offset + 2 <= k BY <1>1 DEF Match, Begins
<1>4. Begins(a.transactions, l2) BY <1>1, <1>2, <1>3 DEF Begins
<1>5. \A i \in 1..p : l2[i].offset + 2 <= k BY <1>1, <1>2, <1>3
<1>6. CASE a.current = <<>> /\ \A i \in (p + 1)..q : k <= l[i].offset
  <2>1. ASSUME NEW i \in (p + 1)..(q + 1) PROVE k <= l2[i].offset
    <3>1. i \in (p + 1)..q \/ i = q + 1 BY <1>1
    <3>2. CASE i \in (p + 1)..q BY <1>1, <1>2, <1>6, <3>2
    <3>3. CASE i = q + 1 BY <1>2, <3>3
    <3> QED BY <3>1, <3>2, <3>3
  <2> QED BY <1>1, <1>2, <1>4, <1>5, <1>6, <2>1 DEF Match
<1>7. CASE p < q /\ a.current = <<l[p + 1]>> /\ l[p + 1].offset = k - 1
  <2>1. p < q + 1 /\ p + 1 \in 1..q BY <1>1, <1>7
  <2>2. l2[p + 1] = l[p + 1] BY <1>2, <2>1
  <2> QED BY <1>1, <1>2, <1>4, <1>5, <1>7, <2>1, <2>2 DEF Match
<1> QED BY <1>1, <1>6, <1>7 DEF Match

\* The transaction e, with its records r and x, comes after the journal t, in which
\* a has been read.
Applies(mt, df, n, t, l, a, e, r, x) ==
  /\ n = Len(t) /\ \A i \in 1..Len(l) : l[i].offset + 2 <= n
  /\ a = Acc(t, n) /\ MatchOK(mt, a, n, l, df) /\ ReadOK(mt, t, l, df)
  /\ e.offset = n /\ Placed(r, n) = e
  /\ \A i \in 1..Len(l) : a.flushed <= l[i].offset => e.new \notin {l[i].new, l[i].old}
  /\ r.kind = "Mutation" /\ x.kind = "Commit"

\* It is read when its two records are there.
LEMMA ApplyRead ==
  ASSUME NEW mt \in Nat, NEW df \in Nat, NEW n \in Nat, NEW t \in Seq(Records), NEW l \in Seq(Entries),
         NEW a \in Accs, NEW e \in Entries, NEW r \in Records, NEW x \in Records, Applies(mt, df, n, t, l, a, e, r, x)
  PROVE  ReadOK(mt, t \o <<r, x>>, Append(l, e), df) /\ Acc(t \o <<r, x>>, n + 2).flushed = a.flushed
<1> PICK l2, s : l2 = Append(l, e) /\ s = <<r, x>> OBVIOUS
<1> SUFFICES ReadOK(mt, t \o s, l2, df) /\ Acc(t \o s, n + 2).flushed = a.flushed
  OBVIOUS
<1> USE DEF Applies
<1>1. PICK u \in Seq(Records) : u = t \o s /\ s \in Seq(Records) /\ Len(s) = 2 /\ s # <<>> /\ s[1] = r /\ s[2] = x
  <2>1. s \in Seq(Records) /\ Len(s) = 2 /\ s # <<>> /\ s[1] = r /\ s[2] = x BY TwoRecords
  <2>2. t \o s \in Seq(Records) BY <2>1, LoopAppend
  <2> QED BY <2>1, <2>2
<1>2. Acc(u, n + 1) = ReadRecord(a, r, n) /\ Acc(u, n + 2) = ReadRecord(Acc(u, n + 1), x, n + 1)
  BY <1>1, TwoRecords
<1>3. PICK T \in Seq(Entries), f \in Nat, q \in Nat : T = a.transactions /\ f = a.flushed /\ q = Len(l) BY DEF Accs
<1>4. /\ Match(a, n, l) /\ Distinct(a) /\ Known(mt, a, df) BY DEF MatchOK
<1>5. Len(T) = q /\ a.current = <<>> /\ \A i \in 1..q : T[i] = l[i] BY <1>3, <1>4, Closed, ZenonT(60)
<1>6. T = l BY <1>3, <1>5, SeqEqual
<1>7. /\ l2 \in Seq(Entries) /\ Len(l2) = q + 1 /\ (\A i \in 1..q : l2[i] = l[i]) /\ l2[q + 1] = e
      /\ \A i \in 1..Len(l2) : i \in 1..q \/ i = q + 1
  BY <1>3, AppendFacts
<1>8. PICK b \in Accs : b = Acc(u, n + 1) /\ b.transactions = T /\ b.current = <<e>> /\ b.flushed = f
  <2>1. ReadRecord(a, r, n) \in Accs BY ReadRecordFacts
  <2>2. /\ ReadRecord(a, r, n).transactions = a.transactions
        /\ ReadRecord(a, r, n).current = (IF a.current = <<>> THEN <<Placed(r, n)>> ELSE a.current)
        /\ ReadRecord(a, r, n).flushed = a.flushed
    BY ReadMutation
  <2> QED BY <1>2, <1>3, <1>5, <2>1, <2>2
<1>9. PICK d \in Accs : d = Acc(u, n + 2) /\ d.transactions = l2 /\ d.current = <<>> /\ d.flushed = f
  <2>1. n + 1 \in Nat OBVIOUS
  <2>2. ReadRecord(b, x, n + 1) \in Accs BY <2>1, ReadRecordFacts
  <2>3. /\ ReadRecord(b, x, n + 1).transactions = b.transactions \o b.current
        /\ ReadRecord(b, x, n + 1).current = <<>> /\ ReadRecord(b, x, n + 1).flushed = b.flushed
    BY <2>1, ReadCommit
  <2>4. l \o <<e>> = Append(l, e) OBVIOUS
  <2> QED BY <1>2, <1>6, <1>8, <2>2, <2>3, <2>4
<1>10. MatchOK(mt, b, n + 1, l2, df)
  <2>1. Begins(T, l2) BY <1>5, <1>7 DEF Begins
  <2>2. \A i \in 1..q : l2[i].offset + 2 <= n + 1
    <3>1. \A i \in 1..q : l[i].offset \in Nat /\ l[i].offset + 2 <= n BY <1>3, EntryFacts
    <3> QED BY <1>7, <3>1
  <2>3. q < q + 1 /\ n = (n + 1) - 1 OBVIOUS
  <2>4. Match(b, n + 1, l2) BY <1>5, <1>7, <1>8, <2>1, <2>2, <2>3 DEF Match
  <2>5. Distinct(b)
    <3>1. b.transactions = a.transactions /\ b.flushed = a.flushed BY <1>3, <1>8
    <3> QED BY <1>4, <3>1 DEF Distinct
  <2>6. Known(mt, b, df) BY <1>3, <1>4, <1>8 DEF Known
  <2> QED BY <2>4, <2>5, <2>6 DEF MatchOK
<1>11. MatchOK(mt, d, n + 2, l2, df)
  <2>1. \A i \in 1..Len(l2) : l2[i].offset + 2 <= n + 2
    <3>1. \A i \in 1..q : l[i].offset \in Nat /\ l[i].offset + 2 <= n BY <1>3, EntryFacts
    <3>2. ASSUME NEW i \in 1..q PROVE l2[i].offset + 2 <= n + 2
      <4>1. PICK o \in Nat : o = l2[i].offset /\ o + 2 <= n BY <1>7, <3>1
      <4>2. o + 2 <= n + 2 BY <4>1, Farther, Zenon
      <4> QED BY <4>1, <4>2
    <3> QED BY <1>7, <3>2
  <2>2. n + 2 \in Nat /\ n + 2 <= n + 2 OBVIOUS
  <2>3. Match(d, n + 2, l2) BY <1>7, <1>9, <2>1, <2>2, StillClosed
  <2>4. Distinct(d)
    <3>1. \A i, j \in 1..q : i < j /\ l[i].offset >= f => l[j].new \notin {l[i].new, l[i].old}
      BY <1>3, <1>4, <1>5, <1>6 DEF Distinct
    <3>2. \A i \in 1..q : l[i].offset >= f => e.new \notin {l[i].new, l[i].old}
      <4>1. \A i \in 1..q : l[i].offset \in Nat BY <1>3, EntryFacts
      <4> QED BY <1>3, <4>1
    <3>3. ASSUME NEW i \in 1..Len(l2), NEW j \in 1..Len(l2), i < j, l2[i].offset >= f
          PROVE  l2[j].new \notin {l2[i].new, l2[i].old}
      <4>1. i \in 1..q /\ l2[i] = l[i] BY <1>7, <3>3
      <4>2. CASE j \in 1..q BY <1>7, <3>1, <3>3, <4>1, <4>2
      <4>3. CASE j = q + 1 BY <1>7, <3>2, <3>3, <4>1, <4>3
      <4> QED BY <1>7, <4>2, <4>3
    <3> QED BY <1>9, <3>3 DEF Distinct
  <2>5. Known(mt, d, df) BY <1>3, <1>4, <1>9 DEF Known
  <2> QED BY <2>3, <2>4, <2>5 DEF MatchOK
<1>12. ASSUME NEW k \in 0..Len(t), MatchOK(mt, Acc(t, k), k, l, df) PROVE MatchOK(mt, Acc(t, k), k, l2, df)
  <2>1. PICK z \in Accs : z = Acc(t, k) BY Loop
  <2>2. k \in Nat /\ k <= e.offset OBVIOUS
  <2>3. Match(z, k, l) BY <1>12, <2>1 DEF MatchOK
  <2>4. Match(z, k, l2) BY <2>2, <2>3, MatchLonger
  <2> QED BY <1>12, <2>1, <2>4 DEF MatchOK
<1>13. PICK m \in Nat : m = Start(mt) + 2
  <2>1. Start(mt) \in Nat BY StartFacts
  <2> QED BY <2>1
<1>14. Forward(u, m)
  <2>1. Forward(t, m) BY <1>13 DEF ReadOK
  <2>2. \A i \in 1..Len(s) : s[i].kind \in {"Mutation", "Commit"} BY <1>1
  <2>3. \A i \in 1..Len(s) : s[i].kind \in {"Version", "Discard"} => Len(t) + i <= m BY <2>2
  <2> QED BY <1>1, <2>1, <2>3, ForwardGrown
<1>15. ASSUME NEW i \in 1..Len(s) PROVE MatchOK(mt, Acc(u, Len(t) + i), Len(t) + i, l2, df)
  <2>1. i = 1 \/ i = 2 BY <1>1
  <2>2. CASE i = 1 BY <1>8, <1>10, <2>2
  <2>3. CASE i = 2 BY <1>9, <1>11, <2>3
  <2> QED BY <2>1, <2>2, <2>3
<1>16. ReadOK(mt, u, l2, df)
  <2>1. \A k \in 0..Len(t) : MatchOK(mt, Acc(t, k), k, l, df) => MatchOK(mt, Acc(t, k), k, l2, df) BY <1>12
  <2>2. \A i \in 1..Len(s) : Start(mt) + 2 <= Len(t) + i \/ i = Len(s) => MatchOK(mt, Acc(u, Len(t) + i), Len(t) + i, l2, df)
    BY <1>15
  <2>3. Forward(u, Start(mt) + 2) BY <1>13, <1>14
  <2> QED BY <1>1, <2>1, <2>2, <2>3, ReadGrown
<1> QED BY <1>1, <1>3, <1>9, <1>16

\* A log that has grown keeps its beginnings.
LEMMA BeginsLonger ==
  ASSUME NEW S, NEW l \in Seq(S), NEW e \in S, NEW x, Len(x) \in Nat, Begins(x, l)
  PROVE  Begins(x, Append(l, e))
<1>1. Len(Append(l, e)) = Len(l) + 1 /\ Len(l) \in Nat /\ \A i \in 1..Len(l) : Append(l, e)[i] = l[i] BY AppendFacts
<1>2. Len(x) <= Len(l) /\ \A i \in 1..Len(x) : x[i] = l[i] BY DEF Begins
<1> QED BY <1>1, <1>2 DEF Begins

\* The stored blocks stay as they should be when the log grows.
LEMMA StoresLonger ==
  ASSUME NEW mt, NEW dk, NEW ca, NEW old, NEW df, NEW l \in Seq(Entries), NEW e \in Entries, NEW l2, l2 = Append(l, e),
         StoresOK(mt, dk, ca, old \cup {l}, df), DOMAIN dk \subseteq Nat, DOMAIN ca \subseteq Nat
  PROVE  StoresOK(mt, dk, ca, old \cup {l2}, df)
<1>1. ASSUME NEW h, NEW b \in Nat, StoredOK(mt, h, b, old \cup {l}, df) PROVE StoredOK(mt, h, b, old \cup {l2}, df)
  <2>1. PICK s \in Seq(Records), n \in Nat : s = h.recs /\ n = Start(b + 1) /\ Len(s) = n
    <3>1. b + 1 \in Nat OBVIOUS
    <3>2. h \in Histories /\ Len(h.recs) = Start(b + 1) BY <1>1 DEF StoredOK
    <3> QED BY <3>1, <3>2, StartFacts DEF Histories
  <2>2. PICK a \in Accs : a = Acc(s, n)
    <3>1. n \in 0..Len(s) BY <2>1
    <3> QED BY <3>1, Loop
  <2>3. PICK x \in old \cup {l} : Begins(a.transactions, x) BY <1>1, <2>1, <2>2 DEF StoredOK
  <2>4. Len(a.transactions) \in Nat
    <3>1. a.transactions \in Seq(Entries) BY DEF Accs
    <3> QED BY <3>1
  <2>5. \E y \in old \cup {l2} : Begins(a.transactions, y)
    <3>1. CASE x \in old BY <2>3, <3>1
    <3>2. CASE x = l
      <4>1. Begins(a.transactions, l2) BY <2>3, <2>4, <3>2, BeginsLonger
      <4> QED BY <4>1
    <3> QED BY <2>3, <3>1, <3>2
  <2> QED BY <1>1, <2>1, <2>2, <2>5 DEF StoredOK
<1>2. \A b \in DOMAIN dk : b \in Nat /\ StoredOK(mt, dk[b], b, old \cup {l}, df) BY DEF StoresOK
<1>3. \A b \in DOMAIN ca : b \in Nat /\ StoredOK(mt, ca[b], b, old \cup {l}, df) BY DEF StoresOK
<1>4. \A b \in DOMAIN dk : StoredOK(mt, dk[b], b, old \cup {l2}, df) BY <1>1, <1>2
<1>5. \A b \in DOMAIN ca : StoredOK(mt, ca[b], b, old \cup {l2}, df) BY <1>1, <1>3
<1> QED BY <1>4, <1>5 DEF StoresOK

\* The transaction that is applied fits the log, and its range is not one that
\* the checksum list could confuse with it.
LEMMA AppliedTx ==
  ASSUME NEW mt, NEW c, Inv(mt, c), commit.stage = "prepared", NEW n \in Nat, n = Offset
  PROVE  /\ Placed(commit.tx, n) \in Txs /\ Mutation(commit.tx) \in Records /\ Mutation(commit.tx).kind = "Mutation"
         /\ Placed(Mutation(commit.tx), n) = Placed(commit.tx, n) /\ commit.tx.old \in Ranges
         /\ Placed(commit.tx, n).offset = n /\ Placed(commit.tx, n).new = commit.tx.new
         /\ Placed(commit.tx, n).old = log[Len(log)].new /\ commit.tx.old = log[Len(log)].new
         /\ Placed(commit.tx, n).num = commit.tx.num
         /\ Placed(commit.tx, n).new # Placed(commit.tx, n).old
         /\ \A i \in 1..Len(log) : Acc(journal.recs, Offset).flushed <= log[i].offset =>
              commit.tx.new \notin {log[i].new, log[i].old}
<1>1. TypeInv /\ LogInv /\ CommitInv BY DEF Inv
<1>2. /\ commit.tx \in [num : 0..MaxTxs, new : Ranges, old : Ranges \cup {0}] BY <1>1 DEF TypeInv
<1>3. PICK tx \in [num : 0..MaxTxs, new : Ranges, old : Ranges \cup {0}] : tx = commit.tx BY <1>2
<1>4. MaxTxs \in Nat /\ Ranges \subseteq Nat BY JournalAssumption
<1>5. /\ tx.num \in 0..MaxTxs /\ tx.new \in Ranges /\ tx.old \in Ranges \cup {0}
      /\ tx.num \in Nat /\ tx.new \in Nat /\ tx.old \in Nat
  <2>1. tx.num \in 0..MaxTxs /\ tx.new \in Ranges /\ tx.old \in Ranges \cup {0} OBVIOUS
  <2>2. (\A y \in 0..MaxTxs : y \in Nat) /\ (\A y \in Ranges \cup {0} : y \in Nat) BY <1>4
  <2> QED BY <2>1, <2>2
<1>6. Placed(tx, n) \in Txs BY <1>5 DEF Placed, Txs
<1>7. Mutation(tx) \in Records /\ Mutation(tx).kind = "Mutation" BY <1>5 DEF Mutation, Record, Records, Kinds
<1>8. /\ Placed(Mutation(tx), n) = Placed(tx, n) /\ Placed(tx, n).offset = n /\ Placed(tx, n).new = tx.new
      /\ Placed(tx, n).old = tx.old /\ Placed(tx, n).num = tx.num
  BY DEF Placed, Mutation, Record
<1>9. tx.new # Current /\ tx.old = Current /\ Current = log[Len(log)].new /\ Current \in Ranges
  BY <1>1, <1>3, LogFacts DEF CommitInv
<1>10. PICK a \in Accs : a = Acc(journal.recs, Offset)
  <2>1. ~reset_version BY <1>1 DEF CommitInv
  <2> QED BY <2>1, EndRead
<1>11. a.flushed \in Nat BY DEF Accs
<1>12. \A i \in 1..Len(log) : a.flushed <= log[i].offset => tx.new # log[i].old BY <1>1, <1>3, <1>10 DEF CommitInv
<1>13. ASSUME NEW i \in 1..Len(log), a.flushed <= log[i].offset PROVE tx.new # log[i].new
  <2>1. Len(log) \in Nat BY <1>1, LogFacts
  <2>2. CASE i = Len(log) BY <1>9, <2>2
  <2>3. CASE i # Len(log)
    <3>1. i \in 1..(Len(log) - 1) /\ i + 1 \in 1..Len(log) BY <2>1, <2>3
    <3>2. log[i + 1].old = log[i].new /\ log[i].offset + 2 <= log[i + 1].offset BY <1>1, <3>1, LogFacts DEF Chained
    <3>3. log[i].offset \in Nat /\ log[i + 1].offset \in Nat BY <1>1, <3>1, LogFacts
    <3>4. a.flushed <= log[i + 1].offset BY <1>11, <1>13, <3>2, <3>3
    <3> QED BY <1>12, <3>1, <3>2, <3>4
  <2> QED BY <2>2, <2>3
<1> QED BY <1>3, <1>6, <1>7, <1>8, <1>9, <1>10, <1>12, <1>13

\* write_and_apply_mutations.
LEMMA WriteAndApplyInv ==
  ASSUME NEW mt, NEW c, Inv(mt, c), WriteAndApplyMutations
  PROVE  Inv(mt, c)'
<1>1. /\ TypeInv /\ BlocksInv(mt) /\ StoredInv(mt) /\ ReadInv(mt) /\ MountInv(mt, c) /\ ResetInv(mt, c)
      /\ LogInv /\ SyncInv /\ DataInv /\ CommitInv
  BY DEF Inv
<1>2. /\ UNCHANGED <<disk, cached, data, dcached, device_flushed, needs_did_flush, reset_version, discard, terminate,
                     sync, flusher, durable, past, txs, syncs, crashes>>
      /\ commit.stage = "prepared" /\ Write(<<Mutation(commit.tx), Commit>>)
      /\ log' = Append(log, Placed(commit.tx, Offset))
      /\ deallocs' = deallocs \cup {[offset |-> Offset, range |-> commit.tx.old]}
  BY DEF WriteAndApplyMutations, device, inner, promise, counters
<1>3. /\ commit' \in [stage : {"idle", "written", "prepared", "applied"},
                      tx : [num : 0..MaxTxs, new : Ranges, old : Ranges \cup {0}]]
      /\ commit'.stage = "applied"
  <2>1. commit \in [stage : {"idle", "written", "prepared", "applied"},
                    tx : [num : 0..MaxTxs, new : Ranges, old : Ranges \cup {0}]] BY <1>1 DEF TypeInv
  <2>2. commit' = [commit EXCEPT !.stage = "applied"] BY DEF WriteAndApplyMutations
  <2> QED BY <2>1, <2>2
<1>4. ~reset_version BY <1>1, <1>2 DEF CommitInv
<1>5. PICK t \in Seq(Records), n \in Nat : t = journal.recs /\ n = Len(t) /\ n = Offset
  BY <1>1 DEF BlocksInv, BlocksOK, Histories, Offset
<1>6. PICK a \in Accs : a = Acc(t, n) /\ MatchOK(mt, a, n, log, device_flushed) /\ discard = 0
  BY <1>4, <1>5, EndRead
<1>7. PICK e \in Txs : /\ e = Placed(commit.tx, n) /\ e.offset = n /\ e.new = commit.tx.new /\ e.old = commit.tx.old
                       /\ e.num = commit.tx.num /\ e.old = log[Len(log)].new /\ e.new # e.old
  BY <1>2, <1>5, AppliedTx
<1>8. e \in Entries /\ e.new \in Ranges /\ e.old \in Ranges
  <2>1. e \in Entries BY TxEntries
  <2>2. e.new \in Ranges BY DEF Txs
  <2>3. commit.tx.old \in Ranges BY <1>2, <1>5, AppliedTx
  <2> QED BY <1>7, <2>1, <2>2, <2>3
<1>9. PICK q \in Nat : /\ q = Len(log) /\ log \in Seq(Entries) /\ log \in Seq(Txs) /\ 1 <= q
                       /\ \A i \in 1..q : log[i].offset \in Nat /\ log[i].offset + 2 <= n
  BY <1>1, <1>5, LogFacts DEF LogInv
<1>10. log' = Append(log, e) BY <1>2, <1>5, <1>7
<1>11. /\ log' \in Seq(Txs) /\ Len(log') = q + 1 /\ (\A i \in 1..q : log'[i] = log[i]) /\ log'[q + 1] = e
       /\ (\A i \in 1..(q + 1) : i \in 1..q \/ i = q + 1) /\ log' # <<>>
  BY <1>9, <1>10, AppendFacts
<1>12. PICK r \in Records, x \in Records : /\ r = Mutation(commit.tx) /\ r.kind = "Mutation" /\ Placed(r, n) = e
                                           /\ x = Commit /\ x.kind = "Commit"
  BY <1>2, <1>5, <1>7, AppliedTx, Markers
<1>13. PICK s \in Seq(Records) : s = <<r, x>> /\ Len(s) = 2
  <2>1. \E p \in Seq(Records) : p = <<r, x>> /\ Len(p) = 2 /\ p[1] = r /\ p[2] = x /\ p # <<>> BY PairConcat
  <2> QED BY <2>1
<1>14. Write(s) BY <1>2, <1>12, <1>13
<1>15. /\ journal'.recs = t \o s /\ Offset' = n + 2 /\ UNCHANGED <<taken, flushed>> /\ BlocksInv(mt)'
       /\ Start(mt) \in Nat /\ Start(mt) <= device_flushed /\ device_flushed <= n /\ device_flushed \in Nat
       /\ Acc(journal'.recs, Start(mt)) = Acc(t, Start(mt))
  BY <1>2, <1>5, <1>13, <1>14, WriteInv
<1>16. ReadOK(mt, t \o s, log', device_flushed) /\ Acc(t \o s, n + 2).flushed = a.flushed
  <2>1. \A i \in 1..Len(log) : a.flushed <= log[i].offset => e.new \notin {log[i].new, log[i].old}
    BY <1>2, <1>5, <1>6, <1>7, AppliedTx
  <2>2. ReadOK(mt, t, log, device_flushed) /\ mt \in Nat BY <1>1, <1>5 DEF ReadInv, BlocksInv, BlocksOK
  <2>3. PICK l \in Seq(Entries), df \in Nat : l = log /\ df = device_flushed BY <1>9, <1>15
  <2>4. \A i \in 1..Len(l) : l[i].offset + 2 <= n BY <1>9, <2>3
  <2>5. \A i \in 1..Len(l) : a.flushed <= l[i].offset => e.new \notin {l[i].new, l[i].old} BY <2>1, <2>3
  <2>6. MatchOK(mt, a, n, l, df) /\ ReadOK(mt, t, l, df) BY <1>6, <2>2, <2>3
  <2>7. Applies(mt, df, n, t, l, a, e, r, x) BY <1>5, <1>6, <1>7, <1>12, <2>4, <2>5, <2>6 DEF Applies
  <2>8. ReadOK(mt, t \o <<r, x>>, Append(l, e), df) /\ Acc(t \o <<r, x>>, n + 2).flushed = a.flushed
    BY <1>8, <2>2, <2>7, ApplyRead
  <2> QED BY <1>10, <1>13, <2>3, <2>8
<1>17. ReadInv(mt)' BY <1>2, <1>15, <1>16 DEF ReadInv
<1>18. TypeInv'
  <2>1. [offset |-> n, range |-> commit.tx.old] \in [offset : Nat, range : Ranges] BY <1>7, <1>8
  <2>2. deallocs' \subseteq [offset : Nat, range : Ranges] BY <1>1, <1>2, <1>5, <2>1 DEF TypeInv
  <2> QED BY <1>1, <1>2, <1>3, <2>2 DEF TypeInv
<1>19. StoredInv(mt)'
  <2>1. DOMAIN disk \subseteq Nat /\ DOMAIN cached \subseteq Nat
    <3>1. DOMAIN disk \subseteq Nat /\ DOMAIN cached \subseteq mt..(taken - 1) /\ mt \in Nat /\ taken \in Nat
      BY <1>1 DEF BlocksInv, BlocksOK
    <3> QED BY <3>1
  <2>2. StoresOK(mt, disk, cached, past \cup {log}, device_flushed) BY <1>1 DEF StoredInv
  <2>3. StoresOK(mt, disk, cached, past \cup {log'}, device_flushed) BY <1>8, <1>9, <1>10, <2>1, <2>2, StoresLonger
  <2> QED BY <1>2, <2>3 DEF StoredInv
<1>20. Start(mt) < n BY <1>4, <1>5, EndRead
<1>21. MountInv(mt, c)'
  <2>1. PICK z : z = Acc(t, Start(mt)) OBVIOUS
  <2>2. MountOK(mt, c, z, log, device_flushed) BY <1>1, <1>5, <2>1 DEF MountInv
  <2>3. c \in 1..q /\ c \in 1..(q + 1) BY <1>9, <2>2 DEF MountOK
  <2>4. \A i \in 1..c : z.transactions[i] = log'[i] /\ log'[i].offset + 2 <= Start(mt)
    <3>1. \A i \in 1..c : i \in 1..q BY <2>3
    <3> QED BY <1>11, <2>2, <3>1 DEF MountOK
  <2>5. ASSUME NEW i \in (c + 1)..(q + 1) PROVE Start(mt) + 1 <= log'[i].offset
    <3>1. i \in (c + 1)..q \/ i = q + 1 BY <2>3
    <3>2. CASE i \in (c + 1)..q
      <4>1. i \in 1..q BY <2>3, <3>2
      <4> QED BY <1>9, <1>11, <2>2, <3>2, <4>1 DEF MountOK
    <3>3. CASE i = q + 1 BY <1>7, <1>11, <1>15, <1>20, <3>3
    <3> QED BY <3>1, <3>2, <3>3
  <2>6. MountOK(mt, c, z, log', device_flushed) BY <1>11, <2>2, <2>3, <2>4, <2>5 DEF MountOK
  <2> QED BY <1>2, <1>15, <2>1, <2>6 DEF MountInv
<1>22. ResetInv(mt, c)'
  <2>1. Len(journal'.recs) = n + 2 /\ Start(mt) < n + 2 BY <1>15, <1>20 DEF Offset
  <2> QED BY <1>2, <1>4, <1>6, <2>1 DEF ResetInv, ResetOK
<1>23. LogInv'
  <2>1. Chained(log')
    <3>1. ASSUME NEW i \in 1..(q + 1) PROVE log'[i].new # log'[i].old
      <4>1. CASE i \in 1..q BY <1>1, <1>9, <1>11, <4>1, LogFacts DEF Chained
      <4>2. CASE i = q + 1 BY <1>7, <1>11, <4>2
      <4> QED BY <1>11, <4>1, <4>2
    <3>2. ASSUME NEW i \in 1..q PROVE log'[i + 1].old = log'[i].new /\ log'[i].offset + 2 <= log'[i + 1].offset
      <4>1. CASE i = q BY <1>7, <1>9, <1>11, <4>1
      <4>2. CASE i # q
        <5>1. i \in 1..(q - 1) /\ i + 1 \in 1..q BY <4>2
        <5> QED BY <1>1, <1>9, <1>11, <5>1, LogFacts DEF Chained
      <4> QED BY <4>1, <4>2
    <3>3. (q + 1) - 1 = q OBVIOUS
    <3> QED BY <1>11, <3>1, <3>2, <3>3 DEF Chained
  <2>2. LogOK(log') BY <1>11, <2>1 DEF LogOK
  <2>3. \A i \in 1..(q + 1) : log'[i].offset + 2 <= n + 2
    <3>1. \A i \in 1..q : log'[i].offset + 2 <= n + 2 BY <1>9, <1>11
    <3> QED BY <1>7, <1>11, <3>1
  <2>4. \A i \in 1..(q + 1) : log'[i].offset < device_flushed => log'[i].offset + 2 <= device_flushed
    <3>1. \A i \in 1..q : log'[i].offset < device_flushed => log'[i].offset + 2 <= device_flushed
      BY <1>1, <1>9, <1>11 DEF LogInv
    <3>2. ~(n < device_flushed) BY <1>15
    <3> QED BY <1>7, <1>11, <3>1, <3>2
  <2>5. durable \in 1..q /\ durable \in 1..(q + 1) /\ \A i \in 1..durable : i \in 1..q /\ log[i].offset < device_flushed
    BY <1>1, <1>9 DEF LogInv
  <2>6. \A i \in 1..durable : log'[i].offset < device_flushed BY <1>11, <2>5
  <2>7. \A l \in past : LogOK(l) BY <1>1 DEF LogInv
  <2> QED BY <1>2, <1>11, <1>15, <2>2, <2>3, <2>4, <2>5, <2>6, <2>7 DEF LogInv
<1>24. sync.offset \in Nat /\ sync.offset <= n /\ sync.covers \in 0..q BY <1>1, <1>5, <1>9 DEF SyncInv
<1>25. SyncInv'
  <2>1. sync.offset <= n + 2 /\ sync.covers \in 0..(q + 1) BY <1>24
  <2>2. \A i \in 1..sync.covers : log'[i].offset + 2 <= sync.offset
    <3>1. \A i \in 1..sync.covers : i \in 1..q BY <1>24
    <3> QED BY <1>1, <1>11, <3>1 DEF SyncInv
  <2>3. ASSUME sync.stage # "idle", NEW i \in (sync.covers + 1)..(q + 1) PROVE sync.offset <= log'[i].offset
    <3>1. i \in (sync.covers + 1)..q \/ i = q + 1 BY <1>24
    <3>2. CASE i \in (sync.covers + 1)..q
      <4>1. i \in 1..q BY <1>24, <3>2
      <4> QED BY <1>1, <1>9, <1>11, <2>3, <3>2, <4>1 DEF SyncInv
    <3>3. CASE i = q + 1 BY <1>7, <1>11, <1>24, <3>3
    <3> QED BY <3>1, <3>2, <3>3
  <2> QED BY <1>1, <1>2, <1>11, <1>15, <2>1, <2>2, <2>3 DEF SyncInv
<1>26. DataInv'
  <2>1. ASSUME NEW i \in 1..q, NEW offset \in Nat, Live(i, offset)' PROVE Live(i, offset)
    <3>1. CASE i = q BY <1>9, <3>1 DEF Live
    <3>2. CASE i # q
      <4>1. i < q /\ i < q + 1 /\ i + 1 \in 1..q BY <3>2
      <4>2. offset <= log'[i + 1].offset BY <1>11, <2>1, <4>1 DEF Live
      <4> QED BY <1>11, <4>1, <4>2 DEF Live
    <3> QED BY <3>1, <3>2
  <2>2. \A r2 : Held(r2)' = Held(r2) BY <1>2 DEF Held
  <2>3. ASSUME NEW i \in 1..(q + 1), Live(i, device_flushed)'
        PROVE  /\ Held(log'[i].new) = log'[i].num
               /\ log'[i].offset < device_flushed => log'[i].new \notin DOMAIN dcached
    <3>1. CASE i \in 1..q
      <4>1. Live(i, device_flushed)
        <5>1. PICK df \in Nat : df = device_flushed /\ device_flushed' = df BY <1>2, <1>15
        <5>2. Live(i, df)' BY <2>3, <5>1 DEF Live
        <5>3. Live(i, df) BY <2>1, <3>1, <5>2
        <5> QED BY <5>1, <5>3 DEF Live
      <4> QED BY <1>1, <1>9, <1>11, <3>1, <4>1 DEF DataInv
    <3>2. CASE i = q + 1
      <4>1. Held(commit.tx.new) = commit.tx.num BY <1>1, <1>2 DEF CommitInv
      <4>2. ~(n < device_flushed) BY <1>15
      <4> QED BY <1>7, <1>11, <3>2, <4>1, <4>2
    <3> QED BY <1>11, <3>1, <3>2
  <2>4. ASSUME sync.stage = "flushed", NEW i \in 1..(q + 1), Live(i, sync.offset)', log'[i].offset < sync.offset
        PROVE  log'[i].new \notin DOMAIN dcached
    <3>1. CASE i \in 1..q
      <4>1. Live(i, sync.offset)
        <5>1. PICK so \in Nat : so = sync.offset /\ sync'.offset = so BY <1>2, <1>24
        <5>2. Live(i, so)' BY <2>4, <5>1 DEF Live
        <5>3. Live(i, so) BY <2>1, <3>1, <5>2
        <5> QED BY <5>1, <5>3 DEF Live
      <4> QED BY <1>1, <1>9, <1>11, <2>4, <3>1, <4>1 DEF DataInv
    <3>2. CASE i = q + 1 BY <1>7, <1>11, <1>24, <2>4, <3>2
    <3> QED BY <1>11, <3>1, <3>2
  <2>5. ASSUME NEW i \in 1..(q + 1), device_flushed <= log'[i].offset
        PROVE  [offset |-> log'[i].offset, range |-> log'[i].old] \in deallocs'
    <3>1. CASE i \in 1..q BY <1>1, <1>2, <1>9, <1>11, <2>5, <3>1 DEF DataInv
    <3>2. CASE i = q + 1 BY <1>2, <1>5, <1>7, <1>11, <3>2
    <3> QED BY <1>11, <3>1, <3>2
  <2> QED BY <1>2, <1>11, <2>2, <2>3, <2>4, <2>5 DEF DataInv, Held
<1>27. CommitInv'
  <2>1. Acc(journal.recs, Offset)' = Acc(t \o s, n + 2) BY <1>15
  <2> QED BY <1>1, <1>2, <1>3, <1>4, <1>5, <1>6, <1>16, <2>1 DEF CommitInv
<1> QED BY <1>15, <1>17, <1>18, <1>19, <1>21, <1>22, <1>23, <1>25, <1>26, <1>27 DEF Inv

-----------------------------------------------------------------------------
(***************************************************************************)
(* A crash.                                                                *)
(***************************************************************************)
\* The flush of the device divides the log: what a sync has promised is before
\* it.
LEMMA Divided ==
  ASSUME LogInv, NEW df \in Nat, df = device_flushed
  PROVE  \E q \in 1..Len(log) : /\ durable <= q /\ \A i \in 1..q : log[i].offset < df
                                /\ q < Len(log) => df <= log[q + 1].offset
<1>1. /\ Len(log) \in Nat /\ Len(log) \in 1..Len(log) /\ durable \in 1..Len(log)
      /\ \A i \in 1..durable : log[i].offset < df
  BY LogFacts DEF LogInv
<1>2. \A i \in 1..Len(log) : log[i].offset \in Nat BY LogFacts
<1> DEFINE S == {i \in 1..Len(log) : i < Len(log) => df <= log[i + 1].offset}
<1>3. S \in SUBSET Nat /\ Len(log) \in S BY <1>1
<1>4. PICK q \in S : \A j \in S : q <= j
  <2> HIDE DEF S
  <2> QED BY <1>3, LeastNat
<1>5. q \in 1..Len(log) /\ (q < Len(log) => df <= log[q + 1].offset) BY <1>4
<1>6. durable <= q
  <2>1. SUFFICES ASSUME q < durable PROVE FALSE BY <1>1, <1>5
  <2>2. q < Len(log) /\ q + 1 \in 1..durable /\ q + 1 \in 1..Len(log) BY <1>1, <1>5, <2>1
  <2>3. log[q + 1].offset < df /\ df <= log[q + 1].offset /\ log[q + 1].offset \in Nat BY <1>1, <1>2, <1>5, <2>2
  <2> QED BY <2>3
<1>7. ASSUME NEW i \in 1..q PROVE log[i].offset < df
  <2>1. CASE i = 1
    <3>1. 1 \in 1..durable BY <1>1
    <3> QED BY <1>1, <2>1, <3>1
  <2>2. CASE i # 1
    <3>1. i - 1 \in 1..Len(log) /\ i - 1 < Len(log) /\ (i - 1) + 1 = i /\ ~(q <= i - 1) /\ i \in 1..Len(log) BY <1>1, <1>5, <2>2
    <3>2. i - 1 \notin S BY <1>4, <3>1
    <3>3. ~(df <= log[i].offset) BY <3>1, <3>2
    <3> QED BY <1>2, <3>1, <3>3
  <2> QED BY <2>1, <2>2
<1> QED BY <1>5, <1>6, <1>7

\* What the last transaction before the flush wrote has reached the device.
LEMMA Survives ==
  ASSUME LogInv, TypeInv, DataInv, NEW df \in Nat, df = device_flushed, NEW q \in 1..Len(log), log[q].offset < df,
         q < Len(log) => df <= log[q + 1].offset, NEW R \in SUBSET DOMAIN dcached
  PROVE  Over(data, dcached, R)[log[q].new] = log[q].num
<1>1. Live(q, device_flushed) BY DEF Live
<1>2. Held(log[q].new) = log[q].num /\ log[q].new \notin DOMAIN dcached BY <1>1 DEF DataInv
<1>3. data[log[q].new] = log[q].num BY <1>2 DEF Held
<1>4. log[q].new \in DOMAIN data
  <2>1. log[q].new \in Ranges BY LogFacts
  <2> QED BY <2>1 DEF TypeInv
<1>5. log[q].new \notin R BY <1>2
<1> QED BY <1>3, <1>4, <1>5 DEF Over

\* What a mount makes of the blocks D and the data in contents.
Mount(D, contents, k, a, to, L, d, h) ==
  /\ k = Readable(D) /\ a = Acc(D[k - 1].recs, Start(k))
  /\ to = Verify(a, contents, Start(k)) /\ L = Truncate(a.transactions, to)
  /\ d = (IF to < Start(k) THEN to ELSE 0)
  /\ h = [recs |-> D[k - 1].recs, resets |-> D[k - 1].resets \cup {k}]

\* The blocks and the journal after it.
MountBlocks(D, k, L, h, logs) ==
  /\ k \in Nat /\ BlocksOK(k, h, k, k, Start(k), D, <<>>)
  /\ StoresOK(k, D, <<>>, logs \cup {L}, Start(k)) /\ ReadOK(k, h.recs, L, Start(k))
  /\ Len(h.recs) = Start(k)

\* Both, and what was promised is there.
Remounted(D, contents, k, a, L, d, h) ==
  /\ MountBlocks(D, k, L, h, past \cup {log}) /\ MountLog(contents, k, a, L, d, past \cup {log})
  /\ a = Acc(h.recs, Start(k)) /\ durable <= Len(L) /\ \A i \in 1..durable : L[i] = log[i]

\* After a crash all is as it should be.
LEMMA CrashMount ==
  ASSUME NEW mt, NEW c, Inv(mt, c), NEW B \in SUBSET DOMAIN cached, NEW R \in SUBSET DOMAIN dcached,
         NEW k, NEW a, NEW to, NEW L, NEW d, NEW h,
         Mount(Over(disk, cached, B), Over(data, dcached, R), k, a, to, L, d, h)
  PROVE  Remounted(Over(disk, cached, B), Over(data, dcached, R), k, a, L, d, h)
<1> PICK D, contents : D = Over(disk, cached, B) /\ contents = Over(data, dcached, R) OBVIOUS
<1> SUFFICES /\ MountBlocks(D, k, L, h, past \cup {log}) /\ MountLog(contents, k, a, L, d, past \cup {log})
             /\ a = Acc(h.recs, Start(k)) /\ durable <= Len(L) /\ \A i \in 1..durable : L[i] = log[i]
  BY DEF Remounted
<1>1. TypeInv /\ BlocksInv(mt) /\ StoredInv(mt) /\ ReadInv(mt) /\ MountInv(mt, c) /\ LogInv /\ DataInv BY DEF Inv
<1>2. /\ BlocksOK(mt, journal, taken, flushed, device_flushed, disk, cached)
      /\ StoresOK(mt, disk, cached, past \cup {log}, device_flushed)
      /\ ReadOK(mt, journal.recs, log, device_flushed)
      /\ MountOK(mt, c, Acc(journal.recs, Start(mt)), log, device_flushed)
  BY <1>1 DEF BlocksInv, StoredInv, ReadInv, MountInv
<1>3. mt \in Nat /\ 1 <= mt /\ device_flushed \in Nat BY <1>2 DEF BlocksOK
<1>4. PICK df \in Nat : df = device_flushed BY <1>3
<1>5. PICK q \in 1..Len(log) : /\ durable <= q /\ \A i \in 1..q : log[i].offset < df
                               /\ q < Len(log) => df <= log[q + 1].offset
  BY <1>1, <1>4, Divided
<1>6. log \in Seq(Entries) /\ Chained(log) /\ \A i \in 1..Len(log) : log[i].offset < df => log[i].offset + 2 <= df
  BY <1>1, <1>4, LogFacts DEF LogInv
<1>7. k = Readable(D) /\ a = Acc(D[k - 1].recs, Start(k)) BY DEF Mount
<1>8. Kept(mt, df, log, q, D, k, a)
  <2>1. Crashed(mt, c, journal, taken, flushed, df, disk, cached, past \cup {log}, log) BY <1>2, <1>4, <1>6 DEF Crashed
  <2>2. Before(log, q, df) BY <1>5 DEF Before
  <2>3. Found(disk, cached, B, D, k, a) BY <1>7 DEF Found
  <2> QED BY <1>6, <2>1, <2>2, <2>3, CrashReads
<1>9. /\ k \in Nat /\ mt <= k /\ df <= Start(k) /\ k - 1 \in DOMAIN D /\ a \in Accs
      /\ q <= Len(a.transactions) /\ (\A i \in 1..q : a.transactions[i] = log[i])
      /\ q < Len(a.transactions) => a.flushed <= a.transactions[q + 1].offset
  BY <1>8 DEF Kept
<1>10. Blocks(D) /\ \A b \in DOMAIN D : StoredOK(mt, D[b], b, past \cup {log}, df) BY <1>2, <1>4, Survivors
<1>11. k - 1 \in Nat /\ (k - 1) + 1 = k /\ k - 1 \in DOMAIN D /\ 1 <= k
  <2>1. k \in Nat /\ mt <= k /\ k - 1 \in DOMAIN D BY <1>9
  <2>2. 1 <= k BY <1>3, <2>1
  <2> QED BY <2>1, <2>2
<1>12. PICK g \in Histories : g = D[k - 1] /\ Len(g.recs) = Start(k) BY <1>10, <1>11 DEF Blocks
<1>13. PICK logs : logs = past \cup {log} OBVIOUS
<1>14. PICK e \in Nat : e = Start(k) BY <1>9, StartFacts
<1>15. StoredOK(k, g, k - 1, logs, e)
  <2>1. StoredOK(mt, g, k - 1, logs, df) BY <1>10, <1>11, <1>12, <1>13
  <2>2. df <= e /\ logs \subseteq logs BY <1>9, <1>14
  <2> QED BY <1>3, <1>9, <1>11, <2>1, <2>2, StoredMono
<1>16. PICK s \in Seq(Records) : s = g.recs /\ Len(s) = e /\ a = Acc(s, e) BY <1>7, <1>12, <1>14 DEF Histories
<1>17. (\E x \in logs : Begins(a.transactions, x)) /\ Distinct(a) /\ Known(k, a, e)
  BY <1>11, <1>14, <1>15, <1>16 DEF StoredOK
<1>18. h.recs = s /\ h.resets = D[k - 1].resets \cup {k} /\ h \in Histories
  <2>1. g.resets \in SUBSET Nat /\ h = [recs |-> s, resets |-> g.resets \cup {k}] BY <1>12, <1>16 DEF Histories, Mount
  <2>2. g.resets \cup {k} \in SUBSET Nat BY <1>9, <2>1
  <2>3. h \in Histories BY <2>1, <2>2 DEF Histories
  <2> QED BY <1>12, <2>1, <2>3
<1>19. MountBlocks(D, k, L, h, logs)
  <2>1. h.recs = D[k - 1].recs BY <1>12, <1>16, <1>18
  <2>2. /\ BlocksOK(k, h, k, k, Start(k), D, <<>>) /\ StoresOK(k, D, <<>>, logs \cup {L}, Start(k))
        /\ ReadOK(k, h.recs, L, Start(k))
    <3>1. MountedAt(mt, df, logs, D, k, h) BY <1>3, <1>7, <1>9, <1>10, <1>18, <1>13, <2>1 DEF MountedAt
    <3> QED BY <1>3, <1>9, <1>18, <3>1, ReplayBlocks
  <2> QED BY <1>9, <1>14, <1>16, <1>18, <2>2 DEF MountBlocks
<1>20. \A x \in logs : LogOK(x) BY <1>1, <1>13 DEF LogInv
<1>21. contents[log[q].new] = log[q].num
  <2>1. log[q].offset < df
    <3>1. q \in 1..q OBVIOUS
    <3> QED BY <1>5, <3>1
  <2> QED BY <1>1, <1>4, <1>5, <2>1, Survives
<1>22. MountLog(contents, k, a, L, d, logs) /\ q <= Len(L) /\ \A i \in 1..q : L[i] = log[i]
  <2>1. to = Verify(a, contents, Start(k)) /\ L = Truncate(a.transactions, to) /\ d = (IF to < Start(k) THEN to ELSE 0)
    BY DEF Mount
  <2>2. Len(s) = Start(k) /\ a = Acc(s, Start(k)) /\ Known(k, a, Start(k)) BY <1>14, <1>16, <1>17
  <2>3. Survived(logs, log, q, contents, k, s, a) BY <1>9, <1>17, <1>20, <1>21, <2>2 DEF Survived
  <2>4. Verified(a, contents, k, to, L, d) BY <2>1 DEF Verified
  <2> QED BY <1>6, <1>9, <2>3, <2>4, ReplayLog
<1>23. durable \in 1..Len(log) /\ Len(log) \in Nat BY <1>1, LogFacts DEF LogInv
<1>24. durable <= Len(L) /\ \A i \in 1..durable : L[i] = log[i]
  <2>1. Len(L) \in Nat BY <1>22 DEF MountLog, LogOK
  <2> QED BY <1>5, <1>22, <1>23, <2>1
<1>25. a = Acc(h.recs, Start(k)) BY <1>14, <1>16, <1>18
<1> QED BY <1>19, <1>13, <1>22, <1>24, <1>25

\* A crash, with the mount after it: what it does, in the terms used above.
LEMMA CrashFacts ==
  ASSUME Crash, TypeInv
  PROVE  \E B \in SUBSET DOMAIN cached, R \in SUBSET DOMAIN dcached : \E k, a, to, L, d, h :
           /\ Mount(Over(disk, cached, B), Over(data, dcached, R), k, a, to, L, d, h)
           /\ disk' = Over(disk, cached, B) /\ data' = Over(data, dcached, R) /\ cached' = <<>> /\ dcached' = <<>>
           /\ log' = L /\ durable' = Len(L) /\ past' = past \cup {log} /\ journal' = h /\ taken' = k /\ flushed' = k
           /\ device_flushed' = Start(k) /\ discard' = d
<1>1. PICK B \in SUBSET DOMAIN cached, R \in SUBSET DOMAIN dcached :
        /\ disk' = Over(disk, cached, B) /\ data' = Over(data, dcached, R)
        /\ Replay(Over(disk, cached, B), Over(data, dcached, R))
  BY DEF Crash
<1>2. PICK D, contents : D = Over(disk, cached, B) /\ contents = Over(data, dcached, R) OBVIOUS
<1>3. Replay(D, contents) BY <1>1, <1>2
<1>4. PICK k : k = Readable(D) OBVIOUS
<1>5. PICK a : a = Acc(D[k - 1].recs, Start(k)) OBVIOUS
<1>6. PICK to : to = Verify(a, contents, Start(k)) OBVIOUS
<1>7. PICK L, d : L = Truncate(a.transactions, to) /\ d = (IF to < Start(k) THEN to ELSE 0) OBVIOUS
<1>8. PICK h : h = [recs |-> D[k - 1].recs, resets |-> D[k - 1].resets \cup {k}] OBVIOUS
<1>9. Mount(D, contents, k, a, to, L, d, h) BY <1>4, <1>5, <1>6, <1>7, <1>8 DEF Mount
<1>10. /\ log' = L /\ durable' = Len(log') /\ past' = past \cup {log} /\ journal' = h /\ taken' = k /\ flushed' = k
       /\ device_flushed' = Start(k) /\ discard' = d
  BY <1>3, <1>4, <1>5, <1>6, <1>7, <1>8 DEF Replay, Acc
<1>11. cached' = <<>> /\ dcached' = <<>> BY DEF Crash
<1>12. \E k1, a1, to1, L1, d1, h1 :
         /\ Mount(Over(disk, cached, B), Over(data, dcached, R), k1, a1, to1, L1, d1, h1)
         /\ disk' = Over(disk, cached, B) /\ data' = Over(data, dcached, R) /\ cached' = <<>> /\ dcached' = <<>>
         /\ log' = L1 /\ durable' = Len(L1) /\ past' = past \cup {log} /\ journal' = h1 /\ taken' = k1 /\ flushed' = k1
         /\ device_flushed' = Start(k1) /\ discard' = d1
  BY <1>1, <1>2, <1>9, <1>10, <1>11
<1> QED BY <1>12

\* It preserves the invariant, with a new mount.
LEMMA CrashInv ==
  ASSUME NEW mt, NEW c, Inv(mt, c), Crash
  PROVE  /\ IInv' /\ durable <= Len(log') /\ (\A i \in 1..durable : log'[i] = log[i])
         /\ log' \in Seq(Txs) /\ durable' = Len(log') /\ past' = past \cup {log} /\ \E x \in past \cup {log} : Begins(log', x)
<1>1. TypeInv /\ LogInv BY DEF Inv
<1>2. PICK B \in SUBSET DOMAIN cached, R \in SUBSET DOMAIN dcached : \E k, a, to, L, d, h :
        /\ Mount(Over(disk, cached, B), Over(data, dcached, R), k, a, to, L, d, h)
        /\ disk' = Over(disk, cached, B) /\ data' = Over(data, dcached, R) /\ cached' = <<>> /\ dcached' = <<>>
        /\ log' = L /\ durable' = Len(L) /\ past' = past \cup {log} /\ journal' = h /\ taken' = k /\ flushed' = k
        /\ device_flushed' = Start(k) /\ discard' = d
  BY <1>1, CrashFacts
<1>3. PICK k, a, to, L, d, h :
        /\ Mount(Over(disk, cached, B), Over(data, dcached, R), k, a, to, L, d, h)
        /\ disk' = Over(disk, cached, B) /\ data' = Over(data, dcached, R) /\ cached' = <<>> /\ dcached' = <<>>
        /\ log' = L /\ durable' = Len(L) /\ past' = past \cup {log} /\ journal' = h /\ taken' = k /\ flushed' = k
        /\ device_flushed' = Start(k) /\ discard' = d
  BY <1>2
<1>4. PICK D, contents : D = Over(disk, cached, B) /\ contents = Over(data, dcached, R) OBVIOUS
<1>5. /\ MountBlocks(D, k, L, h, past \cup {log}) /\ MountLog(contents, k, a, L, d, past \cup {log})
      /\ a = Acc(h.recs, Start(k)) /\ durable <= Len(L) /\ \A i \in 1..durable : L[i] = log[i]
  <2>1. Mount(Over(disk, cached, B), Over(data, dcached, R), k, a, to, L, d, h) BY <1>3
  <2>2. Remounted(Over(disk, cached, B), Over(data, dcached, R), k, a, L, d, h) BY <2>1, CrashMount
  <2> QED BY <1>4, <2>2 DEF Remounted
<1>6. /\ needs_did_flush' = FALSE /\ reset_version' = TRUE /\ terminate' = FALSE /\ deallocs' = {}
      /\ commit' = NoCommit /\ sync' = NoSync /\ flusher' = "ready" /\ UNCHANGED <<txs, syncs>>
      /\ crashes < MaxCrashes /\ crashes' = crashes + 1
  BY DEF Crash, Replay
<1>7. PICK e \in Nat : e = Start(k) /\ k \in Nat BY <1>5, StartFacts DEF MountBlocks
<1>8. PICK n \in Nat : n = Len(L) /\ 1 <= n /\ n \in 1..n /\ L \in Seq(Txs) /\ L # <<>> /\ LogOK(L)
  <2>1. L \in Seq(Txs) /\ L # <<>> /\ LogOK(L) BY <1>5 DEF MountLog, LogOK
  <2> QED BY <2>1
<1>9. \A i \in 1..n : L[i].offset \in Nat /\ L[i].offset + 2 <= e /\ L[i].new \in Ranges
  <2>1. \A i \in 1..n : L[i].offset + 2 <= e BY <1>5, <1>7, <1>8 DEF MountLog
  <2>2. \A i \in 1..n : L[i] \in Txs BY <1>8
  <2> QED BY <2>1, <2>2 DEF Txs
<1>10. DOMAIN <<>> = {} OBVIOUS
<1>11. TypeInv'
  <2>1. Ranges # {} /\ Ranges \subseteq Nat \ {0} /\ MaxTxs \in Nat /\ MaxCrashes \in Nat BY JournalAssumption
  <2>2. contents \in [Ranges -> NotWritten..MaxTxs]
    <3>1. /\ data \in [Ranges -> NotWritten..MaxTxs] /\ DOMAIN dcached \subseteq Ranges
          /\ \A r \in DOMAIN dcached : dcached[r] \in 1..MaxTxs
      BY <1>1 DEF TypeInv
    <3>2. DOMAIN data \cup R = Ranges BY <3>1
    <3>3. \A r \in Ranges : (IF r \in R THEN dcached[r] ELSE data[r]) \in NotWritten..MaxTxs
      <4>1. 1..MaxTxs \subseteq NotWritten..MaxTxs BY <2>1 DEF NotWritten
      <4> QED BY <3>1, <4>1
    <3> QED BY <1>4, <3>2, <3>3 DEF Over
  <2>3. NoCommit \in [stage : {"idle", "written", "prepared", "applied"},
                      tx : [num : 0..MaxTxs, new : Ranges, old : Ranges \cup {0}]]
    <3>1. Home \in Ranges
      <4>1. PICK r \in Ranges : r \in Nat BY <2>1
      <4>2. Ranges \in SUBSET Nat BY <2>1
      <4> QED BY <4>1, <4>2, MinNat DEF Home
    <3> QED BY <2>1, <3>1 DEF NoCommit
  <2>4. NoSync \in [stage : {"idle", "wait", "parked", "flush", "flushed", "free"}, offset : Nat, covers : Nat] BY DEF NoSync
  <2>5. discard' \in 0..device_flushed' BY <1>3, <1>5 DEF MountLog
  <2>6. crashes' \in 0..MaxCrashes
    <3>1. crashes \in 0..MaxCrashes BY <1>1 DEF TypeInv
    <3> QED BY <1>6, <2>1, <3>1
  <2>7. data' \in [Ranges -> NotWritten..MaxTxs] BY <1>3, <1>4, <2>2
  <2>8. DOMAIN dcached' = {} BY <1>3, <1>10
  <2>9. txs \in 0..MaxTxs /\ syncs \in 0..MaxSyncs BY <1>1 DEF TypeInv
  <2> QED BY <1>6, <2>3, <2>4, <2>5, <2>6, <2>7, <2>8, <2>9 DEF TypeInv
<1>12. BlocksInv(k)' /\ StoredInv(k)' /\ ReadInv(k)'
  <2>1. BlocksInv(k)' BY <1>3, <1>4, <1>5 DEF MountBlocks, BlocksInv
  <2>2. StoredInv(k)' BY <1>3, <1>4, <1>5 DEF MountBlocks, StoredInv
  <2>3. ReadInv(k)' BY <1>3, <1>4, <1>5 DEF MountBlocks, ReadInv
  <2> QED BY <2>1, <2>2, <2>3
<1>13. MountInv(k, n)' BY <1>3, <1>5, <1>8 DEF MountLog, MountInv
<1>14. ResetInv(k, n)'
  <2>1. Len(h.recs) = Start(k) BY <1>5 DEF MountBlocks
  <2>2. ResetOK(k, n, a, L, TRUE, d, Start(k)) BY <1>5, <1>8 DEF MountLog
  <2> QED BY <1>3, <1>5, <1>6, <2>1, <2>2 DEF ResetInv
<1>15. Offset' = e BY <1>3, <1>5, <1>7 DEF MountBlocks, Offset
<1>16. \A i \in 1..n : L[i].offset < e /\ ~(e <= L[i].offset) BY <1>9
<1>17. LogInv'
  <2>1. \A l \in past' : LogOK(l) BY <1>1, <1>3 DEF LogInv
  <2>2. durable' \in 1..Len(log') BY <1>3, <1>8
  <2> QED BY <1>3, <1>7, <1>8, <1>9, <1>15, <1>16, <2>1, <2>2 DEF LogInv
<1>18. SyncInv'
  <2>1. sync'.stage = "idle" /\ sync'.offset = 0 /\ sync'.covers = 0 BY <1>6 DEF NoSync
  <2>2. 0 <= Offset' /\ 0 \in 0..Len(log') /\ 1..0 = {} BY <1>3, <1>7, <1>8, <1>15
  <2> QED BY <2>1, <2>2 DEF SyncInv
<1>19. DataInv'
  <2>1. sync'.stage = "idle" BY <1>6 DEF NoSync
  <2>2. ASSUME NEW i \in 1..n, Live(i, device_flushed)' PROVE i = n
    <3>1. SUFFICES ASSUME i # n PROVE FALSE OBVIOUS
    <3>2. i < n /\ i + 1 \in 1..n BY <3>1
    <3>3. e <= L[i + 1].offset BY <1>3, <1>7, <1>8, <2>2, <3>2 DEF Live
    <3> QED BY <1>16, <3>2, <3>3
  <2>3. contents[L[n].new] = L[n].num BY <1>5, <1>8 DEF MountLog
  <2>4. DOMAIN dcached' = {} BY <1>3, <1>10
  <2>5. Held(log[n].new)' = log'[n].num BY <1>3, <1>4, <2>3, <2>4 DEF Held
  <2>6. ASSUME NEW i \in 1..n, Live(i, device_flushed)' PROVE Held(log[i].new)' = log'[i].num
    <3>1. i = n BY <2>2, <2>6
    <3> QED BY <2>5, <3>1
  <2>7. \A i \in 1..n : ~(device_flushed' <= log'[i].offset) BY <1>3, <1>7, <1>16
  <2>8. Len(log') = n BY <1>3, <1>8
  <2> QED BY <2>1, <2>4, <2>6, <2>7, <2>8 DEF DataInv
<1>20. CommitInv'
  <2>1. commit'.stage = "idle" BY <1>6 DEF NoCommit
  <2> QED BY <1>6, <2>1 DEF CommitInv
<1>21. Inv(k, n)' BY <1>11, <1>12, <1>13, <1>14, <1>17, <1>18, <1>19, <1>20 DEF Inv
<1>22. IInv' BY <1>7, <1>21 DEF IInv
<1>23. \E x \in past \cup {log} : Begins(L, x) BY <1>5 DEF MountLog
<1> QED BY <1>3, <1>5, <1>8, <1>22, <1>23

-----------------------------------------------------------------------------
(***************************************************************************)
(* The beginning.                                                          *)
(***************************************************************************)
\* The formatted block is read as the one transaction Format.
LEMMA FormatFacts ==
  /\ Format \in Txs /\ Format \in Entries /\ Format.offset = 0 /\ Format.num = 0 /\ Format.new = Home /\ Format.old = 0
  /\ Home \in Ranges /\ Home # 0
  /\ FormatBlock \in Histories /\ Len(FormatBlock.recs) = Start(1) /\ FormatBlock.resets = {}
  /\ Forward(FormatBlock.recs, 0)
  /\ \E a \in Accs : /\ a = Acc(FormatBlock.recs, Start(1)) /\ a.transactions = <<Format>> /\ a.current = <<>> /\ a.flushed = 0
<1>1. Home \in Ranges /\ Home # 0 /\ Home \in Nat
  <2>1. Ranges # {} /\ Ranges \subseteq Nat \ {0} BY JournalAssumption
  <2>2. PICK r \in Ranges : r \in Nat BY <2>1
  <2>3. Ranges \in SUBSET Nat BY <2>1
  <2>4. Home \in Ranges BY <2>2, <2>3, MinNat DEF Home
  <2> QED BY <2>1, <2>4
<1>2. Format.offset = 0 /\ Format.num = 0 /\ Format.new = Home /\ Format.old = 0 BY DEF Format
<1>3. Format \in Txs
  <2>1. 0 \in 0..MaxTxs BY JournalAssumption
  <2> QED BY <1>1, <2>1 DEF Format, Txs
<1>4. Format \in Entries BY <1>3, TxEntries
<1>5. PICK r \in Records : r = Mutation(Format) /\ r.kind = "Mutation" /\ Placed(r, 0) = Format
  <2>1. Mutation(Format) = [kind |-> "Mutation", num |-> 0, new |-> Home, old |-> 0] BY <1>2 DEF Mutation, Record
  <2>2. Mutation(Format) \in Records BY <1>1, <2>1 DEF Records, Kinds
  <2>3. Placed(Mutation(Format), 0) = Format BY <2>1 DEF Placed, Format
  <2> QED BY <2>1, <2>2, <2>3
<1>6. PICK x \in Records : x = Commit /\ x.kind = "Commit" BY Markers
<1>7. PICK s \in Seq(Records) : s = <<r, x>> /\ Len(s) = 2 /\ s[1] = r /\ s[2] = x
  <2>1. \E p \in Seq(Records) : p = <<r, x>> /\ Len(p) = 2 /\ p[1] = r /\ p[2] = x /\ p # <<>> BY PairConcat
  <2> QED BY <2>1
<1>8. PICK a0 \in Accs : a0 = Acc(s, 0) /\ a0.transactions = <<>> /\ a0.current = <<>> /\ a0.flushed = 0
  <2>1. 0 \in 0..Len(s) BY <1>7
  <2>2. Acc(s, 0) = Nothing /\ Acc(s, 0) \in Accs BY <2>1, Loop
  <2> QED BY <2>2 DEF Nothing
<1>9. Acc(s, 1) = ReadRecord(a0, r, 0) /\ Acc(s, 2) = ReadRecord(Acc(s, 1), x, 1)
  <2>1. 1 \in 1..Len(s) /\ 2 \in 1..Len(s) BY <1>7
  <2>2. Acc(s, 1) = ReadRecord(Acc(s, 1 - 1), s[1], 1 - 1) /\ Acc(s, 2) = ReadRecord(Acc(s, 2 - 1), s[2], 2 - 1) BY <2>1, Loop
  <2>3. 1 - 1 = 0 /\ 2 - 1 = 1 OBVIOUS
  <2> QED BY <1>7, <1>8, <2>2, <2>3
<1>10. PICK a1 \in Accs : a1 = Acc(s, 1) /\ a1.transactions = <<>> /\ a1.current = <<Format>> /\ a1.flushed = 0
  <2>1. ReadRecord(a0, r, 0) \in Accs BY ReadRecordFacts
  <2>2. r.kind = "Mutation" BY <1>5
  <2>3. /\ ReadRecord(a0, r, 0).transactions = a0.transactions
        /\ ReadRecord(a0, r, 0).current = (IF a0.current = <<>> THEN <<Placed(r, 0)>> ELSE a0.current)
        /\ ReadRecord(a0, r, 0).flushed = a0.flushed
    BY <2>2, ReadMutation
  <2> QED BY <1>5, <1>8, <1>9, <2>1, <2>3
<1>11. PICK a \in Accs : a = Acc(s, 2) /\ a.transactions = <<Format>> /\ a.current = <<>> /\ a.flushed = 0
  <2>1. ReadRecord(a1, x, 1) \in Accs BY ReadRecordFacts
  <2>2. x.kind = "Commit" BY <1>6
  <2>3. /\ ReadRecord(a1, x, 1).transactions = a1.transactions \o a1.current
        /\ ReadRecord(a1, x, 1).current = <<>> /\ ReadRecord(a1, x, 1).flushed = a1.flushed
    BY <2>2, ReadCommit
  <2>4. <<>> \o <<Format>> = <<Format>>
    <3>1. <<Format>> \in Seq(Entries) BY <1>4
    <3> QED BY <3>1, ConcatEmptySeq
  <2> QED BY <1>9, <1>10, <2>1, <2>3, <2>4
<1>12. PICK p \in Nat : p = BlockSize - 2 /\ 2 + p = BlockSize
  <2>1. BlockSize \in Nat /\ BlockSize >= 2 BY StartFacts
  <2> QED BY <2>1
<1>13. Start(1) = BlockSize
  <2>1. BlockSize \in Nat BY StartFacts
  <2> QED BY <2>1 DEF Start
<1>14. PICK w \in Seq(Records) : /\ w = Pad(p) /\ Len(w) = p /\ \A i \in 1..p : w[i].kind \in {"EndBlock", "Padding"}
                                 /\ \A n \in 2..(2 + p) : Acc(s \o w, n) = Acc(s, 2)
  <2>1. /\ Pad(p) \in Seq(Records) /\ Len(Pad(p)) = p
        /\ \A i \in 1..p : Pad(p)[i].kind \in {"EndBlock", "Padding"}
        /\ \A n \in Len(s)..(Len(s) + p) : Acc(s \o Pad(p), n) = Acc(s, Len(s))
    BY LoopPad
  <2> QED BY <1>7, <2>1
<1>15. PICK u \in Seq(Records) : u = s \o w /\ Len(u) = BlockSize
  <2>1. s \o w \in Seq(Records) /\ Len(s \o w) = Len(s) + Len(w) BY LoopAppend
  <2> QED BY <1>7, <1>12, <1>14, <2>1
<1>16. FormatBlock = [recs |-> u, resets |-> {}] BY <1>5, <1>6, <1>7, <1>12, <1>14, <1>15 DEF FormatBlock
<1>17. FormatBlock \in Histories /\ Len(FormatBlock.recs) = Start(1) /\ FormatBlock.resets = {} /\ FormatBlock.recs = u
  BY <1>13, <1>15, <1>16 DEF Histories
<1>18. Acc(u, Start(1)) = a
  <2>1. BlockSize \in 2..(2 + p) BY <1>12
  <2> QED BY <1>11, <1>13, <1>14, <1>15, <2>1
<1>19. Forward(u, 0)
  <2>1. ASSUME NEW i \in 1..Len(u) PROVE u[i].kind \notin {"Version", "Discard"}
    <3>1. i \in 1..2 \/ i - 2 \in 1..p BY <1>12, <1>15
    <3>2. CASE i \in 1..2
      <4>1. u[i] = s[i] BY <1>7, <1>15, <3>2, LoopAppend
      <4>2. i = 1 \/ i = 2 BY <3>2
      <4> QED BY <1>5, <1>6, <1>7, <4>1, <4>2
    <3>3. CASE i - 2 \in 1..p
      <4>1. PICK j \in 1..p : j = i - 2 /\ i = 2 + j BY <3>3
      <4>2. u[2 + j] = w[j] BY <1>7, <1>14, <1>15, <4>1, LoopAppend
      <4>3. w[j].kind \in {"EndBlock", "Padding"} BY <1>14, <4>1
      <4> QED BY <4>1, <4>2, <4>3
    <3> QED BY <3>1, <3>2, <3>3
  <2> QED BY <2>1 DEF Forward
<1> QED BY <1>1, <1>2, <1>3, <1>4, <1>11, <1>17, <1>18, <1>19

\* The invariant holds of a filesystem that has been formatted and mounted.
LEMMA InitInv ==
  ASSUME Init
  PROVE  Inv(1, 1)
<1>1. /\ Format \in Txs /\ Format.offset = 0 /\ Format.num = 0 /\ Format.new = Home /\ Format.old = 0
      /\ Home \in Ranges /\ Home # 0
      /\ FormatBlock \in Histories /\ Len(FormatBlock.recs) = Start(1) /\ FormatBlock.resets = {}
      /\ Forward(FormatBlock.recs, 0)
  BY FormatFacts
<1>2. PICK a \in Accs : /\ a = Acc(FormatBlock.recs, Start(1)) /\ a.transactions = <<Format>> /\ a.current = <<>> /\ a.flushed = 0
  BY FormatFacts
<1>3. PICK e \in Nat : e = Start(1) /\ 2 <= e
  <2>1. BlockSize \in Nat /\ BlockSize >= 2 BY StartFacts
  <2> QED BY <2>1 DEF Start
<1>4. PICK s \in Seq(Records) : s = FormatBlock.recs /\ Len(s) = e BY <1>1, <1>3 DEF Histories
<1>5. PICK h \in Histories : h = journal /\ h.recs = s /\ h.resets = {1}
  <2>1. FormatBlock = [recs |-> s, resets |-> {}] BY <1>1, <1>4 DEF Histories
  <2>2. journal = [recs |-> s, resets |-> {1}] BY <2>1 DEF Init
  <2>3. {1} \in SUBSET Nat OBVIOUS
  <2> QED BY <2>2, <2>3 DEF Histories
<1>6. PICK l \in Seq(Txs) : l = <<Format>> /\ Len(l) = 1 /\ l[1] = Format /\ l # <<>>
  <2>1. <<Format>> \in Seq(Txs) /\ Len(<<Format>>) = 1 /\ <<Format>>[1] = Format /\ <<Format>> # <<>> BY <1>1
  <2> QED BY <2>1
<1>7. /\ log = l /\ durable = 1 /\ past = {} /\ disk = [b \in {0} |-> FormatBlock] /\ cached = <<>> /\ dcached = <<>>
      /\ taken = 1 /\ flushed = 1 /\ device_flushed = e /\ needs_did_flush = FALSE /\ reset_version = TRUE
      /\ discard = 0 /\ terminate = FALSE /\ deallocs = {} /\ commit = NoCommit /\ sync = NoSync /\ flusher = "ready"
      /\ txs = 0 /\ syncs = 0 /\ crashes = 0
  BY <1>3, <1>6 DEF Init
<1>8. DOMAIN <<>> = {} OBVIOUS
<1>9. Offset = e BY <1>4, <1>5 DEF Offset
<1>10. TypeInv
  <2>1. MaxTxs \in Nat /\ MaxSyncs \in Nat /\ MaxCrashes \in Nat BY JournalAssumption
  <2>2. data \in [Ranges -> NotWritten..MaxTxs]
    <3>1. 0 \in NotWritten..MaxTxs /\ NotWritten \in NotWritten..MaxTxs BY <2>1 DEF NotWritten
    <3>2. data = [r \in Ranges |-> IF r = Home THEN 0 ELSE NotWritten] BY <1>1 DEF Init
    <3> QED BY <3>1, <3>2
  <2>3. NoCommit \in [stage : {"idle", "written", "prepared", "applied"},
                      tx : [num : 0..MaxTxs, new : Ranges, old : Ranges \cup {0}]]
    BY <1>1, <2>1 DEF NoCommit
  <2>4. NoSync \in [stage : {"idle", "wait", "parked", "flush", "flushed", "free"}, offset : Nat, covers : Nat] BY DEF NoSync
  <2>5. DOMAIN dcached = {} BY <1>7, <1>8
  <2>6. 0 \in 0..e /\ 0 \in 0..MaxTxs /\ 0 \in 0..MaxSyncs /\ 0 \in 0..MaxCrashes BY <2>1
  <2> QED BY <1>7, <2>2, <2>3, <2>4, <2>5, <2>6 DEF TypeInv
<1>11. BlocksInv(1)
  <2>1. Cut(h, 1) = FormatBlock
    <3>1. Start(1) <= Len(h.recs) /\ 1 \in Nat BY <1>3, <1>4, <1>5
    <3>2. /\ Cut(h, 1) \in Histories /\ Len(Cut(h, 1).recs) = Start(1)
          /\ (\A i \in 1..Start(1) : Cut(h, 1).recs[i] = h.recs[i])
          /\ Cut(h, 1).resets = {b \in h.resets : b < 1}
      BY <3>1, CutFacts
    <3>3. {b \in h.resets : b < 1} = {} BY <1>5
    <3>4. PICK g \in Histories : g = Cut(h, 1) BY <3>2
    <3>5. PICK f \in Histories : f = FormatBlock BY <1>1
    <3>6. Len(g.recs) = e /\ Len(f.recs) = e /\ \A i \in 1..e : g.recs[i] = f.recs[i] BY <1>3, <1>4, <1>5, <3>2, <3>4, <3>5
    <3>7. g.resets = f.resets BY <1>1, <3>2, <3>3, <3>4, <3>5
    <3>8. g = f BY <3>6, <3>7, HistoryEqual
    <3> QED BY <3>4, <3>5, <3>8
  <2>2. IsFiniteSet(DOMAIN disk) /\ DOMAIN disk = {0}
    <3>1. DOMAIN disk = {0} BY <1>7
    <3> QED BY <3>1, FS_Singleton
  <2>3. \A b \in 0..(1 - 1) : b \in DOMAIN disk /\ disk[b] = Cut(h, b + 1)
    <3>1. \A b \in 0..(1 - 1) : b = 0 /\ b + 1 = 1 OBVIOUS
    <3> QED BY <1>7, <2>1, <3>1
  <2>4. BlocksOK(1, h, 1, 1, e, disk, <<>>)
    <3>1. 1 \notin DOMAIN disk /\ DOMAIN disk \subseteq Nat BY <2>2
    <3>2. e <= e /\ Start(1) <= Len(h.recs) /\ Start(1) <= e /\ e <= Start(1) BY <1>3, <1>4, <1>5
    <3> QED BY <1>3, <1>8, <2>2, <2>3, <3>1, <3>2 DEF BlocksOK
  <2> QED BY <1>5, <1>7, <2>4 DEF BlocksInv
<1>12. Forward(s, Start(1) + 2) BY <1>1, <1>3, <1>4 DEF Forward
<1>13. Distinct(a) /\ Known(1, a, e)
  <2>1. Len(a.transactions) = 1 BY <1>2, <1>6
  <2>2. \A i, j \in 1..Len(a.transactions) : ~(i < j) BY <2>1
  <2>3. Distinct(a) BY <2>2 DEF Distinct
  <2>4. Known(1, a, e) BY <1>2, <1>3 DEF Known
  <2> QED BY <2>3, <2>4
<1>14. StoredInv(1)
  <2>1. Begins(a.transactions, l)
    <3>1. a.transactions = l /\ Len(l) <= Len(l) BY <1>2, <1>6
    <3> QED BY <3>1 DEF Begins
  <2>2. 0 + 1 = 1 OBVIOUS
  <2>3. StoredOK(1, FormatBlock, 0, past \cup {log}, e) BY <1>1, <1>2, <1>4, <1>7, <1>12, <1>13, <2>1, <2>2 DEF StoredOK
  <2>4. \A b \in DOMAIN disk : StoredOK(1, disk[b], b, past \cup {log}, e) BY <1>7, <2>3
  <2>5. DOMAIN cached = {} BY <1>7, <1>8
  <2> QED BY <1>7, <2>4, <2>5 DEF StoredInv, StoresOK
<1>15. ReadInv(1)
  <2>1. \A n \in 0..Len(s) : ~(Start(1) + 2 <= n) BY <1>3, <1>4
  <2>2. ~(Start(1) < Len(s)) BY <1>3, <1>4
  <2> QED BY <1>5, <1>12, <2>1, <2>2 DEF ReadInv, ReadOK
<1>16. Acc(journal.recs, Start(1)) = a BY <1>2, <1>4, <1>5
<1>17. MountInv(1, 1)
  <2>1. 1 \in 1..Len(l) /\ Len(a.transactions) = 1 /\ 1 <= 1 /\ ~(1 < 1) BY <1>2, <1>6
  <2>2. \A i \in 1..1 : a.transactions[i] = l[i] /\ l[i].offset + 2 <= Start(1) BY <1>1, <1>2, <1>3, <1>6
  <2>3. (1 + 1)..Len(l) = {} BY <1>6
  <2>4. MountOK(1, 1, a, l, e) BY <1>13, <2>1, <2>2, <2>3 DEF MountOK
  <2> QED BY <1>7, <1>16, <2>4 DEF MountInv
<1>18. ResetInv(1, 1)
  <2>1. Len(a.transactions) = 1 BY <1>2, <1>6
  <2> QED BY <1>3, <1>4, <1>5, <1>6, <1>7, <1>16, <2>1 DEF ResetInv, ResetOK
<1>19. \A i \in 1..Len(log) : i = 1 /\ log[i] = Format /\ log[i].offset = 0 BY <1>1, <1>6, <1>7
<1>20. LogInv
  <2>1. Chained(l)
    <3>1. 1..(Len(l) - 1) = {} BY <1>6
    <3> QED BY <1>1, <1>6, <1>7, <1>19, <3>1 DEF Chained
  <2>2. LogOK(log) BY <1>6, <1>7, <2>1 DEF LogOK
  <2>3. 0 + 2 <= e /\ 0 < e /\ 1 \in 1..Len(log) BY <1>3, <1>6, <1>7
  <2> QED BY <1>7, <1>9, <1>19, <2>2, <2>3 DEF LogInv
<1>21. SyncInv
  <2>1. sync.stage = "idle" /\ sync.offset = 0 /\ sync.covers = 0 BY <1>7 DEF NoSync
  <2>2. 0 <= Offset /\ 0 \in 0..Len(log) /\ 1..0 = {} BY <1>3, <1>6, <1>7, <1>9
  <2> QED BY <2>1, <2>2 DEF SyncInv
<1>22. DataInv
  <2>1. sync.stage = "idle" BY <1>7 DEF NoSync
  <2>2. DOMAIN dcached = {} BY <1>7, <1>8
  <2>3. Held(Home) = 0 BY <1>1, <2>2 DEF Held, Init
  <2>4. ~(e <= 0) BY <1>3
  <2> QED BY <1>1, <1>7, <1>19, <2>1, <2>2, <2>3, <2>4 DEF DataInv
<1>23. CommitInv
  <2>1. commit.stage = "idle" BY <1>7 DEF NoCommit
  <2> QED BY <1>7, <2>1 DEF CommitInv
<1> QED BY <1>10, <1>11, <1>14, <1>15, <1>17, <1>18, <1>20, <1>21, <1>22, <1>23 DEF Inv
-----------------------------------------------------------------------------
(***************************************************************************)
(* The theorems.                                                           *)
(***************************************************************************)
\* It begins with the invariant.
LEMMA InitIInv == Init => IInv
<1> SUFFICES ASSUME Init PROVE IInv OBVIOUS
<1>1. Inv(1, 1) /\ 1 \in Nat BY InitInv
<1> QED BY <1>1 DEF IInv

\* A step that changes nothing preserves it.
LEMMA StutterInv ==
  ASSUME NEW mt, NEW c, Inv(mt, c), UNCHANGED vars
  PROVE  Inv(mt, c)'
<1>1. /\ TypeInv /\ BlocksInv(mt) /\ StoredInv(mt) /\ ReadInv(mt) /\ MountInv(mt, c) /\ ResetInv(mt, c)
      /\ LogInv /\ SyncInv /\ DataInv /\ CommitInv
  BY DEF Inv
<1>2. UNCHANGED <<disk, cached, data, dcached, journal, taken, flushed, device_flushed, needs_did_flush, reset_version,
                  discard, terminate, deallocs, commit, sync, flusher, log, durable, past, txs, syncs, crashes>>
  BY DEF vars, device, writer, inner, promise, counters
<1> QED BY <1>1, <1>2, FrameType, FrameBlocks, FrameStored, FrameRead, FrameReset, FrameLog, FrameSync, FrameData, FrameCommit
        DEF Inv

\* Every step preserves it.
LEMMA NextIInv == IInv /\ [Next]_vars => IInv'
<1> SUFFICES ASSUME IInv, [Next]_vars PROVE IInv' OBVIOUS
<1>1. PICK mt \in Nat, c \in Nat : Inv(mt, c) BY DEF IInv
<1>2. SUFFICES ASSUME ~Crash PROVE Inv(mt, c)'
  <2>1. CASE Crash BY <1>1, <2>1, CrashInv
  <2>2. CASE ~Crash BY <1>2, <2>2 DEF IInv
  <2> QED BY <2>1, <2>2
<1>3. CASE WriteData BY <1>1, <1>3, WriteDataInv
<1>4. CASE PreCommit BY <1>1, <1>4, PreCommitInv
<1>5. CASE WriteAndApplyMutations BY <1>1, <1>5, WriteAndApplyInv
<1>6. CASE EndCommit BY <1>1, <1>6, EndCommitInv
<1>7. CASE FlushTask BY <1>1, <1>7, FlushTaskInv
<1>8. CASE Flushed \/ FlushFails BY <1>1, <1>8, FlushedInv
<1>9. CASE Sync BY <1>1, <1>9, SyncActionInv
<1>10. CASE AwaitFlush BY <1>1, <1>10, AwaitFlushInv
<1>11. CASE NoFlush \/ FreeRanges BY <1>1, <1>11, SyncReturnsInv
<1>12. CASE FlushDevice BY <1>1, <1>12, FlushDeviceInv
<1>13. CASE DidFlush BY <1>1, <1>13, DidFlushInv
<1>14. CASE UNCHANGED vars BY <1>1, <1>14, StutterInv
<1> QED BY <1>2, <1>3, <1>4, <1>5, <1>6, <1>7, <1>8, <1>9, <1>10, <1>11, <1>12, <1>13, <1>14
        DEF Next, CommitStep, FlushStep, SyncStep

\* The inductive invariant holds in every state that the journal reaches.
THEOREM Invariance == Spec => []IInv
  BY InitIInv, NextIInv, PTL DEF Spec

\* Whatever the size of a block and the number of crashes: only whole blocks are
\* written to the device, and a block is taken from the buffer when it is full,
\* counts as written when it was taken, and as flushed when it was written.
THEOREM TypeCorrect == Spec => []TypeOK
<1>1. IInv => TypeOK
  <2> SUFFICES ASSUME IInv PROVE TypeOK OBVIOUS
  <2>1. PICK mt, c : Inv(mt, c) BY DEF IInv
  <2>2. /\ TypeInv /\ BlocksInv(mt) /\ StoredInv(mt) /\ LogInv /\ SyncInv BY <2>1 DEF Inv
  <2>3. /\ taken \in Nat /\ flushed \in Nat /\ mt \in Nat /\ flushed <= taken /\ Start(taken) <= Offset
        /\ device_flushed \in Nat /\ device_flushed <= Start(flushed) /\ DOMAIN cached \subseteq mt..(taken - 1)
        /\ DOMAIN disk \subseteq Nat
    BY <2>2 DEF BlocksInv, BlocksOK, Offset
  <2>4. \A b \in DOMAIN disk : b \in Nat /\ Len(disk[b].recs) = Start(b + 1)
    BY <2>2, <2>3 DEF StoredInv, StoresOK, StoredOK
  <2>5. \A b \in DOMAIN cached : b \in 0..(taken - 1) /\ Len(cached[b].recs) = Start(b + 1)
    <3>1. \A b \in DOMAIN cached : Len(cached[b].recs) = Start(b + 1) BY <2>2 DEF StoredInv, StoresOK, StoredOK
    <3>2. \A b \in DOMAIN cached : b \in 0..(taken - 1) BY <2>3
    <3> QED BY <3>1, <3>2
  <2>6. flushed \in 0..taken /\ device_flushed \in 0..Start(flushed)
    <3>1. Start(flushed) \in Nat BY <2>3, StartFacts
    <3> QED BY <2>3, <3>1
  <2>7. log \in Seq(Txs) /\ durable \in 1..Len(log) BY <2>2 DEF LogInv, LogOK
  <2>8. /\ commit.stage \in {"idle", "written", "prepared", "applied"}
        /\ sync.stage \in {"idle", "wait", "parked", "flush", "flushed", "free"}
    BY <2>2 DEF TypeInv, SyncInv
  <2> QED BY <2>2, <2>3, <2>4, <2>5, <2>6, <2>7, <2>8 DEF TypeOK, TypeInv
<1> QED BY <1>1, Invariance, PTL

\* The file's range always holds what its last transaction wrote there: no crash
\* makes replay keep a transaction whose data was lost, and no range that a
\* replayed transaction needs is given out before its deallocation is flushed.
THEOREM DataIntact == Spec => []Intact
<1>1. IInv => Intact
  <2> SUFFICES ASSUME IInv PROVE Intact OBVIOUS
  <2>1. PICK mt, c : Inv(mt, c) BY DEF IInv
  <2>2. LogInv /\ DataInv BY <2>1 DEF Inv
  <2>3. /\ log # <<>> /\ Len(log) \in Nat /\ Len(log) \in 1..Len(log) /\ Current = log[Len(log)].new
    BY <2>2, LogFacts
  <2>4. Live(Len(log), device_flushed) BY <2>3 DEF Live
  <2>5. Held(Current) = log[Len(log)].num BY <2>2, <2>3, <2>4 DEF DataInv
  <2>6. Last(log) = log[Len(log)] BY DEF Last
  <2> QED BY <2>3, <2>5, <2>6 DEF Intact, Held
<1> QED BY <1>1, Invariance, PTL
-----------------------------------------------------------------------------
(***************************************************************************)
(* The refinement.                                                         *)
(***************************************************************************)
\* A formatted filesystem is a log that has been promised.
LEMMA InitRefines == Init => Abstract!Init
<1> SUFFICES ASSUME Init PROVE Abstract!Init OBVIOUS
<1>1. Format \in Txs BY FormatFacts
<1>2. <<Format>> \in Seq(Txs) /\ Len(<<Format>>) = 1 BY <1>1
<1> QED BY <1>2 DEF Init, Abstract!Init

\* A beginning is a prefix.
LEMMA BeginsPrefix ==
  ASSUME NEW S, NEW s \in Seq(S), NEW l \in Seq(S), Begins(s, l)
  PROVE  /\ Len(s) \in 0..Len(l) /\ s = SubSeq(l, 1, Len(s)) /\ Abstract!IsPrefix(s, l)
<1>1. Len(s) \in Nat /\ Len(l) \in Nat /\ Len(s) <= Len(l) /\ \A i \in 1..Len(s) : s[i] = l[i] BY DEF Begins
<1>2. PICK t \in Seq(S) : t = SubSeq(l, 1, Len(s)) /\ Len(t) = Len(s) /\ \A i \in 1..Len(s) : t[i] = l[i]
  <2>1. /\ SubSeq(l, 1, Len(s)) \in Seq(S) /\ Len(SubSeq(l, 1, Len(s))) = Len(s)
        /\ \A i \in 1..Len(s) : SubSeq(l, 1, Len(s))[i] = l[i]
    BY <1>1, SubSeqProperties
  <2> QED BY <2>1
<1>3. s = t BY <1>1, <1>2, SeqEqual
<1>4. SubSeq(s, 1, Len(s)) = s
  <2>1. /\ SubSeq(s, 1, Len(s)) \in Seq(S) /\ Len(SubSeq(s, 1, Len(s))) = Len(s)
        /\ \A i \in 1..Len(s) : SubSeq(s, 1, Len(s))[i] = s[i]
    BY <1>1, SubSeqProperties
  <2> QED BY <2>1, SeqEqual
<1> QED BY <1>1, <1>2, <1>3, <1>4 DEF Abstract!IsPrefix

\* The commit of a transaction adds it to the log.
LEMMA CommitRefines ==
  ASSUME NEW mt, NEW c, Inv(mt, c), WriteAndApplyMutations
  PROVE  Abstract!Commit
<1>1. LogInv BY DEF Inv
<1>2. commit.stage = "prepared" /\ log' = Append(log, Placed(commit.tx, Offset)) /\ UNCHANGED <<durable, past>>
  BY DEF WriteAndApplyMutations
<1>3. Offset \in Nat
  <2>1. journal.recs \in Seq(Records) BY DEF Inv, BlocksInv, BlocksOK, Histories
  <2> QED BY <2>1 DEF Offset
<1>4. PICK e \in Txs : e = Placed(commit.tx, Offset) BY <1>2, <1>3, AppliedTx
<1>5. log \in Seq(Txs) BY <1>1, LogFacts
<1>6. /\ log' \in Seq(Txs) /\ Len(log') = Len(log) + 1 /\ Len(log) \in Nat
      /\ \A i \in 1..Len(log) : log'[i] = log[i]
  BY <1>2, <1>4, <1>5, AppendFacts
<1>7. Begins(log, log') BY <1>6 DEF Begins
<1>8. Abstract!IsPrefix(log, log') BY <1>5, <1>6, <1>7, BeginsPrefix
<1> QED BY <1>2, <1>6, <1>8 DEF Abstract!Commit

\* A crash keeps what was promised, and finds the beginning of a log that was.
LEMMA CrashRefines ==
  ASSUME NEW mt, NEW c, Inv(mt, c), Crash
  PROVE  Abstract!Crash
<1>1. LogInv BY DEF Inv
<1>2. /\ durable <= Len(log') /\ (\A i \in 1..durable : log'[i] = log[i])
      /\ log' \in Seq(Txs) /\ durable' = Len(log') /\ past' = past \cup {log}
  BY CrashInv
<1>3. PICK x \in past \cup {log} : Begins(log', x) BY CrashInv
<1>4. x \in Seq(Txs) BY <1>1, <1>3 DEF LogInv, LogOK
<1>5. Len(log') \in 0..Len(x) /\ log' = SubSeq(x, 1, Len(log')) BY <1>2, <1>3, <1>4, BeginsPrefix
<1>6. log \in Seq(Txs) /\ Len(log) \in Nat /\ durable \in 1..Len(log) BY <1>1, LogFacts DEF LogInv
<1>7. PICK s \in Seq(Txs) : s = SubSeq(log, 1, durable) /\ Len(s) = durable /\ \A i \in 1..durable : s[i] = log[i]
  <2>1. /\ SubSeq(log, 1, durable) \in Seq(Txs) /\ Len(SubSeq(log, 1, durable)) = durable
        /\ \A i \in 1..durable : SubSeq(log, 1, durable)[i] = log[i]
    BY <1>6, SubSeqProperties
  <2> QED BY <2>1
<1>8. Begins(s, log') BY <1>2, <1>7 DEF Begins
<1>9. Abstract!IsPrefix(s, log') BY <1>2, <1>8, BeginsPrefix
<1>10. \E l \in past' : \E n \in 0..Len(l) : log' = SubSeq(l, 1, n)
  <2>1. x \in past' BY <1>2, <1>3
  <2>2. \E n \in 0..Len(x) : log' = SubSeq(x, 1, n) BY <1>5
  <2> QED BY <2>1, <2>2
<1>11. Abstract!IsPrefix(SubSeq(log, 1, durable), log') BY <1>7, <1>9
<1> QED BY <1>2, <1>10, <1>11 DEF Abstract!Crash

\* Every step is one of the promise, or changes nothing in it.
LEMMA NextRefines == IInv /\ [Next]_vars => [Abstract!Next]_<<log, durable, past>>
<1> SUFFICES ASSUME IInv, [Next]_vars PROVE Abstract!Next \/ UNCHANGED <<log, durable, past>> OBVIOUS
<1>1. PICK mt \in Nat, c \in Nat : Inv(mt, c) BY DEF IInv
<1>2. CASE WriteAndApplyMutations BY <1>1, <1>2, CommitRefines DEF Abstract!Next
<1>3. CASE NoFlush \/ FreeRanges
  <2>1. durable' \in durable..Len(log) BY <1>1, <1>3, SyncReturnsInv
  <2>2. UNCHANGED <<log, past>> BY <1>3 DEF NoFlush, FreeRanges
  <2> QED BY <2>1, <2>2 DEF Abstract!Next, Abstract!Sync
<1>4. CASE Crash BY <1>1, <1>4, CrashRefines DEF Abstract!Next
<1>5. CASE WriteData BY <1>5 DEF WriteData, promise
<1>6. CASE PreCommit BY <1>6 DEF PreCommit, promise
<1>7. CASE EndCommit BY <1>7 DEF EndCommit, promise
<1>8. CASE FlushTask BY <1>8 DEF FlushTask, promise
<1>9. CASE Flushed \/ FlushFails BY <1>9 DEF Flushed, FlushFails, promise
<1>10. CASE Sync BY <1>10 DEF Sync, promise
<1>11. CASE AwaitFlush BY <1>11 DEF AwaitFlush, promise
<1>12. CASE FlushDevice BY <1>12 DEF FlushDevice, promise
<1>13. CASE DidFlush BY <1>13 DEF DidFlush, promise
<1>14. CASE UNCHANGED vars BY <1>14 DEF vars, promise
<1> QED BY <1>2, <1>3, <1>4, <1>5, <1>6, <1>7, <1>8, <1>9, <1>10, <1>11, <1>12, <1>13, <1>14
        DEF Next, CommitStep, FlushStep, SyncStep

\* The journal keeps the promise of DurableLog: what was committed before a sync
\* that returned is there after any number of crashes, and what a mount finds is
\* the beginning of a log that once was.
THEOREM Refinement == Spec => Implements
  BY InitRefines, NextRefines, Invariance, PTL DEF Spec, Implements, Abstract!Spec, Abstract!vars
=============================================================================
