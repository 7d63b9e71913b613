--------------------------- MODULE LockManagerProofs --------------------------
(***************************************************************************)
(* What the lock manager guarantees for any number of tasks, any keys, any *)
(* programs of the tasks and any limit on transactions in flight: locks    *)
(* exclude, the books are exact, no grant is owed, and grants are in order.*)
(*                                                                         *)
(* The properties rest on what a task has and wants in each stage (Shape)  *)
(* and on what an entry says of those that hold it or wait for it          *)
(* (EntryInv); most of the work is one lemma about wake().                 *)
(***************************************************************************)
EXTENDS LockManager, FiniteSetTheorems, SequenceTheorems, NaturalsInduction, WellFoundedInduction, TLAPS

\* A value is somewhere in a sequence; a sequence repeats nothing.
Has(s, x) == \E i \in 1..Len(s) : s[i] = x
NoRepeats(s) == \A i, j \in 1..Len(s) : s[i] = s[j] => i = j

Stages == {"idle", "add", "listen", "retry", "await", "reserve", "use", "reading", "commit", "unwind"}
          \cup Locking
Parts == {"sub", "notify", "locks", "guard"}
States == {"Vacant", "ReadLock", "Locked", "WriteLock"}

\* TypeOK but for the bounds of the counts.
TaskType ==
  /\ op \in [Tasks -> Ops] /\ stage \in [Tasks -> Stages] /\ todo \in [Tasks -> SUBSET Keys]
  /\ rd \in [Tasks -> SUBSET Keys] /\ wr \in [Tasks -> SUBSET Keys]
  /\ waker \in [Tasks -> {"none", "Pending", "Registered", "Woken"}]
  /\ sched \in [Tasks -> {"running", "parked", "scheduled"}]
  /\ unwind \in [Tasks -> Seq(Parts)] /\ rounds \in [Tasks -> 0..MaxRounds]
  /\ listening \subseteq Tasks
LockType == lock \in [Keys -> [state : States, read_count : Nat, queue : Seq(Tasks)]]

\* What is left to drop: nothing twice, and the event after the count.
Left(u) ==
  /\ NoRepeats(u)
  /\ \A i \in 1..Len(u) : u[i] = "sub" => i < Len(u) /\ u[i + 1] = "notify"

\* Where a task is, and what it wants there.
Stage(t) ==
  /\ todo[t] # {} <=> stage[t] \in Locking
  /\ waker[t] # "none" => stage[t] \in Locking
  /\ unwind[t] # <<>> <=> stage[t] = "unwind"
  /\ stage[t] = "idle" => op[t] = NoOp /\ rd[t] = {}
  /\ op[t].kind # "txn" => stage[t] \in {"idle", "lock", "use", "unwind"}
  /\ op[t].kind = "txn" => stage[t] # "idle" /\ Filesystem \notin op[t].keys
  /\ stage[t] = "guard" => todo[t] = {Filesystem}
  /\ stage[t] = "lock" => todo[t] \subseteq op[t].keys
  /\ stage[t] = "reread" => \E k \in wr[t] : todo[t] = {k}
  /\ stage[t] = "prepare" => todo[t] \subseteq wr[t]

\* What it has: a reader has read locks only, a writer write locks only, a
\* transaction the filesystem's guard, then its locks, and for a while a read
\* lock on one of these.
Hold(t) ==
  /\ op[t].kind = "read" => wr[t] = {} /\ (stage[t] = "lock" => rd[t] \cap todo[t] = {})
  /\ op[t].kind = "write" => rd[t] = {}
  /\ op[t].kind = "txn" =>
       /\ wr[t] \subseteq op[t].keys
       /\ stage[t] # "reading" => rd[t] \subseteq {Filesystem}
       /\ stage[t] = "guard" => rd[t] = {}
       /\ stage[t] \in {"guard", "add", "listen", "retry", "await", "reserve"} => wr[t] = {}
  /\ stage[t] = "lock" => wr[t] \cap todo[t] = {}

\* What is still to be dropped is on the list.
Drops(t) ==
  /\ Left(unwind[t])
  /\ stage[t] = "unwind" => /\ rd[t] # {} => Has(unwind[t], "guard")
                            /\ wr[t] # {} => Has(unwind[t], "locks")
                            /\ Has(unwind[t], "sub") => op[t].kind = "txn"

Shape == \A t \in Tasks : Stage(t) /\ Hold(t) /\ Drops(t)

\* A task waits for a key.
Waits(t, k) == waker[t] \in {"Pending", "Registered"} /\ Current(t) = k

\* What an entry says of those that have the key.
Holders(e, R, W) ==
  /\ e.read_count = Cardinality(R)
  /\ \A u, v \in W : u = v
  /\ e.state \in {"Locked", "WriteLock"} <=> W # {}
  /\ e.state = "WriteLock" => R = {}

\* An entry is there exactly while it has a holder.
Present(e, R, W) ==
  /\ e.state = "Vacant" <=> R \cup W = {}
  /\ e.state = "Vacant" => e.queue = <<>>

\* An upgrade is at the head of the list.
Line(e) ==
  /\ NoRepeats(e.queue)
  /\ \A i \in 1..Len(e.queue) : IsUpgrade(e.queue[i]) => i = 1

\* The state of an entry is the one its writer relies on.
State(e, u, k) ==
  /\ op[u].kind # "txn" => e.state = "WriteLock"
  /\ op[u].kind = "txn" /\ stage[u] # "unwind" =>
       e.state = IF k \in Exclusive(u) THEN "WriteLock" ELSE "Locked"

\* No grant is owed.
Settled(e) ==
  \/ ~HeadProceeds(e)
  \/ e.state = "ReadLock" /\ e.read_count > 0 /\ Target(Head(e.queue)) = "Locked"

EntryInv(k) ==
  /\ Holders(lock[k], Readers(k), Writers(k)) /\ Present(lock[k], Readers(k), Writers(k))
  /\ Line(lock[k]) /\ Settled(lock[k])
  /\ \A u \in Writers(k) : State(lock[k], u, k)
  /\ \A u \in Tasks : Has(lock[k].queue, u) <=> Waits(u, k)
LockInv == \A k \in Keys : EntryInv(k)

\* A read lock on a key that the task has locked is never waited for.
RereadInv == \A t \in Tasks : stage[t] = "reread" => waker[t] = "none"

\* The count of transactions in flight.
Checked == {t \in InFlight : ~op[t].skip}
CountInv == inflight = Cardinality(InFlight) /\ Cardinality(Checked) <= MaxInFlight

\* The inductive invariant.
IInv == TaskType /\ LockType /\ Shape /\ LockInv /\ RereadInv /\ CountInv
-----------------------------------------------------------------------------
\* A nonempty set of natural numbers has a least element.
LEMMA LeastNat ==
  ASSUME NEW S \in SUBSET Nat, S # {}
  PROVE  \E k \in S : \A j \in S : k <= j
<1>1. PICK k \in S : \A j \in S : ~(<<j, k>> \in OpToRel(<, Nat))
  BY NatLessThanWellFounded, WFMin, Zenon
<1>2. \A j \in S : ~(j < k)
  <2>1. SUFFICES ASSUME NEW j \in S, j < k PROVE FALSE
    OBVIOUS
  <2>2. <<j, k>> \in OpToRel(<, Nat)
    BY <2>1, Zenon DEF OpToRel
  <2> QED BY <1>1, <2>2, Zenon
<1> QED BY <1>2

\* A task that locks has a current key.
LEMMA CurrentKey ==
  ASSUME TaskType, NEW t \in Tasks, todo[t] # {}
  PROVE  Current(t) \in todo[t] /\ Current(t) \in Keys
<1>1. todo[t] \in SUBSET Keys BY DEF TaskType
<1>2. \E k \in todo[t] : \A j \in todo[t] : k <= j BY <1>1, LeastNat, LockManagerAssumption
<1>3. Current(t) \in todo[t] BY <1>2 DEF Current, Min
<1> QED BY <1>1, <1>3

\* The number of places of a sequence without repetitions is that of the values
\* there.
LEMMA RangeCount ==
  ASSUME NEW T, NEW q \in Seq(T), NoRepeats(q), NEW a \in 1..Len(q) + 1, NEW b \in 0..Len(q), a <= b + 1
  PROVE  LET S == {q[i] : i \in a..b} IN IsFiniteSet(S) /\ Cardinality(S) = b - a + 1
<1> DEFINE S == {q[i] : i \in a..b}
           f == [i \in a..b |-> q[i]]
<1>1. f \in [a..b -> S] OBVIOUS
<1>2. \A i, j \in a..b : f[i] = f[j] => i = j BY DEF NoRepeats
<1>3. \A s \in S : \E i \in a..b : f[i] = s OBVIOUS
<1>4. f \in Bijection(a..b, S) BY <1>1, <1>2, <1>3 DEF Bijection, Injection, Surjection, IsInjective
<1>5. IsFiniteSet(a..b) /\ Cardinality(a..b) = b - a + 1
  <2>1. a \in Int /\ b \in Int OBVIOUS
  <2>2. IsFiniteSet(a..b) /\ Cardinality(a..b) = IF a > b THEN 0 ELSE b - a + 1 BY <2>1, FS_Interval
  <2> QED BY <2>2
<1> QED BY <1>4, <1>5, FS_Bijection DEF ExistsBijection

\* LeadingReaders is how many readers come first.
LEMMA LeadingReadersSound ==
  ASSUME NEW q \in Seq(Tasks)
  PROVE  LET n == LeadingReaders(q) IN
         /\ n \in 0..Len(q)
         /\ \A i \in 1..n : Target(q[i]) = "ReadLock"
         /\ n < Len(q) => Target(q[n + 1]) # "ReadLock"
<1> DEFINE P(n) == /\ \A i \in 1..n : Target(q[i]) = "ReadLock"
                   /\ n < Len(q) => Target(q[n + 1]) # "ReadLock"
           S == {n \in 0..Len(q) : n < Len(q) => Target(q[n + 1]) # "ReadLock"}
<1>1. S \in SUBSET Nat /\ Len(q) \in S BY LenProperties
<1>2. PICK n \in S : \A j \in S : n <= j BY <1>1, LeastNat
<1>3. ASSUME NEW i \in 1..n PROVE Target(q[i]) = "ReadLock"
  <2>1. i - 1 \in 0..Len(q) /\ i - 1 < n BY <1>1, <1>2, LenProperties
  <2>2. i - 1 \notin S
    <3>1. n \in Nat /\ ~(n <= i - 1) BY <1>1, <2>1
    <3> HIDE DEF S
    <3> QED BY <1>2, <3>1
  <2>3. Target(q[(i - 1) + 1]) = "ReadLock" BY <2>1, <2>2
  <2> QED BY <2>3
<1>4. \E m \in 0..Len(q) : P(m) BY <1>2, <1>3
<1> QED BY <1>4 DEF LeadingReaders

\* A target is a state of the lock.
LEMMA Targets == \A t : Target(t) \in {"ReadLock", "Locked", "WriteLock"}
BY DEF Target

EntryType == [state : States, read_count : Nat, queue : Seq(Tasks)]

\* How many wake() pops, and whom.
LEMMA WakeCounts ==
  ASSUME NEW e \in EntryType
  PROVE  LET n == WakeCount(e) q == e.queue IN
         /\ n \in 0..Len(q)
         /\ n = 0 <=> ~HeadProceeds(e)
         /\ \A i \in 2..n : Target(q[i]) = "ReadLock"
         /\ n > 0 /\ Target(q[1]) = "WriteLock" => n = 1
         /\ n > 0 /\ Target(q[1]) # "WriteLock" /\ n < Len(q) => Target(q[n + 1]) # "ReadLock"
<1> DEFINE q == e.queue
           m == LeadingReaders(Tail(q))
<1>1. q \in Seq(Tasks) BY DEF EntryType
<1>2. CASE ~HeadProceeds(e) BY <1>1, <1>2, LenProperties DEF WakeCount
<1>3. CASE HeadProceeds(e)
  <2>1. q # <<>> /\ Len(q) \in Nat \ {0} BY <1>1, <1>3, LenProperties, EmptySeq DEF HeadProceeds
  <2>2. Head(q) = q[1] BY <1>1, <2>1
  <2>3. CASE Target(q[1]) = "WriteLock" BY <1>3, <2>1, <2>2, <2>3 DEF WakeCount
  <2>4. CASE Target(q[1]) # "WriteLock"
    <3>1. Tail(q) \in Seq(Tasks) /\ Len(Tail(q)) = Len(q) - 1 /\ \A i \in 1..Len(q) - 1 : Tail(q)[i] = q[i + 1]
      BY <1>1, <2>1, HeadTailProperties
    <3>2. /\ m \in 0..Len(q) - 1 /\ \A i \in 1..m : Target(Tail(q)[i]) = "ReadLock"
          /\ m < Len(q) - 1 => Target(Tail(q)[m + 1]) # "ReadLock"
      BY <3>1, LeadingReadersSound
    <3>3. WakeCount(e) = 1 + m BY <1>3, <2>2, <2>4 DEF WakeCount
    <3>4. ASSUME NEW i \in 2..1 + m PROVE Target(q[i]) = "ReadLock"
      <4>1. i - 1 \in 1..m /\ i - 1 \in 1..Len(q) - 1 /\ (i - 1) + 1 = i BY <2>1, <3>2
      <4>2. Target(Tail(q)[i - 1]) = "ReadLock" BY <3>2, <4>1
      <4>3. Tail(q)[i - 1] = q[(i - 1) + 1] BY <3>1, <4>1
      <4> QED BY <4>1, <4>2, <4>3
    <3>5. 1 + m < Len(q) => Target(q[(1 + m) + 1]) # "ReadLock"
      <4>1. SUFFICES ASSUME 1 + m < Len(q) PROVE Target(q[(1 + m) + 1]) # "ReadLock" OBVIOUS
      <4>2. m + 1 \in 1..Len(q) - 1 /\ (m + 1) + 1 = (1 + m) + 1 BY <2>1, <3>2, <4>1
      <4>3. Tail(q)[m + 1] = q[(m + 1) + 1] BY <3>1, <4>2
      <4>4. m < Len(q) - 1 BY <2>1, <3>2, <4>1
      <4> QED BY <3>2, <4>2, <4>3, <4>4
    <3> HIDE DEF m
    <3> QED BY <1>3, <2>1, <2>4, <3>2, <3>3, <3>4, <3>5
  <2> QED BY <2>3, <2>4
<1> QED BY <1>2, <1>3
-----------------------------------------------------------------------------
\* What an entry's queue is made of: upgrades of the holder, and readers that
\* do not read yet.
Queued(e, R, W) ==
  \A i \in 1..Len(e.queue) :
    LET u == e.queue[i]
    IN  /\ IsUpgrade(u) => u \in W /\ e.state = "Locked" /\ Target(u) = "WriteLock"
        /\ Target(u) = "ReadLock" => u \notin R

Reading(S) == {u \in S : Target(u) = "ReadLock"}
Writing(S) == {u \in S : Target(u) # "ReadLock"}

\* A result w of an operation that leaves entry e, with R and W its readers and
\* writers: who was woken has the lock.
Grants(e, R, W, w) ==
  /\ w.entry \in EntryType /\ w.entry.state # "Vacant"
  /\ \E n \in 0..Len(e.queue) :
       /\ w.woken = {e.queue[i] : i \in 1..n}
       /\ Len(w.entry.queue) = Len(e.queue) - n
       /\ \A i \in 1..Len(e.queue) - n : w.entry.queue[i] = e.queue[i + n]
  /\ Holders(w.entry, R \cup Reading(w.woken), W \cup Writing(w.woken))
  /\ Line(w.entry) /\ Settled(w.entry)
  /\ \A u \in Writing(w.woken) : w.entry.state = Target(u)
  /\ Writing(w.woken) = {} => w.entry.state = e.state
  /\ CanRemove(w.entry) => w.entry.queue = <<>>

\* wake() when the head of the list may not proceed.
LEMMA WakeNone ==
  ASSUME NEW e \in EntryType, NEW R \in SUBSET Tasks, NEW W \in SUBSET Tasks, e.state # "Vacant",
         Holders(e, R, W), Line(e), Queued(e, R, W), ~HeadProceeds(e)
  PROVE  Grants(e, R, W, Wake(e))
<1> DEFINE q == e.queue
<1>1. q \in Seq(Tasks) /\ Len(q) \in Nat BY LenProperties DEF EntryType
<1>2. WakeCount(e) = 0 BY WakeCounts
<1>3. SubSeq(q, 0 + 1, Len(q)) = q BY <1>1
<1>4. Wake(e).entry = [state |-> e.state, read_count |-> e.read_count + 0, queue |-> q] BY <1>2, <1>3 DEF Wake
<1>5. Wake(e).woken = {} BY <1>2 DEF Wake
<1>6. Wake(e).entry = e BY <1>4 DEF EntryType
<1>7. Reading({}) = {} /\ Writing({}) = {} BY DEF Reading, Writing
<1>8. CanRemove(e) => q = <<>>
  <2>1. SUFFICES ASSUME CanRemove(e), q # <<>> PROVE HeadProceeds(e) OBVIOUS
  <2>2. Len(q) > 0 /\ Head(q) = q[1] BY <1>1, <2>1
  <2>3. ~IsUpgrade(q[1]) BY <2>1, <2>2, <1>1 DEF Queued, CanRemove
  <2> QED BY <2>1, <2>2, <2>3 DEF HeadProceeds, IsAllowed, CanRemove
<1>9. \E n \in 0..Len(q) : /\ Wake(e).woken = {q[i] : i \in 1..n} /\ Len(q) = Len(q) - n
                           /\ \A i \in 1..Len(q) - n : q[i] = q[i + n]
  <2>1. Wake(e).woken = {q[i] : i \in 1..0} BY <1>5
  <2>2. Len(q) = Len(q) - 0 /\ \A i \in 1..Len(q) - 0 : q[i] = q[i + 0] BY <1>1
  <2>3. 0 \in 0..Len(q) BY <1>1
  <2> QED BY <2>1, <2>2, <2>3
<1>10. Settled(e) BY DEF Settled
<1> QED BY <1>5, <1>6, <1>7, <1>8, <1>9, <1>10 DEF Grants

\* Those woken: the writer if there is one, and the readers, who are counted.
LEMMA WakeSome ==
  ASSUME NEW e \in EntryType, NEW R \in SUBSET Tasks, NEW W \in SUBSET Tasks, e.state # "Vacant",
         Holders(e, R, W), Line(e), Queued(e, R, W), HeadProceeds(e)
  PROVE  Grants(e, R, W, Wake(e))
<1> DEFINE q == e.queue
           n == WakeCount(e)
           h == q[1]
           S == {q[i] : i \in 1..n}
           f == Wake(e).entry
           tail == SubSeq(q, n + 1, Len(q))
<1>1. q \in Seq(Tasks) /\ Len(q) \in Nat /\ R \subseteq Tasks /\ W \subseteq Tasks
  BY LenProperties DEF EntryType
<1>2. /\ n \in 1..Len(q)
      /\ \A i \in 2..n : Target(q[i]) = "ReadLock"
      /\ Target(h) = "WriteLock" => n = 1
      /\ Target(h) # "WriteLock" /\ n < Len(q) => Target(q[n + 1]) # "ReadLock"
  BY <1>1, WakeCounts
<1> HIDE DEF n
<1>3. Head(q) = h /\ q # <<>> BY <1>1, <1>2
<1>4. /\ tail \in Seq(Tasks) /\ Len(tail) = Len(q) - n
      /\ \A i \in 1..Len(q) - n : tail[i] = q[i + n]
  BY <1>1, <1>2, SubSeqProperties
<1>5. /\ f = [state |-> IF Target(h) # "ReadLock" THEN Target(h) ELSE e.state,
              read_count |-> e.read_count + (IF Target(h) # "ReadLock" THEN n - 1 ELSE n), queue |-> tail]
      /\ Wake(e).woken = S
  <2>1. \A i \in 1..n : SubSeq(q, 1, n)[i] = q[i] BY <1>1, <1>2
  <2>2. {SubSeq(q, 1, n)[i] : i \in 1..n} = S BY <2>1
  <2>3. n > 0 /\ n = WakeCount(e) BY <1>1, <1>2 DEF n
  <2>4. Wake(e).woken = S BY <2>2, <2>3 DEF Wake
  <2>5. f = [state |-> IF Target(h) # "ReadLock" THEN Target(h) ELSE e.state,
             read_count |-> e.read_count + (IF Target(h) # "ReadLock" THEN n - 1 ELSE n), queue |-> tail]
    BY <1>3, <2>3 DEF Wake
  <2> QED BY <2>4, <2>5
<1> HIDE DEF f, tail
<1>6. \A i \in 1..n : q[i] \in Tasks BY <1>1, <1>2
<1>7. h \in S /\ S \subseteq Tasks BY <1>2, <1>6
<1>8. Target(h) \in {"ReadLock", "Locked", "WriteLock"} BY Targets
<1>9. e.read_count \in Nat /\ e.state \in {"ReadLock", "Locked"}
  BY DEF EntryType, States, HeadProceeds
<1>10. IF IsUpgrade(h) THEN e.read_count = 0 ELSE IsAllowed(e, Target(h), TRUE)
  BY <1>3 DEF HeadProceeds
<1>11. IsUpgrade(h) => h \in W /\ e.state = "Locked" /\ Target(h) = "WriteLock"
  BY <1>1, <1>2 DEF Queued
<1>12. \A i \in 2..Len(q) : ~IsUpgrade(q[i]) BY <1>1, <1>2 DEF Line
<1>13. f \in EntryType /\ f.state # "Vacant"
  BY <1>2, <1>4, <1>5, <1>8, <1>9 DEF EntryType, States
<1>14. Line(f)
  <2>1. NoRepeats(q) BY DEF Line
  <2>2. NoRepeats(tail) BY <1>1, <1>2, <1>4, <2>1 DEF NoRepeats
  <2>3. \A i \in 1..Len(tail) : ~IsUpgrade(tail[i]) BY <1>1, <1>2, <1>4, <1>12
  <2> QED BY <1>5, <2>2, <2>3 DEF Line
<1>15. Writing(S) = IF Target(h) # "ReadLock" THEN {h} ELSE {}
  BY <1>2, <1>7 DEF Writing
<1>16. IsFiniteSet(R) /\ Cardinality(R) = e.read_count
  BY LockManagerAssumption, FS_Subset DEF Holders
<1>17. /\ IsFiniteSet(Reading(S))
       /\ Cardinality(Reading(S)) = IF Target(h) # "ReadLock" THEN n - 1 ELSE n
  <2>1. NoRepeats(q) BY DEF Line
  <2>2. CASE Target(h) # "ReadLock"
    <3>1. Reading(S) = {q[i] : i \in 2..n}
      <4>1. \A i \in 1..n : i = 1 \/ i \in 2..n BY <1>2
      <4> QED BY <1>2, <2>2, <4>1 DEF Reading
    <3>2. 2 \in 1..Len(q) + 1 /\ n \in 0..Len(q) /\ 2 <= n + 1 BY <1>1, <1>2
    <3>3. IsFiniteSet({q[i] : i \in 2..n}) /\ Cardinality({q[i] : i \in 2..n}) = n - 2 + 1
      BY <1>1, <2>1, <3>2, RangeCount
    <3>4. n - 2 + 1 = n - 1 BY <3>2
    <3> HIDE DEF S
    <3> QED BY <2>2, <3>1, <3>3, <3>4
  <2>3. CASE Target(h) = "ReadLock"
    <3>1. Reading(S) = {q[i] : i \in 1..n}
      <4>1. \A i \in 1..n : i = 1 \/ i \in 2..n BY <1>2
      <4> QED BY <1>2, <2>3, <4>1 DEF Reading
    <3>2. 1 \in 1..Len(q) + 1 /\ n \in 0..Len(q) /\ 1 <= n + 1 BY <1>1, <1>2
    <3>3. IsFiniteSet({q[i] : i \in 1..n}) /\ Cardinality({q[i] : i \in 1..n}) = n - 1 + 1
      BY <1>1, <2>1, <3>2, RangeCount
    <3>4. n - 1 + 1 = n BY <3>2
    <3> HIDE DEF S
    <3> QED BY <2>3, <3>1, <3>3, <3>4
  <2> QED BY <2>2, <2>3
<1>18. R \cap Reading(S) = {} BY <1>1, <1>2 DEF Queued, Reading
<1>19. Cardinality(R \cup Reading(S)) = f.read_count
  <2>1. Cardinality(R \cup Reading(S)) = Cardinality(R) + Cardinality(Reading(S)) - Cardinality({})
    BY <1>16, <1>17, <1>18, FS_Union
  <2> QED BY <1>2, <1>5, <1>9, <1>16, <1>17, <2>1, FS_EmptySet
<1> HIDE DEF S
<1>20. Holders(f, R \cup Reading(S), W \cup Writing(S))
  <2>1. CASE Target(h) = "ReadLock"
    <3>1. Writing(S) = {} /\ f.state = e.state BY <1>5, <1>15, <2>1
    <3> QED BY <1>9, <1>19, <3>1 DEF Holders
  <2>2. CASE Target(h) = "Locked"
    <3>1. Writing(S) = {h} /\ f.state = "Locked" BY <1>5, <1>15, <2>2
    <3>2. W = {} BY <1>10, <1>11, <2>2 DEF IsAllowed, Holders
    <3> QED BY <1>19, <3>1, <3>2 DEF Holders
  <2>3. CASE Target(h) = "WriteLock"
    <3>1. Writing(S) = {h} /\ f.state = "WriteLock" BY <1>5, <1>15, <2>3
    <3>2. e.read_count = 0 BY <1>10, <2>3 DEF IsAllowed
    <3>3. f.read_count = 0 BY <1>2, <1>5, <2>3, <3>2
    <3>4. R \cup Reading(S) = {}
      <4>1. IsFiniteSet(R \cup Reading(S)) BY <1>16, <1>17, FS_Union
      <4> QED BY <1>19, <3>3, <4>1, FS_EmptySet
    <3>5. W \cup Writing(S) = {h}
      <4>1. CASE IsUpgrade(h) BY <1>11, <3>1, <4>1 DEF Holders
      <4>2. CASE ~IsUpgrade(h) BY <1>10, <2>3, <3>1, <4>2 DEF IsAllowed, Holders
      <4> QED BY <4>1, <4>2
    <3> QED BY <1>19, <3>1, <3>4, <3>5 DEF Holders
  <2> QED BY <1>8, <2>1, <2>2, <2>3
<1>21. Settled(f)
  <2>1. SUFFICES ASSUME HeadProceeds(f)
                 PROVE  f.state = "ReadLock" /\ f.read_count > 0 /\ Target(Head(f.queue)) = "Locked"
    BY DEF Settled
  <2>2. tail # <<>> /\ f.queue = tail /\ f.state # "WriteLock" BY <1>5, <2>1 DEF HeadProceeds
  <2>3. n < Len(q) /\ Head(tail) = q[n + 1] /\ n + 1 \in 2..Len(q) BY <1>1, <1>2, <1>4, <2>2
  <2>4. Target(h) # "WriteLock" BY <1>5, <2>2
  <2>5. ~IsUpgrade(q[n + 1]) /\ Target(q[n + 1]) # "ReadLock" BY <1>2, <1>12, <2>3, <2>4
  <2>6. IsAllowed(f, Target(q[n + 1]), TRUE) BY <2>1, <2>2, <2>3, <2>5 DEF HeadProceeds
  <2>7. f.state = "ReadLock" BY <2>5, <2>6 DEF IsAllowed
  <2>8. Target(h) = "ReadLock" BY <1>5, <1>8, <2>7
  <2>9. f.read_count > 0 BY <1>2, <1>5, <1>9, <2>8
  <2>10. Target(q[n + 1]) # "WriteLock" BY <2>6, <2>7, <2>9 DEF IsAllowed
  <2>11. Target(q[n + 1]) = "Locked" BY <2>5, <2>10, Targets
  <2> QED BY <2>2, <2>3, <2>7, <2>9, <2>11
<1>22. ~CanRemove(f) BY <1>2, <1>5, <1>8, <1>9 DEF CanRemove
<1>23. \A u \in Writing(S) : f.state = Target(u) BY <1>5, <1>15
<1>24. Writing(S) = {} => f.state = e.state BY <1>5, <1>15
<1>25. \E m \in 0..Len(q) : /\ S = {q[i] : i \in 1..m} /\ Len(f.queue) = Len(q) - m
                            /\ \A i \in 1..Len(q) - m : f.queue[i] = q[i + m]
  <2>1. n \in 0..Len(q) /\ f.queue = tail BY <1>1, <1>2, <1>5
  <2>2. S = {q[i] : i \in 1..n} BY DEF S
  <2> QED BY <1>4, <2>1, <2>2
<1> QED BY <1>5, <1>13, <1>14, <1>20, <1>21, <1>22, <1>23, <1>24, <1>25 DEF Grants, f

\* wake() keeps the books.
LEMMA WakeSound ==
  ASSUME NEW e \in EntryType, NEW R \in SUBSET Tasks, NEW W \in SUBSET Tasks, e.state # "Vacant",
         Holders(e, R, W), Line(e), Queued(e, R, W)
  PROVE  Grants(e, R, W, Wake(e))
BY WakeNone, WakeSome
-----------------------------------------------------------------------------
\* A result w for an entry that, after a task's own part of an operation, has
\* queue q, state s, readers R and writers W: the first of the queue are woken
\* and have the lock, and the books of the entry are right.
Effect(q, s, R, W, w) ==
  /\ q \in Seq(Tasks) /\ NoRepeats(q) /\ R \subseteq Tasks /\ W \subseteq Tasks
  /\ w.entry \in EntryType
  /\ \E n \in 0..Len(q) : /\ w.woken = {q[i] : i \in 1..n}
                          /\ Len(w.entry.queue) = Len(q) - n
                          /\ \A i \in 1..Len(q) - n : w.entry.queue[i] = q[i + n]
  /\ Holders(w.entry, R \cup Reading(w.woken), W \cup Writing(w.woken))
  /\ Present(w.entry, R \cup Reading(w.woken), W \cup Writing(w.woken))
  /\ Line(w.entry) /\ Settled(w.entry)
  /\ \A u \in Writing(w.woken) : w.entry.state = Target(u)
  /\ Writing(w.woken) = {} /\ W # {} => w.entry.state = s

Good(e, R, W) ==
  /\ e \in EntryType /\ R \subseteq Tasks /\ W \subseteq Tasks
  /\ Holders(e, R, W) /\ Present(e, R, W) /\ Line(e) /\ Settled(e) /\ Queued(e, R, W)

\* Nobody is woken.
LEMMA UnwokenSound ==
  ASSUME NEW e \in EntryType, NEW R \in SUBSET Tasks, NEW W \in SUBSET Tasks,
         Holders(e, R, W), Present(e, R, W), Line(e), Settled(e)
  PROVE  Effect(e.queue, e.state, R, W, Unwoken(e))
<1> DEFINE q == e.queue
<1>1. q \in Seq(Tasks) /\ Len(q) \in Nat BY LenProperties DEF EntryType
<1>2. Unwoken(e).entry = e /\ Unwoken(e).woken = {} BY DEF Unwoken
<1>3. Reading({}) = {} /\ Writing({}) = {} BY DEF Reading, Writing
<1>4. \E n \in 0..Len(q) : /\ {} = {q[i] : i \in 1..n} /\ Len(q) = Len(q) - n
                           /\ \A i \in 1..Len(q) - n : q[i] = q[i + n]
  <2>1. {} = {q[i] : i \in 1..0} OBVIOUS
  <2>2. Len(q) = Len(q) - 0 /\ \A i \in 1..Len(q) - 0 : q[i] = q[i + 0] BY <1>1
  <2>3. 0 \in 0..Len(q) BY <1>1
  <2> QED BY <2>1, <2>2, <2>3
<1>5. NoRepeats(q) /\ R \subseteq Tasks /\ W \subseteq Tasks BY DEF Line
<1>6. /\ Holders(e, R \cup Reading({}), W \cup Writing({}))
      /\ Present(e, R \cup Reading({}), W \cup Writing({}))
  BY <1>3
<1>7. \A u \in Writing({}) : e.state = Target(u) BY <1>3
<1> QED BY <1>1, <1>2, <1>4, <1>5, <1>6, <1>7 DEF Effect

\* wake() is called, and the entry is removed if nobody has it.
LEMMA WakeEffect ==
  ASSUME NEW e \in EntryType, NEW R \in SUBSET Tasks, NEW W \in SUBSET Tasks, e.state # "Vacant",
         Holders(e, R, W), Line(e), Queued(e, R, W)
  PROVE  LET w == Wake(e) IN
         /\ ~CanRemove(w.entry) => Effect(e.queue, e.state, R, W, w)
         /\ CanRemove(w.entry) => Effect(e.queue, e.state, R, W, [w EXCEPT !.entry = NoEntry])
<1> DEFINE w == Wake(e)
           q == e.queue
           R1 == R \cup Reading(w.woken)
           W1 == W \cup Writing(w.woken)
<1>1. Grants(e, R, W, w) BY WakeSound
<1>2. q \in Seq(Tasks) /\ Len(q) \in Nat /\ NoRepeats(q) /\ R \subseteq Tasks /\ W \subseteq Tasks
  BY LenProperties DEF EntryType, Line
<1>3. w = [entry |-> w.entry, woken |-> w.woken] BY DEF Wake
<1> HIDE DEF w
<1>4. R1 \subseteq Tasks /\ IsFiniteSet(R1)
  <2>1. w.woken \subseteq Tasks
    <3>1. PICK n \in 0..Len(q) : w.woken = {q[i] : i \in 1..n} BY <1>1 DEF Grants
    <3> QED BY <1>2, <3>1
  <2>2. R1 \subseteq Tasks BY <2>1 DEF Reading
  <2> QED BY <2>2, LockManagerAssumption, FS_Subset
<1>5. Holders(w.entry, R1, W1) BY <1>1 DEF Grants
<1>6. CanRemove(w.entry) <=> R1 \cup W1 = {}
  <2>1. w.entry.read_count = 0 <=> R1 = {}
    <3>1. w.entry.read_count = Cardinality(R1) BY <1>5 DEF Holders
    <3> QED BY <1>4, <3>1, FS_EmptySet
  <2>2. w.entry.state = "ReadLock" <=> W1 = {}
    <3>1. w.entry.state \in {"ReadLock", "Locked", "WriteLock"} BY <1>1 DEF Grants, EntryType, States
    <3> QED BY <1>5, <3>1 DEF Holders
  <2> QED BY <2>1, <2>2 DEF CanRemove
<1>7. ASSUME ~CanRemove(w.entry) PROVE Effect(q, e.state, R, W, w)
  <2>1. Present(w.entry, R1, W1) BY <1>1, <1>6, <1>7 DEF Present, Grants
  <2> QED BY <1>1, <1>2, <2>1 DEF Effect, Grants
<1>8. ASSUME CanRemove(w.entry) PROVE Effect(q, e.state, R, W, [w EXCEPT !.entry = NoEntry])
  <2> DEFINE v == [w EXCEPT !.entry = NoEntry]
  <2>1. v.entry = NoEntry /\ v.woken = w.woken BY <1>3
  <2>2. R1 = {} /\ W1 = {} /\ W = {} /\ Writing(w.woken) = {} BY <1>6, <1>8
  <2>3. NoEntry \in EntryType BY DEF NoEntry, EntryType, States
  <2>4. w.entry.queue = <<>> BY <1>1, <1>8 DEF Grants
  <2>5. /\ NoEntry.queue = <<>> /\ NoEntry.state = "Vacant" /\ NoEntry.read_count = 0
    BY DEF NoEntry
  <2>6. Holders(NoEntry, {}, {}) /\ Present(NoEntry, {}, {}) BY <2>5, FS_EmptySet DEF Holders, Present
  <2>7. Line(NoEntry) /\ Settled(NoEntry) BY <2>5 DEF Line, NoRepeats, Settled, HeadProceeds
  <2>8. v.entry.queue = w.entry.queue BY <2>1, <2>4, <2>5
  <2> HIDE DEF v
  <2>9. \E n \in 0..Len(q) : /\ v.woken = {q[i] : i \in 1..n}
                             /\ Len(v.entry.queue) = Len(q) - n
                             /\ \A i \in 1..Len(q) - n : v.entry.queue[i] = q[i + n]
    BY <1>1, <2>1, <2>8 DEF Grants
  <2>10. /\ Holders(v.entry, R \cup Reading(v.woken), W \cup Writing(v.woken))
         /\ Present(v.entry, R \cup Reading(v.woken), W \cup Writing(v.woken))
    BY <2>1, <2>2, <2>6
  <2>11. Effect(q, e.state, R, W, v)
    BY <1>2, <2>1, <2>2, <2>3, <2>7, <2>9, <2>10 DEF Effect
  <2> QED BY <2>11 DEF v
<1> QED BY <1>7, <1>8 DEF w

\* A read lock is dropped.
LEMMA DropReadSound ==
  ASSUME NEW e, NEW R, NEW W, Good(e, R, W), NEW t \in R
  PROVE  Effect(e.queue, e.state, R \ {t}, W, DropLock(e, "ReadLock"))
<1> DEFINE d == [e EXCEPT !.read_count = @ - 1]
           R1 == R \ {t}
<1>1. e \in EntryType /\ R \subseteq Tasks /\ W \subseteq Tasks BY DEF Good
<1>2. IsFiniteSet(R) /\ Cardinality(R) = e.read_count
  BY <1>1, LockManagerAssumption, FS_Subset DEF Good, Holders
<1>3. Cardinality(R1) = e.read_count - 1 /\ e.read_count \in Nat /\ e.read_count > 0 /\ IsFiniteSet(R1)
  <2>1. IsFiniteSet(R1) /\ Cardinality(R1) = Cardinality(R) - 1 BY <1>2, FS_RemoveElement
  <2>2. Cardinality(R1) \in Nat BY <2>1, FS_CardinalityType
  <2>3. e.read_count \in Nat BY <1>1 DEF EntryType
  <2> QED BY <1>2, <2>1, <2>2, <2>3
<1>4. d \in EntryType /\ d.queue = e.queue /\ d.state = e.state /\ d.read_count = e.read_count - 1
  BY <1>1, <1>3 DEF EntryType
<1> HIDE DEF d
<1>5. e.state # "Vacant" BY <1>1 DEF Good, Present
<1>6. Holders(d, R1, W) BY <1>3, <1>4 DEF Good, Holders
<1>7. Line(d) /\ Queued(d, R1, W) BY <1>4 DEF Good, Line, Queued
<1>8. CASE d.read_count > 0
  <2>1. DropLock(e, "ReadLock") = Unwoken(d) BY <1>8 DEF DropLock, d
  <2>2. R1 # {} BY <1>3, <1>4, <1>8, FS_EmptySet
  <2>3. Present(d, R1, W) BY <1>4, <1>5, <2>2 DEF Present
  <2>4. Settled(d)
    <3>1. Settled(e) BY DEF Good
    <3> QED BY <1>3, <1>4, <1>8, <3>1 DEF Settled, HeadProceeds, IsAllowed
  <2> QED BY <1>1, <1>4, <1>6, <1>7, <2>1, <2>3, <2>4, UnwokenSound
<1>9. CASE ~(d.read_count > 0)
  <2>1. DropLock(e, "ReadLock") = IF CanRemove(Wake(d).entry) THEN [Wake(d) EXCEPT !.entry = NoEntry] ELSE Wake(d)
    BY <1>9 DEF DropLock, d
  <2>2. R1 \in SUBSET Tasks /\ W \in SUBSET Tasks /\ d.state # "Vacant" BY <1>1, <1>4, <1>5
  <2> HIDE DEF R1
  <2>3. /\ ~CanRemove(Wake(d).entry) => Effect(e.queue, e.state, R1, W, Wake(d))
        /\ CanRemove(Wake(d).entry) => Effect(e.queue, e.state, R1, W, [Wake(d) EXCEPT !.entry = NoEntry])
    BY <1>4, <1>6, <1>7, <2>2, WakeEffect
  <2> QED BY <2>1, <2>3 DEF R1
<1> QED BY <1>8, <1>9

\* A write lock or a transaction's lock is dropped.
LEMMA DropWriteSound ==
  ASSUME NEW e, NEW R, NEW W, Good(e, R, W), NEW t \in W, ~Has(e.queue, t), NEW s, s # "ReadLock"
  PROVE  Effect(e.queue, "ReadLock", R, W \ {t}, DropLock(e, s))
<1> DEFINE d == [e EXCEPT !.state = "ReadLock"]
           W1 == W \ {t}
<1>1. e \in EntryType /\ R \subseteq Tasks /\ W \subseteq Tasks BY DEF Good
<1>2. W1 = {} BY DEF Good, Holders
<1>3. d \in EntryType /\ d.queue = e.queue /\ d.state = "ReadLock" /\ d.read_count = e.read_count
  BY <1>1 DEF EntryType, States
<1>4. DropLock(e, s) = IF CanRemove(Wake(d).entry) THEN [Wake(d) EXCEPT !.entry = NoEntry] ELSE Wake(d)
  BY DEF DropLock
<1> HIDE DEF d
<1>5. Holders(d, R, {}) BY <1>3 DEF Good, Holders
<1>6. \A i \in 1..Len(e.queue) : ~IsUpgrade(e.queue[i]) BY DEF Good, Queued, Holders, Has
<1>7. Line(d) /\ Queued(d, R, {}) BY <1>3, <1>6 DEF Good, Line, Queued
<1>8. /\ ~CanRemove(Wake(d).entry) => Effect(e.queue, "ReadLock", R, {}, Wake(d))
      /\ CanRemove(Wake(d).entry) => Effect(e.queue, "ReadLock", R, {}, [Wake(d) EXCEPT !.entry = NoEntry])
  BY <1>1, <1>3, <1>5, <1>7, WakeEffect
<1> QED BY <1>2, <1>4, <1>8

\* A write lock becomes a transaction's lock.
LEMMA DowngradeSound ==
  ASSUME NEW e, NEW R, NEW W, Good(e, R, W), e.state = "WriteLock"
  PROVE  Effect(e.queue, "Locked", R, W, DowngradeLock(e))
<1> DEFINE d == [e EXCEPT !.state = "Locked"]
<1>1. e \in EntryType /\ R \subseteq Tasks /\ W \subseteq Tasks BY DEF Good
<1>2. d \in EntryType /\ d.queue = e.queue /\ d.state = "Locked" /\ d.read_count = e.read_count
  BY <1>1 DEF EntryType, States
<1>3. DowngradeLock(e) = Wake(d) BY DEF DowngradeLock
<1> HIDE DEF d
<1>4. Holders(d, R, W) /\ W # {} BY <1>2 DEF Good, Holders
<1>5. Line(d) /\ Queued(d, R, W) BY <1>2 DEF Good, Line, Queued
<1>6. Grants(d, R, W, Wake(d)) BY <1>1, <1>2, <1>4, <1>5, WakeSound
<1>7. ~CanRemove(Wake(d).entry) BY <1>4, <1>6 DEF Grants, Holders, CanRemove
<1> QED BY <1>1, <1>2, <1>3, <1>4, <1>5, <1>7, WakeEffect
-----------------------------------------------------------------------------
\* A list without one of its wakers: the others, in the same order.
LEMMA WithoutSound ==
  ASSUME NEW q \in Seq(Tasks), NoRepeats(q), NEW t \in Tasks, Has(q, t)
  PROVE  LET v == Without(q, t) IN
         /\ v \in Seq(Tasks) /\ NoRepeats(v) /\ Len(v) = Len(q) - 1
         /\ \E p \in 1..Len(q) : /\ q[p] = t
                                 /\ \A i \in 1..Len(q) - 1 : v[i] = IF i < p THEN q[i] ELSE q[i + 1]
         /\ \A u : Has(v, u) <=> Has(q, u) /\ u # t
<1> DEFINE p == CHOOSE i \in 1..Len(q) : q[i] = t
           v == Without(q, t)
<1>1. p \in 1..Len(q) /\ q[p] = t BY DEF Has
<1> HIDE DEF p
<1>2. v = [i \in 1..Len(q) - 1 |-> IF i < p THEN q[i] ELSE q[i + 1]] BY DEF Without, p
<1>3. Len(q) \in Nat /\ \A i \in 1..Len(q) : q[i] \in Tasks BY LenProperties
<1>4. \A i \in 1..Len(q) - 1 : v[i] = (IF i < p THEN q[i] ELSE q[i + 1]) /\ v[i] \in Tasks
  BY <1>1, <1>2, <1>3
<1>5. v \in Seq(Tasks) /\ Len(v) = Len(q) - 1
  <2>1. Len(q) - 1 \in Nat BY <1>1, <1>3
  <2>2. v \in [1..Len(q) - 1 -> Tasks] BY <1>2, <1>4
  <2> QED BY <2>1, <2>2, IsASeq, LenProperties
<1> HIDE DEF v
<1>6. NoRepeats(v) BY <1>1, <1>3, <1>4, <1>5 DEF NoRepeats
<1>7. ASSUME NEW u PROVE Has(v, u) <=> Has(q, u) /\ u # t
  <2>1. ASSUME Has(v, u) PROVE Has(q, u) /\ u # t
    <3>1. PICK i \in 1..Len(q) - 1 : v[i] = u BY <1>5, <2>1 DEF Has
    <3>2. CASE i < p
      <4>1. u = q[i] /\ i \in 1..Len(q) /\ i # p BY <1>1, <1>3, <1>4, <3>1, <3>2
      <4> QED BY <1>1, <4>1 DEF Has, NoRepeats
    <3>3. CASE ~(i < p)
      <4>1. u = q[i + 1] /\ i + 1 \in 1..Len(q) /\ i + 1 # p BY <1>1, <1>3, <1>4, <3>1, <3>3
      <4> QED BY <1>1, <4>1 DEF Has, NoRepeats
    <3> QED BY <3>2, <3>3
  <2>2. ASSUME Has(q, u), u # t PROVE Has(v, u)
    <3>1. PICK i \in 1..Len(q) : q[i] = u BY <2>2 DEF Has
    <3>2. i # p BY <1>1, <2>2, <3>1
    <3>3. CASE i < p
      <4>1. i \in 1..Len(q) - 1 /\ v[i] = u BY <1>1, <1>3, <1>4, <3>1, <3>3
      <4> QED BY <1>5, <4>1 DEF Has
    <3>4. CASE i > p
      <4>1. i - 1 \in 1..Len(q) - 1 /\ ~(i - 1 < p) /\ (i - 1) + 1 = i BY <1>1, <1>3, <3>4
      <4>2. v[i - 1] = u BY <1>4, <3>1, <4>1
      <4> QED BY <1>5, <4>1, <4>2 DEF Has
    <3> QED BY <1>1, <3>2, <3>3, <3>4
  <2> QED BY <2>1, <2>2
<1> QED BY <1>1, <1>4, <1>5, <1>6, <1>7 DEF v

\* A waker leaves the list.
LEMMA RemoveWakerSound ==
  ASSUME NEW e, NEW R, NEW W, Good(e, R, W), NEW t \in Tasks, Has(e.queue, t)
  PROVE  Effect(Without(e.queue, t), e.state, R, W, RemoveWaker(e, t))
<1> DEFINE q == e.queue
           v == Without(q, t)
           d == [e EXCEPT !.queue = v]
<1>1. e \in EntryType /\ R \subseteq Tasks /\ W \subseteq Tasks /\ NoRepeats(q) BY DEF Good, Line
<1>2. q \in Seq(Tasks) /\ Len(q) \in Nat BY <1>1, LenProperties DEF EntryType
<1>3. /\ v \in Seq(Tasks) /\ NoRepeats(v) /\ Len(v) = Len(q) - 1
      /\ \A u : Has(v, u) <=> Has(q, u) /\ u # t
  BY <1>1, <1>2, WithoutSound
<1>4. PICK p \in 1..Len(q) : /\ q[p] = t
                             /\ \A i \in 1..Len(q) - 1 : v[i] = IF i < p THEN q[i] ELSE q[i + 1]
  BY <1>1, <1>2, WithoutSound
<1>5. d \in EntryType /\ d.queue = v /\ d.state = e.state /\ d.read_count = e.read_count
  BY <1>1, <1>3 DEF EntryType
<1>6. RemoveWaker(e, t) = IF Head(q) = t THEN Wake(d) ELSE Unwoken(d) BY DEF RemoveWaker
<1> HIDE DEF d, v
<1>7. e.state # "Vacant"
  <2>1. q # <<>> BY <1>2, <1>4
  <2> QED BY <2>1 DEF Good, Present
<1>8. Holders(d, R, W) BY <1>5 DEF Good, Holders
<1>9. Present(d, R, W) BY <1>5, <1>7 DEF Good, Present
<1>10. Line(d)
  <2>1. ASSUME NEW i \in 1..Len(v), IsUpgrade(v[i]) PROVE i = 1
    <3>1. CASE i < p
      <4>1. IsUpgrade(q[i]) /\ i \in 1..Len(q) BY <1>2, <1>3, <1>4, <2>1, <3>1
      <4> QED BY <4>1 DEF Good, Line
    <3>2. CASE ~(i < p)
      <4>1. IsUpgrade(q[i + 1]) /\ i + 1 \in 1..Len(q) BY <1>2, <1>3, <1>4, <2>1, <3>2
      <4>2. i + 1 = 1 BY <4>1 DEF Good, Line
      <4> QED BY <1>2, <1>3, <4>2
    <3> QED BY <3>1, <3>2
  <2> QED BY <1>3, <1>5, <2>1 DEF Line
<1>11. Queued(d, R, W)
  <2>1. ASSUME NEW i \in 1..Len(v)
        PROVE  \E j \in 1..Len(q) : v[i] = q[j]
    <3>1. i \in 1..Len(q) /\ i + 1 \in 1..Len(q) /\ i \in 1..Len(q) - 1 BY <1>2, <1>3
    <3> QED BY <1>4, <3>1
  <2> QED BY <1>5, <2>1 DEF Good, Queued
<1>12. CASE Head(q) = t
  <2>1. Grants(d, R, W, Wake(d)) BY <1>1, <1>5, <1>7, <1>8, <1>10, <1>11, WakeSound
  <2>2. ~CanRemove(Wake(d).entry)
    <3>1. R \cup W # {} BY <1>7 DEF Good, Present
    <3>2. SUFFICES ASSUME CanRemove(Wake(d).entry) PROVE FALSE OBVIOUS
    <3>3. W = {} BY <2>1, <3>2 DEF Grants, Holders, CanRemove
    <3>4. R \cup Reading(Wake(d).woken) = {}
      <4>1. Wake(d).woken \subseteq Tasks
        <5>1. PICK n \in 0..Len(v) : Wake(d).woken = {v[i] : i \in 1..n} BY <1>5, <2>1 DEF Grants
        <5> QED BY <1>3, <5>1
      <4>2. IsFiniteSet(R \cup Reading(Wake(d).woken))
        BY <1>1, <4>1, LockManagerAssumption, FS_Subset DEF Reading
      <4> QED BY <2>1, <3>2, <4>2, FS_EmptySet DEF Grants, Holders, CanRemove
    <3> QED BY <3>1, <3>3, <3>4
  <2> QED BY <1>1, <1>5, <1>6, <1>7, <1>8, <1>10, <1>11, <1>12, <2>2, WakeEffect DEF v
<1>13. CASE Head(q) # t
  <2>1. p # 1 /\ v # <<>> /\ Head(v) = q[1] /\ Head(q) = q[1] /\ q # <<>>
    <3>1. Head(q) = q[1] /\ q # <<>> BY <1>2, <1>4
    <3>2. p # 1 BY <1>4, <1>13, <3>1
    <3>3. v[1] = q[1] /\ Len(v) > 0 BY <1>2, <1>3, <1>4, <3>2
    <3> QED BY <1>3, <3>1, <3>2, <3>3
  <2>2. Settled(d) BY <1>5, <2>1 DEF Good, Settled, HeadProceeds, IsAllowed
  <2> QED BY <1>1, <1>5, <1>6, <1>8, <1>9, <1>10, <1>13, <2>2, UnwokenSound DEF v
<1> QED BY <1>12, <1>13

\* A waker is added behind the list, or an upgrade in front of it.
LEMMA EnqueueSound ==
  ASSUME NEW e, NEW R, NEW W, Good(e, R, W), NEW t \in Tasks, ~Has(e.queue, t), ~IsUpgrade(t),
         e.state # "Vacant", ~IsAllowed(e, Target(t), e.queue = <<>>)
  PROVE  LET q == Append(e.queue, t) d == [e EXCEPT !.queue = q] IN
         Effect(q, e.state, R, W, Unwoken(d)) /\ \A u : Has(q, u) <=> Has(e.queue, u) \/ u = t
<1> DEFINE q == Append(e.queue, t)
           d == [e EXCEPT !.queue = q]
<1>1. e \in EntryType /\ R \subseteq Tasks /\ W \subseteq Tasks /\ NoRepeats(e.queue) BY DEF Good, Line
<1>2. e.queue \in Seq(Tasks) /\ Len(e.queue) \in Nat BY <1>1, LenProperties DEF EntryType
<1>3. /\ q \in Seq(Tasks) /\ Len(q) = Len(e.queue) + 1 /\ q[Len(e.queue) + 1] = t
      /\ \A i \in 1..Len(e.queue) : q[i] = e.queue[i]
  BY <1>2, AppendProperties
<1>4. d \in EntryType /\ d.queue = q /\ d.state = e.state /\ d.read_count = e.read_count
  BY <1>1, <1>3 DEF EntryType
<1> HIDE DEF d, q
<1>5. \A i \in 1..Len(q) : i \in 1..Len(e.queue) \/ i = Len(e.queue) + 1 BY <1>2, <1>3
<1>6. NoRepeats(q) BY <1>1, <1>2, <1>3, <1>5 DEF NoRepeats, Has
<1>7. \A u : Has(q, u) <=> Has(e.queue, u) \/ u = t
  <2>1. \A i \in 1..Len(e.queue) + 1 : i \in 1..Len(q) BY <1>2, <1>3
  <2>2. 1..Len(e.queue) \subseteq 1..Len(q) /\ Len(e.queue) + 1 \in 1..Len(q) BY <1>2, <1>3
  <2> QED BY <1>3, <1>5, <2>2 DEF Has
<1>8. Line(d)
  <2>1. \A i \in 1..Len(q) : IsUpgrade(q[i]) => i = 1 BY <1>3, <1>5 DEF Good, Line
  <2> QED BY <1>4, <1>6, <2>1 DEF Line
<1>9. Holders(d, R, W) /\ Present(d, R, W) BY <1>4 DEF Good, Holders, Present
<1>10. Settled(d)
  <2>1. CASE e.queue = <<>>
    <3>1. Head(q) = t BY <1>2, <1>3, <2>1
    <3> QED BY <1>4, <2>1, <3>1 DEF Settled, HeadProceeds, IsAllowed
  <2>2. CASE e.queue # <<>>
    <3>1. Head(q) = Head(e.queue) /\ q # <<>> BY <1>2, <1>3, <2>2
    <3> QED BY <1>4, <2>2, <3>1 DEF Good, Settled, HeadProceeds, IsAllowed
  <2> QED BY <2>1, <2>2
<1>11. Effect(d.queue, d.state, R, W, Unwoken(d)) BY <1>1, <1>4, <1>8, <1>9, <1>10, UnwokenSound
<1> QED BY <1>4, <1>7, <1>11 DEF d, q

\* An upgrade is added in front of the list.
LEMMA EnqueueUpgradeSound ==
  ASSUME NEW e, NEW R, NEW W, Good(e, R, W), NEW t \in Tasks, ~Has(e.queue, t), IsUpgrade(t),
         t \in W, e.read_count > 0
  PROVE  LET q == <<t>> \o e.queue d == [e EXCEPT !.queue = q] IN
         Effect(q, e.state, R, W, Unwoken(d)) /\ \A u : Has(q, u) <=> Has(e.queue, u) \/ u = t
<1> DEFINE q == <<t>> \o e.queue
           d == [e EXCEPT !.queue = q]
<1>1. e \in EntryType /\ R \subseteq Tasks /\ W \subseteq Tasks /\ NoRepeats(e.queue) BY DEF Good, Line
<1>2. e.queue \in Seq(Tasks) /\ Len(e.queue) \in Nat BY <1>1, LenProperties DEF EntryType
<1>3. /\ q \in Seq(Tasks) /\ Len(q) = Len(e.queue) + 1 /\ q[1] = t
      /\ \A i \in 2..Len(e.queue) + 1 : q[i] = e.queue[i - 1]
  BY <1>2, ConcatProperties
<1>4. d \in EntryType /\ d.queue = q /\ d.state = e.state /\ d.read_count = e.read_count
  BY <1>1, <1>3 DEF EntryType
<1> HIDE DEF d, q
<1>5. \A i \in 1..Len(q) : i = 1 \/ (i \in 2..Len(e.queue) + 1 /\ i - 1 \in 1..Len(e.queue)) BY <1>2, <1>3
<1>6. NoRepeats(q)
  <2>1. \A i \in 1..Len(e.queue) : e.queue[i] # t BY DEF Has
  <2>2. ASSUME NEW i \in 1..Len(q), NEW j \in 1..Len(q), q[i] = q[j], i # 1, j # 1 PROVE i = j
    <3>1. i - 1 \in 1..Len(e.queue) /\ j - 1 \in 1..Len(e.queue) /\ e.queue[i - 1] = e.queue[j - 1]
      BY <1>3, <1>5, <2>2
    <3>2. i - 1 = j - 1 BY <1>1, <3>1 DEF NoRepeats
    <3> QED BY <1>3, <3>2
  <2>3. ASSUME NEW i \in 1..Len(q), i # 1 PROVE q[i] # t BY <1>3, <1>5, <2>1, <2>3
  <2> QED BY <1>3, <2>2, <2>3 DEF NoRepeats
<1>7. \A u : Has(q, u) <=> Has(e.queue, u) \/ u = t
  <2>1. 1 \in 1..Len(q) /\ \A i \in 1..Len(e.queue) : i + 1 \in 1..Len(q) /\ q[i + 1] = e.queue[i]
    BY <1>2, <1>3
  <2>2. ASSUME NEW u, Has(q, u) PROVE Has(e.queue, u) \/ u = t
    <3> PICK i \in 1..Len(q) : q[i] = u BY <2>2 DEF Has
    <3>1. CASE i = 1 BY <1>3, <3>1
    <3>2. CASE i # 1
      <4>1. i - 1 \in 1..Len(e.queue) /\ q[i] = e.queue[i - 1] BY <1>3, <1>5, <3>2
      <4> QED BY <4>1 DEF Has
    <3> QED BY <3>1, <3>2
  <2>3. ASSUME NEW u, Has(e.queue, u) PROVE Has(q, u)
    <3> PICK i \in 1..Len(e.queue) : e.queue[i] = u BY <2>3 DEF Has
    <3>1. i + 1 \in 1..Len(q) /\ q[i + 1] = u BY <2>1
    <3> QED BY <3>1 DEF Has
  <2>4. Has(q, t) BY <1>3, <2>1 DEF Has
  <2> QED BY <2>2, <2>3, <2>4
<1>8. \A i \in 1..Len(e.queue) : ~IsUpgrade(e.queue[i]) BY DEF Good, Queued, Holders, Has
<1>9. Line(d)
  <2>1. \A i \in 1..Len(q) : IsUpgrade(q[i]) => i = 1 BY <1>3, <1>5, <1>8
  <2> QED BY <1>4, <1>6, <2>1 DEF Line
<1>10. Holders(d, R, W) /\ Present(d, R, W) BY <1>4 DEF Good, Holders, Present
<1>11. Settled(d)
  <2>1. Head(q) = t BY <1>2, <1>3
  <2>2. e.read_count \in Nat BY <1>1 DEF EntryType
  <2>3. d.read_count # 0 BY <1>4, <2>2
  <2> QED BY <1>4, <2>1, <2>3 DEF Settled, HeadProceeds
<1>12. Effect(d.queue, d.state, R, W, Unwoken(d)) BY <1>1, <1>4, <1>9, <1>10, <1>11, UnwokenSound
<1> QED BY <1>4, <1>7, <1>12 DEF d, q

\* A transaction's lock becomes a write lock.
LEMMA UpgradeSound ==
  ASSUME NEW e, NEW R, NEW W, Good(e, R, W), W # {}, e.read_count = 0
  PROVE  Effect(e.queue, "WriteLock", R, W, Unwoken([e EXCEPT !.state = "WriteLock"]))
<1> DEFINE d == [e EXCEPT !.state = "WriteLock"]
<1>1. e \in EntryType /\ R \subseteq Tasks /\ W \subseteq Tasks BY DEF Good
<1>2. d \in EntryType /\ d.queue = e.queue /\ d.state = "WriteLock" /\ d.read_count = e.read_count
  BY <1>1 DEF EntryType, States
<1> HIDE DEF d
<1>3. R = {}
  <2>1. IsFiniteSet(R) BY <1>1, LockManagerAssumption, FS_Subset
  <2> QED BY <2>1, FS_EmptySet DEF Good, Holders
<1>4. Holders(d, R, W) /\ Present(d, R, W) BY <1>2, <1>3 DEF Good, Holders, Present
<1>5. Line(d) BY <1>2 DEF Good, Line
<1>6. Settled(d) BY <1>2 DEF Settled, HeadProceeds
<1>7. Effect(d.queue, d.state, R, W, Unwoken(d)) BY <1>1, <1>2, <1>4, <1>5, <1>6, UnwokenSound
<1> QED BY <1>2, <1>7 DEF d

\* A lock is taken at once.
LEMMA AcquireReadSound ==
  ASSUME NEW e, NEW R, NEW W, Good(e, R, W), NEW t \in Tasks, t \notin R,
         e.state = "Vacant" \/ IsAllowed(e, "ReadLock", e.queue = <<>>)
  PROVE  LET s == IF e.state = "Vacant" THEN "ReadLock" ELSE e.state IN
         Effect(e.queue, s, R \cup {t}, W, Unwoken([e EXCEPT !.state = s, !.read_count = @ + 1]))
<1> DEFINE s == IF e.state = "Vacant" THEN "ReadLock" ELSE e.state
           d == [e EXCEPT !.state = s, !.read_count = @ + 1]
           R1 == R \cup {t}
<1>1. e \in EntryType /\ R \subseteq Tasks /\ W \subseteq Tasks BY DEF Good
<1>2. /\ d \in EntryType /\ d.queue = e.queue /\ d.state = s /\ d.read_count = e.read_count + 1
      /\ e.read_count \in Nat
  <2>1. s \in States /\ e.read_count \in Nat /\ e.read_count + 1 \in Nat /\ e.queue \in Seq(Tasks)
    BY <1>1 DEF EntryType, States
  <2> HIDE DEF s
  <2>2. /\ [e EXCEPT !.state = s].read_count = e.read_count
        /\ [e EXCEPT !.state = s] \in [state : States, read_count : Nat, queue : Seq(Tasks)]
        /\ [e EXCEPT !.state = s].state = s /\ [e EXCEPT !.state = s].queue = e.queue
    BY <1>1, <2>1 DEF EntryType
  <2>3. d = [[e EXCEPT !.state = s] EXCEPT !.read_count = @ + 1] OBVIOUS
  <2> HIDE DEF d
  <2> QED BY <2>1, <2>2, <2>3 DEF EntryType
<1> HIDE DEF d
<1>3. Cardinality(R1) = e.read_count + 1
  <2>1. IsFiniteSet(R) BY <1>1, LockManagerAssumption, FS_Subset
  <2> QED BY <2>1, FS_AddElement DEF Good, Holders
<1>4. e.state \in {"Vacant", "ReadLock", "Locked"} BY DEF IsAllowed
<1>5. Holders(d, R1, W) /\ Present(d, R1, W) BY <1>2, <1>3, <1>4 DEF Good, Holders, Present
<1>6. Line(d) BY <1>2 DEF Good, Line
<1>7. Settled(d)
  <2>1. CASE e.queue = <<>> BY <1>2, <2>1 DEF Settled, HeadProceeds
  <2>2. CASE e.queue # <<>>
    <3>1. e.state = "Locked" /\ ~IsUpgrade(Head(e.queue)) BY <2>2 DEF IsAllowed, Good, Present
    <3> QED BY <1>2, <3>1 DEF Good, Settled, HeadProceeds, IsAllowed
  <2> QED BY <2>1, <2>2
<1>8. R1 \in SUBSET Tasks BY <1>1
<1> HIDE DEF R1
<1>9. Effect(d.queue, d.state, R1, W, Unwoken(d)) BY <1>1, <1>2, <1>5, <1>6, <1>7, <1>8, UnwokenSound
<1> QED BY <1>2, <1>9 DEF d, R1

\* A transaction's lock or a write lock is taken at once.
LEMMA AcquireWriteSound ==
  ASSUME NEW e, NEW R, NEW W, Good(e, R, W), NEW t \in Tasks, NEW s \in {"Locked", "WriteLock"},
         e.state = "Vacant" \/ IsAllowed(e, s, e.queue = <<>>)
  PROVE  W = {} /\ Effect(e.queue, s, R, W \cup {t}, Unwoken([e EXCEPT !.state = s]))
<1> DEFINE d == [e EXCEPT !.state = s]
           W1 == W \cup {t}
<1>1. e \in EntryType /\ R \subseteq Tasks /\ W \subseteq Tasks BY DEF Good
<1>2. d \in EntryType /\ d.queue = e.queue /\ d.state = s /\ d.read_count = e.read_count
  BY <1>1 DEF EntryType, States
<1> HIDE DEF d
<1>3. e.queue = <<>> BY DEF IsAllowed, Good, Present
<1>4. e.state \in {"Vacant", "ReadLock"} /\ W = {} BY DEF IsAllowed, Good, Holders
<1>5. s = "WriteLock" => R = {}
  <2>1. IsFiniteSet(R) BY <1>1, LockManagerAssumption, FS_Subset
  <2>2. e.state = "Vacant" => R = {} BY DEF Good, Present
  <2>3. s = "WriteLock" /\ e.state # "Vacant" => e.read_count = 0 BY DEF IsAllowed
  <2> QED BY <2>1, <2>2, <2>3, FS_EmptySet DEF Good, Holders
<1>6. Holders(d, R, W1) /\ Present(d, R, W1) BY <1>2, <1>3, <1>4, <1>5 DEF Good, Holders, Present
<1>7. Line(d) BY <1>2 DEF Good, Line
<1>8. Settled(d) BY <1>2, <1>3 DEF Settled, HeadProceeds
<1>9. W1 \in SUBSET Tasks BY <1>1
<1> HIDE DEF W1
<1>10. Effect(d.queue, d.state, R, W1, Unwoken(d)) BY <1>1, <1>2, <1>6, <1>7, <1>8, <1>9, UnwokenSound
<1> QED BY <1>2, <1>4, <1>10 DEF d, W1
-----------------------------------------------------------------------------
\* What a task that locks a key is doing.
LEMMA Locker ==
  ASSUME TaskType, Shape, NEW u \in Tasks, stage[u] \in Locking
  PROVE  /\ Current(u) \in todo[u] /\ Current(u) \in Keys
         /\ Target(u) = "ReadLock" => Current(u) \notin rd[u]
         /\ stage[u] = "prepare" => Current(u) \in wr[u] /\ op[u].kind = "txn" /\ Target(u) = "WriteLock"
         /\ Target(u) # "ReadLock" /\ stage[u] # "prepare" => stage[u] = "lock" /\ Current(u) \notin wr[u]
<1>1. Stage(u) /\ Hold(u) BY DEF Shape
<1>2. stage[u] \in Locking /\ todo[u] # {} BY <1>1 DEF Stage
<1>3. Current(u) \in todo[u] /\ Current(u) \in Keys BY <1>2, CurrentKey
<1>4. op[u].kind \in {"read", "write", "txn"} BY DEF TaskType, Ops
<1>5. Target(u) = "ReadLock" => Current(u) \notin rd[u]
  BY <1>1, <1>2, <1>3, <1>4 DEF Stage, Hold, Target, Locking
<1>6. stage[u] = "prepare" => Current(u) \in wr[u] /\ op[u].kind = "txn" /\ Target(u) = "WriteLock"
  BY <1>1, <1>2, <1>3, <1>4 DEF Stage, Hold, Target
<1>7. Target(u) # "ReadLock" /\ stage[u] # "prepare" => stage[u] = "lock" /\ Current(u) \notin wr[u]
  BY <1>1, <1>2, <1>3, <1>4 DEF Stage, Hold, Target, Locking
<1> QED BY <1>2, <1>3, <1>5, <1>6, <1>7

\* So is one that waits for a key, or has been granted it.
LEMMA Waiter ==
  ASSUME TaskType, Shape, NEW u \in Tasks, waker[u] # "none"
  PROVE  /\ stage[u] \in Locking /\ Current(u) \in todo[u] /\ Current(u) \in Keys
         /\ Target(u) = "ReadLock" => Current(u) \notin rd[u]
         /\ stage[u] = "prepare" => Current(u) \in wr[u] /\ op[u].kind = "txn" /\ Target(u) = "WriteLock"
         /\ Target(u) # "ReadLock" /\ stage[u] # "prepare" => stage[u] = "lock" /\ Current(u) \notin wr[u]
<1>1. stage[u] \in Locking BY DEF Shape, Stage
<1> QED BY <1>1, Locker

\* The entry of a key is good.
LEMMA GoodEntry ==
  ASSUME TaskType, LockType, Shape, NEW k \in Keys, EntryInv(k)
  PROVE  Good(lock[k], Readers(k), Writers(k))
<1> DEFINE e == lock[k]
           R == Readers(k)
           W == Writers(k)
<1>1. e \in EntryType BY DEF LockType, EntryType
<1>2. R \subseteq Tasks /\ W \subseteq Tasks BY DEF Readers, Writers
<1>3. e.queue \in Seq(Tasks) BY <1>1 DEF EntryType
<1>4. ASSUME NEW i \in 1..Len(e.queue)
      PROVE  LET u == e.queue[i]
             IN  /\ IsUpgrade(u) => u \in W /\ e.state = "Locked" /\ Target(u) = "WriteLock"
                 /\ Target(u) = "ReadLock" => u \notin R
  <2> DEFINE u == e.queue[i]
  <2>1. u \in Tasks BY <1>3
  <2>2. Waits(u, k) BY <2>1 DEF EntryInv, Has
  <2> HIDE DEF u
  <2>3. waker[u] # "none" /\ waker[u] # "Woken" /\ Current(u) = k BY <2>2 DEF Waits
  <2>4. IsUpgrade(u) => u \in W /\ e.state = "Locked" /\ Target(u) = "WriteLock"
    <3>1. SUFFICES ASSUME stage[u] = "prepare" PROVE u \in W /\ e.state = "Locked" /\ Target(u) = "WriteLock"
      BY DEF IsUpgrade
    <3>2. k \in wr[u] /\ k \in todo[u] /\ op[u].kind = "txn" /\ Target(u) = "WriteLock"
      BY <2>1, <2>3, <3>1, Waiter
    <3>3. u \in W BY <2>1, <3>2 DEF Writers
    <3>4. k \notin Exclusive(u) BY <2>3, <3>1, <3>2 DEF Exclusive, Granted
    <3>5. State(e, u, k) BY <3>3 DEF EntryInv
    <3> QED BY <3>1, <3>2, <3>3, <3>4, <3>5 DEF State
  <2>5. Target(u) = "ReadLock" => u \notin R BY <2>1, <2>3, Waiter DEF Readers, Granted
  <2> QED BY <2>4, <2>5 DEF u
<1>5. Queued(e, R, W) BY <1>4 DEF Queued
<1> QED BY <1>1, <1>2, <1>5 DEF Good, EntryInv

\* Of the tasks, t moves, and those in X are granted what they wait for.
Moves(t, X) ==
  /\ \A u \in X : u \in Tasks /\ u # t /\ waker[u] \in {"Pending", "Registered"}
  /\ \A u \in Tasks \ {t} :
       /\ op'[u] = op[u] /\ stage'[u] = stage[u] /\ todo'[u] = todo[u] /\ rd'[u] = rd[u] /\ wr'[u] = wr[u]
       /\ unwind'[u] = unwind[u]
       /\ waker'[u] = IF u \in X THEN "Woken" ELSE waker[u]

\* The others: what they are after stays, and who is woken has it.
LEMMA MovesOthers ==
  ASSUME NEW t \in Tasks, NEW X, Moves(t, X), NEW u \in Tasks, u # t, NEW k \in Keys
  PROVE  /\ (Target(u))' = Target(u) /\ (IsUpgrade(u))' = IsUpgrade(u) /\ (Current(u))' = Current(u)
         /\ Waits(u, k)' <=> Waits(u, k) /\ u \notin X
         /\ Granted(u, k)' <=> Granted(u, k) \/ (u \in X /\ Current(u) = k)
         /\ (u \in Readers(k))' <=> u \in Readers(k) \/ (u \in X /\ Current(u) = k /\ Target(u) = "ReadLock")
         /\ (u \in Writers(k))' <=> u \in Writers(k) \/ (u \in X /\ Current(u) = k /\ Target(u) # "ReadLock")
<1>1. /\ op'[u] = op[u] /\ stage'[u] = stage[u] /\ todo'[u] = todo[u] /\ rd'[u] = rd[u] /\ wr'[u] = wr[u]
      /\ waker'[u] = IF u \in X THEN "Woken" ELSE waker[u]
      /\ u \in X => waker[u] \in {"Pending", "Registered"}
  BY DEF Moves
<1>2. (Target(u))' = Target(u) BY <1>1 DEF Target
<1>3. (IsUpgrade(u))' = IsUpgrade(u) BY <1>1 DEF IsUpgrade
<1>4. (Current(u))' = Current(u) BY <1>1 DEF Current
<1>5. Waits(u, k)' <=> Waits(u, k) /\ u \notin X
  <2>1. Waits(u, k)' <=> waker'[u] \in {"Pending", "Registered"} /\ (Current(u))' = k BY DEF Waits
  <2> QED BY <1>1, <1>4, <2>1 DEF Waits
<1>6. Granted(u, k)' <=> Granted(u, k) \/ (u \in X /\ Current(u) = k)
  <2>1. Granted(u, k)' <=> waker'[u] = "Woken" /\ (Current(u))' = k BY DEF Granted
  <2> QED BY <1>1, <1>4, <2>1 DEF Granted
<1>7. (u \in Readers(k))' <=> k \in rd'[u] \/ (Granted(u, k)' /\ (Target(u))' = "ReadLock") BY DEF Readers
<1>8. (u \in Writers(k))' <=> k \in wr'[u] \/ (Granted(u, k)' /\ (Target(u))' # "ReadLock") BY DEF Writers
<1>9. u \in Readers(k) <=> k \in rd[u] \/ (Granted(u, k) /\ Target(u) = "ReadLock") BY DEF Readers
<1>10. u \in Writers(k) <=> k \in wr[u] \/ (Granted(u, k) /\ Target(u) # "ReadLock") BY DEF Writers
<1> QED BY <1>1, <1>2, <1>3, <1>4, <1>5, <1>6, <1>7, <1>8, <1>9, <1>10
\* What a step of t does to key k: after the task's own part the entry has
\* queue q, state s, readers R and writers W; then S are woken.
Part(t, k, X, q, s, R, W, S) ==
  /\ Effect(q, s, R, W, [entry |-> lock'[k], woken |-> S])
  /\ \A u \in Tasks \ {t} : /\ u \in R <=> u \in Readers(k)
                            /\ u \in W <=> u \in Writers(k)
                            /\ Has(q, u) <=> Waits(u, k)
  /\ t \in R <=> (t \in Readers(k))'
  /\ t \in W <=> (t \in Writers(k))'
  /\ Has(q, t) <=> Waits(t, k)'
  /\ Has(q, t) => stage'[t] = stage[t] /\ op'[t] = op[t]
  /\ \A u \in Tasks : u \in S <=> u \in X /\ Current(u) = k
  /\ Writers(k) \ {t} # {} => s = lock[k].state
  /\ t \in W => State(lock[k], t, k)'

\* Then the entry is right after the step.
LEMMA KeyStep ==
  ASSUME TaskType, Shape, NEW k \in Keys, EntryInv(k), NEW t \in Tasks, NEW X, Moves(t, X),
         NEW q, NEW s, NEW R, NEW W, NEW S, Part(t, k, X, q, s, R, W, S)
  PROVE  EntryInv(k)'
<1> DEFINE e == lock'[k]
           R1 == R \cup Reading(S)
           W1 == W \cup Writing(S)
<1>1. /\ q \in Seq(Tasks) /\ NoRepeats(q) /\ R \subseteq Tasks /\ W \subseteq Tasks
      /\ e \in EntryType /\ Holders(e, R1, W1) /\ Present(e, R1, W1) /\ Line(e) /\ Settled(e)
      /\ \A u \in Writing(S) : e.state = Target(u)
      /\ Writing(S) = {} /\ W # {} => e.state = s
  BY DEF Part, Effect
<1>2. PICK n \in 0..Len(q) : /\ S = {q[i] : i \in 1..n} /\ Len(e.queue) = Len(q) - n
                             /\ \A i \in 1..Len(q) - n : e.queue[i] = q[i + n]
  BY DEF Part, Effect
<1>3. Len(q) \in Nat /\ \A i \in 1..Len(q) : q[i] \in Tasks BY <1>1, LenProperties
<1>4. S \subseteq Tasks /\ t \notin S /\ \A u \in S : u \in X /\ Current(u) = k
  <2>1. S \subseteq Tasks BY <1>2, <1>3
  <2> QED BY <2>1 DEF Part, Moves
<1>5. \A u : Has(e.queue, u) <=> Has(q, u) /\ u \notin S
  <2>1. ASSUME NEW u, Has(e.queue, u) PROVE Has(q, u) /\ u \notin S
    <3>1. PICK i \in 1..Len(q) - n : e.queue[i] = u BY <1>2, <2>1 DEF Has
    <3>2. i + n \in 1..Len(q) /\ q[i + n] = u /\ \A j \in 1..n : j # i + n /\ j \in 1..Len(q)
      BY <1>2, <1>3, <3>1
    <3> QED BY <1>1, <1>2, <3>2 DEF Has, NoRepeats
  <2>2. ASSUME NEW u, Has(q, u), u \notin S PROVE Has(e.queue, u)
    <3>1. PICK i \in 1..Len(q) : q[i] = u BY <2>2 DEF Has
    <3>2. i \notin 1..n BY <1>2, <2>2, <3>1
    <3>3. i - n \in 1..Len(q) - n /\ (i - n) + n = i BY <1>2, <1>3, <3>1, <3>2
    <3>4. e.queue[i - n] = u BY <1>2, <3>1, <3>3
    <3> QED BY <1>2, <3>3, <3>4 DEF Has
  <2> QED BY <2>1, <2>2
<1>6. \A i \in 1..Len(e.queue) : e.queue[i] \in Tasks /\ Has(q, e.queue[i])
  <2>1. e.queue \in Seq(Tasks) BY <1>1 DEF EntryType
  <2>2. \A i \in 1..Len(e.queue) : Has(e.queue, e.queue[i]) BY DEF Has
  <2> QED BY <1>5, <2>1, <2>2
<1>7. \A u \in Tasks : Has(q, u) => stage'[u] = stage[u] /\ op'[u] = op[u] BY DEF Part, Moves
<1>8. \A i \in 1..Len(e.queue) :
        (Target(e.queue[i]) = Target(lock[k].queue[i])') /\ (IsUpgrade(e.queue[i]) <=> IsUpgrade(lock[k].queue[i])')
  BY <1>6, <1>7 DEF Target, IsUpgrade
<1>9. Readers(k)' = R1
  <2>1. ASSUME NEW u \in Tasks PROVE (u \in Readers(k))' <=> u \in R1
    <3>1. CASE u = t BY <1>4, <3>1 DEF Part, Reading
    <3>2. CASE u # t
      <4>1. (u \in Readers(k))' <=> u \in Readers(k) \/ (u \in X /\ Current(u) = k /\ Target(u) = "ReadLock")
        BY <3>2, MovesOthers
      <4>2. u \in R <=> u \in Readers(k) BY <3>2 DEF Part
      <4>3. u \in S <=> u \in X /\ Current(u) = k BY DEF Part
      <4> QED BY <4>1, <4>2, <4>3 DEF Reading
    <3> QED BY <3>1, <3>2
  <2>2. R1 \subseteq Tasks BY <1>1, <1>4 DEF Reading
  <2>3. Readers(k)' \subseteq Tasks BY DEF Readers
  <2> QED BY <2>1, <2>2, <2>3
<1>10. Writers(k)' = W1
  <2>1. ASSUME NEW u \in Tasks PROVE (u \in Writers(k))' <=> u \in W1
    <3>1. CASE u = t BY <1>4, <3>1 DEF Part, Writing
    <3>2. CASE u # t
      <4>1. (u \in Writers(k))' <=> u \in Writers(k) \/ (u \in X /\ Current(u) = k /\ Target(u) # "ReadLock")
        BY <3>2, MovesOthers
      <4>2. u \in W <=> u \in Writers(k) BY <3>2 DEF Part
      <4>3. u \in S <=> u \in X /\ Current(u) = k BY DEF Part
      <4> QED BY <4>1, <4>2, <4>3 DEF Writing
    <3> QED BY <3>1, <3>2
  <2>2. W1 \subseteq Tasks BY <1>1, <1>4 DEF Writing
  <2>3. Writers(k)' \subseteq Tasks BY DEF Writers
  <2> QED BY <2>1, <2>2, <2>3
<1>11. Holders(lock[k], Readers(k), Writers(k))' /\ Present(lock[k], Readers(k), Writers(k))'
  BY <1>1, <1>9, <1>10 DEF Holders, Present
<1>12. Line(lock[k])' BY <1>1, <1>8 DEF Line
<1>13. Settled(lock[k])'
  <2>1. CASE e.queue = <<>> BY <2>1 DEF Settled, HeadProceeds
  <2>2. CASE e.queue # <<>>
    <3>1. Head(e.queue) = e.queue[1] /\ 1 \in 1..Len(e.queue)
      <4>1. e.queue \in Seq(Tasks) BY <1>1 DEF EntryType
      <4> QED BY <2>2, <4>1
    <3>2. (Target(Head(lock[k].queue))' = Target(Head(e.queue))) /\ (IsUpgrade(Head(lock[k].queue))' <=> IsUpgrade(Head(e.queue)))
      BY <1>8, <3>1
    <3> QED BY <1>1, <3>2 DEF Settled, HeadProceeds, IsAllowed
  <2> QED BY <2>1, <2>2
<1>14. ASSUME NEW u \in Tasks PROVE (Has(lock[k].queue, u) <=> Waits(u, k))'
  <2>1. CASE u = t BY <1>4, <1>5, <2>1 DEF Part, Has
  <2>2. CASE u # t
    <3>1. Waits(u, k)' <=> Waits(u, k) /\ u \notin X BY <2>2, MovesOthers
    <3>2. Has(q, u) <=> Waits(u, k) BY <2>2 DEF Part
    <3>3. u \in S <=> u \in X /\ Current(u) = k BY DEF Part
    <3>4. Has(lock[k].queue, u)' <=> Has(e.queue, u) BY DEF Has
    <3> QED BY <1>5, <3>1, <3>2, <3>3, <3>4 DEF Waits
  <2> QED BY <2>1, <2>2
<1>15. ASSUME NEW u \in W1 PROVE State(lock[k], u, k)'
  <2>1. u \in Tasks BY <1>10 DEF Writers
  <2>2. CASE u = t BY <1>4, <1>15, <2>2 DEF Part, Writing
  <2>3. CASE u # t
    <3>1. op'[u] = op[u] /\ stage'[u] = stage[u] /\ todo'[u] = todo[u] /\ wr'[u] = wr[u]
      BY <2>1, <2>3 DEF Moves
    <3>2. (k \in Exclusive(u))' <=> /\ u \in Writers(k)'
                                    /\ \/ op[u].kind # "txn" \/ stage[u] = "commit"
                                       \/ stage[u] = "prepare" /\ (k \notin todo[u] \/ Granted(u, k)')
      BY <3>1 DEF Exclusive
    <3>3. Granted(u, k)' <=> Granted(u, k) \/ (u \in X /\ Current(u) = k) BY <2>1, <2>3, MovesOthers
    <3>4. CASE u \in Writing(S)
      <4>1. u \in S /\ Target(u) # "ReadLock" /\ u \in X /\ Current(u) = k /\ e.state = Target(u)
        BY <1>1, <1>4, <3>4 DEF Writing
      <4>2. waker[u] # "none" BY <4>1 DEF Moves
      <4>3. stage[u] = "prepare" \/ stage[u] = "lock" BY <2>1, <4>1, <4>2, Waiter
      <4>4. (k \in Exclusive(u))' <=> op[u].kind # "txn" \/ stage[u] = "prepare"
        BY <1>10, <1>15, <3>2, <3>3, <4>1, <4>3
      <4>5. e.state = IF stage[u] # "prepare" /\ op[u].kind = "txn" THEN "Locked" ELSE "WriteLock"
        BY <4>1 DEF Target
      <4> QED BY <3>1, <4>3, <4>4, <4>5 DEF State
    <3>5. CASE u \notin Writing(S)
      <4>1. u \in W /\ u \in Writers(k) BY <1>15, <2>1, <2>3, <3>5 DEF Part
      <4>2. Writing(S) = {} BY <1>1, <3>5, <4>1 DEF Holders
      <4>3. e.state = lock[k].state BY <1>1, <2>3, <4>1, <4>2 DEF Part
      <4>4. u \in X /\ Current(u) = k => stage[u] # "prepare"
        <5>1. SUFFICES ASSUME u \in X, Current(u) = k PROVE stage[u] # "prepare" OBVIOUS
        <5>2. u \in S /\ waker[u] # "none" BY <2>1, <5>1 DEF Part, Moves
        <5>3. Target(u) = "ReadLock" BY <4>2, <5>2 DEF Writing
        <5> QED BY <2>1, <5>2, <5>3, Waiter
      <4>5. (k \in Exclusive(u))' <=> k \in Exclusive(u) BY <1>10, <1>15, <3>2, <3>3, <4>1, <4>4 DEF Exclusive
      <4>6. State(lock[k], u, k) BY <4>1 DEF EntryInv
      <4> QED BY <3>1, <4>3, <4>5, <4>6 DEF State
    <3> QED BY <3>4, <3>5
  <2> QED BY <2>2, <2>3
<1> QED BY <1>10, <1>11, <1>12, <1>13, <1>14, <1>15 DEF EntryInv
-----------------------------------------------------------------------------
\* A key that a step leaves alone.
LEMMA SameKey ==
  ASSUME TaskType, LockType, Shape, NEW k \in Keys, EntryInv(k), NEW t \in Tasks, NEW X, Moves(t, X),
         lock'[k] = lock[k], \A u \in X : Current(u) # k,
         (t \in Readers(k))' <=> t \in Readers(k), (t \in Writers(k))' <=> t \in Writers(k),
         Waits(t, k)' <=> Waits(t, k), Waits(t, k) => stage'[t] = stage[t] /\ op'[t] = op[t],
         t \in Writers(k) => State(lock[k], t, k)'
  PROVE  EntryInv(k)'
<1> DEFINE e == lock[k]
           R == Readers(k)
           W == Writers(k)
<1>1. Good(e, R, W) BY GoodEntry
<1>2. Effect(e.queue, e.state, R, W, Unwoken(e)) BY <1>1, UnwokenSound DEF Good
<1>3. Unwoken(e) = [entry |-> lock'[k], woken |-> {}] BY DEF Unwoken
<1>4. \A u \in Tasks : Has(e.queue, u) <=> Waits(u, k) BY DEF EntryInv
<1> HIDE DEF e, R, W
<1>5. Part(t, k, X, e.queue, e.state, R, W, {}) BY <1>2, <1>3, <1>4 DEF Part, e, R, W
<1> QED BY <1>5, KeyStep

\* The tasks that do not move keep their shape, and are not made to wait.
LEMMA OthersShape ==
  ASSUME TaskType, Shape, RereadInv, NEW t \in Tasks, NEW X, Moves(t, X), (Stage(t) /\ Hold(t) /\ Drops(t))',
         stage'[t] = "reread" => waker'[t] = "none"
  PROVE  Shape' /\ RereadInv'
<1>1. ASSUME NEW u \in Tasks, u # t PROVE (Stage(u) /\ Hold(u) /\ Drops(u))' /\ (stage'[u] = "reread" => waker'[u] = "none")
  <2>1. /\ op'[u] = op[u] /\ stage'[u] = stage[u] /\ todo'[u] = todo[u] /\ rd'[u] = rd[u] /\ wr'[u] = wr[u]
        /\ unwind'[u] = unwind[u] /\ (waker'[u] # "none" => waker[u] # "none")
    BY <1>1 DEF Moves
  <2>2. Stage(u) /\ Hold(u) /\ Drops(u) BY DEF Shape
  <2>3. Stage(u)' BY <2>1, <2>2 DEF Stage
  <2>4. Hold(u)' BY <2>1, <2>2 DEF Hold
  <2>5. Drops(u)' BY <2>1, <2>2 DEF Drops, Has, Left, NoRepeats
  <2> QED BY <2>1, <2>3, <2>4, <2>5 DEF RereadInv
<1> QED BY <1>1 DEF Shape, RereadInv

\* Whether a task is in flight.
Flies(t) ==
  op[t].kind = "txn" /\
    (stage[t] \in {"reserve", "lock", "use", "reread", "reading", "prepare", "commit"} \/ Has(unwind[t], "sub"))

\* The transactions in flight, and those among them that check the limit.
LEMMA InFlightIs ==
  ASSUME TaskType
  PROVE  /\ InFlight = {t \in Tasks : Flies(t)} /\ IsFiniteSet(InFlight)
         /\ Checked \subseteq InFlight /\ IsFiniteSet(Checked)
<1>1. ASSUME NEW t \in Tasks PROVE DOMAIN unwind[t] = 1..Len(unwind[t])
  <2>1. unwind[t] \in Seq(Parts) BY DEF TaskType
  <2> QED BY <2>1, LenProperties
<1>2. InFlight = {t \in Tasks : Flies(t)} BY <1>1 DEF InFlight, Flies, Has
<1>3. Checked \subseteq InFlight /\ InFlight \subseteq Tasks BY <1>2 DEF Checked
<1> QED BY <1>2, <1>3, LockManagerAssumption, FS_Subset

\* The transactions in flight change by the task that moves at most.
LEMMA InFlightOthers ==
  ASSUME TaskType, TaskType', NEW t \in Tasks, NEW X, Moves(t, X)
  PROVE  /\ \A u \in Tasks \ {t} : (u \in InFlight' <=> u \in InFlight) /\ (u \in Checked' <=> u \in Checked)
         /\ InFlight \subseteq Tasks /\ InFlight' \subseteq Tasks
         /\ (t \in InFlight <=> Flies(t)) /\ (t \in InFlight' <=> Flies(t)')
         /\ (t \in Checked <=> Flies(t) /\ ~op[t].skip) /\ (t \in Checked' <=> Flies(t)' /\ ~op'[t].skip)
<1>1. InFlight = {u \in Tasks : Flies(u)} BY InFlightIs
<1>2. InFlight' = {u \in Tasks : Flies(u)'}
  <2>1. ASSUME NEW u \in Tasks PROVE DOMAIN unwind'[u] = 1..Len(unwind'[u])
    <3>1. unwind'[u] \in Seq(Parts) BY DEF TaskType
    <3> QED BY <3>1, LenProperties
  <2> QED BY <2>1 DEF InFlight, Flies, Has
<1>3. \A u \in Tasks \ {t} : op'[u] = op[u] /\ stage'[u] = stage[u] /\ unwind'[u] = unwind[u] BY DEF Moves
<1>4. \A u \in Tasks \ {t} : Flies(u)' <=> Flies(u) BY <1>3 DEF Flies, Has
<1> QED BY <1>1, <1>2, <1>3, <1>4 DEF Checked

\* A step that neither takes a place nor gives one back.
LEMMA SameCount ==
  ASSUME TaskType, TaskType', NEW t \in Tasks, NEW X, Moves(t, X), CountInv, inflight' = inflight,
         Flies(t)' <=> Flies(t), Flies(t) => op'[t] = op[t]
  PROVE  CountInv'
<1>1. InFlight' = InFlight /\ Checked' = Checked BY InFlightOthers DEF Checked
<1> QED BY <1>1 DEF CountInv

\* A step that takes a place, within the limit unless it skips the check.
LEMMA MoreCount ==
  ASSUME TaskType, TaskType', NEW t \in Tasks, NEW X, Moves(t, X), CountInv, inflight' = inflight + 1,
         ~Flies(t), Flies(t)', op'[t] = op[t], op[t].skip \/ inflight < MaxInFlight
  PROVE  CountInv'
<1>1. InFlight' = InFlight \cup {t} /\ t \notin InFlight BY InFlightOthers
<1>2. IsFiniteSet(InFlight) /\ IsFiniteSet(Checked) /\ Checked \subseteq InFlight BY InFlightIs
<1>3. Cardinality(InFlight') = Cardinality(InFlight) + 1 BY <1>1, <1>2, FS_AddElement
<1>4. Cardinality(Checked) \in Nat /\ Cardinality(InFlight) \in Nat /\ Cardinality(Checked) <= Cardinality(InFlight)
  BY <1>2, FS_Subset, FS_CardinalityType
<1>5. CASE op[t].skip
  <2>1. Checked' = Checked BY <1>1, <1>5, InFlightOthers DEF Checked
  <2> QED BY <1>3, <2>1 DEF CountInv
<1>6. CASE ~op[t].skip
  <2>1. Checked' = Checked \cup {t} /\ t \notin Checked BY <1>1, <1>6, InFlightOthers DEF Checked
  <2>2. Cardinality(Checked') = Cardinality(Checked) + 1 BY <1>2, <2>1, FS_AddElement
  <2>3. Cardinality(Checked) + 1 <= MaxInFlight BY <1>4, <1>6, LockManagerAssumption DEF CountInv
  <2> QED BY <1>3, <2>2, <2>3 DEF CountInv
<1> QED BY <1>5, <1>6

\* A step that gives a place back.
LEMMA LessCount ==
  ASSUME TaskType, TaskType', NEW t \in Tasks, NEW X, Moves(t, X), CountInv, inflight' = inflight - 1,
         Flies(t), ~Flies(t)'
  PROVE  CountInv'
<1>1. InFlight' = InFlight \ {t} /\ t \in InFlight BY InFlightOthers
<1>2. IsFiniteSet(InFlight) /\ IsFiniteSet(Checked) BY InFlightIs
<1>3. Cardinality(InFlight') = Cardinality(InFlight) - 1 BY <1>1, <1>2, FS_RemoveElement
<1>4. Checked' \subseteq Checked BY <1>1, InFlightOthers DEF Checked
<1>5. Cardinality(Checked') <= Cardinality(Checked) /\ Cardinality(Checked') \in Nat /\ Cardinality(Checked) \in Nat
  BY <1>2, <1>4, FS_Subset, FS_CardinalityType
<1> QED BY <1>3, <1>5, LockManagerAssumption DEF CountInv
-----------------------------------------------------------------------------
\* A step of a task that has no waker, gets no lock and gives none back.
LEMMA QuietStep ==
  ASSUME IInv, TaskType', NEW t \in Tasks, Moves(t, {}), lock' = lock, waker[t] = "none", waker'[t] = "none",
         rd'[t] = rd[t], wr'[t] = wr[t], (Stage(t) /\ Hold(t) /\ Drops(t))',
         \A k \in wr[t] : State(lock[k], t, k)', CountInv'
  PROVE  IInv'
<1>1. Shape' /\ RereadInv' BY OthersShape DEF IInv
<1>2. ASSUME NEW k \in Keys PROVE EntryInv(k)'
  <2>1. (t \in Readers(k) <=> k \in rd[t]) /\ (t \in Writers(k) <=> k \in wr[t]) /\ ~Waits(t, k)
    BY DEF Readers, Writers, Granted, Waits
  <2>2. ((t \in Readers(k))' <=> k \in rd'[t]) /\ ((t \in Writers(k))' <=> k \in wr'[t]) /\ ~Waits(t, k)'
    BY DEF Readers, Writers, Granted, Waits
  <2> QED BY <2>1, <2>2, SameKey DEF IInv, LockInv
<1>3. LockType' BY DEF IInv, LockType
<1> QED BY <1>1, <1>2, <1>3 DEF IInv, LockInv

\* The state of the entries a transaction has locked.
LEMMA OwnState ==
  ASSUME IInv, NEW t \in Tasks, NEW k \in Keys, k \in wr[t]
  PROVE  /\ State(lock[k], t, k) /\ t \in Writers(k)
         /\ op[t].kind = "write" \/ op[t].kind = "txn"
         /\ op[t].kind = "txn" /\ stage[t] \in {"use", "reread", "reading"} => lock[k].state = "Locked"
         /\ op[t].kind = "txn" /\ stage[t] = "commit" => lock[k].state = "WriteLock"
<1>1. t \in Writers(k) BY DEF Writers
<1>2. State(lock[k], t, k) BY <1>1 DEF IInv, LockInv, EntryInv
<1>3. op[t].kind \in {"read", "write", "txn"} BY DEF IInv, TaskType, Ops
<1>4. op[t].kind # "read" BY DEF IInv, Shape, Hold
<1> QED BY <1>1, <1>2, <1>3, <1>4 DEF State, Exclusive

\* An operation starts.
LEMMA StartInv == ASSUME IInv, NEW t \in Tasks, Start(t) PROVE IInv'
<1>1. PICK o \in Program[t] : /\ op' = [op EXCEPT ![t] = o]
                              /\ IF o.kind = "txn" THEN Lock(t, "guard", {Filesystem}) ELSE Lock(t, "lock", o.keys)
  BY DEF Start
<1> DEFINE s == IF o.kind = "txn" THEN "guard" ELSE IF o.keys = {} THEN "use" ELSE "lock"
           d == IF o.kind = "txn" THEN {Filesystem} ELSE o.keys
<1>2. o \in Ops /\ (o.kind = "txn" => Filesystem \notin o.keys) BY LockManagerAssumption
<1>3. stage' = [stage EXCEPT ![t] = s] /\ todo' = [todo EXCEPT ![t] = d] BY <1>1 DEF Lock, After
<1>4. o.keys \subseteq Keys /\ o.kind \in {"read", "write", "txn"} BY <1>2 DEF Ops
<1>5. /\ stage[t] = "idle" /\ waker[t] = "none" /\ unwind[t] = <<>> /\ wr[t] = {} /\ rd[t] = {} /\ op[t].kind = "read"
  BY DEF Start, IInv, Shape, Stage, Hold, Locking, NoOp
<1>6. /\ UNCHANGED <<lock, rd, wr, waker, sched, unwind, rounds, inflight, listening>> BY DEF Start
<1>7. TaskType'
  <2>1. s \in Stages /\ d \in SUBSET Keys BY <1>4, LockManagerAssumption DEF Stages, Locking
  <2> HIDE DEF s, d
  <2> QED BY <1>1, <1>2, <1>3, <1>6, <2>1 DEF IInv, TaskType
<1>8. Moves(t, {}) BY <1>1, <1>3, <1>6 DEF Moves, IInv, TaskType
<1>9. op'[t] = o /\ stage'[t] = s /\ todo'[t] = d BY <1>1, <1>3 DEF IInv, TaskType
<1>10. Stage(t)' BY <1>2, <1>4, <1>5, <1>6, <1>9 DEF Stage, Locking
<1>11. Hold(t)' BY <1>5, <1>6, <1>9 DEF Hold
<1>12. Drops(t)' BY <1>5, <1>6, <1>9 DEF Drops, IInv, Shape
<1>13. CountInv'
  <2>1. ~Flies(t) BY <1>5 DEF Flies
  <2>2. Len(<<>>) = 0 OBVIOUS
  <2>3. ~Flies(t)'
    <3>1. op'[t].kind = "txn" => stage'[t] = "guard" BY <1>9
    <3>2. ~Has(unwind'[t], "sub") BY <1>5, <1>6, <2>2 DEF Has
    <3> QED BY <3>1, <3>2 DEF Flies
  <2> QED BY <1>6, <1>7, <1>8, <2>1, <2>3, SameCount DEF IInv
<1> QED BY <1>5, <1>6, <1>7, <1>8, <1>10, <1>11, <1>12, <1>13, QuietStep
-----------------------------------------------------------------------------
\* A task in the queue for a place, or about to reserve.
Queueing == {"add", "listen", "retry", "await", "reserve"}

\* A transaction that waits for a place has its guard and no locks.
LEMMA QueueingIs ==
  ASSUME IInv, NEW t \in Tasks, stage[t] \in Queueing
  PROVE  /\ op[t].kind = "txn" /\ waker[t] = "none" /\ unwind[t] = <<>> /\ wr[t] = {} /\ todo[t] = {}
         /\ Flies(t) <=> stage[t] = "reserve"
<1>1. Stage(t) /\ Hold(t) BY DEF IInv, Shape
<1>2. op[t].kind = "txn" /\ waker[t] = "none" /\ unwind[t] = <<>> /\ wr[t] = {} /\ todo[t] = {}
  BY <1>1 DEF Stage, Hold, Locking, Queueing
<1>3. Len(<<>>) = 0 OBVIOUS
<1>4. ~Has(unwind[t], "sub") BY <1>2, <1>3 DEF Has
<1> QED BY <1>2, <1>4 DEF Flies, Queueing

\* Steps from one of these stages to another.
LEMMA QueueingStep ==
  ASSUME IInv, NEW t \in Tasks, stage[t] \in Queueing, NEW s \in Queueing, stage' = [stage EXCEPT ![t] = s],
         UNCHANGED <<lock, op, todo, rd, wr, waker, sched, unwind, rounds>>, listening' \subseteq Tasks,
         \/ inflight' = inflight /\ (s = "reserve" <=> stage[t] = "reserve")
         \/ /\ inflight' = inflight + 1 /\ s = "reserve" /\ stage[t] # "reserve"
            /\ op[t].skip \/ inflight < MaxInFlight
  PROVE  IInv'
<1>1. /\ op[t].kind = "txn" /\ waker[t] = "none" /\ unwind[t] = <<>> /\ wr[t] = {} /\ todo[t] = {}
      /\ Flies(t) <=> stage[t] = "reserve"
  BY QueueingIs
<1>2. s \in Stages BY DEF Stages, Queueing
<1>3. TaskType' BY <1>2 DEF IInv, TaskType
<1>4. Moves(t, {}) BY DEF Moves, IInv, TaskType
<1>5. stage'[t] = s BY DEF IInv, TaskType
<1>6. Stage(t) /\ Hold(t) /\ Drops(t) BY DEF IInv, Shape
<1>7. Stage(t)' BY <1>1, <1>5, <1>6 DEF Stage, Queueing, Locking
<1>8. Hold(t)' BY <1>1, <1>5, <1>6 DEF Hold, Queueing
<1>9. Drops(t)' BY <1>1, <1>5, <1>6 DEF Drops, Queueing
<1>10. CountInv'
  <2>1. Len(<<>>) = 0 OBVIOUS
  <2>2. ~Has(unwind'[t], "sub") BY <1>1, <2>1 DEF Has
  <2>3. Flies(t)' <=> s = "reserve" BY <1>1, <1>5, <2>2 DEF Flies, Queueing
  <2>4. CASE inflight' = inflight /\ (s = "reserve" <=> stage[t] = "reserve")
    BY <1>1, <1>3, <1>4, <2>3, <2>4, SameCount DEF IInv
  <2>5. CASE /\ inflight' = inflight + 1 /\ s = "reserve" /\ stage[t] # "reserve"
             /\ op[t].skip \/ inflight < MaxInFlight
    BY <1>1, <1>3, <1>4, <2>3, <2>5, MoreCount DEF IInv
  <2> QED BY <2>4, <2>5
<1> QED BY <1>1, <1>3, <1>4, <1>7, <1>8, <1>9, <1>10, QuietStep

\* add_transaction: the first inc().
LEMMA AddTryInv == ASSUME IInv, NEW t \in Tasks, AddTry(t) PROVE IInv'
<1> DEFINE room == op[t].skip \/ inflight < MaxInFlight
           s == IF room THEN "reserve" ELSE "listen"
<1>1. s \in Queueing /\ stage[t] \in Queueing /\ stage[t] = "add" BY DEF AddTry, Queueing
<1>2. stage' = [stage EXCEPT ![t] = s] /\ inflight' = IF room THEN inflight + 1 ELSE inflight
  BY DEF AddTry
<1>3. UNCHANGED <<lock, op, todo, rd, wr, waker, sched, unwind, rounds>> /\ listening' \subseteq Tasks
  BY DEF AddTry, IInv, TaskType
<1>4. \/ inflight' = inflight /\ (s = "reserve" <=> stage[t] = "reserve")
      \/ /\ inflight' = inflight + 1 /\ s = "reserve" /\ stage[t] # "reserve"
         /\ op[t].skip \/ inflight < MaxInFlight
  BY <1>1, <1>2
<1> HIDE DEF s, room
<1> QED BY <1>1, <1>2, <1>3, <1>4, QueueingStep

\* The second inc(), after listen().
LEMMA AddRetryInv == ASSUME IInv, NEW t \in Tasks, AddRetry(t) PROVE IInv'
<1> DEFINE room == inflight < MaxInFlight
           s == IF room THEN "reserve" ELSE "await"
<1>1. s \in Queueing /\ stage[t] \in Queueing /\ stage[t] = "retry" BY DEF AddRetry, Queueing
<1>2. stage' = [stage EXCEPT ![t] = s] /\ inflight' = IF room THEN inflight + 1 ELSE inflight
  BY DEF AddRetry
<1>3. UNCHANGED <<lock, op, todo, rd, wr, waker, sched, unwind, rounds>> /\ listening' \subseteq Tasks
  BY DEF AddRetry, IInv, TaskType
<1>4. \/ inflight' = inflight /\ (s = "reserve" <=> stage[t] = "reserve")
      \/ /\ inflight' = inflight + 1 /\ s = "reserve" /\ stage[t] # "reserve"
         /\ op[t].skip \/ inflight < MaxInFlight
  BY <1>1, <1>2
<1> HIDE DEF s, room
<1> QED BY <1>1, <1>2, <1>3, <1>4, QueueingStep

\* listen(), which the count does not depend on.
LEMMA AddListenInv == ASSUME IInv, NEW t \in Tasks, AddListen(t) PROVE IInv'
<1>1. "retry" \in Queueing /\ stage[t] \in Queueing /\ stage[t] = "listen" BY DEF AddListen, Queueing
<1>2. /\ stage' = [stage EXCEPT ![t] = "retry"] /\ inflight' = inflight
      /\ UNCHANGED <<lock, op, todo, rd, wr, waker, sched, unwind, rounds>> /\ listening' \subseteq Tasks
  BY DEF AddListen, IInv, TaskType
<1> QED BY <1>1, <1>2, QueueingStep

\* A transaction that was notified tries again.
LEMMA AddAwakenInv == ASSUME IInv, NEW t \in Tasks, AddAwaken(t) PROVE IInv'
<1>1. "add" \in Queueing /\ stage[t] \in Queueing /\ stage[t] = "await" BY DEF AddAwaken, Queueing
<1>2. /\ stage' = [stage EXCEPT ![t] = "add"] /\ inflight' = inflight
      /\ UNCHANGED <<lock, op, todo, rd, wr, waker, sched, unwind, rounds>> /\ listening' \subseteq Tasks
  BY DEF AddAwaken, IInv, TaskType
<1> QED BY <1>1, <1>2, QueueingStep

\* The reservations are made: the locks come next.
LEMMA ReserveInv == ASSUME IInv, NEW t \in Tasks, Reserve(t) PROVE IInv'
<1> DEFINE s == IF op[t].keys = {} THEN "use" ELSE "lock"
<1>1. stage[t] \in Queueing /\ stage[t] = "reserve" BY DEF Reserve, Queueing
<1>2. /\ op[t].kind = "txn" /\ waker[t] = "none" /\ unwind[t] = <<>> /\ wr[t] = {} /\ todo[t] = {} /\ Flies(t)
  BY <1>1, QueueingIs
<1>3. /\ stage' = [stage EXCEPT ![t] = s] /\ todo' = [todo EXCEPT ![t] = op[t].keys]
      /\ UNCHANGED <<lock, op, rd, wr, waker, sched, unwind, rounds, inflight, listening>>
  BY DEF Reserve, Lock, After
<1>4. s \in Stages /\ op[t].keys \in SUBSET Keys BY DEF Stages, Locking, IInv, TaskType, Ops
<1>5. TaskType'
  <2> HIDE DEF s
  <2> QED BY <1>3, <1>4 DEF IInv, TaskType
<1>6. Moves(t, {}) BY <1>3 DEF Moves, IInv, TaskType
<1>7. stage'[t] = s /\ todo'[t] = op[t].keys BY <1>3 DEF IInv, TaskType
<1>8. Stage(t) /\ Hold(t) /\ Drops(t) BY DEF IInv, Shape
<1>9. Stage(t)' BY <1>2, <1>3, <1>7, <1>8 DEF Stage, Locking
<1>10. Hold(t)' BY <1>1, <1>2, <1>3, <1>7, <1>8 DEF Hold
<1>11. Drops(t)' BY <1>2, <1>3, <1>7, <1>8 DEF Drops
<1>12. Flies(t)' BY <1>2, <1>3, <1>7 DEF Flies
<1>13. CountInv' BY <1>2, <1>3, <1>5, <1>6, <1>12, SameCount DEF IInv
<1> QED BY <1>2, <1>3, <1>5, <1>6, <1>9, <1>10, <1>11, <1>13, QuietStep
-----------------------------------------------------------------------------
\* What is left to drop, after the first of it.
LEMMA TailLeft ==
  ASSUME NEW u \in Seq(Parts), u # <<>>, Left(u)
  PROVE  /\ Tail(u) \in Seq(Parts) /\ Left(Tail(u))
         /\ \A x : Has(Tail(u), x) <=> Has(u, x) /\ x # Head(u)
         /\ Has(u, Head(u))
         /\ Head(u) = "sub" => Tail(u) # <<>> /\ Head(Tail(u)) = "notify"
<1>1. Len(u) \in Nat \ {0} /\ Head(u) = u[1] BY LenProperties, EmptySeq
<1>2. Tail(u) \in Seq(Parts) /\ Len(Tail(u)) = Len(u) - 1 /\ \A i \in 1..Len(u) - 1 : Tail(u)[i] = u[i + 1]
  BY HeadTailProperties
<1>3. Left(Tail(u))
  <2>1. NoRepeats(Tail(u)) BY <1>1, <1>2 DEF Left, NoRepeats
  <2>2. ASSUME NEW i \in 1..Len(Tail(u)), Tail(u)[i] = "sub"
        PROVE  i < Len(Tail(u)) /\ Tail(u)[i + 1] = "notify"
    <3>1. i + 1 \in 1..Len(u) /\ u[i + 1] = "sub" BY <1>1, <1>2, <2>2
    <3>2. i + 1 < Len(u) /\ u[(i + 1) + 1] = "notify" BY <3>1 DEF Left
    <3>3. i + 1 \in 1..Len(u) - 1 BY <1>1, <1>2, <3>2
    <3> QED BY <1>1, <1>2, <3>2, <3>3
  <2> QED BY <2>1, <2>2 DEF Left
<1>4. ASSUME NEW x PROVE Has(Tail(u), x) <=> Has(u, x) /\ x # Head(u)
  <2>1. ASSUME Has(Tail(u), x) PROVE Has(u, x) /\ x # Head(u)
    <3>1. PICK i \in 1..Len(u) - 1 : Tail(u)[i] = x BY <1>2, <2>1 DEF Has
    <3>2. i + 1 \in 1..Len(u) /\ i + 1 # 1 /\ u[i + 1] = x /\ 1 \in 1..Len(u) BY <1>1, <1>2, <3>1
    <3> QED BY <1>1, <3>2 DEF Has, Left, NoRepeats
  <2>2. ASSUME Has(u, x), x # Head(u) PROVE Has(Tail(u), x)
    <3>1. PICK i \in 1..Len(u) : u[i] = x BY <2>2 DEF Has
    <3>2. i - 1 \in 1..Len(u) - 1 /\ (i - 1) + 1 = i BY <1>1, <2>2, <3>1
    <3>3. Tail(u)[i - 1] = x BY <1>2, <3>1, <3>2
    <3> QED BY <1>2, <3>2, <3>3 DEF Has
  <2> QED BY <2>1, <2>2
<1>5. Has(u, Head(u)) BY <1>1 DEF Has
<1>6. Head(u) = "sub" => Tail(u) # <<>> /\ Head(Tail(u)) = "notify"
  <2>1. SUFFICES ASSUME Head(u) = "sub" PROVE Tail(u) # <<>> /\ Head(Tail(u)) = "notify" OBVIOUS
  <2>2. 1 \in 1..Len(u) /\ 1 < Len(u) /\ u[1 + 1] = "notify" BY <1>1, <2>1 DEF Left
  <2>3. Len(Tail(u)) > 0 /\ Tail(u)[1] = "notify" BY <1>1, <1>2, <2>2
  <2> DEFINE v == Tail(u)
  <2>4. v \in Seq(Parts) /\ Len(v) > 0 /\ v[1] = "notify" BY <1>2, <2>3
  <2> HIDE DEF v
  <2>5. v # <<>> /\ Head(v) = v[1] BY <2>4
  <2> QED BY <2>4, <2>5 DEF v
<1> QED BY <1>2, <1>3, <1>4, <1>5, <1>6

\* What a future dropped in a stage has left to drop covers all that it has.
LEMMA UnwindingSound ==
  ASSUME IInv, NEW t \in Tasks, stage[t] \notin {"idle", "unwind", "add", "listen", "retry"}
  PROVE  LET u == Unwinding(t) IN
         /\ u \in Seq(Parts) /\ Left(u)
         /\ stage[t] # "guard" /\ rd[t] # {} => Has(u, "guard")
         /\ wr[t] # {} => Has(u, "locks")
         /\ Has(u, "sub") <=> op[t].kind = "txn" /\ stage[t] \notin {"guard", "await"}
<1> DEFINE u == Unwinding(t)
<1>1. Stage(t) /\ Hold(t) BY DEF IInv, Shape
<1>2. op[t].kind \in {"read", "write", "txn"} /\ stage[t] \in Stages BY DEF IInv, TaskType, Ops
<1>3. CASE op[t].kind = "read"
  <2>1. u = <<"guard">> BY <1>3 DEF Unwinding
  <2>2. u \in Seq(Parts) /\ Left(u) /\ Has(u, "guard") /\ ~Has(u, "sub")
    BY <2>1 DEF Parts, Left, NoRepeats, Has
  <2> HIDE DEF u
  <2> QED BY <1>1, <1>3, <2>2 DEF Hold, u
<1>4. CASE op[t].kind = "write"
  <2>1. u = <<"locks">> BY <1>1, <1>4 DEF Unwinding, Stage
  <2>2. u \in Seq(Parts) /\ Left(u) /\ Has(u, "locks") /\ ~Has(u, "sub")
    BY <2>1 DEF Parts, Left, NoRepeats, Has
  <2> HIDE DEF u
  <2> QED BY <1>1, <1>4, <2>2 DEF Hold, u
<1>5. CASE op[t].kind = "txn" /\ stage[t] = "guard"
  <2>1. u = <<>> BY <1>5 DEF Unwinding
  <2>2. u \in Seq(Parts) /\ Left(u) /\ ~Has(u, "sub")
    BY <2>1 DEF Left, NoRepeats, Has
  <2> HIDE DEF u
  <2> QED BY <1>1, <1>5, <2>2 DEF Hold, u
<1>6. CASE op[t].kind = "txn" /\ stage[t] = "await"
  <2>1. u = <<"guard">> BY <1>6 DEF Unwinding
  <2>2. u \in Seq(Parts) /\ Left(u) /\ Has(u, "guard") /\ ~Has(u, "sub")
    BY <2>1 DEF Parts, Left, NoRepeats, Has
  <2> HIDE DEF u
  <2> QED BY <1>1, <1>6, <2>2 DEF Hold, u
<1>7. CASE op[t].kind = "txn" /\ stage[t] = "reserve"
  <2>1. u = <<"sub", "notify", "guard">> BY <1>7 DEF Unwinding
  <2>2. u \in Seq(Parts) /\ Left(u) /\ Has(u, "guard") /\ Has(u, "sub")
    BY <2>1 DEF Parts, Left, NoRepeats, Has
  <2> HIDE DEF u
  <2> QED BY <1>1, <1>7, <2>2 DEF Hold, u
<1>8. CASE op[t].kind = "txn" /\ stage[t] = "lock"
  <2>1. u = <<"locks", "sub", "notify", "guard">> BY <1>8 DEF Unwinding
  <2>2. u \in Seq(Parts) /\ Left(u) /\ Has(u, "guard") /\ Has(u, "sub") /\ Has(u, "locks")
    BY <2>1 DEF Parts, Left, NoRepeats, Has
  <2> HIDE DEF u
  <2> QED BY <1>1, <1>8, <2>2 DEF Hold, u
<1>9. CASE op[t].kind = "txn" /\ stage[t] \notin {"guard", "await", "reserve", "lock"}
  <2>1. u = <<"sub", "notify", "locks", "guard">> BY <1>9 DEF Unwinding
  <2>2. u \in Seq(Parts) /\ Left(u) /\ Has(u, "guard") /\ Has(u, "sub") /\ Has(u, "locks")
    BY <2>1 DEF Parts, Left, NoRepeats, Has
  <2> HIDE DEF u
  <2> QED BY <1>1, <1>9, <2>2 DEF Hold, u
<1> QED BY <1>2, <1>3, <1>4, <1>5, <1>6, <1>7, <1>8, <1>9
\* A task that unwinds.
LEMMA UnwindShape ==
  ASSUME IInv, NEW t \in Tasks, NEW left \in Seq(Parts), Left(left), Unwind(t, left),
         todo'[t] = {}, waker'[t] = "none", rd'[t] \subseteq rd[t], wr'[t] \subseteq wr[t],
         rd'[t] # {} => Has(left, "guard"), wr'[t] # {} => Has(left, "locks"),
         Has(left, "sub") => op[t].kind = "txn", stage[t] \notin {"idle", "reading"}
  PROVE  /\ (Stage(t) /\ Hold(t) /\ Drops(t))'
         /\ op' \in [Tasks -> Ops] /\ stage' \in [Tasks -> Stages] /\ unwind' \in [Tasks -> Seq(Parts)]
         /\ rounds' \in [Tasks -> 0..MaxRounds]
         /\ \A u \in Tasks \ {t} : op'[u] = op[u] /\ stage'[u] = stage[u] /\ unwind'[u] = unwind[u]
         /\ Flies(t)' <=> Has(left, "sub")
         /\ Has(left, "sub") => op'[t] = op[t]
         /\ wr'[t] # {} => op'[t] = op[t] /\ stage'[t] = "unwind"
         /\ stage'[t] \in {"idle", "unwind"}
<1> DEFINE o == IF left = <<>> THEN NoOp ELSE op[t]
           s == IF left = <<>> THEN "idle" ELSE "unwind"
<1>1. /\ op' = [op EXCEPT ![t] = o] /\ stage' = [stage EXCEPT ![t] = s] /\ unwind' = [unwind EXCEPT ![t] = left]
      /\ rounds' = [rounds EXCEPT ![t] = IF left = <<>> THEN 0 ELSE @]
  BY DEF Unwind
<1>2. TaskType /\ op[t] \in Ops BY DEF IInv, TaskType
<1>3. o \in Ops /\ s \in Stages BY <1>2 DEF NoOp, Ops, Stages
<1>4. /\ op'[t] = o /\ stage'[t] = s /\ unwind'[t] = left BY <1>1, <1>2 DEF TaskType
<1>5. op' \in [Tasks -> Ops] /\ stage' \in [Tasks -> Stages] /\ unwind' \in [Tasks -> Seq(Parts)]
  <2> HIDE DEF o, s
  <2> QED BY <1>1, <1>2, <1>3 DEF TaskType
<1>6. rounds' \in [Tasks -> 0..MaxRounds] BY <1>1, <1>2, LockManagerAssumption DEF TaskType
<1>7. \A u \in Tasks \ {t} : op'[u] = op[u] /\ stage'[u] = stage[u] /\ unwind'[u] = unwind[u]
  BY <1>1, <1>2 DEF TaskType
<1>8. left = <<>> => rd'[t] = {} /\ wr'[t] = {} /\ ~Has(left, "sub")
  <2>1. Len(<<>>) = 0 OBVIOUS
  <2>2. left = <<>> => ~Has(left, "sub") /\ ~Has(left, "guard") /\ ~Has(left, "locks") BY <2>1 DEF Has
  <2> QED BY <2>2
<1>9. Stage(t) /\ Hold(t) BY DEF IInv, Shape
<1>10. NoOp.kind = "read" BY DEF NoOp
<1>11. Stage(t)' BY <1>4, <1>8, <1>9, <1>10 DEF Stage, Locking
<1>12. Hold(t)' BY <1>4, <1>8, <1>9, <1>10 DEF Hold
<1>13. Left(unwind[t])' BY <1>4 DEF Left, NoRepeats
<1>14. \A x : Has(unwind[t], x)' <=> Has(left, x) BY <1>4 DEF Has
<1>15. Drops(t)' BY <1>4, <1>8, <1>13, <1>14 DEF Drops, Has
<1>16. Flies(t)' <=> Has(left, "sub") BY <1>4, <1>8, <1>10, <1>14 DEF Flies, Has
<1> QED BY <1>4, <1>5, <1>6, <1>7, <1>8, <1>11, <1>12, <1>15, <1>16

\* A task that unwinds keeps the entries it has as they are.
LEMMA UnwindState ==
  ASSUME IInv, NEW t \in Tasks, NEW k \in Keys, k \in wr[t], op'[t] = op[t], stage'[t] = "unwind",
         lock'[k] = lock[k]
  PROVE  State(lock[k], t, k)'
<1>1. State(lock[k], t, k) BY OwnState
<1> QED BY <1>1 DEF State

\* A task without a waker begins or goes on to unwind, and drops no lock yet.
LEMMA UnwindQuiet ==
  ASSUME IInv, NEW t \in Tasks, NEW left \in Seq(Parts), Left(left), Unwind(t, left),
         UNCHANGED <<lock, todo, rd, wr, waker, sched>>,
         rd[t] # {} => Has(left, "guard"), wr[t] # {} => Has(left, "locks"), listening' \subseteq Tasks,
         Has(left, "sub") => op[t].kind = "txn", stage[t] \notin {"idle", "reading"}, stage[t] \notin Locking,
         \/ inflight' = inflight /\ (Has(left, "sub") <=> Flies(t))
         \/ inflight' = inflight - 1 /\ Flies(t) /\ ~Has(left, "sub")
  PROVE  IInv'
<1>1. todo[t] = {} /\ waker[t] = "none" BY DEF IInv, Shape, Stage
<1>2. /\ (Stage(t) /\ Hold(t) /\ Drops(t))'
      /\ op' \in [Tasks -> Ops] /\ stage' \in [Tasks -> Stages] /\ unwind' \in [Tasks -> Seq(Parts)]
      /\ rounds' \in [Tasks -> 0..MaxRounds]
      /\ \A u \in Tasks \ {t} : op'[u] = op[u] /\ stage'[u] = stage[u] /\ unwind'[u] = unwind[u]
      /\ Flies(t)' <=> Has(left, "sub")
      /\ Has(left, "sub") => op'[t] = op[t]
      /\ wr'[t] # {} => op'[t] = op[t] /\ stage'[t] = "unwind"
  BY <1>1, UnwindShape
<1>3. TaskType' BY <1>2 DEF IInv, TaskType
<1>4. Moves(t, {}) BY <1>2 DEF Moves
<1>5. CountInv'
  <2>1. CASE inflight' = inflight /\ (Has(left, "sub") <=> Flies(t))
    BY <1>2, <1>3, <1>4, <2>1, SameCount DEF IInv
  <2>2. CASE inflight' = inflight - 1 /\ Flies(t) /\ ~Has(left, "sub")
    BY <1>2, <1>3, <1>4, <2>2, LessCount DEF IInv
  <2> QED BY <2>1, <2>2
<1>6. ASSUME NEW k \in wr[t] PROVE State(lock[k], t, k)'
  <2>1. k \in Keys BY DEF IInv, TaskType
  <2> QED BY <1>2, <2>1, UnwindState
<1> QED BY <1>1, <1>2, <1>3, <1>4, <1>5, <1>6, QuietStep

\* Whether a task that has begun is in flight.
LEMMA FliesUnless ==
  ASSUME IInv, NEW t \in Tasks, stage[t] # "unwind"
  PROVE  Flies(t) <=> op[t].kind = "txn" /\ stage[t] \in {"reserve", "lock", "use", "reread", "reading", "prepare", "commit"}
<1>1. unwind[t] = <<>> BY DEF IInv, Shape, Stage
<1>2. Len(<<>>) = 0 OBVIOUS
<1>3. ~Has(unwind[t], "sub") BY <1>1, <1>2 DEF Has
<1> QED BY <1>3 DEF Flies

\* The futures that are dropped while they have no waker.
LEMMA EndInv ==
  ASSUME IInv, NEW t \in Tasks, stage[t] \in {"await", "reserve", "use", "commit"}, Unwind(t, Unwinding(t)),
         UNCHANGED <<lock, todo, rd, wr, waker, sched, inflight>>, listening' \subseteq Tasks
  PROVE  IInv'
<1> DEFINE u == Unwinding(t)
<1>1. /\ u \in Seq(Parts) /\ Left(u) /\ (rd[t] # {} => Has(u, "guard")) /\ (wr[t] # {} => Has(u, "locks"))
      /\ Has(u, "sub") <=> op[t].kind = "txn" /\ stage[t] \notin {"guard", "await"}
  BY UnwindingSound
<1> HIDE DEF u
<1>2. Flies(t) <=> Has(u, "sub") BY <1>1, FliesUnless
<1>3. Has(u, "sub") => op[t].kind = "txn" BY <1>1
<1>4. stage[t] \notin Locking BY DEF Locking
<1>5. Unwind(t, u) BY DEF u
<1> QED BY <1>1, <1>2, <1>3, <1>4, <1>5, UnwindQuiet

\* A future dropped while it waits for a place.
LEMMA AddCancelInv == ASSUME IInv, NEW t \in Tasks, AddCancel(t) PROVE IInv'
BY EndInv DEF AddCancel, IInv, TaskType
\* A transaction that gets no reservation.
LEMMA ReserveFailsInv == ASSUME IInv, NEW t \in Tasks, ReserveFails(t) PROVE IInv'
BY EndInv DEF ReserveFails, IInv, TaskType
\* A guard or a transaction is dropped.
LEMMA FinishInv == ASSUME IInv, NEW t \in Tasks, Finish(t) PROVE IInv'
BY EndInv DEF Finish, IInv, TaskType

\* What a task that unwinds has left.
LEMMA UnwindingIs ==
  ASSUME IInv, NEW t \in Tasks, stage[t] = "unwind"
  PROVE  LET u == unwind[t] IN
         /\ u \in Seq(Parts) /\ u # <<>> /\ Left(u)
         /\ rd[t] # {} => Has(u, "guard")
         /\ wr[t] # {} => Has(u, "locks")
         /\ Has(u, "sub") => op[t].kind = "txn"
         /\ Flies(t) <=> Has(u, "sub")
BY DEF IInv, TaskType, Shape, Stage, Drops, Flies

\* sub_transaction gives the place back.
LEMMA SubInv == ASSUME IInv, NEW t \in Tasks, Sub(t) PROVE IInv'
<1> DEFINE u == unwind[t]
           left == IF inflight <= MaxInFlight THEN Tail(u) ELSE Tail(Tail(u))
<1>1. stage[t] = "unwind" /\ Head(u) = "sub" /\ inflight' = inflight - 1 /\ Unwind(t, left)
      /\ UNCHANGED <<lock, todo, rd, wr, waker, sched, listening>>
  BY DEF Sub
<1>2. /\ u \in Seq(Parts) /\ u # <<>> /\ Left(u) /\ (rd[t] # {} => Has(u, "guard")) /\ (wr[t] # {} => Has(u, "locks"))
      /\ Has(u, "sub") => op[t].kind = "txn"
      /\ Flies(t) <=> Has(u, "sub")
  BY <1>1, UnwindingIs
<1> HIDE DEF u
<1>3. /\ Tail(u) \in Seq(Parts) /\ Left(Tail(u)) /\ Has(u, "sub") /\ Tail(u) # <<>> /\ Head(Tail(u)) = "notify"
      /\ \A x : Has(Tail(u), x) <=> Has(u, x) /\ x # "sub"
  BY <1>1, <1>2, TailLeft
<1>4. /\ Tail(Tail(u)) \in Seq(Parts) /\ Left(Tail(Tail(u)))
      /\ \A x : Has(Tail(Tail(u)), x) <=> Has(Tail(u), x) /\ x # "notify"
  BY <1>3, TailLeft
<1>5. /\ left \in Seq(Parts) /\ Left(left) /\ ~Has(left, "sub")
      /\ Has(left, "guard") <=> Has(u, "guard")
      /\ Has(left, "locks") <=> Has(u, "locks")
  BY <1>3, <1>4
<1> HIDE DEF left
<1>6. stage[t] \notin Locking /\ listening' \subseteq Tasks BY <1>1 DEF Locking, IInv, TaskType
<1>7. rd[t] # {} => Has(left, "guard") BY <1>2, <1>5
<1>8. wr[t] # {} => Has(left, "locks") BY <1>2, <1>5
<1> QED BY <1>1, <1>2, <1>3, <1>5, <1>6, <1>7, <1>8, UnwindQuiet

\* The event is notified.
LEMMA NotifyInv == ASSUME IInv, NEW t \in Tasks, Notify(t) PROVE IInv'
<1> DEFINE u == unwind[t]
<1>1. stage[t] = "unwind" /\ Head(u) = "notify" /\ Unwind(t, Tail(u)) /\ listening' \subseteq Tasks
      /\ UNCHANGED <<lock, todo, rd, wr, waker, sched, inflight>>
  BY DEF Notify
<1>2. /\ u \in Seq(Parts) /\ u # <<>> /\ Left(u) /\ (rd[t] # {} => Has(u, "guard")) /\ (wr[t] # {} => Has(u, "locks"))
      /\ Has(u, "sub") => op[t].kind = "txn"
      /\ Flies(t) <=> Has(u, "sub")
  BY <1>1, UnwindingIs
<1> HIDE DEF u
<1>3. Tail(u) \in Seq(Parts) /\ Left(Tail(u)) /\ \A x : Has(Tail(u), x) <=> Has(u, x) /\ x # "notify"
  BY <1>1, <1>2, TailLeft
<1>4. stage[t] \notin Locking BY <1>1 DEF Locking
<1>5. /\ rd[t] # {} => Has(Tail(u), "guard")
      /\ wr[t] # {} => Has(Tail(u), "locks")
      /\ Has(Tail(u), "sub") => op[t].kind = "txn"
      /\ Has(Tail(u), "sub") <=> Flies(t)
  BY <1>2, <1>3
<1> QED BY <1>1, <1>3, <1>4, <1>5, UnwindQuiet
-----------------------------------------------------------------------------
\* A transaction asks for a read lock on a key that it has.
LEMMA RereadStepInv == ASSUME IInv, NEW t \in Tasks, Reread(t) PROVE IInv'
<1>1. PICK k \in wr[t] : Lock(t, "reread", {k}) BY DEF Reread
<1>2. /\ stage' = [stage EXCEPT ![t] = "reread"] /\ todo' = [todo EXCEPT ![t] = {k}]
      /\ rounds' = [rounds EXCEPT ![t] = @ + 1] /\ rounds[t] < MaxRounds /\ stage[t] = "use" /\ op[t].kind = "txn"
      /\ UNCHANGED <<lock, op, rd, wr, waker, sched, unwind, inflight, listening>>
  BY <1>1 DEF Reread, Lock
<1>3. TaskType /\ k \in Keys BY DEF IInv, TaskType
<1>4. TaskType'
  <2>1. rounds' \in [Tasks -> 0..MaxRounds] BY <1>2, <1>3, LockManagerAssumption DEF TaskType
  <2>2. "reread" \in Stages /\ {k} \in SUBSET Keys BY <1>3 DEF Stages, Locking
  <2> QED BY <1>2, <1>3, <2>1, <2>2 DEF TaskType
<1>5. Moves(t, {}) BY <1>2, <1>3 DEF Moves, TaskType
<1>6. stage'[t] = "reread" /\ todo'[t] = {k} BY <1>2, <1>3 DEF TaskType
<1>7. Stage(t) /\ Hold(t) /\ Drops(t) BY DEF IInv, Shape
<1>8. waker[t] = "none" /\ unwind[t] = <<>> BY <1>2, <1>7 DEF Stage, Locking
<1>9. Stage(t)' BY <1>2, <1>6, <1>7, <1>8 DEF Stage, Locking
<1>10. Hold(t)' BY <1>2, <1>6, <1>7 DEF Hold
<1>11. Drops(t)' BY <1>2, <1>6, <1>7 DEF Drops
<1>12. Flies(t) /\ Flies(t)' BY <1>2, <1>6 DEF Flies
<1>13. CountInv' BY <1>2, <1>3, <1>4, <1>5, <1>12, SameCount DEF IInv
<1>14. ASSUME NEW j \in wr[t] PROVE State(lock[j], t, j)'
  <2>1. j \in Keys BY <1>3 DEF TaskType
  <2>2. lock[j].state = "Locked" BY <1>2, <2>1, OwnState
  <2>3. (j \notin Exclusive(t))' BY <1>2, <1>6 DEF Exclusive
  <2> QED BY <1>2, <2>2, <2>3 DEF State
<1> QED BY <1>2, <1>4, <1>5, <1>8, <1>9, <1>10, <1>11, <1>13, <1>14, QuietStep

\* A commit begins to upgrade the locks.
LEMMA CommitInv == ASSUME IInv, NEW t \in Tasks, Commit(t) PROVE IInv'
<1> DEFINE s == IF wr[t] = {} THEN "commit" ELSE "prepare"
<1>1. /\ stage' = [stage EXCEPT ![t] = s] /\ todo' = [todo EXCEPT ![t] = wr[t]]
      /\ stage[t] = "use" /\ op[t].kind = "txn"
      /\ UNCHANGED <<lock, op, rd, wr, waker, sched, unwind, rounds, inflight, listening>>
  BY DEF Commit, Lock, After
<1>2. TaskType /\ wr[t] \in SUBSET Keys BY DEF IInv, TaskType
<1>3. TaskType'
  <2>1. s \in Stages BY DEF Stages, Locking
  <2> HIDE DEF s
  <2> QED BY <1>1, <1>2, <2>1 DEF TaskType
<1>4. Moves(t, {}) BY <1>1, <1>2 DEF Moves, TaskType
<1>5. stage'[t] = s /\ todo'[t] = wr[t] BY <1>1, <1>2 DEF TaskType
<1>6. Stage(t) /\ Hold(t) /\ Drops(t) BY DEF IInv, Shape
<1>7. waker[t] = "none" /\ unwind[t] = <<>> BY <1>1, <1>6 DEF Stage, Locking
<1>8. Stage(t)' BY <1>1, <1>5, <1>6, <1>7 DEF Stage, Locking
<1>9. Hold(t)' BY <1>1, <1>5, <1>6 DEF Hold
<1>10. Drops(t)' BY <1>1, <1>5, <1>6 DEF Drops
<1>11. Flies(t) /\ Flies(t)' BY <1>1, <1>5 DEF Flies
<1>12. CountInv' BY <1>1, <1>2, <1>3, <1>4, <1>11, SameCount DEF IInv
<1>13. ASSUME NEW j \in wr[t] PROVE State(lock[j], t, j)'
  <2>1. j \in Keys BY <1>2
  <2>2. lock[j].state = "Locked" BY <1>1, <2>1, OwnState
  <2>3. stage'[t] = "prepare" /\ j \in todo'[t] BY <1>5
  <2>4. ~Granted(t, j)' BY <1>1, <1>7 DEF Granted
  <2>5. (j \notin Exclusive(t))' BY <1>1, <2>3, <2>4 DEF Exclusive
  <2> QED BY <1>1, <2>2, <2>5 DEF State
<1> QED BY <1>1, <1>3, <1>4, <1>7, <1>8, <1>9, <1>10, <1>12, <1>13, QuietStep

\* The first poll of a waker changes nothing that others see.
LEMMA ParkInv == ASSUME IInv, NEW t \in Tasks, Park(t) PROVE IInv'
<1>1. /\ waker[t] = "Pending" /\ waker' = [waker EXCEPT ![t] = "Registered"] /\ sched' = [sched EXCEPT ![t] = "parked"]
      /\ UNCHANGED <<lock, op, stage, todo, rd, wr, unwind, rounds, inflight, listening>>
  BY DEF Park
<1>2. TaskType BY DEF IInv
<1>3. TaskType' BY <1>1, <1>2 DEF TaskType
<1>4. Moves(t, {}) BY <1>1, <1>2 DEF Moves, TaskType
<1>5. waker'[t] = "Registered" BY <1>1, <1>2 DEF TaskType
<1>6. Stage(t) /\ Hold(t) /\ Drops(t) BY DEF IInv, Shape
<1>7. Stage(t)' BY <1>1, <1>6 DEF Stage
<1>8. Hold(t)' BY <1>1, <1>6 DEF Hold
<1>9. Drops(t)' BY <1>1, <1>6 DEF Drops, Left, NoRepeats, Has
<1>10. stage[t] # "reread" BY <1>1 DEF IInv, RereadInv
<1>11. Shape' /\ RereadInv' BY <1>1, <1>4, <1>6, <1>7, <1>8, <1>9, <1>10, OthersShape DEF IInv
<1>12. ASSUME NEW k \in Keys PROVE EntryInv(k)'
  <2>1. Current(t)' = Current(t) BY <1>1 DEF Current
  <2>2. ~Granted(t, k) /\ ~Granted(t, k)' BY <1>1, <1>5 DEF Granted
  <2>3. (t \in Readers(k))' <=> t \in Readers(k) BY <1>1, <2>2 DEF Readers
  <2>4. (t \in Writers(k))' <=> t \in Writers(k) BY <1>1, <2>2 DEF Writers
  <2>5. Waits(t, k)' <=> Waits(t, k)
    <3>1. Waits(t, k)' <=> waker'[t] \in {"Pending", "Registered"} /\ Current(t)' = k BY DEF Waits
    <3> QED BY <1>1, <1>5, <2>1, <3>1 DEF Waits
  <2>6. (k \in Exclusive(t))' <=> k \in Exclusive(t) BY <1>1, <2>2, <2>4 DEF Exclusive
  <2>7. t \in Writers(k) => State(lock[k], t, k) BY DEF IInv, LockInv, EntryInv
  <2>8. t \in Writers(k) => State(lock[k], t, k)' BY <1>1, <2>6, <2>7 DEF State
  <2> QED BY <1>1, <1>4, <2>3, <2>4, <2>5, <2>8, SameKey DEF IInv, LockInv
<1>13. Flies(t)' <=> Flies(t) BY <1>1 DEF Flies, Has
<1>14. CountInv' BY <1>1, <1>2, <1>3, <1>4, <1>13, SameCount DEF IInv
<1> QED BY <1>1, <1>3, <1>11, <1>12, <1>14 DEF IInv, LockInv, LockType
-----------------------------------------------------------------------------
\* A task that takes its current key: its shape, and the other keys.
LEMMA TakeShape ==
  ASSUME IInv, NEW t \in Tasks, stage[t] \in Locking, Take(t), UNCHANGED <<op, unwind>>, waker'[t] = "none"
  PROVE  LET k == Current(t) left == todo[t] \ {k} IN
         /\ k \in todo[t] /\ k \in Keys /\ todo'[t] = left
         /\ stage'[t] = IF left = {} THEN After(stage[t]) ELSE stage[t]
         /\ rd'[t] = IF Target(t) = "ReadLock" THEN rd[t] \cup {k} ELSE rd[t]
         /\ wr'[t] = IF Target(t) = "ReadLock" THEN wr[t] ELSE wr[t] \cup {k}
         /\ (Stage(t) /\ Hold(t) /\ Drops(t))'
         /\ todo' \in [Tasks -> SUBSET Keys] /\ stage' \in [Tasks -> Stages]
         /\ rd' \in [Tasks -> SUBSET Keys] /\ wr' \in [Tasks -> SUBSET Keys]
         /\ \A u \in Tasks \ {t} : stage'[u] = stage[u] /\ todo'[u] = todo[u] /\ rd'[u] = rd[u] /\ wr'[u] = wr[u]
         /\ Flies(t)' <=> Flies(t)
<1> DEFINE k == Current(t)
           left == todo[t] \ {k}
           s == IF left = {} THEN After(stage[t]) ELSE stage[t]
           r == IF Target(t) = "ReadLock" THEN rd[t] \cup {k} ELSE rd[t]
           w == IF Target(t) = "ReadLock" THEN wr[t] ELSE wr[t] \cup {k}
<1>1. TaskType /\ Stage(t) /\ Hold(t) /\ Drops(t) BY DEF IInv, Shape
<1>2. k \in todo[t] /\ k \in Keys
  <2>1. todo[t] # {} BY <1>1 DEF Stage
  <2> QED BY <1>1, <2>1, CurrentKey
<1> HIDE DEF k
<1>3. /\ todo' = [todo EXCEPT ![t] = left] /\ stage' = [stage EXCEPT ![t] = s]
      /\ rd' = [rd EXCEPT ![t] = r] /\ wr' = [wr EXCEPT ![t] = w]
  BY DEF Take, Lock, k
<1>4. s \in Stages /\ left \in SUBSET Keys /\ r \in SUBSET Keys /\ w \in SUBSET Keys
  BY <1>1, <1>2 DEF TaskType, After, Stages, Locking
<1>5. todo'[t] = left /\ stage'[t] = s /\ rd'[t] = r /\ wr'[t] = w BY <1>1, <1>3 DEF TaskType
<1>6. /\ todo' \in [Tasks -> SUBSET Keys] /\ stage' \in [Tasks -> Stages]
      /\ rd' \in [Tasks -> SUBSET Keys] /\ wr' \in [Tasks -> SUBSET Keys]
  <2> HIDE DEF s, r, w, left
  <2> QED BY <1>1, <1>3, <1>4 DEF TaskType
<1>7. \A u \in Tasks \ {t} : stage'[u] = stage[u] /\ todo'[u] = todo[u] /\ rd'[u] = rd[u] /\ wr'[u] = wr[u]
  <2> HIDE DEF s, r, w, left
  <2> QED BY <1>1, <1>3 DEF TaskType
<1>8. op[t].kind \in {"read", "write", "txn"} BY <1>1 DEF TaskType, Ops
<1>9. stage[t] \in {"guard", "lock", "reread", "prepare"} BY DEF Locking
<1>10. /\ stage[t] \in {"guard", "reread", "prepare"} => op[t].kind = "txn"
       /\ op'[t] = op[t] /\ unwind'[t] = unwind[t] /\ unwind[t] = <<>>
  BY <1>1, <1>8, <1>9 DEF Stage
<1>11. Stage(t)'
  <2>1. CASE left = {}
    <3>1. stage'[t] \in {"add", "use", "reading", "commit"} /\ todo'[t] = {} BY <1>5, <1>9, <2>1 DEF After
    <3>2. op[t].kind # "txn" => stage'[t] = "use" BY <1>5, <1>9, <1>10, <2>1 DEF After
    <3> QED BY <1>1, <1>8, <1>10, <3>1, <3>2 DEF Stage, Locking
  <2>2. CASE left # {}
    <3>1. stage'[t] = stage[t] /\ todo'[t] # {} /\ todo'[t] \subseteq todo[t] BY <1>5, <2>2
    <3>2. stage[t] \notin {"guard", "reread"} BY <1>1, <1>2, <2>2 DEF Stage
    <3>3. wr[t] \subseteq wr'[t] BY <1>5
    <3> QED BY <1>1, <1>9, <1>10, <3>1, <3>2, <3>3 DEF Stage, Locking
  <2> QED BY <2>1, <2>2
<1>12. Hold(t)'
  <2>1. CASE stage[t] = "guard"
    <3>1. left = {} /\ k = Filesystem /\ Target(t) = "ReadLock" BY <1>1, <1>2, <2>1 DEF Stage, Target
    <3>2. stage'[t] = "add" /\ rd'[t] = {Filesystem} /\ wr'[t] = {}
      BY <1>1, <1>5, <1>10, <2>1, <3>1 DEF After, Hold
    <3> QED BY <1>10, <2>1, <3>2 DEF Hold
  <2>2. CASE stage[t] = "lock" /\ op[t].kind = "read"
    <3>1. Target(t) = "ReadLock" BY <2>2 DEF Target
    <3>2. stage'[t] \in {"use", "lock"} /\ wr'[t] = {} /\ rd'[t] \cap todo'[t] = {}
      BY <1>1, <1>5, <2>2, <3>1 DEF After, Hold
    <3> QED BY <1>10, <2>2, <3>2 DEF Hold
  <2>3. CASE stage[t] = "lock" /\ op[t].kind # "read"
    <3>1. Target(t) # "ReadLock" BY <2>3 DEF Target
    <3>2. stage'[t] \in {"use", "lock"} /\ rd'[t] = rd[t] /\ wr'[t] \cap todo'[t] = {} /\ wr'[t] = wr[t] \cup {k}
      BY <1>1, <1>5, <2>3, <3>1 DEF After, Hold
    <3>3. op[t].kind = "txn" => wr'[t] \subseteq op[t].keys BY <1>1, <1>2, <2>3, <3>2 DEF Stage, Hold
    <3> QED BY <1>1, <1>8, <1>10, <2>3, <3>2, <3>3 DEF Hold
  <2>4. CASE stage[t] = "reread"
    <3>1. Target(t) = "ReadLock" BY <2>4 DEF Target
    <3>2. left = {} BY <1>1, <1>2, <2>4 DEF Stage
    <3>3. stage'[t] = "reading" /\ wr'[t] = wr[t] BY <1>5, <2>4, <3>1, <3>2 DEF After
    <3> QED BY <1>1, <1>10, <2>4, <3>3 DEF Hold
  <2>5. CASE stage[t] = "prepare"
    <3>1. Target(t) # "ReadLock" BY <1>10, <2>5 DEF Target
    <3>2. stage'[t] \in {"prepare", "commit"} /\ rd'[t] = rd[t] BY <1>5, <2>5, <3>1 DEF After
    <3>3. wr'[t] = wr[t] BY <1>1, <1>2, <1>5, <2>5, <3>1 DEF Stage
    <3> QED BY <1>1, <1>10, <2>5, <3>2, <3>3 DEF Hold
  <2> QED BY <1>9, <2>1, <2>2, <2>3, <2>4, <2>5
<1>13. stage'[t] # "unwind" BY <1>5, <1>9 DEF After
<1>14. Drops(t)' BY <1>1, <1>10, <1>13 DEF Drops, Left, NoRepeats
<1>15. Flies(t)' <=> Flies(t)
  <2>1. Flies(t) <=> op[t].kind = "txn" /\ (stage[t] \in {"lock", "reread", "prepare"} \/ Has(unwind[t], "sub"))
    BY <1>9 DEF Flies
  <2>2. Has(unwind[t], "sub")' <=> Has(unwind[t], "sub") BY <1>10 DEF Has
  <2>3. Flies(t)' <=> op[t].kind = "txn" /\ (stage[t] \in {"lock", "reread", "prepare"} \/ Has(unwind[t], "sub"))
    BY <1>5, <1>9, <1>10, <2>2 DEF Flies, After
  <2> QED BY <2>1, <2>3
<1> QED BY <1>2, <1>5, <1>6, <1>7, <1>11, <1>12, <1>14, <1>15 DEF k
\* What a task that takes its current key has then.
LEMMA TakeHeld ==
  ASSUME IInv, NEW t \in Tasks, stage[t] \in Locking, Take(t), UNCHANGED <<op, unwind>>,
         waker'[t] = "none", NEW j \in Keys
  PROVE  LET k == Current(t) IN
         /\ (t \in Readers(j))' <=> j \in rd[t] \/ (j = k /\ Target(t) = "ReadLock")
         /\ (t \in Writers(j))' <=> j \in wr[t] \/ (j = k /\ Target(t) # "ReadLock")
         /\ ~Waits(t, j)'
         /\ stage'[t] # "unwind"
         /\ op[t].kind = "txn" /\ (t \in Writers(j))' =>
              ((j \in Exclusive(t))' <=> stage[t] = "prepare" /\ (j = k \/ j \notin todo[t]))
<1> DEFINE k == Current(t)
           left == todo[t] \ {k}
<1>1. /\ k \in todo[t] /\ k \in Keys /\ todo'[t] = left
      /\ stage'[t] = IF left = {} THEN After(stage[t]) ELSE stage[t]
      /\ rd'[t] = IF Target(t) = "ReadLock" THEN rd[t] \cup {k} ELSE rd[t]
      /\ wr'[t] = IF Target(t) = "ReadLock" THEN wr[t] ELSE wr[t] \cup {k}
  BY TakeShape
<1> HIDE DEF k
<1>2. ~Granted(t, j)' /\ ~Waits(t, j)' BY DEF Granted, Waits
<1>3. ((t \in Readers(j))' <=> j \in rd'[t]) /\ ((t \in Writers(j))' <=> j \in wr'[t])
  BY <1>2 DEF Readers, Writers
<1>4. stage[t] \in {"guard", "lock", "reread", "prepare"} BY DEF Locking
<1>5. stage'[t] # "unwind" /\ (stage'[t] = "prepare" <=> stage[t] = "prepare" /\ left # {})
      /\ (stage'[t] = "commit" <=> stage[t] = "prepare" /\ left = {})
  BY <1>1, <1>4 DEF After
<1>6. ASSUME op[t].kind = "txn", (t \in Writers(j))'
      PROVE  (j \in Exclusive(t))' <=> stage[t] = "prepare" /\ (j = k \/ j \notin todo[t])
  <2>1. (j \in Exclusive(t))' <=> stage'[t] = "commit" \/ (stage'[t] = "prepare" /\ j \notin todo'[t])
    BY <1>2, <1>6 DEF Exclusive
  <2> QED BY <1>1, <1>5, <2>1
<1> QED BY <1>1, <1>2, <1>3, <1>5, <1>6 DEF k

\* The state of the entry it took, and of the others it has.
LEMMA TakeState ==
  ASSUME IInv, NEW t \in Tasks, stage[t] \in Locking, Take(t), UNCHANGED <<op, unwind>>,
         waker'[t] = "none", NEW j \in Keys,
         (t \in Writers(j))',
         IF j = Current(t) /\ Target(t) # "ReadLock" THEN lock'[j].state = Target(t) ELSE lock'[j].state = lock[j].state
  PROVE  State(lock[j], t, j)'
<1>1. /\ (t \in Writers(j))' <=> j \in wr[t] \/ (j = Current(t) /\ Target(t) # "ReadLock")
      /\ stage'[t] # "unwind"
      /\ op[t].kind = "txn" =>
           ((j \in Exclusive(t))' <=> stage[t] = "prepare" /\ (j = Current(t) \/ j \notin todo[t]))
  BY TakeHeld
<1>2. op[t].kind \in {"read", "write", "txn"} /\ TaskType /\ Stage(t) /\ Hold(t)
  BY DEF IInv, TaskType, Ops, Shape
<1>3. stage[t] \in {"guard", "lock", "reread", "prepare"} BY DEF Locking
<1>4. CASE j = Current(t) /\ Target(t) # "ReadLock"
  <2>1. lock'[j].state = Target(t) BY <1>4
  <2>2. op[t].kind # "txn" => Target(t) = "WriteLock" BY <1>2, <1>3, <1>4 DEF Target
  <2>3. op[t].kind = "txn" => Target(t) = IF stage[t] = "prepare" THEN "WriteLock" ELSE "Locked"
    BY <1>4 DEF Target
  <2> QED BY <1>1, <1>4, <2>1, <2>2, <2>3 DEF State
<1>5. CASE ~(j = Current(t) /\ Target(t) # "ReadLock")
  <2>1. j \in wr[t] /\ lock'[j].state = lock[j].state BY <1>1, <1>5
  <2>2. State(lock[j], t, j) /\ t \in Writers(j) BY <2>1, OwnState
  <2>3. CASE op[t].kind # "txn" BY <2>1, <2>2, <2>3 DEF State
  <2>4. CASE op[t].kind = "txn"
    <3>1. j = Current(t) => stage[t] # "prepare" BY <1>5, <2>4 DEF Target
    <3>2. j \in Exclusive(t) <=> stage[t] = "prepare" /\ (j \notin todo[t] \/ Granted(t, j))
      BY <1>3, <2>2, <2>4 DEF Exclusive
    <3>3. j # Current(t) => ~Granted(t, j) BY DEF Granted
    <3>4. (j \in Exclusive(t))' <=> j \in Exclusive(t) BY <1>1, <2>4, <3>1, <3>2, <3>3
    <3>5. stage[t] # "unwind" BY <1>3
    <3> QED BY <1>1, <2>1, <2>2, <2>4, <3>4, <3>5 DEF State
  <2> QED BY <2>3, <2>4
<1> QED BY <1>4, <1>5

\* So a step that takes a key is right if it is right about that key.
LEMMA TakeStep ==
  ASSUME IInv, NEW t \in Tasks, stage[t] \in Locking, Take(t),
         UNCHANGED <<op, unwind, rounds, inflight, listening>>,
         waker' = [waker EXCEPT ![t] = "none"], sched' \in [Tasks -> {"running", "parked", "scheduled"}],
         LockType', NEW k \in Keys, k = Current(t), \A j \in Keys : j # k => lock'[j] = lock[j],
         Moves(t, {}) => EntryInv(k)'
  PROVE  IInv'
<1>1. TaskType BY DEF IInv
<1>2. waker'[t] = "none" BY <1>1 DEF TaskType
<1>3. /\ (Stage(t) /\ Hold(t) /\ Drops(t))'
      /\ todo' \in [Tasks -> SUBSET Keys] /\ stage' \in [Tasks -> Stages]
      /\ rd' \in [Tasks -> SUBSET Keys] /\ wr' \in [Tasks -> SUBSET Keys]
      /\ \A u \in Tasks \ {t} : stage'[u] = stage[u] /\ todo'[u] = todo[u] /\ rd'[u] = rd[u] /\ wr'[u] = wr[u]
      /\ Flies(t)' <=> Flies(t)
  BY <1>2, TakeShape
<1>4. TaskType' BY <1>1, <1>3 DEF TaskType
<1>5. Moves(t, {}) BY <1>1, <1>3 DEF Moves, TaskType
<1>6. Shape' /\ RereadInv' BY <1>1, <1>2, <1>3, <1>5, OthersShape DEF IInv
<1>7. CountInv' BY <1>1, <1>3, <1>4, <1>5, SameCount DEF IInv
<1>8. ASSUME NEW j \in Keys, j # k PROVE EntryInv(j)'
  <2>1. lock'[j] = lock[j] BY <1>8
  <2>2. /\ (t \in Readers(j))' <=> j \in rd[t]
        /\ (t \in Writers(j))' <=> j \in wr[t]
        /\ ~Waits(t, j)'
    BY <1>2, <1>8, TakeHeld
  <2>3. ~Granted(t, j) /\ ~Waits(t, j) BY <1>8 DEF Granted, Waits
  <2>4. (t \in Readers(j) <=> j \in rd[t]) /\ (t \in Writers(j) <=> j \in wr[t]) BY <2>3 DEF Readers, Writers
  <2>5. t \in Writers(j) => State(lock[j], t, j)' BY <1>2, <1>8, <2>1, <2>2, <2>4, TakeState
  <2> QED BY <1>5, <2>1, <2>2, <2>3, <2>4, <2>5, SameKey DEF IInv, LockInv
<1>9. EntryInv(k)' BY <1>5
<1> QED BY <1>4, <1>6, <1>7, <1>8, <1>9 DEF IInv, LockInv

\* A waiter runs and finds that it has the lock.
LEMMA ResumeInv == ASSUME IInv, NEW t \in Tasks, Resume(t) PROVE IInv'
<1>1. /\ waker[t] = "Woken" /\ waker' = [waker EXCEPT ![t] = "none"] /\ sched' = [sched EXCEPT ![t] = "running"]
      /\ Take(t) /\ UNCHANGED <<lock, op, unwind, rounds, inflight, listening>>
  BY DEF Resume
<1>2. TaskType BY DEF IInv
<1>3. waker'[t] = "none" BY <1>1, <1>2 DEF TaskType
<1> PICK k \in Keys : k = Current(t)
  BY <1>1, <1>2, Waiter DEF IInv
<1>4. /\ stage[t] \in Locking /\ k \in todo[t]
      /\ Target(t) = "ReadLock" => k \notin rd[t]
      /\ stage[t] = "prepare" => k \in wr[t] /\ op[t].kind = "txn" /\ Target(t) = "WriteLock"
      /\ Target(t) # "ReadLock" /\ stage[t] # "prepare" => stage[t] = "lock" /\ k \notin wr[t]
  BY <1>1, <1>2, Waiter DEF IInv
<1>5. sched' \in [Tasks -> {"running", "parked", "scheduled"}] BY <1>1, <1>2 DEF TaskType
<1>6. ASSUME Moves(t, {}) PROVE EntryInv(k)'
  <2>1. /\ (t \in Readers(k))' <=> k \in rd[t] \/ Target(t) = "ReadLock"
        /\ (t \in Writers(k))' <=> k \in wr[t] \/ Target(t) # "ReadLock"
        /\ ~Waits(t, k)'
    BY <1>1, <1>3, <1>4, TakeHeld
  <2>2. Granted(t, k) /\ ~Waits(t, k) BY <1>1 DEF Granted, Waits
  <2>3. /\ t \in Readers(k) <=> k \in rd[t] \/ Target(t) = "ReadLock"
        /\ t \in Writers(k) <=> k \in wr[t] \/ Target(t) # "ReadLock"
    BY <2>2 DEF Readers, Writers
  <2>4. Target(t) # "ReadLock" => lock[k].state = Target(t)
    <3>1. SUFFICES ASSUME Target(t) # "ReadLock" PROVE lock[k].state = Target(t) OBVIOUS
    <3>2. State(lock[k], t, k) /\ t \in Writers(k) BY <1>4, <2>3, <3>1 DEF IInv, LockInv, EntryInv
    <3>3. k \in Exclusive(t) <=> op[t].kind # "txn" \/ stage[t] = "prepare"
      BY <1>4, <2>2, <3>1, <3>2 DEF Exclusive
    <3>4. stage[t] # "unwind" BY <1>4 DEF Locking
    <3> QED BY <3>1, <3>2, <3>3, <3>4 DEF State, Target
  <2>5. IF k = Current(t) /\ Target(t) # "ReadLock" THEN lock'[k].state = Target(t) ELSE lock'[k].state = lock[k].state
    BY <1>1, <2>4
  <2>6. t \in Writers(k) => State(lock[k], t, k)' BY <1>1, <1>3, <1>4, <2>1, <2>3, <2>5, TakeState
  <2> QED BY <1>1, <1>6, <2>1, <2>2, <2>3, <2>6, SameKey DEF IInv, LockInv
<1>7. LockType' BY <1>1 DEF IInv, LockType
<1> QED BY <1>1, <1>4, <1>5, <1>6, <1>7, TakeStep
\* A task with no waker takes a key or not: what it has of the key before.
LEMMA Unserved ==
  ASSUME IInv, NEW t \in Tasks, waker[t] = "none", NEW k \in Keys
  PROVE  /\ t \in Readers(k) <=> k \in rd[t]
         /\ t \in Writers(k) <=> k \in wr[t]
         /\ ~Waits(t, k) /\ ~Granted(t, k) /\ ~Has(lock[k].queue, t)
         /\ Good(lock[k], Readers(k), Writers(k)) /\ EntryInv(k)
         /\ \A u \in Tasks : Has(lock[k].queue, u) <=> Waits(u, k)
<1>1. ~Granted(t, k) /\ ~Waits(t, k) BY DEF Granted, Waits
<1>2. EntryInv(k) BY DEF IInv, LockInv
<1>3. Good(lock[k], Readers(k), Writers(k)) BY <1>2, GoodEntry DEF IInv
<1> QED BY <1>1, <1>2, <1>3 DEF EntryInv, Readers, Writers

\* A lock is taken at once.
LEMMA AcquireInv == ASSUME IInv, NEW t \in Tasks, Acquire(t) PROVE IInv'
<1>1. /\ stage[t] \in Locking /\ stage[t] # "prepare" /\ waker[t] = "none" /\ Take(t)
      /\ UNCHANGED <<op, waker, sched, unwind, rounds, inflight, listening>>
  BY DEF Acquire
<1>2. TaskType /\ LockType /\ Shape BY DEF IInv
<1> PICK k \in Keys : k = Current(t) BY <1>1, <1>2, Locker
<1> DEFINE e == lock[k]
           reads == Target(t) = "ReadLock"
           s == IF e.state = "Vacant" THEN "ReadLock" ELSE e.state
           d == IF reads THEN [e EXCEPT !.state = s, !.read_count = @ + 1] ELSE [e EXCEPT !.state = Target(t)]
<1>3. /\ reads => k \notin rd[t]
      /\ ~reads => stage[t] = "lock" /\ k \notin wr[t]
  BY <1>1, <1>2, Locker
<1>4. /\ t \in Readers(k) <=> k \in rd[t]
      /\ t \in Writers(k) <=> k \in wr[t]
      /\ Good(e, Readers(k), Writers(k)) /\ EntryInv(k)
      /\ \A u \in Tasks : Has(e.queue, u) <=> Waits(u, k)
      /\ ~Has(e.queue, t)
  BY <1>1, Unserved
<1>5. e \in EntryType BY <1>4 DEF Good
<1>6. lock' = [lock EXCEPT ![k] = d]
  BY <1>5 DEF Acquire, EntryType
<1>7. d \in EntryType
  <2>1. s \in States /\ Target(t) \in States /\ e.read_count + 1 \in Nat
    BY <1>5, Targets DEF EntryType, States
  <2> HIDE DEF s, e
  <2> QED BY <1>5, <2>1 DEF EntryType
<1>8. LockType' BY <1>2, <1>6, <1>7 DEF LockType, EntryType
<1>9. lock'[k] = d /\ \A j \in Keys : j # k => lock'[j] = lock[j] BY <1>2, <1>6 DEF LockType
<1>10. e.state = "Vacant" \/ IsAllowed(e, Target(t), e.queue = <<>>) BY DEF Acquire
<1> HIDE DEF e, d
<1>11. waker' = [waker EXCEPT ![t] = "none"] /\ waker'[t] = "none" BY <1>1, <1>2 DEF TaskType
<1>12. ASSUME Moves(t, {}) PROVE EntryInv(k)'
  <2>1. /\ (t \in Readers(k))' <=> k \in rd[t] \/ reads
        /\ (t \in Writers(k))' <=> k \in wr[t] \/ ~reads
        /\ ~Waits(t, k)'
    BY <1>1, <1>11, TakeHeld
  <2>2. Unwoken(lock'[k]) = [entry |-> lock'[k], woken |-> {}] BY DEF Unwoken
  <2>3. CASE reads
    <3>1. Effect(e.queue, s, Readers(k) \cup {t}, Writers(k), Unwoken(lock'[k]))
      BY <1>3, <1>4, <1>9, <1>10, <2>3, AcquireReadSound DEF d
    <3>2. lock'[k].state = s BY <1>5, <1>9, <2>3 DEF d, EntryType
    <3>3. Writers(k) # {} => s = e.state BY <1>4 DEF Good, Holders
    <3>4. (t \in Writers(k))' => State(lock[k], t, k)'
      <4>1. SUFFICES ASSUME (t \in Writers(k))' PROVE State(lock[k], t, k)' OBVIOUS
      <4>2. t \in Writers(k) BY <1>4, <2>1, <2>3, <4>1
      <4>3. lock'[k].state = lock[k].state BY <3>2, <3>3, <4>2 DEF e
      <4> QED BY <1>1, <1>11, <2>3, <4>1, <4>3, TakeState
    <3>5. Part(t, k, {}, e.queue, s, Readers(k) \cup {t}, Writers(k), {})
      BY <1>4, <2>1, <2>2, <2>3, <3>1, <3>3, <3>4 DEF Part, e
    <3> HIDE DEF s
    <3> QED BY <1>2, <1>4, <1>12, <3>5, KeyStep
  <2>4. CASE ~reads
    <3>1. Target(t) \in {"Locked", "WriteLock"} BY <2>4, Targets
    <3>2. Writers(k) = {} /\ Effect(e.queue, Target(t), Readers(k), Writers(k) \cup {t}, Unwoken(lock'[k]))
      <4>1. lock'[k] = [e EXCEPT !.state = Target(t)] BY <1>9, <2>4 DEF d
      <4>2. Writers(k) = {} /\ Effect(e.queue, Target(t), Readers(k), Writers(k) \cup {t}, Unwoken([e EXCEPT !.state = Target(t)]))
        <5> DEFINE x == Target(t)
        <5>1. x \in {"Locked", "WriteLock"} /\ (e.state = "Vacant" \/ IsAllowed(e, x, e.queue = <<>>))
          BY <1>10, <3>1
        <5> HIDE DEF x
        <5> QED BY <1>4, <5>1, AcquireWriteSound DEF x
      <4> QED BY <4>1, <4>2
    <3>3. lock'[k].state = Target(t) BY <1>5, <1>9, <2>4 DEF d, EntryType
    <3>4. (t \in Writers(k))' => State(lock[k], t, k)' BY <1>1, <1>11, <2>4, <3>3, TakeState
    <3>5. Part(t, k, {}, e.queue, Target(t), Readers(k), Writers(k) \cup {t}, {})
      BY <1>4, <2>1, <2>2, <2>4, <3>2, <3>4 DEF Part, e
    <3> QED BY <1>2, <1>4, <1>12, <3>5, KeyStep
  <2> QED BY <2>3, <2>4
<1>13. sched' \in [Tasks -> {"running", "parked", "scheduled"}] BY <1>1, <1>2 DEF TaskType
<1> QED BY <1>1, <1>8, <1>9, <1>11, <1>12, <1>13, TakeStep

\* A transaction's lock becomes a write lock at once.
LEMMA UpgradeInv == ASSUME IInv, NEW t \in Tasks, Upgrade(t) PROVE IInv'
<1>1. /\ stage[t] \in Locking /\ stage[t] = "prepare" /\ waker[t] = "none" /\ Take(t)
      /\ UNCHANGED <<op, waker, sched, unwind, rounds, inflight, listening>>
  BY DEF Upgrade, Locking
<1>2. TaskType /\ LockType /\ Shape BY DEF IInv
<1> PICK k \in Keys : k = Current(t) BY <1>1, <1>2, Locker
<1> DEFINE e == lock[k]
           d == [e EXCEPT !.state = "WriteLock"]
<1>3. k \in wr[t] /\ Target(t) = "WriteLock" BY <1>1, <1>2, Locker
<1>4. /\ t \in Readers(k) <=> k \in rd[t]
      /\ t \in Writers(k) <=> k \in wr[t]
      /\ Good(e, Readers(k), Writers(k)) /\ EntryInv(k)
      /\ \A u \in Tasks : Has(e.queue, u) <=> Waits(u, k)
      /\ ~Has(e.queue, t)
  BY <1>1, Unserved
<1>5. e \in EntryType /\ e.read_count = 0 BY <1>4 DEF Good, Upgrade
<1>6. lock' = [lock EXCEPT ![k] = d] BY <1>5 DEF Upgrade, EntryType
<1>7. d \in EntryType /\ d.state = "WriteLock" BY <1>5 DEF EntryType, States
<1>8. LockType' BY <1>2, <1>6, <1>7 DEF LockType, EntryType
<1>9. lock'[k] = d /\ \A j \in Keys : j # k => lock'[j] = lock[j] BY <1>2, <1>6 DEF LockType
<1> HIDE DEF e, d
<1>10. waker' = [waker EXCEPT ![t] = "none"] /\ waker'[t] = "none" BY <1>1, <1>2 DEF TaskType
<1>11. ASSUME Moves(t, {}) PROVE EntryInv(k)'
  <2>1. /\ (t \in Readers(k))' <=> k \in rd[t]
        /\ (t \in Writers(k))'
        /\ ~Waits(t, k)'
    BY <1>1, <1>3, <1>10, TakeHeld
  <2>2. Unwoken(lock'[k]) = [entry |-> lock'[k], woken |-> {}] BY DEF Unwoken
  <2>3. Effect(e.queue, "WriteLock", Readers(k), Writers(k), Unwoken(lock'[k]))
    BY <1>3, <1>4, <1>5, <1>9, UpgradeSound DEF d
  <2>4. State(lock[k], t, k)' BY <1>1, <1>3, <1>7, <1>9, <1>10, <2>1, TakeState
  <2>5. Writers(k) \ {t} = {} BY <1>3, <1>4 DEF Good, Holders
  <2>6. Part(t, k, {}, e.queue, "WriteLock", Readers(k), Writers(k), {})
    BY <1>3, <1>4, <2>1, <2>2, <2>3, <2>4, <2>5 DEF Part
  <2> QED BY <1>2, <1>4, <1>11, <2>6, KeyStep
<1>12. sched' \in [Tasks -> {"running", "parked", "scheduled"}] BY <1>1, <1>2 DEF TaskType
<1> QED BY <1>1, <1>8, <1>9, <1>10, <1>11, <1>12, TakeStep
\* A task begins to wait for its current key.
LEMMA QueueStep ==
  ASSUME IInv, NEW t \in Tasks, stage[t] \in Locking, stage[t] # "reread", waker[t] = "none",
         waker' = [waker EXCEPT ![t] = "Pending"],
         UNCHANGED <<op, stage, todo, rd, wr, sched, unwind, rounds, inflight, listening>>,
         NEW k \in Keys, k = Current(t), NEW d \in EntryType, lock' = [lock EXCEPT ![k] = d], d.state = lock[k].state,
         NEW q, Effect(q, lock[k].state, Readers(k), Writers(k), Unwoken(d)),
         \A u : Has(q, u) <=> Has(lock[k].queue, u) \/ u = t
  PROVE  IInv'
<1>1. TaskType /\ LockType /\ Shape BY DEF IInv
<1>2. waker'[t] = "Pending" BY <1>1 DEF TaskType
<1>3. TaskType' BY <1>1 DEF TaskType
<1>4. LockType' BY <1>1 DEF LockType, EntryType
<1>5. lock'[k] = d /\ \A j \in Keys : j # k => lock'[j] = lock[j] BY <1>1 DEF LockType
<1>6. Moves(t, {}) BY <1>1 DEF Moves, TaskType
<1>7. Stage(t) /\ Hold(t) /\ Drops(t) BY <1>1 DEF Shape
<1>8. Stage(t)' BY <1>7 DEF Stage
<1>9. Hold(t)' BY <1>7 DEF Hold
<1>10. Drops(t)' BY <1>7 DEF Drops, Left, NoRepeats, Has
<1>11. Shape' /\ RereadInv' BY <1>6, <1>8, <1>9, <1>10, OthersShape DEF IInv
<1>12. CountInv'
  <2>1. Flies(t)' <=> Flies(t) BY DEF Flies, Has
  <2> QED BY <1>1, <1>3, <1>6, <2>1, SameCount DEF IInv
<1>13. ASSUME NEW j \in Keys PROVE EntryInv(j)'
  <2>1. Current(t)' = Current(t) BY DEF Current
  <2>2. ~Granted(t, j) /\ ~Granted(t, j)' /\ ~Waits(t, j) BY <1>2 DEF Granted, Waits
  <2>3. (t \in Readers(j))' <=> t \in Readers(j) BY <2>2 DEF Readers
  <2>4. (t \in Writers(j))' <=> t \in Writers(j) BY <2>2 DEF Writers
  <2>5. Waits(t, j)' <=> j = k
    <3>1. Waits(t, j)' <=> waker'[t] \in {"Pending", "Registered"} /\ Current(t)' = j BY DEF Waits
    <3> QED BY <1>2, <2>1, <3>1
  <2>6. (j \in Exclusive(t))' <=> j \in Exclusive(t) BY <2>2, <2>4 DEF Exclusive
  <2>7. EntryInv(j) BY DEF IInv, LockInv
  <2>8. lock'[j].state = lock[j].state BY <1>5
  <2>9. t \in Writers(j) => State(lock[j], t, j)
    BY <2>7 DEF EntryInv
  <2>10. t \in Writers(j) => State(lock[j], t, j)' BY <2>6, <2>8, <2>9 DEF State
  <2>11. CASE j # k BY <1>1, <1>5, <1>6, <2>2, <2>3, <2>4, <2>5, <2>7, <2>10, <2>11, SameKey
  <2>12. CASE j = k
    <3>1. Unwoken(d) = [entry |-> lock'[k], woken |-> {}] BY <1>5 DEF Unwoken
    <3>2. \A u \in Tasks : Has(lock[k].queue, u) <=> Waits(u, k) BY <2>7, <2>12 DEF EntryInv
    <3>3. Part(t, k, {}, q, lock[k].state, Readers(k), Writers(k), {})
      BY <2>3, <2>4, <2>5, <2>10, <2>12, <3>1, <3>2 DEF Part
    <3> QED BY <1>1, <1>6, <2>7, <2>12, <3>3, KeyStep
  <2> QED BY <2>11, <2>12
<1> QED BY <1>3, <1>4, <1>11, <1>12, <1>13 DEF IInv, LockInv

\* A waker goes to the tail of the list.
LEMMA EnqueueInv == ASSUME IInv, NEW t \in Tasks, Enqueue(t) PROVE IInv'
<1>1. /\ stage[t] \in Locking /\ stage[t] # "prepare" /\ waker[t] = "none" /\ waker' = [waker EXCEPT ![t] = "Pending"]
      /\ UNCHANGED <<op, stage, todo, rd, wr, sched, unwind, rounds, inflight, listening>>
  BY DEF Enqueue
<1>2. TaskType /\ LockType /\ Shape BY DEF IInv
<1> PICK k \in Keys : k = Current(t) BY <1>1, <1>2, Locker
<1> DEFINE e == lock[k]
           q == Append(e.queue, t)
           d == [e EXCEPT !.queue = q]
<1>3. /\ Good(e, Readers(k), Writers(k)) /\ ~Has(e.queue, t)
  BY <1>1, Unserved
<1>4. e.state # "Vacant" /\ ~IsAllowed(e, Target(t), e.queue = <<>>) BY DEF Enqueue
<1>5. e \in EntryType BY <1>3 DEF Good
<1>6. lock' = [lock EXCEPT ![k] = d] BY <1>5 DEF Enqueue, EntryType
<1>7. d \in EntryType /\ d.state = e.state
  <2>1. q \in Seq(Tasks) BY <1>5 DEF EntryType
  <2> HIDE DEF q, e
  <2> QED BY <1>5, <2>1 DEF EntryType
<1>8. ~IsUpgrade(t) BY <1>1 DEF IsUpgrade
<1>9. Effect(q, e.state, Readers(k), Writers(k), Unwoken(d)) /\ \A u : Has(q, u) <=> Has(e.queue, u) \/ u = t
  <2> HIDE DEF e
  <2> QED BY <1>3, <1>4, <1>8, EnqueueSound
<1>10. stage[t] # "reread"
  <2>1. SUFFICES ASSUME stage[t] = "reread" PROVE FALSE OBVIOUS
  <2>2. k \in todo[t] /\ Stage(t) /\ op[t].kind \in {"read", "write", "txn"}
    BY <1>1, <1>2, Locker DEF Shape, TaskType, Ops
  <2>3. k \in wr[t] /\ op[t].kind = "txn" BY <2>1, <2>2 DEF Stage
  <2>4. e.state = "Locked" /\ t \in Writers(k) BY <2>1, <2>3, OwnState
  <2>5. Target(t) = "ReadLock" BY <2>1 DEF Target
  <2>6. e.queue # <<>> /\ IsUpgrade(Head(e.queue)) BY <1>4, <2>4, <2>5 DEF IsAllowed
  <2>7. 1 \in 1..Len(e.queue) /\ Head(e.queue) = e.queue[1] BY <1>5, <2>6 DEF EntryType
  <2>8. Head(e.queue) \in Writers(k) BY <1>3, <2>6, <2>7 DEF Good, Queued
  <2>9. Head(e.queue) = t BY <1>3, <2>4, <2>8 DEF Good, Holders
  <2> QED BY <1>3, <2>7, <2>9 DEF Has
<1> HIDE DEF d, q
<1> QED BY <1>1, <1>6, <1>7, <1>9, <1>10, QueueStep

\* An upgrade goes to the head of the list.
LEMMA EnqueueUpgradeInv == ASSUME IInv, NEW t \in Tasks, EnqueueUpgrade(t) PROVE IInv'
<1>1. /\ stage[t] \in Locking /\ stage[t] = "prepare" /\ waker[t] = "none" /\ waker' = [waker EXCEPT ![t] = "Pending"]
      /\ UNCHANGED <<op, stage, todo, rd, wr, sched, unwind, rounds, inflight, listening>>
  BY DEF EnqueueUpgrade, Locking
<1>2. TaskType /\ LockType /\ Shape BY DEF IInv
<1> PICK k \in Keys : k = Current(t) BY <1>1, <1>2, Locker
<1> DEFINE e == lock[k]
           q == <<t>> \o e.queue
           d == [e EXCEPT !.queue = q]
<1>3. /\ Good(e, Readers(k), Writers(k)) /\ ~Has(e.queue, t) /\ (t \in Writers(k) <=> k \in wr[t])
  BY <1>1, Unserved
<1>4. e.read_count > 0 BY DEF EnqueueUpgrade
<1>5. e \in EntryType BY <1>3 DEF Good
<1>6. lock' = [lock EXCEPT ![k] = d] BY <1>5 DEF EnqueueUpgrade, EntryType
<1>7. d \in EntryType /\ d.state = e.state
  <2>1. q \in Seq(Tasks) BY <1>5 DEF EntryType
  <2> HIDE DEF q, e
  <2> QED BY <1>5, <2>1 DEF EntryType
<1>8. IsUpgrade(t) /\ t \in Writers(k) BY <1>1, <1>2, <1>3, Locker DEF IsUpgrade
<1>9. Effect(q, e.state, Readers(k), Writers(k), Unwoken(d)) /\ \A u : Has(q, u) <=> Has(e.queue, u) \/ u = t
  <2> HIDE DEF e
  <2> QED BY <1>3, <1>4, <1>8, EnqueueUpgradeSound
<1>10. stage[t] # "reread" BY <1>1
<1>11. /\ d \in EntryType /\ d.state = lock[k].state
       /\ Effect(q, lock[k].state, Readers(k), Writers(k), Unwoken(d))
       /\ \A u : Has(q, u) <=> Has(lock[k].queue, u) \/ u = t
  BY <1>7, <1>9
<1> HIDE DEF d, q, e
<1> QED BY <1>1, <1>6, <1>10, <1>11, QueueStep
-----------------------------------------------------------------------------
\* The result w for key k of a step in which t gives locks back, or leaves the
\* list: afterwards t waits for nothing, and has what its guards have.
Leaves(t, k, q, s, R, W, w) ==
  /\ Effect(q, s, R, W, w)
  /\ \A u \in Tasks \ {t} : /\ u \in R <=> u \in Readers(k)
                            /\ u \in W <=> u \in Writers(k)
                            /\ Has(q, u) <=> Waits(u, k)
  /\ ~Has(q, t)
  /\ t \in R <=> k \in rd'[t]
  /\ t \in W <=> k \in wr'[t]
  /\ Writers(k) \ {t} # {} => s = lock[k].state

\* A key that t does not give back has the same state, or is downgraded.
LEMMA LeavesState ==
  ASSUME NEW t \in Tasks, NEW k \in Keys, NEW q, NEW s, NEW R, NEW W, NEW w,
         Leaves(t, k, q, s, R, W, w), k \in wr'[t]
  PROVE  w.entry.state = s
<1>1. t \in W /\ Effect(q, s, R, W, w) /\ ~Has(q, t) BY DEF Leaves
<1>2. PICK n \in 0..Len(q) : w.woken = {q[i] : i \in 1..n} BY <1>1 DEF Effect
<1>3. Len(q) \in Nat BY <1>1, LenProperties DEF Effect
<1>4. t \notin w.woken BY <1>1, <1>2, <1>3 DEF Has
<1>5. Writing(w.woken) = {} BY <1>1, <1>4 DEF Effect, Holders, Writing
<1> QED BY <1>1, <1>5 DEF Effect

\* Those woken waited for the key they were woken for.
LEMMA WokenIs ==
  ASSUME NEW t \in Tasks, NEW r, \A k \in Keys : \E q, s, R, W : Leaves(t, k, q, s, R, W, r[k])
  PROVE  /\ \A u \in Woken(r) : u \in Tasks /\ u # t /\ waker[u] \in {"Pending", "Registered"}
         /\ \A k \in Keys : \A u \in Tasks : u \in r[k].woken <=> u \in Woken(r) /\ Current(u) = k
<1>1. ASSUME NEW k \in Keys, NEW u \in r[k].woken
      PROVE  u \in Tasks /\ u # t /\ waker[u] \in {"Pending", "Registered"} /\ Current(u) = k
  <2>1. PICK q, s, R, W : Leaves(t, k, q, s, R, W, r[k]) OBVIOUS
  <2>2. Effect(q, s, R, W, r[k]) /\ ~Has(q, t) BY <2>1 DEF Leaves
  <2>3. PICK n \in 0..Len(q) : r[k].woken = {q[i] : i \in 1..n} BY <2>2 DEF Effect
  <2>4. q \in Seq(Tasks) /\ Len(q) \in Nat BY <2>2, LenProperties DEF Effect
  <2>5. u \in Tasks /\ Has(q, u) BY <2>3, <2>4 DEF Has
  <2> QED BY <2>1, <2>2, <2>5 DEF Leaves, Waits
<1> QED BY <1>1 DEF Woken

\* The tasks after a release.
LEMMA ReleaseMoves ==
  ASSUME TaskType, NEW t \in Tasks, NEW r, \A k \in Keys : \E q, s, R, W : Leaves(t, k, q, s, R, W, r[k]),
         \A u \in Tasks \ {t} : /\ op'[u] = op[u] /\ stage'[u] = stage[u] /\ todo'[u] = todo[u] /\ rd'[u] = rd[u]
                                /\ wr'[u] = wr[u] /\ unwind'[u] = unwind[u] /\ waker'[u] = Wakers(r)[u]
  PROVE  /\ Moves(t, Woken(r))
         /\ Wakers(r) \in [Tasks -> {"none", "Pending", "Registered", "Woken"}]
         /\ Scheds(r) \in [Tasks -> {"running", "parked", "scheduled"}]
         /\ Wakers(r)[t] = waker[t]
<1>1. \A u \in Woken(r) : u \in Tasks /\ u # t /\ waker[u] \in {"Pending", "Registered"} BY WokenIs
<1>2. \A u \in Tasks : Wakers(r)[u] = IF u \in Woken(r) THEN "Woken" ELSE waker[u] BY DEF Wakers
<1>3. Wakers(r) \in [Tasks -> {"none", "Pending", "Registered", "Woken"}] BY DEF Wakers, TaskType
<1>4. Scheds(r) \in [Tasks -> {"running", "parked", "scheduled"}] BY DEF Scheds, TaskType
<1>5. Wakers(r)[t] = waker[t] BY <1>1, <1>2
<1>6. Moves(t, Woken(r)) BY <1>1, <1>2 DEF Moves
<1> QED BY <1>3, <1>4, <1>5, <1>6

\* The entries after a release.
LEMMA ReleaseStep ==
  ASSUME IInv, TaskType', NEW t \in Tasks, NEW r, Moves(t, Woken(r)), lock' = Entries(r), waker'[t] = "none",
         \A k \in Keys : \E q, s, R, W : Leaves(t, k, q, s, R, W, r[k]),
         \A k \in wr'[t] : State(lock[k], t, k)',
         (Stage(t) /\ Hold(t) /\ Drops(t))', CountInv'
  PROVE  IInv'
<1>1. Shape' /\ RereadInv' BY OthersShape DEF IInv
<1>2. \A k \in Keys : lock'[k] = r[k].entry BY DEF Entries
<1>3. LockType'
  <2>1. ASSUME NEW k \in Keys PROVE r[k].entry \in EntryType
    <3>1. PICK q, s, R, W : Leaves(t, k, q, s, R, W, r[k]) OBVIOUS
    <3> QED BY <3>1 DEF Leaves, Effect
  <2> QED BY <2>1 DEF LockType, Entries, EntryType
<1>4. ASSUME NEW k \in Keys PROVE EntryInv(k)'
  <2>1. PICK q, s, R, W : Leaves(t, k, q, s, R, W, r[k]) OBVIOUS
  <2> DEFINE w == [entry |-> lock'[k], woken |-> r[k].woken]
  <2>2. w.entry = r[k].entry /\ w.woken = r[k].woken BY <1>2
  <2> HIDE DEF w
  <2>3. Effect(q, s, R, W, w) BY <2>1, <2>2 DEF Leaves, Effect
  <2>4. ~Granted(t, k)' /\ ~Waits(t, k)' BY DEF Granted, Waits
  <2>5. ((t \in Readers(k))' <=> k \in rd'[t]) /\ ((t \in Writers(k))' <=> k \in wr'[t])
    BY <2>4 DEF Readers, Writers
  <2>6. \A u \in Tasks : u \in r[k].woken <=> u \in Woken(r) /\ Current(u) = k BY WokenIs
  <2>7. Part(t, k, Woken(r), q, s, R, W, r[k].woken)
    BY <2>1, <2>3, <2>4, <2>5, <2>6 DEF Part, Leaves, w
  <2>8. EntryInv(k) BY DEF IInv, LockInv
  <2> QED BY <2>7, <2>8, KeyStep DEF IInv
<1> QED BY <1>1, <1>3, <1>4 DEF IInv, LockInv

\* A key that is not given back, and that t does not wait for.
LEMMA LeavesAlone ==
  ASSUME IInv, NEW t \in Tasks, NEW k \in Keys, ~Granted(t, k), ~Waits(t, k),
         k \in rd'[t] <=> k \in rd[t], k \in wr'[t] <=> k \in wr[t]
  PROVE  Leaves(t, k, lock[k].queue, lock[k].state, Readers(k), Writers(k), Unwoken(lock[k]))
<1>1. EntryInv(k) BY DEF IInv, LockInv
<1>2. Good(lock[k], Readers(k), Writers(k)) BY <1>1, GoodEntry DEF IInv
<1>3. Effect(lock[k].queue, lock[k].state, Readers(k), Writers(k), Unwoken(lock[k]))
  BY <1>2, UnwokenSound DEF Good
<1>4. (t \in Readers(k) <=> k \in rd[t]) /\ (t \in Writers(k) <=> k \in wr[t]) BY DEF Readers, Writers
<1> QED BY <1>1, <1>3, <1>4 DEF Leaves, EntryInv

\* A read lock that is given back.
LEMMA LeavesRead ==
  ASSUME IInv, NEW t \in Tasks, NEW k \in Keys, waker[t] = "none", k \in rd[t], k \notin rd'[t],
         k \in wr'[t] <=> k \in wr[t]
  PROVE  Leaves(t, k, lock[k].queue, lock[k].state, Readers(k) \ {t}, Writers(k), DropLock(lock[k], "ReadLock"))
<1>1. /\ t \in Readers(k) /\ (t \in Writers(k) <=> k \in wr[t])
      /\ Good(lock[k], Readers(k), Writers(k))
      /\ \A u \in Tasks : Has(lock[k].queue, u) <=> Waits(u, k)
      /\ ~Has(lock[k].queue, t)
  BY Unserved
<1>2. Effect(lock[k].queue, lock[k].state, Readers(k) \ {t}, Writers(k), DropLock(lock[k], "ReadLock"))
  BY <1>1, DropReadSound
<1> QED BY <1>1, <1>2 DEF Leaves

\* A write lock or a transaction's lock that is given back.
LEMMA LeavesWrite ==
  ASSUME IInv, NEW t \in Tasks, NEW k \in Keys, waker[t] = "none", k \in wr[t], k \notin wr'[t],
         k \in rd'[t] <=> k \in rd[t]
  PROVE  Leaves(t, k, lock[k].queue, "ReadLock", Readers(k), Writers(k) \ {t}, DropLock(lock[k], "WriteLock"))
<1>1. /\ t \in Writers(k) /\ (t \in Readers(k) <=> k \in rd[t])
      /\ Good(lock[k], Readers(k), Writers(k))
      /\ \A u \in Tasks : Has(lock[k].queue, u) <=> Waits(u, k)
      /\ ~Has(lock[k].queue, t)
  BY Unserved
<1>2. Effect(lock[k].queue, "ReadLock", Readers(k), Writers(k) \ {t}, DropLock(lock[k], "WriteLock"))
  BY <1>1, DropWriteSound
<1>3. Writers(k) \ {t} = {} BY <1>1 DEF Good, Holders
<1> QED BY <1>1, <1>2, <1>3 DEF Leaves

\* A write lock that becomes a transaction's lock.
LEMMA LeavesDowngrade ==
  ASSUME IInv, NEW t \in Tasks, NEW k \in Keys, waker[t] = "none", k \in wr[t], lock[k].state = "WriteLock",
         k \in wr'[t], k \in rd'[t] <=> k \in rd[t]
  PROVE  Leaves(t, k, lock[k].queue, "Locked", Readers(k), Writers(k), DowngradeLock(lock[k]))
<1>1. /\ t \in Writers(k) /\ (t \in Readers(k) <=> k \in rd[t])
      /\ Good(lock[k], Readers(k), Writers(k))
      /\ \A u \in Tasks : Has(lock[k].queue, u) <=> Waits(u, k)
      /\ ~Has(lock[k].queue, t)
  BY Unserved
<1>2. Effect(lock[k].queue, "Locked", Readers(k), Writers(k), DowngradeLock(lock[k])) BY <1>1, DowngradeSound
<1>3. Writers(k) \ {t} = {} BY <1>1 DEF Good, Holders
<1> QED BY <1>1, <1>2, <1>3 DEF Leaves
\* A transaction gives back the read lock on one of its keys.
LEMMA EndRereadInv == ASSUME IInv, NEW t \in Tasks, EndReread(t) PROVE IInv'
<1> DEFINE own == rd[t] \ {Filesystem}
           r == DropLocks(own, "ReadLock")
<1>1. /\ stage[t] = "reading" /\ lock' = Entries(r) /\ waker' = Wakers(r) /\ sched' = Scheds(r)
      /\ rd' = [rd EXCEPT ![t] = @ \ own] /\ stage' = [stage EXCEPT ![t] = "use"]
      /\ UNCHANGED <<op, todo, wr, unwind, rounds, inflight, listening>>
  BY DEF EndReread
<1>2. TaskType /\ Stage(t) /\ Hold(t) /\ Drops(t) BY DEF IInv, Shape
<1>3. rd'[t] = rd[t] \cap {Filesystem} /\ stage'[t] = "use" BY <1>1, <1>2 DEF TaskType
<1>4. waker[t] = "none" /\ op[t].kind = "txn" /\ unwind[t] = <<>> /\ todo[t] = {}
  <2>1. op[t].kind \in {"read", "write", "txn"} BY <1>2 DEF TaskType, Ops
  <2> QED BY <1>1, <1>2, <2>1 DEF Stage, Locking
<1>5. \A k \in Keys : r[k] = IF k \in own THEN DropLock(lock[k], "ReadLock") ELSE Unwoken(lock[k])
  BY DEF DropLocks
<1> HIDE DEF r
<1>6. ASSUME NEW k \in Keys PROVE \E q, R, W : Leaves(t, k, q, lock[k].state, R, W, r[k])
  <2>1. ~Granted(t, k) /\ ~Waits(t, k) BY <1>4, Unserved
  <2>2. CASE k \in own
    <3>1. k \in rd[t] /\ k \notin rd'[t] /\ r[k] = DropLock(lock[k], "ReadLock") BY <1>3, <1>5, <2>2
    <3> QED BY <1>1, <1>4, <3>1, LeavesRead
  <2>3. CASE k \notin own
    <3>1. (k \in rd'[t] <=> k \in rd[t]) /\ r[k] = Unwoken(lock[k]) BY <1>3, <1>5, <2>3
    <3> QED BY <1>1, <2>1, <3>1, LeavesAlone
  <2> QED BY <2>2, <2>3
<1>7. \A k \in Keys : \E q, s, R, W : Leaves(t, k, q, s, R, W, r[k]) BY <1>6
<1>8. \A u \in Tasks \ {t} : /\ op'[u] = op[u] /\ stage'[u] = stage[u] /\ todo'[u] = todo[u] /\ rd'[u] = rd[u]
                             /\ wr'[u] = wr[u] /\ unwind'[u] = unwind[u] /\ waker'[u] = Wakers(r)[u]
  BY <1>1, <1>2 DEF TaskType
<1>9. /\ Moves(t, Woken(r))
      /\ Wakers(r) \in [Tasks -> {"none", "Pending", "Registered", "Woken"}]
      /\ Scheds(r) \in [Tasks -> {"running", "parked", "scheduled"}]
      /\ Wakers(r)[t] = waker[t]
  BY <1>2, <1>7, <1>8, ReleaseMoves
<1>10. TaskType'
  <2>1. "use" \in Stages BY DEF Stages
  <2> QED BY <1>1, <1>2, <1>9, <2>1 DEF TaskType
<1>11. waker'[t] = "none" BY <1>1, <1>4, <1>9
<1>12. Stage(t)' BY <1>1, <1>2, <1>3, <1>4, <1>11 DEF Stage, Locking
<1>13. Hold(t)' BY <1>1, <1>2, <1>3, <1>4 DEF Hold
<1>14. Drops(t)' BY <1>1, <1>2, <1>3, <1>4 DEF Drops
<1>15. CountInv'
  <2>1. Flies(t) /\ Flies(t)' BY <1>1, <1>3, <1>4 DEF Flies
  <2> QED BY <1>1, <1>2, <1>9, <1>10, <2>1, SameCount DEF IInv
<1>16. ASSUME NEW k \in wr'[t] PROVE State(lock[k], t, k)'
  <2>1. k \in Keys /\ k \in wr[t] BY <1>1, <1>2 DEF TaskType
  <2>2. lock[k].state = "Locked" BY <1>1, <1>4, <2>1, OwnState
  <2>3. r[k].entry.state = "Locked" BY <1>6, <2>1, <2>2, LeavesState
  <2>4. lock'[k].state = "Locked" BY <1>1, <2>1, <2>3 DEF Entries
  <2>5. (k \notin Exclusive(t))' BY <1>1, <1>3, <1>4 DEF Exclusive
  <2> QED BY <1>1, <1>4, <2>4, <2>5 DEF State
<1> QED BY <1>1, <1>7, <1>9, <1>10, <1>11, <1>12, <1>13, <1>14, <1>15, <1>16, ReleaseStep

\* commit_and_continue downgrades the locks.
LEMMA DowngradeInv == ASSUME IInv, NEW t \in Tasks, Downgrade(t) PROVE IInv'
<1> DEFINE r == [k \in Keys |-> IF k \in wr[t] THEN DowngradeLock(lock[k]) ELSE Unwoken(lock[k])]
<1>1. /\ stage[t] = "commit" /\ lock' = Entries(r) /\ waker' = Wakers(r) /\ sched' = Scheds(r)
      /\ stage' = [stage EXCEPT ![t] = "use"] /\ rounds[t] < MaxRounds /\ rounds' = [rounds EXCEPT ![t] = @ + 1]
      /\ UNCHANGED <<op, todo, rd, wr, unwind, inflight, listening>>
  BY DEF Downgrade
<1>2. TaskType /\ Stage(t) /\ Hold(t) /\ Drops(t) BY DEF IInv, Shape
<1>3. stage'[t] = "use" BY <1>1, <1>2 DEF TaskType
<1>4. waker[t] = "none" /\ op[t].kind = "txn" /\ unwind[t] = <<>> /\ todo[t] = {}
  <2>1. op[t].kind \in {"read", "write", "txn"} BY <1>2 DEF TaskType, Ops
  <2> QED BY <1>1, <1>2, <2>1 DEF Stage, Locking
<1>5. \A k \in Keys : r[k] = IF k \in wr[t] THEN DowngradeLock(lock[k]) ELSE Unwoken(lock[k]) OBVIOUS
<1> HIDE DEF r
<1>6. ASSUME NEW k \in Keys
      PROVE  \E q, s, R, W : Leaves(t, k, q, s, R, W, r[k]) /\ (k \in wr[t] => s = "Locked")
  <2>1. ~Granted(t, k) /\ ~Waits(t, k) BY <1>4, Unserved
  <2>2. CASE k \in wr[t]
    <3>1. lock[k].state = "WriteLock" BY <1>1, <1>4, <2>2, OwnState
    <3>2. Leaves(t, k, lock[k].queue, "Locked", Readers(k), Writers(k), r[k])
      BY <1>1, <1>4, <1>5, <2>2, <3>1, LeavesDowngrade
    <3> QED BY <3>2
  <2>3. CASE k \notin wr[t]
    <3>1. Leaves(t, k, lock[k].queue, lock[k].state, Readers(k), Writers(k), r[k])
      BY <1>1, <1>5, <2>1, <2>3, LeavesAlone
    <3> QED BY <2>3, <3>1
  <2> QED BY <2>2, <2>3
<1>7. \A k \in Keys : \E q, s, R, W : Leaves(t, k, q, s, R, W, r[k]) BY <1>6
<1>8. \A u \in Tasks \ {t} : /\ op'[u] = op[u] /\ stage'[u] = stage[u] /\ todo'[u] = todo[u] /\ rd'[u] = rd[u]
                             /\ wr'[u] = wr[u] /\ unwind'[u] = unwind[u] /\ waker'[u] = Wakers(r)[u]
  BY <1>1, <1>2 DEF TaskType
<1>9. /\ Moves(t, Woken(r))
      /\ Wakers(r) \in [Tasks -> {"none", "Pending", "Registered", "Woken"}]
      /\ Scheds(r) \in [Tasks -> {"running", "parked", "scheduled"}]
      /\ Wakers(r)[t] = waker[t]
  BY <1>2, <1>7, <1>8, ReleaseMoves
<1>10. TaskType'
  <2>1. "use" \in Stages BY DEF Stages
  <2>2. rounds' \in [Tasks -> 0..MaxRounds] BY <1>1, <1>2, LockManagerAssumption DEF TaskType
  <2> QED BY <1>1, <1>2, <1>9, <2>1, <2>2 DEF TaskType
<1>11. waker'[t] = "none" BY <1>1, <1>4, <1>9
<1>12. Stage(t)' BY <1>1, <1>2, <1>3, <1>4, <1>11 DEF Stage, Locking
<1>13. Hold(t)' BY <1>1, <1>2, <1>3, <1>4 DEF Hold
<1>14. Drops(t)' BY <1>1, <1>2, <1>3, <1>4 DEF Drops
<1>15. CountInv'
  <2>1. Flies(t) /\ Flies(t)' BY <1>1, <1>3, <1>4 DEF Flies
  <2> QED BY <1>1, <1>2, <1>9, <1>10, <2>1, SameCount DEF IInv
<1>16. ASSUME NEW k \in wr'[t] PROVE State(lock[k], t, k)'
  <2>1. k \in Keys /\ k \in wr[t] BY <1>1, <1>2 DEF TaskType
  <2>2. r[k].entry.state = "Locked" BY <1>1, <1>6, <2>1, LeavesState
  <2>3. lock'[k].state = "Locked" BY <1>1, <2>1, <2>2 DEF Entries
  <2>4. (k \notin Exclusive(t))' BY <1>1, <1>3, <1>4 DEF Exclusive
  <2> QED BY <1>1, <1>4, <2>3, <2>4 DEF State
<1> QED BY <1>1, <1>7, <1>9, <1>10, <1>11, <1>12, <1>13, <1>14, <1>15, <1>16, ReleaseStep
\* A task gives back locks while it unwinds, or leaves a list and unwinds, with
\* the given things left to drop and keys left to it.
Releases(t, r, left, rk, wk) ==
  /\ left \in Seq(Parts) /\ Left(left) /\ Unwind(t, left) /\ lock' = Entries(r)
  /\ waker' \in [Tasks -> {"none", "Pending", "Registered", "Woken"}] /\ waker'[t] = "none"
  /\ \A u \in Tasks \ {t} : waker'[u] = Wakers(r)[u]
  /\ sched' \in [Tasks -> {"running", "parked", "scheduled"}] /\ todo' = [todo EXCEPT ![t] = {}]
  /\ rk \subseteq rd[t] /\ wk \subseteq wr[t] /\ rd' = [rd EXCEPT ![t] = rk] /\ wr' = [wr EXCEPT ![t] = wk]
  /\ rk # {} => Has(left, "guard")
  /\ wk # {} => Has(left, "locks")
  /\ Has(left, "sub") => op[t].kind = "txn"
  /\ Has(left, "sub") <=> Flies(t)
  /\ stage[t] \notin {"idle", "reading"} /\ inflight' = inflight /\ listening' = listening
  /\ \A k \in Keys : \E q, s, R, W : /\ Leaves(t, k, q, s, R, W, r[k])
                                     /\ k \in wk /\ op[t].kind # "txn" => s = lock[k].state

\* Such a step preserves the invariant.
LEMMA UnwindRelease ==
  ASSUME IInv, NEW t \in Tasks, NEW r, NEW left, NEW rk, NEW wk, Releases(t, r, left, rk, wk)
  PROVE  IInv'
<1>1. TaskType BY DEF IInv
<1>2. todo'[t] = {} /\ rd'[t] = rk /\ wr'[t] = wk /\ rk \in SUBSET Keys /\ wk \in SUBSET Keys
  BY <1>1 DEF TaskType, Releases
<1>3. /\ (Stage(t) /\ Hold(t) /\ Drops(t))'
      /\ op' \in [Tasks -> Ops] /\ stage' \in [Tasks -> Stages] /\ unwind' \in [Tasks -> Seq(Parts)]
      /\ rounds' \in [Tasks -> 0..MaxRounds]
      /\ \A u \in Tasks \ {t} : op'[u] = op[u] /\ stage'[u] = stage[u] /\ unwind'[u] = unwind[u]
      /\ Flies(t)' <=> Has(left, "sub")
      /\ Has(left, "sub") => op'[t] = op[t]
      /\ wr'[t] # {} => op'[t] = op[t] /\ stage'[t] = "unwind"
  BY <1>2, UnwindShape DEF Releases
<1>4. TaskType' BY <1>1, <1>2, <1>3 DEF TaskType, Releases
<1>5. /\ \A k \in Keys : \E q, s, R, W : Leaves(t, k, q, s, R, W, r[k])
      /\ \A k \in wk : op[t].kind # "txn" => \E q, R, W : Leaves(t, k, q, lock[k].state, R, W, r[k])
  <2>1. \A k \in Keys : \E q, s, R, W : /\ Leaves(t, k, q, s, R, W, r[k])
                                        /\ k \in wk /\ op[t].kind # "txn" => s = lock[k].state
    BY DEF Releases
  <2> QED BY <1>2, <2>1
<1>6. \A u \in Tasks \ {t} : /\ op'[u] = op[u] /\ stage'[u] = stage[u] /\ todo'[u] = todo[u] /\ rd'[u] = rd[u]
                             /\ wr'[u] = wr[u] /\ unwind'[u] = unwind[u] /\ waker'[u] = Wakers(r)[u]
  BY <1>1, <1>3 DEF TaskType, Releases
<1>7. Moves(t, Woken(r)) BY <1>1, <1>5, <1>6, ReleaseMoves
<1>8. CountInv' BY <1>1, <1>3, <1>4, <1>7, SameCount DEF IInv, Releases
<1>9. ASSUME NEW k \in wr'[t] PROVE State(lock[k], t, k)'
  <2>1. k \in Keys /\ k \in wk /\ k \in wr[t] /\ op'[t] = op[t] /\ stage'[t] = "unwind"
    BY <1>2, <1>3 DEF Releases
  <2>2. CASE op[t].kind = "txn" BY <2>1, <2>2 DEF State
  <2>3. CASE op[t].kind # "txn"
    <3>1. PICK q, R, W : Leaves(t, k, q, lock[k].state, R, W, r[k]) BY <1>5, <2>1, <2>3
    <3>2. r[k].entry.state = lock[k].state BY <2>1, <3>1, LeavesState
    <3>3. lock'[k].state = lock[k].state BY <2>1, <3>2 DEF Entries, Releases
    <3>4. State(lock[k], t, k) BY <2>1, OwnState
    <3> QED BY <2>1, <2>3, <3>3, <3>4 DEF State
  <2> QED BY <2>2, <2>3
<1> QED BY <1>3, <1>4, <1>5, <1>7, <1>8, <1>9, ReleaseStep DEF Releases

\* What those who give locks back, without a waker, do to the wakers.
LEMMA DroppedWakers ==
  ASSUME IInv, NEW t \in Tasks, waker[t] = "none", NEW r, \A k \in Keys : \E q, s, R,
         W : Leaves(t, k, q, s, R, W, r[k])
  PROVE  /\ Wakers(r) \in [Tasks -> {"none", "Pending", "Registered", "Woken"}] /\ Wakers(r)[t] = "none"
         /\ Scheds(r) \in [Tasks -> {"running", "parked", "scheduled"}]
<1>1. t \notin Woken(r) BY WokenIs
<1> QED BY <1>1 DEF Wakers, Scheds, IInv, TaskType

\* The write locks of a WriteGuard or of a transaction are dropped.
LEMMA DropWriteLocksInv == ASSUME IInv, NEW t \in Tasks, DropWriteLocks(t) PROVE IInv'
<1> DEFINE r == DropLocks(wr[t], "WriteLock")
           u == unwind[t]
<1>1. /\ stage[t] = "unwind" /\ Head(u) = "locks" /\ lock' = Entries(r) /\ waker' = Wakers(r) /\ sched' = Scheds(r)
      /\ wr' = [wr EXCEPT ![t] = {}] /\ Unwind(t, Tail(u)) /\ UNCHANGED <<todo, rd, inflight, listening>>
  BY DEF DropWriteLocks
<1>2. TaskType /\ Stage(t) BY DEF IInv, Shape
<1>3. waker[t] = "none" /\ todo[t] = {} BY <1>1, <1>2 DEF Stage, Locking
<1>4. /\ u \in Seq(Parts) /\ u # <<>> /\ Left(u) /\ (rd[t] # {} => Has(u, "guard"))
      /\ Has(u, "sub") => op[t].kind = "txn"
      /\ Flies(t) <=> Has(u, "sub")
  BY <1>1, UnwindingIs
<1> HIDE DEF u
<1>5. Tail(u) \in Seq(Parts) /\ Left(Tail(u)) /\ \A x : Has(Tail(u), x) <=> Has(u, x) /\ x # "locks"
  BY <1>1, <1>4, TailLeft
<1>6. /\ rd[t] # {} => Has(Tail(u), "guard")
      /\ Has(Tail(u), "sub") => op[t].kind = "txn"
      /\ Has(Tail(u), "sub") <=> Flies(t)
  BY <1>4, <1>5
<1>7. wr'[t] = {} /\ rd'[t] = rd[t] /\ rd[t] \in SUBSET Keys BY <1>1, <1>2 DEF TaskType
<1>8. \A k \in Keys : r[k] = IF k \in wr[t] THEN DropLock(lock[k], "WriteLock") ELSE Unwoken(lock[k])
  BY DEF DropLocks
<1> HIDE DEF r
<1>9. ASSUME NEW k \in Keys PROVE \E q, s, R, W : Leaves(t, k, q, s, R, W, r[k])
  <2>1. ~Granted(t, k) /\ ~Waits(t, k) BY <1>3, Unserved
  <2>2. CASE k \in wr[t]
    <3>1. Leaves(t, k, lock[k].queue, "ReadLock", Readers(k), Writers(k) \ {t}, r[k])
      BY <1>3, <1>7, <1>8, <2>2, LeavesWrite
    <3> QED BY <3>1
  <2>3. CASE k \notin wr[t]
    <3>1. Leaves(t, k, lock[k].queue, lock[k].state, Readers(k), Writers(k), r[k])
      BY <1>7, <1>8, <2>1, <2>3, LeavesAlone
    <3> QED BY <3>1
  <2> QED BY <2>2, <2>3
<1>10. /\ Wakers(r) \in [Tasks -> {"none", "Pending", "Registered", "Woken"}] /\ Wakers(r)[t] = "none"
       /\ Scheds(r) \in [Tasks -> {"running", "parked", "scheduled"}]
  BY <1>3, <1>9, DroppedWakers
<1>11. todo' = [todo EXCEPT ![t] = {}] /\ rd' = [rd EXCEPT ![t] = rd[t]] BY <1>1, <1>2, <1>3 DEF TaskType
<1>12. stage[t] \notin {"idle", "reading"} BY <1>1
<1> DEFINE left == Tail(u)
           wk == {}
<1>13. /\ left \in Seq(Parts) /\ Left(left) /\ Unwind(t, left) /\ wk \in SUBSET Keys /\ wk \subseteq wr[t]
       /\ wr' = [wr EXCEPT ![t] = wk]
       /\ rd[t] # {} => Has(left, "guard")
       /\ wk # {} => Has(left, "locks")
       /\ Has(left, "sub") => op[t].kind = "txn"
       /\ Has(left, "sub") <=> Flies(t)
       /\ \A k \in Keys : \E q, s, R, W : /\ Leaves(t, k, q, s, R, W, r[k])
                                          /\ k \in wk /\ op[t].kind # "txn" => s = lock[k].state
  BY <1>1, <1>5, <1>6, <1>9
<1>14. \A v \in Tasks \ {t} : waker'[v] = Wakers(r)[v] BY <1>1
<1> HIDE DEF left, wk
<1>15. Releases(t, r, left, rd[t], wk) BY <1>1, <1>7, <1>10, <1>11, <1>12, <1>13, <1>14 DEF Releases
<1> QED BY <1>15, UnwindRelease

\* The read locks of a ReadGuard are dropped.
LEMMA DropReadLocksInv == ASSUME IInv, NEW t \in Tasks, DropReadLocks(t) PROVE IInv'
<1> DEFINE r == DropLocks(rd[t], "ReadLock")
           u == unwind[t]
<1>1. /\ stage[t] = "unwind" /\ Head(u) = "guard" /\ lock' = Entries(r) /\ waker' = Wakers(r) /\ sched' = Scheds(r)
      /\ rd' = [rd EXCEPT ![t] = {}] /\ Unwind(t, Tail(u)) /\ UNCHANGED <<todo, wr, inflight, listening>>
  BY DEF DropReadLocks
<1>2. TaskType /\ Stage(t) BY DEF IInv, Shape
<1>3. waker[t] = "none" /\ todo[t] = {} BY <1>1, <1>2 DEF Stage, Locking
<1>4. /\ u \in Seq(Parts) /\ u # <<>> /\ Left(u) /\ (wr[t] # {} => Has(u, "locks"))
      /\ Has(u, "sub") => op[t].kind = "txn"
      /\ Flies(t) <=> Has(u, "sub")
  BY <1>1, UnwindingIs
<1> HIDE DEF u
<1>5. Tail(u) \in Seq(Parts) /\ Left(Tail(u)) /\ \A x : Has(Tail(u), x) <=> Has(u, x) /\ x # "guard"
  BY <1>1, <1>4, TailLeft
<1>6. /\ wr[t] # {} => Has(Tail(u), "locks")
      /\ Has(Tail(u), "sub") => op[t].kind = "txn"
      /\ Has(Tail(u), "sub") <=> Flies(t)
  BY <1>4, <1>5
<1>7. rd'[t] = {} /\ wr'[t] = wr[t] /\ wr[t] \in SUBSET Keys BY <1>1, <1>2 DEF TaskType
<1>8. \A k \in Keys : r[k] = IF k \in rd[t] THEN DropLock(lock[k], "ReadLock") ELSE Unwoken(lock[k])
  BY DEF DropLocks
<1> HIDE DEF r
<1>9. ASSUME NEW k \in Keys PROVE \E q, s, R, W : Leaves(t, k, q, s, R, W, r[k]) /\ s = lock[k].state
  <2>1. ~Granted(t, k) /\ ~Waits(t, k) BY <1>3, Unserved
  <2>2. CASE k \in rd[t]
    <3>1. Leaves(t, k, lock[k].queue, lock[k].state, Readers(k) \ {t}, Writers(k), r[k])
      BY <1>3, <1>7, <1>8, <2>2, LeavesRead
    <3> QED BY <3>1
  <2>3. CASE k \notin rd[t]
    <3>1. Leaves(t, k, lock[k].queue, lock[k].state, Readers(k), Writers(k), r[k])
      BY <1>7, <1>8, <2>1, <2>3, LeavesAlone
    <3> QED BY <3>1
  <2> QED BY <2>2, <2>3
<1>10. \A k \in Keys : \E q, s, R, W : Leaves(t, k, q, s, R, W, r[k]) BY <1>9
<1>11. /\ Wakers(r) \in [Tasks -> {"none", "Pending", "Registered", "Woken"}] /\ Wakers(r)[t] = "none"
       /\ Scheds(r) \in [Tasks -> {"running", "parked", "scheduled"}]
  BY <1>3, <1>10, DroppedWakers
<1>12. todo' = [todo EXCEPT ![t] = {}] /\ wr' = [wr EXCEPT ![t] = wr[t]] BY <1>1, <1>2, <1>3 DEF TaskType
<1>13. stage[t] \notin {"idle", "reading"} BY <1>1
<1> DEFINE left == Tail(u)
           rk == {}
<1>14. /\ left \in Seq(Parts) /\ Left(left) /\ Unwind(t, left) /\ rk \in SUBSET Keys /\ rk \subseteq rd[t]
       /\ rd' = [rd EXCEPT ![t] = rk]
       /\ rk # {} => Has(left, "guard")
       /\ wr[t] # {} => Has(left, "locks")
       /\ Has(left, "sub") => op[t].kind = "txn"
       /\ Has(left, "sub") <=> Flies(t)
       /\ \A k \in Keys : \E q, s, R, W : /\ Leaves(t, k, q, s, R, W, r[k])
                                          /\ k \in wr[t] /\ op[t].kind # "txn" => s = lock[k].state
  BY <1>1, <1>5, <1>6, <1>9
<1>15. \A v \in Tasks \ {t} : waker'[v] = Wakers(r)[v] BY <1>1
<1> HIDE DEF left, rk
<1>16. Releases(t, r, left, rk, wr[t]) BY <1>1, <1>7, <1>11, <1>12, <1>13, <1>14, <1>15 DEF Releases
<1> QED BY <1>16, UnwindRelease
\* The key that a dropped future waited for, or had been granted.
LEMMA LeavesWaker ==
  ASSUME IInv, NEW t \in Tasks, waker[t] # "none", NEW k \in Keys, k = Current(t),
         rd'[t] = rd[t], wr'[t] = wr[t]
  PROVE  LET w == IF waker[t] # "Woken" THEN RemoveWaker(lock[k], t)
                  ELSE IF IsUpgrade(t) THEN DowngradeLock(lock[k])
                  ELSE DropLock(lock[k], Target(t))
         IN  \E q, s, R, W : Leaves(t, k, q, s, R, W, w)
<1> DEFINE e == lock[k]
           R == Readers(k)
           W == Writers(k)
<1>1. TaskType /\ Shape /\ waker[t] \in {"Pending", "Registered", "Woken"} BY DEF IInv, TaskType
<1>2. /\ stage[t] \in Locking /\ k \in todo[t]
      /\ Target(t) = "ReadLock" => k \notin rd[t]
      /\ stage[t] = "prepare" => k \in wr[t] /\ op[t].kind = "txn" /\ Target(t) = "WriteLock"
      /\ Target(t) # "ReadLock" /\ stage[t] # "prepare" => stage[t] = "lock" /\ k \notin wr[t]
  BY <1>1, Waiter
<1>3. EntryInv(k) BY DEF IInv, LockInv
<1>4. Good(e, R, W) BY <1>1, <1>3, GoodEntry DEF IInv
<1>5. \A u \in Tasks : Has(e.queue, u) <=> Waits(u, k) BY <1>3 DEF EntryInv
<1>6. \A u \in W : State(e, u, k) BY <1>3 DEF EntryInv
<1>7. /\ t \in R <=> k \in rd[t] \/ (Granted(t, k) /\ Target(t) = "ReadLock")
      /\ t \in W <=> k \in wr[t] \/ (Granted(t, k) /\ Target(t) # "ReadLock")
  BY DEF Readers, Writers
<1>8. (Granted(t, k) <=> waker[t] = "Woken") /\ (Waits(t, k) <=> waker[t] # "Woken")
  BY <1>1 DEF Granted, Waits
<1>9. t \in W => W \ {t} = {} BY <1>4 DEF Good, Holders
<1>10. t \in W /\ stage[t] = "prepare" /\ Granted(t, k) => e.state = "WriteLock"
  <2>1. SUFFICES ASSUME t \in W, stage[t] = "prepare", Granted(t, k) PROVE e.state = "WriteLock" OBVIOUS
  <2>2. k \in Exclusive(t) BY <2>1 DEF Exclusive
  <2> QED BY <1>6, <2>1, <2>2 DEF State
<1> HIDE DEF e, R, W
<1>11. CASE waker[t] # "Woken"
  <2> DEFINE q == Without(e.queue, t)
  <2>1. Has(e.queue, t) BY <1>5, <1>8, <1>11
  <2>2. e.queue \in Seq(Tasks) /\ NoRepeats(e.queue) BY <1>4 DEF Good, EntryType, Line
  <2>3. \A u : Has(q, u) <=> Has(e.queue, u) /\ u # t BY <2>1, <2>2, WithoutSound
  <2>4. Effect(q, e.state, R, W, RemoveWaker(e, t)) BY <1>4, <2>1, RemoveWakerSound
  <2> HIDE DEF q
  <2>5. Leaves(t, k, q, e.state, R, W, RemoveWaker(e, t))
    BY <1>5, <1>7, <1>8, <1>11, <2>3, <2>4 DEF Leaves, R, W, e
  <2> QED BY <1>11, <2>5 DEF e
<1>12. CASE waker[t] = "Woken" /\ IsUpgrade(t)
  <2>1. k \in wr[t] /\ t \in W /\ e.state = "WriteLock" /\ Target(t) = "WriteLock"
    BY <1>2, <1>7, <1>8, <1>10, <1>12 DEF IsUpgrade
  <2>2. Effect(e.queue, "Locked", R, W, DowngradeLock(e)) BY <1>4, <2>1, DowngradeSound
  <2>3. Leaves(t, k, e.queue, "Locked", R, W, DowngradeLock(e))
    BY <1>5, <1>7, <1>8, <1>9, <1>12, <2>1, <2>2 DEF Leaves, R, W
  <2> QED BY <1>12, <2>3 DEF e
<1>13. CASE waker[t] = "Woken" /\ ~IsUpgrade(t) /\ Target(t) = "ReadLock"
  <2>1. t \in R /\ k \notin rd[t] BY <1>2, <1>7, <1>8, <1>13
  <2>2. Effect(e.queue, e.state, R \ {t}, W, DropLock(e, "ReadLock")) BY <1>4, <2>1, DropReadSound
  <2>3. Leaves(t, k, e.queue, e.state, R \ {t}, W, DropLock(e, "ReadLock"))
    BY <1>5, <1>7, <1>8, <1>13, <2>1, <2>2 DEF Leaves, R, W, e
  <2> QED BY <1>13, <2>3 DEF e
<1>14. CASE waker[t] = "Woken" /\ ~IsUpgrade(t) /\ Target(t) # "ReadLock"
  <2>1. t \in W /\ k \notin wr[t] /\ ~Has(e.queue, t) BY <1>2, <1>5, <1>7, <1>8, <1>14 DEF IsUpgrade
  <2> DEFINE s == Target(t)
  <2>2. s # "ReadLock" BY <1>14
  <2> HIDE DEF s
  <2>3. Effect(e.queue, "ReadLock", R, W \ {t}, DropLock(e, s)) BY <1>4, <2>1, <2>2, DropWriteSound
  <2>4. Leaves(t, k, e.queue, "ReadLock", R, W \ {t}, DropLock(e, s))
    BY <1>5, <1>7, <1>8, <1>9, <1>14, <2>1, <2>3 DEF Leaves, R, W
  <2> QED BY <1>14, <2>4 DEF e, s
<1> QED BY <1>1, <1>11, <1>12, <1>13, <1>14

\* A future that waits for a lock is dropped.
LEMMA CancelInv == ASSUME IInv, NEW t \in Tasks, Cancel(t) PROVE IInv'
<1>1. TaskType /\ Shape /\ Stage(t) /\ Hold(t) BY DEF IInv, Shape
<1>2. waker[t] # "none" BY DEF Cancel
<1> PICK k \in Keys : k = Current(t) BY <1>1, <1>2, Waiter
<1> DEFINE w == IF waker[t] # "Woken" THEN RemoveWaker(lock[k], t)
                ELSE IF IsUpgrade(t) THEN DowngradeLock(lock[k])
                ELSE DropLock(lock[k], Target(t))
           r == One(k, w)
           left == Unwinding(t)
<1>3. /\ lock' = Entries(r) /\ waker' = [Wakers(r) EXCEPT ![t] = "none"] /\ sched' = [Scheds(r) EXCEPT ![t] = "running"]
      /\ todo' = [todo EXCEPT ![t] = {}] /\ Unwind(t, left) /\ UNCHANGED <<rd, wr, inflight, listening>>
  BY DEF Cancel
<1>4. stage[t] \in Locking /\ k \in todo[t] /\ (k \in wr[t] => stage[t] = "prepare" \/ Target(t) = "ReadLock")
  BY <1>1, <1>2, Waiter
<1>5. stage[t] \in {"guard", "lock", "reread", "prepare"} BY <1>4 DEF Locking
<1>6. rd'[t] = rd[t] /\ wr'[t] = wr[t] BY <1>3
<1>7. \E q, s, R, W : Leaves(t, k, q, s, R, W, w) BY <1>2, <1>6, LeavesWaker
<1>8. \A j \in Keys : r[j] = IF j = k THEN w ELSE Unwoken(lock[j]) BY DEF One
<1> HIDE DEF w, r
<1>9. op[t].kind # "txn" => k \notin wr[t]
  BY <1>1, <1>4, <1>5 DEF Stage, Hold, TaskType, Ops
<1>10. ASSUME NEW j \in Keys
       PROVE  \E q, s, R, W : /\ Leaves(t, j, q, s, R, W, r[j])
                              /\ j \in wr[t] /\ op[t].kind # "txn" => s = lock[j].state
  <2>1. CASE j = k BY <1>7, <1>8, <1>9, <2>1
  <2>2. CASE j # k
    <3>1. ~Granted(t, j) /\ ~Waits(t, j) BY <2>2 DEF Granted, Waits
    <3>2. Leaves(t, j, lock[j].queue, lock[j].state, Readers(j), Writers(j), r[j])
      BY <1>6, <1>8, <2>2, <3>1, LeavesAlone
    <3> QED BY <3>2
  <2> QED BY <2>1, <2>2
<1>11. /\ left \in Seq(Parts) /\ Left(left)
       /\ stage[t] # "guard" /\ rd[t] # {} => Has(left, "guard")
       /\ wr[t] # {} => Has(left, "locks")
       /\ Has(left, "sub") <=> op[t].kind = "txn" /\ stage[t] \notin {"guard", "await"}
  BY <1>5, UnwindingSound
<1> HIDE DEF left
<1>12. rd[t] # {} => Has(left, "guard")
  <2>1. stage[t] = "guard" => rd[t] = {} BY <1>1 DEF Stage, Hold, TaskType, Ops
  <2> QED BY <1>11, <2>1
<1>13. Has(left, "sub") <=> Flies(t)
  <2>1. Flies(t) <=> op[t].kind = "txn" /\ stage[t] \in {"reserve", "lock", "use", "reread", "reading", "prepare", "commit"}
    BY <1>5, FliesUnless
  <2> QED BY <1>5, <1>11, <2>1
<1>14. /\ Wakers(r) \in [Tasks -> {"none", "Pending", "Registered", "Woken"}]
       /\ Scheds(r) \in [Tasks -> {"running", "parked", "scheduled"}]
  BY <1>1 DEF Wakers, Scheds, TaskType
<1>15. /\ waker' \in [Tasks -> {"none", "Pending", "Registered", "Woken"}] /\ waker'[t] = "none"
       /\ \A u \in Tasks \ {t} : waker'[u] = Wakers(r)[u]
       /\ sched' \in [Tasks -> {"running", "parked", "scheduled"}]
  BY <1>3, <1>14
<1>16. /\ rd' = [rd EXCEPT ![t] = rd[t]] /\ wr' = [wr EXCEPT ![t] = wr[t]]
       /\ stage[t] \notin {"idle", "reading"} /\ (Has(left, "sub") => op[t].kind = "txn")
  BY <1>1, <1>3, <1>5, <1>11 DEF TaskType
<1>17. Releases(t, r, left, rd[t], wr[t])
  BY <1>3, <1>10, <1>11, <1>12, <1>13, <1>15, <1>16 DEF Releases
<1> QED BY <1>17, UnwindRelease
-----------------------------------------------------------------------------
\* The invariant holds at the start.
LEMMA InitInv == Init => IInv
<1> SUFFICES ASSUME Init PROVE IInv OBVIOUS
<1>1. NoOp \in Ops /\ NoOp.kind = "read" BY DEF NoOp, Ops
<1>2. <<>> \in Seq(Parts) /\ <<>> \in Seq(Tasks) /\ Len(<<>>) = 0 OBVIOUS
<1>3. TaskType BY <1>1, <1>2, LockManagerAssumption DEF Init, TaskType, Stages
<1>4. LockType BY <1>2 DEF Init, LockType, NoEntry, States
<1>5. \A t \in Tasks : /\ op[t] = NoOp /\ stage[t] = "idle" /\ todo[t] = {} /\ rd[t] = {} /\ wr[t] = {}
                       /\ waker[t] = "none" /\ unwind[t] = <<>>
  BY DEF Init
<1>6. Shape
  <2>1. \A x : ~Has(<<>>, x) BY <1>2 DEF Has
  <2>2. Left(<<>>) BY <1>2 DEF Left, NoRepeats
  <2> SUFFICES ASSUME NEW t \in Tasks PROVE Stage(t) /\ Hold(t) /\ Drops(t) BY DEF Shape
  <2>3. Stage(t) BY <1>1, <1>5 DEF Stage, Locking
  <2>4. Hold(t) BY <1>1, <1>5 DEF Hold
  <2>5. Drops(t) BY <1>5, <2>1, <2>2 DEF Drops
  <2> QED BY <2>3, <2>4, <2>5
<1>7. ASSUME NEW k \in Keys PROVE EntryInv(k)
  <2>1. lock[k] = NoEntry BY DEF Init
  <2>2. \A t \in Tasks : ~Granted(t, k) /\ ~Waits(t, k) BY <1>5 DEF Granted, Waits
  <2>3. Readers(k) = {} /\ Writers(k) = {} BY <1>5, <2>2 DEF Readers, Writers
  <2>4. lock[k].state = "Vacant" /\ lock[k].read_count = 0 /\ lock[k].queue = <<>> BY <2>1 DEF NoEntry
  <2>5. Holders(lock[k], {}, {}) /\ Present(lock[k], {}, {}) BY <2>4, FS_EmptySet DEF Holders, Present
  <2>6. Line(lock[k]) /\ Settled(lock[k]) BY <1>2, <2>4 DEF Line, NoRepeats, Settled, HeadProceeds
  <2>7. \A t : ~Has(lock[k].queue, t) BY <1>2, <2>4 DEF Has
  <2> QED BY <2>2, <2>3, <2>5, <2>6, <2>7 DEF EntryInv
<1>8. RereadInv BY <1>5 DEF RereadInv
<1>9. CountInv
  <2>1. InFlight = {} /\ Checked = {} BY <1>1, <1>5 DEF InFlight, Checked
  <2> QED BY <2>1, FS_EmptySet, LockManagerAssumption DEF CountInv, Init
<1> QED BY <1>3, <1>4, <1>6, <1>7, <1>8, <1>9 DEF IInv, LockInv

\* Every step preserves it.
LEMMA NextInv == IInv /\ [Next]_vars => IInv'
<1> SUFFICES ASSUME IInv, [Next]_vars PROVE IInv' OBVIOUS
<1>1. ASSUME NEW t \in Tasks, Run(t) PROVE IInv'
  BY <1>1, AcquireInv, EnqueueInv, UpgradeInv, EnqueueUpgradeInv, ParkInv, ResumeInv, AddTryInv, AddListenInv,
     AddRetryInv, AddAwakenInv, ReserveInv, EndRereadInv, FinishInv, CommitInv, SubInv, NotifyInv,
     DropWriteLocksInv, DropReadLocksInv
  DEF Run
<1>2. ASSUME NEW t \in Tasks, Start(t) \/ Cancel(t) \/ AddCancel(t) \/ ReserveFails(t) \/ Reread(t) \/ Downgrade(t)
      PROVE  IInv'
  BY <1>2, StartInv, CancelInv, AddCancelInv, ReserveFailsInv, RereadStepInv, DowngradeInv
<1>3. CASE UNCHANGED vars
  <2>1. TaskType' /\ LockType' BY <1>3 DEF vars, IInv, TaskType, LockType
  <2>2. Shape' BY <1>3 DEF vars, IInv, Shape, Stage, Hold, Drops, Left, NoRepeats, Has
  <2>3. ASSUME NEW k \in Keys PROVE EntryInv(k)'
    <3>1. Readers(k)' = Readers(k) /\ Writers(k)' = Writers(k)
      BY <1>3 DEF vars, Readers, Writers, Granted, Current, Target
    <3>2. \A u \in Tasks : Waits(u, k)' <=> Waits(u, k) BY <1>3 DEF vars, Waits, Current
    <3>3. \A u \in Tasks : (Has(lock[k].queue, u))' <=> Has(lock[k].queue, u) BY <1>3 DEF vars, Has
    <3>4. EntryInv(k) BY DEF IInv, LockInv
    <3>5. Holders(lock[k], Readers(k), Writers(k))' /\ Present(lock[k], Readers(k), Writers(k))'
      BY <1>3, <3>1, <3>4 DEF vars, EntryInv, Holders, Present
    <3>6. Line(lock[k])' /\ Settled(lock[k])'
      BY <1>3, <3>4 DEF vars, EntryInv, Line, NoRepeats, IsUpgrade, Settled, HeadProceeds, IsAllowed, Target
    <3>7. \A u \in Tasks : Exclusive(u)' = Exclusive(u)
      BY <1>3 DEF vars, Exclusive, Writers, Granted, Current, Target
    <3>8. Writers(k) \subseteq Tasks BY DEF Writers
    <3>9. \A u \in Writers(k) : State(lock[k], u, k)' BY <1>3, <3>4, <3>7, <3>8 DEF vars, EntryInv, State
    <3> QED BY <3>1, <3>2, <3>3, <3>4, <3>5, <3>6, <3>9 DEF EntryInv
  <2>4. RereadInv' /\ CountInv' BY <1>3 DEF vars, IInv, RereadInv, CountInv, Checked, InFlight
  <2> QED BY <2>1, <2>2, <2>3, <2>4 DEF IInv, LockInv
<1> QED BY <1>1, <1>2, <1>3 DEF Next

\* The invariant holds for any tasks, keys, programs and limits: what a task has
\* and wants in each stage, what each entry says of its holders and waiters, and
\* the count of transactions in flight.
THEOREM Invariance == Spec => []IInv
BY InitInv, NextInv, PTL DEF Spec

\* The number of a set of tasks is at most that of all.
LEMMA TaskCount ==
  ASSUME NEW S \in SUBSET Tasks PROVE Cardinality(S) \in 0..Cardinality(Tasks)
<1>1. IsFiniteSet(S) /\ Cardinality(S) <= Cardinality(Tasks) BY LockManagerAssumption, FS_Subset
<1>2. Cardinality(S) \in Nat /\ Cardinality(Tasks) \in Nat BY <1>1, LockManagerAssumption, FS_CardinalityType
<1> QED BY <1>1, <1>2

\* Every variable has its type, and the unsigned counts of read locks and of
\* transactions in flight, which drop_lock and sub_transaction decrement
\* without a check, stay between zero and the number of tasks.
THEOREM TypeCorrect == Spec => []TypeOK
<1>1. ASSUME IInv PROVE TypeOK
  <2>1. ASSUME NEW k \in Keys PROVE lock[k].read_count \in 0..Cardinality(Tasks)
    <3>1. EntryInv(k) BY <1>1 DEF IInv, LockInv
    <3>2. Readers(k) \in SUBSET Tasks BY DEF Readers
    <3> QED BY <3>1, <3>2, TaskCount DEF EntryInv, Holders
  <2>2. lock \in [Keys -> [state : {"Vacant", "ReadLock", "Locked", "WriteLock"},
                           read_count : 0..Cardinality(Tasks), queue : Seq(Tasks)]]
    BY <1>1, <2>1 DEF IInv, LockType, States
  <2>3. inflight \in 0..Cardinality(Tasks)
    <3>1. InFlight \in SUBSET Tasks BY DEF InFlight
    <3> QED BY <1>1, <3>1, TaskCount DEF IInv, CountInv
  <2> QED BY <1>1, <2>2, <2>3 DEF IInv, TaskType, TypeOK, Stages, Parts
<1> QED BY <1>1, Invariance, PTL

\* A key has at most one writer or transaction, and nobody reads a key that is
\* held exclusively, from the wake() that grants it: what LockManager is for.
THEOREM LocksExclude == Spec => []Exclusion
<1>1. ASSUME IInv PROVE Exclusion
  <2> SUFFICES ASSUME NEW k \in Keys
               PROVE  /\ Cardinality(Writers(k)) <= 1
                      /\ \A t \in Tasks : k \in Exclusive(t) =>
                           Readers(k) \cup Writers(k) \subseteq {t} /\ k \notin rd[t]
    BY DEF Exclusion
  <2>1. EntryInv(k) BY <1>1 DEF IInv, LockInv
  <2>2. Holders(lock[k], Readers(k), Writers(k)) /\ Writers(k) \subseteq Tasks BY <2>1 DEF EntryInv, Writers
  <2>3. Cardinality(Writers(k)) <= 1
    <3>1. CASE Writers(k) = {} BY <3>1, FS_EmptySet
    <3>2. CASE Writers(k) # {}
      <4>1. PICK u : u \in Writers(k) BY <3>2
      <4>2. Writers(k) = {u} BY <2>2, <4>1 DEF Holders
      <4> QED BY <4>2, FS_Singleton
    <3> QED BY <3>1, <3>2
  <2>4. ASSUME NEW t \in Tasks, k \in Exclusive(t)
        PROVE  Readers(k) \cup Writers(k) \subseteq {t} /\ k \notin rd[t]
    <3>1. t \in Writers(k) BY <2>4 DEF Exclusive
    <3>2. State(lock[k], t, k) BY <2>1, <3>1 DEF EntryInv
    <3>3. op[t].kind # "txn" \/ stage[t] # "unwind" BY <2>4 DEF Exclusive
    <3>4. lock[k].state = "WriteLock" BY <2>4, <3>2, <3>3 DEF State
    <3>5. Readers(k) = {} BY <2>2, <3>4 DEF Holders
    <3>6. k \notin rd[t] BY <3>5 DEF Readers
    <3>7. Writers(k) \subseteq {t} BY <2>2, <3>1 DEF Holders
    <3> QED BY <3>5, <3>6, <3>7
  <2> QED BY <2>3, <2>4
<1> QED BY <1>1, Invariance, PTL

\* The entries of LockManager::keys and in_flight_transactions are exact, however
\* futures are dropped: nothing leaks, and the assertions of commit_prepare_keys
\* and downgrade_lock cannot fail.
THEOREM BooksExact == Spec => []Accounted
<1>1. ASSUME IInv PROVE Accounted
  <2>1. ASSUME NEW k \in Keys
        PROVE  LET e == lock[k]
               IN  /\ e.read_count = Cardinality(Readers(k))
                   /\ e.state \in {"Locked", "WriteLock"} <=> Writers(k) # {}
                   /\ e.state = "Vacant" <=> Readers(k) \cup Writers(k) = {}
                   /\ \A t \in Writers(k) : stage[t] # "unwind" =>
                        e.state = IF k \in Exclusive(t) THEN "WriteLock" ELSE "Locked"
                   /\ \A t \in Tasks : (\E i \in DOMAIN e.queue : e.queue[i] = t)
                        <=> (waker[t] \in {"Pending", "Registered"} /\ Current(t) = k)
    <3>1. EntryInv(k) BY <1>1 DEF IInv, LockInv
    <3>2. DOMAIN lock[k].queue = 1..Len(lock[k].queue)
      <4>1. lock[k].queue \in Seq(Tasks) BY <1>1 DEF IInv, LockType
      <4> QED BY <4>1, LenProperties
    <3>3. ASSUME NEW t \in Writers(k), stage[t] # "unwind"
          PROVE  lock[k].state = IF k \in Exclusive(t) THEN "WriteLock" ELSE "Locked"
      <4>1. State(lock[k], t, k) BY <3>1 DEF EntryInv
      <4>2. op[t].kind # "txn" => k \in Exclusive(t) BY DEF Exclusive
      <4> QED BY <3>3, <4>1, <4>2 DEF State
    <3> QED BY <3>1, <3>2, <3>3 DEF EntryInv, Holders, Present, Has, Waits
  <2> QED BY <1>1, <2>1 DEF IInv, CountInv, Checked, Accounted
<1> QED BY <1>1, Invariance, PTL

\* wake() is called wherever it has to be: no waiter at the head of a list could
\* proceed (but for a transaction behind readers granted together), and a
\* transaction never waits for a read lock on its own key.
THEOREM NoGrantOwed == Spec => []NoneLeftWaiting
<1>1. IInv => NoneLeftWaiting BY DEF IInv, LockInv, EntryInv, Settled, RereadInv, NoneLeftWaiting
<1> QED BY <1>1, Invariance, PTL
-----------------------------------------------------------------------------
\* Those woken are the first of a list.
First(S, q) == \E n \in 0..Len(q) : S = {q[i] : i \in 1..n}

\* One is before another in a list.
Before(q, u, t) == \E i, j \in DOMAIN q : i < j /\ q[i] = u /\ q[j] = t

\* wake() wakes the first of the list.
LEMMA WakeFirst == ASSUME NEW e, e.queue \in Seq(Tasks) PROVE First(Wake(e).woken, e.queue)
<1> DEFINE q == e.queue
           n == WakeCount(e)
<1>1. Len(q) \in Nat BY LenProperties
<1>2. n \in 0..Len(q)
  <2>1. CASE ~HeadProceeds(e) BY <1>1, <2>1 DEF WakeCount
  <2>2. CASE HeadProceeds(e)
    <3>1. q # <<>> /\ Len(q) > 0 BY <1>1, <2>2, EmptySeq DEF HeadProceeds
    <3>2. Tail(q) \in Seq(Tasks) /\ Len(Tail(q)) = Len(q) - 1 BY <3>1, HeadTailProperties
    <3>3. LeadingReaders(Tail(q)) \in 0..Len(q) - 1 BY <3>2, LeadingReadersSound
    <3> QED BY <1>1, <2>2, <3>1, <3>3 DEF WakeCount
  <2> QED BY <2>1, <2>2
<1>3. Wake(e).woken = {SubSeq(q, 1, n)[i] : i \in 1..n} BY DEF Wake
<1> HIDE DEF n
<1>4. \A i \in 1..n : SubSeq(q, 1, n)[i] = q[i] BY <1>1, <1>2
<1>5. Wake(e).woken = {q[i] : i \in 1..n} BY <1>3, <1>4
<1> QED BY <1>2, <1>5 DEF First

\* So do the operations that call it.
LEMMA ResultFirst ==
  ASSUME NEW e \in EntryType, NEW s
  PROVE  /\ First(Unwoken(e).woken, e.queue) /\ First(DropLock(e, s).woken, e.queue)
         /\ First(DowngradeLock(e).woken, e.queue)
<1>1. e.queue \in Seq(Tasks) /\ Len(e.queue) \in Nat BY LenProperties DEF EntryType
<1>2. First({}, e.queue)
  <2>1. 0 \in 0..Len(e.queue) /\ {} = {e.queue[i] : i \in 1..0} BY <1>1
  <2> QED BY <2>1 DEF First
<1>3. \A d : Unwoken(d).woken = {} BY DEF Unwoken
<1>4. First(DowngradeLock(e).woken, e.queue)
  <2> DEFINE d == [e EXCEPT !.state = "Locked"]
  <2>1. d.queue = e.queue BY DEF EntryType
  <2> HIDE DEF d
  <2>2. First(Wake(d).woken, e.queue) BY <1>1, <2>1, WakeFirst
  <2> QED BY <2>2 DEF DowngradeLock, d
<1>5. First(DropLock(e, s).woken, e.queue)
  <2> DEFINE d == IF s = "ReadLock" THEN [e EXCEPT !.read_count = @ - 1] ELSE [e EXCEPT !.state = "ReadLock"]
             w == Wake(d)
  <2>1. d.queue = e.queue BY DEF EntryType
  <2>2. DropLock(e, s) = IF s = "ReadLock" /\ d.read_count > 0 THEN Unwoken(d)
                         ELSE IF CanRemove(w.entry) THEN [w EXCEPT !.entry = NoEntry] ELSE w
    BY DEF DropLock
  <2>3. w = [entry |-> w.entry, woken |-> w.woken] BY DEF Wake
  <2> HIDE DEF d
  <2>4. First(w.woken, e.queue) BY <1>1, <2>1, WakeFirst
  <2> HIDE DEF w
  <2>5. [w EXCEPT !.entry = NoEntry].woken = w.woken BY <2>3
  <2> QED BY <1>2, <1>3, <2>2, <2>4, <2>5
<1> QED BY <1>2, <1>3, <1>4, <1>5

\* So does a waker that leaves the list, of those that remain.
LEMMA RemoveFirst ==
  ASSUME NEW e \in EntryType, NoRepeats(e.queue), NEW t \in Tasks, Has(e.queue, t)
  PROVE  First(RemoveWaker(e, t).woken, Without(e.queue, t))
<1> DEFINE v == Without(e.queue, t)
           d == [e EXCEPT !.queue = v]
<1>1. e.queue \in Seq(Tasks) BY DEF EntryType
<1>2. v \in Seq(Tasks) /\ Len(v) \in Nat BY <1>1, WithoutSound, LenProperties
<1>3. d.queue = v BY DEF EntryType
<1>4. RemoveWaker(e, t) = IF Head(e.queue) = t THEN Wake(d) ELSE Unwoken(d) BY DEF RemoveWaker
<1> HIDE DEF v, d
<1>5. First(Wake(d).woken, v) BY <1>2, <1>3, WakeFirst
<1>6. First(Unwoken(d).woken, v)
  <2>1. 0 \in 0..Len(v) /\ Unwoken(d).woken = {v[i] : i \in 1..0} BY <1>2 DEF Unwoken
  <2> QED BY <2>1 DEF First
<1> QED BY <1>4, <1>5, <1>6 DEF v

\* Who is among the first of a list is before who is not.
LEMMA FirstBefore ==
  ASSUME NEW q \in Seq(Tasks), NEW S, First(S, q), NEW u \in S, NEW t, Has(q, t), t \notin S
  PROVE  Before(q, u, t)
<1>1. PICK n \in 0..Len(q) : S = {q[i] : i \in 1..n} BY DEF First
<1>2. Len(q) \in Nat /\ DOMAIN q = 1..Len(q) BY LenProperties
<1>3. PICK i \in 1..n : q[i] = u BY <1>1
<1>4. PICK j \in 1..Len(q) : q[j] = t BY DEF Has
<1>5. j \notin 1..n BY <1>1, <1>4
<1>6. i \in DOMAIN q /\ j \in DOMAIN q /\ i < j BY <1>2, <1>3, <1>4, <1>5
<1> QED BY <1>3, <1>4, <1>6 DEF Before

\* The order of a list is that of the list without one of its wakers.
LEMMA WithoutBefore ==
  ASSUME NEW q \in Seq(Tasks), NoRepeats(q), NEW v \in Tasks, Has(q, v), NEW u, NEW t,
         Before(Without(q, v), u, t)
  PROVE  Before(q, u, t)
<1> DEFINE w == Without(q, v)
<1>1. /\ w \in Seq(Tasks) /\ Len(w) = Len(q) - 1
      /\ \E p \in 1..Len(q) : /\ q[p] = v
                              /\ \A i \in 1..Len(q) - 1 : w[i] = IF i < p THEN q[i] ELSE q[i + 1]
  BY WithoutSound
<1> HIDE DEF w
<1>2. PICK p \in 1..Len(q) : \A i \in 1..Len(q) - 1 : w[i] = IF i < p THEN q[i] ELSE q[i + 1] BY <1>1
<1>3. Len(q) \in Nat /\ DOMAIN q = 1..Len(q) /\ DOMAIN w = 1..Len(q) - 1 BY <1>1, LenProperties
<1>4. PICK i, j \in 1..Len(q) - 1 : i < j /\ w[i] = u /\ w[j] = t BY <1>3 DEF Before, w
<1> DEFINE a == IF i < p THEN i ELSE i + 1
           b == IF j < p THEN j ELSE j + 1
<1>5. a \in 1..Len(q) /\ b \in 1..Len(q) /\ a < b BY <1>3, <1>4
<1>6. q[a] = u /\ q[b] = t BY <1>2, <1>4
<1> HIDE DEF a, b
<1> QED BY <1>3, <1>5, <1>6 DEF Before
\* A task has a key, by a guard or by a grant.
Holds(u, k) == k \in rd[u] \/ k \in wr[u] \/ Granted(u, k)

\* A task u gets key k in turn, while t waits for it.
InTurn(t, u, k) ==
  Before(lock[k].queue, u, t) \/ (lock[k].state = "Locked" /\ Target(u) = "ReadLock" /\ ~IsUpgrade(t))

\* Of the tasks, v moves: what the others have asked for, and have, stays.
Stays(v) == \A u \in Tasks \ {v} : todo'[u] = todo[u] /\ rd'[u] = rd[u] /\ wr'[u] = wr[u]

\* It is enough to look at those who get a key in a step of v.
LEMMA InOrderIf ==
  ASSUME IInv, NEW v \in Tasks, Stays(v), waker[v] \in {"Pending", "Registered"} => waker'[v] # waker[v],
         \A k \in Keys : \A t, u \in Tasks :
           t # v /\ Waits(t, k) /\ waker'[t] = waker[t] /\ Holds(u, k)' /\ ~Holds(u, k) => InTurn(t, u, k)
  PROVE  GrantInOrder
<1> SUFFICES ASSUME NEW t \in Tasks, waker[t] \in {"Pending", "Registered"}, waker'[t] = waker[t],
                    NEW u \in (Readers(Current(t)) \cup Writers(Current(t)))' \ (Readers(Current(t)) \cup Writers(Current(t)))
             PROVE  InTurn(t, u, Current(t))
  BY DEF GrantInOrder, InTurn, Before
<1>1. t # v OBVIOUS
<1> PICK k \in Keys : k = Current(t) BY Waiter DEF IInv
<1>2. Current(t)' = k BY <1>1 DEF Current, Stays
<1>3. Readers(Current(t))' = {w \in Tasks : k \in rd'[w] \/ (Granted(w, k)' /\ Target(w)' = "ReadLock")}
  BY <1>2 DEF Readers, Granted
<1>4. Writers(Current(t))' = {w \in Tasks : k \in wr'[w] \/ (Granted(w, k)' /\ Target(w)' # "ReadLock")}
  BY <1>2 DEF Writers, Granted
<1>5. u \in Tasks /\ Holds(u, k)' BY <1>3, <1>4 DEF Holds
<1>6. ~Holds(u, k) BY <1>5 DEF Holds, Readers, Writers
<1>7. Waits(t, k) BY DEF Waits
<1> QED BY <1>1, <1>5, <1>6, <1>7

\* A step that grants nothing.
LEMMA GrantsNone ==
  ASSUME IInv, NEW v \in Tasks, Stays(v), \A u \in Tasks \ {v} : waker'[u] = waker[u],
         waker[v] \in {"Pending", "Registered"} => waker'[v] # waker[v],
         rd'[v] = rd[v], wr'[v] = wr[v], waker'[v] # "Woken"
  PROVE  GrantInOrder
<1>1. ASSUME NEW k \in Keys, NEW u \in Tasks, Holds(u, k)' PROVE Holds(u, k)
  <2>1. CASE u = v BY <1>1, <2>1 DEF Holds, Granted
  <2>2. CASE u # v
    <3>1. Current(u)' = Current(u) /\ waker'[u] = waker[u] BY <2>2 DEF Current, Stays
    <3> QED BY <1>1, <2>2, <3>1 DEF Holds, Granted, Stays
  <2> QED BY <2>1, <2>2
<1> QED BY <1>1, InOrderIf

\* A task that has no waker and gets none.
LEMMA GrantsQuiet ==
  ASSUME IInv, NEW v \in Tasks, UNCHANGED <<rd, wr, waker>>, waker[v] = "none",
         \A u \in Tasks \ {v} : todo'[u] = todo[u]
  PROVE  GrantInOrder
BY GrantsNone DEF Stays

\* The steps outside the lock manager.
LEMMA QuietOrder ==
  ASSUME IInv, NEW v \in Tasks,
         \/ Start(v) \/ AddTry(v) \/ AddListen(v) \/ AddRetry(v) \/ AddAwaken(v) \/ AddCancel(v) \/ Reserve(v)
         \/ ReserveFails(v) \/ Finish(v) \/ Reread(v) \/ Commit(v) \/ Sub(v) \/ Notify(v)
  PROVE  GrantInOrder
<1>1. TaskType /\ Stage(v) BY DEF IInv, Shape
<1>2. /\ UNCHANGED <<rd, wr, waker>>
      /\ stage[v] \notin Locking
      /\ todo' = todo \/ \E d : todo' = [todo EXCEPT ![v] = d]
  <2>1. CASE Start(v) BY <2>1 DEF Start, Lock, Locking
  <2>2. CASE Reserve(v) BY <2>2 DEF Reserve, Lock, Locking
  <2>3. CASE Reread(v) BY <2>3 DEF Reread, Lock, Locking
  <2>4. CASE Commit(v) BY <2>4 DEF Commit, Lock, Locking
  <2>5. CASE AddTry(v) \/ AddListen(v) \/ AddRetry(v) \/ AddAwaken(v) \/ AddCancel(v)
    BY <2>5 DEF AddTry, AddListen, AddRetry, AddAwaken, AddCancel, Locking
  <2>6. CASE ReserveFails(v) \/ Finish(v) \/ Sub(v) \/ Notify(v)
    BY <2>6 DEF ReserveFails, Finish, Sub, Notify, Locking
  <2> QED BY <2>1, <2>2, <2>3, <2>4, <2>5, <2>6
<1>3. waker[v] = "none" BY <1>1, <1>2 DEF Stage
<1>4. \A u \in Tasks \ {v} : todo'[u] = todo[u] BY <1>1, <1>2 DEF TaskType
<1> QED BY <1>2, <1>3, <1>4, GrantsQuiet

\* Those that begin to wait, or are polled.
LEMMA WaitOrder ==
  ASSUME IInv, NEW v \in Tasks, Enqueue(v) \/ EnqueueUpgrade(v) \/ Park(v)
  PROVE  GrantInOrder
<1>1. TaskType BY DEF IInv
<1>2. UNCHANGED <<todo, rd, wr>> BY DEF Enqueue, EnqueueUpgrade, Park
<1>3. \/ waker[v] = "none" /\ waker' = [waker EXCEPT ![v] = "Pending"]
      \/ waker[v] = "Pending" /\ waker' = [waker EXCEPT ![v] = "Registered"]
  BY DEF Enqueue, EnqueueUpgrade, Park
<1>4. \A u \in Tasks \ {v} : waker'[u] = waker[u] BY <1>1, <1>3 DEF TaskType
<1>5. waker'[v] # "Woken" /\ waker'[v] # waker[v] BY <1>1, <1>3 DEF TaskType
<1>6. Stays(v) BY <1>2 DEF Stays
<1> QED BY <1>2, <1>4, <1>5, <1>6, GrantsNone

\* Those that take a key.
LEMMA TakeOrder ==
  ASSUME IInv, NEW v \in Tasks, Acquire(v) \/ Upgrade(v) \/ Resume(v)
  PROVE  GrantInOrder
<1>1. TaskType /\ Shape BY DEF IInv
<1>2. Take(v) /\ waker' = [waker EXCEPT ![v] = "none"] /\ waker[v] \in {"none", "Woken"} /\ UNCHANGED <<op, unwind>>
  BY <1>1 DEF Acquire, Upgrade, Resume, TaskType
<1>3. stage[v] \in Locking
  <2>1. waker[v] # "none" => stage[v] \in Locking BY <1>1, Waiter
  <2> QED BY <2>1 DEF Acquire, Upgrade, Resume, Locking
<1>4. waker'[v] = "none" /\ \A u \in Tasks \ {v} : waker'[u] = waker[u] BY <1>1, <1>2 DEF TaskType
<1> PICK c \in Keys : c = Current(v) BY <1>1, <1>3, Locker
<1>5. /\ rd'[v] \subseteq rd[v] \cup {c} /\ wr'[v] \subseteq wr[v] \cup {c} /\ Stays(v)
  <2>1. /\ rd'[v] = IF Target(v) = "ReadLock" THEN rd[v] \cup {c} ELSE rd[v]
        /\ wr'[v] = IF Target(v) = "ReadLock" THEN wr[v] ELSE wr[v] \cup {c}
        /\ \A u \in Tasks \ {v} : todo'[u] = todo[u] /\ rd'[u] = rd[u] /\ wr'[u] = wr[u]
    BY <1>2, <1>3, <1>4, TakeShape
  <2> QED BY <2>1 DEF Stays
<1>6. ASSUME NEW k \in Keys, NEW t \in Tasks, NEW u \in Tasks, t # v, Waits(t, k), Holds(u, k)', ~Holds(u, k)
      PROVE  InTurn(t, u, k)
  <2>1. u = v /\ k = c
    <3>1. CASE u # v
      <4>1. Current(u)' = Current(u) /\ waker'[u] = waker[u] BY <1>4, <1>5, <3>1 DEF Current, Stays
      <4> QED BY <1>5, <1>6, <3>1, <4>1 DEF Holds, Granted, Stays
    <3>2. CASE u = v BY <1>4, <1>5, <1>6, <3>2 DEF Holds, Granted
    <3> QED BY <3>1, <3>2
  <2>2. Acquire(v)
    <3>1. ~Resume(v) BY <1>6, <2>1 DEF Resume, Holds, Granted
    <3>2. ~Upgrade(v)
      <4>1. stage[v] = "prepare" => c \in wr[v] BY <1>1, <1>3, Locker
      <4> QED BY <1>6, <2>1, <4>1 DEF Upgrade, Holds
    <3> QED BY <3>1, <3>2
  <2>3. EntryInv(k) BY DEF IInv, LockInv
  <2>4. Has(lock[k].queue, t) BY <1>6, <2>3 DEF EntryInv
  <2>5. lock[k].queue \in Seq(Tasks) BY DEF IInv, LockType
  <2>6. PICK i \in 1..Len(lock[k].queue) : lock[k].queue[i] = t BY <2>4 DEF Has
  <2>7. Len(lock[k].queue) \in Nat /\ lock[k].queue # <<>> /\ Head(lock[k].queue) = lock[k].queue[1]
    BY <2>5, <2>6
  <2>8. lock[k].state # "Vacant" BY <2>3, <2>7 DEF EntryInv, Present
  <2>9. IsAllowed(lock[k], Target(v), FALSE) BY <2>1, <2>2, <2>7, <2>8 DEF Acquire
  <2>10. lock[k].state = "Locked" /\ Target(v) = "ReadLock" /\ ~IsUpgrade(lock[k].queue[1])
    BY <2>7, <2>9 DEF IsAllowed
  <2>11. ~IsUpgrade(t) BY <2>3, <2>6, <2>10 DEF EntryInv, Line
  <2> QED BY <2>1, <2>10, <2>11 DEF InTurn
<1> QED BY <1>2, <1>5, <1>6, InOrderIf
\* Those that give locks back, or leave a list.
LEMMA ReleaseOrder ==
  ASSUME IInv, NEW v \in Tasks, NEW r, Stays(v), \A u \in Tasks \ {v} : waker'[u] = Wakers(r)[u],
         rd'[v] \subseteq rd[v], wr'[v] \subseteq wr[v],
         waker'[v] = "none" \/ (waker[v] = "none" /\ waker'[v] = Wakers(r)[v]),
         \A k \in Keys : \/ First(r[k].woken, lock[k].queue)
                         \/ Has(lock[k].queue, v) /\ First(r[k].woken, Without(lock[k].queue, v))
  PROVE  GrantInOrder
<1>1. \A u \in Tasks : Wakers(r)[u] = IF u \in Woken(r) THEN "Woken" ELSE waker[u] BY DEF Wakers
<1>2. ASSUME NEW k \in Keys PROVE lock[k].queue \in Seq(Tasks) /\ NoRepeats(lock[k].queue)
  BY DEF IInv, LockType, LockInv, EntryInv, Line
<1>3. ASSUME NEW k \in Keys, NEW u \in r[k].woken PROVE Has(lock[k].queue, u) /\ u \in Tasks /\ Waits(u, k)
  <2>1. Has(lock[k].queue, u) /\ u \in Tasks
    <3>1. CASE First(r[k].woken, lock[k].queue)
      <4>1. PICK n \in 0..Len(lock[k].queue) : r[k].woken = {lock[k].queue[i] : i \in 1..n} BY <3>1 DEF First
      <4>2. Len(lock[k].queue) \in Nat /\ lock[k].queue \in Seq(Tasks) BY <1>2, LenProperties
      <4> QED BY <4>1, <4>2 DEF Has
    <3>2. CASE Has(lock[k].queue, v) /\ First(r[k].woken, Without(lock[k].queue, v))
      <4> DEFINE q == Without(lock[k].queue, v)
      <4>1. q \in Seq(Tasks) /\ (Has(q, u) => Has(lock[k].queue, u)) BY <1>2, <3>2, WithoutSound
      <4>2. PICK n \in 0..Len(q) : r[k].woken = {q[i] : i \in 1..n} BY <3>2 DEF First
      <4> HIDE DEF q
      <4>3. Len(q) \in Nat BY <4>1, LenProperties
      <4>4. Has(q, u) /\ u \in Tasks BY <4>1, <4>2, <4>3 DEF Has
      <4> QED BY <4>1, <4>4
    <3> QED BY <3>1, <3>2
  <2> QED BY <2>1 DEF IInv, LockInv, EntryInv
<1>4. ASSUME NEW u \in Woken(r) PROVE waker[u] \in {"Pending", "Registered"} /\ \E k \in Keys : k = Current(u) /\ u \in r[k].woken
  <2>1. PICK k \in Keys : u \in r[k].woken BY DEF Woken
  <2> QED BY <1>3, <2>1 DEF Waits
<1>5. waker'[v] = "none" BY <1>1, <1>4
<1>6. ASSUME NEW k \in Keys, NEW t \in Tasks, NEW u \in Tasks, t # v, Waits(t, k), waker'[t] = waker[t], Holds(u, k)', ~Holds(u, k)
      PROVE  InTurn(t, u, k)
  <2>1. u # v BY <1>5, <1>6 DEF Holds, Granted
  <2>2. Current(u)' = Current(u) /\ waker'[u] = Wakers(r)[u] BY <2>1 DEF Current, Stays
  <2>3. waker'[u] = "Woken" /\ waker[u] # "Woken" /\ Current(u) = k
    BY <1>6, <2>1, <2>2 DEF Holds, Granted, Stays
  <2>4. u \in r[k].woken BY <1>1, <1>4, <2>2, <2>3
  <2>5. t \notin r[k].woken BY <1>1, <1>6 DEF Woken, Waits
  <2>6. Has(lock[k].queue, t) BY <1>6 DEF IInv, LockInv, EntryInv
  <2>7. CASE First(r[k].woken, lock[k].queue) BY <1>2, <2>4, <2>5, <2>6, <2>7, FirstBefore DEF InTurn
  <2>8. CASE Has(lock[k].queue, v) /\ First(r[k].woken, Without(lock[k].queue, v))
    <3> DEFINE q == Without(lock[k].queue, v)
    <3>1. q \in Seq(Tasks) /\ Has(q, t) BY <1>2, <1>6, <2>6, <2>8, WithoutSound
    <3>2. First(r[k].woken, q) BY <2>8
    <3> HIDE DEF q
    <3>3. Before(q, u, t) BY <2>4, <2>5, <3>1, <3>2, FirstBefore
    <3>4. Before(lock[k].queue, u, t) BY <1>2, <2>8, <3>3, WithoutBefore DEF q
    <3> QED BY <3>4 DEF InTurn
  <2> QED BY <2>7, <2>8
<1>7. waker[v] \in {"Pending", "Registered"} => waker'[v] # waker[v] BY <1>5
<1> QED BY <1>6, <1>7, InOrderIf

\* The entries of locks that are dropped.
LEMMA DropLocksFirst ==
  ASSUME IInv, NEW keys, NEW s, NEW k \in Keys
  PROVE  First(DropLocks(keys, s)[k].woken, lock[k].queue)
<1>1. lock[k] \in EntryType BY DEF IInv, LockType, EntryType
<1>2. First(Unwoken(lock[k]).woken, lock[k].queue) /\ First(DropLock(lock[k], s).woken, lock[k].queue)
  BY <1>1, ResultFirst
<1> QED BY <1>2 DEF DropLocks

\* So the steps that give locks back grant in order.
LEMMA DropOrder ==
  ASSUME IInv, NEW v \in Tasks, EndReread(v) \/ DropWriteLocks(v) \/ DropReadLocks(v)
  PROVE  GrantInOrder
<1>1. TaskType /\ Stage(v) BY DEF IInv, Shape
<1>2. waker[v] = "none" BY <1>1 DEF Stage, Locking, EndReread, DropWriteLocks, DropReadLocks
<1>3. PICK keys, s : waker' = Wakers(DropLocks(keys, s)) BY DEF EndReread, DropWriteLocks, DropReadLocks
<1> DEFINE r == DropLocks(keys, s)
<1>4. \A k \in Keys : First(r[k].woken, lock[k].queue) BY DropLocksFirst
<1>5. waker' = Wakers(r) BY <1>3
<1> HIDE DEF r
<1>6. Stays(v) /\ rd'[v] \subseteq rd[v] /\ wr'[v] \subseteq wr[v]
  <2>1. CASE EndReread(v) BY <1>1, <2>1 DEF EndReread, TaskType, Stays
  <2>2. CASE DropWriteLocks(v) BY <1>1, <2>2 DEF DropWriteLocks, TaskType, Stays
  <2>3. CASE DropReadLocks(v) BY <1>1, <2>3 DEF DropReadLocks, TaskType, Stays
  <2> QED BY <2>1, <2>2, <2>3
<1> QED BY <1>2, <1>4, <1>5, <1>6, ReleaseOrder

\* commit_and_continue grants in order when it downgrades its locks.
LEMMA DowngradeOrder == ASSUME IInv, NEW v \in Tasks, Downgrade(v) PROVE GrantInOrder
<1> DEFINE r == [k \in Keys |-> IF k \in wr[v] THEN DowngradeLock(lock[k]) ELSE Unwoken(lock[k])]
<1>1. TaskType /\ Stage(v) BY DEF IInv, Shape
<1>2. waker[v] = "none" BY <1>1 DEF Stage, Locking, Downgrade
<1>3. waker' = Wakers(r) /\ UNCHANGED <<todo, rd, wr>> BY DEF Downgrade
<1>4. ASSUME NEW k \in Keys PROVE First(r[k].woken, lock[k].queue)
  <2>1. lock[k] \in EntryType BY DEF IInv, LockType, EntryType
  <2>2. First(Unwoken(lock[k]).woken, lock[k].queue) /\ First(DowngradeLock(lock[k]).woken, lock[k].queue)
    BY <2>1, ResultFirst
  <2> QED BY <2>2
<1> HIDE DEF r
<1>5. Stays(v) BY <1>3 DEF Stays
<1> QED BY <1>2, <1>3, <1>4, <1>5, ReleaseOrder

\* So does a future that is dropped while it waits, or after its grant.
LEMMA CancelOrder == ASSUME IInv, NEW v \in Tasks, Cancel(v) PROVE GrantInOrder
<1>1. TaskType /\ Shape BY DEF IInv
<1>2. waker[v] # "none" BY DEF Cancel
<1> PICK c \in Keys : c = Current(v) BY <1>1, <1>2, Waiter
<1> DEFINE e == lock[c]
           w == IF waker[v] # "Woken" THEN RemoveWaker(e, v)
                ELSE IF IsUpgrade(v) THEN DowngradeLock(e)
                ELSE DropLock(e, Target(v))
           r == One(c, w)
<1>3. /\ waker' = [Wakers(r) EXCEPT ![v] = "none"] /\ todo' = [todo EXCEPT ![v] = {}] /\ UNCHANGED <<rd, wr>>
  BY DEF Cancel
<1>4. \A k \in Keys : lock[k] \in EntryType BY DEF IInv, LockType, EntryType
<1>5. \/ First(w.woken, lock[c].queue)
      \/ Has(lock[c].queue, v) /\ First(w.woken, Without(lock[c].queue, v))
  <2>1. EntryInv(c) BY DEF IInv, LockInv
  <2>2. CASE waker[v] # "Woken"
    <3>1. Waits(v, c) BY <1>1, <1>2, <2>2 DEF Waits, TaskType
    <3>2. Has(e.queue, v) /\ NoRepeats(e.queue) /\ e \in EntryType BY <1>4, <2>1, <3>1 DEF EntryInv, Line
    <3> HIDE DEF e
    <3>3. First(RemoveWaker(e, v).woken, Without(e.queue, v)) BY <3>2, RemoveFirst
    <3> QED BY <2>2, <3>2, <3>3 DEF e
  <2>3. CASE waker[v] = "Woken" /\ IsUpgrade(v)
    <3>1. First(DowngradeLock(e).woken, e.queue) BY <1>4, ResultFirst
    <3> QED BY <2>3, <3>1
  <2>4. CASE waker[v] = "Woken" /\ ~IsUpgrade(v)
    <3>1. First(DropLock(e, Target(v)).woken, e.queue) BY <1>4, ResultFirst
    <3> QED BY <2>4, <3>1
  <2> QED BY <2>2, <2>3, <2>4
<1>6. \A k \in Keys : r[k] = IF k = c THEN w ELSE Unwoken(lock[k]) BY DEF One
<1> HIDE DEF w, r
<1>7. ASSUME NEW k \in Keys
      PROVE  \/ First(r[k].woken, lock[k].queue)
             \/ Has(lock[k].queue, v) /\ First(r[k].woken, Without(lock[k].queue, v))
  <2>1. First(Unwoken(lock[k]).woken, lock[k].queue) BY <1>4, ResultFirst
  <2> QED BY <1>5, <1>6, <2>1
<1>8. Stays(v) BY <1>1, <1>3 DEF Stays, TaskType
<1>9. waker'[v] = "none" /\ \A u \in Tasks \ {v} : waker'[u] = Wakers(r)[u]
  <2>1. DOMAIN Wakers(r) = Tasks BY DEF Wakers
  <2> QED BY <1>3, <2>1 DEF Wakers
<1> QED BY <1>3, <1>7, <1>8, <1>9, ReleaseOrder

\* Every step grants in order.
LEMMA NextInOrder == IInv /\ Next => GrantInOrder
<1> SUFFICES ASSUME IInv, Next PROVE GrantInOrder OBVIOUS
<1>1. PICK v \in Tasks : \/ Run(v) \/ Start(v) \/ Cancel(v) \/ AddCancel(v) \/ ReserveFails(v)
                         \/ Reread(v) \/ Downgrade(v)
  BY DEF Next
<1> QED BY <1>1, QuietOrder, WaitOrder, TakeOrder, DropOrder, DowngradeOrder, CancelOrder DEF Run

\* No grant overtakes a waiter: wake(), is_allowed and the removal of a dropped
\* waker keep the order of the list, but for reads of what a transaction has
\* locked and does not upgrade.
THEOREM GrantedInOrder == Spec => InOrder
<1>1. IInv /\ [Next]_vars => [GrantInOrder]_vars BY NextInOrder
<1> QED BY <1>1, Invariance, PTL DEF Spec, InOrder
=============================================================================
