------------------------------ MODULE PortProofs ------------------------------
(***************************************************************************)
(* What a port guarantees for any number of threads, objects, observers    *)
(* and keys: the counts are exact, every queued packet has a wakeup, a     *)
(* wait delivers at most one packet and none after it was canceled, and    *)
(* each observer has one owner.  That no observer is used after it was     *)
(* destroyed needs a condition on the programs (Serialized).               *)
(***************************************************************************)
EXTENDS Port, FiniteSetTheorems, SequenceTheorems, NaturalsInduction, WellFoundedInduction, TLAPS

\* The stretches of a call: it uses the observer cur[t]; it holds the lock of
\* the object obj[t]; it has unlinked cur[t] and is to destroy it.
Use == {"add", "match", "post", "reap"}
Hold == {"match", "post", "reap", "loop"}
Drop == {"remove", "removed"}

\* The control points of each system call.
At(o) ==
  IF o = "wait_async" THEN Use
  ELSE IF o = "signal" THEN Hold
  ELSE IF o = "close_object" THEN {"acquire", "loop", "reap"}
  ELSE IF o = "cancel" THEN {"cancel", "acquire", "loop", "reap", "cancel_queued"}
  ELSE IF o = "cancel_key" THEN {"cancel_key"} \cup Drop
  ELSE IF o = "queue" THEN {"queue", "post_user"}
  ELSE IF o = "dequeue" THEN {"dequeue", "pop_irq", "pop"}
  ELSE IF o = "close_port" THEN {"zero"} \cup Drop
  ELSE {"idle"}

\* TypeOK but for the count of user packets, in parts.
PortTypes ==
  /\ zero \in BOOLEAN /\ portOpen \in BOOLEAN
  /\ packets \in Seq(Packets) /\ sema \in Nat
  /\ irqs \in Seq(IrqPackets) /\ irqPosts \in Nat
  /\ observers \subseteq Observers /\ size \in 0 .. 2^SizeBits - 1
ObserverTypes ==
  /\ life \in [Observers -> {"none", "live", "destroyed"}]
  /\ odisp \in [Observers -> Objects \cup {Null}]
  /\ oobj \in [Observers -> Objects \cup {Null}] /\ okey \in [Observers -> Keys \cup {NoKey}]
  /\ canceled \subseteq Observers /\ owned \subseteq Observers
ObjectTypes ==
  /\ active \subseteq Objects /\ open \subseteq Objects
  /\ dobs \in [Objects -> SUBSET Observers] /\ dlock \in [Objects -> Threads \cup {Null}]
ThreadTypes ==
  /\ pc \in [Threads -> PCs] /\ op \in [Threads -> Ops \cup {"none"}]
  /\ obj \in [Threads -> Objects \cup {Null}] /\ key \in [Threads -> Keys \cup {NoKey}]
  /\ edge \in [Threads -> BOOLEAN] /\ cur \in [Threads -> Observers \cup {Null}]
  /\ temp \in [Threads -> SUBSET Observers] /\ excp \subseteq Threads
GhostTypes ==
  /\ covers \in [Threads -> SUBSET Observers] /\ finished \subseteq Observers
  /\ got \in [Observers -> Nat]
Types == PortTypes /\ ObserverTypes /\ ObjectTypes /\ ThreadTypes /\ GhostTypes

\* Where a thread is, and what it has in hand there.
Thread(t) ==
  /\ pc[t] \in At(op[t])
  /\ cur[t] # Null <=> pc[t] \in Use \cup Drop
  /\ obj[t] # Null <=> pc[t] \in Use \cup Hold \cup Drop \cup {"acquire", "cancel", "cancel_queued"}
  /\ op[t] \in {"cancel", "cancel_key", "queue"} => key[t] \in Keys
  /\ temp[t] # {} => op[t] = "cancel_key" /\ pc[t] \in Drop
  /\ covers[t] # {} => (op[t] = "cancel" /\ pc[t] # "cancel") \/ (op[t] = "cancel_key" /\ pc[t] \in Drop)
  /\ op[t] = "wait_async" => portOpen /\ obj[t] \in open
  /\ pc[t] \in Use => obj[t] = oobj[cur[t]]
Control == \A t \in Threads : Thread(t)

\* The lock of an object is held by the thread that visits its observers.
Locks == \A b \in Objects, t \in Threads : dlock[b] = t <=> pc[t] \in Hold /\ obj[t] = b

\* The port is closed by one thread, packets first and then observers.
Closing ==
  /\ \A t \in Threads : op[t] = "close_port" => ~portOpen /\ (pc[t] \in Drop => zero /\ packets = <<>>)
  /\ \A t, u \in Threads : op[t] = "close_port" /\ op[u] = "close_port" => t = u
  /\ zero => ~portOpen
  /\ ~portOpen => \/ \E t \in Threads : op[t] = "close_port"
                  \/ zero /\ packets = <<>> /\ observers = {}

\* An observer is queued at most once.
Single(s) == \A i, j \in 1 .. Len(s) : s[i] \in Observers /\ s[i] = s[j] => i = j
Once == Single(packets)

\* Who uses an observer, and who has unlinked it.
Uses(t, o) == cur[t] = o /\ pc[t] \in Use
Drops(t, o) == cur[t] = o /\ pc[t] \in Drop
\* It may still be queued; it will not be.
Early(o) == \/ \E b \in Objects : o \in dobs[b]
            \/ \E t \in Threads : Uses(t, o) /\ pc[t] \in {"add", "match"}
Silent(o) == zero \/ o \in canceled \/ ~Early(o)

\* An observer not made yet is nowhere.
Unmade(o) ==
  life[o] = "none" =>
    /\ o \notin observers \cup owned \cup canceled /\ ~InQueue(o)
    /\ odisp[o] = Null /\ got[o] = 0
    /\ \A b \in Objects : o \notin dobs[b]
    /\ \A t \in Threads : cur[t] # o /\ o \notin temp[t]

\* It is with its object, then with one thread that runs OnMatch or OnCancel.
\* It is queued only after that began, and once.
Course(o) ==
  /\ life[o] # "none" => oobj[o] \in Objects /\ okey[o] \in Keys
  /\ \A b \in Objects : o \in dobs[b] => oobj[o] = b /\ \A t \in Threads : ~Uses(t, o)
  /\ \A t, u \in Threads : Uses(t, o) /\ Uses(u, o) => t = u
  /\ Early(o) => got[o] = 0 /\ ~InQueue(o)
  /\ got[o] <= 1 /\ (InQueue(o) => got[o] = 0)

\* It has one owner while it lives, and the owner knows what it has.
Owned(o) ==
  /\ life[o] = "live" <=> \/ o \in observers \/ o \in owned
                          \/ \E t \in Threads : o \in temp[t] \/ Drops(t, o)
  /\ o \in observers => o \notin owned /\ \A t \in Threads : o \notin temp[t] /\ ~Drops(t, o)
  /\ o \in owned => \A t \in Threads : o \notin temp[t] /\ ~Drops(t, o)
  /\ \A t, u \in Threads : o \in temp[t] => ~Drops(u, o) /\ (o \in temp[u] => t = u)
  /\ \A t, u \in Threads : Drops(t, o) /\ Drops(u, o) => t = u
  /\ o \in observers => o \notin canceled
  /\ o \in owned => InQueue(o) /\ ~Early(o) /\ \A t \in Threads : ~Uses(t, o)
  /\ \A t \in Threads : o \in temp[t] \/ (Drops(t, o) /\ op[t] = "cancel_key") => o \in canceled
  /\ o \in canceled => ~InQueue(o)
  /\ InQueue(o) => life[o] = "live"

\* dispatcher_ is set while the observer is in a list; it has not been reaped.
Linked(o) ==
  /\ odisp[o] # Null <=> o \in observers \/ \E t \in Threads : o \in temp[t]
  /\ odisp[o] # Null =>
       /\ odisp[o] = oobj[o]
       /\ o \in dobs[oobj[o]] \/ \E t \in Threads : Uses(t, o)
       /\ \/ odisp[o] \in open
          \/ \E t \in Threads : op[t] = "close_object" /\ obj[t] = odisp[o]

\* A thread that unlinked an observer holds a reference to its object.
Refers(o) == \A t \in Threads : Drops(t, o) => obj[t] = oobj[o]

\* A canceled wait is silent: when the cancel has returned, and during it once
\* the observer cannot be queued any more.
Cancelled(o) ==
  /\ life[o] = "none" => o \notin finished /\ \A t \in Threads : o \notin covers[t]
  /\ o \in finished => ~InQueue(o) /\ Silent(o)
  /\ \A t \in Threads : o \in covers[t] =>
       /\ op[t] = "cancel_key" => ~InQueue(o) /\ Silent(o)
       /\ op[t] = "cancel" => /\ oobj[o] = obj[t] /\ okey[o] = key[t]
                              /\ \A u \in Threads : Uses(u, o) => op[u] # "wait_async"
                              /\ pc[t] = "cancel_queued" => ~Early(o)

\* Until it is reaped, canceled or the port is closed, it is in observers_.
Waiting(o) == Early(o) => zero \/ o \in canceled \/ o \in observers

Placed(o) == Unmade(o) /\ Course(o) /\ Owned(o) /\ Refers(o) /\ Waiting(o)
Observing == \A o \in Observers : Placed(o) /\ Linked(o) /\ Cancelled(o)

\* The inductive invariant.
IInv == Types /\ Control /\ Locks /\ Closing /\ Once /\ Observing /\ EphemeralCounted /\ NoLostPacket

\* What Serialized adds: an observer is with the port until its object has it,
\* and nobody refers to one that is about to be destroyed or has been.
Safe(o) ==
  /\ \A t \in Threads : cur[t] = o /\ pc[t] = "add" => o \in observers
  /\ life[o] = "destroyed" \/ (\E t \in Threads : cur[t] = o /\ pc[t] = "removed") =>
       /\ \A b \in Objects : o \notin dobs[b]
       /\ \A t \in Threads : ~Uses(t, o)
Programs == \A t \in Threads : op[t] \in Prog[t] \cup {"none"}
SafeInv == Programs /\ \A o \in Observers : Safe(o)
-----------------------------------------------------------------------------
\* A set of numbers that is not empty has a least one.
LEMMA LeastNat == ASSUME NEW S \in SUBSET Nat, NEW x \in S PROVE \E m \in S : \A j \in S : m <= j
<1>1. PICK m \in S : \A j \in S : ~(<<j, m>> \in OpToRel(<, Nat))
  BY NatLessThanWellFounded, WFMin, Zenon
<1>2. \A j \in S : ~(j < m)
  <2>1. \A j \in S : j \in Nat /\ m \in Nat
    OBVIOUS
  <2>2. \A j \in S : j < m => <<j, m>> \in OpToRel(<, Nat)
    BY <2>1, Zenon DEF OpToRel
  <2> QED BY <1>1, <2>2, Zenon
<1> QED BY <1>2

\* What Keep leaves: each element at a position of I, once.
Leaves(s, I, r) ==
  \E f \in [1 .. Len(r) -> I] :
    /\ \A a, b \in 1 .. Len(r) : f[a] = f[b] => a = b
    /\ \A i \in I : \E a \in 1 .. Len(r) : f[a] = i
    /\ \A a \in 1 .. Len(r) : r[a] = s[f[a]]

\* What Keep returns: the elements at the positions of I, each once.
LEMMA KeepSound ==
  ASSUME NEW S, NEW s \in Seq(S), NEW I \in SUBSET (1 .. Len(s))
  PROVE  Keep(s, I) \in Seq(S) /\ Leaves(s, I, Keep(s, I))
<1> DEFINE n == Len(s)
           Step(r, i) == IF i \in I THEN Append(r, s[i]) ELSE r
           Run(g, m) == g[0] = <<>> /\ \A i \in 1 .. m : g[i] = Step(g[i - 1], i)
           Eqn(g) == g = [i \in 0 .. n |-> IF i = 0 THEN <<>> ELSE IF i \in I THEN Append(g[i - 1], s[i]) ELSE g[i - 1]]
           F == CHOOSE g : Eqn(g)
<1>1. n \in Nat /\ (\A i \in 1 .. n : s[i] \in S) /\ \A i \in I : i \in Nat /\ 1 <= i /\ i <= n
  BY LenProperties
<1>2. \E g \in [0 .. n -> Seq(S)] : Run(g, n)
  <2> DEFINE T == {m \in 0 .. n : ~\E g \in [0 .. m -> Seq(S)] : Run(g, m)}
  <2>1. SUFFICES ASSUME n \in T PROVE FALSE BY <1>1
  <2>2. PICK m \in T : \A j \in T : m <= j
    <3>1. T \in SUBSET Nat OBVIOUS
    <3> HIDE DEF T
    <3> QED BY <2>1, <3>1, LeastNat
  <2>3. CASE m = 0
    <3>1. Run([i \in 0 .. 0 |-> <<>>], 0) /\ [i \in 0 .. 0 |-> <<>>] \in [0 .. 0 -> Seq(S)] OBVIOUS
    <3> QED BY <2>2, <2>3, <3>1
  <2>4. CASE m # 0
    <3>1. m - 1 \in 0 .. n /\ m \in 1 .. n /\ ~(m <= m - 1) BY <1>1, <2>2, <2>4
    <3>2. PICK g \in [0 .. m - 1 -> Seq(S)] : Run(g, m - 1) BY <2>2, <3>1
    <3> DEFINE h == [i \in 0 .. m |-> IF i = m THEN Step(g[m - 1], m) ELSE g[i]]
    <3>3. g[m - 1] \in Seq(S) /\ s[m] \in S BY <1>1, <3>1, <3>2
    <3>4. Step(g[m - 1], m) \in Seq(S) BY <3>3
    <3>5. h \in [0 .. m -> Seq(S)] BY <3>1, <3>2, <3>4
    <3>6. h[0] = <<>> BY <3>1, <3>2
    <3>7. ASSUME NEW i \in 1 .. m PROVE h[i] = Step(h[i - 1], i)
      <4> HIDE DEF Step
      <4>1. i - 1 \in 0 .. m /\ i - 1 # m /\ i \in 0 .. m BY <3>1, <3>7
      <4>2. h[i - 1] = g[i - 1] BY <4>1
      <4>3. CASE i = m BY <4>1, <4>2, <4>3
      <4>4. CASE i # m
        <5>1. i \in 1 .. m - 1 BY <3>1, <3>7, <4>4
        <5>2. g[i] = Step(g[i - 1], i) BY <3>2, <5>1
        <5>3. h[i] = g[i] BY <4>1, <4>4
        <5> QED BY <4>2, <5>2, <5>3
      <4> QED BY <4>3, <4>4
    <3> HIDE DEF h
    <3> QED BY <2>2, <3>5, <3>6, <3>7
  <2> QED BY <2>3, <2>4
<1>3. PICK g \in [0 .. n -> Seq(S)] : Run(g, n) BY <1>2
<1>4. Eqn(g)
  <2>1. \A i \in 0 .. n : i # 0 => i \in 1 .. n BY <1>1
  <2> QED BY <1>1, <1>3, <2>1
<1>5. Eqn(F) BY <1>4, Zenon
<1>6. Keep(s, I) = F[n] BY DEF Keep
<1> HIDE DEF F
<1>7. F[0] = <<>> /\ \A i \in 1 .. n : F[i] = Step(F[i - 1], i)
  <2>1. 0 \in 0 .. n /\ \A i \in 1 .. n : i \in 0 .. n /\ i # 0 BY <1>1
  <2>2. \A i \in 0 .. n : F[i] = IF i = 0 THEN <<>> ELSE IF i \in I THEN Append(F[i - 1], s[i]) ELSE F[i - 1]
    BY <1>5, Zenon
  <2> QED BY <2>1, <2>2
<1> DEFINE J(m) == {i \in I : i <= m}
           Good(m) == F[m] \in Seq(S) /\ Leaves(s, J(m), F[m])
<1>8. Good(n)
  <2> DEFINE T == {m \in 0 .. n : ~Good(m)}
  <2>1. SUFFICES ASSUME n \in T PROVE FALSE BY <1>1
  <2>2. PICK m \in T : \A j \in T : m <= j
    <3>1. T \in SUBSET Nat OBVIOUS
    <3> HIDE DEF T
    <3> QED BY <2>1, <3>1, LeastNat
  <2>3. CASE m = 0
    <3>1. J(0) = {} /\ Len(<<>>) = 0 BY <1>1
    <3>2. Leaves(s, {}, <<>>)
      <4>1. [a \in 1 .. 0 |-> 0] \in [1 .. 0 -> {}] OBVIOUS
      <4> QED BY <4>1 DEF Leaves
    <3>3. F[0] = <<>> BY <1>7
    <3>4. Good(0) BY <3>1, <3>2, <3>3
    <3> QED BY <2>2, <2>3, <3>4
  <2>4. CASE m # 0
    <3>1. m - 1 \in 0 .. n /\ m \in 1 .. n /\ ~(m <= m - 1) BY <1>1, <2>2, <2>4
    <3>2. Good(m - 1) BY <2>2, <3>1
    <3>3. F[m] = Step(F[m - 1], m) BY <1>7, <3>1
    <3>0. \A i \in I : i <= m <=> i <= m - 1 \/ i = m
      <4>1. m \in Int /\ \A i \in I : i \in Int BY <1>1, <3>1
      <4> QED BY <4>1
    <3> DEFINE r == F[m - 1]
    <3>4. r \in Seq(S) /\ Leaves(s, J(m - 1), r) BY <3>2
    <3> HIDE DEF r
    <3>5. CASE m \notin I
      <4>1. J(m) = J(m - 1) BY <3>0, <3>5
      <4>2. F[m] = r BY <3>3, <3>5 DEF r
      <4> QED BY <2>2, <3>4, <4>1, <4>2
    <3>6. CASE m \in I
      <4>1. F[m] = Append(r, s[m]) /\ s[m] \in S BY <1>1, <3>1, <3>3, <3>6 DEF r
      <4>2. J(m) = J(m - 1) \cup {m} BY <3>0, <3>6
      <4>3. PICK f \in [1 .. Len(r) -> J(m - 1)] :
              /\ \A a, b \in 1 .. Len(r) : f[a] = f[b] => a = b
              /\ \A i \in J(m - 1) : \E a \in 1 .. Len(r) : f[a] = i
              /\ \A a \in 1 .. Len(r) : r[a] = s[f[a]]
        BY <3>4 DEF Leaves
      <4> DEFINE q == Append(r, s[m])
                 h == [a \in 1 .. Len(r) + 1 |-> IF a = Len(r) + 1 THEN m ELSE f[a]]
      <4>4. /\ q \in Seq(S) /\ Len(q) = Len(r) + 1 /\ Len(r) \in Nat
            /\ q[Len(r) + 1] = s[m] /\ \A a \in 1 .. Len(r) : q[a] = r[a]
        BY <3>4, <4>1, AppendProperties, LenProperties
      <4> HIDE DEF q
      <4>5. \A a \in 1 .. Len(r) + 1 : a = Len(r) + 1 \/ a \in 1 .. Len(r) BY <4>4
      <4>6. \A a \in 1 .. Len(r) : f[a] \in J(m - 1) /\ f[a] # m BY <3>1, <4>3
      <4>7. h \in [1 .. Len(q) -> J(m)] BY <4>2, <4>4, <4>5, <4>6
      <4>8. \A a, b \in 1 .. Len(q) : h[a] = h[b] => a = b BY <4>3, <4>4, <4>5, <4>6
      <4>9. \A i \in J(m) : \E a \in 1 .. Len(q) : h[a] = i
        <5>1. ASSUME NEW i \in J(m - 1) PROVE \E a \in 1 .. Len(q) : h[a] = i
          <6>1. PICK a \in 1 .. Len(r) : f[a] = i BY <4>3
          <6>2. a \in 1 .. Len(q) /\ a \in 1 .. Len(r) + 1 /\ a # Len(r) + 1 BY <4>4
          <6> QED BY <6>1, <6>2
        <5>2. Len(r) + 1 \in 1 .. Len(q) /\ h[Len(r) + 1] = m BY <4>4
        <5> QED BY <4>2, <5>1, <5>2
      <4>10. \A a \in 1 .. Len(q) : q[a] = s[h[a]] BY <4>3, <4>4, <4>5
      <4> HIDE DEF h
      <4>11. Leaves(s, J(m), q) BY <4>7, <4>8, <4>9, <4>10 DEF Leaves
      <4> QED BY <2>2, <4>1, <4>4, <4>11 DEF q
    <3> QED BY <3>5, <3>6
  <2> QED BY <2>3, <2>4
<1>9. J(n) = I BY <1>1
<1> QED BY <1>6, <1>8, <1>9
-----------------------------------------------------------------------------
\* A list r, left of s, has no more of anything.
Fewer(s, I, r) ==
  /\ Len(r) <= Len(s)
  /\ \A x : Has(r, x) <=> \E i \in I : s[i] = x
  /\ Single(s) => Single(r)
  /\ Users(r) = Cardinality({i \in I : s[i] \notin Observers})
\* What Keep, Tail and SubSeq leave has no more of anything.
LEMMA LeavesSound ==
  ASSUME NEW S, NEW s \in Seq(S), NEW r \in Seq(S), NEW I \in SUBSET (1 .. Len(s)), Leaves(s, I, r)
  PROVE  Fewer(s, I, r)
<1>1. PICK f \in [1 .. Len(r) -> I] :
        /\ \A a, b \in 1 .. Len(r) : f[a] = f[b] => a = b
        /\ \A i \in I : \E a \in 1 .. Len(r) : f[a] = i
        /\ \A a \in 1 .. Len(r) : r[a] = s[f[a]]
  BY DEF Leaves
<1>2. Len(r) \in Nat /\ Len(s) \in Nat BY LenProperties
<1>3. Len(r) <= Len(s)
  <2>1. f \in Injection(1 .. Len(r), 1 .. Len(s)) BY <1>1 DEF Injection, IsInjective
  <2>2. \A n \in Nat : IsFiniteSet(1 .. n) /\ Cardinality(1 .. n) = n BY FS_Interval
  <2> QED BY <1>2, <2>1, <2>2, FS_Injection
<1>4. ASSUME NEW x PROVE Has(r, x) <=> \E i \in I : s[i] = x
  <2>1. ASSUME NEW a \in 1 .. Len(r), r[a] = x PROVE \E i \in I : s[i] = x
    <3>1. f[a] \in I /\ s[f[a]] = x BY <1>1, <2>1
    <3> QED BY <3>1
  <2>2. ASSUME NEW i \in I, s[i] = x PROVE \E a \in 1 .. Len(r) : r[a] = x BY <1>1, <2>2
  <2> QED BY <2>1, <2>2 DEF Has
<1>5. ASSUME Single(s) PROVE Single(r)
  <2>1. ASSUME NEW a \in 1 .. Len(r), NEW b \in 1 .. Len(r), r[a] \in Observers, r[a] = r[b] PROVE a = b
    <3>1. f[a] \in 1 .. Len(s) /\ f[b] \in 1 .. Len(s) /\ s[f[a]] = s[f[b]] /\ s[f[a]] \in Observers
      BY <1>1, <2>1
    <3>2. f[a] = f[b] BY <1>5, <3>1 DEF Single
    <3> QED BY <1>1, <3>2
  <2> QED BY <2>1 DEF Single
<1>6. Users(r) = Cardinality({i \in I : s[i] \notin Observers})
  <2> DEFINE A == {a \in 1 .. Len(r) : r[a] \notin Observers}
             B == {i \in I : s[i] \notin Observers}
             g == [a \in A |-> f[a]]
  <2>1. g \in [A -> B] BY <1>1
  <2>2. \A a, b \in A : g[a] = g[b] => a = b BY <1>1
  <2>3. \A i \in B : \E a \in A : g[a] = i BY <1>1
  <2>4. IsFiniteSet(A)
    <3>1. IsFiniteSet(1 .. Len(r)) /\ A \in SUBSET (1 .. Len(r)) BY <1>2, FS_Interval
    <3> QED BY <3>1, FS_Subset
  <2>5. Users(r) = Cardinality(A) BY DEF Users
  <2> HIDE DEF A, B, g
  <2>6. g \in Bijection(A, B) BY <2>1, <2>2, <2>3 DEF Bijection, Injection, Surjection, IsInjective
  <2>7. ExistsBijection(A, B) BY <2>6 DEF ExistsBijection
  <2>8. Cardinality(B) = Cardinality(A) BY <2>4, <2>7, FS_Bijection
  <2> QED BY <2>5, <2>8 DEF B
<1> QED BY <1>3, <1>4, <1>5, <1>6 DEF Fewer

\* The first packets are taken off.
LEMMA DropSound ==
  ASSUME NEW S, NEW s \in Seq(S), NEW n \in 0 .. Len(s)
  PROVE  LET r == SubSeq(s, n + 1, Len(s)) IN r \in Seq(S) /\ Leaves(s, n + 1 .. Len(s), r)
<1> DEFINE r == SubSeq(s, n + 1, Len(s))
<1>1. Len(s) \in Nat /\ n \in Nat /\ n <= Len(s) /\ \A i \in n + 1 .. Len(s) : s[i] \in S
  BY LenProperties
<1>2. r \in Seq(S) /\ Len(r) = Len(s) - n /\ \A i \in 1 .. Len(s) - n : r[i] = s[n + i]
  BY <1>1, SubSeqProperties
<1> HIDE DEF r
<1> DEFINE f == [i \in 1 .. Len(r) |-> n + i]
<1>3. f \in [1 .. Len(r) -> n + 1 .. Len(s)] BY <1>1, <1>2
<1>4. \A a, b \in 1 .. Len(r) : f[a] = f[b] => a = b BY <1>1, <1>2
<1>5. \A i \in n + 1 .. Len(s) : \E a \in 1 .. Len(r) : f[a] = i
  <2>1. \A i \in n + 1 .. Len(s) : i - n \in 1 .. Len(r) /\ n + (i - n) = i BY <1>1, <1>2
  <2> QED BY <2>1
<1>6. \A a \in 1 .. Len(r) : r[a] = s[f[a]] BY <1>2
<1> HIDE DEF f
<1>7. Leaves(s, n + 1 .. Len(s), r) BY <1>3, <1>4, <1>5, <1>6 DEF Leaves
<1> QED BY <1>2, <1>7 DEF r

\* What taking the first packet leaves.
LEMMA TailSound ==
  ASSUME NEW S, NEW s \in Seq(S), s # <<>>
  PROVE  Tail(s) \in Seq(S) /\ Leaves(s, 2 .. Len(s), Tail(s)) /\ Head(s) = s[1] /\ Len(s) > 0
         /\ Len(Tail(s)) = Len(s) - 1
<1>1. Len(s) \in Nat /\ Len(s) > 0 /\ Head(s) = s[1] BY LenProperties, EmptySeq
<1>2. Tail(s) = SubSeq(s, 2, Len(s)) BY TailIsSubSeq
<1>3. Leaves(s, 1 + 1 .. Len(s), SubSeq(s, 1 + 1, Len(s))) BY <1>1, DropSound
<1>4. Tail(s) \in Seq(S) /\ Len(Tail(s)) = Len(s) - 1 BY HeadTailProperties
<1>5. 1 + 1 = 2 OBVIOUS
<1> QED BY <1>1, <1>2, <1>3, <1>4, <1>5

\* The user packets among some positions of a queue are counted by a number.
LEMMA UserCount ==
  ASSUME NEW S, NEW s \in Seq(S), NEW I \in SUBSET (1 .. Len(s))
  PROVE  /\ IsFiniteSet({i \in I : s[i] \notin Observers})
         /\ Cardinality({i \in I : s[i] \notin Observers}) \in Nat
         /\ Users(s) \in Nat /\ Cardinality({i \in I : s[i] \notin Observers}) <= Users(s)
<1> DEFINE A == {i \in 1 .. Len(s) : s[i] \notin Observers}
           B == {i \in I : s[i] \notin Observers}
<1>1. Len(s) \in Nat /\ IsFiniteSet(1 .. Len(s)) BY LenProperties, FS_Interval
<1>2. A \in SUBSET (1 .. Len(s)) /\ B \in SUBSET A OBVIOUS
<1>3. Users(s) = Cardinality(A) BY DEF Users
<1> HIDE DEF A, B
<1>4. IsFiniteSet(A) BY <1>1, <1>2, FS_Subset
<1>5. IsFiniteSet(B) /\ Cardinality(B) <= Cardinality(A) BY <1>2, <1>4, FS_Subset
<1>6. Cardinality(A) \in Nat /\ Cardinality(B) \in Nat BY <1>4, <1>5, FS_CardinalityType
<1> QED BY <1>3, <1>5, <1>6 DEF B

\* A packet is added.
LEMMA AddSound ==
  ASSUME NEW S, NEW s \in Seq(S), NEW p \in S
  PROVE  /\ Append(s, p) \in Seq(S) /\ Len(Append(s, p)) = Len(s) + 1
         /\ \A x : Has(Append(s, p), x) <=> Has(s, x) \/ x = p
         /\ Single(s) /\ (p \in Observers => ~Has(s, p)) => Single(Append(s, p))
         /\ Users(Append(s, p)) = IF p \in Observers THEN Users(s) ELSE Users(s) + 1
<1> DEFINE r == Append(s, p)
           n == Len(s) + 1
<1>1. /\ r \in Seq(S) /\ Len(s) \in Nat /\ Len(r) = n /\ r[n] = p
      /\ \A i \in 1 .. Len(s) : r[i] = s[i]
  BY AppendProperties, LenProperties
<1> HIDE DEF r
<1>2. \A i \in 1 .. n : i \in 1 .. Len(s) \/ i = n BY <1>1
<1>3. n \in 1 .. n /\ n \notin 1 .. Len(s) /\ \A i \in 1 .. Len(s) : i \in 1 .. n BY <1>1
<1> HIDE DEF n
<1>4. \A x : Has(r, x) <=> Has(s, x) \/ x = p BY <1>1, <1>2, <1>3 DEF Has
<1>5. Single(s) /\ (p \in Observers => ~Has(s, p)) => Single(r) BY <1>1, <1>2, <1>3 DEF Single, Has
<1>6. Users(r) = IF p \in Observers THEN Users(s) ELSE Users(s) + 1
  <2> DEFINE A == {i \in 1 .. Len(s) : s[i] \notin Observers}
             B == {i \in 1 .. Len(r) : r[i] \notin Observers}
  <2>1. Users(s) = Cardinality(A) /\ Users(r) = Cardinality(B) BY DEF Users
  <2>2. IsFiniteSet(A) BY UserCount
  <2>3. n \notin A BY <1>3
  <2>4. B = IF p \in Observers THEN A ELSE A \cup {n} BY <1>1, <1>2, <1>3
  <2> HIDE DEF A, B
  <2> QED BY <2>1, <2>2, <2>3, <2>4, FS_AddElement
<1> QED BY <1>1, <1>4, <1>5, <1>6 DEF r, n
-----------------------------------------------------------------------------
(***************************************************************************)
(* What a step leaves alone.                                               *)
(***************************************************************************)
\* Only thread t moves.
Rest(t) ==
  \A u \in Threads \ {t} :
    /\ pc'[u] = pc[u] /\ op'[u] = op[u] /\ obj'[u] = obj[u] /\ key'[u] = key[u]
    /\ cur'[u] = cur[u] /\ covers'[u] = covers[u]

\* A thread that does not move keeps what it has in hand.
LEMMA RestControl ==
  ASSUME Control, NEW t \in Threads, Rest(t), \A u \in Threads \ {t} : temp'[u] \subseteq temp[u],
         \A u \in Threads \ {t} : op[u] = "wait_async" => portOpen' /\ obj[u] \in open',
         \A u \in Threads \ {t} : pc[u] \in Use => oobj'[cur[u]] = oobj[cur[u]],
         Thread(t)'
  PROVE  Control'
<1>1. ASSUME NEW u \in Threads \ {t} PROVE Thread(u)'
  <2>1. Thread(u) BY DEF Control
  <2> QED BY <2>1 DEF Thread, Rest
<1> QED BY <1>1 DEF Control

\* Nothing about closing the port changes for a step of another call.
LEMMA RestClosing ==
  ASSUME Closing, NEW t \in Threads, Rest(t), op[t] # "close_port", op'[t] # "close_port",
         UNCHANGED <<zero, portOpen>>, portOpen \/ observers' \subseteq observers,
         zero /\ packets = <<>> => packets' = <<>>
  PROVE  Closing'
<1>1. \A u \in Threads : op'[u] = "close_port" => u # t /\ op[u] = "close_port" /\ pc'[u] = pc[u]
  BY DEF Rest
<1>2. \A u \in Threads : op[u] = "close_port" => op'[u] = "close_port" BY DEF Rest
<1> QED BY <1>1, <1>2 DEF Closing

\* Where the lists, the threads and the object have observer o.
SameView(o) ==
  /\ odisp'[o] = odisp[o] /\ oobj'[o] = oobj[o] /\ okey'[o] = okey[o]
  /\ o \in canceled' <=> o \in canceled
  /\ o \in observers' <=> o \in observers
  /\ \A b \in Objects : o \in dobs'[b] <=> o \in dobs[b]
  /\ \A u \in Threads :
       /\ o \in temp'[u] <=> o \in temp[u]
       /\ cur'[u] = o <=> cur[u] = o
       /\ cur[u] = o => /\ op'[u] = op[u] /\ obj'[u] = obj[u]
                        /\ pc'[u] \in Use <=> pc[u] \in Use
                        /\ pc'[u] \in Drop <=> pc[u] \in Drop
                        /\ pc'[u] \in {"add", "match"} <=> pc[u] \in {"add", "match"}
\* Its packet stays where it is, or is taken off the queue, which destroys an
\* observer that the packet owns.
SamePacket(o) ==
  /\ InQueue(o)' <=> InQueue(o)
  /\ o \in owned' <=> o \in owned
  /\ life'[o] = life[o] /\ got'[o] = got[o]
TakenPacket(o) ==
  /\ InQueue(o) /\ ~InQueue(o)' /\ o \notin owned'
  /\ life'[o] = IF o \in owned THEN "destroyed" ELSE life[o]
  /\ got'[o] \in {got[o], got[o] + 1}

\* An observer seen in the same places may still be queued, or not, as before.
LEMMA ViewEarly == ASSUME NEW o, SameView(o) PROVE Early(o)' <=> Early(o)
BY DEF SameView, Early, Uses

\* An observer seen in the same places stays well placed, also when its packet
\* is taken off the queue.
LEMMA RestPlaced ==
  ASSUME ObserverTypes, GhostTypes, NEW o \in Observers, Placed(o), SameView(o),
         SamePacket(o) \/ TakenPacket(o), zero => zero'
  PROVE  Placed(o)'
<1>1. Early(o)' <=> Early(o) BY ViewEarly
<1>2. \A u \in Threads : (Uses(u, o)' <=> Uses(u, o)) /\ (Drops(u, o)' <=> Drops(u, o))
  BY DEF SameView, Uses, Drops
<1>3. life[o] \in {"none", "live", "destroyed"} /\ got[o] \in Nat BY DEF ObserverTypes, GhostTypes
<1>4. life'[o] = "none" <=> life[o] = "none" BY <1>3 DEF Placed, Unmade, SamePacket, TakenPacket
<1>5. Unmade(o)' BY <1>4 DEF Placed, Unmade, SameView, SamePacket, TakenPacket
<1>6. Course(o)'
  <2>1. life'[o] # "none" => oobj'[o] \in Objects /\ okey'[o] \in Keys
    BY <1>4 DEF Placed, Course, SameView
  <2>2. \A b \in Objects : o \in dobs'[b] => oobj'[o] = b /\ \A u \in Threads : ~Uses(u, o)'
    BY <1>2 DEF Placed, Course, SameView
  <2>3. \A u, v \in Threads : Uses(u, o)' /\ Uses(v, o)' => u = v BY <1>2 DEF Placed, Course
  <2>4. Early(o)' => got'[o] = 0 /\ ~InQueue(o)' BY <1>1 DEF Placed, Course, SamePacket, TakenPacket
  <2>5. got'[o] <= 1 /\ (InQueue(o)' => got'[o] = 0) BY <1>3 DEF Placed, Course, SamePacket, TakenPacket
  <2> QED BY <2>1, <2>2, <2>3, <2>4, <2>5 DEF Course
<1>7. Owned(o)'
  <2>1. \A u \in Threads : Drops(u, o) => (op'[u] = "cancel_key" <=> op[u] = "cancel_key")
    BY DEF SameView, Drops
  <2>2. CASE SamePacket(o) BY <1>1, <1>2, <2>1, <2>2 DEF Placed, Owned, SameView, SamePacket
  <2>3. CASE TakenPacket(o)
    <3>1. o \notin canceled' BY <2>3 DEF Placed, Owned, SameView, TakenPacket
    <3>2. CASE o \in owned
      BY <1>1, <1>2, <2>1, <2>3, <3>1, <3>2 DEF Placed, Owned, SameView, TakenPacket
    <3>3. CASE o \notin owned
      BY <1>1, <1>2, <2>1, <2>3, <3>1, <3>3 DEF Placed, Owned, SameView, TakenPacket
    <3> QED BY <3>2, <3>3
  <2> QED BY <2>2, <2>3
<1>8. Refers(o)' BY <1>2 DEF Placed, Refers, SameView, Drops
<1>9. Waiting(o)' BY <1>1 DEF Placed, Waiting, SameView
<1> QED BY <1>5, <1>6, <1>7, <1>8, <1>9 DEF Placed

\* An object with an observer is open, or being closed.
Held(b) == b \in open \/ \E t \in Threads : op[t] = "close_object" /\ obj[t] = b

\* Its weak pointer stays right while the object is held.
LEMMA RestLinked ==
  ASSUME ObserverTypes, NEW o \in Observers, Linked(o), SameView(o), odisp[o] # Null => Held(odisp[o])'
  PROVE  Linked(o)'
<1>1. \A u \in Threads : Uses(u, o)' <=> Uses(u, o) BY DEF SameView, Uses
<1>2. odisp'[o] = odisp[o] /\ oobj'[o] = oobj[o] BY DEF SameView
<1>3. odisp'[o] # Null <=> o \in observers' \/ \E u \in Threads : o \in temp'[u] BY DEF Linked, SameView
<1>4. ASSUME odisp[o] # Null PROVE o \in dobs'[oobj[o]] \/ \E u \in Threads : Uses(u, o)'
  <2>1. oobj[o] \in Objects BY <1>4 DEF Linked, ObserverTypes
  <2> QED BY <1>1, <1>4, <2>1 DEF Linked, SameView
<1> QED BY <1>2, <1>3, <1>4 DEF Linked, Held

\* Nothing takes a canceled wait back.
LEMMA RestCancelled ==
  ASSUME NEW o \in Observers, Cancelled(o), life'[o] = "none" => life[o] = "none",
         o \in finished' => o \in finished, zero => zero', o \in canceled => o \in canceled',
         Early(o)' => Early(o), InQueue(o)' => InQueue(o), oobj'[o] = oobj[o], okey'[o] = okey[o],
         \A u \in Threads : Uses(u, o)' /\ op'[u] = "wait_async" => Uses(u, o) /\ op[u] = "wait_async",
         \A u \in Threads : o \in covers'[u] =>
           /\ o \in covers[u] /\ op'[u] = op[u]
           /\ op[u] = "cancel" => /\ obj'[u] = obj[u] /\ key'[u] = key[u]
                                  /\ pc'[u] = "cancel_queued" => pc[u] = "cancel_queued"
  PROVE  Cancelled(o)'
<1>1. Silent(o) => Silent(o)' BY DEF Silent
<1>2. o \in finished' => ~InQueue(o)' /\ Silent(o)' BY <1>1 DEF Cancelled
<1>3. life'[o] = "none" => o \notin finished' /\ \A u \in Threads : o \notin covers'[u] BY DEF Cancelled
<1>4. ASSUME NEW u \in Threads, o \in covers'[u]
      PROVE  /\ op'[u] = "cancel_key" => ~InQueue(o)' /\ Silent(o)'
             /\ op'[u] = "cancel" => /\ oobj'[o] = obj'[u] /\ okey'[o] = key'[u]
                                     /\ \A v \in Threads : Uses(v, o)' => op'[v] # "wait_async"
                                     /\ pc'[u] = "cancel_queued" => ~Early(o)'
  BY <1>1, <1>4 DEF Cancelled
<1> QED BY <1>2, <1>3, <1>4 DEF Cancelled

\* A step of a call that has no observer in hand.
Quiet(t) ==
  /\ Rest(t) /\ pc[t] \notin Use \cup Drop /\ pc'[t] \notin Use \cup Drop /\ cur'[t] = Null
  /\ UNCHANGED <<obsVars, observers, temp, dobs, got, finished, zero>>
  /\ \A o \in Observers : InQueue(o)' <=> InQueue(o)

\* A quiet step shows every observer in the same places.
LEMMA QuietView ==
  ASSUME IInv, NEW t \in Threads, Quiet(t), NEW o \in Observers
  PROVE  /\ SameView(o) /\ Placed(o)' /\ (Early(o)' <=> Early(o))
         /\ \A u \in Threads : (Uses(u, o)' <=> Uses(u, o)) /\ (Uses(u, o) => u # t)
<1>1. cur[t] = Null /\ o # Null BY PortAssumption DEF IInv, Control, Thread, Quiet
<1>2. \A u \in Threads : cur'[u] = cur[u] /\ (cur[u] = o => u # t) BY <1>1 DEF Quiet, Rest
<1>3. SameView(o) BY <1>2 DEF SameView, Quiet, Rest, obsVars
<1>4. SamePacket(o) BY DEF SamePacket, Quiet, obsVars
<1>5. Placed(o)' BY <1>3, <1>4, RestPlaced DEF IInv, Types, Observing, Quiet
<1>6. \A u \in Threads : (Uses(u, o)' <=> Uses(u, o)) /\ (Uses(u, o) => u # t)
  BY <1>2, <1>3 DEF SameView, Uses
<1> QED BY <1>3, <1>5, <1>6, ViewEarly

\* It keeps what a canceler covers.
LEMMA QuietCancelled ==
  ASSUME IInv, NEW t \in Threads, Quiet(t), NEW o \in Observers,
         o \in covers'[t] => /\ o \in covers[t] /\ op'[t] = op[t] /\ obj'[t] = obj[t] /\ key'[t] = key[t]
                             /\ pc'[t] = "cancel_queued" => pc[t] = "cancel_queued"
  PROVE  Cancelled(o)'
<1>1. /\ SameView(o) /\ (Early(o)' <=> Early(o))
      /\ \A u \in Threads : (Uses(u, o)' <=> Uses(u, o)) /\ (Uses(u, o) => u # t)
  BY QuietView
<1>2. \A u \in Threads : Uses(u, o)' /\ op'[u] = "wait_async" => Uses(u, o) /\ op[u] = "wait_async"
  BY <1>1 DEF Quiet, Rest
<1>3. \A u \in Threads : o \in covers'[u] =>
           /\ o \in covers[u] /\ op'[u] = op[u] /\ obj'[u] = obj[u] /\ key'[u] = key[u]
           /\ pc'[u] = "cancel_queued" => pc[u] = "cancel_queued"
  BY DEF Quiet, Rest
<1>4. Cancelled(o) BY DEF IInv, Observing
<1>5. InQueue(o)' <=> InQueue(o) BY DEF Quiet
<1>6. UNCHANGED <<life, finished, zero, canceled, oobj, okey>> BY DEF Quiet, obsVars
<1> QED BY <1>1, <1>2, <1>3, <1>4, <1>5, <1>6, RestCancelled

\* Such a step disturbs no observer, unless it closes a handle or cancels.
LEMMA QuietObserving ==
  ASSUME IInv, NEW t \in Threads, Quiet(t), UNCHANGED open,
         op[t] = "close_object" => op'[t] = "close_object" /\ obj'[t] = obj[t],
         covers'[t] = {} \/ /\ covers'[t] = covers[t] /\ op'[t] = op[t] /\ obj'[t] = obj[t] /\ key'[t] = key[t]
                            /\ pc'[t] = "cancel_queued" => pc[t] = "cancel_queued"
  PROVE  Observing'
<1> SUFFICES ASSUME NEW o \in Observers PROVE Placed(o)' /\ Linked(o)' /\ Cancelled(o)' BY DEF Observing
<1>1. SameView(o) /\ Placed(o)' BY QuietView
<1>2. Cancelled(o)' BY QuietCancelled
<1>3. Linked(o)'
  <2>1. Linked(o) /\ ObserverTypes BY DEF IInv, Observing, Types
  <2>2. ASSUME odisp[o] # Null PROVE Held(odisp[o])'
    <3>1. Held(odisp[o]) BY <2>1, <2>2 DEF Linked, Held
    <3>2. odisp' = odisp BY DEF Quiet, obsVars
    <3> QED BY <3>1, <3>2 DEF Held, Quiet, Rest
  <2> QED BY <1>1, <2>1, <2>2, RestLinked
<1> QED BY <1>1, <1>2, <1>3

\* Locks of objects: kept, taken, released.
LEMMA RestLocks ==
  ASSUME Locks, NEW t \in Threads, Rest(t), UNCHANGED dlock,
         (pc'[t] \in Hold <=> pc[t] \in Hold), pc[t] \in Hold => obj'[t] = obj[t]
  PROVE  Locks'
BY DEF Locks, Rest

\* A thread that enters the visit of an object takes its lock.
LEMMA TakeLock ==
  ASSUME ObjectTypes, Locks, NEW t \in Threads, Rest(t), NEW b \in Objects, dlock[b] = Null,
         dlock' = [dlock EXCEPT ![b] = t], pc[t] \notin Hold, pc'[t] \in Hold, obj'[t] = b
  PROVE  Locks'
<1>1. \A c \in Objects : dlock'[c] = IF c = b THEN t ELSE dlock[c] BY DEF ObjectTypes
<1>2. \A u \in Threads : ~(pc[u] \in Hold /\ obj[u] = b) BY PortAssumption DEF Locks
<1>3. \A u \in Threads : u # t => pc'[u] = pc[u] /\ obj'[u] = obj[u] BY DEF Rest
<1> QED BY <1>1, <1>2, <1>3 DEF Locks

\* A thread that leaves the visit of an object frees its lock.
LEMMA FreeLock ==
  ASSUME ObjectTypes, Locks, NEW t \in Threads, Rest(t), obj[t] \in Objects,
         dlock' = [dlock EXCEPT ![obj[t]] = Null], pc[t] \in Hold, pc'[t] \notin Hold
  PROVE  Locks'
<1>1. \A c \in Objects : dlock'[c] = IF c = obj[t] THEN Null ELSE dlock[c] BY DEF ObjectTypes
<1>2. dlock[obj[t]] = t BY DEF Locks
<1>3. \A u \in Threads : u # t => pc'[u] = pc[u] /\ obj'[u] = obj[u] BY DEF Rest
<1>4. \A u \in Threads : u # Null BY PortAssumption
<1> QED BY <1>1, <1>2, <1>3, <1>4 DEF Locks

\* A thread moves in or out of a stretch of code.
LEMMA AmongStep ==
  ASSUME NEW t \in Threads, NEW l, \A u \in Threads \ {t} : pc'[u] = pc[u]
  PROVE  /\ Among(l) \in Nat /\ Among(l)' \in Nat
         /\ Among(l)' = Among(l) + (IF pc'[t] \in l THEN 1 ELSE 0) - (IF pc[t] \in l THEN 1 ELSE 0)
<1> DEFINE A == {u \in Threads : pc[u] \in l}
           B == {u \in Threads : pc'[u] \in l}
           R == {u \in Threads \ {t} : pc[u] \in l}
<1>1. Among(l) = Cardinality(A) /\ Among(l)' = Cardinality(B) BY DEF Among
<1>2. A = (IF pc[t] \in l THEN R \cup {t} ELSE R)
      /\ B = (IF pc'[t] \in l THEN R \cup {t} ELSE R) OBVIOUS
<1>3. R \in SUBSET Threads /\ t \notin R OBVIOUS
<1> HIDE DEF A, B, R
<1>4. IsFiniteSet(R) BY <1>3, PortAssumption, FS_Subset
<1>5. Cardinality(R) \in Nat BY <1>4, FS_CardinalityType
<1>6. Cardinality(R \cup {t}) = Cardinality(R) + 1 BY <1>3, <1>4, FS_AddElement
<1> QED BY <1>1, <1>2, <1>5, <1>6

\* A step that neither adds a packet nor takes a token.
Tokens == {"post", "post_user", "pop_irq", "pop"}
\* A step that touches neither token nor queue loses no packet.
LEMMA RestTokens ==
  ASSUME Types, NoLostPacket, NEW t \in Threads,
         \A u \in Threads \ {t} : pc'[u] = pc[u], pc[t] \notin Tokens, pc'[t] \notin Tokens,
         UNCHANGED <<sema, irqs, irqPosts>>, packets' \in Seq(Packets), Len(packets') <= Len(packets)
  PROVE  NoLostPacket'
<1>1. Among({"post", "post_user", "pop_irq"})' = Among({"post", "post_user", "pop_irq"})
      /\ Among({"post", "post_user", "pop_irq"}) \in Nat
  BY AmongStep DEF Tokens
<1>2. Among({"pop"})' = Among({"pop"}) /\ Among({"pop"}) \in Nat BY AmongStep DEF Tokens
<1>3. sema \in Nat /\ irqPosts \in Nat /\ Len(irqs) \in Nat /\ Len(packets) \in Nat
      /\ Len(packets') \in Nat
  BY LenProperties DEF Types, PortTypes
<1> QED BY <1>1, <1>2, <1>3 DEF NoLostPacket
-----------------------------------------------------------------------------
(***************************************************************************)
(* Steps of threads that have no observer in hand.                         *)
(***************************************************************************)
\* Which call a control point belongs to.
LEMMA OpAt ==
  ASSUME IInv, NEW t \in Threads
  PROVE  /\ pc[t] = "idle" => op[t] = "none"
         /\ pc[t] = "add" => op[t] = "wait_async"
         /\ pc[t] \in {"match", "post"} => op[t] \in {"wait_async", "signal"}
         /\ pc[t] = "reap" => op[t] \in {"wait_async", "signal", "close_object", "cancel"}
         /\ pc[t] = "loop" => op[t] \in {"signal", "close_object", "cancel"}
         /\ pc[t] = "acquire" => op[t] \in {"close_object", "cancel"}
         /\ pc[t] \in {"cancel", "cancel_queued"} => op[t] = "cancel"
         /\ pc[t] = "cancel_key" => op[t] = "cancel_key"
         /\ pc[t] \in Drop => op[t] \in {"cancel_key", "close_port"}
         /\ pc[t] \in {"queue", "post_user"} => op[t] = "queue"
         /\ pc[t] \in {"dequeue", "pop_irq", "pop"} => op[t] = "dequeue"
         /\ pc[t] = "zero" => op[t] = "close_port"
<1>1. pc[t] \in At(op[t]) /\ op[t] \in Ops \cup {"none"}
  BY DEF IInv, Control, Thread, Types, ThreadTypes
<1> QED BY <1>1 DEF At, Ops, Use, Hold, Drop

\* A call returns.
LEMMA Returns ==
  ASSUME IInv, NEW t \in Threads, Return(t)
  PROVE  /\ pc'[t] = "idle" /\ op'[t] = "none" /\ obj'[t] = Null /\ cur'[t] = Null /\ key'[t] = NoKey
         /\ temp' = temp
         /\ \A u \in Threads \ {t} : /\ pc'[u] = pc[u] /\ op'[u] = op[u] /\ obj'[u] = obj[u]
                                     /\ cur'[u] = cur[u] /\ key'[u] = key[u]
         /\ excp' \subseteq Threads => ThreadTypes'
         /\ temp[t] = {} /\ covers'[t] = {} => Thread(t)'
<1>1. ThreadTypes BY DEF IInv, Types
<1>2. /\ pc'[t] = "idle" /\ op'[t] = "none" /\ obj'[t] = Null /\ cur'[t] = Null /\ key'[t] = NoKey
      /\ temp' = temp
      /\ \A u \in Threads \ {t} : /\ pc'[u] = pc[u] /\ op'[u] = op[u] /\ obj'[u] = obj[u]
                                  /\ cur'[u] = cur[u] /\ key'[u] = key[u]
  BY <1>1 DEF Return, Goto, ThreadTypes
<1>3. excp' \subseteq Threads => ThreadTypes'
  BY <1>1 DEF Return, Goto, ThreadTypes, PCs
<1>4. temp[t] = {} /\ covers'[t] = {} => Thread(t)' BY <1>2 DEF Thread, At, Use, Hold, Drop
<1> QED BY <1>2, <1>3, <1>4

\* A step of such a call that leaves the port's state alone.
LEMMA QuietInv ==
  ASSUME IInv, Types', NEW t \in Threads, Quiet(t), Thread(t)',
         UNCHANGED <<packets, eph, portOpen, open>>,
         Locks', Closing', NoLostPacket',
         op[t] = "close_object" => op'[t] = "close_object" /\ obj'[t] = obj[t],
         covers'[t] = {} \/ /\ covers'[t] = covers[t] /\ op'[t] = op[t] /\ obj'[t] = obj[t] /\ key'[t] = key[t]
                            /\ pc'[t] = "cancel_queued" => pc[t] = "cancel_queued"
  PROVE  IInv'
<1>1. Observing' BY QuietObserving
<1>2. Control'
  <2>1. Control /\ Rest(t) BY DEF IInv, Quiet
  <2>2. temp' = temp /\ oobj' = oobj BY DEF Quiet, obsVars
  <2>3. \A u \in Threads : op[u] = "wait_async" => portOpen /\ obj[u] \in open
    BY <2>1 DEF Control, Thread
  <2> QED BY <2>1, <2>2, <2>3, RestControl
<1>3. Once' /\ EphemeralCounted' BY DEF IInv, Once, EphemeralCounted
<1> QED BY <1>1, <1>2, <1>3 DEF IInv

\* When the object's lock, the port's closing and the tokens are not touched.
LEMMA StillInv ==
  ASSUME IInv, Types', NEW t \in Threads, Quiet(t), Thread(t)',
         UNCHANGED <<packets, eph, portOpen, open, dlock, sema, irqs, irqPosts>>,
         pc[t] \notin Hold \cup Tokens, pc'[t] \notin Hold \cup Tokens,
         op[t] \notin {"close_object", "close_port"}, op'[t] # "close_port", covers'[t] = {}
  PROVE  IInv'
<1>1. Rest(t) /\ UNCHANGED <<zero, observers>> BY DEF Quiet
<1>2. Locks' BY <1>1, RestLocks DEF IInv
<1>3. Closing' BY <1>1, RestClosing DEF IInv
<1>4. NoLostPacket'
  <2>1. packets' \in Seq(Packets) /\ Len(packets') \in Nat /\ Len(packets) = Len(packets')
    BY LenProperties DEF Types, PortTypes
  <2>2. Types /\ NoLostPacket BY DEF IInv
  <2> QED BY <1>1, <2>1, <2>2, RestTokens DEF Rest
<1> QED BY <1>2, <1>3, <1>4, QuietInv

\* An idle thread has nothing in hand.
LEMMA Idle ==
  ASSUME IInv, NEW t \in Threads, pc[t] = "idle"
  PROVE  op[t] = "none" /\ obj[t] = Null /\ cur[t] = Null /\ temp[t] = {} /\ covers[t] = {}
<1>1. op[t] = "none" /\ Thread(t) BY OpAt DEF IInv, Control
<1> QED BY <1>1 DEF Thread, Use, Hold, Drop

\* Lookup keeps the invariant.
LEMMA LookupInv ==
  ASSUME IInv, NEW t \in Threads, NEW c \in Ops, NEW b \in Objects, NEW k \in Keys, Lookup(t, c, b, k)
  PROVE  IInv'
<1>1. Types /\ pc[t] = "idle" /\ c \in {"cancel", "cancel_key", "queue", "dequeue"} BY DEF IInv, Lookup
<1>2. op[t] = "none" /\ cur[t] = Null /\ temp[t] = {} /\ covers[t] = {} BY <1>1, Idle
<1>3. UNCHANGED <<portVars, sema, obsVars, dispVars, edge, cur, temp, excp, ghosts>> BY DEF Lookup
<1>4. /\ Rest(t) /\ pc'[t] = c /\ op'[t] = c /\ obj'[t] = (IF c = "cancel" THEN b ELSE Null)
      /\ key'[t] = k
  BY <1>1, <1>3 DEF Lookup, Goto, Rest, Types, ThreadTypes, ghosts
<1>5. Types'
  <2>1. ThreadTypes' BY <1>1, <1>3 DEF Lookup, Goto, Types, ThreadTypes, PCs
  <2> QED
    BY <1>1, <1>3, <2>1 DEF Types, PortTypes, ObserverTypes, ObjectTypes, GhostTypes, portVars, obsVars,
      dispVars, ghosts
<1>6. Thread(t)' BY <1>1, <1>2, <1>3, <1>4, PortAssumption DEF Thread, At, Use, Hold, Drop, ghosts
<1>7. Quiet(t)
  BY <1>1, <1>2, <1>3, <1>4 DEF Quiet, Use, Drop, portVars, obsVars, dispVars, ghosts, InQueue
<1> QED
  BY <1>1, <1>2, <1>3, <1>4, <1>5, <1>6, <1>7, StillInv DEF portVars, dispVars, ghosts, Hold, Tokens

\* Signal keeps the invariant.
LEMMA SignalInv ==
  ASSUME IInv, NEW t \in Threads, NEW b \in Objects, Signal(t, b)
  PROVE  IInv'
<1>1. Types /\ pc[t] = "idle" BY DEF IInv, Signal
<1>2. op[t] = "none" /\ cur[t] = Null /\ temp[t] = {} /\ covers[t] = {} BY <1>1, Idle
<1>3. UNCHANGED <<portVars, sema, obsVars, open, dobs, key, edge, cur, temp, excp, ghosts>>
  BY DEF Signal
<1>4. Rest(t) /\ pc'[t] = "loop" /\ op'[t] = "signal" /\ obj'[t] = b
  BY <1>1, <1>3 DEF Signal, Goto, Rest, Types, ThreadTypes, ghosts
<1>5. Types'
  <2>1. ThreadTypes' BY <1>1, <1>3 DEF Signal, Goto, Types, ThreadTypes, PCs, Ops
  <2>2. ObjectTypes' BY <1>1, <1>3 DEF Signal, Types, ObjectTypes
  <2> QED
    BY <1>1, <1>3, <2>1, <2>2 DEF Types, PortTypes, ObserverTypes, GhostTypes, portVars, obsVars, ghosts
<1>6. Thread(t)' BY <1>1, <1>2, <1>3, <1>4, PortAssumption DEF Thread, At, Use, Hold, Drop, ghosts
<1>7. Quiet(t) BY <1>1, <1>2, <1>3, <1>4 DEF Quiet, Use, Drop, portVars, obsVars, ghosts, InQueue
<1>8. Locks' BY <1>1, <1>4, TakeLock DEF IInv, Types, Signal, Hold
<1>9. Closing' BY <1>2, <1>3, <1>4, RestClosing DEF IInv, portVars
<1>10. NoLostPacket'
  <2>1. packets' \in Seq(Packets) /\ Len(packets') <= Len(packets)
    BY <1>1, <1>3, LenProperties DEF Types, PortTypes, portVars
  <2> QED BY <1>1, <1>3, <1>4, <2>1, RestTokens DEF IInv, Rest, Tokens, portVars
<1> QED BY <1>2, <1>3, <1>4, <1>5, <1>6, <1>7, <1>8, <1>9, <1>10, QuietInv DEF portVars, ghosts

\* Acquire keeps the invariant.
LEMMA AcquireInv ==
  ASSUME IInv, NEW t \in Threads, Acquire(t)
  PROVE  IInv'
<1>1. Types /\ Thread(t) /\ pc[t] = "acquire" /\ op[t] \in {"close_object", "cancel"}
  BY OpAt DEF IInv, Control, Acquire
<1>2. cur[t] = Null /\ obj[t] \in Objects BY <1>1 DEF Thread, Use, Drop, Types, ThreadTypes
<1>3. UNCHANGED <<portVars, sema, obsVars, active, open, dobs, op, obj, key, edge, cur, temp, excp,
                  ghosts>>
  BY DEF Acquire
<1>4. Rest(t) /\ pc'[t] = "loop" BY <1>1, <1>3 DEF Acquire, Goto, Rest, Types, ThreadTypes, ghosts
<1>5. Types'
  <2>1. ThreadTypes' BY <1>1, <1>3 DEF Acquire, Goto, Types, ThreadTypes, PCs
  <2>2. ObjectTypes' BY <1>1, <1>2, <1>3 DEF Acquire, Types, ObjectTypes
  <2> QED
    BY <1>1, <1>3, <2>1, <2>2 DEF Types, PortTypes, ObserverTypes, GhostTypes, portVars, obsVars, ghosts
<1>6. Thread(t)' BY <1>1, <1>2, <1>3, <1>4 DEF Thread, At, Use, Hold, Drop, ghosts, obsVars, portVars
<1>7. Quiet(t) BY <1>1, <1>2, <1>3, <1>4 DEF Quiet, Use, Drop, portVars, obsVars, ghosts, InQueue
<1>8. Locks'
  <2>1. dlock[obj[t]] = Null /\ dlock' = [dlock EXCEPT ![obj[t]] = t] BY DEF Acquire
  <2> QED BY <1>1, <1>2, <1>3, <1>4, <2>1, TakeLock DEF IInv, Types, Hold
<1>9. Closing' BY <1>1, <1>3, <1>4, RestClosing DEF IInv, portVars
<1>10. NoLostPacket'
  <2>1. packets' \in Seq(Packets) /\ Len(packets') <= Len(packets)
    BY <1>1, <1>3, LenProperties DEF Types, PortTypes, portVars
  <2> QED BY <1>1, <1>3, <1>4, <2>1, RestTokens DEF IInv, Rest, Tokens, portVars
<1> QED BY <1>1, <1>3, <1>4, <1>5, <1>6, <1>7, <1>8, <1>9, <1>10, QuietInv DEF portVars, ghosts

\* Steps that only touch interrupt packets, tokens, signals or exceptions.
LEMMA FrameInv ==
  ASSUME IInv, Types', NoLostPacket',
         UNCHANGED <<zero, packets, eph, observers, portOpen, obsVars, open, dobs, dlock, pc, op, obj,
                     key, cur, temp, ghosts>>
  PROVE  IInv'
<1>1. Control' BY DEF IInv, Control, Thread, obsVars, ghosts
<1>2. Locks' /\ Closing' /\ Once' /\ EphemeralCounted'
  BY DEF IInv, Locks, Closing, Once, EphemeralCounted
<1>3. ASSUME NEW o \in Observers PROVE Placed(o)' /\ Linked(o)' /\ Cancelled(o)'
  <2>1. Placed(o) /\ Linked(o) /\ Cancelled(o) BY DEF IInv, Observing
  <2>2. SameView(o) /\ SamePacket(o) BY DEF SameView, SamePacket, obsVars, ghosts, InQueue
  <2>3. Placed(o)' BY <2>1, <2>2, RestPlaced DEF IInv, Types
  <2>4. Linked(o)' BY <2>1 DEF Linked, Uses, obsVars
  <2>5. Cancelled(o)' BY <2>1 DEF Cancelled, Silent, Early, Uses, InQueue, obsVars, ghosts
  <2> QED BY <2>3, <2>4, <2>5
<1> QED BY <1>1, <1>2, <1>3 DEF IInv, Observing

\* The tokens there are or will be, and the threads that look for a packet.
Arriving == Among({"post", "post_user", "pop_irq"})
Coming == sema + irqPosts + Arriving
Popping == Among({"pop"})
\* The tokens available, coming and in hand are numbers.
LEMMA TokenTypes ==
  ASSUME Types
  PROVE  /\ sema \in Nat /\ irqPosts \in Nat /\ Len(irqs) \in Nat /\ Len(packets) \in Nat
         /\ Arriving \in Nat /\ Popping \in Nat /\ Coming \in Nat
<1>1. ASSUME NEW l PROVE Among(l) \in Nat
  <2>1. {t \in Threads : pc[t] \in l} \in SUBSET Threads OBVIOUS
  <2>2. IsFiniteSet({t \in Threads : pc[t] \in l}) BY <2>1, PortAssumption, FS_Subset
  <2> QED BY <2>2, FS_CardinalityType DEF Among
<1>2. Len(irqs) \in Nat /\ Len(packets) \in Nat BY LenProperties DEF Types, PortTypes
<1> QED BY <1>1, <1>2 DEF Types, PortTypes, Arriving, Popping, Coming

\* The account of tokens, unfolded.
LEMMA TokensHold ==
  ASSUME Len(irqs)' <= Coming', Len(irqs)' + Len(packets)' <= Coming' + Popping'
  PROVE  NoLostPacket'
BY DEF NoLostPacket, Coming, Arriving, Popping

\* The account of tokens after a step, folded.
LEMMA TokensHeld ==
  ASSUME IInv
  PROVE  Len(irqs) <= Coming /\ Len(irqs) + Len(packets) <= Coming + Popping
BY DEF IInv, NoLostPacket, Coming, Arriving, Popping

\* ClearSignal keeps the invariant.
LEMMA ClearSignalInv == ASSUME IInv, NEW t \in Threads, NEW b \in Objects, ClearSignal(t, b) PROVE IInv'
<1>1. /\ UNCHANGED <<portVars, sema, obsVars, open, dobs, dlock, threadVars, ghosts>>
      /\ active' = active \ {b}
  BY DEF ClearSignal
<1>2. Types'
  BY <1>1 DEF IInv, Types, PortTypes, ObserverTypes, ObjectTypes, ThreadTypes, GhostTypes, portVars,
    obsVars, threadVars, ghosts
<1>3. NoLostPacket' BY <1>1 DEF IInv, NoLostPacket, Among, portVars, threadVars
<1> QED BY <1>1, <1>2, <1>3, FrameInv DEF portVars, threadVars

\* ResumeException keeps the invariant.
LEMMA ResumeExceptionInv == ASSUME IInv, NEW t \in Threads, ResumeException(t) PROVE IInv'
<1>1. /\ UNCHANGED <<portVars, sema, obsVars, dispVars, pc, op, obj, key, edge, cur, temp, ghosts>>
      /\ excp' = excp \ {t}
  BY DEF ResumeException
<1>2. Types'
  BY <1>1 DEF IInv, Types, PortTypes, ObserverTypes, ObjectTypes, ThreadTypes, GhostTypes, portVars,
    obsVars, dispVars, ghosts
<1>3. NoLostPacket' BY <1>1 DEF IInv, NoLostPacket, Among, portVars
<1> QED BY <1>1, <1>2, <1>3, FrameInv DEF portVars, dispVars

\* QueueInterruptPacket keeps the invariant.
LEMMA QueueInterruptPacketInv == ASSUME IInv, NEW i \in IrqPackets, QueueInterruptPacket(i) PROVE IInv'
<1>1. /\ irqs' = Append(irqs, i) /\ irqPosts' = irqPosts + 1
      /\ UNCHANGED <<zero, packets, eph, observers, size, portOpen, sema, obsVars, dispVars,
                     threadVars, ghosts>>
  BY DEF QueueInterruptPacket
<1>2. Types BY DEF IInv
<1>3. irqs' \in Seq(IrqPackets) /\ Len(irqs') = Len(irqs) + 1
  BY <1>1, <1>2, AppendProperties DEF Types, PortTypes
<1>4. Types'
  <2>1. PortTypes' BY <1>1, <1>2, <1>3 DEF Types, PortTypes
  <2> QED
    BY <1>1, <1>2, <2>1 DEF Types, ObserverTypes, ObjectTypes, ThreadTypes, GhostTypes, obsVars,
      dispVars, threadVars, ghosts
<1>5. NoLostPacket'
  <2>1. Arriving' = Arriving /\ Popping' = Popping BY <1>1 DEF Arriving, Popping, Among, threadVars
  <2>2. Coming' = Coming + 1 /\ packets' = packets BY <1>1, <1>2, <2>1, TokenTypes DEF Coming
  <2> QED BY <1>2, <1>3, <2>1, <2>2, TokenTypes, TokensHeld, TokensHold
<1> QED BY <1>1, <1>4, <1>5, FrameInv DEF dispVars, threadVars

\* RemoveInterruptPacket keeps the invariant.
LEMMA RemoveInterruptPacketInv ==
  ASSUME IInv, NEW i \in IrqPackets, RemoveInterruptPacket(i)
  PROVE  IInv'
<1> DEFINE I == {j \in 1 .. Len(irqs) : irqs[j] # i}
<1>1. /\ irqs' = Keep(irqs, I)
      /\ UNCHANGED <<zero, packets, eph, irqPosts, observers, size, portOpen, sema, obsVars, dispVars,
                     threadVars, ghosts>>
  BY DEF RemoveInterruptPacket
<1>2. Types /\ irqs \in Seq(IrqPackets) /\ I \in SUBSET (1 .. Len(irqs)) BY DEF IInv, Types, PortTypes
<1> HIDE DEF I
<1>3. irqs' \in Seq(IrqPackets) /\ Leaves(irqs, I, irqs') BY <1>1, <1>2, KeepSound
<1>4. Len(irqs') <= Len(irqs) /\ Len(irqs') \in Nat BY <1>2, <1>3, LeavesSound, LenProperties DEF Fewer
<1>5. Types'
  <2>1. PortTypes' BY <1>1, <1>2, <1>3 DEF Types, PortTypes
  <2> QED
    BY <1>1, <1>2, <2>1 DEF Types, ObserverTypes, ObjectTypes, ThreadTypes, GhostTypes, obsVars,
      dispVars, threadVars, ghosts
<1>6. NoLostPacket'
  <2>1. Arriving' = Arriving /\ Popping' = Popping BY <1>1 DEF Arriving, Popping, Among, threadVars
  <2>2. Coming' = Coming /\ packets' = packets BY <1>1, <2>1 DEF Coming
  <2> QED BY <1>2, <1>4, <2>1, <2>2, TokenTypes, TokensHeld, TokensHold
<1> QED BY <1>1, <1>5, <1>6, FrameInv DEF dispVars, threadVars

\* PostInterrupt keeps the invariant.
LEMMA PostInterruptInv == ASSUME IInv, PostInterrupt PROVE IInv'
<1>1. /\ irqPosts > 0 /\ irqPosts' = irqPosts - 1 /\ sema' = sema + 1
      /\ UNCHANGED <<zero, packets, eph, irqs, observers, size, portOpen, obsVars, dispVars,
                     threadVars, ghosts>>
  BY DEF PostInterrupt
<1>2. Types BY DEF IInv
<1>3. Types'
  <2>1. PortTypes' BY <1>1, <1>2 DEF Types, PortTypes
  <2> QED
    BY <1>1, <1>2, <2>1 DEF Types, ObserverTypes, ObjectTypes, ThreadTypes, GhostTypes, obsVars,
      dispVars, threadVars, ghosts
<1>4. NoLostPacket'
  <2>1. Arriving' = Arriving /\ Popping' = Popping BY <1>1 DEF Arriving, Popping, Among, threadVars
  <2>2. Coming' = Coming /\ packets' = packets /\ irqs' = irqs
    BY <1>1, <1>2, <2>1, TokenTypes DEF Coming
  <2> QED BY <2>1, <2>2, TokensHeld, TokensHold
<1> QED BY <1>1, <1>3, <1>4, FrameInv DEF dispVars, threadVars

\* Dequeue: a token is taken, the deadline passes, an interrupt packet is taken.
LEMMA DequeueWaitInv == ASSUME IInv, NEW t \in Threads, DequeueWait(t) PROVE IInv'
<1>1. Types /\ Thread(t) /\ pc[t] = "dequeue" /\ op[t] = "dequeue" /\ sema > 0 /\ sema' = sema - 1
  BY OpAt DEF IInv, Control, DequeueWait
<1>2. cur[t] = Null /\ covers[t] = {} BY <1>1 DEF Thread, Use, Drop
<1>3. UNCHANGED <<portVars, obsVars, dispVars, op, obj, key, edge, cur, temp, excp, ghosts>>
  BY DEF DequeueWait
<1>4. Rest(t) /\ pc'[t] = "pop_irq"
  BY <1>1, <1>3 DEF DequeueWait, Goto, Rest, Types, ThreadTypes, ghosts
<1>5. Types'
  <2>1. ThreadTypes' BY <1>1, <1>3 DEF DequeueWait, Goto, Types, ThreadTypes, PCs
  <2>2. PortTypes' BY <1>1, <1>3 DEF Types, PortTypes, portVars
  <2> QED
    BY <1>1, <1>3, <2>1, <2>2 DEF Types, ObjectTypes, ObserverTypes, GhostTypes, dispVars, obsVars,
      ghosts
<1>6. Thread(t)'
  BY <1>1, <1>2, <1>3, <1>4 DEF Thread, At, Use, Hold, Drop, ghosts, obsVars, portVars, dispVars
<1>7. Quiet(t)
  BY <1>1, <1>2, <1>3, <1>4 DEF Quiet, Use, Drop, portVars, obsVars, dispVars, ghosts, InQueue
<1>8. Locks' BY <1>1, <1>3, <1>4, RestLocks DEF IInv, dispVars, Hold
<1>9. Closing' BY <1>1, <1>3, <1>4, RestClosing DEF IInv, portVars
<1>10. NoLostPacket'
  <2>1. Arriving' = Arriving + 1 /\ Popping' = Popping
    BY <1>1, <1>4, AmongStep DEF Rest, Arriving, Popping
  <2>2. Coming' = Coming /\ packets' = packets /\ irqs' = irqs
    BY <1>1, <1>3, <2>1, TokenTypes DEF Coming, portVars
  <2> QED BY <2>1, <2>2, TokensHeld, TokensHold
<1> QED
  BY <1>1, <1>2, <1>3, <1>4, <1>5, <1>6, <1>7, <1>8, <1>9, <1>10, QuietInv DEF portVars, dispVars,
    ghosts

\* DequeueTimesOut keeps the invariant.
LEMMA DequeueTimesOutInv == ASSUME IInv, NEW t \in Threads, DequeueTimesOut(t) PROVE IInv'
<1>1. Types /\ Thread(t) /\ pc[t] = "dequeue" /\ op[t] = "dequeue" /\ Return(t)
  BY OpAt DEF IInv, Control, DequeueTimesOut
<1>2. covers[t] = {} /\ temp[t] = {} BY <1>1 DEF Thread
<1>3. UNCHANGED <<portVars, sema, obsVars, dispVars, excp, ghosts>> /\ temp' = temp
  BY <1>1 DEF DequeueTimesOut, Return
<1>4. Rest(t) /\ pc'[t] = "idle" /\ op'[t] = "none" /\ cur'[t] = Null
  BY <1>1, <1>3, Returns DEF Rest, ghosts
<1>5. Types'
  <2>1. ThreadTypes' BY <1>1, <1>3, Returns DEF Types, ThreadTypes
  <2> QED
    BY <1>1, <1>3, <2>1 DEF Types, PortTypes, ObjectTypes, ObserverTypes, GhostTypes, portVars,
      dispVars, obsVars, ghosts
<1>6. Thread(t)' BY <1>1, <1>2, <1>3, Returns DEF ghosts
<1>7. Quiet(t) BY <1>1, <1>3, <1>4 DEF Quiet, Use, Drop, portVars, obsVars, dispVars, ghosts, InQueue
<1> QED
  BY <1>1, <1>2, <1>3, <1>4, <1>5, <1>6, <1>7, StillInv DEF portVars, dispVars, ghosts, Hold, Tokens

\* DequeueIrq keeps the invariant.
LEMMA DequeueIrqInv == ASSUME IInv, NEW t \in Threads, DequeueIrq(t) PROVE IInv'
<1>1. Types /\ Thread(t) /\ pc[t] = "pop_irq" /\ op[t] = "dequeue" BY OpAt DEF IInv, Control, DequeueIrq
<1>2. covers[t] = {} /\ temp[t] = {} /\ cur[t] = Null BY <1>1 DEF Thread, Use, Drop
<1>3. /\ UNCHANGED <<zero, packets, eph, irqPosts, observers, size, portOpen, sema, obsVars, dispVars,
                     excp, ghosts>>
      /\ temp' = temp
  BY <1>1 DEF DequeueIrq, Return
<1>4. /\ Rest(t) /\ pc'[t] \in {"idle", "pop"} /\ op'[t] \in {"none", "dequeue"} /\ cur'[t] = Null
      /\ ThreadTypes' /\ Thread(t)'
      /\ IF irqs = <<>> THEN pc'[t] = "pop" /\ irqs' = irqs ELSE pc'[t] = "idle" /\ irqs' = Tail(irqs)
  <2>1. CASE irqs = <<>>
    <3>1. pc' = [pc EXCEPT ![t] = "pop"] /\ UNCHANGED <<irqs, op, obj, key, edge, cur, temp>>
      BY <2>1 DEF DequeueIrq, Goto
    <3>2. Rest(t) /\ pc'[t] = "pop" BY <1>1, <1>3, <3>1 DEF Rest, Types, ThreadTypes, ghosts
    <3>3. ThreadTypes' BY <1>1, <1>3, <3>1 DEF Types, ThreadTypes, PCs
    <3>4. Thread(t)'
      BY <1>1, <1>2, <1>3, <3>1, <3>2 DEF Thread, At, Use, Hold, Drop, ghosts, obsVars, dispVars
    <3> QED BY <1>1, <1>2, <2>1, <3>1, <3>2, <3>3, <3>4
  <2>2. CASE irqs # <<>>
    <3>1. Return(t) /\ irqs' = Tail(irqs) BY <2>2 DEF DequeueIrq
    <3>2. ThreadTypes' BY <1>1, <1>3, <3>1, Returns DEF Types, ThreadTypes
    <3>3. Thread(t)' BY <1>2, <1>3, <3>1, Returns DEF ghosts
    <3> QED BY <1>3, <2>2, <3>1, <3>2, <3>3, Returns DEF Rest, ghosts
  <2> QED BY <2>1, <2>2
<1>5. /\ irqs' \in Seq(IrqPackets) /\ Len(irqs') \in Nat
      /\ irqs = <<>> => Len(irqs) = 0
      /\ irqs # <<>> => Len(irqs') = Len(irqs) - 1
  <2>1. irqs \in Seq(IrqPackets) BY <1>1 DEF Types, PortTypes
  <2> QED BY <1>4, <2>1, HeadTailProperties, LenProperties, EmptySeq
<1>6. Types'
  <2>1. PortTypes' BY <1>1, <1>3, <1>5 DEF Types, PortTypes
  <2> QED
    BY <1>1, <1>3, <1>4, <2>1 DEF Types, ObjectTypes, ObserverTypes, GhostTypes, dispVars, obsVars,
      ghosts
<1>7. Quiet(t) BY <1>1, <1>3, <1>4 DEF Quiet, Use, Drop, obsVars, dispVars, ghosts, InQueue
<1>8. Locks' BY <1>1, <1>3, <1>4, RestLocks DEF IInv, dispVars, Hold
<1>9. Closing' BY <1>1, <1>3, <1>4, RestClosing DEF IInv
<1>10. NoLostPacket'
  <2>1. Arriving' = Arriving - 1 /\ Arriving' \in Nat BY <1>1, <1>4, AmongStep DEF Rest, Arriving
  <2>2. Popping' = Popping + (IF irqs = <<>> THEN 1 ELSE 0) BY <1>1, <1>4, AmongStep DEF Rest, Popping
  <2>3. Coming' = Coming - 1 /\ packets' = packets BY <1>1, <1>3, <2>1, TokenTypes DEF Coming
  <2>4. CASE irqs = <<>>
    <3>1. Coming' \in Nat BY <1>1, <1>3, <2>1, TokenTypes DEF Coming
    <3> QED BY <1>1, <1>4, <1>5, <2>2, <2>3, <2>4, <3>1, TokenTypes, TokensHeld, TokensHold
  <2>5. CASE irqs # <<>>
    <3>1. Len(irqs) <= Coming /\ Len(irqs) + Len(packets) <= Coming + Popping BY TokensHeld
    <3>2. Len(irqs) \in Nat /\ Len(packets) \in Nat /\ Coming \in Nat /\ Popping \in Nat
      BY <1>1, TokenTypes
    <3>3. Len(irqs') = Len(irqs) - 1 /\ Popping' = Popping BY <1>5, <2>2, <2>5, <3>2
    <3>4. Len(irqs)' <= Coming' /\ Len(irqs)' + Len(packets)' <= Coming' + Popping'
      BY <2>3, <3>1, <3>2, <3>3
    <3> QED BY <3>4, TokensHold
  <2> QED BY <2>4, <2>5
<1> QED BY <1>1, <1>2, <1>3, <1>4, <1>6, <1>7, <1>8, <1>9, <1>10, QuietInv DEF dispVars, ghosts
-----------------------------------------------------------------------------
(***************************************************************************)
(* Steps of threads that have an observer in hand.                         *)
(***************************************************************************)
LEMMA HeldStep ==
  ASSUME NEW t \in Threads, Rest(t), open' = open,
         op[t] # "close_object" \/ (op'[t] = op[t] /\ obj'[t] = obj[t])
  PROVE  \A b : Held(b) => Held(b)'
BY DEF Held, Rest

\* A step of t does not touch observer o, but may take its packet.
Aside(t, o) ==
  /\ SameView(o) /\ (SamePacket(o) \/ TakenPacket(o))
  /\ o \in finished' => o \in finished
  /\ o \in covers'[t] => /\ o \in covers[t] /\ op'[t] = op[t]
                         /\ op[t] = "cancel" => /\ obj'[t] = obj[t] /\ key'[t] = key[t]
                                                /\ pc'[t] = "cancel_queued" => pc[t] = "cancel_queued"

\* An observer that a step does not touch stays in place.
LEMMA AsideObserver ==
  ASSUME IInv, NEW t \in Threads, Rest(t), NEW o \in Observers, Aside(t, o), zero => zero',
         \A b : Held(b) => Held(b)'
  PROVE  Placed(o)' /\ Linked(o)' /\ Cancelled(o)'
<1>1. Placed(o) /\ Linked(o) /\ Cancelled(o) /\ ObserverTypes /\ GhostTypes
  BY DEF IInv, Observing, Types
<1>2. SameView(o) /\ (SamePacket(o) \/ TakenPacket(o)) /\ (o \in finished' => o \in finished)
  BY DEF Aside
<1>3. Placed(o)' BY <1>1, <1>2, RestPlaced
<1>4. Linked(o)'
  <2>1. odisp'[o] = odisp[o] BY <1>2 DEF SameView
  <2>2. odisp[o] # Null => Held(odisp[o]) BY <1>1 DEF Linked, Held
  <2>3. odisp[o] # Null => Held(odisp[o])' BY <2>1, <2>2 DEF Held
  <2> QED BY <1>1, <1>2, <2>3, RestLinked
<1>5. Cancelled(o)'
  <2>1. life'[o] = "none" => life[o] = "none" BY <1>2 DEF SamePacket, TakenPacket
  <2>2. InQueue(o)' => InQueue(o) BY <1>2 DEF SamePacket, TakenPacket
  <2>3. o \in canceled => o \in canceled' BY <1>2 DEF SameView
  <2>4. Early(o)' => Early(o) BY <1>2, ViewEarly
  <2>5. oobj'[o] = oobj[o] /\ okey'[o] = okey[o] BY <1>2 DEF SameView
  <2>6. \A u \in Threads : Uses(u, o)' /\ op'[u] = "wait_async" => Uses(u, o) /\ op[u] = "wait_async"
    BY <1>2 DEF SameView, Uses
  <2>7. \A u \in Threads : o \in covers'[u] =>
           /\ o \in covers[u] /\ op'[u] = op[u]
           /\ op[u] = "cancel" => /\ obj'[u] = obj[u] /\ key'[u] = key[u]
                                  /\ pc'[u] = "cancel_queued" => pc[u] = "cancel_queued"
    BY DEF Aside, Rest
  <2> QED BY <1>1, <1>2, <2>1, <2>2, <2>3, <2>4, <2>5, <2>6, <2>7, RestCancelled
<1> QED BY <1>3, <1>4, <1>5

\* A thread does not refer to an observer other than its own.
LEMMA OtherView ==
  ASSUME IInv, NEW t \in Threads, Rest(t), NEW o \in Observers, cur[t] # o, cur'[t] # o,
         odisp'[o] = odisp[o], oobj'[o] = oobj[o], okey'[o] = okey[o],
         o \in canceled' <=> o \in canceled, o \in observers' <=> o \in observers,
         \A b \in Objects : o \in dobs'[b] <=> o \in dobs[b],
         \A u \in Threads : o \in temp'[u] <=> o \in temp[u]
  PROVE  SameView(o)
<1>1. \A u \in Threads : (cur'[u] = o <=> cur[u] = o) /\ (cur[u] = o => u # t) BY DEF Rest
<1> QED BY <1>1 DEF SameView, Rest

\* What a thread has in hand when it uses or drops an observer.
LEMMA InHand ==
  ASSUME IInv, NEW t \in Threads
  PROVE  /\ pc[t] \in Use => cur[t] \in Observers /\ obj[t] \in Objects /\ obj[t] = oobj[cur[t]] /\ Uses(t, cur[t])
         /\ pc[t] \in Drop => cur[t] \in Observers /\ obj[t] \in Objects /\ Drops(t, cur[t]) /\ obj[t] = oobj[cur[t]]
         /\ pc[t] \notin Use \cup Drop => cur[t] = Null
         /\ pc[t] \in Hold \cup {"acquire", "cancel", "cancel_queued"} => obj[t] \in Objects
         /\ op[t] # "cancel_key" => temp[t] = {}
         /\ op[t] \notin {"cancel_key", "cancel"} => covers[t] = {}
         /\ op[t] \in {"cancel", "cancel_key", "queue"} => key[t] \in Keys
<1>1. Thread(t) /\ ThreadTypes BY DEF IInv, Control, Types
<1>2. pc[t] \in Use => cur[t] \in Observers /\ obj[t] \in Objects /\ obj[t] = oobj[cur[t]] /\ Uses(t, cur[t])
  BY <1>1 DEF Thread, ThreadTypes, Uses
<1>3. pc[t] \in Drop => cur[t] \in Observers /\ obj[t] \in Objects /\ Drops(t, cur[t])
  BY <1>1 DEF Thread, ThreadTypes, Drops
<1>4. pc[t] \in Drop => obj[t] = oobj[cur[t]] BY <1>3 DEF IInv, Observing, Placed, Refers
<1>5. pc[t] \notin Use \cup Drop => cur[t] = Null BY <1>1 DEF Thread
<1>6. pc[t] \in Hold \cup {"acquire", "cancel", "cancel_queued"} => obj[t] \in Objects
  BY <1>1 DEF Thread, ThreadTypes
<1>7. (op[t] # "cancel_key" => temp[t] = {})
      /\ (op[t] \notin {"cancel_key", "cancel"} => covers[t] = {})
  BY <1>1 DEF Thread
<1>8. op[t] \in {"cancel", "cancel_key", "queue"} => key[t] \in Keys BY <1>1 DEF Thread
<1> QED BY <1>2, <1>3, <1>4, <1>5, <1>6, <1>7, <1>8

\* CloseObject keeps the invariant.
LEMMA CloseObjectInv == ASSUME IInv, NEW t \in Threads, NEW b \in Objects, CloseObject(t, b) PROVE IInv'
<1>1. Types /\ pc[t] = "idle" BY DEF IInv, CloseObject
<1>2. op[t] = "none" /\ cur[t] = Null /\ temp[t] = {} /\ covers[t] = {} BY <1>1, Idle
<1>3. UNCHANGED <<portVars, sema, obsVars, active, dobs, dlock, key, edge, cur, temp, excp, ghosts>>
      /\ open' = open \ {b}
  BY DEF CloseObject
<1>4. Rest(t) /\ pc'[t] = "acquire" /\ op'[t] = "close_object" /\ obj'[t] = b
  BY <1>1, <1>3 DEF CloseObject, Goto, Rest, Types, ThreadTypes, ghosts
<1>5. Types'
  <2>1. ThreadTypes' BY <1>1, <1>3 DEF CloseObject, Goto, Types, ThreadTypes, PCs, Ops
  <2>2. ObjectTypes' BY <1>1, <1>3 DEF Types, ObjectTypes
  <2> QED
    BY <1>1, <1>3, <2>1, <2>2 DEF Types, PortTypes, ObserverTypes, GhostTypes, portVars, obsVars, ghosts
<1>6. Thread(t)' BY <1>1, <1>2, <1>3, <1>4, PortAssumption DEF Thread, At, Use, Hold, Drop, ghosts
<1>7. Quiet(t) BY <1>1, <1>2, <1>3, <1>4 DEF Quiet, Use, Drop, portVars, obsVars, ghosts, InQueue
<1>8. Locks' BY <1>1, <1>3, <1>4, RestLocks DEF IInv, Hold
<1>9. Closing' BY <1>2, <1>3, <1>4, RestClosing DEF IInv, portVars
<1>10. NoLostPacket'
  <2>1. packets' \in Seq(Packets) /\ Len(packets') <= Len(packets)
    BY <1>1, <1>3, LenProperties DEF Types, PortTypes, portVars
  <2> QED BY <1>1, <1>3, <1>4, <2>1, RestTokens DEF IInv, Rest, Tokens, portVars
<1>11. Control'
  <2>1. \A u \in Threads : op[u] # "wait_async"
    <3>1. \A u \in Threads : ~TableReader(u) BY DEF CloseObject
    <3>2. \A u \in Threads : op[u] = "wait_async" => pc[u] # "cancel" BY OpAt
    <3> QED BY <3>1, <3>2 DEF TableReader
  <2>2. Control /\ temp' = temp /\ oobj' = oobj BY <1>3 DEF IInv, obsVars
  <2> QED BY <1>4, <1>6, <2>1, <2>2, RestControl
<1>12. Observing'
  <2> SUFFICES ASSUME NEW o \in Observers
      PROVE  Placed(o)' /\ Linked(o)' /\ Cancelled(o)' BY DEF Observing
  <2>1. SameView(o) /\ Placed(o)' BY <1>7, QuietView
  <2>2. covers' = covers BY <1>3 DEF ghosts
  <2>3. Cancelled(o)' BY <1>2, <1>7, <2>2, QuietCancelled
  <2>4. Linked(o) /\ ObserverTypes BY DEF IInv, Observing, Types
  <2>5. ASSUME odisp[o] # Null PROVE Held(odisp[o])'
    <3>1. Held(odisp[o]) BY <2>4, <2>5 DEF Linked, Held
    <3>2. odisp' = odisp BY <1>3 DEF obsVars
    <3> QED BY <1>2, <1>3, <1>4, <3>1, <3>2 DEF Held, Rest
  <2> QED BY <2>1, <2>3, <2>4, <2>5, RestLinked
<1>13. Once' /\ EphemeralCounted' BY <1>3 DEF IInv, Once, EphemeralCounted, portVars
<1> QED BY <1>5, <1>8, <1>9, <1>10, <1>11, <1>12, <1>13 DEF IInv

\* ClosePort keeps the invariant.
LEMMA ClosePortInv == ASSUME IInv, NEW t \in Threads, ClosePort(t) PROVE IInv'
<1>1. Types /\ pc[t] = "idle" /\ portOpen /\ ~portOpen' BY DEF IInv, ClosePort
<1>2. op[t] = "none" /\ obj[t] = Null /\ cur[t] = Null /\ temp[t] = {} /\ covers[t] = {} BY <1>1, Idle
<1>3. UNCHANGED <<zero, packets, eph, irqs, irqPosts, observers, size, sema, obsVars, dispVars, obj,
                  key, edge, cur, temp, excp, ghosts>>
  BY DEF ClosePort
<1>4. Rest(t) /\ pc'[t] = "zero" /\ op'[t] = "close_port"
  BY <1>1, <1>3 DEF ClosePort, Goto, Rest, Types, ThreadTypes, ghosts
<1>5. Types'
  <2>1. ThreadTypes' BY <1>1, <1>3 DEF ClosePort, Goto, Types, ThreadTypes, PCs, Ops
  <2>2. PortTypes' BY <1>1, <1>3 DEF ClosePort, Types, PortTypes
  <2> QED
    BY <1>1, <1>3, <2>1, <2>2 DEF Types, ObjectTypes, ObserverTypes, GhostTypes, dispVars, obsVars,
      ghosts
<1>6. Thread(t)' BY <1>1, <1>2, <1>3, <1>4, PortAssumption DEF Thread, At, Use, Hold, Drop, ghosts
<1>7. Quiet(t) BY <1>1, <1>2, <1>3, <1>4 DEF Quiet, Use, Drop, dispVars, obsVars, ghosts, InQueue
<1>8. Locks' BY <1>1, <1>3, <1>4, RestLocks DEF IInv, Hold, dispVars
<1>9. Closing'
  <2>1. \A u \in Threads : op[u] # "close_port" BY <1>1 DEF IInv, Closing
  <2>2. \A u \in Threads : op'[u] = "close_port" => u = t BY <2>1, <1>4 DEF Rest
  <2> QED BY <1>1, <1>4, <2>2 DEF Closing, Drop
<1>10. NoLostPacket'
  <2>1. packets' \in Seq(Packets) /\ Len(packets') <= Len(packets)
    BY <1>1, <1>3, LenProperties DEF Types, PortTypes
  <2> QED BY <1>1, <1>3, <1>4, <2>1, RestTokens DEF IInv, Rest, Tokens
<1>11. Control'
  <2>1. \A u \in Threads : op[u] # "wait_async"
    <3>1. \A u \in Threads : ~TableReader(u) BY DEF ClosePort
    <3>2. \A u \in Threads : op[u] = "wait_async" => pc[u] # "cancel" BY OpAt
    <3> QED BY <3>1, <3>2 DEF TableReader
  <2>2. Control /\ temp' = temp /\ oobj' = oobj BY <1>3 DEF IInv, obsVars
  <2> QED BY <1>4, <1>6, <2>1, <2>2, RestControl
<1>12. Observing'
  <2>1. covers' = covers /\ open' = open BY <1>3 DEF ghosts, dispVars
  <2> QED BY <1>2, <1>7, <2>1, QuietObserving
<1>13. Once' /\ EphemeralCounted' BY <1>3 DEF IInv, Once, EphemeralCounted
<1> QED BY <1>5, <1>8, <1>9, <1>10, <1>11, <1>12, <1>13 DEF IInv

\* zx_port_cancel begins: every wait it covers has been handed to the object.
LEMMA CancelBeginInv == ASSUME IInv, NEW t \in Threads, CancelBegin(t) PROVE IInv'
<1>1. Types /\ Thread(t) /\ pc[t] = "cancel" /\ op[t] = "cancel" BY OpAt DEF IInv, Control, CancelBegin
<1>2. temp[t] = {} /\ cur[t] = Null /\ obj[t] \in Objects BY <1>1, InHand DEF Use, Drop
<1>3. UNCHANGED <<portVars, sema, obsVars, dispVars, excp, finished, got>> BY DEF CancelBegin
<1>4. CASE obj[t] \in open
  <2>1. /\ pc' = [pc EXCEPT ![t] = "acquire"]
        /\ covers' = [covers EXCEPT ![t] = Registered(obj[t], key[t])]
        /\ UNCHANGED <<op, obj, key, edge, cur, temp>>
    BY <1>4 DEF CancelBegin, Goto
  <2>2. Rest(t) /\ pc'[t] = "acquire" /\ covers'[t] = Registered(obj[t], key[t])
    BY <1>1, <2>1 DEF Rest, Types, ThreadTypes, GhostTypes
  <2>3. Types'
    <3>1. ThreadTypes' BY <1>1, <1>3, <2>1 DEF Types, ThreadTypes, PCs
    <3>2. Registered(obj[t], key[t]) \in SUBSET Observers BY DEF Registered
    <3>3. GhostTypes' BY <1>1, <1>3, <2>1, <3>2 DEF Types, GhostTypes
    <3> QED
      BY <1>1, <1>3, <3>1, <3>3 DEF Types, PortTypes, ObjectTypes, ObserverTypes, portVars, dispVars,
        obsVars
  <2>4. Thread(t)' BY <1>1, <1>2, <2>1, <2>2 DEF Thread, At, Use, Hold, Drop
  <2>5. Quiet(t)
    BY <1>1, <1>2, <1>3, <2>1, <2>2 DEF Quiet, Use, Drop, portVars, dispVars, obsVars, InQueue
  <2>6. Locks' BY <1>1, <1>3, <2>2, RestLocks DEF IInv, Hold, dispVars
  <2>7. Closing' BY <1>1, <1>3, <2>1, <2>2, RestClosing DEF IInv, portVars
  <2>8. NoLostPacket'
    <3>1. packets' \in Seq(Packets) /\ Len(packets') <= Len(packets)
      BY <1>1, <1>3, LenProperties DEF Types, PortTypes, portVars
    <3> QED BY <1>1, <1>3, <2>2, <3>1, RestTokens DEF IInv, Rest, Tokens, portVars
  <2>9. Control'
    <3>1. \A u \in Threads : op[u] = "wait_async" => portOpen /\ obj[u] \in open
      BY DEF IInv, Control, Thread
    <3>2. UNCHANGED <<temp, oobj, open, portOpen>> BY <1>3, <2>1 DEF obsVars, portVars, dispVars
    <3> QED BY <2>2, <2>4, <3>1, <3>2, RestControl DEF IInv
  <2>10. Observing'
    <3> SUFFICES ASSUME NEW o \in Observers
        PROVE  Placed(o)' /\ Linked(o)' /\ Cancelled(o)' BY DEF Observing
    <3>1. /\ SameView(o) /\ Placed(o)' /\ (Early(o)' <=> Early(o))
          /\ \A u \in Threads : Uses(u, o)' <=> Uses(u, o)
      BY <2>5, QuietView
    <3>2. Linked(o)'
      <4>1. Linked(o) /\ ObserverTypes BY DEF IInv, Observing, Types
      <4>2. odisp' = odisp /\ open' = open BY <1>3 DEF obsVars, dispVars
      <4>3. odisp[o] # Null => Held(odisp[o])' BY <1>1, <2>1, <4>1, <4>2 DEF Linked, Held
      <4> QED BY <3>1, <4>1, <4>3, RestLinked
    <3>3. CASE o \notin Registered(obj[t], key[t]) BY <2>2, <2>5, <3>1, <3>2, <3>3, QuietCancelled
    <3>4. CASE o \in Registered(obj[t], key[t])
      <4>1. /\ life[o] = "live" /\ okey[o] = key[t] /\ oobj[o] = obj[t]
            /\ \A u \in Threads : op[u] = "wait_async" => cur[u] # o
        BY <1>2, <3>4, PortAssumption DEF Registered
      <4>2. \A u \in Threads : Uses(u, o)' => op'[u] # "wait_async" BY <2>1, <3>1, <4>1 DEF Uses
      <4>3. Cancelled(o) BY DEF IInv, Observing
      <4>4. UNCHANGED <<life, zero, canceled, oobj, okey, packets>> BY <1>3 DEF obsVars, portVars
      <4>5. (InQueue(o)' <=> InQueue(o)) /\ (Silent(o)' <=> Silent(o)) BY <3>1, <4>4 DEF InQueue, Silent
      <4>6. ASSUME NEW u \in Threads, o \in covers'[u], u # t
            PROVE  /\ op'[u] = "cancel_key" => ~InQueue(o)' /\ Silent(o)'
                   /\ op'[u] = "cancel" => /\ oobj'[o] = obj'[u] /\ okey'[o] = key'[u]
                                           /\ \A v \in Threads : Uses(v, o)' => op'[v] # "wait_async"
                                           /\ pc'[u] = "cancel_queued" => ~Early(o)'
        <5>1. o \in covers[u] /\ pc'[u] = pc[u] BY <2>2, <4>6 DEF Rest
        <5> QED BY <2>1, <3>1, <4>2, <4>3, <4>4, <4>5, <5>1 DEF Cancelled
      <4>7. Cancelled(o)' BY <1>1, <1>3, <2>1, <2>2, <4>1, <4>2, <4>3, <4>4, <4>5, <4>6 DEF Cancelled
      <4> QED BY <3>1, <3>2, <4>7
    <3> QED BY <3>3, <3>4
  <2>11. Once' /\ EphemeralCounted' BY <1>3 DEF IInv, Once, EphemeralCounted, portVars
  <2> QED BY <2>3, <2>6, <2>7, <2>8, <2>9, <2>10, <2>11 DEF IInv
<1>5. CASE obj[t] \notin open
  <2>1. Return(t) /\ covers' = covers BY <1>5 DEF CancelBegin
  <2>2. covers[t] = {} BY <1>1 DEF Thread
  <2>3. Rest(t) /\ pc'[t] = "idle" /\ op'[t] = "none" /\ cur'[t] = Null /\ temp' = temp
    BY <2>1, Returns DEF Rest
  <2>4. Types'
    <3>1. ThreadTypes' BY <1>1, <1>3, <2>1, Returns DEF Types, ThreadTypes
    <3> QED
      BY <1>1, <1>3, <2>1, <3>1 DEF Types, PortTypes, ObjectTypes, ObserverTypes, GhostTypes, portVars,
        dispVars, obsVars
  <2>5. Thread(t)' BY <1>2, <2>1, <2>2, Returns
  <2>6. Quiet(t) BY <1>1, <1>3, <2>3 DEF Quiet, Use, Drop, portVars, obsVars, dispVars, InQueue
  <2> QED
    BY <1>1, <1>3, <2>1, <2>2, <2>3, <2>4, <2>5, <2>6, StillInv DEF portVars, dispVars, Hold, Tokens
<1> QED BY <1>4, <1>5

\* The loop over the observers of an object ends: none of them is with it.
LEMMA LoopEndsInv == ASSUME IInv, NEW t \in Threads, LoopEnds(t) PROVE IInv'
<1>1. Types /\ Thread(t) /\ pc[t] = "loop" /\ op[t] \in {"signal", "close_object", "cancel"}
  BY OpAt DEF IInv, Control, LoopEnds
<1>2. temp[t] = {} /\ cur[t] = Null /\ obj[t] \in Objects BY <1>1, InHand DEF Use, Drop, Hold
<1>3. /\ UNCHANGED <<portVars, sema, obsVars, active, open, dobs, excp, ghosts>> /\ temp' = temp
      /\ dlock' = [dlock EXCEPT ![obj[t]] = Null] /\ Visits(t) = {}
  BY DEF LoopEnds, Return
<1>4. /\ Rest(t) /\ cur'[t] = Null /\ ThreadTypes' /\ Thread(t)'
      /\ IF op[t] = "cancel" THEN pc'[t] = "cancel_queued" /\ op'[t] = op[t] /\ obj'[t] = obj[t] /\ key'[t] = key[t]
                              ELSE pc'[t] = "idle" /\ op'[t] = "none"
  <2>1. CASE op[t] = "cancel"
    <3>1. pc' = [pc EXCEPT ![t] = "cancel_queued"] /\ UNCHANGED <<op, obj, key, edge, cur, temp>>
      BY <2>1 DEF LoopEnds, Goto
    <3>2. Rest(t) /\ pc'[t] = "cancel_queued" BY <1>1, <1>3, <3>1 DEF Rest, Types, ThreadTypes, ghosts
    <3>3. ThreadTypes' BY <1>1, <1>3, <3>1 DEF Types, ThreadTypes, PCs
    <3>4. Thread(t)'
      BY <1>1, <1>2, <1>3, <2>1, <3>1, <3>2 DEF Thread, At, Use, Hold, Drop, ghosts, obsVars
    <3> QED BY <1>2, <2>1, <3>1, <3>2, <3>3, <3>4
  <2>2. CASE op[t] # "cancel"
    <3>1. Return(t) BY <2>2 DEF LoopEnds
    <3>2. covers'[t] = {} BY <1>1, <1>3, <2>2 DEF Thread, ghosts
    <3>3. ThreadTypes' BY <1>1, <1>3, <3>1, Returns DEF Types, ThreadTypes
    <3>4. Thread(t)' BY <1>2, <3>1, <3>2, Returns
    <3> QED BY <1>3, <2>2, <3>1, <3>3, <3>4, Returns DEF Rest, ghosts
  <2> QED BY <2>1, <2>2
<1>5. Types'
  <2>1. ObjectTypes' BY <1>1, <1>3 DEF Types, ObjectTypes
  <2> QED
    BY <1>1, <1>3, <1>4, <2>1 DEF Types, PortTypes, ObserverTypes, GhostTypes, portVars, obsVars, ghosts
<1>6. pc'[t] \in {"idle", "cancel_queued"} /\ op'[t] \in {"none", "cancel"} BY <1>4
<1>7. Quiet(t) BY <1>1, <1>3, <1>4, <1>6 DEF Quiet, Use, Drop, portVars, obsVars, ghosts, InQueue
<1>8. Locks' BY <1>1, <1>2, <1>3, <1>4, <1>6, FreeLock DEF IInv, Types, Hold
<1>9. Closing' BY <1>1, <1>3, <1>4, <1>6, RestClosing DEF IInv, portVars
<1>10. NoLostPacket'
  <2>1. packets' \in Seq(Packets) /\ Len(packets') <= Len(packets)
    BY <1>1, <1>3, LenProperties DEF Types, PortTypes, portVars
  <2> QED BY <1>1, <1>3, <1>4, <1>6, <2>1, RestTokens DEF IInv, Rest, Tokens, portVars
<1>11. Control'
  <2>1. \A u \in Threads : op[u] = "wait_async" => portOpen /\ obj[u] \in open
    BY DEF IInv, Control, Thread
  <2>2. UNCHANGED <<temp, oobj, open, portOpen>> BY <1>3 DEF obsVars, portVars
  <2> QED BY <1>4, <2>1, <2>2, RestControl DEF IInv
<1>12. \A u \in Threads : pc[u] \in Hold /\ obj[u] = obj[t] => u = t BY <1>1, <1>2 DEF IInv, Locks, Hold
<1>13. ASSUME NEW o \in Observers, NEW u \in Threads, Uses(u, o), oobj[o] = obj[t]
       PROVE  pc[u] = "add" /\ op[u] = "wait_async" /\ obj[t] \in open
  <2>1. cur[u] = o /\ pc[u] \in Use /\ obj[u] = obj[t] BY <1>13, InHand DEF Uses
  <2>2. pc[u] \notin Hold BY <1>1, <1>12, <2>1 DEF Use
  <2>3. pc[u] = "add" BY <2>1, <2>2 DEF Use, Hold
  <2> QED BY <2>1, <2>3, OpAt DEF IInv, Control, Thread
<1>14. Observing'
  <2> SUFFICES ASSUME NEW o \in Observers
      PROVE  Placed(o)' /\ Linked(o)' /\ Cancelled(o)' BY DEF Observing
  <2>1. /\ SameView(o) /\ Placed(o)' /\ (Early(o)' <=> Early(o))
        /\ \A u \in Threads : Uses(u, o)' <=> Uses(u, o)
    BY <1>7, QuietView
  <2>2. Linked(o) /\ ObserverTypes /\ Course(o) /\ Cancelled(o) BY DEF IInv, Observing, Types, Placed
  <2>3. ASSUME odisp[o] # Null PROVE Held(odisp[o])'
    <3>1. Held(odisp[o]) /\ odisp' = odisp /\ open' = open BY <1>3, <2>2, <2>3 DEF Linked, Held, obsVars
    <3>2. CASE op[t] # "close_object" \/ odisp[o] # obj[t] BY <1>4, <3>1, <3>2 DEF Held, Rest
    <3>3. CASE op[t] = "close_object" /\ odisp[o] = obj[t]
      <4>1. oobj[o] = obj[t] /\ (o \in dobs[obj[t]] \/ \E u \in Threads : Uses(u, o))
        BY <2>2, <2>3, <3>3 DEF Linked
      <4>2. o \notin dobs[obj[t]] BY <1>3, <3>3 DEF Visits
      <4> QED BY <1>13, <3>1, <3>3, <4>1, <4>2 DEF Held
    <3> QED BY <3>2, <3>3
  <2>4. Linked(o)' BY <2>1, <2>2, <2>3, RestLinked
  <2>5. CASE op[t] # "cancel"
    <3>1. covers'[t] = {} BY <1>1, <1>3, <2>5 DEF Thread, ghosts
    <3> QED BY <1>7, <2>1, <2>4, <3>1, QuietCancelled
  <2>6. CASE op[t] = "cancel"
    <3>1. UNCHANGED <<life, zero, canceled, oobj, okey, packets, covers, finished>>
      BY <1>3 DEF obsVars, portVars, ghosts
    <3>2. (InQueue(o)' <=> InQueue(o)) /\ (Silent(o)' <=> Silent(o)) BY <2>1, <3>1 DEF InQueue, Silent
    <3>3. ASSUME o \in covers[t] PROVE ~Early(o)
      <4>1. oobj[o] = obj[t] /\ okey[o] = key[t]
            /\ \A u \in Threads : Uses(u, o) => op[u] # "wait_async"
        BY <2>2, <2>6, <3>3 DEF Cancelled
      <4>2. \A b \in Objects : o \notin dobs[b]
        <5>1. o \notin dobs[obj[t]] BY <1>3, <4>1 DEF Visits
        <5> QED BY <2>2, <4>1, <5>1 DEF Course
      <4>3. \A u \in Threads : ~Uses(u, o) BY <1>13, <4>1
      <4> QED BY <4>2, <4>3 DEF Early
    <3>4. \A u \in Threads : op'[u] = op[u] /\ obj'[u] = obj[u] /\ key'[u] = key[u]
          /\ (u # t => pc'[u] = pc[u])
      BY <1>4, <2>6 DEF Rest
    <3>5. Cancelled(o)' BY <1>4, <2>1, <2>2, <2>6, <3>1, <3>2, <3>3, <3>4 DEF Cancelled
    <3> QED BY <2>1, <2>4, <3>5
  <2> QED BY <2>5, <2>6
<1>15. Once' /\ EphemeralCounted' BY <1>3 DEF IInv, Once, EphemeralCounted, portVars
<1> QED BY <1>5, <1>8, <1>9, <1>10, <1>11, <1>14, <1>15 DEF IInv

\* A user packet is queued, or refused.
LEMMA QueueUserInv == ASSUME IInv, NEW t \in Threads, QueueUser(t) PROVE IInv'
<1>1. Types /\ Thread(t) /\ pc[t] = "queue" /\ op[t] = "queue" BY OpAt DEF IInv, Control, QueueUser
<1>2. temp[t] = {} /\ cur[t] = Null /\ covers[t] = {} /\ key[t] \in Keys BY <1>1, InHand DEF Use, Drop
<1>3. /\ UNCHANGED <<zero, irqs, irqPosts, observers, size, portOpen, sema, obsVars, dispVars, ghosts>>
  BY DEF QueueUser
<1>4. CASE Return(t) /\ UNCHANGED <<packets, eph>> /\ excp' \subseteq Threads
  <2>1. Rest(t) /\ pc'[t] = "idle" /\ op'[t] = "none" /\ cur'[t] = Null /\ temp' = temp
    BY <1>3, <1>4, Returns DEF Rest, ghosts
  <2>2. Types'
    <3>1. ThreadTypes' BY <1>4, Returns
    <3> QED
      BY <1>1, <1>3, <1>4, <3>1 DEF Types, PortTypes, ObjectTypes, ObserverTypes, GhostTypes, dispVars,
        obsVars, ghosts
  <2>3. Thread(t)' BY <1>2, <1>3, <1>4, Returns DEF ghosts
  <2>4. Quiet(t) BY <1>1, <1>3, <1>4, <2>1 DEF Quiet, Use, Drop, obsVars, dispVars, ghosts, InQueue
  <2> QED BY <1>1, <1>2, <1>3, <1>4, <2>1, <2>2, <2>3, <2>4, StillInv DEF ghosts, dispVars, Hold, Tokens
<1>5. CASE /\ ~zero /\ eph <= kMaxAllocatedPacketCountPerPort
           /\ packets' = Append(packets, [userKey |-> key[t]]) /\ eph' = eph + 1
           /\ Goto(t, "post_user") /\ UNCHANGED <<op, obj, key, edge, cur, temp, excp>>
  <2>1. [userKey |-> key[t]] \in UserPacket BY <1>2 DEF UserPacket
  <2>2. PICK p \in UserPacket : p = [userKey |-> key[t]] BY <2>1
  <2>3. p \in Packets /\ p \notin Observers /\ packets' = Append(packets, p)
    BY <1>5, <2>2, PortAssumption DEF Packets
  <2>4. packets \in Seq(Packets) /\ Len(packets) \in Nat BY <1>1, LenProperties DEF Types, PortTypes
  <2>5. /\ packets' \in Seq(Packets) /\ Len(packets') = Len(packets) + 1
        /\ \A x : Has(packets', x) <=> Has(packets, x) \/ x = p
        /\ Single(packets) => Single(packets')
        /\ Users(packets') = Users(packets) + 1
    BY <2>3, <2>4, AddSound
  <2>6. Rest(t) /\ pc'[t] = "post_user" BY <1>1, <1>3, <1>5 DEF Goto, Rest, Types, ThreadTypes, ghosts
  <2>7. Types'
    <3>1. ThreadTypes' BY <1>1, <1>5 DEF Goto, Types, ThreadTypes, PCs
    <3>2. PortTypes' BY <1>1, <1>3, <2>5 DEF Types, PortTypes
    <3> QED
      BY <1>1, <1>3, <3>1, <3>2 DEF Types, ObjectTypes, ObserverTypes, GhostTypes, dispVars, obsVars,
        ghosts
  <2>8. Thread(t)'
    BY <1>1, <1>2, <1>3, <1>5, <2>6 DEF Thread, At, Use, Hold, Drop, ghosts, obsVars, dispVars
  <2>9. \A o \in Observers : InQueue(o)' <=> InQueue(o)
    <3>1. \A o \in Observers : o # p BY <2>3
    <3>2. \A o \in Observers : Has(packets', o) <=> Has(packets, o) BY <2>5, <3>1
    <3> QED BY <3>2 DEF InQueue
  <2>10. Quiet(t) BY <1>1, <1>2, <1>3, <1>5, <2>6, <2>9 DEF Quiet, Use, Drop, obsVars, dispVars, ghosts
  <2>11. Observing' BY <1>1, <1>2, <1>3, <2>10, QuietObserving DEF dispVars, ghosts
  <2>12. Locks' BY <1>1, <1>3, <2>6, RestLocks DEF IInv, Hold, dispVars
  <2>13. Closing' BY <1>1, <1>3, <1>5, <2>6, RestClosing DEF IInv
  <2>14. Control'
    <3>1. \A u \in Threads : op[u] = "wait_async" => portOpen /\ obj[u] \in open
      BY DEF IInv, Control, Thread
    <3>2. UNCHANGED <<temp, oobj, open, portOpen>> BY <1>3, <1>5 DEF obsVars, dispVars
    <3> QED BY <2>6, <2>8, <3>1, <3>2, RestControl DEF IInv
  <2>15. NoLostPacket'
    <3>1. Arriving' = Arriving + 1 /\ Popping' = Popping
      BY <1>1, <2>6, AmongStep DEF Rest, Arriving, Popping
    <3>2. Coming' = Coming + 1 /\ irqs' = irqs BY <1>1, <1>3, <3>1, TokenTypes DEF Coming
    <3> QED BY <1>1, <2>5, <3>1, <3>2, TokenTypes, TokensHeld, TokensHold
  <2>16. Once' /\ EphemeralCounted'
    <3>1. Once /\ eph = Users(packets) /\ eph \in Nat BY <2>4, UserCount DEF IInv, EphemeralCounted
    <3> QED BY <1>5, <2>5, <3>1, PortAssumption DEF Once, EphemeralCounted
  <2> QED BY <2>7, <2>11, <2>12, <2>13, <2>14, <2>15, <2>16 DEF IInv
<1>6. excp \subseteq Threads BY <1>1 DEF Types, ThreadTypes
<1> QED BY <1>4, <1>5, <1>6 DEF QueueUser

\* A token is posted for the packet just queued.
LEMMA PostInv == ASSUME IInv, NEW t \in Threads, Post(t) PROVE IInv'
<1>1. Types /\ Thread(t) /\ pc[t] \in {"post", "post_user"}
      /\ op[t] \in {"wait_async", "signal", "queue"}
  BY OpAt DEF IInv, Control, Post
<1>2. temp[t] = {} /\ covers[t] = {} BY <1>1, InHand
<1>3. UNCHANGED <<portVars, obsVars, dispVars, excp, ghosts>> /\ sema' = sema + 1 /\ temp' = temp
  BY DEF Post, Return
<1>4. CASE pc[t] = "post"
  <2>1. pc' = [pc EXCEPT ![t] = "reap"] /\ UNCHANGED <<op, obj, key, edge, cur, temp>>
    BY <1>4 DEF Post, Goto
  <2>2. Rest(t) /\ pc'[t] = "reap" BY <1>1, <1>3, <2>1 DEF Rest, Types, ThreadTypes, ghosts
  <2>3. Types'
    <3>1. ThreadTypes' BY <1>1, <1>3, <2>1 DEF Types, ThreadTypes, PCs
    <3>2. PortTypes' BY <1>1, <1>3 DEF Types, PortTypes, portVars
    <3> QED
      BY <1>1, <1>3, <3>1, <3>2 DEF Types, ObjectTypes, ObserverTypes, GhostTypes, dispVars, obsVars,
        ghosts
  <2>4. op[t] \in {"wait_async", "signal"} BY <1>4, OpAt
  <2>5. Thread(t)'
    BY <1>1, <1>2, <1>3, <1>4, <2>1, <2>2, <2>4 DEF Thread, At, Use, Hold, Drop, ghosts, obsVars,
      dispVars, portVars
  <2>6. Locks' BY <1>3, <1>4, <2>1, <2>2, RestLocks DEF IInv, Hold, dispVars
  <2>7. Closing' BY <1>3, <2>1, <2>2, <2>4, RestClosing DEF IInv, portVars
  <2>8. Control'
    <3>1. \A u \in Threads : op[u] = "wait_async" => portOpen /\ obj[u] \in open
      BY DEF IInv, Control, Thread
    <3>2. UNCHANGED <<temp, oobj, open, portOpen>> BY <1>3 DEF obsVars, portVars, dispVars
    <3> QED BY <2>2, <2>5, <3>1, <3>2, RestControl DEF IInv
  <2>9. NoLostPacket'
    <3>1. Arriving' = Arriving - 1 /\ Popping' = Popping
      BY <1>4, <2>2, AmongStep DEF Rest, Arriving, Popping
    <3>2. Coming' = Coming /\ irqs' = irqs /\ packets' = packets
      BY <1>1, <1>3, <3>1, TokenTypes DEF Coming, portVars
    <3> QED BY <3>1, <3>2, TokensHeld, TokensHold
  <2>10. Observing'
    <3> SUFFICES ASSUME NEW o \in Observers
        PROVE  Placed(o)' /\ Linked(o)' /\ Cancelled(o)' BY DEF Observing
    <3>1. SameView(o)
      BY <1>3, <1>4, <2>1, <2>2 DEF SameView, Rest, portVars, dispVars, obsVars, Use, Drop
    <3>2. SamePacket(o) BY <1>3 DEF SamePacket, InQueue, obsVars, ghosts, portVars
    <3>3. Aside(t, o) BY <1>2, <1>3, <3>1, <3>2 DEF Aside, ghosts
    <3>4. \A b : Held(b) => Held(b)' BY <1>3, <2>1, <2>2, HeldStep DEF dispVars
    <3> QED BY <1>3, <2>2, <3>3, <3>4, AsideObserver DEF portVars
  <2>11. Once' /\ EphemeralCounted' BY <1>3 DEF IInv, Once, EphemeralCounted, portVars
  <2> QED BY <2>3, <2>6, <2>7, <2>8, <2>9, <2>10, <2>11 DEF IInv
<1>5. CASE pc[t] = "post_user"
  <2>1. Return(t) /\ op[t] = "queue" /\ cur[t] = Null BY <1>5, OpAt, InHand DEF Post, Use, Drop
  <2>2. Rest(t) /\ pc'[t] = "idle" /\ op'[t] = "none" /\ cur'[t] = Null
    BY <1>3, <2>1, Returns DEF Rest, ghosts
  <2>3. Types'
    <3>1. ThreadTypes' BY <1>1, <1>3, <2>1, Returns DEF Types, ThreadTypes
    <3>2. PortTypes' BY <1>1, <1>3 DEF Types, PortTypes, portVars
    <3> QED
      BY <1>1, <1>3, <3>1, <3>2 DEF Types, ObjectTypes, ObserverTypes, GhostTypes, dispVars, obsVars,
        ghosts
  <2>4. Thread(t)' BY <1>2, <1>3, <2>1, Returns DEF ghosts
  <2>5. Quiet(t) BY <1>5, <1>3, <2>2 DEF Quiet, Use, Drop, portVars, obsVars, dispVars, ghosts, InQueue
  <2>6. Locks' BY <1>3, <1>5, <2>2, RestLocks DEF IInv, Hold, dispVars
  <2>7. Closing' BY <1>3, <2>1, <2>2, RestClosing DEF IInv, portVars
  <2>8. NoLostPacket'
    <3>1. Arriving' = Arriving - 1 /\ Popping' = Popping
      BY <1>5, <2>2, AmongStep DEF Rest, Arriving, Popping
    <3>2. Coming' = Coming /\ irqs' = irqs /\ packets' = packets
      BY <1>1, <1>3, <3>1, TokenTypes DEF Coming, portVars
    <3> QED BY <3>1, <3>2, TokensHeld, TokensHold
  <2> QED
    BY <1>2, <1>3, <2>1, <2>2, <2>3, <2>4, <2>5, <2>6, <2>7, <2>8, QuietInv DEF portVars, dispVars,
      ghosts
<1> QED BY <1>1, <1>4, <1>5

\* A size_t is a number below its width.
LEMMA SizeType == ASSUME NEW n \in Int PROVE Size(n) \in 0 .. 2^SizeBits - 1
<1>1. 2^SizeBits \in Int BY PortAssumption
<1>2. Cardinality(Observers) \in Nat BY PortAssumption, FS_CardinalityType
<1>3. 2^SizeBits > 0 BY <1>1, <1>2, PortAssumption
<1> DEFINE m == 2^SizeBits
<1>4. m \in Int /\ m > 0 BY <1>1, <1>3
<1> HIDE DEF m
<1>5. n % m \in 0 .. m - 1 BY <1>4
<1> QED BY <1>5 DEF m, Size

\* The parts of the invariant that only depend on the calls in progress.
LEMMA CallsInv ==
  ASSUME IInv, NEW t \in Threads, Rest(t), UNCHANGED <<portOpen, open>>,
         \A u \in Threads \ {t} : temp'[u] \subseteq temp[u],
         \A u \in Threads \ {t} : pc[u] \in Use => oobj'[cur[u]] = oobj[cur[u]], Thread(t)'
  PROVE  Control'
<1>1. \A u \in Threads : op[u] = "wait_async" => portOpen /\ obj[u] \in open
  BY DEF IInv, Control, Thread
<1> QED BY <1>1, RestControl DEF IInv

\* MakeObserver keeps the invariant.
LEMMA MakeObserverInv ==
  ASSUME IInv, NEW t \in Threads, NEW o \in Observers, NEW b \in Objects, NEW k \in Keys,
         NEW e \in BOOLEAN,
         MakeObserver(t, o, b, k, e)
  PROVE  IInv'
<1>1. Types /\ pc[t] = "idle" /\ portOpen /\ b \in open /\ life[o] = "none" BY DEF IInv, MakeObserver
<1>2. op[t] = "none" /\ cur[t] = Null /\ temp[t] = {} /\ covers[t] = {} BY <1>1, Idle
<1>3. /\ UNCHANGED <<zero, packets, eph, irqs, irqPosts, portOpen, sema, canceled, owned, dispVars,
                     key, temp, ghosts>>
      /\ observers' = observers \cup {o} /\ size' = Size(size + 1)
      /\ life' = [life EXCEPT ![o] = "live"] /\ odisp' = [odisp EXCEPT ![o] = b]
      /\ oobj' = [oobj EXCEPT ![o] = b] /\ okey' = [okey EXCEPT ![o] = k]
  BY DEF MakeObserver
<1>4. Rest(t) /\ pc'[t] = "add" /\ op'[t] = "wait_async" /\ obj'[t] = b /\ cur'[t] = o
  BY <1>1, <1>3 DEF MakeObserver, Goto, Rest, Types, ThreadTypes, ghosts
<1>5. life'[o] = "live" /\ odisp'[o] = b /\ oobj'[o] = b /\ okey'[o] = k /\ o # Null /\ b # Null
  BY <1>1, <1>3, PortAssumption DEF Types, ObserverTypes
<1>6. Placed(o) /\ Linked(o) /\ Cancelled(o) BY DEF IInv, Observing
<1>7. /\ o \notin observers /\ o \notin owned /\ o \notin canceled /\ ~InQueue(o) /\ got[o] = 0
      /\ \A c \in Objects : o \notin dobs[c]
      /\ \A u \in Threads : cur[u] # o /\ o \notin temp[u]
  BY <1>1, <1>6 DEF Placed, Unmade
<1>8. Types'
  <2>1. ThreadTypes'
    <3>1. excp' \subseteq Threads BY <1>1 DEF MakeObserver, Types, ThreadTypes
    <3> QED BY <1>1, <1>3, <3>1 DEF MakeObserver, Goto, Types, ThreadTypes, PCs, Ops
  <2>2. PortTypes'
    <3>1. size \in Int BY <1>1, PortAssumption DEF Types, PortTypes
    <3>2. size' \in 0 .. 2^SizeBits - 1 BY <1>3, <3>1, SizeType
    <3> QED BY <1>1, <1>3, <3>2 DEF Types, PortTypes
  <2>3. ObserverTypes' BY <1>1, <1>3 DEF Types, ObserverTypes
  <2> QED BY <1>1, <1>3, <2>1, <2>2, <2>3 DEF Types, ObjectTypes, GhostTypes, dispVars, ghosts
<1>9. Thread(t)' BY <1>1, <1>2, <1>3, <1>4, <1>5 DEF Thread, At, Use, Hold, Drop, ghosts, dispVars
<1>10. Locks' BY <1>1, <1>3, <1>4, RestLocks DEF IInv, Hold, dispVars
<1>11. Closing' BY <1>1, <1>2, <1>3, <1>4, RestClosing DEF IInv
<1>12. NoLostPacket'
  <2>1. packets' \in Seq(Packets) /\ Len(packets') <= Len(packets)
    BY <1>1, <1>3, LenProperties DEF Types, PortTypes
  <2> QED BY <1>1, <1>3, <1>4, <2>1, RestTokens DEF IInv, Rest, Tokens
<1>13. Control'
  <2>1. \A u \in Threads \ {t} : pc[u] \in Use => oobj'[cur[u]] = oobj[cur[u]]
    <3>1. \A x \in Observers : x # o => oobj'[x] = oobj[x] BY <1>1, <1>3 DEF Types, ObserverTypes
    <3> QED BY <1>7, <3>1, InHand
  <2> QED BY <1>3, <1>4, <1>9, <2>1, CallsInv DEF dispVars
<1>14. Observing'
  <2>1. ASSUME NEW x \in Observers, x # o PROVE Placed(x)' /\ Linked(x)' /\ Cancelled(x)'
    <3>1. life'[x] = life[x] /\ odisp'[x] = odisp[x] /\ oobj'[x] = oobj[x] /\ okey'[x] = okey[x]
          /\ x # Null
      BY <1>1, <1>3, <2>1, PortAssumption DEF Types, ObserverTypes
    <3>2. SameView(x) BY <1>2, <1>3, <1>4, <2>1, <3>1, OtherView DEF dispVars
    <3>3. SamePacket(x) BY <1>3, <3>1 DEF SamePacket, InQueue, ghosts
    <3>4. Aside(t, x) BY <1>2, <1>3, <3>2, <3>3 DEF Aside, ghosts
    <3>5. \A c : Held(c) => Held(c)' BY <1>2, <1>3, <1>4, HeldStep DEF dispVars
    <3> QED BY <1>3, <1>4, <3>4, <3>5, AsideObserver
  <2>2. Placed(o)'
    <3>1. \A u \in Threads : (cur'[u] = o <=> u = t) /\ o \notin temp'[u] BY <1>3, <1>4, <1>7 DEF Rest
    <3>2. \A u \in Threads : (Uses(u, o)' => u = t) /\ ~Drops(u, o)' BY <1>4, <3>1 DEF Uses, Drops, Drop
    <3>3. ~InQueue(o)' /\ got'[o] = 0 BY <1>3, <1>7 DEF InQueue, ghosts
    <3>4. \A c \in Objects : o \notin dobs'[c] BY <1>3, <1>7 DEF dispVars
    <3>5. Unmade(o)' BY <1>5 DEF Unmade
    <3>6. Course(o)' BY <1>5, <3>2, <3>3, <3>4 DEF Course
    <3>7. Owned(o)' BY <1>3, <1>5, <1>7, <3>1, <3>2, <3>3 DEF Owned
    <3>8. Refers(o)' BY <3>2 DEF Refers
    <3>9. Waiting(o)' BY <1>3 DEF Waiting
    <3> QED BY <3>5, <3>6, <3>7, <3>8, <3>9 DEF Placed
  <2>3. Linked(o)'
    <3>1. Uses(t, o)' /\ b \in open' BY <1>1, <1>3, <1>4 DEF Uses, Use, dispVars
    <3> QED BY <1>3, <1>5, <3>1 DEF Linked
  <2>4. Cancelled(o)'
    <3>1. o \notin finished' /\ \A u \in Threads : o \notin covers'[u]
      BY <1>1, <1>3, <1>6 DEF Cancelled, ghosts
    <3> QED BY <3>1 DEF Cancelled
  <2> QED BY <2>1, <2>2, <2>3, <2>4 DEF Observing
<1>15. Once' /\ EphemeralCounted' BY <1>3 DEF IInv, Once, EphemeralCounted
<1> QED BY <1>8, <1>10, <1>11, <1>12, <1>13, <1>14, <1>15 DEF IInv

\* What is known of an observer that a thread uses.
LEMMA UsedBy ==
  ASSUME IInv, NEW t \in Threads, NEW o \in Observers, Uses(t, o)
  PROVE  /\ life[o] # "none" /\ o \notin owned /\ oobj[o] \in Objects /\ okey[o] \in Keys
         /\ \A b \in Objects : o \notin dobs[b]
         /\ \A u \in Threads : Uses(u, o) => u = t
         /\ Early(o) <=> pc[t] \in {"add", "match"}
<1>1. Unmade(o) /\ Course(o) /\ Owned(o) BY DEF IInv, Observing, Placed
<1>2. life[o] # "none" /\ oobj[o] \in Objects /\ okey[o] \in Keys BY <1>1 DEF Unmade, Course, Uses
<1>3. o \notin owned BY <1>1 DEF Owned
<1>4. \A b \in Objects : o \notin dobs[b] BY <1>1 DEF Course
<1>5. \A u \in Threads : Uses(u, o) => u = t BY <1>1 DEF Course
<1>6. Early(o) <=> pc[t] \in {"add", "match"} BY <1>4, <1>5 DEF Early
<1> QED BY <1>2, <1>3, <1>4, <1>5, <1>6

\* AddObserver keeps the invariant.
LEMMA AddObserverInv == ASSUME IInv, NEW t \in Threads, AddObserver(t) PROVE IInv'
<1>1. Types /\ Thread(t) /\ pc[t] = "add" /\ op[t] = "wait_async" /\ dlock[obj[t]] = Null
  BY OpAt DEF IInv, Control, AddObserver
<1>2. temp[t] = {} /\ covers[t] = {} /\ cur[t] \in Observers /\ obj[t] \in Objects
      /\ obj[t] = oobj[cur[t]] /\ Uses(t, cur[t])
  BY <1>1, InHand DEF Use
<1>3. UNCHANGED <<portVars, sema, obsVars, active, open, excp, ghosts>> /\ temp' = temp
  BY DEF AddObserver, Return
<1>4. PICK o \in Observers : o = cur[t] BY <1>2
<1>5. PICK b \in Objects : b = obj[t] BY <1>2
<1>6. CASE ~edge[t] /\ b \in active
  <2>1. pc' = [pc EXCEPT ![t] = "match"] /\ dlock' = [dlock EXCEPT ![b] = t]
        /\ UNCHANGED <<dobs, op, obj, key, edge, cur, temp>>
    BY <1>5, <1>6 DEF AddObserver, Goto
  <2>2. Rest(t) /\ pc'[t] = "match" BY <1>1, <1>3, <2>1 DEF Rest, Types, ThreadTypes, ghosts
  <2>3. Types'
    <3>1. ThreadTypes' BY <1>1, <1>3, <2>1 DEF Types, ThreadTypes, PCs
    <3>2. ObjectTypes' BY <1>1, <1>3, <2>1 DEF Types, ObjectTypes
    <3> QED
      BY <1>1, <1>3, <3>1, <3>2 DEF Types, PortTypes, ObserverTypes, GhostTypes, portVars, obsVars,
        ghosts
  <2>4. Thread(t)'
    BY <1>1, <1>2, <1>3, <2>1, <2>2 DEF Thread, At, Use, Hold, Drop, ghosts, obsVars, portVars
  <2>5. Locks' BY <1>1, <1>5, <2>1, <2>2, TakeLock DEF IInv, Hold, Types
  <2>6. Closing' BY <1>1, <1>3, <2>1, <2>2, RestClosing DEF IInv, portVars
  <2>7. NoLostPacket'
    <3>1. packets' \in Seq(Packets) /\ Len(packets') <= Len(packets)
      BY <1>1, <1>3, LenProperties DEF Types, PortTypes, portVars
    <3> QED BY <1>1, <1>3, <2>2, <3>1, RestTokens DEF IInv, Rest, Tokens, portVars
  <2>8. Control' BY <1>3, <2>2, <2>4, CallsInv DEF portVars, obsVars
  <2>9. Observing'
    <3> SUFFICES ASSUME NEW x \in Observers
        PROVE  Placed(x)' /\ Linked(x)' /\ Cancelled(x)' BY DEF Observing
    <3>1. SameView(x) BY <1>1, <1>3, <2>1, <2>2 DEF SameView, Rest, portVars, obsVars, Use, Drop
    <3>2. SamePacket(x) BY <1>3 DEF SamePacket, InQueue, obsVars, ghosts, portVars
    <3>3. Aside(t, x) BY <1>2, <1>3, <3>1, <3>2 DEF Aside, ghosts
    <3>4. \A c : Held(c) => Held(c)' BY <1>3, <2>1, <2>2, HeldStep
    <3> QED BY <1>3, <2>2, <3>3, <3>4, AsideObserver DEF portVars
  <2>10. Once' /\ EphemeralCounted' BY <1>3 DEF IInv, Once, EphemeralCounted, portVars
  <2> QED BY <2>3, <2>5, <2>6, <2>7, <2>8, <2>9, <2>10 DEF IInv
<1>7. CASE ~(~edge[t] /\ b \in active)
  <2>1. Return(t) /\ dobs' = [dobs EXCEPT ![b] = dobs[b] \cup {o}] /\ dlock' = dlock
    BY <1>4, <1>5, <1>7 DEF AddObserver
  <2>2. Rest(t) /\ pc'[t] = "idle" /\ op'[t] = "none" /\ cur'[t] = Null /\ obj'[t] = Null
    BY <1>3, <2>1, Returns DEF Rest, ghosts
  <2>3. Types'
    <3>1. ThreadTypes' BY <1>1, <1>3, <2>1, Returns DEF Types, ThreadTypes
    <3>2. ObjectTypes' BY <1>1, <1>3, <2>1 DEF Types, ObjectTypes
    <3> QED
      BY <1>1, <1>3, <3>1, <3>2 DEF Types, PortTypes, ObserverTypes, GhostTypes, portVars, obsVars,
        ghosts
  <2>4. Thread(t)' BY <1>2, <1>3, <2>1, Returns DEF ghosts
  <2>5. Locks' BY <1>1, <2>1, <2>2, RestLocks DEF IInv, Hold
  <2>6. Closing' BY <1>1, <1>3, <2>2, RestClosing DEF IInv, portVars
  <2>7. NoLostPacket'
    <3>1. packets' \in Seq(Packets) /\ Len(packets') <= Len(packets)
      BY <1>1, <1>3, LenProperties DEF Types, PortTypes, portVars
    <3> QED BY <1>1, <1>3, <2>2, <3>1, RestTokens DEF IInv, Rest, Tokens, portVars
  <2>8. Control' BY <1>3, <2>2, <2>4, CallsInv DEF portVars, obsVars
  <2>9. \A c \in Objects : dobs'[c] = IF c = b THEN dobs[b] \cup {o} ELSE dobs[c]
    BY <1>1, <2>1 DEF Types, ObjectTypes
  <2>10. \A c : Held(c) => Held(c)' BY <1>1, <1>3, <2>2, HeldStep
  <2>11. ASSUME NEW x \in Observers, x # o PROVE Placed(x)' /\ Linked(x)' /\ Cancelled(x)'
    <3>1. x # Null BY PortAssumption
    <3>2. \A c \in Objects : x \in dobs'[c] <=> x \in dobs[c] BY <2>9, <2>11
    <3>3. SameView(x) BY <1>3, <1>4, <2>2, <2>11, <3>1, <3>2, OtherView DEF portVars, obsVars
    <3>4. SamePacket(x) BY <1>3 DEF SamePacket, InQueue, obsVars, ghosts, portVars
    <3>5. Aside(t, x) BY <1>2, <1>3, <3>3, <3>4 DEF Aside, ghosts
    <3> QED BY <1>3, <2>2, <2>10, <3>5, AsideObserver DEF portVars
  <2>12. Placed(o)' /\ Linked(o)' /\ Cancelled(o)'
    <3>1. Placed(o) /\ Linked(o) /\ Cancelled(o) BY DEF IInv, Observing
    <3>2. o # Null /\ oobj[o] = b /\ Uses(t, o) BY <1>2, <1>4, <1>5, PortAssumption
    <3>3. /\ life[o] # "none" /\ o \notin owned /\ (\A u \in Threads : Uses(u, o) => u = t) /\ Early(o)
      BY <1>1, <3>2, UsedBy
    <3>4. \A u \in Threads : ~Uses(u, o)' /\ (Drops(u, o)' <=> Drops(u, o))
      BY <1>1, <2>2, <3>2, <3>3 DEF Rest, Uses, Drops, Drop
    <3>5. UNCHANGED <<zero, packets, life, odisp, okey, oobj, canceled, owned, observers, got, temp,
                      covers, finished>>
      BY <1>3 DEF portVars, obsVars, ghosts
    <3>6. InQueue(o)' <=> InQueue(o) BY <3>5 DEF InQueue
    <3>7. Unmade(o)' BY <3>3, <3>5 DEF Unmade
    <3>8. Course(o)'
      <4>1. \A c \in Objects : o \in dobs'[c] => c = b BY <2>9, <3>1, <3>2 DEF Placed, Course
      <4> QED BY <3>1, <3>2, <3>3, <3>4, <3>5, <3>6, <4>1 DEF Placed, Course
    <3>9. Owned(o)'
      <4>1. \A u \in Threads : Drops(u, o) => op'[u] = op[u] BY <1>1, <2>2 DEF Rest, Drops, Drop
      <4> QED BY <3>1, <3>3, <3>4, <3>5, <3>6, <4>1 DEF Placed, Owned
    <3>10. Refers(o)'
      <4>1. \A u \in Threads : Drops(u, o) => obj'[u] = obj[u] BY <1>1, <2>2 DEF Rest, Drops, Drop
      <4> QED BY <3>1, <3>4, <3>5, <4>1 DEF Placed, Refers
    <3>11. Waiting(o)' BY <3>1, <3>3, <3>5 DEF Placed, Waiting
    <3>12. Linked(o)'
      <4>1. o \in dobs'[b] BY <2>9
      <4>2. odisp[o] # Null => Held(odisp[o]) BY <3>1 DEF Linked, Held
      <4> QED BY <2>10, <3>1, <3>2, <3>5, <4>1, <4>2 DEF Linked, Held
    <3>13. Cancelled(o)'
      <4>1. \A u \in Threads : o \in covers'[u] =>
           /\ o \in covers[u] /\ op'[u] = op[u] /\ obj'[u] = obj[u] /\ key'[u] = key[u]
           /\ pc'[u] = "cancel_queued" => pc[u] = "cancel_queued"
        BY <1>2, <2>2, <3>5 DEF Rest
      <4> QED BY <3>1, <3>3, <3>4, <3>5, <3>6, <4>1, RestCancelled
    <3> QED BY <3>7, <3>8, <3>9, <3>10, <3>11, <3>12, <3>13 DEF Placed
  <2>13. Observing' BY <2>11, <2>12 DEF Observing
  <2>14. Once' /\ EphemeralCounted' BY <1>3 DEF IInv, Once, EphemeralCounted, portVars
  <2> QED BY <2>3, <2>5, <2>6, <2>7, <2>8, <2>13, <2>14 DEF IInv
<1> QED BY <1>6, <1>7

\* OnMatch queues the packet, unless the port is closed or the wait canceled.
LEMMA QueueObserverInv == ASSUME IInv, NEW t \in Threads, QueueObserver(t) PROVE IInv'
<1>1. Types /\ Thread(t) /\ pc[t] = "match" /\ op[t] \in {"wait_async", "signal"}
  BY OpAt DEF IInv, Control, QueueObserver
<1>2. temp[t] = {} /\ covers[t] = {} /\ cur[t] \in Observers /\ obj[t] = oobj[cur[t]] /\ Uses(t, cur[t])
  BY <1>1, InHand DEF Use
<1>3. PICK o \in Observers : o = cur[t] BY <1>2
<1>4. UNCHANGED <<zero, eph, irqs, irqPosts, observers, size, portOpen, sema, obsVars, dispVars, op,
                  obj, key, edge, cur, temp, excp, ghosts>>
  BY DEF QueueObserver
<1>5. IF zero \/ o \in canceled THEN pc' = [pc EXCEPT ![t] = "reap"] /\ packets' = packets
      ELSE pc' = [pc EXCEPT ![t] = "post"] /\ packets' = Append(packets, o)
  BY <1>3 DEF QueueObserver, Goto
<1>6. Rest(t) /\ pc'[t] = IF zero \/ o \in canceled THEN "reap" ELSE "post"
  BY <1>1, <1>4, <1>5 DEF Rest, Types, ThreadTypes, ghosts
<1>7. packets \in Seq(Packets) /\ Len(packets) \in Nat /\ o \in Packets
  BY <1>1, LenProperties DEF Types, PortTypes, Packets
<1>8. Placed(o) /\ Linked(o) /\ Cancelled(o) BY DEF IInv, Observing
<1>9. /\ life[o] # "none" /\ o \notin owned /\ oobj[o] \in Objects
      /\ (\A b \in Objects : o \notin dobs[b])
      /\ (\A u \in Threads : Uses(u, o) => u = t) /\ Early(o)
  BY <1>1, <1>2, <1>3, UsedBy
<1>10. ~InQueue(o) /\ got[o] = 0 BY <1>8, <1>9 DEF Placed, Course
<1>11. ~zero /\ o \notin canceled => o \in observers /\ o \notin finished
  BY <1>8, <1>9 DEF Placed, Waiting, Cancelled, Silent
<1>12. /\ packets' \in Seq(Packets) /\ Users(packets') = Users(packets)
       /\ (Single(packets) => Single(packets'))
       /\ Len(packets') = IF zero \/ o \in canceled THEN Len(packets) ELSE Len(packets) + 1
       /\ \A x : Has(packets', x) <=> Has(packets, x) \/ (x = o /\ ~zero /\ o \notin canceled)
  <2>1. CASE zero \/ o \in canceled BY <1>5, <1>7, <2>1
  <2>2. CASE ~zero /\ o \notin canceled
    <3>1. packets' = Append(packets, o) /\ ~Has(packets, o) BY <1>5, <1>10, <2>2 DEF InQueue
    <3>2. /\ Append(packets, o) \in Seq(Packets) /\ Len(Append(packets, o)) = Len(packets) + 1
          /\ \A x : Has(Append(packets, o), x) <=> Has(packets, x) \/ x = o
          /\ Single(packets) => Single(Append(packets, o))
          /\ Users(Append(packets, o)) = Users(packets)
      BY <1>7, <3>1, AddSound
    <3> QED BY <2>2, <3>1, <3>2
  <2> QED BY <2>1, <2>2
<1>13. Types'
  <2>1. ThreadTypes' BY <1>1, <1>4, <1>5 DEF Types, ThreadTypes, PCs
  <2>2. PortTypes' BY <1>1, <1>4, <1>12 DEF Types, PortTypes
  <2> QED
    BY <1>1, <1>4, <2>1, <2>2 DEF Types, ObjectTypes, ObserverTypes, GhostTypes, dispVars, obsVars,
      ghosts
<1>14. Thread(t)' BY <1>1, <1>2, <1>4, <1>6 DEF Thread, At, Use, Hold, Drop, ghosts, obsVars, dispVars
<1>15. Locks' BY <1>1, <1>4, <1>6, RestLocks DEF IInv, Hold, dispVars
<1>16. Closing' BY <1>1, <1>4, <1>5, <1>6, RestClosing DEF IInv
<1>17. Control' BY <1>4, <1>6, <1>14, CallsInv DEF obsVars, dispVars
<1>18. NoLostPacket'
  <2>1. CASE zero \/ o \in canceled
    <3>1. Len(packets') <= Len(packets) BY <1>7, <1>12, <2>1
    <3>2. Types /\ NoLostPacket /\ pc[t] \notin Tokens /\ pc'[t] \notin Tokens
      BY <1>1, <1>6, <2>1 DEF IInv, Tokens
    <3> QED BY <1>4, <1>6, <1>12, <3>1, <3>2, RestTokens DEF Rest
  <2>2. CASE ~zero /\ o \notin canceled
    <3>1. Arriving' = Arriving + 1 /\ Popping' = Popping
      BY <1>1, <1>6, <2>2, AmongStep DEF Rest, Arriving, Popping
    <3>2. Coming' = Coming + 1 /\ irqs' = irqs BY <1>1, <1>4, <3>1, TokenTypes DEF Coming
    <3>3. Len(packets') = Len(packets) + 1 BY <1>12, <2>2
    <3> QED BY <1>1, <3>1, <3>2, <3>3, TokenTypes, TokensHeld, TokensHold
  <2> QED BY <2>1, <2>2
<1>19. \A c : Held(c) => Held(c)' BY <1>4, <1>6, HeldStep DEF dispVars
<1>20. ASSUME NEW x \in Observers, x # o PROVE Placed(x)' /\ Linked(x)' /\ Cancelled(x)'
  <2>1. SameView(x) BY <1>3, <1>4, <1>6, <1>20, OtherView DEF dispVars, obsVars
  <2>2. SamePacket(x) BY <1>4, <1>12, <1>20 DEF SamePacket, InQueue, obsVars, ghosts
  <2>3. Aside(t, x) BY <1>2, <1>4, <2>1, <2>2 DEF Aside, ghosts
  <2> QED BY <1>4, <1>6, <1>19, <2>3, AsideObserver
<1>21. Placed(o)' /\ Linked(o)' /\ Cancelled(o)'
  <2>1. \A u \in Threads : (Uses(u, o)' <=> u = t) /\ (Drops(u, o)' <=> Drops(u, o))
        /\ (Drops(u, o) => u # t)
    BY <1>1, <1>2, <1>3, <1>4, <1>6, <1>9 DEF Rest, Uses, Drops, Use, Drop
  <2>2. UNCHANGED <<zero, life, odisp, okey, oobj, canceled, owned, observers, got, temp, covers,
                    finished, op, obj, key, dobs, open>>
    BY <1>4 DEF dispVars, obsVars, ghosts
  <2>3. InQueue(o)' <=> ~zero /\ o \notin canceled BY <1>10, <1>12 DEF InQueue
  <2>4. ~Early(o)'
    <3>1. \A u \in Threads : Uses(u, o)' => pc'[u] \notin {"add", "match"} BY <1>6, <2>1
    <3> QED BY <1>9, <2>2, <3>1 DEF Early
  <2>5. Unmade(o)' BY <1>9, <2>2 DEF Unmade
  <2>6. Course(o)' BY <1>8, <1>9, <1>10, <2>1, <2>2, <2>4 DEF Placed, Course
  <2>7. Owned(o)'
    <3>1. CASE zero \/ o \in canceled BY <1>8, <1>9, <2>1, <2>2, <2>3, <3>1 DEF Placed, Owned
    <3>2. CASE ~zero /\ o \notin canceled
      <4>1. o \in observers BY <1>11, <3>2
      <4> QED BY <1>8, <1>9, <2>1, <2>2, <2>3, <3>2, <4>1 DEF Placed, Owned
    <3> QED BY <3>1, <3>2
  <2>8. Refers(o)' BY <1>8, <2>1, <2>2 DEF Placed, Refers
  <2>9. Waiting(o)' BY <2>4 DEF Waiting
  <2>10. Linked(o)' BY <1>8, <2>1, <2>2 DEF Linked, Uses
  <2>11. Cancelled(o)'
    <3>1. Silent(o)' BY <2>4 DEF Silent
    <3>2. o \in finished' => ~InQueue(o)' BY <1>11, <2>2, <2>3
    <3>3. ASSUME NEW u \in Threads, o \in covers'[u], op'[u] = "cancel_key" PROVE ~InQueue(o)'
      <4>1. Silent(o) BY <1>8, <2>2, <3>3 DEF Cancelled
      <4> QED BY <1>9, <2>3, <4>1 DEF Silent
    <3>4. ASSUME NEW u \in Threads, o \in covers'[u], op'[u] = "cancel"
          PROVE  /\ oobj'[o] = obj'[u] /\ okey'[o] = key'[u]
                 /\ \A v \in Threads : Uses(v, o)' => op'[v] # "wait_async"
      <4>1. Uses(t, o) BY <1>2, <1>3
      <4> QED BY <1>8, <2>1, <2>2, <3>4, <4>1 DEF Cancelled
    <3> QED BY <1>9, <2>2, <2>4, <3>1, <3>2, <3>3, <3>4 DEF Cancelled
  <2> QED BY <2>5, <2>6, <2>7, <2>8, <2>9, <2>10, <2>11 DEF Placed
<1>22. Observing' BY <1>20, <1>21 DEF Observing
<1>23. Once' /\ EphemeralCounted' BY <1>4, <1>12 DEF IInv, Once, EphemeralCounted
<1> QED BY <1>13, <1>15, <1>16, <1>17, <1>18, <1>22, <1>23 DEF IInv

\* The loop takes an observer off the object's list.
LEMMA VisitInv == ASSUME IInv, NEW t \in Threads, NEW o \in Observers, Visit(t, o) PROVE IInv'
<1>1. Types /\ Thread(t) /\ pc[t] = "loop" /\ op[t] \in {"signal", "close_object", "cancel"}
  BY OpAt DEF IInv, Control, Visit
<1>2. temp[t] = {} /\ cur[t] = Null /\ obj[t] \in Objects /\ o # Null
  BY <1>1, InHand, PortAssumption DEF Use, Drop, Hold
<1>3. PICK b \in Objects : b = obj[t] BY <1>2
<1>4. /\ UNCHANGED <<portVars, sema, obsVars, active, open, dlock, op, obj, key, edge, temp, excp,
                     ghosts>>
      /\ dobs' = [dobs EXCEPT ![b] = dobs[b] \ {o}] /\ cur' = [cur EXCEPT ![t] = o] /\ o \in dobs[b]
      /\ pc' = [pc EXCEPT ![t] = IF op[t] = "signal" THEN "match" ELSE "reap"]
  BY <1>3 DEF Visit, Visits, Goto
<1>5. Rest(t) /\ cur'[t] = o /\ pc'[t] = (IF op[t] = "signal" THEN "match" ELSE "reap")
      /\ pc'[t] \in {"match", "reap"}
  BY <1>1, <1>4 DEF Rest, Types, ThreadTypes, ghosts
<1>6. \A c \in Objects : dobs'[c] = IF c = b THEN dobs[b] \ {o} ELSE dobs[c]
  BY <1>1, <1>4 DEF Types, ObjectTypes
<1>7. Placed(o) /\ Linked(o) /\ Cancelled(o) BY DEF IInv, Observing
<1>8. Early(o) BY <1>4 DEF Early
<1>9. oobj[o] = b /\ (\A u \in Threads : ~Uses(u, o)) /\ life[o] # "none" /\ o \notin owned
  BY <1>4, <1>7, <1>8 DEF Placed, Course, Unmade, Owned
<1>10. Types'
  <2>1. ThreadTypes' BY <1>1, <1>4 DEF Types, ThreadTypes, PCs
  <2>2. ObjectTypes' BY <1>1, <1>4 DEF Types, ObjectTypes
  <2> QED
    BY <1>1, <1>4, <2>1, <2>2 DEF Types, PortTypes, ObserverTypes, GhostTypes, portVars, obsVars, ghosts
<1>11. Thread(t)' BY <1>1, <1>2, <1>3, <1>4, <1>5, <1>9 DEF Thread, At, Use, Hold, Drop, ghosts, obsVars
<1>12. Locks' BY <1>1, <1>4, <1>5, RestLocks DEF IInv, Hold
<1>13. Closing' BY <1>1, <1>4, <1>5, RestClosing DEF IInv, portVars
<1>14. Control' BY <1>4, <1>5, <1>11, CallsInv DEF obsVars, portVars
<1>15. NoLostPacket'
  <2>1. packets' \in Seq(Packets) /\ Len(packets') <= Len(packets)
    BY <1>1, <1>4, LenProperties DEF Types, PortTypes, portVars
  <2> QED BY <1>1, <1>4, <1>5, <2>1, RestTokens DEF IInv, Rest, Tokens, portVars
<1>16. \A c : Held(c) => Held(c)' BY <1>4, <1>5, HeldStep
<1>17. ASSUME NEW x \in Observers, x # o PROVE Placed(x)' /\ Linked(x)' /\ Cancelled(x)'
  <2>1. x # Null /\ \A c \in Objects : x \in dobs'[c] <=> x \in dobs[c] BY <1>6, <1>17, PortAssumption
  <2>2. SameView(x) BY <1>2, <1>4, <1>5, <1>17, <2>1, OtherView DEF obsVars, portVars
  <2>3. SamePacket(x) BY <1>4 DEF SamePacket, InQueue, obsVars, portVars, ghosts
  <2>4. Aside(t, x) BY <1>4, <1>5, <2>2, <2>3 DEF Aside, ghosts
  <2> QED BY <1>4, <1>5, <1>16, <2>4, AsideObserver DEF portVars
<1>18. Placed(o)' /\ Linked(o)' /\ Cancelled(o)'
  <2>1. \A u \in Threads : (Uses(u, o)' <=> u = t) /\ (Drops(u, o)' <=> Drops(u, o))
        /\ (Drops(u, o) => u # t)
    BY <1>2, <1>5, <1>9 DEF Rest, Uses, Drops, Use, Drop
  <2>2. UNCHANGED <<zero, packets, life, odisp, okey, oobj, canceled, owned, observers, got, temp,
                    covers, finished, op, obj, key, open>>
    BY <1>4 DEF portVars, obsVars, ghosts
  <2>3. InQueue(o)' <=> InQueue(o) BY <2>2 DEF InQueue
  <2>4. \A c \in Objects : o \notin dobs'[c] BY <1>6, <1>7, <1>9 DEF Placed, Course
  <2>5. Unmade(o)' BY <1>9, <2>2 DEF Unmade
  <2>6. Course(o)' BY <1>7, <1>8, <2>1, <2>2, <2>3, <2>4 DEF Placed, Course
  <2>7. Owned(o)' BY <1>7, <1>9, <2>1, <2>2, <2>3 DEF Placed, Owned
  <2>8. Refers(o)' BY <1>7, <2>1, <2>2 DEF Placed, Refers
  <2>9. Waiting(o)' BY <1>7, <1>8, <2>2 DEF Placed, Waiting
  <2>10. Linked(o)' BY <1>7, <2>1, <2>2 DEF Linked, Uses
  <2>11. Cancelled(o)'
    <3>1. \A u \in Threads : Uses(u, o)' /\ op'[u] = "wait_async" => FALSE BY <1>1, <1>4, <2>1
    <3>2. \A u \in Threads : o \in covers'[u] =>
           /\ o \in covers[u] /\ op'[u] = op[u] /\ obj'[u] = obj[u] /\ key'[u] = key[u]
           /\ pc'[u] = "cancel_queued" => pc[u] = "cancel_queued"
      BY <1>5, <2>2 DEF Rest
    <3> QED BY <1>7, <1>8, <2>2, <2>3, <3>1, <3>2, RestCancelled
  <2> QED BY <2>5, <2>6, <2>7, <2>8, <2>9, <2>10, <2>11 DEF Placed
<1>19. Observing' BY <1>17, <1>18 DEF Observing
<1>20. Once' /\ EphemeralCounted' BY <1>4 DEF IInv, Once, EphemeralCounted, portVars
<1> QED BY <1>10, <1>12, <1>13, <1>14, <1>15, <1>19, <1>20 DEF IInv

\* An observer that has been unlinked is taken off the object's list.
LEMMA RemoveObserverInv == ASSUME IInv, NEW t \in Threads, RemoveObserver(t) PROVE IInv'
<1>1. Types /\ Thread(t) /\ pc[t] = "remove" /\ op[t] \in {"cancel_key", "close_port"}
  BY OpAt DEF IInv, Control, RemoveObserver, Drop
<1>2. cur[t] \in Observers /\ obj[t] \in Objects /\ Drops(t, cur[t]) BY <1>1, InHand DEF Drop
<1>3. PICK b \in Objects : b = obj[t] BY <1>2
<1>4. PICK o \in Observers : o = cur[t] BY <1>2
<1>5. /\ UNCHANGED <<portVars, sema, obsVars, active, open, dlock, op, obj, key, edge, cur, temp, excp,
                     ghosts>>
      /\ dobs' = [dobs EXCEPT ![b] = dobs[b] \ {o}] /\ pc' = [pc EXCEPT ![t] = "removed"]
  BY <1>3, <1>4 DEF RemoveObserver, Goto
<1>6. Rest(t) /\ pc'[t] = "removed" BY <1>1, <1>5 DEF Rest, Types, ThreadTypes, ghosts
<1>7. \A c \in Objects : dobs'[c] = IF c = b THEN dobs[b] \ {o} ELSE dobs[c]
  BY <1>1, <1>5 DEF Types, ObjectTypes
<1>8. Placed(o) /\ Linked(o) /\ Cancelled(o) BY DEF IInv, Observing
<1>9. o \notin observers /\ o \notin owned /\ \A u \in Threads : o \notin temp[u]
  BY <1>2, <1>4, <1>8 DEF Placed, Owned
<1>10. Types'
  <2>1. ThreadTypes' BY <1>1, <1>5 DEF Types, ThreadTypes, PCs
  <2>2. ObjectTypes' BY <1>1, <1>5 DEF Types, ObjectTypes
  <2> QED
    BY <1>1, <1>5, <2>1, <2>2 DEF Types, PortTypes, ObserverTypes, GhostTypes, portVars, obsVars, ghosts
<1>11. Thread(t)' BY <1>1, <1>5, <1>6 DEF Thread, At, Use, Hold, Drop, ghosts, obsVars
<1>12. Locks' BY <1>1, <1>5, <1>6, RestLocks DEF IInv, Hold
<1>13. Closing'
  <2>1. \A u \in Threads : op'[u] = op[u] /\ (pc'[u] \in Drop <=> pc[u] \in Drop)
    BY <1>1, <1>5, <1>6 DEF Rest, Drop
  <2> QED BY <1>5, <2>1 DEF IInv, Closing, portVars
<1>14. Control' BY <1>5, <1>6, <1>11, CallsInv DEF obsVars, portVars
<1>15. NoLostPacket'
  <2>1. packets' \in Seq(Packets) /\ Len(packets') <= Len(packets)
    BY <1>1, <1>5, LenProperties DEF Types, PortTypes, portVars
  <2> QED BY <1>1, <1>5, <1>6, <2>1, RestTokens DEF IInv, Rest, Tokens, portVars
<1>16. \A c : Held(c) => Held(c)' BY <1>5, <1>6, HeldStep
<1>17. ASSUME NEW x \in Observers, x # o PROVE Placed(x)' /\ Linked(x)' /\ Cancelled(x)'
  <2>1. \A c \in Objects : x \in dobs'[c] <=> x \in dobs[c] BY <1>7, <1>17
  <2>2. SameView(x) BY <1>4, <1>5, <1>6, <1>17, <2>1, OtherView DEF obsVars, portVars
  <2>3. SamePacket(x) BY <1>5 DEF SamePacket, InQueue, obsVars, portVars, ghosts
  <2>4. Aside(t, x) BY <1>5, <1>6, <2>2, <2>3 DEF Aside, ghosts
  <2> QED BY <1>5, <1>6, <1>16, <2>4, AsideObserver DEF portVars
<1>18. Placed(o)' /\ Linked(o)' /\ Cancelled(o)'
  <2>1. \A u \in Threads : (Uses(u, o)' <=> Uses(u, o)) /\ (Drops(u, o)' <=> Drops(u, o))
    BY <1>1, <1>5, <1>6 DEF Rest, Uses, Drops, Use, Drop
  <2>2. UNCHANGED <<zero, packets, life, odisp, okey, oobj, canceled, owned, observers, got, temp,
                    covers, finished, op, obj, key, open>>
    BY <1>5 DEF portVars, obsVars, ghosts
  <2>3. InQueue(o)' <=> InQueue(o) BY <2>2 DEF InQueue
  <2>4. \A c \in Objects : o \in dobs'[c] => o \in dobs[c] BY <1>7
  <2>5. Early(o)' => Early(o)
    <3>1. \A u \in Threads : pc'[u] \in {"add", "match"} => pc[u] \in {"add", "match"} BY <1>6 DEF Rest
    <3> QED BY <2>1, <2>4, <3>1 DEF Early
  <2>6. Unmade(o)' BY <1>8, <2>2, <2>3, <2>4, <1>5 DEF Placed, Unmade
  <2>7. Course(o)' BY <1>8, <2>1, <2>2, <2>3, <2>4, <2>5 DEF Placed, Course
  <2>8. Owned(o)' BY <1>8, <1>9, <2>1, <2>2, <2>3 DEF Placed, Owned
  <2>9. Refers(o)' BY <1>8, <2>1, <2>2 DEF Placed, Refers
  <2>10. Waiting(o)' BY <1>8, <2>2, <2>5 DEF Placed, Waiting
  <2>11. Linked(o)' BY <1>8, <1>9, <2>2 DEF Linked
  <2>12. Cancelled(o)'
    <3>1. \A u \in Threads : o \in covers'[u] =>
           /\ o \in covers[u] /\ op'[u] = op[u] /\ obj'[u] = obj[u] /\ key'[u] = key[u]
           /\ pc'[u] = "cancel_queued" => pc[u] = "cancel_queued"
      BY <1>6, <2>2 DEF Rest
    <3> QED BY <1>8, <2>1, <2>2, <2>3, <2>5, <3>1, RestCancelled
  <2> QED BY <2>6, <2>7, <2>8, <2>9, <2>10, <2>11, <2>12 DEF Placed
<1>19. Observing' BY <1>17, <1>18 DEF Observing
<1>20. Once' /\ EphemeralCounted' BY <1>5 DEF IInv, Once, EphemeralCounted, portVars
<1> QED BY <1>10, <1>12, <1>13, <1>14, <1>15, <1>19, <1>20 DEF IInv

\* MaybeReap: the observer leaves the list it is in, and is destroyed unless
\* its packet is queued.
LEMMA MaybeReapInv == ASSUME IInv, NEW t \in Threads, MaybeReap(t) PROVE IInv'
<1>1. Types /\ Thread(t) /\ pc[t] = "reap"
      /\ op[t] \in {"wait_async", "signal", "close_object", "cancel"}
  BY OpAt DEF IInv, Control, MaybeReap
<1>2. temp[t] = {} /\ cur[t] \in Observers /\ obj[t] \in Objects /\ obj[t] = oobj[cur[t]]
      /\ Uses(t, cur[t])
  BY <1>1, InHand DEF Use
<1>3. PICK o \in Observers : o = cur[t] BY <1>2
<1>4. /\ UNCHANGED <<zero, packets, eph, irqs, irqPosts, portOpen, sema, okey, oobj, canceled, active,
                     open, dobs, key, excp, ghosts>>
      /\ cur' = [cur EXCEPT ![t] = Null] /\ edge' = [edge EXCEPT ![t] = FALSE]
  BY DEF MaybeReap
<1>5. /\ Rest(t) /\ cur'[t] = Null
      /\ IF op[t] = "wait_async" THEN /\ pc'[t] = "idle" /\ op'[t] = "none" /\ obj'[t] = Null
                                      /\ dlock' = [dlock EXCEPT ![obj[t]] = Null]
                                 ELSE pc'[t] = "loop" /\ op'[t] = op[t] /\ obj'[t] = obj[t]
                                      /\ dlock' = dlock
  BY <1>1, <1>4 DEF MaybeReap, Goto, Rest, Types, ThreadTypes, ghosts
<1>6. Placed(o) /\ Linked(o) /\ Cancelled(o) /\ o # Null BY PortAssumption DEF IInv, Observing
<1>7. /\ life[o] # "none" /\ o \notin owned /\ oobj[o] \in Objects
      /\ (\A b \in Objects : o \notin dobs[b])
      /\ (\A u \in Threads : Uses(u, o) => u = t) /\ ~Early(o)
  BY <1>1, <1>2, <1>3, UsedBy
<1>8. IF odisp[o] # Null
      THEN /\ odisp' = [odisp EXCEPT ![o] = Null] /\ observers' = observers \ {o}
           /\ size' = Size(size - 1)
           /\ temp' = [u \in Threads |-> temp[u] \ {o}]
           /\ IF InQueue(o) THEN owned' = owned \cup {o} /\ life' = life ELSE Destroy({o}) /\ owned' = owned
      ELSE UNCHANGED <<odisp, observers, size, temp, owned, life>>
  BY <1>3 DEF MaybeReap
<1>9. /\ odisp'[o] = Null /\ o \notin observers' /\ \A u \in Threads : o \notin temp'[u]
  <2>1. CASE odisp[o] # Null BY <1>1, <1>8, <2>1 DEF Types, ObserverTypes
  <2>2. CASE odisp[o] = Null BY <1>6, <1>8, <2>2 DEF Linked
  <2> QED BY <2>1, <2>2
<1>10. /\ \A x \in Observers : x # o => /\ odisp'[x] = odisp[x] /\ (x \in observers' <=> x \in observers) /\ life'[x] = life[x]
                                        /\ (x \in owned' <=> x \in owned)
                                        /\ \A u \in Threads : x \in temp'[u] <=> x \in temp[u]
       /\ observers' \subseteq observers /\ \A u \in Threads : temp'[u] \subseteq temp[u]
  <2>1. CASE odisp[o] # Null BY <1>1, <1>8, <2>1 DEF Types, ObserverTypes, Destroy
  <2>2. CASE odisp[o] = Null BY <1>8, <2>2
  <2> QED BY <2>1, <2>2
<1>11. Types'
  <2>1. PortTypes'
    <3>1. size \in Int BY <1>1, PortAssumption DEF Types, PortTypes
    <3>2. Size(size - 1) \in 0 .. 2^SizeBits - 1 BY <3>1, SizeType
    <3>3. size' \in {size, Size(size - 1)} BY <1>8
    <3>4. size' \in 0 .. 2^SizeBits - 1 BY <1>1, <3>2, <3>3 DEF Types, PortTypes
    <3> QED BY <1>1, <1>4, <1>10, <3>4 DEF Types, PortTypes
  <2>2. ObserverTypes' BY <1>1, <1>4, <1>8 DEF Types, ObserverTypes, Destroy
  <2>3. temp' \in [Threads -> SUBSET Observers] BY <1>1, <1>8 DEF Types, ThreadTypes
  <2>4. ThreadTypes'
    <3>1. pc' \in [Threads -> PCs] BY <1>1 DEF MaybeReap, Goto, Types, ThreadTypes, PCs
    <3>2. op' \in [Threads -> Ops \cup {"none"}] /\ obj' \in [Threads -> Objects \cup {Null}]
      BY <1>1 DEF MaybeReap, Types, ThreadTypes
    <3>3. cur' \in [Threads -> Observers \cup {Null}] /\ edge' \in [Threads -> BOOLEAN]
      BY <1>1, <1>4 DEF Types, ThreadTypes
    <3> QED BY <1>1, <1>4, <2>3, <3>1, <3>2, <3>3 DEF Types, ThreadTypes
  <2>5. ObjectTypes' BY <1>1, <1>4, <1>5 DEF Types, ObjectTypes
  <2> QED BY <1>1, <1>4, <2>1, <2>2, <2>4, <2>5 DEF Types, GhostTypes, ghosts
<1>12. temp'[t] = {} BY <1>2, <1>10
<1>13. Thread(t)' BY <1>1, <1>2, <1>4, <1>5, <1>12 DEF Thread, At, Use, Hold, Drop, ghosts
<1>14. Locks'
  <2>1. CASE op[t] = "wait_async" BY <1>1, <1>2, <1>5, <2>1, FreeLock DEF IInv, Hold, Types
  <2>2. CASE op[t] # "wait_async" BY <1>1, <1>5, <2>2, RestLocks DEF IInv, Hold
  <2> QED BY <2>1, <2>2
<1>15. op'[t] \in {"none", op[t]} /\ pc'[t] \in {"idle", "loop"} BY <1>5
<1>16. Closing' BY <1>1, <1>4, <1>5, <1>10, <1>15, RestClosing DEF IInv
<1>17. Control' BY <1>4, <1>5, <1>10, <1>13, CallsInv
<1>18. NoLostPacket'
  <2>1. packets' \in Seq(Packets) /\ Len(packets') <= Len(packets)
    BY <1>1, <1>4, LenProperties DEF Types, PortTypes
  <2> QED BY <1>1, <1>4, <1>5, <1>15, <2>1, RestTokens DEF IInv, Rest, Tokens
<1>19. \A c : Held(c) => Held(c)' BY <1>4, <1>5, HeldStep
<1>21. ASSUME NEW x \in Observers, x \in covers'[t]
       PROVE  x \in covers[t] /\ op'[t] = op[t] /\ obj'[t] = obj[t] /\ key'[t] = key[t]
              /\ pc'[t] # "cancel_queued"
  <2>1. x \in covers[t] /\ op[t] = "cancel" BY <1>1, <1>4, <1>21, InHand DEF ghosts
  <2> QED BY <1>4, <1>5, <2>1
<1>22. ASSUME NEW x \in Observers, x # o PROVE Placed(x)' /\ Linked(x)' /\ Cancelled(x)'
  <2>1. x # Null BY PortAssumption
  <2>2. SameView(x) BY <1>3, <1>4, <1>5, <1>10, <1>22, <2>1, OtherView
  <2>3. SamePacket(x) BY <1>4, <1>10, <1>22 DEF SamePacket, InQueue, ghosts
  <2>4. Aside(t, x) BY <1>4, <1>21, <2>2, <2>3 DEF Aside, ghosts
  <2> QED BY <1>4, <1>5, <1>19, <2>4, AsideObserver
<1>23. Placed(o)' /\ Linked(o)' /\ Cancelled(o)'
  <2>1. \A u \in Threads : ~Uses(u, o)' /\ (Drops(u, o)' <=> Drops(u, o)) /\ (Drops(u, o) => u # t)
    BY <1>1, <1>5, <1>6, <1>7 DEF Rest, Uses, Drops, Drop
  <2>2. UNCHANGED <<zero, packets, okey, oobj, canceled, dobs, got, covers, finished, key, open>>
    BY <1>4 DEF ghosts
  <2>3. InQueue(o)' <=> InQueue(o) BY <2>2 DEF InQueue
  <2>4. ~Early(o)' BY <1>7, <2>1, <2>2 DEF Early
  <2>5. life'[o] # "none" BY <1>1, <1>7, <1>8 DEF Types, ObserverTypes, Destroy
  <2>6. Unmade(o)' BY <2>5 DEF Unmade
  <2>7. Course(o)' BY <1>6, <1>7, <2>1, <2>2, <2>3, <2>4 DEF Placed, Course
  <2>8. Owned(o)'
    <3>1. \A u \in Threads : Drops(u, o) => op'[u] = op[u] BY <1>5, <2>1 DEF Rest
    <3>2. CASE odisp[o] = Null
      <4>1. UNCHANGED <<life, owned>> BY <1>8, <3>2
      <4>2. o \notin observers /\ \A u \in Threads : o \notin temp[u] BY <1>6, <3>2 DEF Linked
      <4> QED BY <1>6, <1>7, <1>9, <2>1, <2>2, <2>3, <3>1, <4>1, <4>2 DEF Placed, Owned
    <3>3. CASE odisp[o] # Null
      <4>1. o \in observers \/ \E u \in Threads : o \in temp[u] BY <1>6, <3>3 DEF Linked
      <4>2. life[o] = "live" /\ \A u \in Threads : ~Drops(u, o) BY <1>6, <4>1 DEF Placed, Owned
      <4>3. IF InQueue(o) THEN o \in owned' /\ life'[o] = "live" ELSE o \notin owned'
            /\ life'[o] = "destroyed"
        BY <1>1, <1>7, <1>8, <3>3, <4>2 DEF Types, ObserverTypes, Destroy
      <4> QED BY <1>6, <1>9, <2>1, <2>2, <2>3, <2>4, <4>2, <4>3 DEF Placed, Owned
    <3> QED BY <3>2, <3>3
  <2>9. Refers(o)'
    <3>1. \A u \in Threads : Drops(u, o) => obj'[u] = obj[u] BY <1>5, <2>1 DEF Rest
    <3> QED BY <1>6, <2>1, <2>2, <3>1 DEF Placed, Refers
  <2>10. Waiting(o)' BY <2>4 DEF Waiting
  <2>11. Linked(o)' BY <1>9 DEF Linked
  <2>12. Cancelled(o)'
    <3>1. \A u \in Threads : o \in covers'[u] =>
           /\ o \in covers[u] /\ op'[u] = op[u] /\ obj'[u] = obj[u] /\ key'[u] = key[u]
           /\ pc'[u] = "cancel_queued" => pc[u] = "cancel_queued"
      BY <1>5, <1>21, <2>2 DEF Rest
    <3> QED BY <1>6, <2>1, <2>2, <2>3, <2>4, <2>5, <3>1, RestCancelled
  <2> QED BY <2>6, <2>7, <2>8, <2>9, <2>10, <2>11, <2>12 DEF Placed
<1>24. Observing' BY <1>22, <1>23 DEF Observing
<1>25. Once' /\ EphemeralCounted' BY <1>4 DEF IInv, Once, EphemeralCounted
<1> QED BY <1>11, <1>14, <1>16, <1>17, <1>18, <1>24, <1>25 DEF IInv
-----------------------------------------------------------------------------
(***************************************************************************)
(* Steps that take packets off the queue.                                  *)
(***************************************************************************)
\* Packets leave the queue, those of the observers in S among them.
Taken(S) ==
  /\ packets' \in Seq(Packets) /\ Len(packets') <= Len(packets)
  /\ Single(packets) => Single(packets')
  /\ eph' = Users(packets') /\ Users(packets') <= Users(packets)
  /\ \A o \in Observers : InQueue(o)' <=> InQueue(o) /\ o \notin S

\* CancelQueuedPacketsLocked takes off those of the handle and key, and counts.
LEMMA CancelsTaken ==
  ASSUME IInv, NEW b, NEW k, CancelQueuedPacketsLocked(b, k)
  PROVE  Taken({o \in Observers : Cancels(o, b, k)})
<1> DEFINE I == {i \in 1 .. Len(packets) : ~Cancels(packets[i], b, k)}
           r == Keep(packets, I)
           S == {o \in Observers : Cancels(o, b, k)}
<1>1. packets \in Seq(Packets) /\ I \in SUBSET (1 .. Len(packets)) BY DEF IInv, Types, PortTypes
<1>2. packets' = r /\ eph' = eph - (Users(packets) - Users(r)) BY DEF CancelQueuedPacketsLocked, Kept
<1>3. eph = Users(packets) /\ Users(packets) \in Nat BY <1>1, UserCount DEF IInv, EphemeralCounted
<1>4. \A x : (\E i \in I : packets[i] = x) <=> Has(packets, x) /\ ~Cancels(x, b, k) BY DEF Has
<1> HIDE DEF I, r
<1>5. r \in Seq(Packets) /\ Leaves(packets, I, r) BY <1>1, KeepSound DEF r
<1>6. /\ Len(r) <= Len(packets) /\ (\A x : Has(r, x) <=> \E i \in I : packets[i] = x)
      /\ (Single(packets) => Single(r))
      /\ Users(r) = Cardinality({i \in I : packets[i] \notin Observers})
  <2>1. Fewer(packets, I, r) BY <1>1, <1>5, LeavesSound
  <2> QED BY <2>1 DEF Fewer
<1>7. Users(r) \in Nat /\ Users(r) <= Users(packets) BY <1>1, <1>5, <1>6, UserCount
<1>8. \A x : Has(r, x) <=> Has(packets, x) /\ ~Cancels(x, b, k) BY <1>4, <1>6
<1>9. \A o \in Observers : InQueue(o)' <=> InQueue(o) /\ o \notin S BY <1>2, <1>8 DEF InQueue
<1>10. eph' = Users(r) BY <1>2, <1>3, <1>7
<1> HIDE DEF S
<1>11. Taken(S) BY <1>2, <1>5, <1>6, <1>7, <1>9, <1>10 DEF Taken
<1> QED BY <1>11 DEF S

\* num_ephemeral_packets_ is counted down by the user packets that are taken.
LEMMA TakenCounts ==
  ASSUME IInv, NEW S, Taken(S)
  PROVE  /\ Once' /\ EphemeralCounted' /\ (packets = <<>> => packets' = <<>>)
         /\ packets' \in Seq(Packets) /\ Len(packets') <= Len(packets)
<1>1. packets \in Seq(Packets) /\ packets' \in Seq(Packets) /\ Len(packets') <= Len(packets)
  BY DEF IInv, Types, PortTypes, Taken
<1>2. Once' BY DEF IInv, Once, Taken
<1>3. EphemeralCounted'
  <2>1. eph = Users(packets) /\ eph <= kMaxAllocatedPacketCountPerPort + 1 /\ eph' = Users(packets')
        /\ Users(packets') <= Users(packets)
    BY DEF IInv, EphemeralCounted, Taken
  <2>2. Users(packets) \in Nat BY <1>1, UserCount
  <2>3. ASSUME NEW s \in Seq(Packets) PROVE Users(s) \in Nat BY UserCount
  <2>4. Users(packets') \in Nat BY <1>1, <2>3
  <2> QED BY <2>1, <2>2, <2>4, PortAssumption DEF EphemeralCounted
<1>4. packets = <<>> => packets' = <<>>
  <2>1. ASSUME NEW s \in Seq(Packets), Len(s) <= 0 PROVE s = <<>> BY <2>1, LenProperties, EmptySeq
  <2>2. packets = <<>> => Len(packets') <= 0 BY <1>1, EmptySeq
  <2> QED BY <1>1, <2>1, <2>2
<1> QED BY <1>1, <1>2, <1>3, <1>4

\* Taking a packet destroys the observer it owns.
LEMMA TakenAside ==
  ASSUME IInv, NEW S, Taken(S), NEW o \in Observers,
         got'[o] \in {got[o]} \cup {x \in {got[o] + 1} : o \in S /\ InQueue(o)},
         owned' = owned \ {x \in Observers : InQueue(x) /\ x \in S},
         life'[o] = IF o \in owned /\ InQueue(o) /\ o \in S THEN "destroyed" ELSE life[o]
  PROVE  SamePacket(o) \/ TakenPacket(o)
<1>1. InQueue(o)' <=> InQueue(o) /\ o \notin S BY DEF Taken
<1>2. CASE InQueue(o) /\ o \in S BY <1>1, <1>2 DEF TakenPacket
<1>3. CASE ~(InQueue(o) /\ o \in S) BY <1>1, <1>3 DEF SamePacket
<1> QED BY <1>2, <1>3

\* CancelQueued keeps the invariant.
LEMMA CancelQueuedInv == ASSUME IInv, NEW t \in Threads, CancelQueued(t) PROVE IInv'
<1>1. Types /\ Thread(t) /\ pc[t] = "cancel_queued" /\ op[t] = "cancel"
  BY OpAt DEF IInv, Control, CancelQueued
<1>2. temp[t] = {} /\ cur[t] = Null /\ obj[t] \in Objects /\ key[t] \in Keys
  BY <1>1, InHand DEF Use, Drop
<1>3. PICK b \in Objects : b = obj[t] BY <1>2
<1>4. PICK k \in Keys : k = key[t] BY <1>2
<1> DEFINE S == {o \in Observers : Cancels(o, b, k)}
<1>5. /\ UNCHANGED <<zero, irqs, irqPosts, observers, size, portOpen, sema, odisp, okey, oobj,
                     canceled, dispVars, excp, got>>
      /\ Return(t) /\ CancelQueuedPacketsLocked(b, k) /\ Destroy(Freed(b, k))
      /\ owned' = owned \ Freed(b, k)
      /\ finished' = finished \cup covers[t] /\ covers' = [covers EXCEPT ![t] = {}]
  BY <1>3, <1>4 DEF CancelQueued
<1>6. Taken(S) BY <1>5, CancelsTaken
<1>7. \A o \in Observers : o \in S <=> okey[o] = k /\ oobj[o] = b
  BY PortAssumption DEF Cancels, PacketKey
<1>8. owned \subseteq Observers /\ Freed(b, k) = {o \in owned : InQueue(o) /\ o \in S}
  BY <1>1 DEF Freed, Types, ObserverTypes
<1> HIDE DEF S
<1>9. /\ owned' = owned \ {x \in Observers : InQueue(x) /\ x \in S}
      /\ life' = [o \in Observers |-> IF o \in owned /\ InQueue(o) /\ o \in S THEN "destroyed" ELSE life[o]]
  BY <1>5, <1>8 DEF Destroy
<1>10. /\ Rest(t) /\ pc'[t] = "idle" /\ op'[t] = "none" /\ cur'[t] = Null /\ temp' = temp
       /\ covers'[t] = {}
  BY <1>1, <1>5, Returns DEF Rest, Types, GhostTypes
<1>11. /\ Once' /\ EphemeralCounted' /\ (packets = <<>> => packets' = <<>>) /\ packets' \in Seq(Packets)
       /\ Len(packets') <= Len(packets)
  BY <1>6, TakenCounts
<1>12. Types'
  <2>1. ThreadTypes' BY <1>1, <1>5, Returns DEF Types, ThreadTypes
  <2>2. PortTypes' BY <1>1, <1>5, <1>11 DEF Types, PortTypes
  <2>3. ObserverTypes' BY <1>1, <1>5, <1>9 DEF Types, ObserverTypes
  <2>4. covers' \in [Threads -> SUBSET Observers] BY <1>1, <1>5 DEF Types, GhostTypes
  <2>5. GhostTypes' BY <1>1, <1>5, <2>4 DEF Types, GhostTypes
  <2> QED BY <1>1, <1>5, <2>1, <2>2, <2>3, <2>5 DEF Types, ObjectTypes, dispVars
<1>13. Thread(t)' BY <1>2, <1>5, <1>10, Returns
<1>14. Locks' BY <1>1, <1>5, <1>10, RestLocks DEF IInv, Hold, dispVars
<1>15. Closing' BY <1>1, <1>5, <1>10, <1>11, RestClosing DEF IInv
<1>16. Control' BY <1>5, <1>10, <1>13, CallsInv DEF dispVars
<1>17. NoLostPacket' BY <1>1, <1>5, <1>10, <1>11, RestTokens DEF IInv, Rest, Tokens
<1>18. \A c : Held(c) => Held(c)' BY <1>1, <1>5, <1>10, HeldStep DEF dispVars
<1>19. Observing'
  <2> SUFFICES ASSUME NEW o \in Observers
      PROVE  Placed(o)' /\ Linked(o)' /\ Cancelled(o)' BY DEF Observing
  <2>1. o # Null BY PortAssumption
  <2>2. SameView(o) BY <1>2, <1>5, <1>10, <2>1, OtherView DEF dispVars
  <2>3. SamePacket(o) \/ TakenPacket(o) BY <1>5, <1>6, <1>9, TakenAside
  <2>4. CASE o \notin covers[t]
    <3>1. Aside(t, o) BY <1>5, <1>10, <2>2, <2>3, <2>4 DEF Aside
    <3> QED BY <1>5, <1>10, <1>18, <3>1, AsideObserver
  <2>5. CASE o \in covers[t]
    <3>1. Placed(o) /\ Linked(o) /\ Cancelled(o) /\ ObserverTypes /\ GhostTypes
      BY DEF IInv, Observing, Types
    <3>2. Placed(o)' BY <1>5, <2>2, <2>3, <3>1, RestPlaced
    <3>3. Linked(o)'
      <4>1. odisp[o] # Null => Held(odisp[o]) BY <3>1 DEF Linked, Held
      <4>2. odisp[o] # Null => Held(odisp[o])' BY <1>5, <1>18, <4>1 DEF Held
      <4> QED BY <2>2, <3>1, <4>2, RestLinked
    <3>4. o \in S /\ ~Early(o) /\ life[o] # "none" BY <1>1, <1>3, <1>4, <1>7, <2>5, <3>1 DEF Cancelled
    <3>5. ~InQueue(o)' BY <1>6, <3>4 DEF Taken
    <3>6. ~Early(o)' BY <2>2, <3>4, ViewEarly
    <3>7. life'[o] # "none" BY <1>9, <3>4
    <3>8. ASSUME NEW u \in Threads, o \in covers'[u]
          PROVE  op'[u] = "cancel" => /\ oobj'[o] = obj'[u] /\ okey'[o] = key'[u]
                                         /\ \A v \in Threads : Uses(v, o)' => op'[v] # "wait_async"
      <4>1. u # t /\ o \in covers[u] /\ op'[u] = op[u] /\ obj'[u] = obj[u] /\ key'[u] = key[u]
        BY <1>10, <3>8 DEF Rest
      <4>2. \A v \in Threads : Uses(v, o)' => Uses(v, o) /\ op'[v] = op[v] BY <2>2 DEF SameView, Uses
      <4> QED BY <1>5, <3>1, <4>1, <4>2 DEF Cancelled
    <3>9. Cancelled(o)' BY <3>5, <3>6, <3>7, <3>8 DEF Cancelled, Silent
    <3> QED BY <3>2, <3>3, <3>9
  <2> QED BY <2>4, <2>5
<1> QED BY <1>11, <1>12, <1>14, <1>15, <1>16, <1>17, <1>19 DEF IInv

\* The first n packets leave the queue.
Dropped(n) == {packets[i] : i \in 1 .. n}
\* Taking packets from the front of the queue, as Dequeue and on_zero_handles do.
LEMMA FirstTaken ==
  ASSUME IInv, NEW n \in 1 .. Len(packets), packets' = SubSeq(packets, n + 1, Len(packets)),
         \A i \in 1 .. n - 1 : packets[i] \in Observers, eph' = IF packets[n] \in Observers THEN eph ELSE eph - 1
  PROVE  Taken(Dropped(n)) /\ Len(packets') = Len(packets) - n
<1> DEFINE I == n + 1 .. Len(packets)
           r == SubSeq(packets, n + 1, Len(packets))
           A == {i \in 1 .. Len(packets) : packets[i] \notin Observers}
           B == {i \in I : packets[i] \notin Observers}
<1>1. packets \in Seq(Packets) /\ Len(packets) \in Nat /\ n \in Nat /\ n \in 0 .. Len(packets) /\ Once
      /\ eph = Users(packets)
  BY LenProperties DEF IInv, Types, PortTypes, EphemeralCounted
<1>2. r \in Seq(Packets) /\ Leaves(packets, I, r) /\ I \in SUBSET (1 .. Len(packets)) BY <1>1, DropSound
<1>3. Len(r) = Len(packets) - n BY <1>1, SubSeqProperties
<1>4. Users(packets) = Cardinality(A) BY DEF Users
<1>5. A = IF packets[n] \in Observers THEN B ELSE B \cup {n}
  <2>1. \A i \in 1 .. Len(packets) : i \in 1 .. n - 1 \/ i = n \/ i \in I BY <1>1
  <2> QED BY <1>2, <2>1
<1>6. n \notin B BY <1>1
<1> HIDE DEF r, I
<1>7. /\ Len(r) <= Len(packets) /\ (\A x : Has(r, x) <=> \E i \in I : packets[i] = x)
      /\ (Single(packets) => Single(r)) /\ Users(r) = Cardinality(B)
  <2>1. packets \in Seq(Packets) /\ r \in Seq(Packets) /\ I \in SUBSET (1 .. Len(packets))
        /\ Leaves(packets, I, r)
    BY <1>1, <1>2
  <2>2. Fewer(packets, I, r) BY <2>1, LeavesSound
  <2> QED BY <2>2 DEF Fewer
<1>8. IsFiniteSet(B) /\ Cardinality(B) \in Nat BY <1>1, <1>2, UserCount
<1>9. ASSUME NEW o \in Observers PROVE Has(r, o) <=> Has(packets, o) /\ o \notin Dropped(n)
  <2>1. ASSUME NEW i \in I, packets[i] = o PROVE Has(packets, o) /\ o \notin Dropped(n)
    <3>1. i \in 1 .. Len(packets) /\ i > n BY <1>1, <2>1 DEF I
    <3>2. ASSUME NEW j \in 1 .. n, packets[j] = o PROVE FALSE
      <4>1. j \in 1 .. Len(packets) /\ j # i BY <1>1, <3>1, <3>2
      <4> QED BY <1>1, <2>1, <3>1, <3>2, <4>1 DEF Once, Single
    <3> QED BY <2>1, <3>1, <3>2 DEF Has, Dropped
  <2>2. ASSUME NEW i \in 1 .. Len(packets), packets[i] = o, o \notin Dropped(n)
        PROVE  \E j \in I : packets[j] = o
    <3>1. i \notin 1 .. n BY <2>2 DEF Dropped
    <3>2. i \in I BY <1>1, <3>1 DEF I
    <3> QED BY <2>2, <3>2
  <2> QED BY <1>7, <2>1, <2>2 DEF Has
<1> HIDE DEF A, B
<1>10. Users(packets) = IF packets[n] \in Observers THEN Users(r) ELSE Users(r) + 1
  BY <1>4, <1>5, <1>6, <1>7, <1>8, FS_AddElement
<1>11. eph' = Users(r) /\ Users(r) <= Users(packets) BY <1>1, <1>7, <1>8, <1>10
<1>12. packets' = r BY DEF r
<1>13. \A o \in Observers : InQueue(o)' <=> InQueue(o) /\ o \notin Dropped(n) BY <1>9, <1>12 DEF InQueue
<1>14. Taken(Dropped(n)) BY <1>2, <1>7, <1>11, <1>12, <1>13 DEF Taken
<1> QED BY <1>3, <1>12, <1>14

\* Dequeue keeps the invariant.
LEMMA DequeueInv == ASSUME IInv, NEW t \in Threads, Dequeue(t) PROVE IInv'
<1>1. Types /\ Thread(t) /\ pc[t] = "pop" /\ op[t] = "dequeue" BY OpAt DEF IInv, Control, Dequeue
<1>2. temp[t] = {} /\ cur[t] = Null /\ covers[t] = {} BY <1>1, InHand DEF Use, Drop
<1>3. UNCHANGED <<zero, irqs, irqPosts, observers, size, portOpen, sema, odisp, okey, oobj, canceled,
                  dispVars, excp, covers, finished>>
  BY DEF Dequeue
<1>4. packets \in Seq(Packets) /\ Len(packets) \in Nat BY <1>1, LenProperties DEF Types, PortTypes
<1>5. CASE packets = <<>>
  <2>1. pc' = [pc EXCEPT ![t] = "dequeue"]
        /\ UNCHANGED <<packets, eph, life, owned, got, op, obj, key, edge, cur, temp>>
    BY <1>5 DEF Dequeue, Goto
  <2>2. Rest(t) /\ pc'[t] = "dequeue" BY <1>1, <1>3, <2>1 DEF Rest, Types, ThreadTypes
  <2>3. Types'
    <3>1. ThreadTypes' BY <1>1, <1>3, <2>1 DEF Types, ThreadTypes, PCs
    <3>2. PortTypes' BY <1>1, <1>3, <2>1 DEF Types, PortTypes
    <3> QED BY <1>1, <1>3, <2>1, <3>1, <3>2 DEF Types, ObjectTypes, ObserverTypes, GhostTypes, dispVars
  <2>4. Thread(t)' BY <1>1, <1>2, <1>3, <2>1, <2>2 DEF Thread, At, Use, Hold, Drop, dispVars
  <2>5. Quiet(t) BY <1>1, <1>2, <1>3, <2>1, <2>2 DEF Quiet, Use, Drop, obsVars, dispVars, InQueue
  <2>6. Locks' BY <1>1, <1>3, <2>2, RestLocks DEF IInv, Hold, dispVars
  <2>7. Closing' BY <1>1, <1>3, <2>1, <2>2, RestClosing DEF IInv
  <2>8. NoLostPacket'
    <3>1. Arriving' = Arriving /\ Popping' = Popping - 1 /\ Popping' \in Nat
      BY <1>1, <2>2, AmongStep DEF Rest, Arriving, Popping
    <3>2. Coming' = Coming /\ irqs' = irqs /\ packets' = packets
      BY <1>1, <1>3, <2>1, <3>1, TokenTypes DEF Coming
    <3>3. Len(packets) = 0 BY <1>5
    <3> QED BY <1>1, <3>1, <3>2, <3>3, TokenTypes, TokensHeld, TokensHold
  <2> QED BY <1>1, <1>2, <1>3, <2>1, <2>2, <2>3, <2>4, <2>5, <2>6, <2>7, <2>8, QuietInv DEF dispVars
<1>6. CASE packets # <<>>
  <2>1. Return(t) /\ packets' = Tail(packets) BY <1>6 DEF Dequeue
  <2>2. PICK p \in Packets : p = packets[1] /\ p = Head(packets)
    BY <1>4, <1>6, HeadTailProperties, ElementOfSeq
  <2>3. IF p \in Observers
        THEN got' = [got EXCEPT ![p] = got[p] + 1] /\ Destroy({p} \cap owned) /\ owned' = owned \ {p}
             /\ eph' = eph
        ELSE eph' = eph - 1 /\ UNCHANGED <<got, life, owned>>
    BY <1>6, <2>2 DEF Dequeue
  <2>4. 1 \in 1 .. Len(packets) /\ Tail(packets) = SubSeq(packets, 1 + 1, Len(packets))
    BY <1>4, <1>6, EmptySeq, TailIsSubSeq
  <2>5. Taken(Dropped(1)) /\ Len(packets') = Len(packets) - 1
    <3>1. \A i \in 1 .. 1 - 1 : packets[i] \in Observers OBVIOUS
    <3> QED BY <2>1, <2>2, <2>3, <2>4, <3>1, FirstTaken
  <2>6. Dropped(1) = {p} BY <2>2 DEF Dropped
  <2>7. \A o \in Observers : o = p => InQueue(o) BY <2>2, <2>4 DEF InQueue, Has
  <2>8. \A o \in Observers : o \in owned => InQueue(o) BY DEF IInv, Observing, Placed, Owned
  <2>9. owned \subseteq Observers BY <1>1 DEF Types, ObserverTypes
  <2>10. /\ owned' = owned \ {x \in Observers : InQueue(x) /\ x \in {p}}
         /\ \A o \in Observers : life'[o] = IF o \in owned /\ InQueue(o) /\ o \in {p} THEN "destroyed" ELSE life[o]
         /\ \A o \in Observers : got'[o] = IF o = p THEN got[o] + 1 ELSE got[o]
    <3>1. CASE p \in Observers BY <1>1, <2>3, <2>7, <3>1 DEF Types, GhostTypes, Destroy
    <3>2. CASE p \notin Observers BY <2>3, <2>9, <3>2
    <3> QED BY <3>1, <3>2
  <2>11. /\ Rest(t) /\ pc'[t] = "idle" /\ op'[t] = "none" /\ cur'[t] = Null /\ temp' = temp
    BY <1>3, <2>1, Returns DEF Rest
  <2>12. /\ Once' /\ EphemeralCounted' /\ (packets = <<>> => packets' = <<>>) /\ packets' \in Seq(Packets)
         /\ Len(packets') <= Len(packets)
    BY <2>5, TakenCounts
  <2>13. Types'
    <3>1. ThreadTypes' BY <1>1, <1>3, <2>1, Returns DEF Types, ThreadTypes
    <3>2. PortTypes' BY <1>1, <1>3, <2>12 DEF Types, PortTypes
    <3>3. ObserverTypes' BY <1>1, <1>3, <2>3 DEF Types, ObserverTypes, Destroy
    <3>4. GhostTypes'
      <4>1. got' \in [Observers -> Nat] BY <1>1, <2>3 DEF Types, GhostTypes
      <4> QED BY <1>1, <1>3, <4>1 DEF Types, GhostTypes
    <3> QED BY <1>1, <1>3, <3>1, <3>2, <3>3, <3>4 DEF Types, ObjectTypes, dispVars
  <2>14. Thread(t)' BY <1>2, <1>3, <2>1, Returns
  <2>15. Locks' BY <1>1, <1>3, <2>11, RestLocks DEF IInv, Hold, dispVars
  <2>16. Closing' BY <1>1, <1>3, <2>11, <2>12, RestClosing DEF IInv
  <2>17. Control' BY <1>3, <2>11, <2>14, CallsInv DEF dispVars
  <2>18. NoLostPacket'
    <3>1. Arriving' = Arriving /\ Popping' = Popping - 1 /\ Popping' \in Nat
      BY <1>1, <2>11, AmongStep DEF Rest, Arriving, Popping
    <3>2. Coming' = Coming /\ irqs' = irqs BY <1>1, <1>3, <3>1, TokenTypes DEF Coming
    <3>3. Len(irqs) <= Coming /\ Len(irqs) + Len(packets) <= Coming + Popping BY TokensHeld
    <3>4. Len(irqs) \in Nat /\ Len(packets) \in Nat /\ Coming \in Nat /\ Popping \in Nat
      BY <1>1, TokenTypes
    <3>5. Len(packets') = Len(packets) - 1 BY <2>5
    <3>6. Len(irqs)' <= Coming' /\ Len(irqs)' + Len(packets)' <= Coming' + Popping'
      BY <3>1, <3>2, <3>3, <3>4, <3>5
    <3> QED BY <3>6, TokensHold
  <2>19. \A c : Held(c) => Held(c)' BY <1>1, <1>3, <2>11, HeldStep DEF dispVars
  <2>20. Observing'
    <3> SUFFICES ASSUME NEW o \in Observers
        PROVE  Placed(o)' /\ Linked(o)' /\ Cancelled(o)' BY DEF Observing
    <3>1. o # Null BY PortAssumption
    <3>2. SameView(o) BY <1>2, <1>3, <2>11, <3>1, OtherView DEF dispVars
    <3>3. SamePacket(o) \/ TakenPacket(o)
      <4>1. Taken({p}) BY <2>5, <2>6
      <4>2. got'[o] \in {got[o]} \cup {x \in {got[o] + 1} : o \in {p} /\ InQueue(o)} BY <2>7, <2>10
      <4> QED BY <2>10, <4>1, <4>2, TakenAside
    <3>4. Aside(t, o) BY <1>2, <1>3, <3>2, <3>3 DEF Aside
    <3> QED BY <1>3, <2>11, <2>19, <3>4, AsideObserver
  <2> QED BY <2>12, <2>13, <2>15, <2>16, <2>17, <2>18, <2>20 DEF IInv
<1> QED BY <1>5, <1>6

\* on_zero_handles drops packets up to the next user packet.
LEMMA ZeroPacketsInv == ASSUME IInv, NEW t \in Threads, ZeroPackets(t) PROVE IInv'
<1> DEFINE U == {i \in 1 .. Len(packets) : packets[i] \notin Observers}
           n == Min(U)
<1>1. Types /\ Thread(t) /\ pc[t] = "zero" /\ op[t] = "close_port"
  BY OpAt DEF IInv, Control, ZeroPackets
<1>2. /\ UNCHANGED <<irqs, irqPosts, observers, size, portOpen, sema, odisp, okey, oobj, canceled,
                     dispVars, threadVars, ghosts>>
      /\ zero' = TRUE /\ packets' = SubSeq(packets, n + 1, Len(packets)) /\ eph' = eph - 1
      /\ Destroy(owned \cap Dropped(n)) /\ owned' = owned \ Dropped(n) /\ Users(packets) > 0
  BY DEF ZeroPackets, Dropped
<1>3. packets \in Seq(Packets) /\ Len(packets) \in Nat BY <1>1, LenProperties DEF Types, PortTypes
<1>4. n \in U /\ \A i \in U : n <= i
  <2>1. U \in SUBSET Nat OBVIOUS
  <2>2. Users(packets) = Cardinality(U) BY DEF Users
  <2> HIDE DEF U
  <2>3. U # {}
    <3>1. Cardinality({}) = 0 BY FS_EmptySet
    <3>2. Users(packets) > 0 BY <1>2
    <3>3. Cardinality(U) # 0 BY <2>2, <3>2
    <3> QED BY <3>1, <3>3
  <2>4. PICK x \in U : TRUE BY <2>3
  <2>5. \E m \in U : \A j \in U : m <= j BY <2>1, LeastNat
  <2> QED BY <2>5 DEF Min
<1>5. n \in 1 .. Len(packets) /\ packets[n] \notin Observers BY <1>4
<1>6. \A i \in 1 .. n - 1 : packets[i] \in Observers BY <1>3, <1>4, <1>5
<1> HIDE DEF n, U
<1>7. Taken(Dropped(n)) BY <1>2, <1>5, <1>6, FirstTaken
<1>8. \A o \in Observers : o \in owned => InQueue(o) BY DEF IInv, Observing, Placed, Owned
<1>9. owned \subseteq Observers BY <1>1 DEF Types, ObserverTypes
<1>10. /\ owned' = owned \ {x \in Observers : InQueue(x) /\ x \in Dropped(n)}
       /\ \A o \in Observers : life'[o] = IF o \in owned /\ InQueue(o) /\ o \in Dropped(n) THEN "destroyed" ELSE life[o]
  BY <1>2, <1>8, <1>9 DEF Destroy
<1>11. /\ Once' /\ EphemeralCounted' /\ packets' \in Seq(Packets) /\ Len(packets') <= Len(packets)
  BY <1>7, TakenCounts
<1>12. Types'
  <2>1. PortTypes' BY <1>1, <1>2, <1>11 DEF Types, PortTypes
  <2>2. ObserverTypes' BY <1>1, <1>2, <1>9 DEF Types, ObserverTypes, Destroy
  <2> QED
    BY <1>1, <1>2, <2>1, <2>2 DEF Types, ObjectTypes, ThreadTypes, GhostTypes, dispVars, threadVars,
      ghosts
<1>13. Rest(t) BY <1>2 DEF Rest, threadVars, ghosts
<1>14. Thread(t)' BY <1>1, <1>2 DEF Thread, threadVars, ghosts, dispVars
<1>15. Locks' BY <1>2 DEF IInv, Locks, threadVars, dispVars
<1>16. Closing'
  <2>1. ~portOpen /\ \A u \in Threads : op[u] = "close_port" => u = t BY <1>1 DEF IInv, Closing
  <2> QED BY <1>1, <1>2, <2>1 DEF Closing, threadVars, Drop
<1>17. Control' BY <1>2, <1>13, <1>14, CallsInv DEF dispVars, threadVars
<1>18. NoLostPacket' BY <1>1, <1>2, <1>11, RestTokens DEF IInv, Tokens, threadVars
<1>19. \A c : Held(c) => Held(c)' BY <1>2, <1>13, HeldStep DEF dispVars, threadVars
<1>20. Observing'
  <2> SUFFICES ASSUME NEW o \in Observers
      PROVE  Placed(o)' /\ Linked(o)' /\ Cancelled(o)' BY DEF Observing
  <2>1. SameView(o) BY <1>2 DEF SameView, dispVars, threadVars
  <2>2. SamePacket(o) \/ TakenPacket(o)
    <3>1. got'[o] = got[o] BY <1>2 DEF ghosts
    <3> QED BY <1>7, <1>10, <3>1, TakenAside
  <2>3. Aside(t, o) BY <1>2, <2>1, <2>2 DEF Aside, ghosts, threadVars
  <2> QED BY <1>2, <1>13, <1>19, <2>3, AsideObserver
<1> QED BY <1>11, <1>12, <1>15, <1>16, <1>17, <1>18, <1>20 DEF IInv
-----------------------------------------------------------------------------
(***************************************************************************)
(* Steps that take observers off the port's lists.                         *)
(***************************************************************************)
\* What no thread but t does to an observer that t is to destroy.
Beside(t, o) ==
  /\ Rest(t) /\ oobj'[o] = oobj[o] /\ okey'[o] = okey[o] /\ got'[o] = got[o]
  /\ zero => zero'
  /\ o \in canceled => o \in canceled'
  /\ \A b \in Objects : o \in dobs'[b] <=> o \in dobs[b]
  /\ \A b : Held(b) => Held(b)'

\* Observer o is unlinked by t.
Unlinks(t, o) ==
  /\ odisp[o] # Null /\ odisp'[o] = Null /\ ~Uses(t, o)
  /\ cur'[t] = o /\ obj'[t] = odisp[o] /\ pc'[t] = "remove"
  /\ o \notin observers' /\ o \notin owned' /\ life'[o] = life[o]
  /\ \A u \in Threads : o \notin temp'[u]
  /\ InQueue(o)' => InQueue(o) /\ o \notin canceled'
  /\ op'[t] = "cancel_key" => o \in canceled'
  /\ zero' \/ o \in canceled'

\* An observer that is unlinked is owned by the thread that did it.
LEMMA UnlinkObserver ==
  ASSUME IInv, NEW t \in Threads, NEW o \in Observers, Beside(t, o), Unlinks(t, o)
  PROVE  /\ Placed(o)' /\ Linked(o)' /\ (Early(o)' <=> Early(o)) /\ life[o] = "live"
         /\ \A u \in Threads : Uses(u, o)' <=> Uses(u, o)
<1>1. Placed(o) /\ Linked(o) /\ o # Null BY PortAssumption DEF IInv, Observing
<1>2. o \in observers \/ \E u \in Threads : o \in temp[u] BY <1>1 DEF Linked, Unlinks
<1>3. life[o] = "live" /\ o \notin owned /\ \A u \in Threads : ~Drops(u, o)
  BY <1>1, <1>2 DEF Placed, Owned
<1>4. \A u \in Threads : (Uses(u, o)' <=> Uses(u, o)) /\ (Drops(u, o)' <=> u = t)
  BY <1>3 DEF Beside, Unlinks, Rest, Uses, Drops, Use, Drop
<1>5. Early(o)' <=> Early(o)
  <2>1. \A u \in Threads : Uses(u, o) => pc'[u] = pc[u] BY DEF Beside, Unlinks, Rest
  <2> QED BY <1>4, <2>1 DEF Early, Beside
<1>6. Unmade(o)' BY <1>3 DEF Unmade, Unlinks
<1>7. Course(o)'
  <2>1. oobj'[o] \in Objects /\ okey'[o] \in Keys BY <1>1, <1>3 DEF Placed, Course, Beside
  <2>2. \A b \in Objects : o \in dobs'[b] => oobj'[o] = b /\ \A u \in Threads : ~Uses(u, o)'
    BY <1>1, <1>4 DEF Placed, Course, Beside
  <2>3. \A u, v \in Threads : Uses(u, o)' /\ Uses(v, o)' => u = v BY <1>1, <1>4 DEF Placed, Course
  <2>4. (Early(o)' => got'[o] = 0 /\ ~InQueue(o)') /\ got'[o] <= 1 /\ (InQueue(o)' => got'[o] = 0)
    BY <1>1, <1>5 DEF Placed, Course, Beside, Unlinks
  <2> QED BY <2>1, <2>2, <2>3, <2>4 DEF Course
<1>8. Owned(o)' BY <1>3, <1>4 DEF Owned, Unlinks
<1>9. Refers(o)' BY <1>1, <1>4 DEF Refers, Unlinks, Linked, Beside
<1>10. Waiting(o)' BY DEF Waiting, Unlinks
<1>11. Linked(o)' BY DEF Linked, Unlinks
<1> QED BY <1>3, <1>4, <1>5, <1>6, <1>7, <1>8, <1>9, <1>10, <1>11 DEF Placed

\* Observer o, unlinked by t, is destroyed.
Destroys(t, o) ==
  /\ Drops(t, o) /\ cur'[t] # o /\ life'[o] = "destroyed" /\ odisp'[o] = odisp[o]
  /\ o \in observers' <=> o \in observers
  /\ o \in owned' <=> o \in owned
  /\ \A u \in Threads : o \in temp'[u] <=> o \in temp[u]
  /\ ~InQueue(o)' /\ (o \in canceled' <=> o \in canceled)

\* An unlinked observer that is destroyed has no owner.
LEMMA DestroyObserver ==
  ASSUME IInv, NEW t \in Threads, NEW o \in Observers, Beside(t, o), Destroys(t, o)
  PROVE  /\ Placed(o)' /\ Linked(o)' /\ (Early(o)' <=> Early(o)) /\ life[o] = "live"
         /\ \A u \in Threads : Uses(u, o)' <=> Uses(u, o)
<1>1. Placed(o) /\ Linked(o) /\ o # Null BY PortAssumption DEF IInv, Observing
<1>2. /\ life[o] = "live" /\ o \notin owned /\ o \notin observers
      /\ (\A u \in Threads : o \notin temp[u])
      /\ \A u \in Threads : Drops(u, o) => u = t
  BY <1>1 DEF Placed, Owned, Destroys
<1>3. \A u \in Threads : (Uses(u, o)' <=> Uses(u, o)) /\ ~Drops(u, o)'
  BY <1>2 DEF Beside, Destroys, Rest, Uses, Drops, Use, Drop
<1>4. Early(o)' <=> Early(o)
  <2>1. \A u \in Threads : Uses(u, o) => pc'[u] = pc[u]
    BY DEF Beside, Destroys, Rest, Uses, Drops, Use, Drop
  <2> QED BY <1>3, <2>1 DEF Early, Beside
<1>5. Unmade(o)' BY DEF Unmade, Destroys
<1>6. Course(o)'
  <2>1. oobj'[o] \in Objects /\ okey'[o] \in Keys BY <1>1, <1>2 DEF Placed, Course, Beside
  <2>2. \A b \in Objects : o \in dobs'[b] => oobj'[o] = b /\ \A u \in Threads : ~Uses(u, o)'
    BY <1>1, <1>3 DEF Placed, Course, Beside
  <2>3. \A u, v \in Threads : Uses(u, o)' /\ Uses(v, o)' => u = v BY <1>1, <1>3 DEF Placed, Course
  <2>4. (Early(o)' => got'[o] = 0 /\ ~InQueue(o)') /\ got'[o] <= 1 /\ (InQueue(o)' => got'[o] = 0)
    BY <1>1, <1>4 DEF Placed, Course, Beside, Destroys
  <2> QED BY <2>1, <2>2, <2>3, <2>4 DEF Course
<1>7. Owned(o)' BY <1>2, <1>3 DEF Owned, Destroys
<1>8. Refers(o)' BY <1>3 DEF Refers
<1>9. Waiting(o)' BY <1>1, <1>2, <1>4 DEF Placed, Waiting, Beside
<1>10. Linked(o)' BY <1>1, <1>2 DEF Linked, Destroys
<1> QED BY <1>2, <1>3, <1>4, <1>5, <1>6, <1>7, <1>8, <1>9, <1>10 DEF Placed

\* Observer o is moved to the temporary list of t, which cancels its key.
Moves(t, o) ==
  /\ o \in observers /\ odisp'[o] = odisp[o] /\ cur[t] = Null /\ cur'[t] # o /\ pc'[t] \notin Use
  /\ o \notin observers' /\ o \notin owned' /\ life'[o] = life[o]
  /\ \A u \in Threads : o \in temp'[u] <=> u = t
  /\ ~InQueue(o)' /\ o \in canceled'

\* An observer that CancelKey moves is owned by its temporary list.
LEMMA MoveObserver ==
  ASSUME IInv, NEW t \in Threads, NEW o \in Observers, Beside(t, o), Moves(t, o)
  PROVE  /\ Placed(o)' /\ Linked(o)' /\ (Early(o)' <=> Early(o)) /\ life[o] = "live"
         /\ \A u \in Threads : Uses(u, o)' <=> Uses(u, o)
<1>1. Placed(o) /\ Linked(o) /\ o # Null /\ ObserverTypes BY PortAssumption DEF IInv, Observing, Types
<1>2. life[o] = "live" /\ o \notin owned /\ (\A u \in Threads : o \notin temp[u] /\ ~Drops(u, o))
  BY <1>1 DEF Placed, Owned, Moves
<1>3. \A u \in Threads : cur'[u] = o <=> cur[u] = o /\ u # t BY <1>1 DEF Beside, Moves, Rest
<1>4. \A u \in Threads : (Uses(u, o)' <=> Uses(u, o)) /\ ~Drops(u, o)'
  BY <1>1, <1>2, <1>3 DEF Beside, Moves, Rest, Uses, Drops
<1>5. Early(o)' <=> Early(o)
  <2>1. \A u \in Threads : Uses(u, o) => pc'[u] = pc[u] BY <1>1 DEF Beside, Moves, Rest, Uses
  <2> QED BY <1>4, <2>1 DEF Early, Beside
<1>6. Unmade(o)' BY <1>2 DEF Unmade, Moves
<1>7. Course(o)'
  <2>1. oobj'[o] \in Objects /\ okey'[o] \in Keys BY <1>1, <1>2 DEF Placed, Course, Beside
  <2>2. \A b \in Objects : o \in dobs'[b] => oobj'[o] = b /\ \A u \in Threads : ~Uses(u, o)'
    BY <1>1, <1>4 DEF Placed, Course, Beside
  <2>3. \A u, v \in Threads : Uses(u, o)' /\ Uses(v, o)' => u = v BY <1>1, <1>4 DEF Placed, Course
  <2>4. (Early(o)' => got'[o] = 0 /\ ~InQueue(o)') /\ got'[o] <= 1 /\ (InQueue(o)' => got'[o] = 0)
    BY <1>1, <1>5 DEF Placed, Course, Beside, Moves
  <2> QED BY <2>1, <2>2, <2>3, <2>4 DEF Course
<1>8. Owned(o)' BY <1>2, <1>4 DEF Owned, Moves
<1>9. Refers(o)' BY <1>4 DEF Refers
<1>10. Waiting(o)' BY DEF Waiting, Moves
<1>11. Linked(o)'
  <2>1. odisp[o] # Null /\ odisp[o] = oobj[o] /\ odisp[o] \in Objects /\ Held(odisp[o])
    BY <1>1 DEF Linked, Moves, Held, ObserverTypes
  <2>2. Held(odisp[o])' BY <2>1 DEF Held, Beside, Moves
  <2>3. o \in dobs'[oobj'[o]] \/ \E u \in Threads : Uses(u, o)' BY <1>1, <1>4, <2>1 DEF Linked, Beside
  <2>4. odisp'[o] = odisp[o] /\ oobj'[o] = oobj[o] /\ \E u \in Threads : o \in temp'[u]
    BY DEF Moves, Beside
  <2> QED BY <2>1, <2>2, <2>3, <2>4 DEF Linked, Held
<1> QED BY <1>2, <1>4, <1>5, <1>6, <1>7, <1>8, <1>9, <1>10, <1>11 DEF Placed

\* Such a step takes no canceled wait back.
LEMMA BesideCancelled ==
  ASSUME IInv, NEW t \in Threads, NEW o \in Observers, Beside(t, o), Early(o)' <=> Early(o),
         life[o] = "live", life'[o] # "none",
         \A u \in Threads : Uses(u, o)' <=> Uses(u, o), ~Uses(t, o), InQueue(o)' => InQueue(o),
         o \in finished' => o \in finished,
         o \in covers'[t] => o \in covers[t] /\ op'[t] = op[t] /\ op[t] # "cancel"
  PROVE  Cancelled(o)'
<1>1. Cancelled(o) BY DEF IInv, Observing
<1>2. \A u \in Threads : Uses(u, o)' /\ op'[u] = "wait_async" => Uses(u, o) /\ op[u] = "wait_async"
  BY DEF Beside, Rest
<1>3. \A u \in Threads : o \in covers'[u] =>
           /\ o \in covers[u] /\ op'[u] = op[u]
           /\ op[u] = "cancel" => /\ obj'[u] = obj[u] /\ key'[u] = key[u]
                                  /\ pc'[u] = "cancel_queued" => pc[u] = "cancel_queued"
  BY DEF Beside, Rest
<1>4. (zero => zero') /\ (o \in canceled => o \in canceled') /\ oobj'[o] = oobj[o] /\ okey'[o] = okey[o]
  BY DEF Beside
<1> QED BY <1>1, <1>2, <1>3, <1>4, RestCancelled

\* on_zero_handles goes on to the next observer, or returns.
NextUnlinked(t, o) ==
  /\ odisp[o] # Null /\ odisp' = [odisp EXCEPT ![o] = Null] /\ observers' = observers \ {o}
  /\ pc'[t] = "remove" /\ op'[t] = op[t] /\ cur'[t] = o /\ obj'[t] = odisp[o]
NoneLeft(t) ==
  /\ observers = {} /\ UNCHANGED <<observers, odisp>>
  /\ pc'[t] = "idle" /\ op'[t] = "none" /\ cur'[t] = Null
\* What on_zero_handles does to one more observer, or when none is left.
LEMMA ZeroObserverStep ==
  ASSUME IInv, NEW t \in Threads, op[t] = "close_port", ZeroObserver(t),
         UNCHANGED <<excp, covers, oobj>>
  PROVE  /\ Rest(t) /\ ThreadTypes' /\ Thread(t)' /\ temp' = temp
         /\ size' \in 0 .. 2^SizeBits - 1 /\ odisp' \in [Observers -> Objects \cup {Null}]
         /\ observers' \subseteq observers
         /\ NoneLeft(t) \/ \E o \in observers : NextUnlinked(t, o)
<1>1. Types /\ temp[t] = {} /\ covers[t] = {} BY InHand DEF IInv
<1>2. CASE observers = {}
  <2>1. Return(t) /\ UNCHANGED <<observers, size, odisp>> BY <1>2 DEF ZeroObserver
  <2>2. ThreadTypes' BY <1>1, <2>1, Returns DEF Types, ThreadTypes
  <2>3. Thread(t)' /\ Rest(t) BY <1>1, <2>1, Returns DEF Rest
  <2>4. NoneLeft(t) /\ temp' = temp BY <1>2, <2>1, Returns DEF NoneLeft
  <2> QED BY <1>1, <2>1, <2>2, <2>3, <2>4 DEF Types, PortTypes, ObserverTypes
<1>3. CASE observers # {}
  <2>1. PICK o \in observers : Unlink(t, o) /\ observers' = observers \ {o} BY <1>3 DEF ZeroObserver
  <2>2. size' = Size(size - 1) /\ UNCHANGED <<op, key, edge, temp>> BY <1>3 DEF ZeroObserver
  <2>3. /\ odisp' = [odisp EXCEPT ![o] = Null] /\ cur' = [cur EXCEPT ![t] = o]
        /\ obj' = [obj EXCEPT ![t] = odisp[o]]
        /\ pc' = [pc EXCEPT ![t] = "remove"]
    BY <2>1 DEF Unlink, Goto
  <2>4. o \in Observers /\ o # Null BY <1>1, <2>1, PortAssumption DEF Types, PortTypes
  <2>5. odisp[o] # Null /\ odisp[o] \in Objects
    <3>1. Linked(o) BY <2>4 DEF IInv, Observing
    <3> QED BY <1>1, <2>1, <2>4, <3>1 DEF Linked, Types, ObserverTypes
  <2>6. Rest(t) /\ pc'[t] = "remove" /\ cur'[t] = o /\ obj'[t] = odisp[o]
    BY <1>1, <2>2, <2>3 DEF Rest, Types, ThreadTypes
  <2>7. ThreadTypes' BY <1>1, <2>2, <2>3, <2>4, <2>5 DEF Types, ThreadTypes, PCs
  <2>8. Thread(t)' BY <1>1, <2>2, <2>4, <2>5, <2>6 DEF Thread, At, Use, Hold, Drop
  <2>9. size' \in 0 .. 2^SizeBits - 1
    <3>1. size \in Int BY <1>1, PortAssumption DEF Types, PortTypes
    <3> QED BY <2>2, <3>1, SizeType
  <2>10. odisp' \in [Observers -> Objects \cup {Null}] BY <1>1, <2>3 DEF Types, ObserverTypes
  <2>11. NextUnlinked(t, o) BY <2>1, <2>2, <2>3, <2>5, <2>6 DEF NextUnlinked
  <2> QED BY <2>1, <2>2, <2>6, <2>7, <2>8, <2>9, <2>10, <2>11
<1> QED BY <1>2, <1>3

\* Closing goes on while an observer is left.
LEMMA ZeroClosing ==
  ASSUME IInv, NEW t \in Threads, op[t] = "close_port", Rest(t), portOpen' = portOpen, zero',
         packets' = <<>>,
         NoneLeft(t) \/ \E o \in observers : NextUnlinked(t, o)
  PROVE  Closing'
<1>1. ~portOpen /\ \A u \in Threads : op[u] = "close_port" => u = t BY DEF IInv, Closing
<1>2. \A u \in Threads : op'[u] = "close_port" => u = t BY <1>1 DEF Rest
<1>3. CASE NoneLeft(t) BY <1>1, <1>2, <1>3 DEF NoneLeft, Closing
<1>4. CASE \E o \in observers : NextUnlinked(t, o) BY <1>1, <1>2, <1>4 DEF NextUnlinked, Closing
<1> QED BY <1>3, <1>4

\* ZeroLastPackets keeps the invariant.
LEMMA ZeroLastPacketsInv == ASSUME IInv, NEW t \in Threads, ZeroLastPackets(t) PROVE IInv'
<1>1. Types /\ Thread(t) /\ pc[t] = "zero" /\ op[t] = "close_port"
  BY OpAt DEF IInv, Control, ZeroLastPackets
<1>2. temp[t] = {} /\ cur[t] = Null /\ covers[t] = {} BY <1>1, InHand DEF Use, Drop
<1>3. /\ UNCHANGED <<eph, irqs, irqPosts, portOpen, sema, okey, oobj, canceled, dispVars, excp, ghosts>>
      /\ zero' = TRUE /\ packets' = <<>> /\ Users(packets) = 0 /\ ZeroObserver(t)
      /\ Destroy(owned \cap Dropped(Len(packets))) /\ owned' = owned \ Dropped(Len(packets))
  BY DEF ZeroLastPackets, Dropped
<1>4. packets \in Seq(Packets) /\ Len(packets) \in Nat BY <1>1, LenProperties DEF Types, PortTypes
<1>5. \A o \in Observers : InQueue(o) <=> o \in Dropped(Len(packets)) BY DEF InQueue, Has, Dropped
<1>6. Taken(Observers)
  <2>1. eph = 0 BY <1>3 DEF IInv, EphemeralCounted
  <2>2. Users(<<>>) = 0
    <3>1. {i \in 1 .. Len(<<>>) : <<>>[i] \notin Observers} = {} BY EmptySeq
    <3> QED BY <3>1, FS_EmptySet DEF Users
  <2>3. <<>> \in Seq(Packets) /\ Len(<<>>) = 0 /\ Single(<<>>) BY EmptySeq DEF Single
  <2>4. \A x : ~Has(<<>>, x) BY EmptySeq DEF Has
  <2> QED BY <1>3, <1>4, <2>1, <2>2, <2>3, <2>4 DEF Taken, InQueue
<1>7. \A o \in Observers : o \in owned => InQueue(o) BY DEF IInv, Observing, Placed, Owned
<1>8. owned \subseteq Observers BY <1>1 DEF Types, ObserverTypes
<1>9. /\ owned' = owned \ {x \in Observers : InQueue(x) /\ x \in Observers}
      /\ \A o \in Observers : life'[o] = IF o \in owned /\ InQueue(o) /\ o \in Observers THEN "destroyed" ELSE life[o]
  BY <1>3, <1>5, <1>7, <1>8 DEF Destroy
<1>10. /\ Once' /\ EphemeralCounted' /\ packets' \in Seq(Packets) /\ Len(packets') <= Len(packets)
  BY <1>6, TakenCounts
<1>11. /\ Rest(t) /\ ThreadTypes' /\ Thread(t)' /\ temp' = temp
       /\ size' \in 0 .. 2^SizeBits - 1 /\ odisp' \in [Observers -> Objects \cup {Null}]
       /\ observers' \subseteq observers
       /\ NoneLeft(t) \/ \E o \in observers : NextUnlinked(t, o)
  BY <1>1, <1>3, ZeroObserverStep DEF ghosts
<1>12. pc'[t] \in {"idle", "remove"} /\ op'[t] \in {"none", "close_port"}
  BY <1>1, <1>11 DEF NoneLeft, NextUnlinked
<1>13. Types'
  <2>1. PortTypes' BY <1>1, <1>3, <1>10, <1>11 DEF Types, PortTypes
  <2>2. ObserverTypes' BY <1>1, <1>3, <1>8, <1>11 DEF Types, ObserverTypes, Destroy
  <2> QED BY <1>1, <1>3, <1>11, <2>1, <2>2 DEF Types, ObjectTypes, GhostTypes, dispVars, ghosts
<1>14. Locks' BY <1>1, <1>3, <1>11, <1>12, RestLocks DEF IInv, Hold, dispVars
<1>15. Closing' BY <1>1, <1>3, <1>11, ZeroClosing
<1>16. Control' BY <1>3, <1>11, CallsInv DEF dispVars
<1>17. NoLostPacket' BY <1>1, <1>3, <1>10, <1>11, <1>12, RestTokens DEF IInv, Rest, Tokens
<1>18. \A c : Held(c) => Held(c)' BY <1>1, <1>3, <1>11, HeldStep DEF dispVars
<1>19. ASSUME NEW o \in Observers, cur'[t] # o, odisp'[o] = odisp[o],
         o \in observers' <=> o \in observers
       PROVE  Placed(o)' /\ Linked(o)' /\ Cancelled(o)'
  <2>1. o # Null BY PortAssumption
  <2>2. SameView(o) BY <1>2, <1>3, <1>11, <1>19, <2>1, OtherView DEF dispVars
  <2>3. SamePacket(o) \/ TakenPacket(o)
    <3>1. got'[o] = got[o] BY <1>3 DEF ghosts
    <3> QED BY <1>6, <1>9, <3>1, TakenAside
  <2>4. Aside(t, o) BY <1>2, <1>3, <2>2, <2>3 DEF Aside, ghosts
  <2> QED BY <1>3, <1>11, <1>18, <2>4, AsideObserver
<1>20. Observing'
  <2>1. CASE NoneLeft(t) BY <1>19, <2>1, PortAssumption DEF Observing, NoneLeft
  <2>2. CASE \E o \in observers : NextUnlinked(t, o)
    <3>1. PICK x \in observers : NextUnlinked(t, x) BY <2>2
    <3>2. x \in Observers /\ x # Null BY <1>1, <3>1, PortAssumption DEF Types, PortTypes
    <3>3. \A o \in Observers : o # x => cur'[t] # o /\ odisp'[o] = odisp[o] /\ (o \in observers' <=> o \in observers)
      BY <1>1, <3>1 DEF NextUnlinked, Types, ObserverTypes
    <3>4. Owned(x) BY <3>2 DEF IInv, Observing, Placed
    <3>5. Beside(t, x) BY <1>3, <1>11, <1>18 DEF Beside, dispVars, ghosts
    <3>6. ~Uses(t, x) BY <1>1 DEF Uses, Use
    <3>7. Unlinks(t, x)
      <4>1. odisp'[x] = Null /\ x \notin observers'
        BY <1>1, <3>1, <3>2 DEF NextUnlinked, Types, ObserverTypes
      <4>2. x \notin owned /\ \A u \in Threads : x \notin temp[u] BY <3>1, <3>4 DEF Owned
      <4>3. ~InQueue(x)' BY <1>6, <3>2 DEF Taken
      <4>4. life'[x] = life[x] /\ x \notin owned' BY <1>3, <1>9, <3>2, <4>2
      <4> QED BY <1>1, <1>3, <1>11, <3>1, <3>6, <4>1, <4>2, <4>3, <4>4 DEF Unlinks, NextUnlinked
    <3>8. /\ Placed(x)' /\ Linked(x)' /\ (Early(x)' <=> Early(x)) /\ life[x] = "live"
          /\ \A u \in Threads : Uses(u, x)' <=> Uses(u, x)
      BY <3>2, <3>5, <3>7, UnlinkObserver
    <3>9. Cancelled(x)'
      <4>1. life'[x] # "none" /\ (InQueue(x)' => InQueue(x)) BY <3>7, <3>8 DEF Unlinks
      <4>2. UNCHANGED <<finished, covers>> BY <1>3 DEF ghosts
      <4> QED BY <1>2, <3>2, <3>5, <3>6, <3>8, <4>1, <4>2, BesideCancelled
    <3> QED BY <1>19, <3>3, <3>8, <3>9 DEF Observing
  <2> QED BY <1>11, <2>1, <2>2
<1> QED BY <1>10, <1>13, <1>14, <1>15, <1>16, <1>17, <1>20 DEF IInv

\* ZeroNext keeps the invariant.
LEMMA ZeroNextInv == ASSUME IInv, NEW t \in Threads, ZeroNext(t) PROVE IInv'
<1>1. Types /\ Thread(t) /\ pc[t] = "removed" /\ op[t] = "close_port" BY DEF IInv, Control, ZeroNext
<1>2. temp[t] = {} /\ covers[t] = {} /\ cur[t] \in Observers /\ Drops(t, cur[t])
  BY <1>1, InHand DEF Drop
<1>3. PICK y \in Observers : y = cur[t] BY <1>2
<1>4. /\ UNCHANGED <<zero, packets, eph, irqs, irqPosts, portOpen, sema, okey, oobj, canceled, owned,
                     dispVars, excp, ghosts>>
      /\ Destroy({y}) /\ ZeroObserver(t)
  BY <1>3 DEF ZeroNext
<1>5. zero /\ packets = <<>> BY <1>1 DEF IInv, Closing, Drop
<1>6. \A o \in Observers : life'[o] = IF o = y THEN "destroyed" ELSE life[o] BY <1>4 DEF Destroy
<1>7. /\ Rest(t) /\ ThreadTypes' /\ Thread(t)' /\ temp' = temp
      /\ size' \in 0 .. 2^SizeBits - 1 /\ odisp' \in [Observers -> Objects \cup {Null}]
      /\ observers' \subseteq observers
      /\ NoneLeft(t) \/ \E o \in observers : NextUnlinked(t, o)
  BY <1>1, <1>4, ZeroObserverStep DEF ghosts
<1>8. pc'[t] \in {"idle", "remove"} /\ op'[t] \in {"none", "close_port"}
  BY <1>1, <1>7 DEF NoneLeft, NextUnlinked
<1>9. Types'
  <2>1. PortTypes' BY <1>1, <1>4, <1>7 DEF Types, PortTypes
  <2>2. ObserverTypes' BY <1>1, <1>4, <1>7 DEF Types, ObserverTypes, Destroy
  <2> QED BY <1>1, <1>4, <1>7, <2>1, <2>2 DEF Types, ObjectTypes, GhostTypes, dispVars, ghosts
<1>10. Locks' BY <1>1, <1>4, <1>7, <1>8, RestLocks DEF IInv, Hold, dispVars
<1>11. Closing' BY <1>1, <1>4, <1>5, <1>7, ZeroClosing
<1>12. Control' BY <1>4, <1>7, CallsInv DEF dispVars
<1>13. NoLostPacket'
  <2>1. packets' \in Seq(Packets) /\ Len(packets') <= Len(packets)
    BY <1>1, <1>4, LenProperties DEF Types, PortTypes
  <2> QED BY <1>1, <1>4, <1>7, <1>8, <2>1, RestTokens DEF IInv, Rest, Tokens
<1>14. \A c : Held(c) => Held(c)' BY <1>1, <1>4, <1>7, HeldStep DEF dispVars
<1>15. \A o \in Observers : ~InQueue(o) /\ ~InQueue(o)'
  <2>1. \A x : ~Has(<<>>, x) BY EmptySeq DEF Has
  <2> QED BY <1>4, <1>5, <2>1 DEF InQueue
<1>16. ASSUME NEW o \in Observers, o # y, cur'[t] # o, odisp'[o] = odisp[o],
         o \in observers' <=> o \in observers
       PROVE  Placed(o)' /\ Linked(o)' /\ Cancelled(o)'
  <2>1. SameView(o) BY <1>3, <1>4, <1>7, <1>16, OtherView DEF dispVars
  <2>2. SamePacket(o) BY <1>4, <1>6, <1>16 DEF SamePacket, InQueue, ghosts
  <2>3. Aside(t, o) BY <1>2, <1>4, <2>1, <2>2 DEF Aside, ghosts
  <2> QED BY <1>4, <1>7, <1>14, <2>3, AsideObserver
<1>17. \A o \in Observers : Beside(t, o) /\ ~Uses(t, o)
  BY <1>1, <1>4, <1>7, <1>14 DEF Beside, dispVars, ghosts, Uses, Use
<1>18. Owned(y) /\ Linked(y) BY DEF IInv, Observing, Placed
<1>19. y \notin observers BY <1>2, <1>3, <1>18 DEF Owned
<1>20. ASSUME NEW o \in Observers, Early(o)' <=> Early(o), life[o] = "live",
         \A u \in Threads : Uses(u, o)' <=> Uses(u, o)
       PROVE  Cancelled(o)'
  <2>1. life'[o] # "none" BY <1>6, <1>20
  <2>2. UNCHANGED <<finished, covers>> BY <1>4 DEF ghosts
  <2> QED BY <1>2, <1>15, <1>17, <1>20, <2>1, <2>2, BesideCancelled
<1>21. ASSUME cur'[t] # y, odisp'[y] = odisp[y], y \in observers' <=> y \in observers
       PROVE  Placed(y)' /\ Linked(y)' /\ Cancelled(y)'
  <2>1. Destroys(t, y) BY <1>2, <1>3, <1>4, <1>6, <1>7, <1>15, <1>21 DEF Destroys
  <2>2. /\ Placed(y)' /\ Linked(y)' /\ (Early(y)' <=> Early(y)) /\ life[y] = "live"
        /\ \A u \in Threads : Uses(u, y)' <=> Uses(u, y)
    BY <1>17, <2>1, DestroyObserver
  <2> QED BY <1>20, <2>2
<1>22. Observing'
  <2>1. CASE NoneLeft(t) BY <1>16, <1>21, <2>1, PortAssumption DEF Observing, NoneLeft
  <2>2. CASE \E o \in observers : NextUnlinked(t, o)
    <3>1. PICK x \in observers : NextUnlinked(t, x) BY <2>2
    <3>2. x \in Observers /\ x # Null /\ x # y BY <1>1, <1>19, <3>1, PortAssumption DEF Types, PortTypes
    <3>3. \A o \in Observers : o # x => cur'[t] # o /\ odisp'[o] = odisp[o] /\ (o \in observers' <=> o \in observers)
      BY <1>1, <3>1 DEF NextUnlinked, Types, ObserverTypes
    <3>4. Owned(x) BY <3>2 DEF IInv, Observing, Placed
    <3>5. Unlinks(t, x)
      <4>1. odisp'[x] = Null /\ x \notin observers'
        BY <1>1, <3>1, <3>2 DEF NextUnlinked, Types, ObserverTypes
      <4>2. x \notin owned /\ \A u \in Threads : x \notin temp[u] BY <3>1, <3>4 DEF Owned
      <4>3. life'[x] = life[x] /\ x \notin owned' BY <1>4, <1>6, <3>2, <4>2
      <4> QED
        BY <1>1, <1>4, <1>5, <1>7, <1>15, <1>17, <3>1, <3>2, <4>1, <4>2, <4>3 DEF Unlinks, NextUnlinked
    <3>6. /\ Placed(x)' /\ Linked(x)' /\ (Early(x)' <=> Early(x)) /\ life[x] = "live"
          /\ \A u \in Threads : Uses(u, x)' <=> Uses(u, x)
      BY <1>17, <3>2, <3>5, UnlinkObserver
    <3>7. Cancelled(x)' BY <1>20, <3>2, <3>6
    <3>8. Placed(y)' /\ Linked(y)' /\ Cancelled(y)' BY <1>21, <3>2, <3>3
    <3> QED BY <1>16, <3>3, <3>6, <3>7, <3>8 DEF Observing
  <2> QED BY <1>7, <2>1, <2>2
<1>23. Once' /\ EphemeralCounted' BY <1>4 DEF IInv, Once, EphemeralCounted
<1> QED BY <1>9, <1>10, <1>11, <1>12, <1>13, <1>22, <1>23 DEF IInv

\* An observer that a cancel by key only looks at.
LEMMA AsidePlaced ==
  ASSUME IInv, NEW t \in Threads, NEW o \in Observers, Beside(t, o), SameView(o),
         SamePacket(o) \/ TakenPacket(o)
  PROVE  /\ Placed(o)' /\ Linked(o)' /\ (Early(o)' <=> Early(o))
         /\ \A u \in Threads : Uses(u, o)' <=> Uses(u, o)
<1>1. Placed(o) /\ Linked(o) /\ ObserverTypes /\ GhostTypes BY DEF IInv, Observing, Types
<1>2. (zero => zero') /\ \A b : Held(b) => Held(b)' BY DEF Beside
<1>3. Placed(o)' BY <1>1, <1>2, RestPlaced
<1>4. Linked(o)'
  <2>1. odisp'[o] = odisp[o] BY DEF SameView
  <2>2. odisp[o] # Null => Held(odisp[o]) BY <1>1 DEF Linked, Held
  <2>3. odisp[o] # Null => Held(odisp[o])' BY <1>2, <2>1, <2>2 DEF Held
  <2> QED BY <1>1, <2>3, RestLinked
<1>5. \A u \in Threads : Uses(u, o)' <=> Uses(u, o) BY DEF SameView, Uses
<1> QED BY <1>3, <1>4, <1>5, ViewEarly

\* zx_port_cancel_key makes the waits in R silent.
LEMMA KeyCancelled ==
  ASSUME IInv, NEW t \in Threads, NEW o \in Observers, Beside(t, o), NEW R, Early(o)' => Early(o),
         InQueue(o)' => InQueue(o),
         \A u \in Threads : Uses(u, o)' <=> Uses(u, o), ~Uses(t, o),
         life'[o] = "none" => life[o] = "none",
         o \in R => ~InQueue(o)' /\ Silent(o)' /\ life'[o] # "none",
         o \in finished' => o \in finished \/ o \in R,
         o \in covers'[t] => o \in R /\ op'[t] = "cancel_key"
  PROVE  Cancelled(o)'
<1>1. Cancelled(o) BY DEF IInv, Observing
<1>2. (zero => zero') /\ (o \in canceled => o \in canceled') /\ oobj'[o] = oobj[o] /\ okey'[o] = okey[o]
      /\ Rest(t)
  BY DEF Beside
<1>3. Silent(o) => Silent(o)' BY <1>2 DEF Silent
<1>4. life'[o] = "none" => o \notin finished' /\ \A u \in Threads : o \notin covers'[u]
  BY <1>1, <1>2 DEF Cancelled, Rest
<1>5. o \in finished' => ~InQueue(o)' /\ Silent(o)' BY <1>1, <1>3 DEF Cancelled
<1>6. ASSUME NEW u \in Threads, o \in covers'[u]
      PROVE  /\ op'[u] = "cancel_key" => ~InQueue(o)' /\ Silent(o)'
             /\ op'[u] = "cancel" => /\ oobj'[o] = obj'[u] /\ okey'[o] = key'[u]
                                     /\ \A v \in Threads : Uses(v, o)' => op'[v] # "wait_async"
                                     /\ pc'[u] = "cancel_queued" => ~Early(o)'
  <2>1. CASE u = t BY <1>6, <2>1
  <2>2. CASE u # t
    <3>1. o \in covers[u] /\ op'[u] = op[u] /\ obj'[u] = obj[u] /\ key'[u] = key[u] /\ pc'[u] = pc[u]
      BY <1>2, <1>6, <2>2 DEF Rest
    <3>2. \A v \in Threads : Uses(v, o)' => Uses(v, o) /\ op'[v] = op[v] BY <1>2 DEF Rest
    <3> QED BY <1>1, <1>2, <1>3, <3>1, <3>2 DEF Cancelled
  <2> QED BY <2>1, <2>2
<1> QED BY <1>4, <1>5, <1>6 DEF Cancelled

\* CancelKey keeps the invariant.
LEMMA CancelKeyInv == ASSUME IInv, NEW t \in Threads, CancelKey(t) PROVE IInv'
<1>1. Types /\ Thread(t) /\ pc[t] = "cancel_key" /\ op[t] = "cancel_key"
  BY OpAt DEF IInv, Control, CancelKey
<1>2. cur[t] = Null /\ key[t] \in Keys BY <1>1, InHand DEF Use, Drop
<1>3. temp[t] = {} /\ covers[t] = {} BY <1>1 DEF Thread, Drop
<1>4. PICK k \in Keys : k = key[t] BY <1>2
<1> DEFINE M == {o \in observers : okey[o] = k}
           R == Registered(Null, k)
           S == {o \in Observers : Cancels(o, Null, k)}
<1>5. /\ UNCHANGED <<zero, irqs, irqPosts, portOpen, sema, okey, oobj, dispVars, excp, got>>
      /\ canceled' = canceled \cup M /\ observers' = observers \ M
      /\ size' = Size(size - Cardinality(M))
      /\ CancelQueuedPacketsLocked(Null, k) /\ Destroy(Freed(Null, k))
      /\ owned' = owned \ Freed(Null, k)
  BY <1>4 DEF CancelKey
<1>6. IF M = {} THEN Return(t) /\ finished' = finished \cup R /\ UNCHANGED <<odisp, covers>>
      ELSE /\ \E x \in M : Unlink(t, x) /\ temp' = [temp EXCEPT ![t] = M \ {x}]
           /\ covers' = [covers EXCEPT ![t] = R] /\ UNCHANGED <<op, key, edge, finished>>
  BY <1>4 DEF CancelKey
<1>7. Taken(S) BY <1>5, CancelsTaken
<1>8. \A o \in Observers : o \in S <=> okey[o] = k BY DEF Cancels, PacketKey
<1>9. owned \subseteq Observers /\ observers \subseteq Observers
      /\ Freed(Null, k) = {o \in owned : InQueue(o) /\ o \in S}
  BY <1>1 DEF Freed, Types, ObserverTypes, PortTypes
<1>10. /\ R \subseteq Observers
       /\ \A o \in R : life[o] = "live" /\ okey[o] = k
  BY DEF Registered
<1>11. \A o : o \in M <=> o \in observers /\ okey[o] = k OBVIOUS
<1>12. Cardinality(M) \in Nat
  <2>1. M \in SUBSET Observers BY <1>9
  <2>2. IsFiniteSet(M) BY <2>1, PortAssumption, FS_Subset
  <2> QED BY <2>2, FS_CardinalityType
<1> HIDE DEF S, M, R
<1>13. /\ owned' = owned \ {x \in Observers : InQueue(x) /\ x \in S}
       /\ life' = [o \in Observers |-> IF o \in owned /\ InQueue(o) /\ o \in S THEN "destroyed" ELSE life[o]]
  BY <1>5, <1>9 DEF Destroy
<1>14. /\ Once' /\ EphemeralCounted' /\ (packets = <<>> => packets' = <<>>) /\ packets' \in Seq(Packets)
       /\ Len(packets') <= Len(packets)
  BY <1>7, TakenCounts
<1>15. PortTypes'
  <2>1. size \in Int BY <1>1, PortAssumption DEF Types, PortTypes
  <2>2. size' \in 0 .. 2^SizeBits - 1 BY <1>5, <1>12, <2>1, SizeType
  <2> QED BY <1>1, <1>5, <1>14, <2>2 DEF Types, PortTypes
<1>16. \A o \in Observers : o \in owned => o \notin observers BY DEF IInv, Observing, Placed, Owned
<1>17. \A o \in Observers : SameView(o) => SamePacket(o) \/ TakenPacket(o)
  <2>1. ASSUME NEW o \in Observers PROVE SamePacket(o) \/ TakenPacket(o)
    <3>1. got'[o] = got[o] BY <1>5
    <3> QED BY <1>7, <1>13, <3>1, TakenAside
  <2> QED BY <2>1
<1>18. ASSUME NEW o \in Observers, Early(o)' <=> Early(o), o \in R
       PROVE  ~InQueue(o)' /\ Silent(o)' /\ life'[o] # "none"
  <2>1. life[o] = "live" /\ okey[o] = k /\ o \in S BY <1>8, <1>10, <1>18
  <2>2. ~InQueue(o)' BY <1>7, <2>1 DEF Taken
  <2>3. Silent(o)'
    <3>1. Waiting(o) BY DEF IInv, Observing, Placed
    <3> QED BY <1>5, <1>11, <1>18, <2>1, <3>1 DEF Waiting, Silent
  <2> QED BY <1>13, <2>1, <2>2, <2>3
<1>19. ASSUME NEW o \in Observers, Beside(t, o), Early(o)' <=> Early(o),
         \A u \in Threads : Uses(u, o)' <=> Uses(u, o),
              o \in finished' => o \in finished \/ o \in R, o \in covers'[t] => o \in R /\ op'[t] = "cancel_key"
       PROVE  Cancelled(o)'
  <2>1. ~Uses(t, o) /\ (InQueue(o)' => InQueue(o)) BY <1>1, <1>7 DEF Uses, Use, Taken
  <2>2. life'[o] = "none" => life[o] = "none" BY <1>13
  <2>3. o \in R => ~InQueue(o)' /\ Silent(o)' /\ life'[o] # "none" BY <1>18, <1>19
  <2> QED BY <1>19, <2>1, <2>2, <2>3, KeyCancelled
<1>20. \A o \in Observers : (InQueue(o)' => InQueue(o))
       /\ (o \in M => ~InQueue(o)' /\ life'[o] = life[o] /\ o \notin owned' /\ o \in canceled')
  BY <1>5, <1>7, <1>8, <1>11, <1>13, <1>16 DEF Taken
<1>21. CASE M = {}
  <2>1. Return(t) /\ finished' = finished \cup R /\ UNCHANGED <<odisp, covers>> BY <1>6, <1>21
  <2>2. observers' = observers /\ canceled' = canceled BY <1>5, <1>21
  <2>3. Rest(t) /\ pc'[t] = "idle" /\ op'[t] = "none" /\ cur'[t] = Null /\ temp' = temp
    BY <2>1, Returns DEF Rest
  <2>4. Types'
    <3>1. ThreadTypes' BY <1>1, <1>5, <2>1, Returns DEF Types, ThreadTypes
    <3>2. ObserverTypes' BY <1>1, <1>5, <1>13, <2>1, <2>2 DEF Types, ObserverTypes
    <3>3. GhostTypes' BY <1>1, <1>5, <1>10, <2>1 DEF Types, GhostTypes
    <3> QED BY <1>1, <1>5, <1>15, <3>1, <3>2, <3>3 DEF Types, ObjectTypes, dispVars
  <2>5. Thread(t)' BY <1>3, <2>1, Returns
  <2>6. Locks' BY <1>1, <1>5, <2>3, RestLocks DEF IInv, Hold, dispVars
  <2>7. Closing' BY <1>1, <1>5, <1>14, <2>2, <2>3, RestClosing DEF IInv
  <2>8. Control' BY <1>5, <2>3, <2>5, CallsInv DEF dispVars
  <2>9. NoLostPacket' BY <1>1, <1>5, <1>14, <2>3, RestTokens DEF IInv, Rest, Tokens
  <2>10. \A c : Held(c) => Held(c)' BY <1>1, <1>5, <2>3, HeldStep DEF dispVars
  <2>11. Observing'
    <3> SUFFICES ASSUME NEW o \in Observers
        PROVE  Placed(o)' /\ Linked(o)' /\ Cancelled(o)' BY DEF Observing
    <3>1. o # Null BY PortAssumption
    <3>2. SameView(o) BY <1>2, <1>5, <2>1, <2>2, <2>3, <3>1, OtherView DEF dispVars
    <3>3. Beside(t, o) BY <1>5, <2>2, <2>3, <2>10 DEF Beside, dispVars
    <3>4. /\ Placed(o)' /\ Linked(o)' /\ (Early(o)' <=> Early(o))
          /\ \A u \in Threads : Uses(u, o)' <=> Uses(u, o)
      BY <1>17, <3>2, <3>3, AsidePlaced
    <3>5. Cancelled(o)' BY <1>3, <1>19, <2>1, <3>3, <3>4
    <3> QED BY <3>4, <3>5
  <2> QED BY <1>14, <2>4, <2>6, <2>7, <2>8, <2>9, <2>11 DEF IInv
<1>22. CASE M # {}
  <2>1. PICK x \in M : Unlink(t, x) /\ temp' = [temp EXCEPT ![t] = M \ {x}] BY <1>6, <1>22
  <2>2. covers' = [covers EXCEPT ![t] = R] /\ UNCHANGED <<op, key, edge, finished>> BY <1>6, <1>22
  <2>3. /\ odisp' = [odisp EXCEPT ![x] = Null] /\ cur' = [cur EXCEPT ![t] = x]
        /\ obj' = [obj EXCEPT ![t] = odisp[x]]
        /\ pc' = [pc EXCEPT ![t] = "remove"]
    BY <2>1 DEF Unlink, Goto
  <2>4. x \in Observers /\ x # Null /\ x \in observers BY <1>9, <1>11, PortAssumption
  <2>5. odisp[x] # Null /\ odisp[x] \in Objects
    <3>1. Linked(x) BY <2>4 DEF IInv, Observing
    <3> QED BY <1>1, <2>4, <3>1 DEF Linked, Types, ObserverTypes
  <2>6. /\ Rest(t) /\ pc'[t] = "remove" /\ cur'[t] = x /\ obj'[t] = odisp[x] /\ covers'[t] = R
    BY <1>1, <2>2, <2>3 DEF Rest, Types, ThreadTypes, GhostTypes
  <2>7. temp'[t] = M \ {x} /\ \A u \in Threads \ {t} : temp'[u] = temp[u]
    BY <1>1, <2>1 DEF Types, ThreadTypes
  <2>8. Types'
    <3>1. M \ {x} \in SUBSET Observers BY <1>9, <1>11
    <3>2. temp' \in [Threads -> SUBSET Observers] BY <1>1, <2>1, <3>1 DEF Types, ThreadTypes
    <3>3. ThreadTypes' BY <1>1, <1>5, <2>2, <2>3, <2>4, <2>5, <3>2 DEF Types, ThreadTypes, PCs
    <3>4. ObserverTypes'
      <4>1. canceled' \subseteq Observers BY <1>1, <1>5, <1>9, <1>11 DEF Types, ObserverTypes
      <4>2. odisp' \in [Observers -> Objects \cup {Null}] BY <1>1, <2>3 DEF Types, ObserverTypes
      <4> QED BY <1>1, <1>5, <1>13, <4>1, <4>2 DEF Types, ObserverTypes
    <3>5. GhostTypes' BY <1>1, <1>5, <1>10, <2>2 DEF Types, GhostTypes
    <3> QED BY <1>1, <1>5, <1>15, <3>3, <3>4, <3>5 DEF Types, ObjectTypes, dispVars
  <2>9. Thread(t)' BY <1>1, <1>2, <2>2, <2>4, <2>5, <2>6 DEF Thread, At, Use, Hold, Drop
  <2>10. Locks' BY <1>1, <1>5, <2>6, RestLocks DEF IInv, Hold, dispVars
  <2>11. Closing' BY <1>1, <1>5, <1>14, <2>2, <2>6, RestClosing DEF IInv
  <2>12. Control' BY <1>5, <2>6, <2>7, <2>9, CallsInv DEF dispVars
  <2>13. NoLostPacket' BY <1>1, <1>5, <1>14, <2>6, RestTokens DEF IInv, Rest, Tokens
  <2>14. \A c : Held(c) => Held(c)' BY <1>1, <1>5, <2>6, HeldStep DEF dispVars
  <2>15. \A o \in Observers : Beside(t, o) BY <1>5, <2>6, <2>14 DEF Beside, dispVars
  <2>16. \A o \in Observers : o # x => odisp'[o] = odisp[o] BY <1>1, <2>3 DEF Types, ObserverTypes
  <2>17. odisp'[x] = Null BY <1>1, <2>3, <2>4 DEF Types, ObserverTypes
  <2>18. \A o \in M : o \in observers /\ \A u \in Threads : o \notin temp[u]
    <3>1. \A o \in Observers : o \in observers => \A u \in Threads : o \notin temp[u]
      BY DEF IInv, Observing, Placed, Owned
    <3> QED BY <1>9, <1>11, <3>1
  <2>19. ASSUME NEW o \in Observers
         PROVE  /\ Placed(o)' /\ Linked(o)' /\ (Early(o)' <=> Early(o))
                /\ \A u \in Threads : Uses(u, o)' <=> Uses(u, o)
    <3>1. CASE o = x
      <4>1. ~Uses(t, x) BY <1>1 DEF Uses, Use
      <4>2. \A u \in Threads : x \notin temp'[u] BY <2>7, <2>18
      <4>3. x \notin observers' BY <1>5
      <4>4. Unlinks(t, x) BY <1>20, <2>4, <2>5, <2>6, <2>17, <4>1, <4>2, <4>3 DEF Unlinks
      <4> QED BY <2>15, <3>1, <4>4, UnlinkObserver
    <3>2. CASE o # x /\ o \in M
      <4>1. o \notin observers' /\ \A u \in Threads : o \in temp'[u] <=> u = t
        BY <1>5, <2>7, <2>18, <3>2
      <4>2. Moves(t, o) BY <1>2, <1>20, <2>6, <2>16, <2>18, <3>2, <4>1 DEF Moves, Use
      <4> QED BY <2>15, <4>2, MoveObserver
    <3>3. CASE o # x /\ o \notin M
      <4>1. o # Null /\ \A u \in Threads : o \in temp'[u] <=> o \in temp[u]
        BY <1>3, <2>7, <3>3, PortAssumption
      <4>2. SameView(o) BY <1>2, <1>5, <2>6, <2>16, <3>3, <4>1, OtherView DEF dispVars
      <4> QED BY <1>17, <2>15, <4>2, AsidePlaced
    <3> QED BY <3>1, <3>2, <3>3
  <2>20. Observing'
    <3> SUFFICES ASSUME NEW o \in Observers
        PROVE  Placed(o)' /\ Linked(o)' /\ Cancelled(o)' BY DEF Observing
    <3>1. Cancelled(o)' BY <1>1, <1>19, <2>2, <2>6, <2>15, <2>19
    <3> QED BY <2>19, <3>1
  <2> QED BY <1>14, <2>8, <2>10, <2>11, <2>12, <2>13, <2>20 DEF IInv
<1> QED BY <1>21, <1>22

\* CancelKeyNext keeps the invariant.
LEMMA CancelKeyNextInv == ASSUME IInv, NEW t \in Threads, CancelKeyNext(t) PROVE IInv'
<1>1. Types /\ Thread(t) /\ pc[t] = "removed" /\ op[t] = "cancel_key"
  BY DEF IInv, Control, CancelKeyNext
<1>2. cur[t] \in Observers /\ Drops(t, cur[t]) /\ key[t] \in Keys BY <1>1, InHand DEF Drop
<1>3. PICK y \in Observers : y = cur[t] BY <1>2
<1>4. /\ UNCHANGED <<portVars, sema, okey, oobj, canceled, owned, dispVars, excp, got>> /\ Destroy({y})
  BY <1>3 DEF CancelKeyNext
<1>5. IF temp[t] = {} THEN /\ Return(t) /\ finished' = finished \cup covers[t]
                           /\ covers' = [covers EXCEPT ![t] = {}] /\ odisp' = odisp
      ELSE /\ \E x \in temp[t] : Unlink(t, x) /\ temp' = [temp EXCEPT ![t] = temp[t] \ {x}]
           /\ UNCHANGED <<op, key, edge, covers, finished>>
  BY DEF CancelKeyNext
<1>6. \A o \in Observers : life'[o] = IF o = y THEN "destroyed" ELSE life[o] BY <1>4 DEF Destroy
<1>7. Owned(y) /\ y # Null BY PortAssumption DEF IInv, Observing, Placed
<1>8. y \in canceled /\ ~InQueue(y) /\ y \notin observers /\ y \notin owned
      /\ \A u \in Threads : y \notin temp[u]
  BY <1>1, <1>2, <1>3, <1>7 DEF Owned
<1>9. \A o \in Observers : InQueue(o)' <=> InQueue(o) BY <1>4 DEF InQueue, portVars
<1>10. packets' \in Seq(Packets) /\ Len(packets') <= Len(packets)
  BY <1>1, <1>4, LenProperties DEF Types, PortTypes, portVars
<1>11. Once' /\ EphemeralCounted' BY <1>4 DEF IInv, Once, EphemeralCounted, portVars
<1>12. life' \in [Observers -> {"none", "live", "destroyed"}]
  BY <1>1, <1>4 DEF Types, ObserverTypes, Destroy
<1>13. ASSUME NEW o \in Observers, o # y PROVE SamePacket(o) BY <1>4, <1>6, <1>9, <1>13 DEF SamePacket
<1>14. ASSUME NEW o \in Observers, Beside(t, o), Early(o)' <=> Early(o),
         \A u \in Threads : Uses(u, o)' <=> Uses(u, o),
              o \in finished' => o \in finished \/ o \in covers[t],
              o \in covers'[t] => o \in covers[t] /\ op'[t] = "cancel_key"
       PROVE  Cancelled(o)'
  <2>1. ~Uses(t, o) BY <1>1 DEF Uses, Use
  <2>2. life'[o] = "none" => life[o] = "none" BY <1>6
  <2>3. o \in covers[t] => ~InQueue(o)' /\ Silent(o)' /\ life'[o] # "none"
    <3>1. Cancelled(o) BY DEF IInv, Observing
    <3>2. o \in covers[t] => ~InQueue(o) /\ Silent(o) /\ life[o] # "none" BY <1>1, <3>1 DEF Cancelled
    <3>3. Silent(o) => Silent(o)' BY <1>14 DEF Silent, Beside
    <3> QED BY <1>9, <2>2, <3>2, <3>3
  <2> QED BY <1>9, <1>14, <2>1, <2>2, <2>3, KeyCancelled
<1>15. ASSUME Rest(t), cur'[t] # y, odisp'[y] = odisp[y],
         \A u \in Threads : y \notin temp'[u], Beside(t, y)
       PROVE  /\ Placed(y)' /\ Linked(y)' /\ (Early(y)' <=> Early(y))
              /\ \A u \in Threads : Uses(u, y)' <=> Uses(u, y)
  <2>1. Destroys(t, y) BY <1>2, <1>3, <1>4, <1>6, <1>8, <1>9, <1>15 DEF Destroys, portVars
  <2> QED BY <1>15, <2>1, DestroyObserver
<1>16. CASE temp[t] = {}
  <2>1. Return(t) /\ finished' = finished \cup covers[t] /\ covers' = [covers EXCEPT ![t] = {}]
        /\ odisp' = odisp
    BY <1>5, <1>16
  <2>2. Rest(t) /\ pc'[t] = "idle" /\ op'[t] = "none" /\ cur'[t] = Null /\ temp' = temp
        /\ covers'[t] = {}
    BY <1>1, <2>1, Returns DEF Rest, Types, GhostTypes
  <2>3. Types'
    <3>1. ThreadTypes' BY <1>1, <1>4, <2>1, Returns DEF Types, ThreadTypes
    <3>2. ObserverTypes' BY <1>1, <1>4, <1>12, <2>1 DEF Types, ObserverTypes
    <3>3. covers' \in [Threads -> SUBSET Observers] /\ finished' \subseteq Observers
      BY <1>1, <2>1 DEF Types, GhostTypes
    <3>4. GhostTypes' BY <1>1, <1>4, <3>3 DEF Types, GhostTypes
    <3> QED BY <1>1, <1>4, <3>1, <3>2, <3>4 DEF Types, PortTypes, ObjectTypes, portVars, dispVars
  <2>4. Thread(t)' BY <1>16, <2>1, <2>2, Returns
  <2>5. Locks' BY <1>1, <1>4, <2>2, RestLocks DEF IInv, Hold, dispVars
  <2>6. Closing' BY <1>1, <1>4, <2>2, RestClosing DEF IInv, portVars
  <2>7. Control' BY <1>4, <2>2, <2>4, CallsInv DEF dispVars, portVars
  <2>8. NoLostPacket' BY <1>1, <1>4, <1>10, <2>2, RestTokens DEF IInv, Rest, Tokens, portVars
  <2>9. \A c : Held(c) => Held(c)' BY <1>1, <1>4, <2>2, HeldStep DEF dispVars
  <2>10. \A o \in Observers : Beside(t, o) BY <1>4, <2>2, <2>9 DEF Beside, dispVars, portVars
  <2>11. Observing'
    <3> SUFFICES ASSUME NEW o \in Observers
        PROVE  Placed(o)' /\ Linked(o)' /\ Cancelled(o)' BY DEF Observing
    <3>1. /\ Placed(o)' /\ Linked(o)' /\ (Early(o)' <=> Early(o))
          /\ \A u \in Threads : Uses(u, o)' <=> Uses(u, o)
      <4>1. CASE o = y BY <1>7, <1>8, <1>15, <2>1, <2>2, <2>10, <4>1
      <4>2. CASE o # y
        <5>1. o # Null BY PortAssumption
        <5>2. SameView(o) BY <1>3, <1>4, <2>1, <2>2, <4>2, <5>1, OtherView DEF dispVars, portVars
        <5> QED BY <1>13, <2>10, <4>2, <5>2, AsidePlaced
      <4> QED BY <4>1, <4>2
    <3>2. Cancelled(o)' BY <1>14, <2>1, <2>2, <2>10, <3>1
    <3> QED BY <3>1, <3>2
  <2> QED BY <1>11, <2>3, <2>5, <2>6, <2>7, <2>8, <2>11 DEF IInv
<1>17. CASE temp[t] # {}
  <2>1. PICK x \in temp[t] : Unlink(t, x) /\ temp' = [temp EXCEPT ![t] = temp[t] \ {x}] BY <1>5, <1>17
  <2>2. UNCHANGED <<op, key, edge, covers, finished>> BY <1>5, <1>17
  <2>3. /\ odisp' = [odisp EXCEPT ![x] = Null] /\ cur' = [cur EXCEPT ![t] = x]
        /\ obj' = [obj EXCEPT ![t] = odisp[x]]
        /\ pc' = [pc EXCEPT ![t] = "remove"]
    BY <2>1 DEF Unlink, Goto
  <2>4. x \in Observers /\ x # Null /\ x # y BY <1>1, <1>8, PortAssumption DEF Types, ThreadTypes
  <2>5. Linked(x) /\ Owned(x) BY <2>4 DEF IInv, Observing, Placed
  <2>6. odisp[x] # Null /\ odisp[x] \in Objects BY <1>1, <2>4, <2>5 DEF Linked, Types, ObserverTypes
  <2>7. Rest(t) /\ pc'[t] = "remove" /\ cur'[t] = x /\ obj'[t] = odisp[x] /\ op'[t] = "cancel_key"
    BY <1>1, <2>2, <2>3 DEF Rest, Types, ThreadTypes
  <2>8. \A u \in Threads : temp'[u] = IF u = t THEN temp[t] \ {x} ELSE temp[u]
    BY <1>1, <2>1 DEF Types, ThreadTypes
  <2>9. Types'
    <3>1. temp' \in [Threads -> SUBSET Observers] BY <1>1, <2>1 DEF Types, ThreadTypes
    <3>2. ThreadTypes' BY <1>1, <1>4, <2>2, <2>3, <2>4, <2>6, <3>1 DEF Types, ThreadTypes, PCs
    <3>3. odisp' \in [Observers -> Objects \cup {Null}] BY <1>1, <2>3 DEF Types, ObserverTypes
    <3>4. ObserverTypes' BY <1>1, <1>4, <1>12, <3>3 DEF Types, ObserverTypes
    <3> QED
      BY <1>1, <1>4, <2>2, <3>2, <3>4 DEF Types, PortTypes, ObjectTypes, GhostTypes, portVars, dispVars
  <2>10. Thread(t)' BY <1>1, <1>2, <2>2, <2>4, <2>6, <2>7 DEF Thread, At, Use, Hold, Drop
  <2>11. Locks' BY <1>1, <1>4, <2>7, RestLocks DEF IInv, Hold, dispVars
  <2>12. Closing' BY <1>1, <1>4, <2>7, RestClosing DEF IInv, portVars
  <2>13. Control' BY <1>4, <2>7, <2>8, <2>10, CallsInv DEF dispVars, portVars
  <2>14. NoLostPacket' BY <1>1, <1>4, <1>10, <2>7, RestTokens DEF IInv, Rest, Tokens, portVars
  <2>15. \A c : Held(c) => Held(c)' BY <1>1, <1>4, <2>7, HeldStep DEF dispVars
  <2>16. \A o \in Observers : Beside(t, o) BY <1>4, <2>7, <2>15 DEF Beside, dispVars, portVars
  <2>17. (\A o \in Observers : o # x => odisp'[o] = odisp[o]) /\ odisp'[x] = Null
    BY <1>1, <2>3, <2>4 DEF Types, ObserverTypes
  <2>18. Observing'
    <3> SUFFICES ASSUME NEW o \in Observers
        PROVE  Placed(o)' /\ Linked(o)' /\ Cancelled(o)' BY DEF Observing
    <3>1. /\ Placed(o)' /\ Linked(o)' /\ (Early(o)' <=> Early(o))
          /\ \A u \in Threads : Uses(u, o)' <=> Uses(u, o)
      <4>1. CASE o = y
        <5>1. \A u \in Threads : y \notin temp'[u] BY <1>8, <2>8
        <5> QED BY <1>15, <2>4, <2>7, <2>16, <2>17, <4>1, <5>1
      <4>2. CASE o = x
        <5>1. x \in canceled /\ ~InQueue(x) /\ x \notin observers /\ x \notin owned
              /\ \A u \in Threads : x \in temp[u] => u = t
          BY <2>1, <2>5 DEF Owned
        <5>2. x \in canceled' /\ ~InQueue(x)' /\ x \notin observers' /\ x \notin owned'
              /\ life'[x] = life[x] /\ \A u \in Threads : x \notin temp'[u]
          BY <1>4, <1>6, <1>9, <2>4, <2>8, <5>1 DEF portVars
        <5>3. ~Uses(t, x) BY <1>1 DEF Uses, Use
        <5>4. Unlinks(t, x) BY <2>6, <2>7, <2>17, <5>2, <5>3 DEF Unlinks
        <5> QED BY <2>4, <2>16, <4>2, <5>4, UnlinkObserver
      <4>3. CASE o # x /\ o # y
        <5>1. \A u \in Threads : o \in temp'[u] <=> o \in temp[u] BY <2>8, <4>3
        <5>2. SameView(o) BY <1>3, <1>4, <2>7, <2>17, <4>3, <5>1, OtherView DEF dispVars, portVars
        <5> QED BY <1>13, <2>16, <4>3, <5>2, AsidePlaced
      <4> QED BY <4>1, <4>2, <4>3
    <3>2. Cancelled(o)' BY <1>14, <2>2, <2>7, <2>16, <3>1
    <3> QED BY <3>1, <3>2
  <2> QED BY <1>11, <2>9, <2>11, <2>12, <2>13, <2>14, <2>18 DEF IInv
<1> QED BY <1>16, <1>17
-----------------------------------------------------------------------------
\* The invariant holds when the port has been created.
LEMMA InitInv == Init => IInv
<1> SUFFICES ASSUME Init PROVE IInv OBVIOUS
<1>1. \A x : ~Has(<<>>, x) BY EmptySeq DEF Has
<1>2. \A o \in Observers : ~InQueue(o) BY <1>1 DEF Init, InQueue
<1>3. \A t \in Threads : pc[t] = "idle" /\ op[t] = "none" /\ cur[t] = Null /\ obj[t] = Null
      /\ temp[t] = {} /\ covers[t] = {}
  BY DEF Init
<1>4. Types
  <2>1. PortTypes
    <3>1. 0 \in 0 .. 2^SizeBits - 1
      <4>1. Size(0) \in 0 .. 2^SizeBits - 1 BY SizeType
      <4>2. 2^SizeBits \in Int BY PortAssumption
      <4> QED BY <4>1, <4>2
    <3>2. <<>> \in Seq(Packets) /\ <<>> \in Seq(IrqPackets) BY EmptySeq
    <3> QED BY <3>1, <3>2 DEF Init, PortTypes
  <2>2. ObserverTypes BY DEF Init, ObserverTypes
  <2>3. ObjectTypes BY DEF Init, ObjectTypes
  <2>4. ThreadTypes BY DEF Init, ThreadTypes, PCs
  <2>5. GhostTypes BY DEF Init, GhostTypes
  <2> QED BY <2>1, <2>2, <2>3, <2>4, <2>5 DEF Types
<1>5. Control BY <1>3 DEF Control, Thread, At, Use, Hold, Drop
<1>6. Locks BY <1>3, PortAssumption DEF Init, Locks, Hold
<1>7. Closing BY <1>3 DEF Init, Closing
<1>8. Once BY EmptySeq DEF Init, Once, Single
<1>9. Observing
  <2> SUFFICES ASSUME NEW o \in Observers PROVE Placed(o) /\ Linked(o) /\ Cancelled(o) BY DEF Observing
  <2>1. /\ life[o] = "none" /\ odisp[o] = Null /\ got[o] = 0 /\ o # Null /\ observers = {} /\ owned = {}
        /\ canceled = {} /\ finished = {}
        /\ \A b \in Objects : o \notin dobs[b]
    BY PortAssumption DEF Init
  <2>2. ~Early(o) /\ \A t \in Threads : ~Uses(t, o) /\ ~Drops(t, o) BY <1>3, <2>1 DEF Early, Uses, Drops
  <2>3. Unmade(o) BY <1>2, <1>3, <2>1 DEF Unmade
  <2>4. Course(o) BY <1>2, <2>1, <2>2 DEF Course
  <2>5. Owned(o) BY <1>2, <1>3, <2>1, <2>2 DEF Owned
  <2>6. Refers(o) /\ Waiting(o) BY <2>2 DEF Refers, Waiting
  <2>7. Linked(o) BY <1>3, <2>1 DEF Linked
  <2>8. Cancelled(o) BY <1>3, <2>1 DEF Cancelled
  <2> QED BY <2>3, <2>4, <2>5, <2>6, <2>7, <2>8 DEF Placed
<1>10. EphemeralCounted
  <2>1. {i \in 1 .. Len(<<>>) : <<>>[i] \notin Observers} = {} BY EmptySeq
  <2>2. Users(<<>>) = 0 BY <2>1, FS_EmptySet DEF Users
  <2> QED BY <2>2, PortAssumption DEF Init, EphemeralCounted
<1>11. NoLostPacket
  <2>1. Arriving \in Nat /\ Popping \in Nat BY <1>4, TokenTypes
  <2> QED BY <2>1, EmptySeq DEF Init, NoLostPacket, Arriving, Popping
<1> QED BY <1>4, <1>5, <1>6, <1>7, <1>8, <1>9, <1>10, <1>11 DEF IInv

\* Every step keeps the invariant.
LEMMA NextInv == IInv /\ [Next]_vars => IInv'
<1> SUFFICES ASSUME IInv, [Next]_vars PROVE IInv' OBVIOUS
<1>1. CASE UNCHANGED vars
  <2>1. Types' BY <1>1 DEF IInv, Types, PortTypes, ObserverTypes, ObjectTypes, ThreadTypes, GhostTypes,
                         vars, portVars, obsVars, dispVars, threadVars, ghosts
  <2>2. NoLostPacket' BY <1>1 DEF IInv, NoLostPacket, Among, vars, portVars, threadVars
  <2> QED BY <1>1, <2>1, <2>2, FrameInv DEF vars, portVars, dispVars, threadVars
<1>2. ASSUME NEW t \in Threads, UserStep(t) PROVE IInv'
  BY <1>2, LookupInv, MakeObserverInv, SignalInv, ClearSignalInv, CloseObjectInv, ClosePortInv,
    ResumeExceptionInv DEF UserStep
<1>3. ASSUME NEW t \in Threads, KernelStep(t) PROVE IInv'
  <2>1. CASE AddObserver(t) \/ QueueObserver(t) \/ Post(t) \/ MaybeReap(t)
    BY <2>1, AddObserverInv, QueueObserverInv, PostInv, MaybeReapInv
  <2>2. CASE CancelBegin(t) \/ Acquire(t) \/ LoopEnds(t) \/ CancelQueued(t)
    BY <2>2, CancelBeginInv, AcquireInv, LoopEndsInv, CancelQueuedInv
  <2>3. CASE \E o \in Observers : Visit(t, o) BY <2>3, VisitInv
  <2>4. CASE CancelKey(t) \/ RemoveObserver(t) \/ CancelKeyNext(t)
    BY <2>4, CancelKeyInv, RemoveObserverInv, CancelKeyNextInv
  <2>5. CASE QueueUser(t) \/ DequeueIrq(t) \/ Dequeue(t)
    BY <2>5, QueueUserInv, DequeueIrqInv, DequeueInv
  <2>6. CASE ZeroPackets(t) \/ ZeroLastPackets(t) \/ ZeroNext(t)
    BY <2>6, ZeroPacketsInv, ZeroLastPacketsInv, ZeroNextInv
  <2> QED BY <1>3, <2>1, <2>2, <2>3, <2>4, <2>5, <2>6 DEF KernelStep
<1>4. ASSUME NEW t \in Threads, DequeueWait(t) \/ DequeueTimesOut(t)
      PROVE  IInv' BY <1>4, DequeueWaitInv, DequeueTimesOutInv
<1>5. ASSUME NEW i \in IrqPackets, QueueInterruptPacket(i) \/ RemoveInterruptPacket(i) PROVE IInv'
  BY <1>5, QueueInterruptPacketInv, RemoveInterruptPacketInv
<1>6. CASE PostInterrupt BY <1>6, PostInterruptInv
<1> QED BY <1>1, <1>2, <1>3, <1>4, <1>5, <1>6 DEF Next

\* The inductive invariant holds whatever the threads do.
LEMMA Invariance == Spec => []IInv
BY InitInv, NextInv, PTL DEF Spec
-----------------------------------------------------------------------------
(***************************************************************************)
(* What follows for every program.                                         *)
(***************************************************************************)
\* Every variable keeps to its type: the model of the port never leaves the
\* states that PortDispatcher and PortObserver can be in.
THEOREM TypeCorrect == Spec => []TypeOK
<1>1. IInv => TypeOK
  <2> SUFFICES ASSUME IInv PROVE TypeOK OBVIOUS
  <2>1. packets \in Seq(Packets) /\ eph = Users(packets) BY DEF IInv, Types, PortTypes, EphemeralCounted
  <2>2. eph \in Nat
    <3>1. {} \in SUBSET (1 .. Len(packets)) OBVIOUS
    <3> QED BY <2>1, <3>1, UserCount
  <2>3. Types BY DEF IInv
  <2> QED
    BY <2>2, <2>3 DEF TypeOK, Types, PortTypes, ObserverTypes, ObjectTypes, ThreadTypes, GhostTypes
<1> QED BY <1>1, Invariance, PTL

\* num_ephemeral_packets_ counts the user packets queued, and is bounded.
THEOREM Counting == Spec => []EphemeralCounted
<1>1. IInv => EphemeralCounted BY DEF IInv
<1> QED BY <1>1, Invariance, PTL

\* Every queued packet has a token of sema_, or one is on its way.
THEOREM Wakeups == Spec => []NoLostPacket
<1>1. IInv => NoLostPacket BY DEF IInv
<1> QED BY <1>1, Invariance, PTL

\* A wait delivers one packet at most, and none after its cancel returned.
THEOREM Delivery == Spec => []DeliveredOnce
<1>1. IInv => DeliveredOnce
  <2> SUFFICES ASSUME IInv PROVE DeliveredOnce OBVIOUS
  <2>1. \A o \in Observers : Course(o) /\ Cancelled(o) BY DEF IInv, Observing, Placed
  <2>2. finished \subseteq Observers BY DEF IInv, Types, GhostTypes
  <2>3. \A o \in Observers : got[o] <= 1 BY <2>1 DEF Course
  <2>4. \A o \in finished : ~InQueue(o) BY <2>1, <2>2 DEF Cancelled
  <2> QED BY <2>3, <2>4 DEF DeliveredOnce
<1> QED BY <1>1, Invariance, PTL

\* An observer is neither leaked nor destroyed twice.
LEMMA Owner == IInv => OneOwner
<1> SUFFICES ASSUME IInv, NEW o \in Observers
    PROVE  Cardinality(Owners(o)) = IF life[o] = "live" THEN 1 ELSE 0
  BY DEF OneOwner
<1> DEFINE Of(x) == \/ x = "port" /\ o \in observers
                    \/ x = "packet" /\ o \in owned
                    \/ \E t \in Threads : x = <<"list", t>> /\ o \in temp[t]
                    \/ \E t \in Threads : x = <<"thread", t>> /\ Drops(t, o)
<1>1. \A x : x \in Owners(o) <=> Of(x) BY DEF Owners, Drops, Drop
<1>2. Owned(o) BY DEF IInv, Observing, Placed
<1>3. CASE life[o] # "live"
  <2>1. \A x : ~Of(x) BY <1>2, <1>3 DEF Owned
  <2>2. Owners(o) = {} BY <1>1, <2>1
  <2> QED BY <1>3, <2>2, FS_EmptySet
<1>4. CASE life[o] = "live"
  <2>1. \E x : Of(x) BY <1>2, <1>4 DEF Owned
  <2>2. \A x, y : Of(x) /\ Of(y) => x = y BY <1>2 DEF Owned
  <2>3. \E x : Owners(o) = {x} BY <1>1, <2>1, <2>2
  <2> QED BY <1>4, <2>3, FS_Singleton
<1> QED BY <1>3, <1>4

\* The weak pointer to the object is valid wherever it is followed.
LEMMA Weak == IInv => WeakPointerValid
<1> SUFFICES ASSUME IInv PROVE WeakPointerValid OBVIOUS
<1>1. \A o \in Observers : Linked(o) BY DEF IInv, Observing
<1> QED BY <1>1 DEF WeakPointerValid, Linked

\* Also when a key is canceled while a wait with it is being made, each
\* observer has one owner and its weak pointer is valid.
THEOREM Ownership == Spec => [](OneOwner /\ WeakPointerValid)
BY Owner, Weak, Invariance, PTL
-----------------------------------------------------------------------------
(***************************************************************************)
(* What follows when no key is canceled while a wait is being made.        *)
(***************************************************************************)
\* A thread about to hand an observer to its object; one about to destroy it.
Adds(t, o) == cur[t] = o /\ pc[t] = "add"
Dead(o) == life[o] = "destroyed" \/ \E t \in Threads : cur[t] = o /\ pc[t] = "removed"
Seen(o) == (\E b \in Objects : o \in dobs[b]) \/ \E t \in Threads : Uses(t, o)

\* Only thread t moves, and keeps to its program.
Moving(t) ==
  /\ \A u \in Threads \ {t} : pc'[u] = pc[u] /\ op'[u] = op[u] /\ cur'[u] = cur[u]
  /\ op'[t] \in {op[t], "none"} \cup Prog[t]

\* A thread keeps to its program.
LEMMA MovingPrograms ==
  ASSUME SafeInv, NEW t \in Threads, Moving(t) PROVE Programs'
BY DEF SafeInv, Programs, Moving

\* The two parts of Safe.
LEMMA SafeParts ==
  ASSUME NEW o
  PROVE  Safe(o) <=> (\A t \in Threads : Adds(t, o) => o \in observers) /\ (Dead(o) => ~Seen(o))
BY DEF Safe, Adds, Dead, Seen

\* How a step of thread t keeps an observer safe.
LEMMA SafeStep ==
  ASSUME SafeInv, NEW o \in Observers,
         \A u \in Threads : Adds(u, o)' => o \in observers' \/ (Adds(u, o) /\ (o \in observers => o \in observers')),
         Dead(o)' => Dead(o) \/ ~Seen(o)', Dead(o) => (Seen(o)' => Seen(o))
  PROVE  Safe(o)'
<1>1. Safe(o) BY DEF SafeInv
<1>2. (\A u \in Threads : Adds(u, o) => o \in observers) /\ (Dead(o) => ~Seen(o)) BY <1>1, SafeParts
<1>3. \A u \in Threads : Adds(u, o)' => o \in observers' BY <1>2
<1>4. Dead(o)' => ~Seen(o)' BY <1>2
<1> QED BY <1>3, <1>4 DEF Safe, Adds, Dead, Seen

\* A queued packet that owns its observer is the only way to reach it.
LEMMA OwnedUnseen == ASSUME IInv, NEW o \in Observers, o \in owned PROVE ~Seen(o)
<1>1. Owned(o) BY DEF IInv, Observing, Placed
<1> QED BY <1>1 DEF Owned, Early, Seen

\* A step that neither adds an observer nor looks at another, and destroys
\* only observers that a packet owned or the thread had removed.
Harmless(t) ==
  /\ Moving(t) /\ pc'[t] \notin {"add", "removed"}
  /\ pc'[t] \in Use => pc[t] \in Use /\ cur'[t] = cur[t]
  /\ \A b \in Objects : dobs'[b] \subseteq dobs[b]
  /\ \A o \in Observers : life'[o] = "destroyed" => \/ life[o] = "destroyed" \/ o \in owned
                                                    \/ cur[t] = o /\ pc[t] = "removed"
  /\ observers \subseteq observers' \/ \A u \in Threads : pc[u] # "add"

\* Such a step keeps every observer safe.
LEMMA HarmlessSafe ==
  ASSUME IInv, SafeInv, NEW t \in Threads, Harmless(t) PROVE SafeInv'
<1>1. Programs' BY MovingPrograms DEF Harmless
<1>2. ASSUME NEW o \in Observers PROVE Safe(o)'
  <2>1. \A u \in Threads : Adds(u, o)' => Adds(u, o) /\ (o \in observers => o \in observers')
    BY DEF Harmless, Moving, Adds
  <2>2. \A u \in Threads : Uses(u, o)' => Uses(u, o) BY DEF Harmless, Moving, Uses
  <2>3. Seen(o)' => Seen(o)
    <3>1. \A b \in Objects : o \in dobs'[b] => o \in dobs[b] BY DEF Harmless
    <3> QED BY <2>2, <3>1 DEF Seen
  <2>4. Dead(o)' => Dead(o) \/ o \in owned BY DEF Harmless, Moving, Dead
  <2>5. Dead(o)' => Dead(o) \/ ~Seen(o)' BY <2>3, <2>4, OwnedUnseen
  <2> QED BY <2>1, <2>3, <2>5, SafeStep
<1> QED BY <1>1, <1>2 DEF SafeInv

\* Nothing the observers depend on changes.
LEMMA SameSafe ==
  ASSUME SafeInv, UNCHANGED <<life, observers, dobs, pc, op, cur>> PROVE SafeInv'
BY DEF SafeInv, Programs, Safe, Uses
-----------------------------------------------------------------------------
\* The calls that return, or go on to a point at which they use no observer.
LEMMA ThreadSteps ==
  ASSUME ThreadTypes, NEW t \in Threads
  PROVE  /\ Return(t) => /\ Moving(t) /\ pc'[t] = "idle" /\ cur'[t] = Null
         /\ \A l : Goto(t, l) /\ UNCHANGED <<op, cur>> => Moving(t) /\ pc'[t] = l /\ cur'[t] = cur[t]
         /\ \A l, o : Goto(t, l) /\ o \in Prog[t] /\ op' = [op EXCEPT ![t] = o] /\ cur' = cur => Moving(t) /\ pc'[t] = l
<1>1. Return(t) => /\ Moving(t) /\ pc'[t] = "idle" /\ cur'[t] = Null
  BY DEF ThreadTypes, Return, Goto, Moving
<1>2. \A l : Goto(t, l) /\ UNCHANGED <<op, cur>> => Moving(t) /\ pc'[t] = l /\ cur'[t] = cur[t]
  BY DEF ThreadTypes, Goto, Moving
<1>3. \A l, o : Goto(t, l) /\ o \in Prog[t] /\ op' = [op EXCEPT ![t] = o]
      /\ cur' = cur => Moving(t) /\ pc'[t] = l
  BY DEF ThreadTypes, Goto, Moving
<1> QED BY <1>1, <1>2, <1>3

\* A step that changes no observer and no list of them.
LEMMA StillSafe ==
  ASSUME IInv, SafeInv, NEW t \in Threads, Moving(t), UNCHANGED <<life, observers, dobs>>,
         pc'[t] \notin {"add", "removed"}, pc'[t] \in Use => pc[t] \in Use /\ cur'[t] = cur[t]
  PROVE  SafeInv'
<1>1. Harmless(t) BY DEF Harmless
<1> QED BY <1>1, HarmlessSafe

\* The system calls that begin without an observer.
LEMMA StartsSafe ==
  ASSUME IInv, SafeInv, NEW t \in Threads,
         \/ \E o \in Ops, b \in Objects, k \in Keys : Lookup(t, o, b, k)
         \/ \E b \in Objects : Signal(t, b) \/ CloseObject(t, b)
         \/ ClosePort(t)
  PROVE  SafeInv'
<1>1. ThreadTypes BY DEF IInv, Types
<1>2. ASSUME NEW o \in Ops, NEW b \in Objects, NEW k \in Keys, Lookup(t, o, b, k) PROVE SafeInv'
  <2>1. /\ Goto(t, o) /\ o \in Prog[t] /\ o \in {"cancel", "cancel_key", "queue", "dequeue"}
        /\ op' = [op EXCEPT ![t] = o] /\ cur' = cur /\ UNCHANGED <<life, observers, dobs>>
    BY <1>2 DEF Lookup, portVars, obsVars, dispVars
  <2>2. Moving(t) /\ pc'[t] = o BY <1>1, <2>1, ThreadSteps
  <2>3. pc'[t] \notin Use \cup {"removed"} BY <2>1, <2>2 DEF Use
  <2> QED BY <2>1, <2>2, <2>3, StillSafe DEF Use
<1>3. ASSUME NEW b \in Objects, Signal(t, b) PROVE SafeInv'
  <2>1. /\ Goto(t, "loop") /\ "signal" \in Prog[t] /\ op' = [op EXCEPT ![t] = "signal"] /\ cur' = cur
        /\ UNCHANGED <<life, observers, dobs>>
    BY <1>3 DEF Signal, portVars, obsVars
  <2>2. Moving(t) /\ pc'[t] = "loop" BY <1>1, <2>1, ThreadSteps
  <2> QED BY <2>1, <2>2, StillSafe DEF Use
<1>4. ASSUME NEW b \in Objects, CloseObject(t, b) PROVE SafeInv'
  <2>1. /\ Goto(t, "acquire") /\ "close_object" \in Prog[t] /\ op' = [op EXCEPT ![t] = "close_object"]
        /\ cur' = cur
        /\ UNCHANGED <<life, observers, dobs>>
    BY <1>4 DEF CloseObject, portVars, obsVars
  <2>2. Moving(t) /\ pc'[t] = "acquire" BY <1>1, <2>1, ThreadSteps
  <2> QED BY <2>1, <2>2, StillSafe DEF Use
<1>5. CASE ClosePort(t)
  <2>1. /\ Goto(t, "zero") /\ "close_port" \in Prog[t] /\ op' = [op EXCEPT ![t] = "close_port"]
        /\ cur' = cur
        /\ UNCHANGED <<life, observers, dobs>>
    BY <1>5 DEF ClosePort, obsVars, dispVars
  <2>2. Moving(t) /\ pc'[t] = "zero" BY <1>1, <2>1, ThreadSteps
  <2> QED BY <2>1, <2>2, StillSafe DEF Use
<1> QED BY <1>2, <1>3, <1>4, <1>5

\* A call that returns or goes on with the observer it has.
LEMMA GoesOnSafe ==
  ASSUME IInv, SafeInv, NEW t \in Threads, UNCHANGED <<life, observers, dobs>>, NEW l,
         Return(t) \/ (Goto(t, l) /\ UNCHANGED <<op, cur>>),
         l \notin {"add", "removed"}, l \in Use => pc[t] \in Use
  PROVE  SafeInv'
<1>1. ThreadTypes BY DEF IInv, Types
<1>2. CASE Return(t)
  <2>1. Moving(t) /\ pc'[t] = "idle" BY <1>1, <1>2, ThreadSteps
  <2> QED BY <2>1, StillSafe DEF Use
<1>3. CASE Goto(t, l) /\ UNCHANGED <<op, cur>>
  <2>1. Moving(t) /\ pc'[t] = l /\ cur'[t] = cur[t] BY <1>1, <1>3, ThreadSteps
  <2> QED BY <2>1, StillSafe
<1> QED BY <1>2, <1>3

\* The steps that queue and wait for packets, and those around the visits.
LEMMA QueueingSafe ==
  ASSUME IInv, SafeInv, NEW t \in Threads,
         \/ QueueObserver(t) \/ Post(t) \/ CancelBegin(t) \/ Acquire(t) \/ LoopEnds(t) \/ QueueUser(t)
         \/ DequeueIrq(t) \/ DequeueWait(t) \/ DequeueTimesOut(t)
  PROVE  SafeInv'
<1>1. CASE QueueObserver(t)
  <2>1. PICK l \in {"reap", "post"} : Goto(t, l) BY <1>1 DEF QueueObserver
  <2>2. UNCHANGED <<life, observers, dobs, op, cur>> /\ pc[t] \in Use
    BY <1>1 DEF QueueObserver, obsVars, dispVars, Use
  <2> QED BY <2>1, <2>2, GoesOnSafe
<1>2. CASE Post(t)
  <2>1. UNCHANGED <<life, observers, dobs>> BY <1>2 DEF Post, portVars, obsVars, dispVars
  <2>2. Return(t) \/ (Goto(t, "reap") /\ pc[t] = "post" /\ UNCHANGED <<op, cur>>) BY <1>2 DEF Post
  <2>3. CASE Return(t) \/ (Goto(t, "idle") /\ UNCHANGED <<op, cur>>) BY <2>1, <2>3, GoesOnSafe DEF Use
  <2>4. CASE Goto(t, "reap") /\ pc[t] = "post" /\ UNCHANGED <<op, cur>>
    BY <2>1, <2>4, GoesOnSafe DEF Use
  <2> QED BY <2>2, <2>3, <2>4
<1>3. CASE CancelBegin(t)
  <2>1. UNCHANGED <<life, observers, dobs>> BY <1>3 DEF CancelBegin, portVars, obsVars, dispVars
  <2>2. Return(t) \/ (Goto(t, "acquire") /\ UNCHANGED <<op, cur>>) BY <1>3 DEF CancelBegin
  <2> QED BY <2>1, <2>2, GoesOnSafe DEF Use
<1>4. CASE Acquire(t)
  <2>1. UNCHANGED <<life, observers, dobs>> /\ (Goto(t, "loop") /\ UNCHANGED <<op, cur>>)
    BY <1>4 DEF Acquire, portVars, obsVars
  <2> QED BY <2>1, GoesOnSafe DEF Use
<1>5. CASE LoopEnds(t)
  <2>1. UNCHANGED <<life, observers, dobs>> BY <1>5 DEF LoopEnds, portVars, obsVars
  <2>2. Return(t) \/ (Goto(t, "cancel_queued") /\ UNCHANGED <<op, cur>>) BY <1>5 DEF LoopEnds
  <2> QED BY <2>1, <2>2, GoesOnSafe DEF Use
<1>6. CASE QueueUser(t)
  <2>1. UNCHANGED <<life, observers, dobs>> BY <1>6 DEF QueueUser, obsVars, dispVars
  <2>2. Return(t) \/ (Goto(t, "post_user") /\ UNCHANGED <<op, cur>>) BY <1>6 DEF QueueUser
  <2> QED BY <2>1, <2>2, GoesOnSafe DEF Use
<1>7. CASE DequeueIrq(t)
  <2>1. UNCHANGED <<life, observers, dobs>> BY <1>7 DEF DequeueIrq, obsVars, dispVars
  <2>2. Return(t) \/ (Goto(t, "pop") /\ UNCHANGED <<op, cur>>) BY <1>7 DEF DequeueIrq
  <2> QED BY <2>1, <2>2, GoesOnSafe DEF Use
<1>8. CASE DequeueWait(t)
  <2>1. UNCHANGED <<life, observers, dobs>> /\ (Goto(t, "pop_irq") /\ UNCHANGED <<op, cur>>)
    BY <1>8 DEF DequeueWait, portVars, obsVars, dispVars
  <2> QED BY <2>1, GoesOnSafe DEF Use
<1>9. CASE DequeueTimesOut(t)
  <2>1. UNCHANGED <<life, observers, dobs>> BY <1>9 DEF DequeueTimesOut, portVars, obsVars, dispVars
  <2>2. Return(t) \/ (Goto(t, "idle") /\ UNCHANGED <<op, cur>>) BY <1>9 DEF DequeueTimesOut
  <2> QED BY <2>1, <2>2, GoesOnSafe DEF Use
<1> QED BY <1>1, <1>2, <1>3, <1>4, <1>5, <1>6, <1>7, <1>8, <1>9
-----------------------------------------------------------------------------
\* No wait is being made while its port is being closed, or, in a serialized
\* program, while a key is being canceled.
LEMMA NoneAdding ==
  ASSUME IInv, SafeInv, Serialized, NEW t \in Threads, op[t] \in {"close_port", "cancel_key"}
  PROVE  \A u \in Threads : pc[u] # "add"
<1> SUFFICES ASSUME NEW u \in Threads, pc[u] = "add" PROVE FALSE OBVIOUS
<1>1. op[u] = "wait_async" BY OpAt
<1>2. portOpen BY <1>1 DEF IInv, Control, Thread
<1>3. op[t] # "close_port" BY <1>2 DEF IInv, Closing
<1>4. "wait_async" \in Prog[u] /\ "cancel_key" \in Prog[t] BY <1>1, <1>3 DEF SafeInv, Programs
<1>5. u = t BY <1>4 DEF Serialized
<1> QED BY <1>1, <1>5

\* The steps that take packets off the queue.
LEMMA PacketsSafe ==
  ASSUME IInv, SafeInv, NEW t \in Threads, CancelQueued(t) \/ Dequeue(t) \/ ZeroPackets(t)
  PROVE  SafeInv'
<1>1. ThreadTypes BY DEF IInv, Types
<1>2. CASE CancelQueued(t)
  <2>1. Moving(t) /\ pc'[t] = "idle" BY <1>1, <1>2, ThreadSteps DEF CancelQueued
  <2>2. UNCHANGED <<dobs, observers>> BY <1>2 DEF CancelQueued, dispVars
  <2>3. \A o \in Observers : life'[o] = "destroyed" => life[o] = "destroyed" \/ o \in owned
    BY <1>2 DEF CancelQueued, Destroy, Freed
  <2>4. Harmless(t) BY <2>1, <2>2, <2>3 DEF Harmless, Use
  <2> QED BY <2>4, HarmlessSafe
<1>3. CASE Dequeue(t)
  <2>1. Return(t) \/ (Goto(t, "dequeue") /\ UNCHANGED <<op, cur>>) BY <1>3 DEF Dequeue
  <2>2. Moving(t) /\ pc'[t] \in {"idle", "dequeue"} BY <1>1, <2>1, ThreadSteps
  <2>3. UNCHANGED <<dobs, observers>> BY <1>3 DEF Dequeue, dispVars
  <2>4. \A o \in Observers : life'[o] = "destroyed" => life[o] = "destroyed" \/ o \in owned
    BY <1>3 DEF Dequeue, Destroy
  <2>5. Harmless(t) BY <2>2, <2>3, <2>4 DEF Harmless, Use
  <2> QED BY <2>5, HarmlessSafe
<1>4. CASE ZeroPackets(t)
  <2>1. UNCHANGED <<dobs, observers, pc, op, cur>> /\ pc[t] = "zero"
    BY <1>4 DEF ZeroPackets, dispVars, threadVars
  <2>2. Moving(t) BY <2>1 DEF Moving
  <2>3. \A o \in Observers : life'[o] = "destroyed" => life[o] = "destroyed" \/ o \in owned
    BY <1>4 DEF ZeroPackets, Destroy
  <2>4. Harmless(t) BY <2>1, <2>2, <2>3 DEF Harmless, Use
  <2> QED BY <2>4, HarmlessSafe
<1> QED BY <1>2, <1>3, <1>4

\* Unlink moves its thread only.
LEMMA UnlinkMoves ==
  ASSUME ThreadTypes, NEW t \in Threads, NEW o, Unlink(t, o), op' = op
  PROVE  Moving(t) /\ pc'[t] = "remove"
BY DEF ThreadTypes, Unlink, Goto, Moving

\* ZeroObserver moves its thread only.
LEMMA ZeroObserverMoves ==
  ASSUME ThreadTypes, NEW t \in Threads, ZeroObserver(t)
  PROVE  Moving(t) /\ pc'[t] \in {"idle", "remove"}
<1>1. CASE observers = {}
  <2>1. Return(t) BY <1>1 DEF ZeroObserver
  <2> QED BY <2>1, ThreadSteps
<1>2. CASE observers # {}
  <2>1. (\E o \in observers : Unlink(t, o)) /\ op' = op BY <1>2 DEF ZeroObserver
  <2> QED BY <2>1, UnlinkMoves
<1> QED BY <1>1, <1>2

\* CancelKey and on_zero_handles empty the list of observers.
LEMMA ListsSafe ==
  ASSUME IInv, SafeInv, Serialized, NEW t \in Threads,
         CancelKey(t) \/ CancelKeyNext(t) \/ ZeroLastPackets(t) \/ ZeroNext(t)
  PROVE  SafeInv'
<1>1. ThreadTypes BY DEF IInv, Types
<1>2. \A u \in Threads : pc[u] # "add"
  <2>1. op[t] \in {"close_port", "cancel_key"}
    BY OpAt DEF CancelKey, CancelKeyNext, ZeroLastPackets, ZeroNext
  <2> QED BY <2>1, NoneAdding
<1>3. CASE CancelKey(t)
  <2>1. Return(t) \/ ((\E o \in observers : Unlink(t, o)) /\ op' = op) BY <1>3 DEF CancelKey
  <2>2. Moving(t) /\ pc'[t] \in {"idle", "remove"} BY <1>1, <2>1, ThreadSteps, UnlinkMoves
  <2>3. dobs' = dobs BY <1>3 DEF CancelKey, dispVars
  <2>4. \A o \in Observers : life'[o] = "destroyed" => life[o] = "destroyed" \/ o \in owned
    BY <1>3 DEF CancelKey, Destroy, Freed
  <2>5. Harmless(t) BY <1>2, <2>2, <2>3, <2>4 DEF Harmless, Use
  <2> QED BY <2>5, HarmlessSafe
<1>4. CASE CancelKeyNext(t)
  <2>1. Return(t) \/ ((\E o \in temp[t] : Unlink(t, o)) /\ op' = op) BY <1>4 DEF CancelKeyNext
  <2>2. Moving(t) /\ pc'[t] \in {"idle", "remove"} BY <1>1, <2>1, ThreadSteps, UnlinkMoves
  <2>3. dobs' = dobs /\ pc[t] = "removed" BY <1>4 DEF CancelKeyNext, dispVars
  <2>4. \A o \in Observers : life'[o] = "destroyed" => life[o] = "destroyed" \/ cur[t] = o
    BY <1>4 DEF CancelKeyNext, Destroy
  <2>5. Harmless(t) BY <1>2, <2>2, <2>3, <2>4 DEF Harmless, Use
  <2> QED BY <2>5, HarmlessSafe
<1>5. CASE ZeroLastPackets(t)
  <2>1. Moving(t) /\ pc'[t] \in {"idle", "remove"} BY <1>1, <1>5, ZeroObserverMoves DEF ZeroLastPackets
  <2>2. dobs' = dobs BY <1>5 DEF ZeroLastPackets, dispVars
  <2>3. \A o \in Observers : life'[o] = "destroyed" => life[o] = "destroyed" \/ o \in owned
    BY <1>5 DEF ZeroLastPackets, Destroy
  <2>4. Harmless(t) BY <1>2, <2>1, <2>2, <2>3 DEF Harmless, Use
  <2> QED BY <2>4, HarmlessSafe
<1>6. CASE ZeroNext(t)
  <2>1. Moving(t) /\ pc'[t] \in {"idle", "remove"} BY <1>1, <1>6, ZeroObserverMoves DEF ZeroNext
  <2>2. dobs' = dobs /\ pc[t] = "removed" BY <1>6 DEF ZeroNext, dispVars
  <2>3. \A o \in Observers : life'[o] = "destroyed" => life[o] = "destroyed" \/ cur[t] = o
    BY <1>6 DEF ZeroNext, Destroy
  <2>4. Harmless(t) BY <1>2, <2>1, <2>2, <2>3 DEF Harmless, Use
  <2> QED BY <2>4, HarmlessSafe
<1> QED BY <1>3, <1>4, <1>5, <1>6
-----------------------------------------------------------------------------
\* A new observer is in the list of the port.
LEMMA MakeObserverSafe ==
  ASSUME IInv, SafeInv, NEW t \in Threads, NEW x \in Observers, NEW b \in Objects, NEW k \in Keys,
         NEW e \in BOOLEAN,
         MakeObserver(t, x, b, k, e)
  PROVE  SafeInv'
<1>1. ThreadTypes /\ ObserverTypes BY DEF IInv, Types
<1>2. /\ life[x] = "none" /\ observers' = observers \cup {x} /\ dobs' = dobs /\ "wait_async" \in Prog[t]
      /\ life' = [life EXCEPT ![x] = "live"]
      /\ op' = [op EXCEPT ![t] = "wait_async"] /\ cur' = [cur EXCEPT ![t] = x]
      /\ pc' = [pc EXCEPT ![t] = "add"]
  BY DEF MakeObserver, Goto, dispVars
<1>3. Moving(t) /\ pc'[t] = "add" /\ cur'[t] = x BY <1>1, <1>2 DEF Moving, ThreadTypes
<1>4. \A o \in Observers : life'[o] = IF o = x THEN "live" ELSE life[o] BY <1>1, <1>2 DEF ObserverTypes
<1>5. Unmade(x) BY DEF IInv, Observing, Placed
<1>6. \A u \in Threads : cur[u] # x BY <1>2, <1>5 DEF Unmade
<1>7. ASSUME NEW o \in Observers PROVE Safe(o)'
  <2>1. \A u \in Threads : Adds(u, o)' => o \in observers' \/ (Adds(u, o) /\ (o \in observers => o \in observers'))
    BY <1>2, <1>3 DEF Adds, Moving
  <2>2. CASE o = x
    <3>1. ~Dead(o)' BY <1>3, <1>4, <1>6, <2>2 DEF Dead, Moving
    <3>2. ~Dead(o) BY <1>2, <1>6, <2>2 DEF Dead
    <3> QED BY <2>1, <3>1, <3>2, SafeStep
  <2>3. CASE o # x
    <3>1. Dead(o)' => Dead(o) BY <1>3, <1>4, <2>3 DEF Dead, Moving
    <3>2. \A u \in Threads : Uses(u, o)' => Uses(u, o) BY <1>3, <2>3 DEF Uses, Moving
    <3>3. Seen(o)' => Seen(o) BY <1>2, <3>2 DEF Seen
    <3> QED BY <2>1, <3>1, <3>3, SafeStep
  <2> QED BY <2>2, <2>3
<1>8. Programs' BY <1>3, MovingPrograms
<1> QED BY <1>7, <1>8 DEF SafeInv

\* The observer that is handed to the object is not being destroyed.
LEMMA AddObserverSafe == ASSUME IInv, SafeInv, NEW t \in Threads, AddObserver(t) PROVE SafeInv'
<1>1. ThreadTypes /\ ObjectTypes BY DEF IInv, Types
<1>2. pc[t] = "add" /\ UNCHANGED <<life, observers>> BY DEF AddObserver, obsVars, portVars
<1>3. PICK b \in Objects : b = obj[t] BY <1>2, InHand DEF Use
<1>4. PICK x \in Observers : x = cur[t] /\ Uses(t, x) BY <1>2, InHand DEF Use
<1>5. CASE dobs' = dobs /\ Goto(t, "match") /\ UNCHANGED <<op, cur>>
  <2>1. pc[t] \in Use BY <1>2 DEF Use
  <2> QED BY <1>2, <1>5, <2>1, GoesOnSafe
<1>6. CASE dobs' = [dobs EXCEPT ![b] = dobs[b] \cup {x}] /\ Return(t)
  <2>1. Moving(t) /\ pc'[t] = "idle" BY <1>1, <1>6, ThreadSteps
  <2>2. ASSUME NEW o \in Observers PROVE Safe(o)'
    <3>1. \A u \in Threads : Adds(u, o)' => Adds(u, o) /\ (o \in observers => o \in observers')
      BY <1>2, <2>1 DEF Adds, Moving
    <3>2. Dead(o)' => Dead(o) BY <1>2, <2>1 DEF Dead, Moving
    <3>3. \A u \in Threads : Uses(u, o)' => Uses(u, o) BY <2>1 DEF Uses, Moving, Use
    <3>4. \A c \in Objects : o \in dobs'[c] => o \in dobs[c] \/ o = x BY <1>1, <1>6 DEF ObjectTypes
    <3>5. Seen(o)' => Seen(o) BY <1>4, <3>3, <3>4 DEF Seen
    <3> QED BY <3>1, <3>2, <3>5, SafeStep
  <2>3. Programs' BY <2>1, MovingPrograms
  <2> QED BY <2>2, <2>3 DEF SafeInv
<1> QED BY <1>3, <1>4, <1>5, <1>6 DEF AddObserver

\* The thread that reaps an observer is the only one that has it.
LEMMA MaybeReapSafe == ASSUME IInv, SafeInv, NEW t \in Threads, MaybeReap(t) PROVE SafeInv'
<1>1. ThreadTypes /\ ObserverTypes BY DEF IInv, Types
<1>2. pc[t] = "reap" /\ dobs' = dobs BY DEF MaybeReap
<1>3. PICK x \in Observers : x = cur[t] /\ Uses(t, x) BY <1>2, InHand DEF Use
<1>4. /\ observers \ {x} \subseteq observers'
      /\ \A o \in Observers : o # x => (life'[o] = "destroyed" => life[o] = "destroyed")
  BY <1>3 DEF MaybeReap, Destroy
<1>5. Moving(t) /\ pc'[t] \in {"idle", "loop"} BY <1>1 DEF MaybeReap, Goto, Moving, ThreadTypes
<1>6. (\A b \in Objects : x \notin dobs[b]) /\ \A u \in Threads : Uses(u, x) => u = t BY <1>3, UsedBy
<1>7. ASSUME NEW o \in Observers PROVE Safe(o)'
  <2>1. \A u \in Threads : Uses(u, o)' => Uses(u, o) /\ u # t BY <1>5 DEF Uses, Moving, Use
  <2>2. \A u \in Threads : Adds(u, o)' => Adds(u, o) /\ Uses(u, o) /\ u # t
    BY <1>5 DEF Uses, Moving, Use, Adds
  <2>3. CASE o = x
    <3>1. \A u \in Threads : ~Adds(u, o)' BY <1>6, <2>2, <2>3
    <3>2. \A b \in Objects : x \notin dobs'[b] BY <1>2, <1>6
    <3>3. ~Seen(o)' BY <1>6, <2>1, <2>3, <3>2 DEF Seen
    <3> QED BY <3>1, <3>3, SafeStep
  <2>4. CASE o # x
    <3>1. o \in observers => o \in observers' BY <1>4, <2>4
    <3>2. Dead(o)' => Dead(o) BY <1>4, <1>5, <2>4 DEF Dead, Moving
    <3>3. Seen(o)' => Seen(o) BY <1>2, <2>1 DEF Seen
    <3> QED BY <2>2, <3>1, <3>2, <3>3, SafeStep
  <2> QED BY <2>3, <2>4
<1>8. Programs' BY <1>5, MovingPrograms
<1> QED BY <1>7, <1>8 DEF SafeInv

\* The observer that is visited was in the list of its object.
LEMMA VisitSafe ==
  ASSUME IInv, SafeInv, NEW t \in Threads, NEW x \in Observers, Visit(t, x)
  PROVE  SafeInv'
<1>1. ThreadTypes /\ ObjectTypes BY DEF IInv, Types
<1>2. /\ pc[t] = "loop" /\ x \in dobs[obj[t]] /\ UNCHANGED <<life, observers, op>>
  BY DEF Visit, Visits, portVars, obsVars
<1>3. PICK b \in Objects : b = obj[t] BY <1>2, InHand DEF Hold
<1>4. dobs' = [dobs EXCEPT ![b] = dobs[b] \ {x}] /\ cur' = [cur EXCEPT ![t] = x] BY <1>3 DEF Visit
<1>5. PICK l \in {"match", "reap"} : Goto(t, l) BY DEF Visit
<1>6. Moving(t) /\ pc'[t] = l /\ cur'[t] = x BY <1>1, <1>2, <1>4, <1>5 DEF Moving, Goto, ThreadTypes
<1>7. ASSUME NEW o \in Observers PROVE Safe(o)'
  <2>1. \A u \in Threads : Adds(u, o)' => Adds(u, o) BY <1>6 DEF Adds, Moving
  <2>2. Dead(o)' => Dead(o) BY <1>2, <1>6 DEF Dead, Moving
  <2>3. \A c \in Objects : o \in dobs'[c] => o \in dobs[c] BY <1>1, <1>4 DEF ObjectTypes
  <2>4. \A u \in Threads : Uses(u, o)' => Uses(u, o) \/ o = x BY <1>6 DEF Uses, Moving
  <2>5. Seen(x) BY <1>2, <1>3 DEF Seen
  <2>6. Seen(o)' => Seen(o) BY <2>3, <2>4, <2>5 DEF Seen
  <2> QED BY <1>2, <2>1, <2>2, <2>6, SafeStep
<1>8. Programs' BY <1>6, MovingPrograms
<1> QED BY <1>7, <1>8 DEF SafeInv

\* With the lock of the object free, nobody uses the observer that is removed.
LEMMA RemoveObserverSafe == ASSUME IInv, SafeInv, NEW t \in Threads, RemoveObserver(t) PROVE SafeInv'
<1>1. ThreadTypes /\ ObjectTypes BY DEF IInv, Types
<1>2. pc[t] = "remove" /\ dlock[obj[t]] = Null /\ UNCHANGED <<life, observers, op, cur>>
      /\ Goto(t, "removed")
  BY DEF RemoveObserver, portVars, obsVars
<1>3. PICK x \in Observers : x = cur[t] /\ Drops(t, x) /\ obj[t] = oobj[x] /\ obj[t] \in Objects
  BY <1>2, InHand DEF Drop
<1>4. PICK b \in Objects : b = obj[t] /\ b = oobj[x] BY <1>3
<1>5. dobs' = [dobs EXCEPT ![b] = dobs[b] \ {x}] BY <1>3, <1>4 DEF RemoveObserver
<1>6. Moving(t) /\ pc'[t] = "removed" /\ cur'[t] = x BY <1>1, <1>2, <1>3, ThreadSteps
<1>7. \A o \in Observers, c \in Objects : o \in dobs'[c] => o \in dobs[c] /\ (o # x \/ c # b)
  BY <1>1, <1>5 DEF ObjectTypes
<1>8. \A u \in Threads : ~Uses(u, x)
  <2> SUFFICES ASSUME NEW u \in Threads, Uses(u, x) PROVE FALSE OBVIOUS
  <2>1. obj[u] = b /\ pc[u] \in Use BY <1>4, InHand DEF Uses
  <2>2. pc[u] \in Hold => dlock[b] = u BY <2>1 DEF IInv, Locks
  <2>3. pc[u] = "add" BY <1>2, <1>4, <2>1, <2>2, PortAssumption DEF Use, Hold
  <2>4. Safe(x) /\ Owned(x) BY DEF SafeInv, IInv, Observing, Placed
  <2>5. x \in observers BY <2>3, <2>4 DEF Safe, Uses
  <2> QED BY <1>3, <2>4, <2>5 DEF Owned
<1>9. ASSUME NEW o \in Observers PROVE Safe(o)'
  <2>1. \A u \in Threads : Adds(u, o)' => Adds(u, o) BY <1>6 DEF Adds, Moving
  <2>2. \A u \in Threads : Uses(u, o)' => Uses(u, o) BY <1>2, <1>6 DEF Uses, Moving, Use
  <2>3. Seen(o)' => Seen(o) BY <1>7, <2>2 DEF Seen
  <2>4. Dead(o)' => Dead(o) \/ o = x BY <1>2, <1>6 DEF Dead, Moving
  <2>5. ~Seen(x)'
    <3>1. Course(x) BY DEF IInv, Observing, Placed
    <3>2. \A c \in Objects : x \notin dobs'[c] BY <1>4, <1>7, <3>1 DEF Course
    <3>3. \A u \in Threads : ~Uses(u, x)' BY <1>2, <1>6, <1>8 DEF Uses, Moving, Use
    <3> QED BY <3>2, <3>3 DEF Seen
  <2>6. Dead(o)' => Dead(o) \/ ~Seen(o)' BY <2>4, <2>5
  <2> QED BY <1>2, <2>1, <2>3, <2>6, SafeStep
<1>10. Programs' BY <1>6, MovingPrograms
<1> QED BY <1>9, <1>10 DEF SafeInv
-----------------------------------------------------------------------------
\* Every step of a serialized program keeps the observers safe.
LEMMA SafeNext == ASSUME Serialized, IInv, SafeInv, [Next]_vars PROVE SafeInv'
<1>1. CASE UNCHANGED vars BY <1>1, SameSafe DEF vars, portVars, obsVars, dispVars, threadVars
<1>2. ASSUME NEW t \in Threads, UserStep(t) PROVE SafeInv'
  <2>1. ASSUME NEW b \in Objects, ClearSignal(t, b) PROVE SafeInv'
    BY <2>1, SameSafe DEF ClearSignal, portVars, obsVars, threadVars
  <2>2. CASE ResumeException(t) BY <2>2, SameSafe DEF ResumeException, portVars, obsVars, dispVars
  <2> QED BY <1>2, <2>1, <2>2, StartsSafe, MakeObserverSafe DEF UserStep
<1>3. ASSUME NEW t \in Threads, KernelStep(t) PROVE SafeInv'
  <2>1. CASE AddObserver(t) \/ MaybeReap(t) \/ RemoveObserver(t)
    BY <2>1, AddObserverSafe, MaybeReapSafe, RemoveObserverSafe
  <2>2. CASE QueueObserver(t) \/ Post(t) \/ CancelBegin(t) \/ Acquire(t) \/ LoopEnds(t) \/ QueueUser(t) \/ DequeueIrq(t)
    BY <2>2, QueueingSafe
  <2>3. CASE \E o \in Observers : Visit(t, o) BY <2>3, VisitSafe
  <2>4. CASE CancelKey(t) \/ CancelKeyNext(t) \/ ZeroLastPackets(t) \/ ZeroNext(t) BY <2>4, ListsSafe
  <2>5. CASE CancelQueued(t) \/ Dequeue(t) \/ ZeroPackets(t) BY <2>5, PacketsSafe
  <2> QED BY <1>3, <2>1, <2>2, <2>3, <2>4, <2>5 DEF KernelStep
<1>4. ASSUME NEW t \in Threads, DequeueWait(t) \/ DequeueTimesOut(t)
      PROVE  SafeInv' BY <1>4, QueueingSafe
<1>5. ASSUME NEW i \in IrqPackets, QueueInterruptPacket(i) \/ RemoveInterruptPacket(i) PROVE SafeInv'
  BY <1>5, SameSafe DEF QueueInterruptPacket, RemoveInterruptPacket, obsVars, dispVars, threadVars
<1>6. CASE PostInterrupt BY <1>6, SameSafe DEF PostInterrupt, obsVars, dispVars, threadVars
<1> QED BY <1>1, <1>2, <1>3, <1>4, <1>5, <1>6 DEF Next

\* A serialized program keeps the observers safe.
LEMMA SafeInvariance == ASSUME Serialized PROVE Spec => [](IInv /\ SafeInv)
<1>1. Init => SafeInv
  <2> SUFFICES ASSUME Init PROVE SafeInv OBVIOUS
  <2>1. Programs BY DEF Init, Programs
  <2>2. \A t \in Threads : pc[t] = "idle" BY DEF Init
  <2>3. \A o \in Observers : life[o] = "none" BY DEF Init
  <2> QED BY <2>1, <2>2, <2>3 DEF SafeInv, Safe
<1>2. SafeInv /\ IInv /\ [Next]_vars => SafeInv' BY SafeNext
<1> QED BY <1>1, <1>2, InitInv, NextInv, PTL DEF Spec

\* An observer is used only while it lives: no packet, object or thread has
\* one that was destroyed, it has one owner and its weak pointer is valid.
THEOREM Lifetime == ASSUME Serialized PROVE Spec => []ObserversSafe
<1>1. IInv /\ SafeInv => NoDangling
  <2> SUFFICES ASSUME IInv, SafeInv, NEW o \in Observers, life[o] # "live"
               PROVE  /\ ~InQueue(o) /\ \A b \in Objects : o \notin dobs[b]
                      /\ \A t \in Threads : ~Uses(t, o)
    BY DEF NoDangling, Uses, Use
  <2>1. Unmade(o) /\ Owned(o) /\ Safe(o) BY DEF IInv, SafeInv, Observing, Placed
  <2>2. life[o] \in {"none", "destroyed"} BY DEF IInv, Types, ObserverTypes
  <2>3. CASE life[o] = "none" BY <2>1, <2>3 DEF Unmade, Uses
  <2>4. CASE life[o] = "destroyed" BY <2>1, <2>4 DEF Owned, Safe
  <2> QED BY <2>2, <2>3, <2>4
<1>2. IInv /\ SafeInv => ObserversSafe BY <1>1, Owner, Weak DEF ObserversSafe
<1> QED BY <1>2, SafeInvariance, PTL

\* on_zero_handles lets go of every observer, and no object keeps one.
THEOREM Reclaiming == ASSUME Serialized PROVE Spec => []CloseReclaims
<1>1. IInv /\ SafeInv => CloseReclaims
  <2> SUFFICES ASSUME IInv, SafeInv, ~portOpen, \A t \in Threads : pc[t] = "idle"
               PROVE  /\ packets = <<>> /\ (\A o \in Observers : life[o] # "live")
                      /\ \A b \in Objects : dobs[b] = {}
    BY DEF CloseReclaims
  <2>1. \A t \in Threads : op[t] = "none" /\ cur[t] = Null /\ temp[t] = {} BY Idle
  <2>2. packets = <<>> /\ observers = {} BY <2>1 DEF IInv, Closing
  <2>3. \A o \in Observers : ~InQueue(o) BY <2>2, EmptySeq DEF InQueue, Has
  <2>4. ASSUME NEW o \in Observers PROVE life[o] # "live" /\ \A b \in Objects : o \notin dobs[b]
    <3>1. Owned(o) /\ Unmade(o) /\ Safe(o) BY DEF IInv, SafeInv, Observing, Placed
    <3>2. o # Null BY PortAssumption
    <3>3. life[o] # "live" BY <2>1, <2>2, <2>3, <3>1, <3>2 DEF Owned, Drops
    <3>4. life[o] \in {"none", "destroyed"} BY <3>3 DEF IInv, Types, ObserverTypes
    <3> QED BY <3>1, <3>3, <3>4 DEF Unmade, Safe
  <2>5. \A b \in Objects : dobs[b] \subseteq Observers BY DEF IInv, Types, ObjectTypes
  <2> QED BY <2>2, <2>4, <2>5
<1> QED BY <1>1, SafeInvariance, PTL
=============================================================================
