---------------------------- MODULE RwLockProofs ----------------------------
(***************************************************************************)
(* For any finite set of threads, in both builds of gl_rwlock_t: runcount  *)
(* is true, no wake-up is lost, and the lock is the one of ReadWriteLock.  *)
(* Inv is the inductive invariant.  Its parts: types (TypeOK), the lock is *)
(* initialised once and before anybody is in (StartOK), what waits where   *)
(* (PthreadOK, Win32OK), and the two properties themselves.                *)
(***************************************************************************)
EXTENDS RwLock, FiniteSetTheorems, SequenceTheorems, TLAPS

Slot == Threads \cup {"none"}
Arrays == Seq(Slot)

\* A ring: an array of alloc places, count of which are used from offset on.
Ring(q) ==
  /\ q = [array |-> q.array, count |-> q.count, alloc |-> q.alloc, offset |-> q.offset]
  /\ q.array \in Arrays /\ q.count \in Nat /\ q.alloc \in Nat /\ q.offset \in Nat
  /\ Len(q.array) = q.alloc /\ q.count <= q.alloc
  /\ q.offset < q.alloc \/ q.offset = 0
-----------------------------------------------------------------------------
(* What the operations on the ring do to the queue that it stands for. *)

\* A place that is used is a place of the array.
LEMMA IndexType ==
  ASSUME NEW q, Ring(q), NEW k \in Nat, k < q.alloc
  PROVE  Index(q, k) \in 1..q.alloc
BY DEF Ring, Index

\* Two of them are two places.
LEMMA IndexInjective ==
  ASSUME NEW q, Ring(q), NEW k \in Nat, k < q.alloc, NEW l \in Nat, l < q.alloc,
         Index(q, k) = Index(q, l)
  PROVE  k = l
BY DEF Ring, Index

\* The queue is a sequence of as many as are counted.
LEMMA QueuedType ==
  ASSUME NEW q, Ring(q)
  PROVE  /\ Queued(q) \in Arrays /\ Len(Queued(q)) = q.count
         /\ DOMAIN Queued(q) = 1..q.count
         /\ \A i \in 1..q.count : Queued(q)[i] = q.array[Index(q, i - 1)]
<1>1. ASSUME NEW i \in 1..q.count
      PROVE  q.array[Index(q, i - 1)] \in Slot
  <2>1. Index(q, i - 1) \in 1..Len(q.array)
    BY IndexType DEF Ring
  <2> QED
    BY <2>1, ElementOfSeq DEF Ring, Arrays
<1>2. Queued(q) \in [1..q.count -> Slot]
  BY <1>1 DEF Queued
<1>3. q.count \in Nat
  BY DEF Ring
<1>4. Queued(q) \in Seq(Slot) /\ Len(Queued(q)) = q.count
  BY <1>2, <1>3, SeqDef, LenProperties
<1> QED
  BY <1>2, <1>4 DEF Arrays, Queued

\* Two rings stand for one queue if their used places hold the same.
LEMMA SameQueue ==
  ASSUME NEW q, Ring(q), NEW p, Ring(p), p.count = q.count,
         \A i \in 1..q.count : p.array[Index(p, i - 1)] = q.array[Index(q, i - 1)]
  PROVE  Queued(p) = Queued(q)
BY QueuedType, SeqEqual DEF Arrays

\* An array that is as long as it should be, of threads and free places.
LEMMA ArrayType ==
  ASSUME NEW n \in Nat, NEW f \in [1..n -> Slot]
  PROVE  f \in Arrays /\ Len(f) = n
BY SeqDef, LenProperties DEF Arrays

\* The array grows and keeps the queue, wherever the queue began in it.
LEMMA GrownKeeps ==
  ASSUME NEW q, Ring(q), q.count = q.alloc
  PROVE  /\ Ring(Grown(q)) /\ Grown(q).count = q.count /\ Grown(q).count < Grown(q).alloc
         /\ Queued(Grown(q)) = Queued(q)
<1> DEFINE size == 2 * q.alloc + 1
           wrapped == q.offset + q.count - q.alloc
           long == [i \in 1..size |-> IF i <= q.alloc THEN q.array[i]
                                      ELSE IF i - q.alloc <= wrapped THEN q.array[i - q.alloc]
                                      ELSE "none"]
           moved == [i \in 1..size |-> IF i <= q.count THEN long[q.offset + i] ELSE long[i]]
           g == Grown(q)
<1>1. /\ q.count \in Nat /\ q.alloc \in Nat /\ q.offset \in Nat
      /\ q.offset < q.alloc \/ q.offset = 0
      /\ q.array \in Arrays /\ Len(q.array) = q.alloc
  BY DEF Ring
<1>2. \A i \in 1..q.alloc : q.array[i] \in Slot
  BY <1>1, ElementOfSeq DEF Arrays
<1>3. g = [array |-> moved, count |-> q.count, alloc |-> size, offset |-> 0]
  BY DEF Grown
<1>4. \A i \in 1..size : long[i] \in Slot
  BY <1>1, <1>2 DEF Slot
<1>5. \A i \in 1..q.count : q.offset + i \in 1..size
  BY <1>1
<1> HIDE DEF long
<1>6. moved \in [1..size -> Slot]
  BY <1>4, <1>5
<1>7. \A i \in 1..q.count : moved[i] = long[q.offset + i]
  BY <1>1
<1> HIDE DEF moved, size
<1>8. size = 2 * q.alloc + 1 /\ size \in Nat
  BY <1>1 DEF size
<1>9. moved \in Arrays /\ Len(moved) = size
  BY <1>6, <1>8, ArrayType
<1>10. Ring(g) /\ g.count = q.count /\ g.alloc = size /\ g.offset = 0 /\ g.array = moved
  BY <1>1, <1>3, <1>8, <1>9 DEF Ring
<1> HIDE DEF g
<1>11. ASSUME NEW i \in 1..q.count
       PROVE  g.array[Index(g, i - 1)] = q.array[Index(q, i - 1)]
  <2>1. Index(g, i - 1) = i
    BY <1>1, <1>8, <1>10 DEF Index
  <2>2. long[q.offset + i] = q.array[Index(q, i - 1)]
    <3>1. CASE q.offset + i <= q.alloc
      <4>1. Index(q, i - 1) = q.offset + i
        BY <1>1, <3>1 DEF Index
      <4> QED
        BY <1>1, <3>1, <4>1 DEF long, size
    <3>2. CASE q.offset + i > q.alloc
      <4>1. Index(q, i - 1) = q.offset + i - q.alloc
        BY <1>1, <3>2 DEF Index
      <4>2. /\ q.offset + i \in 1..size /\ ~(q.offset + i <= q.alloc)
            /\ (q.offset + i) - q.alloc <= wrapped /\ (q.offset + i) - q.alloc = q.offset + i - q.alloc
        BY <1>1, <1>5, <3>2, SMTT(30) DEF size
      <4>3. long[q.offset + i] = q.array[(q.offset + i) - q.alloc]
        BY <4>2 DEF long
      <4> QED
        BY <4>1, <4>2, <4>3
    <3> QED
      BY <1>1, <3>1, <3>2
  <2> QED
    BY <1>7, <1>10, <2>1, <2>2
<1>12. Queued(g) = Queued(q)
  BY <1>10, <1>11, SameQueue
<1> QED
  BY <1>1, <1>8, <1>10, <1>12 DEF g

LEMMA RoomyKeeps ==
  ASSUME NEW q, Ring(q)
  PROVE  /\ Ring(Roomy(q)) /\ Roomy(q).count = q.count /\ Roomy(q).count < Roomy(q).alloc
         /\ Queued(Roomy(q)) = Queued(q)
<1>1. CASE q.count = q.alloc
  BY <1>1, GrownKeeps DEF Roomy
<1>2. CASE q.count # q.alloc
  BY <1>2 DEF Roomy, Ring
<1> QED
  BY <1>1, <1>2

\* gl_waitqueue_add: a thread more, behind all others.
LEMMA AddedAppends ==
  ASSUME NEW q, Ring(q), NEW t \in Threads
  PROVE  Ring(Added(q, t)) /\ Queued(Added(q, t)) = Append(Queued(q), t)
<1> DEFINE g == Roomy(q)
           p == Added(q, t)
<1>1. Ring(g) /\ g.count = q.count /\ g.count < g.alloc /\ Queued(g) = Queued(q)
  BY RoomyKeeps
<1>2. p = [g EXCEPT !.array[Index(g, g.count)] = t, !.count = @ + 1]
  BY DEF Added
<1> HIDE DEF g
<1> DEFINE n == g.count
           k == Index(g, n)
<1>3. /\ g = [array |-> g.array, count |-> n, alloc |-> g.alloc, offset |-> g.offset]
      /\ n \in Nat /\ g.alloc \in Nat /\ g.offset \in Nat
      /\ g.offset < g.alloc \/ g.offset = 0
      /\ g.array \in Arrays /\ Len(g.array) = g.alloc
  BY <1>1 DEF Ring
<1>4. k \in 1..g.alloc
  BY <1>1, <1>3, IndexType
<1>5. p = [array |-> [g.array EXCEPT ![k] = t], count |-> n + 1, alloc |-> g.alloc,
           offset |-> g.offset]
  BY <1>2, <1>3
<1>6. [g.array EXCEPT ![k] = t] \in Arrays /\ Len([g.array EXCEPT ![k] = t]) = g.alloc
  BY <1>3, <1>4, ExceptSeq DEF Arrays, Slot
<1> HIDE DEF p, k
<1>7. Ring(p)
  BY <1>1, <1>3, <1>5, <1>6 DEF Ring
<1>8. ASSUME NEW i \in 1..n
      PROVE  Queued(p)[i] = Queued(g)[i]
  <2>1. Index(p, i - 1) = Index(g, i - 1)
    BY <1>5 DEF Index
  <2>2. Index(g, i - 1) # k /\ Index(g, i - 1) \in 1..Len(g.array)
    BY <1>1, <1>3, IndexInjective, IndexType DEF k
  <2>3. p.array[Index(g, i - 1)] = g.array[Index(g, i - 1)]
    BY <1>3, <1>5, <2>2 DEF Arrays
  <2>4. i \in 1..p.count
    BY <1>3, <1>5
  <2>5. Queued(p)[i] = p.array[Index(p, i - 1)] /\ Queued(g)[i] = g.array[Index(g, i - 1)]
    BY <1>1, <1>7, <2>4, QueuedType
  <2> QED
    BY <2>1, <2>3, <2>5
<1>9. Queued(p)[n + 1] = t
  <2>1. p.count = n + 1 /\ n + 1 \in 1..p.count /\ (n + 1) - 1 = n
    BY <1>3, <1>5
  <2>2. p.offset = g.offset /\ p.alloc = g.alloc
    BY <1>5
  <2>3. Index(p, n) = Index(g, n)
    BY <2>2 DEF Index
  <2>4. Index(p, n) = k
    BY <2>3 DEF k
  <2>5. p.array[k] = t
    BY <1>3, <1>4, <1>5 DEF Arrays
  <2>6. Queued(p)[n + 1] = p.array[Index(p, (n + 1) - 1)]
    BY <1>7, <2>1, QueuedType
  <2> QED
    BY <2>1, <2>4, <2>5, <2>6
<1>10. Queued(p) \in Arrays /\ Len(Queued(p)) = n + 1
  BY <1>5, <1>7, QueuedType
<1>11. Queued(g) \in Arrays /\ Len(Queued(g)) = n
  BY <1>1, QueuedType
<1>12. Queued(p) = Append(Queued(g), t)
  <2> DEFINE s == Queued(g)
             r == Queued(p)
  <2> HIDE DEF s, r
  <2>1. t \in Slot
    BY DEF Slot
  <2>2. /\ Append(s, t) \in Seq(Slot) /\ Len(Append(s, t)) = n + 1
        /\ \A i \in 1..n : Append(s, t)[i] = s[i]
        /\ Append(s, t)[n + 1] = t
    BY <1>11, <2>1, AppendProperties DEF Arrays, s
  <2>3. \A i \in 1..(n + 1) : r[i] = Append(s, t)[i]
    BY <1>3, <1>8, <1>9, <2>2 DEF r, s
  <2>4. r = Append(s, t)
    BY <1>10, <2>2, <2>3, SeqEqual DEF Arrays, r
  <2> QED
    BY <2>4 DEF r, s
<1> QED
  BY <1>1, <1>7, <1>12 DEF p

\* gl_waitqueue_notify_first: the first one leaves, the others keep their order.
LEMMA FirstOffTail ==
  ASSUME NEW q, Ring(q), q.count > 0
  PROVE  Ring(FirstOff(q)) /\ Queued(FirstOff(q)) = Tail(Queued(q)) /\ FirstOff(q).count = q.count - 1
<1> DEFINE p == FirstOff(q)
           off == IF q.count = 1 \/ q.offset + 1 = q.alloc THEN 0 ELSE q.offset + 1
<1>1. /\ q = [array |-> q.array, count |-> q.count, alloc |-> q.alloc, offset |-> q.offset]
      /\ q.array \in Arrays /\ q.count \in Nat /\ q.alloc \in Nat /\ q.offset \in Nat
      /\ Len(q.array) = q.alloc /\ q.count <= q.alloc
      /\ q.offset < q.alloc
  BY DEF Ring
<1>2. p = [array |-> q.array, count |-> q.count - 1, alloc |-> q.alloc, offset |-> off]
  <2>1. p = [q EXCEPT !.count = @ - 1, !.offset = off]
    BY DEF FirstOff
  <2> HIDE DEF off, p
  <2> QED
    BY <1>1, <2>1
<1>3. off \in Nat /\ off < q.alloc
  BY <1>1
<1>4. ASSUME NEW i \in 1..(q.count - 1)
      PROVE  Index(p, i - 1) = Index(q, i)
  BY <1>1, <1>2 DEF Index
<1> HIDE DEF p, off
<1>5. Ring(p)
  BY <1>1, <1>2, <1>3 DEF Ring
<1>6. /\ Queued(p) \in Seq(Slot) /\ Len(Queued(p)) = q.count - 1
      /\ \A i \in 1..(q.count - 1) : Queued(p)[i] = q.array[Index(p, i - 1)]
  BY <1>2, <1>5, QueuedType DEF Arrays
<1>7. /\ Queued(q) \in Seq(Slot) /\ Len(Queued(q)) = q.count
      /\ \A i \in 1..q.count : Queued(q)[i] = q.array[Index(q, i - 1)]
  BY QueuedType DEF Arrays
<1>8. /\ Tail(Queued(q)) \in Seq(Slot) /\ Len(Tail(Queued(q))) = q.count - 1
      /\ \A i \in 1..(q.count - 1) : Tail(Queued(q))[i] = Queued(q)[i + 1]
  <2>1. Queued(q) # <<>>
    BY <1>7
  <2> QED
    BY <1>1, <1>7, <2>1, HeadTailProperties
<1>9. \A i \in 1..(q.count - 1) : Queued(p)[i] = Tail(Queued(q))[i]
  <2> TAKE i \in 1..(q.count - 1)
  <2>1. i + 1 \in 1..q.count /\ (i + 1) - 1 = i
    BY <1>1
  <2> QED
    BY <1>4, <1>6, <1>7, <1>8, <2>1
<1>10. Queued(p) = Tail(Queued(q))
  BY <1>6, <1>8, <1>9, SeqEqual
<1> QED
  BY <1>1, <1>2, <1>5, <1>10 DEF p

\* gl_waitqueue_notify_all, and gl_waitqueue_init.
LEMMA EmptyRings ==
  /\ Ring(EmptyQueue) /\ Queued(EmptyQueue) = <<>>
  /\ \A q : Ring(q) => Ring(AllOff(q)) /\ AllOff(q).count = 0
  /\ \A q : Ring(q) /\ q.count = 0 => Queued(q) = <<>>
<1>1. Ring(EmptyQueue) /\ EmptyQueue.count = 0
  BY EmptySeq DEF Ring, EmptyQueue, Arrays
<1>2. ASSUME NEW q, Ring(q)
      PROVE  Ring(AllOff(q)) /\ AllOff(q).count = 0
  <2>1. q = [array |-> q.array, count |-> q.count, alloc |-> q.alloc, offset |-> q.offset]
    BY <1>2 DEF Ring
  <2>2. AllOff(q) = [q EXCEPT !.count = 0, !.offset = 0]
    BY DEF AllOff
  <2>3. AllOff(q) = [array |-> q.array, count |-> 0, alloc |-> q.alloc, offset |-> 0]
    BY <2>1, <2>2
  <2> QED
    BY <1>2, <2>3 DEF Ring
<1>3. ASSUME NEW q, Ring(q), q.count = 0
      PROVE  Queued(q) = <<>>
  BY <1>3, QueuedType, EmptySeq DEF Arrays
<1> QED
  BY <1>1, <1>2, <1>3
-----------------------------------------------------------------------------
(* The invariant. *)

PCs == {"out", "init", "spin", "enter", "wait", "poll", "in", "aborted", "gone"}

TypeOK ==
  /\ build \in {"pthread", "win32"}
  /\ pc \in [Threads -> PCs] /\ role \in [Threads -> {"read", "write"}]
  /\ awake \subseteq {t \in Threads : pc[t] = "wait"}
  /\ runcount \in Int /\ waitingWriters \in Int /\ started \in Int /\ done \in BOOLEAN
  /\ Ring(readers) /\ Ring(writers)

\* One thread initialises the lock, before any other comes in.
StartOK ==
  /\ ~done => /\ build = "win32" /\ runcount = 0
              /\ readers = EmptyQueue /\ writers = EmptyQueue
              /\ \A t \in Threads : pc[t] \in {"out", "init", "spin"}
  /\ started >= -1
  /\ \A t \in Threads : pc[t] = "init" => ~done /\ started >= 0
  /\ \A t, u \in Threads : pc[t] = "init" /\ pc[u] = "init" => t = u

PthreadOK == build = "pthread" => readers = EmptyQueue /\ writers = EmptyQueue

\* A queue is of those that sleep, each in one place.
Line(q, r) ==
  /\ Sleeping(r) = {Queued(q)[i] : i \in 1..q.count}
  /\ \A i, j \in 1..q.count : Queued(q)[i] = Queued(q)[j] => i = j

Win32OK ==
  build = "win32" => /\ Line(readers, "read") /\ Line(writers, "write")
                     /\ runcount = 0 => readers.count = 0 /\ writers.count = 0

Inv == TypeOK /\ StartOK /\ PthreadOK /\ Win32OK /\ RuncountIsTrue /\ NoWakeUpLost

\* A step of the lock is one of the lock it implements, or none.
LockStep == Lock!Next \/ UNCHANGED Lock!vars
-----------------------------------------------------------------------------
(* The count. *)

\* RuncountIsTrue of the readers R, the writers W and the count n.
Counts(R, W, n) ==
  /\ W # {} => n = -1 /\ Cardinality(W) = 1 /\ R = {}
  /\ W = {} => n = Cardinality(R)

LEMMA CountsHere == RuncountIsTrue <=> Counts(Holding("read"), Holding("write"), runcount)
BY DEF RuncountIsTrue, Counts

LEMMA Finite == \A S \in SUBSET Threads : IsFiniteSet(S) /\ Cardinality(S) \in Nat
BY LockOK, FS_Subset, FS_CardinalityType

\* Nobody holds the lock if and only if the count is 0.
LEMMA CountZero ==
  ASSUME NEW R \in SUBSET Threads, NEW W \in SUBSET Threads, NEW n \in Int, Counts(R, W, n)
  PROVE  /\ n = 0 <=> R = {} /\ W = {}
         /\ n < 0 <=> W # {}
BY Finite, FS_EmptySet DEF Counts

LEMMA ReaderComes ==
  ASSUME NEW R \in SUBSET Threads, NEW W \in SUBSET Threads, NEW n \in Int, Counts(R, W, n),
         n >= 0, NEW t \in Threads \ R
  PROVE  W = {} /\ Counts(R \cup {t}, W, n + 1)
<1>1. W = {} /\ n = Cardinality(R)
  BY DEF Counts
<1>2. Cardinality(R \cup {t}) = Cardinality(R) + 1
  BY Finite, FS_AddElement
<1> QED
  BY <1>1, <1>2 DEF Counts

LEMMA WriterComes ==
  ASSUME NEW R \in SUBSET Threads, NEW W \in SUBSET Threads, Counts(R, W, 0),
         NEW t \in Threads
  PROVE  R = {} /\ W = {} /\ Counts(R, W \cup {t}, -1)
<1>1. R = {} /\ W = {}
  BY CountZero
<1>2. W \cup {t} = {t} /\ Cardinality({t}) = 1
  BY <1>1, FS_Singleton
<1> QED
  BY <1>1, <1>2 DEF Counts

LEMMA ReaderGoes ==
  ASSUME NEW R \in SUBSET Threads, NEW W \in SUBSET Threads, NEW n \in Int, Counts(R, W, n),
         NEW t \in R
  PROVE  W = {} /\ n > 0 /\ Counts(R \ {t}, W, n - 1)
<1>1. W = {} /\ n = Cardinality(R)
  BY DEF Counts
<1>2. Cardinality(R \ {t}) = Cardinality(R) - 1 /\ Cardinality(R \ {t}) \in Nat
  BY Finite, FS_RemoveElement
<1> QED
  BY <1>1, <1>2, Finite DEF Counts

LEMMA WriterGoes ==
  ASSUME NEW R \in SUBSET Threads, NEW W \in SUBSET Threads, NEW n \in Int, Counts(R, W, n),
         NEW t \in W
  PROVE  R = {} /\ W = {t} /\ n = -1
<1>1. n = -1 /\ Cardinality(W) = 1 /\ R = {}
  BY DEF Counts
<1>2. PICK x : W = {x}
  BY <1>1, Finite, FS_Singleton
<1> QED
  BY <1>1, <1>2

\* A queue of n different threads has n members.
LEMMA LineCount ==
  ASSUME TypeOK, NEW q, Ring(q), NEW r, Line(q, r)
  PROVE  Cardinality(Sleeping(r)) = q.count
<1> DEFINE s == Queued(q)
<1>1. q.count \in Nat
  BY DEF Ring
<1>2. Sleeping(r) \in SUBSET Threads
  BY DEF Sleeping
<1>3. \A i \in 1..q.count : s[i] \in Sleeping(r)
  BY DEF Line
<1>4. \A x \in Sleeping(r) : \E i \in 1..q.count : s[i] = x
  BY DEF Line
<1>5. \A i, j \in 1..q.count : s[i] = s[j] => i = j
  BY DEF Line
<1> DEFINE f == [i \in 1..q.count |-> s[i]]
<1> HIDE DEF s
<1>6. f \in Bijection(1..q.count, Sleeping(r))
  BY <1>3, <1>4, <1>5 DEF Bijection, Injection, Surjection, IsInjective
<1>7. ExistsBijection(1..q.count, Sleeping(r))
  BY <1>6 DEF ExistsBijection
<1> QED
  BY <1>1, <1>7, FS_Interval, FS_Bijection
-----------------------------------------------------------------------------
(* The steps. *)

\* A thread that neither holds the lock nor waits does something else: nothing
\* that counts changes, though an array may grow.
LEMMA AsideGrowing ==
  ASSUME Inv, NEW t \in Threads, pc[t] \notin {"in", "wait"},
         NEW x \in PCs \ {"in", "wait", "aborted"}, pc' = [pc EXCEPT ![t] = x],
         \A u \in Threads \ {t} : role'[u] = role[u],
         UNCHANGED <<build, awake, runcount, waitingWriters>>,
         build = "pthread" => UNCHANGED <<readers, writers>>,
         UNCHANGED <<readers.count, writers.count, Queued(readers), Queued(writers)>>
  PROVE  /\ PthreadOK' /\ Win32OK' /\ RuncountIsTrue' /\ NoWakeUpLost'
         /\ UNCHANGED Lock!vars
<1> USE DEF Inv, TypeOK
<1>1. \A u \in Threads : /\ u # t => pc'[u] = pc[u] /\ role'[u] = role[u]
                         /\ u = t => pc'[u] = x
  OBVIOUS
<1>2. t \notin awake
  OBVIOUS
<1>3. \A r \in {"read", "write"} :
        {u \in Threads : role'[u] = r /\ (pc'[u] = "in" \/ (build' = "win32" /\ u \in awake'))} = Holding(r)
  BY <1>1, <1>2 DEF Holding
<1>4. Holding("read")' = Holding("read") /\ Holding("write")' = Holding("write")
  BY <1>3 DEF Holding
<1>5. Waiting("read")' = Waiting("read") /\ Waiting("write")' = Waiting("write")
  BY <1>1 DEF Waiting
<1>6. Sleeping("read")' = Sleeping("read") /\ Sleeping("write")' = Sleeping("write")
  BY <1>1 DEF Sleeping
<1>7. UNCHANGED <<runcount, waitingWriters, build, awake>>
  OBVIOUS
<1>8. Queued(writers)' = Queued(writers)
  OBVIOUS
<1>9. PthreadOK'
  BY <1>7 DEF PthreadOK
<1>10. Win32OK'
  BY <1>6, <1>7 DEF Win32OK, Line
<1>11. RuncountIsTrue'
  BY <1>4, <1>7 DEF RuncountIsTrue
<1>12. NoWakeUpLost'
  BY <1>1, <1>5, <1>7 DEF NoWakeUpLost
<1> QED
  BY <1>4, <1>8, <1>9, <1>10, <1>11, <1>12 DEF Lock!vars

LEMMA Aside ==
  ASSUME Inv, NEW t \in Threads, pc[t] \notin {"in", "wait"},
         NEW x \in PCs \ {"in", "wait", "aborted"}, pc' = [pc EXCEPT ![t] = x],
         \A u \in Threads \ {t} : role'[u] = role[u],
         UNCHANGED <<build, awake, runcount, waitingWriters, queues>>
  PROVE  /\ PthreadOK' /\ Win32OK' /\ RuncountIsTrue' /\ NoWakeUpLost'
         /\ UNCHANGED Lock!vars
<1>1. UNCHANGED <<readers, writers>>
  BY DEF queues
<1>2. UNCHANGED <<readers.count, writers.count, Queued(readers), Queued(writers)>>
  BY <1>1
<1> QED
  BY <1>1, <1>2, AsideGrowing

\* Whoever is past the initialisation leaves it alone.
LEMMA StaysInitialised ==
  ASSUME Inv, NEW t \in Threads, pc[t] \notin {"out", "init", "spin"},
         NEW x \in PCs \ {"init", "spin"}, pc' = [pc EXCEPT ![t] = x], UNCHANGED guard
  PROVE  StartOK'
<1>1. done /\ UNCHANGED <<done, started>>
  BY DEF Inv, StartOK, guard
<1>2. \A u \in Threads : pc'[u] = "init" => pc[u] = "init"
  BY DEF Inv, TypeOK
<1> QED
  BY <1>1, <1>2 DEF Inv, StartOK

LEMMA AsksStep ==
  ASSUME Inv, NEW t \in Threads, NEW r \in {"read", "write"}, Asks(t, r)
  PROVE  Inv' /\ LockStep
<1> USE DEF Inv, TypeOK
<1>1. /\ pc[t] = "out" /\ role' = [role EXCEPT ![t] = r]
      /\ UNCHANGED <<build, awake, runcount, waitingWriters, queues, done>>
  BY DEF Asks
<1>2. PICK x \in {"enter", "init", "spin"} : pc' = [pc EXCEPT ![t] = x]
  BY DEF Asks
<1>3. PthreadOK' /\ Win32OK' /\ RuncountIsTrue' /\ NoWakeUpLost' /\ UNCHANGED Lock!vars
  BY <1>1, <1>2, Aside DEF PCs
<1>4. started' \in Int
  BY DEF Asks
<1>5. TypeOK'
  BY <1>1, <1>2, <1>4 DEF PCs, queues
<1>6. StartOK'
  <2>1. CASE done /\ pc' = [pc EXCEPT ![t] = "enter"] /\ UNCHANGED started
    <3>1. \A u \in Threads : pc'[u] = "init" => pc[u] = "init"
      BY <2>1
    <3> QED
      BY <1>1, <2>1, <3>1 DEF StartOK
  <2>2. CASE /\ ~done /\ started' = started + 1
             /\ pc' = [pc EXCEPT ![t] = IF started' = 0 THEN "init" ELSE "spin"]
    <3>1. CASE started' = 0
      <4>1. \A u \in Threads : pc[u] # "init"
        BY <2>2, <3>1 DEF StartOK
      <4>2. \A u \in Threads : pc'[u] = "init" => u = t
        BY <4>1, <1>2
      <4>3. \A u \in Threads : pc'[u] \in {"out", "init", "spin"}
        BY <2>2, <1>2, <3>1 DEF StartOK
      <4> QED
        BY <1>1, <2>2, <3>1, <4>2, <4>3 DEF StartOK, queues
    <3>2. CASE started' # 0
      <4>1. \A u \in Threads : pc'[u] = "init" => pc[u] = "init"
        BY <2>2, <3>2
      <4>2. \A u \in Threads : pc'[u] \in {"out", "init", "spin"}
        BY <2>2, <3>2 DEF StartOK
      <4>3. started' >= -1 /\ (started >= 0 => started' >= 0)
        BY <2>2 DEF StartOK
      <4> QED
        BY <1>1, <2>2, <4>1, <4>2, <4>3 DEF StartOK, queues
    <3> QED
      BY <3>1, <3>2
  <2> QED
    BY <2>1, <2>2 DEF Asks
<1> QED
  BY <1>3, <1>5, <1>6 DEF LockStep

LEMMA InitialisesStep ==
  ASSUME Inv, NEW t \in Threads, Initialises(t)
  PROVE  Inv' /\ LockStep
<1> USE DEF Inv, TypeOK
<1>1. ~done /\ pc[t] = "init" /\ pc' = [pc EXCEPT ![t] = "enter"]
  BY DEF Initialises, StartOK
<1>2. UNCHANGED <<build, role, awake, waitingWriters, started, readers, writers, runcount>>
  BY <1>1 DEF Initialises, StartOK
<1>3. PthreadOK' /\ Win32OK' /\ RuncountIsTrue' /\ NoWakeUpLost' /\ UNCHANGED Lock!vars
  BY <1>1, <1>2, Aside DEF PCs, queues
<1>4. TypeOK'
  BY <1>1, <1>2 DEF PCs, Initialises
<1>5. StartOK'
  <2>1. \A u \in Threads : pc'[u] # "init"
    BY <1>1 DEF StartOK
  <2>2. done'
    BY DEF Initialises
  <2> QED
    BY <1>2, <2>1, <2>2 DEF StartOK
<1> QED
  BY <1>3, <1>4, <1>5 DEF LockStep

\* Spins and EntersPolling: the thread goes on to where it tries again.
LEMMA GoesOn ==
  ASSUME Inv, NEW t \in Threads, Spins(t) \/ EntersPolling(t)
  PROVE  Inv' /\ LockStep
<1> USE DEF Inv, TypeOK
<1>1. PICK x \in {"enter", "poll"} : pc' = [pc EXCEPT ![t] = x]
  BY DEF Spins, EntersPolling
<1>2. /\ UNCHANGED <<build, role, awake, runcount, waitingWriters, guard>>
      /\ pc[t] \notin {"in", "wait"} /\ done
  BY DEF Spins, EntersPolling, StartOK
<1>6. /\ build = "pthread" => UNCHANGED <<readers, writers>>
      /\ readers' \in {readers, Roomy(readers)} /\ writers' \in {writers, Roomy(writers)}
  BY DEF Spins, EntersPolling, queues
<1>7. /\ Ring(readers') /\ Ring(writers')
      /\ UNCHANGED <<readers.count, writers.count, Queued(readers), Queued(writers)>>
  <2>1. Ring(readers') /\ readers'.count = readers.count /\ Queued(readers') = Queued(readers)
    BY <1>6, RoomyKeeps
  <2>2. Ring(writers') /\ writers'.count = writers.count /\ Queued(writers') = Queued(writers)
    BY <1>6, RoomyKeeps
  <2> QED
    BY <2>1, <2>2
<1>3. PthreadOK' /\ Win32OK' /\ RuncountIsTrue' /\ NoWakeUpLost' /\ UNCHANGED Lock!vars
  BY <1>1, <1>2, <1>6, <1>7, AsideGrowing DEF PCs
<1>4. TypeOK'
  BY <1>1, <1>2, <1>7 DEF PCs, guard
<1>5. StartOK'
  <2>1. \A u \in Threads : pc'[u] = "init" => pc[u] = "init"
    BY <1>1
  <2> QED
    BY <1>2, <2>1 DEF StartOK, guard
<1> QED
  BY <1>3, <1>4, <1>5 DEF LockStep
\* EntersFree and Polls: the lock is taken.
LEMMA TakesStep ==
  ASSUME Inv, NEW t \in Threads, EntersFree(t) \/ Polls(t)
  PROVE  Inv' /\ LockStep
<1> USE DEF Inv, TypeOK
<1>1. /\ pc[t] \in {"enter", "poll"} /\ May(t)
      /\ runcount' = Counted(t) /\ pc' = [pc EXCEPT ![t] = "in"]
      /\ UNCHANGED <<build, role, awake, waitingWriters, queues, guard>>
  BY DEF EntersFree, Polls
<1>2. UNCHANGED <<readers, writers, build, role, awake, waitingWriters>>
  BY <1>1 DEF queues
<1>3. \A u \in Threads : /\ u # t => pc'[u] = pc[u]
                         /\ u = t => pc'[u] = "in" /\ pc[u] \notin {"in", "wait"} /\ u \notin awake
  BY <1>1
<1>4. \A r \in {"read", "write"} : Waiting(r)' = Waiting(r) /\ Sleeping(r)' = Sleeping(r)
  BY <1>2, <1>3 DEF Waiting, Sleeping
<1>5. Holding("read") \in SUBSET Threads /\ Holding("write") \in SUBSET Threads
  BY DEF Holding
<1>6. /\ runcount' # 0 /\ RuncountIsTrue'
      /\ Lock!ReadersIn({t}) \/ Lock!WriterIn(t)
  <2>1. CASE role[t] = "read"
    <3>1. Holding("read")' = Holding("read") \cup {t} /\ Holding("write")' = Holding("write")
      BY <1>2, <1>3, <2>1 DEF Holding
    <3>2. t \notin Holding("read")
      BY <1>3 DEF Holding
    <3>3. runcount >= 0 /\ runcount' = runcount + 1
      BY <1>1, <2>1 DEF May, Counted
    <3>4. Holding("write") = {} /\ Counts(Holding("read") \cup {t}, Holding("write"), runcount + 1)
      BY <1>5, <3>2, <3>3, CountsHere, ReaderComes
    <3>5. RuncountIsTrue' /\ runcount' # 0
      BY <3>1, <3>3, <3>4 DEF RuncountIsTrue, Counts
    <3>6. Queued(writers)' = Queued(writers)
      BY <1>2
    <3>7. Lock!ReadersIn({t})
      BY <3>1, <3>2, <3>4, <3>6 DEF Lock!ReadersIn
    <3> QED
      BY <3>5, <3>7
  <2>2. CASE role[t] = "write"
    <3>1. Holding("write")' = Holding("write") \cup {t} /\ Holding("read")' = Holding("read")
      BY <1>2, <1>3, <2>2 DEF Holding
    <3>2. runcount = 0 /\ runcount' = -1
      BY <1>1, <2>2 DEF May, Counted
    <3>3. /\ Holding("read") = {} /\ Holding("write") = {}
          /\ Counts(Holding("read"), Holding("write") \cup {t}, -1)
      BY <1>5, <3>2, CountsHere, WriterComes
    <3>4. RuncountIsTrue' /\ runcount' # 0
      BY <3>1, <3>2, <3>3 DEF RuncountIsTrue, Counts
    <3>5. Queued(writers)' = Queued(writers)
      BY <1>2
    <3>6. Lock!WriterIn(t)
      BY <3>1, <3>3, <3>5 DEF Lock!WriterIn, Lock!Free
    <3> QED
      BY <3>4, <3>6
  <2> QED
    BY <2>1, <2>2
<1>7. TypeOK'
  BY <1>1, <1>2 DEF PCs, guard, Counted
<1>8. StartOK'
  BY <1>1, StaysInitialised DEF PCs
<1>9. PthreadOK' /\ Win32OK'
  <2>1. PthreadOK'
    BY <1>2 DEF PthreadOK
  <2>2. Win32OK'
    BY <1>2, <1>4, <1>6 DEF Win32OK, Line
  <2> QED
    BY <2>1, <2>2
<1>10. NoWakeUpLost'
  BY <1>2, <1>3, <1>4, <1>6 DEF NoWakeUpLost
<1>11. LockStep
  BY <1>6 DEF LockStep, Lock!Next
<1> QED
  BY <1>6, <1>7, <1>8, <1>9, <1>10, <1>11

\* A pthread starts to wait, and is counted if it is a writer.
LEMMA WaitsStep ==
  ASSUME Inv, NEW t \in Threads, EntersWaiting(t)
  PROVE  Inv' /\ LockStep
<1> USE DEF Inv, TypeOK
<1>1. /\ build = "pthread" /\ pc[t] = "enter" /\ ~May(t) /\ pc' = [pc EXCEPT ![t] = "wait"]
      /\ waitingWriters' = IF role[t] = "write" THEN waitingWriters + 1 ELSE waitingWriters
      /\ UNCHANGED <<build, role, awake, runcount, readers, writers, guard>>
  BY DEF EntersWaiting, queues
<1>2. \A u \in Threads : /\ u # t => pc'[u] = pc[u]
                         /\ u = t => pc'[u] = "wait" /\ pc[u] = "enter" /\ u \notin awake
  BY <1>1
<1>3. Holding("read")' = Holding("read") /\ Holding("write")' = Holding("write")
  BY <1>1, <1>2 DEF Holding
<1>4. /\ role[t] = "read" => Waiting("write")' = Waiting("write")
      /\ role[t] = "write" => Waiting("write")' = Waiting("write") \cup {t}
      /\ t \notin Waiting("write") /\ Waiting("write") \in SUBSET Threads
  BY <1>1, <1>2 DEF Waiting
<1>5. waitingWriters' = Cardinality(Waiting("write")') /\ waitingWriters' \in Int
  <2>1. waitingWriters = Cardinality(Waiting("write"))
    BY <1>1 DEF NoWakeUpLost
  <2>2. CASE role[t] = "read"
    BY <1>1, <1>4, <2>1, <2>2
  <2>3. CASE role[t] = "write"
    <3>1. Cardinality(Waiting("write") \cup {t}) = Cardinality(Waiting("write")) + 1
      BY <1>4, Finite, FS_AddElement
    <3>2. Waiting("write")' = Waiting("write") \cup {t}
      BY <1>4, <2>3
    <3>3. Cardinality(Waiting("write")') = Cardinality(Waiting("write")) + 1
      BY <3>1, <3>2
    <3>4. waitingWriters' = waitingWriters + 1
      BY <1>1, <2>3
    <3> QED
      BY <2>1, <3>3, <3>4
  <2> QED
    BY <2>2, <2>3
<1>6. /\ role[t] = "read" => runcount < 0 \/ waitingWriters # 0
      /\ role[t] = "write" => runcount # 0
  BY <1>1 DEF May
<1>7. waitingWriters \in Nat
  BY <1>1, <1>4, Finite DEF NoWakeUpLost
<1>8. NoWakeUpLost'
  <2>1. ASSUME NEW u \in Waiting("write")' \ awake'
        PROVE  runcount' # 0 \/ Waiting("write")' \cap awake' # {}
    <3>1. CASE u = t
      BY <1>1, <1>6, <2>1, <3>1 DEF Waiting
    <3>2. CASE u # t
      <4>1. u \in Waiting("write") \ awake
        BY <1>1, <1>2, <2>1, <3>2 DEF Waiting
      <4>2. runcount # 0 \/ Waiting("write") \cap awake # {}
        BY <4>1 DEF NoWakeUpLost
      <4> QED
        BY <1>1, <1>4, <4>2
    <3> QED
      BY <3>1, <3>2
  <2>2. ASSUME NEW u \in Waiting("read")' \ awake'
        PROVE  runcount' # 0 \/ waitingWriters' > 0
    <3>1. CASE u = t
      BY <1>1, <1>6, <1>7, <2>2, <3>1 DEF Waiting
    <3>2. CASE u # t
      <4>1. u \in Waiting("read") \ awake
        BY <1>1, <1>2, <2>2, <3>2 DEF Waiting
      <4>2. runcount # 0 \/ waitingWriters > 0
        BY <4>1 DEF NoWakeUpLost
      <4> QED
        BY <1>1, <1>7, <4>2
    <3> QED
      BY <3>1, <3>2
  <2>3. \A u \in Threads : pc'[u] # "aborted"
    BY <1>2 DEF NoWakeUpLost
  <2> QED
    BY <1>1, <1>5, <2>1, <2>2, <2>3 DEF NoWakeUpLost
<1>9. TypeOK'
  BY <1>1, <1>5 DEF PCs, guard
<1>10. StartOK'
  BY <1>1, StaysInitialised DEF PCs
<1>11. PthreadOK' /\ Win32OK'
  BY <1>1 DEF PthreadOK, Win32OK
<1>12. RuncountIsTrue'
  BY <1>1, <1>3 DEF RuncountIsTrue
<1>13. Queued(writers)' = Queued(writers)
  BY <1>1
<1>14. UNCHANGED Lock!vars
  BY <1>3, <1>13 DEF Lock!vars
<1> QED
  BY <1>8, <1>9, <1>10, <1>11, <1>12, <1>14 DEF LockStep

\* pthread_cond_wait returns: the waiting thread takes the lock or waits on.
LEMMA RetriesStep ==
  ASSUME Inv, NEW t \in Threads, Retries(t)
  PROVE  Inv' /\ LockStep
<1> USE DEF Inv, TypeOK
<1>1. /\ build = "pthread" /\ pc[t] = "wait" /\ awake' = awake \ {t}
      /\ UNCHANGED <<build, role, readers, writers, guard>>
  BY DEF Retries, queues
<1>2. /\ waitingWriters = Cardinality(Waiting("write")) /\ waitingWriters \in Nat
      /\ Waiting("write") \in SUBSET Threads
  <2>1. Waiting("write") \in SUBSET Threads
    BY DEF Waiting
  <2> QED
    BY <1>1, <2>1, Finite DEF NoWakeUpLost
<1>3. Queued(writers)' = Queued(writers)
  BY <1>1
<1>4. PthreadOK' /\ Win32OK'
  BY <1>1 DEF PthreadOK, Win32OK
<1>5. Holding("read") \in SUBSET Threads /\ Holding("write") \in SUBSET Threads
  BY DEF Holding
<1>6. CASE ~May(t) /\ UNCHANGED <<runcount, waitingWriters, pc>>
  <2>1. Holding("read")' = Holding("read") /\ Holding("write")' = Holding("write")
    BY <1>1, <1>6 DEF Holding
  <2>2. Waiting("write")' = Waiting("write") /\ Waiting("read")' = Waiting("read")
    BY <1>1, <1>6 DEF Waiting
  <2>3. TypeOK'
    BY <1>1, <1>6 DEF guard
  <2>4. StartOK'
    BY <1>1, <1>6 DEF StartOK, guard
  <2>5. RuncountIsTrue'
    BY <1>6, <2>1 DEF RuncountIsTrue
  <2>6. ASSUME NEW u \in Waiting("write")' \ awake'
        PROVE  runcount' # 0 \/ Waiting("write")' \cap awake' # {}
    <3>1. CASE role[t] = "write"
      BY <1>6, <3>1 DEF May
    <3>2. CASE role[t] = "read"
      <4>1. Waiting("write") \cap awake' = Waiting("write") \cap awake
        BY <1>1, <3>2 DEF Waiting
      <4>2. u \in Waiting("write") \ awake
        BY <2>2, <2>6, <4>1
      <4> QED
        BY <1>6, <2>2, <4>1, <4>2 DEF NoWakeUpLost
    <3> QED
      BY <3>1, <3>2
  <2>7. ASSUME NEW u \in Waiting("read")' \ awake'
        PROVE  runcount' # 0 \/ waitingWriters' > 0
    <3>1. CASE u = t
      <4>1. role[t] = "read"
        BY <2>2, <2>7, <3>1 DEF Waiting
      <4> QED
        BY <1>2, <1>6, <4>1 DEF May
    <3>2. CASE u # t
      <4>1. u \in Waiting("read") \ awake
        BY <1>1, <2>2, <2>7, <3>2
      <4> QED
        BY <1>1, <1>6, <4>1 DEF NoWakeUpLost
    <3> QED
      BY <3>1, <3>2
  <2>8. NoWakeUpLost'
    BY <1>1, <1>2, <1>6, <2>2, <2>6, <2>7 DEF NoWakeUpLost
  <2> QED
    BY <1>3, <1>4, <2>1, <2>3, <2>4, <2>5, <2>8 DEF LockStep, Lock!vars
<1>7. CASE /\ May(t)
           /\ runcount' = Counted(t) /\ pc' = [pc EXCEPT ![t] = "in"]
           /\ waitingWriters' = IF role[t] = "write" THEN waitingWriters - 1 ELSE waitingWriters
  <2>1. \A u \in Threads : /\ u # t => pc'[u] = pc[u]
                           /\ u = t => pc'[u] = "in" /\ pc[u] = "wait"
    BY <1>1, <1>7
  <2>2. /\ runcount' # 0 /\ RuncountIsTrue'
        /\ waitingWriters' = Cardinality(Waiting("write")') /\ waitingWriters' \in Int
        /\ Lock!ReadersIn({t}) \/ Lock!WriterIn(t)
    <3>1. CASE role[t] = "read"
      <4>1. Holding("read")' = Holding("read") \cup {t} /\ Holding("write")' = Holding("write")
        BY <1>1, <2>1, <3>1 DEF Holding
      <4>2. t \notin Holding("read")
        BY <1>1 DEF Holding
      <4>3. runcount >= 0 /\ runcount' = runcount + 1
        BY <1>7, <3>1 DEF May, Counted
      <4>4. Holding("write") = {} /\ Counts(Holding("read") \cup {t}, Holding("write"), runcount + 1)
        BY <1>5, <4>2, <4>3, CountsHere, ReaderComes
      <4>5. RuncountIsTrue' /\ runcount' # 0
        BY <4>1, <4>3, <4>4 DEF RuncountIsTrue, Counts
      <4>6. Lock!ReadersIn({t})
        BY <1>3, <4>1, <4>2, <4>4 DEF Lock!ReadersIn
      <4>7. Waiting("write")' = Waiting("write") /\ waitingWriters' = waitingWriters
        BY <1>1, <1>7, <2>1, <3>1 DEF Waiting
      <4> QED
        BY <1>2, <4>5, <4>6, <4>7
    <3>2. CASE role[t] = "write"
      <4>1. Holding("write")' = Holding("write") \cup {t} /\ Holding("read")' = Holding("read")
        BY <1>1, <2>1, <3>2 DEF Holding
      <4>2. runcount = 0 /\ runcount' = -1
        BY <1>7, <3>2 DEF May, Counted
      <4>3. /\ Holding("read") = {} /\ Holding("write") = {}
            /\ Counts(Holding("read"), Holding("write") \cup {t}, -1)
        BY <1>5, <4>2, CountsHere, WriterComes
      <4>4. RuncountIsTrue' /\ runcount' # 0
        BY <4>1, <4>2, <4>3 DEF RuncountIsTrue, Counts
      <4>5. Lock!WriterIn(t)
        BY <1>3, <4>1, <4>3 DEF Lock!WriterIn, Lock!Free
      <4>6. Waiting("write")' = Waiting("write") \ {t} /\ t \in Waiting("write")
        BY <1>1, <2>1, <3>2 DEF Waiting
      <4>7. Cardinality(Waiting("write") \ {t}) = Cardinality(Waiting("write")) - 1
        BY <1>2, <4>6, Finite, FS_RemoveElement
      <4>8. waitingWriters' = waitingWriters - 1
        BY <1>7, <3>2
      <4>9. Cardinality(Waiting("write")') = Cardinality(Waiting("write")) - 1
        BY <4>6, <4>7
      <4>10. waitingWriters' = Cardinality(Waiting("write")') /\ waitingWriters' \in Int
        BY <1>2, <4>8, <4>9
      <4> QED
        BY <4>4, <4>5, <4>10
    <3> QED
      BY <3>1, <3>2
  <2>3. TypeOK'
    BY <1>1, <1>7, <2>2 DEF PCs, guard, Counted
  <2>4. StartOK'
    BY <1>1, <1>7, StaysInitialised DEF PCs
  <2>5. NoWakeUpLost'
    BY <2>1, <2>2 DEF NoWakeUpLost
  <2> QED
    BY <1>4, <2>2, <2>3, <2>4, <2>5 DEF LockStep, Lock!Next
<1> QED
  BY <1>6, <1>7 DEF Retries
\* A win32 thread without the lock queues up for it.
LEMMA QueuesStep ==
  ASSUME Inv, NEW t \in Threads, EntersQueued(t)
  PROVE  Inv' /\ LockStep
<1> USE DEF Inv, TypeOK
<1>1. /\ build = "win32" /\ pc[t] = "enter" /\ ~May(t) /\ pc' = [pc EXCEPT ![t] = "wait"]
      /\ \/ role[t] = "read" /\ readers' = Added(readers, t) /\ UNCHANGED writers
         \/ role[t] = "write" /\ writers' = Added(writers, t) /\ UNCHANGED readers
      /\ UNCHANGED <<build, role, awake, runcount, waitingWriters, guard>>
  BY DEF EntersQueued
<1>2. \A u \in Threads : /\ u # t => pc'[u] = pc[u]
                         /\ u = t => pc'[u] = "wait" /\ pc[u] = "enter" /\ u \notin awake
  BY <1>1
<1>3. Holding("read")' = Holding("read") /\ Holding("write")' = Holding("write")
  BY <1>1, <1>2 DEF Holding
<1>4. runcount # 0
  BY <1>1 DEF May
<1>5. \A r \in {"read", "write"} :
        /\ r = role[t] => Sleeping(r)' = Sleeping(r) \cup {t} /\ t \notin Sleeping(r)
        /\ r # role[t] => Sleeping(r)' = Sleeping(r)
  BY <1>1, <1>2 DEF Sleeping
<1>6. ASSUME NEW q, NEW r \in {"read", "write"}, Ring(q), Line(q, r), role[t] = r
      PROVE  /\ Sleeping(r)' = {Queued(Added(q, t))[i] : i \in 1..Added(q, t).count}
             /\ \A i, j \in 1..Added(q, t).count :
                  Queued(Added(q, t))[i] = Queued(Added(q, t))[j] => i = j
  <2> DEFINE p == Added(q, t)
             s == Queued(q)
             z == Queued(p)
  <2>1. Ring(p) /\ z = Append(s, t)
    BY <1>6, AddedAppends
  <2>2. s \in Seq(Slot) /\ Len(s) = q.count /\ q.count \in Nat
    BY <1>6, QueuedType DEF Arrays, Ring
  <2>3. Len(z) = p.count
    BY <2>1, QueuedType
  <2>4. /\ Sleeping(r) = {s[i] : i \in 1..q.count}
        /\ \A i, j \in 1..q.count : s[i] = s[j] => i = j
    BY <1>6 DEF Line
  <2> HIDE DEF p, s, z
  <2>5. t \in Slot
    BY DEF Slot
  <2>6. /\ Len(z) = q.count + 1 /\ \A i \in 1..q.count : z[i] = s[i]
        /\ z[q.count + 1] = t
    BY <2>1, <2>2, <2>5, AppendProperties
  <2>7. t \notin Sleeping(r)
    BY <1>5, <1>6
  <2>8. 1..p.count = 1..q.count \cup {q.count + 1}
    BY <2>2, <2>3, <2>6
  <2>9. {z[i] : i \in 1..p.count} = Sleeping(r) \cup {t}
    BY <2>4, <2>6, <2>8
  <2>10. \A i, j \in 1..p.count : z[i] = z[j] => i = j
    BY <2>4, <2>6, <2>7, <2>8
  <2> QED
    BY <1>5, <1>6, <2>9, <2>10 DEF z, p
<1>7. Line(readers, "read") /\ Line(writers, "write")
  BY <1>1 DEF Win32OK
<1>8. Win32OK' /\ Ring(readers') /\ Ring(writers')
  <2>1. CASE role[t] = "read" /\ readers' = Added(readers, t) /\ UNCHANGED writers
    <3>1. Ring(readers') /\ Ring(writers')
      BY <2>1, AddedAppends
    <3>2. Line(readers, "read")'
      BY <1>6, <1>7, <2>1 DEF Line
    <3>3. Line(writers, "write")'
      BY <1>5, <1>7, <2>1 DEF Line
    <3> QED
      BY <1>1, <1>4, <3>1, <3>2, <3>3 DEF Win32OK
  <2>2. CASE role[t] = "write" /\ writers' = Added(writers, t) /\ UNCHANGED readers
    <3>1. Ring(readers') /\ Ring(writers')
      BY <2>2, AddedAppends
    <3>2. Line(writers, "write")'
      BY <1>6, <1>7, <2>2 DEF Line
    <3>3. Line(readers, "read")'
      BY <1>5, <1>7, <2>2 DEF Line
    <3> QED
      BY <1>1, <1>4, <3>1, <3>2, <3>3 DEF Win32OK
  <2> QED
    BY <1>1, <2>1, <2>2
<1>9. TypeOK'
  BY <1>1, <1>8 DEF PCs, guard
<1>10. StartOK'
  BY <1>1, StaysInitialised DEF PCs
<1>11. PthreadOK' /\ RuncountIsTrue'
  BY <1>1, <1>3 DEF PthreadOK, RuncountIsTrue
<1>12. NoWakeUpLost'
  BY <1>1, <1>2, <1>4 DEF NoWakeUpLost
<1>13. LockStep
  <2>1. CASE role[t] = "read" /\ UNCHANGED writers
    <3>1. Queued(writers)' = Queued(writers)
      BY <2>1
    <3> QED
      BY <1>3, <3>1 DEF LockStep, Lock!vars
  <2>2. CASE writers' = Added(writers, t)
    <3>1. Queued(writers)' = Append(Queued(writers), t)
      BY <2>2, AddedAppends
    <3>2. Holding("read") \in SUBSET Threads /\ Holding("write") \in SUBSET Threads
      BY DEF Holding
    <3>3. ~(Holding("read") = {} /\ Holding("write") = {})
      BY <1>4, <3>2, CountsHere, CountZero
    <3>4. Lock!LinesUp(t)
      BY <1>3, <3>1, <3>3 DEF Lock!LinesUp, Lock!Free
    <3> QED
      BY <3>4 DEF LockStep, Lock!Next
  <2> QED
    BY <1>1, <2>1, <2>2
<1> QED
  BY <1>8, <1>9, <1>10, <1>11, <1>12, <1>13

\* A win32 thread whose event was set finds the lock taken for it.
LEMMA FollowsStep ==
  ASSUME Inv, NEW t \in Threads, Follows(t)
  PROVE  Inv' /\ LockStep
<1> USE DEF Inv, TypeOK
<1>1. /\ build = "win32" /\ t \in awake /\ pc[t] = "wait" /\ awake' = awake \ {t}
      /\ UNCHANGED <<build, role, runcount, waitingWriters, readers, writers, guard>>
  BY DEF Follows, queues
<1>2. Holding("read") \in SUBSET Threads /\ Holding("write") \in SUBSET Threads
  BY DEF Holding
<1>3. IF role[t] = "read" THEN runcount > 0 ELSE runcount = -1
  <2>1. CASE role[t] = "read"
    <3>1. t \in Holding("read")
      BY <1>1, <2>1 DEF Holding
    <3> QED
      BY <1>2, <2>1, <3>1, CountsHere, ReaderGoes
  <2>2. CASE role[t] = "write"
    <3>1. t \in Holding("write")
      BY <1>1, <2>2 DEF Holding
    <3> QED
      BY <1>2, <2>2, <3>1, CountsHere, WriterGoes
  <2> QED
    BY <2>1, <2>2
<1>4. pc' = [pc EXCEPT ![t] = "in"]
  BY <1>3 DEF Follows
<1>5. \A u \in Threads : /\ u # t => pc'[u] = pc[u]
                         /\ u = t => pc'[u] = "in" /\ pc[u] = "wait" /\ u \in awake
  BY <1>1, <1>4
<1>6. \A r \in {"read", "write"} :
        {u \in Threads : role'[u] = r /\ (pc'[u] = "in" \/ (build' = "win32" /\ u \in awake'))} = Holding(r)
  BY <1>1, <1>5 DEF Holding
<1>7. Holding("read")' = Holding("read") /\ Holding("write")' = Holding("write")
  BY <1>6 DEF Holding
<1>8. Sleeping("read")' = Sleeping("read") /\ Sleeping("write")' = Sleeping("write")
  BY <1>1, <1>5 DEF Sleeping
<1>9. TypeOK'
  BY <1>1, <1>4 DEF PCs, guard
<1>10. StartOK'
  BY <1>1, <1>4, StaysInitialised DEF PCs
<1>11. PthreadOK' /\ Win32OK' /\ RuncountIsTrue'
  BY <1>1, <1>7, <1>8 DEF PthreadOK, Win32OK, Line, RuncountIsTrue
<1>12. NoWakeUpLost'
  <2>1. \A r \in {"read", "write"} : Waiting(r) \ awake = Sleeping(r)
    BY DEF Waiting, Sleeping
  <2>2. \A r \in {"read", "write"} : Waiting(r)' \ awake' \subseteq Waiting(r) \ awake
    BY <1>1, <1>5 DEF Waiting
  <2>3. runcount = 0 => Sleeping("read") = {} /\ Sleeping("write") = {}
    BY <1>1 DEF Win32OK, Line
  <2>4. \A u \in Threads : pc'[u] # "aborted"
    BY <1>5 DEF NoWakeUpLost
  <2> QED
    BY <1>1, <2>1, <2>2, <2>3, <2>4 DEF NoWakeUpLost
<1>13. UNCHANGED Lock!vars
  <2>1. Queued(writers)' = Queued(writers)
    BY <1>1
  <2> QED
    BY <1>7, <2>1 DEF Lock!vars
<1> QED
  BY <1>9, <1>10, <1>11, <1>12, <1>13 DEF LockStep
\* Who leaves held the lock, and what he leaves is what Left says.
LEMMA Leaving ==
  ASSUME Inv, NEW t \in Threads, pc[t] = "in"
  PROVE  /\ t \in Holding("read") \cup Holding("write")
         /\ Counts(Holding("read") \ {t}, Holding("write") \ {t}, Left)
         /\ Holding("write") \ {t} = {} /\ Left \in Nat
         /\ Left # 0 => Holding("write") = {} /\ t \in Holding("read")
         /\ t \in Holding("write") => Holding("write") = {t} /\ Holding("read") = {}
<1> DEFINE R == Holding("read")
           W == Holding("write")
<1>1. R \in SUBSET Threads /\ W \in SUBSET Threads /\ runcount \in Int
  BY DEF Holding, Inv, TypeOK
<1>2. Counts(R, W, runcount)
  BY CountsHere DEF Inv
<1>3. t \in R \/ t \in W
  BY DEF Holding, Inv, TypeOK
<1> HIDE DEF R, W
<1>4. CASE t \in R
  <2>1. W = {} /\ runcount > 0 /\ Counts(R \ {t}, W, runcount - 1)
    BY <1>1, <1>2, <1>4, ReaderGoes
  <2>2. Left = runcount - 1 /\ Left \in Nat
    BY <1>1, <2>1 DEF Left
  <2>3. W \ {t} = W
    BY <2>1
  <2>4. Counts(R \ {t}, W \ {t}, Left)
    BY <2>1, <2>2, <2>3
  <2> QED
    BY <1>4, <2>1, <2>2, <2>4 DEF R, W
<1>5. CASE t \in W
  <2>1. R = {} /\ W = {t} /\ runcount = -1
    BY <1>1, <1>2, <1>5, WriterGoes
  <2>2. Left = 0
    BY <2>1 DEF Left
  <2>3. R \ {t} = {} /\ W \ {t} = {}
    BY <2>1
  <2>4. Counts(R \ {t}, W \ {t}, Left)
    BY <2>2, <2>3, FS_EmptySet DEF Counts
  <2> QED
    BY <1>5, <2>1, <2>2, <2>3, <2>4 DEF R, W
<1> QED
  BY <1>3, <1>4, <1>5

\* The lock is still held by other readers.
LEMMA LeavesOthersStep ==
  ASSUME Inv, NEW t \in Threads, LeavesOthers(t)
  PROVE  Inv' /\ LockStep
<1> USE DEF Inv, TypeOK
<1>1. /\ pc[t] = "in" /\ Left # 0 /\ runcount' = Left
      /\ UNCHANGED <<build, role, awake, waitingWriters, readers, writers, guard>>
  BY DEF LeavesOthers, queues
<1>2. PICK x \in {"out", "gone"} : pc' = [pc EXCEPT ![t] = x]
  BY DEF LeavesOthers, Outside
<1>3. \A u \in Threads : /\ u # t => pc'[u] = pc[u]
                         /\ u = t => pc'[u] = x /\ pc[u] = "in" /\ u \notin awake
  BY <1>1, <1>2
<1>4. /\ Holding("write") = {} /\ t \in Holding("read") /\ Left \in Nat
      /\ Counts(Holding("read") \ {t}, Holding("write") \ {t}, Left)
  BY <1>1, Leaving
<1>5. Holding("read")' = Holding("read") \ {t} /\ Holding("write")' = Holding("write") \ {t}
  BY <1>1, <1>3 DEF Holding
<1>6. \A r \in {"read", "write"} : Waiting(r)' = Waiting(r) /\ Sleeping(r)' = Sleeping(r)
  BY <1>1, <1>3 DEF Waiting, Sleeping
<1>7. RuncountIsTrue'
  BY <1>1, <1>4, <1>5 DEF RuncountIsTrue, Counts
<1>8. TypeOK'
  BY <1>1, <1>2, <1>4 DEF PCs, guard
<1>9. StartOK'
  BY <1>1, <1>2, StaysInitialised DEF PCs
<1>10. PthreadOK' /\ Win32OK'
  BY <1>1, <1>6 DEF PthreadOK, Win32OK, Line
<1>11. NoWakeUpLost'
  BY <1>1, <1>3, <1>6 DEF NoWakeUpLost
<1>12. Lock!Out(t)
  <2>1. Queued(writers)' = Queued(writers)
    BY <1>1
  <2> QED
    BY <1>4, <1>5, <2>1 DEF Lock!Out
<1> QED
  BY <1>7, <1>8, <1>9, <1>10, <1>11, <1>12 DEF LockStep, Lock!Next

\* pthread: the last one out signals.
LEMMA SignalsStep ==
  ASSUME Inv, NEW t \in Threads, LeavesSignalling(t)
  PROVE  Inv' /\ LockStep
<1> USE DEF Inv, TypeOK
<1>1. /\ build = "pthread" /\ pc[t] = "in" /\ Left = 0 /\ runcount' = 0 /\ Signalled
      /\ UNCHANGED <<build, role, waitingWriters, readers, writers, guard>>
  BY DEF LeavesSignalling, queues
<1>2. PICK x \in {"out", "gone"} : pc' = [pc EXCEPT ![t] = x]
  BY DEF LeavesSignalling, Outside
<1>3. \A u \in Threads : /\ u # t => pc'[u] = pc[u]
                         /\ u = t => pc'[u] = x /\ pc[u] = "in"
  BY <1>1, <1>2
<1>4. /\ Counts(Holding("read") \ {t}, Holding("write") \ {t}, 0)
      /\ t \in Holding("read") \cup Holding("write")
      /\ t \in Holding("write") => Holding("write") = {t} /\ Holding("read") = {}
  BY <1>1, Leaving
<1>5. Holding("read")' = Holding("read") \ {t} /\ Holding("write")' = Holding("write") \ {t}
  BY <1>1, <1>3 DEF Holding
<1>6. \A r \in {"read", "write"} : Waiting(r)' = Waiting(r)
  BY <1>1, <1>3 DEF Waiting
<1>7. RuncountIsTrue'
  BY <1>1, <1>4, <1>5 DEF RuncountIsTrue, Counts
<1>8. /\ waitingWriters = Cardinality(Waiting("write")) /\ waitingWriters \in Nat
      /\ waitingWriters = 0 <=> Waiting("write") = {}
  <2>1. Waiting("write") \in SUBSET Threads
    BY DEF Waiting
  <2>2. waitingWriters = Cardinality(Waiting("write"))
    BY <1>1 DEF NoWakeUpLost
  <2> QED
    BY <2>1, <2>2, Finite, FS_EmptySet
<1>9. \A r \in {"read", "write"} : /\ Sleeping(r) = Waiting(r) \ awake
                                   /\ Sleeping(r) \subseteq {u \in Threads : pc[u] = "wait"}
  BY DEF Sleeping, Waiting
<1>10. /\ awake' \subseteq {u \in Threads : pc[u] = "wait"}
       /\ waitingWriters > 0 => Waiting("write") \cap awake' # {}
       /\ waitingWriters = 0 => Sleeping("read") \subseteq awake' /\ awake \subseteq awake'
  <2>1. CASE waitingWriters > 0
    <3>1. CASE \E u \in Sleeping("write") : awake' = awake \cup {u}
      BY <1>9, <2>1, <3>1
    <3>2. CASE Sleeping("write") = {} /\ UNCHANGED awake
      BY <1>8, <1>9, <2>1, <3>2
    <3> QED
      BY <1>1, <2>1, <3>1, <3>2 DEF Signalled
  <2>2. CASE waitingWriters = 0
    BY <1>1, <1>9, <2>2 DEF Signalled
  <2> QED
    BY <1>8, <2>1, <2>2
<1>11. TypeOK'
  <2>1. awake' \subseteq {u \in Threads : pc'[u] = "wait"}
    BY <1>3, <1>10
  <2> QED
    BY <1>1, <1>2, <2>1 DEF PCs, guard
<1>12. StartOK'
  BY <1>1, <1>2, StaysInitialised DEF PCs
<1>13. PthreadOK' /\ Win32OK'
  BY <1>1 DEF PthreadOK, Win32OK
<1>14. NoWakeUpLost'
  <2>1. ASSUME NEW u \in Waiting("write")' \ awake'
        PROVE  Waiting("write")' \cap awake' # {}
    BY <1>6, <1>8, <1>10, <2>1
  <2>2. ASSUME NEW u \in Waiting("read")' \ awake'
        PROVE  waitingWriters' > 0
    BY <1>1, <1>6, <1>8, <1>9, <1>10, <2>2
  <2>3. waitingWriters' = Cardinality(Waiting("write")')
    BY <1>1, <1>6, <1>8
  <2>4. \A u \in Threads : pc'[u] # "aborted"
    BY <1>3 DEF NoWakeUpLost
  <2> QED
    BY <2>1, <2>2, <2>3, <2>4, <1>1 DEF NoWakeUpLost
<1>15. Lock!Out(t)
  <2>1. Queued(writers)' = Queued(writers)
    BY <1>1
  <2>2. t \in Holding("read") => Holding("write") = {}
    <3>1. Counts(Holding("read"), Holding("write"), runcount)
      BY CountsHere
    <3> QED
      BY <3>1 DEF Counts
  <2> QED
    BY <1>4, <1>5, <2>1, <2>2 DEF Lock!Out
<1> QED
  BY <1>7, <1>11, <1>12, <1>13, <1>14, <1>15 DEF LockStep, Lock!Next
\* win32: the last one out takes the lock for the first writer in the queue,
LEMMA HandsToWriter ==
  ASSUME Inv, NEW t \in Threads, LeavesHanding(t), writers.count > 0
  PROVE  Inv' /\ LockStep
<1> USE DEF Inv, TypeOK
<1> DEFINE w == Queued(writers)[1]
           s == Queued(writers)
<1>1. /\ build = "win32" /\ pc[t] = "in" /\ Left = 0
      /\ runcount' = -1 /\ awake' = awake \cup {w} /\ writers' = FirstOff(writers)
      /\ UNCHANGED <<build, role, waitingWriters, readers, guard>>
  BY DEF LeavesHanding
<1>2. PICK x \in {"out", "gone"} : pc' = [pc EXCEPT ![t] = x]
  BY DEF LeavesHanding, Outside
<1>3. Line(readers, "read") /\ Line(writers, "write")
  BY <1>1 DEF Win32OK
<1>4. /\ s \in Seq(Slot) /\ Len(s) = writers.count /\ writers.count \in Nat /\ s # <<>>
      /\ Ring(writers') /\ Queued(writers') = Tail(s) /\ writers'.count = writers.count - 1
  <2>1. writers.count \in Nat
    BY DEF Ring
  <2>2. s \in Seq(Slot) /\ Len(s) = writers.count
    BY QueuedType DEF Arrays
  <2>3. s # <<>>
    BY <2>2, EmptySeq
  <2>4. Ring(FirstOff(writers)) /\ Queued(FirstOff(writers)) = Tail(s)
        /\ FirstOff(writers).count = writers.count - 1
    BY FirstOffTail
  <2>5. Ring(writers') /\ Queued(writers') = Tail(s) /\ writers'.count = writers.count - 1
    BY <1>1, <2>4
  <2> QED
    BY <2>1, <2>2, <2>3, <2>5
<1>5. /\ Sleeping("write") = {s[i] : i \in 1..writers.count}
      /\ \A i, j \in 1..writers.count : s[i] = s[j] => i = j
  BY <1>3 DEF Line
<1>6. /\ w = Head(s) /\ w = s[1] /\ \A i \in 1..(writers.count - 1) : Tail(s)[i] = s[i + 1]
      /\ Len(Tail(s)) = writers.count - 1
  BY <1>4, HeadTailProperties
<1> HIDE DEF s, w
<1>7. w \in Sleeping("write")
  BY <1>4, <1>5, <1>6
<1>8. w \in Threads /\ w # t /\ pc[w] = "wait" /\ role[w] = "write" /\ w \notin awake
  BY <1>1, <1>7 DEF Sleeping
<1>9. \A u \in Threads : /\ u # t => pc'[u] = pc[u]
                         /\ u = t => pc'[u] = x /\ pc[u] = "in" /\ u \notin awake
  BY <1>1, <1>2
<1>10. /\ Sleeping("read")' = Sleeping("read")
       /\ Sleeping("write")' = Sleeping("write") \ {w}
  BY <1>1, <1>8, <1>9 DEF Sleeping
<1>11. /\ Counts(Holding("read") \ {t}, Holding("write") \ {t}, 0)
       /\ t \in Holding("read") \cup Holding("write")
  BY <1>1, Leaving
<1>12. Holding("read") \ {t} = {} /\ Holding("write") \ {t} = {}
  <2>1. Holding("read") \ {t} \in SUBSET Threads /\ Holding("write") \ {t} \in SUBSET Threads
    BY DEF Holding
  <2> QED
    BY <1>11, <2>1, CountZero
<1>13. /\ Holding("read")' = Holding("read") \ {t}
       /\ Holding("write")' = (Holding("write") \ {t}) \cup {w}
  BY <1>1, <1>8, <1>9 DEF Holding
<1>14. Holding("read")' = {} /\ Holding("write")' = {w}
  BY <1>12, <1>13
<1>15. RuncountIsTrue'
  BY <1>1, <1>14, FS_Singleton DEF RuncountIsTrue
<1>16. Line(writers, "write")'
  <2>1. {Tail(s)[i] : i \in 1..(writers.count - 1)} = Sleeping("write") \ {w}
    <3>1. ASSUME NEW i \in 1..(writers.count - 1)
          PROVE  Tail(s)[i] \in Sleeping("write") \ {w}
      <4>1. i + 1 \in 1..writers.count /\ 1 \in 1..writers.count /\ i + 1 # 1
        BY <1>4
      <4>2. s[i + 1] \in Sleeping("write") /\ s[i + 1] # s[1]
        BY <1>5, <4>1
      <4> QED
        BY <1>6, <4>2
    <3>2. ASSUME NEW u \in Sleeping("write") \ {w}
          PROVE  \E i \in 1..(writers.count - 1) : Tail(s)[i] = u
      <4>1. PICK i \in 1..writers.count : s[i] = u
        BY <1>5
      <4>2. i # 1 /\ i - 1 \in 1..(writers.count - 1) /\ (i - 1) + 1 = i
        BY <1>4, <1>6, <3>2, <4>1
      <4>3. Tail(s)[i - 1] = u
        BY <1>6, <4>1, <4>2
      <4> QED
        BY <4>2, <4>3
    <3> HIDE DEF Inv, TypeOK
    <3> QED
      BY <3>1, <3>2
  <2>2. ASSUME NEW i \in 1..(writers.count - 1), NEW j \in 1..(writers.count - 1),
               Tail(s)[i] = Tail(s)[j]
        PROVE  i = j
    <3>1. i + 1 \in 1..writers.count /\ j + 1 \in 1..writers.count
      BY <1>4
    <3>2. s[i + 1] = s[j + 1]
      BY <1>6, <2>2
    <3>3. i + 1 = j + 1
      BY <1>5, <3>1, <3>2
    <3> QED
      BY <3>3
  <2> DEFINE z == Queued(writers')
  <2>3. z = Tail(s)
    BY <1>4
  <2> HIDE DEF z
  <2>4. Sleeping("write")' = {z[i] : i \in 1..(writers.count - 1)}
    BY <1>10, <2>1, <2>3
  <2>5. \A i, j \in 1..(writers.count - 1) : z[i] = z[j] => i = j
    BY <2>2, <2>3
  <2> QED
    BY <1>4, <2>4, <2>5 DEF Line, z
<1>17. Win32OK' /\ PthreadOK'
  <2>1. Line(readers, "read")'
    BY <1>1, <1>3, <1>10 DEF Line
  <2> QED
    BY <1>1, <1>16, <2>1 DEF Win32OK, PthreadOK
<1>18. TypeOK'
  <2>1. awake' \subseteq {u \in Threads : pc'[u] = "wait"}
    BY <1>1, <1>8, <1>9
  <2> QED
    BY <1>1, <1>2, <1>4, <2>1 DEF PCs, guard
<1>19. StartOK'
  BY <1>1, <1>2, StaysInitialised DEF PCs
<1>20. NoWakeUpLost'
  BY <1>1, <1>9 DEF NoWakeUpLost
<1>21. Lock!HandsOver(t)
  <2>1. Holding("read") \cup Holding("write") = {t}
    BY <1>11, <1>12
  <2>2. Queued(writers)' = Tail(Queued(writers)) /\ Queued(writers) # <<>>
        /\ w = Head(Queued(writers))
    BY <1>4, <1>6 DEF s
  <2> QED
    BY <1>14, <2>1, <2>2 DEF Lock!HandsOver
<1> QED
  BY <1>15, <1>17, <1>18, <1>19, <1>20, <1>21 DEF LockStep, Lock!Next

\* or, when no writer is there, for all readers.
LEMMA HandsToReaders ==
  ASSUME Inv, NEW t \in Threads, LeavesHanding(t), writers.count = 0
  PROVE  Inv' /\ LockStep
<1> USE DEF Inv, TypeOK
<1> DEFINE S == Sleeping("read")
<1>1. Line(readers, "read") /\ Line(writers, "write")
  BY DEF LeavesHanding, Win32OK
<1>2. S = {Queued(readers)[i] : i \in 1..readers.count}
  BY <1>1 DEF Line
<1>3. /\ build = "win32" /\ pc[t] = "in" /\ Left = 0
      /\ runcount' = readers.count /\ awake' = awake \cup S /\ readers' = AllOff(readers)
      /\ UNCHANGED <<build, role, waitingWriters, writers, guard>>
  BY <1>2 DEF LeavesHanding
<1>4. PICK x \in {"out", "gone"} : pc' = [pc EXCEPT ![t] = x]
  BY DEF LeavesHanding, Outside
<1>5. Ring(readers') /\ readers'.count = 0 /\ Queued(writers) = <<>> /\ readers.count \in Nat
  BY <1>3, EmptyRings DEF Ring
<1>6. Cardinality(S) = readers.count
  BY <1>1, LineCount
<1>7. S \subseteq {u \in Threads : pc[u] = "wait" /\ role[u] = "read" /\ u # t}
  BY <1>3 DEF Sleeping
<1>8. Sleeping("write") = {}
  BY <1>1 DEF Line
<1>9. \A u \in Threads : /\ u # t => pc'[u] = pc[u]
                         /\ u = t => pc'[u] = x /\ pc[u] = "in" /\ u \notin awake
  BY <1>3, <1>4
<1>10. Sleeping("read")' = {} /\ Sleeping("write")' = {}
  <2>1. Sleeping("read")' = {}
    BY <1>3, <1>4, <1>9 DEF Sleeping
  <2>2. Sleeping("write")' = {}
    BY <1>3, <1>4, <1>7, <1>8, <1>9 DEF Sleeping
  <2> QED
    BY <2>1, <2>2
<1>11. /\ Counts(Holding("read") \ {t}, Holding("write") \ {t}, 0)
       /\ t \in Holding("read") \cup Holding("write")
  BY <1>3, Leaving
<1>12. Holding("read") \ {t} = {} /\ Holding("write") \ {t} = {}
  <2>1. Holding("read") \ {t} \in SUBSET Threads /\ Holding("write") \ {t} \in SUBSET Threads
    BY DEF Holding
  <2> QED
    BY <1>11, <2>1, CountZero
<1> HIDE DEF S
<1>13. /\ Holding("read")' = (Holding("read") \ {t}) \cup S
       /\ Holding("write")' = Holding("write") \ {t}
  BY <1>3, <1>7, <1>9 DEF Holding
<1>14. Holding("read")' = S /\ Holding("write")' = {}
  BY <1>12, <1>13
<1>15. RuncountIsTrue'
  BY <1>3, <1>6, <1>14 DEF RuncountIsTrue
<1>16. Win32OK' /\ PthreadOK'
  <2>1. Line(readers, "read")' /\ Line(writers, "write")'
    <3>1. 1..0 = {}
      OBVIOUS
    <3>2. readers'.count = 0 /\ writers'.count = 0
      BY <1>3, <1>5
    <3> QED
      BY <1>10, <3>1, <3>2 DEF Line
  <2> QED
    BY <1>3, <1>5, <2>1 DEF Win32OK, PthreadOK
<1>17. TypeOK'
  <2>1. awake' \subseteq {u \in Threads : pc'[u] = "wait"}
    BY <1>3, <1>7, <1>9
  <2> QED
    BY <1>3, <1>4, <1>5, <2>1 DEF PCs, guard
<1>18. StartOK'
  BY <1>3, <1>4, StaysInitialised DEF PCs
<1>19. NoWakeUpLost'
  <2>1. \A r \in {"read", "write"} : Waiting(r)' \ awake' = Sleeping(r)'
    BY DEF Waiting, Sleeping
  <2>2. \A u \in Threads : pc'[u] # "aborted"
    BY <1>4, <1>9 DEF NoWakeUpLost
  <2> QED
    BY <1>3, <1>10, <2>1, <2>2 DEF NoWakeUpLost
<1>20. Lock!HandsOver(t)
  <2>1. Holding("read") \cup Holding("write") = {t}
    BY <1>11, <1>12
  <2>2. Queued(writers)' = Queued(writers)
    BY <1>3
  <2>3. S \in SUBSET (Threads \ {t})
    BY <1>7
  <2> QED
    BY <1>5, <1>14, <2>1, <2>2, <2>3 DEF Lock!HandsOver
<1> QED
  BY <1>15, <1>16, <1>17, <1>18, <1>19, <1>20 DEF LockStep, Lock!Next

\* Every step keeps the invariant, and is one of the abstract lock or none.
LEMMA Step ==
  ASSUME Inv, [Next]_vars
  PROVE  Inv' /\ LockStep
<1>1. CASE UNCHANGED vars
  <2>1. UNCHANGED <<build, may, pc, role, awake, runcount, waitingWriters, readers, writers, done, started>>
    BY <1>1 DEF vars, thread, queues, guard
  <2>2. TypeOK' /\ StartOK' /\ PthreadOK'
    BY <2>1 DEF Inv, TypeOK, StartOK, PthreadOK
  <2>3. /\ Holding("read")' = Holding("read") /\ Holding("write")' = Holding("write")
        /\ Waiting("read")' = Waiting("read") /\ Waiting("write")' = Waiting("write")
        /\ Sleeping("read")' = Sleeping("read") /\ Sleeping("write")' = Sleeping("write")
        /\ Queued(writers)' = Queued(writers)
    BY <2>1 DEF Holding, Waiting, Sleeping
  <2>4. Win32OK' /\ RuncountIsTrue' /\ NoWakeUpLost'
    BY <2>1, <2>3 DEF Inv, Win32OK, Line, RuncountIsTrue, NoWakeUpLost
  <2> QED
    BY <2>2, <2>3, <2>4 DEF Inv, LockStep, Lock!vars
<1>2. ASSUME NEW t \in Threads, Enters(t)
      PROVE  Inv' /\ LockStep
  BY <1>2, TakesStep, WaitsStep, QueuesStep, GoesOn DEF Enters
<1>3. ASSUME NEW t \in Threads, Leaves(t)
      PROVE  Inv' /\ LockStep
  <2>1. CASE LeavesOthers(t)
    BY <2>1, LeavesOthersStep
  <2>2. CASE LeavesSignalling(t)
    BY <2>2, SignalsStep
  <2>3. CASE LeavesHanding(t)
    BY <2>3, HandsToWriter, HandsToReaders DEF LeavesHanding
  <2> QED
    BY <1>3, <2>1, <2>2, <2>3 DEF Leaves
<1>4. ASSUME NEW t \in Threads, Wakes(t) \/ WakesForNothing(t)
      PROVE  Inv' /\ LockStep
  BY <1>4, RetriesStep DEF Wakes, WakesForNothing
<1> QED
  BY <1>1, <1>2, <1>3, <1>4, AsksStep, InitialisesStep, GoesOn, TakesStep, FollowsStep DEF Next

LEMMA Start == Init => Inv /\ Lock!Init
<1> SUFFICES ASSUME Init
             PROVE  Inv /\ Lock!Init
  OBVIOUS
<1>1. PICK c \in Casts : build = c.build
  BY DEF Init
<1>2. build \in {"pthread", "win32"}
  BY <1>1, LockOK
<1>3. Ring(readers) /\ Ring(writers) /\ readers.count = 0 /\ writers.count = 0
  BY EmptyRings DEF Init, EmptyQueue
<1>4. TypeOK
  BY <1>2, <1>3 DEF Init, TypeOK, PCs
<1>5. StartOK /\ PthreadOK
  <2>1. \A t \in Threads : pc[t] = "out"
    BY DEF Init
  <2>2. ~done => build = "win32"
    BY <1>2 DEF Init
  <2>3. runcount = 0 /\ started = -1 /\ readers = EmptyQueue /\ writers = EmptyQueue
    BY DEF Init
  <2> QED
    BY <2>1, <2>2, <2>3 DEF StartOK, PthreadOK
<1>6. /\ Holding("read") = {} /\ Holding("write") = {}
      /\ Waiting("read") = {} /\ Waiting("write") = {}
      /\ Sleeping("read") = {} /\ Sleeping("write") = {}
  BY DEF Init, Holding, Waiting, Sleeping
<1>7. Win32OK
  <2>1. 1..0 = {}
    OBVIOUS
  <2> QED
    BY <1>3, <1>6, <2>1 DEF Win32OK, Line
<1>8. RuncountIsTrue
  BY <1>6, FS_EmptySet DEF Init, RuncountIsTrue
<1>9. NoWakeUpLost
  BY <1>6, FS_EmptySet DEF Init, NoWakeUpLost
<1>10. Lock!Init
  BY <1>6, EmptyRings DEF Init, Lock!Init, Lock!Free
<1> QED
  BY <1>4, <1>5, <1>7, <1>8, <1>9, <1>10 DEF Inv

LEMMA Invariant == Spec => []Inv
<1>1. Init => Inv
  BY Start
<1>2. Inv /\ [Next]_vars => Inv'
  BY Step
<1> QED
  BY <1>1, <1>2, PTL DEF Spec
-----------------------------------------------------------------------------
\* The count is true for any number of threads: a writer is alone, no reader is
\* lost or counted twice (glthread_rwlock_rdlock, _wrlock and _unlock).
THEOREM CountIsTrue == Spec => []RuncountIsTrue
<1>1. Inv => RuncountIsTrue
  BY DEF Inv
<1> QED
  BY <1>1, Invariant, PTL

\* Whoever waits will be woken by one who holds the lock, or has been woken.
THEOREM NobodyForgotten == Spec => []NoWakeUpLost
<1>1. Inv => NoWakeUpLost
  BY DEF Inv
<1> QED
  BY <1>1, Invariant, PTL

\* Both builds are the lock that lock.h promises; on win32 the writers in the queue
\* get it in the order they came, whatever the size of the ring.
THEOREM LockImplemented == Spec => ImplementsLock
<1>1. Init => Lock!Init
  BY Start
<1>2. Inv /\ [Next]_vars => [Lock!Next]_(Lock!vars)
  BY Step DEF LockStep
<1> QED
  BY <1>1, <1>2, Invariant, PTL DEF Spec, ImplementsLock, Lock!Spec
=============================================================================
