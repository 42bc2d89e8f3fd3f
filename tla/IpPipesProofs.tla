---------------------------- MODULE IpPipesProofs ----------------------------
(***************************************************************************)
(* For any number of children and of failing forks, and with SIGCHLD       *)
(* between any two statements: table and list keep their types, the loop   *)
(* that removes entries stays inside the array, the table is a row of      *)
(* pairs, and nobody who was reaped is left with pipes and no entry.       *)
(* TypeOK and InBounds are inductive together, neither is alone; the rest  *)
(* is inductive as Rows, which says where the list counts in the middle of *)
(* the removal of an entry.                                                *)
(***************************************************************************)
EXTENDS IpPipes, SequenceTheorems, WellFoundedInduction, TLAPS

-----------------------------------------------------------------------------
(* Sequences and sets of numbers. *)

\* A set of numbers that is not empty has its Min in it, and none is less.
LEMMA MinIsLeast ==
  ASSUME NEW S \in SUBSET Nat, S # {}
  PROVE  Min(S) \in S /\ \A n \in S : Min(S) <= n
<1>1. \E m \in S : \A n \in S : ~ (<<n, m>> \in OpToRel(<, Nat))
  BY WFMin, NatLessThanWellFounded, Zenon
<1>2. PICK m \in S : \A n \in S : ~ (<<n, m>> \in OpToRel(<, Nat))
  BY <1>1
<1>3. ASSUME NEW n \in S, n < m
      PROVE  FALSE
  <2>1. <<n, m>> \in Nat \X Nat
    OBVIOUS
  <2>2. <<n, m>>[1] = n /\ <<n, m>>[2] = m
    OBVIOUS
  <2>3. <<n, m>> \in OpToRel(<, Nat)
    BY <1>3, <2>1, <2>2, Zenon DEF OpToRel
  <2> QED
    BY <1>2, <2>3
<1>4. \A n \in S : m <= n
  BY <1>3
<1> QED
  BY <1>4 DEF Min

\* An entry of a sequence is removed; removing one that is not there keeps a
\* sequence.
LEMMA RemovedIsSeq ==
  ASSUME NEW S, NEW s \in Seq(S), NEW n \in 0..Len(s) + 1
  PROVE  /\ RemoveAt(s, n) \in Seq(S)
         /\ n \in 1..Len(s) =>
              /\ Len(RemoveAt(s, n)) = Len(s) - 1
              /\ \A p \in 1..Len(s) - 1 :
                   RemoveAt(s, n)[p] = IF p < n THEN s[p] ELSE s[p + 1]
<1> DEFINE front == SubSeq(s, 1, n - 1)
           back  == SubSeq(s, n + 1, Len(s))
<1>1. Len(s) \in Nat /\ \A k \in 1..Len(s) : s[k] \in S
  BY LenProperties
<1>2. /\ front \in Seq(S)
      /\ Len(front) = IF 1 <= n - 1 THEN n - 1 ELSE 0
      /\ \A p \in 1..n - 1 : front[p] = s[p]
  BY <1>1, SubSeqProperties
<1>3. /\ back \in Seq(S)
      /\ Len(back) = IF n + 1 <= Len(s) THEN Len(s) - n ELSE 0
      /\ \A p \in 1..Len(s) - n : back[p] = s[n + p]
  BY <1>1, SubSeqProperties
<1>4. RemoveAt(s, n) = front \o back
  BY DEF RemoveAt
<1> HIDE DEF front, back
<1>5. /\ RemoveAt(s, n) \in Seq(S)
      /\ Len(RemoveAt(s, n)) = Len(front) + Len(back)
      /\ \A p \in 1..Len(front) + Len(back) :
           RemoveAt(s, n)[p] = IF p <= Len(front) THEN front[p] ELSE back[p - Len(front)]
  <2>1. front \in Seq(S) /\ back \in Seq(S)
    BY <1>2, <1>3
  <2>2. /\ front \o back \in Seq(S)
        /\ Len(front \o back) = Len(front) + Len(back)
        /\ \A p \in 1..Len(front) + Len(back) :
             (front \o back)[p] = IF p <= Len(front) THEN front[p] ELSE back[p - Len(front)]
    BY <2>1, ConcatProperties
  <2> QED
    BY <1>4, <2>2, Zenon
<1>6. ASSUME n \in 1..Len(s)
      PROVE  /\ Len(RemoveAt(s, n)) = Len(s) - 1
             /\ \A p \in 1..Len(s) - 1 :
                  RemoveAt(s, n)[p] = IF p < n THEN s[p] ELSE s[p + 1]
  <2>1. Len(front) = n - 1 /\ Len(back) = Len(s) - n
    BY <1>1, <1>2, <1>3, <1>6
  <2>2. Len(RemoveAt(s, n)) = Len(s) - 1
    BY <1>1, <1>5, <1>6, <2>1
  <2>3. ASSUME NEW p \in 1..Len(s) - 1
        PROVE  RemoveAt(s, n)[p] = IF p < n THEN s[p] ELSE s[p + 1]
    <3>1. RemoveAt(s, n)[p] = IF p <= n - 1 THEN front[p] ELSE back[p - (n - 1)]
      BY <1>1, <1>5, <1>6, <2>1
    <3>2. CASE p < n
      BY <1>1, <1>2, <1>6, <3>1, <3>2
    <3>3. CASE ~(p < n)
      <4>1. p - (n - 1) \in 1..Len(s) - n
        BY <1>1, <1>6, <3>3
      <4>2. back[p - (n - 1)] = s[n + (p - (n - 1))]
        BY <1>3, <4>1
      <4> QED
        BY <1>1, <1>6, <3>1, <3>3, <4>2
    <3> QED
      BY <3>2, <3>3
  <2> QED
    BY <2>2, <2>3
<1> QED
  BY <1>5, <1>6

-----------------------------------------------------------------------------
USE PipesOK DEF NoPid, Parent, Unset, Children

\* ip_pipe_get_bypid_both returns an index of the table, or says that there is none.
LEMMA IndexInRange ==
  ASSUME NEW s \in Seq(Pipe), NEW to, NEW from
  PROVE  Index(s, to, from) \in 0..Len(s)
<1> DEFINE I == {n \in 1..Len(s) : s[n].to = to /\ s[n].from = from}
<1>1. Index(s, to, from) = IF I # {} THEN Min(I) ELSE 0
  BY DEF Index, SelectInSeq
<1>2. I \in SUBSET Nat /\ I \subseteq 1..Len(s) /\ Len(s) \in Nat
  BY LenProperties
<1> HIDE DEF I
<1>3. I # {} => Min(I) \in I
  BY <1>2, MinIsLeast
<1>4. CASE I = {}
  BY <1>1, <1>2, <1>4
<1>5. CASE I # {}
  <2>1. Index(s, to, from) = Min(I)
    BY <1>1, <1>5, Zenon
  <2>2. Min(I) \in 1..Len(s)
    BY <1>2, <1>3, <1>5
  <2> QED
    BY <1>2, <2>1, <2>2
<1> QED
  BY <1>4, <1>5

\* Linking keeps the table a table.
LEMMA LinkedIsSeq ==
  ASSUME NEW s \in Seq(Pipe), NEW n \in 0..Len(s), NEW m \in 0..Len(s), NEW k \in Children
  PROVE  LinkedOn(s, n, m, k) \in Seq(Pipe)
<1>1. Len(s) \in Nat /\ s \in [1..Len(s) -> Pipe]
  BY LenProperties
<1>2. LinkedOn(s, n, m, k) \in [1..Len(s) -> Pipe]
  BY <1>1 DEF LinkedOn, Pipe
<1> QED
  BY <1>1, <1>2

\* realloc() to n entries.
LEMMA ResizedIsSeq ==
  ASSUME NEW s \in Seq(Children \cup {Unset}), NEW n \in Nat
  PROVE  /\ Resized(s, n) \in Seq(Children \cup {Unset})
         /\ Len(Resized(s, n)) = n
<1>1. Len(s) \in Nat /\ \A k \in 1..Len(s) : s[k] \in Children \cup {Unset}
  BY LenProperties
<1>2. Resized(s, n) \in [1..n -> Children \cup {Unset}]
  BY <1>1 DEF Resized
<1> QED
  BY <1>2

\* Freeing both pipes of a child that has both keeps the table a table, although
\* the second index is one of the table before the first removal.
LEMMA FreedIsSeq ==
  ASSUME NEW s \in Seq(Pipe), NEW k,
         Index(s, k, Parent) # 0, Index(s, Parent, k) # 0
  PROVE  Freed(s, k) \in Seq(Pipe)
<1> DEFINE n == Index(s, k, Parent)
           m == Index(s, Parent, k)
           t == RemoveAt(s, n)
<1>1. n \in 1..Len(s) /\ m \in 1..Len(s) /\ Len(s) \in Nat
  BY IndexInRange, LenProperties
<1> HIDE DEF n, m
<1>2. t \in Seq(Pipe) /\ Len(t) = Len(s) - 1
  BY <1>1, RemovedIsSeq
<1> HIDE DEF t
<1>3. RemoveAt(t, m) \in Seq(Pipe)
  BY <1>1, <1>2, RemovedIsSeq
<1> QED
  BY <1>3 DEF Freed, n, m, t

\* An entry of the array is overwritten.
LEMMA ExceptIsSeq ==
  ASSUME NEW S, NEW s \in Seq(S), NEW n, NEW e, n \in 1..Len(s) => e \in S
  PROVE  [s EXCEPT ![n] = e] \in Seq(S) /\ Len([s EXCEPT ![n] = e]) = Len(s)
<1>1. Len(s) \in Nat /\ s \in [1..Len(s) -> S]
  BY LenProperties
<1>2. [s EXCEPT ![n] = e] \in [1..Len(s) -> S]
  BY <1>1
<1> QED
  BY <1>1, <1>2

\* A step from a state of the right types leads to another.
LEMMA Step ==
  ASSUME TypeOK, InBounds, [Next]_vars
  PROVE  TypeOK' /\ InBounds'
<1> USE DEF TypeOK, InBounds, procs, cleanup
<1>a. Len(old) \in Nat /\ \A n \in 1..Len(old) : old[n] \in Children \cup {Unset}
  BY LenProperties
<1>b. WithTwoMore \in Seq(Pipe)
  BY ConcatProperties DEF WithTwoMore, Pipe
<1>1. CASE Fork
  <2>1. forks + 1 \in Children
    BY <1>1 DEF Fork
  <2>2. pipes' \in Seq(Pipe)
    BY <1>1, <1>b, <2>1, IndexInRange, LinkedIsSeq DEF Fork
  <2> QED
    BY <1>1, <2>1, <2>2 DEF Fork, Idle
<1>2. CASE ForkFails
  BY <1>2, <1>b DEF ForkFails, Idle
<1>3. CASE Archive
  BY <1>3 DEF Archive
<1>4. CASE Archived
  BY <1>4 DEF Archived
<1>5. ASSUME NEW k \in Children, Exit(k)
      PROVE  TypeOK' /\ InBounds'
  BY <1>5 DEF Exit
<1>6. ASSUME NEW k \in Children, Reap(k)
      PROVE  TypeOK' /\ InBounds'
  <2>1. Resized(old, num + 1) \in Seq(Children \cup {Unset}) /\ Len(Resized(old, num + 1)) = num + 1
    BY ResizedIsSeq
  <2>2. old' = [Resized(old, num + 1) EXCEPT ![num + 1] = k] /\ num' = num + 1
    BY <1>6 DEF Reap, Flagged
  <2>3. old' \in Seq(Children \cup {Unset}) /\ Len(old') = num + 1
    BY <2>1, <2>2, ExceptIsSeq
  <2> QED
    BY <1>6, <2>2, <2>3 DEF Reap
<1>7. CASE HandleOldPids
  BY <1>7 DEF HandleOldPids, Idle
<1>8. CASE Frees
  <2>1. pipes' \in Seq(Pipe)
    BY <1>8, FreedIsSeq DEF Frees, HasPipes
  <2> QED
    BY <1>8, <2>1 DEF Frees
<1>9. CASE Passes
  BY <1>9 DEF Passes
<1>10. CASE ScanEnds
  BY <1>10 DEF ScanEnds
<1>11. CASE Shifts
  <2>1. CASE j > num
    BY <1>11, <2>1 DEF Shifts
  <2>2. CASE j <= num
    <3>1. old' = [old EXCEPT ![j - 1] = old[j]] /\ pc' = "shift" /\ j' = j + 1
      BY <1>11, <2>2 DEF Shifts
    <3>2. old[j] \in Children \cup {Unset}
      BY <1>11, <1>a, <2>2 DEF Shifts
    <3>3. old' \in Seq(Children \cup {Unset}) /\ Len(old') = Len(old)
      BY <3>1, <3>2, ExceptIsSeq
    <3> QED
      BY <1>11, <2>2, <3>1, <3>3 DEF Shifts
  <2> QED
    BY <2>1, <2>2
<1>12. CASE Zeroes
  <2>1. old' \in Seq(Children \cup {Unset}) /\ Len(old') = Len(old)
    BY <1>12, ExceptIsSeq DEF Zeroes
  <2> QED
    BY <1>12, <2>1 DEF Zeroes
<1>13. CASE Shrinks
  <2>1. num - 1 \in Nat /\ old' = Resized(old, num - 1)
    BY <1>13 DEF Shrinks
  <2>2. old' \in Seq(Children \cup {Unset}) /\ Len(old') = num - 1
    BY <2>1, ResizedIsSeq
  <2> QED
    BY <1>13, <2>1, <2>2 DEF Shrinks
<1>14. CASE CountsDown
  BY <1>14, <1>a DEF CountsDown
<1>15. CASE UNCHANGED vars
  BY <1>15 DEF vars
<1> QED
  BY <1>1, <1>2, <1>3, <1>4, <1>5, <1>6, <1>7, <1>8, <1>9, <1>10, <1>11, <1>12, <1>13, <1>14, <1>15
  DEF Next, Cleanup
-----------------------------------------------------------------------------
\* The types and the bounds together are an invariant.
LEMMA Invariant == Spec => [](TypeOK /\ InBounds)
<1>1. Init => TypeOK /\ InBounds
  <2> SUFFICES ASSUME Init
               PROVE  TypeOK /\ InBounds
    OBVIOUS
  <2>1. pipes \in Seq(Pipe) /\ old \in Seq(Children \cup {Unset}) /\ Len(old) = 0
    BY EmptySeq DEF Init
  <2>2. signal \in BOOLEAN /\ handled \in BOOLEAN /\ archiving \in BOOLEAN /\ quiet \in BOOLEAN
    BY Zenon DEF Init
  <2>3. num \in Nat /\ i \in Nat \ {0} /\ j \in Nat \ {0} /\ forks \in 0..MaxForks /\ failed \in 0..MaxFailed
    BY DEF Init
  <2>4. alive \subseteq Children /\ dead \subseteq Children /\ pc = "idle"
    BY DEF Init
  <2> QED
    BY <2>1, <2>2, <2>3, <2>4 DEF Init, TypeOK, InBounds
<1> QED
  BY <1>1, Step, PTL DEF Spec

\* Every variable keeps its type, wherever the signals fall.
THEOREM TypeCorrect == Spec => []TypeOK
<1> QED
  BY Invariant, PTL

\* ip_pipe_handle_old_pids and ip_pipe_flag_pid_old never leave pids_unhandled,
\* wherever the signals fall: the length changes before the count when an entry
\* goes, and a signal in between makes it longer than the count again.
THEOREM StaysInBounds == Spec => []InBounds
<1> QED
  BY Invariant, PTL
-----------------------------------------------------------------------------
\* The table as pairs: the p-th is of nobody yet, or of one child of the f there were.
FreePair(s, p)     == /\ s[2 * p - 1] = [to |-> Parent, from |-> NoPid]
                      /\ s[2 * p] = [to |-> NoPid, from |-> NoPid]
ChildPair(s, p, k) == /\ s[2 * p - 1] = [to |-> Parent, from |-> k]
                      /\ s[2 * p] = [to |-> k, from |-> Parent]

Paired(s, h, f) ==
  /\ s \in Seq(Pipe) /\ Len(s) = 2 * h
  /\ \A p \in 1..h : FreePair(s, p) \/ \E k \in 1..f : ChildPair(s, p, k)
  /\ \A p, q \in 1..h : \A k \in 1..f : ChildPair(s, p, k) /\ ChildPair(s, q, k) => p = q

\* Every index is that of one half of a pair.
LEMMA Halves ==
  ASSUME NEW h \in Nat, NEW n \in 1..2 * h
  PROVE  \E p \in 1..h : n = 2 * p - 1 \/ n = 2 * p
<1> DEFINE p == (n + 1) \div 2
<1>1. p \in 1..h /\ (n = 2 * p - 1 \/ n = 2 * p)
  OBVIOUS
<1> QED
  BY <1>1

LEMMA OddIndex ==
  ASSUME NEW h \in Nat, NEW n \in 1..2 * h, n % 2 = 1
  PROVE  \E p \in 1..h : n = 2 * p - 1
<1>1. PICK p \in 1..h : n = 2 * p - 1 \/ n = 2 * p
  BY Halves
<1>2. (2 * p) % 2 = 0
  OBVIOUS
<1> QED
  BY <1>1, <1>2

\* What ip_pipe_get_bypid_both finds is there, and it is the first such.
LEMMA IndexIsFirst ==
  ASSUME NEW s \in Seq(Pipe), NEW to, NEW from
  PROVE  /\ Index(s, to, from) # 0 =>
              LET n == Index(s, to, from)
              IN  n \in 1..Len(s) /\ s[n].to = to /\ s[n].from = from
         /\ \A n \in 1..Len(s) : s[n].to = to /\ s[n].from = from =>
              Index(s, to, from) \in 1..n
<1> DEFINE I == {n \in 1..Len(s) : s[n].to = to /\ s[n].from = from}
<1>1. Index(s, to, from) = IF I # {} THEN Min(I) ELSE 0
  BY DEF Index, SelectInSeq
<1>2. I \in SUBSET Nat /\ Len(s) \in Nat
  BY LenProperties
<1>3. ASSUME I # {}
      PROVE  /\ Index(s, to, from) \in I
             /\ \A n \in I : Index(s, to, from) <= n
  <2> HIDE DEF I
  <2>1. Min(I) \in I /\ \A n \in I : Min(I) <= n
    BY <1>2, <1>3, MinIsLeast
  <2> QED
    BY <1>1, <1>3, <2>1, Zenon
<1>4. Index(s, to, from) # 0 => I # {}
  BY <1>1
<1> QED
  BY <1>2, <1>3, <1>4
\* What the two halves of a pair say.
Half(s, p, f) ==
  \/ /\ FreePair(s, p)
     /\ s[2 * p - 1].to = Parent /\ s[2 * p - 1].from = NoPid
     /\ s[2 * p].to = NoPid /\ s[2 * p].from = NoPid
  \/ \E k \in 1..f :
     /\ ChildPair(s, p, k)
     /\ s[2 * p - 1].to = Parent /\ s[2 * p - 1].from = k
     /\ s[2 * p].to = k /\ s[2 * p].from = Parent

LEMMA HalfIs ==
  ASSUME NEW s, NEW h \in Nat, NEW f \in 0..MaxForks, Paired(s, h, f), NEW p \in 1..h
  PROVE  2 * p - 1 \in 1..Len(s) /\ 2 * p \in 1..Len(s) /\ Half(s, p, f)
<1>1. CASE FreePair(s, p)
  BY <1>1 DEF FreePair, Paired, Half
<1>2. ASSUME NEW k \in 1..f, ChildPair(s, p, k)
      PROVE  /\ s[2 * p - 1].to = Parent /\ s[2 * p - 1].from = k
             /\ s[2 * p].to = k /\ s[2 * p].from = Parent
  BY <1>2 DEF ChildPair
<1>3. 2 * p - 1 \in 1..Len(s) /\ 2 * p \in 1..Len(s)
  BY DEF Paired
<1> QED
  BY <1>1, <1>2, <1>3 DEF Paired, Half

\* The first free places are the two of one pair.
LEMMA FreeIndices ==
  ASSUME NEW s, NEW h \in Nat, NEW f \in 0..MaxForks, Paired(s, h, f),
         NEW q \in 1..h, FreePair(s, q)
  PROVE  \E p \in 1..h : /\ FreePair(s, p)
                         /\ Index(s, Parent, NoPid) = 2 * p - 1
                         /\ Index(s, NoPid, NoPid) = 2 * p
<1> DEFINE n == Index(s, Parent, NoPid)
           m == Index(s, NoPid, NoPid)
<1>1. s \in Seq(Pipe) /\ Len(s) = 2 * h
  BY DEF Paired
<1>2. /\ s[2 * q - 1].to = Parent /\ s[2 * q - 1].from = NoPid
      /\ s[2 * q].to = NoPid /\ s[2 * q].from = NoPid
      /\ 2 * q - 1 \in 1..Len(s) /\ 2 * q \in 1..Len(s)
  BY HalfIs DEF FreePair
<1>3. /\ n \in 1..2 * h /\ s[n].to = Parent /\ s[n].from = NoPid
      /\ m \in 1..2 * h /\ s[m].to = NoPid /\ s[m].from = NoPid
  <2>1. n # 0 /\ m # 0
    BY <1>1, <1>2, IndexIsFirst
  <2> QED
    BY <1>1, <2>1, IndexIsFirst
<1>4. \A x \in 1..2 * h : /\ s[x].to = Parent /\ s[x].from = NoPid => n <= x
                          /\ s[x].to = NoPid /\ s[x].from = NoPid => m <= x
  BY <1>1, IndexIsFirst
<1> HIDE DEF n, m
<1>5. PICK p \in 1..h : n = 2 * p - 1 \/ n = 2 * p
  BY <1>3, Halves
<1>6. PICK r \in 1..h : m = 2 * r - 1 \/ m = 2 * r
  BY <1>3, Halves
<1>7. n = 2 * p - 1 /\ FreePair(s, p)
  <2>1. Half(s, p, f)
    BY HalfIs
  <2> QED
    BY <1>3, <1>5, <2>1 DEF Half, Parent, NoPid, Unset, Children
<1>8. m = 2 * r /\ FreePair(s, r)
  <2>1. Half(s, r, f)
    BY HalfIs
  <2> QED
    BY <1>3, <1>6, <2>1 DEF Half, Parent, NoPid, Unset, Children
<1>9. 2 * p - 1 <= 2 * r - 1 /\ 2 * r <= 2 * p
  BY <1>1, <1>4, <1>7, <1>8 DEF FreePair
<1>10. p = r
  BY <1>9
<1> QED
  BY <1>7, <1>8, <1>10 DEF n, m

\* Both pipes of a child are the two of one pair; nothing is both Parent's.
LEMMA ChildIndices ==
  ASSUME NEW s, NEW h \in Nat, NEW f \in 0..MaxForks, Paired(s, h, f),
         NEW k \in Children \cup {Unset}, Index(s, k, Parent) # 0
  PROVE  k \in 1..f /\ \E p \in 1..h : ChildPair(s, p, k) /\ Index(s, k, Parent) = 2 * p
<1> DEFINE n == Index(s, k, Parent)
<1>1. s \in Seq(Pipe) /\ Len(s) = 2 * h
  BY DEF Paired
<1>2. n \in 1..2 * h /\ s[n].to = k /\ s[n].from = Parent
  BY <1>1, IndexIsFirst
<1> HIDE DEF n
<1>3. PICK p \in 1..h : n = 2 * p - 1 \/ n = 2 * p
  BY <1>2, Halves
<1>4. n = 2 * p /\ ChildPair(s, p, k) /\ k \in 1..f
  <2>1. Half(s, p, f)
    BY HalfIs
  <2> QED
    BY <1>2, <1>3, <2>1 DEF Half, Parent, NoPid, Unset, Children
<1> QED
  BY <1>4 DEF n

LEMMA ParentIndex ==
  ASSUME NEW s, NEW h \in Nat, NEW f \in 0..MaxForks, Paired(s, h, f),
         NEW k \in 1..f, NEW p \in 1..h, ChildPair(s, p, k)
  PROVE  Index(s, Parent, k) = 2 * p - 1 /\ Index(s, k, Parent) = 2 * p
<1> DEFINE n == Index(s, Parent, k)
<1>1. s \in Seq(Pipe) /\ Len(s) = 2 * h
  BY DEF Paired
<1>2. /\ s[2 * p - 1].to = Parent /\ s[2 * p - 1].from = k
      /\ s[2 * p].to = k /\ s[2 * p].from = Parent
      /\ 2 * p - 1 \in 1..Len(s) /\ 2 * p \in 1..Len(s)
  BY HalfIs DEF ChildPair
<1>3. n # 0 /\ Index(s, k, Parent) # 0
  BY <1>1, <1>2, IndexIsFirst
<1>4. n \in 1..2 * h /\ s[n].to = Parent /\ s[n].from = k
  BY <1>1, <1>3, IndexIsFirst
<1> HIDE DEF n
<1>5. PICK q \in 1..h : n = 2 * q - 1 \/ n = 2 * q
  BY <1>4, Halves
<1>6. n = 2 * q - 1 /\ ChildPair(s, q, k)
  <2>1. Half(s, q, f)
    BY HalfIs
  <2> QED
    BY <1>4, <1>5, <2>1 DEF Half, Parent, NoPid, Unset, Children
<1>7. q = p
  BY <1>6 DEF Paired
<1>8. k \in Children
  OBVIOUS
<1>9. PICK r \in 1..h : ChildPair(s, r, k) /\ Index(s, k, Parent) = 2 * r
  BY <1>3, <1>8, ChildIndices
<1>10. r = p
  BY <1>9 DEF Paired
<1> QED
  BY <1>6, <1>7, <1>9, <1>10 DEF n
-----------------------------------------------------------------------------
\* A pair of nobody is no child's.
LEMMA FreeOrChild ==
  ASSUME NEW s, NEW p \in Nat, NEW k, FreePair(s, p)
  PROVE  ~ChildPair(s, p, k)
<1> DEFINE x == s[2 * p]
<1>1. x = [to |-> NoPid, from |-> NoPid]
  BY DEF FreePair
<1>2. ChildPair(s, p, k) => x = [to |-> k, from |-> Parent]
  BY DEF ChildPair
<1> HIDE DEF x
<1>3. x.from = NoPid /\ (ChildPair(s, p, k) => x.from = Parent)
  BY <1>1, <1>2
<1> QED
  BY <1>3

\* ip_pipe_init twice: one more pair, of nobody, and the others as they were.
LEMMA MoreIsPaired ==
  ASSUME NEW s, NEW t, NEW h \in Nat, NEW f \in 0..MaxForks, Paired(s, h, f),
         t = s \o <<[to |-> Parent, from |-> NoPid], [to |-> NoPid, from |-> NoPid]>>
  PROVE  /\ Paired(t, h + 1, f) /\ FreePair(t, h + 1)
         /\ \A p \in 1..h : t[2 * p - 1] = s[2 * p - 1] /\ t[2 * p] = s[2 * p]
<1>1. s \in Seq(Pipe) /\ Len(s) = 2 * h
  BY DEF Paired
<1>2. /\ t \in Seq(Pipe) /\ Len(t) = 2 * (h + 1)
      /\ \A n \in 1..2 * h : t[n] = s[n]
      /\ t[2 * h + 1] = [to |-> Parent, from |-> NoPid]
      /\ t[2 * h + 2] = [to |-> NoPid, from |-> NoPid]
  <2> DEFINE u == <<[to |-> Parent, from |-> NoPid], [to |-> NoPid, from |-> NoPid]>>
  <2>1. /\ u \in Seq(Pipe) /\ Len(u) = 2
        /\ u[1] = [to |-> Parent, from |-> NoPid] /\ u[2] = [to |-> NoPid, from |-> NoPid]
    BY DEF Pipe
  <2> HIDE DEF u
  <2>2. t = s \o u
    BY DEF u
  <2>3. /\ t \in Seq(Pipe) /\ Len(t) = 2 * h + 2
        /\ \A n \in 1..2 * h + 2 : t[n] = IF n <= 2 * h THEN s[n] ELSE u[n - 2 * h]
    BY <1>1, <2>1, <2>2, ConcatProperties
  <2> QED
    BY <2>1, <2>3
<1>3. FreePair(t, h + 1)
  <2>1. 2 * (h + 1) - 1 = 2 * h + 1 /\ 2 * (h + 1) = 2 * h + 2
    OBVIOUS
  <2> QED
    BY <1>2, <2>1 DEF FreePair
<1>4. \A p \in 1..h : t[2 * p - 1] = s[2 * p - 1] /\ t[2 * p] = s[2 * p]
  <2> TAKE p \in 1..h
  <2>1. 2 * p - 1 \in 1..2 * h /\ 2 * p \in 1..2 * h
    OBVIOUS
  <2> QED
    BY <1>2, <2>1
<1>5. \A p \in 1..h + 1 : p \in 1..h \/ p = h + 1
  OBVIOUS
<1>6. \A k \in 1..f : ~ChildPair(t, h + 1, k)
  <2>1. h + 1 \in Nat
    OBVIOUS
  <2> QED
    BY <1>3, <2>1, FreeOrChild
<1>7. \A p \in 1..h : /\ FreePair(s, p) <=> FreePair(t, p)
                      /\ \A k \in 1..f : ChildPair(s, p, k) <=> ChildPair(t, p, k)
  BY <1>4 DEF FreePair, ChildPair
<1>8. \A p \in 1..h + 1 : FreePair(t, p) \/ \E k \in 1..f : ChildPair(t, p, k)
  BY <1>3, <1>5, <1>7 DEF Paired
<1>9. \A p, q \in 1..h + 1 : \A k \in 1..f :
        ChildPair(t, p, k) /\ ChildPair(t, q, k) => p = q
  <2> TAKE p, q \in 1..h + 1
  <2> TAKE k \in 1..f
  <2> HAVE ChildPair(t, p, k) /\ ChildPair(t, q, k)
  <2>1. p \in 1..h /\ q \in 1..h
    BY <1>5, <1>6
  <2>2. ChildPair(s, p, k) /\ ChildPair(s, q, k)
    BY <1>7, <2>1
  <2> QED
    BY <2>1, <2>2 DEF Paired
<1> QED
  BY <1>2, <1>3, <1>4, <1>8, <1>9 DEF Paired

\* Linking a free pair to a new child makes it the only pair of his.
LEMMA LinkedIsPaired ==
  ASSUME NEW s, NEW t, NEW h \in Nat, NEW f \in Nat, f + 1 \in Children, Paired(s, h, f),
         NEW p \in 1..h, FreePair(s, p), t = LinkedOn(s, 2 * p - 1, 2 * p, f + 1)
  PROVE  /\ Paired(t, h, f + 1)
         /\ \A q \in 1..h : \A k \in 1..f : ChildPair(t, q, k) => ChildPair(s, q, k)
<1>1. s \in Seq(Pipe) /\ Len(s) = 2 * h /\ s \in [1..2 * h -> Pipe]
  BY LenProperties DEF Paired
<1>2. 2 * p - 1 \in 1..2 * h /\ 2 * p \in 1..2 * h /\ 2 * p - 1 # 2 * p
  OBVIOUS
<1>3. /\ t \in [1..2 * h -> Pipe]
      /\ t[2 * p - 1] = [to |-> Parent, from |-> f + 1]
      /\ t[2 * p] = [to |-> f + 1, from |-> Parent]
      /\ \A n \in 1..2 * h : n # 2 * p - 1 /\ n # 2 * p => t[n] = s[n]
  <2> DEFINE u == [s EXCEPT ![2 * p - 1].from = f + 1]
  <2>1. s[2 * p - 1] = [to |-> Parent, from |-> NoPid]
    BY DEF FreePair
  <2>2. t = [u EXCEPT ![2 * p] = [to |-> f + 1, from |-> Parent]]
    BY DEF LinkedOn
  <2>3. [s[2 * p - 1] EXCEPT !.from = f + 1] = [to |-> Parent, from |-> f + 1]
    BY <2>1
  <2>4. u = [s EXCEPT ![2 * p - 1] = [to |-> Parent, from |-> f + 1]]
    BY <2>3, Zenon
  <2> HIDE DEF u
  <2>5. [to |-> Parent, from |-> f + 1] \in Pipe /\ [to |-> f + 1, from |-> Parent] \in Pipe
    BY DEF Pipe
  <2>6. /\ u \in [1..2 * h -> Pipe]
        /\ u[2 * p - 1] = [to |-> Parent, from |-> f + 1]
        /\ \A n \in 1..2 * h : n # 2 * p - 1 => u[n] = s[n]
    BY <1>1, <1>2, <2>4, <2>5, Zenon
  <2> QED
    BY <1>2, <2>2, <2>5, <2>6
<1>4. t \in Seq(Pipe) /\ Len(t) = 2 * h
  BY <1>3
<1>5. ChildPair(t, p, f + 1)
  BY <1>3 DEF ChildPair
<1>6. \A q \in 1..h : q # p => t[2 * q - 1] = s[2 * q - 1] /\ t[2 * q] = s[2 * q]
  <2> TAKE q \in 1..h
  <2> HAVE q # p
  <2>1. /\ 2 * q - 1 \in 1..2 * h /\ 2 * q \in 1..2 * h
        /\ 2 * q - 1 # 2 * p - 1 /\ 2 * q - 1 # 2 * p /\ 2 * q # 2 * p - 1 /\ 2 * q # 2 * p
    OBVIOUS
  <2> QED
    BY <1>3, <2>1
<1>7. \A q \in 1..h : q # p => /\ FreePair(s, q) <=> FreePair(t, q)
                               /\ \A k \in 1..f + 1 : ChildPair(s, q, k) <=> ChildPair(t, q, k)
  BY <1>6 DEF FreePair, ChildPair
<1>8. \A q \in 1..h : ~ChildPair(s, q, f + 1)
  <2> SUFFICES ASSUME NEW q \in 1..h, ChildPair(s, q, f + 1)
               PROVE  FALSE
    OBVIOUS
  <2>1. f \in 0..MaxForks
    OBVIOUS
  <2>2. Half(s, q, f)
    BY <2>1, HalfIs
  <2>3. s[2 * q - 1].from = f + 1
    BY DEF ChildPair
  <2> QED
    BY <2>2, <2>3 DEF Half
<1>9. \A k \in 1..f : ~ChildPair(t, p, k)
  BY <1>5 DEF ChildPair
<1>10. \A k \in 1..f + 1 : k \in 1..f \/ k = f + 1
  OBVIOUS
<1>11. \A q \in 1..h : FreePair(t, q) \/ \E k \in 1..f + 1 : ChildPair(t, q, k)
  <2> TAKE q \in 1..h
  <2>1. CASE q = p
    BY <1>5, <2>1
  <2>2. CASE q # p
    <3>1. FreePair(s, q) \/ \E k \in 1..f : ChildPair(s, q, k)
      BY DEF Paired
    <3>2. 1..f \subseteq 1..f + 1
      OBVIOUS
    <3> QED
      BY <1>7, <2>2, <3>1, <3>2
  <2> QED
    BY <2>1, <2>2
<1>12. \A q, r \in 1..h : \A k \in 1..f + 1 :
         ChildPair(t, q, k) /\ ChildPair(t, r, k) => q = r
  <2> TAKE q, r \in 1..h
  <2> TAKE k \in 1..f + 1
  <2> HAVE ChildPair(t, q, k) /\ ChildPair(t, r, k)
  <2>1. CASE k = f + 1
    BY <1>7, <1>8, <2>1
  <2>2. CASE k \in 1..f
    <3>1. q # p /\ r # p
      BY <1>9, <2>2
    <3>2. ChildPair(s, q, k) /\ ChildPair(s, r, k)
      BY <1>7, <3>1
    <3> QED
      BY <2>2, <3>2 DEF Paired
  <2> QED
    BY <1>10, <2>1, <2>2
<1>13. ASSUME NEW q \in 1..h, NEW k \in 1..f, ChildPair(t, q, k)
       PROVE  ChildPair(s, q, k)
  <2>1. q # p /\ k \in 1..f + 1
    BY <1>9, <1>13
  <2> QED
    BY <1>7, <1>13, <2>1
<1> QED
  BY <1>4, <1>11, <1>12, <1>13 DEF Paired

\* Removing both pipes of a child closes up the table behind them: the second
\* index, looked up before the first removal, is still right because it is the
\* smaller one.
LEMMA FreedCloses ==
  ASSUME NEW s, NEW h \in Nat, NEW f \in 0..MaxForks, Paired(s, h, f),
         NEW k \in Children \cup {Unset}, NEW p \in 1..h, k \in 1..f, ChildPair(s, p, k)
  PROVE  /\ Freed(s, k) \in Seq(Pipe) /\ Len(Freed(s, k)) = 2 * h - 2
         /\ \A n \in 1..2 * h - 2 :
              Freed(s, k)[n] = IF n < 2 * p - 1 THEN s[n] ELSE s[n + 2]
<1> DEFINE t == Freed(s, k)
           u == RemoveAt(s, 2 * p)
<1>1. s \in Seq(Pipe) /\ Len(s) = 2 * h /\ 2 * p - 1 \in 1..2 * h /\ 2 * p \in 1..2 * h
  BY DEF Paired
<1>2. Index(s, Parent, k) = 2 * p - 1 /\ Index(s, k, Parent) = 2 * p
  BY ParentIndex
<1>3. t = RemoveAt(u, 2 * p - 1)
  BY <1>2 DEF Freed
<1>4. /\ u \in Seq(Pipe) /\ Len(u) = 2 * h - 1
      /\ \A n \in 1..2 * h - 1 : u[n] = IF n < 2 * p THEN s[n] ELSE s[n + 1]
  <2>1. 2 * p \in 0..Len(s) + 1
    BY <1>1
  <2> QED
    BY <1>1, <2>1, RemovedIsSeq
<1> HIDE DEF u, t
<1>5. /\ t \in Seq(Pipe) /\ Len(t) = 2 * h - 2
      /\ \A n \in 1..2 * h - 2 : t[n] = IF n < 2 * p - 1 THEN u[n] ELSE u[n + 1]
  <2>1. 2 * p - 1 \in 0..Len(u) + 1 /\ 2 * p - 1 \in 1..Len(u)
    BY <1>1, <1>4
  <2>2. /\ t \in Seq(Pipe) /\ Len(t) = Len(u) - 1
        /\ \A n \in 1..Len(u) - 1 : t[n] = IF n < 2 * p - 1 THEN u[n] ELSE u[n + 1]
    BY <1>3, <1>4, <2>1, RemovedIsSeq
  <2>3. Len(u) - 1 = 2 * h - 2
    BY <1>4
  <2> QED
    BY <2>2, <2>3
<1>6. \A n \in 1..2 * h - 2 : t[n] = IF n < 2 * p - 1 THEN s[n] ELSE s[n + 2]
  <2> TAKE n \in 1..2 * h - 2
  <2>1. CASE n < 2 * p - 1
    BY <1>4, <1>5, <2>1
  <2>2. CASE ~(n < 2 * p - 1)
    <3>1. t[n] = u[n + 1] /\ n + 1 \in 1..2 * h - 1 /\ ~(n + 1 < 2 * p)
      BY <1>5, <2>2
    <3>2. u[n + 1] = s[n + 1 + 1]
      BY <1>4, <3>1
    <3> QED
      BY <2>2, <3>1, <3>2
  <2> QED
    BY <2>1, <2>2
<1> QED
  BY <1>5, <1>6 DEF t

\* Removing both pipes of a child takes his pair out of the row and leaves the
\* others, in their order.
LEMMA FreedIsPaired ==
  ASSUME NEW s, NEW t, NEW h \in Nat, NEW f \in 0..MaxForks, Paired(s, h, f),
         NEW k \in Children \cup {Unset}, NEW p \in 1..h, k \in 1..f, ChildPair(s, p, k),
         t = Freed(s, k)
  PROVE  /\ Paired(t, h - 1, f)
         /\ \A q \in 1..h - 1 : \A c \in 1..f :
              ChildPair(t, q, c) => c # k /\ \E r \in 1..h : ChildPair(s, r, c)
<1> DEFINE Old(q) == IF q < p THEN q ELSE q + 1
<1>1. s \in Seq(Pipe) /\ Len(s) = 2 * h
  BY DEF Paired
<1>5. t \in Seq(Pipe) /\ Len(t) = 2 * h - 2
  BY FreedCloses
<1>6. \A n \in 1..2 * h - 2 : t[n] = IF n < 2 * p - 1 THEN s[n] ELSE s[n + 2]
  BY FreedCloses
<1>7. ASSUME NEW q \in 1..h - 1
      PROVE  /\ Old(q) \in 1..h /\ Old(q) # p
             /\ t[2 * q - 1] = s[2 * Old(q) - 1] /\ t[2 * q] = s[2 * Old(q)]
  <2>1. 2 * q - 1 \in 1..2 * h - 2 /\ 2 * q \in 1..2 * h - 2
    OBVIOUS
  <2>2. CASE q < p
    <3>1. 2 * q - 1 < 2 * p - 1 /\ 2 * q < 2 * p - 1
      BY <2>2
    <3> QED
      BY <1>6, <2>1, <2>2, <3>1
  <2>3. CASE ~(q < p)
    <3>1. ~(2 * q - 1 < 2 * p - 1) /\ ~(2 * q < 2 * p - 1) /\ Old(q) = q + 1
      BY <2>3
    <3>2. 2 * q - 1 + 2 = 2 * (q + 1) - 1 /\ 2 * q + 2 = 2 * (q + 1)
      OBVIOUS
    <3>3. t[2 * q - 1] = s[2 * q - 1 + 2] /\ t[2 * q] = s[2 * q + 2]
      BY <1>6, <2>1, <3>1
    <3> QED
      BY <2>3, <3>1, <3>2, <3>3
  <2> QED
    BY <2>2, <2>3
<1>8. \A q, r \in 1..h - 1 : Old(q) = Old(r) => q = r
  OBVIOUS
<1> HIDE DEF Old
<1>9. \A q \in 1..h - 1 : /\ FreePair(t, q) <=> FreePair(s, Old(q))
                          /\ \A c \in 1..f : ChildPair(t, q, c) <=> ChildPair(s, Old(q), c)
  BY <1>7 DEF FreePair, ChildPair
<1>10. \A q \in 1..h - 1 : FreePair(t, q) \/ \E c \in 1..f : ChildPair(t, q, c)
  BY <1>7, <1>9 DEF Paired
<1>11. \A q, r \in 1..h - 1 : \A c \in 1..f : ChildPair(t, q, c) /\ ChildPair(t, r, c) => q = r
  BY <1>7, <1>8, <1>9 DEF Paired
<1>12. Len(t) = 2 * (h - 1)
  BY <1>5
<1>13. ASSUME NEW q \in 1..h - 1, NEW c \in 1..f, ChildPair(t, q, c)
       PROVE  c # k /\ \E r \in 1..h : ChildPair(s, r, c)
  <2>1. ChildPair(s, Old(q), c) /\ Old(q) \in 1..h /\ Old(q) # p
    BY <1>7, <1>9, <1>13
  <2> QED
    BY <2>1 DEF Paired
<1> QED
  BY <1>5, <1>10, <1>11, <1>12, <1>13 DEF Paired

\* Who has pipes: the children of the pairs.
LEMMA HasIs ==
  ASSUME NEW s, NEW h \in Nat, NEW f \in 0..MaxForks, Paired(s, h, f),
         NEW k \in Children \cup {Unset}
  PROVE  Index(s, k, Parent) # 0 /\ Index(s, Parent, k) # 0
           <=> k \in 1..f /\ \E p \in 1..h : ChildPair(s, p, k)
<1>1. ASSUME Index(s, k, Parent) # 0
      PROVE  k \in 1..f /\ \E p \in 1..h : ChildPair(s, p, k)
  BY <1>1, ChildIndices
<1>2. ASSUME k \in 1..f, NEW p \in 1..h, ChildPair(s, p, k)
      PROVE  Index(s, k, Parent) # 0 /\ Index(s, Parent, k) # 0
  <2>1. Index(s, Parent, k) = 2 * p - 1 /\ Index(s, k, Parent) = 2 * p
    BY <1>2, ParentIndex
  <2> QED
    BY <2>1
<1> QED
  BY <1>1, <1>2

\* The pairs of the table, as the property says it.
LEMMA PairsFollow ==
  ASSUME NEW h \in Nat, NEW f \in 0..MaxForks, Paired(pipes, h, f)
  PROVE  PairsOK
<1>1. pipes \in Seq(Pipe) /\ Len(pipes) = 2 * h
  BY DEF Paired
<1>2. Len(pipes) % 2 = 0
  BY <1>1
<1>3. 1..f \subseteq Children
  OBVIOUS
<1>4. ASSUME NEW n \in 1..Len(pipes), n % 2 = 1
      PROVE  \/ /\ pipes[n] = [to |-> Parent, from |-> NoPid]
                /\ pipes[n + 1] = [to |-> NoPid, from |-> NoPid]
             \/ \E k \in Children : /\ pipes[n] = [to |-> Parent, from |-> k]
                                    /\ pipes[n + 1] = [to |-> k, from |-> Parent]
  <2>1. PICK p \in 1..h : n = 2 * p - 1
    BY <1>1, <1>4, OddIndex
  <2>2. n + 1 = 2 * p
    BY <2>1
  <2>3. CASE FreePair(pipes, p)
    BY <2>1, <2>2, <2>3, Zenon DEF FreePair
  <2>4. CASE \E k \in 1..f : ChildPair(pipes, p, k)
    BY <1>3, <2>1, <2>2, <2>4, Zenon DEF ChildPair
  <2> QED
    BY <2>3, <2>4 DEF Paired
<1>5. ASSUME NEW n \in 1..Len(pipes), NEW m \in 1..Len(pipes), pipes[n] = pipes[m],
             NoPid \notin {pipes[n].to, pipes[n].from}
      PROVE  n = m
  <2>1. PICK p \in 1..h : n = 2 * p - 1 \/ n = 2 * p
    BY <1>1, Halves
  <2>2. PICK q \in 1..h : m = 2 * q - 1 \/ m = 2 * q
    BY <1>1, Halves
  <2>3. Half(pipes, p, f) /\ Half(pipes, q, f)
    BY HalfIs
  <2>4. PICK k \in 1..f : /\ ChildPair(pipes, p, k)
                          /\ pipes[2 * p - 1].to = Parent /\ pipes[2 * p - 1].from = k
                          /\ pipes[2 * p].to = k /\ pipes[2 * p].from = Parent
    BY <1>5, <2>1, <2>3 DEF Half
  <2>5. PICK c \in 1..f : /\ ChildPair(pipes, q, c)
                          /\ pipes[2 * q - 1].to = Parent /\ pipes[2 * q - 1].from = c
                          /\ pipes[2 * q].to = c /\ pipes[2 * q].from = Parent
    BY <1>5, <2>2, <2>3 DEF Half
  <2>6. k = c /\ (n = 2 * p - 1 <=> m = 2 * q - 1)
    <3>1. \/ n = 2 * p - 1 /\ pipes[n].to = Parent /\ pipes[n].from = k
          \/ n = 2 * p /\ pipes[n].to = k /\ pipes[n].from = Parent
      BY <2>1, <2>4
    <3>2. \/ m = 2 * q - 1 /\ pipes[m].to = Parent /\ pipes[m].from = c
          \/ m = 2 * q /\ pipes[m].to = c /\ pipes[m].from = Parent
      BY <2>2, <2>5
    <3>3. pipes[n].to = pipes[m].to /\ pipes[n].from = pipes[m].from
      BY <1>5
    <3>4. k # Parent /\ c # Parent /\ 2 * p # 2 * p - 1 /\ 2 * q # 2 * q - 1
      OBVIOUS
    <3> QED
      BY <3>1, <3>2, <3>3, <3>4
  <2>7. p = q
    BY <2>4, <2>5, <2>6 DEF Paired
  <2> QED
    BY <2>1, <2>2, <2>6, <2>7
<1> QED
  BY <1>2, <1>4, <1>5 DEF PairsOK
-----------------------------------------------------------------------------
\* Where the list counts: not the entry being removed, and not the last once the
\* ones after that have moved down.
Places ==
  IF pc = "shift" THEN (1..num) \ {j - 1}
  ELSE IF pc \in {"zero", "shrink", "count"} THEN 1..num - 1
  ELSE 1..num

\* The table is a row of pairs of children that were forked; and who was reaped
\* and has pipes is where the list counts.
TableOK == \E h \in Nat : Paired(pipes, h, forks)
Known   == alive \cup dead \subseteq 1..forks
Owed    == {k \in Children \ (alive \cup dead) : HasPipes(k)}
ListOK  == quiet => \A k \in Owed : \E n \in Places : old[n] = k
ShiftOK == pc = "shift" => j <= num + 1

Rows == TableOK /\ Known /\ ListOK /\ ShiftOK

\* Who is owed his pipes after a step that leaves the table and the children alone.
LEMMA OwedStays ==
  ASSUME UNCHANGED <<pipes, alive, dead>>
  PROVE  Owed' = Owed
BY DEF Owed, HasPipes

LEMMA ForkRows ==
  ASSUME TypeOK, InBounds, Rows, Fork
  PROVE  Rows'
<1> USE DEF TypeOK
<1>1. PICK h \in Nat : Paired(pipes, h, forks)
  BY DEF Rows, TableOK
<1>2. forks + 1 \in Children /\ forks \in 0..MaxForks /\ forks \in Nat
  BY DEF Fork
<1>3. Paired(WithTwoMore, h + 1, forks) /\ FreePair(WithTwoMore, h + 1)
  BY <1>1, <1>2, MoreIsPaired DEF WithTwoMore
<1>4. h + 1 \in Nat /\ h + 1 \in 1..h + 1
  OBVIOUS
<1>5. PICK p \in 1..h + 1 : /\ FreePair(WithTwoMore, p)
                            /\ Index(WithTwoMore, Parent, NoPid) = 2 * p - 1
                            /\ Index(WithTwoMore, NoPid, NoPid) = 2 * p
  BY <1>2, <1>3, <1>4, FreeIndices
<1>6. pipes' = LinkedOn(WithTwoMore, 2 * p - 1, 2 * p, forks + 1)
  BY <1>5 DEF Fork
<1>7. /\ Paired(pipes', h + 1, forks + 1)
      /\ \A q \in 1..h + 1 : \A k \in 1..forks :
           ChildPair(pipes', q, k) => ChildPair(WithTwoMore, q, k)
  BY <1>2, <1>3, <1>4, <1>5, <1>6, LinkedIsPaired
<1>8. forks' = forks + 1 /\ alive' = alive \cup {forks + 1} /\ dead' = dead
  BY DEF Fork
<1>9. Owed' \subseteq Owed
  <2> SUFFICES ASSUME NEW k \in Children, k \notin alive', k \notin dead', HasPipes(k)'
               PROVE  HasPipes(k)
    BY <1>8 DEF Owed
  <2>1. forks + 1 \in 0..MaxForks
    BY <1>2
  <2>2. k \in 1..forks + 1 /\ \E q \in 1..h + 1 : ChildPair(pipes', q, k)
    BY <1>4, <1>7, <2>1, HasIs DEF HasPipes
  <2>3. k \in 1..forks
    BY <1>2, <1>8, <2>2
  <2>4. PICK q \in 1..h + 1 : ChildPair(WithTwoMore, q, k)
    BY <1>7, <2>2, <2>3
  <2>5. q \in 1..h
    <3>1. q \in 1..h \/ q = h + 1
      OBVIOUS
    <3> QED
      BY <1>3, <1>4, <2>4, <3>1, FreeOrChild
  <2>6. /\ WithTwoMore[2 * q - 1] = pipes[2 * q - 1]
        /\ WithTwoMore[2 * q] = pipes[2 * q]
    <3>1. \A x \in 1..h : /\ WithTwoMore[2 * x - 1] = pipes[2 * x - 1]
                          /\ WithTwoMore[2 * x] = pipes[2 * x]
      BY <1>1, <1>2, MoreIsPaired, ZenonT(30) DEF WithTwoMore
    <3> QED
      BY <2>5, <3>1, Zenon
  <2>7. ChildPair(pipes, q, k)
    BY <2>4, <2>6 DEF ChildPair
  <2> QED
    BY <1>1, <1>2, <2>3, <2>5, <2>7, HasIs DEF HasPipes
<1>10. TableOK'
  BY <1>4, <1>7, <1>8 DEF TableOK
<1>11. Known'
  BY <1>2, <1>8 DEF Rows, Known
<1>12. ListOK' /\ ShiftOK'
  <2>1. Places' = Places /\ old' = old /\ quiet' = quiet
    BY DEF Fork, Places, cleanup
  <2>2. pc' = "idle"
    BY DEF Fork, cleanup, Idle
  <2> QED
    BY <1>9, <2>1, <2>2 DEF Rows, ListOK, ShiftOK
<1> QED
  BY <1>10, <1>11, <1>12 DEF Rows

LEMMA ForkFailsRows ==
  ASSUME TypeOK, InBounds, Rows, ForkFails
  PROVE  Rows'
<1> USE DEF TypeOK
<1>1. PICK h \in Nat : Paired(pipes, h, forks)
  BY DEF Rows, TableOK
<1>2. /\ forks' = forks /\ alive' = alive /\ dead' = dead /\ pipes' = WithTwoMore
      /\ forks \in 0..MaxForks
  BY DEF ForkFails
<1>3. /\ Paired(pipes', h + 1, forks) /\ FreePair(pipes', h + 1)
      /\ \A p \in 1..h : /\ pipes'[2 * p - 1] = pipes[2 * p - 1]
                         /\ pipes'[2 * p] = pipes[2 * p]
  <2> DEFINE u == WithTwoMore
  <2>1. /\ Paired(u, h + 1, forks) /\ FreePair(u, h + 1)
        /\ \A p \in 1..h : u[2 * p - 1] = pipes[2 * p - 1] /\ u[2 * p] = pipes[2 * p]
    BY <1>1, <1>2, MoreIsPaired, Zenon DEF WithTwoMore
  <2> HIDE DEF u
  <2>2. pipes' = u
    BY <1>2 DEF u
  <2> QED
    BY <2>1, <2>2
<1>4. h + 1 \in Nat
  OBVIOUS
<1>5. Owed' \subseteq Owed
  <2> SUFFICES ASSUME NEW k \in Children, k \notin alive', k \notin dead', HasPipes(k)'
               PROVE  HasPipes(k)
    BY <1>2 DEF Owed
  <2>1. k \in 1..forks /\ \E q \in 1..h + 1 : ChildPair(pipes', q, k)
    BY <1>3, <1>4, HasIs DEF HasPipes
  <2>2. PICK q \in 1..h + 1 : ChildPair(pipes', q, k)
    BY <2>1
  <2>3. q \in 1..h
    <3>1. q \in 1..h \/ q = h + 1
      OBVIOUS
    <3> QED
      BY <1>3, <1>4, <2>2, <3>1, FreeOrChild
  <2>4. ChildPair(pipes, q, k)
    BY <1>3, <2>2, <2>3 DEF ChildPair
  <2> QED
    BY <1>1, <2>1, <2>3, <2>4, HasIs DEF HasPipes
<1>6. TableOK'
  BY <1>2, <1>3, <1>4 DEF TableOK
<1>7. Known'
  BY <1>2 DEF Rows, Known
<1>8. ListOK' /\ ShiftOK'
  <2>1. Places' = Places /\ old' = old /\ quiet' = quiet
    BY DEF ForkFails, Places, cleanup
  <2>2. pc' = "idle"
    BY DEF ForkFails, cleanup, Idle
  <2> QED
    BY <1>5, <2>1, <2>2 DEF Rows, ListOK, ShiftOK
<1> QED
  BY <1>6, <1>7, <1>8 DEF Rows

LEMMA FreesRows ==
  ASSUME TypeOK, InBounds, Rows, Frees
  PROVE  Rows'
<1> USE DEF TypeOK
<1>1. PICK h \in Nat : Paired(pipes, h, forks)
  BY DEF Rows, TableOK
<1>2. /\ pc = "scan" /\ i \in 1..num /\ HasPipes(old[i]) /\ pipes' = Freed(pipes, old[i])
      /\ pc' = "shift" /\ j' = i + 1 /\ num' = num /\ old' = old /\ quiet' = quiet
      /\ alive' = alive /\ dead' = dead /\ forks' = forks /\ forks \in 0..MaxForks
  BY DEF Frees, procs
<1>3. old[i] \in Children \cup {Unset}
  <2>1. Len(old) \in Nat /\ \A n \in 1..Len(old) : old[n] \in Children \cup {Unset}
    BY LenProperties
  <2>2. i \in 1..Len(old)
    BY <1>2, <2>1 DEF InBounds
  <2> QED
    BY <2>1, <2>2
<1> DEFINE k == old[i]
<1>4. k \in 1..forks /\ \E p \in 1..h : ChildPair(pipes, p, k)
  BY <1>1, <1>2, <1>3, HasIs DEF HasPipes
<1>5. PICK p \in 1..h : ChildPair(pipes, p, k)
  BY <1>4
<1> HIDE DEF k
<1>6. /\ Paired(pipes', h - 1, forks)
      /\ \A q \in 1..h - 1 : \A c \in 1..forks :
           ChildPair(pipes', q, c) => c # k /\ \E r \in 1..h : ChildPair(pipes, r, c)
  BY <1>1, <1>2, <1>3, <1>4, <1>5, FreedIsPaired DEF k
<1>7. h - 1 \in Nat
  OBVIOUS
<1>8. Owed' \subseteq Owed \ {k}
  <2> SUFFICES ASSUME NEW c \in Children, c \notin alive', c \notin dead', HasPipes(c)'
               PROVE  HasPipes(c) /\ c # k
    BY <1>2 DEF Owed
  <2>1. c \in 1..forks /\ \E q \in 1..h - 1 : ChildPair(pipes', q, c)
    BY <1>2, <1>6, <1>7, HasIs DEF HasPipes
  <2>2. c # k /\ \E r \in 1..h : ChildPair(pipes, r, c)
    BY <1>6, <2>1
  <2> QED
    BY <1>1, <1>2, <2>1, <2>2, HasIs DEF HasPipes
<1>9. TableOK'
  BY <1>2, <1>6, <1>7 DEF TableOK
<1>10. Known' /\ ShiftOK'
  BY <1>2 DEF Rows, Known, ShiftOK
<1>11. ListOK'
  <2> SUFFICES ASSUME quiet, NEW c \in Owed'
               PROVE  \E n \in Places' : old[n] = c
    BY <1>2 DEF ListOK
  <2>1. PICK n \in 1..num : old[n] = c
    BY <1>2, <1>8 DEF Rows, ListOK, Places
  <2>2. n # i
    BY <1>8, <2>1 DEF k
  <2>3. Places' = (1..num) \ {i}
    BY <1>2 DEF Places
  <2> QED
    BY <2>1, <2>2, <2>3
<1> QED
  BY <1>9, <1>10, <1>11 DEF Rows

LEMMA ReapRows ==
  ASSUME TypeOK, InBounds, Rows, NEW k \in Children, Reap(k)
  PROVE  Rows'
<1> USE DEF TypeOK
<1>1. /\ pipes' = pipes /\ alive' = alive /\ forks' = forks /\ pc' = pc /\ j' = j
      /\ quiet' = quiet /\ k \in dead /\ dead' = dead \ {k}
      /\ old' = [Resized(old, num + 1) EXCEPT ![num + 1] = k] /\ num' = num + 1
      /\ quiet => pc \in {"idle", "scan"}
  BY DEF Reap, Flagged, cleanup
<1>2. TableOK' /\ Known' /\ ShiftOK'
  BY <1>1 DEF Rows, TableOK, Known, ShiftOK
<1>3. Owed' \subseteq Owed \cup {k}
  BY <1>1 DEF Owed, HasPipes
<1>4. ListOK'
  <2> SUFFICES ASSUME quiet, NEW c \in Owed'
               PROVE  \E n \in Places' : old'[n] = c
    BY <1>1 DEF ListOK
  <2>1. Places = 1..num /\ Places' = 1..num + 1
    BY <1>1 DEF Places
  <2>2. num <= Len(old) /\ Len(old) \in Nat
    BY <1>1, LenProperties DEF InBounds
  <2>3. \A n \in 1..num : old'[n] = old[n]
    BY <1>1, <2>2 DEF Resized
  <2>4. old'[num + 1] = k /\ num + 1 \in 1..num + 1
    BY <1>1 DEF Resized
  <2>5. CASE c = k
    BY <2>1, <2>4, <2>5
  <2>6. CASE c \in Owed
    <3>1. PICK n \in 1..num : old[n] = c
      BY <2>1, <2>6 DEF Rows, ListOK
    <3>2. n \in 1..num + 1
      OBVIOUS
    <3> QED
      BY <2>1, <2>3, <3>1, <3>2
  <2> QED
    BY <1>3, <2>5, <2>6
<1> QED
  BY <1>2, <1>4 DEF Rows

\* What the steps that change only the list have to show.
LEMMA ListRows ==
  ASSUME TypeOK, Rows, UNCHANGED <<pipes, alive, dead, forks, quiet>>, ShiftOK',
         \A n \in Places : \E m \in Places' : old'[m] = old[n]
  PROVE  Rows'
<1>1. TableOK' /\ Known'
  BY DEF Rows, TableOK, Known
<1>2. Owed' = Owed
  BY OwedStays
<1>3. ListOK'
  <2> SUFFICES ASSUME quiet, NEW c \in Owed
               PROVE  \E n \in Places' : old'[n] = c
    BY <1>2 DEF ListOK
  <2>1. PICK n \in Places : old[n] = c
    BY DEF Rows, ListOK
  <2> QED
    BY <2>1
<1> QED
  BY <1>1, <1>3 DEF Rows

\* The removal of an entry: the hole moves up, then the end is cut off.
LEMMA RemovalRows ==
  ASSUME TypeOK, InBounds, Rows, Shifts \/ Zeroes \/ Shrinks \/ CountsDown
  PROVE  Rows'
<1> USE DEF TypeOK
<1>a. Len(old) \in Nat /\ num \in Nat /\ i \in Nat /\ j \in Nat
  BY LenProperties
<1>b. old \in [1..Len(old) -> Children \cup {Unset}]
  BY LenProperties
<1>1. CASE Shifts
  <2>1. /\ UNCHANGED <<pipes, alive, dead, forks, quiet>>
        /\ pc = "shift" /\ num' = num /\ j <= num + 1 /\ i < j /\ num <= Len(old)
    BY <1>1 DEF Shifts, Rows, ShiftOK, InBounds, procs
  <2>2. Places = (1..num) \ {j - 1}
    BY <2>1 DEF Places
  <2>3. CASE j <= num
    <3>1. old' = [old EXCEPT ![j - 1] = old[j]] /\ j' = j + 1 /\ pc' = "shift"
      BY <1>1, <2>1, <2>3 DEF Shifts
    <3>2. Places' = (1..num) \ {j}
      BY <1>a, <2>1, <3>1 DEF Places
    <3>3. j - 1 \in 1..num /\ j \in 1..Len(old)
      BY <1>a, <2>1, <2>3
    <3>4. \A n \in 1..num : old'[n] = IF n = j - 1 THEN old[j] ELSE old[n]
      BY <1>a, <1>b, <2>1, <3>1
    <3>5. \A n \in Places : \E m \in Places' : old'[m] = old[n]
      <4> TAKE n \in Places
      <4>1. CASE n = j
        <5>1. j - 1 \in Places' /\ old'[j - 1] = old[n]
          BY <1>a, <3>2, <3>3, <3>4, <4>1
        <5> QED
          BY <5>1
      <4>2. CASE n # j
        BY <2>2, <3>2, <3>4, <4>2
      <4> QED
        BY <4>1, <4>2
    <3>6. ShiftOK'
      BY <1>a, <2>1, <2>3, <3>1 DEF ShiftOK
    <3> QED
      BY <2>1, <3>5, <3>6, ListRows
  <2>4. CASE j > num
    <3>1. old' = old /\ pc' = "zero"
      BY <1>1, <2>4, <1>a DEF Shifts
    <3>2. Places' = 1..num - 1 /\ Places \subseteq 1..num - 1
      BY <1>a, <2>1, <2>2, <2>4, <3>1 DEF Places
    <3>3. \A n \in Places : \E m \in Places' : old'[m] = old[n]
      BY <3>1, <3>2
    <3>4. ShiftOK'
      BY <3>1 DEF ShiftOK
    <3> QED
      BY <2>1, <3>3, <3>4, ListRows
  <2> QED
    BY <1>a, <2>3, <2>4
<1>2. CASE Zeroes
  <2>1. /\ UNCHANGED <<pipes, alive, dead, forks, quiet>>
        /\ pc = "zero" /\ pc' = "shrink" /\ num' = num /\ num <= Len(old)
        /\ old' = [old EXCEPT ![num] = Unset]
    BY <1>2 DEF Zeroes, InBounds, procs
  <2>2. Places = 1..num - 1 /\ Places' = 1..num - 1
    BY <2>1 DEF Places
  <2>3. \A n \in 1..num - 1 : old'[n] = old[n]
    BY <1>a, <1>b, <2>1
  <2>4. ShiftOK'
    BY <2>1 DEF ShiftOK
  <2> QED
    BY <2>1, <2>2, <2>3, <2>4, ListRows
<1>3. CASE Shrinks
  <2>1. /\ UNCHANGED <<pipes, alive, dead, forks, quiet>>
        /\ pc = "shrink" /\ pc' = "count" /\ num' = num /\ num <= Len(old)
        /\ old' = Resized(old, num - 1)
    BY <1>3 DEF Shrinks, InBounds, procs
  <2>2. Places = 1..num - 1 /\ Places' = 1..num - 1
    BY <2>1 DEF Places
  <2>3. \A n \in 1..num - 1 : old'[n] = old[n]
    BY <1>a, <2>1 DEF Resized
  <2>4. ShiftOK'
    BY <2>1 DEF ShiftOK
  <2> QED
    BY <2>1, <2>2, <2>3, <2>4, ListRows
<1>4. CASE CountsDown
  <2>1. /\ UNCHANGED <<pipes, alive, dead, forks, quiet>>
        /\ pc = "count" /\ pc' = "scan" /\ num' = num - 1 /\ old' = old
    BY <1>4 DEF CountsDown, procs
  <2>2. Places = 1..num - 1 /\ Places' = 1..num - 1
    BY <2>1 DEF Places
  <2>3. ShiftOK'
    BY <2>1 DEF ShiftOK
  <2> QED
    BY <2>1, <2>2, <2>3, ListRows
<1> QED
  BY <1>1, <1>2, <1>3, <1>4

\* Every step keeps the table a row of pairs and nobody's pipes forgotten.
LEMMA RowsStep ==
  ASSUME TypeOK, InBounds, Rows, [Next]_vars
  PROVE  Rows'
<1>1. CASE Fork
  BY <1>1, ForkRows
<1>2. CASE ForkFails
  BY <1>2, ForkFailsRows
<1>3. CASE Archive \/ Archived
  <2>1. UNCHANGED <<pipes, alive, dead, forks, quiet, old, num, pc, j>>
    BY <1>3 DEF Archive, Archived, procs, cleanup
  <2> QED
    BY <2>1, ListRows DEF Rows, ShiftOK, Places
<1>4. ASSUME NEW k \in Children, Exit(k)
      PROVE  Rows'
  <2>1. /\ UNCHANGED <<pipes, forks, quiet, old, num, pc, j>>
        /\ alive' \cup dead' = alive \cup dead
    BY <1>4 DEF Exit, cleanup
  <2>2. Owed' = Owed
    BY <2>1 DEF Owed, HasPipes
  <2>3. TableOK' /\ Known' /\ ShiftOK'
    BY <2>1 DEF Rows, TableOK, Known, ShiftOK
  <2>4. ListOK'
    BY <2>1, <2>2 DEF Rows, ListOK, Places
  <2> QED
    BY <2>3, <2>4 DEF Rows
<1>5. ASSUME NEW k \in Children, Reap(k)
      PROVE  Rows'
  BY <1>5, ReapRows
<1>6. CASE Frees
  BY <1>6, FreesRows
<1>7. CASE HandleOldPids \/ Passes \/ ScanEnds
  <2>1. /\ UNCHANGED <<pipes, alive, dead, forks, quiet, old, num>>
        /\ pc \in {"idle", "scan"} /\ pc' \in {"idle", "scan"}
    BY <1>7 DEF HandleOldPids, Passes, ScanEnds, procs, Idle
  <2>2. Places' = Places /\ ShiftOK'
    BY <2>1 DEF Places, ShiftOK
  <2> QED
    BY <2>1, <2>2, ListRows
<1>8. CASE Shifts \/ Zeroes \/ Shrinks \/ CountsDown
  BY <1>8, RemovalRows
<1>9. CASE UNCHANGED vars
  <2>1. UNCHANGED <<pipes, alive, dead, forks, quiet, old, num, pc, j>>
    BY <1>9 DEF vars, procs, cleanup
  <2> QED
    BY <2>1, ListRows DEF Rows, ShiftOK, Places
<1> QED
  BY <1>1, <1>2, <1>3, <1>4, <1>5, <1>6, <1>7, <1>8, <1>9 DEF Next, Cleanup

\* At the start there is nothing to forget.
LEMMA RowsInit ==
  ASSUME Init
  PROVE  Rows
<1>1. Paired(pipes, 0, forks)
  <2>1. pipes \in Seq(Pipe) /\ Len(pipes) = 2 * 0
    BY DEF Init
  <2> QED
    BY <2>1 DEF Paired
<1>2. TableOK /\ Known /\ ShiftOK
  BY <1>1 DEF Init, TableOK, Known, ShiftOK
<1>3. Owed = {}
  <2> SUFFICES ASSUME NEW k \in Children, HasPipes(k)
               PROVE  FALSE
    BY DEF Owed
  <2>1. 0 \in 0..MaxForks /\ forks = 0
    BY DEF Init
  <2>2. k \in 1..0
    BY <1>1, <2>1, HasIs DEF HasPipes
  <2> QED
    BY <2>2
<1>4. ListOK
  BY <1>3 DEF ListOK
<1> QED
  BY <1>2, <1>4 DEF Rows

\* The property follows: outside the removal of an entry and within it, the list
\* counts nothing beyond its end.
LEMMA RowsSay ==
  ASSUME TypeOK, Rows
  PROVE  DeadAreListed
<1>1. PICK h \in Nat : Paired(pipes, h, forks)
  BY DEF Rows, TableOK
<1>2. PairsOK
  BY <1>1, PairsFollow DEF TypeOK
<1>3. Places \subseteq 1..num
  BY DEF Places, TypeOK
<1> QED
  BY <1>2, <1>3 DEF Rows, ListOK, Owed, DeadAreListed

\* However many children and failing forks there are, the table stays a row of
\* pairs, which is what lets ip_pipe_free_bypid keep an index over a removal; and
\* no child that was reaped is left with pipes and without an entry in
\* pids_unhandled, as long as no SIGCHLD falls into the removal of one.
THEOREM NobodyIsLost == Spec => []DeadAreListed
<1>1. Init => Rows
  BY RowsInit
<1>2. TypeOK /\ InBounds /\ Rows /\ [Next]_vars => Rows'
  BY RowsStep
<1>3. TypeOK /\ Rows => DeadAreListed
  BY RowsSay
<1> QED
  BY <1>1, <1>2, <1>3, Invariant, PTL DEF Spec
-----------------------------------------------------------------------------
\* Who runs is not dead, and nobody who runs, nor anybody yet to be forked, is on the
\* list of those whose pipes are to be freed.
Ended ==
  /\ alive \cap dead = {}
  /\ \A n \in 1..Len(old) : old[n] # Unset => old[n] \in (1..forks) \ alive

LEMMA EndedStep ==
  ASSUME TypeOK, InBounds, Rows, Ended, [Next]_vars
  PROVE  Ended'
<1> USE DEF TypeOK
<1>a. /\ Len(old) \in Nat /\ num \in Nat
      /\ old \in [1..Len(old) -> Children \cup {Unset}]
  BY LenProperties
<1>1. CASE Fork
  <2>1. /\ forks' = forks + 1 /\ alive' = alive \cup {forks + 1} /\ dead' = dead /\ old' = old
        /\ forks \in Nat
    BY <1>1 DEF Fork
  <2>2. forks + 1 \notin 1..forks /\ 1..forks \subseteq 1..forks + 1
    BY <2>1
  <2> QED
    BY <2>1, <2>2 DEF Ended, Rows, Known
<1>2. ASSUME NEW k \in Children, Exit(k)
      PROVE  Ended'
  BY <1>2 DEF Exit, Ended
<1>3. ASSUME NEW k \in Children, Reap(k)
      PROVE  Ended'
  <2>1. /\ alive' = alive /\ dead' = dead \ {k} /\ forks' = forks /\ k \in dead
        /\ old' = [Resized(old, num + 1) EXCEPT ![num + 1] = k]
    BY <1>3 DEF Reap, Flagged
  <2> DEFINE r == Resized(old, num + 1)
  <2>5. r \in Seq(Children \cup {Unset}) /\ Len(r) = num + 1
    <3>1. num + 1 \in Nat /\ old \in Seq(Children \cup {Unset})
      BY <1>a
    <3> QED
      BY <3>1, ResizedIsSeq, Zenon
  <2>2. Len(old') = num + 1
    <3> HIDE DEF r
    <3>1. Len([r EXCEPT ![num + 1] = k]) = Len(r)
      BY <2>5, ExceptIsSeq
    <3> QED
      BY <2>1, <2>5, <3>1 DEF r
  <2>3. \A n \in 1..num + 1 : \/ old'[n] = k \/ old'[n] = Unset
                              \/ n \in 1..Len(old) /\ old'[n] = old[n]
    BY <1>a, <2>1, <2>2 DEF Resized
  <2>4. k \in (1..forks) \ alive
    BY <2>1 DEF Ended, Rows, Known
  <2> QED
    BY <2>1, <2>2, <2>3, <2>4 DEF Ended
<1>4. ASSUME UNCHANGED <<alive, dead, forks>>, Len(old') \in Nat,
             \A n \in 1..Len(old') : old'[n] = Unset \/ \E m \in 1..Len(old) : old'[n] = old[m]
      PROVE  Ended'
  BY <1>4 DEF Ended
<1>5. CASE Shifts
  <2>1. UNCHANGED <<alive, dead, forks>>
    BY <1>5 DEF Shifts, procs
  <2>2. CASE old' = old
    BY <1>4, <1>a, <2>1, <2>2
  <2>3. CASE old' = [old EXCEPT ![j - 1] = old[j]] /\ pc = "shift" /\ j <= num
    <3>1. j \in 1..Len(old)
      BY <1>a, <2>3 DEF InBounds
    <3>2. old[j] \in Children \cup {Unset}
      BY <1>a, <3>1
    <3>3. Len(old') = Len(old)
      BY <2>3, <3>2, ExceptIsSeq
    <3>4. \A n \in 1..Len(old) : old'[n] = old[n] \/ old'[n] = old[j]
      BY <1>a, <2>3
    <3> QED
      BY <1>4, <1>a, <2>1, <3>1, <3>3, <3>4
  <2> QED
    BY <1>5, <2>2, <2>3 DEF Shifts
<1>6. CASE Zeroes
  <2>1. UNCHANGED <<alive, dead, forks>> /\ old' = [old EXCEPT ![num] = Unset]
    BY <1>6 DEF Zeroes, procs
  <2>2. Len(old') = Len(old)
    BY <2>1, ExceptIsSeq
  <2>3. \A n \in 1..Len(old) : old'[n] = old[n] \/ old'[n] = Unset
    BY <1>a, <2>1
  <2> QED
    BY <1>4, <1>a, <2>1, <2>2, <2>3
<1>7. CASE Shrinks
  <2>1. UNCHANGED <<alive, dead, forks>> /\ old' = Resized(old, num - 1) /\ num - 1 \in Nat
    BY <1>7, <1>a DEF Shrinks, procs, InBounds
  <2>2. Len(old') = num - 1
    BY <2>1, ResizedIsSeq
  <2>3. \A n \in 1..num - 1 : old'[n] = Unset \/ (n \in 1..Len(old) /\ old'[n] = old[n])
    BY <1>a, <2>1 DEF Resized
  <2> QED
    BY <1>4, <2>1, <2>2, <2>3
<1>8. CASE \/ ForkFails \/ Archive \/ Archived \/ HandleOldPids \/ Frees \/ Passes \/ ScanEnds
           \/ CountsDown \/ UNCHANGED vars
  <2>1. UNCHANGED <<alive, dead, forks, old>>
    BY <1>8 DEF ForkFails, Archive, Archived, HandleOldPids, Frees, Passes, ScanEnds,
       CountsDown, vars, procs
  <2> QED
    BY <1>4, <1>a, <2>1
<1> QED
  BY <1>1, <1>2, <1>3, <1>5, <1>6, <1>7, <1>8 DEF Next, Cleanup

\* A step that makes the table shorter frees.
LEMMA OnlyFrees ==
  ASSUME TypeOK, Rows, [Next]_vars, Len(pipes') < Len(pipes)
  PROVE  Frees
<1> USE DEF TypeOK
<1>a. Len(pipes) \in Nat
  BY LenProperties
<1>b. WithTwoMore \in Seq(Pipe) /\ Len(WithTwoMore) = Len(pipes) + 2
  BY ConcatProperties DEF WithTwoMore, Pipe
<1>1. CASE Fork
  <2> DEFINE n == Index(WithTwoMore, Parent, NoPid)
             m == Index(WithTwoMore, NoPid, NoPid)
             u == [WithTwoMore EXCEPT ![n].from = forks + 1]
  <2>1. pipes' = [u EXCEPT ![m] = [to |-> forks + 1, from |-> Parent]]
    BY <1>1 DEF Fork, LinkedOn
  <2>2. DOMAIN pipes' = DOMAIN WithTwoMore
    BY <2>1
  <2>3. forks + 1 \in Children
    BY <1>1 DEF Fork
  <2>4. pipes' \in Seq(Pipe)
    BY <1>1, <1>b, <2>3, IndexInRange, LinkedIsSeq DEF Fork
  <2>5. Len(pipes') = Len(WithTwoMore)
    BY <1>b, <2>2, <2>4, LenProperties
  <2> QED
    BY <1>a, <1>b, <2>5
<1>2. CASE ForkFails
  BY <1>2, <1>a, <1>b DEF ForkFails
<1>3. CASE pipes' = pipes
  BY <1>3, <1>a
<1> QED
  BY <1>1, <1>2, <1>3 DEF Next, Cleanup, Archive, Archived, HandleOldPids, Passes, ScanEnds, Shifts,
     Zeroes, Shrinks, CountsDown, Exit, Reap, vars

\* What is freed.
LEMMA FreesOwn ==
  ASSUME TypeOK, InBounds, Rows, Ended, Frees
  PROVE  \E k \in Children \ alive, n \in 1..Len(pipes) - 1 :
           /\ pipes[n] = [to |-> Parent, from |-> k] /\ pipes[n + 1] = [to |-> k, from |-> Parent]
           /\ \A m \in 1..Len(pipes) : k \in {pipes[m].to, pipes[m].from} => m \in {n, n + 1}
           /\ pipes' = [m \in 1..Len(pipes) - 2 |-> pipes[IF m < n THEN m ELSE m + 2]]
<1> USE DEF TypeOK
<1>1. PICK h \in Nat : Paired(pipes, h, forks)
  BY DEF Rows, TableOK
<1>2. /\ i \in 1..Len(old) /\ HasPipes(old[i]) /\ pipes' = Freed(pipes, old[i])
      /\ forks \in 0..MaxForks
  BY LenProperties DEF Frees, InBounds
<1>3. old[i] \in Children \cup {Unset}
  <2>1. Len(old) \in Nat /\ \A n \in 1..Len(old) : old[n] \in Children \cup {Unset}
    BY LenProperties
  <2> QED
    BY <1>2, <2>1
<1> DEFINE k == old[i]
<1>4. k \in 1..forks /\ \E p \in 1..h : ChildPair(pipes, p, k)
  BY <1>1, <1>2, <1>3, HasIs DEF HasPipes
<1>5. k \in Children \ alive
  BY <1>2, <1>4 DEF Ended
<1>6. PICK p \in 1..h : ChildPair(pipes, p, k)
  BY <1>4
<1>7. /\ Freed(pipes, k) \in Seq(Pipe) /\ Len(Freed(pipes, k)) = 2 * h - 2
      /\ \A m \in 1..2 * h - 2 :
           Freed(pipes, k)[m] = IF m < 2 * p - 1 THEN pipes[m] ELSE pipes[m + 2]
  BY <1>1, <1>2, <1>3, <1>4, <1>6, FreedCloses
<1>8. pipes' = Freed(pipes, k)
  BY <1>2
<1> HIDE DEF k
<1> DEFINE n == 2 * p - 1
<1>9. Len(pipes) = 2 * h /\ n \in 1..Len(pipes) - 1 /\ n + 1 = 2 * p
  BY <1>1 DEF Paired
<1>10. pipes[n] = [to |-> Parent, from |-> k] /\ pipes[n + 1] = [to |-> k, from |-> Parent]
  BY <1>6, <1>9 DEF ChildPair
<1>11. ASSUME NEW m \in 1..Len(pipes), k \in {pipes[m].to, pipes[m].from}
       PROVE  m \in {n, n + 1}
  <2>1. PICK q \in 1..h : m = 2 * q - 1 \/ m = 2 * q
    BY <1>9, Halves
  <2>2. Half(pipes, q, forks)
    BY <1>1, <1>2, HalfIs
  <2>3. k # Parent /\ k # NoPid
    BY <1>4
  <2>4. ChildPair(pipes, q, k)
    BY <1>11, <2>1, <2>2, <2>3 DEF Half
  <2>5. q = p
    BY <1>1, <1>4, <1>6, <2>4 DEF Paired
  <2> QED
    BY <1>9, <2>1, <2>5
<1>12. pipes' = [m \in 1..Len(pipes) - 2 |-> pipes[IF m < n THEN m ELSE m + 2]]
  <2> DEFINE t == Freed(pipes, k)
             v == [m \in 1..Len(pipes) - 2 |-> pipes[IF m < n THEN m ELSE m + 2]]
  <2>1. t \in [1..2 * h - 2 -> Pipe]
    BY <1>7, LenProperties
  <2>2. \A m \in 1..2 * h - 2 : t[m] = v[m]
    BY <1>7, <1>9
  <2>3. DOMAIN v = 1..2 * h - 2
    BY <1>9
  <2> HIDE DEF t, v
  <2>4. v = [m \in 1..2 * h - 2 |-> v[m]] /\ t = [m \in 1..2 * h - 2 |-> t[m]]
    BY <2>1, <2>3 DEF v
  <2>5. t = v
    BY <2>2, <2>4, Zenon
  <2> QED
    BY <1>8, <2>5 DEF t, v
<1> HIDE DEF n
<1> QED
  BY <1>5, <1>9, <1>10, <1>11, <1>12, Zenon

\* The parent frees pipes of a child that has ended and of nobody else, wherever signals
\* and failing forks fall: ip_pipe_free_bypid never takes one pipe of a pair only, and
\* never one of a child that still runs.
THEOREM OnlyTheDead == Spec => FreesItsOwn
<1>1. Init => Ended
  <2>1. ASSUME Init PROVE alive \cap dead = {} /\ Len(old) = 0
    BY <2>1, EmptySeq DEF Init
  <2> QED
    BY <2>1 DEF Ended
<1>2. Init => Rows
  BY RowsInit
<1>3. TypeOK /\ InBounds /\ Rows /\ [Next]_vars => Rows'
  BY RowsStep
<1>4. TypeOK /\ InBounds /\ Rows /\ Ended /\ [Next]_vars => Ended'
  BY EndedStep
<1>5. TypeOK /\ InBounds /\ Rows /\ Ended /\ [Next]_vars =>
        [Len(pipes') < Len(pipes) =>
           \E k \in Children \ alive, n \in 1..Len(pipes) - 1 :
             /\ pipes[n] = [to |-> Parent, from |-> k] /\ pipes[n + 1] = [to |-> k, from |-> Parent]
             /\ \A m \in 1..Len(pipes) : k \in {pipes[m].to, pipes[m].from} => m \in {n, n + 1}
             /\ pipes' = [m \in 1..Len(pipes) - 2 |-> pipes[IF m < n THEN m ELSE m + 2]]]_vars
  BY OnlyFrees, FreesOwn
<1> QED
  BY <1>1, <1>2, <1>3, <1>4, <1>5, Invariant, PTL DEF Spec, FreesItsOwn
=============================================================================
