------------------------ MODULE ConfigManagerProofs ------------------------
(***************************************************************************)
(* For any names, identities and files, with kills, failing calls, backups *)
(* and any user: no two configurations share a name, the open index stays  *)
(* with the open configuration in every step that is no drift, edits are   *)
(* written before they are dropped, and what was saved survives the        *)
(* process.  For a user who keeps off the drifts and has no more           *)
(* configurations than are read back, a system that does not fail, and     *)
(* names that differ in more than case: tree, list, files and editor       *)
(* belong together.                                                        *)
(***************************************************************************)
EXTENDS ConfigManager, SequenceTheorems, WellFoundedInduction, TLAPS

-----------------------------------------------------------------------------
(* Sequences and sets of numbers. *)

\* A set of numbers that is not empty has its Min in it, and none is less.
LEMMA MinIsLeast ==
  ASSUME NEW S \in SUBSET Nat, S # {}
  PROVE  Min(S) \in S /\ \A n \in S : Min(S) <= n
<1>1. \E m \in S : \A n \in S : ~ (<<n, m>> \in OpToRel(<, Nat))
  BY WFMin, NatLessThanWellFounded, Zenon
<1>2. PICK m \in S : \A n \in S : ~ (<<n, m>> \in OpToRel(<, Nat))
  BY <1>1
<1>3. ASSUME NEW n \in S, n < m
      PROVE  FALSE
  <2>1. <<n, m>> \in Nat \X Nat
    OBVIOUS
  <2>2. <<n, m>>[1] = n /\ <<n, m>>[2] = m
    OBVIOUS
  <2>3. <<n, m>> \in OpToRel(<, Nat)
    BY <1>3, <2>1, <2>2, Zenon DEF OpToRel
  <2> QED
    BY <1>2, <2>3
<1>4. \A n \in S : m <= n
  BY <1>3
<1> QED
  BY <1>4 DEF Min

\* An entry of a sequence is removed; removing one that is not there keeps a
\* sequence.
LEMMA RemovedIsSeq ==
  ASSUME NEW S, NEW s \in Seq(S), NEW n \in 0..Len(s) + 1
  PROVE  /\ RemoveAt(s, n) \in Seq(S)
         /\ n \in 1..Len(s) =>
              /\ Len(RemoveAt(s, n)) = Len(s) - 1
              /\ \A i \in 1..Len(s) - 1 :
                   RemoveAt(s, n)[i] = IF i < n THEN s[i] ELSE s[i + 1]
<1> DEFINE front == SubSeq(s, 1, n - 1)
           back  == SubSeq(s, n + 1, Len(s))
<1>1. Len(s) \in Nat /\ \A k \in 1..Len(s) : s[k] \in S
  BY LenProperties
<1>2. /\ front \in Seq(S)
      /\ Len(front) = IF 1 <= n - 1 THEN n - 1 ELSE 0
      /\ \A i \in 1..n - 1 : front[i] = s[i]
  BY <1>1, SubSeqProperties
<1>3. /\ back \in Seq(S)
      /\ Len(back) = IF n + 1 <= Len(s) THEN Len(s) - n ELSE 0
      /\ \A i \in 1..Len(s) - n : back[i] = s[n + i]
  BY <1>1, SubSeqProperties
<1>4. RemoveAt(s, n) = front \o back
  BY DEF RemoveAt
<1> HIDE DEF front, back
<1>5. /\ RemoveAt(s, n) \in Seq(S)
      /\ Len(RemoveAt(s, n)) = Len(front) + Len(back)
      /\ \A i \in 1..Len(front) + Len(back) :
           RemoveAt(s, n)[i] = IF i <= Len(front) THEN front[i] ELSE back[i - Len(front)]
  <2>1. front \in Seq(S) /\ back \in Seq(S)
    BY <1>2, <1>3
  <2>2. /\ front \o back \in Seq(S)
        /\ Len(front \o back) = Len(front) + Len(back)
        /\ \A i \in 1..Len(front) + Len(back) :
             (front \o back)[i] = IF i <= Len(front) THEN front[i] ELSE back[i - Len(front)]
    BY <2>1, ConcatProperties
  <2> QED
    BY <1>4, <2>2, Zenon
<1>6. ASSUME n \in 1..Len(s)
      PROVE  /\ Len(RemoveAt(s, n)) = Len(s) - 1
             /\ \A i \in 1..Len(s) - 1 :
                  RemoveAt(s, n)[i] = IF i < n THEN s[i] ELSE s[i + 1]
  <2>1. Len(front) = n - 1 /\ Len(back) = Len(s) - n
    BY <1>1, <1>2, <1>3, <1>6
  <2>2. Len(RemoveAt(s, n)) = Len(s) - 1
    BY <1>1, <1>5, <1>6, <2>1
  <2>3. ASSUME NEW i \in 1..Len(s) - 1
        PROVE  RemoveAt(s, n)[i] = IF i < n THEN s[i] ELSE s[i + 1]
    <3>1. RemoveAt(s, n)[i] = IF i <= n - 1 THEN front[i] ELSE back[i - (n - 1)]
      BY <1>1, <1>5, <1>6, <2>1
    <3>2. CASE i < n
      BY <1>1, <1>2, <1>6, <3>1, <3>2
    <3>3. CASE ~(i < n)
      <4>1. i - (n - 1) \in 1..Len(s) - n
        BY <1>1, <1>6, <3>3
      <4>2. back[i - (n - 1)] = s[n + (i - (n - 1))]
        BY <1>3, <4>1
      <4> QED
        BY <1>1, <1>6, <3>1, <3>3, <4>2
    <3> QED
      BY <3>2, <3>3
  <2> QED
    BY <2>2, <2>3
<1> QED
  BY <1>5, <1>6

\* An entry that is moved one place up has traded places with the one there.
LEMMA MovedUp ==
  ASSUME NEW S, NEW s \in Seq(S), NEW r \in 2..Len(s)
  PROVE  /\ InsertAt(RemoveAt(s, r), r - 1, s[r]) \in Seq(S)
         /\ Len(InsertAt(RemoveAt(s, r), r - 1, s[r])) = Len(s)
         /\ \A i \in 1..Len(s) :
              InsertAt(RemoveAt(s, r), r - 1, s[r])[i] =
                IF i = r - 1 THEN s[r] ELSE IF i = r THEN s[r - 1] ELSE s[i]
<1> DEFINE t == RemoveAt(s, r)
           front == SubSeq(t, 1, r - 1 - 1)
           back  == SubSeq(t, r - 1, Len(t))
           head  == front \o <<s[r]>>
<1>1. Len(s) \in Nat /\ \A k \in 1..Len(s) : s[k] \in S
  BY LenProperties
<1>2. /\ t \in Seq(S) /\ Len(t) = Len(s) - 1
      /\ \A i \in 1..Len(s) - 1 : t[i] = IF i < r THEN s[i] ELSE s[i + 1]
  <2>1. r \in 0..Len(s) + 1 /\ r \in 1..Len(s)
    BY <1>1
  <2> QED
    BY <2>1, RemovedIsSeq
<1>3. InsertAt(RemoveAt(s, r), r - 1, s[r]) = head \o back
  BY DEF InsertAt
<1> HIDE DEF t
<1>4. \A i \in 1..Len(t) : t[i] \in S
  BY <1>2, LenProperties
<1>5. /\ front \in Seq(S) /\ Len(front) = r - 2
      /\ \A i \in 1..r - 2 : front[i] = t[i]
  <2>1. \A i \in 1..r - 1 - 1 : t[i] \in S
    BY <1>1, <1>2, <1>4
  <2>2. /\ front \in Seq(S)
        /\ Len(front) = IF 1 <= r - 1 - 1 THEN r - 1 - 1 - 1 + 1 ELSE 0
        /\ \A i \in 1..r - 1 - 1 - 1 + 1 : front[i] = t[1 + i - 1]
    BY <1>1, <2>1, SubSeqProperties
  <2> QED
    BY <1>1, <2>2
<1>6. /\ back \in Seq(S) /\ Len(back) = Len(s) - r + 1
      /\ \A i \in 1..Len(s) - r + 1 : back[i] = t[r - 2 + i]
  <2>1. \A i \in r - 1..Len(t) : t[i] \in S
    BY <1>1, <1>2, <1>4
  <2>2. /\ back \in Seq(S)
        /\ Len(back) = IF r - 1 <= Len(t) THEN Len(t) - (r - 1) + 1 ELSE 0
        /\ \A i \in 1..Len(t) - (r - 1) + 1 : back[i] = t[r - 1 + i - 1]
    BY <1>1, <1>2, <2>1, SubSeqProperties
  <2> QED
    BY <1>1, <1>2, <2>2
<1> HIDE DEF front, back
<1>7. <<s[r]>> \in Seq(S) /\ Len(<<s[r]>>) = 1 /\ <<s[r]>>[1] = s[r]
  BY <1>1
<1>8. /\ head \in Seq(S) /\ Len(head) = r - 1
      /\ \A i \in 1..r - 1 : head[i] = IF i <= r - 2 THEN front[i] ELSE <<s[r]>>[i - (r - 2)]
  BY <1>1, <1>5, <1>7, ConcatProperties
<1> HIDE DEF head
<1>9. /\ head \o back \in Seq(S) /\ Len(head \o back) = Len(s)
      /\ \A i \in 1..Len(s) :
           (head \o back)[i] = IF i <= r - 1 THEN head[i] ELSE back[i - (r - 1)]
  <2>1. head \in Seq(S) /\ back \in Seq(S)
    BY <1>6, <1>8
  <2>2. /\ head \o back \in Seq(S)
        /\ Len(head \o back) = Len(head) + Len(back)
        /\ \A i \in 1..Len(head) + Len(back) :
             (head \o back)[i] = IF i <= Len(head) THEN head[i] ELSE back[i - Len(head)]
    BY <2>1, ConcatProperties
  <2>3. Len(head) + Len(back) = Len(s)
    BY <1>1, <1>6, <1>8
  <2>4. Len(head) = r - 1
    BY <1>8
  <2> QED
    BY <2>2, <2>3, <2>4
<1>10. ASSUME NEW i \in 1..Len(s)
       PROVE  (head \o back)[i] = IF i = r - 1 THEN s[r] ELSE IF i = r THEN s[r - 1] ELSE s[i]
  <2>1. CASE i <= r - 2
    <3>1. (head \o back)[i] = t[i]
      BY <1>1, <1>5, <1>8, <1>9, <2>1
    <3> QED
      BY <1>1, <1>2, <2>1, <3>1
  <2>2. CASE i = r - 1
    <3>1. (head \o back)[i] = <<s[r]>>[1]
      BY <1>1, <1>8, <1>9, <2>2
    <3> QED
      BY <1>1, <1>7, <2>2, <3>1
  <2>3. CASE i >= r
    <3>1. i - (r - 1) \in 1..Len(s) - r + 1
      BY <1>1, <2>3
    <3>2. (head \o back)[i] = t[r - 2 + (i - (r - 1))]
      <4>1. ~(i <= r - 1)
        BY <1>1, <2>3
      <4>2. (head \o back)[i] = back[i - (r - 1)]
        BY <1>9, <4>1
      <4> QED
        BY <1>6, <3>1, <4>2
    <3>3. r - 2 + (i - (r - 1)) = i - 1 /\ i - 1 \in 1..Len(s) - 1
      BY <1>1, <2>3
    <3> QED
      BY <1>1, <1>2, <2>3, <3>2, <3>3
  <2>4. i <= r - 2 \/ i = r - 1 \/ i >= r
    BY <1>1
  <2> QED
    BY <2>1, <2>2, <2>3, <2>4, Zenon
<1> QED
  BY <1>3, <1>9, <1>10

-----------------------------------------------------------------------------
Lists  == Seq(Config)
Owned  == [of : Ids, stray : BOOLEAN]
Values == Owned \cup {NoFile, Torn}
Files  == [Names -> Values]

-----------------------------------------------------------------------------
(* Values. *)

LEMMA OwnedIs ==
  /\ \A v \in Owned : v \in Values /\ v \notin {NoFile, Torn} /\ v.of \in Ids
  /\ \A v \in Values : v \in {NoFile, Torn} \/ v \in Owned
BY ConstantsOK DEF Owned, Values

LEMMA PureIs ==
  ASSUME NEW id \in Ids
  PROVE  Pure(id) \in Owned /\ Pure(id).of = id /\ ~Pure(id).stray
<1> DEFINE no == FALSE
<1>1. Pure(id) = [of |-> id, stray |-> no] /\ no \in BOOLEAN /\ ~no
  BY Zenon DEF Pure
<1> HIDE DEF no
<1>2. Pure(id) \in Owned /\ Pure(id).of = id /\ Pure(id).stray = no
  BY <1>1 DEF Owned
<1> QED
  BY <1>1, <1>2, Zenon

LEMMA CopiedIs ==
  ASSUME NEW v \in Values, NEW id \in Ids
  PROVE  /\ Copied(v, id) \in Owned /\ Copied(v, id).of = id
         /\ v \in Owned => Copied(v, id).stray = v.stray
         /\ v \notin Owned => Copied(v, id) = Pure(id)
<1>1. CASE v \in {NoFile, Torn}
  BY <1>1, PureIs, OwnedIs DEF Copied
<1>2. CASE v \in Owned
  <2>1. Copied(v, id) = [v EXCEPT !.of = id]
    BY <1>2, OwnedIs DEF Copied
  <2> QED
    BY <1>2, <2>1 DEF Owned
<1> QED
  BY <1>1, <1>2, OwnedIs

\* A refresh may spoil a button, and leaves whose values they are.
LEMMA RefreshedIs ==
  ASSUME NEW v \in Values, NEW w \in Refreshed(v)
  PROVE  /\ w \in Values
         /\ w \in Owned <=> v \in Owned
         /\ w \in Owned => w.of = v.of
         /\ w # v => looked = "now" /\ v \in Owned
<1>1. CASE w = v
  BY <1>1
<1>2. CASE w # v
  <2>1. looked = "now" /\ v \in Owned /\ w = [v EXCEPT !.stray = TRUE]
    BY <1>2, OwnedIs DEF Refreshed
  <2> DEFINE t == TRUE
  <2>2. t \in BOOLEAN /\ w = [v EXCEPT !.stray = t]
    BY <2>1, Zenon
  <2> HIDE DEF t
  <2>3. w \in Owned /\ w.of = v.of
    BY <2>1, <2>2 DEF Owned
  <2> QED
    BY <2>1, <2>3, OwnedIs
<1> QED
  BY <1>1, <1>2

-----------------------------------------------------------------------------
(* The list. *)

LEMMA InList ==
  ASSUME NEW l \in Lists
  PROVE  /\ Len(l) \in Nat /\ l \in [1..Len(l) -> Config]
         /\ \A i \in 1..Len(l) : l[i] \in Config /\ l[i].name \in Names /\ l[i].id \in Ids
         /\ l = <<>> <=> Len(l) = 0
<1>1. Len(l) \in Nat /\ l \in [1..Len(l) -> Config]
  BY LenProperties DEF Lists
<1>2. \A i \in 1..Len(l) : l[i] \in Config /\ l[i].name \in Names /\ l[i].id \in Ids
  BY <1>1 DEF Config
<1>3. l = <<>> <=> Len(l) = 0
  BY EmptySeq DEF Lists
<1> QED
  BY <1>1, <1>2, <1>3

\* config_manager_get_index finds the name where it is.
LEMMA IndexFound ==
  ASSUME NEW l \in Lists, NEW n
  PROVE  IF HasName(l, n) THEN GetIndex(l, n) \in 1..Len(l) /\ l[GetIndex(l, n)].name = n
                          ELSE GetIndex(l, n) = 0
<1> DEFINE I == {i \in 1..Len(l) : l[i].name = n}
<1>1. GetIndex(l, n) = IF I # {} THEN Min(I) ELSE 0
  BY DEF GetIndex, SelectInSeq
<1>2. I \in SUBSET Nat
  BY InList
<1>3. HasName(l, n) <=> I # {}
  BY DEF HasName
<1>4. I # {} => Min(I) \in I
  BY <1>2, MinIsLeast
<1>5. \A i \in I : i \in 1..Len(l) /\ l[i].name = n
  OBVIOUS
<1> HIDE DEF I
<1> QED
  BY <1>1, <1>3, <1>4, <1>5, Zenon

\* The loop of config_manager_new ends with a name nobody has.
LEMMA FirstFreeIsFree ==
  ASSUME NEW l, NEW b \in Bases, FreeNames(l, b) # {}
  PROVE  FirstFree(l, b) \in Names /\ ~HasName(l, FirstFree(l, b))
<1> DEFINE k == CHOOSE k \in FreeNames(l, b) : \A j \in FreeNames(l, b) : k <= j
<1>1. Suffixed[b] \in Seq(Names)
  BY ConstantsOK
<1>2. Len(Suffixed[b]) \in Nat
  BY <1>1, LenProperties
<1>3. FreeNames(l, b) \in SUBSET Nat
  BY <1>2 DEF FreeNames
<1>4. k \in FreeNames(l, b)
  BY <1>3, MinIsLeast DEF Min
<1>5. FirstFree(l, b) = Suffixed[b][k]
  BY DEF FirstFree
<1> HIDE DEF k
<1>6. k \in 1..Len(Suffixed[b]) /\ ~HasName(l, Suffixed[b][k])
  BY <1>2, <1>4 DEF FreeNames
<1>7. Suffixed[b][k] \in Names
  BY <1>1, <1>6, ElementOfSeq
<1> QED
  BY <1>5, <1>6, <1>7

\* A configuration of a new name and identity may be added.
LEMMA AddedIsUnique ==
  ASSUME NEW l \in Lists, NoTwins(l), NEW n \in Names, ~HasName(l, n),
         NEW id \in Ids, \A i \in 1..Len(l) : l[i].id # id
  PROVE  LET m == Append(l, [name |-> n, id |-> id])
         IN  /\ m \in Lists /\ NoTwins(m) /\ Len(m) = Len(l) + 1
             /\ m[Len(l) + 1] = [name |-> n, id |-> id]
             /\ \A i \in 1..Len(l) : m[i] = l[i]
<1> DEFINE c == [name |-> n, id |-> id]
           m == Append(l, c)
<1>1. c \in Config /\ c.name = n /\ c.id = id
  BY DEF Config
<1> HIDE DEF c
<1>2. /\ m \in Lists /\ Len(m) = Len(l) + 1 /\ m[Len(l) + 1] = c
      /\ \A i \in 1..Len(l) : m[i] = l[i]
  BY <1>1, InList DEF Lists
<1> HIDE DEF m
<1>3. \A i \in 1..Len(l) : m[i].name # n /\ m[i].id # id
  BY <1>2 DEF HasName
<1>4. NoTwins(m)
  <2> SUFFICES ASSUME NEW i \in 1..Len(m), NEW j \in 1..Len(m),
                      m[i].name = m[j].name \/ m[i].id = m[j].id
               PROVE  i = j
    BY DEF NoTwins
  <2>1. /\ i \in 1..Len(l) \/ i = Len(l) + 1
        /\ j \in 1..Len(l) \/ j = Len(l) + 1
    BY <1>2, InList
  <2>2. CASE i \in 1..Len(l) /\ j \in 1..Len(l)
    BY <1>2, <2>2 DEF NoTwins
  <2>3. CASE i \in 1..Len(l) /\ j = Len(l) + 1
    BY <1>1, <1>2, <1>3, <2>3
  <2>4. CASE i = Len(l) + 1 /\ j \in 1..Len(l)
    BY <1>1, <1>2, <1>3, <2>4
  <2> QED
    BY <2>1, <2>2, <2>3, <2>4
<1> QED
  BY <1>2, <1>4 DEF c, m

\* One may be removed,
LEMMA RemovedIsUnique ==
  ASSUME NEW l \in Lists, NoTwins(l), NEW k \in 1..Len(l)
  PROVE  /\ RemoveAt(l, k) \in Lists /\ NoTwins(RemoveAt(l, k))
         /\ Len(RemoveAt(l, k)) = Len(l) - 1
         /\ \A i \in 1..Len(l) - 1 : RemoveAt(l, k)[i] = IF i < k THEN l[i] ELSE l[i + 1]
<1> DEFINE m == RemoveAt(l, k)
<1>1. Len(l) \in Nat
  BY InList
<1>2. /\ m \in Lists /\ Len(m) = Len(l) - 1
      /\ \A i \in 1..Len(l) - 1 : m[i] = IF i < k THEN l[i] ELSE l[i + 1]
  <2>1. k \in 0..Len(l) + 1
    BY <1>1
  <2> QED
    BY <2>1, RemovedIsSeq DEF Lists
<1> HIDE DEF m
<1>3. NoTwins(m)
  <2> SUFFICES ASSUME NEW i \in 1..Len(m), NEW j \in 1..Len(m),
                      m[i].name = m[j].name \/ m[i].id = m[j].id
               PROVE  i = j
    BY DEF NoTwins
  <2> DEFINE from(p) == IF p < k THEN p ELSE p + 1
  <2>1. from(i) \in 1..Len(l) /\ from(j) \in 1..Len(l)
    BY <1>1, <1>2
  <2>2. m[i] = l[from(i)] /\ m[j] = l[from(j)]
    BY <1>1, <1>2
  <2>3. from(i) = from(j)
    BY <2>1, <2>2 DEF NoTwins
  <2> QED
    BY <1>1, <1>2, <2>3
<1> QED
  BY <1>2, <1>3 DEF m

\* and two may trade places.
LEMMA SwappedIsUnique ==
  ASSUME NEW l \in Lists, NoTwins(l), NEW p \in 1..Len(l), NEW q \in 1..Len(l)
  PROVE  /\ Swap(l, p, q) \in Lists /\ NoTwins(Swap(l, p, q)) /\ Len(Swap(l, p, q)) = Len(l)
         /\ \A i \in 1..Len(l) :
              Swap(l, p, q)[i] = IF i = q THEN l[p] ELSE IF i = p THEN l[q] ELSE l[i]
<1> DEFINE m == Swap(l, p, q)
<1>1. Len(l) \in Nat /\ l \in [1..Len(l) -> Config]
  BY InList
<1>2. m \in [1..Len(l) -> Config]
  BY <1>1 DEF Swap
<1>3. \A i \in 1..Len(l) : m[i] = IF i = q THEN l[p] ELSE IF i = p THEN l[q] ELSE l[i]
  BY <1>1 DEF Swap
<1>4. m \in Lists /\ Len(m) = Len(l)
  BY <1>1, <1>2 DEF Lists
<1> HIDE DEF m
<1>5. NoTwins(m)
  <2> SUFFICES ASSUME NEW i \in 1..Len(l), NEW j \in 1..Len(l),
                      m[i].name = m[j].name \/ m[i].id = m[j].id
               PROVE  i = j
    BY <1>4 DEF NoTwins
  <2> DEFINE from(r) == IF r = q THEN p ELSE IF r = p THEN q ELSE r
  <2>1. from(i) \in 1..Len(l) /\ from(j) \in 1..Len(l)
    OBVIOUS
  <2>2. m[i] = l[from(i)] /\ m[j] = l[from(j)]
    BY <1>3
  <2>3. from(i) = from(j)
    BY <2>1, <2>2 DEF NoTwins
  <2> QED
    BY <2>3
<1> QED
  BY <1>3, <1>4, <1>5 DEF m

\* A name that no other one has may be given to one.
LEMMA RenamedIsUnique ==
  ASSUME NEW l \in Lists, NoTwins(l), NEW k \in 1..Len(l), NEW n \in Names,
         \A i \in 1..Len(l) : i # k => l[i].name # n
  PROVE  LET m == [l EXCEPT ![k].name = n]
         IN  /\ m \in Lists /\ NoTwins(m) /\ Len(m) = Len(l)
             /\ \A i \in 1..Len(l) : m[i] = IF i = k THEN [name |-> n, id |-> l[k].id] ELSE l[i]
<1> DEFINE m == [l EXCEPT ![k].name = n]
<1>1. /\ Len(l) \in Nat /\ l \in [1..Len(l) -> Config]
      /\ \A i \in 1..Len(l) : l[i] \in Config
  BY InList
<1>2. [l[k] EXCEPT !.name = n] = [name |-> n, id |-> l[k].id]
  BY <1>1 DEF Config
<1>3. \A i \in 1..Len(l) : m[i] = IF i = k THEN [name |-> n, id |-> l[k].id] ELSE l[i]
  BY <1>1, <1>2
<1>4. [name |-> n, id |-> l[k].id] \in Config
  BY <1>1 DEF Config
<1>5. m \in [1..Len(l) -> Config]
  BY <1>1, <1>2, <1>4
<1>6. m \in Lists /\ Len(m) = Len(l)
  BY <1>1, <1>5 DEF Lists
<1> HIDE DEF m
<1>7. ASSUME NEW i \in 1..Len(l)
      PROVE  /\ m[i].id = l[i].id
             /\ m[i].name = IF i = k THEN n ELSE l[i].name
  BY <1>3
<1>8. NoTwins(m)
  <2> SUFFICES ASSUME NEW i \in 1..Len(l), NEW j \in 1..Len(l),
                      m[i].name = m[j].name \/ m[i].id = m[j].id
               PROVE  i = j
    BY <1>6 DEF NoTwins
  <2>1. CASE m[i].id = m[j].id
    BY <1>7, <2>1 DEF NoTwins
  <2>2. CASE m[i].name = m[j].name
    BY <1>7, <2>2 DEF NoTwins
  <2> QED
    BY <2>1, <2>2
<1> QED
  BY <1>3, <1>6, <1>8 DEF m
-----------------------------------------------------------------------------
(* The invariant for any user. *)

Statuses == {"off", "aborted", "checking", "loading", "on"}

TypesOK ==
  /\ status \in Statuses
  /\ x \in Nat \ {0} /\ current \in Nat
  /\ list \in Lists /\ manager \in Lists /\ archive.manager \in Lists
  /\ file \in Files /\ archive.file \in Files
  /\ mem \in Values

\* What is read of the manager file is the beginning of it, and all of it when
\* it is no longer than MAX_CONFIGS.
LEMMA NamesRead ==
  ASSUME NEW m \in Lists, NoTwins(m)
  PROVE  /\ ReadNames(m) \in Lists /\ NoTwins(ReadNames(m))
         /\ Len(ReadNames(m)) <= Len(m)
         /\ \A i \in 1..Len(ReadNames(m)) : ReadNames(m)[i] = m[i]
         /\ \A i \in 1..Len(m) :
              i \in 1..Len(ReadNames(m)) <=> i < MaxConfigs \/ (i = MaxConfigs /\ i = Len(m))
         /\ m = <<>> => ReadNames(m) = <<>>
         /\ Len(m) <= MaxConfigs => ReadNames(m) = m
<1>1. /\ Len(m) \in Nat /\ MaxConfigs \in Nat \ {0}
      /\ \A i \in 1..Len(m) : m[i] \in Config
      /\ m = <<>> <=> Len(m) = 0
  BY InList, ConstantsOK
<1>2. CASE Len(m) <= MaxConfigs
  <2>1. ReadNames(m) = m
    BY <1>2 DEF ReadNames
  <2> QED
    BY <1>1, <1>2, <2>1
<1>3. CASE ~(Len(m) <= MaxConfigs)
  <2> DEFINE q == SubSeq(m, 1, MaxConfigs - 1)
  <2>1. ReadNames(m) = q
    BY <1>3 DEF ReadNames
  <2>2. \A i \in 1..MaxConfigs - 1 : m[i] \in Config
    BY <1>1, <1>3
  <2>3. /\ q \in Seq(Config)
        /\ Len(q) = IF 1 <= MaxConfigs - 1 THEN MaxConfigs - 1 - 1 + 1 ELSE 0
        /\ \A i \in 1..MaxConfigs - 1 - 1 + 1 : q[i] = m[1 + i - 1]
    BY <1>1, <2>2, SubSeqProperties
  <2> HIDE DEF q
  <2>4. /\ q \in Lists /\ Len(q) = MaxConfigs - 1
        /\ \A i \in 1..MaxConfigs - 1 : q[i] = m[i]
    BY <1>1, <2>3 DEF Lists
  <2>5. NoTwins(q)
    BY <1>1, <1>3, <2>4 DEF NoTwins
  <2>6. m # <<>>
    BY <1>1, <1>3
  <2> QED
    BY <1>1, <1>3, <2>1, <2>4, <2>5, <2>6
<1> QED
  BY <1>2, <1>3

\* Nothing is open before config_manager_init is through with the list, and
\* then the tables hold somebody's values.
StartOK ==
  /\ status \in {"off", "aborted", "checking"} => current = 0
  /\ status = "loading" => current = IF list = <<>> THEN 0 ELSE 1
  /\ status = "on" => mem # NoFile

\* The names in an archive are unique too: restoring it makes them the list's.
Unique == NamesUnique /\ NoTwins(archive.manager)

Inv == TypesOK /\ StartOK /\ Unique

\* Opening the i-th entry of l with the files f.
LEMMA Opened ==
  ASSUME NEW l \in Lists, NEW i \in 1..Len(l), NEW f \in Files, NEW rs,
         OpenConfig(l, i, rs, f)
  PROVE  /\ current' = i /\ open' = l[i].id /\ dirty' = FALSE
         /\ mem' \in Values /\ mem' # NoFile
<1>1. l[i].name \in Names /\ l[i].id \in Ids
  BY InList
<1>2. Load(f, l[i]) \in Values /\ Load(f, l[i]) # NoFile
  BY <1>1, PureIs, OwnedIs DEF Load, Files
<1>3. mem' \in Refreshed(Load(f, l[i]))
  BY DEF OpenConfig
<1>4. mem' \in Values /\ mem' # NoFile
  BY <1>2, <1>3, RefreshedIs, OwnedIs
<1> QED
  BY <1>4 DEF OpenConfig

\* Creating one after those of l.
LEMMA Created ==
  ASSUME NEW l \in Lists, NoTwins(l), \A i \in 1..Len(l) : l[i].id \in UsedIds,
         NEW b \in Bases, NEW rs, NEW copy, mem \in Values, NewConfig(l, rs, b, copy)
  PROVE  /\ list' \in Lists /\ NoTwins(list') /\ Len(list') = Len(l) + 1
         /\ current' = Len(l) + 1 /\ list'[current'].id = open'
         /\ list'[current'].name = FirstFree(l, b)
         /\ \A i \in 1..Len(l) : list'[i] = l[i]
         /\ mem' \in Owned /\ mem'.of = open' /\ open' \in Ids \ UsedIds
         /\ mem' = IF copy THEN Copied(mem, open') ELSE Pure(open')
         /\ looked' = looked
<1>1. FirstFree(l, b) \in Names /\ ~HasName(l, FirstFree(l, b))
  BY FirstFreeIsFree DEF NewConfig
<1>2. PICK id \in Ids \ UsedIds :
        /\ list' = Append(l, [name |-> FirstFree(l, b), id |-> id])
        /\ mem' = IF copy THEN Copied(mem, id) ELSE Pure(id)
        /\ open' = id
  BY DEF NewConfig
<1>3. /\ list' \in Lists /\ NoTwins(list') /\ Len(list') = Len(l) + 1
      /\ list'[Len(l) + 1] = [name |-> FirstFree(l, b), id |-> id]
      /\ \A i \in 1..Len(l) : list'[i] = l[i]
  BY <1>1, <1>2, AddedIsUnique
<1>4. current' = Len(l) + 1 /\ looked' = looked
  BY DEF NewConfig
<1>5. mem' \in Owned /\ mem'.of = id
  BY <1>2, PureIs, CopiedIs
<1> QED
  BY <1>2, <1>3, <1>4, <1>5

\* The end of config_manager_init opens the entry it was given, or creates one.
LEMMA Finished ==
  ASSUME NEW l \in Lists, NoTwins(l), NEW i, l # <<>> => i \in 1..Len(l),
         NEW f \in Files, NEW rs, mem \in Values, FinishInit(l, i, rs, f)
  PROVE  /\ status' = "on" /\ file' = f /\ x' = x
         /\ list' \in Lists /\ NoTwins(list') /\ current' \in 1..Len(list') /\ current' \in Nat
         /\ mem' \in Values /\ mem' # NoFile /\ Agree'
<1>1. status' = "on" /\ file' = f /\ x' = x
  BY DEF FinishInit
<1>2. CASE l # <<>>
  <2>1. list' = l /\ OpenConfig(l, i, rs, f) /\ i \in 1..Len(l)
    BY <1>2 DEF FinishInit
  <2>2. /\ current' = i /\ open' = l[i].id /\ mem' \in Values /\ mem' # NoFile
    BY <2>1, Opened
  <2>3. Agree'
    BY <1>2, <2>1, <2>2 DEF Agree, InRange
  <2>4. i \in Nat
    BY <2>1, InList
  <2> QED
    BY <1>1, <2>1, <2>2, <2>3, <2>4
<1>3. CASE l = <<>>
  <2>1. NewConfig(l, rs, "Default", FALSE)
    BY <1>3 DEF FinishInit
  <2>2. Len(l) = 0 /\ \A j \in 1..Len(l) : l[j].id \in UsedIds
    BY <1>3
  <2>3. /\ list' \in Lists /\ NoTwins(list') /\ Len(list') = 1
        /\ current' = 1 /\ list'[current'].id = open' /\ mem' \in Owned
    <3>1. "Default" \in Bases
      BY DEF Bases
    <3>2. /\ list' \in Lists /\ NoTwins(list') /\ Len(list') = Len(l) + 1
          /\ current' = Len(l) + 1 /\ list'[current'].id = open' /\ mem' \in Owned
      BY <2>1, <2>2, <3>1, Created, Zenon
    <3> QED
      BY <2>2, <3>2
  <2>4. list' # <<>>
    <3>1. Len(<<>>) # 1
      OBVIOUS
    <3> QED
      BY <2>3, <3>1, Zenon
  <2>5. mem' \in Values /\ mem' # NoFile
    BY <2>3, OwnedIs
  <2>6. Agree'
    BY <2>3, <2>4 DEF Agree, InRange
  <2> QED
    BY <1>1, <2>3, <2>5, <2>6
<1> QED
  BY <1>2, <1>3

\* The identities of list and archive are used.
LEMMA UsedHere ==
  ASSUME TypesOK
  PROVE  \A i \in 1..Len(list) : list[i].id \in UsedIds
BY DEF UsedIds

\* The list that config_manager_open_old makes.
LEMMA OldAdded ==
  ASSUME TypesOK, NoTwins(list), NEW id \in Ids \ UsedIds, LoadingOld
  PROVE  /\ OldName \in Names /\ ~HasName(list, OldName)
         /\ OldList(id) \in Lists /\ NoTwins(OldList(id)) /\ OldList(id) # <<>>
         /\ Len(OldList(id)) = Len(list) + 1 /\ Len(list) + 1 \in 1..Len(OldList(id))
         /\ OldList(id)[Len(list) + 1] = [name |-> OldName, id |-> id]
         /\ \A i \in 1..Len(list) : OldList(id)[i] = list[i]
<1>1. OldName \in Names /\ ~HasName(list, OldName)
  BY FirstFreeIsFree DEF OldName, LoadingOld, Bases
<1>2. \A i \in 1..Len(list) : list[i].id # id
  BY UsedHere
<1>3. /\ OldList(id) \in Lists /\ NoTwins(OldList(id)) /\ Len(OldList(id)) = Len(list) + 1
      /\ OldList(id)[Len(list) + 1] = [name |-> OldName, id |-> id]
      /\ \A i \in 1..Len(list) : OldList(id)[i] = list[i]
  BY <1>1, <1>2, AddedIsUnique DEF OldList, TypesOK
<1>4. Len(list) \in Nat
  BY InList DEF TypesOK
<1>5. OldList(id) # <<>>
  BY <1>3, <1>4, InList
<1> QED
  BY <1>1, <1>3, <1>4, <1>5

\* The end of the process: an empty list in memory, nothing open.
LEMMA Forgotten ==
  ASSUME NEW st \in {"off", "aborted"}, Forget(st)
  PROVE  /\ status' = st /\ x' = 1 /\ list' = <<>> /\ current' = 0 /\ mem' = NoFile
         /\ list' \in Lists /\ NoTwins(list') /\ mem' \in Values
<1>1. list' = <<>> /\ Len(<<>>) = 0
  BY DEF Forget
<1>2. list' \in Lists
  BY <1>1 DEF Lists
<1>3. NoTwins(list')
  BY <1>1 DEF NoTwins
<1> QED
  BY <1>2, <1>3 DEF Forget, Values

\* The files after a save.
LEMMA SavedIsFiles ==
  ASSUME TypesOK, InRange
  PROVE  /\ SavedFile \in Files /\ WriterKilled \in Files
         /\ list[current] \in Config /\ list[current].name \in Names
         /\ SavedFile[list[current].name] = mem
         /\ WriterKilled[list[current].name] = Torn
         /\ \A n \in Names \ {list[current].name} : SavedFile[n] = file[n] /\ WriterKilled[n] = file[n]
<1>1. list[current] \in Config /\ list[current].name \in Names
  BY InList DEF TypesOK, InRange
<1> QED
  BY <1>1 DEF TypesOK, SavedFile, WriterKilled, Files, Values
-----------------------------------------------------------------------------
(* One step from a state of the invariant, for any user. *)

AgreeStep == (status = "on" => Agree) /\ status' = "on" /\ ~Drifts => Agree'

WrittenStep ==
  ~IOFails /\ status = "on" /\ status' = "on" /\ Agree /\ dirty /\ ~dirty'
    /\ Len(list') = Len(list) => file'[list[current].name] = mem

Saved(c) == file[c.name] # NoFile /\ Contains(manager, c)
EndingStep ==
  status = "on" /\ status' \in {"off", "aborted"} =>
    \A i \in 1..Len(list) :
      Saved(list[i]) => file'[list[i].name] # NoFile /\ Contains(manager', list[i])

StepOK == Inv' /\ AgreeStep /\ WrittenStep /\ EndingStep

\* Reading the manager file and walking through its entries.
LEMMA StartupStep ==
  ASSUME Inv, archive' = archive,
         ReadFile \/ CheckPresent \/ CheckMissing \/ CheckMissingAborts \/ CheckDone
  PROVE  StepOK
<1> USE DEF Inv
<1>1. Len(list) \in Nat
  BY InList DEF TypesOK
<1>2. CASE ReadFile
  <2>0. list' \in Lists /\ NoTwins(list')
    BY <1>2, NamesRead DEF ReadFile, TypesOK, Unique, NamesUnique
  <2>1. TypesOK' /\ status # "on" /\ status' # "on"
    BY <1>2, <2>0 DEF TypesOK, ReadFile, Statuses, editor, disk
  <2>2. StartOK'
    <3>1. status' = "loading" => list' = <<>>
      BY <1>2, NamesRead DEF ReadFile, TypesOK, Unique, NamesUnique
    <3> QED
      BY <1>2, <3>1 DEF StartOK, ReadFile
  <2>3. Unique'
    BY <1>2, <2>0 DEF Unique, NamesUnique, NoTwins, ReadFile, disk
  <2> QED
    BY <2>1, <2>2, <2>3 DEF StepOK, AgreeStep, WrittenStep, EndingStep
<1>3. CASE CheckPresent
  <2>1. TypesOK' /\ status # "on" /\ status' # "on"
    BY <1>3 DEF TypesOK, CheckPresent, Statuses, editor, disk
  <2>2. StartOK'
    BY <1>3 DEF StartOK, CheckPresent
  <2>3. Unique'
    BY <1>3 DEF Unique, NamesUnique, NoTwins, CheckPresent, disk
  <2> QED
    BY <2>1, <2>2, <2>3 DEF StepOK, AgreeStep, WrittenStep, EndingStep
<1>4. CASE CheckMissing
  <2>1. x \in 1..Len(list)
    BY <1>1, <1>4 DEF CheckMissing, TypesOK
  <2>2. list' \in Lists /\ NoTwins(list')
    BY <1>4, <2>1, RemovedIsUnique DEF CheckMissing, Unique, NamesUnique, TypesOK
  <2>3. TypesOK' /\ status # "on" /\ status' # "on"
    BY <1>4, <2>2 DEF TypesOK, CheckMissing, Statuses, editor, disk
  <2>4. StartOK'
    BY <1>4 DEF StartOK, CheckMissing
  <2>5. Unique'
    BY <1>4, <2>2 DEF Unique, NamesUnique, NoTwins, CheckMissing, disk
  <2> QED
    BY <2>3, <2>4, <2>5 DEF StepOK, AgreeStep, WrittenStep, EndingStep
<1>5. CASE CheckMissingAborts
  <2>1. /\ status' = "aborted" /\ x' = 1 /\ list' = <<>> /\ current' = 0 /\ mem' = NoFile
        /\ list' \in Lists /\ NoTwins(list') /\ mem' \in Values
    BY <1>5, Forgotten DEF CheckMissingAborts
  <2>2. TypesOK' /\ status # "on" /\ status' # "on"
    BY <1>5, <2>1 DEF TypesOK, CheckMissingAborts, Statuses, disk
  <2>3. StartOK'
    BY <2>1 DEF StartOK
  <2>4. Unique'
    BY <1>5, <2>1 DEF Unique, NamesUnique, NoTwins, CheckMissingAborts, disk
  <2> QED
    BY <2>2, <2>3, <2>4 DEF StepOK, AgreeStep, WrittenStep, EndingStep
<1>6. CASE CheckDone
  <2>1. TypesOK' /\ status # "on" /\ status' # "on"
    BY <1>6 DEF TypesOK, CheckDone, Statuses, editor, disk
  <2>2. StartOK'
    BY <1>6 DEF StartOK, CheckDone
  <2>3. Unique'
    BY <1>6 DEF Unique, NamesUnique, NoTwins, CheckDone, disk
  <2> QED
    BY <2>1, <2>2, <2>3 DEF StepOK, AgreeStep, WrittenStep, EndingStep
<1> QED
  BY <1>2, <1>3, <1>4, <1>5, <1>6

\* The rest of config_manager_init.
LEMMA FinishStep ==
  ASSUME Inv, archive' = archive, NEW l \in Lists, NoTwins(l), NEW i,
         l # <<>> => i \in 1..Len(l), NEW f \in Files, NEW rs, FinishInit(l, i, rs, f),
         manager' \in Lists, NoTwins(manager'), status = "loading"
  PROVE  StepOK
<1>1. /\ status' = "on" /\ file' = f /\ x' = x
      /\ list' \in Lists /\ NoTwins(list') /\ current' \in Nat
      /\ mem' \in Values /\ mem' # NoFile /\ Agree'
  BY Finished DEF Inv, TypesOK
<1>2. TypesOK'
  BY <1>1 DEF Inv, TypesOK, Statuses
<1>3. StartOK'
  BY <1>1 DEF StartOK
<1>4. Unique'
  BY <1>1 DEF Inv, Unique, NamesUnique, NoTwins
<1> QED
  BY <1>1, <1>2, <1>3, <1>4 DEF Inv, StepOK, AgreeStep, WrittenStep, EndingStep

LEMMA InitStep ==
  ASSUME Inv, archive' = archive,
         InitPlain \/ InitOldFails \/ \E id \in Ids \ UsedIds : InitOld(id) \/ InitOldClash(id)
  PROVE  StepOK
<1> USE DEF Inv
<1>1. list \in Lists /\ manager \in Lists /\ file \in Files /\ NoTwins(list) /\ NoTwins(manager)
  BY DEF TypesOK, Unique, NamesUnique
<1>2. Len(list) \in Nat /\ (list = <<>> <=> Len(list) = 0)
  BY <1>1, InList
<1>3. CASE InitPlain
  <2>1. list # <<>> => current \in 1..Len(list)
    BY <1>2, <1>3 DEF StartOK, InitPlain
  <2>2. FinishInit(list, current, rows, file) /\ manager' = manager /\ status = "loading"
    BY <1>3 DEF InitPlain
  <2> QED
    BY <1>1, <2>1, <2>2, FinishStep
<1>4. CASE InitOldFails
  <2>1. list # <<>> => Len(list) \in 1..Len(list)
    BY <1>2
  <2>2. /\ FinishInit(list, Len(list), AddRow(rows, OldName, Len(list) + 1), file)
        /\ manager' = manager /\ status = "loading"
    BY <1>4 DEF InitOldFails, LoadingOld
  <2> QED
    BY <1>1, <2>1, <2>2, FinishStep
<1>5. ASSUME NEW id \in Ids \ UsedIds, InitOld(id)
      PROVE  StepOK
  <2>1. /\ OldName \in Names
        /\ OldList(id) \in Lists /\ NoTwins(OldList(id)) /\ OldList(id) # <<>>
        /\ Len(list) + 1 \in 1..Len(OldList(id))
    BY <1>1, <1>5, OldAdded DEF InitOld
  <2>2. [file EXCEPT ![OldName] = Pure(id)] \in Files
    <3>1. Pure(id) \in Values
      BY PureIs, OwnedIs
    <3> QED
      BY <1>1, <3>1 DEF Files
  <2>3. /\ FinishInit(OldList(id), Len(list) + 1, AddRow(rows, OldName, Len(list) + 1), [file EXCEPT ![OldName] = Pure(id)])
        /\ manager' = OldList(id) /\ status = "loading"
    BY <1>5 DEF InitOld, LoadingOld
  <2> QED
    BY <2>1, <2>2, <2>3, FinishStep
<1>6. ASSUME NEW id \in Ids \ UsedIds, InitOldClash(id)
      PROVE  StepOK
  <2>1. /\ OldList(id) \in Lists /\ NoTwins(OldList(id))
        /\ Len(list) + 1 \in 1..Len(OldList(id))
    BY <1>1, <1>6, OldAdded DEF InitOldClash
  <2>2. /\ FinishInit(OldList(id), Len(list) + 1, AddRow(rows, OldName, Len(list) + 1), file)
        /\ manager' = manager /\ status = "loading"
    BY <1>6 DEF InitOldClash, LoadingOld
  <2> QED
    BY <1>1, <2>1, <2>2, FinishStep
<1> QED
  BY <1>3, <1>4, <1>5, <1>6

\* What a handler of the window has to do for the invariant.
LEMMA StaysOn ==
  ASSUME Inv, status = "on", status' = "on", x' = x, archive' = archive,
         list' \in Lists, NoTwins(list'), manager' \in Lists, NoTwins(manager'),
         file' \in Files, current' \in Nat, mem' \in Values, mem' # NoFile
  PROVE  Inv' /\ EndingStep
<1>1. TypesOK'
  BY DEF Inv, TypesOK
<1>2. StartOK'
  BY DEF StartOK
<1>3. Unique'
  BY DEF Inv, Unique, NamesUnique, NoTwins
<1> QED
  BY <1>1, <1>2, <1>3 DEF Inv, EndingStep

\* What the invariant says while the window is there.
LEMMA WhileOn ==
  ASSUME Inv, status = "on"
  PROVE  /\ list \in Lists /\ NoTwins(list) /\ manager \in Lists /\ NoTwins(manager)
         /\ file \in Files /\ current \in Nat /\ mem \in Values /\ mem # NoFile
         /\ Len(list) \in Nat /\ (list = <<>> <=> Len(list) = 0)
         /\ Agree => (current \in 1..Len(list) /\ list[current].id = open) \/ (list = <<>> /\ current = 0 /\ open = NoId)
<1>1. /\ list \in Lists /\ NoTwins(list) /\ manager \in Lists /\ NoTwins(manager)
      /\ file \in Files /\ current \in Nat /\ mem \in Values /\ mem # NoFile
  BY DEF Inv, TypesOK, StartOK, Unique, NamesUnique
<1>2. Len(list) \in Nat /\ (list = <<>> <=> Len(list) = 0)
  BY <1>1, InList
<1> QED
  BY <1>1, <1>2 DEF Agree, InRange

LEMMA EditStep ==
  ASSUME Inv, archive' = archive, Edit \/ Look \/ Detect \/ DeleteButton
  PROVE  StepOK
<1>1. /\ status = "on" /\ status' = "on" /\ (dirty => dirty')
      /\ UNCHANGED <<x, list, current, rows, open, disk>>
  BY DEF Edit, Look, Detect, DeleteButton
<1>5. mem' \in Values /\ mem' # NoFile
  <2>1. mem' = mem \/ mem' \in Refreshed(mem)
    BY DEF Edit, Look, Detect, DeleteButton
  <2> QED
    BY <1>1, <2>1, WhileOn, RefreshedIs, OwnedIs
<1>2. NoTwins(list') /\ NoTwins(manager')
  BY <1>1, WhileOn DEF NoTwins, disk
<1>3. Inv' /\ EndingStep
  BY <1>1, <1>2, <1>5, WhileOn, StaysOn DEF disk
<1>4. Agree => Agree'
  BY <1>1 DEF Agree, InRange
<1> QED
  BY <1>1, <1>3, <1>4 DEF StepOK, AgreeStep, WrittenStep

LEMMA NewStep ==
  ASSUME Inv, archive' = archive, NEW copy \in BOOLEAN, New(copy)
  PROVE  StepOK
<1>1. /\ status = "on" /\ status' = "on" /\ x' = x /\ UNCHANGED disk
      /\ NewConfig(list, rows, "New config", copy)
  BY DEF New
<1>2. "New config" \in Bases
  BY DEF Bases
<1>3. \A i \in 1..Len(list) : list[i].id \in UsedIds
  BY UsedHere DEF Inv
<1>4. /\ list' \in Lists /\ NoTwins(list') /\ Len(list') = Len(list) + 1
      /\ current' = Len(list) + 1 /\ list'[current'].id = open' /\ mem' \in Owned
  BY <1>1, <1>2, <1>3, WhileOn, Created, Zenon
<1>5. mem' \in Values /\ mem' # NoFile
  BY <1>4, OwnedIs
<1>6. NoTwins(manager') /\ manager' \in Lists /\ file' \in Files
  BY <1>1, WhileOn DEF NoTwins, disk
<1>7. Len(list) \in Nat
  BY <1>1, WhileOn
<1>8. Inv' /\ EndingStep
  <2>1. current' \in Nat
    BY <1>4, <1>7
  <2> QED
    BY <1>1, <1>4, <1>5, <1>6, <2>1, StaysOn, Zenon
<1>9. Agree'
  <2>1. list' # <<>>
    BY <1>4, <1>7, InList
  <2> QED
    BY <1>4, <1>7, <2>1 DEF Agree, InRange
<1> QED
  BY <1>4, <1>7, <1>8, <1>9 DEF StepOK, AgreeStep, WrittenStep

\* Deleting one above the open one is the first of the drifts.
LEMMA DeleteStep ==
  ASSUME Inv, archive' = archive, NEW r \in 1..Len(rows), Delete(r)
  PROVE  StepOK
<1> DEFINE n == rows[r].name
           k == GetIndex(list, n)
           l == RemoveAt(list, k)
           f == DeleteFile(file, n)
           rs == UpdatePriorities(RemoveAt(rows, r))
           to == IF k > Len(l) THEN Len(l) ELSE k
<1>1. /\ status = "on" /\ status' = "on" /\ x' = x /\ manager' = manager
      /\ HasName(list, n) /\ InRange /\ list' = l /\ file' = f
      /\ \/ l = <<>> /\ current' = 0 /\ open' = NoId /\ mem' = mem
         \/ l # <<>> /\ k = current /\ OpenConfig(l, to, rs, f)
         \/ l # <<>> /\ k # current /\ current' = current /\ open' = open /\ mem' = mem
  BY DEF Delete, Chosen, editor
<1>2. k \in 1..Len(list) /\ list[k].name = n
  BY <1>1, WhileOn, IndexFound
<1>3. DeletesAbove(r) <=> k < current
  BY DEF DeletesAbove
<1>4. f \in Files
  <2>1. file \in Files
    BY <1>1, WhileOn
  <2> QED
    BY <2>1 DEF DeleteFile, Files, Values
<1> HIDE DEF n, k, rs, f
<1>5. /\ l \in Lists /\ NoTwins(l) /\ Len(l) = Len(list) - 1
      /\ \A i \in 1..Len(list) - 1 : l[i] = IF i < k THEN list[i] ELSE list[i + 1]
  BY <1>1, <1>2, WhileOn, RemovedIsUnique
<1> HIDE DEF l
<1>6. Len(list) \in Nat /\ (l = <<>> <=> Len(l) = 0) /\ current \in 1..Len(list)
  BY <1>1, <1>5, WhileOn, InList DEF InRange
<1>7. NoTwins(list') /\ NoTwins(manager')
  BY <1>1, <1>5, WhileOn DEF NoTwins
<1>8. l # <<>> => to \in 1..Len(l)
  BY <1>2, <1>5, <1>6
<1>9. l # <<>> /\ OpenConfig(l, to, rs, f)
        => current' = to /\ open' = l[to].id /\ mem' \in Values /\ mem' # NoFile
  BY <1>4, <1>5, <1>8, Opened
<1> HIDE DEF to
<1>10. current' \in Nat /\ mem' \in Values /\ mem' # NoFile
  <2>1. mem \in Values /\ mem # NoFile /\ current \in Nat
    BY <1>1, WhileOn
  <2>2. l # <<>> => to \in Nat
    BY <1>6, <1>5, <1>8
  <2> QED
    BY <1>1, <1>9, <2>1, <2>2
<1>11. Inv' /\ EndingStep
  BY <1>1, <1>4, <1>5, <1>7, <1>10, WhileOn, StaysOn
<1>12. Agree /\ ~Drifts => Agree'
  <2> SUFFICES ASSUME Agree, ~Drifts
               PROVE  Agree'
    OBVIOUS
  <2>1. ~(k < current)
    BY <1>3 DEF Drifts
  <2>2. CASE l = <<>>
    BY <1>1, <2>2 DEF Agree
  <2>3. CASE l # <<>> /\ k = current
    BY <1>1, <1>8, <1>9, <2>3 DEF Agree, InRange
  <2>4. CASE l # <<>> /\ k # current
    <3>1. current < k /\ current \in 1..Len(l)
      BY <1>2, <1>5, <1>6, <2>1, <2>4
    <3>2. l[current] = list[current]
      BY <1>5, <1>6, <3>1
    <3>3. list[current].id = open
      BY <1>6 DEF Agree
    <3> QED
      BY <1>1, <2>4, <3>1, <3>2, <3>3 DEF Agree, InRange
  <2> QED
    BY <2>2, <2>3, <2>4
<1>13. Len(list') # Len(list)
  BY <1>1, <1>5, <1>6
<1> QED
  BY <1>1, <1>11, <1>12, <1>13 DEF StepOK, AgreeStep, WrittenStep

\* Two neighbours trade places and configs.current follows the selected one.
LEMMA MoveStep ==
  ASSUME Inv, archive' = archive, NEW r \in 1..Len(rows),
         NEW k \in 1..Len(list), NEW to \in 1..Len(list), to # k,
         status = "on", list' = Swap(list, to, k), current' = Follow(k, to),
         ~Drifts => current # to,
         UNCHANGED <<status, x, editor, disk>>
  PROVE  StepOK
<1>1. /\ list' \in Lists /\ NoTwins(list') /\ Len(list') = Len(list)
      /\ \A i \in 1..Len(list) :
           list'[i] = IF i = k THEN list[to] ELSE IF i = to THEN list[k] ELSE list[i]
  BY WhileOn, SwappedIsUnique
<1>2. UNCHANGED <<mem, open, dirty, manager, file>>
  BY DEF editor, disk
<1>3. NoTwins(manager') /\ manager' \in Lists /\ file' \in Files /\ mem' \in Values /\ mem' # NoFile
  BY <1>2, WhileOn DEF NoTwins
<1>4. Len(list) \in Nat
  BY WhileOn
<1>5. current' \in Nat
  BY <1>4, WhileOn DEF Follow
<1>6. Inv' /\ EndingStep
  BY <1>1, <1>3, <1>5, StaysOn
<1>7. Agree /\ ~Drifts => Agree'
  <2> SUFFICES ASSUME Agree, ~Drifts
               PROVE  Agree'
    OBVIOUS
  <2>1. list # <<>> /\ list' # <<>>
    BY <1>1, <1>4, InList, WhileOn
  <2>2. current \in 1..Len(list) /\ list[current].id = open /\ current # to
    BY <2>1 DEF Agree, InRange
  <2>3. current' \in 1..Len(list) /\ list'[current'] = list[current]
    BY <1>1, <2>2 DEF Follow
  <2> QED
    BY <1>1, <1>2, <2>1, <2>2, <2>3 DEF Agree, InRange
<1> QED
  BY <1>2, <1>6, <1>7 DEF StepOK, AgreeStep, WrittenStep

\* Moving one past the open one is the other drift.
LEMMA UpDownStep ==
  ASSUME Inv, archive' = archive, NEW r \in 1..Len(rows), Up(r) \/ Down(r)
  PROVE  StepOK
<1> DEFINE k == GetIndex(list, rows[r].name)
<1>1. Len(list) \in Nat /\ list \in Lists /\ current \in Nat /\ status = "on"
  BY WhileOn DEF Up, Down, Chosen
<1>2. k \in 0..Len(list)
  BY <1>1, IndexFound
<1>3. CASE Up(r)
  <2>1. k > 1 /\ list' = Swap(list, k - 1, k) /\ current' = Follow(k, k - 1)
    BY <1>3 DEF Up
  <2>2. UNCHANGED <<status, x, editor, disk>>
    BY <1>3 DEF Up
  <2>3. ~Drifts => k # current + 1
    BY <1>3 DEF Drifts, MovesPast
  <2> HIDE DEF k
  <2>4. k \in 1..Len(list) /\ k - 1 \in 1..Len(list) /\ k - 1 # k /\ (~Drifts => current # k - 1)
    BY <1>1, <1>2, <2>1, <2>3
  <2> QED
    BY <1>1, <2>1, <2>2, <2>4, MoveStep
<1>4. CASE Down(r)
  <2>1. k \in 1..Len(list) - 1 /\ list' = Swap(list, k, k + 1) /\ current' = Follow(k, k + 1)
    BY <1>4 DEF Down
  <2>2. UNCHANGED <<status, x, editor, disk>>
    BY <1>4 DEF Down
  <2>3. ~Drifts => k # current - 1
    BY <1>4 DEF Drifts, MovesPast
  <2>4. Swap(list, k, k + 1) = Swap(list, k + 1, k)
    <3>1. k \in 1..Len(list) /\ k + 1 \in 1..Len(list) /\ list \in [1..Len(list) -> Config]
      BY <1>1, <2>1, InList
    <3> HIDE DEF k
    <3> QED
      BY <3>1 DEF Swap
  <2> HIDE DEF k
  <2>5. k \in 1..Len(list) /\ k + 1 \in 1..Len(list) /\ k + 1 # k /\ (~Drifts => current # k + 1)
    BY <1>1, <1>2, <2>1, <2>3
  <2> QED
    BY <1>1, <2>1, <2>2, <2>4, <2>5, MoveStep
<1> QED
  BY <1>3, <1>4

LEMMA RenameStep ==
  ASSUME Inv, archive' = archive, NEW n \in Names, Rename(n)
  PROVE  StepOK
<1>1. /\ status = "on" /\ status' = "on" /\ InRange /\ ~NameTaken(n)
      /\ list' = [list EXCEPT ![current].name = n]
      /\ UNCHANGED <<x, current, editor, manager>>
  BY DEF Rename
<1>2. \A i \in 1..Len(list) : i # current => list[i].name # n
  BY <1>1 DEF NameTaken
<1>3. /\ list' \in Lists /\ NoTwins(list') /\ Len(list') = Len(list)
      /\ \A i \in 1..Len(list) :
           list'[i] = IF i = current THEN [name |-> n, id |-> list[current].id] ELSE list[i]
  <2>1. list \in Lists /\ NoTwins(list) /\ current \in 1..Len(list)
    BY <1>1, WhileOn DEF InRange
  <2>2. LET m == [list EXCEPT ![current].name = n]
        IN  /\ m \in Lists /\ NoTwins(m) /\ Len(m) = Len(list)
            /\ \A i \in 1..Len(list) :
                 m[i] = IF i = current THEN [name |-> n, id |-> list[current].id] ELSE list[i]
    BY <1>2, <2>1, RenamedIsUnique, Zenon
  <2> QED
    BY <1>1, <2>2, Zenon
<1>4. file' \in Files
  <2>1. file \in Files /\ list[current].name \in Names
    BY <1>1, WhileOn, InList DEF InRange
  <2>2. file' = file \/ file' = [file EXCEPT ![n] = file[list[current].name], ![list[current].name] = NoFile]
    BY DEF Rename
  <2> QED
    BY <2>1, <2>2 DEF Files, Values
<1>5. UNCHANGED <<mem, open, dirty>>
  BY <1>1 DEF editor
<1>6. NoTwins(manager') /\ manager' \in Lists /\ mem' \in Values /\ mem' # NoFile /\ current' \in Nat
  BY <1>1, <1>5, WhileOn DEF NoTwins
<1>7. Inv' /\ EndingStep
  BY <1>1, <1>3, <1>4, <1>6, StaysOn
<1>8. Agree => Agree'
  <2> SUFFICES ASSUME Agree
               PROVE  Agree'
    OBVIOUS
  <2>1. current \in 1..Len(list) /\ list # <<>> /\ Len(list) \in Nat
    BY <1>1, WhileOn DEF InRange
  <2>2. list[current].id = open
    BY <2>1 DEF Agree
  <2>3. list'[current].id = open' /\ list' # <<>>
    BY <1>3, <1>5, <2>1, <2>2, InList
  <2> QED
    BY <1>1, <1>3, <2>1, <2>3 DEF Agree, InRange
<1>9. ~(dirty /\ ~dirty')
  BY <1>5, Zenon
<1> QED
  BY <1>1, <1>7, <1>8, <1>9 DEF StepOK, AgreeStep, WrittenStep

LEMMA SaveStep ==
  ASSUME Inv, archive' = archive, Save
  PROVE  StepOK
<1>1. /\ status = "on" /\ status' = "on" /\ InRange /\ file' = SavedFile /\ manager' = list
      /\ UNCHANGED <<x, list, current, rows, mem, open>>
  BY DEF Save
<1>2. SavedFile \in Files /\ SavedFile[list[current].name] = mem
  BY <1>1, SavedIsFiles DEF Inv
<1>3. NoTwins(list') /\ NoTwins(manager') /\ list' \in Lists /\ manager' \in Lists
  BY <1>1, WhileOn DEF NoTwins
<1>4. file' \in Files /\ current' \in Nat /\ mem' \in Values /\ mem' # NoFile
  BY <1>1, <1>2, WhileOn
<1>5. Inv' /\ EndingStep
  BY <1>1, <1>3, <1>4, StaysOn
<1>6. Agree => Agree'
  BY <1>1 DEF Agree, InRange
<1> QED
  BY <1>1, <1>2, <1>5, <1>6 DEF StepOK, AgreeStep, WrittenStep

\* A double click saves before it opens, unless the save fails.
LEMMA ActivateStep ==
  ASSUME Inv, archive' = archive, NEW r \in 1..Len(rows), Activate(r)
  PROVE  StepOK
<1> DEFINE k == GetIndex(list, rows[r].name)
<1>1. /\ status = "on" /\ status' = "on" /\ UNCHANGED <<x, list>>
      /\ \/ InRange /\ file' = SavedFile /\ manager' = list
         \/ (~InRange \/ IOFails) /\ UNCHANGED <<file, manager>> /\ (Opens(r) \/ UNCHANGED dirty)
      /\ \/ Opens(r) /\ OpenConfig(list, k, rows, file')
         \/ ~Opens(r) /\ UNCHANGED <<current, mem, open>>
  BY DEF Activate
<1>2. /\ list \in Lists /\ NoTwins(list) /\ manager \in Lists /\ NoTwins(manager)
      /\ file \in Files /\ current \in Nat /\ mem \in Values /\ mem # NoFile /\ Len(list) \in Nat
  BY <1>1, WhileOn
<1>3. InRange => SavedFile \in Files /\ SavedFile[list[current].name] = mem
  BY SavedIsFiles DEF Inv
<1>4. file' \in Files
  BY <1>1, <1>2, <1>3
<1>5. Opens(r) => k \in 1..Len(list)
  BY <1>2, IndexFound DEF Opens
<1> HIDE DEF k
<1>6. Opens(r) => current' = k /\ open' = list[k].id /\ mem' \in Values /\ mem' # NoFile
  BY <1>1, <1>2, <1>4, <1>5, Opened
<1>7. current' \in Nat /\ mem' \in Values /\ mem' # NoFile
  BY <1>1, <1>2, <1>5, <1>6
<1>8. NoTwins(list') /\ NoTwins(manager') /\ list' \in Lists /\ manager' \in Lists
  <2>1. list' = list /\ (manager' = list \/ manager' = manager)
    BY <1>1
  <2> QED
    BY <1>2, <2>1 DEF NoTwins
<1>9. Inv' /\ EndingStep
  BY <1>1, <1>4, <1>7, <1>8, StaysOn
<1>10. Agree => Agree'
  <2>1. CASE Opens(r)
    <3>1. list # <<>>
      BY <1>2, <1>5, <2>1, InList
    <3> QED
      BY <1>1, <1>5, <1>6, <2>1, <3>1 DEF Agree, InRange
  <2>2. CASE ~Opens(r)
    BY <1>1, <2>2 DEF Agree, InRange
  <2> QED
    BY <2>1, <2>2
<1>11. WrittenStep
  <2> SUFFICES ASSUME ~IOFails, Agree, dirty, ~dirty'
               PROVE  file'[list[current].name] = mem
    BY DEF WrittenStep
  <2>1. CASE InRange
    BY <1>1, <1>3, <2>1
  <2>2. CASE ~InRange
    <3>1. list = <<>>
      BY <2>2 DEF Agree
    <3>2. ~Opens(r)
      BY <1>5, <3>1
    <3>3. UNCHANGED dirty
      BY <1>1, <2>2, <3>2
    <3> QED
      BY <3>3, Zenon
  <2> QED
    BY <2>1, <2>2
<1> QED
  BY <1>1, <1>9, <1>10, <1>11 DEF StepOK, AgreeStep

\* The process ends, having written what is listed and open, or a part of it.
LEMMA ForgetStep ==
  ASSUME Inv, archive' = archive, NEW st \in {"off", "aborted"}, Forget(st),
         manager' \in {manager, list}, file' \in Files, status \in {"checking", "loading", "on"},
         status = "on" => \A n \in Names : file[n] # NoFile => file'[n] # NoFile
  PROVE  StepOK
<1>1. /\ status' = st /\ x' = 1 /\ list' = <<>> /\ current' = 0 /\ mem' = NoFile
      /\ list' \in Lists /\ NoTwins(list') /\ mem' \in Values
  BY Forgotten
<1>2. manager' \in Lists /\ NoTwins(manager')
  BY DEF Inv, TypesOK, Unique, NamesUnique, NoTwins
<1>3. TypesOK' /\ status' # "on"
  BY <1>1, <1>2 DEF Inv, TypesOK, Statuses
<1>4. StartOK'
  BY <1>1 DEF StartOK
<1>5. Unique'
  BY <1>1, <1>2 DEF Inv, Unique, NamesUnique, NoTwins
<1>6. EndingStep
  <2> SUFFICES ASSUME status = "on", NEW i \in 1..Len(list), Saved(list[i])
               PROVE  file'[list[i].name] # NoFile /\ Contains(manager', list[i])
    BY DEF EndingStep
  <2>1. list[i].name \in Names
    BY InList DEF Inv, TypesOK
  <2>2. Contains(list, list[i])
    BY DEF Contains
  <2> QED
    BY <2>1, <2>2 DEF Saved
<1> QED
  BY <1>3, <1>4, <1>5, <1>6 DEF Inv, StepOK, AgreeStep, WrittenStep

LEMMA EndStep ==
  ASSUME Inv, archive' = archive,
         \/ Quit \/ Killed
         \/ \E n \in Typed : RenameAborts(n)
         \/ \E r \in 1..Len(rows) : DeleteAborts(r) \/ DownAborts(r)
  PROVE  StepOK
<1>1. file \in Files /\ "off" \in {"off", "aborted"} /\ "aborted" \in {"off", "aborted"}
  BY DEF Inv, TypesOK
<1>2. CASE /\ status \in {"checking", "loading", "on"}
           /\ Forget("off") \/ Forget("aborted")
           /\ manager' \in {manager, list} /\ file' = file
  BY <1>1, <1>2, ForgetStep
<1>3. CASE Quit \/ KillInSave
  <2>1. status = "on" /\ Forget("off") /\ manager' \in {manager, list}
    BY <1>3 DEF Quit, KillInSave
  <2>2. mem # NoFile /\ Torn # NoFile
    BY <2>1, ConstantsOK DEF Inv, StartOK
  <2>3. InRange => /\ SavedFile \in Files /\ WriterKilled \in Files
                   /\ list[current].name \in Names
                   /\ SavedFile[list[current].name] = mem
                   /\ WriterKilled[list[current].name] = Torn
                   /\ \A n \in Names \ {list[current].name} :
                        SavedFile[n] = file[n] /\ WriterKilled[n] = file[n]
    BY SavedIsFiles DEF Inv
  <2>4. file' \in Files /\ \A n \in Names : file[n] # NoFile => file'[n] # NoFile
    <3>1. file' = file \/ (InRange /\ file' \in {SavedFile, WriterKilled})
      BY <1>3 DEF Quit, KillInSave
    <3>2. CASE file' = file
      BY <1>1, <3>2
    <3>3. CASE InRange /\ file' \in {SavedFile, WriterKilled}
      <4>1. ASSUME NEW n \in Names, file[n] # NoFile
            PROVE  file'[n] # NoFile
        <5>1. CASE n = list[current].name
          BY <2>2, <2>3, <3>3, <5>1
        <5>2. CASE n # list[current].name
          BY <2>3, <3>3, <4>1, <5>2
        <5> QED
          BY <5>1, <5>2
      <4> QED
        BY <2>3, <3>3, <4>1
    <3> QED
      BY <3>1, <3>2, <3>3
  <2> QED
    BY <1>1, <2>1, <2>4, ForgetStep
<1>4. CASE Kill \/ KillInQuit
  BY <1>2, <1>4 DEF Kill, KillInQuit, disk
<1>7. ASSUME NEW id \in Ids \ UsedIds, KillInOpenOld(id)
      PROVE  StepOK
  <2>1. status = "loading" /\ Forget("off") /\ manager' = manager
    BY <1>7 DEF KillInOpenOld, LoadingOld
  <2>2. file' \in Files
    <3>1. Pure(id) \in Values /\ file' = [file EXCEPT ![OldName] = Pure(id)]
      BY <1>7, PureIs, OwnedIs DEF KillInOpenOld
    <3> QED
      BY <1>1, <3>1 DEF Files
  <2> QED
    BY <1>1, <2>1, <2>2, ForgetStep
<1>5. CASE \E n \in Typed : RenameAborts(n)
  BY <1>2, <1>5 DEF RenameAborts, NullName, disk
<1>6. CASE \E r \in 1..Len(rows) : DeleteAborts(r) \/ DownAborts(r)
  BY <1>2, <1>6 DEF DeleteAborts, DownAborts, Chosen, NullName, disk
<1> QED
  BY <1>3, <1>4, <1>5, <1>6, <1>7 DEF Killed

LEMMA BackupStep ==
  ASSUME Inv, Backup
  PROVE  StepOK
<1>1. /\ status = "on" /\ status' = "on"
      /\ UNCHANGED <<x, list, current, mem, open, dirty, manager, file>>
  BY DEF Backup, editor, disk
<1>2. /\ archive'.manager = manager \/ archive'.manager = <<>>
      /\ archive'.file = file \/ archive'.file = [n \in Names |-> NoFile]
  BY DEF Backup
<1>3. archive'.manager \in Lists /\ NoTwins(archive'.manager) /\ archive'.file \in Files
  <2>1. manager \in Lists /\ NoTwins(manager) /\ file \in Files
    BY <1>1, WhileOn
  <2>2. <<>> \in Lists /\ NoTwins(<<>>)
    BY DEF Lists, NoTwins
  <2>3. [n \in Names |-> NoFile] \in Files
    BY DEF Files, Values
  <2> QED
    BY <1>2, <2>1, <2>2, <2>3
<1>4. TypesOK'
  BY <1>1, <1>3 DEF Inv, TypesOK
<1>5. StartOK'
  BY <1>1 DEF Inv, StartOK
<1>6. Unique'
  BY <1>1, <1>3 DEF Inv, Unique, NamesUnique, NoTwins
<1>7. Agree => Agree'
  BY <1>1 DEF Agree, InRange
<1>8. ~(dirty /\ ~dirty')
  BY <1>1, Zenon
<1> QED
  BY <1>1, <1>4, <1>5, <1>6, <1>7, <1>8 DEF Inv, StepOK, AgreeStep, WrittenStep, EndingStep

LEMMA RestoreStep ==
  ASSUME Inv, NEW ms, NEW withList, Restore(ms, withList)
  PROVE  StepOK
<1>1. /\ status = "on" /\ status' \in {"loading", "checking"}
      /\ status' = "loading" => manager' = <<>>
      /\ x' = 1 /\ current' = 0 /\ mem' = NoFile /\ archive' = archive
      /\ list' = ReadNames(manager') /\ manager' \in {archive.manager, manager}
      /\ file' = [n \in Names |-> IF n \in ms THEN archive.file[n] ELSE file[n]]
  BY DEF Restore
<1>2. /\ manager \in Lists /\ archive.manager \in Lists /\ file \in Files /\ archive.file \in Files
      /\ NoTwins(manager) /\ NoTwins(archive.manager)
  BY DEF Inv, TypesOK, Unique, NamesUnique
<1>3. file' \in Files
  BY <1>1, <1>2 DEF Files
<1>4. /\ list' \in Lists /\ NoTwins(list') /\ manager' \in Lists /\ NoTwins(manager')
      /\ status' = "loading" => list' = <<>>
  BY <1>1, <1>2, NamesRead
<1>5. TypesOK' /\ status' # "on" /\ status' \notin {"off", "aborted"}
  BY <1>1, <1>2, <1>3, <1>4 DEF TypesOK, Statuses, Values
<1>6. StartOK'
  BY <1>1, <1>4 DEF StartOK
<1>7. Unique'
  BY <1>1, <1>2, <1>4 DEF Unique, NamesUnique, NoTwins
<1> QED
  BY <1>5, <1>6, <1>7 DEF Inv, StepOK, AgreeStep, WrittenStep, EndingStep

LEMMA Step ==
  ASSUME Inv, [Next]_vars
  PROVE  StepOK
<1>1. CASE UNCHANGED vars
  <2>1. UNCHANGED <<status, x, list, current, mem, open, dirty, manager, file, archive>>
    BY <1>1 DEF vars, editor, disk
  <2>2. TypesOK' /\ StartOK'
    BY <2>1 DEF Inv, TypesOK, StartOK
  <2>3. Unique'
    BY <2>1 DEF Inv, Unique, NamesUnique, NoTwins
  <2>4. (status = "on" => Agree) /\ status' = "on" => Agree'
    BY <2>1 DEF Agree, InRange
  <2>5. ~(dirty /\ ~dirty')
    BY <2>1, Zenon
  <2>6. ~(status = "on" /\ status' \in {"off", "aborted"})
    BY <2>1
  <2> QED
    BY <2>2, <2>3, <2>4, <2>5, <2>6 DEF Inv, StepOK, AgreeStep, WrittenStep, EndingStep
<1>2. CASE Startup /\ archive' = archive
  BY <1>2, StartupStep, InitStep DEF Startup
<1>3. CASE User /\ archive' = archive
  <2>1. Typed \subseteq Names
    BY ConstantsOK
  <2> QED
    BY <1>3, <2>1, EditStep, SaveStep, EndStep, NewStep, RenameStep, DeleteStep,
       ActivateStep, UpDownStep DEF User
<1>4. CASE Killed /\ archive' = archive
  BY <1>4, EndStep
<1>5. CASE Backup
  BY <1>5, BackupStep
<1>6. CASE Restores
  BY <1>6, RestoreStep DEF Restores
<1> QED
  BY <1>1, <1>2, <1>3, <1>4, <1>5, <1>6 DEF Next

LEMMA Start == Init => Inv
<1> SUFFICES ASSUME Init
             PROVE  Inv
  OBVIOUS
<1>1. <<>> \in Lists /\ NoTwins(<<>>) /\ [n \in Names |-> NoFile] \in Files
  BY DEF Lists, NoTwins, Files, Values
<1>2. TypesOK
  BY <1>1 DEF Init, TypesOK, Statuses, Values
<1>3. StartOK /\ Unique
  BY <1>1 DEF Init, StartOK, Unique, NamesUnique
<1> QED
  BY <1>2, <1>3 DEF Inv

LEMMA Invariant == Spec => []Inv
<1>1. Init => Inv
  BY Start
<1>2. Inv /\ [Next]_vars => Inv'
  BY Step DEF StepOK
<1> QED
  BY <1>1, <1>2, PTL DEF Spec
-----------------------------------------------------------------------------
\* Whatever the user, the kernel and tar do, no two configurations in memory or
\* in the manager file share a name (config_manager_new, _set_current_name).
THEOREM UniqueNames == Spec => []NamesUnique
<1>1. Inv => NamesUnique
  BY DEF Inv, Unique
<1> QED
  BY <1>1, Invariant, PTL

\* The two drifts are the only steps that separate configs.current from the
\* configuration that is being edited.
THEOREM OnlyDrifts == Spec => AgreeUnlessDrifts
<1>1. Inv /\ [Next]_vars =>
        [(status = "on" => Agree) /\ status' = "on" /\ ~Drifts => Agree']_vars
  BY Step DEF StepOK, AgreeStep
<1> QED
  BY <1>1, Invariant, PTL DEF Spec, AgreeUnlessDrifts

\* Where no call fails, edits leave the editor into the file of the configuration
\* they were made in (config_save before config_manager_open_config).
THEOREM EditsGoToTheirFile ==
  ASSUME ~IOFails
  PROVE  Spec => EditsAreWritten
<1>1. Inv /\ [Next]_vars =>
        [status = "on" /\ status' = "on" /\ Agree /\ dirty /\ ~dirty'
           /\ Len(list') = Len(list)
         => file'[list[current].name] = mem]_vars
  BY Step DEF StepOK, WrittenStep
<1> QED
  BY <1>1, Invariant, PTL DEF Spec, EditsAreWritten

\* Killed at any point, also inside a save, the process leaves every configuration
\* that was saved and listed under its name with its file and its entry.
THEOREM SavedSurvives == Spec => EndingKeepsSaved
<1>1. Inv /\ [Next]_vars =>
        [status = "on" /\ status' \in {"off", "aborted"} =>
           \A i \in 1..Len(list) :
             file[list[i].name] # NoFile /\ Contains(manager, list[i]) =>
               file'[list[i].name] # NoFile /\ Contains(manager', list[i])]_vars
  BY Step DEF StepOK, EndingStep, Saved
<1> QED
  BY <1>1, Invariant, PTL DEF Spec, EndingKeepsSaved
-----------------------------------------------------------------------------
(* The tree.  Its rows are found by name, without case in two places, so the *)
(* theorems about it are for names that differ in more than case.            *)

CaseTells == \A m, n \in Names : Fold[m] = Fold[n] => m = n

Rows == Seq(Row)

Shows(rs, l) ==
  /\ rs \in Rows /\ Len(rs) = Len(l)
  /\ \A i \in 1..Len(l) : rs[i].name = l[i].name /\ rs[i].prio = i

LEMMA InRows ==
  ASSUME NEW rs \in Rows
  PROVE  /\ Len(rs) \in Nat /\ rs \in [1..Len(rs) -> Row]
         /\ \A i \in 1..Len(rs) :
              rs[i] \in Row /\ rs[i].name \in Names /\ rs[i].star \in BOOLEAN /\ rs[i].prio \in Nat
<1>1. Len(rs) \in Nat /\ rs \in [1..Len(rs) -> Row]
  BY LenProperties DEF Rows
<1> QED
  BY <1>1 DEF Row

LEMMA RowsMade ==
  ASSUME NEW k \in Nat, NEW f \in [1..k -> Row]
  PROVE  f \in Rows /\ Len(f) = k
BY DEF Rows

LEMMA RowIsRecord ==
  ASSUME NEW row \in Row
  PROVE  row = [name |-> row.name, star |-> row.star, prio |-> row.prio]
BY DEF Row

\* tree_config_update_priorities numbers the rows.
LEMMA Renumbered ==
  ASSUME NEW rs \in Rows
  PROVE  LET us == UpdatePriorities(rs)
         IN  /\ us \in Rows /\ Len(us) = Len(rs)
             /\ \A i \in 1..Len(rs) :
                  us[i].name = rs[i].name /\ us[i].star = rs[i].star /\ us[i].prio = i
<1> DEFINE us == UpdatePriorities(rs)
<1>1. /\ Len(rs) \in Nat /\ \A i \in 1..Len(rs) : rs[i] \in Row
  BY InRows
<1>2. us = [i \in 1..Len(rs) |-> [rs[i] EXCEPT !.prio = i]]
  BY DEF UpdatePriorities
<1> HIDE DEF us
<1>3. ASSUME NEW i \in 1..Len(rs)
      PROVE  us[i] \in Row /\ us[i].name = rs[i].name /\ us[i].star = rs[i].star /\ us[i].prio = i
  <2>1. i \in Nat
    BY <1>1
  <2>2. us[i] = [rs[i] EXCEPT !.prio = i] /\ rs[i] \in Row
    BY <1>1, <1>2
  <2> QED
    BY <2>1, <2>2 DEF Row
<1>4. us \in [1..Len(rs) -> Row]
  BY <1>2, <1>3
<1> QED
  BY <1>1, <1>3, <1>4, RowsMade DEF us

\* The stars are set, or cleared; nothing else of a row changes.
LEMMA Restarred ==
  ASSUME NEW rs \in Rows, NEW g \in [1..Len(rs) -> BOOLEAN]
  PROVE  LET us == [i \in 1..Len(rs) |-> [rs[i] EXCEPT !.star = g[i]]]
         IN  /\ us \in Rows /\ Len(us) = Len(rs)
             /\ \A i \in 1..Len(rs) :
                  us[i].name = rs[i].name /\ us[i].star = g[i] /\ us[i].prio = rs[i].prio
<1> DEFINE us == [i \in 1..Len(rs) |-> [rs[i] EXCEPT !.star = g[i]]]
<1>1. /\ Len(rs) \in Nat /\ \A i \in 1..Len(rs) : rs[i] \in Row
  BY InRows
<1>2. ASSUME NEW i \in 1..Len(rs)
      PROVE  us[i] \in Row /\ us[i].name = rs[i].name /\ us[i].star = g[i] /\ us[i].prio = rs[i].prio
  <2>1. us[i] = [rs[i] EXCEPT !.star = g[i]] /\ rs[i] \in Row /\ g[i] \in BOOLEAN
    BY <1>1
  <2> QED
    BY <2>1 DEF Row
<1>3. us \in [1..Len(rs) -> Row]
  BY <1>2
<1> QED
  BY <1>1, <1>2, <1>3, RowsMade

LEMMA Cleared ==
  ASSUME NEW rs \in Rows
  PROVE  /\ ClearStars(rs) \in Rows /\ Len(ClearStars(rs)) = Len(rs)
         /\ \A i \in 1..Len(rs) :
              /\ ClearStars(rs)[i].name = rs[i].name /\ ClearStars(rs)[i].prio = rs[i].prio
              /\ ClearStars(rs)[i].star = FALSE
<1> DEFINE g == [i \in 1..Len(rs) |-> FALSE]
<1>1. ClearStars(rs) = [i \in 1..Len(rs) |-> [rs[i] EXCEPT !.star = g[i]]]
  BY DEF ClearStars
<1>2. g \in [1..Len(rs) -> BOOLEAN] /\ \A i \in 1..Len(rs) : g[i] = FALSE
  OBVIOUS
<1> HIDE DEF g
<1> QED
  BY <1>1, <1>2, Restarred

LEMMA StarsMoved ==
  ASSUME NEW rs \in Rows, NEW n
  PROVE  /\ Starred(rs, n) \in Rows /\ Len(Starred(rs, n)) = Len(rs)
         /\ \A i \in 1..Len(rs) :
              /\ Starred(rs, n)[i].name = rs[i].name /\ Starred(rs, n)[i].prio = rs[i].prio
              /\ Starred(rs, n)[i].star = (i = FindRow(rs, n))
<1> DEFINE g == [i \in 1..Len(rs) |-> i = FindRow(rs, n)]
<1>1. Starred(rs, n) = [i \in 1..Len(rs) |-> [rs[i] EXCEPT !.star = g[i]]]
  BY DEF Starred
<1>2. g \in [1..Len(rs) -> BOOLEAN] /\ \A i \in 1..Len(rs) : g[i] = (i = FindRow(rs, n))
  OBVIOUS
<1> HIDE DEF g
<1> QED
  BY <1>1, <1>2, Restarred

LEMMA RowAdded ==
  ASSUME NEW rs \in Rows, NEW n \in Names, NEW prio \in Nat
  PROVE  /\ AddRow(rs, n, prio) \in Rows /\ Len(AddRow(rs, n, prio)) = Len(rs) + 1
         /\ \A i \in 1..Len(rs) :
              /\ AddRow(rs, n, prio)[i].name = rs[i].name /\ AddRow(rs, n, prio)[i].prio = rs[i].prio
              /\ AddRow(rs, n, prio)[i].star = FALSE
         /\ AddRow(rs, n, prio)[Len(rs) + 1] = [name |-> n, star |-> TRUE, prio |-> prio]
<1> DEFINE cs == ClearStars(rs)
           row == [name |-> n, star |-> TRUE, prio |-> prio]
<1>1. Len(rs) \in Nat
  BY InRows
<1>2. /\ cs \in Rows /\ Len(cs) = Len(rs)
      /\ \A i \in 1..Len(rs) : cs[i].name = rs[i].name /\ cs[i].prio = rs[i].prio /\ cs[i].star = FALSE
  BY Cleared
<1>3. row \in Row
  BY <1>1 DEF Row
<1>4. AddRow(rs, n, prio) = Append(cs, row)
  BY DEF AddRow
<1> HIDE DEF cs, row
<1>5. /\ Append(cs, row) \in Rows /\ Len(Append(cs, row)) = Len(rs) + 1
      /\ \A i \in 1..Len(rs) : Append(cs, row)[i] = cs[i]
      /\ Append(cs, row)[Len(rs) + 1] = row
  BY <1>1, <1>2, <1>3 DEF Rows
<1> QED
  BY <1>2, <1>4, <1>5 DEF row

\* The row that tree_config_move_selected_up looks for.
FirstRow(rs, n) == SelectInSeq(rs, LAMBDA row : row.name = n)

\* The only row of a name is found, with or without case.
LEMMA OnlyRow ==
  ASSUME CaseTells, NEW l \in Lists, NoTwins(l), NEW rs, Shows(rs, l), NEW k \in 1..Len(l)
  PROVE  /\ FindRow(rs, l[k].name) = k
         /\ FirstRow(rs, rs[k].name) = k
         /\ HasName(l, rs[k].name) /\ GetIndex(l, rs[k].name) = k
<1> DEFINE I == {i \in 1..Len(rs) : Fold[rs[i].name] = Fold[l[k].name]}
           J == {i \in 1..Len(rs) : rs[i].name = rs[k].name}
<1>1. /\ Len(l) \in Nat /\ Len(rs) = Len(l) /\ rs[k].name = l[k].name
      /\ \A i \in 1..Len(l) : l[i].name \in Names /\ rs[i].name = l[i].name
  BY InList DEF Shows
<1>2. \A i \in 1..Len(l) : l[i].name = l[k].name => i = k
  BY DEF NoTwins
<1>3. I = {k}
  BY <1>1, <1>2 DEF CaseTells
<1>4. J = {k}
  BY <1>1, <1>2
<1>5. k \in Nat /\ {k} \in SUBSET Nat /\ {k} # {}
  BY <1>1
<1>6. Min({k}) = k
  BY <1>5, MinIsLeast
<1>7. FindRow(rs, l[k].name) = IF I # {} THEN Min(I) ELSE 0
  BY DEF FindRow, SelectInSeq
<1>8. FirstRow(rs, rs[k].name) = IF J # {} THEN Min(J) ELSE 0
  BY DEF FirstRow, SelectInSeq
<1> HIDE DEF I, J
<1>9. HasName(l, rs[k].name)
  BY <1>1 DEF HasName
<1>10. GetIndex(l, rs[k].name) = k
  BY <1>1, <1>2, <1>9, IndexFound
<1> QED
  BY <1>3, <1>4, <1>5, <1>6, <1>7, <1>8, <1>9, <1>10, Zenon

\* update_config changes the row of the open configuration.
LEMMA RowRenamed ==
  ASSUME CaseTells, NEW l \in Lists, NoTwins(l), NEW rs, Shows(rs, l), NEW k \in 1..Len(l),
         NEW n \in Names
  PROVE  LET us == RenameRow(rs, l[k].name, n, k)
         IN  /\ us \in Rows /\ Len(us) = Len(rs)
             /\ \A i \in 1..Len(rs) :
                  /\ us[i].name = IF i = k THEN n ELSE rs[i].name
                  /\ us[i].prio = rs[i].prio
                  /\ us[i].star = (i = k)
<1> DEFINE row == [name |-> n, star |-> TRUE, prio |-> k]
           cs == ClearStars(rs)
           us == RenameRow(rs, l[k].name, n, k)
<1>1. FindRow(rs, l[k].name) = k
  BY OnlyRow
<1>2. rs \in Rows /\ Len(rs) = Len(l) /\ Len(l) \in Nat /\ rs[k].prio = k
  BY InList DEF Shows
<1>3. us = [cs EXCEPT ![k] = row]
  BY <1>1, <1>2 DEF RenameRow
<1>4. row \in Row
  BY <1>2 DEF Row
<1>5. /\ cs \in Rows /\ Len(cs) = Len(rs)
      /\ \A i \in 1..Len(rs) : cs[i].name = rs[i].name /\ cs[i].prio = rs[i].prio /\ cs[i].star = FALSE
  BY <1>2, Cleared
<1> HIDE DEF cs, us
<1>6. /\ us \in Rows /\ Len(us) = Len(rs)
      /\ \A i \in 1..Len(rs) : us[i] = IF i = k THEN row ELSE cs[i]
  BY <1>2, <1>3, <1>4, <1>5, ExceptSeq DEF Rows
<1>7. ASSUME NEW i \in 1..Len(rs)
      PROVE  /\ us[i].name = IF i = k THEN n ELSE rs[i].name
             /\ us[i].prio = rs[i].prio /\ us[i].star = (i = k)
  <2>1. CASE i = k
    <3>1. us[i] = row
      BY <1>6, <2>1
    <3>2. us[i].name = n /\ us[i].star = TRUE /\ us[i].prio = k
      BY <3>1
    <3> QED
      BY <1>2, <2>1, <3>2
  <2>2. CASE i # k
    <3>1. us[i] = cs[i]
      BY <1>6, <2>2
    <3>2. us[i].star = FALSE
      BY <1>5, <3>1
    <3> QED
      BY <1>5, <2>2, <3>1, <3>2
  <2> QED
    BY <2>1, <2>2
<1> QED
  BY <1>6, <1>7 DEF us

TreeInv ==
  /\ status \in {"off", "aborted", "checking"} => rows = <<>>
  /\ status \in {"loading", "on"} => Shows(rows, list)

\* The star is on the k-th row only.
Starry(rs, k) == \A i \in 1..Len(rs) : rs[i].star = (i = k)

StarStep ==
  (status = "on" => Starry(rows, current)) /\ status' = "on" /\ ~Drifts => Starry(rows', current')

\* Opening moves the star.
LEMMA ShowsOpened ==
  ASSUME CaseTells, NEW l \in Lists, NoTwins(l), NEW rs, Shows(rs, l), NEW i \in 1..Len(l),
         NEW f, OpenConfig(l, i, rs, f)
  PROVE  Shows(rows', l) /\ Starry(rows', current')
<1>1. rows' = Starred(rs, l[i].name) /\ current' = i
  BY DEF OpenConfig
<1>2. FindRow(rs, l[i].name) = i
  BY OnlyRow
<1>3. rs \in Rows /\ Len(rs) = Len(l)
  BY DEF Shows
<1>4. /\ rows' \in Rows /\ Len(rows') = Len(rs)
      /\ \A k \in 1..Len(rs) :
           rows'[k].name = rs[k].name /\ rows'[k].prio = rs[k].prio /\ rows'[k].star = (k = i)
  BY <1>1, <1>2, <1>3, StarsMoved
<1> QED
  BY <1>1, <1>3, <1>4 DEF Shows, Starry

\* A configuration that is added gets the last row, with the star.
LEMMA ShowsAdded ==
  ASSUME NEW l \in Lists, NEW rs, Shows(rs, l), NEW n \in Names,
         NEW m, Len(m) = Len(l) + 1, m[Len(l) + 1].name = n, \A i \in 1..Len(l) : m[i] = l[i]
  PROVE  Shows(AddRow(rs, n, Len(l) + 1), m) /\ Starry(AddRow(rs, n, Len(l) + 1), Len(l) + 1)
<1> DEFINE us == AddRow(rs, n, Len(l) + 1)
<1>1. rs \in Rows /\ Len(rs) = Len(l) /\ Len(l) \in Nat
  BY InList DEF Shows
<1>2. /\ us \in Rows /\ Len(us) = Len(l) + 1
      /\ \A i \in 1..Len(l) : us[i].name = rs[i].name /\ us[i].prio = rs[i].prio /\ us[i].star = FALSE
      /\ us[Len(l) + 1] = [name |-> n, star |-> TRUE, prio |-> Len(l) + 1]
  <2>1. /\ us \in Rows /\ Len(us) = Len(rs) + 1
        /\ \A i \in 1..Len(rs) : us[i].name = rs[i].name /\ us[i].prio = rs[i].prio /\ us[i].star = FALSE
        /\ us[Len(rs) + 1] = [name |-> n, star |-> TRUE, prio |-> Len(l) + 1]
    <3>1. Len(l) + 1 \in Nat
      BY <1>1
    <3> QED
      BY <1>1, <3>1, RowAdded
  <2> QED
    BY <1>1, <2>1, Zenon
<1> HIDE DEF us
<1>3. us[Len(l) + 1].name = n /\ us[Len(l) + 1].star = TRUE /\ us[Len(l) + 1].prio = Len(l) + 1
  BY <1>2
<1>4. ASSUME NEW i \in 1..Len(m)
      PROVE  us[i].name = m[i].name /\ us[i].prio = i /\ us[i].star = (i = Len(l) + 1)
  <2>1. CASE i \in 1..Len(l)
    <3>1. us[i].name = rs[i].name /\ us[i].prio = rs[i].prio /\ us[i].star = FALSE
      BY <1>2, <2>1
    <3>2. rs[i].name = l[i].name /\ rs[i].prio = i /\ m[i] = l[i]
      BY <2>1 DEF Shows
    <3>3. i # Len(l) + 1
      BY <1>1, <2>1
    <3> QED
      BY <3>1, <3>2, <3>3
  <2>2. CASE i = Len(l) + 1
    BY <1>3, <2>2
  <2>3. i \in 1..Len(l) \/ i = Len(l) + 1
    BY <1>1
  <2> QED
    BY <2>1, <2>2, <2>3
<1>5. Shows(us, m)
  BY <1>2, <1>4 DEF Shows
<1>6. Starry(us, Len(l) + 1)
  BY <1>2, <1>4 DEF Starry
<1> QED
  BY <1>5, <1>6 DEF us

LEMMA ShowsCreated ==
  ASSUME NEW l \in Lists, NoTwins(l), \A i \in 1..Len(l) : l[i].id \in UsedIds,
         NEW b \in Bases, NEW rs, Shows(rs, l), NEW copy, mem \in Values, NewConfig(l, rs, b, copy)
  PROVE  Shows(rows', list') /\ Starry(rows', current')
<1>1. /\ list' \in Lists /\ Len(list') = Len(l) + 1 /\ current' = Len(l) + 1
      /\ list'[current'].name = FirstFree(l, b)
      /\ \A i \in 1..Len(l) : list'[i] = l[i]
  BY Created
<1>2. FirstFree(l, b) \in Names
  BY FirstFreeIsFree DEF NewConfig
<1>3. rows' = AddRow(rs, FirstFree(l, b), Len(l) + 1)
  BY DEF NewConfig
<1> QED
  BY <1>1, <1>2, <1>3, ShowsAdded

\* An empty tree shows an empty list, and nothing else.
LEMMA ShowsNone == Shows(<<>>, <<>>)
BY DEF Shows, Rows

LEMMA ShowsFinished ==
  ASSUME CaseTells, NEW l \in Lists, NoTwins(l), NEW i, l # <<>> => i \in 1..Len(l),
         NEW f, NEW rs, Shows(rs, l), mem \in Values, FinishInit(l, i, rs, f)
  PROVE  Shows(rows', list') /\ Starry(rows', current')
<1>1. CASE l # <<>>
  <2>1. list' = l /\ OpenConfig(l, i, rs, f) /\ i \in 1..Len(l)
    BY <1>1 DEF FinishInit
  <2> QED
    BY <2>1, ShowsOpened
<1>2. CASE l = <<>>
  <2>1. NewConfig(l, rs, "Default", FALSE)
    BY <1>2 DEF FinishInit
  <2>2. \A j \in 1..Len(l) : l[j].id \in UsedIds
    BY <1>2
  <2>3. "Default" \in Bases
    BY DEF Bases
  <2> QED
    BY <2>1, <2>2, <2>3, ShowsCreated
<1> QED
  BY <1>1, <1>2

\* A handler that changes neither, and the end of the process.
LEMMA TreeStays ==
  ASSUME TreeInv, rows' = rows, list' = list, status' = status
  PROVE  TreeInv' /\ (current' = current => StarStep)
<1>1. TreeInv'
  BY DEF TreeInv, Shows
<1>2. current' = current => StarStep
  BY DEF StarStep, Starry
<1> QED
  BY <1>1, <1>2

TreeStep == TreeInv' /\ StarStep

LEMMA TreeAtStart ==
  ASSUME CaseTells, ~IOFails, Inv, TreeInv, Startup
  PROVE  TreeStep
<1>1. /\ list \in Lists /\ NoTwins(list) /\ manager \in Lists /\ Len(list) \in Nat
      /\ (list = <<>> <=> Len(list) = 0)
  BY InList DEF Inv, TypesOK, Unique, NamesUnique
<1>2. CASE ReadFile
  <2>0. manager = <<>> => ReadNames(manager) = <<>>
    BY NamesRead DEF Inv, TypesOK, Unique, NamesUnique
  <2>1. /\ rows' = <<>> /\ status' \in {"loading", "checking"}
        /\ status' = "loading" => list' = <<>>
    BY <1>2, <2>0 DEF ReadFile, TreeInv
  <2> QED
    BY <2>1, ShowsNone DEF TreeStep, TreeInv, StarStep
<1>3. CASE CheckPresent \/ CheckMissing
  BY <1>3 DEF CheckPresent, CheckMissing, TreeStep, TreeInv, StarStep
<1>4. CASE CheckMissingAborts
  BY <1>4 DEF CheckMissingAborts, Forget, TreeStep, TreeInv, StarStep
<1>5. CASE CheckDone
  <2>1. /\ list' = list /\ status' = "loading"
        /\ rows' = [i \in 1..Len(list) |-> [name |-> list[i].name, star |-> FALSE, prio |-> i]]
    BY <1>5 DEF CheckDone
  <2>2. \A i \in 1..Len(list) : [name |-> list[i].name, star |-> FALSE, prio |-> i] \in Row
    BY <1>1, InList DEF Row
  <2>3. rows' \in [1..Len(list) -> Row]
    BY <2>1, <2>2
  <2>4. rows' \in Rows /\ Len(rows') = Len(list)
    BY <1>1, <2>3, RowsMade
  <2>5. Shows(rows', list')
    BY <2>1, <2>4 DEF Shows
  <2> QED
    BY <2>1, <2>5 DEF TreeStep, TreeInv, StarStep
<1>6. ASSUME NEW l \in Lists, NoTwins(l), NEW i, l # <<>> => i \in 1..Len(l),
             NEW f, NEW rs, Shows(rs, l), FinishInit(l, i, rs, f)
      PROVE  TreeStep
  <2>1. Shows(rows', list') /\ Starry(rows', current')
    BY <1>6, ShowsFinished DEF Inv, TypesOK
  <2>2. status' = "on"
    BY <1>6 DEF FinishInit
  <2> QED
    BY <2>1, <2>2 DEF TreeStep, TreeInv, StarStep
<1>7. CASE InitPlain
  <2>1. list # <<>> => current \in 1..Len(list)
    BY <1>1, <1>7 DEF Inv, StartOK, InitPlain
  <2>2. FinishInit(list, current, rows, file) /\ Shows(rows, list)
    BY <1>7 DEF InitPlain, TreeInv
  <2> QED
    BY <1>1, <1>6, <2>1, <2>2
<1>8. ASSUME NEW id \in Ids \ UsedIds, InitOld(id) \/ InitOldClash(id)
      PROVE  TreeStep
  <2>1. LoadingOld /\ Shows(rows, list)
    BY <1>8 DEF InitOld, InitOldClash, LoadingOld, TreeInv
  <2>2. /\ OldName \in Names
        /\ OldList(id) \in Lists /\ NoTwins(OldList(id)) /\ OldList(id) # <<>>
        /\ Len(OldList(id)) = Len(list) + 1 /\ Len(list) + 1 \in 1..Len(OldList(id))
        /\ OldList(id)[Len(list) + 1].name = OldName
        /\ \A i \in 1..Len(list) : OldList(id)[i] = list[i]
    <3>1. /\ OldName \in Names
          /\ OldList(id) \in Lists /\ NoTwins(OldList(id)) /\ OldList(id) # <<>>
          /\ Len(OldList(id)) = Len(list) + 1 /\ Len(list) + 1 \in 1..Len(OldList(id))
          /\ OldList(id)[Len(list) + 1] = [name |-> OldName, id |-> id]
          /\ \A i \in 1..Len(list) : OldList(id)[i] = list[i]
      BY <1>1, <2>1, OldAdded DEF Inv
    <3> QED
      BY <3>1
  <2>3. Shows(AddRow(rows, OldName, Len(list) + 1), OldList(id))
    BY <1>1, <2>1, <2>2, ShowsAdded
  <2>4. \E f : FinishInit(OldList(id), Len(list) + 1, AddRow(rows, OldName, Len(list) + 1), f)
    BY <1>8 DEF InitOld, InitOldClash
  <2> QED
    BY <1>6, <2>2, <2>3, <2>4
<1>9. ~InitOldFails
  BY DEF InitOldFails
<1> QED
  BY <1>2, <1>3, <1>4, <1>5, <1>7, <1>8, <1>9 DEF Startup

\* A row and its entry go together: they have the same index.
LEMMA TreeDelete ==
  ASSUME CaseTells, Inv, TreeInv, NEW r \in 1..Len(rows), Delete(r)
  PROVE  TreeStep
<1> DEFINE k == GetIndex(list, rows[r].name)
           l == RemoveAt(list, k)
           us == RemoveAt(rows, r)
           rs == UpdatePriorities(us)
           f == DeleteFile(file, rows[r].name)
           to == IF k > Len(l) THEN Len(l) ELSE k
<1>1. /\ status = "on" /\ status' = "on" /\ list' = l /\ InRange
      /\ \/ l = <<>> /\ current' = 0 /\ rows' = rs
         \/ l # <<>> /\ k = current /\ OpenConfig(l, to, rs, f)
         \/ l # <<>> /\ k # current /\ current' = current /\ rows' = rs
  BY DEF Delete, Chosen
<1>2. /\ Shows(rows, list) /\ rows \in Rows /\ Len(rows) = Len(list)
      /\ list \in Lists /\ NoTwins(list) /\ Len(list) \in Nat
  BY <1>1, WhileOn DEF TreeInv, Shows
<1>3. k = r
  <2>1. r \in 1..Len(list)
    BY <1>2
  <2> QED
    BY <1>2, <2>1, OnlyRow
<1>4. DeletesAbove(r) <=> k < current
  BY DEF DeletesAbove
<1> HIDE DEF k, f
<1>5. /\ l \in Lists /\ NoTwins(l) /\ Len(l) = Len(list) - 1
      /\ \A i \in 1..Len(list) - 1 : l[i] = IF i < r THEN list[i] ELSE list[i + 1]
  BY <1>2, <1>3, RemovedIsUnique
<1>6. /\ us \in Rows /\ Len(us) = Len(list) - 1
      /\ \A i \in 1..Len(list) - 1 : us[i] = IF i < r THEN rows[i] ELSE rows[i + 1]
  <2>1. r \in 1..Len(rows) /\ r \in 0..Len(rows) + 1
    BY <1>2
  <2> QED
    BY <1>2, <2>1, RemovedIsSeq DEF Rows
<1> HIDE DEF l, us
<1>7. /\ rs \in Rows /\ Len(rs) = Len(list) - 1
      /\ \A i \in 1..Len(list) - 1 : rs[i].name = us[i].name /\ rs[i].star = us[i].star /\ rs[i].prio = i
  <2>1. /\ rs \in Rows /\ Len(rs) = Len(us)
        /\ \A i \in 1..Len(us) : rs[i].name = us[i].name /\ rs[i].star = us[i].star /\ rs[i].prio = i
    BY <1>6, Renumbered
  <2> QED
    BY <1>6, <2>1
<1> HIDE DEF rs
<1>8. ASSUME NEW i \in 1..Len(list) - 1
      PROVE  rs[i].name = l[i].name /\ rs[i].star = rows[IF i < r THEN i ELSE i + 1].star
  <2>1. CASE i < r
    <3>1. us[i] = rows[i] /\ l[i] = list[i]
      <4>1. us[i] = rows[i]
        BY <1>6, <2>1
      <4>2. l[i] = list[i]
        BY <1>5, <2>1
      <4> QED
        BY <4>1, <4>2
    <3>2. rows[i].name = list[i].name
      BY <1>2 DEF Shows
    <3> QED
      BY <1>7, <2>1, <3>1, <3>2
  <2>2. CASE ~(i < r)
    <3>1. us[i] = rows[i + 1] /\ l[i] = list[i + 1] /\ rows[i + 1].name = list[i + 1].name
      BY <1>2, <1>5, <1>6, <2>2 DEF Shows
    <3> QED
      BY <1>7, <2>2, <3>1
  <2> QED
    BY <2>1, <2>2
<1>9. Shows(rs, l)
  BY <1>5, <1>7, <1>8 DEF Shows
<1>10. current \in 1..Len(list) /\ (l = <<>> <=> Len(l) = 0)
  BY <1>1, <1>5, InList DEF InRange
<1>11. CASE l = <<>>
  <2>1. rows' = rs /\ current' = 0 /\ Len(rs) = 0
    BY <1>1, <1>5, <1>7, <1>10, <1>11
  <2>2. Starry(rows', current')
    BY <2>1 DEF Starry
  <2> QED
    BY <1>1, <1>9, <2>1, <2>2 DEF TreeStep, TreeInv, StarStep
<1>12. CASE l # <<>> /\ k = current
  <2>1. OpenConfig(l, to, rs, f)
    BY <1>1, <1>12
  <2>2. to \in 1..Len(l)
    BY <1>2, <1>3, <1>5, <1>10, <1>12
  <2> HIDE DEF to
  <2>3. Shows(rows', l) /\ Starry(rows', current')
    BY <1>5, <1>9, <2>1, <2>2, ShowsOpened
  <2> QED
    BY <1>1, <2>3 DEF TreeStep, TreeInv, StarStep
<1>13. CASE l # <<>> /\ k # current
  <2>1. rows' = rs /\ current' = current
    BY <1>1, <1>13
  <2>2. ASSUME Starry(rows, current), ~Drifts
        PROVE  Starry(rows', current')
    <3>1. current < r
      BY <1>2, <1>3, <1>4, <1>10, <1>13, <2>2 DEF Drifts
    <3>2. ASSUME NEW i \in 1..Len(list) - 1
          PROVE  rs[i].star = (i = current)
      <4>1. i \in 1..Len(rows) /\ i + 1 \in 1..Len(rows)
        BY <1>2
      <4>2. rows[i].star = (i = current) /\ rows[i + 1].star = (i + 1 = current)
        BY <2>2, <4>1 DEF Starry
      <4> QED
        BY <1>2, <1>8, <1>10, <3>1, <4>2
    <3> QED
      BY <1>7, <2>1, <3>2 DEF Starry
  <2> QED
    BY <1>1, <1>9, <2>1, <2>2 DEF TreeStep, TreeInv, StarStep
<1> QED
  BY <1>11, <1>12, <1>13

\* Two neighbours trade places in both.
LEMMA TreeSwap ==
  ASSUME Inv, TreeInv, status = "on", status' = "on",
         NEW k \in 1..Len(list), NEW to \in 1..Len(list), to # k,
         list' = Swap(list, to, k), current' = Follow(k, to), ~Drifts => current # to,
         NEW us \in Rows, Len(us) = Len(list), rows' = UpdatePriorities(us),
         \A i \in 1..Len(list) :
           us[i] = IF i = to THEN rows[k] ELSE IF i = k THEN rows[to] ELSE rows[i]
  PROVE  TreeStep
<1> DEFINE from(i) == IF i = to THEN k ELSE IF i = k THEN to ELSE i
<1>1. /\ Shows(rows, list) /\ Len(rows) = Len(list) /\ Len(list) \in Nat
      /\ list \in Lists /\ NoTwins(list)
  BY WhileOn DEF TreeInv, Shows
<1>2. /\ Len(list') = Len(list)
      /\ \A i \in 1..Len(list) :
           list'[i] = IF i = k THEN list[to] ELSE IF i = to THEN list[k] ELSE list[i]
  <2>1. /\ Len(Swap(list, to, k)) = Len(list)
        /\ \A i \in 1..Len(list) :
             Swap(list, to, k)[i] = IF i = k THEN list[to] ELSE IF i = to THEN list[k] ELSE list[i]
    BY <1>1, SwappedIsUnique, Zenon
  <2> QED
    BY <2>1, Zenon
<1>3. /\ rows' \in Rows /\ Len(rows') = Len(list)
      /\ \A i \in 1..Len(list) :
           rows'[i].name = us[i].name /\ rows'[i].star = us[i].star /\ rows'[i].prio = i
  <2>1. /\ rows' \in Rows /\ Len(rows') = Len(us)
        /\ \A i \in 1..Len(us) :
             rows'[i].name = us[i].name /\ rows'[i].star = us[i].star /\ rows'[i].prio = i
    BY Renumbered
  <2> QED
    BY <2>1
<1>4. ASSUME NEW i \in 1..Len(list)
      PROVE  /\ from(i) \in 1..Len(list) /\ us[i] = rows[from(i)] /\ list'[i] = list[from(i)]
             /\ rows'[i].name = list'[i].name
             /\ rows'[i].star = rows[from(i)].star
  <2>1. from(i) \in 1..Len(list)
    OBVIOUS
  <2>2. us[i] = rows[from(i)]
    OBVIOUS
  <2>3. list'[i] = list[from(i)]
    BY <1>2
  <2> HIDE DEF from
  <2>4. rows[from(i)].name = list[from(i)].name
    BY <1>1, <2>1 DEF Shows
  <2> QED
    BY <1>3, <2>1, <2>2, <2>3, <2>4
<1>5. Shows(rows', list')
  BY <1>2, <1>3, <1>4 DEF Shows
<1>6. ASSUME Starry(rows, current), ~Drifts
      PROVE  Starry(rows', current')
  <2>1. current' = from(current)
    <3>1. current # to
      BY <1>6
    <3> QED
      BY <3>1 DEF Follow
  <2>2. ASSUME NEW i \in 1..Len(list)
        PROVE  rows'[i].star = (i = current')
    <3>1. rows[from(i)].star = (from(i) = current)
      BY <1>1, <1>4, <1>6 DEF Starry
    <3>2. (from(i) = current) = (i = current')
      BY <1>6, <2>1
    <3> QED
      BY <1>4, <3>1, <3>2
  <2> QED
    BY <1>3, <2>2 DEF Starry
<1> QED
  BY <1>5, <1>6 DEF TreeStep, TreeInv, StarStep

LEMMA TreeUpDown ==
  ASSUME CaseTells, Inv, TreeInv, NEW r \in 1..Len(rows), Up(r) \/ Down(r)
  PROVE  TreeStep
<1> DEFINE k == GetIndex(list, rows[r].name)
<1>1. status = "on" /\ status' = "on"
  BY DEF Up, Down, Chosen
<1>2. /\ Shows(rows, list) /\ rows \in Rows /\ Len(rows) = Len(list) /\ Len(list) \in Nat
      /\ list \in Lists /\ NoTwins(list) /\ r \in 1..Len(list) /\ current \in Nat
  BY <1>1, WhileOn DEF TreeInv, Shows
<1>3. k = r /\ FirstRow(rows, rows[r].name) = r
  BY <1>2, OnlyRow
<1>4. CASE Up(r)
  <2>1. /\ k > 1 /\ list' = Swap(list, k - 1, k) /\ current' = Follow(k, k - 1)
        /\ rows' = UpdatePriorities(
                     InsertAt(RemoveAt(rows, r), FirstRow(rows, rows[r].name) - 1, rows[r]))
    BY <1>4 DEF Up, FirstRow
  <2>2. ~Drifts => k # current + 1
    BY <1>4 DEF Drifts, MovesPast
  <2> HIDE DEF k
  <2> DEFINE us == InsertAt(RemoveAt(rows, r), r - 1, rows[r])
  <2>3. rows' = UpdatePriorities(us)
    BY <1>3, <2>1, Zenon
  <2>4. r \in 2..Len(rows) /\ r - 1 \in 1..Len(list) /\ r - 1 # r /\ (~Drifts => current # r - 1)
    BY <1>2, <1>3, <2>1, <2>2
  <2>5. /\ us \in Rows /\ Len(us) = Len(rows)
        /\ \A i \in 1..Len(rows) :
             us[i] = IF i = r - 1 THEN rows[r] ELSE IF i = r THEN rows[r - 1] ELSE rows[i]
    BY <1>2, <2>4, MovedUp DEF Rows
  <2> HIDE DEF us
  <2>6. list' = Swap(list, r - 1, r) /\ current' = Follow(r, r - 1)
    BY <1>3, <2>1, Zenon
  <2> QED
    BY <1>1, <1>2, <2>3, <2>4, <2>5, <2>6, TreeSwap
<1>5. CASE Down(r)
  <2>1. /\ k \in 1..Len(list) - 1 /\ list' = Swap(list, k, k + 1) /\ current' = Follow(k, k + 1)
        /\ rows' = UpdatePriorities(Swap(rows, r, r + 1)) /\ r < Len(rows)
    BY <1>5 DEF Down
  <2>2. ~Drifts => k # current - 1
    BY <1>5 DEF Drifts, MovesPast
  <2> HIDE DEF k
  <2> DEFINE us == Swap(rows, r, r + 1)
  <2>3. r + 1 \in 1..Len(list) /\ r + 1 # r /\ (~Drifts => current # r + 1)
    BY <1>2, <1>3, <2>1, <2>2
  <2>4. list' = Swap(list, r + 1, r) /\ current' = Follow(r, r + 1)
    <3>1. list \in [1..Len(list) -> Config]
      BY <1>2, InList
    <3>2. Swap(list, r, r + 1) = Swap(list, r + 1, r)
      BY <1>2, <2>3, <3>1 DEF Swap
    <3> QED
      BY <1>3, <2>1, <3>2, Zenon
  <2>5. /\ us \in Rows /\ Len(us) = Len(list)
        /\ \A i \in 1..Len(list) :
             us[i] = IF i = r + 1 THEN rows[r] ELSE IF i = r THEN rows[r + 1] ELSE rows[i]
    <3>1. rows \in [1..Len(list) -> Row]
      BY <1>2, InRows
    <3>2. us \in [1..Len(list) -> Row]
      BY <1>2, <2>3, <3>1 DEF Swap
    <3>3. us \in Rows /\ Len(us) = Len(list)
      BY <1>2, <3>2, RowsMade
    <3> QED
      BY <1>2, <2>3, <3>1, <3>3 DEF Swap
  <2>6. rows' = UpdatePriorities(us)
    BY <2>1
  <2> HIDE DEF us
  <2> QED
    BY <1>1, <1>2, <2>3, <2>4, <2>5, <2>6, TreeSwap
<1> QED
  BY <1>4, <1>5

LEMMA TreeRename ==
  ASSUME CaseTells, Inv, TreeInv, NEW n \in Names, Rename(n)
  PROVE  TreeStep
<1>1. /\ status = "on" /\ status' = "on" /\ InRange /\ ~NameTaken(n) /\ current' = current
      /\ rows' = RenameRow(rows, list[current].name, n, current)
      /\ list' = [list EXCEPT ![current].name = n]
  BY DEF Rename
<1>2. /\ Shows(rows, list) /\ Len(rows) = Len(list) /\ Len(list) \in Nat
      /\ list \in Lists /\ NoTwins(list) /\ current \in 1..Len(list)
  BY <1>1, WhileOn DEF TreeInv, Shows, InRange
<1>3. /\ Len(list') = Len(list)
      /\ \A i \in 1..Len(list) :
           list'[i] = IF i = current THEN [name |-> n, id |-> list[current].id] ELSE list[i]
  <2>1. \A i \in 1..Len(list) : i # current => list[i].name # n
    BY <1>1 DEF NameTaken
  <2>2. LET m == [list EXCEPT ![current].name = n]
        IN  /\ m \in Lists /\ NoTwins(m) /\ Len(m) = Len(list)
            /\ \A i \in 1..Len(list) :
                 m[i] = IF i = current THEN [name |-> n, id |-> list[current].id] ELSE list[i]
    BY <1>2, <2>1, RenamedIsUnique, Zenon
  <2> QED
    BY <1>1, <2>2, Zenon
<1>4. /\ rows' \in Rows /\ Len(rows') = Len(rows)
      /\ \A i \in 1..Len(rows) :
           /\ rows'[i].name = IF i = current THEN n ELSE rows[i].name
           /\ rows'[i].prio = rows[i].prio
           /\ rows'[i].star = (i = current)
  <2>1. LET us == RenameRow(rows, list[current].name, n, current)
        IN  /\ us \in Rows /\ Len(us) = Len(rows)
            /\ \A i \in 1..Len(rows) :
                 /\ us[i].name = IF i = current THEN n ELSE rows[i].name
                 /\ us[i].prio = rows[i].prio
                 /\ us[i].star = (i = current)
    BY <1>2, RowRenamed
  <2> QED
    BY <1>1, <2>1, Zenon
<1>5. ASSUME NEW i \in 1..Len(list)
      PROVE  rows'[i].name = list'[i].name /\ rows'[i].prio = i
  <2>1. rows[i].name = list[i].name /\ rows[i].prio = i
    BY <1>2 DEF Shows
  <2>2. list'[i].name = IF i = current THEN n ELSE list[i].name
    BY <1>3
  <2> QED
    BY <1>2, <1>4, <2>1, <2>2
<1>6. Shows(rows', list')
  BY <1>2, <1>3, <1>4, <1>5 DEF Shows
<1>7. Starry(rows', current')
  BY <1>1, <1>4 DEF Starry
<1> QED
  BY <1>1, <1>6, <1>7 DEF TreeStep, TreeInv, StarStep

LEMMA TreeUser ==
  ASSUME CaseTells, Inv, TreeInv, User \/ Killed
  PROVE  TreeStep
<1>1. CASE Edit \/ Look \/ Detect \/ DeleteButton \/ Save
  <2>1. rows' = rows /\ list' = list /\ status' = status /\ current' = current
    BY <1>1 DEF Edit, Look, Detect, DeleteButton, Save
  <2> QED
    BY <2>1, TreeStays DEF TreeStep
<1>2. CASE \/ Quit \/ Killed \/ \E n \in Typed : RenameAborts(n)
           \/ \E r \in 1..Len(rows) : DeleteAborts(r) \/ DownAborts(r)
  <2>1. Forget("off") \/ Forget("aborted")
    BY <1>2 DEF Quit, Killed, Kill, KillInSave, KillInQuit, KillInOpenOld, RenameAborts,
                DeleteAborts, DownAborts
  <2> QED
    BY <2>1 DEF Forget, TreeStep, TreeInv, StarStep
<1>3. ASSUME NEW copy \in BOOLEAN, New(copy)
      PROVE  TreeStep
  <2>1. status = "on" /\ status' = "on" /\ NewConfig(list, rows, "New config", copy)
    BY <1>3 DEF New
  <2>2. "New config" \in Bases
    BY DEF Bases
  <2>3. list \in Lists /\ NoTwins(list) /\ \A i \in 1..Len(list) : list[i].id \in UsedIds
    BY <2>1, UsedHere, WhileOn DEF Inv
  <2>4. Shows(rows', list') /\ Starry(rows', current')
    BY <2>1, <2>2, <2>3, ShowsCreated, Zenon DEF TreeInv, Inv, TypesOK
  <2> QED
    BY <2>1, <2>4 DEF TreeStep, TreeInv, StarStep
<1>4. ASSUME NEW r \in 1..Len(rows), Activate(r)
      PROVE  TreeStep
  <2> DEFINE k == GetIndex(list, rows[r].name)
  <2>1. /\ status = "on" /\ status' = "on" /\ list' = list
        /\ \/ Opens(r) /\ OpenConfig(list, k, rows, file')
           \/ ~Opens(r) /\ rows' = rows /\ current' = current
    BY <1>4 DEF Activate
  <2>2. list \in Lists /\ NoTwins(list) /\ Shows(rows, list)
    BY <2>1, WhileOn DEF TreeInv
  <2>3. Opens(r) => k \in 1..Len(list)
    BY <2>2, IndexFound DEF Opens
  <2> HIDE DEF k
  <2>4. CASE Opens(r)
    <3>1. Shows(rows', list) /\ Starry(rows', current')
      BY <2>1, <2>2, <2>3, <2>4, ShowsOpened
    <3> QED
      BY <2>1, <3>1 DEF TreeStep, TreeInv, StarStep
  <2>5. CASE ~Opens(r)
    BY <2>1, <2>5, TreeStays DEF TreeStep
  <2> QED
    BY <2>4, <2>5
<1>5. Typed \subseteq Names
  BY ConstantsOK
<1> QED
  BY <1>1, <1>2, <1>3, <1>4, <1>5, TreeRename, TreeDelete, TreeUpDown DEF User

LEMMA TreeKept ==
  ASSUME CaseTells, ~IOFails, ~Backups, Inv, TreeInv, [Next]_vars
  PROVE  TreeStep
<1>1. CASE UNCHANGED vars
  <2>1. rows' = rows /\ list' = list /\ status' = status /\ current' = current
    BY <1>1 DEF vars
  <2> QED
    BY <2>1, TreeStays DEF TreeStep
<1>2. ~Backup /\ ~Restores
  BY DEF Backup, Restores, Restore
<1> QED
  BY <1>1, <1>2, TreeAtStart, TreeUser DEF Next

\* Where no call fails and no backup is restored, the tree shows the list whatever
\* the user does, the drifts included, and wherever the process is killed
\* (tree_config.c keeps up with config_manager.c).
THEOREM TreeIsList ==
  ASSUME CaseTells, ~IOFails, ~Backups
  PROVE  Spec => []TreeShowsList
<1>1. Init => TreeInv
  BY DEF Init, TreeInv
<1>2. Inv /\ TreeInv /\ [Next]_vars => TreeInv'
  BY TreeKept DEF TreeStep
<1>3. TreeInv => TreeShowsList
  BY DEF TreeInv, TreeShowsList, Shows
<1> QED
  BY <1>1, <1>2, <1>3, Invariant, PTL DEF Spec
-----------------------------------------------------------------------------
(* What a careful user's files hold. *)

\* v is nothing, or the values of id; of one who never looked, unspoilt ones.
Mine(v, id, lk) ==
  v # NoFile => v \in Owned /\ v.of = id /\ (lk = "never" => ~v.stray)

\* Every file under a name of l is that configuration's, and there is no other.
Homely(l, f, lk) ==
  /\ \A i \in 1..Len(l) : Mine(f[l[i].name], l[i].id, lk)
  /\ \A n \in Names : f[n] # NoFile => HasName(l, n)

FilesInv ==
  /\ status \in {"off", "aborted", "checking"} => Homely(manager, file, looked)
  /\ status = "checking" =>
       /\ \A i \in 1..Len(list) : Contains(manager, list[i])
       /\ \A i \in 1..Len(manager) :
            file[manager[i].name] # NoFile => Contains(list, manager[i])
  /\ status \in {"loading", "on"} => Homely(list, file, looked)
  /\ status = "on" => (open # NoId => Mine(mem, open, looked))

\* The careful user's lists can be read.
Fits == Len(list) <= MaxConfigs /\ Len(manager) <= MaxConfigs

HomeInv == FilesInv /\ Fits /\ (status = "on" => Agree /\ Starry(rows, current))

\* Nobody gets to have never selected a button.
LEMMA LooksOn ==
  ASSUME [Next]_vars, looked' = "never"
  PROVE  looked = "never"
<1>1. CASE UNCHANGED <<editor>>
  BY <1>1 DEF editor
<1>2. CASE Forget("off") \/ Forget("aborted")
  BY <1>2 DEF Forget
<1>3. CASE Startup
  <2>1. \A l, i, rs, f : FinishInit(l, i, rs, f) => looked' = looked
    BY DEF FinishInit, OpenConfig, NewConfig
  <2> QED
    BY <1>2, <1>3, <2>1 DEF Startup, ReadFile, CheckPresent, CheckMissing, CheckMissingAborts,
       CheckDone, InitPlain, InitOldFails, InitOld, InitOldClash, editor
<1>4. CASE User
  <2>1. ASSUME NEW r \in 1..Len(rows), Delete(r)
        PROVE  looked' = looked
    BY <2>1 DEF Delete, OpenConfig, editor
  <2>2. ASSUME NEW r \in 1..Len(rows), Activate(r)
        PROVE  looked' = looked
    BY <2>2 DEF Activate, OpenConfig
  <2>3. ASSUME NEW copy, New(copy)
        PROVE  looked' = looked
    BY <2>3 DEF New, NewConfig
  <2> QED
    BY <1>2, <1>4, <2>1, <2>2, <2>3 DEF User, Edit, Look, Detect, DeleteButton, Save, Quit,
       Rename, RenameAborts, DeleteAborts, Up, Down, DownAborts, editor
<1>5. CASE Killed
  BY <1>2, <1>5 DEF Killed, Kill, KillInSave, KillInQuit, KillInOpenOld
<1>6. CASE Backup \/ Restores
  BY <1>6 DEF Backup, Restores, Restore, editor
<1> QED
  BY <1>1, <1>3, <1>4, <1>5, <1>6 DEF Next, vars

\* Looking can only allow for more.
LEMMA HomeLooked ==
  ASSUME [Next]_vars
  PROVE  /\ \A v, id : Mine(v, id, looked) => Mine(v, id, looked')
         /\ \A l, f : Homely(l, f, looked) => Homely(l, f, looked')
<1>1. looked' = "never" => looked = "never"
  BY LooksOn
<1>2. \A v, id : Mine(v, id, looked) => Mine(v, id, looked')
  BY <1>1 DEF Mine
<1> QED
  BY <1>2 DEF Homely

\* What is loaded from such files is that of the configuration.
LEMMA HomeLoad ==
  ASSUME NEW l \in Lists, NEW f \in Files, Homely(l, f, looked), NEW i \in 1..Len(l), NEW rs,
         OpenConfig(l, i, rs, f)
  PROVE  Mine(mem', open', looked)
<1>1. Mine(f[l[i].name], l[i].id, looked) /\ l[i].name \in Names /\ l[i].id \in Ids
  BY InList DEF Homely
<1>2. mem' \in Refreshed(Load(f, l[i])) /\ open' = l[i].id
  BY DEF OpenConfig
<1>3. Load(f, l[i]) \in Owned /\ Mine(Load(f, l[i]), l[i].id, looked)
  <2>1. CASE f[l[i].name] = NoFile
    <3>1. Load(f, l[i]) = Pure(l[i].id)
      BY <2>1 DEF Load
    <3> QED
      BY <1>1, <3>1, PureIs DEF Mine
  <2>2. CASE f[l[i].name] # NoFile
    BY <1>1, <2>2 DEF Load, Mine
  <2> QED
    BY <2>1, <2>2
<1>4. Load(f, l[i]) \in Values
  BY <1>3, OwnedIs
<1> DEFINE v == Load(f, l[i])
<1>5. v \in Values /\ v \in Owned /\ Mine(v, l[i].id, looked) /\ mem' \in Refreshed(v)
  BY <1>2, <1>3, <1>4
<1> HIDE DEF v
<1>6. mem' \in Owned /\ mem'.of = v.of /\ (mem' # v => looked = "now")
  BY <1>5, RefreshedIs
<1>7. v # NoFile
  BY <1>5, OwnedIs
<1>8. Mine(mem', l[i].id, looked)
  BY <1>5, <1>6, <1>7 DEF Mine
<1> QED
  BY <1>2, <1>8

\* So is what a detection refreshes.
LEMMA HomeRefreshed ==
  ASSUME mem \in Values, NEW id, Mine(mem, id, looked), mem # NoFile, mem' \in Refreshed(mem)
  PROVE  Mine(mem', id, looked)
<1>1. mem \in Owned
  BY DEF Mine
<1>2. mem' \in Owned /\ mem'.of = mem.of /\ (mem' # mem => looked = "now")
  BY <1>1, RefreshedIs
<1> QED
  BY <1>1, <1>2 DEF Mine

\* A configuration of a new name has no file, or the one that is made for it.
LEMMA HomeAdd ==
  ASSUME NEW l \in Lists, NEW f \in Files, Homely(l, f, looked), NEW n \in Names, ~HasName(l, n),
         NEW id \in Ids, NEW m, Len(m) = Len(l) + 1, m[Len(l) + 1] = [name |-> n, id |-> id],
         \A i \in 1..Len(l) : m[i] = l[i]
  PROVE  f[n] = NoFile /\ Homely(m, f, looked) /\ Homely(m, [f EXCEPT ![n] = Pure(id)], looked)
<1> DEFINE g == [f EXCEPT ![n] = Pure(id)]
<1>1. f[n] = NoFile
  BY DEF Homely
<1>7. Mine(NoFile, id, looked) /\ Mine(Pure(id), id, looked)
  BY PureIs DEF Mine
<1>2. /\ g[n] = Pure(id) /\ \A k \in Names \ {n} : g[k] = f[k]
  BY DEF Files
<1>3. Len(l) \in Nat /\ \A i \in 1..Len(l) : l[i].name \in Names
  BY InList
<1>4. m[Len(l) + 1].name = n /\ m[Len(l) + 1].id = id
  OBVIOUS
<1> HIDE DEF g
<1>5. ASSUME NEW i \in 1..Len(m)
      PROVE  Mine(f[m[i].name], m[i].id, looked) /\ Mine(g[m[i].name], m[i].id, looked)
  <2>1. CASE i = Len(l) + 1
    BY <1>1, <1>2, <1>4, <1>7, <2>1
  <2>2. CASE i \in 1..Len(l)
    <3>1. m[i] = l[i] /\ l[i].name # n /\ l[i].name \in Names
      BY <1>3, <2>2 DEF HasName
    <3>2. Mine(f[l[i].name], l[i].id, looked)
      BY <2>2 DEF Homely
    <3> QED
      BY <1>2, <3>1, <3>2
  <2> QED
    BY <1>3, <2>1, <2>2
<1>6. ASSUME NEW k \in Names, f[k] # NoFile \/ g[k] # NoFile
      PROVE  HasName(m, k)
  <2>1. CASE k = n
    <3>1. Len(l) + 1 \in 1..Len(m) /\ m[Len(l) + 1].name = n
      BY <1>3, <1>4
    <3> QED
      BY <2>1, <3>1 DEF HasName
  <2>2. CASE k # n
    <3>1. HasName(l, k)
      BY <1>2, <1>6, <2>2 DEF Homely
    <3>2. PICK i \in 1..Len(l) : l[i].name = k
      BY <3>1 DEF HasName
    <3>3. i \in 1..Len(m) /\ m[i].name = k
      BY <1>3, <3>2
    <3> QED
      BY <3>3 DEF HasName
  <2> QED
    BY <2>1, <2>2
<1> QED
  BY <1>1, <1>5, <1>6 DEF Homely, g

\* A configuration goes with its file.
LEMMA HomeRemove ==
  ASSUME NEW lk, NEW l \in Lists, NoTwins(l), NEW f \in Files, Homely(l, f, lk), NEW k \in 1..Len(l)
  PROVE  Homely(RemoveAt(l, k), DeleteFile(f, l[k].name), lk)
<1> DEFINE m == RemoveAt(l, k)
           g == DeleteFile(f, l[k].name)
           from(i) == IF i < k THEN i ELSE i + 1
<1>1. Len(l) \in Nat /\ \A i \in 1..Len(l) : l[i].name \in Names
  BY InList
<1>2. Len(m) = Len(l) - 1 /\ \A i \in 1..Len(l) - 1 : m[i] = IF i < k THEN l[i] ELSE l[i + 1]
  BY RemovedIsUnique
<1>3. g[l[k].name] = NoFile /\ \A n \in Names \ {l[k].name} : g[n] = f[n]
  BY <1>1 DEF DeleteFile, Files
<1> HIDE DEF m, g
<1>4. \A i \in 1..Len(m) : from(i) \in 1..Len(l) /\ from(i) # k /\ m[i] = l[from(i)]
  BY <1>1, <1>2
<1> HIDE DEF from
<1>5. \A i \in 1..Len(m) : Mine(g[m[i].name], m[i].id, lk)
  <2> SUFFICES ASSUME NEW i \in 1..Len(m)
               PROVE  Mine(g[m[i].name], m[i].id, lk)
    OBVIOUS
  <2>1. l[from(i)].name # l[k].name /\ l[from(i)].name \in Names
    BY <1>1, <1>4 DEF NoTwins
  <2>2. Mine(f[l[from(i)].name], l[from(i)].id, lk)
    BY <1>4 DEF Homely
  <2> QED
    BY <1>3, <1>4, <2>1, <2>2
<1>6. ASSUME NEW n \in Names, g[n] # NoFile
      PROVE  HasName(m, n)
  <2>1. n # l[k].name /\ f[n] # NoFile
    BY <1>3, <1>6
  <2>2. PICK i \in 1..Len(l) : l[i].name = n
    BY <2>1 DEF Homely, HasName
  <2>3. i # k
    BY <2>1, <2>2
  <2> DEFINE j == IF i < k THEN i ELSE i - 1
  <2>4. j \in 1..Len(m) /\ m[j] = l[i]
    BY <1>1, <1>2, <2>3
  <2> QED
    BY <2>2, <2>4 DEF HasName
<1> QED
  BY <1>5, <1>6 DEF Homely, m, g

\* The order does not matter.
LEMMA HomeSame ==
  ASSUME NEW lk, NEW l, NEW m, NEW f, Homely(l, f, lk),
         \A i \in 1..Len(m) : Contains(l, m[i]),
         \A i \in 1..Len(l) : f[l[i].name] # NoFile => Contains(m, l[i])
  PROVE  Homely(m, f, lk)
<1>1. \A i \in 1..Len(m) : Mine(f[m[i].name], m[i].id, lk)
  BY DEF Homely, Contains
<1>2. ASSUME NEW n \in Names, f[n] # NoFile
      PROVE  HasName(m, n)
  <2>1. PICK i \in 1..Len(l) : l[i].name = n
    BY <1>2 DEF Homely, HasName
  <2>2. Contains(m, l[i])
    BY <1>2, <2>1
  <2> QED
    BY <2>1, <2>2 DEF Contains, HasName
<1> QED
  BY <1>1, <1>2 DEF Homely

\* A file moves with its configuration.
LEMMA HomeRename ==
  ASSUME NEW l \in Lists, NoTwins(l), NEW f \in Files, Homely(l, f, looked), NEW k \in 1..Len(l),
         NEW n \in Names, \A i \in 1..Len(l) : i # k => l[i].name # n,
         NEW m, Len(m) = Len(l),
         \A i \in 1..Len(l) : m[i] = IF i = k THEN [name |-> n, id |-> l[k].id] ELSE l[i],
         NEW g, \/ n # l[k].name /\ f[l[k].name] # NoFile
                   /\ g = [f EXCEPT ![n] = f[l[k].name], ![l[k].name] = NoFile]
                \/ (n = l[k].name \/ f[l[k].name] = NoFile) /\ g = f
  PROVE  Homely(m, g, looked)
<1> DEFINE o == l[k].name
<1>1. Len(l) \in Nat /\ \A i \in 1..Len(l) : l[i].name \in Names
  BY InList
<1>2. /\ m[k].name = n /\ m[k].id = l[k].id
      /\ \A i \in 1..Len(l) : i # k => m[i] = l[i] /\ l[i].name # n /\ l[i].name # o
  BY DEF NoTwins
<1>3. n # o => f[n] = NoFile
  BY DEF Homely, HasName
<1>4. /\ g[n] = f[o]
      /\ n # o => g[o] = NoFile
      /\ \A j \in Names \ {n, o} : g[j] = f[j]
  BY <1>1, <1>3 DEF Files
<1>5. Mine(f[o], l[k].id, looked)
  BY DEF Homely
<1> HIDE DEF o
<1>6. ASSUME NEW i \in 1..Len(m)
      PROVE  Mine(g[m[i].name], m[i].id, looked)
  <2>1. CASE i = k
    BY <1>2, <1>4, <1>5, <2>1
  <2>2. CASE i # k
    <3>1. m[i] = l[i] /\ l[i].name \in Names \ {n, o}
      BY <1>1, <1>2, <2>2
    <3>2. Mine(f[l[i].name], l[i].id, looked)
      BY DEF Homely
    <3> QED
      BY <1>4, <3>1, <3>2
  <2> QED
    BY <2>1, <2>2
<1>7. ASSUME NEW j \in Names, g[j] # NoFile
      PROVE  HasName(m, j)
  <2>1. CASE j = n
    BY <1>2, <2>1 DEF HasName
  <2>2. CASE j # n
    <3>1. j \notin {n, o} /\ f[j] # NoFile
      BY <1>4, <1>7, <2>2
    <3>2. PICK i \in 1..Len(l) : l[i].name = j
      BY <3>1 DEF Homely, HasName
    <3>3. i # k
      BY <3>1, <3>2 DEF o
    <3> QED
      BY <1>2, <3>2, <3>3 DEF HasName
  <2> QED
    BY <2>1, <2>2
<1> QED
  BY <1>6, <1>7 DEF Homely

\* The editor holds what belongs into the file that is saved.
LEMMA HomeSaved ==
  ASSUME Inv, FilesInv, status = "on", Agree, InRange
  PROVE  Homely(list, SavedFile, looked)
<1>1. /\ list \in Lists /\ NoTwins(list) /\ current \in 1..Len(list) /\ Len(list) \in Nat
      /\ \A i \in 1..Len(list) : list[i].name \in Names /\ list[i].id \in Ids
  BY WhileOn, InList DEF InRange
<1>2. list[current].id = open /\ open \in Ids
  <2>1. list # <<>>
    BY <1>1, InList
  <2> QED
    BY <1>1, <2>1 DEF Agree
<1>3. Mine(mem, open, looked)
  BY <1>2, ConstantsOK DEF FilesInv
<1>4. /\ SavedFile[list[current].name] = mem
      /\ \A n \in Names \ {list[current].name} : SavedFile[n] = file[n]
  BY SavedIsFiles DEF Inv
<1>5. Homely(list, file, looked)
  BY DEF FilesInv
<1>6. ASSUME NEW i \in 1..Len(list)
      PROVE  Mine(SavedFile[list[i].name], list[i].id, looked)
  <2>1. CASE i = current
    BY <1>2, <1>3, <1>4, <2>1
  <2>2. CASE i # current
    <3>1. list[i].name # list[current].name /\ list[i].name \in Names
      BY <1>1, <2>2 DEF NoTwins
    <3>2. Mine(file[list[i].name], list[i].id, looked)
      BY <1>5 DEF Homely
    <3> QED
      BY <1>4, <3>1, <3>2
  <2> QED
    BY <2>1, <2>2
<1>7. ASSUME NEW n \in Names, SavedFile[n] # NoFile
      PROVE  HasName(list, n)
  <2>1. CASE n = list[current].name
    BY <1>1, <2>1 DEF HasName
  <2>2. CASE n # list[current].name
    BY <1>4, <1>5, <1>7, <2>2 DEF Homely
  <2> QED
    BY <2>1, <2>2
<1> QED
  BY <1>6, <1>7 DEF Homely

\* Start-up, which only drops entries that have no file.
LEMMA HomeAtStart ==
  ASSUME ~IOFails, Inv, FilesInv, Fits, Startup, [Next]_vars
  PROVE  FilesInv'
<1>0. /\ \A v, id : Mine(v, id, looked) => Mine(v, id, looked')
      /\ \A l, f : Homely(l, f, looked) => Homely(l, f, looked')
  BY HomeLooked
<1>1. /\ list \in Lists /\ NoTwins(list) /\ manager \in Lists /\ Len(list) \in Nat /\ file \in Files
      /\ (list = <<>> <=> Len(list) = 0) /\ x \in Nat \ {0}
  BY InList DEF Inv, TypesOK, Unique, NamesUnique
<1>2. CASE ReadFile
  <2>3. ReadNames(manager) = manager
    BY NamesRead DEF Fits, Inv, TypesOK, Unique, NamesUnique
  <2>1. /\ list' = manager /\ manager' = manager /\ file' = file
        /\ status' \in {"loading", "checking"} /\ Homely(manager, file, looked)
    BY <1>2, <2>3 DEF ReadFile, disk, FilesInv
  <2>2. \A i \in 1..Len(manager) : Contains(manager, manager[i])
    BY DEF Contains
  <2> QED
    BY <1>0, <2>1, <2>2 DEF FilesInv
<1>3. CASE CheckPresent
  <2>1. list' = list /\ manager' = manager /\ file' = file /\ status = "checking" /\ status' = "checking"
    BY <1>3 DEF CheckPresent, disk
  <2> QED
    BY <1>0, <2>1 DEF FilesInv
<1>4. CASE CheckMissing
  <2>1. /\ x \in 1..Len(list) /\ file[list[x].name] = NoFile /\ list' = RemoveAt(list, x)
        /\ manager' = manager /\ file' = file /\ status = "checking" /\ status' = "checking"
    BY <1>1, <1>4 DEF CheckMissing, disk
  <2>2. /\ Len(list') = Len(list) - 1
        /\ \A i \in 1..Len(list) - 1 : list'[i] = IF i < x THEN list[i] ELSE list[i + 1]
    BY <1>1, <2>1, RemovedIsUnique
  <2>3. ASSUME NEW i \in 1..Len(list')
        PROVE  Contains(manager, list'[i])
    <3>1. \E j \in 1..Len(list) : list'[i] = list[j]
      BY <1>1, <2>1, <2>2
    <3> QED
      BY <2>1, <3>1 DEF FilesInv
  <2>4. ASSUME NEW c, file[c.name] # NoFile, Contains(list, c)
        PROVE  Contains(list', c)
    <3>1. PICK j \in 1..Len(list) : list[j] = c
      BY <2>4 DEF Contains
    <3>2. j # x
      BY <2>1, <2>4, <3>1
    <3> DEFINE i == IF j < x THEN j ELSE j - 1
    <3>3. i \in 1..Len(list') /\ list'[i] = c
      BY <1>1, <2>1, <2>2, <3>1, <3>2
    <3> QED
      BY <3>3 DEF Contains
  <2> QED
    BY <1>0, <2>1, <2>3, <2>4 DEF FilesInv
<1>5. CASE CheckMissingAborts
  <2>1. manager' = manager /\ file' = file /\ status = "checking" /\ status' = "aborted"
    BY <1>5 DEF CheckMissingAborts, Forget, disk
  <2> QED
    BY <1>0, <2>1 DEF FilesInv
<1>6. CASE CheckDone
  <2>1. /\ list' = list /\ manager' = manager /\ file' = file
        /\ status = "checking" /\ status' = "loading"
    BY <1>6 DEF CheckDone, disk
  <2>2. Homely(list, file, looked)
    BY <2>1, HomeSame DEF FilesInv
  <2> QED
    BY <1>0, <2>1, <2>2 DEF FilesInv
<1>7. ASSUME NEW l \in Lists, NoTwins(l), NEW i, l # <<>> => i \in 1..Len(l),
             NEW f \in Files, NEW rs, Homely(l, f, looked), FinishInit(l, i, rs, f)
      PROVE  FilesInv'
  <2>1. status' = "on" /\ file' = f
    BY <1>7 DEF FinishInit
  <2>2. CASE l # <<>>
    <3>1. list' = l /\ OpenConfig(l, i, rs, f) /\ i \in 1..Len(l)
      BY <1>7, <2>2 DEF FinishInit
    <3>2. Mine(mem', open', looked)
      BY <1>7, <3>1, HomeLoad
    <3> QED
      BY <1>0, <1>7, <2>1, <3>1, <3>2 DEF FilesInv
  <2>3. CASE l = <<>>
    <3>1. NewConfig(l, rs, "Default", FALSE)
      BY <1>7, <2>3 DEF FinishInit
    <3>2. \A j \in 1..Len(l) : l[j].id \in UsedIds
      BY <2>3
    <3>3. "Default" \in Bases
      BY DEF Bases
    <3>4. /\ list' \in Lists /\ Len(list') = Len(l) + 1 /\ current' = Len(l) + 1
          /\ list'[current'].id = open' /\ list'[current'].name = FirstFree(l, "Default")
          /\ \A j \in 1..Len(l) : list'[j] = l[j]
          /\ mem' = Pure(open') /\ open' \in Ids
      BY <1>7, <3>1, <3>2, <3>3, Created DEF Inv, TypesOK
    <3>8. Mine(mem', open', looked)
      BY <3>4, PureIs DEF Mine
    <3>5. FirstFree(l, "Default") \in Names /\ ~HasName(l, FirstFree(l, "Default"))
      BY <3>1, <3>3, FirstFreeIsFree DEF NewConfig
    <3>6. list'[Len(l) + 1] = [name |-> FirstFree(l, "Default"), id |-> open']
      <4>1. Len(l) + 1 \in 1..Len(list')
        BY <1>7, <3>4, InList
      <4>2. list'[Len(l) + 1] \in Config
        BY <3>4, <4>1, InList
      <4> QED
        BY <3>4, <4>2 DEF Config
    <3>7. Homely(list', f, looked)
      BY <1>7, <3>4, <3>5, <3>6, HomeAdd
    <3> QED
      BY <1>0, <2>1, <3>4, <3>7, <3>8 DEF FilesInv
  <2> QED
    BY <2>2, <2>3
<1>8. CASE InitPlain
  <2>1. list # <<>> => current \in 1..Len(list)
    BY <1>1, <1>8 DEF Inv, StartOK, InitPlain
  <2>2. FinishInit(list, current, rows, file) /\ Homely(list, file, looked)
    BY <1>8 DEF InitPlain, FilesInv
  <2> QED
    BY <1>1, <1>7, <2>1, <2>2
<1>9. ASSUME NEW id \in Ids \ UsedIds, InitOld(id) \/ InitOldClash(id)
      PROVE  FilesInv'
  <2>1. LoadingOld /\ Homely(list, file, looked)
    BY <1>9 DEF InitOld, InitOldClash, LoadingOld, FilesInv
  <2>2. /\ OldName \in Names /\ ~HasName(list, OldName)
        /\ OldList(id) \in Lists /\ NoTwins(OldList(id)) /\ OldList(id) # <<>>
        /\ Len(OldList(id)) = Len(list) + 1 /\ Len(list) + 1 \in 1..Len(OldList(id))
        /\ OldList(id)[Len(list) + 1] = [name |-> OldName, id |-> id]
        /\ \A i \in 1..Len(list) : OldList(id)[i] = list[i]
    BY <1>1, <2>1, OldAdded DEF Inv
  <2>3. file[OldName] = NoFile /\ Homely(OldList(id), [file EXCEPT ![OldName] = Pure(id)], looked)
    <3>1. /\ id \in Ids /\ list \in Lists /\ file \in Files /\ Homely(list, file, looked)
          /\ OldName \in Names /\ ~HasName(list, OldName)
      BY <1>1, <2>1, <2>2
    <3>2. /\ Len(OldList(id)) = Len(list) + 1
          /\ OldList(id)[Len(list) + 1] = [name |-> OldName, id |-> id]
          /\ \A i \in 1..Len(list) : OldList(id)[i] = list[i]
      BY <2>2
    <3> QED
      BY <3>1, <3>2, HomeAdd
  <2>4. InitOld(id)
    BY <1>9, <2>3 DEF InitOldClash
  <2>5. FinishInit(OldList(id), Len(list) + 1, AddRow(rows, OldName, Len(list) + 1), [file EXCEPT ![OldName] = Pure(id)])
    BY <2>4 DEF InitOld
  <2>6. [file EXCEPT ![OldName] = Pure(id)] \in Files
    <3>1. Pure(id) \in Values
      BY PureIs, OwnedIs
    <3> QED
      BY <1>1, <3>1 DEF Files
  <2> QED
    BY <1>7, <2>2, <2>3, <2>5, <2>6
<1>10. ~InitOldFails
  BY DEF InitOldFails
<1> QED
  BY <1>2, <1>3, <1>4, <1>5, <1>6, <1>8, <1>9, <1>10 DEF Startup

\* What the user does in the window.
LEMMA HomeUser ==
  ASSUME CaseTells, ~IOFails, ~Kills, Inv, TreeInv, HomeInv, User \/ Killed, [Next]_vars
  PROVE  FilesInv'
<1> USE DEF HomeInv
<1>0. /\ \A v, id : Mine(v, id, looked) => Mine(v, id, looked')
      /\ \A l, f : Homely(l, f, looked) => Homely(l, f, looked')
  BY HomeLooked
<1>1. ASSUME status = "on"
      PROVE  /\ list \in Lists /\ NoTwins(list) /\ Len(list) \in Nat /\ file \in Files
             /\ (list = <<>> <=> Len(list) = 0)
             /\ Homely(list, file, looked) /\ Agree /\ (open # NoId => Mine(mem, open, looked))
             /\ InRange => Homely(list, SavedFile, looked) /\ SavedFile \in Files
  BY <1>1, WhileOn, HomeSaved, SavedIsFiles DEF FilesInv, Inv
<1>2. CASE Edit \/ Look \/ Detect \/ DeleteButton
  <2>1. /\ status = "on" /\ status' = "on" /\ list' = list /\ file' = file
        /\ mem' = mem \/ mem' \in Refreshed(mem)
        /\ open' = open
    BY <1>2 DEF Edit, Look, Detect, DeleteButton, disk
  <2>2. mem \in Values /\ mem # NoFile
    BY <2>1, WhileOn
  <2>3. Mine(mem, open, looked) => Mine(mem', open, looked)
    BY <2>1, <2>2, HomeRefreshed
  <2> QED
    BY <1>0, <2>1, <2>3 DEF FilesInv
<1>3. CASE Save
  <2>1. /\ status = "on" /\ status' = "on" /\ InRange /\ list' = list /\ file' = SavedFile
        /\ mem' = mem /\ open' = open
    BY <1>3 DEF Save
  <2> QED
    BY <1>0, <1>1, <2>1 DEF FilesInv
<1>4. CASE Quit
  <2>1. /\ status = "on" /\ status' = "off" /\ manager' = list
        /\ file' = IF InRange THEN SavedFile ELSE file
    BY <1>4 DEF Quit, Forget
  <2> QED
    BY <1>0, <1>1, <2>1 DEF FilesInv
<1>5. ~Killed /\ (\A n \in Typed : ~RenameAborts(n)) /\ (\A r \in 1..Len(rows) : ~DeleteAborts(r))
  <2>1. ~Killed
    BY DEF Killed, Kill, KillInSave, KillInQuit, KillInOpenOld
  <2>2. ~NullName
    BY <1>1, WhileOn DEF NullName, Agree, InRange
  <2> QED
    BY <2>1, <2>2 DEF RenameAborts, DeleteAborts
<1>6. ASSUME NEW r \in 1..Len(rows), DownAborts(r)
      PROVE  FALSE
  <2>1. status = "on" /\ ~HasName(list, rows[r].name)
    BY <1>6 DEF DownAborts, Chosen
  <2>2. Shows(rows, list)
    BY <2>1 DEF TreeInv
  <2>3. r \in 1..Len(list) /\ rows[r].name = list[r].name
    BY <2>2 DEF Shows
  <2> QED
    BY <2>1, <2>3 DEF HasName
<1>7. ASSUME NEW copy \in BOOLEAN, New(copy)
      PROVE  FilesInv'
  <2>1. /\ status = "on" /\ status' = "on" /\ NewConfig(list, rows, "New config", copy)
        /\ file' = file
    BY <1>7 DEF New, disk
  <2>2. "New config" \in Bases
    BY DEF Bases
  <2>3. \A i \in 1..Len(list) : list[i].id \in UsedIds
    BY UsedHere DEF Inv
  <2>4. list \in Lists /\ NoTwins(list) /\ Len(list) \in Nat /\ Homely(list, file, looked) /\ file \in Files
    BY <1>1, <2>1
  <2>5. /\ list' \in Lists /\ Len(list') = Len(list) + 1 /\ current' = Len(list) + 1
        /\ list'[current'].id = open' /\ list'[current'].name = FirstFree(list, "New config")
        /\ \A i \in 1..Len(list) : list'[i] = list[i]
        /\ mem' = (IF copy THEN Copied(mem, open') ELSE Pure(open')) /\ open' \in Ids
    BY <2>1, <2>2, <2>3, <2>4, WhileOn, Created, Zenon
  <2>10. Mine(mem', open', looked)
    <3>1. mem \in Values /\ mem # NoFile
      BY <2>1, WhileOn
    <3>2. CASE ~copy
      BY <2>5, <3>2, PureIs DEF Mine
    <3>3. CASE copy
      <4>1. InRange /\ list # <<>>
        BY <1>1, <1>7, <2>1, <3>3 DEF New, Agree
      <4>2. open \in Ids
        BY <1>1, <2>1, <4>1, InList DEF Agree, InRange
      <4>3. Mine(mem, open, looked)
        BY <1>1, <2>1, <4>2, ConstantsOK
      <4>4. mem \in Owned /\ (looked = "never" => ~mem.stray)
        BY <3>1, <4>3 DEF Mine
      <4>5. mem' = Copied(mem, open')
        BY <2>5, <3>3
      <4> QED
        BY <2>5, <3>1, <4>4, <4>5, CopiedIs DEF Mine
    <3> QED
      BY <3>2, <3>3
  <2>6. FirstFree(list, "New config") \in Names /\ ~HasName(list, FirstFree(list, "New config"))
    BY <2>1, <2>2, FirstFreeIsFree DEF NewConfig
  <2>7. list'[Len(list) + 1] = [name |-> FirstFree(list, "New config"), id |-> open']
    <3> DEFINE k == Len(list)
               m == Len(list')
    <3>3. k \in Nat /\ m = k + 1
      BY <2>4, <2>5, Zenon
    <3> HIDE DEF k, m
    <3>4. k + 1 \in 1..m
      BY <3>3
    <3>1. Len(list) + 1 \in 1..Len(list')
      BY <3>4 DEF k, m
    <3>2. list'[Len(list) + 1] \in Config
      BY <2>5, <3>1, InList
    <3> QED
      BY <2>5, <3>2 DEF Config
  <2>8. open' \in Ids
    BY <2>5
  <2>9. Homely(list', file, looked)
    BY <2>4, <2>5, <2>6, <2>7, <2>8, HomeAdd
  <2> QED
    BY <1>0, <2>1, <2>9, <2>10 DEF FilesInv
<1>8. ASSUME NEW n \in Typed, Rename(n)
      PROVE  FilesInv'
  <2>1. /\ status = "on" /\ status' = "on" /\ InRange /\ ~NameTaken(n)
        /\ list' = [list EXCEPT ![current].name = n]
        /\ UNCHANGED <<current, editor, manager>>
        /\ \/ n # list[current].name /\ file[list[current].name] # NoFile
              /\ file' = [file EXCEPT ![n] = file[list[current].name], ![list[current].name] = NoFile]
           \/ (n = list[current].name \/ file[list[current].name] = NoFile) /\ file' = file
    BY <1>8 DEF Rename
  <2>2. n \in Names /\ current \in 1..Len(list)
    BY <2>1, ConstantsOK DEF InRange
  <2>3. \A i \in 1..Len(list) : i # current => list[i].name # n
    BY <2>1 DEF NameTaken
  <2>5. list \in Lists /\ NoTwins(list) /\ file \in Files /\ Homely(list, file, looked)
    BY <1>1, <2>1
  <2>4. /\ Len(list') = Len(list)
        /\ \A i \in 1..Len(list) :
             list'[i] = IF i = current THEN [name |-> n, id |-> list[current].id] ELSE list[i]
    <3>1. LET m == [list EXCEPT ![current].name = n]
          IN  /\ m \in Lists /\ NoTwins(m) /\ Len(m) = Len(list)
              /\ \A i \in 1..Len(list) :
                   m[i] = IF i = current THEN [name |-> n, id |-> list[current].id] ELSE list[i]
      BY <2>5, <2>2, <2>3, RenamedIsUnique, Zenon
    <3> QED
      BY <2>1, <3>1, Zenon
  <2>8. \/ n # list[current].name /\ file[list[current].name] # NoFile
           /\ file' = [file EXCEPT ![n] = file[list[current].name], ![list[current].name] = NoFile]
        \/ (n = list[current].name \/ file[list[current].name] = NoFile) /\ file' = file
    BY <2>1
  <2>6. Homely(list', file', looked)
    BY <2>2, <2>3, <2>4, <2>5, <2>8, HomeRename
  <2>7. mem' = mem /\ open' = open
    BY <2>1 DEF editor
  <2> QED
    BY <1>0, <1>1, <2>1, <2>6, <2>7 DEF FilesInv
<1>9. ASSUME NEW r \in 1..Len(rows), Delete(r)
      PROVE  FilesInv'
  <2> DEFINE n == rows[r].name
             k == GetIndex(list, n)
             l == RemoveAt(list, k)
             f == DeleteFile(file, n)
             to == IF k > Len(l) THEN Len(l) ELSE k
             rs == UpdatePriorities(RemoveAt(rows, r))
  <2>1. /\ status = "on" /\ status' = "on" /\ HasName(list, n) /\ list' = l /\ file' = f
        /\ \/ l = <<>> /\ open' = NoId /\ mem' = mem
           \/ l # <<>> /\ OpenConfig(l, to, rs, f)
           \/ l # <<>> /\ open' = open /\ mem' = mem
    BY <1>9 DEF Delete, Chosen, editor
  <2>2. k \in 1..Len(list) /\ list[k].name = n
    BY <1>1, <2>1, IndexFound
  <2>3. f \in Files
    BY <1>1, <2>1 DEF DeleteFile, Files, Values
  <2> HIDE DEF n, k, rs
  <2>4. /\ l \in Lists /\ Len(l) = Len(list) - 1 /\ Homely(l, f, looked)
    BY <1>1, <2>1, <2>2, RemovedIsUnique, HomeRemove
  <2> HIDE DEF l, f
  <2>5. l # <<>> => to \in 1..Len(l)
    BY <1>1, <2>1, <2>2, <2>4, InList
  <2> HIDE DEF to
  <2>6. l # <<>> /\ OpenConfig(l, to, rs, f) => Mine(mem', open', looked)
    BY <2>3, <2>4, <2>5, HomeLoad
  <2> QED
    BY <1>0, <1>1, <2>1, <2>4, <2>6 DEF FilesInv
<1>10. ASSUME NEW r \in 1..Len(rows), Up(r) \/ Down(r)
       PROVE  FilesInv'
  <2>1. /\ status = "on" /\ status' = "on" /\ file' = file /\ mem' = mem /\ open' = open
    BY <1>10 DEF Up, Down, Chosen, disk, editor
  <2>2. \E p, q \in 1..Len(list) : list' = Swap(list, p, q)
    <3> DEFINE k == GetIndex(list, rows[r].name)
    <3>1. k \in 0..Len(list)
      BY <1>1, <2>1, IndexFound
    <3>2. \/ k > 1 /\ list' = Swap(list, k - 1, k)
          \/ k \in 1..Len(list) - 1 /\ list' = Swap(list, k, k + 1)
      BY <1>10 DEF Up, Down
    <3> HIDE DEF k
    <3>3. \/ k - 1 \in 1..Len(list) /\ k \in 1..Len(list) /\ list' = Swap(list, k - 1, k)
          \/ k \in 1..Len(list) /\ k + 1 \in 1..Len(list) /\ list' = Swap(list, k, k + 1)
      BY <1>1, <2>1, <3>1, <3>2
    <3> QED
      BY <3>3
  <2>3. PICK p \in 1..Len(list), q \in 1..Len(list) : list' = Swap(list, p, q)
    BY <2>2
  <2>4. /\ Len(list') = Len(list)
        /\ \A i \in 1..Len(list) :
             list'[i] = IF i = q THEN list[p] ELSE IF i = p THEN list[q] ELSE list[i]
    <3>2. list \in Lists /\ NoTwins(list)
      BY <1>1, <2>1
    <3>1. /\ Len(Swap(list, p, q)) = Len(list)
          /\ \A i \in 1..Len(list) :
               Swap(list, p, q)[i] = IF i = q THEN list[p] ELSE IF i = p THEN list[q] ELSE list[i]
      BY <3>2, SwappedIsUnique, Zenon
    <3> QED
      BY <2>3, <3>1, Zenon
  <2>5. \A i \in 1..Len(list') : Contains(list, list'[i])
    BY <2>4 DEF Contains
  <2>6. \A i \in 1..Len(list) : Contains(list', list[i])
    <3> SUFFICES ASSUME NEW i \in 1..Len(list)
                 PROVE  Contains(list', list[i])
      OBVIOUS
    <3>1. CASE i = p
      <4>1. q \in 1..Len(list') /\ list'[q] = list[i]
        BY <2>4, <3>1
      <4> QED
        BY <4>1 DEF Contains
    <3>2. CASE i = q /\ i # p
      <4>1. p \in 1..Len(list') /\ list'[p] = list[i]
        BY <2>4, <3>2
      <4> QED
        BY <4>1 DEF Contains
    <3>3. CASE i # p /\ i # q
      <4>1. i \in 1..Len(list') /\ list'[i] = list[i]
        BY <2>4, <3>3
      <4> QED
        BY <4>1 DEF Contains
    <3> QED
      BY <3>1, <3>2, <3>3
  <2>7. Homely(list', file, looked)
    BY <1>1, <2>1, <2>5, <2>6, HomeSame
  <2> QED
    BY <1>0, <1>1, <2>1, <2>7 DEF FilesInv
<1>11. ASSUME NEW r \in 1..Len(rows), Activate(r)
       PROVE  FilesInv'
  <2> DEFINE k == GetIndex(list, rows[r].name)
  <2>1. /\ status = "on" /\ status' = "on" /\ list' = list
        /\ \/ InRange /\ file' = SavedFile
           \/ ~InRange /\ file' = file
        /\ \/ Opens(r) /\ OpenConfig(list, k, rows, file')
           \/ ~Opens(r) /\ mem' = mem /\ open' = open
    BY <1>11 DEF Activate
  <2>2. file' \in Files /\ Homely(list, file', looked)
    BY <1>1, <2>1
  <2>3. Opens(r) => k \in 1..Len(list)
    BY <1>1, <2>1, IndexFound DEF Opens
  <2> HIDE DEF k
  <2>4. Opens(r) => Mine(mem', open', looked)
    BY <1>1, <2>1, <2>2, <2>3, HomeLoad
  <2> QED
    BY <1>0, <1>1, <2>1, <2>2, <2>4 DEF FilesInv
<1> QED
  BY <1>2, <1>3, <1>4, <1>5, <1>6, <1>7, <1>8, <1>9, <1>10, <1>11 DEF User

\* The system neither fails nor is killed, and names differ in more than case.
Reliable == CaseTells /\ ~IOFails /\ ~Backups /\ ~Kills

\* What goes into the manager file is a list that was there.
LEMMA ManagerWritten ==
  ASSUME Startup \/ User \/ Killed
  PROVE  manager' \in {manager, list, list'}
<1>1. CASE manager' = manager
  BY <1>1
<1>2. CASE manager' # manager
  <2>1. ASSUME NEW id, InitOld(id)
        PROVE  manager' = list'
    <3>1. OldList(id) # <<>>
      BY DEF OldList
    <3> QED
      BY <2>1, <3>1 DEF InitOld, FinishInit
  <2> QED
    BY <1>2, <2>1 DEF Startup, ReadFile, CheckPresent, CheckMissing, CheckMissingAborts, CheckDone,
       InitPlain, InitOldFails, InitOldClash, User, Edit, Look, Detect, DeleteButton, Save, Quit,
       New, Rename, RenameAborts, Delete, DeleteAborts, Activate, Up, Down, DownAborts,
       Killed, Kill, KillInSave, KillInQuit, KillInOpenOld, disk
<1> QED
  BY <1>1, <1>2

LEMMA HomeKept ==
  ASSUME Reliable, Inv, TreeInv, HomeInv, [CarefulNext]_vars
  PROVE  TreeInv' /\ HomeInv'
<1>1. CASE UNCHANGED vars
  <2>1. UNCHANGED <<status, list, current, rows, mem, open, manager, file>>
    BY <1>1 DEF vars, editor, disk
  <2>4. looked' = looked
    BY <1>1 DEF vars, editor
  <2>2. FilesInv' /\ TreeInv'
    BY <2>1, <2>4 DEF HomeInv, FilesInv, TreeInv, Contains, Shows
  <2>3. status' = "on" => Agree' /\ Starry(rows', current')
    BY <2>1 DEF HomeInv, Agree, InRange, Starry
  <2> QED
    BY <2>1, <2>2, <2>3 DEF HomeInv, Fits
<1>2. CASE CarefulNext
  <2>1. Next /\ ~Drifts
    BY <1>2 DEF CarefulNext
  <2>2. AgreeStep
    BY <2>1, Step DEF StepOK
  <2>3. TreeInv' /\ StarStep
    BY <2>1, TreeKept DEF Reliable, TreeStep
  <2>4. ~Backup /\ ~Restores
    BY DEF Reliable, Backup, Restores, Restore
  <2>5. FilesInv'
    BY <2>1, <2>4, HomeAtStart, HomeUser DEF Next, HomeInv, Reliable
  <2>6. status' = "on" => Agree' /\ Starry(rows', current')
    BY <2>1, <2>2, <2>3 DEF AgreeStep, StarStep, HomeInv
  <2>7. Len(list') <= MaxConfigs
    BY <1>2 DEF CarefulNext
  <2>8. manager' \in {manager, list, list'}
    BY <2>1, <2>4, ManagerWritten DEF Next
  <2> QED
    BY <2>3, <2>5, <2>6, <2>7, <2>8 DEF HomeInv, Fits
<1> QED
  BY <1>1, <1>2

LEMMA CarefulInvariant ==
  ASSUME Reliable
  PROVE  CarefulSpec => [](Inv /\ TreeInv /\ HomeInv)
<1>1. Init => Inv /\ TreeInv /\ HomeInv
  <2> SUFFICES ASSUME Init
               PROVE  Inv /\ TreeInv /\ HomeInv
    OBVIOUS
  <2>1. Homely(manager, file, looked)
    BY DEF Init, Homely
  <2>3. Len(<<>>) <= MaxConfigs
    BY ConstantsOK
  <2>2. HomeInv /\ TreeInv
    BY <2>1, <2>3 DEF Init, HomeInv, FilesInv, Fits, TreeInv
  <2> QED
    BY <2>2, Start
<1>2. Inv /\ TreeInv /\ HomeInv /\ [CarefulNext]_vars => (Inv /\ TreeInv /\ HomeInv)'
  <2> SUFFICES ASSUME Inv, TreeInv, HomeInv, [CarefulNext]_vars
               PROVE  (Inv /\ TreeInv /\ HomeInv)'
    OBVIOUS
  <2>1. [Next]_vars
    BY DEF CarefulNext
  <2>2. Inv'
    BY <2>1, Step DEF StepOK
  <2> QED
    BY <2>2, HomeKept
<1> QED
  BY <1>1, <1>2, PTL DEF CarefulSpec

\* In a careful user's hands a configuration's file holds its values and no others,
\* and the editor those of the open one, through every rename, move, save and
\* detection; all of them if he never selects a button, and all but single
\* buttons that a refresh wrote to if he does.
THEOREM ValuesAreHome ==
  ASSUME Reliable
  PROVE  CarefulSpec => []ValuesStayHome
<1>1. ASSUME NEW v, NEW id, Mine(v, id, looked), v # NoFile
      PROVE  IsOf(v, id)
  BY <1>1, OwnedIs DEF Mine, IsOf
<1>2. ASSUME Inv, HomeInv, status = "on"
      PROVE  /\ \A i \in 1..Len(list) :
                  file[list[i].name] # NoFile => IsOf(file[list[i].name], list[i].id)
             /\ open # NoId => IsOf(mem, open)
  <2>1. Homely(list, file, looked) /\ (open # NoId => Mine(mem, open, looked)) /\ mem # NoFile
    BY <1>2 DEF HomeInv, FilesInv, Inv, StartOK
  <2> QED
    BY <1>1, <2>1 DEF Homely
<1>3. Inv /\ TreeInv /\ HomeInv => ValuesStayHome
  BY <1>2 DEF ValuesStayHome
<1> QED
  BY <1>3, CarefulInvariant, PTL

\* No file is left behind that a later configuration of its name would take over.
THEOREM NoFileIsOrphan ==
  ASSUME Reliable
  PROVE  CarefulSpec => []NoOrphanFile
<1>1. Inv /\ TreeInv /\ HomeInv => NoOrphanFile
  BY DEF HomeInv, FilesInv, Homely, NoOrphanFile
<1> QED
  BY <1>1, CarefulInvariant, PTL

\* The star is on the open configuration.
THEOREM StarIsOnOpen ==
  ASSUME Reliable
  PROVE  CarefulSpec => []StarOnOpen
<1>1. ASSUME Inv, TreeInv, HomeInv, status = "on"
      PROVE  {rows[r].name : r \in {k \in 1..Len(rows) : rows[k].star}}
               = {list[i].name : i \in {k \in 1..Len(list) : list[k].id = open}}
  <2>1. /\ Len(rows) = Len(list) /\ \A i \in 1..Len(list) : rows[i].name = list[i].name
        /\ \A i \in 1..Len(rows) : rows[i].star = (i = current)
        /\ Agree /\ NoTwins(list)
    BY <1>1, WhileOn DEF TreeInv, HomeInv, Shows, Starry
  <2>2. \A i \in 1..Len(list) : list[i].id = open <=> i = current
    <3>1. CASE list = <<>>
      BY <3>1
    <3>2. CASE list # <<>>
      BY <2>1, <3>2 DEF Agree, InRange, NoTwins
    <3> QED
      BY <3>1, <3>2
  <2>3. {k \in 1..Len(rows) : rows[k].star} = {k \in 1..Len(list) : list[k].id = open}
    BY <2>1, <2>2
  <2>4. \A k \in {k \in 1..Len(list) : list[k].id = open} : rows[k].name = list[k].name
    BY <2>1
  <2> QED
    BY <2>3, <2>4
<1>2. Inv /\ TreeInv /\ HomeInv => StarOnOpen
  BY <1>1 DEF StarOnOpen
<1> QED
  BY <1>2, CarefulInvariant, PTL
-----------------------------------------------------------------------------
(* What the loop of config_manager_check_files leaves in the list. *)

\* The k-th name of the manager file m is a piece of its own for g_strsplit.
Alone(m, k) == k < MaxConfigs \/ (k = MaxConfigs /\ k = Len(m))

LoadInv ==
  status \in {"checking", "loading"} =>
    /\ InOrder(list, manager)
    /\ \A i \in 1..Len(list) : \E k \in 1..Len(manager) : Alone(manager, k) /\ list[i] = manager[k]
    /\ \A k \in 1..Len(manager) :
         Alone(manager, k) /\ file[manager[k].name] # NoFile => Contains(list, manager[k])
    /\ \A i \in 1..Len(list) : status = "loading" \/ i < x => file[list[i].name] # NoFile

\* The list as it is read is in order.
LEMMA ReadInOrder ==
  ASSUME NEW m \in Lists, NoTwins(m), NEW l, l = ReadNames(m)
  PROVE  /\ InOrder(l, m) /\ Len(l) \in Nat
         /\ \A i \in 1..Len(l) : \E k \in 1..Len(m) : Alone(m, k) /\ l[i] = m[k]
         /\ \A k \in 1..Len(m) : Alone(m, k) => Contains(l, m[k])
         /\ m = <<>> => Len(l) = 0
<1>1. /\ Len(m) \in Nat /\ Len(l) \in Nat /\ Len(l) <= Len(m)
      /\ m = <<>> => l = <<>>
      /\ \A i \in 1..Len(l) : l[i] = m[i]
      /\ \A i \in 1..Len(m) : i \in 1..Len(l) <=> Alone(m, i)
  BY NamesRead, InList DEF Alone
<1>2. \A i \in 1..Len(l) : i \in 1..Len(m)
  BY <1>1
<1>3. InOrder(l, m)
  BY <1>1, <1>2 DEF InOrder
<1>4. \A i \in 1..Len(l) : \E k \in 1..Len(m) : Alone(m, k) /\ l[i] = m[k]
  BY <1>1, <1>2
<1>5. \A k \in 1..Len(m) : Alone(m, k) => Contains(l, m[k])
  BY <1>1, <1>2 DEF Contains
<1> QED
  BY <1>1, <1>3, <1>4, <1>5

\* An entry of it goes.
LEMMA RemovedInOrder ==
  ASSUME NEW l \in Lists, NEW s, InOrder(l, s), NEW k \in 1..Len(l), NEW m, Len(m) = Len(l) - 1,
         \A i \in 1..Len(l) - 1 : m[i] = IF i < k THEN l[i] ELSE l[i + 1]
  PROVE  InOrder(m, s)
<1> DEFINE from(i) == IF i < k THEN i ELSE i + 1
<1>1. Len(l) \in Nat
  BY InList
<1>2. \A i \in 1..Len(m) : from(i) \in 1..Len(l) /\ m[i] = l[from(i)]
  BY <1>1
<1>3. \A a, b \in 1..Len(m) : a < b => from(a) < from(b)
  BY <1>1
<1> HIDE DEF from
<1>4. ASSUME NEW a \in 1..Len(m), NEW b \in 1..Len(m), a < b
      PROVE  \E i, j \in 1..Len(s) : i < j /\ m[a] = s[i] /\ m[b] = s[j]
  <2>1. from(a) \in 1..Len(l) /\ from(b) \in 1..Len(l) /\ from(a) < from(b)
    BY <1>2, <1>3, <1>4
  <2>2. \E i, j \in 1..Len(s) : i < j /\ l[from(a)] = s[i] /\ l[from(b)] = s[j]
    BY <2>1 DEF InOrder
  <2> QED
    BY <1>2, <2>2
<1> QED
  BY <1>4 DEF InOrder

LEMMA LoadAtStart ==
  ASSUME Inv, LoadInv, ReadFile \/ CheckPresent \/ CheckMissing \/ CheckMissingAborts \/ CheckDone
  PROVE  LoadInv'
<1>1. /\ list \in Lists /\ NoTwins(list) /\ manager \in Lists /\ NoTwins(manager)
      /\ Len(list) \in Nat /\ Len(manager) \in Nat
      /\ x \in Nat \ {0} /\ (manager = <<>> <=> Len(manager) = 0)
  BY InList DEF Inv, TypesOK, Unique, NamesUnique
<1>2. CASE ReadFile
  <2>1. /\ list' = ReadNames(manager) /\ manager' = manager /\ file' = file /\ x' = 1
        /\ status' = IF manager = <<>> THEN "loading" ELSE "checking"
    BY <1>2 DEF ReadFile, disk
  <2>2. /\ InOrder(list', manager) /\ Len(list') \in Nat
        /\ \A i \in 1..Len(list') : \E k \in 1..Len(manager) : Alone(manager, k) /\ list'[i] = manager[k]
        /\ \A k \in 1..Len(manager) : Alone(manager, k) => Contains(list', manager[k])
        /\ manager = <<>> => Len(list') = 0
    BY <1>1, <2>1, ReadInOrder
  <2>3. \A i \in 1..Len(list') : ~(status' = "loading" \/ i < 1)
    BY <1>1, <2>1, <2>2
  <2> QED
    BY <2>1, <2>2, <2>3 DEF LoadInv
<1>3. CASE CheckPresent
  <2>1. /\ list' = list /\ manager' = manager /\ file' = file /\ status = "checking"
        /\ status' = "checking" /\ x' = x + 1 /\ file[list[x].name] # NoFile
    BY <1>3 DEF CheckPresent, disk
  <2>2. \A i \in 1..Len(list) : i < x + 1 => i < x \/ i = x
    BY <1>1
  <2>3. \A i \in 1..Len(list) : i < x + 1 => file[list[i].name] # NoFile
    BY <2>1, <2>2 DEF LoadInv
  <2> QED
    BY <2>1, <2>3 DEF LoadInv
<1>4. CASE CheckMissing
  <2>1. /\ x \in 1..Len(list) /\ file[list[x].name] = NoFile /\ list' = RemoveAt(list, x)
        /\ manager' = manager /\ file' = file /\ status = "checking" /\ status' = "checking" /\ x' = x
    BY <1>1, <1>4 DEF CheckMissing, disk
  <2>2. /\ Len(list') = Len(list) - 1
        /\ \A i \in 1..Len(list) - 1 : list'[i] = IF i < x THEN list[i] ELSE list[i + 1]
    BY <1>1, <2>1, RemovedIsUnique
  <2>3. InOrder(list', manager)
    BY <1>1, <2>1, <2>2, RemovedInOrder DEF LoadInv
  <2>4. \A i \in 1..Len(list') : \E k \in 1..Len(manager) : Alone(manager, k) /\ list'[i] = manager[k]
    <3> TAKE i \in 1..Len(list')
    <3>1. \E j \in 1..Len(list) : list'[i] = list[j]
      BY <1>1, <2>1, <2>2
    <3> QED
      BY <2>1, <3>1 DEF LoadInv
  <2>5. ASSUME NEW i \in 1..Len(manager), Alone(manager, i), file[manager[i].name] # NoFile
        PROVE  Contains(list', manager[i])
    <3>1. PICK j \in 1..Len(list) : list[j] = manager[i]
      BY <2>1, <2>5 DEF LoadInv, Contains
    <3>2. j # x
      BY <2>1, <2>5, <3>1
    <3> DEFINE h == IF j < x THEN j ELSE j - 1
    <3>3. h \in 1..Len(list') /\ list'[h] = list[j]
      BY <1>1, <2>1, <2>2, <3>2
    <3> QED
      BY <3>1, <3>3 DEF Contains
  <2>6. \A i \in 1..Len(list') : i < x => file[list'[i].name] # NoFile
    <3> TAKE i \in 1..Len(list')
    <3> HAVE i < x
    <3>1. i \in 1..Len(list) /\ list'[i] = list[i]
      BY <1>1, <2>1, <2>2
    <3> QED
      BY <2>1, <3>1 DEF LoadInv
  <2> QED
    BY <2>1, <2>3, <2>4, <2>5, <2>6 DEF LoadInv
<1>5. CASE CheckMissingAborts
  BY <1>5 DEF CheckMissingAborts, Forget, LoadInv
<1>6. CASE CheckDone
  <2>1. /\ list' = list /\ manager' = manager /\ file' = file /\ status = "checking"
        /\ status' = "loading" /\ x > Len(list)
    BY <1>6 DEF CheckDone, disk
  <2>2. \A i \in 1..Len(list) : i < x
    BY <1>1, <2>1
  <2> QED
    BY <2>1, <2>2 DEF LoadInv
<1> QED
  BY <1>2, <1>3, <1>4, <1>5, <1>6

\* A restore starts again; everything else leaves start-up behind or happens after it.
LEMMA LoadStep ==
  ASSUME Inv, LoadInv, [Next]_vars
  PROVE  LoadInv'
<1>1. CASE ReadFile \/ CheckPresent \/ CheckMissing \/ CheckMissingAborts \/ CheckDone
  BY <1>1, LoadAtStart
<1>2. ASSUME status' \notin {"checking", "loading"}
      PROVE  LoadInv'
  BY <1>2 DEF LoadInv
<1>3. CASE InitPlain \/ InitOldFails \/ \E id \in Ids \ UsedIds : InitOld(id) \/ InitOldClash(id)
  <2>1. status' = "on"
    BY <1>3 DEF InitPlain, InitOldFails, InitOld, InitOldClash, FinishInit
  <2> QED
    BY <1>2, <2>1
<1>4. CASE User \/ Killed \/ Backup
  <2>1. status' \in {"on", "off", "aborted"}
    BY <1>4 DEF User, Killed, Backup, Edit, DeleteButton, Save, Quit, New, Rename, RenameAborts,
       Delete, DeleteAborts, Activate, Up, Down, DownAborts, Chosen, NullName, Kill, KillInSave,
       KillInQuit, KillInOpenOld, Look, Detect, Forget
  <2> QED
    BY <1>2, <2>1
<1>5. ASSUME NEW ms, NEW withList, Restore(ms, withList)
      PROVE  LoadInv'
  <2>1. /\ list' = ReadNames(manager') /\ x' = 1
        /\ status' = IF manager' = <<>> THEN "loading" ELSE "checking"
    BY <1>5 DEF Restore
  <2>2. manager' \in Lists /\ NoTwins(manager')
    BY Step DEF StepOK, Inv, TypesOK, Unique, NamesUnique, NoTwins
  <2>3. /\ InOrder(list', manager') /\ Len(list') \in Nat
        /\ \A i \in 1..Len(list') : \E k \in 1..Len(manager') : Alone(manager', k) /\ list'[i] = manager'[k]
        /\ \A k \in 1..Len(manager') : Alone(manager', k) => Contains(list', manager'[k])
        /\ manager' = <<>> => Len(list') = 0
    BY <2>1, <2>2, ReadInOrder
  <2>4. \A i \in 1..Len(list') : ~(status' = "loading" \/ i < 1)
    BY <2>1, <2>3
  <2> QED
    BY <2>1, <2>3, <2>4 DEF LoadInv
<1>6. CASE UNCHANGED vars
  BY <1>6 DEF vars, editor, disk, LoadInv
<1> QED
  BY <1>1, <1>3, <1>4, <1>5, <1>6 DEF Next, Startup, Restores

\* What the invariant says when the loop is through.
LEMMA Loaded ==
  ASSUME Inv, LoadInv, status = "loading"
  PROVE  /\ ToSet(list) = {manager[k] : k \in {k \in 1..Len(manager) :
                                                 ReadAlone(k) /\ file[manager[k].name] # NoFile}}
         /\ InOrder(list, manager)
<1>1. list \in Lists /\ manager \in Lists
  BY DEF Inv, TypesOK
<1>2. ToSet(list) = {list[i] : i \in 1..Len(list)}
  BY <1>1, LenProperties DEF ToSet, Lists
<1>3. \A k \in 1..Len(manager) : ReadAlone(k) <=> Alone(manager, k)
  BY DEF ReadAlone, Alone
<1>4. \A i \in 1..Len(list) : /\ \E k \in 1..Len(manager) : ReadAlone(k) /\ list[i] = manager[k]
                              /\ file[list[i].name] # NoFile
  BY <1>3 DEF LoadInv
<1>5. \A k \in 1..Len(manager) :
        ReadAlone(k) /\ file[manager[k].name] # NoFile => \E i \in 1..Len(list) : list[i] = manager[k]
  BY <1>3 DEF LoadInv, Contains
<1> DEFINE here == {k \in 1..Len(manager) : ReadAlone(k) /\ file[manager[k].name] # NoFile}
<1>6. ASSUME NEW i \in 1..Len(list)
      PROVE  \E k \in here : list[i] = manager[k]
  BY <1>4
<1>7. ASSUME NEW k \in here
      PROVE  \E i \in 1..Len(list) : list[i] = manager[k]
  BY <1>5
<1> HIDE DEF here
<1>8. {list[i] : i \in 1..Len(list)} = {manager[k] : k \in here}
  BY <1>6, <1>7
<1>9. InOrder(list, manager)
  BY DEF LoadInv
<1> QED
  BY <1>2, <1>8, <1>9 DEF here

\* Whatever is missing on disk, however long the manager file is, and wherever
\* start-up was killed before: the list becomes the entries of the manager file
\* that g_strsplit leaves whole and that have a file, in their order
\* (config_manager_read_file, config_manager_check_files).
THEOREM LoadsTheDisk == Spec => []LoadsWhatIsOnDisk
<1>1. Init => LoadInv
  BY DEF Init, LoadInv
<1>2. Inv /\ LoadInv /\ [Next]_vars => LoadInv'
  BY LoadStep
<1>3. Inv /\ LoadInv => LoadsWhatIsOnDisk
  BY Loaded DEF LoadsWhatIsOnDisk
<1> QED
  BY <1>1, <1>2, <1>3, Invariant, PTL DEF Spec
-----------------------------------------------------------------------------
(* What a list says to ConfigBook. *)

LEMMA IdsAre ==
  ASSUME NEW l \in Lists
  PROVE  /\ IdsOf(l) \in Seq(Ids) /\ Len(IdsOf(l)) = Len(l)
         /\ \A i \in 1..Len(l) : IdsOf(l)[i] = l[i].id
         /\ ToSet(IdsOf(l)) = {l[i].id : i \in 1..Len(l)}
<1>1. Len(l) \in Nat /\ \A i \in 1..Len(l) : l[i].id \in Ids
  BY InList
<1>2. IdsOf(l) \in [1..Len(l) -> Ids]
  BY <1>1 DEF IdsOf
<1>3. IdsOf(l) \in Seq(Ids) /\ Len(IdsOf(l)) = Len(l)
  BY <1>1, <1>2
<1>4. DOMAIN IdsOf(l) = 1..Len(l) /\ \A i \in 1..Len(l) : IdsOf(l)[i] = l[i].id
  BY DEF IdsOf
<1>5. ToSet(IdsOf(l)) = {l[i].id : i \in 1..Len(l)}
  BY <1>4 DEF ToSet
<1> QED
  BY <1>3, <1>4, <1>5

\* Two lists of the same identities look the same.
LEMMA SameIds ==
  ASSUME NEW l \in Lists, NEW m \in Lists, Len(m) = Len(l),
         \A i \in 1..Len(l) : m[i].id = l[i].id
  PROVE  IdsOf(m) = IdsOf(l)
BY IdsAre DEF IdsOf

\* One is added.
LEMMA IdsAdd ==
  ASSUME NEW l \in Lists, NEW m \in Lists, NEW id \in Ids, Len(m) = Len(l) + 1,
         m[Len(l) + 1].id = id, \A i \in 1..Len(l) : m[i] = l[i]
  PROVE  IdsOf(m) = Append(IdsOf(l), id)
<1> DEFINE s == Append(IdsOf(l), id)
<1>1. IdsOf(l) \in Seq(Ids) /\ Len(IdsOf(l)) = Len(l) /\ \A i \in 1..Len(l) : IdsOf(l)[i] = l[i].id
  BY IdsAre
<1>2. /\ s \in Seq(Ids) /\ Len(s) = Len(l) + 1 /\ s[Len(l) + 1] = id
      /\ \A i \in 1..Len(l) : s[i] = IdsOf(l)[i]
  BY <1>1, AppendProperties
<1>3. /\ IdsOf(m) \in Seq(Ids) /\ Len(IdsOf(m)) = Len(l) + 1
      /\ \A i \in 1..Len(l) + 1 : IdsOf(m)[i] = m[i].id
  BY IdsAre
<1> HIDE DEF s
<1>4. ASSUME NEW i \in 1..Len(l) + 1
      PROVE  IdsOf(m)[i] = s[i]
  <2>1. i \in 1..Len(l) \/ i = Len(l) + 1
    BY InList
  <2> QED
    BY <1>1, <1>2, <1>3, <2>1
<1>5. IdsOf(m) = s
  BY <1>2, <1>3, <1>4, SeqEqual, Zenon
<1> QED
  BY <1>5 DEF s

\* One that has no file changes nothing of what is kept.
LEMMA KeptBare ==
  ASSUME NEW l \in Lists, NEW m, NEW f, Len(m) = Len(l) + 1, f[m[Len(l) + 1].name] = NoFile,
         \A i \in 1..Len(l) : m[i] = l[i]
  PROVE  KeptOf(m, f) = KeptOf(l, f)
<1>1. Len(l) \in Nat
  BY InList
<1>2. \A i \in 1..Len(m) : i \in 1..Len(l) \/ i = Len(l) + 1
  BY <1>1
<1>3. \A i \in 1..Len(l) : i \in 1..Len(m)
  BY <1>1
<1> QED
  BY <1>2, <1>3 DEF KeptOf

\* One that comes with a file is.
LEMMA KeptAdd ==
  ASSUME NEW l \in Lists, NEW m \in Lists, NEW f \in Files, NEW n \in Names, NEW id \in Ids,
         ~HasName(l, n), f[n] = NoFile, Len(m) = Len(l) + 1,
         m[Len(l) + 1] = [name |-> n, id |-> id], \A i \in 1..Len(l) : m[i] = l[i]
  PROVE  KeptOf(m, [f EXCEPT ![n] = Pure(id)]) = KeptOf(l, f) \cup {id}
<1> DEFINE g == [f EXCEPT ![n] = Pure(id)]
<1>1. Len(l) \in Nat /\ m[Len(l) + 1].name = n /\ m[Len(l) + 1].id = id /\ Pure(id) # NoFile
  BY InList, PureIs, OwnedIs
<1>2. \A i \in 1..Len(m) : i \in 1..Len(l) \/ i = Len(l) + 1
  BY <1>1
<1>3. \A i \in 1..Len(l) : i \in 1..Len(m) /\ m[i] = l[i] /\ l[i].name # n
  BY <1>1 DEF HasName
<1>4. Len(l) + 1 \in 1..Len(m)
  BY <1>1
<1>5. g[n] = Pure(id) /\ \A i \in 1..Len(l) : g[l[i].name] = f[l[i].name]
  BY <1>3 DEF Files
<1> HIDE DEF g
<1>6. KeptOf(m, g) = KeptOf(l, f) \cup {id}
  <2>1. ASSUME NEW i \in 1..Len(m), g[m[i].name] # NoFile
        PROVE  m[i].id \in KeptOf(l, f) \cup {id}
    BY <1>1, <1>2, <1>3, <1>5, <2>1 DEF KeptOf
  <2>2. ASSUME NEW i \in 1..Len(l), f[l[i].name] # NoFile
        PROVE  l[i].id \in KeptOf(m, g)
    <3>1. i \in 1..Len(m) /\ m[i] = l[i] /\ g[m[i].name] # NoFile
      BY <1>3, <1>5, <2>2
    <3> QED
      BY <3>1 DEF KeptOf
  <2>3. id \in KeptOf(m, g)
    BY <1>1, <1>4, <1>5 DEF KeptOf
  <2>4. KeptOf(m, g) \subseteq KeptOf(l, f) \cup {id}
    BY <2>1 DEF KeptOf
  <2>5. KeptOf(l, f) \subseteq KeptOf(m, g)
    BY <2>2 DEF KeptOf
  <2> QED
    BY <2>3, <2>4, <2>5
<1> QED
  BY <1>6 DEF g

\* One is written.
LEMMA KeptWrite ==
  ASSUME NEW l \in Lists, NoTwins(l), NEW f \in Files, NEW k \in 1..Len(l), NEW g,
         g[l[k].name] # NoFile, \A n \in Names \ {l[k].name} : g[n] = f[n]
  PROVE  KeptOf(l, g) = KeptOf(l, f) \cup {l[k].id}
<1>1. ASSUME NEW i \in 1..Len(l), i # k
      PROVE  g[l[i].name] = f[l[i].name]
  BY <1>1, InList DEF NoTwins
<1>2. KeptOf(l, g) \subseteq KeptOf(l, f) \cup {l[k].id}
  BY <1>1 DEF KeptOf
<1>3. KeptOf(l, f) \subseteq KeptOf(l, g)
  <2> SUFFICES ASSUME NEW i \in 1..Len(l), f[l[i].name] # NoFile
               PROVE  g[l[i].name] # NoFile
    BY DEF KeptOf
  <2> QED
    BY <1>1
<1>4. l[k].id \in KeptOf(l, g)
  BY DEF KeptOf
<1> QED
  BY <1>2, <1>3, <1>4

\* One goes, with its file.
LEMMA IdsRemove ==
  ASSUME NEW l \in Lists, NoTwins(l), NEW f \in Files, NEW k \in 1..Len(l)
  PROVE  /\ IdsOf(RemoveAt(l, k)) = RemoveAt(IdsOf(l), k)
         /\ KeptOf(RemoveAt(l, k), DeleteFile(f, l[k].name)) = KeptOf(l, f) \ {l[k].id}
<1> DEFINE m == RemoveAt(l, k)
           g == DeleteFile(f, l[k].name)
           s == RemoveAt(IdsOf(l), k)
<1>1. /\ m \in Lists /\ Len(m) = Len(l) - 1 /\ Len(l) \in Nat
      /\ \A i \in 1..Len(l) - 1 : m[i] = IF i < k THEN l[i] ELSE l[i + 1]
  BY RemovedIsUnique, InList
<1>2. IdsOf(l) \in Seq(Ids) /\ Len(IdsOf(l)) = Len(l) /\ \A i \in 1..Len(l) : IdsOf(l)[i] = l[i].id
  BY IdsAre
<1>3. /\ s \in Seq(Ids) /\ Len(s) = Len(l) - 1
      /\ \A i \in 1..Len(l) - 1 : s[i] = IF i < k THEN IdsOf(l)[i] ELSE IdsOf(l)[i + 1]
  <2>1. k \in 0..Len(IdsOf(l)) + 1 /\ k \in 1..Len(IdsOf(l))
    BY <1>1, <1>2
  <2>2. /\ s \in Seq(Ids) /\ Len(s) = Len(IdsOf(l)) - 1
        /\ \A i \in 1..Len(IdsOf(l)) - 1 : s[i] = IF i < k THEN IdsOf(l)[i] ELSE IdsOf(l)[i + 1]
    BY <1>2, <2>1, RemovedIsSeq
  <2> QED
    BY <1>2, <2>2
<1>4. l[k].name \in Names /\ \A i \in 1..Len(l) : l[i].name \in Names
  BY InList
<1>5. g[l[k].name] = NoFile /\ \A n \in Names \ {l[k].name} : g[n] = f[n]
  BY <1>4 DEF DeleteFile, Files
<1> HIDE DEF m, g, s
<1>6. IdsOf(m) = s
  <2>1. /\ IdsOf(m) \in Seq(Ids) /\ Len(IdsOf(m)) = Len(l) - 1
        /\ \A i \in 1..Len(l) - 1 : IdsOf(m)[i] = m[i].id
    BY <1>1, IdsAre
  <2>2. ASSUME NEW i \in 1..Len(l) - 1
        PROVE  IdsOf(m)[i] = s[i]
    <3>1. IdsOf(m)[i] = m[i].id
      BY <2>1
    <3>2. CASE i < k
      <4>1. m[i] = l[i] /\ s[i] = IdsOf(l)[i] /\ i \in 1..Len(l)
        BY <1>1, <1>3, <3>2
      <4> QED
        BY <1>2, <3>1, <4>1
    <3>3. CASE ~(i < k)
      <4>1. m[i] = l[i + 1] /\ s[i] = IdsOf(l)[i + 1] /\ i + 1 \in 1..Len(l)
        BY <1>1, <1>3, <3>3
      <4> QED
        BY <1>2, <3>1, <4>1
    <3> QED
      BY <3>2, <3>3
  <2> QED
    BY <1>3, <2>1, <2>2, SeqEqual, Zenon
<1> DEFINE from(i) == IF i < k THEN i ELSE i + 1
           to(j)   == IF j < k THEN j ELSE j - 1
<1>7. \A i \in 1..Len(m) : from(i) \in 1..Len(l) /\ from(i) # k /\ m[i] = l[from(i)]
  BY <1>1
<1>8. \A j \in 1..Len(l) : j # k => to(j) \in 1..Len(m) /\ m[to(j)] = l[j]
  BY <1>1
<1> HIDE DEF from, to
<1>9. \A j \in 1..Len(l) : j # k => l[j].id # l[k].id /\ g[l[j].name] = f[l[j].name]
  BY <1>4, <1>5 DEF NoTwins
<1>10. ASSUME NEW i \in 1..Len(m), g[m[i].name] # NoFile
       PROVE  m[i].id \in KeptOf(l, f) \ {l[k].id}
  <2>1. from(i) \in 1..Len(l) /\ from(i) # k /\ m[i] = l[from(i)]
    BY <1>7
  <2>2. l[from(i)].id # l[k].id /\ f[l[from(i)].name] # NoFile
    BY <1>9, <1>10, <2>1
  <2> QED
    BY <2>1, <2>2 DEF KeptOf
<1>11. ASSUME NEW j \in 1..Len(l), f[l[j].name] # NoFile, l[j].id # l[k].id
       PROVE  l[j].id \in KeptOf(m, g)
  <2>1. j # k
    BY <1>11
  <2>2. to(j) \in 1..Len(m) /\ m[to(j)] = l[j] /\ g[l[j].name] # NoFile
    BY <1>8, <1>9, <1>11, <2>1
  <2> QED
    BY <2>2 DEF KeptOf
<1>12. KeptOf(m, g) = KeptOf(l, f) \ {l[k].id}
  <2>1. KeptOf(m, g) \subseteq KeptOf(l, f) \ {l[k].id}
    BY <1>10 DEF KeptOf
  <2>2. KeptOf(l, f) \ {l[k].id} \subseteq KeptOf(m, g)
    <3> SUFFICES ASSUME NEW id \in KeptOf(l, f), id # l[k].id
                 PROVE  id \in KeptOf(m, g)
      OBVIOUS
    <3>1. PICK j \in 1..Len(l) : f[l[j].name] # NoFile /\ l[j].id = id
      BY DEF KeptOf
    <3> QED
      BY <1>11, <3>1
  <2> QED
    BY <2>1, <2>2
<1> QED
  BY <1>6, <1>12 DEF m, g, s

\* Two neighbours trade places.
LEMMA IdsSwap ==
  ASSUME NEW l \in Lists, NoTwins(l), NEW f, NEW p \in 1..Len(l) - 1
  PROVE  /\ IdsOf(Swap(l, p, p + 1)) = [IdsOf(l) EXCEPT ![p] = IdsOf(l)[p + 1], ![p + 1] = IdsOf(l)[p]]
         /\ KeptOf(Swap(l, p, p + 1), f) = KeptOf(l, f)
<1> DEFINE m == Swap(l, p, p + 1)
           s == IdsOf(l)
<1>1. Len(l) \in Nat /\ p \in 1..Len(l) /\ p + 1 \in 1..Len(l)
  BY InList
<1>2. /\ m \in Lists /\ Len(m) = Len(l)
      /\ \A i \in 1..Len(l) : m[i] = IF i = p + 1 THEN l[p] ELSE IF i = p THEN l[p + 1] ELSE l[i]
  BY <1>1, SwappedIsUnique
<1> HIDE DEF m
<1>3. IdsOf(m) = [s EXCEPT ![p] = s[p + 1], ![p + 1] = s[p]]
  <2>1. IdsOf(m) = [i \in 1..Len(l) |-> m[i].id] /\ s = [i \in 1..Len(l) |-> l[i].id]
    BY <1>2 DEF IdsOf
  <2>2. p # p + 1
    BY <1>1
  <2>3. \A i \in 1..Len(l) : m[i].id = IF i = p + 1 THEN s[p] ELSE IF i = p THEN s[p + 1] ELSE s[i]
    BY <1>1, <1>2, <2>1
  <2> HIDE DEF s
  <2> QED
    BY <2>1, <2>2, <2>3
<1>4. \A i \in 1..Len(m) : \E j \in 1..Len(l) : m[i] = l[j]
  BY <1>1, <1>2
<1>5. \A j \in 1..Len(l) : \E i \in 1..Len(m) : m[i] = l[j]
  <2> TAKE j \in 1..Len(l)
  <2>1. CASE j = p
    BY <1>1, <1>2, <2>1
  <2>2. CASE j = p + 1
    <3>1. p \in 1..Len(m) /\ m[p] = l[p + 1]
      BY <1>1, <1>2
    <3> QED
      BY <2>2, <3>1
  <2>3. CASE j # p /\ j # p + 1
    BY <1>2, <2>3
  <2> QED
    BY <2>1, <2>2, <2>3
<1>6. KeptOf(m, f) = KeptOf(l, f)
  <2>1. ASSUME NEW i \in 1..Len(m), f[m[i].name] # NoFile
        PROVE  m[i].id \in KeptOf(l, f)
    <3>1. PICK j \in 1..Len(l) : m[i] = l[j]
      BY <1>4
    <3> QED
      BY <2>1, <3>1 DEF KeptOf
  <2>2. \A j \in 1..Len(l) : f[l[j].name] # NoFile => l[j].id \in KeptOf(m, f)
    BY <1>5 DEF KeptOf
  <2>3. KeptOf(m, f) \subseteq KeptOf(l, f)
    BY <2>1 DEF KeptOf
  <2>4. KeptOf(l, f) \subseteq KeptOf(m, f)
    BY <2>2 DEF KeptOf
  <2> QED
    BY <2>3, <2>4
<1> QED
  BY <1>3, <1>6 DEF m

\* One gets another name, and its file too.
LEMMA KeptRename ==
  ASSUME NEW l \in Lists, NoTwins(l), NEW f \in Files, Homely(l, f, looked), NEW k \in 1..Len(l),
         NEW n \in Names, \A i \in 1..Len(l) : i # k => l[i].name # n,
         NEW m, Len(m) = Len(l),
         \A i \in 1..Len(l) : m[i] = IF i = k THEN [name |-> n, id |-> l[k].id] ELSE l[i],
         NEW g, \/ n # l[k].name /\ f[l[k].name] # NoFile
                   /\ g = [f EXCEPT ![n] = f[l[k].name], ![l[k].name] = NoFile]
                \/ (n = l[k].name \/ f[l[k].name] = NoFile) /\ g = f
  PROVE  KeptOf(m, g) = KeptOf(l, f)
<1>1. l[k].name \in Names /\ \A i \in 1..Len(l) : l[i].name \in Names
  BY InList
<1>2. \A i \in 1..Len(l) : i # k => l[i].name # l[k].name
  BY DEF NoTwins
<1>3. \A i \in 1..Len(l) : i # k => g[l[i].name] = f[l[i].name]
  BY <1>1, <1>2 DEF Files
<1>4. g[n] # NoFile <=> f[l[k].name] # NoFile
  <2>1. CASE n # l[k].name /\ f[l[k].name] # NoFile /\ g = [f EXCEPT ![n] = f[l[k].name], ![l[k].name] = NoFile]
    BY <1>1, <2>1 DEF Files
  <2>2. CASE n = l[k].name /\ g = f
    BY <2>2
  <2>3. CASE n # l[k].name /\ f[l[k].name] = NoFile /\ g = f
    <3>1. ~HasName(l, n)
      BY <2>3 DEF HasName
    <3> QED
      BY <2>3, <3>1 DEF Homely
  <2> QED
    BY <2>1, <2>2, <2>3
<1>5. m[k].name = n /\ m[k].id = l[k].id
  OBVIOUS
<1>6. \A i \in 1..Len(l) : m[i].id = l[i].id /\ (g[m[i].name] # NoFile <=> f[l[i].name] # NoFile)
  BY <1>3, <1>4, <1>5
<1> QED
  BY <1>6 DEF KeptOf

\* What config_manager_check_files leaves is what the manager file has kept.
LEMMA KeptLoaded ==
  ASSUME Inv, LoadInv, Fits, status = "loading"
  PROVE  /\ KeptOf(list, file) = KeptOf(manager, file)
         /\ ToSet(IdsOf(list)) = KeptOf(manager, file)
         /\ Book!InOrder(IdsOf(list), IdsOf(manager))
<1>1. list \in Lists /\ manager \in Lists
  BY DEF Inv, TypesOK
<1>2. \A k \in 1..Len(manager) : Alone(manager, k)
  BY <1>1, InList, ConstantsOK DEF Fits, Alone
<1>9. InOrder(list, manager) /\ \A i \in 1..Len(list) : file[list[i].name] # NoFile
  BY DEF LoadInv
<1>3. \A i \in 1..Len(list) : \E j \in 1..Len(manager) : manager[j] = list[i]
  BY DEF LoadInv
<1>4. \A j \in 1..Len(manager) :
        file[manager[j].name] # NoFile => \E i \in 1..Len(list) : list[i] = manager[j]
  BY <1>2 DEF LoadInv, Contains
<1>5. ToSet(IdsOf(list)) = {list[i].id : i \in 1..Len(list)}
  BY <1>1, IdsAre
<1>6. KeptOf(list, file) = {list[i].id : i \in 1..Len(list)}
  BY <1>9 DEF KeptOf
<1>7. KeptOf(list, file) = KeptOf(manager, file)
  <2>1. ASSUME NEW id \in KeptOf(list, file)
        PROVE  id \in KeptOf(manager, file)
    <3>1. PICK i \in 1..Len(list) : file[list[i].name] # NoFile /\ list[i].id = id
      BY <2>1 DEF KeptOf
    <3> QED
      BY <1>3, <3>1 DEF KeptOf
  <2>2. ASSUME NEW id \in KeptOf(manager, file)
        PROVE  id \in KeptOf(list, file)
    <3>1. PICK i \in 1..Len(manager) : file[manager[i].name] # NoFile /\ manager[i].id = id
      BY <2>2 DEF KeptOf
    <3> QED
      BY <1>4, <3>1 DEF KeptOf
  <2> QED
    BY <2>1, <2>2
<1>8. Book!InOrder(IdsOf(list), IdsOf(manager))
  <2>1. /\ Len(IdsOf(list)) = Len(list) /\ Len(IdsOf(manager)) = Len(manager)
        /\ \A i \in 1..Len(list) : IdsOf(list)[i] = list[i].id
        /\ \A i \in 1..Len(manager) : IdsOf(manager)[i] = manager[i].id
    BY <1>1, IdsAre
  <2>2. ASSUME NEW a \in 1..Len(list), NEW b \in 1..Len(list), a < b
        PROVE  \E i, j \in 1..Len(manager) :
                 i < j /\ IdsOf(list)[a] = IdsOf(manager)[i] /\ IdsOf(list)[b] = IdsOf(manager)[j]
    <3>1. PICK i \in 1..Len(manager), j \in 1..Len(manager) :
            i < j /\ list[a] = manager[i] /\ list[b] = manager[j]
      BY <1>9, <2>2 DEF InOrder
    <3> QED
      BY <2>1, <3>1
  <2> QED
    BY <2>1, <2>2 DEF Book!InOrder
<1> QED
  BY <1>5, <1>6, <1>7, <1>8
-----------------------------------------------------------------------------
(* A careful user's program implements ConfigBook. *)

\* What ConfigBook sees while the program runs, and what it sees of the disk
\* while it does not.
LEMMA SeenOn ==
  ASSUME Inv, HomeInv
  PROVE  /\ status = "on" => Shelf = IdsOf(list) /\ Kept = KeptOf(list, file) /\ Edited = open
         /\ status # "on" => Shelf = IdsOf(manager) /\ Kept = KeptOf(manager, file) /\ Edited = NoId
<1>1. CASE status = "on"
  <2>1. Agree
    BY <1>1 DEF HomeInv
  <2>2. (current \in 1..Len(list) /\ list[current].id = open) \/ (list = <<>> /\ current = 0 /\ open = NoId)
    BY <1>1, <2>1, WhileOn
  <2>3. Edited = open
    <3>1. CASE current \in 1..Len(list) /\ list[current].id = open
      BY <1>1, <3>1 DEF Edited, InRange
    <3>2. CASE list = <<>> /\ current = 0 /\ open = NoId
      <4>1. Len(list) = 0
        BY <3>2
      <4>2. ~InRange
        BY <3>2, <4>1 DEF InRange
      <4> QED
        BY <3>2, <4>2 DEF Edited
    <3> QED
      BY <2>2, <3>1, <3>2
  <2> QED
    BY <1>1, <2>3 DEF Shelf, Kept, Shown
<1>2. CASE status # "on"
  BY <1>2 DEF Shelf, Kept, Edited, Shown
<1> QED
  BY <1>1, <1>2

LEMMA SeenNext ==
  ASSUME Inv', HomeInv'
  PROVE  /\ status' = "on" => Shelf' = IdsOf(list') /\ Kept' = KeptOf(list', file') /\ Edited' = open'
         /\ status' # "on" => Shelf' = IdsOf(manager') /\ Kept' = KeptOf(manager', file') /\ Edited' = NoId
<1>1. CASE status' = "on"
  <2>1. Agree'
    BY <1>1 DEF HomeInv
  <2>2. current' \in Nat
    BY DEF Inv, TypesOK
  <2>3. (current' \in 1..Len(list') /\ list'[current'].id = open') \/ (list' = <<>> /\ current' = 0 /\ open' = NoId)
    BY <2>1 DEF Agree, InRange
  <2>4. Edited' = open'
    <3>1. CASE current' \in 1..Len(list') /\ list'[current'].id = open'
      BY <1>1, <3>1 DEF Edited, InRange
    <3>2. CASE list' = <<>> /\ current' = 0 /\ open' = NoId
      <4>1. Len(list') = 0
        BY <3>2
      <4>2. ~(current' \in 1..Len(list'))
        BY <3>2, <4>1
      <4> QED
        BY <3>2, <4>2 DEF Edited, InRange
    <3> QED
      BY <2>3, <3>1, <3>2
  <2> QED
    BY <1>1, <2>4 DEF Shelf, Kept, Shown
<1>2. CASE status' # "on"
  BY <1>2 DEF Shelf, Kept, Edited, Shown
<1> QED
  BY <1>1, <1>2

\* The operators of the community modules, as ConfigBook has them.
LEMMA BookOps ==
  ASSUME NEW s, NEW k
  PROVE  /\ Book!ToSet(s) = ToSet(s) /\ Book!Front(s) = Front(s) /\ Book!Last(s) = Last(s)
         /\ Book!RemoveAt(s, k) = RemoveAt(s, k)
BY DEF Book!ToSet, ToSet, Book!Front, Front, Book!Last, Last, Book!RemoveAt, RemoveAt

BookSame == UNCHANGED <<Shelf, Edited, Kept>> /\ ((status' = "on") <=> (status = "on"))
BookStep == Book!BNext \/ BookSame

\* A new identity is none of the list's, nor of the manager file's.
LEMMA FreshIs ==
  ASSUME Inv, HomeInv, NEW id \in Ids, id \notin UsedIds
  PROVE  id \in Book!Fresh
<1>1. list \in Lists /\ manager \in Lists
  BY DEF Inv, TypesOK
<1>2. \A l \in {list, manager} : id \notin ToSet(IdsOf(l)) /\ id \notin KeptOf(l, file)
  <2>1. \A i \in 1..Len(list) : list[i].id # id
    BY DEF UsedIds
  <2>2. \A i \in 1..Len(manager) : manager[i].id # id
    BY DEF UsedIds
  <2>3. /\ ToSet(IdsOf(list)) = {list[i].id : i \in 1..Len(list)}
        /\ ToSet(IdsOf(manager)) = {manager[i].id : i \in 1..Len(manager)}
    BY <1>1, IdsAre
  <2> QED
    BY <2>1, <2>2, <2>3 DEF KeptOf
<1>3. Shelf \in {IdsOf(list), IdsOf(manager)} /\ Kept \in {KeptOf(list, file), KeptOf(manager, file)}
  BY SeenOn
<1> QED
  BY <1>2, <1>3, BookOps DEF Book!Fresh

\* config_manager_init ends with what was kept, or with a first configuration,
\* or with one that the pre-0.4 file gave.
LEMMA BookStarts ==
  ASSUME Reliable, Inv, HomeInv, LoadInv, Inv', HomeInv',
         InitPlain \/ \E id \in Ids \ UsedIds : InitOld(id) \/ InitOldClash(id)
  PROVE  Book!BNext
<1>1. /\ list \in Lists /\ NoTwins(list) /\ manager \in Lists /\ Len(list) \in Nat /\ file \in Files
      /\ (list = <<>> <=> Len(list) = 0) /\ list' \in Lists
  BY InList DEF Inv, TypesOK, Unique, NamesUnique
<1>11. mem \in Values
  BY DEF Inv, TypesOK
<1>2. status = "loading" /\ status' = "on"
  BY DEF InitPlain, InitOld, InitOldClash, LoadingOld, FinishInit
<1>3. /\ KeptOf(list, file) = KeptOf(manager, file)
      /\ ToSet(IdsOf(list)) = KeptOf(manager, file)
      /\ Book!InOrder(IdsOf(list), IdsOf(manager))
  BY <1>2, KeptLoaded DEF HomeInv
<1>4. /\ Shelf = IdsOf(manager) /\ Kept = KeptOf(manager, file)
      /\ Shelf' = IdsOf(list') /\ Kept' = KeptOf(list', file') /\ Edited' = open'
  BY <1>2, SeenOn, SeenNext
<1>5. Book!Found(IdsOf(list))
  BY <1>3, <1>4, BookOps DEF Book!Found
<1>6. Homely(list, file, looked)
  BY <1>2 DEF HomeInv, FilesInv
<1>7. IdsOf(list) \in Seq(Ids) /\ Len(IdsOf(list)) = Len(list) /\ \A i \in 1..Len(list) : IdsOf(list)[i] = list[i].id
  BY <1>1, IdsAre
<1>8. CASE InitPlain /\ list # <<>>
  <2>1. /\ list' = list /\ file' = file /\ OpenConfig(list, current, rows, file)
    BY <1>8 DEF InitPlain, FinishInit
  <2>2. current = 1 /\ open' = list[1].id
    BY <1>2, <1>8, <2>1 DEF Inv, StartOK, OpenConfig
  <2>3. IdsOf(list) # <<>>
    BY <1>1, <1>7, <1>8
  <2>4. Head(IdsOf(list)) = list[1].id
    <3>1. 1 \in 1..Len(list)
      BY <1>1, <1>8
    <3>2. Head(IdsOf(list)) = IdsOf(list)[1]
      BY <1>7, <2>3
    <3> QED
      BY <1>7, <3>1, <3>2
  <2>5. Book!Start
    BY <1>2, <1>3, <1>4, <1>5, <2>1, <2>2, <2>3, <2>4 DEF Book!Start
  <2> QED
    BY <2>5 DEF Book!BNext
<1>9. CASE InitPlain /\ list = <<>>
  <2>1. file' = file /\ NewConfig(list, rows, "Default", FALSE)
    BY <1>9 DEF InitPlain, FinishInit
  <2>2. "Default" \in Bases /\ Len(list) = 0 /\ \A i \in 1..Len(list) : list[i].id \in UsedIds
    BY <1>1, <1>9 DEF Bases
  <2>3. /\ Len(list') = Len(list) + 1 /\ current' = Len(list) + 1 /\ list'[current'].id = open'
        /\ list'[current'].name = FirstFree(list, "Default")
        /\ \A i \in 1..Len(list) : list'[i] = list[i]
        /\ open' \in Ids \ UsedIds
    BY <1>1, <1>11, <2>1, <2>2, Created, Zenon
  <2>4. FirstFree(list, "Default") \in Names
    BY <2>1, <2>2, FirstFreeIsFree DEF NewConfig
  <2>5. open' \in Book!Fresh
    BY <2>3, FreshIs
  <2>6. Len(list') = 1 /\ list'[1].id = open' /\ list'[1].name = FirstFree(list, "Default")
    BY <2>2, <2>3
  <2>7. IdsOf(list') = <<open'>>
    <3>1. IdsOf(list') \in Seq(Ids) /\ Len(IdsOf(list')) = 1 /\ IdsOf(list')[1] = open'
      BY <1>1, <2>6, IdsAre
    <3> QED
      BY <3>1
  <2>8. KeptOf(list', file') = {} /\ KeptOf(list, file) = {}
    <3>1. file[FirstFree(list, "Default")] = NoFile
      BY <1>6, <2>2, <2>4 DEF Homely, HasName
    <3>2. \A i \in 1..Len(list') : file'[list'[i].name] = NoFile
      BY <2>1, <2>6, <3>1
    <3> QED
      BY <2>2, <3>2 DEF KeptOf
  <2>9. IdsOf(list) = <<>>
    BY <1>7, <2>2
  <2>10. Book!Start
    BY <1>2, <1>3, <1>4, <1>5, <2>5, <2>7, <2>8, <2>9 DEF Book!Start
  <2> QED
    BY <2>10 DEF Book!BNext
<1>10. ASSUME NEW id \in Ids \ UsedIds, InitOld(id) \/ InitOldClash(id)
       PROVE  Book!BNext
  <2>1. LoadingOld
    BY <1>10 DEF InitOld, InitOldClash
  <2>2. /\ OldName \in Names /\ ~HasName(list, OldName)
        /\ OldList(id) \in Lists /\ OldList(id) # <<>>
        /\ Len(OldList(id)) = Len(list) + 1
        /\ OldList(id)[Len(list) + 1] = [name |-> OldName, id |-> id]
        /\ \A i \in 1..Len(list) : OldList(id)[i] = list[i]
    BY <1>1, <2>1, OldAdded DEF Inv
  <2>3. file[OldName] = NoFile
    BY <1>6, <2>2 DEF Homely
  <2>4. /\ list' = OldList(id) /\ file' = [file EXCEPT ![OldName] = Pure(id)]
        /\ open' = OldList(id)[Len(list) + 1].id
    BY <1>10, <2>2, <2>3 DEF InitOld, InitOldClash, FinishInit, OpenConfig
  <2>5. open' = id
    BY <2>2, <2>4
  <2>6. id \in Book!Fresh
    BY <1>10, FreshIs
  <2>7. IdsOf(list') = Append(IdsOf(list), id)
    <3>1. OldList(id)[Len(list) + 1].id = id /\ id \in Ids
      BY <2>2
    <3>2. IdsOf(OldList(id)) = Append(IdsOf(list), id)
      BY <1>1, <2>2, <3>1, IdsAdd
    <3> QED
      BY <2>4, <3>2
  <2>8. KeptOf(list', file') = KeptOf(list, file) \cup {id}
    <3>1. KeptOf(OldList(id), [file EXCEPT ![OldName] = Pure(id)]) = KeptOf(list, file) \cup {id}
      BY <1>1, <2>2, <2>3, KeptAdd
    <3> QED
      BY <2>4, <3>1
  <2>9. Front(Append(IdsOf(list), id)) = IdsOf(list)
    <3> DEFINE s == IdsOf(list)
               m == Append(s, id)
               t == Front(m)
    <3>1. s \in Seq(Ids) /\ Len(s) \in Nat
      BY <1>1, <1>7
    <3> HIDE DEF s
    <3>2. m \in Seq(Ids) /\ Len(m) = Len(s) + 1 /\ \A i \in 1..Len(s) : m[i] = s[i]
      BY <3>1, AppendProperties
    <3> HIDE DEF m
    <3>3. \A i \in 1..Len(s) : m[i] \in Ids
      BY <3>1, <3>2, LenProperties
    <3>4. /\ t \in Seq(Ids) /\ Len(t) = IF 1 <= Len(s) THEN Len(s) ELSE 0
          /\ \A i \in 1..Len(s) : t[i] = m[i]
      <4>1. Len(m) - 1 = Len(s)
        BY <3>1, <3>2
      <4>2. t = SubSeq(m, 1, Len(s))
        BY <4>1 DEF Front
      <4>3. m \in Seq(Ids)
        BY <3>2
      <4>4. /\ SubSeq(m, 1, Len(s)) \in Seq(Ids)
            /\ Len(SubSeq(m, 1, Len(s))) = IF 1 <= Len(s) THEN Len(s) - 1 + 1 ELSE 0
            /\ \A i \in 1..Len(s) - 1 + 1 : SubSeq(m, 1, Len(s))[i] = m[1 + i - 1]
        BY <3>1, <3>3, SubSeqProperties
      <4> HIDE DEF t
      <4> QED
        BY <3>1, <4>2, <4>4
    <3> HIDE DEF t
    <3>5. Len(t) = Len(s) /\ \A i \in 1..Len(t) : t[i] = s[i]
      BY <3>1, <3>2, <3>4
    <3>6. t = s
      BY <3>1, <3>4, <3>5, SeqEqual, Zenon
    <3> QED
      BY <3>6 DEF t, m, s
  <2>10. Book!StartAdding
    BY <1>2, <1>3, <1>4, <1>5, <2>5, <2>6, <2>7, <2>8, <2>9, BookOps DEF Book!StartAdding
  <2> QED
    BY <2>10 DEF Book!BNext
<1> QED
  BY <1>8, <1>9, <1>10

\* What the user does in the window.
LEMMA BookUser ==
  ASSUME Reliable, Inv, HomeInv, TreeInv, Inv', HomeInv', ~Drifts, User \/ Killed
  PROVE  BookStep
<1>1. ASSUME status = "on"
      PROVE  /\ list \in Lists /\ NoTwins(list) /\ Len(list) \in Nat /\ file \in Files
             /\ (list = <<>> <=> Len(list) = 0) /\ mem # NoFile
             /\ (current \in 1..Len(list) /\ list[current].id = open) \/ (list = <<>> /\ current = 0 /\ open = NoId)
             /\ Homely(list, file, looked)
             /\ Shelf = IdsOf(list) /\ Kept = KeptOf(list, file) /\ Edited = open
             /\ IdsOf(list) \in Seq(Ids) /\ Len(IdsOf(list)) = Len(list)
             /\ \A i \in 1..Len(list) : IdsOf(list)[i] = list[i].id /\ list[i].id \in Ids
  <2>1. /\ list \in Lists /\ NoTwins(list) /\ Len(list) \in Nat /\ file \in Files
        /\ (list = <<>> <=> Len(list) = 0) /\ mem # NoFile
        /\ (current \in 1..Len(list) /\ list[current].id = open) \/ (list = <<>> /\ current = 0 /\ open = NoId)
    BY <1>1, WhileOn DEF HomeInv
  <2>2. Homely(list, file, looked)
    BY <1>1 DEF HomeInv, FilesInv
  <2>3. Shelf = IdsOf(list) /\ Kept = KeptOf(list, file) /\ Edited = open
    BY <1>1, SeenOn
  <2>4. /\ IdsOf(list) \in Seq(Ids) /\ Len(IdsOf(list)) = Len(list)
        /\ \A i \in 1..Len(list) : IdsOf(list)[i] = list[i].id /\ list[i].id \in Ids
    BY <2>1, IdsAre, InList
  <2> QED
    BY <2>1, <2>2, <2>3, <2>4
<1>2. ASSUME status' = "on"
      PROVE  Shelf' = IdsOf(list') /\ Kept' = KeptOf(list', file') /\ Edited' = open'
  BY <1>2, SeenNext
<1>3. ASSUME status = "on", InRange
      PROVE  /\ KeptOf(list, SavedFile) = KeptOf(list, file) \cup {open}
             /\ open # NoId
  <2>1. current \in 1..Len(list) /\ list[current].id = open /\ open \in Ids
    BY <1>1, <1>3 DEF InRange
  <2>2. /\ SavedFile[list[current].name] # NoFile
        /\ \A n \in Names \ {list[current].name} : SavedFile[n] = file[n]
    BY <1>1, <1>3, SavedIsFiles DEF Inv
  <2>3. KeptOf(list, SavedFile) = KeptOf(list, file) \cup {list[current].id}
    BY <1>1, <1>3, <2>1, <2>2, KeptWrite
  <2> QED
    BY <2>1, <2>3, ConstantsOK
<1>15. mem \in Values
  BY DEF Inv, TypesOK
<1>4. CASE Edit \/ Look \/ Detect \/ DeleteButton
  <2>1. status = "on" /\ status' = "on" /\ list' = list /\ file' = file /\ open' = open
    BY <1>4 DEF Edit, Look, Detect, DeleteButton, disk
  <2> QED
    BY <1>1, <1>2, <2>1 DEF BookStep, BookSame
<1>5. CASE Save
  <2>1. /\ status = "on" /\ status' = "on" /\ InRange /\ list' = list /\ file' = SavedFile
        /\ open' = open
    BY <1>5 DEF Save
  <2>2. Book!Write
    BY <1>1, <1>2, <1>3, <2>1 DEF Book!Write
  <2> QED
    BY <2>2 DEF BookStep, Book!BNext
<1>6. CASE Quit
  <2>1. /\ status = "on" /\ status' = "off" /\ manager' = list
        /\ file' = IF InRange THEN SavedFile ELSE file
    BY <1>6 DEF Quit, Forget
  <2>2. Shelf' = IdsOf(list) /\ Kept' = KeptOf(list, file') /\ Edited' = NoId
    BY <2>1, SeenNext
  <2>3. KeptOf(list, file') = KeptOf(list, file) \cup ({open} \ {NoId})
    <3>1. CASE InRange
      BY <1>3, <2>1, <3>1
    <3>2. CASE ~InRange
      <4>1. open = NoId
        BY <1>1, <2>1, <3>2 DEF InRange
      <4> QED
        BY <2>1, <3>2, <4>1
    <3> QED
      BY <3>1, <3>2
  <2>4. Book!Close
    BY <1>1, <2>1, <2>2, <2>3 DEF Book!Close
  <2> QED
    BY <2>4 DEF BookStep, Book!BNext
<1>7. ~Killed /\ (\A n \in Typed : ~RenameAborts(n)) /\ (\A r \in 1..Len(rows) : ~DeleteAborts(r))
  <2>1. ~Killed
    BY DEF Killed, Kill, KillInSave, KillInQuit, KillInOpenOld, Reliable
  <2>2. ~NullName
    BY <1>1 DEF NullName
  <2> QED
    BY <2>1, <2>2 DEF RenameAborts, DeleteAborts
<1>8. ASSUME status = "on"
      PROVE  Len(rows) = Len(list) /\ \A i \in 1..Len(list) : rows[i].name = list[i].name
  BY <1>8 DEF TreeInv, Shows
<1>9. ASSUME NEW r \in 1..Len(rows), DownAborts(r)
      PROVE  FALSE
  <2>1. status = "on" /\ ~HasName(list, rows[r].name)
    BY <1>9 DEF DownAborts, Chosen
  <2> QED
    BY <1>8, <2>1 DEF HasName
<1>10. ASSUME NEW copy \in BOOLEAN, New(copy)
       PROVE  BookStep
  <2>1. /\ status = "on" /\ status' = "on" /\ NewConfig(list, rows, "New config", copy)
        /\ file' = file
    BY <1>10 DEF New, disk
  <2>2. "New config" \in Bases
    BY DEF Bases
  <2>3. \A i \in 1..Len(list) : list[i].id \in UsedIds
    BY UsedHere DEF Inv
  <2>4. list \in Lists /\ NoTwins(list) /\ Len(list) \in Nat /\ Homely(list, file, looked) /\ file \in Files
    BY <1>1, <2>1
  <2>5. /\ list' \in Lists /\ Len(list') = Len(list) + 1 /\ current' = Len(list) + 1
        /\ list'[current'].id = open' /\ list'[current'].name = FirstFree(list, "New config")
        /\ \A i \in 1..Len(list) : list'[i] = list[i]
        /\ open' \in Ids \ UsedIds
    BY <1>15, <2>1, <2>2, <2>3, <2>4, Created, Zenon
  <2> DEFINE n == FirstFree(list, "New config")
             k == Len(list)
             m == Len(list')
  <2>6. n \in Names /\ ~HasName(list, n)
    BY <2>1, <2>2, FirstFreeIsFree DEF NewConfig
  <2>7. list'[Len(list) + 1] = [name |-> n, id |-> open']
    <3>1. k \in Nat /\ m = k + 1
      BY <2>4, <2>5, Zenon
    <3> HIDE DEF k, m
    <3>2. k + 1 \in 1..m
      BY <3>1
    <3>3. Len(list) + 1 \in 1..Len(list')
      BY <3>2 DEF k, m
    <3>4. list'[Len(list) + 1] \in Config
      BY <2>5, <3>3, InList
    <3> QED
      BY <2>5, <3>4 DEF Config
  <2> HIDE DEF n, k, m
  <2>8. open' \in Ids /\ open' \in Book!Fresh
    BY <2>5, FreshIs
  <2>9. IdsOf(list') = Append(IdsOf(list), open')
    <3>1. list'[Len(list) + 1].id = open'
      BY <2>7
    <3> QED
      BY <2>4, <2>5, <2>8, <3>1, IdsAdd
  <2>10. KeptOf(list', file) = KeptOf(list, file)
    <3>1. file[n] = NoFile
      BY <2>4, <2>6 DEF Homely
    <3>2. file[list'[Len(list) + 1].name] = NoFile
      BY <2>7, <3>1
    <3> QED
      BY <2>4, <2>5, <3>2, KeptBare
  <2>11. Book!Create
    BY <1>1, <1>2, <2>1, <2>8, <2>9, <2>10 DEF Book!Create
  <2> QED
    BY <2>11 DEF BookStep, Book!BNext
<1>11. ASSUME NEW n \in Typed, Rename(n)
       PROVE  BookStep
  <2>1. /\ status = "on" /\ status' = "on" /\ InRange /\ ~NameTaken(n)
        /\ list' = [list EXCEPT ![current].name = n] /\ open' = open
        /\ \/ n # list[current].name /\ file[list[current].name] # NoFile
              /\ file' = [file EXCEPT ![n] = file[list[current].name], ![list[current].name] = NoFile]
           \/ (n = list[current].name \/ file[list[current].name] = NoFile) /\ file' = file
    BY <1>11 DEF Rename, editor, Reliable
  <2>2. n \in Names /\ current \in 1..Len(list)
    BY <2>1, ConstantsOK DEF InRange
  <2>3. \A i \in 1..Len(list) : i # current => list[i].name # n
    BY <2>1 DEF NameTaken
  <2>4. list \in Lists /\ NoTwins(list) /\ file \in Files /\ Homely(list, file, looked)
    BY <1>1, <2>1
  <2>5. /\ list' \in Lists /\ Len(list') = Len(list)
        /\ \A i \in 1..Len(list) :
             list'[i] = IF i = current THEN [name |-> n, id |-> list[current].id] ELSE list[i]
    <3>1. LET m == [list EXCEPT ![current].name = n]
          IN  /\ m \in Lists /\ NoTwins(m) /\ Len(m) = Len(list)
              /\ \A i \in 1..Len(list) :
                   m[i] = IF i = current THEN [name |-> n, id |-> list[current].id] ELSE list[i]
      BY <2>4, <2>2, <2>3, RenamedIsUnique, Zenon
    <3> QED
      BY <2>1, <3>1, Zenon
  <2>6. \/ n # list[current].name /\ file[list[current].name] # NoFile
           /\ file' = [file EXCEPT ![n] = file[list[current].name], ![list[current].name] = NoFile]
        \/ (n = list[current].name \/ file[list[current].name] = NoFile) /\ file' = file
    BY <2>1
  <2>7. KeptOf(list', file') = KeptOf(list, file)
    BY <2>2, <2>3, <2>4, <2>5, <2>6, KeptRename
  <2>8. IdsOf(list') = IdsOf(list)
    <3>1. \A i \in 1..Len(list) : list'[i].id = list[i].id
      BY <2>5
    <3> QED
      BY <2>4, <2>5, <3>1, SameIds
  <2> QED
    BY <1>1, <1>2, <2>1, <2>7, <2>8 DEF BookStep, BookSame
<1>12. ASSUME NEW r \in 1..Len(rows), Delete(r)
       PROVE  BookStep
  <2> DEFINE n == rows[r].name
             k == GetIndex(list, n)
             l == RemoveAt(list, k)
             f == DeleteFile(file, n)
             to == IF k > Len(l) THEN Len(l) ELSE k
             rs == UpdatePriorities(RemoveAt(rows, r))
  <2>1. /\ status = "on" /\ status' = "on" /\ HasName(list, n) /\ InRange /\ list' = l /\ file' = f
        /\ \/ l = <<>> /\ open' = NoId
           \/ l # <<>> /\ k = current /\ OpenConfig(l, to, rs, f)
           \/ l # <<>> /\ k # current /\ open' = open
    BY <1>12 DEF Delete, Chosen, editor
  <2>2. ~(k < current)
    BY <1>12 DEF Drifts, DeletesAbove
  <2>3. k \in 1..Len(list) /\ list[k].name = n
    BY <1>1, <2>1, IndexFound
  <2>4. l # <<>> /\ k = current => open' = l[to].id
    BY <2>1 DEF OpenConfig
  <2> HIDE DEF n, rs
  <2>5. /\ l \in Lists /\ Len(l) = Len(list) - 1 /\ IdsOf(l) = RemoveAt(IdsOf(list), k)
        /\ KeptOf(l, f) = KeptOf(list, file) \ {list[k].id}
    <3>1. list \in Lists /\ NoTwins(list) /\ file \in Files /\ k \in 1..Len(list)
      BY <1>1, <2>1, <2>3
    <3>2. l \in Lists /\ Len(l) = Len(list) - 1
      BY <3>1, RemovedIsUnique
    <3>3. f = DeleteFile(file, list[k].name)
      BY <2>3
    <3> HIDE DEF k, f
    <3>4. /\ IdsOf(RemoveAt(list, k)) = RemoveAt(IdsOf(list), k)
          /\ KeptOf(RemoveAt(list, k), DeleteFile(file, list[k].name)) = KeptOf(list, file) \ {list[k].id}
      BY <3>1, IdsRemove, Zenon
    <3> QED
      BY <3>2, <3>3, <3>4
  <2>6. Len(IdsOf(l)) = Len(l) /\ \A i \in 1..Len(l) : IdsOf(l)[i] = l[i].id
    BY <2>5, IdsAre
  <2> HIDE DEF k, l, f
  <2>7. k \in 1..Len(list) /\ list[k].id = IdsOf(list)[k] /\ list[current].id = open /\ current \in 1..Len(list)
    BY <1>1, <2>1, <2>3 DEF InRange
  <2>8. open = list[k].id <=> k = current
    BY <1>1, <2>1, <2>7 DEF NoTwins
  <2>9. (l = <<>> <=> Len(l) = 0) /\ (IdsOf(l) = <<>> <=> Len(l) = 0)
    BY <1>1, <2>1, <2>5, InList, IdsAre
  <2>10. open' = IF open # IdsOf(list)[k] THEN open
                 ELSE IF IdsOf(l) = <<>> THEN NoId
                 ELSE IF k = Len(IdsOf(list)) THEN Last(IdsOf(l)) ELSE IdsOf(l)[k]
    <3>1. CASE l = <<>>
      <4>1. Len(list) = 1
        BY <1>1, <2>1, <2>5, <2>9, <3>1
      <4>2. k = current
        BY <2>7, <4>1
      <4> QED
        BY <2>1, <2>7, <2>8, <2>9, <3>1, <4>2
    <3>2. CASE l # <<>> /\ k = current
      <4>1. to \in 1..Len(l) /\ to = IF k = Len(list) THEN Len(l) ELSE k
        BY <1>1, <2>1, <2>5, <2>7, <2>9, <3>2
      <4>2. open' = IdsOf(l)[to]
        BY <2>4, <2>6, <3>2, <4>1
      <4> QED
        BY <1>1, <2>1, <2>6, <2>7, <2>8, <2>9, <3>2, <4>1, <4>2 DEF Last
    <3>3. CASE l # <<>> /\ k # current
      BY <2>1, <2>7, <2>8, <3>3
    <3> QED
      BY <3>1, <3>2, <3>3
  <2>11. Book!Discard(k)
    BY <1>1, <1>2, <2>1, <2>5, <2>7, <2>10, BookOps DEF Book!Discard
  <2>12. k \in 1..Len(Shelf)
    BY <1>1, <2>1, <2>7
  <2> QED
    BY <2>11, <2>12 DEF BookStep, Book!BNext
<1>13. ASSUME NEW r \in 1..Len(rows), Up(r) \/ Down(r)
       PROVE  BookStep
  <2>1. status = "on" /\ status' = "on" /\ file' = file /\ open' = open
    BY <1>13 DEF Up, Down, Chosen, disk, editor
  <2>2. \E p \in 1..Len(list) - 1 : list' = Swap(list, p, p + 1)
    <3> DEFINE k == GetIndex(list, rows[r].name)
    <3>1. k \in 0..Len(list)
      BY <1>1, <2>1, IndexFound
    <3>2. \/ k > 1 /\ list' = Swap(list, k - 1, k)
          \/ k \in 1..Len(list) - 1 /\ list' = Swap(list, k, k + 1)
      BY <1>13 DEF Up, Down
    <3> HIDE DEF k
    <3>3. CASE k > 1 /\ list' = Swap(list, k - 1, k)
      <4>1. k - 1 \in 1..Len(list) - 1 /\ (k - 1) + 1 = k
        BY <1>1, <2>1, <3>1, <3>3
      <4> QED
        BY <3>3, <4>1
    <3> QED
      BY <3>2, <3>3
  <2>3. PICK p \in 1..Len(list) - 1 : list' = Swap(list, p, p + 1)
    BY <2>2
  <2>4. /\ IdsOf(list') = [IdsOf(list) EXCEPT ![p] = IdsOf(list)[p + 1], ![p + 1] = IdsOf(list)[p]]
        /\ KeptOf(list', file) = KeptOf(list, file)
    BY <1>1, <2>1, <2>3, IdsSwap
  <2>5. Book!Exchange(p)
    BY <1>1, <1>2, <2>1, <2>4 DEF Book!Exchange
  <2>6. p \in 1..Len(Shelf) - 1
    BY <1>1, <2>1
  <2> QED
    BY <2>5, <2>6 DEF BookStep, Book!BNext
<1>14. ASSUME NEW r \in 1..Len(rows), Activate(r)
       PROVE  BookStep
  <2> DEFINE k == GetIndex(list, rows[r].name)
  <2>1. /\ status = "on" /\ status' = "on" /\ list' = list
        /\ InRange => file' = SavedFile
        /\ \/ Opens(r) /\ OpenConfig(list, k, rows, file')
           \/ ~Opens(r) /\ open' = open
    BY <1>14 DEF Activate, Reliable
  <2>2. InRange
    BY <1>1, <1>8, <2>1 DEF InRange
  <2>3. Kept' = Kept \cup {Edited} /\ Edited # NoId /\ Shelf' = Shelf
    BY <1>1, <1>2, <1>3, <2>1, <2>2
  <2>4. CASE Opens(r)
    <3>1. k \in 1..Len(list)
      BY <1>1, <2>1, <2>4, IndexFound DEF Opens
    <3>2. open' = list[k].id
      BY <2>1, <2>4 DEF OpenConfig
    <3> HIDE DEF k
    <3>3. Edited' = Shelf[k] /\ k \in 1..Len(Shelf)
      BY <1>1, <1>2, <2>1, <3>1, <3>2
    <3>4. Book!OpenOther(k)
      BY <2>1, <2>3, <3>3 DEF Book!OpenOther
    <3> QED
      BY <3>3, <3>4 DEF BookStep, Book!BNext
  <2>5. CASE ~Opens(r)
    <3>1. Edited' = Edited
      BY <1>1, <1>2, <2>1, <2>5
    <3>2. Book!Write
      BY <2>1, <2>3, <3>1 DEF Book!Write
    <3> QED
      BY <3>2 DEF BookStep, Book!BNext
  <2> QED
    BY <2>4, <2>5
<1> QED
  BY <1>4, <1>5, <1>6, <1>7, <1>9, <1>10, <1>11, <1>12, <1>13, <1>14 DEF User

LEMMA BookNext ==
  ASSUME Reliable, Inv, TreeInv, HomeInv, LoadInv, Inv', HomeInv', [CarefulNext]_vars
  PROVE  BookStep
<1>1. CASE UNCHANGED vars
  <2>1. UNCHANGED <<status, list, current, manager, file>>
    BY <1>1 DEF vars, disk
  <2> QED
    BY <2>1 DEF BookStep, BookSame, Shelf, Kept, Edited, Shown, InRange
<1>2. CASE CarefulNext
  <2>1. Next /\ ~Drifts
    BY <1>2 DEF CarefulNext
  <2>2. ~Backup /\ ~Restores /\ ~InitOldFails
    BY DEF Reliable, Backup, Restores, Restore, InitOldFails
  <2>3. CASE User \/ Killed
    BY <2>1, <2>3, BookUser
  <2>4. CASE ReadFile \/ CheckPresent \/ CheckMissing \/ CheckMissingAborts \/ CheckDone
    <3>1. status # "on" /\ status' # "on" /\ manager' = manager /\ file' = file
      BY <2>4 DEF ReadFile, CheckPresent, CheckMissing, CheckMissingAborts, CheckDone, disk, Forget
    <3>2. Shelf' = Shelf /\ Kept' = Kept /\ Edited' = Edited
      BY <3>1, SeenOn, SeenNext
    <3> QED
      BY <3>1, <3>2 DEF BookStep, BookSame
  <2>5. CASE InitPlain \/ \E id \in Ids \ UsedIds : InitOld(id) \/ InitOldClash(id)
    BY <2>5, BookStarts DEF BookStep
  <2> QED
    BY <2>1, <2>2, <2>3, <2>4, <2>5 DEF Next, Startup
<1> QED
  BY <1>1, <1>2

\* Where no call fails, nothing is killed or restored and the user keeps off the
\* two drifts, the list, the open configuration and the saved ones change as
\* ConfigBook says and in no other way: start-up finds what was kept, saving and
\* opening another keep what is edited, deleting moves on to the neighbour.
THEOREM BookIsImplemented ==
  ASSUME Reliable
  PROVE  CarefulSpec => ImplementsBook
<1>1. Init => Book!BInit
  <2> SUFFICES ASSUME Init
               PROVE  Book!BInit
    OBVIOUS
  <2>1. status = "off" /\ manager = <<>> /\ Len(manager) = 0
    BY DEF Init
  <2>2. Shelf = <<>>
    BY <2>1 DEF Shelf, Shown, IdsOf
  <2>3. Kept = {} /\ Edited = NoId
    BY <2>1 DEF Kept, Shown, KeptOf, Edited
  <2> QED
    BY <2>1, <2>2, <2>3 DEF Book!BInit
<1>2. Init => LoadInv
  BY DEF Init, LoadInv
<1>3. Inv /\ LoadInv /\ [CarefulNext]_vars => LoadInv'
  BY LoadStep DEF CarefulNext
<1>4. ASSUME Inv, TreeInv, HomeInv, LoadInv, Inv', HomeInv', [CarefulNext]_vars
      PROVE  [Book!BNext]_(Book!book)
  <2>1. BookStep
    BY <1>4, BookNext
  <2>2. BookSame => UNCHANGED Book!book
    BY DEF BookSame, Book!book
  <2> QED
    BY <2>1, <2>2 DEF BookStep
<1>5. Inv /\ TreeInv /\ HomeInv /\ LoadInv /\ (Inv /\ HomeInv)' /\ [CarefulNext]_vars
        => [Book!BNext]_(Book!book)
  BY <1>4
<1> QED
  BY <1>1, <1>2, <1>3, <1>5, CarefulInvariant, PTL DEF CarefulSpec, ImplementsBook, Book!BSpec
=============================================================================
