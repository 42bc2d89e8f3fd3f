------------------------- MODULE MessageLookupProofs -------------------------
(***************************************************************************)
(* For any threads, calls, names of locales, catalogs and settings: no     *)
(* thread looks into a catalog that is still being loaded (LooksAtLoaded), *)
(* and a call answers with what a search from nothing would find           *)
(* (SearchedAnew).                                                         *)
(*                                                                         *)
(* Shape says what the threads hold and that the list of catalogs is       *)
(* closed: with a file, all it inherits from.  Loading is the lock's part: *)
(* a catalog that is not decided has one loader, a decided one has the     *)
(* contents of its file.  Answering follows a call: what may still be      *)
(* answered is right at every step (OnTheWay), and so is what the tree     *)
(* remembers with the present counter (Remembered).                        *)
(***************************************************************************)
EXTENDS MessageLookup, FiniteSetTheorems, SequenceTheorems,
        WellFoundedInduction, TLAPS

-----------------------------------------------------------------------------
(* Sequences and sets of numbers. *)

\* A set of numbers that is not empty has its Min in it, and none is less.
LEMMA MinIsLeast ==
  ASSUME NEW S \in SUBSET Nat, S # {}
  PROVE  Min(S) \in S /\ \A n \in S : Min(S) <= n
<1>1. \E m \in S : \A n \in S : ~ (<<n, m>> \in OpToRel(<, Nat))
  BY WFMin, NatLessThanWellFounded, Zenon
<1>2. PICK m \in S : \A n \in S : ~ (<<n, m>> \in OpToRel(<, Nat))
  BY <1>1
<1>3. ASSUME NEW n \in S, n < m
      PROVE  FALSE
  <2>1. <<n, m>> \in Nat \X Nat
    OBVIOUS
  <2>2. <<n, m>>[1] = n /\ <<n, m>>[2] = m
    OBVIOUS
  <2>3. <<n, m>> \in OpToRel(<, Nat)
    BY <1>3, <2>1, <2>2, Zenon DEF OpToRel
  <2> QED
    BY <1>2, <2>3
<1>4. \A n \in S : m <= n
  BY <1>3
<1> QED
  BY <1>4 DEF Min
-----------------------------------------------------------------------------
(* The files of a name. *)

\* A mask by its bits.
Bits(n, c, t, m) ==
  (IF n THEN 1 ELSE 0) + (IF c THEN 2 ELSE 0) + (IF t THEN 4 ELSE 0) + (IF m THEN 8 ELSE 0)

LEMMA BitsHas ==
  ASSUME NEW n \in BOOLEAN, NEW c \in BOOLEAN, NEW t \in BOOLEAN, NEW m \in BOOLEAN
  PROVE  LET k == Bits(n, c, t, m)
         IN  /\ k \in 0..15
             /\ Has(k, 1) = n /\ Has(k, 2) = c /\ Has(k, 4) = t /\ Has(k, 8) = m
BY DEF Bits, Has

LEMMA MaskBits ==
  ASSUME NEW k \in 0..15
  PROVE  k = Bits(Has(k, 1), Has(k, 2), Has(k, 4), Has(k, 8))
BY DEF Bits, Has

LEMMA DescendingIs ==
  ASSUME NEW S, IsFiniteSet(S), S \subseteq Int
  PROVE  Descending(S) \in Seq(S) /\ Range(Descending(S)) = S
<1> DEFINE Above(n) == {k \in S : k > n}
           d == Descending(S)
<1>1. \A n \in S : IsFiniteSet(Above(n)) /\ Cardinality(Above(n)) \in Nat
  BY FS_Subset, FS_CardinalityType
<1>2. Cardinality(S) \in Nat
  BY FS_CardinalityType
<1>3. ASSUME NEW n \in S
      PROVE  Cardinality(Above(n)) < Cardinality(S)
  <2>1. Above(n) \in SUBSET S /\ n \notin Above(n)
    OBVIOUS
  <2>2. Cardinality(Above(n)) <= Cardinality(S) /\ Cardinality(S) # Cardinality(Above(n))
    BY <2>1, FS_Subset, Zenon
  <2> QED
    BY <1>1, <1>2, <2>2
<1>4. ASSUME NEW n \in S, NEW k \in S, n < k
      PROVE  Cardinality(Above(k)) < Cardinality(Above(n))
  <2>1. \A j \in S : j \in Int
    OBVIOUS
  <2>4. ASSUME NEW j \in Above(k)
        PROVE  j \in Above(n)
    <3>1. j \in S /\ j > k /\ j \in Int /\ k \in Int /\ n \in Int
      BY <2>1
    <3> QED
      BY <1>4, <3>1
  <2>5. k > n /\ ~ (k > k)
    BY <1>4, <2>1
  <2>3. Above(k) \in SUBSET Above(n) /\ k \in Above(n) /\ k \notin Above(k)
    BY <2>4, <2>5
  <2>2. Cardinality(Above(k)) <= Cardinality(Above(n)) /\ Cardinality(Above(n)) # Cardinality(Above(k))
    BY <1>1, <2>3, FS_Subset, Zenon
  <2> QED
    BY <1>1, <2>2
<1>5. \A n, k \in S : Cardinality(Above(n)) = Cardinality(Above(k)) => n = k
  BY <1>1, <1>4
<1>6. DOMAIN d = 1..Cardinality(S) /\ \A i \in 1..Cardinality(S) :
         d[i] = CHOOSE n \in S : Cardinality(Above(n)) = i - 1
  BY DEF Descending
<1> HIDE DEF d, Above
<1>7. \A i \in 1..Cardinality(S) : \E n \in S : Cardinality(Above(n)) = i - 1
  <2> DEFINE c == Cardinality(S)
             T == 0..(c - 1)
             f == [n \in S |-> Cardinality(Above(n))]
  <2>1. f \in Injection(S, T)
    <3>1. f \in [S -> T]
      BY <1>1, <1>2, <1>3
    <3> QED
      BY <1>5, <3>1 DEF Injection, IsInjective
  <2>2. IsFiniteSet(T) /\ Cardinality(T) = c
    BY <1>2, FS_Interval
  <2>3. f \in Surjection(S, T)
    BY <2>1, <2>2, FS_Injection
  <2>4. \A k \in T : \E n \in S : f[n] = k
    BY <2>3 DEF Surjection
  <2> QED
    BY <1>2, <2>4
<1>8. \A i \in 1..Cardinality(S) : d[i] \in S /\ Cardinality(Above(d[i])) = i - 1
  BY <1>6, <1>7
<1>9. ASSUME NEW n \in S
      PROVE  \E i \in 1..Cardinality(S) : d[i] = n
  <2> DEFINE i == Cardinality(Above(n)) + 1
  <2>1. i \in 1..Cardinality(S) /\ Cardinality(Above(n)) = i - 1
    BY <1>1, <1>2, <1>3
  <2> HIDE DEF i
  <2>2. d[i] = n
    BY <1>5, <1>8, <2>1
  <2> QED
    BY <2>1, <2>2
<1>10. d \in [1..Cardinality(S) -> S]
  BY <1>6, <1>8 DEF d, Descending
<1>11. d \in Seq(S)
  BY <1>2, <1>10, IsASeq
<1>12. Range(d) = S
  BY <1>6, <1>8, <1>9 DEF Range
<1> QED
  BY <1>11, <1>12 DEF d

\* The entry p inherits from q.
Heir(q, p) ==
  /\ q = [dir |-> p.dir, language |-> p.language, territory |-> q.territory,
          codesets |-> q.codesets, modifier |-> q.modifier, domain |-> p.domain]
  /\ q.territory \in {"", p.territory} /\ q.modifier \in {"", p.modifier}
  /\ q.codesets = <<>> \/ \E i \in DOMAIN p.codesets : q.codesets = <<p.codesets[i]>>

LEMMA HeirsInherit ==
  ASSUME NEW p, NEW q, Heir(q, p), NEW x, Heir(x, q)
  PROVE  Heir(x, p)
<1>1. q.dir = p.dir /\ q.language = p.language /\ q.domain = p.domain
  <2> DEFINE t == q.territory
             c == q.codesets
             m == q.modifier
  <2>1. q = [dir |-> p.dir, language |-> p.language, territory |-> t, codesets |-> c,
             modifier |-> m, domain |-> p.domain]
    BY DEF Heir
  <2> HIDE DEF t, c, m
  <2> QED
    BY <2>1
<1>2. /\ x.territory \in {"", q.territory} /\ q.territory \in {"", p.territory}
      /\ x.modifier \in {"", q.modifier} /\ q.modifier \in {"", p.modifier}
  BY DEF Heir
<1>3. x = [dir |-> p.dir, language |-> p.language, territory |-> x.territory,
           codesets |-> x.codesets, modifier |-> x.modifier, domain |-> p.domain]
  BY <1>1 DEF Heir
<1>4. x.codesets = <<>> \/ \E i \in DOMAIN p.codesets : x.codesets = <<p.codesets[i]>>
  <2>1. CASE x.codesets = <<>>
    BY <2>1
  <2>2. CASE \E i \in DOMAIN q.codesets : x.codesets = <<q.codesets[i]>>
    <3>1. q.codesets # <<>>
      BY <2>2
    <3>2. PICK i \in DOMAIN p.codesets : q.codesets = <<p.codesets[i]>>
      BY <3>1 DEF Heir
    <3>3. DOMAIN q.codesets = {1} /\ q.codesets[1] = p.codesets[i]
      BY <3>2
    <3>4. x.codesets = <<p.codesets[i]>>
      BY <2>2, <3>3
    <3> QED
      BY <3>4
  <2> QED
    BY <2>1, <2>2 DEF Heir
<1> QED
  BY <1>2, <1>3, <1>4 DEF Heir

\* The spellings of the codeset that a mask asks for.
Spelled(name, c, n) ==
  (IF c THEN <<name.codeset>> ELSE <<>>) \o (IF n THEN <<Normal[name.codeset]>> ELSE <<>>)

LEMMA SpelledIs ==
  ASSUME NEW name
  PROVE  /\ Spelled(name, FALSE, FALSE) = <<>>
         /\ Spelled(name, TRUE, FALSE) = <<name.codeset>>
         /\ Spelled(name, FALSE, TRUE) = <<Normal[name.codeset]>>
         /\ Spelled(name, TRUE, TRUE) = <<name.codeset, Normal[name.codeset]>>
<1> DEFINE a == name.codeset
           b == Normal[name.codeset]
<1>1. <<a>> \in Seq({a, b}) /\ <<b>> \in Seq({a, b}) /\ <<>> \in Seq({a, b})
  OBVIOUS
<1> HIDE DEF a, b
<1>2. <<>> \o <<>> = <<>> /\ <<a>> \o <<>> = <<a>> /\ <<>> \o <<b>> = <<b>>
  <2>1. \A s \in Seq({a, b}) : s \o <<>> = s /\ <<>> \o s = s
    BY ConcatEmptySeq
  <2> QED
    BY <1>1, <2>1, Zenon
<1>3. <<a>> \o <<b>> = <<a, b>>
  <2> DEFINE s == <<a>> \o <<b>>
             r == <<a, b>>
  <2>1. /\ s \in Seq({a, b}) /\ Len(s) = Len(<<a>>) + Len(<<b>>)
        /\ \A i \in 1..(Len(<<a>>) + Len(<<b>>)) :
             s[i] = IF i <= Len(<<a>>) THEN <<a>>[i] ELSE <<b>>[i - Len(<<a>>)]
    BY <1>1, ConcatProperties
  <2>2. Len(<<a>>) = 1 /\ Len(<<b>>) = 1 /\ <<a>>[1] = a /\ <<b>>[1] = b
    OBVIOUS
  <2>3. Len(s) = 2 /\ s[1] = a /\ s[2] = b
    BY <2>1, <2>2
  <2>4. r \in Seq({a, b}) /\ Len(r) = 2 /\ r[1] = a /\ r[2] = b
    OBVIOUS
  <2> HIDE DEF s, r
  <2>5. \A i \in 1..Len(s) : s[i] = r[i]
    BY <2>3, <2>4
  <2>6. s = r
    BY <2>1, <2>3, <2>4, <2>5, SeqEqual
  <2> QED
    BY <2>6 DEF s, r
<1> QED
  BY <1>2, <1>3, Zenon DEF Spelled, a, b

LEMMA LeBit ==
  /\ \A a, b : (a => b) => (IF a THEN 1 ELSE 0) <= (IF b THEN 1 ELSE 0)
  /\ \A a, b : (a => b) => (IF a THEN 2 ELSE 0) <= (IF b THEN 2 ELSE 0)
  /\ \A a, b : (a => b) => (IF a THEN 4 ELSE 0) <= (IF b THEN 4 ELSE 0)
  /\ \A a, b : (a => b) => (IF a THEN 8 ELSE 0) <= (IF b THEN 8 ELSE 0)
OBVIOUS

LEMMA InheritedIs ==
  ASSUME NEW k \in 0..15
  PROVE  /\ Successors[k] \in Seq(Inherited(k)) /\ Range(Successors[k]) = Inherited(k)
         /\ Inherited(k) \subseteq 0..15
<1>1. Inherited(k) \subseteq 0..(k - 1) /\ Inherited(k) \subseteq 0..15
  BY DEF Inherited
<1>2. IsFiniteSet(0..(k - 1))
  BY FS_Interval
<1>3. IsFiniteSet(Inherited(k)) /\ Inherited(k) \subseteq Int
  BY <1>1, <1>2, FS_Subset
<1>4. Successors[k] = Descending(Inherited(k))
  BY DEF Successors
<1> QED
  BY <1>1, <1>3, <1>4, DescendingIs

\* What a chain is: the file of the whole name and what it inherits from.
LEMMA ChainIs ==
  ASSUME NEW dir, NEW name, NEW domain, NEW k \in 0..15
  PROVE  LET chain == Chain(dir, name, k, domain)
             p     == Path(dir, name, k, domain)
         IN  /\ chain \in Seq(Range(chain)) /\ chain # <<>> /\ Head(chain) = p
             /\ p \in Range(chain) /\ \A q \in Range(chain) : q = p \/ Heir(q, p)
             /\ \A q : Heir(q, p) => q \in Range(chain)
<1> DEFINE P(j) == Path(dir, name, j, domain)
           path == [j \in 0..15 |-> P(j)]
           masks == Successors[k]
           rest  == [i \in DOMAIN masks |-> path[masks[i]]]
           chain == Chain(dir, name, k, domain)
           all   == {P(j) : j \in 0..15}
<1>1. /\ masks \in Seq(Inherited(k)) /\ Range(masks) = Inherited(k)
      /\ Inherited(k) \subseteq 0..15
  BY InheritedIs
<1>2. chain = <<path[k]>> \o rest
  BY DEF Chain
<1>18. ASSUME NEW j \in 0..15
       PROVE  /\ P(j) = [dir |-> dir, language |-> name.language,
                         territory |-> IF Has(j, 4) THEN name.territory ELSE "",
                         codesets |-> Spelled(name, Has(j, 2), Has(j, 1)),
                         modifier |-> IF Has(j, 8) THEN name.modifier ELSE "", domain |-> domain]
              /\ P(j).dir = dir /\ P(j).language = name.language /\ P(j).domain = domain
              /\ P(j).codesets = Spelled(name, Has(j, 2), Has(j, 1))
              /\ P(j).territory = (IF Has(j, 4) THEN name.territory ELSE "")
              /\ P(j).modifier = (IF Has(j, 8) THEN name.modifier ELSE "")
  <2> DEFINE t == IF Has(j, 4) THEN name.territory ELSE ""
             c == Spelled(name, Has(j, 2), Has(j, 1))
             m == IF Has(j, 8) THEN name.modifier ELSE ""
             p == P(j)
  <2>1. p = [dir |-> dir, language |-> name.language, territory |-> t, codesets |-> c,
             modifier |-> m, domain |-> domain]
    BY DEF Path, Spelled, XPG_NORM_CODESET, XPG_CODESET, XPG_TERRITORY, XPG_MODIFIER
  <2> HIDE DEF p, t, c, m
  <2>2. /\ p.dir = dir /\ p.language = name.language /\ p.domain = domain
        /\ p.territory = t /\ p.codesets = c /\ p.modifier = m
    BY <2>1
  <2> QED
    BY <2>1, <2>2 DEF p, t, c, m
<1> HIDE DEF chain, P, masks
<1>3. path[k] = P(k) /\ \A i \in DOMAIN masks : rest[i] = P(masks[i])
  <2>1. \A i \in DOMAIN masks : masks[i] \in 0..15
    BY <1>1
  <2> QED
    BY <2>1
<1>4. rest \in Seq(all) /\ DOMAIN rest = DOMAIN masks
  <2>1. DOMAIN masks = 1..Len(masks) /\ Len(masks) \in Nat /\ \A i \in 1..Len(masks) : masks[i] \in 0..15
    BY <1>1
  <2> QED
    BY <1>3, <2>1
<1> HIDE DEF rest, path
<1>5. <<P(k)>> \in Seq(all)
  OBVIOUS
<1>6. chain \in Seq(all) /\ Range(chain) = Range(<<P(k)>>) \cup Range(rest)
  BY <1>2, <1>3, <1>4, <1>5, ConcatProperties, RangeConcatenation
<1>7. Range(<<P(k)>>) = {P(k)}
  BY DEF Range
<1>8. Range(rest) = {P(j) : j \in Inherited(k)}
  BY <1>1, <1>3, <1>4 DEF Range
<1>9. Range(chain) = {P(k)} \cup {P(j) : j \in Inherited(k)}
  BY <1>6, <1>7, <1>8
<1>10. chain # <<>> /\ Head(chain) = P(k) /\ chain \in Seq(Range(chain))
  <2>1. Len(<<P(k)>>) = 1 /\ <<P(k)>>[1] = P(k) /\ Len(rest) \in Nat
    BY <1>4
  <2>2. Len(chain) = 1 + Len(rest) /\ chain[1] = P(k)
    BY <1>2, <1>3, <1>4, <1>5, <2>1, ConcatProperties
  <2>3. chain # <<>> /\ Head(chain) = chain[1]
    BY <1>6, <2>1, <2>2
  <2> QED
    BY <1>6, <2>2, <2>3, SeqOfRange
<1> DEFINE kn == Has(k, 1)
           kc == Has(k, 2)
           kt == Has(k, 4)
           km == Has(k, 8)
<1>11. /\ kn \in BOOLEAN /\ kc \in BOOLEAN /\ kt \in BOOLEAN /\ km \in BOOLEAN
       /\ k = Bits(kn, kc, kt, km)
  BY MaskBits DEF Has
<1>12. /\ P(k).dir = dir /\ P(k).language = name.language /\ P(k).domain = domain
       /\ P(k).codesets = Spelled(name, kc, kn)
       /\ P(k).territory = (IF kt THEN name.territory ELSE "")
       /\ P(k).modifier = (IF km THEN name.modifier ELSE "")
  BY <1>18
<1> HIDE DEF kn, kc, kt, km
<1> DEFINE cs == Spelled(name, kc, kn)
<1>13. /\ kc /\ ~kn => cs = <<name.codeset>>
       /\ ~kc /\ kn => cs = <<Normal[name.codeset]>>
       /\ kc /\ kn => cs = <<name.codeset, Normal[name.codeset]>>
       /\ ~kc /\ ~kn => cs = <<>>
  BY <1>11, SpelledIs
<1> HIDE DEF cs
<1>14. ASSUME NEW j \in Inherited(k)
       PROVE  Heir(P(j), P(k))
  <2> DEFINE jn == Has(j, 1)
             jc == Has(j, 2)
             jt == Has(j, 4)
             jm == Has(j, 8)
  <2>1. /\ j \in 0..15 /\ ~(jc /\ jn)
        /\ (jn => kn) /\ (jc => kc) /\ (jt => kt) /\ (jm => km)
    BY <1>1 DEF Inherited, BothCodesets, XPG_Bits, XPG_NORM_CODESET, XPG_CODESET, XPG_TERRITORY,
                XPG_MODIFIER, kn, kc, kt, km
  <2>2. /\ jn \in BOOLEAN /\ jc \in BOOLEAN /\ jt \in BOOLEAN /\ jm \in BOOLEAN
        /\ j = Bits(jn, jc, jt, jm)
    BY <2>1, MaskBits DEF Has
  <2>3. /\ P(j) = [dir |-> dir, language |-> name.language, territory |-> P(j).territory,
                   codesets |-> P(j).codesets, modifier |-> P(j).modifier, domain |-> domain]
        /\ P(j).codesets = Spelled(name, jc, jn)
        /\ P(j).territory = (IF jt THEN name.territory ELSE "")
        /\ P(j).modifier = (IF jm THEN name.modifier ELSE "")
    BY <1>18, <2>1
  <2> HIDE DEF jn, jc, jt, jm
  <2> DEFINE js == Spelled(name, jc, jn)
  <2>4. js = <<>> \/ \E i \in DOMAIN cs : js = <<cs[i]>>
    <3>1. CASE ~jc /\ ~jn
      BY <2>2, <3>1, SpelledIs
    <3>2. CASE jc /\ ~jn
      <4>1. js = <<name.codeset>> /\ kc
        BY <2>1, <2>2, <3>2, SpelledIs
      <4>2. 1 \in DOMAIN cs /\ cs[1] = name.codeset
        BY <1>11, <1>13, <4>1
      <4> QED
        BY <4>1, <4>2
    <3>3. CASE ~jc /\ jn
      <4>1. js = <<Normal[name.codeset]>> /\ kn
        BY <2>1, <2>2, <3>3, SpelledIs
      <4>2. \E i \in DOMAIN cs : cs[i] = Normal[name.codeset]
        <5>1. CASE kc
          <6>1. 2 \in DOMAIN cs /\ cs[2] = Normal[name.codeset]
            BY <1>13, <4>1, <5>1
          <6> QED
            BY <6>1
        <5>2. CASE ~kc
          <6>1. 1 \in DOMAIN cs /\ cs[1] = Normal[name.codeset]
            BY <1>13, <4>1, <5>2
          <6> QED
            BY <6>1
        <5> QED
          BY <5>1, <5>2
      <4> QED
        BY <4>1, <4>2
    <3> QED
      BY <2>1, <2>2, <3>1, <3>2, <3>3
  <2> HIDE DEF js
  <2>5. P(k).codesets = cs /\ P(j).codesets = js
    BY <1>12, <2>3 DEF cs, js
  <2>7. P(j).territory \in {"", P(k).territory} /\ P(j).modifier \in {"", P(k).modifier}
    BY <1>12, <2>1, <2>3
  <2>8. P(j) = [dir |-> P(k).dir, language |-> P(k).language, territory |-> P(j).territory,
                codesets |-> P(j).codesets, modifier |-> P(j).modifier, domain |-> P(k).domain]
    BY <1>12, <2>3
  <2> QED
    BY <2>4, <2>5, <2>7, <2>8 DEF Heir
<1>15. ASSUME NEW q, Heir(q, P(k))
       PROVE  q \in Range(chain)
  <2>1. PICK n \in BOOLEAN, c \in BOOLEAN :
           /\ q.codesets = Spelled(name, c, n) /\ (n => kn) /\ (c => kc) /\ ~(c /\ n)
    <3>1. CASE q.codesets = <<>>
      <4>1. q.codesets = Spelled(name, FALSE, FALSE)
        BY <3>1, SpelledIs
      <4> QED
        BY <4>1
    <3>2. ASSUME NEW i \in DOMAIN cs, q.codesets = <<cs[i]>>
          PROVE  \/ kc /\ q.codesets = Spelled(name, TRUE, FALSE)
                 \/ kn /\ q.codesets = Spelled(name, FALSE, TRUE)
      <4>1. CASE kc /\ ~kn
        <5>1. cs = <<name.codeset>>
          BY <1>13, <4>1
        <5>2. q.codesets = <<name.codeset>>
          BY <3>2, <5>1
        <5> QED
          BY <4>1, <5>2, SpelledIs
      <4>2. CASE ~kc /\ kn
        <5>1. cs = <<Normal[name.codeset]>>
          BY <1>13, <4>2
        <5>2. q.codesets = <<Normal[name.codeset]>>
          BY <3>2, <5>1
        <5> QED
          BY <4>2, <5>2, SpelledIs
      <4>3. CASE kc /\ kn
        <5>1. i \in 1..2 /\ cs[1] = name.codeset /\ cs[2] = Normal[name.codeset]
          <6>1. cs = <<name.codeset, Normal[name.codeset]>>
            BY <1>13, <4>3
          <6> QED
            BY <3>2, <6>1
        <5>2. q.codesets = <<name.codeset>> \/ q.codesets = <<Normal[name.codeset]>>
          BY <3>2, <5>1
        <5> QED
          BY <4>3, <5>2, SpelledIs
      <4>4. CASE ~kc /\ ~kn
        BY <1>13, <4>4
      <4> QED
        BY <1>11, <4>1, <4>2, <4>3, <4>4
    <3>3. q.codesets = <<>> \/ \E i \in DOMAIN cs : q.codesets = <<cs[i]>>
      BY <1>12, <1>15 DEF Heir, cs
    <3> QED
      BY <3>1, <3>2, <3>3
  <2>2. PICK t \in BOOLEAN : (t => kt) /\ q.territory = IF t THEN name.territory ELSE ""
    BY <1>11, <1>12, <1>15 DEF Heir
  <2>3. PICK m \in BOOLEAN : (m => km) /\ q.modifier = IF m THEN name.modifier ELSE ""
    BY <1>11, <1>12, <1>15 DEF Heir
  <2> DEFINE j == Bits(n, c, t, m)
  <2>4. j \in 0..15 /\ Has(j, 1) = n /\ Has(j, 2) = c /\ Has(j, 4) = t /\ Has(j, 8) = m
    <3>1. LET x == Bits(n, c, t, m)
          IN  x \in 0..15 /\ Has(x, 1) = n /\ Has(x, 2) = c /\ Has(x, 4) = t /\ Has(x, 8) = m
      BY BitsHas
    <3> QED
      BY <3>1
  <2>5. j <= k
    <3>1. (IF n THEN 1 ELSE 0) <= (IF kn THEN 1 ELSE 0)
      BY <2>1, Zenon, LeBit
    <3>2. (IF c THEN 2 ELSE 0) <= (IF kc THEN 2 ELSE 0)
      BY <2>1, Zenon, LeBit
    <3>3. (IF t THEN 4 ELSE 0) <= (IF kt THEN 4 ELSE 0)
      BY <2>2, Zenon, LeBit
    <3>4. (IF m THEN 8 ELSE 0) <= (IF km THEN 8 ELSE 0)
      BY <2>3, Zenon, LeBit
    <3> QED
      BY <1>11, <3>1, <3>2, <3>3, <3>4 DEF Bits
  <2> HIDE DEF j
  <2>6. j = k \/ j \in Inherited(k)
    <3>1. /\ (Has(j, 1) => Has(k, 1)) /\ (Has(j, 2) => Has(k, 2))
          /\ (Has(j, 4) => Has(k, 4)) /\ (Has(j, 8) => Has(k, 8))
          /\ ~(Has(j, 2) /\ Has(j, 1))
      BY <2>1, <2>2, <2>3, <2>4, Zenon DEF kn, kc, kt, km
    <3>2. j = k \/ j \in 0..(k - 1)
      BY <2>4, <2>5
    <3> QED
      BY <3>1, <3>2 DEF Inherited, BothCodesets, XPG_Bits, XPG_NORM_CODESET, XPG_CODESET,
                        XPG_TERRITORY, XPG_MODIFIER
  <2>7. q = P(j)
    <3>1. /\ P(j) = [dir |-> dir, language |-> name.language, territory |-> P(j).territory,
                     codesets |-> P(j).codesets, modifier |-> P(j).modifier, domain |-> domain]
          /\ P(j).codesets = Spelled(name, c, n)
          /\ P(j).territory = (IF t THEN name.territory ELSE "")
          /\ P(j).modifier = (IF m THEN name.modifier ELSE "")
      BY <1>18, <2>4
    <3>2. q = [dir |-> dir, language |-> name.language, territory |-> q.territory,
               codesets |-> q.codesets, modifier |-> q.modifier, domain |-> domain]
      BY <1>12, <1>15 DEF Heir
    <3> QED
      BY <2>1, <2>2, <2>3, <3>1, <3>2
  <2> QED
    BY <1>9, <2>6, <2>7
<1>16. \A q \in Range(chain) : q = P(k) \/ Heir(q, P(k))
  BY <1>9, <1>14
<1>17. P(k) \in Range(chain)
  BY <1>9
<1> QED
  BY <1>10, <1>15, <1>16, <1>17 DEF chain, P
-----------------------------------------------------------------------------
(* The shape of the state: what the threads hold, and the list of catalogs. *)

Fields == {"pc", "q", "domain", "found", "dirname", "encoding", "names", "chain", "text",
           "result", "raced"}

\* A catalog is at hand; a call is under way.
Looking == {"load", "read", "header", "find", "open", "store", "update"}
Places  == Looking \cup {"hit", "next", "make", "visit", "return"}

\* The names there are to try.
Names == UNION {Range(Languages(e)) : e \in Environments}

\* With an entry, the list has all entries it inherits from.
Closed(S) == \A p \in S : \A q : Heir(q, p) => q \in S

Seated(t) ==
  \/ th[t] = Idle
  \/ /\ DOMAIN th[t] = Fields /\ th[t].pc \in Places
     /\ th[t].names \in Seq(Names)
     /\ th[t].chain \in Seq(DOMAIN loaded)
     /\ th[t].pc \in Looking => th[t].chain # <<>>
     /\ th[t].pc = "make" => th[t].names # <<>> /\ Head(th[t].names) \notin NoLanguage

IsEntry(e) == DOMAIN e = {"decided", "data", "conversions"} /\ e.decided \in {-1, 0, 1}

Shape ==
  /\ env \in Environments
  /\ DOMAIN th = Threads /\ \A t \in Threads : Seated(t)
  /\ \A p \in DOMAIN loaded : IsEntry(loaded[p])
  /\ Closed(DOMAIN loaded)

LEMMA LanguagesAre ==
  ASSUME NEW e \in Environments
  PROVE  Languages(e) \in Seq(Names)
<1>1. Range(Languages(e)) \subseteq Names
  BY DEF Names
<1>2. Languages(e) \in Seq(Range(Languages(e)))
  <2>1. CASE Languages(e) = <<e.locale>>
    <3>1. Range(<<e.locale>>) = {e.locale} /\ <<e.locale>> \in Seq({e.locale})
      BY DEF Range
    <3> QED
      BY <2>1, <3>1, Zenon
  <2>2. CASE Languages(e) = e.LANGUAGE
    BY <2>2, NamesOK
  <2> QED
    BY <2>1, <2>2 DEF Languages
<1>3. \A S, T : S \subseteq T => Seq(S) \subseteq Seq(T)
  OBVIOUS
<1> QED
  BY <1>1, <1>2, <1>3

LEMMA MaskIs ==
  ASSUME NEW name
  PROVE  Mask(name) \in 0..15 /\ Written(name) \in 0..15
<1> DEFINE n == name.codeset # "" /\ Normal[name.codeset] # name.codeset
           c == name.codeset # ""
           t == name.territory # ""
           m == name.modifier # ""
           k == Bits(n, c, t, m)
<1>1. k \in 0..15
  <2>1. n \in BOOLEAN /\ c \in BOOLEAN /\ t \in BOOLEAN /\ m \in BOOLEAN
    OBVIOUS
  <2> HIDE DEF n, c, t, m
  <2>2. LET j == Bits(n, c, t, m)
        IN  j \in 0..15 /\ Has(j, 1) = n /\ Has(j, 2) = c /\ Has(j, 4) = t /\ Has(j, 8) = m
    BY <2>1, BitsHas
  <2> QED
    BY <2>2
<1>2. Mask(name) = k
  <2>1. Mask(name) = (IF t THEN 4 ELSE 0) + (IF c THEN 2 ELSE 0) + (IF n THEN 1 ELSE 0)
                       + (IF m THEN 8 ELSE 0)
    BY Zenon DEF Mask, XPG_NORM_CODESET, XPG_CODESET, XPG_TERRITORY, XPG_MODIFIER
  <2> HIDE DEF n, c, t, m
  <2>2. Bits(n, c, t, m) = (IF t THEN 4 ELSE 0) + (IF c THEN 2 ELSE 0) + (IF n THEN 1 ELSE 0)
                             + (IF m THEN 8 ELSE 0)
    BY DEF Bits
  <2> QED
    BY <2>1, <2>2
<1> HIDE DEF k
<1>3. k - (k % 2) \in 0..15
  BY <1>1
<1> QED
  BY <1>1, <1>2, <1>3 DEF Written

\* A chain is on the list as soon as its first file is.
LEMMA ChainOnList ==
  ASSUME Closed(DOMAIN loaded), NEW dir, NEW name, NEW domain, NEW k \in 0..15,
         Head(Chain(dir, name, k, domain)) \in DOMAIN loaded
  PROVE  Chain(dir, name, k, domain) \in Seq(DOMAIN loaded)
<1> DEFINE chain == Chain(dir, name, k, domain)
           p == Path(dir, name, k, domain)
<1>1. /\ chain \in Seq(Range(chain)) /\ Head(chain) = p
      /\ \A q \in Range(chain) : q = p \/ Heir(q, p)
  BY ChainIs
<1> HIDE DEF chain, p
<1>2. Range(chain) \subseteq DOMAIN loaded
  BY <1>1 DEF Closed, chain
<1>3. \A S, T : S \subseteq T => Seq(S) \subseteq Seq(T)
  OBVIOUS
<1> QED
  BY <1>1, <1>2, <1>3 DEF chain

\* Everything a chain is made of can be added to the list.
LEMMA ClosedStays ==
  ASSUME Closed(DOMAIN loaded), NEW dir, NEW name, NEW domain, NEW k \in 0..15
  PROVE  Closed(DOMAIN loaded \cup Range(Chain(dir, name, k, domain)))
<1> DEFINE chain == Chain(dir, name, k, domain)
           p == Path(dir, name, k, domain)
<1>1. /\ \A q \in Range(chain) : q = p \/ Heir(q, p)
      /\ \A q : Heir(q, p) => q \in Range(chain)
  BY ChainIs
<1> HIDE DEF chain, p
<1>2. ASSUME NEW r \in Range(chain), NEW q, Heir(q, r)
      PROVE  q \in Range(chain)
  BY <1>1, <1>2, HeirsInherit
<1> QED
  BY <1>2 DEF Closed, chain

\* What a step of one thread may do to this.
LEMMA StaysSeated ==
  ASSUME Shape, NEW t \in Threads, DOMAIN loaded \subseteq DOMAIN loaded',
         DOMAIN th' = Threads, \A u \in Threads \ {t} : th'[u] = th[u], Seated(t)'
  PROVE  DOMAIN th' = Threads /\ \A u \in Threads : Seated(u)'
<1>1. Seq(DOMAIN loaded) \subseteq Seq(DOMAIN loaded')
  OBVIOUS
<1>2. ASSUME NEW u \in Threads, u # t
      PROVE  Seated(u)'
  BY <1>1, <1>2 DEF Shape, Seated
<1> QED
  BY <1>2

LEMMA ShapeInit == Init => Shape
BY DEF Init, Shape, Seated, Closed, Idle

LEMMA ShapeRuns ==
  ASSUME Shape, NEW t \in Threads, Runs(t)
  PROVE  Shape'
<1> USE DEF Goes, Answers, Passes, At
<1>1. /\ DOMAIN th = Threads /\ Seated(t) /\ \A p \in DOMAIN loaded : IsEntry(loaded[p])
      /\ Closed(DOMAIN loaded) /\ env \in Environments
  BY DEF Shape
<1>2. DOMAIN th' = Threads /\ \A u \in Threads \ {t} : th'[u] = th[u]
  BY <1>1 DEF Runs, Hits, NextName, Makes, Visits, Loads, ReadsFile, ReadsHeader, Finds, Opens,
              Takes, Stores, Updates, Returns
<1>3. th[t] # Idle
  BY DEF Idle, Runs, Hits, NextName, Makes, Visits, Loads, ReadsFile, ReadsHeader, Finds, Opens,
         Stores, Updates, Returns
<1>4. /\ DOMAIN th[t] = Fields /\ th[t].pc \in Places
      /\ th[t].names \in Seq(Names) /\ th[t].chain \in Seq(DOMAIN loaded)
      /\ th[t].pc \in Looking => th[t].chain # <<>>
      /\ th[t].pc = "make" => th[t].names # <<>> /\ Head(th[t].names) \notin NoLanguage
  BY <1>1, <1>3 DEF Seated
<1>5. ASSUME DOMAIN loaded \subseteq DOMAIN loaded', Seated(t)', UNCHANGED env,
             \A p \in DOMAIN loaded' : IsEntry(loaded'[p]), Closed(DOMAIN loaded')
      PROVE  Shape'
  BY <1>1, <1>2, <1>5, StaysSeated DEF Shape
<1>6. ASSUME UNCHANGED <<loaded, env>>, Seated(t)'
      PROVE  Shape'
  BY <1>1, <1>5, <1>6
<1>7. CASE Hits(t)
  <2>1. Seated(t)'
    BY <1>1, <1>4, <1>7 DEF Hits, Seated, Fields, Places, Looking
  <2> QED
    BY <1>6, <1>7, <2>1 DEF Hits
<1>8. CASE NextName(t)
  <2> DEFINE name  == Head(th[t].names)
             chain == Chain(th[t].dirname, name, Written(name), th[t].domain)
  <2>1. Written(name) \in 0..15
    BY MaskIs
  <2>2. Head(chain) \in DOMAIN loaded => chain \in Seq(DOMAIN loaded)
    BY <1>1, <2>1, ChainOnList
  <2>3. /\ At(t, "next") /\ UNCHANGED <<loaded, env>>
        /\ IF th[t].names = <<>> \/ name \in NoLanguage
           THEN th' = [th EXCEPT ![t] = [th[t] EXCEPT !.pc = "return", !.result = <<>>]]
           ELSE IF Head(chain) \in DOMAIN loaded
           THEN th' = [th EXCEPT ![t] = [th[t] EXCEPT !.pc = "visit", !.names = Tail(th[t].names),
                                                      !.chain = chain]]
           ELSE th' = [th EXCEPT ![t] = [th[t] EXCEPT !.pc = "make"]]
    BY <1>8 DEF NextName
  <2> HIDE DEF chain, name
  <2>4. th[t].names # <<>> => Tail(th[t].names) \in Seq(Names)
    BY <1>4
  <2>5. Seated(t)'
    <3>1. CASE th[t].names = <<>> \/ name \in NoLanguage
      BY <1>1, <1>4, <2>3, <3>1, ZenonT(30) DEF Seated, Fields, Places, Looking
    <3>2. CASE ~(th[t].names = <<>> \/ name \in NoLanguage) /\ Head(chain) \in DOMAIN loaded
      BY <1>1, <1>4, <2>2, <2>3, <2>4, <3>2, ZenonT(30) DEF Seated, Fields, Places, Looking
    <3>3. CASE ~(th[t].names = <<>> \/ name \in NoLanguage) /\ Head(chain) \notin DOMAIN loaded
      BY <1>1, <1>4, <2>3, <3>3 DEF Seated, Fields, Places, Looking, name
    <3> QED
      BY <3>1, <3>2, <3>3
  <2> QED
    BY <1>6, <2>3, <2>5
<1>9. CASE Makes(t)
  <2> DEFINE name  == Expanded(Head(th[t].names))
             chain == Chain(th[t].dirname, name, Mask(name), th[t].domain)
  <2>1. Mask(name) \in 0..15
    BY MaskIs
  <2>2. Closed(DOMAIN loaded \cup Range(chain))
    BY <1>1, <2>1, ClosedStays
  <2>3. chain \in Seq(Range(chain))
    BY <2>1, ChainIs
  <2>4. /\ At(t, "make") /\ UNCHANGED env
        /\ loaded' = [path \in DOMAIN loaded \cup Range(chain) |->
                        IF path \in DOMAIN loaded THEN loaded[path] ELSE Entry(path)]
        /\ th' = [th EXCEPT ![t] = [th[t] EXCEPT !.pc = "visit", !.names = Tail(th[t].names),
                                                 !.chain = chain]]
    BY <1>9 DEF Makes
  <2> HIDE DEF chain, name
  <2>5. /\ DOMAIN loaded' = DOMAIN loaded \cup Range(chain)
        /\ \A p \in DOMAIN loaded' : loaded'[p] = IF p \in DOMAIN loaded THEN loaded[p] ELSE Entry(p)
    BY <2>4
  <2>6. \A p : IsEntry(Entry(p))
    BY DEF IsEntry, Entry
  <2>7. \A p \in DOMAIN loaded' : IsEntry(loaded'[p])
    BY <1>1, <2>5, <2>6
  <2>8. chain \in Seq(DOMAIN loaded')
    <3>1. \A S, T : S \subseteq T => Seq(S) \subseteq Seq(T)
      OBVIOUS
    <3> QED
      BY <2>3, <2>5, <3>1
  <2>9. Tail(th[t].names) \in Seq(Names)
    BY <1>4, <2>4
  <2>10. Seated(t)'
    BY <1>1, <1>4, <2>4, <2>8, <2>9 DEF Seated, Fields, Places, Looking
  <2> QED
    BY <1>5, <2>2, <2>4, <2>5, <2>7, <2>10
<1>10. CASE Visits(t)
  <2>1. Seated(t)'
    BY <1>1, <1>4, <1>10 DEF Visits, Seated, Fields, Places, Looking
  <2> QED
    BY <1>6, <1>10, <2>1 DEF Visits
<1>11. th[t].pc \in Looking => Here(t) \in DOMAIN loaded
  BY <1>4 DEF Here
<1>12. CASE Loads(t)
  <2>1. Seated(t)' /\ DOMAIN loaded' = DOMAIN loaded
    BY <1>1, <1>4, <1>12 DEF Loads, Seated, Fields, Places, Looking
  <2>2. \A p \in DOMAIN loaded' : IsEntry(loaded'[p])
    BY <1>1, <1>12 DEF Loads, IsEntry
  <2> QED
    BY <1>1, <1>5, <1>12, <2>1, <2>2 DEF Loads
<1>13. CASE ReadsFile(t)
  <2>1. Seated(t)' /\ DOMAIN loaded' = DOMAIN loaded
    BY <1>1, <1>4, <1>13 DEF ReadsFile, Seated, Fields, Places, Looking
  <2>2. \A p \in DOMAIN loaded' : IsEntry(loaded'[p])
    BY <1>1, <1>13 DEF ReadsFile, IsEntry
  <2> QED
    BY <1>1, <1>5, <1>13, <2>1, <2>2 DEF ReadsFile
<1>14. CASE ReadsHeader(t)
  <2>1. Seated(t)' /\ DOMAIN loaded' = DOMAIN loaded
    BY <1>1, <1>4, <1>14 DEF ReadsHeader, Seated, Fields, Places, Looking
  <2>2. \A p \in DOMAIN loaded' : IsEntry(loaded'[p])
    BY <1>1, <1>14 DEF ReadsHeader, IsEntry
  <2> QED
    BY <1>1, <1>5, <1>14, <2>1, <2>2 DEF ReadsHeader
<1>15. ASSUME NEW text, th[t].pc \in {"find", "open"}, Takes(t, text), DOMAIN loaded' = DOMAIN loaded
       PROVE  Seated(t)'
  <2>1. th[t].chain # <<>> /\ Tail(th[t].chain) \in Seq(DOMAIN loaded)
    <3>1. th[t].chain # <<>>
      BY <1>4, <1>15 DEF Looking
    <3>2. \A S : \A s \in Seq(S) : s # <<>> => Tail(s) \in Seq(S)
      OBVIOUS
    <3> QED
      BY <1>4, <3>1, <3>2, Zenon
  <2>2. th[t].chain \in Seq(DOMAIN loaded') /\ Tail(th[t].chain) \in Seq(DOMAIN loaded')
    BY <1>4, <1>15, <2>1
  <2>3. CASE text = NULL
    BY <1>1, <1>4, <1>15, <2>2, <2>3 DEF Takes, Seated, Fields, Places, Looking
  <2>4. CASE text # NULL
    BY <1>1, <1>4, <1>15, <2>1, <2>2, <2>4, ZenonT(30) DEF Takes, Seated, Fields, Places, Looking
  <2> QED
    BY <2>3, <2>4
<1>16. CASE Finds(t)
  <2>1. CASE th' = [th EXCEPT ![t] = [th[t] EXCEPT !.pc = "open"]]
    <3>1. Seated(t)'
      BY <1>1, <1>4, <1>16, <2>1 DEF Finds, Seated, Fields, Places, Looking
    <3> QED
      BY <1>6, <1>16, <3>1 DEF Finds
  <2>2. CASE Takes(t, Translation(loaded[Here(t)].data, th[t].q.msgid, th[t].encoding))
    <3>1. Seated(t)'
      BY <1>15, <1>16, <2>2 DEF Finds
    <3> QED
      BY <1>6, <1>16, <3>1 DEF Finds
  <2> QED
    BY <1>16, <2>1, <2>2 DEF Finds
<1>17. CASE Opens(t)
  <2>1. /\ At(t, "open") /\ UNCHANGED env /\ \E text : Takes(t, text)
        /\ loaded' = [loaded EXCEPT ![Here(t)].conversions = @ \cup {th[t].encoding}]
    BY <1>17 DEF Opens
  <2>2. DOMAIN loaded' = DOMAIN loaded
    BY <2>1
  <2>3. Seated(t)'
    BY <1>15, <2>1, <2>2
  <2>4. \A p \in DOMAIN loaded' : IsEntry(loaded'[p])
    BY <1>1, <2>1, <2>2 DEF IsEntry
  <2> QED
    BY <1>1, <1>5, <2>1, <2>2, <2>3, <2>4
<1>18. CASE Stores(t)
  <2>1. Seated(t)'
    <3>1. CASE th[t].found
      BY <1>1, <1>4, <1>18, <3>1 DEF Stores, Seated, Fields, Places, Looking
    <3>2. CASE ~th[t].found
      <4>1. /\ th' = [th EXCEPT ![t] = [th[t] EXCEPT !.pc = "return",
                                                    !.result = Chosen(Here(t), th[t].text)]]
            /\ UNCHANGED loaded
        BY <1>18, <3>2 DEF Stores
      <4> QED
        BY <1>1, <1>4, <4>1 DEF Seated, Fields, Places, Looking
    <3> QED
      BY <3>1, <3>2
  <2> QED
    BY <1>6, <1>18, <2>1 DEF Stores
<1>19. CASE Updates(t)
  <2>1. Seated(t)'
    BY <1>1, <1>4, <1>19 DEF Updates, Seated, Fields, Places, Looking
  <2> QED
    BY <1>6, <1>19, <2>1 DEF Updates
<1>20. CASE Returns(t)
  <2>1. Seated(t)'
    BY <1>1, <1>20 DEF Returns, Seated
  <2> QED
    BY <1>6, <1>20, <2>1 DEF Returns
<1> QED
  BY <1>7, <1>8, <1>9, <1>10, <1>12, <1>13, <1>14, <1>16, <1>17, <1>18, <1>19, <1>20 DEF Runs

LEMMA ShapeNext == Shape /\ [Next]_vars => Shape'
<1> SUFFICES ASSUME Shape, [Next]_vars
             PROVE  Shape'
  OBVIOUS
<1>1. ASSUME UNCHANGED <<loaded, th>>, env' \in Environments
      PROVE  Shape'
  BY <1>1 DEF Shape, Seated
<1>2. CASE UNCHANGED vars
  BY <1>1, <1>2 DEF vars, Shape
<1>3. ASSUME NEW t \in Threads, Runs(t)
      PROVE  Shape'
  BY <1>3, ShapeRuns
<1>4. ASSUME NEW t \in Threads, NEW q \in Questions, Calls(t, q)
      PROVE  Shape'
  <2>1. Languages(env) \in Seq(Names)
    BY LanguagesAre DEF Shape
  <2>2. /\ DOMAIN th' = Threads /\ (\A u \in Threads \ {t} : th'[u] = th[u])
        /\ UNCHANGED <<loaded, env>>
    BY <1>4 DEF Calls, Shape, Goes
  <2>3. Seated(t)'
    BY <1>4, <2>1 DEF Calls, Shape, Goes, Seated, Fields, Places, Looking
  <2> QED
    BY <2>2, <2>3, StaysSeated DEF Shape
<1>5. ASSUME NEW d, NEW b, Binds(d, b)
      PROVE  Shape'
  BY <1>1, <1>5 DEF Binds, Shape
<1>6. ASSUME NEW d \in Domains, TextDomain(d)
      PROVE  Shape'
  BY <1>1, <1>6 DEF TextDomain, Shape
<1>7. ASSUME NEW e \in Environments, SetsEnvironment(e)
      PROVE  Shape'
  BY <1>1, <1>7 DEF SetsEnvironment
<1> QED
  BY <1>2, <1>3, <1>4, <1>5, <1>6, <1>7 DEF Next, BindDir, BindCodeset

LEMMA ShapeHolds == Spec => []Shape
BY ShapeInit, ShapeNext, PTL DEF Spec
-----------------------------------------------------------------------------
(* Loading a catalog. *)

Loader(t) == At(t, "read") \/ At(t, "header")

\* A thread that loads a catalog has the lock, once, and what there is of the contents;
\* one that looks into a catalog or has done so has it loaded.
Sure(t) ==
  /\ Loader(t) => /\ lock = [owner |-> t, depth |-> 1]
                  /\ loaded[Here(t)].decided = -1
                  /\ loaded[Here(t)].data = IF At(t, "read") THEN NULL ELSE Contents(Here(t))
  /\ th[t].pc \in {"find", "open", "store", "update"} => loaded[Here(t)].decided = 1

\* A loaded catalog has the contents of its file.
Settled(p) ==
  IF loaded[p].decided = 1 THEN loaded[p].data = Contents(p) ELSE Len(p.codesets) # 2

Loading ==
  /\ \A t \in Threads : Sure(t)
  /\ \A p \in DOMAIN loaded : Settled(p)
  /\ lock = Free \/ \E t \in Threads : Loader(t)
  /\ \A p \in DOMAIN loaded :
       loaded[p].decided = -1 => \E t \in Threads : Loader(t) /\ Here(t) = p

LEMMA LoadingInit == Init => Loading
BY DEF Init, Loading, Sure, Loader, At, Idle

\* Where a thread looks is on the list.
LEMMA HereIsOn ==
  ASSUME Shape, NEW t \in Threads, th[t].pc \in Looking
  PROVE  Here(t) \in DOMAIN loaded /\ IsEntry(loaded[Here(t)]) /\ DOMAIN th[t] = Fields
         /\ th[t].chain \in Seq(DOMAIN loaded) /\ th[t].chain # <<>>
<1>1. th[t] # Idle
  BY DEF Idle, Looking
<1>2. DOMAIN th[t] = Fields /\ th[t].chain \in Seq(DOMAIN loaded) /\ th[t].chain # <<>>
  BY <1>1 DEF Shape, Seated
<1>3. \A S : \A s \in Seq(S) : s # <<>> => Head(s) \in S
  OBVIOUS
<1> QED
  BY <1>2, <1>3, Zenon DEF Shape, Here

\* There is one loader at a time.
LEMMA OneLoader ==
  ASSUME Loading, NEW t \in Threads, NEW u \in Threads, Loader(t), Loader(u)
  PROVE  t = u
BY DEF Loading, Sure

LEMMA NoLoaderIsFree ==
  ASSUME Loading, NEW t \in Threads, ~Loader(t), MayLock(t)
  PROVE  lock = Free /\ \A u \in Threads : ~Loader(u)
<1>1. ASSUME NEW u \in Threads, Loader(u)
      PROVE  FALSE
  <2>1. lock.owner = u
    BY <1>1 DEF Loading, Sure
  <2> QED
    BY <1>1, <2>1, ThreadsOK DEF MayLock
<1> QED
  BY <1>1 DEF Loading

\* A step that leaves the catalogs and the lock alone.
LEMMA LoadingStays ==
  ASSUME Loading, NEW t \in Threads, UNCHANGED <<loaded, lock>>,
         \A u \in Threads \ {t} : th'[u] = th[u], ~Loader(t), ~Loader(t)', Sure(t)'
  PROVE  Loading'
<1>1. ASSUME NEW u \in Threads, u # t
      PROVE  Sure(u)' /\ Loader(u)' = Loader(u) /\ Here(u)' = Here(u)
  BY <1>1 DEF Loading, Sure, Loader, At, Here
<1>2. \A p \in DOMAIN loaded' : Settled(p)'
  BY DEF Loading, Settled
<1>3. lock' = Free \/ \E u \in Threads : Loader(u)'
  BY <1>1 DEF Loading
<1>4. \A p \in DOMAIN loaded' :
        loaded'[p].decided = -1 => \E u \in Threads : Loader(u)' /\ Here(u)' = p
  BY <1>1 DEF Loading
<1> QED
  BY <1>1, <1>2, <1>3, <1>4 DEF Loading

LEMMA LoadingRuns ==
  ASSUME Shape, Loading, NEW t \in Threads, Runs(t)
  PROVE  Loading'
<1>1. /\ DOMAIN th = Threads /\ Seated(t)
      /\ \A p \in DOMAIN loaded : IsEntry(loaded[p])
  BY DEF Shape
<1>2. DOMAIN th' = Threads /\ \A u \in Threads \ {t} : th'[u] = th[u]
  BY <1>1 DEF Goes, Answers, Passes, At, Runs, Hits, NextName, Makes, Visits, Loads, ReadsFile,
              ReadsHeader, Finds, Opens, Takes, Stores, Updates, Returns
<1>3. th[t] # Idle
  BY DEF At, Idle, Runs, Hits, NextName, Makes, Visits, Loads, ReadsFile, ReadsHeader, Finds, Opens,
         Stores, Updates, Returns
<1>4. DOMAIN th[t] = Fields /\ th[t].pc \in Places
  BY <1>1, <1>3 DEF Seated
<1>5. th[t].pc \in Looking => Here(t) \in DOMAIN loaded /\ IsEntry(loaded[Here(t)])
  BY HereIsOn
<1>6. Sure(t) /\ \A p \in DOMAIN loaded : Settled(p)
  BY DEF Loading
<1>7. ASSUME NEW u \in Threads, u # t
      PROVE  /\ Loader(u)' = Loader(u) /\ Here(u)' = Here(u) /\ (th[u].pc)' = th[u].pc
             /\ (Loader(u) => Here(u) \in DOMAIN loaded)
             /\ th[u].pc \in {"find", "open", "store", "update"} => Here(u) \in DOMAIN loaded
  <2>1. th[u].pc \in Looking => Here(u) \in DOMAIN loaded
    BY HereIsOn
  <2> QED
    BY <1>2, <1>7, <2>1 DEF Loader, At, Here, Looking
<1>10. ASSUME UNCHANGED <<loaded, lock>>, th[t].pc \notin {"read", "header"},
              th'[t].pc \notin {"read", "header", "find", "open", "store", "update"}
       PROVE  Loading'
  BY <1>2, <1>10, LoadingStays DEF Sure, Loader, At
<1>11. ASSUME UNCHANGED <<loaded, lock>>, th[t].pc \notin {"read", "header"},
              th'[t].pc \in {"find", "open", "store", "update"},
              Here(t)' = Here(t), loaded[Here(t)].decided = 1
       PROVE  Loading'
  BY <1>2, <1>11, LoadingStays DEF Sure, Loader, At
<1>12. CASE Hits(t)
  BY <1>1, <1>4, <1>10, <1>12 DEF Hits, At, Goes, Answers, Fields
<1>13. CASE NextName(t)
  <2>1. /\ UNCHANGED <<loaded, lock>> /\ th[t].pc = "next" /\ th'[t].pc \in {"return", "visit", "make"}
    BY <1>1, <1>4, <1>13 DEF NextName, At, Goes, Answers, Fields
  <2> QED
    BY <1>10, <2>1
<1>14. CASE Makes(t)
  <2> DEFINE name  == Expanded(Head(th[t].names))
             chain == Chain(th[t].dirname, name, Mask(name), th[t].domain)
  <2>1. /\ th[t].pc = "make" /\ th'[t].pc = "visit" /\ UNCHANGED lock
        /\ loaded' = [path \in DOMAIN loaded \cup Range(chain) |->
                        IF path \in DOMAIN loaded THEN loaded[path] ELSE Entry(path)]
    BY <1>1, <1>4, <1>14 DEF Makes, At, Goes, Fields
  <2> HIDE DEF chain
  <2>2. ~Loader(t) /\ ~Loader(t)' /\ Sure(t)'
    BY <2>1 DEF Loader, At, Sure
  <2>3. ASSUME NEW u \in Threads, u # t
        PROVE  Sure(u)'
    BY <1>7, <2>1, <2>3 DEF Loading, Sure, At, Contents
  <2>4. \A p : /\ Entry(p).decided = (IF Len(p.codesets) = 2 THEN 1 ELSE 0)
               /\ Entry(p).data = NULL
    BY DEF Entry
  <2>5. \A p : Len(p.codesets) = 2 => Contents(p) = NULL
    BY DEF Contents
  <2>6. ASSUME NEW p \in DOMAIN loaded'
        PROVE  Settled(p)'
    <3>1. CASE p \in DOMAIN loaded
      BY <1>6, <2>1, <3>1 DEF Settled, Contents
    <3>2. CASE p \notin DOMAIN loaded
      <4>1. loaded'[p] = Entry(p)
        BY <2>1, <2>6, <3>2
      <4> QED
        BY <2>4, <2>5, <4>1 DEF Settled, Contents
    <3> QED
      BY <3>1, <3>2
  <2>7. lock' = Free \/ \E u \in Threads : Loader(u)'
    BY <1>7, <2>1, <2>2 DEF Loading
  <2>8. ASSUME NEW p \in DOMAIN loaded', loaded'[p].decided = -1
        PROVE  \E u \in Threads : Loader(u)' /\ Here(u)' = p
    <3>1. p \in DOMAIN loaded /\ loaded[p].decided = -1
      BY <2>1, <2>4, <2>8
    <3> QED
      BY <1>7, <2>2, <3>1 DEF Loading
  <2> QED
    BY <2>2, <2>3, <2>6, <2>7, <2>8 DEF Loading
<1>15. CASE Visits(t)
  <2>1. /\ UNCHANGED <<loaded, lock>> /\ th[t].pc = "visit" /\ th[t].chain = th'[t].chain
    BY <1>1, <1>4, <1>15 DEF Visits, At, Goes, Fields
  <2>2. CASE th'[t].pc \in {"next", "load"}
    BY <1>10, <2>1, <2>2
  <2>3. CASE th'[t].pc = "find" /\ th[t].chain # <<>> /\ ~NotLoaded(Here(t))
    <3>1. th[t].chain \in Seq(DOMAIN loaded)
      BY <1>1, <1>3 DEF Seated
    <3>2. \A S : \A s \in Seq(S) : s # <<>> => Head(s) \in S
      OBVIOUS
    <3>3. Here(t) \in DOMAIN loaded
      BY <2>3, <3>1, <3>2, Zenon DEF Here
    <3>4. loaded[Here(t)].decided \in {-1, 0, 1} /\ ~(loaded[Here(t)].decided <= 0)
      BY <1>1, <2>3, <3>3 DEF IsEntry, NotLoaded
    <3>5. loaded[Here(t)].decided = 1
      BY <3>4
    <3>6. Here(t)' = Here(t)
      BY <2>1 DEF Here
    <3> QED
      BY <1>11, <2>1, <2>3, <3>5, <3>6
  <2>4. th'[t].pc \in {"next", "load"} \/ (th'[t].pc = "find" /\ th[t].chain # <<>> /\ ~NotLoaded(Here(t)))
    BY <1>1, <1>4, <1>15 DEF Visits, At, Goes, Fields
  <2> QED
    BY <2>2, <2>3, <2>4
<1>16. CASE Loads(t)
  <2>1. th[t].pc = "load" /\ ~Loader(t) /\ MayLock(t) /\ Here(t)' = Here(t) /\ Here(t) \in DOMAIN loaded
    BY <1>1, <1>4, <1>5, <1>16 DEF Loads, At, Goes, Loader, Here, Fields, Looking
  <2>2. lock = Free /\ \A u \in Threads : ~Loader(u)
    BY <2>1, NoLoaderIsFree
  <2>3. loaded[Here(t)].decided # -1
    BY <2>1, <2>2 DEF Loading
  <2>4. CASE loaded[Here(t)].decided # 0
    <3>1. loaded[Here(t)].decided = 1
      BY <1>5, <2>1, <2>3, <2>4 DEF IsEntry, Looking
    <3>2. UNCHANGED <<loaded, lock>> /\ th'[t].pc = "find"
      BY <1>1, <1>4, <1>16, <2>4 DEF Loads, Goes, Fields
    <3> QED
      BY <1>11, <2>1, <3>1, <3>2
  <2>5. CASE loaded[Here(t)].decided = 0
    <3>1. /\ lock' = [owner |-> t, depth |-> 1] /\ th'[t].pc = "read"
          /\ DOMAIN loaded' = DOMAIN loaded
          /\ loaded'[Here(t)].decided = -1 /\ loaded'[Here(t)].data = NULL
          /\ \A p \in DOMAIN loaded \ {Here(t)} : loaded'[p] = loaded[p]
      <4>1. /\ lock' = [owner |-> t, depth |-> lock.depth + 1]
            /\ loaded' = [loaded EXCEPT ![Here(t)].decided = -1, ![Here(t)].data = NULL]
            /\ th' = [th EXCEPT ![t] = [th[t] EXCEPT !.pc = "read"]]
        BY <1>16, <2>5 DEF Loads, Goes
      <4>2. lock.depth + 1 = 1
        BY <2>2 DEF Free
      <4>3. DOMAIN loaded[Here(t)] = {"decided", "data", "conversions"}
        BY <1>5, <2>1 DEF IsEntry, Looking
      <4> QED
        BY <1>1, <1>4, <2>1, <4>1, <4>2, <4>3 DEF Fields
    <3>2. Loader(t)' /\ Sure(t)'
      BY <2>1, <3>1 DEF Loader, At, Sure
    <3>3. ASSUME NEW u \in Threads, u # t
          PROVE  Sure(u)'
      BY <1>7, <2>2, <2>5, <3>1, <3>3 DEF Loading, Sure
    <3>4. ASSUME NEW p \in DOMAIN loaded'
          PROVE  Settled(p)' /\ (loaded'[p].decided = -1 => p = Here(t))
      <4>1. CASE p = Here(t)
        BY <1>6, <2>1, <2>5, <3>1, <4>1 DEF Settled
      <4>2. CASE p # Here(t)
        BY <1>6, <2>2, <3>1, <3>4, <4>2 DEF Settled, Contents, Loading
      <4> QED
        BY <4>1, <4>2
    <3> QED
      BY <2>1, <3>2, <3>3, <3>4 DEF Loading
  <2> QED
    BY <2>4, <2>5
<1>17. ASSUME Loader(t), Here(t)' = Here(t), DOMAIN loaded' = DOMAIN loaded,
              \A p \in DOMAIN loaded \ {Here(t)} : loaded'[p] = loaded[p], Here(t) \in DOMAIN loaded,
              \/ lock' = Free /\ th'[t].pc = "find" /\ loaded'[Here(t)].decided = 1
                   /\ loaded'[Here(t)].data = Contents(Here(t))
              \/ UNCHANGED lock /\ th'[t].pc = "header" /\ loaded'[Here(t)].decided = -1
                   /\ loaded'[Here(t)].data = Contents(Here(t))
       PROVE  Loading'
  <2>1. \A u \in Threads \ {t} : ~Loader(u) /\ ~Loader(u)'
    BY <1>7, <1>17, OneLoader
  <2>2. ASSUME NEW u \in Threads, u # t
        PROVE  Sure(u)'
    BY <1>7, <1>17, <2>1, <2>2 DEF Loading, Sure
  <2>3. Sure(t)'
    BY <1>6, <1>17 DEF Sure, Loader, At
  <2>4. ASSUME NEW p \in DOMAIN loaded'
        PROVE  Settled(p)' /\ (loaded'[p].decided = -1 => Loader(t)' /\ p = Here(t))
    <3>1. CASE p = Here(t)
      <4>1. Len(p.codesets) # 2
        BY <1>6, <1>17, <3>1 DEF Settled, Sure
      <4> QED
        BY <1>17, <3>1, <4>1 DEF Settled, Loader, At
    <3>2. CASE p # Here(t)
      <4>1. loaded'[p] = loaded[p] /\ p \in DOMAIN loaded
        BY <1>17, <2>4, <3>2
      <4>2. loaded[p].decided # -1
        BY <2>1, <3>2, <4>1 DEF Loading
      <4> QED
        BY <1>6, <4>1, <4>2 DEF Settled, Contents
    <3> QED
      BY <3>1, <3>2
  <2>5. lock' = Free \/ \E u \in Threads : Loader(u)'
    BY <1>17 DEF Loader, At
  <2> QED
    BY <1>17, <2>2, <2>3, <2>4, <2>5 DEF Loading
<1>18. Loader(t) => lock = [owner |-> t, depth |-> 1] /\ Unlocked = Free
  BY <1>6 DEF Sure, Unlocked
<1>19. CASE ReadsFile(t)
  <2> DEFINE data == IF Here(t) \in DOMAIN Files THEN Loaded(Files[Here(t)]) ELSE NULL
  <2>1. th[t].pc = "read" /\ Loader(t) /\ Here(t) \in DOMAIN loaded
        /\ DOMAIN loaded[Here(t)] = {"decided", "data", "conversions"}
    BY <1>5, <1>19 DEF ReadsFile, At, Loader, Looking, IsEntry
  <2>2. loaded[Here(t)].decided = -1 /\ loaded[Here(t)].data = NULL /\ Len(Here(t).codesets) # 2
    BY <1>6, <2>1 DEF Sure, Settled, At
  <2>3. data = Contents(Here(t))
    BY <2>2 DEF Contents
  <2>4. /\ data = NULL => /\ loaded' = [loaded EXCEPT ![Here(t)].decided = 1] /\ lock' = Free
                          /\ th' = [th EXCEPT ![t] = [th[t] EXCEPT !.pc = "find"]]
        /\ data # NULL => /\ loaded' = [loaded EXCEPT ![Here(t)].data = data] /\ UNCHANGED lock
                          /\ th' = [th EXCEPT ![t] = [th[t] EXCEPT !.pc = "header"]]
    BY <1>18, <1>19, <2>1 DEF ReadsFile, Goes
  <2> HIDE DEF data
  <2>5. Here(t)' = Here(t) /\ DOMAIN loaded' = DOMAIN loaded
        /\ \A p \in DOMAIN loaded \ {Here(t)} : loaded'[p] = loaded[p]
    BY <1>1, <1>4, <2>1, <2>4 DEF Here, Fields
  <2>6. \/ lock' = Free /\ th'[t].pc = "find" /\ loaded'[Here(t)].decided = 1
             /\ loaded'[Here(t)].data = Contents(Here(t))
        \/ UNCHANGED lock /\ th'[t].pc = "header" /\ loaded'[Here(t)].decided = -1
             /\ loaded'[Here(t)].data = Contents(Here(t))
    BY <1>1, <1>4, <2>1, <2>2, <2>3, <2>4 DEF Fields
  <2> QED
    BY <1>17, <2>1, <2>5, <2>6
<1>20. CASE ReadsHeader(t)
  <2>1. th[t].pc = "header" /\ Loader(t) /\ Here(t) \in DOMAIN loaded
        /\ DOMAIN loaded[Here(t)] = {"decided", "data", "conversions"}
    BY <1>5, <1>20 DEF ReadsHeader, At, Loader, Looking, IsEntry
  <2>2. loaded[Here(t)].data = Contents(Here(t))
    BY <1>6, <2>1 DEF Sure, At
  <2>3. /\ loaded' = [loaded EXCEPT ![Here(t)].decided = 1] /\ lock' = Free
        /\ th' = [th EXCEPT ![t] = [th[t] EXCEPT !.pc = "find"]]
    BY <1>18, <1>20, <2>1 DEF ReadsHeader, Goes
  <2>4. Here(t)' = Here(t) /\ DOMAIN loaded' = DOMAIN loaded
        /\ \A p \in DOMAIN loaded \ {Here(t)} : loaded'[p] = loaded[p]
    BY <1>1, <1>4, <2>1, <2>3 DEF Here, Fields
  <2>5. lock' = Free /\ th'[t].pc = "find" /\ loaded'[Here(t)].decided = 1
          /\ loaded'[Here(t)].data = Contents(Here(t))
    BY <1>1, <1>4, <2>1, <2>2, <2>3 DEF Fields
  <2> QED
    BY <1>17, <2>1, <2>4, <2>5
<1>21. ASSUME NEW text, th[t].pc \in {"find", "open"}, Takes(t, text)
       PROVE  \/ th'[t].pc = "visit"
              \/ th'[t].pc = "store" /\ Here(t)' = Here(t)
  BY <1>1, <1>4, <1>21 DEF Takes, Passes, Goes, Fields, Here
<1>22. CASE Finds(t)
  <2>1. UNCHANGED <<loaded, lock>> /\ th[t].pc = "find" /\ loaded[Here(t)].decided = 1
    BY <1>6, <1>22 DEF Finds, At, Sure
  <2>2. \/ th'[t].pc = "visit"
        \/ th'[t].pc \in {"store", "open"} /\ Here(t)' = Here(t)
    <3>1. CASE th' = [th EXCEPT ![t] = [th[t] EXCEPT !.pc = "open"]]
      BY <1>1, <1>4, <3>1 DEF Fields, Here
    <3>2. CASE Takes(t, Translation(loaded[Here(t)].data, th[t].q.msgid, th[t].encoding))
      BY <1>21, <2>1, <3>2
    <3> QED
      BY <1>22, <3>1, <3>2 DEF Finds, Goes
  <2> QED
    BY <1>10, <1>11, <2>1, <2>2
<1>23. CASE Opens(t)
  <2>1. /\ th[t].pc = "open" /\ loaded[Here(t)].decided = 1 /\ UNCHANGED lock
        /\ Here(t) \in DOMAIN loaded /\ DOMAIN loaded[Here(t)] = {"decided", "data", "conversions"}
        /\ loaded' = [loaded EXCEPT ![Here(t)].conversions = @ \cup {th[t].encoding}]
        /\ \E text : Takes(t, text)
    BY <1>5, <1>6, <1>23 DEF Opens, At, Sure, Looking, IsEntry
  <2>2. \/ th'[t].pc = "visit"
        \/ th'[t].pc = "store" /\ Here(t)' = Here(t)
    BY <1>21, <2>1
  <2>3. /\ DOMAIN loaded' = DOMAIN loaded
        /\ \A p \in DOMAIN loaded : loaded'[p].decided = loaded[p].decided /\ loaded'[p].data = loaded[p].data
    BY <2>1
  <2>4. ~Loader(t) /\ ~Loader(t)' /\ Sure(t)'
    BY <2>1, <2>2, <2>3 DEF Loader, At, Sure
  <2>5. ASSUME NEW u \in Threads, u # t
        PROVE  Sure(u)'
    BY <1>7, <2>1, <2>3, <2>5 DEF Loading, Sure, At, Contents
  <2>6. \A p \in DOMAIN loaded' : Settled(p)'
    BY <1>6, <2>3 DEF Settled, Contents
  <2>7. lock' = Free \/ \E u \in Threads : Loader(u)'
    BY <1>7, <2>1, <2>4 DEF Loading
  <2>8. \A p \in DOMAIN loaded' :
          loaded'[p].decided = -1 => \E u \in Threads : Loader(u)' /\ Here(u)' = p
    BY <1>7, <2>3, <2>4 DEF Loading
  <2> QED
    BY <2>4, <2>5, <2>6, <2>7, <2>8 DEF Loading
<1>24. CASE Stores(t)
  <2>1. UNCHANGED <<loaded, lock>> /\ th[t].pc = "store" /\ loaded[Here(t)].decided = 1
    BY <1>6, <1>24 DEF Stores, At, Sure
  <2>2. \/ th'[t].pc = "return"
        \/ th'[t].pc = "update" /\ Here(t)' = Here(t)
    <3>1. CASE th' = [th EXCEPT ![t] = [th[t] EXCEPT !.pc = "update"]]
      BY <1>1, <1>4, <3>1 DEF Fields, Here
    <3>2. CASE Answers(t, th[t], Chosen(Here(t), th[t].text))
      BY <1>1, <1>4, <3>2 DEF Answers, Goes, Fields
    <3> QED
      BY <1>24, <3>1, <3>2 DEF Stores, Goes
  <2> QED
    BY <1>10, <1>11, <2>1, <2>2
<1>25. CASE Updates(t)
  BY <1>1, <1>4, <1>10, <1>25 DEF Updates, At, Goes, Answers, Fields
<1>26. CASE Returns(t)
  BY <1>1, <1>4, <1>10, <1>26 DEF Returns, At, Goes, Idle
<1> QED
  BY <1>12, <1>13, <1>14, <1>15, <1>16, <1>19, <1>20, <1>22, <1>23, <1>24, <1>25, <1>26 DEF Runs

LEMMA LoadingNext == Shape /\ Loading /\ [Next]_vars => Loading'
<1> SUFFICES ASSUME Shape, Loading, [Next]_vars
             PROVE  Loading'
  OBVIOUS
<1>1. ASSUME UNCHANGED <<loaded, lock, th>>
      PROVE  Loading'
  BY <1>1 DEF Loading, Sure, Settled, Loader, At, Here, Contents
<1>2. CASE UNCHANGED vars
  BY <1>1, <1>2 DEF vars
<1>3. ASSUME NEW t \in Threads, Runs(t)
      PROVE  Loading'
  BY <1>3, LoadingRuns
<1>4. ASSUME NEW t \in Threads, NEW q \in Questions, Calls(t, q)
      PROVE  Loading'
  <2>1. DOMAIN th = Threads
    BY DEF Shape
  <2>2. /\ UNCHANGED <<loaded, lock>> /\ th[t].pc = "idle" /\ th'[t].pc \in {"hit", "next"}
        /\ \A u \in Threads \ {t} : th'[u] = th[u]
    BY <1>4, <2>1 DEF Calls, At, Goes
  <2> QED
    BY <2>2, LoadingStays DEF Sure, Loader, At
<1>5. ASSUME NEW d, NEW b, Binds(d, b)
      PROVE  Loading'
  BY <1>1, <1>5 DEF Binds
<1>6. ASSUME NEW d \in Domains, TextDomain(d)
      PROVE  Loading'
  BY <1>1, <1>6 DEF TextDomain
<1>7. ASSUME NEW e \in Environments, SetsEnvironment(e)
      PROVE  Loading'
  BY <1>1, <1>7 DEF SetsEnvironment
<1> QED
  BY <1>2, <1>3, <1>4, <1>5, <1>6, <1>7 DEF Next, BindDir, BindCodeset

LEMMA LoadingHolds == Spec => []Loading
BY LoadingInit, LoadingNext, ShapeHolds, PTL DEF Spec

(* No thread looks into a catalog that another one is still loading, whatever the     *)
(* threads, the files and the calls are: _nl_load_domain's recursive lock, and its    *)
(* decided = -1 for the time of loading.                                              *)
THEOREM LooksAtLoaded == Spec => []UsesOnlyLoaded
<1>1. Loading => UsesOnlyLoaded
  BY DEF Loading, Sure, UsesOnlyLoaded, At
<1> QED
  BY <1>1, LoadingHolds, PTL
-----------------------------------------------------------------------------
(* What a call should answer. *)

\* Only the domain, where it is bound to, the message and the encoding matter.
LEMMA SameQuestion ==
  ASSUME NEW a, NEW b, a.domain = b.domain, a.dirname = b.dirname, a.encoding = b.encoding,
         a.q.msgid = b.q.msgid
  PROVE  /\ \A chain : Usable(chain, a) = Usable(chain, b)
         /\ \A names : Right(names, a) = Right(names, b)
<1> DEFINE U(chain, m, e) ==
             LET text(i) == Translation(Contents(chain[i]), m, e)
                 has == {i \in DOMAIN chain : text(i) # NULL}
             IN IF has = {} THEN <<>>
                ELSE LET i == CHOOSE i \in has : \A j \in has : i <= j IN Chosen(chain[i], text(i))
           Of(name, dir, d) ==
             LET full == Expanded(name)
             IN {Chain(dir, full, Mask(full), d), Chain(dir, name, Written(name), d)}
           V(name, dir, d, m, e) ==
             name \notin NoLanguage /\ \E chain \in Of(name, dir, d) : U(chain, m, e) = <<>>
           R(names, dir, d, m, e) ==
             UNION {IF n > Len(names) \/ names[n] \in NoLanguage THEN {<<>>}
                    ELSE {U(chain, m, e) : chain \in Of(names[n], dir, d)} \ {<<>>}
                    : n \in {k \in 1..(Len(names) + 1) : \A i \in 1..(k - 1) : V(names[i], dir, d, m, e)}}
<1>1. \A l, chain : Usable(chain, l) = U(chain, l.q.msgid, l.encoding)
  BY Zenon DEF Usable
<1>2. \A l, names : Right(names, l) = R(names, l.dirname, l.domain, l.q.msgid, l.encoding)
  BY Zenon DEF Right, InVain, ChainsOf, Usable
<1> HIDE DEF U, R
<1> QED
  BY <1>1, <1>2

\* The first catalog of a chain, or one of the others.
LEMMA UsableIs ==
  ASSUME NEW l, NEW S, NEW chain \in Seq(S)
  PROVE  LET text == Translation(Contents(Head(chain)), l.q.msgid, l.encoding)
         IN  /\ chain = <<>> => Usable(chain, l) = <<>>
             /\ chain # <<>> /\ text # NULL => Usable(chain, l) = Chosen(Head(chain), text)
             /\ chain # <<>> /\ text = NULL => Usable(chain, l) = Usable(Tail(chain), l)
<1> DEFINE text(c, i) == Translation(Contents(c[i]), l.q.msgid, l.encoding)
           has(c) == {i \in DOMAIN c : text(c, i) # NULL}
           Least(H) == CHOOSE i \in H : \A j \in H : i <= j
<1>1. \A c : Usable(c, l) = IF has(c) = {} THEN <<>> ELSE Chosen(c[Least(has(c))], text(c, Least(has(c))))
  BY DEF Usable
<1>2. CASE chain = <<>>
  <2>1. has(chain) = {}
    BY <1>2
  <2> QED
    BY <1>1, <1>2, <2>1
<1>3. CASE chain # <<>>
  <2> DEFINE rest == Tail(chain)
  <2>1. /\ Len(chain) \in Nat \ {0} /\ DOMAIN chain = 1..Len(chain) /\ Head(chain) = chain[1]
        /\ rest \in Seq(S) /\ Len(rest) = Len(chain) - 1 /\ DOMAIN rest = 1..Len(rest)
        /\ \A i \in 1..Len(rest) : rest[i] = chain[i + 1]
    BY <1>3
  <2> HIDE DEF rest
  <2>2. text(chain, 1) = Translation(Contents(Head(chain)), l.q.msgid, l.encoding)
    BY <2>1
  <2>3. \A i \in 1..Len(rest) : text(rest, i) = text(chain, i + 1)
    BY <2>1
  <2>4. has(chain) \subseteq Nat /\ has(rest) \subseteq Nat
    BY <2>1
  <2>5. \A H \in SUBSET Nat : H # {} => Least(H) \in H /\ \A j \in H : Least(H) <= j
    BY MinIsLeast DEF Min
  <2>6. CASE text(chain, 1) # NULL
    <3>1. 1 \in has(chain) /\ \A i \in has(chain) : 1 <= i
      BY <2>1, <2>6
    <3> HIDE DEF has, Least
    <3>2. Least(has(chain)) \in has(chain) /\ Least(has(chain)) <= 1 /\ 1 <= Least(has(chain))
      BY <2>4, <2>5, <3>1
    <3>3. Least(has(chain)) = 1
      BY <2>4, <3>2
    <3> QED
      BY <1>1, <1>3, <2>1, <2>2, <2>6, <3>1, <3>3
  <2>7. CASE text(chain, 1) = NULL
    <3>1. \A i \in has(chain) : i - 1 \in has(rest)
      <4> TAKE i \in has(chain)
      <4>1. i \in 1..Len(chain) /\ text(chain, i) # NULL
        BY <2>1
      <4> HIDE DEF text, has
      <4>2. i # 1
        BY <2>7, <4>1
      <4>3. i - 1 \in 1..Len(rest) /\ (i - 1) + 1 = i
        BY <2>1, <4>1, <4>2
      <4>4. text(rest, i - 1) # NULL
        BY <2>3, <4>1, <4>3
      <4> QED
        BY <2>1, <4>3, <4>4 DEF has
    <3>2. \A i \in has(rest) : i + 1 \in has(chain)
      <4> TAKE i \in has(rest)
      <4>1. i \in 1..Len(rest) /\ text(rest, i) # NULL
        BY <2>1
      <4> HIDE DEF text, has
      <4>2. i + 1 \in 1..Len(chain) /\ text(chain, i + 1) # NULL
        BY <2>1, <2>3, <4>1
      <4> QED
        BY <2>1, <4>2 DEF has
    <3>7. has(rest) \subseteq 1..Len(rest)
      BY <2>1
    <3> HIDE DEF has
    <3>3. CASE has(rest) = {}
      <4>1. has(chain) = {}
        BY <3>1, <3>3
      <4> QED
        BY <1>1, <1>3, <2>2, <2>7, <3>3, <4>1 DEF rest
    <3>4. CASE has(rest) # {}
      <4> DEFINE i == Least(has(rest))
                 k == Least(has(chain))
      <4>1. has(chain) # {}
        BY <3>2, <3>4
      <4>2. /\ i \in has(rest) /\ \A j \in has(rest) : i <= j
            /\ k \in has(chain) /\ \A j \in has(chain) : k <= j
        BY <2>4, <2>5, <3>4, <4>1
      <4> HIDE DEF i, k
      <4>3. k - 1 \in has(rest) /\ i + 1 \in has(chain) /\ i \in Nat /\ k \in Nat
        BY <2>4, <3>1, <3>2, <4>2
      <4>4. k = i + 1
        <5>1. i <= k - 1 /\ k <= i + 1
          BY <4>2, <4>3
        <5> QED
          BY <4>3, <5>1
      <4>5. i \in 1..Len(rest)
        BY <3>7, <4>2
      <4>6. rest[i] = chain[k] /\ text(rest, i) = text(chain, k)
        BY <2>1, <2>3, <4>4, <4>5
      <4>7. Usable(rest, l) = Chosen(rest[i], text(rest, i))
        BY <1>1, <3>4 DEF i
      <4>8. Usable(chain, l) = Chosen(chain[k], text(chain, k))
        BY <1>1, <4>1 DEF k
      <4> QED
        BY <1>3, <2>2, <2>7, <4>6, <4>7, <4>8 DEF rest
    <3> QED
      BY <3>3, <3>4
  <2> QED
    BY <2>6, <2>7
<1> QED
  BY <1>2, <1>3

\* The first name of a list: the end of the search, an answer, or nothing.
LEMMA RightIs ==
  ASSUME NEW l, NEW S, NEW names \in Seq(S)
  PROVE  /\ names = <<>> => <<>> \in Right(names, l)
         /\ names # <<>> /\ Head(names) \in NoLanguage => <<>> \in Right(names, l)
         /\ names # <<>> /\ Head(names) \notin NoLanguage =>
              \A chain \in ChainsOf(Head(names), l) :
                IF Usable(chain, l) = <<>> THEN Right(Tail(names), l) \subseteq Right(names, l)
                ELSE Usable(chain, l) \in Right(names, l)
<1> DEFINE Reached(ns) == {k \in 1..(Len(ns) + 1) : \A m \in 1..(k - 1) : InVain(ns[m], l)}
           Part(ns, n) == IF n > Len(ns) \/ ns[n] \in NoLanguage THEN {<<>>}
                          ELSE {Usable(chain, l) : chain \in ChainsOf(ns[n], l)} \ {<<>>}
<1>1. \A ns : Right(ns, l) = UNION {Part(ns, n) : n \in Reached(ns)}
  BY DEF Right
<1>2. \A ns, n : n \in Reached(ns) => Part(ns, n) \subseteq Right(ns, l)
  BY <1>1
<1>3. Len(names) \in Nat /\ 1 \in Reached(names)
  OBVIOUS
<1>4. Part(names, 1) \subseteq Right(names, l)
  BY <1>2, <1>3
<1>5. CASE names = <<>>
  BY <1>4, <1>5
<1>6. CASE names # <<>>
  <2> DEFINE rest == Tail(names)
  <2>1. /\ Len(names) \in Nat \ {0} /\ Head(names) = names[1]
        /\ Len(rest) = Len(names) - 1 /\ \A i \in 1..Len(rest) : rest[i] = names[i + 1]
    BY <1>6
  <2> HIDE DEF rest
  <2>2. ASSUME InVain(Head(names), l)
        PROVE  Right(rest, l) \subseteq Right(names, l)
    <3>1. ASSUME NEW n \in Reached(rest)
          PROVE  n + 1 \in Reached(names) /\ Part(names, n + 1) = Part(rest, n)
      <4>1. n \in 1..(Len(rest) + 1) /\ \A m \in 1..(n - 1) : InVain(rest[m], l)
        OBVIOUS
      <4>2. n + 1 \in 1..(Len(names) + 1)
        BY <2>1, <4>1
      <4>3. ASSUME NEW m \in 1..n
            PROVE  InVain(names[m], l)
        <5>1. CASE m = 1
          BY <2>1, <2>2, <5>1
        <5>2. CASE m # 1
          <6>1. m - 1 \in 1..(n - 1) /\ m - 1 \in 1..Len(rest) /\ (m - 1) + 1 = m
            BY <2>1, <4>1, <5>2
          <6> QED
            BY <2>1, <4>1, <6>1
        <5> QED
          BY <5>1, <5>2
      <4>4. n + 1 \in Reached(names)
        <5>1. (n + 1) - 1 = n
          BY <4>1
        <5> QED
          BY <4>2, <4>3, <5>1
      <4>5. n + 1 > Len(names) <=> n > Len(rest)
        BY <2>1, <4>1
      <4>6. ~ (n > Len(rest)) => names[n + 1] = rest[n]
        BY <2>1, <4>1
      <4> QED
        BY <4>4, <4>5, <4>6
    <3> HIDE DEF Part, Reached
    <3> QED
      BY <1>1, <3>1
  <2>3. CASE Head(names) \in NoLanguage
    BY <1>4, <2>1, <2>3
  <2>4. CASE Head(names) \notin NoLanguage
    <3>1. Part(names, 1) = {Usable(chain, l) : chain \in ChainsOf(Head(names), l)} \ {<<>>}
      BY <2>1, <2>4
    <3>2. \A chain \in ChainsOf(Head(names), l) :
            Usable(chain, l) # <<>> => Usable(chain, l) \in Right(names, l)
      BY <1>4, <3>1
    <3>3. \A chain \in ChainsOf(Head(names), l) :
            Usable(chain, l) = <<>> => Right(rest, l) \subseteq Right(names, l)
      BY <2>2, <2>4 DEF InVain
    <3> QED
      BY <1>6, <2>4, <3>2, <3>3 DEF rest
  <2> QED
    BY <1>6, <2>3, <2>4
<1> QED
  BY <1>5, <1>6
-----------------------------------------------------------------------------
(* A call on its way to its answer. *)

\* What the rest of a call may answer with: when the names are gone through, when a
\* chain is, and once there is a translation.
Rest(l) ==
  IF l.pc \in {"next", "make"} THEN Right(l.names, l)
  ELSE IF l.pc \in {"store", "update"} THEN {Chosen(Head(l.chain), l.text)}
  ELSE IF l.pc = "return" THEN {l.result}
  ELSE IF Usable(l.chain, l) = <<>> THEN Right(l.names, l) ELSE {Usable(l.chain, l)}

\* It is right, for languages there were since the last setting.
OnTheWay(t) ==
  ~At(t, "idle") /\ ~At(t, "hit") /\ ~broken /\ ~th[t].raced =>
    \E e \in since : Rest(th[t]) \subseteq Right(Languages(e), th[t])

\* The call uses the present bindings, and its place in the tree.
Bound(t) ==
  ~At(t, "idle") =>
    /\ th[t].dirname = Binding(th[t].domain).dirname
    /\ th[t].encoding = Encoding(Binding(th[t].domain).codeset)
    /\ th[t].found \/ At(t, "hit") \/ At(t, "update") => Key(th[t]) \in DOMAIN known
    /\ At(t, "hit") => known[Key(th[t])].counter = counter
    /\ th[t].raced => At(t, "return")

\* An answer comes from a catalog that is loaded.
FromLoaded(t) ==
  At(t, "return") /\ th[t].result # <<>> =>
    th[t].result[1].domain \in DOMAIN loaded /\ loaded[th[t].result[1].domain].decided = 1

\* The question a node of the tree answers, by the present bindings.
Asked(key) ==
  [domain |-> key[1], q |-> [msgid |-> key[2]], dirname |-> Binding(key[1]).dirname,
   encoding |-> Encoding(Binding(key[1]).codeset)]

Torn(key) == \E u \in Threads : At(u, "update") /\ Key(th[u]) = key

\* A node with the present counter is right, unless it is being changed.
Remembered(key) ==
  /\ DOMAIN known[key] = {"counter", "domain", "translation"}
  /\ known[key].counter \in 0..counter
  /\ known[key].domain \in DOMAIN loaded /\ loaded[known[key].domain].decided = 1
  /\ known[key].counter = counter /\ ~broken /\ ~Torn(key) =>
       \E e \in since :
         Chosen(known[key].domain, known[key].translation) \in Right(Languages(e), Asked(key))

Answering ==
  /\ env \in since /\ counter \in Nat
  /\ \A t \in Threads : Bound(t) /\ OnTheWay(t) /\ FromLoaded(t)
  /\ \A key \in DOMAIN known : Remembered(key)

LEMMA AnsweringInit == Init => Answering
BY DEF Init, Answering, Bound, OnTheWay, FromLoaded, At, Idle

\* A loaded catalog stays loaded.
LEMMA LoadedStays ==
  ASSUME Shape, Loading, NEW t \in Threads, Runs(t), NEW p \in DOMAIN loaded, loaded[p].decided = 1
  PROVE  p \in DOMAIN loaded' /\ loaded'[p].decided = 1
<1>1. th[t].pc \in Looking => Here(t) \in DOMAIN loaded /\ IsEntry(loaded[Here(t)])
  BY HereIsOn
<1>2. Sure(t)
  BY DEF Loading
<1>3. CASE Makes(t)
  BY <1>3 DEF Makes
<1>4. CASE Loads(t)
  BY <1>4 DEF Loads
<1>5. CASE ReadsFile(t)
  BY <1>1, <1>2, <1>5 DEF ReadsFile, Sure, Loader, At, Looking, IsEntry
<1>6. CASE ReadsHeader(t)
  BY <1>1, <1>6 DEF ReadsHeader, At, Looking, IsEntry
<1>7. CASE Opens(t)
  BY <1>7 DEF Opens
<1>8. CASE UNCHANGED loaded
  BY <1>8
<1> QED
  BY <1>3, <1>4, <1>5, <1>6, <1>7, <1>8
     DEF Runs, Hits, NextName, Visits, Finds, Stores, Updates, Returns

\* What a thread at work is.
LEMMA AtWork ==
  ASSUME Shape, NEW t \in Threads, Runs(t)
  PROVE  /\ DOMAIN th = Threads /\ DOMAIN th' = Threads /\ DOMAIN th[t] = Fields
         /\ th[t].pc \in Places /\ th[t].names \in Seq(Names) /\ th[t].chain \in Seq(DOMAIN loaded)
         /\ th[t].pc \in Looking => th[t].chain # <<>>
         /\ th[t].pc = "make" => th[t].names # <<>> /\ Head(th[t].names) \notin NoLanguage
         /\ \A u \in Threads \ {t} : th'[u] = th[u]
         /\ UNCHANGED <<bindings, counter, env, since>> /\ (broken => broken')
<1>1. DOMAIN th = Threads /\ Seated(t)
  BY DEF Shape
<1>2. DOMAIN th' = Threads /\ \A u \in Threads \ {t} : th'[u] = th[u]
  BY <1>1 DEF Goes, Answers, Passes, At, Runs, Hits, NextName, Makes, Visits, Loads, ReadsFile,
              ReadsHeader, Finds, Opens, Takes, Stores, Updates, Returns
<1>3. th[t] # Idle
  BY DEF At, Idle, Runs, Hits, NextName, Makes, Visits, Loads, ReadsFile, ReadsHeader, Finds, Opens,
         Stores, Updates, Returns
<1>4. UNCHANGED <<bindings, counter, env, since>>
  BY DEF Runs, Hits, NextName, Makes, Visits, Loads, ReadsFile, ReadsHeader, Finds, Opens, Stores,
         Updates, Returns
<1>5. broken => broken'
  <2>1. CASE Finds(t)
    BY <2>1, Zenon DEF Finds
  <2>2. CASE broken' = broken
    BY <2>2
  <2> QED
    BY <2>1, <2>2 DEF Runs, Hits, NextName, Makes, Visits, Loads, ReadsFile, ReadsHeader, Opens,
                      Stores, Updates, Returns
<1> QED
  BY <1>1, <1>2, <1>3, <1>4, <1>5 DEF Seated

\* A step that keeps the question, and answers with what was left to answer with.
Asks(l) == [domain |-> l.domain, dirname |-> l.dirname, encoding |-> l.encoding, q |-> l.q]

LEMMA StaysOnTheWay ==
  ASSUME NEW t \in Threads, OnTheWay(t), Bound(t), UNCHANGED since, broken => broken',
         th[t].pc \notin {"idle", "hit", "return"}, Asks(th'[t]) = Asks(th[t]),
         ~broken => Rest(th'[t]) \subseteq Rest(th[t])
  PROVE  OnTheWay(t)'
<1>1. /\ th'[t].domain = th[t].domain /\ th'[t].dirname = th[t].dirname
      /\ th'[t].encoding = th[t].encoding /\ th'[t].q = th[t].q
  BY DEF Asks
<1>2. \A names : Right(names, th'[t]) = Right(names, th[t])
  BY <1>1, SameQuestion
<1>3. ASSUME ~broken'
      PROVE  \E e \in since' : Rest(th'[t]) \subseteq Right(Languages(e), th'[t])
  <2>1. ~broken /\ ~th[t].raced /\ ~At(t, "idle") /\ ~At(t, "hit")
    BY <1>3 DEF Bound, At
  <2>2. PICK e \in since : Rest(th[t]) \subseteq Right(Languages(e), th[t])
    BY <2>1 DEF OnTheWay
  <2> QED
    BY <1>2, <2>1, <2>2
<1> QED
  BY <1>3 DEF OnTheWay

LEMMA OnTheWayRuns ==
  ASSUME Shape, Loading, Answering, NEW t \in Threads, Runs(t)
  PROVE  OnTheWay(t)'
<1>1. /\ DOMAIN th = Threads /\ DOMAIN th' = Threads /\ DOMAIN th[t] = Fields
      /\ th[t].pc \in Places /\ th[t].names \in Seq(Names) /\ th[t].chain \in Seq(DOMAIN loaded)
      /\ th[t].pc \in Looking => th[t].chain # <<>>
      /\ th[t].pc = "make" => th[t].names # <<>> /\ Head(th[t].names) \notin NoLanguage
      /\ UNCHANGED <<bindings, counter, env, since>> /\ (broken => broken')
  BY AtWork
<1>2. Bound(t) /\ OnTheWay(t) /\ Sure(t)
  BY DEF Answering, Loading
<1>3. ASSUME th[t].pc \notin {"idle", "hit", "return"}, Asks(th'[t]) = Asks(th[t]),
             ~broken => Rest(th'[t]) \subseteq Rest(th[t])
      PROVE  OnTheWay(t)'
  BY <1>1, <1>2, <1>3, StaysOnTheWay
<1> DEFINE Same == /\ th'[t].domain = th[t].domain /\ th'[t].dirname = th[t].dirname
                   /\ th'[t].encoding = th[t].encoding /\ th'[t].q = th[t].q
<1>4. ASSUME Same
      PROVE  /\ Asks(th'[t]) = Asks(th[t])
             /\ \A chain : Usable(chain, th'[t]) = Usable(chain, th[t])
             /\ \A names : Right(names, th'[t]) = Right(names, th[t])
  <2>1. Asks(th'[t]) = Asks(th[t])
    BY <1>4 DEF Asks
  <2>2. th'[t].q.msgid = th[t].q.msgid
    BY <1>4
  <2> QED
    BY <1>4, <2>1, <2>2, SameQuestion
<1> HIDE DEF Same
<1>5. Usable(<<>>, th[t]) = <<>>
  <2>1. <<>> \in Seq({})
    OBVIOUS
  <2> QED
    BY <2>1, UsableIs
<1>6. /\ th[t].names = <<>> => <<>> \in Right(th[t].names, th[t])
      /\ th[t].names # <<>> /\ Head(th[t].names) \in NoLanguage => <<>> \in Right(th[t].names, th[t])
      /\ th[t].names # <<>> /\ Head(th[t].names) \notin NoLanguage =>
           \A chain \in ChainsOf(Head(th[t].names), th[t]) :
             IF Usable(chain, th[t]) = <<>>
             THEN Right(Tail(th[t].names), th[t]) \subseteq Right(th[t].names, th[t])
             ELSE Usable(chain, th[t]) \in Right(th[t].names, th[t])
  BY <1>1, RightIs
<1>7. CASE Hits(t)
  <2> DEFINE key  == Key(th[t])
             torn == Torn(key)
             r    == Chosen(known[key].domain, known[key].translation)
  <2>1. torn \in BOOLEAN /\ th' = [th EXCEPT ![t] = [[th[t] EXCEPT !.raced = torn] EXCEPT !.pc = "return", !.result = r]]
    BY <1>7 DEF Hits, Answers, Goes, Torn
  <2>2. th[t].pc = "hit" /\ key \in DOMAIN known /\ known[key].counter = counter
    BY <1>2, <1>7 DEF Hits, At, Bound
  <2>3. /\ key[1] = th[t].domain /\ key[2] = th[t].q.msgid
        /\ th[t].dirname = Binding(th[t].domain).dirname
        /\ th[t].encoding = Encoding(Binding(th[t].domain).codeset)
    BY <1>2, <2>2 DEF Bound, At, Key
  <2>4. Remembered(key)
    BY <2>2 DEF Answering
  <2> HIDE DEF torn, r
  <2>5. th'[t].pc = "return" /\ th'[t].raced = torn /\ th'[t].result = r /\ Same
    BY <1>1, <2>1 DEF Fields, Same
  <2>6. \A names : Right(names, Asked(key)) = Right(names, th[t])
    <3>1. /\ Asked(key).domain = th[t].domain /\ Asked(key).dirname = th[t].dirname
          /\ Asked(key).encoding = th[t].encoding /\ Asked(key).q.msgid = th[t].q.msgid
      BY <2>3 DEF Asked
    <3> QED
      BY <3>1, SameQuestion
  <2>7. ASSUME ~broken, ~torn
        PROVE  \E e \in since : r \in Right(Languages(e), th'[t])
    <3>1. PICK e \in since : r \in Right(Languages(e), Asked(key))
      BY <2>2, <2>4, <2>7 DEF Remembered, torn, r
    <3>2. Right(Languages(e), Asked(key)) = Right(Languages(e), th'[t])
      BY <1>4, <2>5, <2>6
    <3> QED
      BY <3>1, <3>2
  <2>8. Rest(th'[t]) = {r}
    BY <2>5 DEF Rest
  <2> QED
    BY <1>1, <2>5, <2>7, <2>8 DEF OnTheWay
<1>8. CASE NextName(t)
  <2> DEFINE name  == Head(th[t].names)
             chain == Chain(th[t].dirname, name, Written(name), th[t].domain)
  <2>1. /\ th[t].pc = "next" /\ Rest(th[t]) = Right(th[t].names, th[t])
        /\ IF th[t].names = <<>> \/ name \in NoLanguage
           THEN th' = [th EXCEPT ![t] = [th[t] EXCEPT !.pc = "return", !.result = <<>>]]
           ELSE IF Head(chain) \in DOMAIN loaded
           THEN th' = [th EXCEPT ![t] = [th[t] EXCEPT !.pc = "visit", !.names = Tail(th[t].names),
                                                      !.chain = chain]]
           ELSE th' = [th EXCEPT ![t] = [th[t] EXCEPT !.pc = "make"]]
    BY <1>8 DEF NextName, At, Goes, Answers, Rest
  <2>2. chain \in ChainsOf(name, th[t])
    BY DEF ChainsOf
  <2> HIDE DEF chain
  <2>3. CASE th[t].names = <<>> \/ name \in NoLanguage
    <3>1. th'[t].pc = "return" /\ th'[t].result = <<>> /\ Same
      BY <1>1, <2>1, <2>3 DEF Fields, Same
    <3>2. Rest(th'[t]) = {<<>>}
      BY <3>1 DEF Rest
    <3> QED
      BY <1>3, <1>4, <1>6, <2>1, <2>3, <3>1, <3>2
  <2>4. CASE ~(th[t].names = <<>> \/ name \in NoLanguage) /\ Head(chain) \in DOMAIN loaded
    <3>1. th'[t].pc = "visit" /\ th'[t].names = Tail(th[t].names) /\ th'[t].chain = chain /\ Same
      BY <1>1, <2>1, <2>4, ZenonT(30) DEF Fields, Same
    <3>2. Rest(th'[t]) = IF Usable(chain, th[t]) = <<>> THEN Right(Tail(th[t].names), th[t])
                         ELSE {Usable(chain, th[t])}
      BY <1>4, <3>1 DEF Rest
    <3>3. Rest(th'[t]) \subseteq Right(th[t].names, th[t])
      BY <1>6, <2>2, <2>4, <3>2
    <3> QED
      BY <1>3, <1>4, <2>1, <3>1, <3>3
  <2>5. CASE ~(th[t].names = <<>> \/ name \in NoLanguage) /\ Head(chain) \notin DOMAIN loaded
    <3>1. th'[t].pc = "make" /\ th'[t].names = th[t].names /\ Same
      BY <1>1, <2>1, <2>5 DEF Fields, Same
    <3>2. Rest(th'[t]) = Right(th[t].names, th[t])
      BY <1>4, <3>1 DEF Rest
    <3> QED
      BY <1>3, <1>4, <2>1, <3>1, <3>2
  <2> QED
    BY <2>3, <2>4, <2>5
<1>9. CASE Makes(t)
  <2> DEFINE name  == Head(th[t].names)
             full  == Expanded(name)
             chain == Chain(th[t].dirname, full, Mask(full), th[t].domain)
  <2>1. /\ th[t].pc = "make" /\ Rest(th[t]) = Right(th[t].names, th[t])
        /\ th' = [th EXCEPT ![t] = [th[t] EXCEPT !.pc = "visit", !.names = Tail(th[t].names),
                                                 !.chain = chain]]
    BY <1>9 DEF Makes, At, Goes, Rest
  <2>2. chain \in ChainsOf(name, th[t])
    BY DEF ChainsOf
  <2> HIDE DEF chain
  <2>3. th'[t].pc = "visit" /\ th'[t].names = Tail(th[t].names) /\ th'[t].chain = chain /\ Same
    BY <1>1, <2>1 DEF Fields, Same
  <2>4. Rest(th'[t]) = IF Usable(chain, th[t]) = <<>> THEN Right(Tail(th[t].names), th[t])
                       ELSE {Usable(chain, th[t])}
    BY <1>4, <2>3 DEF Rest
  <2>5. Rest(th'[t]) \subseteq Right(th[t].names, th[t])
    BY <1>1, <1>6, <2>1, <2>2, <2>4
  <2> QED
    BY <1>3, <1>4, <2>1, <2>3, <2>5
<1>10. ASSUME th[t].pc \in {"visit", "load", "read", "header", "find"}, Same,
              th'[t].pc \in {"load", "read", "header", "find", "open"},
              th'[t].names = th[t].names, th'[t].chain = th[t].chain
       PROVE  OnTheWay(t)'
  <2>1. Rest(th'[t]) = IF Usable(th[t].chain, th[t]) = <<>> THEN Right(th[t].names, th[t])
                       ELSE {Usable(th[t].chain, th[t])}
    BY <1>4, <1>10 DEF Rest
  <2>2. Rest(th[t]) = Rest(th'[t])
    BY <1>10, <2>1 DEF Rest
  <2> QED
    BY <1>3, <1>4, <1>10, <2>2
<1>11. CASE Visits(t)
  <2>1. /\ th[t].pc = "visit" /\ Same /\ th'[t].names = th[t].names /\ th'[t].chain = th[t].chain
        /\ IF th[t].chain = <<>> THEN th'[t].pc = "next" ELSE th'[t].pc \in {"load", "find"}
    BY <1>1, <1>11 DEF Visits, At, Goes, Fields, Same
  <2>2. CASE th[t].chain = <<>>
    <3>1. Rest(th[t]) = Right(th[t].names, th[t]) /\ Rest(th'[t]) = Right(th[t].names, th[t])
      BY <1>4, <1>5, <2>1, <2>2 DEF Rest
    <3> QED
      BY <1>3, <1>4, <2>1, <3>1
  <2>3. CASE th[t].chain # <<>>
    BY <1>10, <2>1, <2>3
  <2> QED
    BY <2>2, <2>3
<1>12. CASE Loads(t)
  BY <1>1, <1>10, <1>12 DEF Loads, At, Goes, Fields, Same
<1>13. CASE ReadsFile(t)
  <2>1. \E pc \in {"find", "header"} : th' = [th EXCEPT ![t] = [th[t] EXCEPT !.pc = pc]]
    BY <1>13 DEF ReadsFile, Goes
  <2> QED
    BY <1>1, <1>10, <1>13, <2>1 DEF ReadsFile, At, Fields, Same
<1>14. CASE ReadsHeader(t)
  BY <1>1, <1>10, <1>14 DEF ReadsHeader, At, Goes, Fields, Same
<1> DEFINE text == Translation(Contents(Here(t)), th[t].q.msgid, th[t].encoding)
<1>15. ASSUME th[t].pc \in {"find", "open"}, ~broken => Takes(t, text), Same, th'[t].pc \in {"visit", "store"}
       PROVE  OnTheWay(t)'
  <2>1. th[t].chain # <<>>
    BY <1>1, <1>15 DEF Looking
  <2>2. /\ text # NULL => Usable(th[t].chain, th[t]) = Chosen(Here(t), text)
        /\ text = NULL => Usable(th[t].chain, th[t]) = Usable(Tail(th[t].chain), th[t])
    BY <1>1, <2>1, UsableIs DEF Here
  <2> HIDE DEF text
  <2>3. Rest(th[t]) = IF Usable(th[t].chain, th[t]) = <<>> THEN Right(th[t].names, th[t])
                      ELSE {Usable(th[t].chain, th[t])}
    BY <1>15 DEF Rest
  <2>4. ASSUME ~broken, text = NULL
        PROVE  Rest(th'[t]) = Rest(th[t])
    <3>1. th'[t].pc = "visit" /\ th'[t].names = th[t].names /\ th'[t].chain = Tail(th[t].chain)
      BY <1>1, <1>15, <2>4 DEF Takes, Passes, Goes, Fields
    <3> QED
      BY <1>4, <1>15, <2>2, <2>3, <2>4, <3>1 DEF Rest
  <2>5. ASSUME ~broken, text # NULL
        PROVE  Rest(th'[t]) = Rest(th[t])
    <3>1. th'[t].pc = "store" /\ th'[t].text = text /\ th'[t].chain = th[t].chain
      BY <1>1, <1>15, <2>5 DEF Takes, Goes, Fields
    <3>2. Rest(th'[t]) = {Chosen(Here(t), text)}
      BY <3>1 DEF Rest, Here
    <3>3. Chosen(Here(t), text) # <<>>
      BY DEF Chosen
    <3> QED
      BY <2>2, <2>3, <2>5, <3>2, <3>3
  <2> QED
    BY <1>3, <1>4, <1>15, <2>4, <2>5
<1>16. th[t].pc \in {"find", "open"} => loaded[Here(t)].data = Contents(Here(t))
  <2>1. th[t].pc \in {"find", "open"} => loaded[Here(t)].decided = 1 /\ Here(t) \in DOMAIN loaded
    BY <1>2, HereIsOn DEF Sure, Looking
  <2> QED
    BY <2>1 DEF Loading, Settled
<1>17. ASSUME NEW x, th[t].pc \in {"find", "open"}, Takes(t, x)
       PROVE  Same /\ th'[t].pc \in {"visit", "store"}
  BY <1>1, <1>17, ZenonT(30) DEF Takes, Passes, Goes, Fields, Same
<1>18. CASE Finds(t)
  <2>1. th[t].pc = "find"
    BY <1>18 DEF Finds, At
  <2>2. CASE th' = [th EXCEPT ![t] = [th[t] EXCEPT !.pc = "open"]]
    BY <1>1, <1>10, <2>1, <2>2 DEF Fields, Same
  <2>3. CASE Takes(t, text)
    BY <1>15, <1>17, <2>1, <2>3
  <2> QED
    BY <1>16, <1>18, <2>1, <2>2, <2>3 DEF Finds, Goes
<1>19. CASE Opens(t)
  <2>1. th[t].pc = "open"
    BY <1>19 DEF Opens, At
  <2>2. \E x : Takes(t, x)
    BY <1>19 DEF Opens
  <2>3. ~broken => Takes(t, text)
    <3>1. ~broken => \E x \in {text} \cup {} : Takes(t, x)
      BY <1>16, <1>19, <2>1 DEF Opens
    <3> QED
      BY <3>1
  <2> QED
    BY <1>15, <1>17, <2>1, <2>2, <2>3
<1>20. ASSUME th[t].pc \in {"store", "update"}, Same,
              \/ th'[t].pc = "update" /\ th'[t].chain = th[t].chain /\ th'[t].text = th[t].text
              \/ th'[t].pc = "return" /\ th'[t].result = Chosen(Here(t), th[t].text)
       PROVE  OnTheWay(t)'
  <2>1. Rest(th[t]) = {Chosen(Here(t), th[t].text)}
    BY <1>20 DEF Rest, Here
  <2>2. Rest(th'[t]) = {Chosen(Here(t), th[t].text)}
    BY <1>20 DEF Rest, Here
  <2> QED
    BY <1>3, <1>4, <1>20, <2>1, <2>2
<1>21. ASSUME Answers(t, th[t], Chosen(Here(t), th[t].text))
       PROVE  th'[t].pc = "return" /\ th'[t].result = Chosen(Here(t), th[t].text) /\ Same
  BY <1>1, <1>21 DEF Answers, Goes, Fields, Same
<1>22. CASE Stores(t)
  <2>1. th[t].pc = "store"
    BY <1>22 DEF Stores, At
  <2>2. CASE th' = [th EXCEPT ![t] = [th[t] EXCEPT !.pc = "update"]]
    BY <1>1, <1>20, <2>1, <2>2 DEF Fields, Same
  <2>3. CASE Answers(t, th[t], Chosen(Here(t), th[t].text))
    BY <1>20, <1>21, <2>1, <2>3
  <2> QED
    BY <1>22, <2>2, <2>3 DEF Stores, Goes
<1>23. CASE Updates(t)
  BY <1>20, <1>21, <1>23 DEF Updates, At
<1>24. CASE Returns(t)
  BY <1>1, <1>24 DEF Returns, Goes, OnTheWay, At, Idle
<1> QED
  BY <1>7, <1>8, <1>9, <1>11, <1>12, <1>13, <1>14, <1>18, <1>19, <1>22, <1>23, <1>24 DEF Runs

LEMMA BoundRuns ==
  ASSUME Shape, Loading, Answering, NEW t \in Threads, Runs(t)
  PROVE  /\ DOMAIN known \subseteq DOMAIN known'
         /\ \A key \in DOMAIN known : known[key].counter = counter => known'[key].counter = counter
         /\ \A u \in Threads : Bound(u)'
<1>1. /\ DOMAIN th = Threads /\ DOMAIN th' = Threads /\ DOMAIN th[t] = Fields
      /\ \A u \in Threads \ {t} : th'[u] = th[u]
      /\ UNCHANGED <<bindings, counter, env, since>>
  BY AtWork
<1>2. /\ \A u \in Threads : Bound(u)
      /\ \A key \in DOMAIN known : DOMAIN known[key] = {"counter", "domain", "translation"}
  BY DEF Answering, Remembered
<1>3. DOMAIN known \subseteq DOMAIN known'
      /\ \A key \in DOMAIN known : known[key].counter = counter => known'[key].counter = counter
  <2>1. CASE Stores(t)
    <3>1. CASE th[t].found
      BY <1>2, <2>1, <3>1 DEF Stores
    <3>2. CASE ~th[t].found
      BY <2>1, <3>2 DEF Stores
    <3> QED
      BY <3>1, <3>2
  <2>2. CASE Updates(t)
    BY <1>2, <2>2 DEF Updates
  <2>3. CASE UNCHANGED known
    BY <2>3
  <2> QED
    BY <2>1, <2>2, <2>3
       DEF Runs, Hits, NextName, Makes, Visits, Loads, ReadsFile, ReadsHeader, Finds, Opens, Returns
<1>4. \A d : Binding(d)' = Binding(d)
  BY <1>1 DEF Binding
<1>5. ASSUME NEW u \in Threads, u # t
      PROVE  Bound(u)'
  <2>1. th'[u] = th[u] /\ Key(th'[u]) = Key(th[u])
    BY <1>1, <1>5
  <2> QED
    BY <1>1, <1>2, <1>3, <1>4, <2>1 DEF Bound, At
<1>6. ASSUME th[t].pc # "idle", th'[t].pc # "hit", th'[t].pc = "update" => th[t].found \/ th[t].pc = "update",
             th'[t].domain = th[t].domain, th'[t].dirname = th[t].dirname, th'[t].q = th[t].q,
             th'[t].encoding = th[t].encoding, th'[t].found = th[t].found,
             \/ th'[t].pc = "return"
             \/ th'[t].raced = th[t].raced /\ th[t].pc # "return"
      PROVE  Bound(t)'
  <2>1. Key(th'[t]) = Key(th[t])
    BY <1>6 DEF Key
  <2> QED
    BY <1>1, <1>2, <1>3, <1>4, <1>6, <2>1 DEF Bound, At
<1>7. ASSUME NEW x, Takes(t, x), th[t].pc \in {"find", "open"}
      PROVE  Bound(t)'
  <2>1. CASE x = NULL
    BY <1>1, <1>6, <1>7, <2>1 DEF Takes, Passes, Goes, Fields
  <2>2. CASE x # NULL
    BY <1>1, <1>6, <1>7, <2>2 DEF Takes, Goes, Fields
  <2> QED
    BY <2>1, <2>2
<1>8. ASSUME NEW r, Answers(t, th[t], r), th[t].pc # "idle"
      PROVE  Bound(t)'
  BY <1>1, <1>6, <1>8 DEF Answers, Goes, Fields
<1>9. ASSUME NEW pc \in {"next", "make", "load", "header", "read", "find", "open", "update"},
             th' = [th EXCEPT ![t] = [th[t] EXCEPT !.pc = pc]],
             th[t].pc \notin {"idle", "return"}, pc = "update" => th[t].found
      PROVE  Bound(t)'
  BY <1>1, <1>6, <1>9 DEF Fields
<1>10. ASSUME Hits(t)
      PROVE  Bound(t)'
  <2> DEFINE torn == \E u \in Threads : At(u, "update") /\ Key(th[u]) = Key(th[t])
             r    == Chosen(known[Key(th[t])].domain, known[Key(th[t])].translation)
  <2>1. th' = [th EXCEPT ![t] = [[th[t] EXCEPT !.raced = torn] EXCEPT !.pc = "return", !.result = r]]
        /\ th[t].pc = "hit"
    BY <1>10 DEF Hits, Answers, Goes, At
  <2> HIDE DEF torn, r
  <2> QED
    BY <1>1, <1>6, <2>1 DEF Fields
<1>11. ASSUME NextName(t)
      PROVE  Bound(t)'
  <2> DEFINE chain == Chain(th[t].dirname, Head(th[t].names), Written(Head(th[t].names)), th[t].domain)
  <2>1. /\ th[t].pc = "next"
        /\ \/ Answers(t, th[t], <<>>)
           \/ th' = [th EXCEPT ![t] = [th[t] EXCEPT !.pc = "visit", !.names = Tail(th[t].names),
                                                    !.chain = chain]]
           \/ th' = [th EXCEPT ![t] = [th[t] EXCEPT !.pc = "make"]]
    BY <1>11 DEF NextName, At, Goes
  <2> HIDE DEF chain
  <2>2. CASE th' = [th EXCEPT ![t] = [th[t] EXCEPT !.pc = "visit", !.names = Tail(th[t].names),
                                                   !.chain = chain]]
    BY <1>1, <1>6, <2>1, <2>2 DEF Fields
  <2> QED
    BY <1>8, <1>9, <2>1, <2>2
<1>12. ASSUME Makes(t)
      PROVE  Bound(t)'
  <2> DEFINE full  == Expanded(Head(th[t].names))
             chain == Chain(th[t].dirname, full, Mask(full), th[t].domain)
  <2>1. /\ th[t].pc = "make"
        /\ th' = [th EXCEPT ![t] = [th[t] EXCEPT !.pc = "visit", !.names = Tail(th[t].names),
                                                 !.chain = chain]]
    BY <1>12 DEF Makes, At, Goes
  <2> HIDE DEF chain
  <2> QED
    BY <1>1, <1>6, <2>1 DEF Fields
<1>13. ASSUME Visits(t)
      PROVE  Bound(t)'
  BY <1>9, <1>13 DEF Visits, At, Goes
<1>14. ASSUME Loads(t)
      PROVE  Bound(t)'
  BY <1>9, <1>14 DEF Loads, At, Goes
<1>15. ASSUME ReadsFile(t)
      PROVE  Bound(t)'
  BY <1>9, <1>15 DEF ReadsFile, At, Goes
<1>16. ASSUME ReadsHeader(t)
      PROVE  Bound(t)'
  BY <1>9, <1>16 DEF ReadsHeader, At, Goes
<1>17. ASSUME Finds(t)
      PROVE  Bound(t)'
  <2>1. /\ th[t].pc = "find"
        /\ \/ th' = [th EXCEPT ![t] = [th[t] EXCEPT !.pc = "open"]]
           \/ Takes(t, Translation(loaded[Here(t)].data, th[t].q.msgid, th[t].encoding))
    BY <1>17 DEF Finds, At, Goes
  <2> QED
    BY <1>7, <1>9, <2>1
<1>18. ASSUME Opens(t)
      PROVE  Bound(t)'
  <2>1. th[t].pc = "open" /\ \E x : Takes(t, x)
    BY <1>18 DEF Opens, At
  <2> QED
    BY <1>7, <2>1
<1>19. ASSUME Stores(t)
      PROVE  Bound(t)'
  <2>1. /\ th[t].pc = "store"
        /\ \/ th[t].found /\ th' = [th EXCEPT ![t] = [th[t] EXCEPT !.pc = "update"]]
           \/ Answers(t, th[t], Chosen(Here(t), th[t].text))
    BY <1>19 DEF Stores, At, Goes
  <2> QED
    BY <1>8, <1>9, <2>1
<1>20. ASSUME Updates(t)
      PROVE  Bound(t)'
  <2>1. th[t].pc = "update" /\ Answers(t, th[t], Chosen(Here(t), th[t].text))
    BY <1>20 DEF Updates, At
  <2> QED
    BY <1>8, <2>1
<1>21. ASSUME Returns(t)
      PROVE  Bound(t)'
  BY <1>1, <1>21 DEF Returns, Goes, Bound, At, Idle
<1>22. Bound(t)'
  BY <1>10, <1>11, <1>12, <1>13, <1>14, <1>15, <1>16, <1>17, <1>18, <1>19, <1>20, <1>21 DEF Runs
<1> QED
  BY <1>3, <1>5, <1>22

LEMMA FromLoadedRuns ==
  ASSUME Shape, Loading, Answering, NEW t \in Threads, Runs(t)
  PROVE  \A u \in Threads : FromLoaded(u)'
<1>1. /\ DOMAIN th = Threads /\ DOMAIN th' = Threads /\ DOMAIN th[t] = Fields
      /\ \A u \in Threads \ {t} : th'[u] = th[u]
  BY AtWork
<1>2. \A p \in DOMAIN loaded : loaded[p].decided = 1 => p \in DOMAIN loaded' /\ loaded'[p].decided = 1
  BY LoadedStays
<1>3. ASSUME NEW u \in Threads, u # t
      PROVE  FromLoaded(u)'
  <2>1. th'[u] = th[u] /\ FromLoaded(u)
    BY <1>1, <1>3 DEF Answering
  <2> QED
    BY <1>2, <2>1 DEF FromLoaded, At
<1>4. ASSUME NEW d \in DOMAIN loaded, loaded[d].decided = 1, NEW x, th'[t].result = Chosen(d, x)
      PROVE  FromLoaded(t)'
  <2>1. th'[t].result[1].domain = d
    BY <1>4 DEF Chosen
  <2> QED
    BY <1>2, <1>4, <2>1 DEF FromLoaded
<1>5. th[t].pc \in {"store", "update"} => Here(t) \in DOMAIN loaded /\ loaded[Here(t)].decided = 1
  BY HereIsOn DEF Looking, Loading, Sure
<1>6. ASSUME Hits(t)
      PROVE  FromLoaded(t)'
  <2> DEFINE key  == Key(th[t])
             torn == \E u \in Threads : At(u, "update") /\ Key(th[u]) = key
             r    == Chosen(known[key].domain, known[key].translation)
  <2>1. th' = [th EXCEPT ![t] = [[th[t] EXCEPT !.raced = torn] EXCEPT !.pc = "return", !.result = r]]
        /\ th[t].pc = "hit"
    BY <1>6 DEF Hits, Answers, Goes, At
  <2>2. key \in DOMAIN known
    BY <2>1 DEF Answering, Bound, At
  <2>3. known[key].domain \in DOMAIN loaded /\ loaded[known[key].domain].decided = 1
    BY <2>2 DEF Answering, Remembered
  <2> HIDE DEF torn, key
  <2>4. th'[t].result = Chosen(known[key].domain, known[key].translation)
    BY <1>1, <2>1 DEF Fields
  <2> QED
    BY <1>4, <2>3, <2>4
<1>7. ASSUME NextName(t)
      PROVE  FromLoaded(t)'
  <2>1. th'[t].pc \in {"visit", "make"} \/ th'[t].result = <<>>
    <3>1. CASE Answers(t, th[t], <<>>)
      BY <1>1, <3>1 DEF Answers, Goes, Fields
    <3>2. CASE ~Answers(t, th[t], <<>>)
      BY <1>1, <1>7, <3>2 DEF NextName, Goes, Fields
    <3> QED
      BY <3>1, <3>2
  <2> QED
    BY <2>1 DEF FromLoaded, At
<1>8. ASSUME Stores(t)
      PROVE  FromLoaded(t)'
  <2>1. /\ th[t].pc = "store"
        /\ \/ th' = [th EXCEPT ![t] = [th[t] EXCEPT !.pc = "update"]]
           \/ th' = [th EXCEPT ![t] = [th[t] EXCEPT !.pc = "return", !.result = Chosen(Here(t), th[t].text)]]
    BY <1>8 DEF Stores, At, Goes, Answers
  <2>2. th'[t].pc = "update" \/ th'[t].result = Chosen(Here(t), th[t].text)
    BY <1>1, <2>1 DEF Fields
  <2> QED
    BY <1>4, <1>5, <2>1, <2>2 DEF FromLoaded, At
<1>9. ASSUME Updates(t)
      PROVE  FromLoaded(t)'
  <2>1. /\ th[t].pc = "update"
        /\ th' = [th EXCEPT ![t] = [th[t] EXCEPT !.pc = "return", !.result = Chosen(Here(t), th[t].text)]]
    BY <1>9 DEF Updates, At, Goes, Answers
  <2>2. th'[t].result = Chosen(Here(t), th[t].text)
    BY <1>1, <2>1 DEF Fields
  <2> QED
    BY <1>4, <1>5, <2>1, <2>2
<1>10. ASSUME Returns(t)
      PROVE  FromLoaded(t)'
  BY <1>1, <1>10 DEF Returns, Goes, Idle, FromLoaded, At
<1>11. ASSUME th'[t].pc \in {"visit", "next", "load", "read", "header", "find", "open", "store"}
      PROVE  FromLoaded(t)'
  BY <1>11 DEF FromLoaded, At
<1>12. ASSUME NEW x, Takes(t, x)
       PROVE  th'[t].pc \in {"visit", "store"}
  BY <1>1, <1>12 DEF Takes, Passes, Goes, Fields
<1>13. Finds(t) \/ Opens(t) => th'[t].pc \in {"visit", "open", "store"}
  <2>1. CASE th' = [th EXCEPT ![t] = [th[t] EXCEPT !.pc = "open"]]
    BY <1>1, <2>1 DEF Fields
  <2>2. CASE \E x : Takes(t, x)
    BY <1>12, <2>2
  <2> QED
    BY <2>1, <2>2 DEF Finds, Opens, Goes
<1>14. Makes(t) \/ Visits(t) \/ Loads(t) \/ ReadsFile(t) \/ ReadsHeader(t) =>
         th'[t].pc \in {"visit", "next", "load", "read", "header", "find"}
  BY <1>1 DEF Makes, Visits, Loads, ReadsFile, ReadsHeader, Goes, Fields
<1>15. FromLoaded(t)'
  BY <1>6, <1>7, <1>8, <1>9, <1>10, <1>11, <1>13, <1>14 DEF Runs
<1> QED
  BY <1>3, <1>15

LEMMA RememberedRuns ==
  ASSUME Shape, Loading, Answering, NEW t \in Threads, Runs(t)
  PROVE  \A key \in DOMAIN known' : Remembered(key)'
<1>1. /\ DOMAIN th = Threads /\ DOMAIN th' = Threads /\ DOMAIN th[t] = Fields
      /\ \A u \in Threads \ {t} : th'[u] = th[u]
      /\ UNCHANGED <<bindings, counter, env, since>> /\ (broken => broken')
  BY AtWork
<1>2. \A p \in DOMAIN loaded : loaded[p].decided = 1 => p \in DOMAIN loaded' /\ loaded'[p].decided = 1
  BY LoadedStays
<1>3. counter \in Nat /\ Bound(t) /\ OnTheWay(t) /\ \A key \in DOMAIN known : Remembered(key)
  BY DEF Answering
<1>4. \A key : Asked(key)' = Asked(key)
  BY <1>1 DEF Asked, Binding
\* A node that is as it was, if another thread at it does not come to the end.
<1>5. ASSUME NEW key \in DOMAIN known, known'[key] = known[key], Torn(key) => Torn(key)'
      PROVE  Remembered(key)'
  <2>1. Remembered(key)
    BY <1>3
  <2>2. Asked(key)' = Asked(key)
    BY <1>4
  <2> QED
    BY <1>1, <1>2, <1>5, <2>1, <2>2 DEF Remembered
\* Nobody else comes to the end.
<1>6. ASSUME NEW key, Torn(key), ~(At(t, "update") /\ Key(th[t]) = key)
      PROVE  Torn(key)'
  <2>1. PICK u \in Threads : At(u, "update") /\ Key(th[u]) = key
    BY <1>6 DEF Torn
  <2>2. u # t
    BY <1>6, <2>1
  <2>3. th'[u] = th[u]
    BY <1>1, <2>2
  <2>4. (At(u, "update") /\ Key(th[u]) = key)'
    BY <2>1, <2>3 DEF At, Key
  <2> QED
    BY <2>4 DEF Torn
\* What the thread stores is right.
<1>7. th[t].pc \in {"store", "update"} => Here(t) \in DOMAIN loaded /\ loaded[Here(t)].decided = 1
  BY HereIsOn DEF Looking, Loading, Sure
<1>8. ASSUME th[t].pc \in {"store", "update"}, ~broken
      PROVE  \E e \in since : Chosen(Here(t), th[t].text) \in Right(Languages(e), Asked(Key(th[t])))
  <2>1. Rest(th[t]) = {Chosen(Here(t), th[t].text)}
    BY <1>8 DEF Rest, Here
  <2>2. ~th[t].raced
    BY <1>3, <1>8 DEF Bound, At
  <2>3. PICK e \in since : Rest(th[t]) \subseteq Right(Languages(e), th[t])
    BY <1>3, <1>8, <2>2 DEF OnTheWay, At
  <2>4. \A names : Right(names, Asked(Key(th[t]))) = Right(names, th[t])
    <3> DEFINE a == Asked(Key(th[t]))
    <3>1. /\ a.domain = th[t].domain /\ a.dirname = th[t].dirname
          /\ a.encoding = th[t].encoding /\ a.q.msgid = th[t].q.msgid
      BY <1>3, <1>8 DEF Bound, At, Asked, Key
    <3> HIDE DEF a
    <3>2. \A names : Right(names, a) = Right(names, th[t])
      BY <3>1, SameQuestion
    <3> QED
      BY <3>2 DEF a
  <2> QED
    BY <2>1, <2>3, <2>4
\* A node the thread has just written.
<1>9. ASSUME NEW key, key = Key(th[t]), th[t].pc \in {"store", "update"},
             DOMAIN known'[key] = {"counter", "domain", "translation"},
             known'[key].counter \in 0..counter, known'[key].domain = Here(t),
             known'[key].translation = th[t].text
      PROVE  Remembered(key)'
  <2>1. /\ known'[key].domain \in DOMAIN loaded' /\ loaded'[known'[key].domain].decided = 1
    BY <1>2, <1>7, <1>9
  <2>2. ASSUME ~broken'
        PROVE  \E e \in since' :
                 Chosen(known'[key].domain, known'[key].translation) \in Right(Languages(e), Asked(key)')
    <3>1. ~broken
      BY <1>1, <2>2
    <3>2. Asked(key)' = Asked(Key(th[t]))
      BY <1>4, <1>9
    <3>3. Chosen(known'[key].domain, known'[key].translation) = Chosen(Here(t), th[t].text)
      BY <1>9
    <3>4. PICK e \in since : Chosen(Here(t), th[t].text) \in Right(Languages(e), Asked(Key(th[t])))
      BY <1>8, <1>9, <3>1
    <3> QED
      BY <1>1, <3>2, <3>3, <3>4
  <2> QED
    BY <1>1, <1>9, <2>1, <2>2 DEF Remembered
<1>10. CASE Stores(t)
  <2>5. PICK key : key = Key(th[t])
    OBVIOUS
  <2> DEFINE new == [counter |-> counter, domain |-> Here(t), translation |-> th[t].text]
  <2>1. th[t].pc = "store"
    BY <1>10 DEF Stores, At
  <2>2. \A k : Torn(k) => Torn(k)'
    BY <1>6, <2>1 DEF At
  <2>3. CASE th[t].found
    <3>1. /\ known' = [known EXCEPT ![key].counter = counter] /\ key \in DOMAIN known
          /\ th' = [th EXCEPT ![t] = [th[t] EXCEPT !.pc = "update"]]
      BY <1>3, <1>10, <2>1, <2>3, <2>5 DEF Stores, Goes, Bound, At
    <3>2. Torn(key)'
      <4>1. th'[t].pc = "update" /\ Key(th'[t]) = key
        BY <1>1, <2>5, <3>1 DEF Fields, Key
      <4> QED
        BY <4>1 DEF Torn, At
    <3>3. Remembered(key) /\ DOMAIN known[key] = {"counter", "domain", "translation"}
      BY <1>3, <3>1 DEF Remembered
    <3>4. /\ DOMAIN known' = DOMAIN known
          /\ \A k \in DOMAIN known \ {key} : known'[k] = known[k]
          /\ DOMAIN known'[key] = {"counter", "domain", "translation"}
          /\ known'[key].counter = counter /\ known'[key].domain = known[key].domain
      BY <3>1, <3>3
    <3>5. Remembered(key)'
      <4>1. known[key].domain \in DOMAIN loaded /\ loaded[known[key].domain].decided = 1
        BY <3>3 DEF Remembered
      <4>2. counter' \in 0..counter'
        BY <1>1, <1>3
      <4> QED
        BY <1>1, <1>2, <3>2, <3>4, <4>1, <4>2 DEF Remembered
    <3> QED
      BY <1>5, <2>2, <3>4, <3>5
  <2>4. CASE ~th[t].found
    <3>1. known' = [k \in DOMAIN known \cup {key} |-> IF k \in DOMAIN known THEN known[k] ELSE new]
      BY <1>10, <2>4, <2>5 DEF Stores
    <3>2. /\ DOMAIN known' = DOMAIN known \cup {key}
          /\ \A k \in DOMAIN known : known'[k] = known[k]
          /\ key \notin DOMAIN known => known'[key] = new
      BY <3>1
    <3>3. key \notin DOMAIN known => Remembered(key)'
      <4>1. counter \in 0..counter
        BY <1>3
      <4> QED
        BY <1>9, <2>1, <2>5, <3>2, <4>1
    <3> QED
      BY <1>5, <2>2, <3>2, <3>3
  <2> QED
    BY <2>3, <2>4
<1>11. CASE Updates(t)
  <2>6. PICK key : key = Key(th[t])
    OBVIOUS
  <2>1. /\ th[t].pc = "update" /\ key \in DOMAIN known
        /\ known' = [known EXCEPT ![key].domain = Here(t), ![key].translation = th[t].text]
    BY <1>3, <1>11, <2>6 DEF Updates, At, Bound
  <2>2. Remembered(key) /\ DOMAIN known[key] = {"counter", "domain", "translation"}
    BY <1>3, <2>1 DEF Remembered
  <2>3. /\ DOMAIN known' = DOMAIN known
        /\ \A k \in DOMAIN known \ {key} : known'[k] = known[k]
        /\ DOMAIN known'[key] = {"counter", "domain", "translation"}
        /\ known'[key].counter = known[key].counter /\ known'[key].domain = Here(t)
        /\ known'[key].translation = th[t].text
    BY <2>1, <2>2
  <2>4. Remembered(key)'
    BY <1>9, <2>1, <2>2, <2>3, <2>6 DEF Remembered
  <2>5. ASSUME NEW k \in DOMAIN known, k # key
        PROVE  Remembered(k)'
    <3>1. Torn(k) => Torn(k)'
      BY <1>6, <2>5, <2>6
    <3> QED
      BY <1>5, <2>3, <2>5, <3>1
  <2> QED
    BY <2>3, <2>4, <2>5
<1>12. CASE ~Stores(t) /\ ~Updates(t)
  <2>1. UNCHANGED known /\ ~At(t, "update")
    BY <1>12 DEF Runs, Hits, NextName, Makes, Visits, Loads, ReadsFile, ReadsHeader, Finds, Opens,
                 Returns, At
  <2>2. \A k : Torn(k) => Torn(k)'
    BY <1>6, <2>1
  <2> QED
    BY <1>5, <2>1, <2>2
<1> QED
  BY <1>10, <1>11, <1>12

LEMMA AnsweringRuns ==
  ASSUME Shape, Loading, Answering, NEW t \in Threads, Runs(t)
  PROVE  Answering'
<1>1. /\ \A u \in Threads \ {t} : th'[u] = th[u]
      /\ UNCHANGED <<counter, env, since>> /\ (broken => broken')
  BY AtWork
<1>2. ASSUME NEW u \in Threads
      PROVE  OnTheWay(u)'
  <2>1. CASE u = t
    BY <2>1, OnTheWayRuns
  <2>2. CASE u # t
    <3>1. th'[u] = th[u] /\ OnTheWay(u)
      BY <1>1, <2>2 DEF Answering
    <3> QED
      BY <1>1, <3>1 DEF OnTheWay, At
  <2> QED
    BY <2>1, <2>2
<1>3. env' \in since' /\ counter' \in Nat
  BY <1>1 DEF Answering
<1> QED
  BY <1>2, <1>3, BoundRuns, FromLoadedRuns, RememberedRuns DEF Answering

\* A setting is changed: no call is under way.
LEMMA AnsweringQuiet ==
  ASSUME Shape, Answering, Quiet, UNCHANGED <<env, known, loaded, th, broken>>,
         \/ UNCHANGED <<bindings, counter, since>>
         \/ counter' = counter + 1 /\ since' = {env}
  PROVE  Answering'
<1>1. \A u \in Threads : Bound(u)' /\ OnTheWay(u)' /\ FromLoaded(u)'
  BY DEF Quiet, Bound, OnTheWay, FromLoaded, At
<1>2. env' \in since' /\ counter' \in Nat
  BY DEF Answering
<1>3. ASSUME NEW key \in DOMAIN known
      PROVE  Remembered(key)'
  <2>1. Remembered(key) /\ counter \in Nat
    BY DEF Answering
  <2>2. CASE UNCHANGED <<bindings, counter, since>>
    <3>1. Asked(key)' = Asked(key)
      BY <2>2 DEF Asked, Binding
    <3>2. Torn(key)' = Torn(key)
      BY DEF Torn, At, Key
    <3> QED
      BY <2>1, <2>2, <3>1, <3>2 DEF Remembered
  <2>3. CASE counter' = counter + 1 /\ since' = {env}
    <3>1. known'[key] = known[key] /\ known[key].counter \in 0..counter
      BY <2>1 DEF Remembered
    <3>2. known'[key].counter \in 0..counter' /\ known'[key].counter # counter'
      BY <2>1, <2>3, <3>1
    <3> QED
      BY <2>1, <3>1, <3>2 DEF Remembered
  <2> QED
    BY <2>2, <2>3
<1> QED
  BY <1>1, <1>2, <1>3 DEF Answering

LEMMA AnsweringNext == Shape /\ Loading /\ Answering /\ [Next]_vars => Answering'
<1> SUFFICES ASSUME Shape, Loading, Answering, [Next]_vars
             PROVE  Answering'
  OBVIOUS
<1>1. ASSUME UNCHANGED <<bindings, counter, known, loaded, th, broken>>, since \subseteq since', env' \in since'
      PROVE  Answering'
  <2>1. \A u \in Threads : Bound(u)' /\ OnTheWay(u)' /\ FromLoaded(u)'
    <3> TAKE u \in Threads
    <3>1. Bound(u) /\ OnTheWay(u) /\ FromLoaded(u) /\ th'[u] = th[u]
      BY <1>1 DEF Answering
    <3>2. Bound(u)'
      BY <1>1, <3>1 DEF Bound, At, Key, Binding
    <3>3. OnTheWay(u)'
      BY <1>1, <3>1 DEF OnTheWay, At
    <3>4. FromLoaded(u)'
      BY <1>1, <3>1 DEF FromLoaded, At
    <3> QED
      BY <3>2, <3>3, <3>4
  <2>2. ASSUME NEW key \in DOMAIN known
        PROVE  Remembered(key)'
    <3>1. Asked(key)' = Asked(key)
      BY <1>1 DEF Asked, Binding
    <3>2. Torn(key)' = Torn(key)
      BY <1>1 DEF Torn, At, Key
    <3>3. Remembered(key)
      BY DEF Answering
    <3> QED
      BY <1>1, <3>1, <3>2, <3>3 DEF Remembered
  <2> QED
    BY <1>1, <2>1, <2>2 DEF Answering
<1>2. CASE UNCHANGED vars
  BY <1>1, <1>2 DEF vars, Answering
<1>3. ASSUME NEW t \in Threads, Runs(t)
      PROVE  Answering'
  BY <1>3, AnsweringRuns
<1>4. ASSUME NEW t \in Threads, NEW q \in Questions, Calls(t, q)
      PROVE  Answering'
  <2> DEFINE d == IF q.domain = NULL THEN current ELSE q.domain
             b == Binding(d)
             key == <<d, q.msgid>>
             there == key \in DOMAIN known
             pc == IF there /\ Fresh(key) THEN "hit" ELSE "next"
             local == [pc |-> "next", q |-> q, domain |-> d, found |-> there,
                       dirname |-> b.dirname, encoding |-> Encoding(b.codeset),
                       names |-> Languages(env), chain |-> <<>>, text |-> NULL,
                       result |-> <<>>, raced |-> FALSE]
  <2>1. /\ At(t, "idle") /\ DOMAIN th = Threads
        /\ th' = [th EXCEPT ![t] = [local EXCEPT !.pc = pc]]
        /\ UNCHANGED <<bindings, counter, env, known, loaded, broken, since>>
    BY <1>4 DEF Calls, Goes, Shape
  <2>2. (pc = "hit" /\ there /\ known[key].counter = counter) \/ pc = "next"
    BY DEF Fresh
  <2>3. there \in BOOLEAN
    OBVIOUS
  <2>4. \A x : Binding(x)' = Binding(x)
    BY <2>1 DEF Binding
  <2>5. there => key \in DOMAIN known
    OBVIOUS
  <2>12. key = <<d, q.msgid>>
    OBVIOUS
  <2> HIDE DEF pc, there, d, key
  <2>6. /\ th'[t].pc = pc /\ th'[t].q = q /\ th'[t].domain = d /\ th'[t].found = there
        /\ th'[t].dirname = b.dirname /\ th'[t].encoding = Encoding(b.codeset)
        /\ th'[t].names = Languages(env) /\ th'[t].result = <<>> /\ th'[t].raced = FALSE
    BY <2>1
  <2>7. \A u \in Threads \ {t} : th'[u] = th[u]
    BY <2>1
  <2>8. Bound(t)' /\ OnTheWay(t)' /\ FromLoaded(t)'
    <3>1. Key(th'[t]) = key
      BY <2>6, <2>12 DEF Key
    <3>2. Bound(t)'
      BY <2>1, <2>2, <2>4, <2>5, <2>6, <3>1 DEF Bound, At
    <3>3. pc = "next" => Rest(th'[t]) = Right(Languages(env), th'[t])
      BY <2>6 DEF Rest
    <3>4. OnTheWay(t)'
      BY <2>1, <2>2, <2>6, <3>3 DEF OnTheWay, At, Answering
    <3>5. FromLoaded(t)'
      BY <2>6 DEF FromLoaded
    <3> QED
      BY <3>2, <3>4, <3>5
  <2>9. ASSUME NEW u \in Threads, u # t
        PROVE  Bound(u)' /\ OnTheWay(u)' /\ FromLoaded(u)'
    <3>1. Bound(u) /\ OnTheWay(u) /\ FromLoaded(u) /\ th'[u] = th[u]
      BY <2>7, <2>9 DEF Answering
    <3>2. Bound(u)'
      BY <2>1, <2>4, <3>1 DEF Bound, At, Key
    <3>3. OnTheWay(u)'
      BY <2>1, <3>1 DEF OnTheWay, At
    <3>4. FromLoaded(u)'
      BY <2>1, <3>1 DEF FromLoaded, At
    <3> QED
      BY <3>2, <3>3, <3>4
  <2>10. ASSUME NEW k \in DOMAIN known
         PROVE  Remembered(k)'
    <3>1. Asked(k)' = Asked(k)
      BY <2>1, <2>4 DEF Asked
    <3>2. Torn(k) => Torn(k)'
      <4>1. ASSUME NEW u \in Threads, At(u, "update"), Key(th[u]) = k
            PROVE  (At(u, "update") /\ Key(th[u]) = k)'
        <5>1. u # t
          BY <2>1, <4>1 DEF At
        <5>2. th'[u] = th[u]
          BY <2>7, <5>1
        <5> QED
          BY <4>1, <5>2 DEF At, Key
      <4> QED
        BY <4>1 DEF Torn
    <3>3. Remembered(k)
      BY DEF Answering
    <3> QED
      BY <2>1, <3>1, <3>2, <3>3 DEF Remembered
  <2>11. env' \in since' /\ counter' \in Nat
    BY <2>1 DEF Answering
  <2> QED
    BY <2>1, <2>8, <2>9, <2>10, <2>11 DEF Answering
<1>5. ASSUME NEW d, NEW b, Binds(d, b)
      PROVE  Answering'
  <2>1. /\ Quiet /\ UNCHANGED <<env, known, loaded, th, broken>>
        /\ \/ UNCHANGED <<bindings, counter, since>>
           \/ counter' = counter + 1 /\ since' = {env}
    BY <1>5 DEF Binds, Flushes
  <2> QED
    BY <2>1, AnsweringQuiet
<1>6. ASSUME NEW d \in Domains, TextDomain(d)
      PROVE  Answering'
  <2>1. /\ Quiet /\ UNCHANGED <<env, known, loaded, th, broken>>
        /\ counter' = counter + 1 /\ since' = {env}
    BY <1>6 DEF TextDomain, Flushes
  <2> QED
    BY <2>1, AnsweringQuiet
<1>7. ASSUME NEW e \in Environments, SetsEnvironment(e)
      PROVE  Answering'
  BY <1>1, <1>7 DEF SetsEnvironment, Answering
<1> QED
  BY <1>2, <1>3, <1>4, <1>5, <1>6, <1>7 DEF Next, BindDir, BindCodeset

LEMMA AnsweringHolds == Spec => []Answering
BY AnsweringInit, AnsweringNext, ShapeHolds, LoadingHolds, PTL DEF Spec

(* A call answers with the translation that a search from nothing finds, for the      *)
(* present bindings and for languages there were since the last setting: neither the  *)
(* tree of known translations nor the list of catalogs nor another thread makes a     *)
(* difference.  For any threads, calls, names, aliases, files and conversions.        *)
THEOREM SearchedAnew == Spec => []AnswersRight
<1>1. ASSUME Loading, Answering, ~broken, NEW t \in Threads, At(t, "return"), ~th[t].raced
      PROVE  \E e \in since : \E r \in Right(Languages(e), th[t]) :
               Said(t) = Given(th[t].q, r, Contents(r[1].domain))
  <2> DEFINE r == th[t].result
  <2>1. OnTheWay(t) /\ FromLoaded(t)
    BY <1>1 DEF Answering
  <2>2. Rest(th[t]) = {r}
    BY <1>1 DEF Rest, At
  <2>3. PICK e \in since : r \in Right(Languages(e), th[t])
    BY <1>1, <2>1, <2>2 DEF OnTheWay, At
  <2>4. r # <<>> => loaded[r[1].domain].data = Contents(r[1].domain)
    BY <1>1, <2>1 DEF FromLoaded, Loading, Settled
  <2>5. Said(t) = Given(th[t].q, r, Contents(r[1].domain))
    BY <2>4 DEF Said, Given
  <2> QED
    BY <2>3, <2>5
<1>2. Loading /\ Answering => AnswersRight
  BY <1>1 DEF AnswersRight
<1> QED
  BY <1>2, LoadingHolds, AnsweringHolds, PTL
=============================================================================
