------------------------- MODULE ButtonEditorProofs -------------------------
(***************************************************************************)
(* For any buttons, key codes, names, fields, files and number of edits.   *)
(* A configuration that is saved and read again gives its buttons back     *)
(* (RoundTrip).  Up to the first step into one of the three traps, tree,   *)
(* fields and table stay together and selecting stores nothing; a          *)
(* configuration that is opened, the step into the trap included, gives    *)
(* the buttons of its file, all but the one being edited with the file's   *)
(* settings.                                                               *)
(*                                                                         *)
(* The inductive invariant, EditorInv, is preserved because each of three  *)
(* calls keeps a page right: storing the fields (UpdatedRight), showing a  *)
(* button with block_update set (RefreshedRight), and showing one without  *)
(* it where no callback is called (ShownQuietly).  Where callbacks are     *)
(* called, each of them stores into the button being edited and into no    *)
(* other one (RefreshNear).                                                *)
(***************************************************************************)
EXTENDS ButtonEditor, FiniteSetTheorems, SequenceTheorems,
        WellFoundedInduction, TLAPS

-----------------------------------------------------------------------------
(* Sequences and sets of numbers. *)

\* A set of numbers that is not empty has its Min in it, and none is less.
LEMMA MinIsLeast ==
  ASSUME NEW S \in SUBSET Nat, S # {}
  PROVE  Min(S) \in S /\ \A n \in S : Min(S) <= n
<1>1. \E m \in S : \A n \in S : ~ (<<n, m>> \in OpToRel(<, Nat))
  BY WFMin, NatLessThanWellFounded, Zenon
<1>2. PICK m \in S : \A n \in S : ~ (<<n, m>> \in OpToRel(<, Nat))
  BY <1>1
<1>3. ASSUME NEW n \in S, n < m
      PROVE  FALSE
  <2>1. <<n, m>> \in Nat \X Nat
    OBVIOUS
  <2>2. <<n, m>>[1] = n /\ <<n, m>>[2] = m
    OBVIOUS
  <2>3. <<n, m>> \in OpToRel(<, Nat)
    BY <1>3, <2>1, <2>2, Zenon DEF OpToRel
  <2> QED
    BY <1>2, <2>3
<1>4. \A n \in S : m <= n
  BY <1>3
<1> QED
  BY <1>4 DEF Min

\* Induction over the natural numbers, for a set of them.
LEMMA InductOn ==
  ASSUME NEW S, 0 \in S, \A n \in Nat : n \in S => n + 1 \in S
  PROVE  Nat \subseteq S
<1> DEFINE T == Nat \ S
<1>1. SUFFICES ASSUME T # {}
               PROVE  FALSE
  OBVIOUS
<1>2. Min(T) \in T /\ \A n \in T : Min(T) <= n
  BY <1>1, MinIsLeast
<1> DEFINE m == Min(T)
<1> HIDE DEF m
<1>3. m \in Nat /\ m \notin S /\ \A n \in Nat : n \notin S => m <= n
  BY <1>2 DEF m
<1>4. m - 1 \in Nat /\ m - 1 \in S
  BY <1>3
<1> QED
  BY <1>3, <1>4

\* An entry of a sequence is removed; removing one that is not there keeps a
\* sequence.
LEMMA RemovedIsSeq ==
  ASSUME NEW S, NEW s \in Seq(S), NEW n \in 0..Len(s) + 1
  PROVE  /\ RemoveAt(s, n) \in Seq(S)
         /\ n \in 1..Len(s) =>
              /\ Len(RemoveAt(s, n)) = Len(s) - 1
              /\ \A i \in 1..Len(s) - 1 :
                   RemoveAt(s, n)[i] = IF i < n THEN s[i] ELSE s[i + 1]
<1> DEFINE front == SubSeq(s, 1, n - 1)
           back  == SubSeq(s, n + 1, Len(s))
<1>1. Len(s) \in Nat /\ \A k \in 1..Len(s) : s[k] \in S
  BY LenProperties
<1>2. /\ front \in Seq(S)
      /\ Len(front) = IF 1 <= n - 1 THEN n - 1 ELSE 0
      /\ \A i \in 1..n - 1 : front[i] = s[i]
  BY <1>1, SubSeqProperties
<1>3. /\ back \in Seq(S)
      /\ Len(back) = IF n + 1 <= Len(s) THEN Len(s) - n ELSE 0
      /\ \A i \in 1..Len(s) - n : back[i] = s[n + i]
  BY <1>1, SubSeqProperties
<1>4. RemoveAt(s, n) = front \o back
  BY DEF RemoveAt
<1> HIDE DEF front, back
<1>5. /\ RemoveAt(s, n) \in Seq(S)
      /\ Len(RemoveAt(s, n)) = Len(front) + Len(back)
      /\ \A i \in 1..Len(front) + Len(back) :
           RemoveAt(s, n)[i] = IF i <= Len(front) THEN front[i] ELSE back[i - Len(front)]
  <2>1. front \in Seq(S) /\ back \in Seq(S)
    BY <1>2, <1>3
  <2>2. /\ front \o back \in Seq(S)
        /\ Len(front \o back) = Len(front) + Len(back)
        /\ \A i \in 1..Len(front) + Len(back) :
             (front \o back)[i] = IF i <= Len(front) THEN front[i] ELSE back[i - Len(front)]
    BY <2>1, ConcatProperties
  <2> QED
    BY <1>4, <2>2, Zenon
<1>6. ASSUME n \in 1..Len(s)
      PROVE  /\ Len(RemoveAt(s, n)) = Len(s) - 1
             /\ \A i \in 1..Len(s) - 1 :
                  RemoveAt(s, n)[i] = IF i < n THEN s[i] ELSE s[i + 1]
  <2>1. Len(front) = n - 1 /\ Len(back) = Len(s) - n
    BY <1>1, <1>2, <1>3, <1>6
  <2>2. Len(RemoveAt(s, n)) = Len(s) - 1
    BY <1>1, <1>5, <1>6, <2>1
  <2>3. ASSUME NEW i \in 1..Len(s) - 1
        PROVE  RemoveAt(s, n)[i] = IF i < n THEN s[i] ELSE s[i + 1]
    <3>1. RemoveAt(s, n)[i] = IF i <= n - 1 THEN front[i] ELSE back[i - (n - 1)]
      BY <1>1, <1>5, <1>6, <2>1
    <3>2. CASE i < n
      BY <1>1, <1>2, <1>6, <3>1, <3>2
    <3>3. CASE ~(i < n)
      <4>1. i - (n - 1) \in 1..Len(s) - n
        BY <1>1, <1>6, <3>3
      <4>2. back[i - (n - 1)] = s[n + (i - (n - 1))]
        BY <1>3, <4>1
      <4> QED
        BY <1>1, <1>6, <3>1, <3>3, <4>2
    <3> QED
      BY <3>2, <3>3
  <2> QED
    BY <2>2, <2>3
<1> QED
  BY <1>5, <1>6
-----------------------------------------------------------------------------
(* Reading lines one after the other. *)

\* Reading the lines ls takes the reader from a to b.
Runs(a, ls, b) ==
  \E g : /\ g[0] = a /\ g[Len(ls)] = b
         /\ \A n \in 1..Len(ls) : g[n] = ReadLine(g[n - 1], ls[n])

IsLines(x) == \E S : x \in Seq(S)

LEMMA LinesJoin ==
  ASSUME NEW x, NEW y, IsLines(x), IsLines(y)
  PROVE  IsLines(x \o y)
<1>1. PICK S : x \in Seq(S)
  BY DEF IsLines
<1>2. PICK T : y \in Seq(T)
  BY DEF IsLines
<1>3. x \in Seq(S \cup T) /\ y \in Seq(S \cup T)
  BY <1>1, <1>2
<1>4. x \o y \in Seq(S \cup T)
  BY <1>3, ConcatProperties
<1> QED
  BY <1>4 DEF IsLines

LEMMA RunsNone == ASSUME NEW a PROVE Runs(a, <<>>, a)
<1> DEFINE g == [n \in {0} |-> a]
<1>1. g[0] = a /\ g[Len(<<>>)] = a /\ \A n \in 1..Len(<<>>) : g[n] = ReadLine(g[n - 1], <<>>[n])
  OBVIOUS
<1> HIDE DEF g
<1> QED
  BY <1>1 DEF Runs

LEMMA RunsLine == ASSUME NEW a, NEW l PROVE Runs(a, <<l>>, ReadLine(a, l))
<1> DEFINE b == ReadLine(a, l)
           g == [n \in 0..1 |-> IF n = 0 THEN a ELSE b]
<1>1. g[0] = a /\ g[1] = b
  OBVIOUS
<1>2. Len(<<l>>) = 1 /\ <<l>>[1] = l
  OBVIOUS
<1> HIDE DEF g
<1>3. /\ g[0] = a /\ g[Len(<<l>>)] = b
      /\ \A n \in 1..Len(<<l>>) : g[n] = ReadLine(g[n - 1], <<l>>[n])
  BY <1>1, <1>2
<1> HIDE DEF b
<1> QED
  BY <1>3 DEF Runs, b

LEMMA RunsBoth ==
  ASSUME NEW x, IsLines(x), NEW y, IsLines(y), NEW a, NEW b, NEW c,
         Runs(a, x, b), Runs(b, y, c)
  PROVE  Runs(a, x \o y, c)
<1>1. PICK g : /\ g[0] = a /\ g[Len(x)] = b
               /\ \A n \in 1..Len(x) : g[n] = ReadLine(g[n - 1], x[n])
  BY Zenon DEF Runs
<1>2. PICK h : /\ h[0] = b /\ h[Len(y)] = c
               /\ \A n \in 1..Len(y) : h[n] = ReadLine(h[n - 1], y[n])
  BY Zenon DEF Runs
<1> DEFINE z == x \o y
           k == [n \in 0..Len(z) |-> IF n <= Len(x) THEN g[n] ELSE h[n - Len(x)]]
<1>3. /\ Len(x) \in Nat /\ Len(y) \in Nat /\ Len(z) = Len(x) + Len(y)
      /\ \A n \in 1..Len(z) : z[n] = IF n <= Len(x) THEN x[n] ELSE y[n - Len(x)]
  <2>1. PICK S : x \in Seq(S)
    BY DEF IsLines
  <2>2. PICK T : y \in Seq(T)
    BY DEF IsLines
  <2>3. x \in Seq(S \cup T) /\ y \in Seq(S \cup T)
    BY <2>1, <2>2
  <2> QED
    BY <2>3, ConcatProperties, LenProperties
<1> HIDE DEF z
<1>4. \A n \in 0..Len(z) : k[n] = IF n <= Len(x) THEN g[n] ELSE h[n - Len(x)]
  OBVIOUS
<1> HIDE DEF k
<1>5. k[0] = a
  BY <1>1, <1>3, <1>4
<1>6. k[Len(z)] = c
  <2>1. CASE Len(y) = 0
    BY <1>1, <1>2, <1>3, <1>4, <2>1
  <2>2. CASE Len(y) # 0
    <3>1. Len(z) \in 0..Len(z) /\ ~(Len(z) <= Len(x)) /\ Len(z) - Len(x) = Len(y)
      BY <1>3, <2>2
    <3> QED
      BY <1>2, <1>4, <3>1
  <2> QED
    BY <2>1, <2>2
<1>7. ASSUME NEW n \in 1..Len(z)
      PROVE  k[n] = ReadLine(k[n - 1], z[n])
  <2>1. CASE n <= Len(x)
    <3>1. n \in 1..Len(x) /\ n - 1 \in 0..Len(z) /\ n - 1 <= Len(x) /\ n \in 0..Len(z)
      BY <1>3, <2>1
    <3>2. k[n] = g[n] /\ k[n - 1] = g[n - 1] /\ z[n] = x[n]
      BY <1>3, <1>4, <2>1, <3>1
    <3> QED
      BY <1>1, <3>1, <3>2
  <2>2. CASE ~(n <= Len(x))
    <3> DEFINE i == n - Len(x)
    <3>1. i \in 1..Len(y) /\ n - 1 \in 0..Len(z) /\ n \in 0..Len(z) /\ i - 1 = n - 1 - Len(x)
      BY <1>3, <2>2
    <3>2. k[n] = h[i] /\ z[n] = y[i]
      BY <1>3, <1>4, <2>2, <3>1
    <3>3. k[n - 1] = h[i - 1]
      <4>1. CASE n - 1 <= Len(x)
        <5>1. n - 1 = Len(x) /\ i - 1 = 0
          BY <1>3, <2>2, <4>1
        <5>2. k[n - 1] = g[n - 1]
          BY <1>4, <3>1, <4>1
        <5> QED
          BY <1>1, <1>2, <5>1, <5>2
      <4>2. CASE ~(n - 1 <= Len(x))
        BY <1>4, <3>1, <4>2
      <4> QED
        BY <4>1, <4>2
    <3> HIDE DEF i
    <3> QED
      BY <1>2, <3>1, <3>2, <3>3
  <2> QED
    BY <2>1, <2>2
<1> QED
  BY <1>5, <1>6, <1>7, Zenon DEF Runs, z

\* What config_file_parse makes of the lines.
LEMMA RunsIsParse ==
  ASSUME NEW ls, IsLines(ls), NEW c, Runs(Start, ls, c)
  PROVE  Parse(ls) = c
<1> DEFINE N == Len(ls)
           F(f) == [n \in 0..N |-> IF n = 0 THEN Start ELSE ReadLine(f[n - 1], ls[n])]
           after == CHOOSE f : f = F(f)
<1>1. N \in Nat
  BY LenProperties DEF IsLines
<1>2. PICK g : g[0] = Start /\ g[N] = c /\ \A n \in 1..N : g[n] = ReadLine(g[n - 1], ls[n])
  BY Zenon DEF Runs
<1>3. \E f : f = F(f)
  <2> DEFINE f == [n \in 0..N |-> g[n]]
  <2>1. \A n \in 0..N : f[n] = g[n]
    OBVIOUS
  <2>2. ASSUME NEW n \in 0..N
        PROVE  F(f)[n] = g[n]
    <3>1. CASE n = 0
      BY <1>2, <3>1
    <3>2. CASE n # 0
      <4>1. n \in 1..N /\ n - 1 \in 0..N
        BY <1>1, <3>2
      <4>2. F(f)[n] = ReadLine(f[n - 1], ls[n])
        BY <3>2
      <4> QED
        BY <1>2, <2>1, <4>1, <4>2
    <3> QED
      BY <3>1, <3>2
  <2>3. f = F(f)
    BY <2>1, <2>2
  <2> QED
    BY <2>3
<1>4. after = F(after)
  <2> HIDE DEF F
  <2> QED
    BY <1>3
<1> HIDE DEF after
<1>5. after[0] = Start /\ \A n \in 1..N : after[n] = ReadLine(after[n - 1], ls[n])
  BY <1>1, <1>4
<1> HIDE DEF F
<1> DEFINE T == {n \in Nat : n <= N => after[n] = g[n]}
<1>6. Nat \subseteq T
  <2>1. 0 \in T
    BY <1>2, <1>5
  <2>2. ASSUME NEW n \in Nat, n \in T
        PROVE  n + 1 \in T
    <3>1. SUFFICES ASSUME n + 1 <= N
                   PROVE  after[n + 1] = g[n + 1]
      OBVIOUS
    <3>2. n + 1 \in 1..N /\ after[n] = g[n] /\ (n + 1) - 1 = n
      BY <1>1, <2>2, <3>1
    <3> QED
      BY <1>2, <1>5, <3>2
  <2> HIDE DEF T
  <2> QED
    BY <2>1, <2>2, InductOn
<1>7. after[N] = c
  BY <1>1, <1>2, <1>6
<1> QED
  BY <1>7 DEF Parse, after, F

\* The states of the reader from line to line.
LEMMA RunsAlong ==
  ASSUME NEW ls, NEW N \in Nat, Len(ls) = N, NEW st,
         \A n \in 1..N : st[n + 1] = ReadLine(st[n], ls[n])
  PROVE  Runs(st[1], ls, st[N + 1])
<1> DEFINE g == [n \in 0..N |-> st[n + 1]]
<1>1. \A n \in 0..N : g[n] = st[n + 1]
  OBVIOUS
<1> HIDE DEF g
<1>2. g[0] = st[1] /\ g[N] = st[N + 1]
  BY <1>1
<1>3. ASSUME NEW n \in 1..N
      PROVE  g[n] = ReadLine(g[n - 1], ls[n])
  BY <1>1
<1> QED
  BY <1>2, <1>3, Zenon DEF Runs
-----------------------------------------------------------------------------
(* Reading what was written: config_file_save, then config_file_parse. *)

\* A button with the fields it has; what they hold does not matter here.
IsSet(s) ==
  s \in [name : {s.name}, enabled : {s.enabled}, delay : {s.delay}, evtype : {s.evtype},
         keycode : {s.keycode}, mod : {s.mod}, command : {s.command}, uid : {s.uid},
         switch_type : {s.switch_type}, switch_name : {s.switch_name}]
IsButton(b) == b \in [rawcode : {b.rawcode}, set : {b.set}] /\ IsSet(b.set)

\* block_begin, once a block has begun.
Begun == TRUE

\* The reader within the block of a button, with table t before it ...
Inside(m, t, b) ==
  [mouse |-> m, table |-> Append(t, b), i |-> Len(t) + 1, block |-> "button", begun |-> Begun]
\* ... and after it.
After(m, t) == [mouse |-> m, table |-> t, i |-> Len(t), block |-> "none", begun |-> Begun]

\* The table's entry is replaced.
LEMMA LastReplaced ==
  ASSUME NEW S, NEW t \in Seq(S), NEW b, NEW c
  PROVE  [Append(t, b) EXCEPT ![Len(t) + 1] = c] = Append(t, c)
<1> DEFINE R == S \cup {b, c}
           u == Append(t, b)
           v == Append(t, c)
<1>1. t \in Seq(R) /\ Len(t) \in Nat
  BY LenProperties
<1>2. /\ u \in Seq(R) /\ Len(u) = Len(t) + 1
      /\ \A i \in 1..Len(u) : u[i] = IF i <= Len(t) THEN t[i] ELSE b
  BY <1>1, AppendProperties
<1>3. /\ v \in Seq(R) /\ Len(v) = Len(t) + 1
      /\ \A i \in 1..Len(v) : v[i] = IF i <= Len(t) THEN t[i] ELSE c
  BY <1>1, AppendProperties
<1>4. DOMAIN u = 1..Len(t) + 1 /\ DOMAIN v = 1..Len(t) + 1
  BY <1>1, <1>2, <1>3, LenProperties
<1>5. u = [i \in 1..Len(t) + 1 |-> u[i]] /\ v = [i \in 1..Len(t) + 1 |-> v[i]]
  <2>1. u \in [1..Len(u) -> R] /\ v \in [1..Len(v) -> R]
    BY <1>2, <1>3, LenProperties
  <2> HIDE DEF u, v, R
  <2> QED
    BY <1>4, <2>1
<1> HIDE DEF u, v, R
<1> DEFINE w == [u EXCEPT ![Len(t) + 1] = c]
<1>6. DOMAIN w = 1..Len(t) + 1 /\ w = [i \in 1..Len(t) + 1 |-> IF i = Len(t) + 1 THEN c ELSE u[i]]
  BY <1>4, <1>5
<1>7. \A i \in 1..Len(t) + 1 : (IF i = Len(t) + 1 THEN c ELSE u[i]) = v[i]
  BY <1>1, <1>2, <1>3
<1>8. w = v
  BY <1>5, <1>6, <1>7
<1> QED
  BY <1>8 DEF u, v, w

LEMMA InsideTable ==
  ASSUME NEW S, NEW t \in Seq(S), NEW b
  PROVE  /\ Len(t) \in Nat /\ Len(Append(t, b)) = Len(t) + 1
         /\ Append(t, b)[Len(t) + 1] = b /\ Len(t) + 1 \in DOMAIN Append(t, b)
<1>1. t \in Seq(S \cup {b}) /\ Len(t) \in Nat
  BY LenProperties
<1> QED
  BY <1>1, AppendProperties, LenProperties

LEMMA OptionRead ==
  ASSUME NEW S, NEW t \in Seq(S), NEW b, b \in [rawcode : {b.rawcode}, set : {b.set}],
         NEW m, NEW o, o \notin Words, o # "rawcode", NEW v
  PROVE  ReadLine(Inside(m, t, b), Opt(o, v)) =
             Inside(m, t, [rawcode |-> b.rawcode, set |-> SetOption(b.set, o, v)])
<1> DEFINE st == Inside(m, t, b)
           line == Opt(o, v)
           s == SetOption(b.set, o, v)
           c == [rawcode |-> b.rawcode, set |-> s]
<1>1. line.opt = o /\ line.val = v
  BY DEF Opt
<1>2. o \notin {"Button", "Mouse", "EndButton", "EndMouse"} /\ o \notin Words
  BY DEF Words
<1>3. /\ st.block = "button" /\ st.i = Len(t) + 1 /\ st.table = Append(t, b)
      /\ st.i <= Len(st.table) /\ st.table[st.i] = b /\ st.table[st.i].set = b.set
  BY InsideTable DEF Inside
<1> HIDE DEF line
<1>4. ReadLine(st, line) = [st EXCEPT !.table[st.i].set = SetOption(@, o, v)]
  <2> HIDE DEF st
  <2> QED
    BY <1>1, <1>2, <1>3 DEF ReadLine
<1>5. [st EXCEPT !.table[st.i].set = SetOption(@, o, v)] =
        [st EXCEPT !.table = [Append(t, b) EXCEPT ![Len(t) + 1] = [b EXCEPT !.set = s]]]
  <2> HIDE DEF s
  <2>1. DOMAIN st = {"mouse", "table", "i", "block", "begun"}
    BY DEF Inside
  <2>2. Len(t) + 1 \in DOMAIN Append(t, b)
    BY InsideTable
  <2> QED
    BY <1>3, <2>1, <2>2, Zenon DEF s
<1>6. [b EXCEPT !.set = s] = c
  <2> HIDE DEF s
  <2> QED
    OBVIOUS
<1>7. [Append(t, b) EXCEPT ![Len(t) + 1] = c] = Append(t, c)
  BY LastReplaced
<1>8. [st EXCEPT !.table = Append(t, c)] = Inside(m, t, c)
  <2> DEFINE w == Append(t, c)
             u == Append(t, b)
             k == Len(t) + 1
  <2>1. \A x : x = [mouse |-> m, table |-> u, i |-> k, block |-> "button", begun |-> Begun] =>
          [x EXCEPT !.table = w] =
            [mouse |-> m, table |-> w, i |-> k, block |-> "button", begun |-> Begun]
    <3> HIDE DEF w, u, k
    <3> QED
      OBVIOUS
  <2> QED
    BY <2>1, Zenon DEF Inside, st, w, u, k
<1> QED
  BY <1>4, <1>5, <1>6, <1>7, <1>8 DEF st, line, s, c

LEMMA RawcodeRead ==
  ASSUME NEW S, NEW t \in Seq(S), NEW b, b \in [rawcode : {b.rawcode}, set : {b.set}],
         NEW m, NEW r
  PROVE  ReadLine(Inside(m, t, b), Opt("rawcode", r)) =
             Inside(m, t, [rawcode |-> r, set |-> b.set])
<1> DEFINE st == Inside(m, t, b)
           line == Opt("rawcode", r)
           c == [rawcode |-> r, set |-> b.set]
           w == Append(t, c)
           u == Append(t, b)
           k == Len(t) + 1
<1>1. line.opt = "rawcode" /\ line.val = r
  BY DEF Opt
<1>2. "rawcode" \notin {"Button", "Mouse", "EndButton", "EndMouse"} /\ "rawcode" \notin Words
  BY DEF Words
<1>3. /\ st.block = "button" /\ st.i = k /\ st.table = u
      /\ st.i <= Len(st.table) /\ st.table[st.i] = b
  BY InsideTable DEF Inside
<1> HIDE DEF line
<1>4. ReadLine(st, line) = [st EXCEPT !.table[st.i].rawcode = r]
  <2> HIDE DEF st
  <2> QED
    BY <1>1, <1>2, <1>3 DEF ReadLine
<1>5. [st EXCEPT !.table[st.i].rawcode = r] =
        [st EXCEPT !.table = [u EXCEPT ![k] = [b EXCEPT !.rawcode = r]]]
  <2>1. DOMAIN st = {"mouse", "table", "i", "block", "begun"}
    BY DEF Inside
  <2>2. k \in DOMAIN u
    BY InsideTable
  <2> QED
    BY <1>3, <2>1, <2>2, Zenon
<1>6. [b EXCEPT !.rawcode = r] = c
  OBVIOUS
<1>7. [u EXCEPT ![k] = c] = w
  BY LastReplaced
<1>8. [st EXCEPT !.table = w] = Inside(m, t, c)
  <2>1. \A x : x = [mouse |-> m, table |-> u, i |-> k, block |-> "button", begun |-> Begun] =>
          [x EXCEPT !.table = w] =
            [mouse |-> m, table |-> w, i |-> k, block |-> "button", begun |-> Begun]
    <3> HIDE DEF w, u, k
    <3> QED
      OBVIOUS
  <2> QED
    BY <2>1, Zenon DEF Inside, st, w, u, k
<1> QED
  BY <1>4, <1>5, <1>6, <1>7, <1>8 DEF st, line, c

\* The place holder of the block is a raw code that no button before it has.
LEMMA BlockBegins ==
  ASSUME NEW S, NEW t \in Seq(S), NEW m, \A i \in 1..Len(t) : t[i].rawcode # Len(t)
  PROVE  ReadLine(After(m, t), Word("Button")) = Inside(m, t, NewButton(Len(t)))
<1> DEFINE st == After(m, t)
           line == Word("Button")
           n == Len(t)
           u == Append(t, NewButton(n))
           k == n + 1
<1>1. IndexOf(t, n) = 0
  BY DEF IndexOf, SelectInSeq
<1>2. Added(t, n) = u
  BY <1>1 DEF Added
<1>3. line.opt = "Button"
  BY DEF Word
<1>4. st.table = t /\ st.i = n
  BY DEF After
<1>5. ReadLine(st, line) = [st EXCEPT !.block = "button", !.begun = TRUE, !.i = @ + 1,
                                      !.table = Added(@, st.i)]
  <2> HIDE DEF line, st
  <2>1. line.opt \notin {"EndButton", "EndMouse"} /\ line.opt \in Words /\ line.opt # "Mouse"
    BY <1>3 DEF Words
  <2> QED
    BY <1>3, <2>1 DEF ReadLine
<1>6. [st EXCEPT !.block = "button", !.begun = TRUE, !.i = @ + 1, !.table = Added(@, st.i)]
        = [st EXCEPT !.block = "button", !.begun = Begun, !.i = k, !.table = u]
  <2> HIDE DEF st, n, u
  <2>1. st.table = t /\ st.i = n
    BY <1>4
  <2> QED
    BY <1>2, <2>1, Zenon DEF Begun
<1>7. \A x : x = [mouse |-> m, table |-> t, i |-> n, block |-> "none", begun |-> Begun] =>
        [x EXCEPT !.block = "button", !.begun = Begun, !.i = k, !.table = u]
          = [mouse |-> m, table |-> u, i |-> k, block |-> "button", begun |-> Begun]
  <2> HIDE DEF n, u, k
  <2>1. ASSUME NEW x, x = [mouse |-> m, table |-> t, i |-> n, block |-> "none", begun |-> Begun]
        PROVE  [x EXCEPT !.block = "button", !.begun = Begun, !.i = k, !.table = u]
                 \in [mouse : {m}, table : {u}, i : {k}, block : {"button"}, begun : {Begun}]
    BY <2>1
  <2>2. ASSUME NEW y \in [mouse : {m}, table : {u}, i : {k}, block : {"button"}, begun : {Begun}]
        PROVE  y = [mouse |-> m, table |-> u, i |-> k, block |-> "button", begun |-> Begun]
    OBVIOUS
  <2> QED
    BY <2>1, <2>2
<1>8. [st EXCEPT !.block = "button", !.begun = Begun, !.i = k, !.table = u] =
          Inside(m, t, NewButton(n))
  BY <1>7, Zenon DEF Inside, After, st, n, u, k
<1> HIDE DEF st, u
<1> QED
  BY <1>5, <1>6, <1>8 DEF st, line, n

LEMMA BlockEnds ==
  ASSUME NEW S, NEW t \in Seq(S), NEW m, NEW b
  PROVE  ReadLine(Inside(m, t, b), Word("EndButton")) = After(m, Append(t, b))
<1> DEFINE st == Inside(m, t, b)
           line == Word("EndButton")
           u == Append(t, b)
           k == Len(t) + 1
<1>1. line.opt = "EndButton"
  BY DEF Word
<1>2. st.begun
  BY Zenon DEF Inside, Begun
<1>3. Len(u) = k
  BY InsideTable
<1>4. ReadLine(st, line) = [st EXCEPT !.block = "none"]
  <2> HIDE DEF line, st
  <2>1. line.opt \in {"EndButton", "EndMouse"} /\ line.opt # "Button" /\ line.opt # "Mouse"
    BY <1>1
  <2>2. ReadLine(st, line) = IF st.begun THEN [st EXCEPT !.block = "none"] ELSE st
    BY <2>1, SMT DEF ReadLine, Words
  <2> QED
    BY <1>2, <2>2, Zenon
<1>5. \A x : x = [mouse |-> m, table |-> u, i |-> k, block |-> "button", begun |-> Begun] =>
        [x EXCEPT !.block = "none"]
          = [mouse |-> m, table |-> u, i |-> k, block |-> "none", begun |-> Begun]
  <2> HIDE DEF k, u
  <2> QED
    OBVIOUS
<1>6. [st EXCEPT !.block = "none"] = After(m, u)
  BY <1>3, <1>5, Zenon DEF Inside, After, st, k, u
<1> HIDE DEF st, u
<1> QED
  BY <1>4, <1>6 DEF st, line, u

(* The block of the mouse. *)

InMouse(m) == [mouse |-> m, table |-> <<>>, i |-> 0, block |-> "mouse", begun |-> Begun]

LEMMA MouseBegins == ReadLine(Start, Word("Mouse")) = InMouse(NewMouse)
<1> DEFINE line == Word("Mouse")
<1>1. line.opt = "Mouse"
  BY DEF Word
<1>2. ReadLine(Start, line) = [Start EXCEPT !.block = "mouse", !.begun = TRUE]
  <2> HIDE DEF line
  <2>1. line.opt \notin {"EndButton", "EndMouse"} /\ line.opt \in Words /\ line.opt # "Button"
    BY <1>1 DEF Words
  <2> QED
    BY <1>1, <2>1 DEF ReadLine
<1>3. ASSUME NEW m, NEW e, NEW x, x = [mouse |-> m, table |-> <<>>, i |-> 0, block |-> "none",
                 begun |-> e]
      PROVE  [x EXCEPT !.block = "mouse", !.begun = Begun]
               \in [mouse : {m}, table : {<<>>}, i : {0}, block : {"mouse"}, begun : {Begun}]
  BY <1>3
<1>4. ASSUME NEW m, NEW y \in [mouse : {m}, table : {<<>>}, i : {0}, block : {"mouse"},
                 begun : {Begun}]
      PROVE  y = [mouse |-> m, table |-> <<>>, i |-> 0, block |-> "mouse", begun |-> Begun]
  OBVIOUS
<1>5. [Start EXCEPT !.block = "mouse", !.begun = Begun]
        \in [mouse : {NewMouse}, table : {<<>>}, i : {0}, block : {"mouse"}, begun : {Begun}]
  BY <1>3, Zenon DEF Start
<1>6. [Start EXCEPT !.block = "mouse", !.begun = Begun] = InMouse(NewMouse)
  BY <1>4, <1>5, Zenon DEF InMouse
<1>7. [Start EXCEPT !.block = "mouse", !.begun = TRUE] =
        [Start EXCEPT !.block = "mouse", !.begun = Begun]
  BY Zenon DEF Begun
<1> QED
  BY <1>2, <1>6, <1>7, Zenon

LEMMA MouseOption ==
  ASSUME NEW m, NEW o, o \notin Words, NEW v
  PROVE  \E n : ReadLine(InMouse(m), Opt(o, v)) = InMouse(n)
<1> DEFINE st == InMouse(m)
           line == Opt(o, v)
           n == SetMouseOption(m, o, v)
<1>1. line.opt = o /\ line.val = v
  BY DEF Opt
<1>2. o \notin {"Button", "Mouse", "EndButton", "EndMouse"} /\ o \notin Words
  BY DEF Words
<1>3. st.block = "mouse" /\ st.mouse = m
  BY DEF InMouse
<1>4. ReadLine(st, line) = [st EXCEPT !.mouse = SetMouseOption(@, o, v)]
  <2> HIDE DEF line, st
  <2> QED
    BY <1>1, <1>2, <1>3 DEF ReadLine
<1>5. [st EXCEPT !.mouse = SetMouseOption(@, o, v)] = [st EXCEPT !.mouse = n]
  <2> HIDE DEF st
  <2> QED
    BY <1>3, Zenon
<1>6. [st EXCEPT !.mouse = n] = InMouse(n)
  <2> HIDE DEF n
  <2> QED
    BY DEF InMouse
<1> HIDE DEF st, line, n
<1>7. ReadLine(st, line) = InMouse(n)
  BY <1>4, <1>5, <1>6
<1> QED
  BY <1>7, Zenon DEF st, line

LEMMA MouseEnds == ASSUME NEW m PROVE ReadLine(InMouse(m), Word("EndMouse")) = After(m, <<>>)
<1> DEFINE st == InMouse(m)
           line == Word("EndMouse")
<1>1. line.opt = "EndMouse"
  BY DEF Word
<1>2. st.begun
  BY Zenon DEF InMouse, Begun
<1>4. ReadLine(st, line) = [st EXCEPT !.block = "none"]
  <2> HIDE DEF line, st
  <2>1. line.opt \in {"EndButton", "EndMouse"} /\ line.opt # "Button" /\ line.opt # "Mouse"
    BY <1>1
  <2>2. ReadLine(st, line) = IF st.begun THEN [st EXCEPT !.block = "none"] ELSE st
    BY <2>1, SMT DEF ReadLine, Words
  <2> QED
    BY <1>2, <2>2, Zenon
<1>5. [st EXCEPT !.block = "none"] = After(m, <<>>)
  BY DEF After, InMouse
<1> QED
  BY <1>4, <1>5 DEF st, line

LEMMA NameRead ==
  ASSUME NEW m, NEW o, o \notin Words, NEW text
  PROVE  IsLines(NameLine(o, text)) /\ \E n : Runs(InMouse(m), NameLine(o, text), InMouse(n))
<1>1. CASE text = Null
  <2>1. NameLine(o, text) = <<>> /\ <<>> \in Seq({})
    BY <1>1 DEF NameLine
  <2>2. Runs(InMouse(m), <<>>, InMouse(m))
    BY RunsNone
  <2> QED
    BY <2>1, <2>2 DEF IsLines
<1>2. CASE text # Null
  <2> DEFINE l == Opt(o, Printed(text))
  <2>1. NameLine(o, text) = <<l>>
    BY <1>2 DEF NameLine
  <2>2. PICK n : ReadLine(InMouse(m), l) = InMouse(n)
    BY MouseOption
  <2> HIDE DEF l
  <2>3. Runs(InMouse(m), <<l>>, InMouse(n))
    BY <2>2, RunsLine
  <2>4. <<l>> \in Seq({l})
    OBVIOUS
  <2> QED
    BY <2>1, <2>3, <2>4 DEF IsLines
<1> QED
  BY <1>1, <1>2

LEMMA MouseRead ==
  ASSUME NEW m
  PROVE  IsLines(MouseLines(m)) /\ \E n : Runs(Start, MouseLines(m), After(n, <<>>))
<1> DEFINE w == <<Word("Mouse")>>
           a == NameLine("vendor_name", m.vendor_name)
           b == NameLine("product_name", m.product_name)
           l1 == Opt("vendor_id", m.vendor_id)
           l2 == Opt("product_id", m.product_id)
           l3 == Opt("revoco_mode", m.status)
           l4 == Opt("revoco_btn", m.btn)
           l5 == Opt("revoco_up_scroll", m.up)
           l6 == Opt("revoco_down_scroll", m.down)
           l7 == Word("EndMouse")
           ls == <<l1, l2, l3, l4, l5, l6, l7>>
<1>1. MouseLines(m) = w \o a \o b \o ls
  BY DEF MouseLines
<1>2. IsLines(w) /\ Runs(Start, w, InMouse(NewMouse))
  <2>1. w \in Seq({Word("Mouse")})
    OBVIOUS
  <2>2. Runs(Start, w, ReadLine(Start, Word("Mouse")))
    BY RunsLine
  <2> QED
    BY <2>1, <2>2, MouseBegins DEF IsLines
<1>3. /\ "vendor_name" \notin Words /\ "product_name" \notin Words
      /\ "vendor_id" \notin Words /\ "product_id" \notin Words /\ "revoco_mode" \notin Words
      /\ "revoco_btn" \notin Words /\ "revoco_up_scroll" \notin Words /\ "revoco_down_scroll" \notin Words
  BY DEF Words
<1>4. PICK m1 : IsLines(a) /\ Runs(InMouse(NewMouse), a, InMouse(m1))
  BY <1>3, NameRead
<1>5. PICK m2 : IsLines(b) /\ Runs(InMouse(m1), b, InMouse(m2))
  BY <1>3, NameRead
<1>6. PICK n1 : ReadLine(InMouse(m2), l1) = InMouse(n1)
  BY <1>3, MouseOption
<1>7. PICK n2 : ReadLine(InMouse(n1), l2) = InMouse(n2)
  BY <1>3, MouseOption
<1>8. PICK n3 : ReadLine(InMouse(n2), l3) = InMouse(n3)
  BY <1>3, MouseOption
<1>9. PICK n4 : ReadLine(InMouse(n3), l4) = InMouse(n4)
  BY <1>3, MouseOption
<1>10. PICK n5 : ReadLine(InMouse(n4), l5) = InMouse(n5)
  BY <1>3, MouseOption
<1>11. PICK n6 : ReadLine(InMouse(n5), l6) = InMouse(n6)
  BY <1>3, MouseOption
<1>12. ReadLine(InMouse(n6), l7) = After(n6, <<>>)
  BY MouseEnds
<1> HIDE DEF w, a, b, l1, l2, l3, l4, l5, l6, l7
<1>13. IsLines(ls) /\ Runs(InMouse(m2), ls, After(n6, <<>>))
  <2> DEFINE st == <<InMouse(m2), InMouse(n1), InMouse(n2), InMouse(n3), InMouse(n4), InMouse(n5),
                     InMouse(n6), After(n6, <<>>)>>
  <2>1. ls \in Seq({l1, l2, l3, l4, l5, l6, l7}) /\ Len(ls) = 7
    OBVIOUS
  <2>2. \A n \in 1..7 : st[n + 1] = ReadLine(st[n], ls[n])
    BY <1>6, <1>7, <1>8, <1>9, <1>10, <1>11, <1>12
  <2>3. st[1] = InMouse(m2) /\ st[7 + 1] = After(n6, <<>>)
    OBVIOUS
  <2> HIDE DEF st, ls
  <2>4. Runs(st[1], ls, st[7 + 1])
    BY <2>1, <2>2, RunsAlong
  <2> QED
    BY <2>1, <2>3, <2>4 DEF IsLines
<1> HIDE DEF ls
<1>14. IsLines(w \o a) /\ Runs(Start, w \o a, InMouse(m1))
  BY <1>2, <1>4, RunsBoth, LinesJoin
<1>15. IsLines(w \o a \o b) /\ Runs(Start, w \o a \o b, InMouse(m2))
  BY <1>5, <1>14, RunsBoth, LinesJoin
<1>16. IsLines(w \o a \o b \o ls) /\ Runs(Start, w \o a \o b \o ls, After(n6, <<>>))
  BY <1>13, <1>15, RunsBoth, LinesJoin
<1> QED
  BY <1>1, <1>16

(* The block of a button. *)

\* What the options of a block make of the settings.
Head3(s) ==
  [NewSettings EXCEPT !.name = Value(Printed(s.name)), !.enabled = s.enabled, !.delay = s.delay]
ReadSet(s) ==
  IF s.evtype = EVTYPE_KEY
    THEN SetOption(SetOption(Head3(s), "keycode", Printed(s.keycode)), "mod", Printed(s.mod))
  ELSE IF s.evtype = EVTYPE_COMMAND
    THEN SetOption(SetOption(Head3(s), "command", Printed(s.command)), "uid", s.uid)
  ELSE SetOption(SetOption(Head3(s), "switch_type", s.switch_type),
                 "switch_name", Printed(s.switch_name))
Back(b) == [rawcode |-> b.rawcode, set |-> ReadSet(b.set)]

LEMMA Head3Is ==
  ASSUME NEW s
  PROVE  /\ Head3(s) = SetOption(SetOption(SetOption(NewSettings, "name", Printed(s.name)),
                "enabled", s.enabled), "delay", s.delay)
         /\ Head3(s) \in [name : {Value(Printed(s.name))}, enabled : {s.enabled},
                delay : {s.delay}, evtype : {EVTYPE_KEY},
                          keycode : {NONE}, mod : {NONE}, command : {Null}, uid : {0},
                          switch_type : {CONFIG_SWITCH_NONE}, switch_name : {NONE}]
<1> DEFINE v == Value(Printed(s.name))
           e == s.enabled
           d == s.delay
<1>1. SetOption(NewSettings, "name", Printed(s.name)) = [NewSettings EXCEPT !.name = v]
  BY DEF SetOption
<1>2. \A x : /\ SetOption(x, "enabled", e) = [x EXCEPT !.enabled = e]
             /\ SetOption(x, "delay", d) = [x EXCEPT !.delay = d]
  BY DEF SetOption
<1>3. Head3(s) = [[[NewSettings EXCEPT !.name = v] EXCEPT !.enabled = e] EXCEPT !.delay = d]
  BY Zenon DEF Head3, v, e, d
<1>4. Head3(s) \in [name : {v}, enabled : {e}, delay : {d}, evtype : {EVTYPE_KEY},
                    keycode : {NONE}, mod : {NONE}, command : {Null}, uid : {0},
                    switch_type : {CONFIG_SWITCH_NONE}, switch_name : {NONE}]
  <2>1. \A x, y : x \in [name : {Null}, enabled : {FALSE}, delay : {0}, evtype : {EVTYPE_KEY},
                    keycode : {NONE}, mod : {NONE}, command : {Null}, uid : {0},
                    switch_type : {CONFIG_SWITCH_NONE}, switch_name : {NONE}] =>
            [x EXCEPT !.name = v, !.enabled = e, !.delay = d] \in
                [name : {v}, enabled : {e}, delay : {d}, evtype : {EVTYPE_KEY},
                    keycode : {NONE}, mod : {NONE}, command : {Null}, uid : {0},
                    switch_type : {CONFIG_SWITCH_NONE}, switch_name : {NONE}]
    <3> HIDE DEF v, e, d
    <3> QED
      OBVIOUS
  <2>2. NewSettings \in [name : {Null}, enabled : {FALSE}, delay : {0}, evtype : {EVTYPE_KEY},
                    keycode : {NONE}, mod : {NONE}, command : {Null}, uid : {0},
                    switch_type : {CONFIG_SWITCH_NONE}, switch_name : {NONE}]
    BY DEF NewSettings
  <2> QED
    BY <2>1, <2>2, Zenon DEF Head3, v, e, d
<1> HIDE DEF v, e, d
<1> QED
  BY <1>1, <1>2, <1>3, <1>4, Zenon DEF v, e, d

\* The settings of one event type are read, the others are those of a new button.
LEMMA ReadSetIs ==
  ASSUME NEW s, s.evtype \in EVTYPE_KEY..EVTYPE_COMMAND
  PROVE  /\ IsSet(ReadSet(s))
         /\ ReadSet(s).name = Value(Printed(s.name)) /\ ReadSet(s).enabled = s.enabled
         /\ ReadSet(s).delay = s.delay /\ ReadSet(s).evtype = s.evtype
         /\ s.evtype = EVTYPE_KEY => /\ ReadSet(s).keycode = Value(Printed(s.keycode))
                                     /\ ReadSet(s).mod = Value(Printed(s.mod))
         /\ s.evtype = EVTYPE_COMMAND => /\ ReadSet(s).command = Value(Printed(s.command))
                                         /\ ReadSet(s).uid = s.uid
         /\ s.evtype = EVTYPE_CONFIG => /\ ReadSet(s).switch_type = s.switch_type
                                        /\ ReadSet(s).switch_name = Value(Printed(s.switch_name))
         /\ s.evtype # EVTYPE_KEY => ReadSet(s).keycode = NONE /\ ReadSet(s).mod = NONE
         /\ s.evtype # EVTYPE_COMMAND => ReadSet(s).uid = 0
         /\ s.evtype # EVTYPE_CONFIG => ReadSet(s).switch_type = CONFIG_SWITCH_NONE
<1> DEFINE h == Head3(s)
           v == Value(Printed(s.name))
           e == s.enabled
           d == s.delay
<1>1. h \in [name : {v}, enabled : {e}, delay : {d}, evtype : {EVTYPE_KEY},
             keycode : {NONE}, mod : {NONE}, command : {Null}, uid : {0},
             switch_type : {CONFIG_SWITCH_NONE}, switch_name : {NONE}]
  BY Head3Is
<1>2. EVTYPE_KEY # EVTYPE_COMMAND /\ EVTYPE_KEY # EVTYPE_CONFIG /\ EVTYPE_COMMAND # EVTYPE_CONFIG
  BY DEF EVTYPE_KEY, EVTYPE_COMMAND, EVTYPE_CONFIG
<1>3. s.evtype = EVTYPE_KEY \/ s.evtype = EVTYPE_COMMAND \/ s.evtype = EVTYPE_CONFIG
  BY DEF EVTYPE_KEY, EVTYPE_COMMAND, EVTYPE_CONFIG
<1>4. CASE s.evtype = EVTYPE_KEY
  <2> DEFINE k == Value(Printed(s.keycode))
             o == Value(Printed(s.mod))
  <2>1. \A x : /\ SetOption(x, "keycode", Printed(s.keycode)) =
                      [x EXCEPT !.keycode = k, !.evtype = EVTYPE_KEY]
               /\ SetOption(x, "mod", Printed(s.mod)) = [x EXCEPT !.mod = o]
    BY DEF SetOption
  <2>2. ReadSet(s) = [[h EXCEPT !.keycode = k, !.evtype = EVTYPE_KEY] EXCEPT !.mod = o]
    BY <1>4, <2>1 DEF ReadSet
  <2> HIDE DEF h, v, e, d, k, o
  <2>3. ReadSet(s) \in [name : {v}, enabled : {e}, delay : {d}, evtype : {EVTYPE_KEY},
             keycode : {k}, mod : {o}, command : {Null}, uid : {0},
             switch_type : {CONFIG_SWITCH_NONE}, switch_name : {NONE}]
    BY <1>1, <2>2
  <2> QED
    BY <1>2, <1>4, <2>3 DEF IsSet, v, e, d, k, o
<1>5. CASE s.evtype = EVTYPE_COMMAND
  <2> DEFINE k == Value(Printed(s.command))
             o == s.uid
  <2>1. \A x : /\ SetOption(x, "command", Printed(s.command)) =
                      [x EXCEPT !.command = k, !.evtype = EVTYPE_COMMAND]
               /\ SetOption(x, "uid", s.uid) = [x EXCEPT !.uid = o]
    BY DEF SetOption
  <2>2. ReadSet(s) = [[h EXCEPT !.command = k, !.evtype = EVTYPE_COMMAND] EXCEPT !.uid = o]
    BY <1>2, <1>5, <2>1 DEF ReadSet
  <2> HIDE DEF h, v, e, d, k, o
  <2>3. ReadSet(s) \in [name : {v}, enabled : {e}, delay : {d}, evtype : {EVTYPE_COMMAND},
             keycode : {NONE}, mod : {NONE}, command : {k}, uid : {o},
             switch_type : {CONFIG_SWITCH_NONE}, switch_name : {NONE}]
    BY <1>1, <2>2
  <2> QED
    BY <1>2, <1>5, <2>3 DEF IsSet, v, e, d, k, o
<1>6. CASE s.evtype = EVTYPE_CONFIG
  <2> DEFINE k == s.switch_type
             o == Value(Printed(s.switch_name))
  <2>1. \A x : /\ SetOption(x, "switch_type", s.switch_type) = [x EXCEPT !.switch_type = k]
               /\ SetOption(x, "switch_name", Printed(s.switch_name)) =
                      [x EXCEPT !.switch_name = o, !.evtype = EVTYPE_CONFIG]
    BY DEF SetOption
  <2>2. ReadSet(s) =
          [[h EXCEPT !.switch_type = k] EXCEPT !.switch_name = o, !.evtype = EVTYPE_CONFIG]
    BY <1>2, <1>6, <2>1 DEF ReadSet
  <2> HIDE DEF h, v, e, d, k, o
  <2>3. ReadSet(s) \in [name : {v}, enabled : {e}, delay : {d}, evtype : {EVTYPE_CONFIG},
             keycode : {NONE}, mod : {NONE}, command : {Null}, uid : {0},
             switch_type : {k}, switch_name : {o}]
    BY <1>1, <2>2
  <2> QED
    BY <1>2, <1>6, <2>3 DEF IsSet, v, e, d, k, o
<1> QED
  BY <1>3, <1>4, <1>5, <1>6

\* Texts without a '#' and blanks at the ends are back.
LEMMA BackIs ==
  ASSUME NEW b, b.set.evtype \in EVTYPE_KEY..EVTYPE_COMMAND, b.set.keycode # Null,
             b.set.mod # Null
  PROVE  /\ Back(b).rawcode = b.rawcode /\ IsButton(Back(b)) /\ Back(b).set.evtype = b.set.evtype
         /\ PlainButton(b) => Effective(Back(b)) = Effective(b)
<1> DEFINE s == b.set
           r == ReadSet(s)
<1>1. Back(b).rawcode = b.rawcode /\ Back(b).set = r
      /\ Back(b) \in [rawcode : {Back(b).rawcode}, set : {Back(b).set}]
  BY DEF Back
<1>2. /\ IsSet(r)
      /\ r.name = Value(Printed(s.name)) /\ r.enabled = s.enabled
      /\ r.delay = s.delay /\ r.evtype = s.evtype
      /\ s.evtype = EVTYPE_KEY => /\ r.keycode = Value(Printed(s.keycode))
                                  /\ r.mod = Value(Printed(s.mod))
      /\ s.evtype = EVTYPE_COMMAND => /\ r.command = Value(Printed(s.command))
                                      /\ r.uid = s.uid
      /\ s.evtype = EVTYPE_CONFIG => /\ r.switch_type = s.switch_type
                                     /\ r.switch_name = Value(Printed(s.switch_name))
  BY ReadSetIs
<1> HIDE DEF r
<1>3. ASSUME PlainButton(b)
      PROVE  Effective(Back(b)) = Effective(b)
  <2>1. r.name = s.name
    BY <1>2, <1>3 DEF PlainButton, Plain
  <2> DEFINE common == <<b.rawcode, s.name, s.enabled, s.delay, s.evtype>>
  <2>2. <<Back(b).rawcode, r.name, r.enabled, r.delay, r.evtype>> = common
    BY <1>1, <1>2, <2>1
  <2>3. CASE s.evtype = EVTYPE_KEY
    <3>1. <<r.keycode, r.mod>> = <<s.keycode, s.mod>>
      BY <1>2, <1>3, <2>3 DEF PlainButton, Plain
    <3>2. Effective(Back(b)) = <<Back(b).rawcode, r.name, r.enabled, r.delay, r.evtype>>
              \o <<r.keycode, r.mod>>
      BY <1>1, <1>2, <2>3 DEF Effective, EVTYPE_KEY, EVTYPE_COMMAND, EVTYPE_CONFIG
    <3>3. Effective(b) = common \o <<s.keycode, s.mod>>
      BY <2>3 DEF Effective, EVTYPE_KEY, EVTYPE_COMMAND, EVTYPE_CONFIG
    <3> HIDE DEF common
    <3> QED
      BY <2>2, <3>1, <3>2, <3>3
  <2>4. CASE s.evtype = EVTYPE_COMMAND
    <3>1. <<r.command, r.uid>> = <<s.command, s.uid>>
      BY <1>2, <1>3, <2>4 DEF PlainButton, Plain
    <3>2. Effective(Back(b)) = <<Back(b).rawcode, r.name, r.enabled, r.delay, r.evtype>>
              \o <<r.command, r.uid>>
      BY <1>1, <1>2, <2>4 DEF Effective, EVTYPE_KEY, EVTYPE_COMMAND, EVTYPE_CONFIG
    <3>3. Effective(b) = common \o <<s.command, s.uid>>
      BY <2>4 DEF Effective, EVTYPE_KEY, EVTYPE_COMMAND, EVTYPE_CONFIG
    <3> HIDE DEF common
    <3> QED
      BY <2>2, <3>1, <3>2, <3>3
  <2>5. CASE s.evtype = EVTYPE_CONFIG
    <3>1. <<r.switch_type, r.switch_name>> = <<s.switch_type, s.switch_name>>
      BY <1>2, <1>3, <2>5 DEF PlainButton, Plain
    <3>2. Effective(Back(b)) = <<Back(b).rawcode, r.name, r.enabled, r.delay, r.evtype>>
              \o <<r.switch_type, r.switch_name>>
      BY <1>1, <1>2, <2>5 DEF Effective, EVTYPE_KEY, EVTYPE_COMMAND, EVTYPE_CONFIG
    <3>3. Effective(b) = common \o <<s.switch_type, s.switch_name>>
      BY <2>5 DEF Effective, EVTYPE_KEY, EVTYPE_COMMAND, EVTYPE_CONFIG
    <3> HIDE DEF common
    <3> QED
      BY <2>2, <3>1, <3>2, <3>3
  <2>6. s.evtype = EVTYPE_KEY \/ s.evtype = EVTYPE_COMMAND \/ s.evtype = EVTYPE_CONFIG
    BY DEF EVTYPE_KEY, EVTYPE_COMMAND, EVTYPE_CONFIG
  <2> QED
    BY <2>3, <2>4, <2>5, <2>6
<1>4. Back(b).set.evtype = s.evtype
  BY <1>1, <1>2
<1>5. IsButton(Back(b))
  BY <1>1, <1>2 DEF IsButton
<1> HIDE DEF s
<1> QED
  BY <1>1, <1>3, <1>4, <1>5 DEF s

\* A block adds its button.
LEMMA ButtonRead ==
  ASSUME NEW S, NEW t \in Seq(S), NEW m, \A i \in 1..Len(t) : t[i].rawcode # Len(t),
         NEW b, b.set.evtype \in EVTYPE_KEY..EVTYPE_COMMAND
  PROVE  /\ IsLines(ButtonLines(b))
         /\ Runs(After(m, t), ButtonLines(b), After(m, Append(t, Back(b))))
<1> DEFINE s == b.set
           s0 == NewSettings
           s1 == SetOption(s0, "name", Printed(s.name))
           s2 == SetOption(s1, "enabled", s.enabled)
           s3 == SetOption(s2, "delay", s.delay)
           l1 == Word("Button")
           l2 == Opt("name", Printed(s.name))
           l3 == Opt("rawcode", b.rawcode)
           l4 == Opt("enabled", s.enabled)
           l5 == Opt("delay", s.delay)
           l6 == Word("EndButton")
           head == <<l1, l2, l3, l4, l5>>
           rc == b.rawcode
           In(c, x) == Inside(m, t, [rawcode |-> c, set |-> x])
           n == Len(t)
<1>1. /\ "name" \notin Words /\ "enabled" \notin Words /\ "delay" \notin Words
      /\ "keycode" \notin Words
      /\ "mod" \notin Words /\ "command" \notin Words /\ "uid" \notin Words
      /\ "switch_type" \notin Words
      /\ "switch_name" \notin Words
  BY DEF Words
<1>2. ASSUME NEW c, NEW x, NEW o, o \notin Words, o # "rawcode", NEW v
      PROVE  ReadLine(In(c, x), Opt(o, v)) = In(c, SetOption(x, o, v))
  <2> DEFINE d == [rawcode |-> c, set |-> x]
  <2>1. d \in [rawcode : {d.rawcode}, set : {d.set}] /\ d.rawcode = c /\ d.set = x
    OBVIOUS
  <2> HIDE DEF d
  <2>2. ReadLine(Inside(m, t, d), Opt(o, v)) =
            Inside(m, t, [rawcode |-> d.rawcode, set |-> SetOption(d.set, o, v)])
    BY <1>2, <2>1, OptionRead
  <2> QED
    BY <2>1, <2>2 DEF d
<1>3. ReadLine(After(m, t), l1) = In(n, s0)
  BY BlockBegins DEF NewButton
<1>4. ReadLine(In(n, s0), l2) = In(n, s1)
  BY <1>1, <1>2
<1>5. ReadLine(In(n, s1), l3) = In(rc, s1)
  <2> HIDE DEF s1
  <2> DEFINE d == [rawcode |-> n, set |-> s1]
  <2>1. d \in [rawcode : {d.rawcode}, set : {d.set}] /\ d.set = s1
    OBVIOUS
  <2> HIDE DEF d
  <2>2. ReadLine(Inside(m, t, d), l3) = Inside(m, t, [rawcode |-> rc, set |-> d.set])
    BY <2>1, RawcodeRead
  <2> QED
    BY <2>1, <2>2 DEF d
<1>6. ReadLine(In(rc, s1), l4) = In(rc, s2)
  BY <1>1, <1>2
<1>7. ReadLine(In(rc, s2), l5) = In(rc, s3)
  BY <1>1, <1>2
<1>8. s3 = Head3(s)
  BY Head3Is
<1> HIDE DEF s1, s2, s3
<1>9. IsLines(head) /\ Runs(After(m, t), head, In(rc, s3))
  <2> DEFINE st == <<After(m, t), In(n, s0), In(n, s1), In(rc, s1), In(rc, s2), In(rc, s3)>>
  <2> HIDE DEF l1, l2, l3, l4, l5, In
  <2>1. head \in Seq({l1, l2, l3, l4, l5}) /\ Len(head) = 5
    OBVIOUS
  <2>2. \A k \in 1..5 : st[k + 1] = ReadLine(st[k], head[k])
    BY <1>3, <1>4, <1>5, <1>6, <1>7
  <2>3. st[1] = After(m, t) /\ st[5 + 1] = In(rc, s3)
    OBVIOUS
  <2> HIDE DEF st, head
  <2>4. Runs(st[1], head, st[5 + 1])
    BY <2>1, <2>2, RunsAlong
  <2> QED
    BY <2>1, <2>3, <2>4 DEF IsLines
<1>10. ASSUME NEW o1, NEW o2, o1 \notin Words, o2 \notin Words, o1 # "rawcode",
                  o2 # "rawcode", NEW v1, NEW v2
       PROVE  /\ IsLines(<<Opt(o1, v1), Opt(o2, v2)>>)
              /\ Runs(In(rc, s3), <<Opt(o1, v1), Opt(o2, v2)>>,
                      In(rc, SetOption(SetOption(s3, o1, v1), o2, v2)))
  <2> DEFINE k1 == Opt(o1, v1)
             k2 == Opt(o2, v2)
             x1 == In(rc, SetOption(s3, o1, v1))
             x2 == In(rc, SetOption(SetOption(s3, o1, v1), o2, v2))
             st == <<In(rc, s3), x1, x2>>
             ls == <<k1, k2>>
  <2>1. ReadLine(In(rc, s3), k1) = x1 /\ ReadLine(x1, k2) = x2
    BY <1>2, <1>10
  <2> HIDE DEF k1, k2, x1, x2, In
  <2>2. ls \in Seq({k1, k2}) /\ Len(ls) = 2
    OBVIOUS
  <2>3. \A k \in 1..2 : st[k + 1] = ReadLine(st[k], ls[k])
    BY <2>1
  <2>4. st[1] = In(rc, s3) /\ st[2 + 1] = x2
    OBVIOUS
  <2> HIDE DEF st, ls
  <2>5. Runs(st[1], ls, st[2 + 1])
    BY <2>2, <2>3, RunsAlong
  <2> QED
    BY <2>2, <2>4, <2>5 DEF IsLines, ls, k1, k2, x2
<1>11. IsLines(EventLines(s)) /\ Runs(In(rc, s3), EventLines(s), In(rc, ReadSet(s)))
  <2>1. EVTYPE_KEY # EVTYPE_COMMAND /\ EVTYPE_KEY # EVTYPE_CONFIG /\ EVTYPE_COMMAND # EVTYPE_CONFIG
    BY DEF EVTYPE_KEY, EVTYPE_COMMAND, EVTYPE_CONFIG
  <2>2. s.evtype = EVTYPE_KEY \/ s.evtype = EVTYPE_COMMAND \/ s.evtype = EVTYPE_CONFIG
    BY DEF EVTYPE_KEY, EVTYPE_COMMAND, EVTYPE_CONFIG
  <2> HIDE DEF In
  <2>3. CASE s.evtype = EVTYPE_KEY
    <3>1. EventLines(s) = <<Opt("keycode", Printed(s.keycode)), Opt("mod", Printed(s.mod))>>
      BY <2>1, <2>3 DEF EventLines
    <3>2. ReadSet(s) = SetOption(SetOption(s3, "keycode", Printed(s.keycode)), "mod",
              Printed(s.mod))
      BY <1>8, <2>3 DEF ReadSet
    <3>3. "keycode" # "rawcode" /\ "mod" # "rawcode"
      OBVIOUS
    <3> QED
      BY <1>1, <1>10, <3>1, <3>2, <3>3
  <2>4. CASE s.evtype = EVTYPE_COMMAND
    <3>1. EventLines(s) = <<Opt("command", Printed(s.command)), Opt("uid", s.uid)>>
      BY <2>1, <2>4 DEF EventLines
    <3>2. ReadSet(s) = SetOption(SetOption(s3, "command", Printed(s.command)), "uid", s.uid)
      BY <1>8, <2>1, <2>4 DEF ReadSet
    <3>3. "command" # "rawcode" /\ "uid" # "rawcode"
      OBVIOUS
    <3> QED
      BY <1>1, <1>10, <3>1, <3>2, <3>3
  <2>5. CASE s.evtype = EVTYPE_CONFIG
    <3>1. EventLines(s) = <<Opt("switch_type", s.switch_type), Opt("switch_name",
              Printed(s.switch_name))>>
      BY <2>1, <2>5 DEF EventLines
    <3>2. ReadSet(s) = SetOption(SetOption(s3, "switch_type", s.switch_type), "switch_name",
              Printed(s.switch_name))
      BY <1>8, <2>1, <2>5 DEF ReadSet
    <3>3. "switch_type" # "rawcode" /\ "switch_name" # "rawcode"
      OBVIOUS
    <3> QED
      BY <1>1, <1>10, <3>1, <3>2, <3>3
  <2> QED
    BY <2>2, <2>3, <2>4, <2>5
<1>12. ReadLine(In(rc, ReadSet(s)), l6) = After(m, Append(t, Back(b)))
  BY BlockEnds DEF Back
<1>13. IsLines(<<l6>>) /\ Runs(In(rc, ReadSet(s)), <<l6>>, After(m, Append(t, Back(b))))
  <2> HIDE DEF l6, In
  <2>1. <<l6>> \in Seq({l6})
    OBVIOUS
  <2> QED
    BY <1>12, <2>1, RunsLine DEF IsLines
<1>14. ButtonLines(b) = head \o EventLines(s) \o <<l6>>
  BY DEF ButtonLines
<1> HIDE DEF head, In, l6, s
<1>15. /\ IsLines(head \o EventLines(s))
       /\ Runs(After(m, t), head \o EventLines(s), In(rc, ReadSet(s)))
  BY <1>9, <1>11, RunsBoth, LinesJoin
<1>16. /\ IsLines(head \o EventLines(s) \o <<l6>>)
       /\ Runs(After(m, t), head \o EventLines(s) \o <<l6>>, After(m, Append(t, Back(b))))
  BY <1>13, <1>15, RunsBoth, LinesJoin
<1> QED
  BY <1>14, <1>16

(* The blocks of all the buttons, and the whole file. *)

\* What is read of the first n of the buttons t.
ReadOf(t, n) == [k \in 1..n |-> Back(t[k])]

\* The raw codes are none of the place holders of the blocks, and there is an
\* event type to write.
CanBeRead(t) ==
  \A k \in 1..Len(t) :
    t[k].rawcode \notin 0..Len(t) - 1 /\ t[k].set.evtype \in EVTYPE_KEY..EVTYPE_COMMAND

LEMMA ReadOfGrows ==
  ASSUME NEW t, NEW n \in Nat
  PROVE  /\ ReadOf(t, n) \in Seq({Back(t[k]) : k \in 1..n}) /\ Len(ReadOf(t, n)) = n
         /\ ReadOf(t, n + 1) = Append(ReadOf(t, n), Back(t[n + 1]))
<1> DEFINE x == ReadOf(t, n)
           y == ReadOf(t, n + 1)
           T == {Back(t[k]) : k \in 1..n + 1}
           z == Append(x, Back(t[n + 1]))
<1>1. /\ x \in Seq({Back(t[k]) : k \in 1..n}) /\ Len(x) = n
      /\ \A k \in 1..n : x[k] = Back(t[k])
  BY DEF ReadOf
<1>2. y \in Seq(T) /\ Len(y) = n + 1 /\ \A k \in 1..n + 1 : y[k] = Back(t[k])
  BY DEF ReadOf
<1>3. x \in Seq(T) /\ Back(t[n + 1]) \in T
  <2>1. \A k \in 1..n : Back(t[k]) \in T
    OBVIOUS
  <2>2. Back(t[n + 1]) \in T
    OBVIOUS
  <2>3. x = [k \in 1..n |-> Back(t[k])]
    BY DEF ReadOf
  <2> HIDE DEF x, T
  <2>4. x \in [1..n -> T]
    BY <2>1, <2>3
  <2> QED
    BY <2>2, <2>4
<1> HIDE DEF x, y, T
<1>4. /\ z \in Seq(T) /\ Len(z) = n + 1
      /\ \A k \in 1..n + 1 : z[k] = IF k <= n THEN x[k] ELSE Back(t[n + 1])
  BY <1>1, <1>3, AppendProperties
<1> HIDE DEF z
<1>5. \A k \in 1..n + 1 : y[k] = z[k]
  BY <1>1, <1>2, <1>4
<1>6. y = z
  BY <1>2, <1>4, <1>5, SeqEqual
<1> QED
  BY <1>1, <1>6 DEF x, y, z

\* FlattenSeq, line by line.
LEMMA Flattened ==
  ASSUME NEW s, Len(s) \in Nat \ {0}
  PROVE  \E f : /\ FlattenSeq(s) = f[Len(s)] /\ f[1] = s[1]
                /\ \A i \in 2..Len(s) : f[i] = f[i - 1] \o s[i]
<1> DEFINE N == Len(s)
           F(n, f) == [i \in 1..n |-> IF i = 1 THEN s[i] ELSE f[i - 1] \o s[i]]
           T == {n \in Nat : \E f : f = F(n, f)}
<1>2. 0 \in T
  <2> DEFINE f == [i \in 1..0 |-> s[i]]
  <2>1. f = F(0, f)
    OBVIOUS
  <2> QED
    BY <2>1
<1>3. ASSUME NEW n \in Nat, n \in T
      PROVE  n + 1 \in T
  <2>1. PICK f : f = F(n, f)
    BY <1>3
  <2> DEFINE e == IF n + 1 = 1 THEN s[n + 1] ELSE f[n] \o s[n + 1]
             g == [i \in 1..n + 1 |-> IF i = n + 1 THEN e ELSE f[i]]
  <2>2. ASSUME NEW i \in 1..n + 1
        PROVE  g[i] = F(n + 1, g)[i]
    <3>1. CASE i = n + 1
      <4>1. g[i] = e
        BY <3>1
      <4>2. i # 1 => i - 1 = n /\ i - 1 \in 1..n + 1 /\ g[i - 1] = f[n]
        BY <3>1
      <4> QED
        BY <3>1, <4>1, <4>2
    <3>2. CASE i # n + 1
      <4>1. i \in 1..n /\ g[i] = f[i]
        BY <3>2
      <4>2. f[i] = IF i = 1 THEN s[i] ELSE f[i - 1] \o s[i]
        BY <2>1, <4>1
      <4>3. i # 1 => g[i - 1] = f[i - 1]
        BY <4>1
      <4> QED
        BY <4>1, <4>2, <4>3
    <3> QED
      BY <3>1, <3>2
  <2>3. g = F(n + 1, g)
    BY <2>2
  <2> HIDE DEF F, g
  <2>4. \E h : h = F(n + 1, h)
    BY <2>3
  <2> QED
    BY <2>4
<1>4. N \in T
  <2> HIDE DEF T
  <2> QED
    BY <1>2, <1>3, InductOn
<1> DEFINE flatten == CHOOSE f : f = F(N, f)
<1>5. flatten = F(N, flatten)
  <2>1. \E f : f = F(N, f)
    BY <1>4
  <2> HIDE DEF F
  <2> QED
    BY <2>1
<1>6. FlattenSeq(s) = flatten[N]
  BY DEF FlattenSeq
<1> HIDE DEF flatten
<1>7. \A i \in 1..N : flatten[i] = IF i = 1 THEN s[i] ELSE flatten[i - 1] \o s[i]
  BY <1>5, Zenon
<1>8. flatten[1] = s[1] /\ \A i \in 2..N : flatten[i] = flatten[i - 1] \o s[i]
  <2>1. 1 \in 1..N /\ \A i \in 2..N : i \in 1..N /\ i # 1
    OBVIOUS
  <2> QED
    BY <1>7, <2>1, Zenon
<1> QED
  BY <1>6, <1>8

\* The blocks of the buttons, one after the other.
LEMMA ButtonsRead ==
  ASSUME NEW S, NEW t \in Seq(S), CanBeRead(t), NEW m
  PROVE  LET ls == FlattenSeq([i \in 1..Len(t) |-> ButtonLines(t[i])])
         IN  IsLines(ls) /\ Runs(After(m, <<>>), ls, After(m, ReadOf(t, Len(t))))
<1> DEFINE N == Len(t)
           s == [i \in 1..N |-> ButtonLines(t[i])]
           ls == FlattenSeq(s)
<1>1. N \in Nat
  BY LenProperties
<1>2. CASE N = 0
  <2>1. s \in Seq({}) /\ Len(s) = 0
    BY <1>2
  <2>2. s = <<>>
    BY <2>1, EmptySeq
  <2>3. ls = <<>>
    BY <2>1, <2>2 DEF FlattenSeq
  <2>4. ReadOf(t, N) = <<>>
    <3>1. ReadOf(t, N) \in Seq({Back(t[k]) : k \in 1..N}) /\ Len(ReadOf(t, N)) = 0
      BY <1>2, ReadOfGrows
    <3> QED
      BY <3>1, EmptySeq
  <2>5. <<>> \in Seq({})
    OBVIOUS
  <2> HIDE DEF ls, N, s
  <2> QED
    BY <2>3, <2>4, <2>5, RunsNone DEF IsLines, ls, s, N
<1>3. CASE N # 0
  <2> DEFINE here(n) == After(m, ReadOf(t, n))
  <2>1. \A i \in 1..N : s[i] = ButtonLines(t[i])
    OBVIOUS
  <2>2. Len(s) = N
    OBVIOUS
  <2> HIDE DEF s
  <2>3. PICK f : ls = f[N] /\ f[1] = s[1] /\ \A i \in 2..N : f[i] = f[i - 1] \o s[i]
    <3>1. N \in Nat \ {0}
      BY <1>1, <1>3
    <3>2. Len(s) \in Nat \ {0}
      BY <2>2, <3>1
    <3>3. \E f : /\ FlattenSeq(s) = f[Len(s)] /\ f[1] = s[1]
                 /\ \A i \in 2..Len(s) : f[i] = f[i - 1] \o s[i]
      BY <3>2, Flattened, Zenon
    <3> QED
      BY <2>2, <3>3
  <2>4. ASSUME NEW n \in Nat, n + 1 \in 1..N
        PROVE  IsLines(s[n + 1]) /\ Runs(here(n), s[n + 1], here(n + 1))
    <3> DEFINE r == ReadOf(t, n)
               b == t[n + 1]
    <3>1. r \in Seq({Back(t[k]) : k \in 1..n}) /\ Len(r) = n
          /\ ReadOf(t, n + 1) = Append(r, Back(b))
      BY ReadOfGrows
    <3>2. \A i \in 1..Len(r) : r[i].rawcode # Len(r)
      <4>1. ASSUME NEW i \in 1..n
            PROVE  r[i].rawcode # n
        <5>1. r[i] = Back(t[i]) /\ i \in 1..N /\ n \in 0..N - 1
          BY <1>1, <2>4 DEF ReadOf
        <5>2. t[i].rawcode # n
          BY <5>1 DEF CanBeRead
        <5> QED
          BY <5>1, <5>2 DEF Back
      <4> QED
        BY <3>1, <4>1
    <3>3. b.set.evtype \in EVTYPE_KEY..EVTYPE_COMMAND
      BY <2>4 DEF CanBeRead
    <3> HIDE DEF r, b
    <3>4. /\ IsLines(ButtonLines(b))
          /\ Runs(After(m, r), ButtonLines(b), After(m, Append(r, Back(b))))
      BY <3>1, <3>2, <3>3, ButtonRead
    <3> QED
      BY <2>1, <2>4, <3>1, <3>4 DEF r, b
  <2>5. here(0) = After(m, <<>>)
    <3>1. ReadOf(t, 0) \in Seq({Back(t[k]) : k \in 1..0}) /\ Len(ReadOf(t, 0)) = 0
      BY ReadOfGrows
    <3> QED
      BY <3>1, EmptySeq
  <2> DEFINE T == {n \in Nat : n + 1 <= N =>
                      IsLines(f[n + 1]) /\ Runs(here(0), f[n + 1], here(n + 1))}
  <2> HIDE DEF here, ls
  <2>6. 0 \in T
    BY <1>1, <1>3, <2>3, <2>4
  <2>7. ASSUME NEW n \in Nat, n \in T
        PROVE  n + 1 \in T
    <3>1. SUFFICES ASSUME (n + 1) + 1 <= N
                   PROVE  /\ IsLines(f[(n + 1) + 1])
                          /\ Runs(here(0), f[(n + 1) + 1], here((n + 1) + 1))
      OBVIOUS
    <3>2. IsLines(f[n + 1]) /\ Runs(here(0), f[n + 1], here(n + 1))
      BY <1>1, <2>7, <3>1
    <3>3. IsLines(s[(n + 1) + 1]) /\ Runs(here(n + 1), s[(n + 1) + 1], here((n + 1) + 1))
      BY <1>1, <2>4, <3>1
    <3>4. f[(n + 1) + 1] = f[n + 1] \o s[(n + 1) + 1]
      <4>1. (n + 1) + 1 \in 2..N /\ ((n + 1) + 1) - 1 = n + 1
        BY <1>1, <3>1
      <4> QED
        BY <2>3, <4>1
    <3>5. /\ IsLines(f[n + 1] \o s[(n + 1) + 1])
          /\ Runs(here(0), f[n + 1] \o s[(n + 1) + 1], here((n + 1) + 1))
      BY <3>2, <3>3, RunsBoth, LinesJoin
    <3> QED
      BY <3>4, <3>5
  <2>8. N - 1 \in T
    <3> HIDE DEF T
    <3>1. N - 1 \in Nat
      BY <1>1, <1>3
    <3> QED
      BY <2>6, <2>7, <3>1, InductOn
  <2>9. IsLines(f[N]) /\ Runs(here(0), f[N], here(N))
    BY <1>1, <1>3, <2>8
  <2> QED
    BY <2>3, <2>5, <2>9, Zenon DEF here, ls, s
<1> QED
  BY <1>2, <1>3

\* A configuration file gives back the table it was written from.
LEMMA TableRead ==
  ASSUME NEW S, NEW t \in Seq(S), CanBeRead(t), NEW m
  PROVE  Parse(Format(m, t)).table = ReadOf(t, Len(t))
<1> DEFINE ls == FlattenSeq([i \in 1..Len(t) |-> ButtonLines(t[i])])
           r == ReadOf(t, Len(t))
<1>1. PICK n : Runs(Start, MouseLines(m), After(n, <<>>))
  BY MouseRead
<1>2. IsLines(MouseLines(m))
  BY MouseRead
<1>3. IsLines(ls) /\ Runs(After(n, <<>>), ls, After(n, r))
  BY ButtonsRead
<1> HIDE DEF ls, r
<1>4. IsLines(MouseLines(m) \o ls) /\ Runs(Start, MouseLines(m) \o ls, After(n, r))
  BY <1>1, <1>2, <1>3, RunsBoth, LinesJoin
<1>5. Parse(MouseLines(m) \o ls) = After(n, r)
  BY <1>4, RunsIsParse
<1>6. Parse(MouseLines(m) \o ls).table = r
  BY <1>5 DEF After
<1> QED
  BY <1>6 DEF Format, ls, r

\* Saving a configuration and opening it again gives every button back, as it is
\* in effect (config_file_save, config_file_parse): for every table whose raw
\* codes are none of the reader's place holders and whose buttons have a key
\* code, a modifier and an event type.
THEOREM RoundTrip ==
  ASSUME NEW S, NEW t \in Seq(S), CanBeRead(t), NEW m,
         \A k \in 1..Len(t) : t[k].set.keycode # Null /\ t[k].set.mod # Null
  PROVE  ReadsBack(m, t)
<1>1. Parse(Format(m, t)).table = ReadOf(t, Len(t))
  BY TableRead
<1>2. Len(t) \in Nat
  BY LenProperties
<1>3. Len(ReadOf(t, Len(t))) = Len(t)
  BY <1>2, ReadOfGrows
<1>4. ASSUME NEW k \in 1..Len(t)
      PROVE  /\ ReadOf(t, Len(t))[k] = Back(t[k])
             /\ PlainButton(t[k]) => Effective(Back(t[k])) = Effective(t[k])
  BY <1>4, BackIs DEF ReadOf, CanBeRead
<1> QED
  BY <1>1, <1>3, <1>4 DEF ReadsBack
-----------------------------------------------------------------------------
(* The inductive invariant of a careful user's editor. *)

AllNames == Range(FirstNames) \cup Range(NewNames)

\* A page with the fields it has.
IsPage(p) ==
  /\ p \in [table : {p.table}, rows : {p.rows}, sel : {p.sel}, sens : {p.sens},
            toSens : {p.toSens}, combo : {p.combo}, canDelete : {p.canDelete},
            fired : {p.fired}, w : {p.w}]
  /\ IsSet(p.w)

\* What the fields can hold.
FieldsOK(w) ==
  /\ w.name # Null /\ w.command # Null /\ w.keycode # Null /\ w.mod \in Mods
  /\ w.evtype \in EVTYPE_KEY..EVTYPE_COMMAND
  /\ w.switch_type \in CONFIG_SWITCH_NEXT..CONFIG_SWITCH_TO

PageTyped(p) ==
  /\ IsPage(p) /\ FieldsOK(p.w) /\ SoundTable(p.table)
  /\ p.combo \in Seq(AllNames \cup {NONE})

\* The rows show the table, and the selected one is that of the button rc.
RowsShow(t, r) ==
  /\ r \in Seq(Range(r)) /\ Len(r) = Len(t)
  /\ \A i \in 1..Len(t) : ShowsAs(t[i], r[i]) /\ IsButton(r[i])
TreeOK(p, rc) ==
  /\ RowsShow(p.table, p.rows)
  /\ p.sel \in 0..Len(p.rows) /\ (p.sel # 0 => p.rows[p.sel].rawcode = rc)

\* The fields w show the settings s.
Shows(w, s) ==
  /\ w.enabled = s.enabled /\ w.delay = s.delay /\ w.uid = s.uid /\ w.evtype = s.evtype
  /\ w.name = OrEmpty(s.name) /\ w.command = OrEmpty(s.command)
  /\ w.keycode = OrNone(s.keycode) /\ w.mod = OrNone(s.mod)
  /\ s.switch_type # CONFIG_SWITCH_NONE => w.switch_type = s.switch_type
  /\ s.switch_name # NONE => w.switch_name = s.switch_name

\* The fields show the button rc, if there is one.  While one of them is refused
\* they may hold anything but another event type.
Faithful(p, rc) ==
  Known(p, rc) =>
    /\ p.sens = SetOf(p, rc).evtype /\ p.w.evtype = SetOf(p, rc).evtype
    /\ ~Refused(p.w) => Shows(Stored(p.w), SetOf(p, rc))

PageOK(p, rc) == PageTyped(p) /\ ~p.fired /\ TreeOK(p, rc) /\ Faithful(p, rc)

FilesOK(f) ==
  /\ f = [n \in AllNames |-> f[n]]
  /\ \A n \in AllNames : f[n] = NoFile \/ SoundTable(Parse(f[n]).table)

EditorInv ==
  /\ PageOK(page, edit) /\ FilesOK(files)
  /\ edit \in Nat /\ cur \in Nat /\ edits \in Nat /\ names \in Seq(AllNames)
-----------------------------------------------------------------------------
(* Tables. *)

LEMMA RcOK ==
  /\ Rawcodes \subseteq Nat /\ 0 \notin Rawcodes
  /\ Half \in Nat \ {0} /\ NONE \in Keycodes /\ NONE \in Mods
  /\ Null # NONE /\ Null # Empty
  /\ \A text \in Keycodes \cup Mods : text # Null /\ Plain(text)
<1>1. Cardinality(Rawcodes) \in Nat
  BY ConstantsOK, FS_CardinalityType
<1> QED
  BY <1>1, ConstantsOK

\* buttons_exists: the first button with the raw code.
LEMMA IndexIs ==
  ASSUME NEW t, Len(t) \in Nat, NEW rc
  PROVE  /\ IndexOf(t, rc) \in 0..Len(t)
         /\ IndexOf(t, rc) # 0 => t[IndexOf(t, rc)].rawcode = rc
         /\ IndexOf(t, rc) = 0 => \A i \in 1..Len(t) : t[i].rawcode # rc
<1> DEFINE I == {i \in 1..Len(t) : t[i].rawcode = rc}
<1>1. IndexOf(t, rc) = IF I = {} THEN 0 ELSE Min(I)
  BY DEF IndexOf, SelectInSeq
<1>2. I # {} => Min(I) \in I
  <2>1. I \in SUBSET Nat
    OBVIOUS
  <2> HIDE DEF I
  <2> QED
    BY <2>1, MinIsLeast
<1> QED
  BY <1>1, <1>2

\* A set with the fields of the settings, and one with the fields of a button.
LEMMA IsSetAs ==
  ASSUME NEW s, s = [f \in Fields |-> s[f]]
  PROVE  IsSet(s)
<1>1. Fields = {"name", "enabled", "delay", "evtype", "keycode", "mod", "command", "uid",
                "switch_type", "switch_name"}
  BY DEF Fields, NewSettings
<1> QED
  BY <1>1 DEF IsSet

LEMMA AsIsSet ==
  ASSUME NEW s, IsSet(s)
  PROVE  s = [f \in Fields |-> s[f]]
<1>1. Fields = {"name", "enabled", "delay", "evtype", "keycode", "mod", "command", "uid",
                "switch_type", "switch_name"}
  BY DEF Fields, NewSettings
<1> QED
  BY <1>1 DEF IsSet

\* The settings, field by field.
LEMMA SoundIs ==
  ASSUME NEW s
  PROVE  Sound(s) <=> /\ IsSet(s)
                      /\ s.evtype \in EVTYPE_KEY..EVTYPE_COMMAND
                      /\ s.switch_type \in CONFIG_SWITCH_NONE..CONFIG_SWITCH_TO
                      /\ s.keycode \in Keycodes /\ s.mod \in Mods
                      /\ s.delay \in Ints /\ s.uid \in Ints
  BY IsSetAs, AsIsSet DEF Sound

\* The same for tables.
LEMMA TableIs ==
  ASSUME NEW t
  PROVE  SoundTable(t) <=>
           /\ \E S : t \in Seq(S)
           /\ \A k \in 1..Len(t) : t[k] \in [rawcode : Rawcodes, set : {t[k].set}] /\ Sound(t[k].set)
           /\ \A j, k \in 1..Len(t) : t[j].rawcode = t[k].rawcode => j = k
<1>1. (\E S : t \in Seq(S)) => t \in Seq(Range(t))
  <2>1. SUFFICES ASSUME NEW S, t \in Seq(S)
                 PROVE  t \in Seq(Range(t))
    OBVIOUS
  <2>2. DOMAIN t = 1..Len(t) /\ Len(t) \in Nat /\ t = [i \in 1..Len(t) |-> t[i]]
    BY <2>1
  <2>3. \A i \in 1..Len(t) : t[i] \in Range(t)
    BY <2>2 DEF Range
  <2> QED
    BY <2>2, <2>3
<1> QED
  BY <1>1 DEF SoundTable

LEMMA TableHas ==
  ASSUME NEW t, SoundTable(t)
  PROVE  /\ Len(t) \in Nat /\ \E S : t \in Seq(S)
         /\ \A k \in 1..Len(t) :
              IsButton(t[k]) /\ t[k].rawcode \in Rawcodes /\ Sound(t[k].set)
         /\ \A k \in 1..Len(t) : IndexOf(t, t[k].rawcode) = k
<1>1. Len(t) \in Nat
  BY LenProperties DEF SoundTable
<1>2. \A k \in 1..Len(t) : IsButton(t[k]) /\ t[k].rawcode \in Rawcodes /\ Sound(t[k].set)
  BY SoundIs DEF SoundTable, IsButton
<1>3. ASSUME NEW k \in 1..Len(t)
      PROVE  IndexOf(t, t[k].rawcode) = k
  <2> DEFINE n == IndexOf(t, t[k].rawcode)
  <2>1. /\ n \in 0..Len(t) /\ (n # 0 => t[n].rawcode = t[k].rawcode)
        /\ (n = 0 => t[k].rawcode # t[k].rawcode)
    BY <1>1, IndexIs
  <2> HIDE DEF n
  <2>2. n \in 1..Len(t) /\ t[n].rawcode = t[k].rawcode
    BY <1>1, <2>1
  <2> QED
    BY <2>2 DEF SoundTable, n
<1> QED
  BY <1>1, <1>2, <1>3, TableIs

LEMMA SoundNone == SoundTable(<<>>)
<1>1. <<>> \in Seq(Range(<<>>)) /\ 1..Len(<<>>) = {}
  OBVIOUS
<1> QED
  BY <1>1, Zenon DEF SoundTable

\* A table whose raw codes are those of t, one to one, and whose settings are sound.
LEMMA SoundLike ==
  ASSUME NEW t, SoundTable(t), NEW S, NEW u \in Seq(S), Len(u) = Len(t),
         \A k \in 1..Len(u) : IsButton(u[k]) /\ u[k].rawcode = t[k].rawcode /\ Sound(u[k].set)
  PROVE  SoundTable(u)
<1>1. \A k \in 1..Len(u) : u[k] \in [rawcode : Rawcodes, set : {u[k].set}]
  BY TableHas DEF IsButton
<1>2. \A j, k \in 1..Len(u) : u[j].rawcode = u[k].rawcode => j = k
  BY DEF SoundTable
<1> QED
  BY <1>1, <1>2, TableIs

\* Settings of one button are stored.
LEMMA SoundStored ==
  ASSUME NEW t, SoundTable(t), NEW k \in 1..Len(t), NEW s, Sound(s)
  PROVE  LET u == [t EXCEPT ![k].set = s]
         IN  /\ SoundTable(u) /\ Len(u) = Len(t)
             /\ \A i \in 1..Len(t) : u[i].rawcode = t[i].rawcode /\ (i # k => u[i] = t[i])
             /\ u[k].set = s
<1> DEFINE u == [t EXCEPT ![k].set = s]
           b == [t[k] EXCEPT !.set = s]
<1>1. PICK S : t \in Seq(S)
  BY TableHas
<1>2. u = [t EXCEPT ![k] = b]
  OBVIOUS
<1>3. IsButton(t[k]) /\ t[k].rawcode \in Rawcodes
  BY TableHas
<1>4. IsButton(b) /\ b.rawcode = t[k].rawcode /\ b.set = s
  <2>1. b \in [rawcode : {t[k].rawcode}, set : {s}]
    BY <1>3 DEF IsButton
  <2> HIDE DEF b
  <2> QED
    BY <2>1, SoundIs DEF IsButton
<1> HIDE DEF b
<1>5. /\ u \in Seq(S \cup {b}) /\ Len(u) = Len(t) /\ u[k] = b
      /\ \A i \in 1..Len(t) : i # k => u[i] = t[i]
  <2>1. t \in Seq(S \cup {b})
    BY <1>1
  <2> HIDE DEF u
  <2> QED
    BY <1>2, <2>1
<1> HIDE DEF u
<1>6. \A i \in 1..Len(t) : IsButton(u[i]) /\ u[i].rawcode = t[i].rawcode /\ Sound(u[i].set)
  BY <1>4, <1>5, TableHas
<1>7. SoundTable(u)
  BY <1>5, <1>6, SoundLike
<1> QED
  BY <1>4, <1>5, <1>6, <1>7 DEF u

\* A target is forgotten.
Forgot(t, k) == [t EXCEPT ![k].set.switch_name = NONE]

LEMMA SoundForgot ==
  ASSUME NEW t, SoundTable(t), NEW k \in 1..Len(t)
  PROVE  LET s == [t[k].set EXCEPT !.switch_name = NONE]
         IN  Forgot(t, k) = [t EXCEPT ![k].set = s] /\ Sound(s)
<1> DEFINE s == [t[k].set EXCEPT !.switch_name = NONE]
           z == t[k].set
<1>1. Sound(z)
  BY TableHas
<1>2. Forgot(t, k) = [t EXCEPT ![k].set = s]
  BY DEF Forgot
<1>3. ASSUME NEW x, IsSet(x)
      PROVE  LET y == [x EXCEPT !.switch_name = NONE]
             IN  /\ IsSet(y) /\ y.evtype = x.evtype /\ y.switch_type = x.switch_type
                 /\ y.keycode = x.keycode /\ y.mod = x.mod /\ y.delay = x.delay /\ y.uid = x.uid
  BY <1>3 DEF IsSet
<1>4. Sound(s)
  <2>1. IsSet(z) /\ s = [z EXCEPT !.switch_name = NONE]
    BY <1>1, SoundIs
  <2> HIDE DEF s, z
  <2> QED
    BY <1>1, <1>3, <2>1, SoundIs
<1> QED
  BY <1>2, <1>4

\* A button is removed.
LEMMA SoundRemoved ==
  ASSUME NEW t, SoundTable(t), NEW k \in 1..Len(t)
  PROVE  /\ SoundTable(RemoveAt(t, k)) /\ Len(RemoveAt(t, k)) = Len(t) - 1
         /\ \A i \in 1..Len(t) - 1 : RemoveAt(t, k)[i] = IF i < k THEN t[i] ELSE t[i + 1]
<1> DEFINE u == RemoveAt(t, k)
<1>1. PICK S : t \in Seq(S)
  BY TableHas
<1>2. Len(t) \in Nat
  BY TableHas
<1>3. /\ u \in Seq(S) /\ Len(u) = Len(t) - 1
      /\ \A i \in 1..Len(t) - 1 : u[i] = IF i < k THEN t[i] ELSE t[i + 1]
  <2>1. k \in 0..Len(t) + 1 /\ k \in 1..Len(t)
    BY <1>2
  <2> QED
    BY <1>1, <2>1, RemovedIsSeq
<1> HIDE DEF u
<1>4. ASSUME NEW i \in 1..Len(u)
      PROVE  u[i] \in [rawcode : Rawcodes, set : {u[i].set}] /\ Sound(u[i].set)
  <2>1. /\ i < k => i \in 1..Len(t) /\ u[i] = t[i]
        /\ ~(i < k) => i + 1 \in 1..Len(t) /\ u[i] = t[i + 1]
    BY <1>2, <1>3
  <2> QED
    BY <2>1 DEF SoundTable
<1>5. ASSUME NEW i \in 1..Len(u), NEW j \in 1..Len(u), u[i].rawcode = u[j].rawcode
      PROVE  i = j
  <2> DEFINE at(n) == IF n < k THEN n ELSE n + 1
  <2>1. at(i) \in 1..Len(t) /\ at(j) \in 1..Len(t) /\ u[i] = t[at(i)] /\ u[j] = t[at(j)]
    BY <1>2, <1>3
  <2>2. at(i) = at(j)
    <3> HIDE DEF at
    <3> QED
      BY <1>5, <2>1 DEF SoundTable
  <2> QED
    BY <1>2, <2>2
<1>6. SoundTable(u)
  BY <1>3, <1>4, <1>5, TableIs
<1> QED
  BY <1>3, <1>6 DEF u

\* A button is added.
LEMMA SoundAdded ==
  ASSUME NEW t, SoundTable(t), NEW rc \in Rawcodes, IndexOf(t, rc) = 0, NEW name
  PROVE  LET b == [NewButton(rc) EXCEPT !.set.name = name]
         IN  IsButton(b) /\ b.rawcode = rc /\ SoundTable(Append(t, b))
<1> DEFINE z == [NewSettings EXCEPT !.name = name]
           b == [NewButton(rc) EXCEPT !.set.name = name]
           u == Append(t, b)
<1>1. NewSettings \in [name : {Null}, enabled : {FALSE}, delay : {0}, evtype : {EVTYPE_KEY},
                       keycode : {NONE}, mod : {NONE}, command : {Null}, uid : {0},
                       switch_type : {CONFIG_SWITCH_NONE}, switch_name : {NONE}]
  BY DEF NewSettings
<1>2. z \in [name : {name}, enabled : {FALSE}, delay : {0}, evtype : {EVTYPE_KEY},
             keycode : {NONE}, mod : {NONE}, command : {Null}, uid : {0},
             switch_type : {CONFIG_SWITCH_NONE}, switch_name : {NONE}]
  BY <1>1
<1>3. b = [rawcode |-> rc, set |-> z]
  BY DEF NewButton
<1> HIDE DEF z, b
<1>4. Sound(z)
  <2>1. IsSet(z) /\ z.evtype = EVTYPE_KEY /\ z.switch_type = CONFIG_SWITCH_NONE
        /\ z.keycode = NONE /\ z.mod = NONE /\ z.delay = 0 /\ z.uid = 0
    BY <1>2 DEF IsSet
  <2>2. 0 \in Ints
    BY RcOK DEF Ints
  <2>3. /\ EVTYPE_KEY \in EVTYPE_KEY..EVTYPE_COMMAND
        /\ CONFIG_SWITCH_NONE \in CONFIG_SWITCH_NONE..CONFIG_SWITCH_TO
    BY DEF EVTYPE_KEY, EVTYPE_COMMAND, CONFIG_SWITCH_NONE, CONFIG_SWITCH_TO
  <2> QED
    BY <2>1, <2>2, <2>3, RcOK, SoundIs
<1>5. b \in [rawcode : Rawcodes, set : {b.set}] /\ b.rawcode = rc /\ b.set = z
  BY <1>3
<1>6. IsButton(b)
  BY <1>4, <1>5, SoundIs DEF IsButton
<1>7. PICK S : t \in Seq(S)
  BY TableHas
<1>8. Len(t) \in Nat
  BY TableHas
<1>9. /\ u \in Seq(S \cup {b}) /\ Len(u) = Len(t) + 1
      /\ \A i \in 1..Len(t) + 1 : u[i] = IF i <= Len(t) THEN t[i] ELSE b
  <2>1. t \in Seq(S \cup {b}) /\ b \in S \cup {b}
    BY <1>7
  <2> QED
    BY <2>1, AppendProperties
<1> HIDE DEF u
<1>10. ASSUME NEW i \in 1..Len(u)
       PROVE  u[i] \in [rawcode : Rawcodes, set : {u[i].set}] /\ Sound(u[i].set)
  <2>1. (i <= Len(t) => i \in 1..Len(t) /\ u[i] = t[i]) /\ (~(i <= Len(t)) => u[i] = b)
    BY <1>8, <1>9
  <2> QED
    BY <1>4, <1>5, <2>1 DEF SoundTable
<1>11. \A i \in 1..Len(t) : t[i].rawcode # rc
  BY <1>8, IndexIs
<1>12. ASSUME NEW i \in 1..Len(u), NEW j \in 1..Len(u), u[i].rawcode = u[j].rawcode
       PROVE  i = j
  <2>1. CASE i \in 1..Len(t) /\ j \in 1..Len(t)
    BY <1>9, <1>12, <2>1 DEF SoundTable
  <2>2. CASE i \notin 1..Len(t) /\ j \notin 1..Len(t)
    BY <1>8, <1>9, <2>2
  <2>3. CASE i \in 1..Len(t) /\ j \notin 1..Len(t)
    <3>1. u[i] = t[i] /\ u[j] = b
      BY <1>8, <1>9, <2>3
    <3> QED
      BY <1>5, <1>11, <1>12, <2>3, <3>1
  <2>4. CASE i \notin 1..Len(t) /\ j \in 1..Len(t)
    <3>1. u[j] = t[j] /\ u[i] = b
      BY <1>8, <1>9, <2>4
    <3> QED
      BY <1>5, <1>11, <1>12, <2>4, <3>1
  <2> QED
    BY <2>1, <2>2, <2>3, <2>4
<1>13. SoundTable(u)
  BY <1>9, <1>10, <1>12, TableIs
<1> QED
  BY <1>5, <1>6, <1>13 DEF b, u

\* There are fewer buttons than any raw code says.
LEMMA SoundIsRead ==
  ASSUME NEW t, SoundTable(t)
  PROVE  CanBeRead(t)
<1> DEFINE N == Len(t)
           code == [k \in 1..N |-> t[k].rawcode]
<1>1. N \in Nat /\ \A k \in 1..N : t[k].rawcode \in Rawcodes /\ Sound(t[k].set)
  BY TableHas
<1>2. code \in Injection(1..N, Rawcodes)
  <2>1. code \in [1..N -> Rawcodes]
    BY <1>1
  <2>2. \A i, j \in 1..N : code[i] = code[j] => i = j
    BY DEF SoundTable
  <2> QED
    BY <2>1, <2>2 DEF Injection, IsInjective
<1>3. IsFiniteSet(Rawcodes)
  BY ConstantsOK
<1>4. Cardinality(1..N) <= Cardinality(Rawcodes)
  <2> HIDE DEF code, N
  <2> QED
    BY <1>2, <1>3, FS_Injection
<1>5. Cardinality(1..N) = N
  <2>1. Cardinality(1..N) = IF 1 > N THEN 0 ELSE N - 1 + 1
    BY <1>1, FS_Interval
  <2> QED
    BY <1>1, <2>1
<1>6. Cardinality(Rawcodes) \in Nat
  BY <1>3, FS_CardinalityType
<1>7. ASSUME NEW k \in 1..N
      PROVE  t[k].rawcode \notin 0..N - 1 /\ t[k].set.evtype \in EVTYPE_KEY..EVTYPE_COMMAND
  <2>1. t[k].rawcode \in Nat /\ t[k].rawcode > Cardinality(Rawcodes)
    BY <1>1, ConstantsOK
  <2>2. t[k].set.evtype \in EVTYPE_KEY..EVTYPE_COMMAND
    BY <1>1, SoundIs
  <2> QED
    BY <1>1, <1>4, <1>5, <1>6, <2>1, <2>2
<1> QED
  BY <1>7 DEF CanBeRead

\* What is read of a button is sound again.
LEMMA BackSound ==
  ASSUME NEW b, Sound(b.set)
  PROVE  IsButton(Back(b)) /\ Back(b).rawcode = b.rawcode /\ Sound(Back(b).set)
<1> DEFINE s == b.set
           r == ReadSet(s)
<1>1. /\ IsSet(s) /\ s.evtype \in EVTYPE_KEY..EVTYPE_COMMAND
      /\ s.switch_type \in CONFIG_SWITCH_NONE..CONFIG_SWITCH_TO
      /\ s.keycode \in Keycodes /\ s.mod \in Mods
      /\ s.delay \in Ints /\ s.uid \in Ints
  BY SoundIs
<1>2. Value(Printed(s.keycode)) = s.keycode /\ Value(Printed(s.mod)) = s.mod
  BY <1>1, RcOK DEF Plain
<1>3. 0 \in Ints
  BY RcOK DEF Ints
<1>4. CONFIG_SWITCH_NONE \in CONFIG_SWITCH_NONE..CONFIG_SWITCH_TO
  BY DEF CONFIG_SWITCH_NONE, CONFIG_SWITCH_TO
<1>5. /\ IsSet(r) /\ r.delay = s.delay /\ r.evtype = s.evtype
      /\ s.evtype = EVTYPE_KEY => /\ r.keycode = Value(Printed(s.keycode))
                                  /\ r.mod = Value(Printed(s.mod))
      /\ s.evtype = EVTYPE_COMMAND => r.uid = s.uid
      /\ s.evtype = EVTYPE_CONFIG => r.switch_type = s.switch_type
      /\ s.evtype # EVTYPE_KEY => r.keycode = NONE /\ r.mod = NONE
      /\ s.evtype # EVTYPE_COMMAND => r.uid = 0
      /\ s.evtype # EVTYPE_CONFIG => r.switch_type = CONFIG_SWITCH_NONE
  BY <1>1, ReadSetIs
<1> HIDE DEF r
<1>6. Sound(r)
  BY <1>1, <1>2, <1>3, <1>4, <1>5, RcOK, SoundIs
<1> QED
  BY <1>5, <1>6 DEF Back, IsButton, r

LEMMA SavedIsSound ==
  ASSUME NEW t, SoundTable(t)
  PROVE  /\ Parse(Format(NewMouse, t)).table = ReadOf(t, Len(t))
         /\ SoundTable(Parse(Format(NewMouse, t)).table)
<1> DEFINE u == ReadOf(t, Len(t))
<1>1. PICK S : t \in Seq(S)
  BY TableHas
<1>2. Parse(Format(NewMouse, t)).table = u
  BY <1>1, SoundIsRead, TableRead
<1>3. Len(t) \in Nat /\ \A k \in 1..Len(t) : Sound(t[k].set)
  BY TableHas
<1>4. u \in Seq({Back(t[k]) : k \in 1..Len(t)}) /\ Len(u) = Len(t)
  BY <1>3, ReadOfGrows
<1>5. \A k \in 1..Len(t) : u[k] = Back(t[k])
  BY DEF ReadOf
<1> DEFINE R == {Back(t[k]) : k \in 1..Len(t)}
<1> HIDE DEF u, R
<1>6. \A k \in 1..Len(u) : IsButton(u[k]) /\ u[k].rawcode = t[k].rawcode /\ Sound(u[k].set)
  BY <1>3, <1>4, <1>5, BackSound
<1>7. SoundTable(u)
  <2>1. u \in Seq(R)
    BY <1>4 DEF R
  <2> QED
    BY <1>4, <1>6, <2>1, SoundLike
<1> QED
  BY <1>2, <1>7 DEF u

\* There is no file: no button.
LEMMA NothingRead == Parse(<<>>).table = <<>>
<1>1. <<>> \in Seq({})
  OBVIOUS
<1>2. Parse(<<>>) = Start
  BY <1>1, RunsNone, RunsIsParse DEF IsLines
<1> QED
  BY <1>2 DEF Start
-----------------------------------------------------------------------------
(* The rows of the tree. *)

LEMMA RowsHave ==
  ASSUME NEW t, SoundTable(t), NEW r, RowsShow(t, r)
  PROVE  /\ Len(r) \in Nat /\ Len(r) = Len(t) /\ \E S : r \in Seq(S)
         /\ \A i \in 1..Len(t) : r[i].rawcode = t[i].rawcode
         /\ \A rc : IndexOf(r, rc) = IndexOf(t, rc)
<1>1. Len(r) \in Nat /\ Len(t) \in Nat /\ Len(r) = Len(t)
  BY TableHas DEF RowsShow
<1>2. \A i \in 1..Len(t) : r[i].rawcode = t[i].rawcode
  BY DEF RowsShow, ShowsAs
<1>3. ASSUME NEW rc
      PROVE  IndexOf(r, rc) = IndexOf(t, rc)
  <2> DEFINE n == IndexOf(t, rc)
             m == IndexOf(r, rc)
  <2>1. /\ n \in 0..Len(t) /\ (n # 0 => t[n].rawcode = rc)
        /\ (n = 0 => \A i \in 1..Len(t) : t[i].rawcode # rc)
    BY <1>1, IndexIs
  <2>2. /\ m \in 0..Len(t) /\ (m # 0 => r[m].rawcode = rc)
        /\ (m = 0 => \A i \in 1..Len(t) : r[i].rawcode # rc)
    BY <1>1, IndexIs
  <2> HIDE DEF n, m
  <2>3. m # 0 => m \in 1..Len(t) /\ t[m].rawcode = rc
    BY <1>1, <1>2, <2>2
  <2>4. n # 0 => n \in 1..Len(t) /\ r[n].rawcode = rc
    BY <1>1, <1>2, <2>1
  <2>5. m # 0 /\ n # 0 => m = n
    BY <2>1, <2>3, <2>4 DEF SoundTable
  <2> QED
    BY <2>1, <2>2, <2>3, <2>4, <2>5 DEF n, m
<1> QED
  BY <1>1, <1>2, <1>3 DEF RowsShow

\* tree_buttons_replace
LEMMA RowsReplaced == ASSUME NEW t, SoundTable(t) PROVE RowsShow(t, t)
  BY TableHas DEF RowsShow, ShowsAs, SoundTable

\* One button of the table is another now, which its row shows still.
LEMMA RowsKept ==
  ASSUME NEW t, NEW r, RowsShow(t, r), NEW u, Len(u) = Len(t),
         \A i \in 1..Len(t) : ShowsAs(u[i], r[i])
  PROVE  RowsShow(u, r)
  BY DEF RowsShow

\* A target is forgotten.
LEMMA RowsForgot ==
  ASSUME NEW t, SoundTable(t), NEW r, RowsShow(t, r), NEW k \in 1..Len(t)
  PROVE  LET u == Forgot(t, k)
         IN  /\ SoundTable(u) /\ Len(u) = Len(t) /\ RowsShow(u, r)
             /\ \A i \in 1..Len(t) : ShowsAs(u[i], t[i])
<1> DEFINE u == Forgot(t, k)
           s == [t[k].set EXCEPT !.switch_name = NONE]
           v == [t EXCEPT ![k].set = s]
<1>1. u = v /\ Sound(s)
  BY SoundForgot
<1>2. /\ SoundTable(v) /\ Len(v) = Len(t)
      /\ \A i \in 1..Len(t) : v[i].rawcode = t[i].rawcode /\ (i # k => v[i] = t[i])
      /\ v[k].set = s
  <2>1. Sound(s)
    BY <1>1
  <2> HIDE DEF s
  <2> QED
    BY <2>1, SoundStored
<1> HIDE DEF u, v
<1>3. \A i \in 1..Len(t) : ShowsAs(v[i], t[i])
  BY <1>2 DEF ShowsAs
<1>4. ASSUME NEW x, NEW y, NEW z, IsSet(y), x \in {y, [y EXCEPT !.switch_name = NONE]},
             z = [x EXCEPT !.switch_name = NONE]
      PROVE  z = [y EXCEPT !.switch_name = NONE]
  BY <1>4 DEF IsSet
<1>5. ASSUME NEW i \in 1..Len(t)
      PROVE  ShowsAs(v[i], r[i])
  <2>1. ShowsAs(t[i], r[i]) /\ IsButton(r[i])
    BY DEF RowsShow
  <2>2. CASE i # k
    BY <1>2, <2>1, <2>2
  <2>3. CASE i = k
    <3>1. s = [r[k].set EXCEPT !.switch_name = NONE]
      BY <1>4, <2>1, <2>3 DEF ShowsAs, IsButton
    <3> HIDE DEF s
    <3> QED
      BY <1>2, <2>1, <2>3, <3>1 DEF ShowsAs
  <2> QED
    BY <2>2, <2>3
<1>6. RowsShow(v, r)
  BY <1>2, <1>5, RowsKept
<1> QED
  BY <1>1, <1>2, <1>3, <1>6 DEF u

\* tree_buttons_update_button
LEMMA RowsStored ==
  ASSUME NEW t, SoundTable(t), NEW r, RowsShow(t, r), NEW k \in 1..Len(t), NEW s, Sound(s)
  PROVE  LET u == [t EXCEPT ![k].set = s]
         IN  RowsShow(u, [r EXCEPT ![k] = u[k]])
<1> DEFINE u == [t EXCEPT ![k].set = s]
           b == u[k]
           q == [r EXCEPT ![k] = b]
<1>1. /\ SoundTable(u) /\ Len(u) = Len(t)
      /\ \A i \in 1..Len(t) : u[i].rawcode = t[i].rawcode /\ (i # k => u[i] = t[i])
  BY SoundStored
<1>2. IsButton(b)
  BY <1>1, TableHas
<1> HIDE DEF u
<1>3. PICK S : r \in Seq(S)
  BY RowsHave
<1>4. Len(r) = Len(t) /\ Len(t) \in Nat
  BY RowsHave
<1> HIDE DEF b
<1>5. /\ q \in Seq(S \cup {b}) /\ Len(q) = Len(t) /\ q[k] = b
      /\ \A i \in 1..Len(t) : i # k => q[i] = r[i]
  <2>1. r \in Seq(S \cup {b})
    BY <1>3
  <2> QED
    BY <1>4, <2>1
<1> HIDE DEF q
<1>6. q \in Seq(Range(q))
  <2>1. DOMAIN q = 1..Len(q) /\ Len(q) \in Nat /\ q = [i \in 1..Len(q) |-> q[i]]
    BY <1>5
  <2>2. \A i \in 1..Len(q) : q[i] \in Range(q)
    BY <2>1 DEF Range
  <2> QED
    BY <2>1, <2>2
<1>7. ASSUME NEW i \in 1..Len(u)
      PROVE  ShowsAs(u[i], q[i]) /\ IsButton(q[i])
  <2>1. CASE i = k
    BY <1>2, <1>5, <2>1 DEF ShowsAs, b
  <2>2. CASE i # k
    BY <1>1, <1>5, <2>2 DEF RowsShow
  <2> QED
    BY <2>1, <2>2
<1>8. RowsShow(u, q)
  BY <1>1, <1>5, <1>6, <1>7 DEF RowsShow
<1> QED
  BY <1>8 DEF q, b, u

\* tree_buttons_remove_button
LEMMA RowsRemoved ==
  ASSUME NEW t, SoundTable(t), NEW r, RowsShow(t, r), NEW k \in 1..Len(t)
  PROVE  /\ RowsShow(RemoveAt(t, k), RemoveAt(r, k)) /\ Len(RemoveAt(r, k)) = Len(r) - 1
<1> DEFINE u == RemoveAt(t, k)
           q == RemoveAt(r, k)
<1>1. /\ Len(t) \in Nat /\ Len(u) = Len(t) - 1
      /\ \A i \in 1..Len(t) - 1 : u[i] = IF i < k THEN t[i] ELSE t[i + 1]
  BY SoundRemoved, TableHas
<1>2. PICK S : r \in Seq(S)
  BY RowsHave
<1>3. Len(r) = Len(t)
  BY RowsHave
<1>4. /\ q \in Seq(S) /\ Len(q) = Len(t) - 1
      /\ \A i \in 1..Len(t) - 1 : q[i] = IF i < k THEN r[i] ELSE r[i + 1]
  <2>1. k \in 0..Len(r) + 1 /\ k \in 1..Len(r)
    BY <1>1, <1>3
  <2> QED
    BY <1>2, <1>3, <2>1, RemovedIsSeq
<1> HIDE DEF u, q
<1>5. q \in Seq(Range(q))
  <2>1. DOMAIN q = 1..Len(q) /\ Len(q) \in Nat /\ q = [i \in 1..Len(q) |-> q[i]]
    BY <1>4
  <2>2. \A i \in 1..Len(q) : q[i] \in Range(q)
    BY <2>1 DEF Range
  <2> QED
    BY <2>1, <2>2
<1>6. ASSUME NEW i \in 1..Len(u)
      PROVE  ShowsAs(u[i], q[i]) /\ IsButton(q[i])
  <2>1. CASE i < k
    <3>1. i \in 1..Len(t) /\ u[i] = t[i] /\ q[i] = r[i]
      BY <1>1, <1>4, <2>1
    <3> QED
      BY <3>1 DEF RowsShow
  <2>2. CASE ~(i < k)
    <3>1. i + 1 \in 1..Len(t) /\ u[i] = t[i + 1] /\ q[i] = r[i + 1]
      BY <1>1, <1>4, <2>2
    <3> QED
      BY <3>1 DEF RowsShow
  <2> QED
    BY <2>1, <2>2
<1>7. RowsShow(u, q)
  BY <1>1, <1>4, <1>5, <1>6 DEF RowsShow
<1> QED
  BY <1>3, <1>4, <1>7 DEF u, q
-----------------------------------------------------------------------------
(* Setting a field while nothing is stored. *)

\* The pages p and q differ in the fields of the editor at most.
Same(p, q) ==
  /\ q.table = p.table /\ q.rows = p.rows /\ q.sel = p.sel /\ q.combo = p.combo
  /\ q.fired = p.fired

LEMMA FieldSet ==
  ASSUME NEW s, IsSet(s), NEW f \in Fields, NEW v
  PROVE  /\ IsSet([s EXCEPT ![f] = v]) /\ [s EXCEPT ![f] = v][f] = v
         /\ \A g \in Fields : g # f => [s EXCEPT ![f] = v][g] = s[g]
<1> DEFINE z == [s EXCEPT ![f] = v]
<1>1. s = [g \in Fields |-> s[g]]
  BY AsIsSet
<1>2. z = [g \in Fields |-> IF g = f THEN v ELSE s[g]]
  BY <1>1
<1> HIDE DEF z
<1>3. z = [g \in Fields |-> z[g]]
  BY <1>2
<1> QED
  BY <1>2, <1>3, IsSetAs DEF z

LEMMA WithFields ==
  ASSUME NEW p, IsPage(p), NEW w, IsSet(w), NEW q, q = [p EXCEPT !.w = w]
  PROVE  IsPage(q) /\ Same(p, q) /\ q.sens = p.sens /\ q.w = w
  BY DEF IsPage, Same

LEMMA FieldsAre ==
  Fields = {"name", "enabled", "delay", "evtype", "keycode", "mod", "command", "uid",
            "switch_type", "switch_name"}
  BY DEF Fields, NewSettings

\* config_update_evtype
LEMMA EventFieldsAre ==
  ASSUME NEW p, IsPage(p), NEW e
  PROVE  LET q == EventFields(p, e)
         IN  IsPage(q) /\ Same(p, q) /\ q.sens = e /\ q.w = p.w
<1>1. ASSUME NEW x
      PROVE  LET q == [p EXCEPT !.sens = e, !.toSens = x]
             IN  IsPage(q) /\ Same(p, q) /\ q.sens = e /\ q.w = p.w
  BY DEF IsPage, Same
<1> DEFINE x == p.w.switch_type = CONFIG_SWITCH_TO /\ e = EVTYPE_CONFIG
<1>2. EventFields(p, e) = [p EXCEPT !.sens = e, !.toSens = x]
  BY Zenon DEF EventFields
<1> HIDE DEF x
<1> QED
  BY <1>1, <1>2, Zenon

\* block_update: the callback of a field that is set returns at once.
Yes == TRUE
No  == FALSE
Put(p, rc, f, v) == Signalled(p, rc, f, v, Yes)

LEMMA BlockedSignal ==
  ASSUME NEW p, IsPage(p), NEW rc, NEW f \in Fields, NEW v
  PROVE  LET q == Put(p, rc, f, v)
         IN  /\ IsPage(q) /\ Same(p, q) /\ q.sens = p.sens
             /\ q.w[f] = v /\ \A g \in Fields : g # f => q.w[g] = p.w[g]
<1> DEFINE w == [p.w EXCEPT ![f] = v]
           x == v = CONFIG_SWITCH_TO
           a == [p EXCEPT !.w[f] = v]
           b == [p EXCEPT !.w[f] = v, !.toSens = x]
<1>1. IsSet(w)
  BY FieldSet DEF IsPage
<1>2. a = [p EXCEPT !.w = w] /\ b = [p EXCEPT !.w = w, !.toSens = x]
  <2> HIDE DEF x
  <2> QED
    BY DEF IsPage
<1> HIDE DEF x, a, b
<1>5. IsPage(a) /\ Same(p, a) /\ a.sens = p.sens /\ a.w = w
  <2> HIDE DEF w
  <2> QED
    BY <1>1, <1>2, WithFields
<1>6. IsPage(b) /\ Same(p, b) /\ b.sens = p.sens /\ b.w = w
  <2> HIDE DEF w
  <2> QED
    BY <1>1, <1>2 DEF IsPage, Same
<1>7. w[f] = v /\ \A g \in Fields : g # f => w[g] = p.w[g]
  <2>1. p.w = [g \in Fields |-> p.w[g]]
    BY AsIsSet DEF IsPage
  <2> QED
    BY <2>1
<1>3. CASE p.w[f] = v
  <2>1. w = p.w
    <3>1. p.w = [g \in Fields |-> p.w[g]]
      BY AsIsSet DEF IsPage
    <3> QED
      BY <1>3, <3>1
  <2>2. Put(p, rc, f, v) = p
    BY <1>3, Zenon DEF Signalled, Yes, Put
  <2>3. Same(p, p)
    BY DEF Same
  <2> HIDE DEF w
  <2> QED
    BY <1>7, <2>1, <2>2, <2>3
<1>4. CASE p.w[f] # v
  <2>1. Put(p, rc, f, v) = IF f = "switch_type" THEN b ELSE a
    BY <1>4, Zenon DEF Signalled, Yes, Put, a, b, x
  <2> HIDE DEF w
  <2> QED
    BY <1>5, <1>6, <1>7, <2>1
<1> QED
  BY <1>3, <1>4

(* Showing a button while nothing is stored: config_refresh_button_properties. *)

Boxes(p, rc, s)  == ShowBoxes(p, rc, s, Yes)
Lists(p, rc, s)  == ShowLists(p, rc, s, Yes)
Target(p, rc, n) == ShowTarget(p, rc, n, Yes)

LEMMA BoxesShown ==
  ASSUME NEW p, IsPage(p), NEW rc, NEW s, Sound(s)
  PROVE  LET q == Boxes(p, rc, s)
         IN  /\ IsPage(q) /\ Same(p, q) /\ q.sens = s.evtype /\ q.w.enabled = s.enabled
             /\ q.w.switch_type \in CONFIG_SWITCH_NEXT..CONFIG_SWITCH_TO
             /\ s.switch_type # CONFIG_SWITCH_NONE => q.w.switch_type = s.switch_type
<1> DEFINE a == EventFields(p, s.evtype)
           b == Put(a, rc, "enabled", s.enabled)
           v == IF s.switch_type = CONFIG_SWITCH_NONE THEN CONFIG_SWITCH_NEXT ELSE s.switch_type
           c == Put(b, rc, "switch_type", v)
<1>1. "enabled" \in Fields /\ "switch_type" \in Fields
  BY FieldsAre
<1>2. IsPage(a) /\ Same(p, a) /\ a.sens = s.evtype
  BY EventFieldsAre
<1> HIDE DEF a
<1>3. IsPage(b) /\ Same(a, b) /\ b.sens = a.sens /\ b.w.enabled = s.enabled
  BY <1>1, <1>2, BlockedSignal
<1> HIDE DEF b
<1>5. IsPage(c) /\ Same(b, c) /\ c.sens = b.sens
      /\ c.w.enabled = b.w.enabled /\ c.w.switch_type = v
  <2> HIDE DEF v
  <2> QED
    BY <1>1, <1>3, BlockedSignal
<1>7. s.switch_type \in CONFIG_SWITCH_NONE..CONFIG_SWITCH_TO
  BY SoundIs
<1>8. v \in CONFIG_SWITCH_NEXT..CONFIG_SWITCH_TO
  BY <1>7 DEF CONFIG_SWITCH_NONE, CONFIG_SWITCH_NEXT, CONFIG_SWITCH_TO
<1>9. Boxes(p, rc, s) = c
  <2>1. CASE s.switch_type = CONFIG_SWITCH_NONE
    BY <2>1, Zenon DEF Boxes, ShowBoxes, Put, c, b, a, v
  <2>2. CASE s.switch_type # CONFIG_SWITCH_NONE
    <3>1. s.switch_type \in CONFIG_SWITCH_NEXT..CONFIG_SWITCH_TO
      BY <1>8, <2>2
    <3> QED
      BY <2>2, <3>1, Zenon DEF Boxes, ShowBoxes, Put, c, b, a, v
  <2> QED
    BY <2>1, <2>2
<1>10. Same(p, c)
  BY <1>2, <1>3, <1>5 DEF Same
<1> HIDE DEF c
<1> QED
  BY <1>2, <1>3, <1>5, <1>8, <1>9, <1>10

LEMMA EntriesShown ==
  ASSUME NEW p, IsPage(p), ~p.fired, NEW rc, NEW s, NEW q \in ShowEntries(p, rc, s)
  PROVE  /\ IsPage(q) /\ Same(p, q) /\ q.sens = p.sens
         /\ q.w.enabled = p.w.enabled /\ q.w.switch_type = p.w.switch_type
         /\ q.w.name = OrEmpty(s.name) /\ q.w.command = OrEmpty(s.command)
         /\ q.w.keycode = OrNone(s.keycode) /\ q.w.delay = s.delay /\ q.w.uid = s.uid
<1> DEFINE n == OrEmpty(s.name)
           c == OrEmpty(s.command)
           k == OrNone(s.keycode)
           d == s.delay
           u == s.uid
           w == [p.w EXCEPT !.name = n, !.command = c, !.keycode = k, !.delay = d, !.uid = u]
<1>1. /\ Lookup(p, rc, s, "name") = {s.name} /\ Lookup(p, rc, s, "command") = {s.command}
      /\ Lookup(p, rc, s, "keycode") = {s.keycode}
  BY Zenon DEF Lookup
<1>2. q = [p EXCEPT !.w.name = n, !.w.command = c, !.w.keycode = k, !.w.delay = d, !.w.uid = u]
  <2>1. q = WithEntries(p, s, s.name, s.command, s.keycode)
    BY <1>1 DEF ShowEntries
  <2> QED
    BY <2>1 DEF WithEntries
<1> HIDE DEF n, c, k, d, u
<1>3. q = [p EXCEPT !.w = w]
  BY <1>2 DEF IsPage
<1>4. w \in [name : {n}, enabled : {p.w.enabled}, delay : {d}, evtype : {p.w.evtype},
             keycode : {k}, mod : {p.w.mod}, command : {c}, uid : {u},
             switch_type : {p.w.switch_type}, switch_name : {p.w.switch_name}]
  BY DEF IsPage, IsSet
<1> HIDE DEF w
<1>5. IsSet(w)
  BY <1>4 DEF IsSet
<1>6. IsPage(q) /\ Same(p, q) /\ q.sens = p.sens /\ q.w = w
  BY <1>3, <1>5, WithFields
<1> QED
  BY <1>4, <1>6 DEF n, c, k, d, u

LEMMA ListsShown ==
  ASSUME NEW p, IsPage(p), ~p.fired, NEW rc, NEW s, Sound(s), NEW q \in Lists(p, rc, s)
  PROVE  /\ IsPage(q) /\ Same(p, q) /\ q.sens = p.sens
         /\ q.w.enabled = p.w.enabled /\ q.w.switch_type = p.w.switch_type
         /\ q.w.name = p.w.name /\ q.w.command = p.w.command /\ q.w.keycode = p.w.keycode
         /\ q.w.delay = p.w.delay /\ q.w.uid = p.w.uid
         /\ q.w.mod = s.mod /\ q.w.evtype = s.evtype
<1> DEFINE a == Put(p, rc, "mod", s.mod)
           b == Put(a, rc, "evtype", s.evtype)
<1>1. Lookup(p, rc, s, "mod") = {s.mod}
  BY Zenon DEF Lookup
<1>2. OrNone(s.mod) = s.mod /\ s.mod \in Mods
  BY RcOK, SoundIs DEF OrNone
<1>3. q = b
  BY <1>1, <1>2, Zenon DEF Lists, ShowLists, Put
<1>4. "mod" \in Fields /\ "evtype" \in Fields
  BY FieldsAre
<1>5. IsPage(a) /\ Same(p, a) /\ a.sens = p.sens
      /\ a.w.mod = s.mod /\ \A g \in Fields : g # "mod" => a.w[g] = p.w[g]
  BY <1>4, BlockedSignal
<1> HIDE DEF a
<1>6. IsPage(b) /\ Same(a, b) /\ b.sens = a.sens
      /\ b.w.evtype = s.evtype /\ \A g \in Fields : g # "evtype" => b.w[g] = a.w[g]
  BY <1>4, <1>5, BlockedSignal
<1> HIDE DEF b
<1>9. Same(p, b)
  BY <1>5, <1>6 DEF Same
<1> QED
  BY <1>3, <1>5, <1>6, <1>9, FieldsAre

LEMMA TargetShown ==
  ASSUME NEW p, IsPage(p), NEW rc, SoundTable(p.table), Known(p, rc),
         Null \notin Range(p.combo), p.combo \in Seq(Range(p.combo))
  PROVE  LET k == Place(p, rc)
             s == SetOf(p, rc)
             q == Target(p, rc, s.switch_name)
         IN  /\ IsPage(q) /\ q.rows = p.rows /\ q.sel = p.sel /\ q.combo = p.combo
             /\ q.fired = p.fired /\ q.sens = p.sens
             /\ \A g \in Fields : g # "switch_name" => q.w[g] = p.w[g]
             /\ \/ q.table = p.table
                     /\ (s.switch_name # NONE => q.w.switch_name = s.switch_name)
                \/ q.table = Forgot(p.table, k)
<1> DEFINE k == Place(p, rc)
           n == SetOf(p, rc).switch_name
           v == IF Contains(p.combo, n) THEN n ELSE NONE
           a == IF n = Null \/ p.combo = <<>> THEN p
                ELSE Put(p, rc, "switch_name", v)
           t == Forgot(p.table, k)
<1>1. "switch_name" \in Fields
  BY FieldsAre
<1>2. /\ IsPage(a) /\ Same(p, a) /\ a.sens = p.sens
      /\ \A g \in Fields : g # "switch_name" => a.w[g] = p.w[g]
      /\ ~(n = Null \/ p.combo = <<>>) => a.w.switch_name = v
  <2>1. CASE n = Null \/ p.combo = <<>>
    <3>1. a = p
      BY <2>1
    <3> HIDE DEF a
    <3> QED
      BY <2>1, <3>1 DEF Same
  <2>2. CASE ~(n = Null \/ p.combo = <<>>)
    <3> DEFINE b == Put(p, rc, "switch_name", v)
    <3>1. a = b
      BY <2>2
    <3> HIDE DEF v
    <3>2. IsPage(b) /\ Same(p, b) /\ b.sens = p.sens
          /\ b.w.switch_name = v /\ \A g \in Fields : g # "switch_name" => b.w[g] = p.w[g]
      BY <1>1, BlockedSignal
    <3> HIDE DEF b, a
    <3> QED
      BY <2>2, <3>1, <3>2
  <2> QED
    BY <2>1, <2>2
<1> HIDE DEF a
<1>3. Target(p, rc, n) =
        IF Contains(p.combo, n) THEN a
        ELSE [a EXCEPT !.table[Place(a, rc)].set.switch_name = NONE]
  BY Zenon DEF Target, ShowTarget, Put, a, v
<1>4. CASE Contains(p.combo, n)
  <2>1. n \in Range(p.combo)
    BY <1>4 DEF Contains, Range
  <2>2. n # Null /\ p.combo # <<>>
    BY <1>4, <2>1 DEF Contains
  <2>3. a.w.switch_name = n
    BY <1>2, <1>4, <2>2
  <2> HIDE DEF n
  <2> QED
    BY <1>2, <1>3, <1>4, <2>3, Zenon DEF Same, n
<1>5. CASE ~Contains(p.combo, n)
  <2> DEFINE q == [a EXCEPT !.table = t]
  <2>1. Place(a, rc) = k /\ a.table = p.table
    BY <1>2 DEF Same, Place
  <2>2. [a EXCEPT !.table[Place(a, rc)].set.switch_name = NONE] = q
    BY <1>2, <2>1 DEF IsPage, Forgot
  <2>3. Target(p, rc, n) = q
    BY <1>3, <1>5, <2>2, Zenon
  <2> HIDE DEF t
  <2>4. /\ IsPage(q) /\ q.rows = a.rows /\ q.sel = a.sel /\ q.combo = a.combo
        /\ q.fired = a.fired /\ q.sens = a.sens /\ q.w = a.w /\ q.table = t
    BY <1>2 DEF IsPage
  <2> HIDE DEF q, n
  <2> QED
    BY <1>2, <2>3, <2>4, Zenon DEF Same, n, t
<1> QED
  BY <1>4, <1>5

(* Storing a number: strtol, and the conversion to int. *)

LEMMA IntOfIs ==
  ASSUME NEW n \in Nat
  PROVE  IntOf(n) \in Ints /\ (n \in Ints => IntOf(n) = n)
<1> DEFINE m == 2 * Half
<1>1. Half \in Nat \ {0} /\ m \in Nat \ {0} /\ m = Half + Half
  BY RcOK
<1>2. n + Half \in Nat
  BY <1>1
<1> HIDE DEF m
<1>3. (n + Half) % m \in 0..m - 1
  BY <1>1, <1>2
<1>4. ASSUME n < Half
      PROVE  (n + Half) % m = n + Half
  <2>1. n + Half \in 0..m - 1
    BY <1>1, <1>4
  <2> QED
    BY <1>1, <2>1
<1>5. IntOf(n) = ((n + Half) % m) - Half
  BY DEF IntOf, m
<1> QED
  BY <1>1, <1>3, <1>4, <1>5 DEF Ints

LEMMA StoredIs ==
  ASSUME NEW w, IsSet(w)
  PROVE  /\ IsSet(Stored(w)) /\ Stored(w).delay = IntOf(w.delay) /\ Stored(w).uid = IntOf(w.uid)
         /\ \A f \in Fields \ {"delay", "uid"} : Stored(w)[f] = w[f]
<1> DEFINE d == IntOf(w.delay)
           u == IntOf(w.uid)
           z == [w EXCEPT !.delay = d, !.uid = u]
<1>1. Stored(w) = z
  BY DEF Stored
<1> HIDE DEF d, u
<1>2. z \in [name : {w.name}, enabled : {w.enabled}, delay : {d}, evtype : {w.evtype},
             keycode : {w.keycode}, mod : {w.mod}, command : {w.command}, uid : {u},
             switch_type : {w.switch_type}, switch_name : {w.switch_name}]
  BY DEF IsSet
<1> HIDE DEF z
<1>3. IsSet(z)
  BY <1>2 DEF IsSet
<1>4. \A f \in Fields \ {"delay", "uid"} : z[f] = w[f]
  BY <1>2, FieldsAre
<1> QED
  BY <1>1, <1>2, <1>3, <1>4 DEF d, u

LEMMA RefreshedBy ==
  ASSUME NEW p, NEW rc, Known(p, rc), NEW blocked, NEW q \in Refresh(p, rc, blocked)
  PROVE  LET s == SetOf(p, rc)
         IN  \E b \in ShowEntries(ShowBoxes(p, rc, s, blocked), rc, s) :
               \E c \in ShowLists(b, rc, s, blocked) : \E n \in Lookup(c, rc, s, "switch_name") :
                 q = Shown(ShowTarget(c, rc, n, blocked))
  BY DEF Refresh

LEMMA ShownIs ==
  ASSUME NEW p, IsPage(p)
  PROVE  LET q == Shown(p)
         IN  /\ IsPage(q) /\ q.table = p.table /\ q.rows = p.rows /\ q.sel = p.sel
             /\ q.sens = p.sens /\ q.combo = p.combo /\ ~q.fired /\ q.w = p.w
<1> DEFINE q == Shown(p)
<1>1. q = [p EXCEPT !.canDelete = Yes, !.fired = No]
  BY Zenon DEF Shown, Yes, No
<1> HIDE DEF q
<1>2. /\ IsPage(q) /\ q.table = p.table /\ q.rows = p.rows /\ q.sel = p.sel
      /\ q.sens = p.sens /\ q.combo = p.combo /\ q.fired = No /\ q.w = p.w
  BY <1>1 DEF IsPage
<1>3. ~q.fired
  BY <1>2, Zenon DEF No
<1> QED
  BY <1>2, <1>3 DEF q

\* The button rc is shown and nothing is stored but a target that is forgotten.
Quietly(p, rc) == Refresh(p, rc, Yes)

LEMMA RefreshedQuietly ==
  ASSUME NEW p, PageTyped(p), ~p.fired, NEW rc, NEW q \in Quietly(p, rc)
  PROVE  /\ PageTyped(q) /\ ~q.fired /\ q.rows = p.rows /\ q.sel = p.sel /\ Faithful(q, rc)
         /\ Known(p, rc) => \/ q.table = p.table
                            \/ q.table = Forgot(p.table, Place(p, rc))
         /\ ~Known(p, rc) => q = p
<1>1. CASE ~Known(p, rc)
  <2>1. q = p
    BY <1>1 DEF Refresh, Quietly
  <2> QED
    BY <1>1, <2>1 DEF Faithful
<1>2. CASE Known(p, rc)
  <2> DEFINE k == Place(p, rc)
             s == SetOf(p, rc)
             t == Forgot(p.table, k)
             a == Boxes(p, rc, s)
  <2>1. k \in 1..Len(p.table) /\ s = p.table[k].set /\ p.table[k].rawcode = rc
    <3>1. Len(p.table) \in Nat
      BY TableHas DEF PageTyped
    <3> QED
      BY <1>2, <3>1, IndexIs DEF Known, Place, SetOf
  <2>2. Sound(s)
    BY <2>1, TableHas DEF PageTyped
  <2>3. PICK b \in ShowEntries(a, rc, s) : \E c \in Lists(b, rc, s) :
          \E n \in Lookup(c, rc, s, "switch_name") :
            q = Shown(Target(c, rc, n))
    <3>1. q \in Refresh(p, rc, Yes)
      BY DEF Quietly
    <3> QED
      BY <1>2, <3>1, RefreshedBy DEF Boxes, Lists, Target
  <2>4. PICK c \in Lists(b, rc, s) : \E n \in Lookup(c, rc, s, "switch_name") :
            q = Shown(Target(c, rc, n))
    BY <2>3
  <2>5. IsPage(p)
    BY DEF PageTyped
  <2> HIDE DEF s
  <2>6. /\ IsPage(a) /\ Same(p, a) /\ a.sens = s.evtype /\ a.w.enabled = s.enabled
        /\ a.w.switch_type \in CONFIG_SWITCH_NEXT..CONFIG_SWITCH_TO
        /\ s.switch_type # CONFIG_SWITCH_NONE => a.w.switch_type = s.switch_type
    BY <2>2, <2>5, BoxesShown
  <2>7. ~a.fired
    BY <2>6 DEF Same
  <2> HIDE DEF a
  <2>8. /\ IsPage(b) /\ Same(a, b) /\ b.sens = a.sens
        /\ b.w.enabled = a.w.enabled /\ b.w.switch_type = a.w.switch_type
        /\ b.w.name = OrEmpty(s.name) /\ b.w.command = OrEmpty(s.command)
        /\ b.w.keycode = OrNone(s.keycode) /\ b.w.delay = s.delay /\ b.w.uid = s.uid
    BY <2>3, <2>6, <2>7, EntriesShown
  <2>9. ~b.fired
    BY <2>7, <2>8 DEF Same
  <2>10. /\ IsPage(c) /\ Same(b, c) /\ c.sens = b.sens
         /\ c.w.enabled = b.w.enabled /\ c.w.switch_type = b.w.switch_type
         /\ c.w.name = b.w.name /\ c.w.command = b.w.command /\ c.w.keycode = b.w.keycode
         /\ c.w.delay = b.w.delay /\ c.w.uid = b.w.uid
         /\ c.w.mod = s.mod /\ c.w.evtype = s.evtype
    BY <2>2, <2>4, <2>8, <2>9, ListsShown
  <2>11. ~c.fired /\ Same(p, c)
    BY <2>6, <2>8, <2>9, <2>10 DEF Same
  <2> DEFINE d == Target(c, rc, s.switch_name)
  <2>12. q = Shown(d)
    <3>1. PICK n \in Lookup(c, rc, s, "switch_name") :
            q = Shown(Target(c, rc, n))
      BY <2>4
    <3>2. n = s.switch_name
      BY <2>11 DEF Lookup
    <3> QED
      BY <3>1, <3>2
  <2>13. Place(c, rc) = k /\ SetOf(c, rc) = s /\ Known(c, rc)
    BY <1>2, <2>11 DEF Same, Place, SetOf, Known, s
  <2>14. c.combo = p.combo /\ c.table = p.table /\ SoundTable(p.table)
         /\ p.combo \in Seq(AllNames \cup {NONE})
    BY <2>11 DEF Same, PageTyped
  <2>15. Null \notin Range(p.combo) /\ p.combo \in Seq(Range(p.combo))
    <3>1. Null \notin AllNames \cup {NONE}
      BY RcOK, ConstantsOK DEF AllNames
    <3>2. /\ DOMAIN p.combo = 1..Len(p.combo) /\ Len(p.combo) \in Nat
          /\ p.combo = [i \in 1..Len(p.combo) |-> p.combo[i]]
          /\ \A i \in 1..Len(p.combo) : p.combo[i] \in AllNames \cup {NONE}
      BY <2>14
    <3>3. \A i \in 1..Len(p.combo) : p.combo[i] \in Range(p.combo)
      BY <3>2 DEF Range
    <3> QED
      BY <3>1, <3>2, <3>3 DEF Range
  <2>16. /\ IsPage(d) /\ d.rows = c.rows /\ d.sel = c.sel /\ d.combo = c.combo
         /\ d.fired = c.fired /\ d.sens = c.sens
         /\ \A g \in Fields : g # "switch_name" => d.w[g] = c.w[g]
         /\ \/ d.table = p.table
                 /\ (s.switch_name # NONE => d.w.switch_name = s.switch_name)
            \/ d.table = t
    <3>1. /\ SoundTable(c.table) /\ Known(c, rc) /\ Null \notin Range(c.combo)
          /\ c.combo \in Seq(Range(c.combo))
      BY <2>13, <2>14, <2>15
    <3>2. /\ IsPage(d) /\ d.rows = c.rows /\ d.sel = c.sel /\ d.combo = c.combo
          /\ d.fired = c.fired /\ d.sens = c.sens
          /\ \A g \in Fields : g # "switch_name" => d.w[g] = c.w[g]
          /\ \/ d.table = c.table
                  /\ (s.switch_name # NONE => d.w.switch_name = s.switch_name)
             \/ d.table = Forgot(c.table, Place(c, rc))
      <4> HIDE DEF t, k
      <4>1. SetOf(c, rc) = s /\ IsPage(c)
        BY <2>10, <2>13
      <4> QED
        BY <3>1, <4>1, TargetShown
    <3> QED
      BY <2>13, <2>14, <3>2
  <2> HIDE DEF d
  <2>18. /\ IsPage(q) /\ q.table = d.table /\ q.rows = d.rows /\ q.sel = d.sel
         /\ q.sens = d.sens /\ q.combo = d.combo /\ ~q.fired /\ q.w = d.w
    BY <2>12, <2>16, ShownIs
  <2>19. /\ q.w.enabled = s.enabled /\ q.w.delay = s.delay /\ q.w.uid = s.uid
         /\ q.w.evtype = s.evtype /\ q.w.mod = s.mod
         /\ q.w.name = OrEmpty(s.name) /\ q.w.command = OrEmpty(s.command)
         /\ q.w.keycode = OrNone(s.keycode)
         /\ q.w.switch_type \in CONFIG_SWITCH_NEXT..CONFIG_SWITCH_TO
         /\ s.switch_type # CONFIG_SWITCH_NONE => q.w.switch_type = s.switch_type
    BY <2>6, <2>8, <2>10, <2>16, <2>18, FieldsAre
  <2>20. /\ IsSet(s) /\ s.evtype \in EVTYPE_KEY..EVTYPE_COMMAND
         /\ s.keycode \in Keycodes /\ s.mod \in Mods /\ s.delay \in Ints /\ s.uid \in Ints
    BY <2>2, SoundIs
  <2>21. FieldsOK(q.w)
    BY <2>19, <2>20, RcOK DEF FieldsOK, OrEmpty, OrNone
  <2>22. /\ SoundTable(t) /\ IndexOf(t, rc) = k
         /\ t[k].set = [s EXCEPT !.switch_name = NONE]
    <3> DEFINE e == [s EXCEPT !.switch_name = NONE]
               v == [p.table EXCEPT ![k].set = e]
    <3> HIDE DEF k
    <3>1. t = v /\ Sound(e)
      <4> DEFINE f == [p.table[k].set EXCEPT !.switch_name = NONE]
      <4>1. e = f
        BY <2>1
      <4>2. Forgot(p.table, k) = [p.table EXCEPT ![k].set = f] /\ Sound(f)
        BY <2>1, <2>14, SoundForgot
      <4> HIDE DEF e, f
      <4> QED
        BY <4>1, <4>2
    <3> HIDE DEF e
    <3>2. /\ SoundTable(v) /\ Len(v) = Len(p.table) /\ v[k].set = e
          /\ v[k].rawcode = p.table[k].rawcode
      BY <2>1, <2>14, <3>1, SoundStored
    <3> HIDE DEF v, t
    <3>3. IndexOf(v, v[k].rawcode) = k
      BY <2>1, <3>2, TableHas
    <3> QED
      BY <2>1, <3>1, <3>2, <3>3 DEF e
  <2> HIDE DEF t, k
  <2>23. ASSUME NEW e, e = s \/ e = [s EXCEPT !.switch_name = NONE]
         PROVE  /\ e.enabled = s.enabled /\ e.delay = s.delay /\ e.uid = s.uid
                /\ e.evtype = s.evtype /\ e.mod = s.mod /\ e.name = s.name
                /\ e.command = s.command /\ e.keycode = s.keycode
                /\ e.switch_type = s.switch_type
                /\ e.switch_name # NONE => e = s
    BY <2>20, <2>23 DEF IsSet
  <2>24. /\ SoundTable(q.table) /\ SetOf(q, rc) \in {s, [s EXCEPT !.switch_name = NONE]}
         /\ SetOf(q, rc).switch_name # NONE => q.w.switch_name = SetOf(q, rc).switch_name
    <3>1. CASE d.table = p.table /\ (s.switch_name # NONE => d.w.switch_name = s.switch_name)
      <4>1. SetOf(q, rc) = s
        BY <2>1, <2>18, <3>1 DEF SetOf, Place, k
      <4> QED
        BY <2>14, <2>18, <3>1, <4>1
    <3>2. CASE d.table = t
      <4>1. SetOf(q, rc) = [s EXCEPT !.switch_name = NONE]
        BY <2>18, <2>22, <3>2 DEF SetOf, Place
      <4>2. [s EXCEPT !.switch_name = NONE].switch_name = NONE
        BY <2>20 DEF IsSet
      <4> QED
        BY <2>18, <2>22, <3>2, <4>1, <4>2
    <3> QED
      BY <2>16, <3>1, <3>2
  <2>25. PageTyped(q)
    BY <2>14, <2>16, <2>18, <2>21, <2>24 DEF PageTyped
  <2>26. Faithful(q, rc)
    <3> DEFINE e == SetOf(q, rc)
               w == Stored(q.w)
    <3>1. /\ e.enabled = s.enabled /\ e.delay = s.delay /\ e.uid = s.uid
          /\ e.evtype = s.evtype /\ e.mod = s.mod /\ e.name = s.name
          /\ e.command = s.command /\ e.keycode = s.keycode
          /\ e.switch_type = s.switch_type
      BY <2>23, <2>24
    <3>2. e.switch_name # NONE => q.w.switch_name = e.switch_name
      BY <2>24
    <3> HIDE DEF e
    <3>3. q.sens = e.evtype /\ q.w.evtype = e.evtype
      BY <2>6, <2>8, <2>10, <2>16, <2>18, <2>19, <3>1
    <3>4. ASSUME ~Refused(q.w)
          PROVE  Shows(w, e)
      <4>1. q.w.delay \in Nat /\ q.w.uid \in Nat
        BY <3>4 DEF Refused, IsNumber
      <4>2. IntOf(q.w.delay) = q.w.delay /\ IntOf(q.w.uid) = q.w.uid
        BY <2>19, <2>20, <4>1, IntOfIs
      <4>3. /\ w.delay = IntOf(q.w.delay) /\ w.uid = IntOf(q.w.uid)
            /\ \A f \in Fields \ {"delay", "uid"} : w[f] = q.w[f]
        BY <2>18, StoredIs DEF IsPage
      <4> HIDE DEF w
      <4>4. /\ w.name = q.w.name /\ w.enabled = q.w.enabled /\ w.evtype = q.w.evtype
            /\ w.keycode = q.w.keycode /\ w.mod = q.w.mod /\ w.command = q.w.command
            /\ w.switch_type = q.w.switch_type /\ w.switch_name = q.w.switch_name
        BY <4>3, FieldsAre
      <4>5. OrNone(s.mod) = s.mod
        BY <2>20, RcOK DEF OrNone
      <4> QED
        BY <2>19, <3>1, <3>2, <4>2, <4>3, <4>4, <4>5 DEF Shows
    <3> QED
      BY <3>3, <3>4 DEF Faithful, e, w
  <2>27. q.rows = p.rows /\ q.sel = p.sel
    BY <2>11, <2>16, <2>18 DEF Same
  <2> QED
    BY <1>2, <2>16, <2>18, <2>25, <2>26, <2>27 DEF t, k
<1> QED
  BY <1>1, <1>2
-----------------------------------------------------------------------------
(* Storing the fields: config_update_button_properties. *)

LEMMA KnownIs ==
  ASSUME NEW p, SoundTable(p.table), NEW rc, Known(p, rc)
  PROVE  /\ Place(p, rc) \in 1..Len(p.table) /\ SetOf(p, rc) = p.table[Place(p, rc)].set
         /\ p.table[Place(p, rc)].rawcode = rc /\ Sound(SetOf(p, rc))
<1>1. Len(p.table) \in Nat
  BY TableHas
<1>2. /\ Place(p, rc) \in 1..Len(p.table) /\ SetOf(p, rc) = p.table[Place(p, rc)].set
      /\ p.table[Place(p, rc)].rawcode = rc
  BY <1>1, IndexIs DEF Known, Place, SetOf
<1> QED
  BY <1>2, TableHas

\* What is stored is sound, and what was stored is shown.
LEMMA StoredIsSound ==
  ASSUME NEW w, IsSet(w), FieldsOK(w), ~Refused(w)
  PROVE  Sound(Stored(w)) /\ Shows(Stored(w), Stored(w)) /\ Stored(w).evtype = w.evtype
<1> DEFINE z == Stored(w)
<1>1. w.delay \in Nat /\ w.uid \in Nat /\ w.keycode \in Keycodes
  BY DEF Refused, IsNumber
<1>2. /\ IsSet(z) /\ z.delay = IntOf(w.delay) /\ z.uid = IntOf(w.uid)
      /\ \A f \in Fields \ {"delay", "uid"} : z[f] = w[f]
  BY StoredIs
<1> HIDE DEF z
<1>3. /\ z.name = w.name /\ z.evtype = w.evtype /\ z.keycode = w.keycode /\ z.mod = w.mod
      /\ z.command = w.command /\ z.switch_type = w.switch_type
  BY <1>2, FieldsAre
<1>4. z.delay \in Ints /\ z.uid \in Ints
  BY <1>1, <1>2, IntOfIs
<1>5. z.switch_type \in CONFIG_SWITCH_NONE..CONFIG_SWITCH_TO
  BY <1>3 DEF FieldsOK, CONFIG_SWITCH_NONE, CONFIG_SWITCH_NEXT, CONFIG_SWITCH_TO
<1>6. Sound(z)
  BY <1>1, <1>2, <1>3, <1>4, <1>5, SoundIs DEF FieldsOK
<1>7. Shows(z, z)
  BY <1>1, <1>3, RcOK DEF FieldsOK, Shows, OrEmpty, OrNone
<1> QED
  BY <1>3, <1>6, <1>7 DEF z

LEMMA Updated ==
  ASSUME NEW p, PageTyped(p), NEW rc, TreeOK(p, rc)
  PROVE  LET u == Update(p, rc)
         IN  /\ PageTyped(u) /\ TreeOK(u, rc) /\ u.fired = p.fired /\ u.sens = p.sens
             /\ u.w.evtype = p.w.evtype /\ (Known(u, rc) <=> Known(p, rc))
             /\ Refused(u.w) => u.table = p.table
             /\ Known(p, rc) /\ ~Refused(u.w) => /\ Shows(Stored(u.w), SetOf(u, rc))
                                                 /\ SetOf(u, rc).evtype = u.w.evtype
             /\ ~Refused(p.w) => ~Refused(u.w)
<1> DEFINE u == Update(p, rc)
           k == Place(p, rc)
           c == IF p.w.keycode = Empty THEN NONE ELSE p.w.keycode
           w == [p.w EXCEPT !.keycode = c]
           a == [p EXCEPT !.w = w]
           z == Stored(w)
           t == [p.table EXCEPT ![k].set = z]
           b == [p EXCEPT !.w = w, !.table[k].set = z]
<1>1. IsPage(p) /\ IsSet(p.w) /\ FieldsOK(p.w) /\ SoundTable(p.table)
  BY DEF PageTyped, IsPage
<1>2. c # Null
  BY <1>1, RcOK DEF FieldsOK
<1>3. /\ IsSet(w) /\ w.keycode = c /\ w.delay = p.w.delay /\ w.uid = p.w.uid
      /\ w.evtype = p.w.evtype /\ FieldsOK(w)
  <2> HIDE DEF c
  <2>1. "keycode" \in Fields
    BY FieldsAre
  <2>2. /\ IsSet(w) /\ w["keycode"] = c
        /\ \A g \in Fields : g # "keycode" => w[g] = p.w[g]
    BY <1>1, <2>1, FieldSet
  <2> HIDE DEF w
  <2> QED
    BY <1>1, <1>2, <2>2, FieldsAre DEF FieldsOK
<1>4. Update(p, rc) = IF ~Known(p, rc) \/ ~IsNumber(w.delay) \/ ~IsNumber(w.uid) THEN p
                      ELSE IF w.keycode \notin Keycodes THEN a
                      ELSE RowUpdated(b, rc)
  BY Zenon DEF Update, w, c, a, b, z, k
<1>5. CASE ~Known(p, rc) \/ ~IsNumber(w.delay) \/ ~IsNumber(w.uid)
  <2>1. u = p
    BY <1>4, <1>5
  <2>2. ~Known(p, rc) \/ Refused(p.w)
    BY <1>3, <1>5 DEF Refused
  <2> HIDE DEF u
  <2> QED
    BY <2>1, <2>2 DEF u
<1>6. CASE Known(p, rc) /\ IsNumber(w.delay) /\ IsNumber(w.uid) /\ w.keycode \notin Keycodes
  <2>1. u = a
    BY <1>4, <1>6
  <2>2. IsPage(a) /\ Same(p, a) /\ a.sens = p.sens /\ a.w = w
    <3> HIDE DEF w
    <3> QED
      BY <1>1, <1>3, WithFields
  <2> HIDE DEF a, u, w
  <2>3. Refused(u.w)
    BY <1>6, <2>1, <2>2 DEF Refused
  <2>4. PageTyped(u)
    BY <1>1, <1>3, <2>1, <2>2 DEF PageTyped, Same
  <2>5. TreeOK(u, rc)
    BY <2>1, <2>2 DEF TreeOK, Same
  <2>6. Refused(p.w)
    BY <1>3, <1>6, RcOK DEF Refused, c
  <2>7. Known(u, rc) <=> Known(p, rc)
    BY <2>1, <2>2 DEF Known, Place, Same
  <2> QED
    BY <1>3, <2>1, <2>2, <2>3, <2>4, <2>5, <2>6, <2>7 DEF Same, u
<1>7. CASE Known(p, rc) /\ IsNumber(w.delay) /\ IsNumber(w.uid) /\ w.keycode \in Keycodes
  <2>1. u = RowUpdated(b, rc)
    BY <1>4, <1>7
  <2>2. k \in 1..Len(p.table) /\ p.table[k].rawcode = rc
    BY <1>1, <1>7, KnownIs
  <2>3. ~Refused(w)
    BY <1>7 DEF Refused
  <2>4. Sound(z) /\ Shows(z, z) /\ z.evtype = w.evtype
    <3> HIDE DEF w
    <3> QED
      BY <1>3, <2>3, StoredIsSound
  <2> HIDE DEF w, k, z
  <2>5. /\ SoundTable(t) /\ Len(t) = Len(p.table) /\ t[k].set = z
        /\ t[k].rawcode = rc
    BY <1>1, <2>2, <2>4, SoundStored
  <2>6. IndexOf(t, rc) = k
    BY <2>2, <2>5, TableHas
  <2>7. b = [p EXCEPT !.w = w, !.table = t]
    BY <1>1 DEF IsPage
  <2> DEFINE r == [p.rows EXCEPT ![k] = t[k]]
  <2>8. RowsShow(p.table, p.rows)
    BY DEF TreeOK
  <2>9. RowsShow(t, r)
    BY <1>1, <2>2, <2>4, <2>8, RowsStored
  <2>10. IndexOf(p.rows, rc) = k
    <3>1. IndexOf(p.table, rc) = k
      BY DEF k, Place
    <3> QED
      BY <1>1, <2>8, <3>1, RowsHave
  <2> HIDE DEF t
  <2>11. /\ IsPage(b) /\ b.w = w /\ b.table = t /\ b.rows = p.rows /\ b.combo = p.combo
         /\ b.fired = p.fired /\ b.sens = p.sens
    BY <1>1, <1>3, <2>7 DEF IsPage
  <2> HIDE DEF b
  <2>12. Place(b, rc) = k /\ IndexOf(b.rows, rc) = k
    BY <2>6, <2>10, <2>11 DEF Place
  <2>13. u = [b EXCEPT !.rows = r, !.sel = k]
    <3>1. k # 0
      BY <2>2
    <3>2. RowUpdated(b, rc) = [b EXCEPT !.rows[k] = b.table[k], !.sel = k]
      BY <2>12, <3>1 DEF RowUpdated
    <3>3. b.table[k] = t[k] /\ b.rows = p.rows
      BY <2>11
    <3>4. [b EXCEPT !.rows[k] = b.table[k], !.sel = k] = [b EXCEPT !.rows = r, !.sel = k]
      BY <2>11, <3>3 DEF IsPage
    <3> QED
      BY <2>1, <3>2, <3>4
  <2> HIDE DEF u, r
  <2>14. /\ IsPage(u) /\ u.w = w /\ u.table = t /\ u.rows = r /\ u.combo = p.combo
         /\ u.fired = p.fired /\ u.sens = p.sens /\ u.sel = k
    BY <2>11, <2>13 DEF IsPage
  <2>15. PageTyped(u)
    BY <1>3, <2>5, <2>14 DEF PageTyped
  <2>16. TreeOK(u, rc)
    <3>1. Len(r) = Len(t) /\ r[k].rawcode = t[k].rawcode
      BY <2>2, <2>5, <2>9, RowsHave
    <3> QED
      BY <2>2, <2>5, <2>9, <2>14, <3>1 DEF TreeOK
  <2>17. SetOf(u, rc) = z /\ Known(u, rc)
    BY <2>2, <2>5, <2>6, <2>14 DEF SetOf, Known, Place
  <2> QED
    BY <1>3, <1>7, <2>3, <2>4, <2>14, <2>15, <2>16, <2>17 DEF u, z
<1> QED
  BY <1>5, <1>6, <1>7

\* Storing leaves the page right if it has shown the button's event type.
LEMMA UpdatedRight ==
  ASSUME NEW p, PageTyped(p), ~p.fired, NEW rc, TreeOK(p, rc),
         Known(p, rc) => p.sens = SetOf(p, rc).evtype /\ p.w.evtype = SetOf(p, rc).evtype
  PROVE  PageOK(Update(p, rc), rc)
<1> DEFINE u == Update(p, rc)
<1>1. /\ PageTyped(u) /\ TreeOK(u, rc) /\ u.fired = p.fired /\ u.sens = p.sens
      /\ u.w.evtype = p.w.evtype /\ (Known(u, rc) <=> Known(p, rc))
      /\ Refused(u.w) => u.table = p.table
      /\ Known(p, rc) /\ ~Refused(u.w) => /\ Shows(Stored(u.w), SetOf(u, rc))
                                          /\ SetOf(u, rc).evtype = u.w.evtype
  BY Updated
<1> HIDE DEF u
<1>2. ~u.fired
  BY <1>1
<1>3. Refused(u.w) => SetOf(u, rc) = SetOf(p, rc)
  BY <1>1 DEF SetOf, Place
<1>4. Faithful(u, rc)
  BY <1>1, <1>3 DEF Faithful
<1> QED
  BY <1>1, <1>2, <1>4 DEF PageOK, u

\* What is left of a page when the button rc is shown.
LEMMA RefreshedRight ==
  ASSUME NEW p, PageTyped(p), ~p.fired, NEW rc, NEW q \in Quietly(p, rc)
  PROVE  /\ TreeOK(p, rc) => PageOK(q, rc)
         /\ PageOK(Replaced(q), rc)
         /\ Len(q.table) = Len(p.table)
         /\ \A i \in 1..Len(p.table) : ShowsAs(q.table[i], p.table[i])
<1>1. /\ PageTyped(q) /\ ~q.fired /\ q.rows = p.rows /\ q.sel = p.sel /\ Faithful(q, rc)
      /\ Known(p, rc) => \/ q.table = p.table
                         \/ q.table = Forgot(p.table, Place(p, rc))
      /\ ~Known(p, rc) => q = p
  BY RefreshedQuietly
<1>2. SoundTable(p.table)
  BY DEF PageTyped
<1>3. /\ Len(q.table) = Len(p.table) /\ \A i \in 1..Len(p.table) : ShowsAs(q.table[i], p.table[i])
      /\ \A r : RowsShow(p.table, r) => RowsShow(q.table, r)
  <2>1. CASE q.table = p.table
    BY <2>1 DEF ShowsAs
  <2>2. CASE Known(p, rc) /\ q.table = Forgot(p.table, Place(p, rc))
    <3> DEFINE k == Place(p, rc)
    <3>1. k \in 1..Len(p.table)
      BY <1>2, <2>2, KnownIs
    <3> HIDE DEF k
    <3>2. ASSUME NEW r, RowsShow(p.table, r)
          PROVE  RowsShow(Forgot(p.table, k), r)
      BY <1>2, <3>1, <3>2, RowsForgot
    <3>3. RowsShow(p.table, p.table)
      BY <1>2, RowsReplaced
    <3>4. /\ Len(Forgot(p.table, k)) = Len(p.table)
          /\ \A i \in 1..Len(p.table) : ShowsAs(Forgot(p.table, k)[i], p.table[i])
      BY <1>2, <3>1, <3>3, RowsForgot
    <3> QED
      BY <2>2, <3>2, <3>4 DEF k
  <2> QED
    BY <1>1, <2>1, <2>2
<1>4. TreeOK(p, rc) => PageOK(q, rc)
  BY <1>1, <1>3 DEF TreeOK, PageOK
<1>5. PageOK(Replaced(q), rc)
  <2> DEFINE z == Replaced(q)
  <2>1. /\ IsPage(z) /\ z.w = q.w /\ z.table = q.table /\ z.rows = q.table /\ z.sel = 0
        /\ z.combo = q.combo /\ z.fired = q.fired /\ z.sens = q.sens
    BY <1>1 DEF PageTyped, IsPage, Replaced
  <2> HIDE DEF z
  <2>2. RowsShow(z.table, z.rows) /\ Len(z.rows) \in Nat
    BY <1>1, <2>1, RowsReplaced, TableHas DEF PageTyped
  <2>3. TreeOK(z, rc)
    BY <2>1, <2>2 DEF TreeOK
  <2>4. PageTyped(z)
    BY <1>1, <2>1 DEF PageTyped
  <2>5. Known(z, rc) = Known(q, rc) /\ SetOf(z, rc) = SetOf(q, rc)
    BY <2>1 DEF Known, SetOf, Place
  <2>6. Faithful(z, rc)
    BY <1>1, <2>1, <2>5 DEF Faithful
  <2> QED
    BY <1>1, <2>1, <2>3, <2>4, <2>6 DEF PageOK, z
<1> QED
  BY <1>3, <1>4, <1>5

\* Showing the button changes no box, radio button or list: nothing is stored.
LEMMA QuietAll ==
  ASSUME NEW p, NEW rc, Quiet(p, rc), NEW x \in RefreshAll(p, rc)
  PROVE  \E q \in Quietly(p, rc) : x = Replaced(q)
<1>1. \A q \in Refresh(p, rc, No) : q \in Refresh(p, rc, Yes)
  BY Zenon DEF Quiet, No, Yes
<1>2. x \in {Replaced(q) : q \in Refresh(p, rc, No)}
  BY Zenon DEF RefreshAll, No
<1> QED
  BY <1>1, <1>2 DEF Quietly

LEMMA ShownQuietly ==
  ASSUME NEW p, PageTyped(p), ~p.fired, NEW rc, Quiet(p, rc), NEW x \in RefreshAll(p, rc)
  PROVE  /\ PageOK(x, rc)
         /\ Len(x.table) = Len(p.table)
         /\ \A i \in 1..Len(p.table) : ShowsAs(x.table[i], p.table[i])
<1>1. PICK q \in Quietly(p, rc) : x = Replaced(q)
  BY QuietAll
<1>2. /\ PageOK(Replaced(q), rc) /\ Len(q.table) = Len(p.table)
      /\ \A i \in 1..Len(p.table) : ShowsAs(q.table[i], p.table[i])
  BY RefreshedRight
<1>3. Replaced(q).table = q.table
  <2>1. IsPage(q)
    BY RefreshedQuietly DEF PageTyped
  <2> QED
    BY <2>1 DEF IsPage, Replaced
<1> QED
  BY <1>1, <1>2, <1>3

\* A page is changed in one place.
LEMMA WithTable ==
  ASSUME NEW p, IsPage(p), NEW x, NEW q, q = [p EXCEPT !.table = x]
  PROVE  /\ IsPage(q) /\ q.table = x /\ q.rows = p.rows /\ q.sel = p.sel /\ q.combo = p.combo
         /\ q.fired = p.fired /\ q.sens = p.sens /\ q.w = p.w
  BY DEF IsPage

LEMMA WithSel ==
  ASSUME NEW p, IsPage(p), NEW x, NEW q, q = [p EXCEPT !.sel = x]
  PROVE  /\ IsPage(q) /\ q.table = p.table /\ q.rows = p.rows /\ q.sel = x /\ q.combo = p.combo
         /\ q.fired = p.fired /\ q.sens = p.sens /\ q.w = p.w
  BY DEF IsPage

LEMMA WithCombo ==
  ASSUME NEW p, IsPage(p), NEW x, NEW q, q = [p EXCEPT !.combo = x]
  PROVE  /\ IsPage(q) /\ q.table = p.table /\ q.rows = p.rows /\ q.sel = p.sel /\ q.combo = x
         /\ q.fired = p.fired /\ q.sens = p.sens /\ q.w = p.w
  BY DEF IsPage

LEMMA WithFired ==
  ASSUME NEW p, IsPage(p), NEW x, NEW q, q = [p EXCEPT !.fired = x]
  PROVE  /\ IsPage(q) /\ q.table = p.table /\ q.rows = p.rows /\ q.sel = p.sel
         /\ q.combo = p.combo /\ q.fired = x /\ q.sens = p.sens /\ q.w = p.w
  BY DEF IsPage

LEMMA PageSame ==
  ASSUME NEW p, NEW q, NEW rc, q.table = p.table
  PROVE  /\ Known(q, rc) <=> Known(p, rc)
         /\ Place(q, rc) = Place(p, rc) /\ SetOf(q, rc) = SetOf(p, rc)
  BY DEF Known, Place, SetOf

-----------------------------------------------------------------------------
(* What the user does. *)

\* tree_config_cursor_changed
LEMMA SelectRight ==
  ASSUME EditorInv, NEW r, Select(r)
  PROVE  /\ PageOK(page', edit') /\ edit' \in Nat
         /\ Len(page'.table) = Len(page.table)
         /\ \A i \in 1..Len(page.table) : ShowsAs(page'.table[i], page.table[i])
<1> DEFINE rc == page.rows[r].rawcode
           p == [page EXCEPT !.sel = r]
<1>1. /\ PageTyped(page) /\ ~page.fired /\ TreeOK(page, edit) /\ Faithful(page, edit)
      /\ SoundTable(page.table) /\ RowsShow(page.table, page.rows) /\ IsPage(page)
  BY DEF EditorInv, PageOK, PageTyped, TreeOK
<1>2. /\ r \in 1..Len(page.rows) /\ Len(page.rows) \in Nat
      /\ IF rc = edit \/ ~Known(p, rc) THEN page' = p /\ UNCHANGED edit
         ELSE edit' = rc /\ page' \in Quietly(p, rc)
  <2>1. IF rc = edit \/ ~Known(p, rc) THEN page' = p /\ UNCHANGED edit
        ELSE edit' = rc /\ page' \in Quietly(p, rc)
    BY Zenon DEF Select, Quietly, Yes
  <2> QED
    BY <1>1, <2>1, RowsHave DEF Select
<1>3. /\ IsPage(p) /\ p.table = page.table /\ p.rows = page.rows /\ p.sel = r
      /\ p.combo = page.combo /\ p.fired = page.fired /\ p.sens = page.sens /\ p.w = page.w
  BY <1>1, WithSel
<1>4. rc \in Rawcodes /\ IndexOf(page.table, rc) = r /\ r \in 1..Len(page.table)
  BY <1>1, <1>2, RowsHave, TableHas
<1> HIDE DEF p
<1>5. Known(p, rc)
  BY <1>2, <1>3, <1>4 DEF Known, Place
<1>6. PageTyped(p)
  BY <1>1, <1>3 DEF PageTyped
<1>7. TreeOK(p, rc)
  BY <1>1, <1>2, <1>3 DEF TreeOK
<1> HIDE DEF rc
<1>8. CASE rc = edit
  <2>1. page' = p /\ edit' = edit
    BY <1>2, <1>8
  <2>2. Faithful(p, edit)
    BY <1>1, <1>3, PageSame DEF Faithful
  <2>3. PageOK(page', edit') /\ edit' \in Nat
    BY <1>1, <1>3, <1>6, <1>7, <1>8, <2>1, <2>2 DEF PageOK, EditorInv
  <2>4. page'.table = page.table
    BY <1>3, <2>1
  <2> QED
    BY <2>3, <2>4 DEF ShowsAs
<1>9. CASE rc # edit
  <2>1. edit' = rc /\ page' \in Quietly(p, rc)
    BY <1>2, <1>5, <1>9
  <2>2. /\ PageOK(page', rc) /\ Len(page'.table) = Len(p.table)
        /\ \A i \in 1..Len(p.table) : ShowsAs(page'.table[i], p.table[i])
    BY <1>1, <1>3, <1>6, <1>7, <2>1, RefreshedRight
  <2> QED
    BY <1>3, <1>4, <2>1, <2>2, RcOK
<1> QED
  BY <1>8, <1>9

\* Whether a callback has run says nothing about the page.
LEMMA FiredRight ==
  ASSUME NEW p, NEW rc, PageOK(p, rc), NEW q,
         IsPage(q), q.table = p.table, q.rows = p.rows, q.sel = p.sel, q.combo = p.combo,
         ~q.fired, q.sens = p.sens, q.w = p.w
  PROVE  PageOK(q, rc)
<1>1. PageTyped(q)
  BY DEF PageTyped, PageOK
<1>2. TreeOK(q, rc)
  BY DEF TreeOK, PageOK
<1>3. Faithful(q, rc)
  BY PageSame DEF Faithful, PageOK
<1> QED
  BY <1>1, <1>2, <1>3 DEF PageOK

\* A text is typed into an entry.
LEMMA TypeRight ==
  ASSUME EditorInv, NEW f, NEW v, Type(f, v)
  PROVE  PageOK(page', edit')
<1> DEFINE w == [page.w EXCEPT ![f] = v]
           q == [page EXCEPT !.w[f] = v]
<1>1. /\ PageTyped(page) /\ ~page.fired /\ TreeOK(page, edit) /\ Faithful(page, edit)
      /\ SoundTable(page.table) /\ IsPage(page) /\ FieldsOK(page.w) /\ IsSet(page.w)
  BY DEF EditorInv, PageOK, PageTyped, TreeOK, IsPage
<1>2. /\ f \in {"name", "command", "keycode", "delay", "uid"} /\ v \in Typable[f]
      /\ page' = Update(q, edit) /\ edit' = edit
  BY DEF Type, Offers, Texts
<1>3. f \in Fields
  BY <1>2, FieldsAre
<1>4. /\ IsSet(w) /\ w[f] = v /\ \A g \in Fields : g # f => w[g] = page.w[g]
  BY <1>1, <1>3, FieldSet
<1>5. q = [page EXCEPT !.w = w]
  BY <1>1 DEF IsPage
<1> HIDE DEF q, w
<1>6. IsPage(q) /\ Same(page, q) /\ q.sens = page.sens /\ q.w = w
  BY <1>1, <1>4, <1>5, WithFields
<1>7. f \in Texts => v # Null
  BY <1>2, InputsOK
<1>8. FieldsOK(w) /\ w.evtype = page.w.evtype
  <2>1. /\ w.mod = page.w.mod /\ w.evtype = page.w.evtype
        /\ w.switch_type = page.w.switch_type
    BY <1>2, <1>4, FieldsAre
  <2>2. w.name # Null /\ w.command # Null /\ w.keycode # Null
    BY <1>1, <1>2, <1>4, <1>7, FieldsAre DEF FieldsOK, Texts
  <2> QED
    BY <1>1, <2>1, <2>2 DEF FieldsOK
<1>9. PageTyped(q)
  BY <1>1, <1>6, <1>8 DEF PageTyped, Same
<1>10. TreeOK(q, edit) /\ ~q.fired
  BY <1>1, <1>6 DEF TreeOK, Same
<1>11. Known(q, edit) => q.sens = SetOf(q, edit).evtype /\ q.w.evtype = SetOf(q, edit).evtype
  BY <1>1, <1>6, <1>8, PageSame DEF Faithful, Same
<1> QED
  BY <1>2, <1>9, <1>10, <1>11, UpdatedRight

\* The fields are stored at once when a list, a box or a radio button changes.
Clicked(p, rc, f, v) == Signalled(p, rc, f, v, No)
Fired(p) == [p EXCEPT !.fired = Yes]
Still(p) == [p EXCEPT !.fired = No]

LEMMA ClickedIs ==
  ASSUME NEW p, IsPage(p), NEW rc, NEW f \in Fields, NEW v, p.w[f] # v
  PROVE  \E q : /\ IsPage(q) /\ Same(p, q) /\ q.sens = p.sens /\ IsSet(q.w)
                /\ q.w[f] = v /\ \A g \in Fields : g # f => q.w[g] = p.w[g]
                /\ LET u == Fired(Update(q, rc))
                   IN  Clicked(p, rc, f, v) =
                         IF f = "evtype" THEN EventFields(u, EventOf(u, rc)) ELSE u
<1> DEFINE w == [p.w EXCEPT ![f] = v]
           x == v = CONFIG_SWITCH_TO
           a == [p EXCEPT !.w[f] = v]
           b == [p EXCEPT !.w[f] = v, !.toSens = x]
           q == IF f = "switch_type" THEN b ELSE a
           u == Fired(Update(q, rc))
<1>1. IsSet(w)
  BY FieldSet DEF IsPage
<1>2. a = [p EXCEPT !.w = w] /\ b = [p EXCEPT !.w = w, !.toSens = x]
  <2> HIDE DEF x
  <2> QED
    BY DEF IsPage
<1>3. Clicked(p, rc, f, v) = IF f = "evtype" THEN EventFields(u, EventOf(u, rc)) ELSE u
  BY Zenon DEF Clicked, Signalled, No, Yes, Fired, a, b, x, q, u
<1> HIDE DEF x, a, b
<1>4. IsPage(a) /\ Same(p, a) /\ a.sens = p.sens /\ a.w = w
  <2> HIDE DEF w
  <2> QED
    BY <1>1, <1>2, WithFields
<1>5. IsPage(b) /\ Same(p, b) /\ b.sens = p.sens /\ b.w = w
  <2> HIDE DEF w
  <2> QED
    BY <1>1, <1>2 DEF IsPage, Same
<1>6. w[f] = v /\ \A g \in Fields : g # f => w[g] = p.w[g]
  <2>1. p.w = [g \in Fields |-> p.w[g]]
    BY AsIsSet DEF IsPage
  <2> QED
    BY <2>1
<1> HIDE DEF w
<1>7. IsPage(q) /\ Same(p, q) /\ q.sens = p.sens /\ q.w = w
  BY <1>4, <1>5
<1> HIDE DEF q
<1> QED
  BY <1>1, <1>3, <1>6, <1>7

LEMMA StillIs ==
  ASSUME NEW p, IsPage(p)
  PROVE  LET q == Still(p)
         IN  /\ IsPage(q) /\ q.table = p.table /\ q.rows = p.rows /\ q.sel = p.sel
             /\ q.combo = p.combo /\ ~q.fired /\ q.sens = p.sens /\ q.w = p.w
<1> DEFINE q == Still(p)
<1>1. q = [p EXCEPT !.fired = No]
  BY DEF Still
<1> HIDE DEF q
<1>2. /\ IsPage(q) /\ q.table = p.table /\ q.rows = p.rows /\ q.sel = p.sel
      /\ q.combo = p.combo /\ q.fired = No /\ q.sens = p.sens /\ q.w = p.w
  BY <1>1, WithFired
<1>3. ~q.fired
  BY <1>2, Zenon DEF No
<1> QED
  BY <1>2, <1>3 DEF q

\* A box, a radio button or an item of a list is clicked.
LEMMA ClickRight ==
  ASSUME EditorInv, NEW f \in Fields, NEW v, Click(f, v), f = "evtype" => ~Refused(page.w)
  PROVE  PageOK(page', edit')
<1>1. /\ PageTyped(page) /\ ~page.fired /\ TreeOK(page, edit) /\ Faithful(page, edit)
      /\ SoundTable(page.table) /\ IsPage(page) /\ FieldsOK(page.w) /\ IsSet(page.w)
  BY DEF EditorInv, PageOK, PageTyped, TreeOK, IsPage
<1>2. /\ f \in {"enabled", "evtype", "mod", "switch_type", "switch_name"} /\ v \in Offers(f)
      /\ page' = Still(Clicked(page, edit, f, v)) /\ edit' = edit
  <2>1. page' = Still(Clicked(page, edit, f, v))
    BY Zenon DEF Click, Still, Clicked, No
  <2>2. f \notin {"name", "command", "keycode", "delay", "uid"} /\ v \in Offers(f) /\ edit' = edit
    BY DEF Click, Texts
  <2> QED
    BY <2>1, <2>2, FieldsAre
<1>3. CASE page.w[f] = v
  <2>1. Clicked(page, edit, f, v) = page
    BY <1>3, Zenon DEF Clicked, Signalled
  <2>2. page' = Still(page)
    BY <1>2, <2>1
  <2> DEFINE z == Still(page)
  <2>3. /\ IsPage(z) /\ z.table = page.table /\ z.rows = page.rows /\ z.sel = page.sel
        /\ z.combo = page.combo /\ ~z.fired /\ z.sens = page.sens /\ z.w = page.w
    BY <1>1, StillIs
  <2> HIDE DEF z
  <2>4. PageOK(z, edit)
    BY <2>3, FiredRight DEF EditorInv
  <2> QED
    BY <1>2, <2>2, <2>4 DEF z
<1>4. CASE page.w[f] # v
  <2>1. PICK q : /\ IsPage(q) /\ Same(page, q) /\ q.sens = page.sens /\ IsSet(q.w)
                 /\ q.w[f] = v /\ \A g \in Fields : g # f => q.w[g] = page.w[g]
                 /\ LET u == Fired(Update(q, edit))
                    IN  Clicked(page, edit, f, v) =
                          IF f = "evtype" THEN EventFields(u, EventOf(u, edit)) ELSE u
    BY <1>1, <1>4, ClickedIs
  <2> DEFINE a == Update(q, edit)
             u == Fired(a)
  <2>2. FieldsOK(q.w) /\ (f # "evtype" => q.w.evtype = page.w.evtype)
    <3>1. /\ q.w.name = page.w.name /\ q.w.command = page.w.command
          /\ q.w.keycode = page.w.keycode
      BY <1>2, <2>1, FieldsAre
    <3>2. f # "evtype" => q.w.evtype = page.w.evtype
      BY <2>1, FieldsAre
    <3>3. f # "mod" => q.w.mod = page.w.mod
      BY <2>1, FieldsAre
    <3>4. f # "switch_type" => q.w.switch_type = page.w.switch_type
      BY <2>1, FieldsAre
    <3>5. f # "switch_name" => v \in Typable[f]
      BY <1>2 DEF Offers
    <3>6. q.w.mod \in Mods
      BY <1>1, <2>1, <3>3, <3>5, InputsOK DEF FieldsOK
    <3>7. q.w.evtype \in EVTYPE_KEY..EVTYPE_COMMAND
      BY <1>1, <2>1, <3>2, <3>5, InputsOK DEF FieldsOK
    <3>8. q.w.switch_type \in CONFIG_SWITCH_NEXT..CONFIG_SWITCH_TO
      BY <1>1, <2>1, <3>4, <3>5, InputsOK DEF FieldsOK
    <3> QED
      BY <1>1, <3>1, <3>2, <3>6, <3>7, <3>8 DEF FieldsOK
  <2>3. PageTyped(q) /\ TreeOK(q, edit) /\ ~q.fired
    BY <1>1, <2>1, <2>2 DEF PageTyped, TreeOK, Same
  <2>4. /\ PageTyped(a) /\ TreeOK(a, edit) /\ a.sens = q.sens /\ a.w.evtype = q.w.evtype
        /\ (Known(a, edit) <=> Known(q, edit))
        /\ Known(q, edit) /\ ~Refused(a.w) => /\ Shows(Stored(a.w), SetOf(a, edit))
                                              /\ SetOf(a, edit).evtype = a.w.evtype
        /\ ~Refused(q.w) => ~Refused(a.w)
    BY <2>3, Updated
  <2>5. f # "evtype" => PageOK(a, edit)
    <3>1. f # "evtype" /\ Known(q, edit) =>
            q.sens = SetOf(q, edit).evtype /\ q.w.evtype = SetOf(q, edit).evtype
      BY <1>1, <2>1, <2>2, PageSame DEF Faithful, Same
    <3> QED
      BY <2>3, <3>1, UpdatedRight
  <2> HIDE DEF a
  <2>6. /\ IsPage(u) /\ u.table = a.table /\ u.rows = a.rows /\ u.sel = a.sel
        /\ u.combo = a.combo /\ u.sens = a.sens /\ u.w = a.w
    BY <2>4, WithFired DEF PageTyped, Fired
  <2>7. Clicked(page, edit, f, v) =
          IF f = "evtype" THEN EventFields(u, EventOf(u, edit)) ELSE u
    BY <2>1 DEF a
  <2> HIDE DEF u
  <2>10. (Known(u, edit) <=> Known(a, edit)) /\ SetOf(u, edit) = SetOf(a, edit)
    BY <2>6, PageSame
  <2>8. CASE f = "evtype" /\ Known(u, edit)
    <3> DEFINE s == SetOf(a, edit)
               y == EventFields(u, s.evtype)
               z == Still(y)
    <3>1. IsPage(y) /\ Same(u, y) /\ y.sens = s.evtype /\ y.w = u.w
      BY <2>6, EventFieldsAre
    <3>2. /\ IsPage(z) /\ z.table = y.table /\ z.rows = y.rows /\ z.sel = y.sel
          /\ z.combo = y.combo /\ ~z.fired /\ z.sens = y.sens /\ z.w = y.w
      BY <3>1, StillIs
    <3>3. page' = z
      <4>1. EventOf(u, edit) = s.evtype
        BY <2>8, <2>10 DEF EventOf
      <4> QED
        BY <1>2, <2>7, <2>8, <4>1
    <3> HIDE DEF y, z
    <3>4. PageTyped(z) /\ TreeOK(z, edit)
      BY <2>4, <2>6, <3>1, <3>2 DEF PageTyped, TreeOK, Same
    <3>5. ~Refused(q.w)
      <4>1. q.w.delay = page.w.delay /\ q.w.uid = page.w.uid /\ q.w.keycode = page.w.keycode
        BY <2>1, <2>8, FieldsAre
      <4> QED
        BY <2>8, <4>1 DEF Refused
    <3>6. Shows(Stored(a.w), s) /\ s.evtype = a.w.evtype
      BY <2>4, <2>8, <2>10, <3>5
    <3>7. SetOf(z, edit) = s
      BY <2>6, <3>1, <3>2, PageSame DEF Same
    <3> HIDE DEF s
    <3>8. Faithful(z, edit)
      BY <2>6, <3>1, <3>2, <3>6, <3>7 DEF Faithful
    <3> QED
      BY <1>2, <3>2, <3>3, <3>4, <3>8 DEF PageOK
  <2>9. CASE f # "evtype"
    <3> DEFINE z == Still(u)
    <3>1. /\ IsPage(z) /\ z.table = u.table /\ z.rows = u.rows /\ z.sel = u.sel
          /\ z.combo = u.combo /\ ~z.fired /\ z.sens = u.sens /\ z.w = u.w
      BY <2>6, StillIs
    <3>2. page' = z
      BY <1>2, <2>7, <2>9
    <3> HIDE DEF z
    <3>3. PageOK(z, edit)
      BY <2>5, <2>6, <2>9, <3>1, FiredRight
    <3> QED
      BY <1>2, <3>2, <3>3
  <2>11. CASE f = "evtype" /\ ~Known(u, edit)
    <3> DEFINE y == EventFields(u, EventOf(u, edit))
               z == Still(y)
    <3>1. IsPage(y) /\ Same(u, y) /\ y.w = u.w
      BY <2>6, EventFieldsAre
    <3>2. page' = z
      BY <1>2, <2>7, <2>11
    <3> HIDE DEF y
    <3>3. /\ IsPage(z) /\ z.table = y.table /\ z.rows = y.rows /\ z.sel = y.sel
          /\ z.combo = y.combo /\ ~z.fired /\ z.w = y.w
      BY <3>1, StillIs
    <3> HIDE DEF z
    <3>4. PageTyped(z) /\ TreeOK(z, edit)
      BY <2>4, <2>6, <3>1, <3>3 DEF PageTyped, TreeOK, Same
    <3>5. ~Known(z, edit)
      BY <2>11, <3>1, <3>3, PageSame DEF Same
    <3> QED
      BY <1>2, <3>2, <3>3, <3>4, <3>5 DEF PageOK, Faithful
  <2> QED
    BY <2>8, <2>9, <2>11
<1> QED
  BY <1>3, <1>4

\* init_config_button_field
LEMMA NoButtonIs ==
  ASSUME NEW p, PageTyped(p)
  PROVE  LET q == NoButton(p)
         IN  /\ PageTyped(q) /\ Same(p, q)
<1> DEFINE w(e) == [p.w EXCEPT !.enabled = e, !.name = Empty, !.command = Empty,
                               !.delay = 0, !.uid = 0, !.keycode = NONE, !.mod = NONE,
                               !.evtype = EVTYPE_KEY]
           a == [p EXCEPT !.w.enabled = FALSE, !.w.name = Empty, !.w.command = Empty,
                          !.w.delay = 0, !.w.uid = 0, !.w.keycode = NONE, !.w.mod = NONE,
                          !.w.evtype = EVTYPE_KEY, !.canDelete = FALSE]
           b == [p EXCEPT !.w.enabled = No, !.w.name = Empty, !.w.command = Empty,
                          !.w.delay = 0, !.w.uid = 0, !.w.keycode = NONE, !.w.mod = NONE,
                          !.w.evtype = EVTYPE_KEY, !.canDelete = No]
           v == w(No)
<1>1. IsPage(p) /\ IsSet(p.w) /\ FieldsOK(p.w)
  BY DEF PageTyped, IsPage
<1>2. NoButton(p) = EventFields(b, -1)
  BY Zenon DEF NoButton, No
<1>3. /\ IsSet(v) /\ v.name = Empty /\ v.command = Empty /\ v.keycode = NONE /\ v.mod = NONE
      /\ v.evtype = EVTYPE_KEY /\ v.switch_type = p.w.switch_type
  BY <1>1 DEF IsSet
<1>4. FieldsOK(v)
  <2> HIDE DEF v
  <2> QED
    BY <1>1, <1>3, RcOK DEF FieldsOK, EVTYPE_KEY, EVTYPE_COMMAND
<1>5. b = [p EXCEPT !.w = v, !.canDelete = No]
  BY <1>1 DEF IsPage
<1> HIDE DEF b, v
<1>6. IsPage(b) /\ Same(p, b) /\ b.w = v
  BY <1>1, <1>3, <1>5 DEF IsPage, Same
<1>7. LET q == EventFields(b, -1) IN IsPage(q) /\ Same(b, q) /\ q.w = b.w
  BY <1>6, EventFieldsAre
<1> QED
  BY <1>2, <1>4, <1>6, <1>7 DEF PageTyped, Same

LEMMA Removed ==
  ASSUME NEW S, NEW s \in Seq(S), NEW k \in 1..Len(s)
  PROVE  /\ RemoveAt(s, k) \in Seq(S) /\ Len(RemoveAt(s, k)) = Len(s) - 1
         /\ \A i \in 1..Len(s) - 1 : RemoveAt(s, k)[i] = IF i < k THEN s[i] ELSE s[i + 1]
<1>1. k \in 0..Len(s) + 1
  OBVIOUS
<1> QED
  BY <1>1, RemovedIsSeq

\* config_delete_selected_button
LEMMA DeleteRight ==
  ASSUME EditorInv, page.sel # 0, DeleteButton
  PROVE  PageOK(page', edit') /\ edit' \in Nat
<1> DEFINE k == page.sel
           t == RemoveAt(page.table, k)
           rs == RemoveAt(page.rows, k)
           n == IF k <= Len(rs) THEN k ELSE IF Len(t) <= 1 THEN 0 ELSE 1
           q == [page EXCEPT !.table = t]
           p == [q EXCEPT !.rows = rs, !.sel = n]
<1>1. /\ PageTyped(page) /\ ~page.fired /\ TreeOK(page, edit)
      /\ SoundTable(page.table) /\ RowsShow(page.table, page.rows) /\ IsPage(page)
      /\ k \in 1..Len(page.rows) /\ page.rows[k].rawcode = edit
  <2>1. PageTyped(page) /\ ~page.fired /\ TreeOK(page, edit)
    BY DEF EditorInv, PageOK
  <2> QED
    BY <2>1 DEF PageTyped, TreeOK
<1>2. k \in 1..Len(page.table) /\ Place(page, edit) = k /\ Known(page, edit)
  <2>1. k \in 1..Len(page.table) /\ page.table[k].rawcode = edit
    BY <1>1, RowsHave
  <2>2. IndexOf(page.table, edit) = k
    BY <1>1, <2>1, TableHas
  <2> QED
    BY <2>1, <2>2 DEF Place, Known
<1>3. SoundTable(t) /\ Len(t) = Len(page.table) - 1
  BY <1>1, <1>2, SoundRemoved
<1>4. RowsShow(t, rs) /\ Len(rs) = Len(page.rows) - 1
  BY <1>1, <1>2, RowsRemoved
<1>5. /\ IsPage(q) /\ q.table = t /\ q.rows = page.rows /\ q.sel = k /\ q.combo = page.combo
      /\ q.fired = page.fired /\ q.sens = page.sens /\ q.w = page.w
  <2> HIDE DEF t
  <2>1. q = [page EXCEPT !.table = t]
    OBVIOUS
  <2> HIDE DEF q
  <2> QED
    BY <1>1, <2>1, WithTable
<1>6. RowRemoved(q) = p
  <2> HIDE DEF t, q
  <2>1. q.sel = k /\ q.rows = page.rows /\ q.table = t
    BY <1>5
  <2> QED
    BY <1>1, <2>1 DEF RowRemoved
<1>7. /\ edit' = IF t = <<>> THEN 0 ELSE Selected(p)
      /\ page' \in IF t = <<>> THEN {NoButton(p)} ELSE Quietly(p, Selected(p))
  <2>1. /\ edit' = IF t = <<>> THEN 0 ELSE Selected(RowRemoved(q))
        /\ page' \in IF t = <<>> THEN {NoButton(RowRemoved(q))}
                     ELSE Refresh(RowRemoved(q), Selected(RowRemoved(q)), Yes)
    BY <1>2, Zenon DEF DeleteButton, Yes
  <2> HIDE DEF t, q, p
  <2> QED
    BY <1>6, <2>1 DEF Quietly
<1>8. Len(rs) = Len(t) /\ Len(t) \in Nat /\ n \in 0..Len(t)
  <2> HIDE DEF t, rs
  <2>1. Len(page.table) \in Nat /\ Len(page.rows) = Len(page.table)
    BY <1>1, RowsHave
  <2>2. Len(rs) = Len(t) /\ Len(t) \in Nat
    BY <1>2, <1>3, <1>4, <2>1
  <2> QED
    BY <1>2, <2>2
<1>15. \A i \in 1..Len(t) : rs[i].rawcode \in Rawcodes
  BY <1>3, <1>4, RowsHave, TableHas
<1> HIDE DEF t, rs, n, q
<1>9. /\ IsPage(p) /\ p.table = t /\ p.rows = rs /\ p.sel = n /\ p.combo = page.combo
      /\ p.fired = page.fired /\ p.w = page.w
  BY <1>5 DEF IsPage
<1> HIDE DEF p
<1>10. PageTyped(p) /\ ~p.fired
  BY <1>1, <1>3, <1>9 DEF PageTyped
<1>11. TreeOK(p, Selected(p)) /\ Selected(p) \in Nat
  <2>1. n # 0 => Selected(p) = rs[n].rawcode /\ rs[n].rawcode \in Rawcodes
    BY <1>8, <1>9, <1>15 DEF Selected
  <2>2. n = 0 => Selected(p) = 0
    BY <1>9 DEF Selected
  <2>3. Selected(p) \in Nat
    <3>1. Rawcodes \subseteq Nat
      BY RcOK
    <3>2. CASE n = 0
      <4>1. Selected(p) = 0
        BY <2>2, <3>2
      <4> QED
        BY <4>1
    <3>3. CASE n # 0
      <4>1. Selected(p) \in Rawcodes
        BY <2>1, <3>3, Zenon
      <4> QED
        BY <3>1, <4>1
    <3> QED
      BY <3>2, <3>3, Zenon
  <2>4. /\ p.table = t /\ p.rows = rs /\ p.sel = n /\ n \in 0..Len(rs)
        /\ n # 0 => rs[n].rawcode = Selected(p)
    BY <1>8, <1>9, <2>1
  <2> QED
    BY <1>4, <2>3, <2>4 DEF TreeOK
<1>12. CASE t # <<>>
  <2>1. edit' = Selected(p) /\ page' \in Quietly(p, Selected(p))
    BY <1>7, <1>12
  <2>2. PageOK(page', Selected(p))
    BY <1>10, <1>11, <2>1, RefreshedRight
  <2> QED
    BY <1>11, <2>1, <2>2
<1>13. CASE t = <<>>
  <2> DEFINE z == NoButton(p)
  <2>1. edit' = 0 /\ page' = z
    BY <1>7, <1>13
  <2>2. PageTyped(z) /\ Same(p, z)
    BY <1>10, NoButtonIs
  <2> HIDE DEF z
  <2>3. TreeOK(z, 0) /\ ~z.fired
    BY <1>4, <1>8, <1>9, <1>10, <1>13, <2>2 DEF TreeOK, Same
  <2>4. ~Known(z, 0)
    <3>1. z.table = t /\ Len(t) = 0
      BY <1>9, <1>13, <2>2 DEF Same
    <3> QED
      BY <3>1, IndexIs DEF Known, Place
  <2> QED
    BY <2>1, <2>2, <2>3, <2>4 DEF PageOK, Faithful
<1> QED
  BY <1>12, <1>13

\* The button detection adds a button.
LEMMA DetectRight ==
  ASSUME EditorInv, NEW rc \in Rawcodes, NEW name, Quiet(WithButton(page, rc, name), edit),
         Detect(rc, name)
  PROVE  PageOK(page', edit')
<1> DEFINE b == [NewButton(rc) EXCEPT !.set.name = name]
           q == [page EXCEPT !.table = Append(page.table, b)]
<1>1. PageTyped(page) /\ ~page.fired /\ SoundTable(page.table) /\ IsPage(page)
  BY DEF EditorInv, PageOK, PageTyped
<1>2. WithButton(page, rc, name) = q
  BY DEF WithButton
<1>3. /\ page' \in RefreshAll(q, edit) /\ edit' = edit
      /\ IndexOf(page.table, rc) = 0 /\ Quiet(q, edit)
  BY <1>2 DEF Detect, Known, Place
<1>4. SoundTable(Append(page.table, b))
  BY <1>1, <1>3, SoundAdded
<1> HIDE DEF b
<1>5. /\ IsPage(q) /\ q.table = Append(page.table, b) /\ q.combo = page.combo
      /\ q.fired = page.fired /\ q.w = page.w
  BY <1>1, WithTable, SMTT(30)
<1> HIDE DEF q
<1>6. PageTyped(q) /\ ~q.fired
  BY <1>1, <1>4, <1>5 DEF PageTyped
<1>7. PageOK(page', edit)
  BY <1>3, <1>6, ShownQuietly
<1> QED
  BY <1>3, <1>7

\* The files after the current configuration was saved.
LEMMA SavedRight ==
  ASSUME EditorInv
  PROVE  FilesOK(Saved(files))
<1> DEFINE ls == Format(NewMouse, page.table)
           f  == [files EXCEPT ![names[cur]] = ls]
<1>1. SoundTable(Parse(ls).table)
  BY SavedIsSound DEF EditorInv, PageOK, PageTyped
<1>2. FilesOK(files) /\ names \in Seq(AllNames)
  BY DEF EditorInv
<1> HIDE DEF ls
<1>3. CASE IsOpen
  <2>1. Saved(files) = f /\ names[cur] \in AllNames
    BY <1>2, <1>3 DEF Saved, IsOpen, ls
  <2>2. FilesOK(f)
    BY <1>1, <1>2, <2>1 DEF FilesOK
  <2> QED
    BY <2>1, <2>2
<1>4. CASE ~IsOpen
  BY <1>2, <1>4 DEF Saved
<1> QED
  BY <1>3, <1>4

LEMMA LinesRight ==
  ASSUME NEW f, FilesOK(f), NEW n \in AllNames
  PROVE  SoundTable(Parse(Lines(f, n)).table)
<1>1. CASE f[n] = NoFile
  BY <1>1, NothingRead, SoundNone DEF Lines
<1>2. CASE f[n] # NoFile
  BY <1>2 DEF Lines, FilesOK
<1> QED
  BY <1>1, <1>2

\* config_clear_all, and the table that is read then.
LEMMA ClearedIs ==
  ASSUME NEW p, PageTyped(p), ~p.fired
  PROVE  LET q == Cleared(p)
         IN  /\ PageTyped(q) /\ ~q.fired /\ q.table = <<>> /\ \A rc : PageOK(q, rc)
<1> DEFINE q == Cleared(p)
<1>1. IsPage(p)
  BY DEF PageTyped
<1>2. /\ IsPage(q) /\ q.table = <<>> /\ q.rows = <<>> /\ q.sel = 0 /\ q.combo = p.combo
      /\ q.fired = p.fired /\ q.w = p.w
  BY <1>1 DEF Cleared, Replaced, IsPage
<1> HIDE DEF q
<1>3. PageTyped(q)
  BY <1>2, SoundNone DEF PageTyped
<1>4. RowsShow(<<>>, <<>>)
  BY SoundNone, RowsReplaced
<1>5. \A rc : TreeOK(q, rc)
  BY <1>2, <1>4 DEF TreeOK
<1>6. \A rc : ~Known(q, rc)
  <2> SUFFICES ASSUME NEW rc
               PROVE  ~Known(q, rc)
    OBVIOUS
  <2>1. Len(<<>>) = 0
    OBVIOUS
  <2>2. IndexOf(<<>>, rc) \in 0..0
    BY <2>1, IndexIs
  <2> QED
    BY <1>2, <2>2 DEF Known, Place
<1>7. \A rc : PageOK(q, rc)
  BY <1>2, <1>3, <1>5, <1>6 DEF PageOK, Faithful
<1> QED
  BY <1>2, <1>3, <1>7 DEF q

LEMMA OpenedIs ==
  ASSUME NEW p, PageTyped(p), ~p.fired, NEW t, SoundTable(t), NEW q,
         q = [Cleared(p) EXCEPT !.table = t]
  PROVE  PageTyped(q) /\ ~q.fired /\ q.table = t
<1> DEFINE c == Cleared(p)
<1>1. PageTyped(c) /\ ~c.fired /\ IsPage(c)
  BY ClearedIs DEF PageTyped
<1>2. q = [c EXCEPT !.table = t]
  OBVIOUS
<1> HIDE DEF c
<1>3. /\ IsPage(q) /\ q.table = t /\ q.combo = c.combo /\ q.fired = c.fired /\ q.w = c.w
  BY <1>1, <1>2 DEF IsPage
<1> QED
  BY <1>1, <1>3 DEF PageTyped

\* config_manager_open_config
LEMMA OpenedRight ==
  ASSUME NEW p, PageTyped(p), ~p.fired, NEW rc, NEW f, FilesOK(f), NEW ns, NEW i,
         ns[i] \in AllNames,
         Quiet([Cleared(p) EXCEPT !.table = Parse(Lines(f, ns[i])).table], rc),
         NEW x \in Opened(p, rc, ns, i, f)
  PROVE  /\ PageOK(x, rc)
         /\ LET t == Parse(Lines(f, ns[i])).table
            IN  /\ Len(x.table) = Len(t)
                /\ \A k \in 1..Len(t) : ShowsAs(x.table[k], t[k])
<1> DEFINE t == Parse(Lines(f, ns[i])).table
           q == [Cleared(p) EXCEPT !.table = t]
<1>1. x \in RefreshAll(q, rc)
  BY DEF Opened
<1>2. SoundTable(t)
  BY LinesRight
<1>3. Quiet(q, rc)
  OBVIOUS
<1> HIDE DEF t
<1>4. PageTyped(q) /\ ~q.fired /\ q.table = t
  BY <1>2, OpenedIs
<1> HIDE DEF q
<1>5. /\ PageOK(x, rc)
      /\ Len(x.table) = Len(q.table) /\ \A k \in 1..Len(q.table) : ShowsAs(x.table[k], q.table[k])
  BY <1>1, <1>3, <1>4, ShownQuietly
<1> QED
  BY <1>4, <1>5 DEF t

\* tree_configs_row_activated
LEMMA OpenRight ==
  ASSUME EditorInv, NEW i, OpensQuietly(i, page, names, Saved(files)), Open(i)
  PROVE  /\ PageOK(page', edit') /\ FilesOK(files')
         /\ LET t == Parse(Lines(files', names'[cur'])).table
            IN  /\ Len(page'.table) = Len(t)
                /\ \A k \in 1..Len(t) : ShowsAs(page'.table[k], t[k])
<1> DEFINE t == Parse(Lines(files', names[i])).table
<1>1. PageTyped(page) /\ ~page.fired /\ names \in Seq(AllNames)
  BY DEF EditorInv, PageOK
<1>2. FilesOK(Saved(files))
  BY SavedRight
<1>3. /\ i \in 1..Len(names) /\ files' = Saved(files) /\ edit' = edit
      /\ names' = names /\ cur' = i /\ page' \in Opened(page, edit, names, i, files')
  BY DEF Open
<1>4. names[i] \in AllNames
  BY <1>1, <1>3
<1>5. Quiet([Cleared(page) EXCEPT !.table = Parse(Lines(files', names[i])).table], edit)
  BY <1>3 DEF OpensQuietly
<1>6. /\ PageOK(page', edit) /\ Len(page'.table) = Len(t)
      /\ \A k \in 1..Len(t) : ShowsAs(page'.table[k], t[k])
  <2>1. FilesOK(files')
    BY <1>2, <1>3
  <2>2. page' \in Opened(page, edit, names, i, files')
    BY <1>3
  <2>3. /\ PageOK(page', edit)
        /\ LET u == Parse(Lines(files', names[i])).table
           IN  /\ Len(page'.table) = Len(u)
               /\ \A k \in 1..Len(u) : ShowsAs(page'.table[k], u[k])
    <3> HIDE DEF t
    <3> QED
      BY <1>1, <1>4, <1>5, <2>1, <2>2, OpenedRight
  <2> QED
    BY <2>3, Zenon
<1>7. t = Parse(Lines(files', names'[cur'])).table
  BY <1>3
<1> HIDE DEF t
<1> QED
  BY <1>2, <1>3, <1>6, <1>7

\* config_update_config_combobox
LEMMA RetargetedRight ==
  ASSUME NEW p, NEW rc, PageOK(p, rc), NEW ns \in Seq(AllNames)
  PROVE  PageOK(Retargeted(p, rc, ns), rc)
<1> DEFINE w == [p.w EXCEPT !.switch_name = Null]
           a == [p EXCEPT !.w.switch_name = Null]
           u == Update(a, rc)
           c == <<NONE>> \o ns
           q == [u EXCEPT !.combo = c]
<1>1. /\ PageTyped(p) /\ ~p.fired /\ TreeOK(p, rc) /\ Faithful(p, rc)
      /\ IsPage(p) /\ FieldsOK(p.w) /\ IsSet(p.w)
  BY DEF PageOK, PageTyped, IsPage
<1>2. Retargeted(p, rc, ns) = q
  BY DEF Retargeted
<1>3. IsSet(w) /\ FieldsOK(w) /\ w.evtype = p.w.evtype
  <2>1. /\ IsSet(w) /\ w.name = p.w.name /\ w.command = p.w.command
        /\ w.keycode = p.w.keycode /\ w.mod = p.w.mod /\ w.evtype = p.w.evtype
        /\ w.switch_type = p.w.switch_type
    BY <1>1 DEF IsSet
  <2> HIDE DEF w
  <2> QED
    BY <1>1, <2>1 DEF FieldsOK
<1>4. a = [p EXCEPT !.w = w]
  BY <1>1 DEF IsPage
<1> HIDE DEF a, w, c
<1>5. IsPage(a) /\ Same(p, a) /\ a.sens = p.sens /\ a.w = w
  BY <1>1, <1>3, <1>4, WithFields
<1>6. PageTyped(a) /\ TreeOK(a, rc) /\ ~a.fired
  BY <1>1, <1>3, <1>5 DEF PageTyped, TreeOK, Same
<1>7. Known(a, rc) => a.sens = SetOf(a, rc).evtype /\ a.w.evtype = SetOf(a, rc).evtype
  BY <1>1, <1>3, <1>5, PageSame DEF Faithful, Same
<1>8. PageOK(u, rc)
  BY <1>6, <1>7, UpdatedRight
<1> HIDE DEF u
<1>9. /\ PageTyped(u) /\ ~u.fired /\ TreeOK(u, rc) /\ Faithful(u, rc)
      /\ IsPage(u) /\ FieldsOK(u.w) /\ SoundTable(u.table)
  BY <1>8 DEF PageOK, PageTyped
<1>10. /\ IsPage(q) /\ q.table = u.table /\ q.rows = u.rows /\ q.sel = u.sel /\ q.combo = c
       /\ q.fired = u.fired /\ q.sens = u.sens /\ q.w = u.w
  <2>1. q = [u EXCEPT !.combo = c]
    OBVIOUS
  <2> HIDE DEF q
  <2> QED
    BY <1>9, <2>1 DEF IsPage
<1>11. c \in Seq(AllNames \cup {NONE})
  <2>1. <<NONE>> \in Seq(AllNames \cup {NONE}) /\ ns \in Seq(AllNames \cup {NONE})
    OBVIOUS
  <2> QED
    BY <2>1, ConcatProperties DEF c
<1> HIDE DEF q
<1>12. PageTyped(q) /\ TreeOK(q, rc) /\ ~q.fired
  BY <1>9, <1>10, <1>11 DEF PageTyped, TreeOK
<1>13. Faithful(q, rc)
  BY <1>9, <1>10, PageSame DEF Faithful
<1> QED
  BY <1>2, <1>12, <1>13 DEF PageOK

\* config_manager_new's search for a name.
LEMMA FreeNameIs ==
  ASSUME FreeName # 0
  PROVE  FreeName \in 1..Len(NewNames) /\ NewNames[FreeName] \in AllNames
<1> DEFINE I == {i \in 1..Len(NewNames) : ~Contains(names, NewNames[i])}
<1>1. NewNames \in Seq(Range(NewNames))
  BY ConstantsOK
<1>2. FreeName = IF I = {} THEN 0 ELSE Min(I)
  BY Zenon DEF FreeName, SelectInSeq
<1>3. I # {} /\ FreeName = Min(I) /\ I \in SUBSET Nat
  BY <1>1, <1>2
<1>4. Min(I) \in I
  BY <1>3, MinIsLeast
<1>5. FreeName \in 1..Len(NewNames)
  BY <1>3, <1>4
<1> QED
  BY <1>1, <1>5 DEF AllNames, Range

\* btn_new_config_clicked
LEMMA NewRight ==
  ASSUME EditorInv, NEW copy, New(copy)
  PROVE  PageOK(page', edit') /\ names' \in Seq(AllNames) /\ cur' \in Nat
<1> DEFINE p == IF copy THEN page ELSE Cleared(page)
           ns == Append(names, NewNames[FreeName])
<1>1. PageOK(page, edit) /\ names \in Seq(AllNames)
  BY DEF EditorInv
<1>2. /\ FreeName # 0 /\ names' = ns /\ cur' = Len(ns) /\ edit' = edit
      /\ page' = Retargeted(p, edit, ns)
  BY DEF New
<1>3. ns \in Seq(AllNames) /\ Len(ns) \in Nat
  BY <1>1, <1>2, FreeNameIs
<1>4. PageOK(p, edit)
  <2>1. PageOK(Cleared(page), edit)
    BY <1>1, ClearedIs DEF PageOK
  <2> QED
    BY <1>1, <2>1
<1> HIDE DEF p, ns
<1>5. PageOK(Retargeted(p, edit, ns), edit)
  BY <1>3, <1>4, RetargetedRight
<1> QED
  BY <1>2, <1>3, <1>5

\* btn_delete_config_clicked
LEMMA DeleteConfigRight ==
  ASSUME EditorInv, NEW i, DeleteConfig(i), DeletesQuietly(i)
  PROVE  PageOK(page', edit') /\ FilesOK(files') /\ names' \in Seq(AllNames) /\ cur' \in Nat
<1> DEFINE ns == RemoveAt(names, i)
           p == Retargeted(page, edit, ns)
           f == [files EXCEPT ![names[i]] = NoFile]
<1>1. PageOK(page, edit) /\ names \in Seq(AllNames) /\ FilesOK(files) /\ cur \in Nat
  BY DEF EditorInv
<1>2. /\ i \in 1..Len(names) /\ names' = ns /\ files' = f /\ edit' = edit
      /\ IF ns = <<>> THEN cur' = 0 /\ page' = page
         ELSE IF i # cur THEN cur' = cur /\ page' = p
         ELSE /\ cur' = IF i > Len(ns) THEN Len(ns) ELSE i
              /\ page' \in Opened(p, edit, ns, cur', files')
  BY DEF DeleteConfig
<1>3. ns \in Seq(AllNames) /\ Len(ns) = Len(names) - 1
  BY <1>1, <1>2, Removed
<1>4. FilesOK(f)
  BY <1>1 DEF FilesOK
<1>5. i = cur /\ ns # <<>> =>
        Quiet([Cleared(p) EXCEPT !.table = Parse(Lines(files', ns[cur'])).table], edit)
  BY <1>2 DEF DeletesQuietly, OpensQuietly
<1> HIDE DEF ns
<1>6. PageOK(p, edit)
  BY <1>1, <1>3, RetargetedRight
<1> HIDE DEF p, f
<1>7. CASE ns = <<>>
  BY <1>1, <1>2, <1>3, <1>4, <1>7
<1>8. CASE ns # <<>> /\ i # cur
  BY <1>1, <1>2, <1>3, <1>4, <1>6, <1>8
<1>9. CASE ns # <<>> /\ i = cur
  <2>1. cur' \in 1..Len(ns)
    <3>1. Len(ns) \in Nat \ {0}
      BY <1>3, <1>9
    <3>2. cur' = IF i > Len(ns) THEN Len(ns) ELSE i
      BY <1>2, <1>9, Zenon
    <3>3. i \in Nat \ {0}
      BY <1>2
    <3> QED
      BY <3>1, <3>2, <3>3
  <2>2. ns[cur'] \in AllNames
    BY <1>3, <2>1
  <2>3. PageTyped(p) /\ ~p.fired
    BY <1>6 DEF PageOK
  <2>4. /\ page' \in Opened(p, edit, ns, cur', files') /\ FilesOK(files')
        /\ Quiet([Cleared(p) EXCEPT !.table = Parse(Lines(files', ns[cur'])).table], edit)
    BY <1>2, <1>4, <1>5, <1>9
  <2>5. PageOK(page', edit)
    BY <2>2, <2>3, <2>4, OpenedRight
  <2> QED
    BY <1>2, <1>3, <1>4, <2>1, <2>5
<1> QED
  BY <1>7, <1>8, <1>9

\* config_name_changed
LEMMA RenameRight ==
  ASSUME EditorInv, NEW n, Rename(n)
  PROVE  names' \in Seq(AllNames) /\ FilesOK(files')
<1>1. /\ names \in Seq(AllNames) /\ FilesOK(files)
      /\ cur \in 1..Len(names) /\ n \in AllNames /\ names' = [names EXCEPT ![cur] = n]
  BY DEF EditorInv, Rename, IsOpen, AllNames
<1>2. /\ names[cur] \in AllNames
      /\ files' = IF files[names[cur]] = NoFile THEN files
                  ELSE [files EXCEPT ![n] = files[names[cur]], ![names[cur]] = NoFile]
  BY <1>1 DEF Rename
<1>3. names' \in Seq(AllNames)
  BY <1>1
<1> DEFINE ls == files[names[cur]]
           m  == names[cur]
           f == [files EXCEPT ![n] = ls, ![m] = NoFile]
<1>4. files' = files \/ files' = f
  BY <1>2
<1>5. m \in AllNames /\ (ls = NoFile \/ SoundTable(Parse(ls).table))
  BY <1>1, <1>2 DEF FilesOK
<1>6. FilesOK(f)
  <2> HIDE DEF ls, m
  <2> QED
    BY <1>1, <1>5 DEF FilesOK
<1> QED
  BY <1>1, <1>3, <1>4, <1>6
-----------------------------------------------------------------------------
(* The start. *)

\* The page before its configuration is opened.
Blanked(w, no, c) ==
  [table |-> <<>>, rows |-> <<>>, sel |-> 0, sens |-> -1, toSens |-> no, combo |-> c,
   canDelete |-> no, fired |-> no, w |-> w]
FirstFields ==
  [NewSettings EXCEPT !.name = Empty, !.command = Empty, !.switch_type = CONFIG_SWITCH_NEXT,
                      !.switch_name = Null]

LEMMA FirstFieldsAre == IsSet(FirstFields) /\ FieldsOK(FirstFields)
<1>1. NewSettings \in [name : {Null}, enabled : {FALSE}, delay : {0}, evtype : {EVTYPE_KEY},
                       keycode : {NONE}, mod : {NONE}, command : {Null}, uid : {0},
                       switch_type : {CONFIG_SWITCH_NONE}, switch_name : {NONE}]
  BY DEF NewSettings
<1>2. FirstFields \in [name : {Empty}, enabled : {FALSE}, delay : {0}, evtype : {EVTYPE_KEY},
                       keycode : {NONE}, mod : {NONE}, command : {Empty}, uid : {0},
                       switch_type : {CONFIG_SWITCH_NEXT}, switch_name : {Null}]
  BY <1>1 DEF FirstFields
<1>3. IsSet(FirstFields)
  BY <1>2 DEF IsSet
<1>4. FieldsOK(FirstFields)
  BY <1>2, RcOK DEF FieldsOK, EVTYPE_KEY, EVTYPE_COMMAND, CONFIG_SWITCH_NEXT, CONFIG_SWITCH_TO
<1> QED
  BY <1>3, <1>4

\* The configurations there are at the start have been saved by the program.
LEMMA FirstFiles ==
  ASSUME Init
  PROVE  FilesOK(files) /\ SoundTable(Parse(files[FirstNames[1]]).table)
<1>1. PICK t \in [1..Len(FirstNames) -> Opening] :
        files = [n \in AllNames |->
                   IF Contains(FirstNames, n)
                     THEN Format(NewMouse, t[CHOOSE i \in 1..Len(FirstNames) : FirstNames[i] = n])
                     ELSE NoFile]
  BY DEF Init, AllNames
<1>2. ASSUME NEW n \in AllNames
      PROVE  IF Contains(FirstNames, n) THEN SoundTable(Parse(files[n]).table)
             ELSE files[n] = NoFile
  <2>1. CASE Contains(FirstNames, n)
    <3> DEFINE i == CHOOSE j \in 1..Len(FirstNames) : FirstNames[j] = n
    <3>1. i \in 1..Len(FirstNames)
      BY <2>1 DEF Contains
    <3>2. files[n] = Format(NewMouse, t[i])
      BY <1>1, <2>1
    <3> HIDE DEF i
    <3>3. SoundTable(t[i])
      BY <1>1, <3>1, InputsOK
    <3> QED
      BY <2>1, <3>2, <3>3, SavedIsSound
  <2>2. CASE ~Contains(FirstNames, n)
    BY <1>1, <2>2
  <2> QED
    BY <2>1, <2>2
<1>3. files = [n \in AllNames |-> files[n]]
  BY <1>1
<1>4. FirstNames[1] \in AllNames /\ Contains(FirstNames, FirstNames[1])
  <2>1. FirstNames \in Seq(Range(FirstNames)) /\ FirstNames # <<>>
    BY ConstantsOK
  <2>2. 1 \in 1..Len(FirstNames)
    BY <2>1
  <2> QED
    BY <2>1, <2>2 DEF AllNames, Contains
<1>5. FilesOK(files)
  BY <1>2, <1>3 DEF FilesOK
<1> QED
  BY <1>2, <1>4, <1>5

LEMMA InitRight ==
  ASSUME Init
  PROVE  EditorInv
<1> DEFINE n == FirstNames[1]
           T == Parse(files[n]).table
           c == <<NONE>> \o FirstNames
           b == Blanked(FirstFields, No, c)
           q == [b EXCEPT !.table = T]
<1>1. /\ names = FirstNames /\ cur = 1 /\ edit = 0 /\ edits = 0
      /\ FilesOK(files) /\ SoundTable(T)
  BY FirstFiles DEF Init
<1>2. page = Replaced(q)
  BY Zenon DEF Init, Blanked, FirstFields, No
<1>3. names \in Seq(AllNames)
  <2>1. FirstNames \in Seq(Range(FirstNames))
    BY ConstantsOK
  <2> QED
    BY <1>1, <2>1 DEF AllNames
<1>4. c \in Seq(AllNames \cup {NONE})
  <2>1. <<NONE>> \in Seq(AllNames \cup {NONE}) /\ names \in Seq(AllNames \cup {NONE})
    BY <1>3
  <2> QED
    BY <1>1, <2>1, ConcatProperties DEF c
<1> HIDE DEF T, c
<1>5. /\ b \in [table : {<<>>}, rows : {<<>>}, sel : {0}, sens : {-1}, toSens : {No},
                combo : {c}, canDelete : {No}, fired : {No}, w : {FirstFields}]
  BY DEF Blanked
<1> HIDE DEF b
<1>6. /\ IsPage(page) /\ page.table = T /\ page.rows = T /\ page.sel = 0 /\ page.combo = c
      /\ page.fired = No /\ page.w = FirstFields
  <2>1. page \in [table : {T}, rows : {T}, sel : {0}, sens : {-1}, toSens : {No},
                  combo : {c}, canDelete : {No}, fired : {No}, w : {FirstFields}]
    BY <1>2, <1>5 DEF Replaced
  <2> QED
    BY <2>1, FirstFieldsAre DEF IsPage
<1>7. ~page.fired
  BY <1>6, Zenon DEF No
<1>8. PageTyped(page)
  BY <1>1, <1>4, <1>6, FirstFieldsAre DEF PageTyped
<1>9. RowsShow(T, T) /\ Len(T) \in Nat
  BY <1>1, RowsReplaced, TableHas
<1>10. TreeOK(page, 0)
  BY <1>6, <1>9 DEF TreeOK
<1>11. ~Known(page, 0)
  <2>1. \A k \in 1..Len(T) : T[k].rawcode # 0
    BY <1>1, TableHas, RcOK
  <2> QED
    BY <1>6, <1>9, <2>1, IndexIs DEF Known, Place
<1>12. PageOK(page, 0)
  BY <1>7, <1>8, <1>10, <1>11 DEF PageOK, Faithful
<1> QED
  BY <1>1, <1>3, <1>12 DEF EditorInv
-----------------------------------------------------------------------------
(* Opening while the callbacks run: the button being edited may be changed. *)

IsTable(t) ==
  /\ \E S : t \in Seq(S)
  /\ \A k \in 1..Len(t) : IsButton(t[k])

\* The table u is t but for the settings of the button rc.
OnlyEdited(t, u, rc) ==
  /\ IsTable(u) /\ Len(u) = Len(t)
  /\ \A k \in 1..Len(t) : u[k].rawcode = t[k].rawcode /\ (t[k].rawcode # rc => u[k] = t[k])
Near(p, q, rc) == IsPage(q) /\ OnlyEdited(p.table, q.table, rc)

LEMMA NearItself ==
  ASSUME NEW p, IsTable(p.table), NEW rc, NEW q, IsPage(q), q.table = p.table
  PROVE  Near(p, q, rc)
  BY DEF Near, OnlyEdited

LEMMA NearBoth ==
  ASSUME NEW p, NEW q, NEW r, NEW rc, Near(p, q, rc), Near(q, r, rc)
  PROVE  Near(p, r, rc) /\ IsPage(r) /\ IsTable(r.table)
<1>1. Len(q.table) = Len(p.table) /\ Len(r.table) = Len(q.table)
  BY DEF Near, OnlyEdited
<1>2. ASSUME NEW k \in 1..Len(p.table)
      PROVE  /\ r.table[k].rawcode = p.table[k].rawcode
             /\ p.table[k].rawcode # rc => r.table[k] = p.table[k]
  BY <1>1 DEF Near, OnlyEdited
<1> QED
  BY <1>1, <1>2 DEF Near, OnlyEdited

\* The settings of the k-th button are replaced.
LEMMA OneChanged ==
  ASSUME NEW t, IsTable(t), NEW k \in 1..Len(t), NEW s, IsSet(s)
  PROVE  OnlyEdited(t, [t EXCEPT ![k].set = s], t[k].rawcode)
<1> DEFINE u == [t EXCEPT ![k].set = s]
           b == [t[k] EXCEPT !.set = s]
<1>1. PICK S : t \in Seq(S)
  BY DEF IsTable
<1>2. u = [t EXCEPT ![k] = b]
  OBVIOUS
<1>3. IsButton(b) /\ b.rawcode = t[k].rawcode
  <2>1. b \in [rawcode : {t[k].rawcode}, set : {s}]
    BY DEF IsTable, IsButton
  <2> HIDE DEF b
  <2> QED
    BY <2>1 DEF IsButton
<1> HIDE DEF b
<1>4. /\ u \in Seq(S \cup {b}) /\ Len(u) = Len(t) /\ u[k] = b
      /\ \A i \in 1..Len(t) : i # k => u[i] = t[i]
  <2>1. t \in Seq(S \cup {b})
    BY <1>1
  <2> HIDE DEF u
  <2> QED
    BY <1>2, <2>1
<1> HIDE DEF u
<1>5. \A i \in 1..Len(t) : /\ IsButton(u[i]) /\ u[i].rawcode = t[i].rawcode
                           /\ t[i].rawcode # t[k].rawcode => u[i] = t[i]
  BY <1>3, <1>4 DEF IsTable
<1>6. IsTable(u)
  <2>1. \E R : u \in Seq(R)
    BY <1>4
  <2>2. \A i \in 1..Len(u) : IsButton(u[i])
    BY <1>4, <1>5, Zenon
  <2> QED
    BY <2>1, <2>2 DEF IsTable
<1> QED
  BY <1>4, <1>5, <1>6 DEF OnlyEdited, u

LEMMA FoundAt ==
  ASSUME NEW p, IsTable(p.table), NEW rc
  PROVE  Known(p, rc) => /\ Place(p, rc) \in 1..Len(p.table)
                         /\ p.table[Place(p, rc)].rawcode = rc
<1>1. Len(p.table) \in Nat
  BY LenProperties DEF IsTable
<1> QED
  BY <1>1, IndexIs DEF Known, Place

\* ... and stay there.
LEMMA StillKnown ==
  ASSUME NEW p, IsTable(p.table), NEW q, NEW rc, Near(p, q, rc), Known(p, rc)
  PROVE  Known(q, rc)
<1>1. Len(q.table) \in Nat
  BY LenProperties DEF Near, OnlyEdited, IsTable
<1>2. PICK k \in 1..Len(q.table) : q.table[k].rawcode = rc
  BY FoundAt DEF Near, OnlyEdited
<1> QED
  BY <1>1, <1>2, IndexIs DEF Known, Place

\* config_update_button_properties
LEMMA UpdateNear ==
  ASSUME NEW p, IsPage(p), IsTable(p.table), NEW rc
  PROVE  Near(p, Update(p, rc), rc)
<1> DEFINE k == Place(p, rc)
           c == IF p.w.keycode = Empty THEN NONE ELSE p.w.keycode
           w == [p.w EXCEPT !.keycode = c]
           a == [p EXCEPT !.w = w]
           z == Stored(w)
           t == [p.table EXCEPT ![k].set = z]
           b == [p EXCEPT !.w = w, !.table[k].set = z]
           u == RowUpdated(b, rc)
<1>1. IsSet(w)
  <2> HIDE DEF c
  <2>1. "keycode" \in Fields /\ IsSet(p.w)
    BY FieldsAre DEF IsPage
  <2> QED
    BY <2>1, FieldSet
<1>2. Update(p, rc) = IF ~Known(p, rc) \/ ~IsNumber(w.delay) \/ ~IsNumber(w.uid) THEN p
                      ELSE IF w.keycode \notin Keycodes THEN a
                      ELSE u
  BY Zenon DEF Update, w, c, a, b, z, k
<1>3. Near(p, p, rc)
  BY NearItself
<1>4. Near(p, a, rc)
  <2> HIDE DEF w
  <2>1. IsPage(a) /\ a.table = p.table
    BY <1>1, WithFields DEF Same
  <2> HIDE DEF a
  <2> QED
    BY <2>1, NearItself
<1>5. ASSUME Known(p, rc)
      PROVE  Near(p, u, rc)
  <2>1. k \in 1..Len(p.table) /\ p.table[k].rawcode = rc
    BY <1>5, FoundAt
  <2>2. IsSet(z)
    <3> HIDE DEF w
    <3> QED
      BY <1>1, StoredIs
  <2> HIDE DEF w, k, z
  <2>3. OnlyEdited(p.table, t, rc)
    BY <2>1, <2>2, OneChanged
  <2>4. b = [p EXCEPT !.w = w, !.table = t]
    BY DEF IsPage
  <2> HIDE DEF t
  <2>5. IsPage(b) /\ b.table = t
    BY <1>1, <2>4 DEF IsPage
  <2> HIDE DEF b
  <2>6. IsPage(u) /\ u.table = t
    <3> DEFINE n == IndexOf(b.rows, rc)
               x == b.table[Place(b, rc)]
               y == [b.rows EXCEPT ![n] = x]
    <3>1. u = IF n = 0 THEN b ELSE [b EXCEPT !.rows[n] = x, !.sel = n]
      BY DEF RowUpdated
    <3> HIDE DEF n, x
    <3>2. [b EXCEPT !.rows[n] = x, !.sel = n] = [b EXCEPT !.rows = y, !.sel = n]
      BY <2>5 DEF IsPage
    <3> HIDE DEF y, u
    <3>3. CASE n = 0
      BY <2>5, <3>1, <3>3
    <3>4. CASE n # 0
      <4>1. u = [b EXCEPT !.rows = y, !.sel = n]
        BY <3>1, <3>2, <3>4
      <4> QED
        BY <2>5, <4>1 DEF IsPage
    <3> QED
      BY <3>3, <3>4
  <2> HIDE DEF u
  <2> QED
    BY <2>3, <2>6 DEF Near
<1> HIDE DEF a, u, w
<1> QED
  BY <1>2, <1>3, <1>4, <1>5, Zenon

\* A callback stores the fields.
LEMMA ClickedNear ==
  ASSUME NEW p, IsPage(p), IsTable(p.table), NEW rc, NEW f \in Fields, NEW v
  PROVE  Near(p, Clicked(p, rc, f, v), rc)
<1>1. CASE p.w[f] = v
  <2>1. Clicked(p, rc, f, v) = p
    BY <1>1, Zenon DEF Clicked, Signalled
  <2> QED
    BY <2>1, NearItself
<1>2. CASE p.w[f] # v
  <2>1. PICK q : /\ IsPage(q) /\ Same(p, q)
                 /\ LET u == Fired(Update(q, rc))
                    IN  Clicked(p, rc, f, v) =
                          IF f = "evtype" THEN EventFields(u, EventOf(u, rc)) ELSE u
    BY <1>2, ClickedIs
  <2> DEFINE a == Update(q, rc)
             u == Fired(a)
             e == EventOf(u, rc)
             y == EventFields(u, e)
  <2>2. q.table = p.table
    BY <2>1 DEF Same
  <2>3. Near(q, a, rc)
    BY <2>1, <2>2, UpdateNear
  <2>7. IsPage(a) /\ OnlyEdited(p.table, a.table, rc)
    BY <2>2, <2>3 DEF Near
  <2> HIDE DEF a
  <2>4. IsPage(u) /\ u.table = a.table
    BY <2>7, WithFired DEF Fired
  <2>5. Clicked(p, rc, f, v) = IF f = "evtype" THEN y ELSE u
    BY <2>1 DEF a
  <2> HIDE DEF u, e
  <2>6. IsPage(y) /\ y.table = u.table
    BY <2>4, EventFieldsAre DEF Same
  <2> HIDE DEF y
  <2> QED
    BY <2>4, <2>5, <2>6, <2>7 DEF Near
<1> QED
  BY <1>1, <1>2

\* config_refresh_button_properties, part by part.
NoisyBoxes(p, rc, s)  == ShowBoxes(p, rc, s, No)
NoisyLists(p, rc, s)  == ShowLists(p, rc, s, No)
NoisyTarget(p, rc, n) == ShowTarget(p, rc, n, No)
Noisily(p, rc)        == Refresh(p, rc, No)

LEMMA BoxesNear ==
  ASSUME NEW p, IsPage(p), IsTable(p.table), NEW rc, NEW s
  PROVE  LET q == NoisyBoxes(p, rc, s)
         IN  Near(p, q, rc) /\ IsPage(q) /\ IsTable(q.table)
<1> DEFINE a == EventFields(p, s.evtype)
           b == Clicked(a, rc, "enabled", s.enabled)
           v == IF s.switch_type = CONFIG_SWITCH_NONE THEN CONFIG_SWITCH_NEXT ELSE s.switch_type
           c == Clicked(b, rc, "switch_type", v)
           q == NoisyBoxes(p, rc, s)
<1>1. "enabled" \in Fields /\ "switch_type" \in Fields
  BY FieldsAre
<1>2. q = b \/ q = c
  BY Zenon DEF NoisyBoxes, ShowBoxes, Clicked, a, b, c, v
<1>3. IsPage(a) /\ a.table = p.table
  BY EventFieldsAre DEF Same
<1> HIDE DEF a, v, q
<1>4. Near(p, a, rc)
  BY <1>3, NearItself
<1>5. Near(a, b, rc)
  BY <1>1, <1>3, ClickedNear
<1> HIDE DEF b
<1>6. Near(p, b, rc) /\ IsPage(b) /\ IsTable(b.table)
  BY <1>4, <1>5, NearBoth
<1>7. Near(b, c, rc)
  BY <1>1, <1>6, ClickedNear
<1> HIDE DEF c
<1>8. Near(p, c, rc) /\ IsPage(c) /\ IsTable(c.table)
  BY <1>6, <1>7, NearBoth
<1> QED
  BY <1>2, <1>6, <1>8 DEF q

LEMMA EntriesNear ==
  ASSUME NEW p, IsPage(p), IsTable(p.table), NEW rc, NEW s, NEW q \in ShowEntries(p, rc, s)
  PROVE  Near(p, q, rc)
<1>1. PICK x, y, z : q = WithEntries(p, s, x, y, z)
  BY DEF ShowEntries
<1> DEFINE n == OrEmpty(x)
           c == OrEmpty(y)
           k == OrNone(z)
           d == s.delay
           u == s.uid
           w == [p.w EXCEPT !.name = n, !.command = c, !.keycode = k, !.delay = d, !.uid = u]
<1>2. q = [p EXCEPT !.w.name = n, !.w.command = c, !.w.keycode = k, !.w.delay = d, !.w.uid = u]
  BY <1>1 DEF WithEntries
<1> HIDE DEF n, c, k, d, u
<1>3. q = [p EXCEPT !.w = w]
  BY <1>2 DEF IsPage
<1>4. IsSet(w)
  <2>1. w \in [name : {n}, enabled : {p.w.enabled}, delay : {d}, evtype : {p.w.evtype},
               keycode : {k}, mod : {p.w.mod}, command : {c}, uid : {u},
               switch_type : {p.w.switch_type}, switch_name : {p.w.switch_name}]
    BY DEF IsPage, IsSet
  <2> HIDE DEF w
  <2> QED
    BY <2>1 DEF IsSet
<1> HIDE DEF w
<1>5. IsPage(q) /\ q.table = p.table
  BY <1>3, <1>4, WithFields DEF Same
<1> QED
  BY <1>5, NearItself

LEMMA ListsNear ==
  ASSUME NEW p, IsPage(p), IsTable(p.table), NEW rc, NEW s, NEW q \in NoisyLists(p, rc, s)
  PROVE  Near(p, q, rc)
<1>1. PICK x : q = Clicked(Clicked(p, rc, "mod", x), rc, "evtype", s.evtype)
  BY Zenon DEF NoisyLists, ShowLists, Clicked
<1> DEFINE a == Clicked(p, rc, "mod", x)
<1>2. "mod" \in Fields /\ "evtype" \in Fields
  BY FieldsAre
<1>3. Near(p, a, rc)
  BY <1>2, ClickedNear
<1>4. q = Clicked(a, rc, "evtype", s.evtype)
  BY <1>1
<1> HIDE DEF a
<1>5. IsPage(a) /\ IsTable(a.table)
  BY <1>3 DEF Near, OnlyEdited
<1>6. Near(a, q, rc)
  BY <1>2, <1>4, <1>5, ClickedNear
<1> QED
  BY <1>3, <1>6, NearBoth

LEMMA TargetNear ==
  ASSUME NEW p, IsPage(p), IsTable(p.table), NEW rc, Known(p, rc), NEW n
  PROVE  Near(p, NoisyTarget(p, rc, n), rc)
<1> DEFINE v == IF Contains(p.combo, n) THEN n ELSE NONE
           a == IF n = Null \/ p.combo = <<>> THEN p ELSE Clicked(p, rc, "switch_name", v)
           k == Place(a, rc)
           s == [a.table[k].set EXCEPT !.switch_name = NONE]
           t == [a.table EXCEPT ![k].set = s]
           q == [a EXCEPT !.table = t]
<1>1. NoisyTarget(p, rc, n) =
        IF Contains(p.combo, n) THEN a ELSE [a EXCEPT !.table[k].set.switch_name = NONE]
  BY Zenon DEF NoisyTarget, ShowTarget, Clicked, a, v, k
<1>2. "switch_name" \in Fields
  BY FieldsAre
<1> HIDE DEF v
<1>3. Near(p, a, rc)
  BY <1>2, NearItself, ClickedNear
<1> HIDE DEF a
<1>4. IsPage(a) /\ IsTable(a.table) /\ Known(a, rc)
  BY <1>3, StillKnown DEF Near, OnlyEdited
<1>5. k \in 1..Len(a.table) /\ a.table[k].rawcode = rc
  BY <1>4, FoundAt
<1> HIDE DEF k
<1>6. [a EXCEPT !.table[k].set.switch_name = NONE] = q
  <2>1. [a.table EXCEPT ![k].set.switch_name = NONE] = t
    OBVIOUS
  <2> HIDE DEF t
  <2>2. [a EXCEPT !.table[k].set.switch_name = NONE]
          = [a EXCEPT !.table = [a.table EXCEPT ![k].set.switch_name = NONE]]
    BY <1>4 DEF IsPage
  <2> QED
    BY <2>1, <2>2
<1>7. IsSet(s)
  <2> DEFINE r == a.table[k].set
  <2>1. IsSet(r)
    BY <1>4, <1>5 DEF IsTable, IsButton
  <2> HIDE DEF r
  <2>2. IsSet([r EXCEPT !.switch_name = NONE])
    BY <1>2, <2>1, FieldSet
  <2> QED
    BY <2>2 DEF r
<1> HIDE DEF s
<1>8. OnlyEdited(a.table, t, rc)
  BY <1>4, <1>5, <1>7, OneChanged
<1> HIDE DEF t
<1>9. IsPage(q) /\ q.table = t
  BY <1>4, WithTable
<1> HIDE DEF q
<1>10. Near(p, q, rc)
  <2>1. Near(a, q, rc)
    BY <1>8, <1>9 DEF Near
  <2> QED
    BY <1>3, <2>1, NearBoth
<1> QED
  BY <1>1, <1>3, <1>6, <1>10

\* config_refresh_all_fields: no button but the one being edited is changed.
LEMMA RefreshNear ==
  ASSUME NEW p, IsPage(p), IsTable(p.table), NEW rc, NEW x \in RefreshAll(p, rc)
  PROVE  OnlyEdited(p.table, x.table, rc)
<1>1. PICK q \in Noisily(p, rc) : x = Replaced(q)
  BY Zenon DEF RefreshAll, Noisily, No
<1>2. Near(p, q, rc)
  <2>1. CASE ~Known(p, rc)
    <3>1. q = p
      BY <1>1, <2>1 DEF Noisily, Refresh
    <3> QED
      BY <3>1, NearItself
  <2>2. CASE Known(p, rc)
    <3> DEFINE s == SetOf(p, rc)
               a == NoisyBoxes(p, rc, s)
    <3>1. PICK b \in ShowEntries(a, rc, s) : \E c \in NoisyLists(b, rc, s) :
            \E n : q = Shown(NoisyTarget(c, rc, n))
      <4>1. q \in Refresh(p, rc, No)
        BY <1>1 DEF Noisily
      <4> QED
        BY <2>2, <4>1, RefreshedBy DEF NoisyBoxes, NoisyLists, NoisyTarget
    <3>2. PICK c \in NoisyLists(b, rc, s) : \E n : q = Shown(NoisyTarget(c, rc, n))
      BY <3>1
    <3>3. PICK n : q = Shown(NoisyTarget(c, rc, n))
      BY <3>2
    <3> HIDE DEF s
    <3>4. Near(p, a, rc) /\ IsPage(a) /\ IsTable(a.table)
      BY BoxesNear
    <3> HIDE DEF a
    <3>5. Near(a, b, rc)
      BY <3>1, <3>4, EntriesNear
    <3>6. Near(p, b, rc) /\ IsPage(b) /\ IsTable(b.table)
      BY <3>4, <3>5, NearBoth
    <3>7. Near(b, c, rc)
      BY <3>2, <3>6, ListsNear
    <3>8. Near(p, c, rc) /\ IsPage(c) /\ IsTable(c.table)
      BY <3>6, <3>7, NearBoth
    <3> DEFINE d == NoisyTarget(c, rc, n)
    <3>9. Known(c, rc)
      BY <2>2, <3>8, StillKnown
    <3>10. Near(c, d, rc)
      BY <3>8, <3>9, TargetNear
    <3>11. q = Shown(d)
      BY <3>3
    <3> HIDE DEF d
    <3>12. Near(p, d, rc) /\ IsPage(d)
      BY <3>8, <3>10, NearBoth
    <3>13. IsPage(q) /\ q.table = d.table
      BY <3>11, <3>12, ShownIs
    <3> QED
      BY <3>12, <3>13 DEF Near
  <2> QED
    BY <2>1, <2>2
<1>3. x.table = q.table
  BY <1>1, <1>2 DEF Near, IsPage, Replaced
<1> QED
  BY <1>2, <1>3 DEF Near

\* tree_configs_row_activated, whatever the editor shows.
LEMMA OpenKeepsOthers ==
  ASSUME EditorInv, NEW i, Open(i)
  PROVE  LET t == Parse(Lines(files', names'[cur'])).table
         IN  /\ Len(page'.table) = Len(t)
             /\ \A k \in 1..Len(t) : /\ page'.table[k].rawcode = t[k].rawcode
                                     /\ t[k].rawcode # edit => page'.table[k] = t[k]
<1> DEFINE t == Parse(Lines(files', names[i])).table
           q == [Cleared(page) EXCEPT !.table = t]
<1>1. PageTyped(page) /\ ~page.fired /\ names \in Seq(AllNames)
  BY DEF EditorInv, PageOK
<1>2. FilesOK(Saved(files))
  BY SavedRight
<1>3. /\ i \in 1..Len(names) /\ files' = Saved(files)
      /\ names' = names /\ cur' = i /\ page' \in Opened(page, edit, names, i, files')
  BY DEF Open
<1>4. names[i] \in AllNames
  BY <1>1, <1>3
<1>5. SoundTable(t)
  <2>1. FilesOK(files')
    BY <1>2, <1>3
  <2> QED
    BY <1>4, <2>1, LinesRight
<1>6. page' \in RefreshAll(q, edit)
  BY <1>3 DEF Opened
<1>7. t = Parse(Lines(files', names'[cur'])).table
  BY <1>3
<1> HIDE DEF t
<1>8. IsPage(q) /\ q.table = t
  BY <1>1, <1>5, OpenedIs DEF PageTyped
<1> HIDE DEF q
<1>9. IsTable(t)
  BY <1>5, TableHas DEF IsTable
<1>10. OnlyEdited(t, page'.table, edit)
  BY <1>6, <1>8, <1>9, RefreshNear
<1> QED
  BY <1>7, <1>10 DEF OnlyEdited
-----------------------------------------------------------------------------
(* What the careful user sees. *)

\* The inductive invariant of the button editor.
THEOREM EditorInvariant == CarefulSpec => [](careful => EditorInv)
<1>1. Init => EditorInv
  BY InitRight
<1>2. ASSUME EditorInv, CarefulNext
      PROVE  EditorInv'
  <2>1. /\ PageOK(page, edit) /\ FilesOK(files)
        /\ edit \in Nat /\ cur \in Nat /\ edits \in Nat /\ names \in Seq(AllNames)
    BY <1>2 DEF EditorInv
  <2>2. /\ PageOK(page', edit') /\ FilesOK(files')
        /\ edit' \in Nat /\ cur' \in Nat /\ edits' \in Nat /\ names' \in Seq(AllNames)
        => EditorInv'
    BY DEF EditorInv
  <2>14. Counted => edits' \in Nat
    BY <2>1 DEF Counted
  <2>4. CASE \E r \in 1..Len(page.rows) : Select(r)
    <3>1. PICK r \in 1..Len(page.rows) : Select(r)
      BY <2>4
    <3>2. PageOK(page', edit') /\ edit' \in Nat
      BY <1>2, <3>1, SelectRight
    <3> QED
      BY <2>1, <2>2, <3>1, <3>2 DEF Select
  <2>5. ASSUME NEW f \in Fields, NEW v \in Offers(f), Type(f, v)
        PROVE  EditorInv'
    <3>1. PageOK(page', edit')
      BY <1>2, <2>5, TypeRight
    <3>2. UNCHANGED <<edit, names, cur, files>> /\ Counted
      BY <2>5, Zenon DEF Type
    <3> QED
      BY <2>1, <2>2, <2>14, <3>1, <3>2
  <2>6. ASSUME NEW f \in Fields, NEW v \in Offers(f), f = "evtype" => ~Refused(page.w),
               Click(f, v)
        PROVE  EditorInv'
    <3>1. PageOK(page', edit')
      BY <1>2, <2>6, ClickRight
    <3>2. UNCHANGED <<edit, names, cur, files>> /\ Counted
      BY <2>6, Zenon DEF Click
    <3> QED
      BY <2>1, <2>2, <2>14, <3>1, <3>2
  <2>7. CASE page.sel # 0 /\ DeleteButton
    <3>1. PageOK(page', edit') /\ edit' \in Nat
      BY <1>2, <2>7, DeleteRight
    <3>2. UNCHANGED <<names, cur, files>> /\ Counted
      BY <2>7, Zenon DEF DeleteButton
    <3> QED
      BY <2>1, <2>2, <2>14, <3>1, <3>2
  <2>8. ASSUME NEW rc \in Rawcodes, NEW n, Quiet(WithButton(page, rc, n), edit), Detect(rc, n)
        PROVE  EditorInv'
    <3>1. PageOK(page', edit')
      BY <1>2, <2>8, DetectRight
    <3>2. UNCHANGED <<edit, names, cur, files>> /\ Counted
      BY <2>8, Zenon DEF Detect
    <3> QED
      BY <2>1, <2>2, <2>14, <3>1, <3>2
  <2>9. CASE Save
    <3>1. FilesOK(Saved(files))
      BY <1>2, SavedRight
    <3> QED
      BY <2>1, <2>2, <2>9, <3>1 DEF Save
  <2>10. ASSUME NEW i \in 1..Len(names), OpensQuietly(i, page, names, Saved(files)), Open(i)
         PROVE  EditorInv'
    <3>1. PageOK(page', edit') /\ FilesOK(files')
      BY <1>2, <2>10, OpenRight
    <3>2. UNCHANGED <<edit, names, edits>> /\ cur' = i
      BY <2>10, Zenon DEF Open
    <3> QED
      BY <2>1, <2>2, <2>10, <3>1, <3>2
  <2>11. ASSUME NEW i \in 1..Len(names), DeleteConfig(i), DeletesQuietly(i)
         PROVE  EditorInv'
    <3>1. PageOK(page', edit') /\ FilesOK(files') /\ names' \in Seq(AllNames) /\ cur' \in Nat
      BY <1>2, <2>11, DeleteConfigRight
    <3>2. UNCHANGED edit /\ Counted
      BY <2>11, Zenon DEF DeleteConfig
    <3> QED
      BY <2>1, <2>2, <2>14, <3>1, <3>2
  <2>12. ASSUME NEW copy \in BOOLEAN, New(copy)
         PROVE  EditorInv'
    <3>1. PageOK(page', edit') /\ names' \in Seq(AllNames) /\ cur' \in Nat
      BY <1>2, <2>12, NewRight
    <3>2. UNCHANGED <<edit, files>> /\ Counted
      BY <2>12, Zenon DEF New
    <3> QED
      BY <2>1, <2>2, <2>14, <3>1, <3>2
  <2>13. ASSUME NEW n \in Range(NewNames), Rename(n)
         PROVE  EditorInv'
    <3>1. names' \in Seq(AllNames) /\ FilesOK(files')
      BY <1>2, <2>13, RenameRight
    <3>2. UNCHANGED <<page, edit, cur>> /\ Counted
      BY <2>13, Zenon DEF Rename
    <3> QED
      BY <2>1, <2>2, <2>14, <3>1, <3>2
  <2> QED
    BY <1>2, <2>4, <2>5, <2>6, <2>7, <2>8, <2>9, <2>10, <2>11, <2>12, <2>13, Zenon
    DEF CarefulNext
<1>3. ASSUME EditorInv, UNCHANGED vars
      PROVE  EditorInv'
  <2>1. UNCHANGED <<page, edit, names, cur, files, edits>>
    BY <1>3, Zenon DEF vars
  <2> QED
    BY <1>3, <2>1 DEF EditorInv
<1>4. ASSUME careful => EditorInv, [careful /\ Next]_vars
      PROVE  careful' => EditorInv'
  <2>1. CASE UNCHANGED vars
    <3>1. careful' = careful
      BY <2>1, Zenon DEF vars
    <3> QED
      BY <1>3, <1>4, <2>1, <3>1, Zenon
  <2>2. CASE careful /\ Next
    BY <1>2, <1>4, <2>2, Zenon DEF Next
  <2> QED
    BY <1>4, <2>1, <2>2, Zenon
<1> QED
  BY <1>1, <1>4, PTL DEF CarefulSpec

\* The tree shows the buttons of the table, with their values.
THEOREM TreeIsTable == CarefulSpec => []TreeShowsTable
<1>1. ASSUME EditorInv
      PROVE  /\ Len(page.rows) = Len(page.table)
             /\ \A i \in 1..Len(page.rows) : ShowsAs(page.table[i], page.rows[i])
  BY <1>1 DEF EditorInv, PageOK, TreeOK, RowsShow
<1>2. (careful => EditorInv) => TreeShowsTable
  BY <1>1, Zenon DEF TreeShowsTable
<1> QED
  BY <1>2, EditorInvariant, PTL

\* The row that looks selected is the button the fields edit, and they show it.
THEOREM FieldsAreButton == CarefulSpec => []FieldsShowButton
<1>1. ASSUME EditorInv
      PROVE  FieldsShowButton
  <2>1. TreeOK(page, edit) /\ Faithful(page, edit) /\ Len(page.rows) \in Nat
    <3>1. PageTyped(page) /\ TreeOK(page, edit) /\ Faithful(page, edit)
      BY <1>1 DEF EditorInv, PageOK
    <3>2. Len(page.rows) \in Nat
      BY <3>1, RowsHave DEF PageTyped, TreeOK
    <3> QED
      BY <3>1, <3>2
  <2>2. SelectedIsEdited
    BY <2>1 DEF SelectedIsEdited, TreeOK, Selected
  <2>3. ASSUME Known(page, edit), ~Refused(page.w)
        PROVE  page.sens = SetOf(page, edit).evtype /\ Shows(Stored(page.w), SetOf(page, edit))
    BY <2>1, <2>3 DEF Faithful
  <2> DEFINE s == SetOf(page, edit)
             w == Stored(page.w)
  <2>4. Shows(w, s) => /\ \A f \in {"enabled", "delay", "uid", "evtype"} : w[f] = s[f]
                       /\ w.name = OrEmpty(s.name) /\ w.command = OrEmpty(s.command)
                       /\ w.keycode = OrNone(s.keycode) /\ w.mod = OrNone(s.mod)
                       /\ s.switch_type # CONFIG_SWITCH_NONE => w.switch_type = s.switch_type
                       /\ s.switch_name # NONE => w.switch_name = s.switch_name
    <3> HIDE DEF s, w
    <3> QED
      BY DEF Shows
  <2> QED
    BY <2>2, <2>3, <2>4 DEF FieldsShowButton
<1>2. (careful => EditorInv) => FieldsShowButton
  BY <1>1, Zenon DEF FieldsShowButton
<1> QED
  BY <1>2, EditorInvariant, PTL

\* Whatever the editor has made of the table, saving and opening it again gives
\* every button back.
THEOREM SavedIsRead == CarefulSpec => []TableReadsBack
<1>1. ASSUME EditorInv
      PROVE  TableReadsBack
  <2> DEFINE t == page.table
  <2>1. SoundTable(t)
    BY <1>1 DEF EditorInv, PageOK, PageTyped
  <2> HIDE DEF t
  <2>2. \A k \in 1..Len(t) : t[k].set.keycode # Null /\ t[k].set.mod # Null
    BY <2>1, TableHas, SoundIs, RcOK
  <2>3. PICK S : t \in Seq(S)
    BY <2>1, TableHas
  <2>4. CanBeRead(t)
    BY <2>1, SoundIsRead
  <2>5. ReadsBack(NewMouse, t)
    BY <2>2, <2>3, <2>4, RoundTrip
  <2> QED
    BY <2>5 DEF TableReadsBack, t
<1>2. (careful => EditorInv) => TableReadsBack
  BY <1>1, Zenon DEF TableReadsBack
<1> QED
  BY <1>2, EditorInvariant, PTL

\* Selecting a row is looking, not editing: no button changes but for a target
\* that is no configuration.
THEOREM LookingKeeps == CarefulSpec => SelectKeepsValues
<1> DEFINE Kept ==
      UNCHANGED <<cur, edits>> =>
        /\ Len(page'.table) = Len(page.table)
        /\ \A i \in 1..Len(page.table) : ShowsAs(page'.table[i], page.table[i])
<1>1. ASSUME careful => EditorInv, careful /\ Next
      PROVE  Kept
  <2>1. SUFFICES ASSUME UNCHANGED <<cur, edits>>
                 PROVE  /\ Len(page'.table) = Len(page.table)
                        /\ \A i \in 1..Len(page.table) : ShowsAs(page'.table[i], page.table[i])
    OBVIOUS
  <2>2. EditorInv /\ edits \in Nat
    BY <1>1 DEF EditorInv
  <2>3. ~Counted
    BY <2>1, <2>2 DEF Counted
  <2>4. CASE Save
    <3>1. page'.table = page.table
      BY <2>4 DEF Save
    <3> QED
      BY <3>1 DEF ShowsAs
  <2>5. CASE \E r \in 1..Len(page.rows) : Select(r)
    BY <2>2, <2>5, SelectRight
  <2>6. \A i : ~Open(i)
    BY <2>1 DEF Open
  <2>7. /\ \A f, v : ~Type(f, v) /\ ~Click(f, v)
        /\ ~DeleteButton /\ (\A rc, n : ~Detect(rc, n)) /\ (\A i : ~DeleteConfig(i))
        /\ (\A copy : ~New(copy)) /\ \A n : ~Rename(n)
    BY <2>3, Zenon DEF Type, Click, DeleteButton, Detect, DeleteConfig, New, Rename
  <2>8. ~Trapped
    BY <2>6, <2>7, Zenon DEF Trapped
  <2> QED
    BY <1>1, <2>4, <2>5, <2>6, <2>7, <2>8 DEF Next, CarefulNext
<1>2. ASSUME careful => EditorInv, [careful /\ Next]_vars
      PROVE  [Kept]_vars
  BY <1>1, <1>2, Zenon
<1> QED
  BY <1>2, EditorInvariant, PTL DEF CarefulSpec, SelectKeepsValues

\* Opening a configuration, with any button in the editor and its fields as they
\* may be, gives the buttons its file has, all but the one being edited with
\* the file's settings.
THEOREM OpeningGivesFile == CarefulSpec => OpenShowsFile
<1> DEFINE Given ==
      cur' # cur /\ UNCHANGED edits =>
        \A t \in {Parse(Lines(files', names'[cur'])).table} :
          /\ Len(page'.table) = Len(t)
          /\ \A k \in 1..Len(t) :
               /\ page'.table[k].rawcode = t[k].rawcode
               /\ t[k].rawcode # edit \/ careful' => ShowsAs(page'.table[k], t[k])
<1>1. ASSUME careful => EditorInv, careful /\ Next
      PROVE  Given
  <2> DEFINE t == Parse(Lines(files', names'[cur'])).table
  <2>1. SUFFICES ASSUME cur' # cur, UNCHANGED edits
                 PROVE  /\ Len(page'.table) = Len(t)
                        /\ \A k \in 1..Len(t) :
                             /\ page'.table[k].rawcode = t[k].rawcode
                             /\ t[k].rawcode # edit \/ careful' =>
                                  ShowsAs(page'.table[k], t[k])
    BY Zenon
  <2>2. EditorInv /\ edits \in Nat
    BY <1>1 DEF EditorInv
  <2>3. ~Counted
    BY <2>1, <2>2 DEF Counted
  <2>4. ~Save /\ \A r : ~Select(r)
    BY <2>1 DEF Save, Select
  <2>5. /\ \A f, v : ~Type(f, v) /\ ~Click(f, v)
        /\ ~DeleteButton /\ (\A rc, n : ~Detect(rc, n)) /\ (\A i : ~DeleteConfig(i))
        /\ (\A copy : ~New(copy)) /\ \A n : ~Rename(n)
    BY <2>3, Zenon DEF Type, Click, DeleteButton, Detect, DeleteConfig, New, Rename
  <2>6. CASE CarefulNext
    <3>1. PICK i : OpensQuietly(i, page, names, Saved(files)) /\ Open(i)
      BY <2>4, <2>5, <2>6 DEF CarefulNext
    <3>2. Len(page'.table) = Len(t) /\ \A k \in 1..Len(t) : ShowsAs(page'.table[k], t[k])
      BY <2>2, <3>1, OpenRight
    <3> HIDE DEF t
    <3> QED
      BY <3>2 DEF ShowsAs
  <2>7. CASE Trapped /\ careful' = FALSE
    <3>1. PICK i : Open(i)
      BY <2>5, <2>7, Zenon DEF Trapped
    <3>2. /\ Len(page'.table) = Len(t)
          /\ \A k \in 1..Len(t) : /\ page'.table[k].rawcode = t[k].rawcode
                                  /\ t[k].rawcode # edit => page'.table[k] = t[k]
      BY <2>2, <3>1, OpenKeepsOthers
    <3>3. ~careful'
      BY <2>7, Zenon
    <3> HIDE DEF t
    <3>5. ASSUME NEW k \in 1..Len(t)
          PROVE  /\ page'.table[k].rawcode = t[k].rawcode
                 /\ t[k].rawcode # edit => ShowsAs(page'.table[k], t[k])
      <4>1. /\ page'.table[k].rawcode = t[k].rawcode
            /\ t[k].rawcode # edit => page'.table[k] = t[k]
        BY <3>2
      <4> QED
        BY <4>1, Zenon DEF ShowsAs
    <3>6. \A k \in 1..Len(t) : /\ page'.table[k].rawcode = t[k].rawcode
                               /\ t[k].rawcode # edit \/ careful' =>
                                    ShowsAs(page'.table[k], t[k])
      BY <3>3, <3>5, Zenon
    <3> QED
      BY <3>2, <3>6, Zenon
  <2> QED
    BY <1>1, <2>6, <2>7, Zenon DEF Next
<1>2. ASSUME careful => EditorInv, [careful /\ Next]_vars
      PROVE  [Given]_vars
  BY <1>1, <1>2, Zenon
<1> QED
  BY <1>2, EditorInvariant, PTL DEF CarefulSpec, OpenShowsFile
=============================================================================
