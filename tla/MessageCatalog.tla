--------------------------- MODULE MessageCatalog ---------------------------
(***************************************************************************)
(* What is in a message catalog (a .mo file, src/intl/gmo.h), how it is    *)
(* opened (loadmsgcat.c), how a message is found in it (_nl_find_msg of    *)
(* dcigettext.c) and which of its plural forms is taken (plural-exp.c,     *)
(* eval-plural.h).  No state: functions of a file and a message.           *)
(*                                                                         *)
(* A message is a number that stands for its place in the order of strcmp; *)
(* 0 is "", whose translation is the catalog's header.  A file:            *)
(*   magic      "right", "swapped", or "wrong"; "short": smaller than its  *)
(*              header                                                     *)
(*   major, minor    the revision                                          *)
(*   orig, trans     the messages, in order, and their translations, each  *)
(*                   a sequence of plural forms                            *)
(*   hash       the hash table: 0 or a place in orig; <<>> if there is none*)
(*   segments   the names of the system dependent segments, <<>> for one   *)
(*              without its final NUL                                      *)
(*   sysdep     the pairs that use them: [orig, trans, refs], refs being   *)
(*              the segments in the order the loader meets them            *)
(*   header     [charset, plural, nplurals], NULL for what the header does *)
(*              not say or what cannot be parsed                           *)
(***************************************************************************)
EXTENDS Integers, Sequences, FiniteSets

CONSTANTS
  NULL,
  HashString,  \* HashString[m]: hash-string.c's value for the message m
  ULongs       \* how many values an unsigned long has

-----------------------------------------------------------------------------
(* Opening. *)

Letters == {"d", "i", "o", "u", "x", "X"}
Widths  == {"8", "16", "32", "64", "LEAST8", "LEAST16", "LEAST32", "LEAST64",
            "FAST8", "FAST16", "FAST32", "FAST64", "MAX", "PTR"}

\* get_sysdep_segment_value: the ISO C 99 directives PRI<letter><width>, and glibc's
\* flag I; NULL for anything else.
SegmentValue(name) ==
  IF name = <<"I">> \/ name \in {"PRI"} \X Letters \X Widths THEN name ELSE NULL

\* A pair is scanned up to its first undefined segment, which makes it drop out;
\* a reference past the table that is met before makes the file invalid.
Defined(file, ref) == ref <= Len(file.segments) /\ SegmentValue(file.segments[ref]) # NULL
Kept(file, pair)   == \A i \in DOMAIN pair.refs : Defined(file, pair.refs[i])
PastTable(file, pair) ==
  \E i \in DOMAIN pair.refs :
    /\ pair.refs[i] > Len(file.segments)
    /\ \A j \in 1..(i - 1) : Defined(file, pair.refs[j])

\* The i-th place the double hashing looks at, in a table of that size (from 0).
Step(size, hash, idx) ==
  LET incr == 1 + (hash % (size - 2))
  IN IF idx >= size - incr THEN idx - (size - incr) ELSE idx + incr
Place(size, hash, i) ==
  LET p[k \in Nat] == IF k = 0 THEN hash % size ELSE Step(size, hash, p[k - 1]) IN p[i]

\* The first place the search meets with one of these entries, counted from 1.
\* Catalogs keep an empty place, or the search would not end.
FirstPlace(table, hash, entries) ==
  LET n == Len(table)
      i == CHOOSE j \in 0..(n - 1) :
             /\ table[1 + Place(n, hash, j)] \in entries
             /\ \A k \in 0..(j - 1) : table[1 + Place(n, hash, k)] \notin entries
  IN 1 + Place(n, hash, i)

\* The hash table with the system dependent messages, numbered after the others.
Augmented(table, first, messages) ==
  LET add[k \in Nat] ==
        IF k = 0 THEN table
        ELSE LET t == add[k - 1]
             IN [t EXCEPT ![FirstPlace(t, HashString[messages[k]], {0})] = first + k]
  IN add[Len(messages)]

Hashed(file) == Len(file.hash) > 2
WithSysdep(file) == file.minor >= 1 /\ file.sysdep # <<>>

Invalid(file) ==
  \/ file.magic \in {"wrong", "short"} \/ file.major \notin {0, 1}
  \/ file.minor >= 1 /\ ~Hashed(file)
  \/ WithSysdep(file) /\ \/ <<>> \in {file.segments[i] : i \in DOMAIN file.segments}
                         \/ \E i \in DOMAIN file.sysdep : PastTable(file, file.sysdep[i])

\* _nl_load_domain: the struct loaded_domain, or NULL.
Loaded(file) ==
  IF Invalid(file) THEN NULL
  ELSE LET kept == IF WithSysdep(file) THEN SelectSeq(file.sysdep, LAMBDA s : Kept(file, s)) ELSE <<>>
           sys  == [i \in DOMAIN kept |-> kept[i].orig]
       IN [orig  |-> file.orig \o sys,
           trans |-> file.trans \o [i \in DOMAIN kept |-> kept[i].trans],
           nstrings |-> Len(file.orig),
           hash  |-> IF Hashed(file) THEN Augmented(file.hash, Len(file.orig), sys) ELSE <<>>,
           header |-> file.header]
-----------------------------------------------------------------------------
(* Finding. *)

\* Where the message is among data.orig, or 0: by the hash table if there is one,
\* by binary search otherwise.
Find(data, m) ==
  IF data.hash # <<>>
  THEN data.hash[FirstPlace(data.hash, HashString[m],
                            {0} \cup {e \in DOMAIN data.orig : data.orig[e] = m})]
  ELSE LET n == data.nstrings
           search[range \in (0..n) \X (0..n)] ==
             LET bottom == range[1]
                 top    == range[2]
                 act    == (bottom + top) \div 2
             IN IF bottom >= top THEN 0
                ELSE IF m < data.orig[act + 1] THEN search[<<bottom, act>>]
                ELSE IF m > data.orig[act + 1] THEN search[<<act + 1, top>>]
                ELSE act + 1
       IN search[<<0, n>>]
-----------------------------------------------------------------------------
(* Plural forms. *)

\* A parsed expression is the sequence of its nodes, the arguments of a node (by
\* their places) before it, the whole last: new_exp gets its arguments allocated.
N == [op |-> "var"]
Number(k) == [op |-> "num", num |-> k]
Expr(op, args) == [op |-> op, args |-> args]

\* The Germanic form, n != 1.
GERMANIC_PLURAL == <<N, Number(1), Expr("not_equal", <<1, 2>>)>>

Truth(b) == IF b THEN 1 ELSE 0

\* plural_eval.  unsigned long wraps; a division by zero would raise SIGFPE.
plural_eval(pexp, n) ==
  LET value[i \in DOMAIN pexp] ==
        LET arg(k) == value[pexp[i].args[k]]
        IN CASE pexp[i].op = "var" -> n
             [] pexp[i].op = "num" -> pexp[i].num
             [] pexp[i].op = "lnot" -> Truth(arg(1) = 0)
             [] pexp[i].op = "lor" -> Truth(arg(1) # 0 \/ arg(2) # 0)
             [] pexp[i].op = "land" -> Truth(arg(1) # 0 /\ arg(2) # 0)
             [] pexp[i].op = "mult" -> (arg(1) * arg(2)) % ULongs
             [] pexp[i].op = "divide" -> arg(1) \div arg(2)
             [] pexp[i].op = "module" -> arg(1) % arg(2)
             [] pexp[i].op = "plus" -> (arg(1) + arg(2)) % ULongs
             [] pexp[i].op = "minus" -> (arg(1) - arg(2)) % ULongs
             [] pexp[i].op = "less_than" -> Truth(arg(1) < arg(2))
             [] pexp[i].op = "greater_than" -> Truth(arg(1) > arg(2))
             [] pexp[i].op = "less_or_equal" -> Truth(arg(1) <= arg(2))
             [] pexp[i].op = "greater_or_equal" -> Truth(arg(1) >= arg(2))
             [] pexp[i].op = "equal" -> Truth(arg(1) = arg(2))
             [] pexp[i].op = "not_equal" -> Truth(arg(1) # arg(2))
             [] pexp[i].op = "qmop" -> IF arg(1) # 0 THEN arg(2) ELSE arg(3)
  IN value[Len(pexp)]

\* EXTRACT_PLURAL_EXPRESSION: what the header says, if it says both.
PluralOf(data) ==
  IF Find(data, 0) # 0 /\ data.header.plural # NULL /\ data.header.nplurals # NULL
  THEN [plural |-> data.header.plural, nplurals |-> data.header.nplurals]
  ELSE [plural |-> GERMANIC_PLURAL, nplurals |-> 2]

\* plural_lookup: the form for n among those of a translation, the first one when
\* the header and the translation do not fit.
plural_lookup(data, n, forms) ==
  LET p     == PluralOf(data)
      value == plural_eval(p.plural, n)
      index == IF value >= p.nplurals THEN 0 ELSE value
  IN IF index < Len(forms) THEN forms[index + 1] ELSE forms[1]
=============================================================================
