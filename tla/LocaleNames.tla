---------------------------- MODULE LocaleNames ----------------------------
(***************************************************************************)
(* From the name of a locale, language[_territory][.codeset][@modifier],   *)
(* to the files that may hold its catalog: explodename.c, l10nflist.c and  *)
(* loadinfo.h of src/intl.                                                 *)
(*                                                                         *)
(* A name is a record of its four parts, "" for one that is missing or     *)
(* empty; the language is there.  A set of parts is a mask, as in the      *)
(* code.  A file name is kept as the pieces it is put together from.       *)
(***************************************************************************)
EXTENDS Integers, Sequences, FiniteSets

CONSTANT Normal  \* Normal[c]: the codeset c as _nl_normalize_codeset spells it

XPG_NORM_CODESET == 1
XPG_CODESET      == 2
XPG_TERRITORY    == 4
XPG_MODIFIER     == 8
XPG_Bits == {XPG_NORM_CODESET, XPG_CODESET, XPG_TERRITORY, XPG_MODIFIER}

Has(mask, bit) == (mask \div bit) % 2 = 1

\* _nl_explode_name: which parts the name has.  The normalised codeset is a part
\* of its own if it is spelled differently.
Mask(name) ==
    (IF name.territory # "" THEN XPG_TERRITORY ELSE 0)
  + (IF name.codeset # "" THEN XPG_CODESET ELSE 0)
  + (IF name.codeset # "" /\ Normal[name.codeset] # name.codeset THEN XPG_NORM_CODESET ELSE 0)
  + (IF name.modifier # "" THEN XPG_MODIFIER ELSE 0)

\* The file name _nl_make_l10nflist puts together.
Path(dir, name, mask, domain) ==
  [dir       |-> dir,
   language  |-> name.language,
   territory |-> IF Has(mask, XPG_TERRITORY) THEN name.territory ELSE "",
   codesets  |-> (IF Has(mask, XPG_CODESET) THEN <<name.codeset>> ELSE <<>>)
                 \o (IF Has(mask, XPG_NORM_CODESET) THEN <<Normal[name.codeset]>> ELSE <<>>),
   modifier  |-> IF Has(mask, XPG_MODIFIER) THEN name.modifier ELSE "",
   domain    |-> domain]

\* The name taken as it is written, for _nl_find_domain's first look into the list.
Written(name) == Mask(name) - (Mask(name) % 2)

\* A file name with both spellings of the codeset is not worth looking up.
BothCodesets(mask) == Has(mask, XPG_CODESET) /\ Has(mask, XPG_NORM_CODESET)

\* The masks whose files an entry inherits from: parts of its own mask only.
Inherited(mask) ==
  {cnt \in 0..(mask - 1) : ~BothCodesets(cnt) /\ \A b \in XPG_Bits : Has(cnt, b) => Has(mask, b)}

\* Counted down from the entry's own mask: the bits are dropped smallest first.
Descending(S) ==
  [i \in 1..Cardinality(S) |-> CHOOSE n \in S : Cardinality({k \in S : k > n}) = i - 1]
Successors == [mask \in 0..15 |-> Descending(Inherited(mask))]

\* All files that are looked at for the name, in that order.
Chain(dir, name, mask, domain) ==
  LET path[m \in 0..15] == Path(dir, name, m, domain)
      masks == Successors[mask]
  IN <<path[mask]>> \o [i \in DOMAIN masks |-> path[masks[i]]]
=============================================================================
