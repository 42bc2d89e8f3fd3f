----------------------------- MODULE ConfigBook -----------------------------
(***************************************************************************)
(* What the configuration manager promises its user, without names, trees, *)
(* array indices or files: an ordered shelf of configurations, one of them *)
(* being edited.  "kept" are the ones whose values have been written.      *)
(* Closing the program keeps what is being edited; what was created and    *)
(* never written is gone when it starts again.                             *)
(***************************************************************************)
EXTENDS Integers, Sequences, SequencesExt

CONSTANTS Ids, NoId

VARIABLES shelf, edited, kept, up

book == <<shelf, edited, kept, up>>

Fresh == Ids \ (ToSet(shelf) \cup kept)

BInit == shelf = <<>> /\ edited = NoId /\ kept = {} /\ ~up

\* Any two of l are of s, in the same order.
InOrder(l, s) ==
  \A a, b \in 1..Len(l) : a < b =>
    \E i, j \in 1..Len(s) : i < j /\ l[a] = s[i] /\ l[b] = s[j]

\* What the program finds when it starts: what was kept.
Found(l) == ToSet(l) = kept /\ InOrder(l, shelf)

\* The first configuration is opened; an empty shelf gets a new one.
Start ==
  /\ ~up /\ up'
  /\ UNCHANGED kept
  /\ \/ /\ Found(shelf') /\ shelf' # <<>>
        /\ edited' = Head(shelf')
     \/ /\ Found(<<>>)
        /\ \E i \in Fresh : shelf' = <<i>> /\ edited' = i

\* One that an older version left behind is added, and edited.
StartAdding ==
  /\ ~up /\ up'
  /\ Found(Front(shelf'))
  /\ \E i \in Fresh : /\ shelf' = Append(Front(shelf'), i)
                      /\ edited' = i
                      /\ kept' = kept \cup {i}

Create ==
  /\ up
  /\ \E i \in Fresh : shelf' = Append(shelf, i) /\ edited' = i
  /\ UNCHANGED <<kept, up>>

Write ==
  /\ up /\ edited # NoId
  /\ kept' = kept \cup {edited}
  /\ UNCHANGED <<shelf, edited, up>>

\* Opening another configuration writes the one that was edited.
OpenOther(i) ==
  /\ up /\ edited # NoId
  /\ kept' = kept \cup {edited}
  /\ edited' = shelf[i]
  /\ UNCHANGED <<shelf, up>>

\* Whoever is edited stays so, unless it is what goes: then the next one on the
\* shelf takes its place, or the last one.
Discard(i) ==
  /\ up
  /\ shelf' = RemoveAt(shelf, i)
  /\ kept' = kept \ {shelf[i]}
  /\ edited' = IF edited # shelf[i] THEN edited
               ELSE IF shelf' = <<>> THEN NoId
               ELSE IF i = Len(shelf) THEN Last(shelf') ELSE shelf'[i]
  /\ UNCHANGED up

Exchange(i) ==
  /\ up
  /\ shelf' = [shelf EXCEPT ![i] = shelf[i + 1], ![i + 1] = shelf[i]]
  /\ UNCHANGED <<edited, kept, up>>

Close ==
  /\ up /\ ~up'
  /\ kept' = kept \cup ({edited} \ {NoId})
  /\ edited' = NoId
  /\ UNCHANGED shelf

BNext ==
  \/ Start \/ StartAdding \/ Create \/ Write \/ Close
  \/ \E i \in 1..Len(shelf) : OpenOther(i) \/ Discard(i)
  \/ \E i \in 1..Len(shelf) - 1 : Exchange(i)

BSpec == BInit /\ [][BNext]_book
=============================================================================
