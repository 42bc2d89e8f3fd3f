------------------------- MODULE BtnDetectionProofs -------------------------
(***************************************************************************)
(* The detection (BtnDetection): for every set of codes, the table of raw  *)
(* codes counts the presses, the dialog lists it in order and, with limits *)
(* MaxPresses <= 3 * DetectionPresses, the code a detection settles on is a*)
(* clear winner.  VoteInv is inductive given TypeOK; VoteIsClear follows.  *)
(*                                                                         *)
(* The session (BtnSession): for any codes, limits, number of children and *)
(* length of the pipes, the session with its processes behaves as          *)
(* BtnDetection does, a detection that runs has a child, no child is left  *)
(* listening, Add is offered for what was announced, and Cancel puts the   *)
(* button table back.                                                      *)
(***************************************************************************)
EXTENDS BtnSession, SequencesExt, FiniteSetTheorems, SequenceTheorems,
        WellFoundedInduction, TLAPS

-----------------------------------------------------------------------------
(* Sequences and sets of numbers. *)

\* A set of numbers that is not empty has its Min in it, and none is less.
LEMMA MinIsLeast ==
  ASSUME NEW S \in SUBSET Nat, S # {}
  PROVE  Min(S) \in S /\ \A n \in S : Min(S) <= n
<1>1. \E m \in S : \A n \in S : ~ (<<n, m>> \in OpToRel(<, Nat))
  BY WFMin, NatLessThanWellFounded, Zenon
<1>2. PICK m \in S : \A n \in S : ~ (<<n, m>> \in OpToRel(<, Nat))
  BY <1>1
<1>3. ASSUME NEW n \in S, n < m
      PROVE  FALSE
  <2>1. <<n, m>> \in Nat \X Nat
    OBVIOUS
  <2>2. <<n, m>>[1] = n /\ <<n, m>>[2] = m
    OBVIOUS
  <2>3. <<n, m>> \in OpToRel(<, Nat)
    BY <1>3, <2>1, <2>2, Zenon DEF OpToRel
  <2> QED
    BY <1>2, <2>3
<1>4. \A n \in S : m <= n
  BY <1>3
<1> QED
  BY <1>4 DEF Min

\* Induction over the natural numbers, for a set of them.
LEMMA InductOn ==
  ASSUME NEW S, 0 \in S, \A n \in Nat : n \in S => n + 1 \in S
  PROVE  Nat \subseteq S
<1> DEFINE T == Nat \ S
<1>1. SUFFICES ASSUME T # {}
               PROVE  FALSE
  OBVIOUS
<1>2. Min(T) \in T /\ \A n \in T : Min(T) <= n
  BY <1>1, MinIsLeast
<1> DEFINE m == Min(T)
<1> HIDE DEF m
<1>3. m \in Nat /\ m \notin S /\ \A n \in Nat : n \notin S => m <= n
  BY <1>2 DEF m
<1>4. m - 1 \in Nat /\ m - 1 \in S
  BY <1>3
<1> QED
  BY <1>3, <1>4

-----------------------------------------------------------------------------
USE CodesOK, PressesOK, ForkFailsOK DEF NoCode, AnyCode

\* rawcodes_free leaves a table.
LEMMA EmptyTable == <<>> \in Table
BY DEF Table

\* rawcodes_find finds the code that is there.
LEMMA FindsIt ==
  ASSUME NEW rs \in Table, NEW c \in Codes, Found(rs, c)
  PROVE  rawcodes_find(rs, c) \in DOMAIN rs /\ rs[rawcodes_find(rs, c)].code = c
BY DEF Found, rawcodes_find

\* rawcodes_report returns a table.
LEMMA ReportType ==
  ASSUME NEW rs \in Table, NEW c \in Codes
  PROVE  rawcodes_report(rs, c) \in Table
<1> DEFINE i == rawcodes_find(rs, c)
<1>1. CASE Found(rs, c)
  <2>1. i \in DOMAIN rs
    BY <1>1, FindsIt
  <2> HIDE DEF i
  <2>2. i \in 1..Len(rs) /\ rs[i] \in Entry
    BY <2>1, ElementOfSeq, LenProperties DEF Table
  <2>3. [rs[i] EXCEPT !.pressed = @ + 1] \in Entry
    BY <2>2 DEF Entry
  <2>4. [rs EXCEPT ![i] = [rs[i] EXCEPT !.pressed = @ + 1]] \in Table
    BY <2>2, <2>3, ExceptSeq DEF Table
  <2> QED
    BY <1>1, <2>4 DEF rawcodes_report, i
<1>2. CASE ~Found(rs, c)
  BY <1>2 DEF rawcodes_report, Table, Entry
<1> QED
  BY <1>1, <1>2

\* A step from a state of the right types leads to another.
LEMMA TypeStep ==
  ASSUME TypeOK, [Next]_vars
  PROVE  TypeOK'
<1> USE DEF TypeOK, counters, widgets, InitBtnd, EnableSave
<1>1. CASE OpenWindow
  BY <1>1 DEF OpenWindow
<1>2. ASSUME NEW c \in AnyCode, EditButtons(c)
      PROVE  TypeOK'
  BY <1>2 DEF EditButtons
<1>3. CASE Start
  BY <1>3, EmptyTable DEF Start, ResetCounters, Usable
<1>4. CASE StartFails
  BY <1>4, EmptyTable DEF StartFails, ResetCounters, Usable
<1>5. CASE Stop
  BY <1>5 DEF Stop, Usable
<1>6. ASSUME NEW c \in Codes, Report(c)
      PROVE  TypeOK'
  <2> rcs' = rawcodes_report(rcs, c)
    BY <1>6 DEF Report
  <2> rcs' \in Table
    BY ReportType
  <2>1. total' \in Nat /\ presses' \in [Codes -> Nat] /\ rcs' \in Table
    BY <1>6 DEF Report
  <2>2. CASE Exhaust(c)
    BY <1>6, <2>1, <2>2 DEF Report, Exhaust
  <2>3. CASE Ignore(c)
    BY <1>6, <2>1, <2>3 DEF Report, Ignore
  <2>4. CASE Count(c)
    <3>1. cur' \in AnyCode /\ num' \in Nat /\ votes' \in [Codes -> Nat]
      BY <2>4 DEF Count, Leader, Lead, NoLead
    <3>2. /\ detecting' \in BOOLEAN /\ addOn' \in BOOLEAN /\ dialog' \in BOOLEAN
          /\ label' \in {"start", "stop"} /\ settled' \in AnyCode
      BY <2>4, <3>1 DEF Count
    <3> QED
      BY <1>6, <2>1, <3>1, <3>2 DEF Report
  <2> QED
    BY <1>6, <2>2, <2>3, <2>4 DEF Report
<1>7. CASE Add
  BY <1>7 DEF Add, WithButton, Usable
<1>8. CASE Ok
  BY <1>8 DEF Ok, Usable
<1>9. CASE Cancel
  BY <1>9 DEF Cancel, Usable
<1>10. ASSUME NEW c \in Codes, DialogOk(c)
       PROVE  TypeOK'
  BY <1>10 DEF DialogOk, Offered
<1>11. CASE DialogCancel
  BY <1>11 DEF DialogCancel
<1>12. CASE LateTimer
  BY <1>12 DEF LateTimer
<1>13. CASE UNCHANGED vars
  BY <1>13 DEF vars
<1> QED
  BY <1>1, <1>2, <1>3, <1>4, <1>5, <1>6, <1>7, <1>8, <1>9, <1>10, <1>11, <1>12, <1>13
  DEF Next

\* Every variable keeps its type, whatever is pressed and clicked.
THEOREM TypeCorrect == Spec => []TypeOK
<1>1. Init => TypeOK
  <2> SUFFICES ASSUME Init
               PROVE  TypeOK
    OBVIOUS
  <2> QED
    BY EmptyTable DEF Init, TypeOK
<1> QED
  BY <1>1, TypeStep, PTL DEF Spec
-----------------------------------------------------------------------------
\* One more press of c, counted: the bounds on the lead survive it.
LEMMA CountKeepsBounds ==
  ASSUME TypeOK, VoteInv, NEW c \in Codes, Report(c), Count(c)
  PROVE  num' <= DetectionPresses /\ LeadBounds'
<1> USE DEF TypeOK
<1>1. /\ cur \in AnyCode /\ num \in Nat /\ total \in Nat /\ votes \in [Codes -> Nat]
      /\ num < DetectionPresses /\ LeadBounds
  BY DEF Report, VoteInv
<1>2. /\ total' = total + 1
      /\ votes' = [votes EXCEPT ![c] = @ + 1]
      /\ cur' = Leader(c) /\ num' = Lead(c)
  BY DEF Report, Count
<1>3. num > 0 => cur \in Codes /\ num <= votes[cur]
  BY <1>1 DEF LeadBounds
<1>4. \A d \in Codes : IF d = cur THEN 2 * votes[d] <= total + num
                                  ELSE 2 * votes[d] + num <= total
  BY <1>1 DEF LeadBounds
<1>5. CASE NoLead
  <2>1. cur' = c /\ num' = 1
    BY <1>2, <1>5 DEF Leader, Lead
  <2>2. num = 0
    BY <1>1, <1>3, <1>5 DEF NoLead
  <2>3. ASSUME NEW d \in Codes
        PROVE  2 * votes[d] <= total
    <3>1. votes[d] \in Nat
      BY <1>1
    <3> QED
      BY <1>1, <1>4, <2>2, <3>1
  <2>4. votes'[c] = votes[c] + 1 /\ \A d \in Codes \ {c} : votes'[d] = votes[d]
    BY <1>1, <1>2
  <2>5. /\ 1 <= votes'[c] /\ 2 * votes'[c] <= total' + 1
        /\ \A d \in Codes \ {c} : 2 * votes'[d] + 1 <= total'
    BY <1>1, <1>2, <2>3, <2>4
  <2> QED
    BY <2>1, <2>5 DEF LeadBounds
<1>6. CASE ~NoLead /\ c = cur
  <2>1. cur' = c /\ num' = num + 1
    BY <1>2, <1>6 DEF Leader, Lead
  <2>2. num > 0
    BY <1>1, <1>6 DEF NoLead
  <2> QED
    BY <1>1, <1>2, <1>3, <1>4, <1>6, <2>1, <2>2 DEF LeadBounds
<1>7. CASE ~NoLead /\ c # cur
  <2>1. cur' = cur /\ num' = num - 1
    BY <1>2, <1>7 DEF Leader, Lead
  <2>2. num > 0
    BY <1>1, <1>7 DEF NoLead
  <2> QED
    BY <1>1, <1>2, <1>3, <1>4, <1>7, <2>1, <2>2 DEF LeadBounds
<1> QED
  BY <1>5, <1>6, <1>7

\* The counters alone decide VoteInv, with detecting and dialog.
LEMMA VoteStep ==
  ASSUME TypeOK, VoteInv, [Next]_vars
  PROVE  VoteInv'
<1> USE DEF TypeOK, VoteInv
<1>1. ASSUME UNCHANGED <<counters, dialog, detecting>>
      PROVE  VoteInv'
  BY <1>1 DEF counters, LeadBounds
<1>2. CASE OpenWindow
  BY <1>1, <1>2 DEF OpenWindow
<1>3. ASSUME NEW c \in AnyCode, EditButtons(c)
      PROVE  VoteInv'
  BY <1>1, <1>3 DEF EditButtons
<1>4. CASE Start \/ StartFails
  <2>1. /\ num' = 0 /\ total' = 0 /\ cur' = NoCode
        /\ votes' = [c \in Codes |-> 0] /\ dialog' = FALSE
    BY <1>4 DEF Start, StartFails, ResetCounters, Usable
  <2>2. LeadBounds'
    BY <2>1 DEF LeadBounds
  <2> QED
    BY <2>1, <2>2
<1>5. CASE Stop
  BY <1>5 DEF Stop, Usable, counters, LeadBounds
<1>6. ASSUME NEW c \in Codes, Report(c)
      PROVE  VoteInv'
  <2>1. num < DetectionPresses /\ LeadBounds /\ detecting /\ ~dialog
    BY <1>6 DEF Report
  <2>2. CASE Exhaust(c)
    BY <2>1, <2>2 DEF Exhaust
  <2>3. CASE Ignore(c)
    BY <1>6, <2>1, <2>3 DEF Report, Ignore, LeadBounds
  <2>4. CASE Count(c)
    <3>1. num' <= DetectionPresses /\ LeadBounds'
      BY <1>6, <2>4, CountKeepsBounds
    <3>2. total' < MaxPresses /\ dialog' = FALSE
      BY <1>6, <2>1, <2>4 DEF Report, Count
    <3>3. num' \in Nat
      BY <1>6, TypeStep DEF Next
    <3>4. detecting' => num' < DetectionPresses
      BY <2>4, <3>1, <3>3 DEF Count
    <3> QED
      BY <3>1, <3>2, <3>3, <3>4
  <2> QED
    BY <1>6, <2>2, <2>3, <2>4 DEF Report
<1>7. CASE Add
  BY <1>1, <1>7 DEF Add
<1>8. CASE Ok
  BY <1>1, <1>8 DEF Ok
<1>9. CASE Cancel
  BY <1>9 DEF Cancel, Usable, counters, LeadBounds
<1>10. ASSUME NEW c \in Codes, DialogOk(c)
       PROVE  VoteInv'
  BY <1>10 DEF DialogOk
<1>11. CASE DialogCancel
  BY <1>11 DEF DialogCancel, counters
<1>12. CASE LateTimer
  BY <1>1, <1>12 DEF LateTimer
<1>13. CASE UNCHANGED vars
  BY <1>1, <1>13 DEF vars
<1> QED
  BY <1>2, <1>3, <1>4, <1>5, <1>6, <1>7, <1>8, <1>9, <1>10, <1>11, <1>12, <1>13
  DEF Next

\* The lead never exceeds what the presses justify, and the modal dialog never
\* opens on a running or a finished count.
THEOREM VoteInvariant == Spec => []VoteInv
<1>1. Init => VoteInv
  BY DEF Init, VoteInv, LeadBounds
<1> QED
  BY <1>1, VoteStep, TypeCorrect, PTL DEF Spec

\* A settled count has one winner: with at most 3 * DetectionPresses - 1 presses
\* behind it, no other code has DetectionPresses of them.
LEMMA ClearWinner ==
  ASSUME TypeOK, VoteInv
  PROVE  VoteIsClear
<1> SUFFICES ASSUME num = DetectionPresses
             PROVE  /\ cur \in Codes
                    /\ votes[cur] >= DetectionPresses
                    /\ \A c \in Codes \ {cur} : votes[c] < votes[cur]
  BY DEF VoteIsClear
<1> USE DEF TypeOK
<1>1. LeadBounds /\ total < MaxPresses
  BY DEF VoteInv
<1>2. cur \in Codes /\ DetectionPresses <= votes[cur]
  BY <1>1 DEF LeadBounds
<1>3. ASSUME NEW c \in Codes \ {cur}
      PROVE  votes[c] < votes[cur]
  <2>1. 2 * votes[c] + DetectionPresses <= total
    BY <1>1 DEF LeadBounds
  <2>2. votes[c] \in Nat /\ votes[cur] \in Nat
    BY <1>2
  <2> QED
    BY <1>1, <1>2, <2>1, <2>2
<1> QED
  BY <1>2, <1>3

\* Whatever is pressed, in whatever order: the code a detection announces was
\* pressed DetectionPresses times and more often than any other free code.
THEOREM VoteClear == Spec => []VoteIsClear
<1> QED
  BY ClearWinner, TypeCorrect, VoteInvariant, PTL
-----------------------------------------------------------------------------
\* One more press, in the table and in the count of all presses.
LEMMA ReportCounts ==
  ASSUME TypeOK, TableCounts, NEW c \in Codes, Report(c)
  PROVE  TableCounts'
<1> DEFINE i == rawcodes_find(rcs, c)
<1>1. /\ rcs \in Table /\ presses \in [Codes -> Nat]
      /\ rcs' = rawcodes_report(rcs, c)
      /\ presses' = [presses EXCEPT ![c] = @ + 1]
  BY DEF TypeOK, Report
<1>2. /\ \A j, k \in DOMAIN rcs : rcs[j].code = rcs[k].code => j = k
      /\ \A j \in DOMAIN rcs : rcs[j].pressed = presses[rcs[j].code]
      /\ \A d \in Codes : presses[d] > 0 => \E j \in DOMAIN rcs : rcs[j].code = d
  BY DEF TableCounts, Found
<1>3. \A j \in DOMAIN rcs : rcs[j] \in Entry /\ j \in 1..Len(rcs)
  BY <1>1, ElementOfSeq, LenProperties DEF Table
<1>4. /\ presses'[c] = presses[c] + 1 /\ presses'[c] > 0
      /\ \A d \in Codes \ {c} : presses'[d] = presses[d]
  BY <1>1
<1>5. CASE Found(rcs, c)
  <2>1. i \in DOMAIN rcs /\ rcs[i].code = c
    BY <1>1, <1>5, FindsIt
  <2>2. rcs' = [rcs EXCEPT ![i] = [rcs[i] EXCEPT !.pressed = @ + 1]]
    BY <1>1, <1>5 DEF rawcodes_report
  <2> HIDE DEF i
  <2>3. /\ DOMAIN rcs' = DOMAIN rcs
        /\ rcs'[i] = [rcs[i] EXCEPT !.pressed = @ + 1]
        /\ \A j \in DOMAIN rcs \ {i} : rcs'[j] = rcs[j]
    BY <2>1, <2>2
  <2>4. rcs[i] \in Entry
    BY <1>3, <2>1
  <2>5. rcs'[i].code = c /\ rcs'[i].pressed = rcs[i].pressed + 1
    BY <2>1, <2>3, <2>4 DEF Entry
  <2>6. \A j \in DOMAIN rcs : rcs'[j].code = rcs[j].code
    BY <2>1, <2>3, <2>5
  <2>7. \A j \in DOMAIN rcs : rcs'[j].pressed = presses'[rcs'[j].code]
    <3> TAKE j \in DOMAIN rcs
    <3>1. CASE j = i
      BY <1>2, <1>4, <2>1, <2>5, <3>1
    <3>2. CASE j # i
      <4>1. rcs[j].code \in Codes \ {c}
        BY <1>2, <1>3, <2>1, <3>2 DEF Entry
      <4> QED
        BY <1>2, <1>4, <2>3, <3>2, <4>1
    <3> QED
      BY <3>1, <3>2
  <2>8. \A d \in Codes : presses'[d] > 0 => \E j \in DOMAIN rcs' : rcs'[j].code = d
    <3> TAKE d \in Codes
    <3>1. CASE d = c
      BY <2>1, <2>3, <2>5, <3>1
    <3>2. CASE d # c
      BY <1>2, <1>4, <2>3, <2>6, <3>2
    <3> QED
      BY <3>1, <3>2
  <2> QED
    BY <1>2, <2>3, <2>6, <2>7, <2>8 DEF TableCounts, Found
<1>6. CASE ~Found(rcs, c)
  <2>1. rcs' = Append(rcs, [code |-> c, pressed |-> 1])
    BY <1>1, <1>6 DEF rawcodes_report
  <2>2. /\ Len(rcs) \in Nat /\ DOMAIN rcs = 1..Len(rcs)
        /\ DOMAIN rcs' = 1..(Len(rcs) + 1)
        /\ rcs'[Len(rcs) + 1] = [code |-> c, pressed |-> 1]
        /\ \A j \in 1..Len(rcs) : rcs'[j] = rcs[j]
    BY <1>1, <2>1, LenProperties, AppendProperties DEF Table, Entry
  <2>3. presses[c] = 0
    BY <1>1, <1>2, <1>6 DEF Found
  <2>4. \A j \in 1..Len(rcs) : rcs[j].code \in Codes \ {c}
    BY <1>3, <1>6, <2>2 DEF Entry, Found
  <2>5. \A j, k \in DOMAIN rcs' : rcs'[j].code = rcs'[k].code => j = k
    <3> TAKE j, k \in DOMAIN rcs'
    <3>1. CASE j \in 1..Len(rcs) /\ k \in 1..Len(rcs)
      BY <1>2, <2>2, <3>1
    <3>2. CASE j = Len(rcs) + 1 /\ k = Len(rcs) + 1
      BY <3>2
    <3>3. CASE (j \in 1..Len(rcs)) # (k \in 1..Len(rcs))
      BY <2>2, <2>4, <3>3
    <3> QED
      BY <2>2, <3>1, <3>2, <3>3
  <2>6. \A j \in DOMAIN rcs' : rcs'[j].pressed = presses'[rcs'[j].code]
    <3> TAKE j \in DOMAIN rcs'
    <3>1. CASE j \in 1..Len(rcs)
      <4>1. rcs'[j] = rcs[j] /\ j \in DOMAIN rcs /\ rcs[j].code \in Codes \ {c}
        BY <2>2, <2>4, <3>1
      <4>2. rcs[j].pressed = presses[rcs[j].code]
        BY <1>2, <4>1
      <4>3. presses'[rcs[j].code] = presses[rcs[j].code]
        BY <1>4, <4>1
      <4> QED
        BY <4>1, <4>2, <4>3, Zenon
    <3>2. CASE j = Len(rcs) + 1
      <4>1. rcs'[j].code = c /\ rcs'[j].pressed = 1
        BY <2>2, <3>2
      <4>2. presses'[c] = 1
        BY <1>4, <2>3
      <4> QED
        BY <4>1, <4>2
    <3> QED
      BY <2>2, <3>1, <3>2
  <2>7. \A d \in Codes : presses'[d] > 0 => \E j \in DOMAIN rcs' : rcs'[j].code = d
    <3> TAKE d \in Codes
    <3>1. CASE d = c
      <4>1. Len(rcs) + 1 \in DOMAIN rcs'
        BY <2>2
      <4> QED
        BY <2>2, <3>1, <4>1
    <3>2. CASE d # c
      <4> SUFFICES ASSUME presses'[d] > 0
                   PROVE  \E j \in DOMAIN rcs' : rcs'[j].code = d
        OBVIOUS
      <4>1. PICK j \in DOMAIN rcs : rcs[j].code = d
        BY <1>2, <1>4, <3>2
      <4>2. j \in DOMAIN rcs' /\ rcs'[j].code = d
        BY <2>2, <4>1
      <4> QED
        BY <4>2
    <3> QED
      BY <3>1, <3>2
  <2> QED
    BY <2>5, <2>6, <2>7 DEF TableCounts, Found
<1> QED
  BY <1>5, <1>6

\* Nothing else than a press changes the table, and a new detection empties it.
LEMMA TableStep ==
  ASSUME TypeOK, TableCounts, [Next]_vars
  PROVE  TableCounts'
<1>1. ASSUME UNCHANGED <<rcs, presses>>
      PROVE  TableCounts'
  BY <1>1 DEF TableCounts, Found
<1>2. CASE Start \/ StartFails
  BY <1>2 DEF Start, StartFails, ResetCounters, TableCounts, Found
<1>3. ASSUME NEW c \in Codes, Report(c)
      PROVE  TableCounts'
  BY <1>3, ReportCounts
<1>4. CASE OpenWindow \/ Stop \/ LateTimer \/ Add \/ Ok \/ Cancel \/ DialogCancel
  BY <1>1, <1>4 DEF OpenWindow, Stop, LateTimer, Add, Ok, Cancel, DialogCancel, counters
<1>5. ASSUME NEW c \in AnyCode, EditButtons(c)
      PROVE  TableCounts'
  BY <1>1, <1>5 DEF EditButtons, counters
<1>6. ASSUME NEW c \in Codes, DialogOk(c)
      PROVE  TableCounts'
  BY <1>1, <1>6 DEF DialogOk
<1>7. CASE UNCHANGED vars
  BY <1>1, <1>7 DEF vars, counters
<1> QED
  BY <1>2, <1>3, <1>4, <1>5, <1>6, <1>7 DEF Next

\* However often detections are started, stopped and interrupted: the table from which
\* the dialog is filled counts the presses of the present one, each code once.
THEOREM TableIsCount == Spec => []TableCounts
<1>1. Init => TableCounts
  BY DEF Init, TableCounts, Found
<1> QED
  BY <1>1, TableStep, TypeCorrect, PTL DEF Spec
-----------------------------------------------------------------------------
\* What is listed of the entries left of a table whose codes are all different.
Lists(rs, left, l) ==
  /\ l \in Seq(Entry)
  /\ \A k \in 1..Len(l) : \E i \in left : l[k] = rs[i]
  /\ \A i \in left : \E k \in 1..Len(l) : l[k] = rs[i]
  /\ \A k, m \in 1..Len(l) : k < m => l[m].pressed <= l[k].pressed /\ l[k].code # l[m].code

\* rawcodes_get_most_pressed finds an entry while there is one left.
LEMMA MostPressedIs ==
  ASSUME NEW rs \in Table, NEW left \in SUBSET DOMAIN rs, left # {}
  PROVE  /\ MostPressed(rs, left) \in left
         /\ \A j \in left : rs[j].pressed <= rs[MostPressed(rs, left)].pressed
<1>1. /\ Len(rs) \in Nat /\ DOMAIN rs = 1..Len(rs)
      /\ \A j \in DOMAIN rs : rs[j].pressed \in Nat
  <2>1. /\ Len(rs) \in Nat /\ DOMAIN rs = 1..Len(rs)
        /\ \A j \in DOMAIN rs : rs[j] \in Entry
    BY LenProperties, ElementOfSeq DEF Table
  <2> QED
    BY <2>1 DEF Entry
<1> DEFINE Bounded == {n \in Nat : \E b \in Nat : \A j \in left : j <= n => rs[j].pressed <= b}
<1>2. 0 \in Bounded
  BY <1>1
<1>3. ASSUME NEW n \in Nat, n \in Bounded
      PROVE  n + 1 \in Bounded
  <2>1. PICK b \in Nat : \A j \in left : j <= n => rs[j].pressed <= b
    BY <1>3
  <2>2. CASE n + 1 \in left
    <3> DEFINE c == b + rs[n + 1].pressed
    <3>1. c \in Nat /\ \A j \in left : j <= n + 1 => rs[j].pressed <= c
      BY <1>1, <2>1, <2>2
    <3> QED
      BY <3>1
  <2>3. CASE n + 1 \notin left
    <3>1. \A j \in left : j <= n + 1 => rs[j].pressed <= b
      BY <1>1, <2>1, <2>3
    <3> QED
      BY <3>1
  <2> QED
    BY <2>2, <2>3
<1> HIDE DEF Bounded
<1>4. Nat \subseteq Bounded
  BY <1>2, <1>3, InductOn
<1>5. PICK b \in Nat : \A j \in left : rs[j].pressed <= b
  <2>1. Len(rs) \in Bounded
    BY <1>1, <1>4
  <2>2. PICK b \in Nat : \A j \in left : j <= Len(rs) => rs[j].pressed <= b
    BY <2>1 DEF Bounded
  <2>3. \A j \in left : rs[j].pressed <= b
    BY <1>1, <2>2
  <2> QED
    BY <2>3
<1> DEFINE Bounds == {n \in Nat : \A j \in left : rs[j].pressed <= n}
           max == Min(Bounds)
<1>6. max \in Bounds /\ \A n \in Bounds : max <= n
  BY <1>5, MinIsLeast
<1> HIDE DEF max
<1>7. \E i \in left : rs[i].pressed = max
  <2> SUFFICES ASSUME \A i \in left : rs[i].pressed # max
               PROVE  FALSE
    OBVIOUS
  <2>1. PICK k \in left : TRUE
    OBVIOUS
  <2>2. max \in Nat /\ \A j \in left : rs[j].pressed <= max - 1
    BY <1>1, <1>6
  <2>3. max - 1 \in Bounds
    BY <1>1, <2>1, <2>2
  <2> QED
    BY <1>6, <2>2, <2>3
<1> DEFINE Tops == {i \in left : rs[i].pressed = max}
<1>8. Tops \in SUBSET Nat /\ Tops # {}
  BY <1>1, <1>7
<1> HIDE DEF Tops, Bounds
<1>9. Min(Tops) \in Tops /\ \A n \in Tops : Min(Tops) <= n
  BY <1>8, MinIsLeast
<1>10. \E i \in left : /\ \A j \in left : rs[j].pressed <= rs[i].pressed
                       /\ \A j \in left : rs[j].pressed = rs[i].pressed => i <= j
  BY <1>1, <1>6, <1>9 DEF Tops, Bounds
<1> QED
  BY <1>10 DEF MostPressed

\* One row more, in front: the most pressed of what is left.
LEMMA ListsOneMore ==
  ASSUME NEW rs \in Table, NEW left \in SUBSET DOMAIN rs, NEW i \in left, NEW l,
         \A j, k \in DOMAIN rs : rs[j].code = rs[k].code => j = k,
         \A j \in left : rs[j].pressed <= rs[i].pressed,
         Lists(rs, left \ {i}, l)
  PROVE  Lists(rs, left, <<rs[i]>> \o l)
<1> DEFINE m == <<rs[i]>> \o l
<1>1. rs[i] \in Entry /\ \A j \in DOMAIN rs : rs[j] \in Entry
  BY LenProperties, ElementOfSeq DEF Table
<1>2. l \in Seq(Entry) /\ Len(l) \in Nat
  BY LenProperties DEF Lists
<1>3. /\ m \in Seq(Entry) /\ Len(m) = Len(l) + 1 /\ m[1] = rs[i]
      /\ \A k \in 1..Len(l) : m[k + 1] = l[k]
  BY <1>1, <1>2
<1> HIDE DEF m
<1>4. \A k \in 1..Len(m) : k = 1 \/ (k - 1 \in 1..Len(l) /\ m[k] = l[k - 1])
  <2> TAKE k \in 1..Len(m)
  <2>1. k # 1 => k - 1 \in 1..Len(l) /\ (k - 1) + 1 = k
    BY <1>2, <1>3
  <2>2. k - 1 \in 1..Len(l) => m[(k - 1) + 1] = l[k - 1]
    BY <1>3
  <2> QED
    BY <2>1, <2>2
<1>5. \A k \in 1..Len(l) : \E j \in left \ {i} : l[k] = rs[j]
  BY DEF Lists
<1>6. \A k \in 1..Len(m) : \E j \in left : m[k] = rs[j]
  <2> TAKE k \in 1..Len(m)
  <2>1. CASE k = 1
    BY <1>3, <2>1
  <2>2. CASE k # 1
    <3>1. k - 1 \in 1..Len(l) /\ m[k] = l[k - 1]
      BY <1>4, <2>2
    <3> QED
      BY <1>5, <3>1
  <2> QED
    BY <2>1, <2>2
<1>7. \A j \in left : \E k \in 1..Len(m) : m[k] = rs[j]
  <2> TAKE j \in left
  <2>1. CASE j = i
    <3>1. 1 \in 1..Len(m)
      BY <1>2, <1>3
    <3> QED
      BY <1>3, <2>1, <3>1
  <2>2. CASE j # i
    <3>1. PICK k \in 1..Len(l) : l[k] = rs[j]
      BY <2>2 DEF Lists
    <3>2. k + 1 \in 1..Len(m) /\ m[k + 1] = rs[j]
      BY <1>2, <1>3, <3>1
    <3> QED
      BY <3>2
  <2> QED
    BY <2>1, <2>2
<1>8. \A k, n \in 1..Len(m) : k < n => m[n].pressed <= m[k].pressed /\ m[k].code # m[n].code
  <2> TAKE k, n \in 1..Len(m)
  <2> HAVE k < n
  <2>1. n - 1 \in 1..Len(l) /\ m[n] = l[n - 1]
    BY <1>2, <1>3, <1>4
  <2>2. CASE k = 1
    <3>1. PICK j \in left \ {i} : m[n] = rs[j]
      BY <1>5, <2>1
    <3> QED
      BY <1>3, <2>2, <3>1
  <2>3. CASE k # 1
    <3>1. k - 1 \in 1..Len(l) /\ m[k] = l[k - 1] /\ k - 1 < n - 1
      BY <1>4, <2>1, <2>3
    <3> QED
      BY <2>1, <3>1 DEF Lists
  <2> QED
    BY <2>2, <2>3
<1> QED
  BY <1>3, <1>6, <1>7, <1>8 DEF Lists, m

\* dialog_btnd_populate lists every entry of the table once, the most pressed first.
LEMMA PopulateLists ==
  ASSUME NEW rs \in Table, \A j, k \in DOMAIN rs : rs[j].code = rs[k].code => j = k
  PROVE  Lists(rs, DOMAIN rs, dialog_btnd_populate(rs))
<1> DEFINE D == DOMAIN rs
           Top(left) == MostPressed(rs, left)
           Rows(f, left) == IF left = {} THEN <<>> ELSE <<rs[Top(left)]>> \o f[left \ {Top(left)}]
           All(f) == [left \in SUBSET D |-> Rows(f, left)]
           rows == CHOOSE f : f = All(f)
<1>1. D = 1..Len(rs) /\ Len(rs) \in Nat /\ IsFiniteSet(D)
  BY LenProperties, FS_Interval DEF Table
<1>2. dialog_btnd_populate(rs) = rows[D]
  BY DEF dialog_btnd_populate
<1>3. \A left \in SUBSET D :
        /\ IsFiniteSet(left) /\ Cardinality(left) \in Nat
        /\ left # {} => /\ Top(left) \in left /\ left \ {Top(left)} \in SUBSET D
                        /\ Cardinality(left \ {Top(left)}) = Cardinality(left) - 1
                        /\ \A j \in left : rs[j].pressed <= rs[Top(left)].pressed
  <2> TAKE left \in SUBSET D
  <2>1. IsFiniteSet(left) /\ Cardinality(left) \in Nat
    BY <1>1, FS_Subset, FS_CardinalityType
  <2>2. ASSUME left # {}
        PROVE  /\ Top(left) \in left /\ left \ {Top(left)} \in SUBSET D
               /\ Cardinality(left \ {Top(left)}) = Cardinality(left) - 1
               /\ \A j \in left : rs[j].pressed <= rs[Top(left)].pressed
    <3>1. Top(left) \in left /\ \A j \in left : rs[j].pressed <= rs[Top(left)].pressed
      BY <2>2, MostPressedIs
    <3> HIDE DEF Top
    <3>2. Cardinality(left \ {Top(left)}) = Cardinality(left) - 1
      BY <2>1, <3>1, FS_RemoveElement
    <3> QED
      BY <3>1, <3>2
  <2> QED
    BY <2>1, <2>2
<1> HIDE DEF Top
\* The recursion is well-founded: there is a function as it says.
<1> DEFINE Up(n) == \E f : \A left \in SUBSET D : Cardinality(left) <= n => f[left] = Rows(f, left)
           Sizes == {n \in Nat : Up(n)}
<1>4. \A left \in SUBSET D : Cardinality(left) = 0 => left = {}
  BY <1>3, FS_EmptySet
<1>5. 0 \in Sizes
  <2> DEFINE f == [left \in SUBSET D |-> <<>>]
  <2>0. f[{}] = <<>>
    OBVIOUS
  <2>1. f[{}] = Rows(f, {})
    <3>1. Rows(f, {}) = <<>>
      OBVIOUS
    <3> HIDE DEF f, Rows
    <3> QED
      BY <2>0, <3>1
  <2>2. \A left \in SUBSET D : Cardinality(left) <= 0 => Cardinality(left) = 0
    <3> TAKE left \in SUBSET D
    <3>1. Cardinality(left) \in Nat
      BY <1>3
    <3> QED
      BY <3>1
  <2>3. \A left \in SUBSET D : Cardinality(left) <= 0 => f[left] = Rows(f, left)
    BY <1>4, <2>1, <2>2
  <2> HIDE DEF f
  <2>4. Up(0)
    BY <2>3
  <2> QED
    BY <2>4
<1>6. ASSUME NEW n \in Nat, n \in Sizes
      PROVE  n + 1 \in Sizes
  <2>1. PICK f : \A left \in SUBSET D : Cardinality(left) <= n => f[left] = Rows(f, left)
    BY <1>6
  <2>2. ASSUME NEW left \in SUBSET D, Cardinality(left) <= n + 1
        PROVE  All(f)[left] = Rows(All(f), left)
    <3>1. CASE left = {}
      BY <3>1
    <3>2. CASE left # {}
      <4> DEFINE rest == left \ {Top(left)}
      <4>1. rest \in SUBSET D /\ Cardinality(rest) <= n
        BY <1>3, <2>2, <3>2
      <4> HIDE DEF rest
      <4>2. All(f)[rest] = f[rest]
        BY <2>1, <4>1
      <4> QED
        BY <3>2, <4>2 DEF rest
    <3> QED
      BY <3>1, <3>2
  <2> DEFINE g == All(f)
  <2>3. \A left \in SUBSET D : Cardinality(left) <= n + 1 => g[left] = Rows(g, left)
    BY <2>2
  <2> HIDE DEF g
  <2>4. Up(n + 1)
    BY <2>3
  <2> HIDE DEF Up
  <2> QED
    BY <2>4
<1>7. \E f : f = All(f)
  <2>1. Cardinality(D) \in Sizes
    <3> HIDE DEF Sizes
    <3>1. Nat \subseteq Sizes
      BY <1>5, <1>6, InductOn
    <3> QED
      BY <1>1, <3>1, FS_CardinalityType
  <2>2. PICK f : \A left \in SUBSET D : Cardinality(left) <= Cardinality(D) => f[left] = Rows(f, left)
    BY <2>1
  <2>3. \A left \in SUBSET D : f[left] = Rows(f, left)
    BY <1>1, <2>2, FS_Subset
  <2>4. \A left \in SUBSET D : All(f)[left] = Rows(All(f), left)
    <3> TAKE left \in SUBSET D
    <3>1. CASE left = {}
      BY <3>1
    <3>2. CASE left # {}
      <4> DEFINE rest == left \ {Top(left)}
      <4>1. rest \in SUBSET D
        OBVIOUS
      <4> HIDE DEF rest
      <4>2. All(f)[rest] = f[rest]
        BY <2>3, <4>1
      <4> QED
        BY <3>2, <4>2 DEF rest
    <3> QED
      BY <3>1, <3>2
  <2>5. All(f) = All(All(f))
    BY <2>4
  <2> QED
    BY <2>5
<1>8. rows = All(rows)
  BY <1>7
<1> HIDE DEF rows
<1>9. \A left \in SUBSET D : rows[left] = Rows(rows, left)
  BY <1>8
\* And what it makes of any set of entries is a list of them.
<1> DEFINE Listed == {n \in Nat : \A left \in SUBSET D : Cardinality(left) = n => Lists(rs, left, rows[left])}
<1>10. 0 \in Listed
  <2>1. Lists(rs, {}, <<>>)
    BY DEF Lists
  <2> QED
    BY <1>4, <1>9, <2>1
<1>11. ASSUME NEW n \in Nat, n \in Listed
       PROVE  n + 1 \in Listed
  <2> SUFFICES ASSUME NEW left \in SUBSET D, Cardinality(left) = n + 1
               PROVE  Lists(rs, left, rows[left])
    OBVIOUS
  <2>1. left # {}
    BY FS_EmptySet
  <2>2. /\ Top(left) \in left /\ left \ {Top(left)} \in SUBSET D
        /\ Cardinality(left \ {Top(left)}) = n
        /\ \A j \in left : rs[j].pressed <= rs[Top(left)].pressed
    BY <1>3, <2>1
  <2>4. Lists(rs, left \ {Top(left)}, rows[left \ {Top(left)}])
    BY <1>11, <2>2
  <2>3. rows[left] = <<rs[Top(left)]>> \o rows[left \ {Top(left)}]
    BY <1>9, <2>1
  <2> HIDE DEF Rows, All, Listed
  <2>5. Lists(rs, left, <<rs[Top(left)]>> \o rows[left \ {Top(left)}])
    BY <2>2, <2>4, ListsOneMore
  <2> QED
    BY <2>3, <2>5
<1> HIDE DEF Listed
<1>12. Cardinality(D) \in Listed
  <2>1. Nat \subseteq Listed
    BY <1>10, <1>11, InductOn
  <2> QED
    BY <1>1, <2>1, FS_CardinalityType
<1> QED
  BY <1>2, <1>12 DEF Listed

\* What is in the table was pressed.
OnlyPressed == \A i \in DOMAIN rcs : rcs[i].pressed > 0

LEMMA ReportOnlyPressed ==
  ASSUME NEW rs \in Table, NEW c \in Codes, \A i \in DOMAIN rs : rs[i].pressed > 0
  PROVE  \A i \in DOMAIN rawcodes_report(rs, c) : rawcodes_report(rs, c)[i].pressed > 0
<1> DEFINE k == rawcodes_find(rs, c)
           r == rawcodes_report(rs, c)
<1>1. /\ Len(rs) \in Nat /\ DOMAIN rs = 1..Len(rs)
      /\ \A i \in DOMAIN rs : rs[i] \in Entry
  BY ElementOfSeq, LenProperties DEF Table
<1>2. CASE Found(rs, c)
  <2>1. k \in DOMAIN rs
    BY <1>2, FindsIt
  <2>2. r = [rs EXCEPT ![k] = [rs[k] EXCEPT !.pressed = @ + 1]]
    BY <1>2 DEF rawcodes_report
  <2> HIDE DEF k, r
  <2>3. /\ DOMAIN r = DOMAIN rs
        /\ r[k] = [rs[k] EXCEPT !.pressed = @ + 1]
        /\ \A i \in DOMAIN rs \ {k} : r[i] = rs[i]
    BY <2>1, <2>2
  <2>4. r[k].pressed = rs[k].pressed + 1 /\ rs[k].pressed \in Nat
    BY <1>1, <2>1, <2>3 DEF Entry
  <2>5. r[k].pressed > 0
    BY <2>4
  <2> QED
    BY <2>3, <2>5 DEF r
<1>3. CASE ~Found(rs, c)
  <2>1. r = Append(rs, [code |-> c, pressed |-> 1])
    BY <1>3 DEF rawcodes_report
  <2> HIDE DEF r
  <2>2. /\ DOMAIN r = 1..(Len(rs) + 1) /\ r[Len(rs) + 1] = [code |-> c, pressed |-> 1]
        /\ \A i \in 1..Len(rs) : r[i] = rs[i]
    BY <1>1, <2>1, AppendProperties DEF Table, Entry
  <2>3. r[Len(rs) + 1].pressed > 0
    BY <2>2
  <2>4. \A i \in DOMAIN r : i \in 1..Len(rs) \/ i = Len(rs) + 1
    BY <1>1, <2>2
  <2>5. \A i \in 1..Len(rs) : r[i].pressed > 0
    BY <1>1, <2>2
  <2> QED
    BY <2>3, <2>4, <2>5 DEF r
<1> QED
  BY <1>2, <1>3

\* Only a press or a new detection changes the table.
LEMMA OnlyPressedStep ==
  ASSUME TypeOK, OnlyPressed, [Next]_vars
  PROVE  OnlyPressed'
<1>1. rcs' = rcs \/ rcs' = <<>> \/ \E c \in Codes : rcs' = rawcodes_report(rcs, c)
  BY DEF Next, vars, counters, OpenWindow, EditButtons, Start, StartFails, ResetCounters,
     Stop, LateTimer, Add, Ok, Cancel, DialogCancel, Report, DialogOk
<1>2. CASE rcs' = rcs
  BY <1>2 DEF OnlyPressed
<1>3. CASE rcs' = <<>>
  BY <1>3 DEF OnlyPressed
<1>4. ASSUME NEW c \in Codes, rcs' = rawcodes_report(rcs, c)
      PROVE  OnlyPressed'
  BY <1>4, ReportOnlyPressed DEF OnlyPressed, TypeOK
<1> QED
  BY <1>1, <1>2, <1>3, <1>4

\* What the dialog lists is what was pressed, if the table counts it.
LEMMA RowsShowPresses ==
  ASSUME TypeOK, TableCounts, OnlyPressed
  PROVE  DialogShowsPresses
<1> DEFINE l == dialog_btnd_populate(rcs)
           rows == DialogRows
<1>1. /\ rcs \in Table /\ presses \in [Codes -> Nat]
      /\ \A j, k \in DOMAIN rcs : rcs[j].code = rcs[k].code => j = k
      /\ \A j \in DOMAIN rcs : rcs[j].pressed = presses[rcs[j].code] /\ rcs[j].pressed > 0
      /\ \A c \in Codes : presses[c] > 0 => \E j \in DOMAIN rcs : rcs[j].code = c
  BY DEF TypeOK, TableCounts, OnlyPressed, Found
<1>2. \A j \in DOMAIN rcs : rcs[j] \in Entry /\ rcs[j].code \in Codes /\ rcs[j].pressed \in Nat
  <2>1. \A j \in DOMAIN rcs : rcs[j] \in Entry
    BY <1>1, ElementOfSeq, LenProperties DEF Table
  <2> QED
    BY <2>1 DEF Entry
<1>3. Lists(rcs, DOMAIN rcs, l)
  BY <1>1, PopulateLists
<1> HIDE DEF l
<1>4. /\ Len(l) \in Nat /\ DOMAIN l = 1..Len(l)
      /\ \A k \in DOMAIN l : \E i \in DOMAIN rcs : l[k] = rcs[i]
      /\ \A i \in DOMAIN rcs : \E k \in DOMAIN l : l[k] = rcs[i]
      /\ \A k, m \in DOMAIN l : k < m => l[m].pressed <= l[k].pressed /\ l[k].code # l[m].code
  BY <1>3, LenProperties DEF Lists
<1>5. rows = [i \in DOMAIN l |-> [code |-> l[i].code, clicks |-> l[i].pressed,
                                  detected |-> Exists(l[i].code)]]
  BY DEF DialogRows, l
<1> HIDE DEF rows
<1>6. /\ DOMAIN rows = DOMAIN l
      /\ \A i \in DOMAIN l : /\ rows[i].code = l[i].code /\ rows[i].clicks = l[i].pressed
                             /\ rows[i].detected = Exists(l[i].code)
  BY <1>5
<1>7. \A i \in DOMAIN l : /\ l[i].code \in Codes /\ l[i].pressed = presses[l[i].code]
                          /\ presses[l[i].code] > 0 /\ presses[l[i].code] \in Nat
  <2> TAKE i \in DOMAIN l
  <2>1. PICK j \in DOMAIN rcs : l[i] = rcs[j]
    BY <1>4
  <2>2. rcs[j].pressed = presses[rcs[j].code] /\ rcs[j].pressed > 0 /\ rcs[j].code \in Codes
        /\ rcs[j].pressed \in Nat
    BY <1>1, <1>2
  <2> QED
    BY <2>1, <2>2
<1>8. {rows[i].code : i \in DOMAIN rows} = {c \in Codes : presses[c] > 0}
  <2>1. \A i \in DOMAIN rows : rows[i].code \in {c \in Codes : presses[c] > 0}
    BY <1>6, <1>7
  <2>2. \A c \in {d \in Codes : presses[d] > 0} : \E i \in DOMAIN rows : rows[i].code = c
    <3> TAKE c \in {d \in Codes : presses[d] > 0}
    <3>1. PICK j \in DOMAIN rcs : rcs[j].code = c
      BY <1>1
    <3>2. PICK k \in DOMAIN l : l[k] = rcs[j]
      BY <1>4
    <3>3. k \in DOMAIN rows /\ rows[k].code = c
      BY <1>6, <3>1, <3>2
    <3> QED
      BY <3>3
  <2> QED
    BY <2>1, <2>2
<1>9. ASSUME NEW i \in DOMAIN rows
      PROVE  /\ rows[i].clicks = presses[rows[i].code]
             /\ rows[i].detected = Exists(rows[i].code)
  <2>1. i \in DOMAIN l
    BY <1>6
  <2>2. rows[i].code = l[i].code /\ rows[i].clicks = l[i].pressed
        /\ rows[i].detected = Exists(l[i].code) /\ l[i].pressed = presses[l[i].code]
    BY <1>6, <1>7, <2>1
  <2> QED
    BY <2>2
<1>10. ASSUME NEW i \in DOMAIN rows, NEW j \in 1..(i - 1)
       PROVE  rows[j].code # rows[i].code /\ rows[j].clicks >= rows[i].clicks
  <2>1. i \in DOMAIN l /\ j \in DOMAIN l /\ j < i
    BY <1>4, <1>6
  <2>2. l[i].pressed <= l[j].pressed /\ l[j].code # l[i].code
    BY <1>4, <2>1
  <2>3. l[i].pressed \in Nat /\ l[j].pressed \in Nat
    BY <1>7, <2>1
  <2> QED
    BY <1>6, <2>1, <2>2, <2>3
<1> QED
  BY <1>8, <1>9, <1>10 DEF DialogShowsPresses, rows

\* Whatever was pressed in whatever order: the dialog that opens when no code settled
\* has every code pressed in this detection once, with the number of its presses, the most
\* pressed first (dialog_btnd_populate and rawcodes_get_most_pressed).
THEOREM DialogRight == Spec => []DialogShowsPresses
<1>1. Init => OnlyPressed
  BY DEF Init, OnlyPressed
<1> QED
  BY <1>1, OnlyPressedStep, RowsShowPresses, TypeCorrect, TableIsCount, PTL DEF Spec

-----------------------------------------------------------------------------
(* The session. *)

HIDE DEF NoCode, AnyCode

Phases    == {"none", "forked", "linked", "reading", "gone"}
Listening == {"forked", "linked", "reading"}

SessionTypes ==
  /\ forks \in 0..MaxForks /\ pid \in 0..forks /\ linking \in {0, forks}
  /\ phase \in [Children -> Phases]
  /\ up \in [Children -> Seq(Messages)]
  /\ stopped \subseteq 1..forks
  /\ struck \in BOOLEAN /\ calm \in BOOLEAN

\* A child writes after it was forked only, and the one that is linked, like that of
\* the detection that runs, was not told to stop.
ChildOK ==
  /\ \A k \in Children : k > forks => phase[k] = "none"
  /\ \A k \in Children : phase[k] \in {"none", "forked"} => up[k] = <<>>
  /\ linking # 0 => linking \in Children \ stopped /\ ~detecting
  /\ detecting => pid \in Children \ stopped

\* A patient user's child is alone when it is linked, and nothing interrupts that.
CalmOK ==
  calm =>
    /\ linking # 0 =>
         /\ phase[linking] \in Listening /\ ~struck /\ ~addOn
         /\ \A k \in Children \ {linking} : phase[k] \in {"none", "gone"}
    /\ detecting => phase[pid] \in {"linked", "reading"}
    /\ OneListener

\* What is marked new was added in the window that is open, to nothing that was there.
WindowOK ==
  /\ window = "config" => \A c \in AnyCode : buttons[c] # "new"
  /\ \A c \in AnyCode : before[c] # "new"
  /\ AddIsForDetected
  /\ calm =>
       /\ detecting => window = "btnd" /\ ~addOn /\ (cur # NoCode => ~Exists(cur))
       /\ window = "btnd" => \A c \in AnyCode :
            buttons[c] = before[c] \/ (buttons[c] = "new" /\ before[c] = "none")

SInv == SessionTypes /\ ChildOK /\ CalmOK /\ WindowOK
-----------------------------------------------------------------------------
\* What the head of a pipe says.
LEMMA HeadReports ==
  ASSUME SessionTypes, NEW k \in Children, Has(k, "REPORT")
  PROVE  Head(up[k]).code \in Codes
<1>1. up[k] \in Seq(Messages) /\ up[k] # <<>>
  BY DEF SessionTypes, Has
<1>2. Head(up[k]) \in Messages
  BY <1>1, HeadTailProperties
<1> QED
  BY <1>2 DEF Has, Messages, ACK, START, REPORT

\* A step of the session is a step of BtnDetection, or none.
LEMMA StepDetects ==
  ASSUME SessionTypes, ChildOK, SNext
  PROVE  [Next]_vars
<1>1. CASE Fork
  BY <1>1 DEF Fork
<1>2. CASE Linked \/ NotLinked
  BY <1>2 DEF Linked, NotLinked, Next
<1>3. CASE Clicks
  BY <1>3 DEF Clicks, Next
<1>4. CASE Ticks
  <2>1. CASE StartTimerLate
    BY <2>1 DEF StartTimerLate, Next
  <2>2. CASE StartTimerStarts \/ StartTimerDrops \/ ReportTimerEnds \/ ReportTimerDrops
    BY <2>2 DEF StartTimerStarts, StartTimerDrops, ReportTimerEnds, ReportTimerDrops
  <2>3. CASE ReportTimerReports
    <3>1. Report(Head(up[pid]).code)
      BY <2>3 DEF ReportTimerReports
    <3>2. Head(up[pid]).code \in Codes
      BY <2>3, HeadReports DEF ReportTimerReports, ChildOK
    <3> QED
      BY <3>1, <3>2 DEF Next
  <2> QED
    BY <1>4, <2>1, <2>2, <2>3 DEF Ticks
<1>5. ASSUME NEW k \in Children,
             ChildAcks(k) \/ ChildStarts(k) \/ ChildStops(k) \/ ChildDies(k)
             \/ \E c \in Codes : ChildReports(k, c)
      PROVE  UNCHANGED vars
  BY <1>5 DEF ChildAcks, ChildStarts, ChildStops, ChildDies, ChildReports, Exits
<1> QED
  BY <1>1, <1>2, <1>3, <1>4, <1>5 DEF SNext, Steps

\* Every step keeps the types of what the session adds.
LEMMA SessionTypesKept ==
  ASSUME SessionTypes, ChildOK, SNext
  PROVE  SessionTypes'
<1>1. MaxForks \in Nat /\ <<>> \in Seq(Messages)
  BY SessionOK, EmptySeq
<1>2. calm' \in BOOLEAN
  BY DEF SNext, SessionTypes
<1>3. CASE Fork
  <2>1. forks + 1 \in Children
    BY <1>1, <1>3 DEF Fork, SessionTypes, Children
  <2>2. phase' \in [Children -> Phases]
    BY <1>3, <2>1 DEF Fork, SessionTypes, Phases
  <2>3. stopped' \subseteq 1..forks'
    BY <1>3 DEF Fork, SessionTypes
  <2>4. forks' \in 0..MaxForks /\ pid' \in 0..forks' /\ linking' = forks'
    BY <1>1, <1>3, <2>1 DEF Fork, SessionTypes, Children
  <2>5. up' = up /\ struck' = FALSE
    BY <1>3 DEF Fork
  <2> QED
    BY <1>2, <2>2, <2>3, <2>4, <2>5 DEF SessionTypes
<1>4. ASSUME NEW k, Reads(k)
      PROVE  up' \in [Children -> Seq(Messages)]
  BY <1>1, <1>4 DEF Reads, SessionTypes
<1>5. CASE Linked
  BY <1>1, <1>2, <1>4, <1>5 DEF Linked, SessionTypes
<1>6. CASE NotLinked
  BY <1>2, <1>6 DEF NotLinked, SessionTypes, child
<1>7. ASSUME Stops
      PROVE  pid' = 0 /\ stopped' \subseteq 1..forks
  BY <1>7 DEF Stops, ChildOK, SessionTypes, Children
<1>8. CASE Clicks
  <2>1. /\ UNCHANGED <<linking, forks, struck, phase, up>>
        /\ Stops \/ UNCHANGED <<pid, stopped>>
    BY <1>8 DEF Clicks, StopsIf, link
  <2>2. pid' \in 0..forks' /\ stopped' \subseteq 1..forks'
    <3>1. CASE Stops
      BY <1>7, <2>1, <3>1 DEF SessionTypes
    <3>2. CASE UNCHANGED <<pid, stopped>>
      BY <2>1, <3>2 DEF SessionTypes
    <3> QED
      BY <2>1, <3>1, <3>2
  <2> QED
    BY <1>2, <2>1, <2>2 DEF SessionTypes
<1>9. CASE Ticks
  <2>1. /\ UNCHANGED <<linking, forks, struck, phase>>
        /\ up' = up \/ Reads(pid)
        /\ Stops \/ UNCHANGED <<pid, stopped>>
    BY <1>9 DEF Ticks, StartTimerLate, StartTimerStarts, StartTimerDrops, ReportTimerEnds,
                ReportTimerReports, ReportTimerDrops, StopsIf, link, child
  <2>2. pid' \in 0..forks' /\ stopped' \subseteq 1..forks'
    <3>1. CASE Stops
      BY <1>7, <2>1, <3>1 DEF SessionTypes
    <3>2. CASE UNCHANGED <<pid, stopped>>
      BY <2>1, <3>2 DEF SessionTypes
    <3> QED
      BY <2>1, <3>1, <3>2
  <2>3. up' \in [Children -> Seq(Messages)]
    BY <1>4, <2>1 DEF SessionTypes
  <2> QED
    BY <1>2, <2>1, <2>2, <2>3 DEF SessionTypes
<1>10. ASSUME NEW k \in Children,
              ChildAcks(k) \/ ChildStarts(k) \/ ChildStops(k) \/ ChildDies(k)
              \/ \E c \in Codes : ChildReports(k, c)
       PROVE  SessionTypes'
  <2>1. /\ UNCHANGED <<pid, linking, forks, stopped>>
        /\ phase' \in [Children -> Phases] /\ struck' \in BOOLEAN
    BY <1>10 DEF ChildAcks, ChildStarts, ChildStops, ChildDies, ChildReports, Exits,
                 link, SessionTypes, Phases
  <2>2. ACK \in Messages /\ START \in Messages /\ \A c \in Codes : REPORT(c) \in Messages
    BY DEF Messages
  <2>3. up' = up \/ \E m \in Messages : Writes(k, m)
    BY <1>10, <2>2 DEF ChildAcks, ChildStarts, ChildStops, ChildDies, ChildReports, Exits
  <2>4. \A m \in Messages : Append(up[k], m) \in Seq(Messages)
    BY AppendProperties DEF SessionTypes
  <2>5. up' \in [Children -> Seq(Messages)]
    BY <2>3, <2>4 DEF Writes, SessionTypes
  <2> QED
    BY <1>2, <2>1, <2>5 DEF SessionTypes
<1> QED
  BY <1>3, <1>5, <1>6, <1>8, <1>9, <1>10 DEF SNext, Steps

\* What the parent does with its children when a button is clicked or a timer runs:
\* a detection that ends has its child told to stop.
LEMMA ParentStep ==
  ASSUME TypeOK, SessionTypes, ChildOK, Clicks \/ Ticks
  PROVE  /\ linking = 0 /\ UNCHANGED <<linking, forks, struck, phase>>
         /\ \A k \in Children : up'[k] = up[k] \/ up'[k] = <<>>
         /\ \/ detecting /\ detecting' = FALSE /\ Stops
            \/ UNCHANGED <<detecting, pid, stopped>>
<1>1. detecting \in BOOLEAN
  BY DEF TypeOK
<1>2. CASE Clicks
  <2>1. linking = 0 /\ UNCHANGED <<linking, forks, struck, phase, up>>
    BY <1>2 DEF Clicks, Idle, link
  <2>2. CASE Stop /\ Stops
    BY <2>1, <2>2 DEF Stop
  <2>3. CASE Cancel /\ StopsIf(detecting)
    BY <1>1, <2>1, <2>3 DEF Cancel, StopsIf
  <2>4. CASE /\ \/ OpenWindow \/ Add \/ Ok \/ DialogCancel
                \/ \E c \in AnyCode : EditButtons(c)
                \/ \E c \in Codes : DialogOk(c)
             /\ UNCHANGED <<pid, stopped>>
    BY <2>1, <2>4 DEF OpenWindow, Add, Ok, DialogCancel, EditButtons, DialogOk
  <2> QED
    BY <1>2, <2>2, <2>3, <2>4 DEF Clicks
<1>3. CASE Ticks
  <2>1. linking = 0 /\ UNCHANGED <<linking, forks, struck, phase>>
    BY <1>3 DEF Ticks, StartTimerLate, StartTimerStarts, StartTimerDrops, ReportTimerEnds,
                ReportTimerReports, ReportTimerDrops, Idle, link, child
  <2>2. Reads(pid) => \A k \in Children : up'[k] = up[k] \/ up'[k] = <<>>
    BY DEF Reads, SessionTypes
  <2>3. CASE StartTimerLate \/ ReportTimerEnds
    BY <2>1, <2>3 DEF StartTimerLate, ReportTimerEnds, LateTimer, child, vars
  <2>4. CASE StartTimerStarts \/ StartTimerDrops \/ ReportTimerDrops
    BY <2>1, <2>2, <2>4 DEF StartTimerStarts, StartTimerDrops, ReportTimerDrops, vars
  <2>5. CASE ReportTimerReports
    <3>1. detecting /\ Reads(pid) /\ StopsIf(~detecting') /\ Report(Head(up[pid]).code)
      BY <2>5 DEF ReportTimerReports
    <3>2. detecting' = FALSE \/ detecting' = detecting
      BY <3>1 DEF Report, Exhaust, Ignore, Count
    <3> QED
      BY <1>1, <2>1, <2>2, <3>1, <3>2 DEF StopsIf
  <2> QED
    BY <1>3, <2>3, <2>4, <2>5 DEF Ticks
<1> QED
  BY <1>2, <1>3

\* A step keeps the children in hand.
LEMMA ChildrenKept ==
  ASSUME TypeOK, SessionTypes, ChildOK, CalmOK, SNext
  PROVE  ChildOK' /\ CalmOK'
<1>0. UNCHANGED calm
  BY DEF SNext
<1>1. CASE Fork
  <2> DEFINE n == forks + 1
  <2>1. /\ n \in Children /\ n > forks /\ n \notin stopped /\ n # 0
    BY <1>1, SessionOK DEF Fork, SessionTypes, Children
  <2>2. /\ forks' = n /\ linking' = n /\ struck' = FALSE /\ pid' = 0
        /\ phase' = [phase EXCEPT ![n] = "forked"]
        /\ ~detecting /\ UNCHANGED <<up, stopped, detecting, addOn>>
    BY <1>1 DEF Fork, vars, widgets
  <2>3. /\ phase'[n] = "forked" /\ \A k \in Children \ {n} : phase'[k] = phase[k]
        /\ up[n] = <<>>
    BY <2>1, <2>2 DEF SessionTypes, ChildOK
  <2>4. \A k \in Children : k > n => k > forks /\ k # n
    BY DEF Children, SessionTypes
  <2>5. calm => ~addOn /\ \A k \in Children : phase[k] \in {"none", "gone"}
    BY <1>1 DEF SNext, Hasty
  <2> HIDE DEF n
  <2>6. ChildOK'
    BY <2>1, <2>2, <2>3, <2>4 DEF ChildOK
  <2>7. CalmOK'
    BY <1>0, <2>1, <2>2, <2>3, <2>5 DEF CalmOK, OneListener, Listening
  <2> QED
    BY <2>6, <2>7
<1>2. CASE Linked
  <2>1. /\ linking # 0 /\ linking \in Children \ stopped /\ up[linking] # <<>>
        /\ detecting' = TRUE /\ pid' = linking /\ linking' = 0
        /\ up' = [up EXCEPT ![linking] = <<>>]
        /\ UNCHANGED <<forks, struck, phase, stopped>>
    BY <1>2 DEF Linked, Start, Has, Reads, ChildOK
  <2>2. phase[linking] \notin {"none", "forked"}
    BY <2>1 DEF ChildOK
  <2>3. ChildOK'
    BY <2>1 DEF ChildOK, SessionTypes
  <2>4. CalmOK'
    BY <1>0, <2>1, <2>2 DEF CalmOK, OneListener, Listening
  <2> QED
    BY <2>3, <2>4
<1>3. CASE NotLinked
  <2>1. /\ linking # 0 /\ (~calm \/ struck) /\ ~detecting
        /\ linking' = 0 /\ UNCHANGED <<detecting, pid, forks, struck, phase, up, stopped>>
    BY <1>3 DEF NotLinked, StartFails, child
  <2>2. ~calm
    BY <2>1 DEF CalmOK
  <2> QED
    BY <1>0, <2>1, <2>2 DEF ChildOK, CalmOK
<1>4. CASE Clicks \/ Ticks
  <2>1. /\ linking = 0 /\ UNCHANGED <<linking, forks, struck, phase>>
        /\ \A k \in Children : up'[k] = up[k] \/ up'[k] = <<>>
        /\ \/ detecting /\ detecting' = FALSE /\ Stops
           \/ UNCHANGED <<detecting, pid, stopped>>
    BY <1>4, ParentStep
  <2>2. CASE detecting /\ detecting' = FALSE /\ Stops
    <3>1. pid' = 0 /\ stopped' = stopped \cup {pid}
      BY <2>2 DEF Stops
    <3> QED
      BY <1>0, <2>1, <2>2, <3>1 DEF ChildOK, CalmOK, OneListener
  <2>3. CASE UNCHANGED <<detecting, pid, stopped>>
    BY <1>0, <2>1, <2>3 DEF ChildOK, CalmOK, OneListener
  <2> QED
    BY <2>1, <2>2, <2>3
<1>5. ASSUME NEW k \in Children,
             ChildAcks(k) \/ ChildStarts(k) \/ ChildStops(k) \/ ChildDies(k)
             \/ \E c \in Codes : ChildReports(k, c)
      PROVE  ChildOK' /\ CalmOK'
  <2>1. UNCHANGED <<detecting, addOn, pid, linking, forks, stopped>>
    BY <1>5 DEF ChildAcks, ChildStarts, ChildStops, ChildDies, ChildReports, Exits,
                vars, widgets, link
  <2>2. /\ phase[k] \in Listening /\ phase'[k] \in {"linked", "reading", "gone"}
        /\ \A j \in Children \ {k} : phase'[j] = phase[j] /\ up'[j] = up[j]
    BY <1>5 DEF ChildAcks, ChildStarts, ChildStops, ChildDies, ChildReports, Exits,
                Writes, Listening, SessionTypes
  <2>3. ~(k > forks)
    BY <2>2 DEF ChildOK, Listening
  <2>4. ChildOK'
    BY <2>1, <2>2, <2>3 DEF ChildOK
  <2>5. CASE calm /\ phase'[k] = "gone"
    <3>1. k \in stopped /\ phase[k] = "reading"
      BY <1>5, <2>5 DEF ChildAcks, ChildStarts, ChildStops, ChildDies, ChildReports, Exits,
                        SessionTypes
    <3>2. linking = 0
      BY <2>5, <3>1 DEF ChildOK, CalmOK
    <3> QED
      BY <1>0, <2>1, <2>2, <2>4, <2>5, <3>1, <3>2 DEF ChildOK, CalmOK, OneListener
  <2>6. CASE phase'[k] # "gone"
    <3>1. struck' = struck /\ phase'[k] \in {"linked", "reading"}
      BY <1>5, <2>2, <2>6
         DEF ChildAcks, ChildStarts, ChildStops, ChildDies, ChildReports, Exits,
             link, SessionTypes
    <3> QED
      BY <1>0, <2>1, <2>2, <2>4, <3>1 DEF ChildOK, CalmOK, OneListener, Listening
  <2>7. CASE ~calm
    BY <1>0, <2>4, <2>7 DEF CalmOK
  <2> QED
    BY <2>5, <2>6, <2>7
<1> QED
  BY <1>1, <1>2, <1>3, <1>4, <1>5 DEF SNext, Steps
-----------------------------------------------------------------------------
\* What is offered after a press is the leading code, and it is free.
LEMMA ReportKeepsWindow ==
  ASSUME TypeOK, WindowOK, NEW c \in Codes, Report(c), UNCHANGED calm
  PROVE  WindowOK'
<1>1. /\ UNCHANGED <<window, buttons, before, calm>> /\ detecting
  BY DEF Report
<1>2. calm => window = "btnd" /\ ~addOn /\ (cur # NoCode => ~Exists(cur))
  BY <1>1 DEF WindowOK
<1>3. CASE Exhaust(c)
  BY <1>1, <1>2, <1>3 DEF Exhaust, WindowOK, AddIsForDetected, widgets
<1>4. CASE Ignore(c)
  BY <1>1, <1>2, <1>4 DEF Ignore, WindowOK, AddIsForDetected, widgets, Exists
<1>5. CASE Count(c)
  <2>1. cur' \in {c, cur} /\ cur' # NoCode /\ ~Exists(c)
    BY <1>5, CodesOK DEF Count, Leader, NoLead
  <2>2. calm => buttons'[cur'] = "none"
    BY <1>1, <1>2, <2>1 DEF Exists
  <2>3. \/ detecting' = FALSE /\ addOn' = TRUE /\ settled' = cur'
        \/ UNCHANGED <<detecting, addOn>>
    BY <1>5 DEF Count, EnableSave, widgets
  <2>4. CASE detecting' = FALSE /\ addOn' = TRUE /\ settled' = cur'
    BY <1>1, <2>1, <2>2, <2>4 DEF WindowOK, AddIsForDetected, Exists
  <2>5. CASE UNCHANGED <<detecting, addOn>>
    BY <1>1, <1>2, <2>2, <2>5 DEF WindowOK, AddIsForDetected, Exists
  <2> QED
    BY <2>3, <2>4, <2>5
<1> QED
  BY <1>3, <1>4, <1>5 DEF Report

\* A step keeps what is new apart from what was there.
LEMMA WindowKept ==
  ASSUME TypeOK, VoteInv, SInv, SNext
  PROVE  WindowOK'
<1>0. UNCHANGED calm /\ WindowOK /\ window \in {"config", "btnd"}
  BY DEF SNext, SInv, TypeOK
<1>1. ASSUME UNCHANGED <<window, buttons, before, detecting, cur, settled, addOn>>
      PROVE  WindowOK'
  BY <1>0, <1>1 DEF WindowOK, AddIsForDetected, Exists
<1>2. ASSUME UNCHANGED <<window, buttons, before>>, addOn' = FALSE, ~detecting'
      PROVE  WindowOK'
  BY <1>0, <1>2 DEF WindowOK, AddIsForDetected
<1>3. CASE Linked
  <2>1. /\ window = "btnd" /\ UNCHANGED <<window, buttons, before, addOn>>
        /\ cur' = NoCode /\ linking # 0
    BY <1>3 DEF Linked, Start, Usable, ResetCounters
  <2>2. calm => ~addOn
    BY <2>1 DEF SInv, CalmOK
  <2> QED
    BY <1>0, <2>1, <2>2 DEF WindowOK, AddIsForDetected
<1>4. CASE NotLinked
  BY <1>2, <1>4 DEF NotLinked, StartFails
<1>5. CASE Clicks
  <2>1. CASE OpenWindow
    <3>1. window = "config" /\ buttons' = buttons /\ before' = buttons /\ addOn' = FALSE
          /\ detecting' = detecting
      BY <2>1 DEF OpenWindow, InitBtnd
    <3>2. calm => ~detecting
      BY <3>1 DEF SInv, WindowOK
    <3>3. window' = "btnd"
      BY <2>1 DEF OpenWindow
    <3> QED
      BY <1>0, <3>1, <3>2, <3>3 DEF WindowOK, AddIsForDetected
  <2>2. ASSUME NEW c \in AnyCode, EditButtons(c)
        PROVE  WindowOK'
    <3>1. /\ window = "config" /\ UNCHANGED <<window, before, detecting>>
          /\ \A d \in AnyCode : buttons'[d] # "new"
      BY <1>0, <2>2 DEF EditButtons, WindowOK, TypeOK
    <3>2. calm => ~detecting
      BY <3>1 DEF SInv, WindowOK
    <3> QED
      BY <1>0, <3>1, <3>2 DEF WindowOK, AddIsForDetected
  <2>3. CASE Stop
    <3>1. UNCHANGED <<window, buttons, before>> /\ addOn' = FALSE /\ ~detecting'
      BY <2>3 DEF Stop, InitBtnd
    <3> QED
      BY <1>2, <3>1
  <2>4. CASE Add
    <3>1. /\ window = "btnd" /\ addOn /\ addOn' = FALSE
          /\ buttons' = [buttons EXCEPT ![cur] = "new"]
          /\ UNCHANGED <<window, before, detecting>>
      BY <2>4 DEF Add, Usable, InitBtnd, WithButton
    <3>2. calm => ~detecting /\ buttons[cur] = "none"
      BY <3>1 DEF SInv, WindowOK, AddIsForDetected, Exists
    <3>3. calm => \A c \in AnyCode :
            buttons[c] = before[c] \/ (buttons[c] = "new" /\ before[c] = "none")
      BY <3>1 DEF SInv, WindowOK
    <3>4. calm => \A c \in AnyCode :
            buttons'[c] = before[c] \/ (buttons'[c] = "new" /\ before[c] = "none")
      BY <3>1, <3>2, <3>3 DEF TypeOK
    <3> QED
      BY <1>0, <3>1, <3>2, <3>4 DEF WindowOK, AddIsForDetected
  <2>5. CASE Ok \/ Cancel
    <3>1. /\ window' = "config" /\ before' = before
          /\ \A c \in AnyCode : buttons'[c] # "new"
      BY <2>5 DEF Ok, Cancel, TypeOK
    <3>2. calm => detecting' = FALSE
      BY <2>5 DEF Ok, Cancel, SNext, Hasty, TypeOK
    <3> QED
      BY <1>0, <3>1, <3>2 DEF WindowOK, AddIsForDetected
  <2>6. ASSUME NEW c \in Codes, DialogOk(c)
        PROVE  WindowOK'
    <3>1. PICK i \in DOMAIN DialogRows : DialogRows[i].code = c /\ ~DialogRows[i].detected
      BY <2>6 DEF DialogOk, Offered
    <3>2. ~Exists(c)
      BY <3>1 DEF DialogRows
    <3>3. /\ UNCHANGED <<window, detecting, buttons, before>> /\ ~detecting
          /\ cur' = c /\ settled' = c /\ c # NoCode
      BY <2>6, CodesOK DEF DialogOk, EnableSave, VoteInv
    <3> QED
      BY <1>0, <3>2, <3>3 DEF WindowOK, AddIsForDetected, Exists
  <2>7. CASE DialogCancel
    <3>1. UNCHANGED <<window, buttons, before, detecting>> /\ addOn' = FALSE /\ dialog
      BY <2>7 DEF DialogCancel, InitBtnd
    <3>2. ~detecting
      BY <3>1 DEF VoteInv
    <3> QED
      BY <1>2, <3>1, <3>2
  <2> QED
    BY <1>5, <2>1, <2>2, <2>3, <2>4, <2>5, <2>6, <2>7 DEF Clicks
<1>6. CASE Ticks
  <2>1. CASE StartTimerLate
    BY <1>2, <2>1 DEF StartTimerLate, LateTimer, InitBtnd
  <2>2. CASE StartTimerStarts \/ StartTimerDrops \/ ReportTimerEnds \/ ReportTimerDrops
    BY <1>1, <2>2 DEF StartTimerStarts, StartTimerDrops, ReportTimerEnds, ReportTimerDrops,
                      vars, counters, widgets
  <2>3. CASE ReportTimerReports
    <3>1. Report(Head(up[pid]).code) /\ Head(up[pid]).code \in Codes
      BY <2>3, HeadReports DEF ReportTimerReports, SInv, ChildOK
    <3> QED
      BY <1>0, <3>1, ReportKeepsWindow
  <2> QED
    BY <1>6, <2>1, <2>2, <2>3 DEF Ticks
<1>7. CASE UNCHANGED vars
  BY <1>1, <1>7 DEF vars, counters, widgets
<1>8. ASSUME NEW k \in Children,
             ChildAcks(k) \/ ChildStarts(k) \/ ChildStops(k) \/ ChildDies(k)
             \/ \E c \in Codes : ChildReports(k, c)
      PROVE  UNCHANGED vars
  BY <1>8 DEF ChildAcks, ChildStarts, ChildStops, ChildDies, ChildReports, Exits
<1> QED
  BY <1>3, <1>4, <1>5, <1>6, <1>7, <1>8 DEF SNext, Steps, Fork
-----------------------------------------------------------------------------
LEMMA SInitInv == SInit => TypeOK /\ VoteInv /\ SInv
<1> SUFFICES ASSUME SInit PROVE TypeOK /\ VoteInv /\ SInv
  OBVIOUS
<1>1. Init
  BY DEF SInit
<1>2. TypeOK
  BY <1>1, EmptyTable, CodesOK, PressesOK DEF Init, TypeOK, AnyCode, NoCode
<1>3. VoteInv
  BY <1>1, PressesOK DEF Init, VoteInv
<1>4. SessionTypes
  <2>1. 0 \in 0..MaxForks
    BY SessionOK
  <2>2. phase \in [Children -> Phases] /\ up \in [Children -> Seq(Messages)]
    BY EmptySeq DEF SInit, Phases
  <2>3. forks = 0 /\ pid = 0 /\ linking = 0 /\ stopped = {} /\ struck = FALSE
    BY DEF SInit
  <2>4. pid \in 0..forks /\ calm \in BOOLEAN
    BY <2>3 DEF SInit
  <2> QED
    BY <2>1, <2>2, <2>3, <2>4 DEF SessionTypes
<1>5. ChildOK
  BY <1>1 DEF SInit, Init, ChildOK
<1>6. CalmOK
  BY <1>1 DEF SInit, Init, CalmOK, OneListener
<1>7. WindowOK
  BY <1>1 DEF Init, WindowOK, AddIsForDetected
<1> QED
  BY <1>2, <1>3, <1>4, <1>5, <1>6, <1>7 DEF SInv

LEMMA SStepInv ==
  ASSUME TypeOK, VoteInv, SInv, [SNext]_<<svars, calm>>
  PROVE  TypeOK' /\ VoteInv' /\ SInv'
<1>1. CASE SNext
  <2>1. [Next]_vars
    BY <1>1, StepDetects DEF SInv
  <2>2. TypeOK' /\ VoteInv'
    BY <2>1, TypeStep, VoteStep
  <2>3. SInv'
    BY <1>1, SessionTypesKept, ChildrenKept, WindowKept DEF SInv
  <2> QED
    BY <2>2, <2>3
<1>2. CASE UNCHANGED <<svars, calm>>
  <2>1. UNCHANGED vars /\ UNCHANGED <<pid, linking, forks, struck, phase, up, stopped, calm>>
    BY <1>2 DEF svars, link, child
  <2>2. TypeOK' /\ VoteInv'
    BY <2>1, TypeStep, VoteStep
  <2>3. UNCHANGED <<window, detecting, cur, addOn, buttons, settled, before>>
    BY <2>1 DEF vars, counters, widgets
  <2>4. SessionTypes' /\ ChildOK' /\ CalmOK'
    BY <2>1, <2>3 DEF SInv, SessionTypes, ChildOK, CalmOK, OneListener
  <2>5. WindowOK'
    BY <2>1, <2>3 DEF SInv, WindowOK, AddIsForDetected, Exists
  <2> QED
    BY <2>2, <2>4, <2>5 DEF SInv
<1> QED
  BY <1>1, <1>2

THEOREM SInvariant == SSpec => [](TypeOK /\ VoteInv /\ SInv)
BY SInitInv, SStepInv, PTL DEF SSpec

\* With its processes, pipes and timers the detection does what BtnDetection says:
\* what was proved of it, that the announced code is a clear winner among others,
\* holds of the session.
THEOREM SessionDetects == SSpec => Spec
<1>1. SInit => Init
  BY DEF SInit
<1>2. SInv /\ [SNext]_<<svars, calm>> => [Next]_vars
  BY StepDetects DEF SInv, svars
<1> QED
  BY <1>1, <1>2, SInvariant, PTL DEF SSpec, Spec

\* A detection that runs has a child nobody told to stop (btnd_start, btnd_stop).
THEOREM HasChild == SSpec => []DetectionHasChild
<1>1. SInv => DetectionHasChild
  BY DEF SInv, ChildOK, CalmOK, DetectionHasChild
<1> QED
  BY <1>1, SInvariant, PTL

\* With a patient user no child goes on listening that the parent has forgotten.
THEOREM ListensAlone == SSpec => []OneListener
<1>1. SInv => OneListener
  BY DEF SInv, CalmOK, OneListener
<1> QED
  BY <1>1, SInvariant, PTL

\* Add is offered for the announced code, which is free (btnd_enable_save).
THEOREM AddsWhatWasAnnounced == SSpec => []AddIsForDetected
<1>1. SInv => AddIsForDetected
  BY DEF SInv, WindowOK
<1> QED
  BY <1>1, SInvariant, PTL

\* buttons_remove_new puts the table back as the window found it.
THEOREM CancelPutsBack == SSpec => CancelDiscards
<1>1. ASSUME TypeOK, SInv, calm, Cancel
      PROVE  buttons' = before
  <2>1. /\ window = "btnd"
        /\ buttons' = [c \in AnyCode |-> IF buttons[c] = "new" THEN "none" ELSE buttons[c]]
    BY <1>1 DEF Cancel, Usable
  <2>2. \A c \in AnyCode :
          /\ buttons[c] = before[c] \/ (buttons[c] = "new" /\ before[c] = "none")
          /\ before[c] # "new"
    BY <1>1, <2>1 DEF SInv, WindowOK
  <2>3. before = [c \in AnyCode |-> before[c]]
    BY <1>1 DEF TypeOK
  <2> QED
    BY <2>1, <2>2, <2>3
<1>2. TypeOK /\ SInv /\ [SNext]_<<svars, calm>> => [calm /\ Cancel => buttons' = before]_svars
  BY <1>1
<1> QED
  BY <1>2, SInvariant, PTL DEF SSpec, CancelDiscards

\* From pipe to progress bar: what a session announces was pressed more often than
\* any other free code.
THEOREM SessionVoteClear == SSpec => []VoteIsClear
BY SessionDetects, VoteClear, PTL
=============================================================================
