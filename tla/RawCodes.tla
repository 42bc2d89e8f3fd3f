------------------------------ MODULE RawCodes ------------------------------
(***************************************************************************)
(* The table of raw codes a button detection has seen (rawcodes.c), a      *)
(* sequence of [code, pressed] in the order of their first presses, and    *)
(* the order in which the dialog lists them (dialog_btnd.c).  got_highest  *)
(* is set only while the dialog is filled, and reset behind that.          *)
(***************************************************************************)
EXTENDS Integers, Sequences

\* rawcodes_find.
Found(rcs, c) == \E i \in DOMAIN rcs : rcs[i].code = c
rawcodes_find(rcs, c) == CHOOSE i \in DOMAIN rcs : rcs[i].code = c

\* rawcodes_report: one more press of c.
rawcodes_report(rcs, c) ==
  IF Found(rcs, c) THEN [rcs EXCEPT ![rawcodes_find(rcs, c)].pressed = @ + 1]
  ELSE Append(rcs, [code |-> c, pressed |-> 1])

\* rawcodes_get_most_pressed: the first that no other one exceeds, of those that
\* do not have got_highest yet.
MostPressedAny(rcs, left) == CHOOSE i \in left : \A j \in left : i <= j  \* the first one
MostPressed(rcs, left) ==
  CHOOSE i \in left :
    /\ \A j \in left : rcs[j].pressed <= rcs[i].pressed
    /\ \A j \in left : rcs[j].pressed = rcs[i].pressed => i <= j

\* dialog_btnd_populate asks for them until there is none left; these are the codes
\* in the order of the rows.
dialog_btnd_populate(rcs) ==
  LET rows[left \in SUBSET DOMAIN rcs] ==
        IF left = {} THEN <<>>
        ELSE LET i == MostPressed(rcs, left)
             IN <<rcs[i]>> \o rows[left \ {i}]
  IN rows[DOMAIN rcs]
=============================================================================
