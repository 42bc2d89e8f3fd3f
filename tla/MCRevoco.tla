------------------------------ MODULE MCRevoco ------------------------------
(* A small instance of Revoco: two configurations, the MX Revolution and    *)
(* another mouse.                                                           *)
EXTENDS Revoco

Names == {<<"n">>}

FileBlocks ==
  {[NoMouse EXCEPT !.ids = 1, !.status = REVOCO_AUTO_MODE, !.down = 50],
   [NoMouse EXCEPT !.ids = 2, !.status = REVOCO_MANUAL_MODE, !.btn = 9]}

\* The buttons around the first gap, one speed, and a name with the defaults only.
Few == /\ {m.spin, m.mouse.btn} \subseteq {3, 9, 10, 11}
       /\ m.up = 5 /\ {m.down, m.mouse.down} \subseteq {5, 50}
       /\ m.mouse.name # Null => m.mouse.btn = 3 /\ m.mouse.down = 5
FewNext == Next /\ Few'
FewSpec == Init /\ [][FewNext]_vars
=============================================================================
