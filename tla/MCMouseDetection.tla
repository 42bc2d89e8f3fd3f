-------------------------- MODULE MCMouseDetection --------------------------
(* A mouse with two handlers, and a device of another make, which is not     *)
(* plugged in everywhere.                                                    *)
EXTENDS MouseDetection

AllDevices == {"wheel", "side", "pad"}
AllMice == {"mx", "tablet"}
AllIds == [d \in AllDevices |-> IF d = "pad" THEN "tablet" ELSE "mx"]

\* The patient user has the mouse alone; any user has it with event0, or one of
\* its handlers and the device of another make.
Machines ==
  {[devices |-> {"wheel", "side"}, first |-> "none", calm |-> TRUE],
   [devices |-> {"wheel", "side"}, first |-> "side", calm |-> FALSE],
   [devices |-> {"wheel", "pad"}, first |-> "none", calm |-> FALSE]}
=============================================================================
