------------------------------ MODULE MCRwLock ------------------------------
(* RwLock for TLC: two readers that overlap and two writers in both builds, and  *)
(* on win32 writers enough to fill the ring of three, wrap it and make it grow.  *)
EXTENDS RwLock

CONSTANTS r1, r2, w1, w2, w3, w4, w5

Cast(b, R, W) ==
  [build |-> b,
   may |-> [t \in Threads |-> IF t \in R THEN {"read"} ELSE IF t \in W THEN {"write"} ELSE {}]]

MCCasts == {Cast("pthread", {r1, r2}, {w1, w2}), Cast("win32", {r1, r2}, {w1, w2}),
            Cast("win32", {}, {w1, w2, w3, w4, w5})}
=============================================================================
