---------------------------- MODULE MCBtnSession ----------------------------
(* Instances of BtnSession with smaller limits than 5 and 12; what decides   *)
(* there is who reads a message, not how many there are.                     *)
EXTENDS BtnSession

OneCode == {1}
=============================================================================
