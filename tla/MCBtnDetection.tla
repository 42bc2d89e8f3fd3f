-------------------------- MODULE MCBtnDetection ---------------------------
(* BtnDetection with small limits for its counts: the dialog comes after a    *)
(* detection of six presses without a clear winner, and more can follow.      *)
EXTENDS BtnDetection

ThreeCodes == 1..3
=============================================================================
