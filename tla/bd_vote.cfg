SPECIFICATION Spec
CONSTANTS
  Codes <- ThreeCodes
  DetectionPresses = 2
  MaxPresses = 6
  ForkFails = TRUE
INVARIANTS VoteIsClear DialogShowsPresses
