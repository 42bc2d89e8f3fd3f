SPECIFICATION Spec
CONSTANTS
  Threads = {r1, r2, w1, w2, w3, w4, w5}
  r1 = r1
  r2 = r2
  w1 = w1
  w2 = w2
  w3 = w3
  w4 = w4
  w5 = w5
  Casts <- MCCasts
  Once = {w3, w4, w5}
  Unlucky = {r1, w1}
INVARIANTS RuncountIsTrue NoWakeUpLost
PROPERTIES ImplementsLock WritersGetIn
