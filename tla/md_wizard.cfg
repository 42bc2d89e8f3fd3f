SPECIFICATION FairSpec
CONSTANTS
  Devices <- AllDevices
  Mice <- AllMice
  IdsOf <- AllIds
  NoMouse = NoMouse
  Casts <- Machines
  MaxForks = 2
INVARIANTS OneMouse ListedIsReported
PROPERTIES MovedIsListed
CHECK_DEADLOCK FALSE
