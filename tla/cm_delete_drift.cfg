SPECIFICATION Spec
CONSTANTS
  Names <- Plain
  Fold <- PlainFold
  Suffixed <- PlainSuffixed
  Typed = {"Work"}
  Ids = {c1, c2, c3, c4}
  Kills = FALSE
  Backups = FALSE
  MaxRows = 0
  Looks = FALSE
  MaxConfigs = 3
  IOFails = FALSE
  NoFile = NoFile
  Torn = Torn
  NoId = NoId
SYMMETRY Identities
PROPERTIES DeletingKeepsOpen
