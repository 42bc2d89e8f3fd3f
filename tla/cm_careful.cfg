SPECIFICATION CarefulSpec
CONSTANTS
  Names <- Wide
  Fold <- WideFold
  Suffixed <- WideSuffixed
  Typed = {"Work"}
  Ids = {c1, c2, c3, c4}
  Kills = FALSE
  Backups = FALSE
  MaxRows = 0
  Looks = TRUE
  MaxConfigs = 3
  IOFails = FALSE
  NoFile = NoFile
  Torn = Torn
  NoId = NoId
SYMMETRY Identities
INVARIANTS StarOnOpen ValuesStayHome NoOrphanFile
PROPERTIES ImplementsBook
