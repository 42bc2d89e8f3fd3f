SPECIFICATION Spec
CONSTANTS
  Names <- Few
  Fold <- FewFold
  Suffixed <- FewSuffixed
  Typed = {"New"}
  Ids = {c1, c2}
  Kills = TRUE
  Backups = TRUE
  MaxRows = 1
  Looks = FALSE
  MaxConfigs = 2
  IOFails = TRUE
  NoFile = NoFile
  Torn = Torn
  NoId = NoId
SYMMETRY Identities
INVARIANTS LoadsWhatIsOnDisk
PROPERTIES EndingKeepsSaved
