SPECIFICATION Spec
CONSTANTS
  Names <- Plain
  Fold <- PlainFold
  Suffixed <- PlainSuffixed
  Typed = {"Default"}
  Ids = {c1, c2, c3, c4, c5, c6}
  Kills = FALSE
  Backups = FALSE
  MaxRows = 0
  Looks = FALSE
  MaxConfigs = 2
  IOFails = FALSE
  NoFile = NoFile
  Torn = Torn
  NoId = NoId
SYMMETRY Identities
INVARIANTS NamesUnique TreeShowsList LoadsWhatIsOnDisk
PROPERTIES AgreeUnlessDrifts EditsAreWritten
