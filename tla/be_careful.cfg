SPECIFICATION CarefulSpec
CONSTANTS
  Null = Null
  Rawcodes = {11, 12}
  Keycodes <- Keys
  Mods <- Modifiers
  Typable <- Inputs
  Opening <- Tables
  FirstNames <- First
  NewNames <- New1
  Half = 16
  Junk = Junk
  NoFile = NoFile
  MaxEdits = 2
INVARIANTS TreeShowsTable FieldsShowButton TableReadsBack
PROPERTIES SelectKeepsValues OpenShowsFile
CHECK_DEADLOCK FALSE
