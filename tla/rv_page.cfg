SPECIFICATION FewSpec
CONSTANTS
  Null = Null
  Configs = {A, B}
  Ids = {0, 1, 2}
  Revolution = {1}
  Typed <- Names
  Blocks <- FileBlocks
INVARIANTS PageShowsMouse
PROPERTY OpenGivesFile
