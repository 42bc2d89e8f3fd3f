\* Two threads, three calls and two settings in any order.
SPECIFICATION Spec
CONSTANTS
  NULL = NULL
  t1 = t1
  t2 = t2
  Threads <- MCThreads
  ULongs <- MCULongs
  Normal <- MCNormal
  HashString <- MCHashString
  Questions <- MCQuestions
  Dirs <- MCDirs
  Codesets <- MCCodesets
  Environments <- MCEnvironments
  Aliases <- MCAliases
  Files <- MCFiles
  Iconv <- MCIconv
  OutputCharset = "UTF-8"
  DefaultDir = "/usr"
  DefaultDomain = "messages"
  MaxCalls = 3
  MaxSettings = 1
INVARIANTS AnswersRight UsesOnlyLoaded
PROPERTIES EveryCallReturns
CHECK_DEADLOCK FALSE
