SPECIFICATION Spec
CONSTANTS
  Sources = {s1}
  Transports = {t1, t2}
  NoSource = NoSource
  NoTransport = NoTransport
  Urls <- MCUrls
  Url <- MCUrl
  EnableGopCache = TRUE
  MaxErrors = 1
SYMMETRY MCSymmetry
INVARIANTS
  TypeOK
  NoCallOnFreed
  DestroyedAfterJoin
  RemovedAfterLatch
CHECK_DEADLOCK FALSE
