SPECIFICATION ClientSpec
CONSTANTS
  Sources = {s1}
  Transports = {t1, t2}
  NoSource = NoSource
  NoTransport = NoTransport
  Urls <- MCUrls
  Url <- MCUrl
  EnableGopCache = FALSE
  MaxErrors = 1
PROPERTIES
  RemoveReturns
  ManagerCatchesUp
CHECK_DEADLOCK FALSE
