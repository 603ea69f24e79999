SPECIFICATION Spec
CONSTANTS
  Sources = {s1}
  Transports = {t1}
  NoSource = NoSource
  NoTransport = NoTransport
  Urls <- MCUrls
  Url <- MCUrl
  EnableGopCache = TRUE
  MaxErrors = 1
PROPERTIES
  AddStartsPull
CHECK_DEADLOCK FALSE
