SPECIFICATION FairSpec
CONSTANTS
  PortModulus = 4
  MaxMessages = 1
  MaxReceives = 0
PROPERTIES
  NoPortsIsReported
CHECK_DEADLOCK FALSE
