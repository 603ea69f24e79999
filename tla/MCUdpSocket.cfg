SPECIFICATION FairSpec
CONSTANTS
  PortModulus = 4
  MaxMessages = 3
  MaxReceives = 2
INVARIANTS
  TypeOK
  OneSendOutstanding
  QueueIsPumped
  InOrder
PROPERTIES
  EverySendConcludes
CHECK_DEADLOCK FALSE
