SPECIFICATION Spec
CONSTANTS
  SeqModulus = 5
  WordModulus = 32
  kSendBufferCapacity = 3
  kDefaultRttMillis = 1
  MillisPerSecond = 2
  CompactPerSecond = 5
  clock_rate = 4
  StartMillis = 63
  FrameSteps <- MCFrameSteps
  MaxMillis = 1
  MaxPackets = 6
  MaxResent = 2
INVARIANTS
  TypeOK
  NackAnswered
  ResendsPaced
  ResendsWellFormed
  SenderReportExact
  RttBounded
