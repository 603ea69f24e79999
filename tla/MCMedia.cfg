SPECIFICATION MCSpec
CONSTANTS
  kMaxRtpPayloadSize = 4
  SeqModulus = 5
  Frames <- MCFrames
  Compounds <- MCCompounds
  Refused <- MCRefused
  MaxFrames = 2
  MaxDatagrams = 1
  kFrameSize = 4
  SampleMillis = 5
  FirstMillis = 7
  PacketSizes = {3, 5}
  MaxDecoding = 1
  MaxHeld = 1
  MaxSamples = 15
INVARIANTS
  FramesSurvive
  CompoundMeaning
  OnlyForeignNacksCrash
  AudioKeepsTime
  OnlyAfterFailure
CHECK_DEADLOCK FALSE
