SPECIFICATION Spec
CONSTANTS
  Offers <- MCOffers
  Bodies <- MCBodies
  Passwords = {"own", "old"}
  Ufrags <- MCUfrags
  Absent = Absent
INVARIANTS
  AnswerFitsOffer
  OffersAnswered
  ChecksAnswered
  StaleChecksRefused
\* A request is played once and one check is sent to it.
CHECK_DEADLOCK FALSE
