SPECIFICATION FairSpec
CONSTANTS
  Endpoints = {e1, e2}
  NoEndpoint = NoEndpoint
  Flights = 2
  MaxTimeouts = 1
  MaxAssociations = 3
INVARIANTS
  TypeOK
  SentToNominated
  OneEndpointPerAssociation
  FlightGuarded
PROPERTIES
  HandshakeEnds
CHECK_DEADLOCK FALSE
