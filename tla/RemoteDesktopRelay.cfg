\* Two browsers, two connections of the agent, up to two unprovoked breaks.
CONSTANTS
  Browser = {b1, b2}
  MaxConns = 2
  MaxFaults = 2
SPECIFICATION FairSpec
INVARIANTS
  RelaysExplained
  StopSparesLaterViewers
  BooksExplained
PROPERTIES
  CancelledRelayEnds
  AcceptedGetsRelay
\* Every browser gone and every connection used up.
CHECK_DEADLOCK FALSE
