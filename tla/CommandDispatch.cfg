\* Two commands, one retry per upload, one fault of any kind, polls without end.
CONSTANTS
  Command = {c1, c2}
  None = None
  MaxTries = 2
  MaxFaults = 1
SPECIFICATION FairSpec
INVARIANTS
  ExecutionsExplained
  OutcomesKept
  NothingStranded
PROPERTIES
  NeverPendingAgain
  EventuallyBegun
  SettlesWithoutFaults
\* All commands finished and nothing in flight: the agent only polls in vain.
CHECK_DEADLOCK FALSE
