\* One restart and one plain action, two polls, one retry, one fault of any kind.
CONSTANTS
  Action = {a1, a2}
  Restarting = {a1}
  None = None
  MaxPolls = 2
  MaxTries = 2
  MaxFaults = 1
SPECIFICATION FairSpec
INVARIANTS
  ExecutedOnce
  OutcomesAreReal
  StrandedNeedsFault
PROPERTIES
  EventuallyBegun
  SettlesWithoutFaults
