\* Two files, two polls, one retry, up to two faults of any kind.
CONSTANTS
  Job = {j1, j2}
  None = None
  MaxPolls = 2
  MaxTries = 2
  MaxFaults = 2
SPECIFICATION FairSpec
INVARIANTS
  CompletedIsSaved
  RedownloadNeedsLostReport
  RowKeepsUp
PROPERTY EventuallyEnds
