\* One file and one fault are enough.
CONSTANTS
  Job = {j1}
  None = None
  MaxPolls = 1
  MaxTries = 1
  MaxFaults = 1
SPECIFICATION FairSpec
PROPERTY JobsAreDownloaded
