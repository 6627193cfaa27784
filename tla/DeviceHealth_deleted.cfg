\* One handler at a time and one fault, the deletion of the device.
CONSTANTS
  HealthyAge = 0
  WarningAge = 1
  OfflineAge = 2
  RecentAge = 2
  DegradeAfter = 2
  AttentionAfter = 2
  ProlongedAfter = 1
  LoopStaleAfter = 1
  MaxRepairs = 1
  RepairCooldown = 0
  Handlers = {h1}
  MaxAttempts = 2
  MaxFaults = 1
SPECIFICATION FairSpec
PROPERTY DeletedComesBack
