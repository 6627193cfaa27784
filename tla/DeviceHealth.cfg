\* Two heartbeats at a time; the thresholds in their order, made small: the tracker degrades
\* at two failures, the watchdog calls for attention at as many.
CONSTANTS
  HealthyAge = 0
  WarningAge = 1
  OfflineAge = 2
  RecentAge = 2
  DegradeAfter = 2
  AttentionAfter = 2
  ProlongedAfter = 1
  LoopStaleAfter = 1
  MaxRepairs = 1
  RepairCooldown = 0
  Handlers = {h1, h2}
  MaxAttempts = 2
  MaxFaults = 1
SPECIFICATION FairSpec
INVARIANT HealthIsTrue
PROPERTIES
  NoErrorLost
  HeartbeatIsShown
  HealthyAgain
  SilentIsOffline
