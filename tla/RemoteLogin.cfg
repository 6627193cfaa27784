\* Two tabs or handlers at a time, three requests, one fault.
CONSTANTS
  Slots = {s1, s2}
  Devices = {d1}
  Fields = {"remote", "selected"}
  MaxRequests = 3
  MaxFaults = 1
  MaxAttempts = 1
  MaxCodeAttempts = 1
SPECIFICATION Spec
SYMMETRY Tabs
INVARIANTS
  TypeOK
  CodesAreBounded
  NewestCodeCounts
  SessionsEnd
  ScopeHolds
CHECK_DEADLOCK FALSE
