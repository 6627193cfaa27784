\* Two handlers at a time, three requests, one fault.
CONSTANTS
  Slots = {s1, s2}
  Devices = {}
  Fields = {"admin", "active"}
  MaxRequests = 3
  MaxFaults = 1
  MaxAttempts = 1
SPECIFICATION Spec
INVARIANTS
  TypeOK
  RevokedStaysOut
  LoginHasOneSession
  FailuresBounded
CHECK_DEADLOCK FALSE
