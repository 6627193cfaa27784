\* One browser, one connection, no fault: the browser closes while its session is checked.
CONSTANTS
  Browser = {b1}
  MaxConns = 1
  MaxFaults = 0
SPECIFICATION FairSpec
PROPERTY NoRelayWithoutBrowser
CHECK_DEADLOCK FALSE
