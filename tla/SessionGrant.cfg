\* Four start requests and two end requests on one grant.
CONSTANTS
  Caller = {c1, c2, c3, c4}
  Ender = {e1, e2}
SPECIFICATION GrantSpec
SYMMETRY RequestSymmetry
INVARIANT HoldersExplained
PROPERTY KeepsThePromise
\* Every request answered.
CHECK_DEADLOCK FALSE
