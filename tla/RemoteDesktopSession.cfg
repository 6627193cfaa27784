\* Two admitted sockets; three uploads without an answer or restarts of the
\* agent, so that all tries of an upload may be lost.
CONSTANTS
  MaxAdmits = 2
  MaxTries = 3
  MaxLost = 3
SPECIFICATION SessionSpec
INVARIANT ConnectedMeansFrame
PROPERTY FinalForBrowsers
CHECK_DEADLOCK FALSE
