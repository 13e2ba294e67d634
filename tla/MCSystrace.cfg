\* Command lines of up to three arguments; a command that makes up to two
\* calls before it exits, and gets up to two signals.
CONSTANTS
  Words = {ls, file}
  MaxArgs = 3
  Calls <- MCCalls
  MaxCalls = 2
  MaxSignals = 2
SPECIFICATION FairSpec
INVARIANTS ArgumentsKept CountsExact LinesAreCalls
PROPERTIES EndsUnlessSignalled
CHECK_DEADLOCK FALSE
