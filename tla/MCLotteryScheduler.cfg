\* Both modes, threads with and without tickets, a run started inside another.
CONSTANTS
  MaxThreads = 3
  Modes = {"preemptive", "nonpreemptive"}
  Tickets = {0, 2}
  MaxSlices = 1
  MaxStarts = 2
  NoThread = NoThread
  TickBeforeJump = FALSE
SPECIFICATION FairSpec
INVARIANTS TypeOK ActiveExact OneOwner OneRuns SavedByOwner NeverKilled DrawFinds
PROPERTIES EndsUnlessLost
CHECK_DEADLOCK FALSE
