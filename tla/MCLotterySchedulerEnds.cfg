\* Two threads with one ticket each, run once in preemptive mode.
CONSTANTS
  MaxThreads = 2
  Modes = {"preemptive"}
  Tickets = {1}
  MaxSlices = 1
  MaxStarts = 1
  NoThread = NoThread
  TickBeforeJump = FALSE
SPECIFICATION FairSpec
PROPERTIES RunEnds
CHECK_DEADLOCK FALSE
