\* Every set of up to three tasks with periods up to 4; a hyperperiod of 12
\* slots takes three pages, one of 6 a whole page and a half.  The tests round
\* coarsely, so that with 12 slots one too many may be approved.
CONSTANTS
  MaxTasks = 3
  Periods = {1, 2, 3, 4}
  Precision = 16
  TS_PER_SLIDE = 4
SPECIFICATION TablesSpec
INVARIANTS TablesTypeOK CachesExact SimulationAgreesWithTest
  SlidesShowSchedule MissShown
PROPERTIES KeepsCurrent ImplementsSchedule
CHECK_DEADLOCK FALSE
