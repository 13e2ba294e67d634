\* The halt, when no process is about to register while it is raised.
CONSTANTS
  Producers = {p1, p2}
  Consumers = {c1}
  Finalizer = f
  Size = 2
  MaxWrites = 1
  StartsOverlapHalt = FALSE
SPECIFICATION FairSpec
INVARIANTS EveryProducerCanWake StopsInOrder QuietAfterLast
PROPERTIES ProducersStop
CHECK_DEADLOCK FALSE
