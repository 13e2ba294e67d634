\* The comment at sync.c:411, against a process that starts during the halt.
CONSTANTS
  Producers = {p1}
  Consumers = {c1}
  Finalizer = f
  Size = 1
  MaxWrites = 1
  StartsOverlapHalt = TRUE
SPECIFICATION Spec
PROPERTIES NoneAcceptedAfterHalt
CHECK_DEADLOCK FALSE
