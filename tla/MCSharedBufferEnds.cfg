\* The comment at sync.c:596-607: does finalize come to its end?  The halt finds
\* the producer before its first write.
CONSTANTS
  Producers = {p1}
  Consumers = {c1}
  Finalizer = f
  Size = 1
  MaxWrites = 0
  StartsOverlapHalt = FALSE
SPECIFICATION FairSpec
PROPERTIES FinalizeEnds
CHECK_DEADLOCK FALSE
