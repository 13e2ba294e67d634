\* All interleavings of two producers, two consumers and the finalizer, which
\* may start at any time, on a buffer of one slot.
CONSTANTS
  Producers = {p1, p2}
  Consumers = {c1, c2}
  Finalizer = f
  Size = 1
  MaxWrites = 1
  StartsOverlapHalt = TRUE
SPECIFICATION Spec
SYMMETRY Symmetry
INVARIANTS TypeOK UnitsConserved CountersExact NoLostWakeup
CHECK_DEADLOCK FALSE
