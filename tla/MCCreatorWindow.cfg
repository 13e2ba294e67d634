\* Two producers whose writes overlap, and a consumer, on a buffer of two slots.
CONSTANTS
  Size = 2
  Messages = {p1, p2, finalizer}
  NoMessage = NoMessage
  Producers = {p1, p2}
  Consumers = {c1}
  Finalizer = finalizer
  MaxAccesses = 3
SPECIFICATION WindowSpec
INVARIANTS ShowsBufferAtRest
PROPERTIES LastEventShown
CHECK_DEADLOCK FALSE
