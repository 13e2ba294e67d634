CONSTANTS
  Senders = {p, c, fin}
  Finalizer = fin
  MaxSends = 2
  NoEvent = NoEvent
SPECIFICATION FairSpec
INVARIANTS TypeOK OneToken
PROPERTIES NoEventOverwritten ImplementsDelivery CallReturns LastEventEndsCreator
CHECK_DEADLOCK FALSE
