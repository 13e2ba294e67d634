CONSTANTS
  Size = 3
  Messages = {m1, m2}
  NoMessage = NoMessage
SPECIFICATION Spec
INVARIANTS ShownIsUnread
PROPERTIES ImplementsQueue
