\* Two clients, one of them a finalizer, and two sessions.
CONSTANTS
  Clients = {c1, c2}
  Finalizers = {c1}
  SizeOf <- MCSizeOf
SPECIFICATION FairSpec
INVARIANTS AttachedIsUpToDate ShrunkOnlyByStale
PROPERTIES RestartRecovers
CHECK_DEADLOCK FALSE
