SPECIFICATION FairSpec
CONSTANTS
  Scopes = {s1, s2}
  EntriesPerTask = 2
  MaxPublished = 3
  MaxBatch = 2
  MaxDiscards = 2
  None = None
INVARIANTS
  TypeOK
  RouteToDelivery
  ReleasesEntries
  YieldsToTasks
PROPERTIES
  ImplementsQueue
  EventuallyDelivered
CHECK_DEADLOCK FALSE
