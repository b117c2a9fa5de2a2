SPECIFICATION Spec
CONSTANTS
  c1 = c1
  c2 = c2
  Clients = {c1, c2}
  BufferSize = 2
  MaxId = 4
  MaxRun = 2
  MaxStale = 2
INVARIANTS
  TypeOK
  ReplayExact
  NothingMissed
  PollsWhileConnected
PROPERTIES
  EventsArrive
  SubscriberReconnects
