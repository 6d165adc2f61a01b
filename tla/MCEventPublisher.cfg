\* Two server processes poll one table.
CONSTANTS
  Publishers = {p1, p2}
  Events = {1, 2}
  Aggregate <- MCAggregate
  BatchSize = 2
  MaxAttempts = 2
  MaxFaults = 2
SPECIFICATION FairSpec
INVARIANTS
  DeliveredOnceUnlessLost GivenUpOnTime TriedInOrder
PROPERTIES
  EventsLeaveQueue
CHECK_DEADLOCK FALSE
