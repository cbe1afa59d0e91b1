SPECIFICATION FairSpec
CONSTANTS
  Replicas = {r1, r2}
  r1 = r1
  r2 = r2
  EventsPerTick = 1
  ItemsPerDelivery = 1
  DeliveriesPerTick = 2
  MaxAttempts = 2
  DisableAfter = 2
  MaxEvents = 2
  MaxIncidents = 1
  MaxOverlaps = 1
INVARIANT EnqueuedOnce
INVARIANT DeliveryMeansTaken
PROPERTY EveryChangeSettles
CHECK_DEADLOCK FALSE
