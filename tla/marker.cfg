SPECIFICATION FairMarkerSpec
CONSTANTS
  Unreadable = Unreadable
  d1 = d1  d2 = d2  r1 = r1
  Deliveries = {d1, d2, r1}
  Requests = {r1}
  MaxTurns = 2
INVARIANTS
  MarkerTypeOK
  OneOwner
  SkippedIsCovered
PROPERTIES
  DeliveredIsReviewed
CHECK_DEADLOCK FALSE
