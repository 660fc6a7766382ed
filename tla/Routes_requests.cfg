SPECIFICATION Spec
CONSTANTS
  r1 = r1  r2 = r2  r3 = r3
  Request <- SomeRequests
  Shelves <- SomeShelves
  MaxBooks = 5
  MaxChanges = 2
  PageSizes <- SomePageSizes
  Offered <- SomeOffered
  MaxPerPage = 2
  MaxCovers = 3
INVARIANTS WalkMissesNothing CoverFresh HealthInv FalseAlarmNeedsOverlap
