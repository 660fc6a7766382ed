SPECIFICATION FairSpec
CONSTANTS
  first = first  second = second  send = send  thumbnail = thumbnail
  Call <- AllCalls
  Listing <- Listings
  JobCall <- Transfers
INVARIANTS LockInv BusExclusive
PROPERTIES FirstComeFirstServed CallsReturn StopEnds
CHECK_DEADLOCK FALSE
