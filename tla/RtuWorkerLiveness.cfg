SPECIFICATION FairSpec
CONSTANTS
  Requests = {r1, r2, r3}
  Addresses = {1, 2, 3}
  Jobs <- FairJobs
  MaxErrorRetriesCrc = 2
  MaxErrorRetriesTimeout = 1
  MaxErrorRetriesOther = 1
  MaxAge = 0
INVARIANTS
  NothingLost
  NeverWedged
PROPERTIES
  EveryCallSettles
CHECK_DEADLOCK FALSE
