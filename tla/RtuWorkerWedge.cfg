SPECIFICATION Spec
CONSTANTS
  Requests = {r1, r2}
  Addresses = {1, 2, 3}
  Jobs <- WedgeJobs
  MaxErrorRetriesCrc = 1
  MaxErrorRetriesTimeout = 1
  MaxErrorRetriesOther = 1
  MaxAge = 0
INVARIANTS
  NeverWedged
CHECK_DEADLOCK FALSE
