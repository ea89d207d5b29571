SPECIFICATION Spec
CONSTANTS
  Requests = {r1, r2, r3}
  Addresses = {1, 2, 3}
  Jobs <- SafetyJobs
  MaxErrorRetriesCrc = 4
  MaxErrorRetriesTimeout = 1
  MaxErrorRetriesOther = 1
  MaxAge = 2
ACTION_CONSTRAINT FewJobsAge
SYMMETRY Symmetry
INVARIANTS
  FailuresAreReported
  TypeOK
  OneInFlight
  OwedOnce
PROPERTIES
  NoHoleWhileYoung
  MostUrgentFirst
  ImplementsService
CHECK_DEADLOCK FALSE
