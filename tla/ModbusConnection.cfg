SPECIFICATION FairSpec
CONSTANTS
  Calls = {r1, r2, r3}
  Lines = {near, far}
  Framings = {n81}
INVARIANTS
  OpensOnlyClosedPort
  StaleOnlyAfterTimeout
PROPERTIES
  EveryCallSettles
  ImplementsService
