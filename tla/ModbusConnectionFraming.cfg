SPECIFICATION Spec
CONSTANTS
  Calls = {r1, r2}
  Lines = {near, far}
  Framings = {n81, e81}
INVARIANT UpdateReachesPort
