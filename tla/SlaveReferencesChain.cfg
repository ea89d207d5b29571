SPECIFICATION Spec
CONSTANTS
  Ids = {1, 2, 3}
  Specs = {meter}
  None = None
INVARIANT OneLevelDeep
