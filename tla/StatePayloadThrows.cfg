SPECIFICATION Spec
CONSTANTS
  Indices = {"0", "9999"}
  TooHigh = {"9999"}
  Thrown = Thrown
  Layouts <- ThreeEntities
INVARIANT PayloadNeverThrows
