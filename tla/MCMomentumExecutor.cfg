SPECIFICATION Spec
CONSTANTS
  N = 3
  MaxIterations = 2
INVARIANTS
  OneJobEach
  NoStaleResult
  CleanStop
  AllJoined
PROPERTIES
  SerialSpec
  Termination
