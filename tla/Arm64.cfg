SPECIFICATION Spec
CONSTANTS
  Operations <- Arm64Operations
  Starts <- Arm64Starts
  Code <- Arm64Code
  Exec <- Arm64Exec
  Advance <- Arm64Advance
  Flawed <- Arm64Flawed
  Unruly <- Arm64Unruly
INVARIANTS Computes OnlyDestinations CachedValuesHold
PROPERTIES Terminates
