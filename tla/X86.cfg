SPECIFICATION Spec
CONSTANTS
  Operations <- X86Operations
  Starts <- X86Starts
  Code <- X86Code
  Exec <- X86Exec
  Advance <- X86Advance
  Flawed <- X86Flawed
  Unruly <- X86Unruly
INVARIANTS Computes OnlyDestinations
