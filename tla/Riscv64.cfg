SPECIFICATION Spec
CONSTANTS
  Operations <- Catalogue
  Starts <- Riscv64Starts
  Code <- Riscv64Code
  Exec <- Riscv64Exec
  Advance <- Riscv64Advance
  Flawed <- Riscv64Flawed
  Unruly <- Riscv64Unruly
INVARIANTS Computes OnlyDestinations
PROPERTIES Terminates
