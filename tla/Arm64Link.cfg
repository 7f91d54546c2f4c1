SPECIFICATION Spec
CONSTANTS
  MaxCode = 6
  MaxJumps = 2
  MaxRelinks = 1
  Granule = 4
  Rooms = {3, 7}
  Outside <- MCOutside
  Reach14 = 2
  Reach19 = 4
  Reach26 = 32
  Skip = 3
  Careful = TRUE
INVARIANT JumpsLead
INVARIANT CodeKept
CHECK_DEADLOCK FALSE
