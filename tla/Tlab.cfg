SPECIFICATION SpecTlab
CONSTANTS
  Blocks <- MCBlocks
  Lo <- MCLo
  Hi <- MCHi
  Sizes = {1, 2, 5}
  Align = 2
  LosThreshold = 5
INVARIANT ObjectsDisjoint
INVARIANT HandedOver
