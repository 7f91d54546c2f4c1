SPECIFICATION FairSpec
CONSTANTS
  Objects = {table, entry, big}
  Root = table
  Pinned = {table, big}
  Null = Null
  table = table
  entry = entry
  big = big
  Members <- MCMembers
INVARIANT MembersValid
INVARIANT WeakKeepsNothing
INVARIANT WeakClearedIfDead
INVARIANT CallbacksRunInTime
PROPERTY CollectionEnds
