CONSTANTS
  Devices = {d1, d2, d3}
  NoDevice = NoDevice
  BondNum = 2
  ListSizes = {1, 2}
  MaxBondChanges = 3
  MaxRejects = 1
  MaxFailures = 1
SPECIFICATION FairSpec
INVARIANTS TypeOK RequestTracked IdleNothingPending OneEntryEach ListFollowsTable WhiteListCovers ListFollowsBonds
PROPERTIES PendingDone
