SPECIFICATION Spec
CONSTANTS
  Granule = 2
  SizeMax = 16
  Bases = {3}
  PoolSizes = {4, 7}
  Requests = {1, 3, 6}
  Addresses <- Everywhere
  MaxMemID = 2
INVARIANTS PoolTypeOK PoolsTiled PoolsMerged NeverMisled
PROPERTIES IsAllocator
CHECK_DEADLOCK FALSE
