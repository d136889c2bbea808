SPECIFICATION FlashingSpec
CONSTANTS
  SECTOR = 3
  SECTORS = 3
  CHUNK = 3
  MaxSession = 2
  MaxFaults = 3
  Lengths <- MCLengths
  PF_SECTOR = 2
  PF_SECTORS = 3
  PF_WIDTH = 16
  ProbeAddrs = {0, 1, 3, 5, 6}
  ProbeData <- MCProbeData
INVARIANTS DoneMeansFlashed
PROPERTIES ReservedKept SessionSucceeds ProbeVerified ImplementsFlashService
CHECK_DEADLOCK FALSE
