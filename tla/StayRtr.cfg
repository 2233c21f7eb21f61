SPECIFICATION StaySpec
CONSTANTS
  None = None
  NoRoas = NoRoas
  Undecodable = Undecodable
  AddrBits = 2
  AsnBits = 2
  CacheContents <- MCCacheContents
  SlurmContents <- MCSlurmContents
  Local = {}
  Etagged = {"cache"}
  EnableEtags = TRUE
  EnableLastModified = TRUE
  CheckTime = TRUE
  VersionMax = 2
  DayMax = 1
  FailMax = 1
CHECK_DEADLOCK FALSE
INVARIANTS
  ServedExact
  ExportExact
  NothingHidden
PROPERTIES
  RefreshedUnlessLost
