SPECIFICATION StaySpec
CONSTANTS
  None = None
  NoRoas = NoRoas
  Undecodable = Undecodable
  AddrBits = 2
  AsnBits = 2
  CacheContents <- MCCacheContents
  SlurmContents <- MCSlurmContents
  Local = {"slurm"}
  Etagged = {"cache", "slurm"}
  EnableEtags = TRUE
  EnableLastModified = TRUE
  CheckTime = TRUE
  VersionMax = 1
  DayMax = 1
  FailMax = 1
CHECK_DEADLOCK FALSE
PROPERTY
  Refreshed
