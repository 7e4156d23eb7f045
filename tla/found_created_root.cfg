CONSTANTS
  p1 = p1  p2 = p2  t1 = t1  t2 = t2  i1 = i1  i2 = i2
  v1 = v1  v2 = v2  w1 = w1  cacheA = cacheA  cacheB = cacheB
  NoSource = NoSource  NoCache = NoCache  NoFile = NoFile
  NoInode = NoInode  NoApply = NoApply
  Sources = {v1, v2, w1}  Caches = {cacheA, cacheB}  Unsafe = {}
  Paths <- MCPaths  Artifacts <- MCArtifacts  Above <- MCAbove  PathRank <- MCPathRank
  CacheOf <- MCCacheOf  TargetRank <- MCTargetRank  IdRank <- MCIdRank  Home <- MCHome  Makers <- MCMakers
  Applies = {p1, p2}
  Targets = {t1}
  Inodes = {i1, i2, i3}
  CacheRoot <- OneAuthority
  Priors <- RacePriors
  Configs <- LiveConfigs
  FaultPoints = {}
  MaxFaults = 0
  MaxEnv = 0
  MaxCrashes = 0
  LockTimeout = TRUE
SPECIFICATION Spec
SYMMETRY Symmetry
PROPERTIES RecordsKept
