CONSTANTS
  p1 = p1  p2 = p2  t1 = t1  t2 = t2  i1 = i1  i2 = i2
  v1 = v1  v2 = v2  w1 = w1  cacheA = cacheA  cacheB = cacheB
  NoSource = NoSource  NoCache = NoCache  NoFile = NoFile
  NoInode = NoInode  NoApply = NoApply
  Sources = {v1, v2, w1}  Caches = {cacheA, cacheB}  Unsafe = {}
  Paths <- MCPaths  Artifacts <- MCArtifacts  Above <- MCAbove  PathRank <- MCPathRank
  CacheOf <- MCCacheOf  TargetRank <- MCTargetRank  IdRank <- MCIdRank  Home <- MCHome  Makers <- MCMakers
  Applies = {p1, p2}
  Targets = {t1}
  Inodes = {i1, i2, i3}
  CacheRoot <- TwoAuthorities
  Priors <- UserPriors
  Configs <- UserConfigs
  FaultPoints = {"openparent", "checkpoint", "readlink", "stat", "initread"}
  MaxFaults = 1
  MaxEnv = 1
  MaxCrashes = 1
  LockTimeout = TRUE
SPECIFICATION Spec
SYMMETRY InodeSymmetry
INVARIANTS VerdictAgrees
PROPERTIES NothingDestroyed AuthorityKeepsTarget
