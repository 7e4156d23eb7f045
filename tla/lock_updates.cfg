CONSTANTS
  c1 = c1  c2 = c2  git = git  dir = dir  r1 = r1  r2 = r2  r3 = r3
  NoLock = NoLock  NoRev = NoRev  NoCommand = NoCommand
  Commands = {c1, c2}  Sources = {git, dir}  GitSources = {git}  Revisions = {r1, r2, r3}
  SourceRank <- MCSourceRank
  Holds <- MCHolds
  Complete <- MCComplete
  Clashes <- MCClashes
  FirstLocks <- MCFirstLocks
  FirstCaches <- MCFirstCaches
  FaultPoints = {"check", "source", "copy", "rename", "stage", "replace", "sync"}
  MaxFaults = 1
  MaxMoves = 1
  MaxEnv = 1
  MaxCrashes = 1
SPECIFICATION Spec
SYMMETRY Symmetry
INVARIANTS TypeOK ContentAddressed LockedIsCached ReviewedIsLocked LockServesPool UpdateResolves
PROPERTIES OutcomeTruthful
