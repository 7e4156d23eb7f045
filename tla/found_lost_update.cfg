CONSTANTS
  c1 = c1  c2 = c2  git = git  dir = dir  r1 = r1  r2 = r2  r3 = r3
  NoLock = NoLock  NoRev = NoRev  NoCommand = NoCommand
  Commands = {c1, c2}  Sources = {git, dir}  GitSources = {git}  Revisions = {r1, r2, r3}
  SourceRank <- MCSourceRank
  Holds <- MCHolds
  Complete <- MCAllComplete
  Clashes <- MCClashes
  FirstLocks <- MCOldLockOnly
  FirstCaches <- MCNoCaches
  FaultPoints = {}
  MaxFaults = 0
  MaxMoves = 2
  MaxEnv = 0
  MaxCrashes = 0
SPECIFICATION Spec
SYMMETRY Symmetry
PROPERTIES NoLostUpdate
