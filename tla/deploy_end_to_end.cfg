CONSTANTS
  ignore = ignore  f1 = f1  m1 = m1  m2 = m2  d1 = d1  d2 = d2  x = x  y = y  t1 = t1  t2 = t2
  Root = Root  NoContent = NoContent  NoName = NoName  NoLock = NoLock  NoInput = NoInput  NoIntent = NoIntent  NoLink = NoLink
  Resolvers = {r1}
  Dirs = {d1, d2}  Files = {ignore, f1, m1, m2}  Contents = {x, y}  Ignore = ignore
  In <- MCIn  Rank <- MCRank  Hides <- MCHides  FirstTrees <- MCFirstTrees
  Manifest <- MCManifest  NameOf <- MCNameOf
  Applies = {p1, p2}  Targets = {t1}
  Policies <- MCPolicies  FirstPolicies <- MCFirstPolicies
  MaxWrites = 2  MaxChanges = 2  MaxKills = 1
SPECIFICATION Spec
SYMMETRY Symmetry
INVARIANTS TypeOK SnapshotsHeld LinkedSkillsHeld RuntimeNamesUnique
CHECK_DEADLOCK FALSE
PROPERTIES OneInputCommits
