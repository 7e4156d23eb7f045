CONSTANTS
  v1 = v1  v2 = v2  d1 = d1  d2 = d2  a = a  b = b  h1 = h1  h2 = h2
  NoContent = NoContent  NoCommit = NoCommit  Listing = Listing
  Verifiers = {v1, v2}  Files = {d1, d2}  Optional = {d1, d2}  Contents = {a, b}  Commits = {h1, h2}
  FileRank <- MCFileRank
  Blobs <- MCBlobs
  Spoiled <- MCSpoiled
  FaultPoints = {"git", "stage", "link", "sync", "unlink"}
  MaxFaults = 2
  MaxWrites = 2
  MaxMoves = 1
  MaxCrashes = 1
SPECIFICATION Spec
SYMMETRY Symmetry
INVARIANTS TypeOK ConsistentConfig ScannedUnderSnapshot CommitExact ReportedStays StoredIsVouched
