\* No property of this run looks at values: every write is a delete.
SPECIFICATION IsolationSpec
CONSTANTS
  Keys = {k1, k2}
  Values = {}
  EmptyValue = empty
  Tombstone = tombstone
  NoWrite = nowrite
  MaxTxnId = 4
  TornCrashes = {}
  ReadSetCap = 2
  MaxRecentCommits = 0
  Threads = {t1}
  ClientModes = {"ReadWrite"}
  SyncMode = "FULL"
  AbortsOnError = TRUE
  Workload = {"read", "readOnlyFast", "delete", "gc", "abort"}
  MaxWrites = 1
  MaxCheckpoints = 0
  MaxCrashes = 0
CHECK_DEADLOCK FALSE
SYMMETRY Symmetry
INVARIANTS FullValidationStopsWriteSkew LastCommitIsVisible SnapshotInv
PROPERTY SnapshotReadsStable
