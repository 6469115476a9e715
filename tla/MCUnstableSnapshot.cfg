\* Two threads: one begins a transaction while the other commits.
SPECIFICATION Spec
CONSTANTS
  Keys = {k1, k2}
  Values = {a}
  EmptyValue = empty
  Tombstone = tombstone
  NoWrite = nowrite
  MaxTxnId = 3
  TornCrashes = {}
  ReadSetCap = 2
  MaxRecentCommits = 0
  Threads = {t1, t2}
  ClientModes = {"ReadWrite"}
  SyncMode = "FULL"
  AbortsOnError = TRUE
  Workload = {"read"}
  MaxWrites = 1
  MaxCheckpoints = 0
  MaxCrashes = 0
SYMMETRY Symmetry
PROPERTY SnapshotReadsStable
CHECK_DEADLOCK FALSE
