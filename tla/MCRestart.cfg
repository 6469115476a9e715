SPECIFICATION DurabilitySpec
CONSTANTS
  Keys = {k1, k2}
  Values = {a, b}
  EmptyValue = empty
  Tombstone = tombstone
  NoWrite = nowrite
  MaxTxnId = 3
  TornCrashes = {2}
  ReadSetCap = 2
  MaxRecentCommits = 0
  Threads = {t1}
  ClientModes = {"WriteOnly"}
  SyncMode = "NORMAL"
  AbortsOnError = TRUE
  Workload = {"abort", "shutdown", "checkpoint"}
  MaxWrites = 2
  MaxCheckpoints = 1
  MaxCrashes = 2
CHECK_DEADLOCK FALSE
SYMMETRY Symmetry
 
PROPERTIES RecoveryRestoresCommittedPrefix ImplementsSnapshotStore
