\* A commit that validation refuses, then abort() of the refused transaction.
SPECIFICATION Spec
CONSTANTS
  Keys = {k1, k2}
  Values = {a}
  EmptyValue = empty
  Tombstone = tombstone
  NoWrite = nowrite
  MaxTxnId = 3
  TornCrashes = {}
  ReadSetCap = 2
  MaxRecentCommits = 0
  Threads = {t1}
  ClientModes = {"ReadWrite"}
  SyncMode = "FULL"
  AbortsOnError = TRUE
  Workload = {"read", "abort"}
  MaxWrites = 1
  MaxCheckpoints = 0
  MaxCrashes = 0
SYMMETRY Symmetry
INVARIANT AbortLeavesNothing
CHECK_DEADLOCK FALSE
