\* Clients of one thread that read and write two keys; TLC finds a lost update first.
SPECIFICATION IsolationSpec
CONSTANTS
  Keys = {k1, k2}
  Values = {a}
  EmptyValue = empty
  Tombstone = tombstone
  NoWrite = nowrite
  MaxTxnId = 4
  TornCrashes = {}
  ReadSetCap = 2
  MaxRecentCommits = 1
  Threads = {t1}
  ClientModes = {"ReadWrite"}
  SyncMode = "FULL"
  AbortsOnError = TRUE
  Workload = {"read"}
  MaxWrites = 1
  MaxCheckpoints = 0
  MaxCrashes = 0
SYMMETRY Symmetry
INVARIANT Serializable
CHECK_DEADLOCK FALSE
