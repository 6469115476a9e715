\* A crash leaves a torn record; commits acknowledged after the restart land behind it.
SPECIFICATION DurabilitySpec
CONSTANTS
  Keys = {k1, k2}
  Values = {a}
  EmptyValue = empty
  Tombstone = tombstone
  NoWrite = nowrite
  MaxTxnId = 4
  TornCrashes = {1}
  ReadSetCap = 2
  MaxRecentCommits = 0
  Threads = {t1}
  ClientModes = {"ReadWrite"}
  SyncMode = "FULL"
  AbortsOnError = TRUE
  Workload = {}
  MaxWrites = 1
  MaxCheckpoints = 0
  MaxCrashes = 2
SYMMETRY Symmetry
PROPERTY AckedCommitsSurvive
CHECK_DEADLOCK FALSE
