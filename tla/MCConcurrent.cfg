SPECIFICATION DurabilitySpec
CONSTANTS
  Keys = {k1, k2}
  Values = {a, b}
  EmptyValue = empty
  Tombstone = tombstone
  NoWrite = nowrite
  MaxTxnId = 3
  TornCrashes = {1}
  ReadSetCap = 2
  MaxRecentCommits = 0
  Threads = {t1, t2}
  ClientModes = {"ReadWrite"}
  SyncMode = "GROUP"
  AbortsOnError = TRUE
  Workload = {"ioError", "abort"}
  MaxWrites = 2
  MaxCheckpoints = 0
  MaxCrashes = 1
CHECK_DEADLOCK FALSE
SYMMETRY Symmetry
INVARIANTS TypeOK LogOrderMatchesVersionOrder  ReplayComputesLoggedValues
PROPERTIES RecoveryRestoresCommittedPrefix AckedCommitsSurvive
