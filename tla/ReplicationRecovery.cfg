SPECIFICATION FairSpec
PROPERTIES InterruptedSyncRecovers
CONSTANTS
  Remotes = {origin}
  Histories <- Authors
  ActorHistories <- Authors
  MaxLen = 2
  TxnIds = {t1, t2, t3}
  Procs = {p1}
  MaxCrashes = 2
  Selection <- SelectAll
  CompatAll <- NoRemote
  MaxEvents <- CodeBudget
  Malformed <- NoObjects
  References <- StableReferences
  LocalObjects <- NoObjects
CHECK_DEADLOCK FALSE
