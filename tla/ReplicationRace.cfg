SPECIFICATION Spec
PROPERTIES SettledNeverRewritten
CONSTANTS
  Remotes = {origin}
  Histories <- Authors
  ActorHistories <- Authors
  MaxLen = 2
  TxnIds = {t1, t2}
  Procs = {p1, p2}
  MaxCrashes = 0
  Selection <- SelectAll
  CompatAll <- NoRemote
  MaxEvents <- CodeBudget
  Malformed <- NoObjects
  References <- StableReferences
  LocalObjects <- NoObjects
CHECK_DEADLOCK FALSE
