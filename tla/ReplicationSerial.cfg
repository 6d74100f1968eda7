SPECIFICATION Spec
INVARIANTS TypeOK RefsBacked AcceptedEventsClosed QuietMeansReadable NoUnacceptedReadable
PROPERTIES SettledNeverRewritten AcceptedNeverRewinds
CONSTANTS
  Remotes = {origin}
  Histories <- Candidate
  ActorHistories <- Authors
  MaxLen = 2
  TxnIds = {t1, t2, t3}
  Procs = {p1}
  MaxCrashes = 2
  Selection <- SelectAll
  CompatAll <- NoRemote
  MaxEvents <- CodeBudget
  Malformed <- ReviewerBreaks
  References <- CandidateReferences
  LocalObjects <- NoObjects
CHECK_DEADLOCK FALSE
