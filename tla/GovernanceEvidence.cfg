SPECIFICATION Spec
INVARIANTS EveryViewValid RecordedAfterCode
CONSTANTS
  Actors = {"author", "reviewer", "maintainer"}
  Authors = {"author"}
  Maintainers = {"maintainer"}
  TrustedReviewers = {"author", "reviewer"}
  TrustedRunners = {"reviewer"}
  RequiredApprovals = 1
  RequiredResults = 1
  RequiredAccepts = 1
  AllowAuthorApproval = FALSE
  Reloads = FALSE
  MaxOpened = 1
  MaxSequence <- EvidenceBound
  MaxCrashes = 1
CHECK_DEADLOCK FALSE
