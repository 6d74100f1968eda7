SPECIFICATION Spec
PROPERTIES StandingBlockHonoured
CONSTANTS
  Actors = {"m1", "m2"}
  Authors = {"m2"}
  Maintainers = {"m1", "m2"}
  TrustedReviewers = {}
  TrustedRunners = {}
  RequiredApprovals = 0
  RequiredResults = 0
  RequiredAccepts = 1
  AllowAuthorApproval = FALSE
  Reloads = FALSE
  MaxOpened = 1
  MaxSequence <- LineageBound
  MaxCrashes = 0
CHECK_DEADLOCK FALSE
