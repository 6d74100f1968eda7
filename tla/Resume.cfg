SPECIFICATION MCSpec
CONSTANTS
  MigActors = {u1, u2}
  MigCases <- MCMigCases
  MaxMigCrashes = 1
  MaxMigOthers = 1
  MaxKeys = 3
  MaxIdCrashes = 1
  MaxIdManual = 2
  CxOffers <- MCCxOffers
  CxLocal <- MCCxLocal
  CxSigner = "m"
  CxWindowMax = 1
  CxRetainedMax = 3
  MaxCxCrashes = 1
  MaxCxMoves = 1
CHECK_DEADLOCK FALSE
INVARIANTS AtMostOneRequest NothingDroppedSilently RotationIsOne FormerIsRetired NoPendingConflict
PROPERTIES ConfirmedNamesTheWrite OthersWorkKept LandedIsConfirmed RotationCompletes RetainedNeverLost ResumesUnlessOvertaken
