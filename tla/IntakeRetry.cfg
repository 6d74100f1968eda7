SPECIFICATION IntakeSpec
CONSTANTS
  CxOffers <- MCCxOffers
  CxLocal <- MCCxLocal
  CxSigner = "m"
  CxWindowMax = 1
  CxRetainedMax = 2
  MaxCxCrashes = 1
  MaxCxMoves = 1
CHECK_DEADLOCK FALSE
PROPERTIES KeptBytesResume
