SPECIFICATION MCSpec
CONSTANTS
  MdFact <- MCFact
  MdBaseline = {"t"}
  MdClones = {"k1", "k2", "k3"}
  MdIdentity <- MCIdentity
  MdModerators = {"m1", "m2"}
  MdMaintainers = {"m1"}
  MdRules <- MCRules
  MdIntents = {"op", "unnamed"}
  MdPolicies <- MCPolicies
  MdOffers <- MCOffers
  MdTargets <- MCMdTargets
  MaxMdDecisions = 3
  MaxMdPolicies = 1
  ArtWork <- MCArtWork
  ArtKinds <- MCArtKinds
  ArtPeerKinds <- MCArtPeer
  ArtOpaque = {"x", "y"}
  ArtOpaqueMax = 2
  MaxArtCrashes = 1
  MemTerminals = {1, 2}
  MemHistory <- MCMemHistory
  MemShapes <- MCMemShapes
  MemPolicy <- MCMemPolicy
  MemRequests <- MCMemRequests
  MemPage = 1
  MaxMemories = 3
  MaxPeerMemories = 1
  MaxMemDisturbances = 1
  ExtSessions = {1, 2}
  ExtManagers <- MCExtManagers
  ExtSlots = 2
  MaxExtRegs = 2
  MaxExtEdits = 2
  MaxExtFaults = 1
  MaxXrRequests = 2
  MaxXrFrames = 3
  FiIssueScopes = {"all", "one"}
  FiThreadScopes = {"threads"}
  MaxFiSource = 2
  MaxFiNative = 1
  MaxFiCrashes = 1
  FxKinds = {"issue", "discussion", "project"}
  MaxFxNative = 2
  MaxFxUser = 2
  MaxFxStops = 1
  MaxAmChanges = 3
  MaxAmFaults = 3
CHECK_DEADLOCK FALSE
INVARIANTS
  VisibleIsGreatest
  OneArtifactPerOperation
  PagesAreOneSelection
  RetiredMeansStopped
  EffectsAccountedFor
  ConformingNeverAccused
  IssueCopiedOnce
  NativeEditsKept
  UserEditsKept
  CheckoutFollowsBranch
PROPERTIES
  BlockEndsByUnblock
  NothingAcceptedLost
