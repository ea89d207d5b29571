SPECIFICATION PartsSpec
CONSTANTS
  Ids = {1, 2, 3}
  Specs = {meter}
  None = None
  Connections <- ConnectionNames
  NoConnection = None
  Archives <- ThreeArchives
  MaxBusId = 2
  MaxReloads = 2
  OldFiles <- AnyOldFile
  MaxWrites = 2
  MaxFaults = 1
  Contributable <- MeterAndPump
  Calls <- TwoRequests
  For <- ForTheOne
  Thresholds <- TwoThresholds
  EscalateAfter = 1
  MaxPulls = 2
  MaxRestarts = 1
  EditedFiles <- TwoOldEntities
  MaxEntities = 3
  MaxArrivals = 2
  CardIds <- TwoIds
  CardSpecs <- TwoSpecs
  EntitiesOf <- EntitiesOfSpecs
  Beginnings <- OneOrTwoSlaves
  MaxCards = 4
  MaxSteps = 3
  MaxSent = 2
  Busses <- TwoBusses
  Detectable <- OneSpec
  Layouts <- GapLayouts
  MaxDelta = 2
  MaxRegisters = 4
  Ports <- TwoPorts
  Clients <- OneClient
  MaxServers = 3
  MaxUpdates = 2
  Placeholder = "placeholder"
  Blank = "blank"
  EnteredValues <- FewValues
  Environments <- ThreeEnvironments
  Handwritten <- ByHand
  Exported <- WithPlaceholders
  NewConfig <- Untouched
  DefaultPort = "default"
  MaxChecks = 1
  MaxEntries = 4
INVARIANTS
  NoCycles
  FollowsRoot
  MemoryMatchesFiles
  NothingOldComesBack
  ContributionsKept
  EntityIdsUnique
  SavesWhatIsShown
  OnePollerEach
  ReadsAreExact
  BridgeFollowsBus
PROPERTIES
  ConfigurationSurvives
  NoSlaveIsOrphaned
  NeverStartsPartial
  EventuallyServes
CHECK_DEADLOCK FALSE
