SPECIFICATION Spec
CONSTANTS
  None = None
  Thrown = Thrown
  Uses <- ThreeUses
  Brokers <- HomeAndCloud
  MaxClients = 3
  MaxListeners = 2
  Polled <- PolledSlaves
  Published <- PolledSlaves
  Fragile <- FragileSlaves
  Mute <- MuteSlaves
  Interval <- Intervals
  CronMinutes <- Schedules
  MaxMinute = 2
  PollerBrokers <- Home
  PollerClients = 1
  PollerListeners = 2
  Messages <- FourMessages
  Slaves <- TwoSlaves
  Commandable <- CommandedEntities
  MessageKind <- KindOf
  To <- SlaveOf
  Wanted <- EntitiesNamed
  ReadOnly <- ReadOnlyEntities
  Unwritable <- UnwritableEntities
  PrefixOf <- PrefixPairs
  Publishes = {"s1"}
  Pushes = {}
  Byte = 4
  Converted <- SomeEntities
  Commands <- Commanded
  Contents <- Words
  Indices <- Numerals
  TooHigh <- HighNumerals
  Layouts <- ThreeEntities
  Fields <- ManyFields
  Presets <- SomePresets
  Minutes <- SomeMinutes
  Hours <- SomeHours
  Days <- SomeDays
  Months <- SomeMonths
INVARIANTS
  PollerAgrees
  DoneMeansSeen
  CommandsReadBack
  EntitiesKeepTheirPlace
  FiresAsDescribed
PROPERTIES
  CallbacksInOrder
  NobodyWaitsForEver
  EveryPollEnds
  PollRequestsAnswered
CHECK_DEADLOCK FALSE
