SPECIFICATION StoresSpec
CONSTANTS
  Versions <- SentSpans
  Queries <- Scans
  Limit = 1
  Cutoffs = {2}
  MaxDeaths = 1
  Rows <- TierRows
  Signal <- TierSignal
  Time <- TierTime
  HoursPerDay = 2
  HotHours = 1
  Keep <- TierKeep
  Asked <- Readers
  MaxTime = 4
  MaxFailures = 0
  MaxCrashes = 0
  NumShards = 2
  ShardRows <- TwoTraces
  OwnerOf <- Owner
  Strays <- Stray
  Batches <- OneBatch
  QueryLimit = 2
  TopServices = 2
  MaxShardFaults = 2
  \* Two clients push and freeze at once.
  Ids = {"i"}
  Contents = {"x", "y"}
  MaxCases = 1
  MaxPushes = 2
  Clients = {"c1", "c2"}
  MaxSuiteDeaths = 1
  Keys = {"k", "l"}
  InitialKeys = {"k"}
  RoleOf <- KeyRole
  NameOf <- KeyName
  Commands <- KeyCommands
  Requests <- KeyRequests
  Configs <- KeyConfigs
  MaxTick = 3
  MaxErrors = 1
INVARIANTS
  StoresTypeOK IndexesAreExact ShardsAreRight CountsAddUp KeysAreCurrent MissesOnlyLateSpans
PROPERTIES
  PinsHold
CHECK_DEADLOCK FALSE
