SPECIFICATION Spec
CONSTANTS
  Batches = {"s", "l", "m", "r", "d", "f"}
  PipelineOf <- Pipelines
  OverHttp = {"s"}
  SeriesOf <- Series
  Payload = {"s", "l", "d"}
  Text = {"s", "l"}
  Limits <- WithAndWithout
  MaxFaults = 1
  Nodes <- TwoNodes
  Uploads = {"u", "w"}
  NodeOf <- UploadAt
  HashOf <- SameHash
  PeersOf <- Others
  Ownership <- ByLeader
  MaxBlobFaults = 1
  Backends = {"jsonl", "postgres"}
  Commands <- ReviewCommands
  MaxRestarts = 1
INVARIANTS
  TypeOK LimitsHold ShownIsStored OnlyRacesLosePayloads ReviewsAreHonest
PROPERTIES
  NothingIsLeftOver
CHECK_DEADLOCK FALSE
