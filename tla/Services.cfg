SPECIFICATION Spec
CONSTANTS
  Rules = {"r1", "r2", "z"}
  NameOf <- SameName
  ForOf <- OneSecondOrNone
  Unparsable = {}
  Clients = {"c1", "c2", "c3"}
  RecentCapacity = 2
  MaxLag = 1
  MaxDeaths = 1
  ScoreRules = {"a", "b"}
  Traces = {"t"}
  Invalid = {}
  Sampled <- BothSampled
  ScoreClients = {"c1"}
  Memory = 1
  MaxCount = 1
  MaxScoreDeaths = 1
  CaseFile <- TwoFiles
  ScoreFile <- ScoreLines
  MaxAttempts <- Tries
  MaxLost = 1
INVARIANTS
  TypeOK EventsAreHonest ConfirmedRulesAreSaved ScoresAreHonest EvalsAddUp
PROPERTIES
  RulesGetTheirTurn ScoresStand
CHECK_DEADLOCK FALSE
