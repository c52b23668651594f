SPECIFICATION TrustingSpec
CONSTANTS
  Nodes <- Pair
  Standbys <- OneWay
  RequiredAcks = 1
  Records = {w1, w2}
  MaxDeaths = 1
  MaxSuspicions = 0
SYMMETRY Alike
CHECK_DEADLOCK FALSE
INVARIANTS TypeOK AckedIsReplicated
PROPERTY DeposedIsNotConfirmed
