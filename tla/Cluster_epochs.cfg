SPECIFICATION Spec
CONSTANTS
  Nodes <- Pair
  Standbys <- ToOther
  RequiredAcks = 1
  Records = {}
  MaxDeaths = 1
  MaxSuspicions = 0
CHECK_DEADLOCK FALSE
PROPERTY ReignBumpsPastTheDead
