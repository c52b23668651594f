SPECIFICATION CommentsSpec
CONSTANTS
  Backends = {"jsonl"}
  Commands <- ReviewCommands
  MaxRestarts = 1
INVARIANT CommentsAreDurable
CHECK_DEADLOCK FALSE
