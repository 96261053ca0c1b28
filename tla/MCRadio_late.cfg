CONSTANTS
  Commands <- SomeCommands
  BeginCommands = 2
  BufSize = 3
  MaxSent = 2
SPECIFICATION Spec
INVARIANTS OkIsSuccess
CHECK_DEADLOCK FALSE
