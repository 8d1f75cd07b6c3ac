SPECIFICATION Spec
CONSTANTS
  Client = {c1}
  Host = {"old", "new"}
  Unfit <- OneEach
  MaxCA = 2
  MaxIssue = 2
  MaxCommands = 2
INVARIANT TypeOK
INVARIANT Coherent
PROPERTY RotationServes
PROPERTY NoClientCutOff
PROPERTY AddKeepsTrust
PROPERTY CommandsEnd
CHECK_DEADLOCK FALSE
