SPECIFICATION Spec
CONSTANTS
  d1 = d1
  d2 = d2
  c1 = c1
  None = None
  Ski <- OneDevice
  Configured <- NotInConfig
  Client <- OneClient
  AutoAccept = TRUE
PROPERTY PersistedIsOnDisk
