SPECIFICATION FairSpec
CONSTANTS
  d1 = d1
  d2 = d2
  c1 = c1
  None = None
  Ski <- TwoDevices
  Configured <- InConfig
  Client <- OneClient
  AutoAccept = TRUE
INVARIANTS TypeOK StoreSynced ConnectedIsStored
PROPERTIES StoredIsRestored RecoveryRegisters
