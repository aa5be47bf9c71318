SPECIFICATION FairSpec
CONSTANTS
  Temps <- Bands
  WarmRecovery = 1  Warm = 2  HotRecovery = 3  VeryHotRecovery = 4  Hot = 5  VeryHot = 6  Critical = 7
  RecoveryCount = 3  Dwell = 3  RecoveryStep = 2  Stale = 4  PollInterval = 0  Late = 2
  Heavy = 2  Background = 1  WritesFail = TRUE  None = None  Invalid = Invalid
INVARIANT TypeOK
INVARIANT NeverUnderstated
INVARIANT LoadsOnFreshReadings
INVARIANT GatewayCatchesUp
PROPERTY RecoversByHysteresis
PROPERTY ReturnsToNormal
