CONSTANTS
  Instances = {i1, i2}
  A = A
  B = B
  C = C
  ER1 = ER1
  A1 = A1
  B1 = B1
  A2 = A2
  B2 = B2
  C1 = C1
  X1 = X1
  Deliveries = {ER1, A1, B1, A2, B2, C1, X1}
  Body <- MCBody
  Contracts <- MCContracts
  Configs <- MCConfigs
  MaxCrashes = 1
  NoDelivery = NoDelivery

SPECIFICATION Spec

INVARIANTS
  TypeOK
  NoFinalizedReportLost
  AckedFinalizedForwarded
  AckedEpochFannedOut

PROPERTIES
  JoinEventuallyFires
