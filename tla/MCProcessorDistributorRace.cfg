\* Two distributor processes, no process death and no duplicate report:
\* can the multi-project join fire twice for one epoch?
CONSTANTS
  Instances = {i1, i2}
  A = A
  B = B
  C = C
  ER1 = ER1
  A1 = A1
  B1 = B1
  A2 = A2
  B2 = B2
  C1 = C1
  X1 = X1
  Deliveries = {A1, B1}
  Body <- MCBody
  Contracts <- MCContracts
  Configs <- MCConfigs
  MaxCrashes = 0
  NoDelivery = NoDelivery

SPECIFICATION Spec

INVARIANT
  AtMostOneAggregatePerEpoch
