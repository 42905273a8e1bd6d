\* Redis unreachable while a caller checks its limits.
CONSTANTS
  Callers = {c1}
  Limits <- MCLimits
  Cost = 1
  MaxCount = 4
  Outages = TRUE

SPECIFICATION Spec

INVARIANT
  FailOpenOnOutage
