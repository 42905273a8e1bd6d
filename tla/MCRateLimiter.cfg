\* Two callers, two limits, Redis outages allowed.
CONSTANTS
  Callers = {c1, c2}
  Limits <- MCLimits
  Cost = 1
  MaxCount = 4
  Outages = TRUE

SPECIFICATION Spec

INVARIANTS
  TypeOK
  WithinLimit

PROPERTIES
  WindowEventuallyResets
