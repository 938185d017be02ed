CONSTANTS
  r1 = r1
  r2 = r2
  r3 = r3
  hour = hour
  Requests = {r1, r2, r3}
  Windows = {hour}
  MaxTokens = 2
  Est <- Sizes
  PlanRows <- Plans
  MaxChanges = 1
  Starts = {TRUE, FALSE}
  Faults = TRUE
  Slots = 2
SPECIFICATION QuotaSpec
SYMMETRY Alike
INVARIANTS TypeOK NeverOvercharged ChargedExactly NeverOvercounted CountedExactly ServedBounded
CHECK_DEADLOCK FALSE
