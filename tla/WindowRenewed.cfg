CONSTANTS
  r1 = r1
  r2 = r2
  r3 = r3
  hour = hour
  Requests = {r1, r2}
  Windows = {hour}
  MaxTokens = 2
  Est <- Sizes
  PlanRows <- OneWindow
  MaxChanges = 0
  Starts = {TRUE}
  Faults = FALSE
  Slots = 2
SPECIFICATION QuotaSpec
PROPERTY WindowRenewed
CHECK_DEADLOCK FALSE
