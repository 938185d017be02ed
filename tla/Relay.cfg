CONSTANTS
  r1 = r1
  r2 = r2
  k1 = k1
  NoAccount = NoAccount
  Accounts = {a1}
  Requests = {r1, r2}
  Keys = {k1}
  KeyOf <- OneKey
  Limits <- TwoThenOne
  Modes <- AllModes
  Attempts = 2
  MaxFaults = 1
  MaxCrashes = 1
SPECIFICATION FairSpec
INVARIANTS
  ClosedOnce
  SlotsCounted
PROPERTIES
  ImplementsAdmission
  Drains
CHECK_DEADLOCK FALSE
