CONSTANTS
  N = 3
  MaxWeight = 3
  NoAccount = NoAccount
  MaxCooldowns = 2
SPECIFICATION SharesSpec
INVARIANTS
  TypeOK
  TotalIsSum
  SpreadByWeight
  NotStarved
PROPERTIES
  ImplementsRotation
  CooldownEnds
