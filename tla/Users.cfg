CONSTANTS
  s1 = s1
  s2 = s2
  c1 = c1
  k1 = k1
  k2 = k2
  k3 = k3
  u1 = u1
  u2 = u2
  None = None
  Sessions = {s1, s2}
  People = {u1, u2}
  Emails = {"one", "two"}
  Keys = {k1, k2, k3}
  Codes = {c1}
  MaxValue = 2
  Value <- Worth
  Balances = {1}
  MaxKeys = 1
  MaxEdits = 1
SPECIFICATION Spec
SYMMETRY Alike
INVARIANTS TypeOK RedeemedOnce KeysBounded
