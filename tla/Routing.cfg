CONSTANTS
  r1 = r1
  s1 = s1
  s2 = s2
  c1 = c1
  c2 = c2
  a1 = a1
  a2 = a2
  None = None
  Never = Never
  Channels = {c1, c2}
  Accounts = {a1, a2}
  Requests = {r1}
  Tokens = {"key"}
  TokenOf <- OneToken
  Admins = {s1, s2}
  ListTTL = 1
  AffinityTTL = 1
  MaxEdits = 2
SPECIFICATION Spec
SYMMETRY Alike
INVARIANTS TypeOK PoolsFresh DeletedRetired RefusedForCause
