CONSTANTS
  s1 = s1
  g1 = g1
  g2 = g2
  e1 = e1
  e2 = e2
  a1 = a1
  r1 = r1
  r2 = r2
  None = None
  States = {s1}
  Grants = {g1, g2}
  Editors = {e1,e2}
  Accounts = {a1}
  Requests = {r1, r2}
  MaxTokens = 2
  MaxCrashes = 1
SPECIFICATION Spec
SYMMETRY Alike
INVARIANTS LastTokenSent
