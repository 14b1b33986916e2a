SPECIFICATION Spec
SYMMETRY Symmetry
\* With no session and no login left to start, the account is at rest.
CHECK_DEADLOCK FALSE
CONSTANTS
  d1 = d1
  d2 = d2
  d3 = d3
  p1 = p1
  p2 = p2
  k1 = k1
  k2 = k2
  k3 = k3
  c1 = c1
  c2 = c2
  c3 = c3
  r1 = r1
  r2 = r2
  None = None
  Ids = {d1, d2}
  Prints = {p1, p2}
  Keys = {k1, k2, k3}
  Creds = {c1, c2, c3}
  First <- Phone1
  Installs <- TwoPhones
  Browsers <- BrowserAgain
  Requests = {r1, r2}
  Kinds = {"cookie", "share", "revoke"}
  MaxLogins = 1
  MaxAttempts = 0
INVARIANTS
  RevokedHasNoKey
