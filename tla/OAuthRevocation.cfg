SPECIFICATION Spec
CONSTANTS
  AuthzId = {a1}
  CodeId = {c1}
  Handler = {h1, h2}
  Browser = {b1}
  User = {u1}
  Client = {k1}
  Redirect = {r1}
  Verifier = {v1}
  None = None
  AuthzTTL = 1
  CodeTTL = 1
  AccessTTL = 1
  RefreshTTL = 4
  ApiTTL = 1
  HttpTimeout = 1
  MaxTime = 4
SYMMETRY Symmetry
INVARIANT RevocationBound DecidedForGood
