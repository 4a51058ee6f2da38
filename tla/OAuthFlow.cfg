SPECIFICATION Spec
CONSTANTS
  AuthzId = {a1, a2}
  CodeId = {c1, c2}
  Handler = {h1, h2}
  Browser = {b1}
  User = {u1, u2}
  Client = {k1, k2}
  Redirect = {r1}
  Verifier = {v1, v2}
  None = None
  AuthzTTL = 1
  CodeTTL = 1
  AccessTTL = 1
  RefreshTTL = 1
  ApiTTL = 1
  HttpTimeout = 1
  MaxTime = 0
SYMMETRY Symmetry
INVARIANT TypeOK OneTimeCode BoundToRequest
PROPERTY ImplementsGrant
