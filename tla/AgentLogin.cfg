SPECIFICATION Spec
CONSTANTS
  Browser = {b1, b2}
  Tab = {t1, t2}
  User = {u1, u2}
  Known = {u1}
  Attempt = {x1, x2}
  None = None
INVARIANT TypeOK OwnLogin LoginKept
PROPERTY Settles
