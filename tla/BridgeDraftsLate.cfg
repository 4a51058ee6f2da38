SPECIFICATION Spec
CONSTANTS
  Thread = {t1, t2}
  Conv = {c1, c2}
  Existing = {c1}
  Request = {r1, r2}
  User = {u1}
  Body = {x1, x2}
  None = None
  People = FALSE
  Crashes = FALSE
SYMMETRY Symmetry
INVARIANT OnlyDraftsTouched
