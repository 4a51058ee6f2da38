SPECIFICATION Spec
CONSTANTS
  Thread = {t1, t2}
  Conv = {c1, c2}
  Existing = {c1}
  Request = {r1, r2}
  User = {u1, u2}
  Body = {x1, x2}
  None = None
  People = TRUE
  Crashes = TRUE
SYMMETRY Symmetry
INVARIANT TypeOK OwnDraftsOnly SentTogether ConversationGoesToo SentOnce
PROPERTY SentStaysSent
