SPECIFICATION ProcessSpec
CONSTANTS
  Call = {c1}
  Login = {l1, l2}
  UploadId <- MCUploads
  Stored <- MCStored
  Shortened <- MCShortened
  Input <- Inputs
  MaxFiles <- MCMaxFiles
  MaxBytes <- MCMaxBytes
  None = None
  u1 = u1
  u2 = u2
INVARIANTS ProcessTypeOK AnswerIsTrue OnlySenders LimitsAgree FilesAsNamed AsAsked
PROPERTIES ImplementsOutcome Answered LoginAnswered
CHECK_DEADLOCK FALSE
