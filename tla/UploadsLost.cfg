SPECIFICATION Spec
CONSTANTS
  UploadId = {up1}
  Handler = {h1}
  User = {u1}
  Posts <- MCOnePost
  Wants <- MCOneWant
  None = None
  UploadTTL = 1
  MaxUploads = 2
  MaxBytes = 3
  StorageFails = TRUE
SYMMETRY Symmetry
INVARIANT NothingLost
