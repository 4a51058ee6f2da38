SPECIFICATION Spec
CONSTANTS
  UploadId = {up1, up2}
  Handler = {h1, h2}
  User = {u1, u2}
  Posts <- MCPosts
  Wants <- MCWants
  None = None
  UploadTTL = 1
  MaxUploads = 2
  MaxBytes = 3
  StorageFails = FALSE
SYMMETRY Symmetry
INVARIANT TypeOK OwnersOnly NothingLost
