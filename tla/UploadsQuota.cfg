SPECIFICATION Spec
CONSTANTS
  UploadId = {up1, up2, up3}
  Handler = {h1, h2}
  User = {u1}
  Posts <- MCPosts
  Wants = {}
  None = None
  UploadTTL = 1
  MaxUploads = 2
  MaxBytes = 3
  StorageFails = FALSE
INVARIANT QuotaHeld RefusedLeavesNothing
PROPERTY Forgotten
