------------------------------ MODULE MCUploads ------------------------------
(* Model checking of Uploads: requests over two ids and two users.         *)
EXTENDS Uploads, TLC

(* One file, two files, a file and an empty one, sizes beside MaxBytes.    *)
MCPosts == {<<1>>, <<1, 2>>, <<2, 2>>, <<1, 0>>}
MCOnePost == {<<1>>, <<1, 0>>}

(* One file or two; the same file twice is allowed by loadAttachments.     *)
MCWants == {<<id>> : id \in UploadId} \cup (UploadId \X UploadId)
MCOneWant == {<<id>> : id \in UploadId}

Symmetry == Permutations(Handler) \cup Permutations(User) \cup Permutations(UploadId)
==============================================================================
