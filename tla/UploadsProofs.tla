---------------------------- MODULE UploadsProofs ----------------------------
(***************************************************************************)
(* For any number of users, requests and files: FreeScout stores an upload *)
(* for its owner only, a refused form leaves nothing behind, and an upload *)
(* that is deleted because it was used is with FreeScout; nobody has more  *)
(* in the store than the limits allow.  An upload is used once if the      *)
(* calls that name it keep apart and their answers arrive.                 *)
(***************************************************************************)
EXTENDS Uploads, Sums, FiniteSetTheorems, TLAPS

(* Who owns a stored file never changes, and is known from its id.         *)
Agree == \A id \in UploadId : items[id] # None => items[id].owner = owner[id]

Reading == {"load", "sent", "stored", "clean"}
Posting == {"post", "undo", "refused"}

(* What a request has in hand: files of its own user, with FreeScout once  *)
(* that has stored them; and while a form is taken back, every file of it  *)
(* is gone or still to go.                                                 *)
JobOK(j, m, o, a) ==
  /\ j.step \in Reading => \A i \in DOMAIN j.used : o[j.used[i]] = j.owner
  /\ (j.step \in {"stored", "clean"} /\ StorageFails = FALSE) =>
       \A i \in DOMAIN j.used : a[j.used[i]] # {}
  /\ j.step \in Posting => \A i \in DOMAIN j.put : o[j.put[i]] = j.owner
  /\ j.step \in {"undo", "refused"} =>
       \A i \in DOMAIN j.put :
         m[j.put[i]] = None \/ \E k \in DOMAIN j.undo : j.undo[k] = j.put[i]
  /\ j.step = "refused" => j.undo = <<>>
  /\ j.step = "load" => j.want # <<>>
  /\ j.step \in {"sent", "stored", "clean"} => j.used # <<>>

Stored == StorageFails = FALSE => NothingLost

Inv ==
  /\ TypeOK /\ Agree /\ OwnersOnly /\ Stored
  /\ \A h \in Handler : JobOK(job[h], items, owner, attached)

-----------------------------------------------------------------------------
(* The step of a job tells which record it is.                             *)
LEMMA JobShape ==
  ASSUME NEW j \in Job
  PROVE  /\ j.step = "post" => j \in [step : {"post"}, owner : User, files : Seq(Nat), put : Seq(UploadId)]
         /\ j.step \in {"undo", "refused"} =>
              j \in [step : {"undo", "refused"}, owner : User, put : Seq(UploadId), undo : Seq(UploadId)]
         /\ j.step = "load" =>
              j \in [step : {"load"}, owner : User, want : Seq(UploadId), used : Seq(UploadId)]
         /\ j.step \in {"sent", "stored", "clean"} =>
              j \in [step : {"sent", "stored", "clean"}, owner : User, used : Seq(UploadId)]
BY DEF Job, PostJob, UseJob, Idle

(* A request that is over has nothing in hand.                             *)
LEMMA IdleOK == Idle \in Job /\ \A m, o, a : JobOK(Idle, m, o, a)
BY DEF Job, Idle, JobOK, Reading, Posting

(* A step of one request, from what it does to that request and to the     *)
(* store.                                                                  *)
LEMMA OneJob ==
  ASSUME Inv, NEW h \in Handler, NEW j \in Job, job' = [job EXCEPT ![h] = j], JobOK(j, items', owner', attached'),
         \A x \in Job : JobOK(x, items, owner, attached) => JobOK(x, items', owner', attached'),
         items' \in [UploadId -> Upload \cup {None}], owner' \in [UploadId -> User \cup {None}],
         consumed' \subseteq UploadId, attached' \in [UploadId -> SUBSET User],
         uses' \in [UploadId -> 0 .. 2],
         Agree', OwnersOnly', Stored'
  PROVE  Inv'
<1>1. TypeOK'
  BY DEF Inv, TypeOK
<1>2. ASSUME NEW g \in Handler
      PROVE  JobOK(job'[g], items', owner', attached')
  <2>1. CASE g = h
    BY <2>1 DEF Inv, TypeOK
  <2>2. CASE g # h
    <3>1. job'[g] = job[g] /\ job[g] \in Job /\ JobOK(job[g], items, owner, attached)
      BY <2>2 DEF Inv, TypeOK
    <3> QED
      BY <3>1
  <2> QED
    BY <2>1, <2>2
<1> QED
  BY <1>1, <1>2 DEF Inv

(* Files that leave the store, or grow older, disturb no request.          *)
Fewer(n, m) == \A id \in UploadId :
  n[id] # None => m[id] # None /\ n[id].owner = m[id].owner /\ n[id].size = m[id].size

Shrunk == Fewer(items', items)

(* A store that only shrinks disturbs no request and no file.              *)
LEMMA ShrinkKeeps ==
  ASSUME Inv, Shrunk, UNCHANGED history
  PROVE  /\ \A x \in Job : JobOK(x, items, owner, attached) => JobOK(x, items', owner', attached')
         /\ Agree' /\ OwnersOnly' /\ Stored'
<1>1. Agree' /\ OwnersOnly' /\ Stored'
  BY DEF Inv, Shrunk, Fewer, history, Agree, OwnersOnly, Stored, NothingLost
<1>2. ASSUME NEW x \in Job, JobOK(x, items, owner, attached)
      PROVE  JobOK(x, items', owner', attached')
  <2>1. CASE x.step \in {"undo", "refused"}
    <3>1. \A i \in DOMAIN x.put : x.put[i] \in UploadId
      BY <2>1, JobShape
    <3> QED
      BY <1>2, <2>1, <3>1 DEF Shrunk, Fewer, history, JobOK
  <2>2. CASE x.step \notin {"undo", "refused"}
    BY <1>2, <2>2 DEF history, JobOK
  <2> QED
    BY <2>1, <2>2
<1> QED
  BY <1>1, <1>2

(* The sweep only takes away.                                              *)
LEMMA SweptShrinks ==
  ASSUME Inv
  PROVE  /\ Swept \in [UploadId -> Upload \cup {None}]
         /\ items' = Swept => Shrunk
BY DEF Inv, TypeOK, Swept, Shrunk, Fewer

(* So does the removal of one file, and the file is gone after it.         *)
LEMMA WithoutShrinks ==
  ASSUME Inv, NEW user \in User, NEW id \in UploadId
  PROVE  /\ Without(user, id) \in [UploadId -> Upload \cup {None}]
         /\ items' = Without(user, id) => Shrunk
         /\ (items' = Without(user, id) /\ owner[id] = user) => items'[id] = None
BY NoUploadAssumption DEF Inv, TypeOK, Agree, Without, Owned, Shrunk, Fewer

(* And a store that stays as it is.                                        *)
LEMMA SameShrinks == ASSUME items' = items PROVE Shrunk
BY DEF Shrunk, Fewer

(* The steps that change one request, and the store by taking away.        *)
LEMMA Quiet ==
  ASSUME Inv, NEW h \in Handler, NEW j \in Job, Become(h, j), JobOK(j, items', owner', attached'),
         Shrunk, items' \in [UploadId -> Upload \cup {None}], UNCHANGED history
  PROVE  Inv'
<1>1. owner' \in [UploadId -> User \cup {None}] /\ consumed' \subseteq UploadId
      /\ attached' \in [UploadId -> SUBSET User] /\ uses' \in [UploadId -> 0 .. 2]
  BY DEF Inv, TypeOK, history
<1>2. job' = [job EXCEPT ![h] = j]
  BY DEF Become
<1> QED
  BY <1>1, <1>2, ShrinkKeeps, OneJob

(* The steps that change one request only.                                 *)
LEMMA QuietSame ==
  ASSUME Inv, NEW h \in Handler, NEW j \in Job, Become(h, j), JobOK(j, items, owner, attached), UNCHANGED <<items, history>>
  PROVE  Inv'
<1>1. JobOK(j, items', owner', attached')
  BY SameShrinks, ShrinkKeeps
<1>2. items' \in [UploadId -> Upload \cup {None}]
  BY DEF Inv, TypeOK
<1> QED
  BY <1>1, <1>2, SameShrinks, Quiet

-----------------------------------------------------------------------------
(* The store begins empty.                                                 *)
LEMMA InitInv == Init => Inv
<1> SUFFICES ASSUME Init PROVE Inv
  OBVIOUS
<1>1. TypeOK
  BY UploadsAssumption, IdleOK DEF Init, TypeOK
<1>2. Agree /\ OwnersOnly /\ Stored
  BY DEF Init, Agree, OwnersOnly, Stored, NothingLost
<1>3. \A h \in Handler : JobOK(job[h], items, owner, attached)
  BY IdleOK DEF Init
<1> QED
  BY <1>1, <1>2, <1>3 DEF Inv

(* A form begins with nothing stored.                                      *)
LEMMA PostStartInv ==
  ASSUME Inv, NEW h \in Handler, NEW user \in User, NEW files \in Posts, PostStart(h, user, files)
  PROVE  Inv'
<1> DEFINE j == [step |-> "post", owner |-> user, files |-> files, put |-> <<>>]
<1>1. files \in Seq(Nat) /\ <<>> \in Seq(UploadId)
  BY UploadsAssumption
<1>2. j \in Job
  BY <1>1 DEF Job, PostJob
<1>3. JobOK(j, items, owner, attached)
  BY DEF JobOK, Reading, Posting
<1> HIDE DEF j
<1> QED
  BY <1>2, <1>3, QuietSame DEF PostStart, j

(* A file that is put belongs to the user of the form; its id is new.      *)
LEMMA PutFileInv ==
  ASSUME Inv, NEW h \in Handler, NEW id \in UploadId, PutFile(h, id)
  PROVE  Inv'
<1> DEFINE user == job[h].owner
           put == Append(job[h].put, id)
           j == [step |-> "post", owner |-> user, files |-> Tail(job[h].files), put |-> put]
           u == [owner |-> user, size |-> Head(job[h].files), left |-> UploadTTL + 1]
<1>1. job[h] \in [step : {"post"}, owner : User, files : Seq(Nat), put : Seq(UploadId)]
  BY JobShape DEF Inv, TypeOK, PutFile, At
<1>2. user \in User /\ job[h].put \in Seq(UploadId) /\ job[h].files \in Seq(Nat) /\ job[h].files # <<>>
  BY <1>1 DEF PutFile
<1>3. put \in Seq(UploadId) /\ Tail(job[h].files) \in Seq(Nat) /\ Head(job[h].files) \in Nat
  BY <1>2
<1>4. u \in Upload
  BY <1>2, <1>3, UploadsAssumption DEF Upload
<1>5. j \in Job
  BY <1>2, <1>3 DEF Job, PostJob
<1>6. /\ items' = [Swept EXCEPT ![id] = u] /\ owner' = [owner EXCEPT ![id] = user]
      /\ owner[id] = None /\ UNCHANGED <<consumed, attached, uses>>
      /\ job' = [job EXCEPT ![h] = j]
  BY DEF PutFile, Become
<1>7. \A k \in UploadId : items'[k] # None =>
        items'[k].owner = owner'[k] /\ (k # id => items[k] # None)
  BY <1>4, <1>6, SweptShrinks DEF Inv, TypeOK, Agree, Swept
<1>8. \A k \in UploadId : owner[k] # None => owner'[k] = owner[k]
  BY <1>6 DEF Inv, TypeOK
<1>9. ASSUME NEW x \in Job, JobOK(x, items, owner, attached)
      PROVE  JobOK(x, items', owner', attached')
  <2>1. CASE x.step \in Reading
    <3>1. x.owner \in User /\ \A i \in DOMAIN x.used : x.used[i] \in UploadId
      BY <2>1, JobShape DEF Reading
    <3> QED
      BY <1>6, <1>8, <1>9, <2>1, <3>1, NoUploadAssumption DEF JobOK, Reading, Posting
  <2>2. CASE x.step \in Posting
    <3>1. x.owner \in User /\ \A i \in DOMAIN x.put : x.put[i] \in UploadId
      BY <2>2, JobShape DEF Posting
    <3>2. \A i \in DOMAIN x.put : x.put[i] # id /\ owner[x.put[i]] = x.owner /\ x.owner # None
      BY <1>6, <1>9, <2>2, <3>1, NoUploadAssumption DEF JobOK
    <3>3. \A i \in DOMAIN x.put : items[x.put[i]] = None => items'[x.put[i]] = None
      BY <1>7, <3>1, <3>2
    <3> QED
      BY <1>6, <1>8, <1>9, <2>2, <3>1, <3>2, <3>3 DEF JobOK, Reading, Posting
  <2>3. CASE x.step \notin Reading /\ x.step \notin Posting
    BY <1>9, <2>3 DEF JobOK, Reading, Posting
  <2> QED
    BY <2>1, <2>2, <2>3
<1>10. JobOK(j, items', owner', attached')
  <2>1. \A i \in DOMAIN job[h].put :
          job[h].put[i] \in UploadId /\ owner[job[h].put[i]] = user
    BY <1>1, <1>2 DEF Inv, JobOK, Posting
  <2>2. \A i \in DOMAIN put : put[i] \in UploadId /\ owner'[put[i]] = user
    BY <1>2, <1>6, <1>8, <2>1, NoUploadAssumption DEF Inv, TypeOK
  <2> QED
    BY <2>2 DEF JobOK, Reading, Posting
<1>11. Agree' /\ OwnersOnly' /\ Stored'
  <2>1. OwnersOnly'
    BY <1>6, NoUploadAssumption DEF Inv, TypeOK, OwnersOnly
  <2> QED
    BY <1>6, <1>7, <2>1 DEF Inv, Agree, Stored, NothingLost
<1>12. items' \in [UploadId -> Upload \cup {None}] /\ owner' \in [UploadId -> User \cup {None}]
       /\ consumed' \subseteq UploadId /\ attached' \in [UploadId -> SUBSET User]
       /\ uses' \in [UploadId -> 0 .. 2]
  BY <1>2, <1>4, <1>6, SweptShrinks DEF Inv, TypeOK
<1>13. job' = [job EXCEPT ![h] = j]
  BY <1>6
<1> HIDE DEF j
<1> QED
  BY <1>5, <1>9, <1>10, <1>11, <1>12, <1>13, OneJob

(* A refused file starts to take back all that were put before it.         *)
LEMMA PutRefusedInv ==
  ASSUME Inv, NEW h \in Handler, PutRefused(h)
  PROVE  Inv'
<1> DEFINE u == [step |-> "undo", owner |-> job[h].owner, put |-> job[h].put, undo |-> job[h].put]
           j == IF job[h].put = <<>> THEN Idle ELSE u
<1>1. job[h] \in [step : {"post"}, owner : User, files : Seq(Nat), put : Seq(UploadId)]
  BY JobShape DEF Inv, TypeOK, PutRefused, At
<1>2. u \in Job
  BY <1>1 DEF Job, PostJob
<1>3. JobOK(u, items', owner', attached')
  <2>1. \A i \in DOMAIN job[h].put : owner[job[h].put[i]] = job[h].owner
    BY <1>1 DEF Inv, JobOK, Posting
  <2> QED
    BY <2>1 DEF PutRefused, history, JobOK, Reading, Posting
<1>4. j \in Job /\ JobOK(j, items', owner', attached')
  BY <1>2, <1>3, IdleOK
<1>5. Become(h, j) /\ items' = Swept /\ UNCHANGED history
  BY DEF PutRefused, Undoing
<1>6. Shrunk /\ items' \in [UploadId -> Upload \cup {None}]
  BY <1>5, SweptShrinks
<1> HIDE DEF j
<1> QED
  BY <1>4, <1>5, <1>6, Quiet

(* Taking back one file leaves the others still to go.                     *)
LEMMA UndoInv ==
  ASSUME Inv, NEW h \in Handler, UndoOne(h) \/ UndoDone(h)
  PROVE  Inv'
<1>1. job[h] \in [step : {"undo", "refused"}, owner : User, put : Seq(UploadId), undo : Seq(UploadId)]
  BY JobShape DEF Inv, TypeOK, UndoOne, UndoDone, At
<1>2. /\ job[h].step = "undo"
      /\ \A i \in DOMAIN job[h].put : owner[job[h].put[i]] = job[h].owner
      /\ \A i \in DOMAIN job[h].put :
           items[job[h].put[i]] = None \/ \E k \in DOMAIN job[h].undo : job[h].undo[k] = job[h].put[i]
  BY DEF Inv, JobOK, Posting, UndoOne, UndoDone, At
<1>3. CASE UndoOne(h)
  <2> DEFINE rest == Tail(job[h].undo)
             id == Head(job[h].undo)
             j == [step |-> "undo", owner |-> job[h].owner, put |-> job[h].put, undo |-> rest]
  <2>1. /\ job[h].undo \in Seq(UploadId) /\ job[h].undo # <<>>
        /\ job[h].put \in Seq(UploadId) /\ job[h].owner \in User
    BY <1>1, <1>3 DEF UndoOne
  <2>2. /\ rest \in Seq(UploadId) /\ id \in UploadId
        /\ \A k \in DOMAIN job[h].undo : k = 1 \/ (k - 1 \in DOMAIN rest /\ rest[k - 1] = job[h].undo[k])
        /\ id = job[h].undo[1]
    BY <2>1
  <2>3. j \in Job
    BY <2>1, <2>2 DEF Job, PostJob
  <2>4. Become(h, j) /\ items' = Without(job[h].owner, id) /\ UNCHANGED history
    BY <1>3 DEF UndoOne
  <2>5. Shrunk /\ items' \in [UploadId -> Upload \cup {None}]
        /\ (owner[id] = job[h].owner => items'[id] = None)
    BY <2>1, <2>2, <2>4, WithoutShrinks
  <2>6. ASSUME NEW i \in DOMAIN job[h].put
        PROVE  items'[job[h].put[i]] = None \/ \E k \in DOMAIN rest : rest[k] = job[h].put[i]
    <3>1. CASE items[job[h].put[i]] = None
      BY <2>1, <2>5, <3>1 DEF Shrunk, Fewer
    <3>2. CASE \E k \in DOMAIN job[h].undo : job[h].undo[k] = job[h].put[i]
      <4>1. PICK k \in DOMAIN job[h].undo : job[h].undo[k] = job[h].put[i]
        BY <3>2
      <4>2. CASE k = 1
        BY <1>2, <2>2, <2>5, <4>1, <4>2
      <4>3. CASE k # 1
        BY <2>2, <4>1, <4>3
      <4> QED
        BY <4>2, <4>3
    <3> QED
      BY <1>2, <3>1, <3>2
  <2>7. JobOK(j, items', owner', attached')
    BY <1>2, <2>4, <2>6 DEF JobOK, Reading, Posting, history
  <2> HIDE DEF j
  <2> QED
    BY <2>3, <2>4, <2>5, <2>7, Quiet
<1>4. CASE UndoDone(h)
  <2> DEFINE j == [step |-> "refused", owner |-> job[h].owner, put |-> job[h].put, undo |-> <<>>]
  <2>1. j \in Job
    <3>1. <<>> \in Seq(UploadId)
      OBVIOUS
    <3> QED
      BY <1>1, <3>1 DEF Job, PostJob
  <2>2. JobOK(j, items, owner, attached)
    BY <1>2, <1>4 DEF UndoDone, JobOK, Reading, Posting
  <2>3. Become(h, j) /\ UNCHANGED <<items, history>>
    BY <1>4 DEF UndoDone
  <2> HIDE DEF j
  <2> QED
    BY <2>1, <2>2, <2>3, QuietSame
<1> QED
  BY <1>3, <1>4

(* A request that ends or gives up.                                        *)
LEMMA BackToIdleInv ==
  ASSUME Inv, NEW h \in Handler, PostAnswered(h) \/ GiveUp(h)
  PROVE  Inv'
<1>1. Become(h, Idle) /\ UNCHANGED <<items, history>>
  BY DEF PostAnswered, GiveUp
<1> QED
  BY <1>1, IdleOK, QuietSame

(* A call begins with files to read.                                       *)
LEMMA UseStartInv ==
  ASSUME Inv, NEW h \in Handler, NEW user \in User, NEW want \in Wants, UseStart(h, user, want)
  PROVE  Inv'
<1> DEFINE j == [step |-> "load", owner |-> user, want |-> want, used |-> <<>>]
<1>1. want \in Seq(UploadId) /\ want # <<>> /\ <<>> \in Seq(UploadId)
  BY UploadsAssumption
<1>2. j \in Job
  BY <1>1 DEF Job, UseJob
<1>3. JobOK(j, items, owner, attached)
  BY <1>1 DEF JobOK, Reading, Posting
<1>4. Become(h, j) /\ UNCHANGED <<items, history>>
  BY DEF UseStart
<1> HIDE DEF j
<1> QED
  BY <1>2, <1>3, <1>4, QuietSame

(* Reading takes the first id off the list and puts it at the end of those *)
(* used.                                                                   *)
LEMMA Ends ==
  ASSUME NEW want \in Seq(UploadId), want # <<>>, NEW used \in Seq(UploadId)
  PROVE  /\ Head(want) \in UploadId /\ Tail(want) \in Seq(UploadId)
         /\ Len(want) # 1 => Tail(want) # <<>>
         /\ Append(used, Head(want)) \in Seq(UploadId) /\ Append(used, Head(want)) # <<>>
<1>1. Len(want) \in Nat /\ Len(want) > 0 /\ Len(Tail(want)) = Len(want) - 1
  OBVIOUS
<1>2. Head(want) \in UploadId /\ Tail(want) \in Seq(UploadId)
  OBVIOUS
<1>3. Len(want) # 1 => Tail(want) # <<>>
  BY <1>1, <1>2
<1>4. Len(Append(used, Head(want))) = Len(used) + 1 /\ Append(used, Head(want)) \in Seq(UploadId)
  BY <1>2
<1>5. Append(used, Head(want)) # <<>>
  BY <1>4
<1> QED
  BY <1>2, <1>3, <1>4, <1>5

(* A file that is read is the user's own.                                  *)
LEMMA ReadOneInv ==
  ASSUME Inv, NEW h \in Handler, ReadOne(h)
  PROVE  Inv'
<1> DEFINE id == Head(job[h].want)
           used == Append(job[h].used, id)
           j == IF Owned(Swept, job[h].owner, id) THEN Loaded(job[h]) ELSE Idle
<1>1. /\ job[h] \in [step : {"load"}, owner : User, want : Seq(UploadId), used : Seq(UploadId)]
      /\ job[h].want # <<>>
      /\ \A i \in DOMAIN job[h].used : owner[job[h].used[i]] = job[h].owner
  BY JobShape DEF Inv, TypeOK, ReadOne, At, JobOK, Reading
<1>2. job[h].want \in Seq(UploadId) /\ job[h].used \in Seq(UploadId) /\ job[h].owner \in User
  BY <1>1
<1>3. id \in UploadId /\ Tail(job[h].want) \in Seq(UploadId) /\ used \in Seq(UploadId) /\ used # <<>>
      /\ (Len(job[h].want) # 1 => Tail(job[h].want) # <<>>)
  <2>1. job[h].want # <<>>
    BY <1>1
  <2> QED
    BY <1>2, <2>1, Ends
<1>4. j \in Job
  BY <1>2, <1>3, IdleOK DEF Loaded, Job, UseJob
<1>5. Become(h, j) /\ items' = Swept /\ UNCHANGED history
  BY DEF ReadOne
<1>6. Shrunk /\ items' \in [UploadId -> Upload \cup {None}]
  BY <1>5, SweptShrinks
<1>7. CASE Owned(Swept, job[h].owner, id)
  <2>1. owner[id] = job[h].owner
    BY <1>3, <1>7, SweptShrinks DEF Owned, Inv, Agree, Swept
  <2>2. \A i \in DOMAIN used : owner'[used[i]] = job[h].owner
    BY <1>1, <1>2, <1>3, <1>5, <2>1 DEF history
  <2>3. j = Loaded(job[h])
    BY <1>7
  <2>4. JobOK(Loaded(job[h]), items', owner', attached')
    BY <1>3, <2>2 DEF Loaded, JobOK, Reading, Posting
  <2> HIDE DEF j
  <2> QED
    BY <1>4, <1>5, <1>6, <2>3, <2>4, Quiet
<1>8. CASE ~Owned(Swept, job[h].owner, id)
  <2>1. j = Idle
    BY <1>8
  <2> HIDE DEF j
  <2> QED
    BY <1>4, <1>5, <1>6, <2>1, IdleOK, Quiet
<1> QED
  BY <1>7, <1>8

(* Of a finite choice of positions, some hold an id or none does.          *)
LEMMA Times ==
  ASSUME NEW used \in Seq(UploadId), NEW ok \in SUBSET (DOMAIN used), NEW id
  PROVE  /\ Cardinality({i \in ok : used[i] = id}) \in Nat
         /\ Cardinality({i \in ok : used[i] = id}) > 0 <=> \E i \in ok : used[i] = id
<1> DEFINE S == {i \in ok : used[i] = id}
<1>1. IsFiniteSet(1 .. Len(used)) /\ DOMAIN used = 1 .. Len(used)
  BY FS_Interval
<1>2. IsFiniteSet(S)
  BY <1>1, FS_Subset
<1>3. Cardinality(S) \in Nat /\ (Cardinality(S) = 0 <=> S = {})
  BY <1>2, FS_CardinalityType, FS_EmptySet
<1> QED
  BY <1>3

(* The count of uses stops at 2.                                           *)
LEMMA Capped == ASSUME NEW n \in Nat PROVE Min({2, n}) \in 0 .. 2
BY DEF Min

(* FreeScout stores files of the user of the call, all of them when it     *)
(* does not fail.                                                          *)
LEMMA FreeScoutStoresInv ==
  ASSUME Inv, NEW h \in Handler, FreeScoutStores(h)
  PROVE  Inv'
<1> DEFINE used == job[h].used
           user == job[h].owner
           j == [step |-> "stored", owner |-> user, used |-> used]
           times(ok, id) == Cardinality({i \in ok : used[i] = id})
<1>1. /\ used \in Seq(UploadId) /\ user \in User /\ used # <<>>
      /\ \A i \in DOMAIN used : owner[used[i]] = user
  BY JobShape DEF Inv, TypeOK, FreeScoutStores, At, JobOK, Reading
<1>2. PICK ok \in SUBSET (DOMAIN used) :
        /\ StorageFails \/ ok = DOMAIN used
        /\ attached' = [id \in UploadId |-> IF times(ok, id) > 0 THEN attached[id] \cup {user}
                                            ELSE attached[id]]
        /\ uses' = [id \in UploadId |-> Min({2, uses[id] + times(ok, id)})]
  BY DEF FreeScoutStores
<1>3. \A id : times(ok, id) \in Nat /\ (times(ok, id) > 0 <=> \E i \in ok : used[i] = id)
  BY <1>1, <1>2, Times
<1> HIDE DEF times
<1>4. uses' \in [UploadId -> 0 .. 2]
  BY <1>2, <1>3, Capped DEF Inv, TypeOK
<1>5. attached' \in [UploadId -> SUBSET User]
  BY <1>1, <1>2 DEF Inv, TypeOK
<1>6. UNCHANGED <<items, owner, consumed>> /\ job' = [job EXCEPT ![h] = j]
  BY DEF FreeScoutStores, Become
<1>7. \A id \in UploadId : attached[id] \subseteq attached'[id]
  BY <1>2 DEF Inv, TypeOK
<1>8. OwnersOnly'
  BY <1>1, <1>2, <1>3, <1>6 DEF Inv, OwnersOnly
<1>9. Agree' /\ Stored'
  BY <1>6, <1>7 DEF Inv, TypeOK, Agree, Stored, NothingLost
<1>10. ASSUME NEW x \in Job, JobOK(x, items, owner, attached)
       PROVE  JobOK(x, items', owner', attached')
  <2>1. x.step \in {"stored", "clean"} => \A i \in DOMAIN x.used : x.used[i] \in UploadId
    BY JobShape
  <2> QED
    BY <1>6, <1>7, <1>10, <2>1 DEF JobOK
<1>11. JobOK(j, items', owner', attached')
  <2>1. ASSUME StorageFails = FALSE, NEW i \in DOMAIN used
        PROVE  attached'[used[i]] # {}
    <3>1. used[i] \in UploadId
      BY <1>1
    <3>2. ok = DOMAIN used
      BY <1>2, <2>1
    <3>3. times(ok, used[i]) > 0
      BY <1>3, <3>2
    <3>4. attached'[used[i]] = attached[used[i]] \cup {user}
      BY <1>2, <3>1, <3>3
    <3> QED
      BY <3>4
  <2> QED
    BY <1>1, <1>6, <2>1 DEF JobOK, Reading, Posting
<1>12. j \in Job
  BY <1>1 DEF Job, UseJob
<1>13. items' \in [UploadId -> Upload \cup {None}] /\ owner' \in [UploadId -> User \cup {None}]
       /\ consumed' \subseteq UploadId
  BY <1>6 DEF Inv, TypeOK
<1> HIDE DEF j
<1> QED
  BY <1>4, <1>5, <1>6, <1>8, <1>9, <1>10, <1>11, <1>12, <1>13, OneJob

(* A good answer comes after FreeScout has stored the files.               *)
LEMMA AnswerGoodInv ==
  ASSUME Inv, NEW h \in Handler, AnswerGood(h)
  PROVE  Inv'
<1> DEFINE j == [step |-> "clean", owner |-> job[h].owner, used |-> job[h].used]
<1>1. job[h].step = "stored"
  BY DEF AnswerGood, CleansUp
<1>2. j \in Job
  BY <1>1, JobShape DEF Inv, TypeOK, Job, UseJob
<1>3. JobOK(job[h], items, owner, attached)
  BY DEF Inv
<1>4. JobOK(j, items, owner, attached)
  BY <1>1, <1>3 DEF JobOK, Reading, Posting
<1>5. Become(h, j) /\ UNCHANGED <<items, history>>
  BY DEF AnswerGood
<1> HIDE DEF j
<1> QED
  BY <1>2, <1>4, <1>5, QuietSame

(* What is removed after use is with FreeScout.                            *)
LEMMA CleanOneInv ==
  ASSUME Inv, NEW h \in Handler, CleanOne(h)
  PROVE  Inv'
<1> DEFINE used == job[h].used
           user == job[h].owner
           id == Head(used)
           rest == [step |-> "clean", owner |-> user, used |-> Tail(used)]
           j == IF Len(used) = 1 THEN Idle ELSE rest
<1>1. /\ job[h] \in [step : {"sent", "stored", "clean"}, owner : User, used : Seq(UploadId)]
      /\ job[h].step = "clean" /\ JobOK(job[h], items, owner, attached)
  BY JobShape DEF Inv, TypeOK, CleanOne, At
<1>2. /\ used \in Seq(UploadId) /\ used # <<>> /\ user \in User
      /\ \A i \in DOMAIN used : owner[used[i]] = user
      /\ StorageFails = FALSE => \A i \in DOMAIN used : attached[used[i]] # {}
  BY <1>1 DEF JobOK, Reading
<1>3. /\ id \in UploadId /\ Tail(used) \in Seq(UploadId) /\ id = used[1] /\ 1 \in DOMAIN used
      /\ Len(used) # 1 => Tail(used) # <<>>
      /\ \A i \in DOMAIN Tail(used) : i + 1 \in DOMAIN used /\ Tail(used)[i] = used[i + 1]
  BY <1>2, Ends
<1>4. /\ job' = [job EXCEPT ![h] = j] /\ items' = Without(user, id)
      /\ consumed' = consumed \/ consumed' = consumed \cup {id}
      /\ UNCHANGED <<owner, attached, uses>>
  BY DEF CleanOne, Become
<1>5. Shrunk /\ items' \in [UploadId -> Upload \cup {None}]
  BY <1>2, <1>3, <1>4, WithoutShrinks
<1>6. ASSUME NEW x \in Job, JobOK(x, items, owner, attached)
      PROVE  JobOK(x, items', owner', attached')
  <2>1. x.step \in {"undo", "refused"} => \A i \in DOMAIN x.put : x.put[i] \in UploadId
    BY JobShape
  <2> QED
    BY <1>4, <1>5, <1>6, <2>1 DEF JobOK, Shrunk, Fewer
<1>7. rest \in Job /\ j \in Job
  BY <1>2, <1>3, IdleOK DEF Job, UseJob
<1>8. JobOK(j, items', owner', attached')
  <2>1. CASE Len(used) = 1
    BY <2>1, IdleOK
  <2>2. CASE Len(used) # 1
    <3>1. /\ \A i \in DOMAIN Tail(used) : owner'[Tail(used)[i]] = user
          /\ StorageFails = FALSE => \A i \in DOMAIN Tail(used) : attached'[Tail(used)[i]] # {}
      BY <1>2, <1>3, <1>4
    <3>2. JobOK(rest, items', owner', attached')
      BY <1>3, <2>2, <3>1 DEF JobOK, Reading, Posting
    <3> QED
      BY <2>2, <3>2
  <2> QED
    BY <2>1, <2>2
<1>9. Agree' /\ OwnersOnly'
  BY <1>4, <1>5 DEF Inv, Agree, OwnersOnly, Shrunk, Fewer
<1>10. Stored'
  BY <1>2, <1>3, <1>4 DEF Inv, Stored, NothingLost
<1>11. owner' \in [UploadId -> User \cup {None}] /\ consumed' \subseteq UploadId
       /\ attached' \in [UploadId -> SUBSET User] /\ uses' \in [UploadId -> 0 .. 2]
  BY <1>3, <1>4 DEF Inv, TypeOK
<1>12. job' = [job EXCEPT ![h] = j]
  BY <1>4
<1> HIDE DEF j
<1> QED
  BY <1>5, <1>6, <1>7, <1>8, <1>9, <1>10, <1>11, <1>12, OneJob

(* The steps that leave every request alone.                               *)
LEMMA StoreInv ==
  ASSUME Inv, UNCHANGED <<job, history>>, Shrunk, items' \in [UploadId -> Upload \cup {None}]
  PROVE  Inv'
<1>1. TypeOK'
  BY DEF Inv, TypeOK, history
<1>2. ASSUME NEW h \in Handler
      PROVE  JobOK(job'[h], items', owner', attached')
  <2>1. job' = job /\ job[h] \in Job /\ JobOK(job[h], items, owner, attached)
    BY DEF Inv, TypeOK
  <2> QED
    BY <2>1, ShrinkKeeps
<1> QED
  BY <1>1, <1>2, ShrinkKeeps DEF Inv

(* A deletion, the sweep and the clock only take away.                     *)
LEMMA OthersInv ==
  ASSUME Inv, (\E user \in User, id \in UploadId : DeleteUpload(user, id)) \/ Sweep \/ Tick
  PROVE  Inv'
<1>1. CASE \E user \in User, id \in UploadId : DeleteUpload(user, id)
  <2>1. PICK user \in User, id \in UploadId : DeleteUpload(user, id)
    BY <1>1
  <2> QED
    BY <2>1, WithoutShrinks, StoreInv DEF DeleteUpload
<1>2. CASE Sweep
  BY <1>2, SweptShrinks, StoreInv DEF Sweep
<1>3. CASE Tick
  <2>1. /\ UNCHANGED <<job, history>>
        /\ items' = [id \in UploadId |->
             IF items[id] = None \/ Expired(id) THEN items[id]
             ELSE [owner |-> items[id].owner, size |-> items[id].size, left |-> items[id].left - 1]]
    BY <1>3 DEF Tick
  <2>2. ASSUME NEW id \in UploadId
        PROVE  /\ items'[id] \in Upload \cup {None}
               /\ items'[id] # None => items[id] # None /\ items'[id].owner = items[id].owner
    <3>1. CASE items[id] = None \/ Expired(id)
      BY <2>1, <3>1 DEF Inv, TypeOK
    <3>2. CASE ~(items[id] = None \/ Expired(id))
      <4>1. items[id] \in Upload /\ items[id].left # 0
        BY <3>2 DEF Inv, TypeOK, Expired
      <4>2. items[id].left - 1 \in 0 .. UploadTTL + 1
        BY <4>1, UploadsAssumption DEF Upload
      <4> QED
        BY <2>1, <3>2, <4>1, <4>2 DEF Upload
    <3> QED
      BY <3>1, <3>2
  <2>3. items' \in [UploadId -> Upload \cup {None}]
    BY <2>1, <2>2
  <2> QED
    BY <2>1, <2>2, <2>3, StoreInv DEF Shrunk, Fewer
<1> QED
  BY <1>1, <1>2, <1>3

(* A restart empties the store and ends every request.                     *)
LEMMA RestartInv ==
  ASSUME Inv, Restart
  PROVE  Inv'
<1>1. items' = [id \in UploadId |-> None] /\ job' = [h \in Handler |-> Idle] /\ UNCHANGED history
  BY DEF Restart
<1>2. TypeOK'
  BY <1>1, IdleOK DEF Inv, TypeOK, history
<1>3. Shrunk
  BY <1>1 DEF Shrunk, Fewer
<1>4. \A h \in Handler : JobOK(job'[h], items', owner', attached')
  BY <1>1, IdleOK
<1> QED
  BY <1>1, <1>2, <1>3, <1>4, ShrinkKeeps DEF Inv

(* Every step keeps the invariant.                                         *)
LEMMA NextInv == Inv /\ [Next]_vars => Inv'
<1> SUFFICES ASSUME Inv, [Next]_vars PROVE Inv'
  OBVIOUS
<1>1. ASSUME NEW h \in Handler, NEW user \in User, NEW files \in Posts, PostStart(h, user, files) PROVE Inv'
  BY <1>1, PostStartInv
<1>2. ASSUME NEW h \in Handler, NEW id \in UploadId, PutFile(h, id) PROVE Inv'
  BY <1>2, PutFileInv
<1>3. ASSUME NEW h \in Handler, PutRefused(h) PROVE Inv'
  BY <1>3, PutRefusedInv
<1>4. ASSUME NEW h \in Handler, UndoOne(h) \/ UndoDone(h) PROVE Inv'
  BY <1>4, UndoInv
<1>5. ASSUME NEW h \in Handler, PostAnswered(h) \/ GiveUp(h) PROVE Inv'
  BY <1>5, BackToIdleInv
<1>6. ASSUME NEW h \in Handler, NEW user \in User, NEW want \in Wants, UseStart(h, user, want) PROVE Inv'
  BY <1>6, UseStartInv
<1>7. ASSUME NEW h \in Handler, ReadOne(h) PROVE Inv'
  BY <1>7, ReadOneInv
<1>8. ASSUME NEW h \in Handler, FreeScoutStores(h) PROVE Inv'
  BY <1>8, FreeScoutStoresInv
<1>9. ASSUME NEW h \in Handler, AnswerGood(h) PROVE Inv'
  BY <1>9, AnswerGoodInv
<1>10. ASSUME NEW h \in Handler, CleanOne(h) PROVE Inv'
  BY <1>10, CleanOneInv
<1>11. ASSUME (\E user \in User, id \in UploadId : DeleteUpload(user, id)) \/ Sweep \/ Tick PROVE Inv'
  BY <1>11, OthersInv
<1>12. ASSUME Restart PROVE Inv'
  BY <1>12, RestartInv
<1>13. ASSUME UNCHANGED vars PROVE Inv'
  <2>1. UNCHANGED <<job, history>> /\ items' = items
    BY <1>13 DEF vars
  <2>2. items' \in [UploadId -> Upload \cup {None}]
    BY <2>1 DEF Inv, TypeOK
  <2> QED
    BY <2>1, <2>2, SameShrinks, StoreInv
<1> QED
  BY <1>1, <1>2, <1>3, <1>4, <1>5, <1>6, <1>7, <1>8, <1>9, <1>10, <1>11, <1>12, <1>13 DEF Next

-----------------------------------------------------------------------------
(* The invariant of the upload store: files, their owners and what the     *)
(* requests in progress have in hand fit together.                         *)
THEOREM Invariance == Spec => []Inv
  BY InitInv, NextInv, PTL DEF Spec

(* Every variable of the upload store keeps its type.                      *)
THEOREM Typing == Spec => []TypeOK
<1>1. Inv => TypeOK
  BY DEF Inv
<1> QED
  BY <1>1, Invariance, PTL

(* FreeScout stores an upload for its owner only, whoever names the id and *)
(* whatever happens between the read and the call (uploads.go:107-120).    *)
THEOREM Ownership == Spec => []OwnersOnly
<1>1. Inv => OwnersOnly
  BY DEF Inv
<1> QED
  BY <1>1, Invariance, PTL

(* A refused form leaves none of its files behind (rest.go:203-207).       *)
THEOREM Refusal == Spec => []RefusedLeavesNothing
<1>1. ASSUME Inv PROVE RefusedLeavesNothing
  <2> SUFFICES ASSUME NEW h \in Handler, At(h, "refused"), NEW i \in DOMAIN job[h].put
               PROVE  items[job[h].put[i]] = None
    BY DEF RefusedLeavesNothing
  <2>1. job[h].step = "refused" /\ JobOK(job[h], items, owner, attached)
    BY <1>1 DEF Inv, At
  <2>2. job[h].undo = <<>> /\ DOMAIN job[h].undo = {}
    BY <2>1 DEF JobOK
  <2> QED
    BY <2>1, <2>2 DEF JobOK
<1> QED
  BY <1>1, Invariance, PTL

(* While FreeScout can store every file, an upload that is deleted because *)
(* it was used is with FreeScout (withAttachments, ops.go:254-257).        *)
THEOREM Lossless ==
  ASSUME StorageFails = FALSE
  PROVE  Spec => []NothingLost
<1>1. Inv => NothingLost
  BY DEF Inv, Stored
<1> QED
  BY <1>1, Invariance, PTL

-----------------------------------------------------------------------------
(* The limits of put, for a store m: a user's files are finitely many.     *)
Held(m) ==
  \A user \in User :
    /\ IsFiniteSet(Mine(m, user))
    /\ Cardinality(Mine(m, user)) <= MaxUploads
    /\ Bytes(m, user) <= MaxBytes

Store == [UploadId -> Upload \cup {None}]

(* The sizes that are added up.                                            *)
Sizes(m, user) == [id \in Mine(m, user) |-> m[id].size]

(* They are natural numbers, finitely many in a store that is within the   *)
(* limits.                                                                 *)
LEMMA SizesNumbers ==
  ASSUME NEW m \in Store, Held(m), NEW user \in User
  PROVE  /\ Numbers(Sizes(m, user)) /\ DOMAIN Sizes(m, user) = Mine(m, user)
         /\ Bytes(m, user) = SumFunction(Sizes(m, user)) /\ Bytes(m, user) \in Nat
         /\ Cardinality(Mine(m, user)) \in Nat
<1>1. \A id \in Mine(m, user) : m[id].size \in Nat
  BY DEF Store, Mine, Owned, Upload
<1>2. Numbers(Sizes(m, user)) /\ DOMAIN Sizes(m, user) = Mine(m, user)
  BY <1>1 DEF Held, Numbers, Naturals, Sizes
<1> QED
  BY <1>2, SumType, FS_CardinalityType DEF Held, Bytes, Sizes

(* Taking files away keeps the limits.                                     *)
LEMMA FewerHeld ==
  ASSUME NEW m \in Store, NEW n \in Store, Held(m), Fewer(n, m)
  PROVE  Held(n)
<1> SUFFICES ASSUME NEW user \in User
             PROVE  /\ IsFiniteSet(Mine(n, user))
                    /\ Cardinality(Mine(n, user)) <= MaxUploads
                    /\ Bytes(n, user) <= MaxBytes
  BY DEF Held
<1>1. Mine(n, user) \subseteq Mine(m, user) /\ \A id \in Mine(n, user) : n[id].size = m[id].size
  BY DEF Fewer, Mine, Owned
<1>2. IsFiniteSet(Mine(m, user)) /\ Cardinality(Mine(m, user)) <= MaxUploads /\ Bytes(m, user) <= MaxBytes
  BY DEF Held
<1>3. /\ IsFiniteSet(Mine(n, user)) /\ Cardinality(Mine(n, user)) <= Cardinality(Mine(m, user))
      /\ Cardinality(Mine(n, user)) \in Nat
  BY <1>1, <1>2, FS_Subset, FS_CardinalityType
<1>4. /\ Numbers(Sizes(m, user)) /\ DOMAIN Sizes(m, user) = Mine(m, user)
      /\ Bytes(m, user) = SumFunction(Sizes(m, user)) /\ Bytes(m, user) \in Nat
      /\ Cardinality(Mine(m, user)) \in Nat
  BY SizesNumbers
<1>5. /\ DOMAIN Sizes(n, user) \subseteq DOMAIN Sizes(m, user)
      /\ \A id \in DOMAIN Sizes(n, user) : Sizes(n, user)[id] = Sizes(m, user)[id]
  BY <1>1, <1>4 DEF Sizes
<1>6. Numbers(Sizes(n, user)) /\ SumFunction(Sizes(n, user)) <= SumFunction(Sizes(m, user))
  BY <1>4, <1>5, SumFewer
<1>7. Bytes(n, user) = SumFunction(Sizes(n, user)) /\ Bytes(n, user) \in Nat
  BY <1>6, SumType DEF Bytes, Sizes
<1> QED
  BY <1>2, <1>3, <1>4, <1>6, <1>7, UploadsAssumption

(* A file that is put counts for its owner, and put has looked at both     *)
(* limits after its sweep (uploads.go:66-77).                              *)
LEMMA PutFileHeld ==
  ASSUME Inv, Held(items), NEW h \in Handler, NEW id \in UploadId, PutFile(h, id)
  PROVE  Held(items')
<1> DEFINE user == job[h].owner
           size == Head(job[h].files)
           u == [owner |-> user, size |-> size, left |-> UploadTTL + 1]
<1>1. user \in User /\ size \in Nat
  <2>1. job[h] \in [step : {"post"}, owner : User, files : Seq(Nat), put : Seq(UploadId)]
    BY JobShape DEF Inv, TypeOK, PutFile, At
  <2>2. job[h].files # <<>>
    BY DEF PutFile
  <2> QED
    BY <2>1, <2>2
<1>2. items' = [Swept EXCEPT ![id] = u] /\ ~OverLimit(Swept, user, size) /\ owner[id] = None
  BY DEF PutFile
<1>3. items \in Store /\ Swept \in Store /\ Fewer(Swept, items)
  BY DEF Inv, TypeOK, Swept, Store, Fewer
<1>4. Held(Swept)
  BY <1>3, FewerHeld
<1>5. Swept[id] = None
  <2>1. items[id] = None
    BY <1>2, NoUploadAssumption DEF Inv, TypeOK, Agree, Upload
  <2> QED
    BY <2>1 DEF Swept
<1>6. items'[id] = u /\ u # None /\ \A k \in UploadId : k # id => items'[k] = Swept[k]
  <2>1. u \in Upload
    BY <1>1, UploadsAssumption DEF Upload
  <2> QED
    BY <1>2, <1>3, <2>1, NoUploadAssumption DEF Store
<1> HIDE DEF user, size
<1> SUFFICES ASSUME NEW v \in User
             PROVE  /\ IsFiniteSet(Mine(items', v))
                    /\ Cardinality(Mine(items', v)) <= MaxUploads
                    /\ Bytes(items', v) <= MaxBytes
  BY DEF Held
<1>7. CASE v # user
  <2>1. Mine(items', v) = Mine(Swept, v)
    BY <1>5, <1>6, <1>7 DEF Mine, Owned
  <2>2. \A k \in Mine(Swept, v) : items'[k] = Swept[k]
    BY <1>5, <1>6 DEF Mine, Owned
  <2>3. Bytes(items', v) = Bytes(Swept, v)
    BY <2>1, <2>2 DEF Bytes
  <2> QED
    BY <1>4, <2>1, <2>3 DEF Held
<1>8. CASE v = user
  <2>1. Mine(items', v) = Mine(Swept, v) \cup {id} /\ id \notin Mine(Swept, v)
    BY <1>5, <1>6, <1>8 DEF Mine, Owned
  <2>2. /\ Numbers(Sizes(Swept, v)) /\ DOMAIN Sizes(Swept, v) = Mine(Swept, v)
        /\ Bytes(Swept, v) = SumFunction(Sizes(Swept, v)) /\ Bytes(Swept, v) \in Nat
        /\ Cardinality(Mine(Swept, v)) \in Nat /\ IsFiniteSet(Mine(Swept, v))
    BY <1>3, <1>4, SizesNumbers DEF Held
  <2>3. /\ IsFiniteSet(Mine(items', v))
        /\ Cardinality(Mine(items', v)) = Cardinality(Mine(Swept, v)) + 1
    BY <2>1, <2>2, FS_AddElement
  <2>4. /\ DOMAIN Sizes(items', v) = DOMAIN Sizes(Swept, v) \cup {id}
        /\ \A k \in DOMAIN Sizes(Swept, v) : Sizes(items', v)[k] = Sizes(Swept, v)[k]
        /\ Sizes(items', v)[id] = size
    <3>1. /\ items'[id].size = size /\ id \in Mine(items', v)
          /\ \A k \in Mine(Swept, v) : k \in UploadId /\ k # id /\ k \in Mine(items', v)
      BY <1>6, <2>1 DEF Mine
    <3>2. Sizes(items', v)[id] = size
      BY <3>1 DEF Sizes
    <3>3. \A k \in Mine(Swept, v) : Sizes(items', v)[k] = Sizes(Swept, v)[k]
      <4>1. \A k \in Mine(Swept, v) : items'[k].size = Swept[k].size
        BY <1>6, <3>1
      <4> QED
        BY <3>1, <4>1 DEF Sizes
    <3>4. DOMAIN Sizes(items', v) = Mine(items', v)
      BY DEF Sizes
    <3> QED
      BY <2>1, <2>2, <3>2, <3>3, <3>4
  <2>5. SumFunction(Sizes(items', v)) = SumFunction(Sizes(Swept, v)) + size
    BY <1>1, <2>1, <2>2, <2>4, SumMore
  <2>6. Bytes(items', v) = Bytes(Swept, v) + size
    BY <2>2, <2>5 DEF Bytes, Sizes
  <2>7. Cardinality(Mine(Swept, v)) < MaxUploads /\ Bytes(Swept, v) + size <= MaxBytes
    BY <1>1, <1>2, <1>8, <2>2, UploadsAssumption DEF OverLimit
  <2> QED
    BY <2>2, <2>3, <2>6, <2>7, UploadsAssumption
<1> QED
  BY <1>7, <1>8

(* Nothing but put adds a file.                                            *)
LEMMA OnlyPutAdds ==
  ASSUME Inv, [Next]_vars
  PROVE  Shrunk \/ \E h \in Handler, id \in UploadId : PutFile(h, id)
<1>1. ASSUME NEW h \in Handler, UndoOne(h) PROVE Shrunk
  BY <1>1 DEF UndoOne, Without, Owned, Inv, TypeOK, Shrunk, Fewer
<1>2. ASSUME NEW h \in Handler, CleanOne(h) PROVE Shrunk
  BY <1>2 DEF CleanOne, Without, Owned, Inv, TypeOK, Shrunk, Fewer
<1>3. ASSUME NEW user \in User, NEW id \in UploadId, DeleteUpload(user, id) PROVE Shrunk
  BY <1>3 DEF DeleteUpload, Without, Owned, Inv, TypeOK, Shrunk, Fewer
<1>4. ASSUME NEW h \in Handler, PutRefused(h) \/ ReadOne(h) \/ Sweep PROVE Shrunk
  BY <1>4, SweptShrinks DEF PutRefused, ReadOne, Sweep
<1>5. ASSUME Sweep PROVE Shrunk
  BY <1>5, SweptShrinks DEF Sweep
<1>6. ASSUME Tick PROVE Shrunk
  BY <1>6 DEF Tick, Shrunk, Fewer
<1>7. ASSUME Restart PROVE Shrunk
  BY <1>7 DEF Restart, Shrunk, Fewer
<1>8. ASSUME NEW h \in Handler,
             \/ UndoDone(h) \/ PostAnswered(h) \/ FreeScoutStores(h) \/ AnswerGood(h) \/ GiveUp(h)
             \/ \E user \in User, files \in Posts : PostStart(h, user, files)
             \/ \E user \in User, want \in Wants : UseStart(h, user, want)
      PROVE  Shrunk
  <2>1. items' = items
    BY <1>8 DEF UndoDone, PostAnswered, FreeScoutStores, AnswerGood, GiveUp, PostStart, UseStart
  <2> QED
    BY <2>1, SameShrinks
<1>9. ASSUME UNCHANGED vars PROVE Shrunk
  BY <1>9, SameShrinks DEF vars
<1> QED
  BY <1>1, <1>2, <1>3, <1>4, <1>5, <1>6, <1>7, <1>8, <1>9 DEF Next

(* Every step keeps the limits.                                            *)
LEMMA HeldInv == Inv /\ Held(items) /\ [Next]_vars => Held(items)'
<1> SUFFICES ASSUME Inv, Held(items), [Next]_vars PROVE Held(items')
  BY DEF Held, Mine, Owned, Bytes
<1>1. CASE Shrunk
  <2>1. items \in Store /\ items' \in Store
    BY NextInv DEF Inv, TypeOK, Store
  <2> QED
    BY <1>1, <2>1, FewerHeld DEF Shrunk
<1>2. CASE \E h \in Handler, id \in UploadId : PutFile(h, id)
  BY <1>2, PutFileHeld
<1> QED
  BY <1>1, <1>2, OnlyPutAdds

(* An empty store is within the limits.                                    *)
LEMMA InitHeld == Init => Held(items)
<1> SUFFICES ASSUME Init, NEW user \in User
             PROVE  /\ IsFiniteSet(Mine(items, user))
                    /\ Cardinality(Mine(items, user)) <= MaxUploads
                    /\ Bytes(items, user) <= MaxBytes
  BY DEF Held
<1>1. Mine(items, user) = {}
  BY DEF Init, Mine, Owned
<1>2. IsFiniteSet(Mine(items, user)) /\ Cardinality(Mine(items, user)) = 0
  BY <1>1, FS_EmptySet
<1>3. Numbers(Sizes(items, user)) /\ DOMAIN Sizes(items, user) = {}
  BY <1>1, <1>2 DEF Sizes, Numbers, Naturals
<1>4. Bytes(items, user) = 0
  BY <1>3, SumType DEF Bytes, Sizes
<1> QED
  BY <1>2, <1>4, UploadsAssumption

(* No user ever holds more files or more bytes than put allows, however    *)
(* many requests put files at once (uploads.go:66-77).                     *)
THEOREM Quota == Spec => []QuotaHeld
<1>1. Held(items) => QuotaHeld
  BY DEF Held, QuotaHeld
<1>2. Spec => []Held(items)
  BY InitHeld, HeldInv, Invariance, PTL DEF Spec
<1> QED
  BY <1>1, <1>2, PTL

-----------------------------------------------------------------------------
(* When an upload is used once after all: when no two calls name it, no    *)
(* call names a file twice, and the answer of what FreeScout stored        *)
(* arrives.                                                                *)

Holds(s, id) == \E i \in DOMAIN s : s[i] = id

Names(h, id) ==
  \/ At(h, "load") /\ Holds(job[h].want, id)
  \/ job[h].step \in Reading /\ Holds(job[h].used, id)

Apart ==
  /\ \A want \in Wants : IsInjective(want)
  /\ \A id \in UploadId : \A g, h \in Handler : Names(g, id) /\ Names(h, id) => g = h

AnswersArrive == [][~\E h \in Handler : At(h, "stored") /\ GiveUp(h)]_vars

(* A call that FreeScout has not served yet has files in hand that nobody  *)
(* has used.                                                               *)
Unused(j, u) ==
  /\ j.step \in {"load", "sent"} =>
       IsInjective(j.used) /\ \A i \in DOMAIN j.used : u[j.used[i]] = 0
  /\ j.step = "load" =>
       IsInjective(j.want) /\ \A i \in DOMAIN j.used : ~Holds(j.want, j.used[i])

(* A file that is with FreeScout is about to leave the store.              *)
Leaving(h, id) == job[h].step \in {"stored", "clean"} /\ Holds(job[h].used, id)

UsedUp(id) ==
  /\ uses[id] <= 1
  /\ uses[id] # 0 => owner[id] # None /\ (items[id] # None => \E h \in Handler : Leaving(h, id))

OnceInv ==
  /\ \A id \in UploadId : UsedUp(id)
  /\ \A h \in Handler : Unused(job[h], uses)

(* A step of one request that stores nothing.                              *)
LEMMA OnceStep ==
  ASSUME Inv, OnceInv, NEW h \in Handler, NEW j, Become(h, j), UNCHANGED uses,
         Unused(j, uses),
         \A id \in UploadId : owner[id] # None => owner'[id] # None,
         \A id \in UploadId : uses[id] # 0 /\ items'[id] # None => items[id] # None,
         \A id \in UploadId : Leaving(h, id) /\ items'[id] # None =>
           j.step \in {"stored", "clean"} /\ Holds(j.used, id)
  PROVE  OnceInv'
<1>1. \A g \in Handler : job'[g] = IF g = h THEN j ELSE job[g]
  BY DEF Inv, TypeOK, Become
<1>2. ASSUME NEW id \in UploadId PROVE UsedUp(id)'
  <2>1. UsedUp(id)
    BY DEF OnceInv
  <2>2. ASSUME uses[id] # 0, items'[id] # None PROVE \E g \in Handler : Leaving(g, id)'
    <3>1. PICK g \in Handler : Leaving(g, id)
      BY <2>1, <2>2 DEF UsedUp
    <3>2. CASE g = h
      BY <1>1, <2>2, <3>1, <3>2 DEF Leaving
    <3>3. CASE g # h
      BY <1>1, <3>1, <3>3 DEF Leaving
    <3> QED
      BY <3>2, <3>3
  <2> QED
    BY <2>1, <2>2 DEF UsedUp
<1>3. \A g \in Handler : Unused(job'[g], uses')
  BY <1>1 DEF OnceInv
<1> QED
  BY <1>2, <1>3 DEF OnceInv

(* The steps of a post, and those that give a call up before FreeScout     *)
(* has it.                                                                 *)
LEMMA OnceElsewhere ==
  ASSUME Inv, OnceInv, NEW h \in Handler, NEW j, Become(h, j), UNCHANGED uses,
         j.step \notin {"load", "sent"}, job[h].step \notin {"stored", "clean"},
         \A id \in UploadId : owner[id] # None => owner'[id] # None,
         \A id \in UploadId : uses[id] # 0 /\ items'[id] # None => items[id] # None
  PROVE  OnceInv'
<1>1. Unused(j, uses)
  BY DEF Unused
<1>2. \A id \in UploadId : ~Leaving(h, id)
  BY DEF Leaving
<1> QED
  BY <1>1, <1>2, OnceStep

(* A file that is read is in the store, and so nobody has used it.         *)
LEMMA ReadOneOnce ==
  ASSUME Inv, Apart, OnceInv, NEW h \in Handler, ReadOne(h)
  PROVE  OnceInv'
<1> DEFINE want == job[h].want
           used == job[h].used
           id == Head(want)
           more == Append(used, id)
           j == IF Owned(Swept, job[h].owner, id) THEN Loaded(job[h]) ELSE Idle
<1>1. /\ job[h] \in [step : {"load"}, owner : User, want : Seq(UploadId), used : Seq(UploadId)]
      /\ job[h].step = "load" /\ want # <<>> /\ Unused(job[h], uses)
  BY JobShape DEF Inv, TypeOK, ReadOne, At, JobOK, OnceInv
<1>2. want \in Seq(UploadId) /\ used \in Seq(UploadId)
  BY <1>1
<1>3. /\ IsInjective(want) /\ IsInjective(used)
      /\ \A i \in DOMAIN used : uses[used[i]] = 0 /\ ~Holds(want, used[i])
  BY <1>1 DEF Unused
<1>4. Become(h, j) /\ items' = Swept /\ UNCHANGED history
  BY DEF ReadOne
<1>5. Shrunk
  BY <1>4, SweptShrinks
<1>6. /\ id \in UploadId /\ id = want[1] /\ 1 \in DOMAIN want /\ Tail(want) \in Seq(UploadId)
      /\ \A i \in DOMAIN Tail(want) : i + 1 \in DOMAIN want /\ Tail(want)[i] = want[i + 1]
  BY <1>1, <1>2, Ends
<1>7. more \in Seq(UploadId) /\ DOMAIN more = 1 .. Len(used) + 1 /\ DOMAIN used = 1 .. Len(used)
      /\ more[Len(used) + 1] = id /\ \A i \in DOMAIN used : more[i] = used[i]
  BY <1>2, <1>6
<1>8. CASE Owned(Swept, job[h].owner, id)
  <2>1. items[id] # None
    BY <1>6, <1>8 DEF Owned, Swept
  <2>2. uses[id] = 0
    <3>1. ASSUME NEW g \in Handler, Leaving(g, id) PROVE FALSE
      <4>1. Names(g, id) /\ Names(h, id)
        BY <1>1, <1>6, <3>1 DEF Leaving, Names, Holds, Reading, At
      <4>2. g = h
        BY <1>6, <4>1 DEF Apart
      <4> QED
        BY <1>1, <3>1, <4>2 DEF Leaving
    <3> QED
      BY <1>6, <2>1, <3>1 DEF OnceInv, UsedUp
  <2>3. \A i \in DOMAIN used : used[i] # id
    BY <1>3, <1>6 DEF Holds
  <2>4. IsInjective(more) /\ \A i \in DOMAIN more : uses[more[i]] = 0
    <3> HIDE DEF more, id
    <3>1. \A i \in DOMAIN more : i \in DOMAIN used \/ (i = Len(used) + 1 /\ more[i] = id)
      BY <1>2, <1>7
    <3> QED
      BY <1>3, <1>7, <2>2, <2>3, <3>1 DEF IsInjective
  <2>5. IsInjective(Tail(want)) /\ \A i \in DOMAIN more : ~Holds(Tail(want), more[i])
    <3>1. IsInjective(Tail(want))
      BY <1>2, <1>3, <1>6 DEF IsInjective
    <3>2. ~Holds(Tail(want), id)
      <4>1. \A i \in DOMAIN Tail(want) : i + 1 # 1 /\ i \in Nat
        BY <1>6
      <4> QED
        BY <1>3, <1>6, <4>1 DEF IsInjective, Holds
    <3>3. \A i \in DOMAIN used : ~Holds(Tail(want), used[i])
      BY <1>3, <1>6 DEF Holds
    <3>4. \A i \in DOMAIN more : i \in DOMAIN used \/ more[i] = id
      BY <1>2, <1>7
    <3> QED
      BY <1>7, <3>1, <3>2, <3>3, <3>4
  <2>6. Unused(Loaded(job[h]), uses)
    <3> HIDE DEF more
    <3>1. Loaded(job[h]) = IF Len(want) = 1
                             THEN [step |-> "sent", owner |-> job[h].owner, used |-> more]
                             ELSE [step |-> "load", owner |-> job[h].owner, want |-> Tail(want),
                                   used |-> more]
      BY DEF Loaded, more
    <3> QED
      BY <2>4, <2>5, <3>1 DEF Unused
  <2>7. \A x \in UploadId : ~Leaving(h, x)
    BY <1>1 DEF Leaving
  <2>8. Become(h, Loaded(job[h]))
    BY <1>4, <1>8
  <2> QED
    BY <1>4, <1>5, <2>6, <2>7, <2>8, OnceStep DEF Shrunk, Fewer, history
<1>9. CASE ~Owned(Swept, job[h].owner, id)
  <2>1. Become(h, Idle) /\ Idle.step = "idle"
    BY <1>4, <1>9 DEF Idle
  <2> QED
    BY <1>1, <1>4, <1>5, <2>1, OnceElsewhere DEF Shrunk, Fewer, history
<1> QED
  BY <1>8, <1>9

(* A file that is named once is counted once.                              *)
LEMMA OneTime ==
  ASSUME NEW used \in Seq(UploadId), IsInjective(used), NEW ok \in SUBSET (DOMAIN used), NEW id
  PROVE  Cardinality({i \in ok : used[i] = id}) \in {0, 1}
<1> DEFINE S == {i \in ok : used[i] = id}
<1>1. CASE S = {}
  BY <1>1, FS_EmptySet
<1>2. CASE S # {}
  <2>1. PICK i : i \in S
    BY <1>2
  <2>2. S = {i}
    BY <2>1 DEF IsInjective
  <2>3. Cardinality(S) = 1
    BY <2>2, FS_Singleton
  <2> QED
    BY <2>3
<1> QED
  BY <1>1, <1>2

(* The count of uses is exact below 2.                                     *)
LEMMA Uncapped == ASSUME NEW n \in {0, 1} PROVE Min({2, n}) = n
BY DEF Min

(* FreeScout stores files nobody has used, each of them once.              *)
LEMMA FreeScoutStoresOnce ==
  ASSUME Inv, Apart, OnceInv, NEW h \in Handler, FreeScoutStores(h)
  PROVE  OnceInv'
<1> DEFINE used == job[h].used
           user == job[h].owner
           j == [step |-> "stored", owner |-> user, used |-> used]
           times(ok, id) == Cardinality({i \in ok : used[i] = id})
<1>1. /\ used \in Seq(UploadId) /\ user \in User /\ job[h].step = "sent"
      /\ \A i \in DOMAIN used : owner[used[i]] = user
  BY JobShape DEF Inv, TypeOK, FreeScoutStores, At, JobOK, Reading
<1>2. IsInjective(used) /\ \A i \in DOMAIN used : uses[used[i]] = 0
  BY <1>1 DEF OnceInv, Unused
<1>3. PICK ok \in SUBSET (DOMAIN used) :
        uses' = [id \in UploadId |-> Min({2, uses[id] + times(ok, id)})]
  BY DEF FreeScoutStores
<1>4. \A id : /\ times(ok, id) \in {0, 1}
              /\ times(ok, id) > 0 <=> \E i \in ok : used[i] = id
  <2> TAKE id
  <2>1. times(ok, id) \in {0, 1}
    BY <1>1, <1>2, OneTime
  <2>2. times(ok, id) > 0 <=> \E i \in ok : used[i] = id
    BY <1>1, Times
  <2> QED
    BY <2>1, <2>2
<1>5. /\ UNCHANGED <<items, owner>>
      /\ \A g \in Handler : job'[g] = IF g = h THEN j ELSE job[g]
  BY DEF FreeScoutStores, Become, Inv, TypeOK
<1>6. j.step = "stored" /\ j.used = used
  OBVIOUS
<1> HIDE DEF j, times
<1>7. ASSUME NEW id \in UploadId
      PROVE  /\ uses'[id] \in {uses[id], 1}
             /\ uses'[id] # uses[id] => uses[id] = 0 /\ \E i \in ok : used[i] = id
  <2> PICK n \in {0, 1} : n = times(ok, id)
    BY <1>4
  <2>1. uses'[id] = Min({2, uses[id] + n})
    BY <1>3
  <2>2. uses[id] \in {0, 1}
    BY DEF OnceInv, UsedUp, Inv, TypeOK
  <2>3. CASE n = 1
    <3>1. PICK i \in ok : used[i] = id
      <4>1. times(ok, id) > 0 <=> \E i \in ok : used[i] = id
        BY <1>4
      <4>2. times(ok, id) > 0
        BY <2>3
      <4> QED
        BY <4>1, <4>2
    <3>2. uses[id] = 0
      BY <1>2, <3>1
    <3> QED
      <4>1. uses[id] + n = 1 /\ Min({2, 1}) = 1
        BY <2>3, <3>2, Uncapped
      <4> QED
        BY <2>1, <3>1, <3>2, <4>1
  <2>4. CASE n = 0
    <3>1. uses'[id] = uses[id]
      <4>1. uses[id] + n = uses[id] /\ Min({2, uses[id]}) = uses[id]
        BY <2>2, <2>4, Uncapped
      <4> QED
        BY <2>1, <4>1
    <3> QED
      BY <3>1
  <2> QED
    BY <2>3, <2>4
<1>8. ASSUME NEW id \in UploadId PROVE UsedUp(id)'
  <2>1. UsedUp(id)
    BY DEF OnceInv
  <2>2. CASE uses'[id] = uses[id]
    <3>1. \A g \in Handler : Leaving(g, id) => Leaving(g, id)'
      BY <1>1, <1>5 DEF Leaving
    <3> QED
      BY <1>5, <2>1, <2>2, <3>1 DEF UsedUp
  <2>3. CASE uses'[id] # uses[id]
    <3>1. PICK i \in ok : used[i] = id
      BY <1>7, <2>3
    <3>2. owner[id] # None /\ Leaving(h, id)'
      BY <1>1, <1>5, <1>6, <3>1, NoUploadAssumption DEF Leaving, Holds
    <3> QED
      BY <1>5, <1>7, <2>3, <3>2 DEF UsedUp
  <2> QED
    BY <2>2, <2>3
<1>9. ASSUME NEW g \in Handler PROVE Unused(job'[g], uses')
  <2>1. CASE g = h
    BY <1>5, <1>6, <2>1 DEF Unused
  <2>2. CASE g # h
    <3>1. job'[g] = job[g] /\ Unused(job[g], uses)
      BY <1>5, <2>2 DEF OnceInv
    <3>2. ASSUME job[g].step \in {"load", "sent"}, NEW i \in DOMAIN job[g].used
          PROVE  uses'[job[g].used[i]] = 0
      <4>1. job[g].used[i] \in UploadId
        BY <3>2, JobShape DEF Inv, TypeOK
      <4>2. ~Holds(used, job[g].used[i])
        <5>1. Holds(used, job[g].used[i]) => Names(h, job[g].used[i])
          BY <1>1 DEF Names, Reading
        <5>2. Names(g, job[g].used[i])
          BY <3>2 DEF Names, Reading, Holds
        <5> QED
          BY <2>2, <4>1, <5>1, <5>2 DEF Apart
      <4> QED
        BY <1>7, <3>1, <3>2, <4>1, <4>2 DEF Unused, Holds
    <3> QED
      BY <3>1, <3>2 DEF Unused
  <2> QED
    BY <2>1, <2>2
<1> QED
  BY <1>8, <1>9 DEF OnceInv

(* After a good answer the files are removed, one after the other.         *)
LEMMA CleaningOnce ==
  ASSUME Inv, OnceInv, NEW h \in Handler, AnswerGood(h) \/ CleanOne(h)
  PROVE  OnceInv'
<1> DEFINE used == job[h].used
           user == job[h].owner
           id == Head(used)
<1>1. /\ job[h].step \in {"stored", "clean"} /\ used \in Seq(UploadId) /\ used # <<>>
      /\ user \in User /\ \A i \in DOMAIN used : owner[used[i]] = user
  BY JobShape DEF AnswerGood, CleansUp, CleanOne, At, Inv, TypeOK, JobOK, Reading
<1>2. CASE AnswerGood(h)
  <2> DEFINE j == [step |-> "clean", owner |-> user, used |-> used]
  <2>1. Become(h, j) /\ UNCHANGED <<items, owner, uses>>
    BY <1>2 DEF AnswerGood, history
  <2>2. j.step = "clean" /\ j.used = used
    OBVIOUS
  <2> HIDE DEF j
  <2>3. Unused(j, uses)
    BY <2>2 DEF Unused
  <2> QED
    BY <2>1, <2>2, <2>3, OnceStep DEF Leaving
<1>3. CASE CleanOne(h)
  <2> DEFINE rest == [step |-> "clean", owner |-> user, used |-> Tail(used)]
             j == IF Len(used) = 1 THEN Idle ELSE rest
  <2>1. Become(h, j) /\ items' = Without(user, id) /\ UNCHANGED <<owner, uses>>
    BY <1>3 DEF CleanOne
  <2>2. id \in UploadId /\ id = used[1] /\ 1 \in DOMAIN used
    BY <1>1, Ends
  <2>3. Shrunk /\ items'[id] = None
    BY <1>1, <2>1, <2>2, WithoutShrinks
  <2>4. Len(used) = 1 => \A i \in DOMAIN used : used[i] = id
    BY <1>1, <2>2
  <2>5. Len(used) # 1 => \A i \in DOMAIN used : i = 1 \/ (i - 1 \in DOMAIN Tail(used) /\ Tail(used)[i - 1] = used[i])
    BY <1>1
  <2>6. ASSUME NEW x \in UploadId, Holds(used, x), x # id
        PROVE  j.step = "clean" /\ Holds(j.used, x)
    BY <2>2, <2>4, <2>5, <2>6 DEF Holds
  <2>7. j.step \notin {"load", "sent"}
    BY DEF Idle
  <2> HIDE DEF j
  <2>8. Unused(j, uses)
    BY <2>7 DEF Unused
  <2>9. \A x \in UploadId : Leaving(h, x) /\ items'[x] # None =>
          j.step \in {"stored", "clean"} /\ Holds(j.used, x)
    BY <2>3, <2>6 DEF Leaving
  <2> QED
    BY <2>1, <2>3, <2>8, <2>9, OnceStep DEF Shrunk, Fewer
<1> QED
  BY <1>2, <1>3

(* A post adds files that are new, and other steps of it only take away.   *)
LEMMA PostingOnce ==
  ASSUME Inv, OnceInv, NEW h \in Handler,
         \/ \E user \in User, files \in Posts : PostStart(h, user, files)
         \/ \E id \in UploadId : PutFile(h, id)
         \/ PutRefused(h) \/ UndoOne(h) \/ UndoDone(h) \/ PostAnswered(h)
  PROVE  OnceInv'
<1>1. CASE \E id \in UploadId : PutFile(h, id)
  <2> PICK id \in UploadId : PutFile(h, id)
    BY <1>1
  <2> DEFINE j == [step |-> "post", owner |-> job[h].owner, files |-> Tail(job[h].files),
                   put |-> Append(job[h].put, id)]
             new == [owner |-> job[h].owner, size |-> Head(job[h].files), left |-> UploadTTL + 1]
  <2>1. /\ Become(h, j) /\ UNCHANGED uses /\ job[h].step = "post" /\ owner[id] = None
        /\ owner' = [owner EXCEPT ![id] = job[h].owner] /\ items' = [Swept EXCEPT ![id] = new]
    BY DEF PutFile, At
  <2>2. job[h].owner # None
    BY <2>1, JobShape, NoUploadAssumption DEF Inv, TypeOK
  <2>3. j.step = "post"
    OBVIOUS
  <2> HIDE DEF j, new
  <2>4. \A x \in UploadId : owner[x] # None => owner'[x] # None
    BY <2>1, <2>2 DEF Inv, TypeOK
  <2>5. uses[id] = 0
    BY <2>1 DEF OnceInv, UsedUp
  <2>6. \A x \in UploadId : uses[x] # 0 /\ items'[x] # None => items[x] # None
    BY <2>1, <2>5, SweptShrinks DEF Swept
  <2> QED
    BY <2>1, <2>3, <2>4, <2>6, OnceElsewhere
<1>2. ASSUME NEW j, Become(h, j), j.step \notin {"load", "sent"},
             job[h].step \in {"idle", "post", "undo", "refused"}, Shrunk, UNCHANGED history
      PROVE  OnceInv'
  BY <1>2, OnceElsewhere DEF Shrunk, Fewer, history
<1>3. ASSUME NEW user \in User, NEW files \in Posts, PostStart(h, user, files)
      PROVE  OnceInv'
  <2> DEFINE j == [step |-> "post", owner |-> user, files |-> files, put |-> <<>>]
  <2>1. Become(h, j) /\ job[h].step = "idle" /\ UNCHANGED <<items, history>>
    BY <1>3 DEF PostStart, Idle
  <2>2. j.step = "post"
    OBVIOUS
  <2> HIDE DEF j
  <2> QED
    BY <1>2, <2>1, <2>2, SameShrinks
<1>4. ASSUME PutRefused(h) PROVE OnceInv'
  <2> DEFINE j == IF job[h].put = <<>> THEN Idle
                  ELSE [step |-> "undo", owner |-> job[h].owner, put |-> job[h].put,
                        undo |-> Undoing(job[h].put)]
  <2>1. Become(h, j) /\ job[h].step = "post" /\ items' = Swept /\ UNCHANGED history
    BY <1>4 DEF PutRefused, At
  <2>2. j.step \in {"idle", "undo"}
    BY DEF Idle
  <2> HIDE DEF j
  <2> QED
    BY <1>2, <2>1, <2>2, SweptShrinks
<1>5. ASSUME UndoOne(h) PROVE OnceInv'
  <2> DEFINE j == [step |-> "undo", owner |-> job[h].owner, put |-> job[h].put,
                   undo |-> Tail(job[h].undo)]
  <2>1. /\ Become(h, j) /\ job[h].step = "undo" /\ UNCHANGED history
        /\ job[h].undo # <<>> /\ items' = Without(job[h].owner, Head(job[h].undo))
    BY <1>5 DEF UndoOne, At
  <2>2. job[h].owner \in User /\ Head(job[h].undo) \in UploadId
    <3>1. job[h].owner \in User /\ job[h].undo \in Seq(UploadId)
      BY <2>1, JobShape DEF Inv, TypeOK
    <3> QED
      BY <2>1, <3>1
  <2>3. j.step = "undo"
    OBVIOUS
  <2> HIDE DEF j
  <2> QED
    BY <1>2, <2>1, <2>2, <2>3, WithoutShrinks
<1>6. ASSUME UndoDone(h) PROVE OnceInv'
  <2> DEFINE j == [step |-> "refused", owner |-> job[h].owner, put |-> job[h].put, undo |-> <<>>]
  <2>1. Become(h, j) /\ job[h].step = "undo" /\ UNCHANGED <<items, history>>
    BY <1>6 DEF UndoDone, At
  <2>2. j.step = "refused"
    OBVIOUS
  <2> HIDE DEF j
  <2> QED
    BY <1>2, <2>1, <2>2, SameShrinks
<1>7. ASSUME PostAnswered(h) PROVE OnceInv'
  <2>1. Become(h, Idle) /\ job[h].step \in {"post", "refused"} /\ UNCHANGED <<items, history>>
    BY <1>7 DEF PostAnswered, At
  <2>2. Idle.step = "idle"
    BY DEF Idle
  <2> QED
    BY <1>2, <2>1, <2>2, SameShrinks
<1> QED
  BY <1>1, <1>3, <1>4, <1>5, <1>6, <1>7

(* Each step keeps it, unless a request gives up what FreeScout stored.    *)
LEMMA NextOnce ==
  ASSUME Inv, Apart, OnceInv, [Next]_vars, [~\E h \in Handler : At(h, "stored") /\ GiveUp(h)]_vars
  PROVE  OnceInv'
<1>1. ASSUME UNCHANGED <<job, history>>, Shrunk PROVE OnceInv'
  BY <1>1 DEF OnceInv, UsedUp, Leaving, Unused, Shrunk, Fewer, history
<1>2. ASSUME UNCHANGED vars PROVE OnceInv'
  BY <1>1, <1>2, SameShrinks DEF vars
<1>3. ASSUME NEW h \in Handler, GiveUp(h) PROVE OnceInv'
  <2>1. CASE UNCHANGED vars
    BY <1>2, <2>1
  <2>2. CASE ~UNCHANGED vars
    <3>1. /\ Become(h, Idle) /\ UNCHANGED <<items, history>>
          /\ job[h].step \in {"load", "sent"} /\ Idle.step = "idle"
      BY <1>3, <2>2 DEF GiveUp, At, Idle
    <3> QED
      BY <3>1, OnceElsewhere DEF history
  <2> QED
    BY <2>1, <2>2
<1>4. ASSUME NEW h \in Handler, NEW user \in User, NEW want \in Wants, UseStart(h, user, want)
      PROVE  OnceInv'
  <2> DEFINE j == [step |-> "load", owner |-> user, want |-> want, used |-> <<>>]
  <2>1. Become(h, j) /\ UNCHANGED <<items, history>> /\ job[h].step = "idle"
    BY <1>4 DEF UseStart, Idle
  <2>2. Unused(j, uses)
    BY DEF Unused, Apart, IsInjective
  <2> HIDE DEF j
  <2>3. \A id \in UploadId : ~Leaving(h, id)
    BY <2>1 DEF Leaving
  <2> QED
    BY <2>1, <2>2, <2>3, OnceStep DEF history
<1>5. ASSUME (\E user \in User, id \in UploadId : DeleteUpload(user, id)) \/ Sweep \/ Tick
      PROVE  OnceInv'
  <2>1. UNCHANGED <<job, history>>
    BY <1>5 DEF DeleteUpload, Sweep, Tick
  <2>2. CASE \E user \in User, id \in UploadId : DeleteUpload(user, id)
    BY <1>1, <2>1, <2>2, WithoutShrinks DEF DeleteUpload
  <2>3. CASE Sweep
    BY <1>1, <2>1, <2>3, SweptShrinks DEF Sweep
  <2>4. CASE Tick
    BY <1>1, <2>1, <2>4 DEF Tick, Shrunk, Fewer, Inv, TypeOK
  <2> QED
    BY <1>5, <2>2, <2>3, <2>4
<1>6. ASSUME Restart PROVE OnceInv'
  BY <1>6 DEF Restart, OnceInv, UsedUp, Unused, Idle, history
<1>7. ASSUME NEW h \in Handler,
             \/ \E user \in User, files \in Posts : PostStart(h, user, files)
             \/ \E id \in UploadId : PutFile(h, id)
             \/ PutRefused(h) \/ UndoOne(h) \/ UndoDone(h) \/ PostAnswered(h)
      PROVE  OnceInv'
  BY <1>7, PostingOnce
<1>8. ASSUME NEW h \in Handler, ReadOne(h) PROVE OnceInv'
  BY <1>8, ReadOneOnce
<1>9. ASSUME NEW h \in Handler, FreeScoutStores(h) PROVE OnceInv'
  BY <1>9, FreeScoutStoresOnce
<1>10. ASSUME NEW h \in Handler, AnswerGood(h) \/ CleanOne(h) PROVE OnceInv'
  BY <1>10, CleaningOnce
<1> QED
  BY <1>2, <1>3, <1>4, <1>5, <1>6, <1>7, <1>8, <1>9, <1>10 DEF Next

(* As long as calls name different uploads, each of them once, and hear    *)
(* what FreeScout stored for them, every upload is used once at most       *)
(* (uploads.go:113), also with restarts, and with calls that fail before   *)
(* FreeScout has them.                                                     *)
THEOREM SingleUse == Spec /\ []Apart /\ AnswersArrive => []UsedOnce
<1>1. Init => OnceInv
  BY DEF Init, OnceInv, UsedUp, Unused, Idle
<1>2. OnceInv => UsedOnce
  BY DEF OnceInv, UsedUp, UsedOnce
<1> QED
  BY <1>1, <1>2, NextOnce, Invariance, PTL DEF Spec, AnswersArrive
==============================================================================
