------------------------------- MODULE Uploads -------------------------------
(***************************************************************************)
(* Temporary uploads: the store of src/server/uploads.go, the REST routes  *)
(* that fill and empty it (rest.go), and the drafts, replies and forwards  *)
(* that use its files (withAttachments in ops.go, loadAttachments in       *)
(* drafts.go).  The store is locked for one put, read, remove or sweep at  *)
(* a time, so requests interleave between the files they carry or name.    *)
(* A file and its index entry come and go under the same lock and are one  *)
(* thing here.                                                             *)
(***************************************************************************)
EXTENDS Integers, Sequences, FiniteSets, FiniteSetsExt, Functions

CONSTANTS
  UploadId,       \* random ids; one is drawn once
  Handler,        \* requests served at the same time
  User,
  Posts,          \* file sizes of the POST /uploads requests
  Wants,          \* upload ids named by one draft, reply or forward
  None,
  UploadTTL,      \* in ticks
  MaxUploads, MaxBytes,  \* maxUploadsPerUser, maxUploadBytesUser
  StorageFails    \* whether FreeScout's Attachment::create can fail

ASSUME UploadsAssumption ==
  /\ UploadTTL \in Nat /\ MaxUploads \in Nat /\ MaxBytes \in Nat
  /\ Posts \subseteq Seq(Nat) /\ Wants \subseteq Seq(UploadId) \ {<<>>}
  /\ StorageFails \in BOOLEAN

(* left: the ticks until the clock is after u.Expires.                     *)
Upload == [owner : User, size : Nat, left : 0 .. UploadTTL + 1]

ASSUME NoUploadAssumption == None \notin Upload /\ None \notin User

Idle == [step |-> "idle"]
PostJob ==
  [step : {"post"}, owner : User, files : Seq(Nat), put : Seq(UploadId)] \cup
  [step : {"undo", "refused"}, owner : User, put : Seq(UploadId), undo : Seq(UploadId)]
UseJob ==
  [step : {"load"}, owner : User, want : Seq(UploadId), used : Seq(UploadId)] \cup
  [step : {"sent", "stored", "clean"}, owner : User, used : Seq(UploadId)]
Job == {Idle} \cup PostJob \cup UseJob

VARIABLES
  items,     \* uploadStore.items
  job,       \* what each request is doing
  \* history, read by the properties only
  owner,     \* who uploaded an id
  consumed,  \* the ids removed because they had been used
  attached,  \* the users FreeScout stored the file for
  uses       \* how often it did: 0, 1, or 2 for more than once

history == <<owner, consumed, attached, uses>>
vars == <<items, job, history>>

Init ==
  /\ items = [id \in UploadId |-> None]
  /\ job = [h \in Handler |-> Idle]
  /\ owner = [id \in UploadId |-> None]
  /\ consumed = {}
  /\ attached = [id \in UploadId |-> {}]
  /\ uses = [id \in UploadId |-> 0]

-----------------------------------------------------------------------------
Become(h, j) == job' = [job EXCEPT ![h] = j]
At(h, step) == job[h].step = step

Expired_Late(id) == items[id] # None /\ items[id].left < 0 \* mutant: one tick too late
Expired(id) == items[id] # None /\ items[id].left = 0

Swept == [id \in UploadId |-> IF Expired(id) THEN None ELSE items[id]]

(* Someone else's id looks exactly like an unknown one.                    *)
Owned_Any(m, user, id) == m[id] # None               \* mutant: owner not compared
Owned(m, user, id) == m[id] # None /\ m[id].owner = user

(* remove(owner, id) does not sweep: an expired file that no sweep has met *)
(* yet is removed like any other.                                          *)
Without(user, id) == IF Owned(items, user, id) THEN [items EXCEPT ![id] = None] ELSE items

Mine(m, user) == {id \in UploadId : Owned(m, user, id)}
Bytes(m, user) == SumFunction([id \in Mine(m, user) |-> m[id].size])

OverLimit_Largest(m, user, size) ==                  \* mutant: sizes are not added up
  Cardinality(Mine(m, user)) >= MaxUploads \/ size > MaxBytes

OverLimit(m, user, size) ==
  Cardinality(Mine(m, user)) >= MaxUploads \/ Bytes(m, user) + size > MaxBytes

-----------------------------------------------------------------------------
(* POST /uploads: the files of the form are put one by one.                *)

PostStart(h, user, files) ==
  /\ job[h] = Idle
  /\ Become(h, [step |-> "post", owner |-> user, files |-> files, put |-> <<>>])
  /\ UNCHANGED <<items, history>>

PutFile(h, id) ==
  /\ At(h, "post")
  /\ job[h].files # <<>>
  /\ owner[id] = None
  /\ LET user == job[h].owner
         size == Head(job[h].files)
     IN /\ size > 0
        /\ ~OverLimit(Swept, user, size)
        /\ items' = [Swept EXCEPT ![id] = [owner |-> user, size |-> size, left |-> UploadTTL + 1]]
        /\ owner' = [owner EXCEPT ![id] = user]
        /\ Become(h, [step |-> "post", owner |-> user, files |-> Tail(job[h].files),
                      put |-> Append(job[h].put, id)])
  /\ UNCHANGED <<consumed, attached, uses>>

Undoing_AllButLast(put) == Tail(put)                 \* mutant: one file is forgotten
Undoing(put) == put

(* put fails: over the limit, or the disk does not take the file.          *)
PutRefused(h) ==
  /\ At(h, "post")
  /\ job[h].files # <<>>
  /\ Head(job[h].files) > 0
  /\ items' = Swept
  /\ Become(h, IF job[h].put = <<>> THEN Idle
               ELSE [step |-> "undo", owner |-> job[h].owner, put |-> job[h].put,
                     undo |-> Undoing(job[h].put)])
  /\ UNCHANGED history

UndoOne(h) ==
  /\ At(h, "undo")
  /\ job[h].undo # <<>>
  /\ items' = Without(job[h].owner, Head(job[h].undo))
  /\ Become(h, [step |-> "undo", owner |-> job[h].owner, put |-> job[h].put,
                undo |-> Tail(job[h].undo)])
  /\ UNCHANGED history

UndoDone(h) ==
  /\ At(h, "undo")
  /\ job[h].undo = <<>>
  /\ Become(h, [step |-> "refused", owner |-> job[h].owner, put |-> job[h].put, undo |-> <<>>])
  /\ UNCHANGED <<items, history>>

(* The answer goes out: 201, 429 or 500; or 400, when a file is empty, and *)
(* then the files before it stay although their ids are not told to anyone.*)
PostAnswered(h) ==
  /\ \/ At(h, "refused")
     \/ At(h, "post") /\ job[h].files = <<>>
     \/ At(h, "post") /\ job[h].files # <<>> /\ Head(job[h].files) = 0
  /\ Become(h, Idle)
  /\ UNCHANGED <<items, history>>

DeleteUpload(user, id) ==
  /\ Owned(items, user, id)
  /\ items' = Without(user, id)
  /\ UNCHANGED <<job, history>>

-----------------------------------------------------------------------------
(* A draft, reply or forward with upload ids: every file is read before    *)
(* the bridge is called, and removed after a good answer.                  *)

UseStart(h, user, want) ==
  /\ job[h] = Idle
  /\ Become(h, [step |-> "load", owner |-> user, want |-> want, used |-> <<>>])
  /\ UNCHANGED <<items, history>>

Loaded(j) ==
  LET used == Append(j.used, Head(j.want))
  IN IF Len(j.want) = 1
       THEN [step |-> "sent", owner |-> j.owner, used |-> used]
       ELSE [step |-> "load", owner |-> j.owner, want |-> Tail(j.want), used |-> used]

ReadOne(h) ==
  /\ At(h, "load")
  /\ items' = Swept
  /\ Become(h, IF Owned(Swept, job[h].owner, Head(job[h].want)) THEN Loaded(job[h]) ELSE Idle)
  /\ UNCHANGED history

(* FreeScout writes the draft or the message and stores the files, ok of   *)
(* them: a file it cannot store is logged and left out.  It may get to     *)
(* this although nobody waits for the answer any more.                     *)
FreeScoutStores(h) ==
  /\ At(h, "sent")
  /\ \E ok \in SUBSET (DOMAIN job[h].used) :
       LET times(id) == Cardinality({i \in ok : job[h].used[i] = id})
       IN /\ StorageFails \/ ok = DOMAIN job[h].used
          /\ attached' = [id \in UploadId |->
               IF times(id) > 0 THEN attached[id] \cup {job[h].owner} ELSE attached[id]]
          /\ uses' = [id \in UploadId |-> Min({2, uses[id] + times(id)})]
  /\ Become(h, [step |-> "stored", owner |-> job[h].owner, used |-> job[h].used])
  /\ UNCHANGED <<items, owner, consumed>>

CleansUp_Always(step) == step \in {"sent", "stored"} \* mutant: whatever the answer
CleansUp(step) == step = "stored"

AnswerGood(h) ==
  /\ CleansUp(job[h].step)
  /\ Become(h, [step |-> "clean", owner |-> job[h].owner, used |-> job[h].used])
  /\ UNCHANGED <<items, history>>

CleanOne(h) ==
  /\ At(h, "clean")
  /\ LET id == Head(job[h].used)
     IN /\ items' = Without(job[h].owner, id)
        /\ consumed' = IF Owned(items, job[h].owner, id) THEN consumed \cup {id} ELSE consumed
  /\ Become(h, IF Len(job[h].used) = 1 THEN Idle
               ELSE [step |-> "clean", owner |-> job[h].owner, used |-> Tail(job[h].used)])
  /\ UNCHANGED <<owner, attached, uses>>

(* Another attachment is bad, FreeScout refuses or fails, the answer is    *)
(* late, unreadable or lost.  The uploads stay for another try.            *)
GiveUp(h) ==
  /\ job[h].step \in {"load", "sent", "stored"}
  /\ Become(h, Idle)
  /\ UNCHANGED <<items, history>>

-----------------------------------------------------------------------------
(* The goroutine of main, once a minute.                                   *)
Sweep_Lost == UNCHANGED vars                         \* mutant: the ticker sweeps nothing
Sweep ==
  /\ items' = Swept
  /\ UNCHANGED <<job, history>>

Tick ==
  /\ items' = [id \in UploadId |->
       IF items[id] = None \/ Expired(id) THEN items[id]
       ELSE [owner |-> items[id].owner, size |-> items[id].size, left |-> items[id].left - 1]]
  /\ UNCHANGED <<job, history>>

(* newUploadStore empties the directory.                                   *)
Restart ==
  /\ items' = [id \in UploadId |-> None]
  /\ job' = [h \in Handler |-> Idle]
  /\ UNCHANGED history

Next ==
  \/ \E h \in Handler :
       \/ \E user \in User, files \in Posts : PostStart(h, user, files)
       \/ \E id \in UploadId : PutFile(h, id)
       \/ PutRefused(h)
       \/ UndoOne(h)
       \/ UndoDone(h)
       \/ PostAnswered(h)
       \/ \E user \in User, want \in Wants : UseStart(h, user, want)
       \/ ReadOne(h)
       \/ FreeScoutStores(h)
       \/ AnswerGood(h)
       \/ CleanOne(h)
       \/ GiveUp(h)
  \/ \E user \in User, id \in UploadId : DeleteUpload(user, id)
  \/ Sweep
  \/ Tick
  \/ Restart

(* Time passes, and the sweeping goroutine keeps running.                  *)
Fairness == WF_vars(Tick) /\ WF_vars(Sweep)

Spec == Init /\ [][Next]_vars /\ Fairness

-----------------------------------------------------------------------------
(* Every variable has its type.                                            *)
TypeOK ==
  /\ items \in [UploadId -> Upload \cup {None}]
  /\ job \in [Handler -> Job]
  /\ owner \in [UploadId -> User \cup {None}]
  /\ consumed \subseteq UploadId
  /\ attached \in [UploadId -> SUBSET User]
  /\ uses \in [UploadId -> 0 .. 2]

(* However many requests of a user put files at once, and whatever expires *)
(* or is undone between them, the user never has more than the limits of   *)
(* put allow (uploads.go:66-77).                                           *)
QuotaHeld ==
  \A user \in User :
    /\ Cardinality(Mine(items, user)) <= MaxUploads
    /\ Bytes(items, user) <= MaxBytes

(* FreeScout stores an upload only for the user who sent it, although ids  *)
(* of others may be named, and although the owner may delete the upload    *)
(* between the read and the call (uploads.go:107-120).                     *)
OwnersOnly == \A id \in UploadId : attached[id] \subseteq {owner[id]}

(* When an upload is deleted because it was used, FreeScout has the file:  *)
(* withAttachments "deletes the temporary uploads it used once FreeScout   *)
(* has stored them" (ops.go:254-257).                                      *)
NothingLost == \A id \in consumed : attached[id] # {}

(* A POST that is refused because of a limit or the disk leaves none of    *)
(* its earlier files behind (rest.go:203-207).                             *)
RefusedLeavesNothing ==
  \A h \in Handler :
    At(h, "refused") => \A i \in DOMAIN job[h].put : items[job[h].put[i]] = None

(* Every upload leaves the store, also one whose id nobody was told and    *)
(* one whose call failed (sweep, main.go:70-74).                           *)
Forgotten == \A id \in UploadId : items[id] # None ~> items[id] = None

(* "uploads expire after an hour and can be used once" (uploads.go:113).   *)
UsedOnce == \A id \in UploadId : uses[id] <= 1
==============================================================================
