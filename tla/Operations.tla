------------------------------ MODULE Operations ------------------------------
(***************************************************************************)
(* One call of the connector from its arrival to its answer: the two front *)
(* ends (src/server/rest.go, tools.go), the operations behind both         *)
(* (ops.go) with their attachments (drafts.go), the bridge client          *)
(* (bridge.go), and FreeScout's bridge as far as it decides what a call    *)
(* comes to (modules/Mcp).                                                 *)
(*                                                                         *)
(* A handler gives way to others while it downloads a file, between two    *)
(* files, while it waits for FreeScout, and between two uploads it         *)
(* removes.  It stops waiting after 20 seconds; FreeScout goes on.         *)
(*                                                                         *)
(* An argument is what the code looks at in it: an id is itself (0 for     *)
(* none), a text or a flag is 0 or 1, a list is its length, and Bad is a   *)
(* value of another JSON type.                                             *)
(***************************************************************************)
EXTENDS Integers, Sequences, FiniteSets, Functions

CONSTANTS
  Call,                 \* one id per call
  Input,                \* what calls are made with
  UploadId,
  Stored,               \* the files the caller has uploaded before: id -> file
  Shortened,            \* names that are paths -> what is left of them, perhaps ""
  MaxFiles, MaxBytes,   \* maxDraftAttachments, maxDraftAttachmentBytes
  None

Bad == -1

(* The arguments an operation insists on.                                  *)
Required == [
  list_mailboxes |-> {}, search_conversations |-> {}, get_conversation |-> {"id"},
  get_attachment |-> {"id"}, find_customers |-> {"query"},
  add_note |-> {"id", "body"}, set_status |-> {"id", "status"}, assign_conversation |-> {"id"},
  move_conversation |-> {"id", "mailbox_id"}, merge_conversations |-> {"id", "merge_ids"},
  create_draft |-> {"id", "body"}, create_new_draft |-> {"mailbox_id", "to", "subject", "body"},
  update_draft |-> {"draft_id"}, reply_to_conversation |-> {"id", "body"},
  send_draft |-> {"draft_id"}, forward_conversation |-> {"id", "to"}, delete_draft |-> {"draft_id"}]

Op == DOMAIN Required
Attaching == {"create_draft", "create_new_draft", "update_draft", "reply_to_conversation",
              "forward_conversation"}

File == [name : STRING, data : STRING, size : Nat]
Item == [name : STRING, given : SUBSET {"upload", "data", "url"}, data : STRING,
         size : Nat \cup {Bad}, upload : UploadId \cup {None}]

ASSUME OperationsAssumption ==
  /\ MaxFiles \in Nat /\ MaxBytes \in Nat
  /\ Stored \in [UploadId -> File]
  /\ \A name \in DOMAIN Shortened : Shortened[name] \in STRING
  /\ \A in \in Input :
       /\ in.front \in {"tool", "rest"} /\ in.op \in STRING /\ in.path \in Nat
       /\ in.front = "rest" => in.op \in Op
       /\ in.files \in Seq(File) /\ in.items \in Seq(Item)

VARIABLES
  call,      \* what the handler of a call is doing
  posted,    \* the request it made of the bridge
  worker,    \* what FreeScout is doing about that request
  done,      \* how much of the call FreeScout has done
  kept,      \* which of its files FreeScout has stored, by position
  store,     \* the caller's uploads that are still there
  told       \* what the caller has been told

vars == <<call, posted, worker, done, kept, store, told>>

Idle == [step |-> "idle", in |-> None, files |-> <<>>, items |-> <<>>, used |-> <<>>]

Init ==
  /\ call = [c \in Call |-> Idle]
  /\ posted = [c \in Call |-> None]
  /\ worker = [c \in Call |-> [step |-> "none", answer |-> "none"]]
  /\ done = [c \in Call |-> "none"]
  /\ kept = [c \in Call |-> {}]
  /\ store = UploadId
  /\ told = [c \in Call |-> "nothing"]

-----------------------------------------------------------------------------
(* The front ends.                                                         *)

Over(f, g) == [k \in DOMAIN f \cup DOMAIN g |-> IF k \in DOMAIN f THEN f[k] ELSE g[k]]

IdLists == {"merge_ids", "remove_attachment_ids"}
Lists == IdLists \cup {"to", "cc", "bcc"}

(* A field of a form that comes once is a number, a flag or a text, one    *)
(* that is repeated is a list.  (A list written as JSON also is one; that  *)
(* is what a body gives, too.)                                             *)
CoerceField(key, values) ==
  IF Len(values) = 1
    THEN IF key \in IdLists THEN Bad ELSE values[1]
    ELSE IF key \in Lists THEN Len(values) ELSE Bad

Coerced(fields) == [key \in DOMAIN fields |-> CoerceField(key, fields[key])]

(* The routes with an {id} are those of the operations on one thing.       *)
PathParam(op) == Required[op] \cap {"id", "draft_id"}

(* A GET has no body.                                                      *)
Reading == {"list_mailboxes", "search_conversations", "get_conversation", "get_attachment",
            "find_customers"}

RequestArgs(in) ==
  IF in.op \in Reading THEN Coerced(in.query)
  ELSE Over(Coerced(in.form), Over(in.body, Coerced(in.query)))

Args_BodyWins(in) ==                       \* mutant: the body is put over the path
  IF in.front = "tool" THEN in.body
  ELSE Over(RequestArgs(in), [k \in PathParam(in.op) |-> in.path])

Args(in) ==
  IF in.front = "tool" THEN in.body
  ELSE Over([k \in PathParam(in.op) |-> in.path], RequestArgs(in))

(* Go's decoder takes any spelling of a key and sees them in byte order,   *)
(* so the one in small letters comes last and counts.                      *)
OtherCase == [id |-> "ID", draft_id |-> "DRAFT_ID"]

Value(args, key) ==
  IF key \in DOMAIN args THEN args[key]
  ELSE IF key \in DOMAIN OtherCase /\ OtherCase[key] \in DOMAIN args THEN args[OtherCase[key]]
  ELSE 0

Bytes(files) == SumFunction([i \in DOMAIN files |-> files[i].size])

-----------------------------------------------------------------------------
(* What operation passes on: update_draft only what was given, so that the *)
(* bridge can tell "leave it" from "empty it"; a status only when there is *)
(* one; the files of a forwarded conversation unless the caller says no.   *)
Changeable == {"body", "subject", "to", "cc", "bcc"}

PayloadKeys == [op \in Op |->
  CASE op = "add_note" -> {"body"}
    [] op = "set_status" -> {"status"}
    [] op = "assign_conversation" -> {"assignee_email"}
    [] op = "move_conversation" -> {"mailbox_id"}
    [] op = "merge_conversations" -> {"merge_ids"}
    [] op = "create_draft" -> {"body", "cc", "bcc"}
    [] op = "create_new_draft" -> {"mailbox_id"} \cup Changeable
    [] op = "reply_to_conversation" -> {"body", "cc", "bcc", "status"}
    [] op = "send_draft" -> {"status"}
    [] op = "forward_conversation" -> {"to", "cc", "bcc", "body", "send", "include_attachments"}
    [] OTHER -> {}]

Payload(op, args) ==
  IF op = "update_draft"
    THEN [k \in ((DOMAIN args) \cap Changeable)
                  \cup {k \in {"remove_attachment_ids"} : Value(args, k) > 0} |-> args[k]]
    ELSE [k \in PayloadKeys[op] \ {k \in {"status"} : Value(args, k) = 0} |->
            IF k = "include_attachments" /\ k \notin DOMAIN args THEN 1 ELSE Value(args, k)]

InputError(in) ==
  LET args == Args(in)
      attached == Len(in.files) + Len(in.items) > 0
  IN \/ in.op \notin Op
     \/ \E k \in DOMAIN args : args[k] = Bad
     \/ \E k \in Required[in.op] : Value(args, k) = 0
     \/ /\ in.op = "update_draft"
        /\ \/ "body" \in DOMAIN args /\ args.body = 0
           \/ DOMAIN Payload(in.op, args) = {} /\ ~attached
     \/ /\ in.op = "forward_conversation"
        /\ Value(args, "send") = 1
        /\ Value(args, "to") # 1 \/ attached

(* The path under /mcp-bridge, and the method of BridgeController there.   *)
Path_Neighbour(op) ==                      \* mutant: a draft goes to the path of a reply
  CASE op = "create_draft" -> "conversations/{id}/reply"
    [] op = "create_new_draft" -> "drafts"
    [] op = "merge_conversations" -> "conversations/{id}/merge"
    [] op = "update_draft" -> "drafts/{id}"
    [] OTHER -> "read"

Path(op) ==
  CASE op = "add_note" -> "conversations/{id}/note"
    [] op = "set_status" -> "conversations/{id}/status"
    [] op = "assign_conversation" -> "conversations/{id}/assign"
    [] op = "move_conversation" -> "conversations/{id}/move"
    [] op = "merge_conversations" -> "conversations/{id}/merge"
    [] op = "create_draft" -> "conversations/{id}/draft"
    [] op = "create_new_draft" -> "drafts"
    [] op = "update_draft" -> "drafts/{id}"
    [] op = "reply_to_conversation" -> "conversations/{id}/reply"
    [] op = "send_draft" -> "drafts/{id}/send"
    [] op = "forward_conversation" -> "conversations/{id}/forward"
    [] op = "delete_draft" -> "drafts/{id}/delete"
    [] OTHER -> "read"

-----------------------------------------------------------------------------
(* The handler.  Everything up to the first file to be fetched is one      *)
(* step, and so is every file.                                             *)

Tell(c, answer) ==
  /\ call' = [call EXCEPT ![c].step = "over"]
  /\ told' = [told EXCEPT ![c] = answer]

(* What the caller is told of a call that did not go well: writeOpResult   *)
(* keeps the status of a refusal (4xx) and answers 502 otherwise, also to  *)
(* FreeScout's 401, since a 401 of the API is about its own tokens; to a   *)
(* tool everything is isError, and the rest is wording.                    *)
Failure_AllRefused(front, answer) ==       \* mutant: whatever FreeScout says is a refusal
  IF front = "rest" THEN "refused" ELSE "failed"

Failure_Unauthorized(front, answer) ==     \* mutant: a 401 of FreeScout's is passed on
  IF front = "rest" /\ answer # "broken" THEN answer ELSE "failed"

Failure(front, answer) == IF front = "rest" /\ answer = "refused" THEN "refused" ELSE "failed"

Refused(in) ==
  \/ Bytes(in.files) > MaxBytes                                          \* 413
  \/ in.front = "rest" /\ PathParam(in.op) # {} /\ in.path = 0           \* 404
  \/ InputError(in)
  \/ /\ in.op \in Attaching
     /\ \/ Len(in.files) + Len(in.items) > MaxFiles
        \/ \E i \in DOMAIN in.files : in.files[i].size = 0

Receive(c, in) ==
  /\ call[c].step = "idle"
  /\ IF Refused(in)
       THEN /\ call' = [call EXCEPT ![c].step = "over", ![c].in = in]
            /\ told' = [told EXCEPT ![c] = Failure(in.front, "refused")]
       ELSE /\ call' = [call EXCEPT ![c].step = "loading", ![c].in = in,
                 ![c].files = IF in.op \in Attaching THEN in.files ELSE <<>>,
                 ![c].items = IF in.op \in Attaching THEN in.items ELSE <<>>]
            /\ UNCHANGED told
  /\ UNCHANGED <<posted, worker, done, kept, store>>

WellNamed(item) ==
  /\ item.name # "" \/ "upload" \in item.given
  /\ Cardinality(item.given) = 1

NameOf(item) ==
  IF item.name = "" /\ "upload" \in item.given THEN Stored[item.upload].name ELSE item.name

Room_Each(files) == MaxBytes               \* mutant: the limit is one of each file

Room(files) == MaxBytes - Bytes(files)

(* What an item can turn out to be: nothing when it cannot be had.         *)
Fetched(item) ==
  IF ~WellNamed(item) THEN {}
  ELSE IF "upload" \in item.given
    THEN {[name |-> NameOf(item), data |-> Stored[id].data, size |-> Stored[id].size]
            : id \in {item.upload} \cap store}
  ELSE {[name |-> item.name, data |-> item.data, size |-> n]
          : n \in IF "url" \in item.given THEN 0..MaxBytes ELSE {item.size} \ {Bad}}

LoadItem(c) ==
  LET item == Head(call[c].items)
      fits == {f \in Fetched(item) : f.size \in 1..Room(call[c].files)}
  IN /\ call[c].step = "loading"
     /\ call[c].items # <<>>
     /\ \/ \E f \in fits :
             /\ call' = [call EXCEPT ![c].files = Append(@, f), ![c].items = Tail(@),
                  ![c].used = IF item.given = {"upload"} THEN Append(@, item.upload) ELSE @]
             /\ UNCHANGED told
        \/ /\ fits = {} \/ "url" \in item.given
           /\ Tell(c, Failure(call[c].in.front, "refused"))
     /\ UNCHANGED <<posted, worker, done, kept, store>>

Meta_Reversed(files) ==                    \* mutant: the names come in another order
  [i \in DOMAIN files |-> files[Len(files) - i + 1].name]

Meta(files) == [i \in DOMAIN files |-> files[i].name]

Target(op, args) ==
  IF PathParam(op) = {} THEN 0 ELSE Value(args, CHOOSE k \in PathParam(op) : TRUE)

Post(c) ==
  LET in == call[c].in
      files == call[c].files
  IN /\ call[c].step = "loading"
     /\ call[c].items = <<>>
     /\ call' = [call EXCEPT ![c].step = "waiting"]
     /\ posted' = [posted EXCEPT ![c] =
          [path |-> Path(in.op), on |-> Target(in.op, Args(in)), payload |-> Payload(in.op, Args(in)),
           names |-> Meta(files), files |-> files]]
     /\ worker' = [worker EXCEPT ![c].step = "arrived"]
     /\ UNCHANGED <<done, kept, store, told>>

AnswerArrives(c) ==
  /\ call[c].step = "waiting"
  /\ worker[c].step = "answered"
  /\ IF worker[c].answer = "ok"
       THEN call' = [call EXCEPT ![c].step = "cleaning"] /\ UNCHANGED told
       ELSE Tell(c, Failure(call[c].in.front, worker[c].answer))
  /\ UNCHANGED <<posted, worker, done, kept, store>>

(* After 20 seconds, or when there is no connection.                       *)
NoAnswer(c) ==
  /\ call[c].step = "waiting"
  /\ Tell(c, "failed")
  /\ UNCHANGED <<posted, worker, done, kept, store>>

(* The uploads it used go one by one, then the caller is answered.         *)
Clean(c) ==
  /\ call[c].step = "cleaning"
  /\ IF call[c].used = <<>>
       THEN Tell(c, "ok") /\ UNCHANGED store
       ELSE /\ call' = [call EXCEPT ![c].used = Tail(@)]
            /\ store' = store \ {Head(call[c].used)}
            /\ UNCHANGED told
  /\ UNCHANGED <<posted, worker, done, kept>>

-----------------------------------------------------------------------------
(* FreeScout.                                                              *)

(* The last segment of a path; of "." or "..", nothing.                    *)
FileName(name) == IF name \in DOMAIN Shortened THEN Shortened[name] ELSE name

WithinLimits(p) ==
  /\ Len(p.names) = Len(p.files)
  /\ Len(p.files) <= MaxFiles
  /\ \A i \in DOMAIN p.files : p.files[i].size > 0
  /\ Bytes(p.files) <= MaxBytes

AcceptsFiles(p) == WithinLimits(p) /\ \A i \in DOMAIN p.names : FileName(p.names[i]) # ""

StoredFiles(p, some) == [i \in some |-> <<FileName(p.names[i]), p.files[i].data>>]

Mails(p) ==
  \/ p.path \in {"conversations/{id}/reply", "drafts/{id}/send"}
  \/ p.path = "conversations/{id}/forward" /\ p.payload.send = 1

Answers(c, answer) == worker' = [worker EXCEPT ![c] = [step |-> "answered", answer |-> answer]]

Undecided_Midway(c) ==                     \* mutant: merge looks at each conversation in its turn
  worker[c].step \in {"arrived", "working"}

Undecided(c) == worker[c].step = "arrived"

Refuses(c) ==
  /\ Undecided(c)
  /\ Answers(c, "refused") \/ Answers(c, "unauthorized")
  /\ UNCHANGED <<call, posted, done, kept, store, told>>

(* What is not one transaction: a merge takes over one conversation after  *)
(* the other, the others write several rows, and the files an update       *)
(* removes leave the disk before it is committed.                          *)
InParts(p) ==
  \/ p.path \in {"conversations/{id}/note", "conversations/{id}/status", "conversations/{id}/assign",
                 "conversations/{id}/move", "conversations/{id}/merge", "drafts/{id}/delete"}
  \/ p.path = "conversations/{id}/forward" /\ p.payload.send = 1
  \/ p.path = "drafts/{id}" /\ "remove_attachment_ids" \in DOMAIN p.payload

(* storeAttachments logs a file that cannot be stored and goes on.  How    *)
(* many parts there are is left open.                                      *)
Perform(c) ==
  LET files == DOMAIN posted[c].files
  IN /\ worker[c].step \in {"arrived", "working"}
     /\ AcceptsFiles(posted[c])
     /\ \/ \E some \in SUBSET files :
             /\ worker' = [worker EXCEPT ![c].step = "done"]
             /\ done' = [done EXCEPT ![c] = IF some = files THEN "all" ELSE "short"]
             /\ kept' = [kept EXCEPT ![c] = some]
        \/ /\ InParts(posted[c])
           /\ worker' = [worker EXCEPT ![c].step = "working"]
           /\ done' = [done EXCEPT ![c] = "part"]
           /\ UNCHANGED kept
     /\ UNCHANGED <<call, posted, store, told>>

Succeeds(c) ==
  /\ worker[c].step = "done"
  /\ Answers(c, "ok")
  /\ UNCHANGED <<call, posted, done, kept, store, told>>

(* The worker dies, its answer is cut off, or an event handler throws      *)
(* after the commit; an attachment may be answered that is of no use.      *)
Breaks(c) ==
  /\ worker[c].step \in {"arrived", "working", "done"}
  /\ Answers(c, "broken")
  /\ UNCHANGED <<call, posted, done, kept, store, told>>

-----------------------------------------------------------------------------
(* Around them.                                                            *)

(* Another call uses or deletes an upload, or it expires.                  *)
UploadGoes(id) ==
  /\ id \in store
  /\ store' = store \ {id}
  /\ UNCHANGED <<call, posted, worker, done, kept, told>>

Running(c) == call[c].step \notin {"idle", "over"}

(* Uploads live in memory, FreeScout in another pod.                       *)
Restart ==
  /\ call' = [c \in Call |-> IF Running(c) THEN [call[c] EXCEPT !.step = "over"] ELSE call[c]]
  /\ told' = [c \in Call |-> IF Running(c) THEN "failed" ELSE told[c]]
  /\ store' = {}
  /\ UNCHANGED <<posted, worker, done, kept>>

Hears_Forever(c) == AnswerArrives(c)       \* mutant: a client without a timeout

Hears(c) == AnswerArrives(c) \/ NoAnswer(c)

Handles(c) == LoadItem(c) \/ Post(c) \/ Hears(c) \/ Clean(c)

Steps ==
  \/ \E c \in Call :
       \/ \E in \in Input : Receive(c, in)
       \/ LoadItem(c) \/ Post(c) \/ Hears(c) \/ Clean(c)
       \/ Refuses(c) \/ Perform(c) \/ Succeeds(c) \/ Breaks(c)
  \/ \E id \in UploadId : UploadGoes(id)

Next == Steps \/ Restart

(* A handler goes on as long as its process lives: a download ends after   *)
(* 60 seconds, a request to the bridge after 20.  Nothing is asked of      *)
(* FreeScout, of callers or of the clock.                                  *)
Fairness == \A c \in Call : WF_vars(Handles(c))

Spec == Init /\ [][Next]_vars /\ Fairness

-----------------------------------------------------------------------------
Handler == [step : {"idle", "loading", "waiting", "cleaning", "over"}, in : Input \cup {None},
            files : Seq(File), items : Seq(Item), used : Seq(UploadId)]
Worker == [step : {"none", "arrived", "working", "done", "answered"},
           answer : {"none", "ok", "refused", "unauthorized", "broken"}]

Amount == {"none", "part", "short", "all"}
Answer == {"nothing", "ok", "refused", "failed"}

(* Every variable has its type.                                            *)
TypeOK ==
  /\ call \in [Call -> Handler]
  /\ DOMAIN posted = Call
  /\ worker \in [Call -> Worker]
  /\ done \in [Call -> Amount]
  /\ DOMAIN kept = Call
  /\ store \subseteq UploadId
  /\ told \in [Call -> Answer]

(* What a caller is told is true, now and later.  After "ok" everything is *)
(* done, but for files that FreeScout could not store ("short": it logs    *)
(* them and says ok, storeAttachments).  After a refusal by the REST API   *)
(* (4xx) nothing is done and nothing will be, whether the arguments, the   *)
(* attachments or FreeScout were the reason, also for what FreeScout does  *)
(* in parts.  "failed" promises nothing; a tool knows no other failure.    *)
AnswerIsTrue ==
  \A c \in Call :
    /\ told[c] = "ok" => done[c] \in {"all", "short"}
    /\ told[c] = "refused" => done[c] = "none" /\ kept[c] = {}

(* No mail leaves but by the operations that say so: what the other tools  *)
(* write waits for a person, whatever else their arguments contain.        *)
Sender(in) ==
  \/ in.op \in {"reply_to_conversation", "send_draft"}
  \/ in.op = "forward_conversation" /\ Value(Args(in), "send") = 1

OnlySenders ==
  \A c \in Call : (done[c] # "none" /\ Mails(posted[c])) => Sender(call[c].in)

(* FreeScout never turns down the number or the size of the attachments    *)
(* that the connector has let through: both sides count the same files,    *)
(* those of a form, of a list, of a URL and of an upload together.         *)
LimitsAgree == \A c \in Call : posted[c] # None => WithinLimits(posted[c])

(* What is stored are files of the caller, each under its own name and in  *)
(* the order the caller gave, though the names travel apart from them; it  *)
(* is all of them unless the call came out short.                          *)
Named(in) ==
  [i \in DOMAIN in.files |-> <<FileName(in.files[i].name), in.files[i].data>>] \o
  [i \in DOMAIN in.items |->
     <<FileName(NameOf(in.items[i])),
       IF in.items[i].given = {"upload"} THEN Stored[in.items[i].upload].data ELSE in.items[i].data>>]

FilesAsNamed ==
  \A c \in Call :
    LET named == IF call[c].in.op \in Attaching THEN Named(call[c].in) ELSE <<>>
    IN /\ kept[c] # {} =>
            /\ kept[c] \subseteq DOMAIN named
            /\ StoredFiles(posted[c], kept[c]) = [i \in kept[c] |-> named[i]]
       /\ done[c] = "all" => kept[c] = DOMAIN named

(* What is done is done to the thing the URL names, whatever the query,    *)
(* the form and the body say about ids and in whichever spelling, and a    *)
(* draft changes in nothing that was not passed.                           *)
AsAsked ==
  \A c \in Call :
    LET in == call[c].in
        passed == DOMAIN in.body \cup DOMAIN in.form \cup DOMAIN in.query
    IN done[c] # "none" =>
         /\ (in.front = "rest" /\ PathParam(in.op) # {}) => posted[c].on = in.path
         /\ in.op = "update_draft" => DOMAIN posted[c].payload \subseteq passed

(* Every call is answered, whatever FreeScout, a download or another call  *)
(* does: a handler never hangs.                                            *)
Answered == \A c \in Call : call[c].step # "idle" ~> told[c] # "nothing"

(* Seen from outside, a call is done and answered as Outcome allows: what  *)
(* FreeScout still does, it does for callers who were told nothing or that *)
(* the call failed.                                                        *)
Promise == INSTANCE Outcome
ImplementsOutcome == Promise!Spec
=============================================================================
