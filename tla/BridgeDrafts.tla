----------------------------- MODULE BridgeDrafts -----------------------------
(***************************************************************************)
(* Drafts and replies in FreeScout, as src/modules/Mcp's BridgeController  *)
(* writes them.  Every request first loads rows and checks them, and only  *)
(* then opens a transaction, without locking the rows: what it commits is  *)
(* decided on what it loaded.  save() writes the attributes that differ    *)
(* from the loaded row, and writes nothing, without an error, when the row *)
(* is gone.  Mail is handed over by an event after the commit.  Requests   *)
(* run concurrently (PHP workers), and beside them people work in          *)
(* FreeScout's own interface.                                              *)
(***************************************************************************)
EXTENDS Integers, FiniteSets

CONSTANTS
  Thread, Conv,   \* row ids; one is given out once
  Existing,       \* the conversations there are at the start
  Request, User, Body, None,
  People,         \* whether people send, edit and discard drafts themselves
  Crashes         \* whether a worker can die in the middle of a request

ThreadRow == [conv : Conv, author : User, kind : {"reply", "forward", "new", "message"},
              state : {"draft", "published"}, body : Body]
ConvRow == [state : {"draft", "published"}, count : Nat]

ASSUME DraftsAssumption ==
  /\ Existing \subseteq Conv
  /\ People \in BOOLEAN /\ Crashes \in BOOLEAN
  /\ None \notin ThreadRow /\ None \notin ConvRow /\ None \notin User

Idle == [step |-> "idle"]
WriteJob == [step : {"create"}, user : User, conv : Conv, body : Body,
             kind : {"reply", "forward", "message"}]
SendJob ==
  [step : {"send"}, user : User, thread : Thread, conv : Conv, was : ConvRow] \cup
  [step : {"event"}, thread : Thread]
UpdateJob == [step : {"update"}, user : User, thread : Thread, row : ThreadRow, body : Body]
DeleteJob ==
  [step : {"delete"}, user : User, thread : Thread, conv : Conv, new : BOOLEAN] \cup
  [step : {"deleting"}, conv : Conv]
Job == {Idle} \cup WriteJob \cup SendJob \cup UpdateJob \cup DeleteJob

VARIABLES
  thread,    \* the threads table
  conv,      \* the conversations table; count is threads_count
  job,       \* the requests being served
  \* history, read by the properties only
  used,      \* the conversation ids given out so far
  author,    \* who wrote a thread
  touched,   \* the users who named a thread to update, delete or send, and had it done
  late,      \* the threads treated as drafts of a user that were not (any more)
  raced,     \* the threads sent while another request was about to send them
  orphans,   \* the draft conversations a worker died over, their threads deleted
  mails      \* how often a thread was handed to the mail queue

history == <<used, author, touched, late, raced, orphans, mails>>
vars == <<thread, conv, job, history>>

Init ==
  /\ thread = [t \in Thread |-> None]
  /\ conv = [c \in Conv |-> IF c \in Existing THEN [state |-> "published", count |-> 0] ELSE None]
  /\ job = [r \in Request |-> Idle]
  /\ used = Existing
  /\ author = [t \in Thread |-> None]
  /\ touched = [t \in Thread |-> {}]
  /\ late = {}
  /\ raced = {}
  /\ orphans = {}
  /\ mails = [t \in Thread |-> 0]

-----------------------------------------------------------------------------
Become(r, j) == job' = [job EXCEPT ![r] = j]
At(r, step) == job[r].step = step

Published(c) == conv[c] # None /\ conv[c].state = "published"

FindOwnDraft_Anyones(user, t) ==           \* mutant: the author is not compared
  thread[t] # None /\ conv[thread[t].conv] # None /\ thread[t].state = "draft"

FindOwnDraft_AnyState(user, t) ==          \* mutant: the state is not looked at
  thread[t] # None /\ conv[thread[t].conv] # None /\ thread[t].author = user

FindOwnDraft(user, t) ==
  /\ thread[t] # None /\ conv[thread[t].conv] # None
  /\ thread[t].state = "draft"
  /\ thread[t].author = user

Row(c, user, kind, state, body) ==
  [conv |-> c, author |-> user, kind |-> kind, state |-> state, body |-> body]

Sent(row) == Row(row.conv, row.author, row.kind, "published", row.body)
Rewritten_WholeRow(loaded, row, body) ==   \* mutant: every loaded attribute is written
  Row(loaded.conv, loaded.author, loaded.kind, loaded.state, body)
(* body is dirty only when it differs from the loaded one.                 *)
Rewritten(loaded, row, body) ==
  IF body = loaded.body THEN row ELSE Row(row.conv, row.author, row.kind, row.state, body)

Insert(t, row) ==
  /\ author[t] = None
  /\ thread' = [thread EXCEPT ![t] = row]
  /\ author' = [author EXCEPT ![t] = row.author]

Touch(user, t) == touched' = [touched EXCEPT ![t] = @ \cup {user}]
(* What a request commits to that is not a draft of its user any more.     *)
Late(user, threads) ==
  late' = late \cup {t \in threads : thread[t] # None
                       /\ (thread[t].state = "published" \/ thread[t].author # user)}

(* Requests among others have found the draft that is now sent, and still  *)
(* mean to send it.                                                        *)
Raced(t, others) ==
  raced' = IF \E r \in others : At(r, "send") /\ job[r].thread = t THEN raced \cup {t} ELSE raced

-----------------------------------------------------------------------------
(* Replies (kind "message"), reply drafts and forward drafts: the          *)
(* conversation must not be a draft.                                       *)
CreateStart(r, user, c, kind, body) ==
  /\ job[r] = Idle
  /\ Published(c)
  /\ Become(r, [step |-> "create", user |-> user, conv |-> c, body |-> body, kind |-> kind])
  /\ UNCHANGED <<thread, conv, history>>

(* A reply is counted by FreeScout's ThreadObserver, which reads the       *)
(* conversation again.                                                     *)
CreateCommit(r, t) ==
  /\ At(r, "create")
  /\ LET j == job[r]
         reply == j.kind = "message"
     IN /\ Insert(t, Row(j.conv, j.user, j.kind, IF reply THEN "published" ELSE "draft", j.body))
        /\ conv' = IF reply /\ conv[j.conv] # None
                     THEN [conv EXCEPT ![j.conv] =
                             [state |-> conv[j.conv].state, count |-> conv[j.conv].count + 1]]
                     ELSE conv
        /\ Become(r, IF reply THEN [step |-> "event", thread |-> t] ELSE Idle)
  /\ UNCHANGED <<used, touched, late, raced, orphans, mails>>

(* A new email: conversation and thread are inserted in one transaction.   *)
CreateNew(t, c, user, body) ==
  /\ c \notin used
  /\ used' = used \cup {c}
  /\ conv' = [conv EXCEPT ![c] = [state |-> "draft", count |-> 0]]
  /\ Insert(t, Row(c, user, "new", "draft", body))
  /\ UNCHANGED <<job, touched, late, raced, orphans, mails>>

-----------------------------------------------------------------------------
SendStart(r, user, t) ==
  /\ job[r] = Idle
  /\ FindOwnDraft(user, t)
  /\ thread[t].kind # "forward"
  /\ Become(r, [step |-> "send", user |-> user, thread |-> t,
                conv |-> thread[t].conv, was |-> conv[thread[t].conv]])
  /\ UNCHANGED <<thread, conv, history>>

Counted_Kept(was, state) ==                \* mutant: a new conversation stays a draft
  [state |-> state, count |-> was.count + 1]

Counted_Down(was, state) ==                \* mutant: the wrong direction
  [state |-> IF was.state = "draft" THEN "published" ELSE state, count |-> was.count - 1]

(* threads_count is what was loaded plus one; the state is written when    *)
(* the conversation was loaded as a draft.                                 *)
Counted(was, state) ==
  [state |-> IF was.state = "draft" THEN "published" ELSE state, count |-> was.count + 1]

SendCommit(r) ==
  /\ At(r, "send")
  /\ LET t == job[r].thread
         c == job[r].conv
     IN /\ thread' = IF thread[t] = None THEN thread
                     ELSE [thread EXCEPT ![t] = Sent(thread[t])]
        /\ conv' = IF conv[c] = None THEN conv
                   ELSE [conv EXCEPT ![c] = Counted(job[r].was, conv[c].state)]
        /\ Touch(job[r].user, t)
        /\ Late(job[r].user, {t})
        /\ Raced(t, Request \ {r})
        /\ Become(r, [step |-> "event", thread |-> t])
  /\ UNCHANGED <<used, author, orphans, mails>>

(* UserReplied or UserCreatedConversation, after the commit.               *)
Announce(r) ==
  /\ At(r, "event")
  /\ mails' = [mails EXCEPT ![job[r].thread] = @ + 1]
  /\ Become(r, Idle)
  /\ UNCHANGED <<thread, conv, used, author, touched, late, raced, orphans>>

-----------------------------------------------------------------------------
UpdateStart(r, user, t, body) ==
  /\ job[r] = Idle
  /\ FindOwnDraft(user, t)
  /\ Become(r, [step |-> "update", user |-> user, thread |-> t, row |-> thread[t], body |-> body])
  /\ UNCHANGED <<thread, conv, history>>

UpdateCommit(r) ==
  /\ At(r, "update")
  /\ LET t == job[r].thread
     IN /\ thread' = IF thread[t] = None THEN thread
                     ELSE [thread EXCEPT ![t] = Rewritten(job[r].row, thread[t], job[r].body)]
        /\ Touch(job[r].user, t)
        /\ Late(job[r].user, {t})
  /\ Become(r, Idle)
  /\ UNCHANGED <<conv, used, author, raced, orphans, mails>>

DeleteStart(r, user, t) ==
  /\ job[r] = Idle
  /\ FindOwnDraft(user, t)
  /\ Become(r, [step |-> "delete", user |-> user, thread |-> t, conv |-> thread[t].conv,
                new |-> conv[thread[t].conv].state = "draft"])
  /\ UNCHANGED <<thread, conv, history>>

(* No transaction: a new-conversation draft loses its threads first.       *)
DeleteThreads(r) ==
  /\ At(r, "delete")
  /\ LET j == job[r]
         gone == IF j.new THEN {t \in Thread : thread[t] # None /\ thread[t].conv = j.conv}
                 ELSE {j.thread}
     IN /\ thread' = [t \in Thread |-> IF t \in gone THEN None ELSE thread[t]]
        /\ Touch(j.user, j.thread)
        /\ Late(j.user, gone)
        /\ Become(r, IF j.new THEN [step |-> "deleting", conv |-> j.conv] ELSE Idle)
  /\ UNCHANGED <<conv, used, author, raced, orphans, mails>>

DeleteConversation_Skipped(r) ==           \* mutant: the conversation stays
  At(r, "deleting") /\ Become(r, Idle) /\ UNCHANGED <<thread, conv, history>>

DeleteConversation(r) ==
  /\ At(r, "deleting")
  /\ conv' = [conv EXCEPT ![job[r].conv] = None]
  /\ Become(r, Idle)
  /\ UNCHANGED <<thread, history>>

-----------------------------------------------------------------------------
(* The transaction is rolled back: nothing was written, the answer is 500. *)
RollBack(r) ==
  /\ job[r].step \in {"create", "send", "update"}
  /\ Become(r, Idle)
  /\ UNCHANGED <<thread, conv, history>>

(* The worker dies.  The client of a request that takes too long hears an  *)
(* error as well, but the request itself goes on.                          *)
Crash(r) ==
  /\ Crashes
  /\ job[r] # Idle
  /\ orphans' = IF At(r, "deleting") THEN orphans \cup {job[r].conv} ELSE orphans
  /\ Become(r, Idle)
  /\ UNCHANGED <<thread, conv, used, author, touched, late, raced, mails>>

(* FreeScout's own interface, each click a request of its own.             *)
PersonSends(t) ==
  /\ People
  /\ thread[t] # None /\ thread[t].state = "draft"
  /\ conv[thread[t].conv] # None
  /\ thread' = [thread EXCEPT ![t] = Sent(thread[t])]
  /\ conv' = [conv EXCEPT ![thread[t].conv] =
       [state |-> "published", count |-> conv[thread[t].conv].count + 1]]
  /\ mails' = [mails EXCEPT ![t] = @ + 1]
  /\ Raced(t, Request)
  /\ UNCHANGED <<job, used, author, touched, late, orphans>>

PersonEdits(t, body) ==
  /\ People
  /\ thread[t] # None /\ thread[t].state = "draft"
  /\ thread' = [thread EXCEPT ![t] = Rewritten(thread[t], thread[t], body)]
  /\ UNCHANGED <<conv, job, history>>

PersonDiscards(t) ==
  /\ People
  /\ thread[t] # None /\ thread[t].state = "draft"
  /\ thread' = [thread EXCEPT ![t] = None]
  /\ conv' = IF conv[thread[t].conv] # None /\ conv[thread[t].conv].state = "draft"
               THEN [conv EXCEPT ![thread[t].conv] = None] ELSE conv
  /\ UNCHANGED <<job, history>>

Next ==
  \/ \E r \in Request :
       \/ \E user \in User, c \in Conv, body \in Body, kind \in {"reply", "forward", "message"} :
            CreateStart(r, user, c, kind, body)
       \/ \E t \in Thread : CreateCommit(r, t)
       \/ \E user \in User, t \in Thread :
            \/ SendStart(r, user, t)
            \/ \E body \in Body : UpdateStart(r, user, t, body)
            \/ DeleteStart(r, user, t)
       \/ SendCommit(r)
       \/ Announce(r)
       \/ UpdateCommit(r)
       \/ DeleteThreads(r)
       \/ DeleteConversation(r)
       \/ RollBack(r)
       \/ Crash(r)
  \/ \E t \in Thread :
       \/ \E c \in Conv, user \in User, body \in Body : CreateNew(t, c, user, body)
       \/ PersonSends(t)
       \/ \E body \in Body : PersonEdits(t, body)
       \/ PersonDiscards(t)

Spec == Init /\ [][Next]_vars

-----------------------------------------------------------------------------
(* Every variable has its type.                                            *)
TypeOK ==
  /\ thread \in [Thread -> ThreadRow \cup {None}]
  /\ conv \in [Conv -> ConvRow \cup {None}]
  /\ job \in [Request -> Job]
  /\ used \subseteq Conv
  /\ author \in [Thread -> User \cup {None}]
  /\ touched \in [Thread -> SUBSET User]
  /\ late \subseteq Thread
  /\ raced \subseteq Thread
  /\ orphans \subseteq Conv
  /\ mails \in [Thread -> Nat]

(* A thread is updated, deleted or sent only for the user who wrote it,    *)
(* whatever happens between the check and the commit (findOwnDraft,        *)
(* BridgeController.php:949-971).                                          *)
OwnDraftsOnly == \A t \in Thread : touched[t] \subseteq {author[t]}

(* No request turns a message that was sent into a draft again, also one   *)
(* that loaded it as a draft before it was sent: save() does not write the *)
(* state it loaded (BridgeController.php:860-880).                         *)
SentStaysSent ==
  [][\A t \in Thread :
       thread[t] # None /\ thread[t].state = "published" /\ thread'[t] # None
         => thread'[t].state = "published"]_vars

(* A new email is sent with its conversation: no conversation that is      *)
(* still a draft holds a message that was sent (BridgeController.php:287-  *)
(* 307, one transaction).                                                  *)
SentTogether ==
  \A t \in Thread :
    thread[t] # None /\ thread[t].state = "published" /\ conv[thread[t].conv] # None
      => conv[thread[t].conv].state = "published"

(* "A new-conversation draft takes its conversation with it"               *)
(* (BridgeController.php:884-885): a draft conversation whose thread is    *)
(* gone is about to be deleted.                                            *)
ConversationGoesToo ==
  \A c \in Conv :
    conv[c] # None /\ conv[c].state = "draft"
      => \/ \E t \in Thread : thread[t] # None /\ thread[t].conv = c
         \/ \E r \in Request : At(r, "deleting") /\ job[r].conv = c
         \/ c \in orphans

(* A draft is sent once: to send it again is refused with "this is not a   *)
(* draft (any more)", also after a crash and on a retry of a call whose    *)
(* answer was lost (BridgeController.php:963-965, e2e_test.go:1225).       *)
SentOnce == \A t \in Thread \ raced : mails[t] <= 1

(* "update_draft and delete_draft only touch drafts the connected user     *)
(* created" (README.md:82), and all three of them refuse a thread that "is *)
(* not a draft (any more), it may have been sent already"                  *)
(* (BridgeController.php:963-965): none changes, removes or sends again a  *)
(* message that has been sent, or touches a thread of somebody else.       *)
OnlyDraftsTouched == late = {}
==============================================================================
