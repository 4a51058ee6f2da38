-------------------------- MODULE BridgeDraftsProofs --------------------------
(***************************************************************************)
(* For any number of requests, users, threads and conversations, with      *)
(* people working beside them and workers dying: drafts are touched for    *)
(* their author only, what was sent stays sent, an email is sent with its  *)
(* conversation and deleted with it, and no draft is mailed twice unless   *)
(* two requests were about to send it.  The last part says what makes      *)
(* requests treat as drafts what are none any more: other requests about   *)
(* the same draft, or people, and nothing else.                            *)
(***************************************************************************)
EXTENDS BridgeDrafts, TLAPS

(* Ids are given out once, and a row tells who wrote it.                   *)
Agree ==
  /\ \A t \in Thread : thread[t] # None => thread[t].author = author[t] /\ thread[t].conv \in used
  /\ \A c \in Conv : conv[c] # None => c \in used

NoDraft(cv, c) == cv[c] # None => cv[c].state = "published"

(* What a request loaded stays true enough: its thread is its user's and   *)
(* in that conversation, and a conversation that was no draft is none.     *)
JobOK(j, th, cv, o, us) ==
  /\ j.step \in {"create", "send", "delete", "deleting"} => j.conv \in us
  /\ j.step = "create" => NoDraft(cv, j.conv)
  /\ j.step \in {"send", "update", "delete"} => o[j.thread] = j.user
  /\ j.step \in {"send", "delete"} => (th[j.thread] # None => th[j.thread].conv = j.conv)
  /\ (j.step = "send" /\ j.was.state = "published") => NoDraft(cv, j.conv)
  /\ (j.step = "delete" /\ j.new = FALSE) => NoDraft(cv, j.conv)

Sending(t) == \E r \in Request : At(r, "send") /\ job[r].thread = t
Mailing(t) == \E r \in Request : At(r, "event") /\ job[r].thread = t
Draft(t) == thread[t] # None /\ thread[t].state = "draft"

(* A thread goes to the mail queue by one request, and not before it is    *)
(* sent.                                                                   *)
OneMail(t) ==
  /\ (Draft(t) \/ Sending(t) \/ author[t] = None) => mails[t] = 0 /\ ~Mailing(t)
  /\ Mailing(t) => mails[t] = 0
  /\ \A r, s \in Request :
       At(r, "event") /\ job[r].thread = t /\ At(s, "event") /\ job[s].thread = t => r = s
  /\ mails[t] <= 1

MailedOnce == \A t \in Thread \ raced : OneMail(t)

Inv ==
  /\ TypeOK /\ Agree /\ OwnDraftsOnly /\ SentTogether /\ ConversationGoesToo /\ MailedOnce
  /\ \A r \in Request : JobOK(job[r], thread, conv, author, used)

(* What no step does: to change the author, the conversation or the sent   *)
(* state of a row, to bring back a row, to make a draft of a conversation. *)
Evolves ==
  /\ \A t \in Thread : author[t] # None =>
       /\ author'[t] = author[t]
       /\ thread'[t] # None =>
            /\ thread[t] # None /\ thread'[t].conv = thread[t].conv
            /\ thread[t].state = "published" => thread'[t].state = "published"
  /\ used \subseteq used'
  /\ \A c \in used : NoDraft(conv, c) => NoDraft(conv', c)

-----------------------------------------------------------------------------
SendSet == [step : {"send"}, user : User, thread : Thread, conv : Conv, was : ConvRow]
EventSet == [step : {"event"}, thread : Thread]
DeleteSet == [step : {"delete"}, user : User, thread : Thread, conv : Conv, new : BOOLEAN]
DeletingSet == [step : {"deleting"}, conv : Conv]

(* The step of a job tells which record it is.                             *)
LEMMA JobShape ==
  ASSUME NEW j \in Job
  PROVE  /\ j.step = "create" => j \in WriteJob
         /\ j.step = "send" => j \in SendSet
         /\ j.step = "event" => j \in EventSet
         /\ j.step = "update" => j \in UpdateJob
         /\ j.step = "delete" => j \in DeleteSet
         /\ j.step = "deleting" => j \in DeletingSet
BY DEF Job, Idle, WriteJob, SendJob, UpdateJob, DeleteJob, SendSet, EventSet, DeleteSet, DeletingSet

(* And which fields it has.                                                *)
LEMMA JobFields ==
  ASSUME NEW j \in Job
  PROVE  /\ j.step \in {"create", "send", "delete", "deleting"} => j.conv \in Conv
         /\ j.step \in {"send", "event", "update", "delete"} => j.thread \in Thread
         /\ j.step \in {"create", "send", "update", "delete"} => j.user \in User
BY JobShape DEF WriteJob, UpdateJob, SendSet, EventSet, DeleteSet, DeletingSet

(* Each of these records is a job.                                         *)
LEMMA Jobs ==
  /\ Idle \in Job /\ WriteJob \subseteq Job /\ SendSet \subseteq Job /\ EventSet \subseteq Job
  /\ UpdateJob \subseteq Job /\ DeleteSet \subseteq Job /\ DeletingSet \subseteq Job
BY DEF Job, SendJob, DeleteJob, SendSet, EventSet, DeleteSet, DeletingSet

(* A request that is over has loaded nothing.                              *)
LEMMA IdleOK == Idle \in Job /\ \A th, cv, o, us : JobOK(Idle, th, cv, o, us)
BY DEF Job, Idle, JobOK

(* As long as rows evolve as they do, what a request loaded stays true     *)
(* enough.                                                                 *)
LEMMA JobKeeps ==
  ASSUME Inv, Evolves, NEW j \in Job, JobOK(j, thread, conv, author, used)
  PROVE  JobOK(j, thread', conv', author', used')
<1>1. j.step \in {"send", "update", "delete"} =>
        j.thread \in Thread /\ author[j.thread] # None /\ author'[j.thread] = author[j.thread]
  BY JobFields, DraftsAssumption DEF JobOK, Evolves
<1> QED
  BY <1>1 DEF JobOK, Evolves

(* A step of one request, from what it does to that request and the rows.  *)
Typed ==
  /\ thread' \in [Thread -> ThreadRow \cup {None}] /\ conv' \in [Conv -> ConvRow \cup {None}]
  /\ used' \subseteq Conv /\ author' \in [Thread -> User \cup {None}]
  /\ touched' \in [Thread -> SUBSET User] /\ late' \subseteq Thread /\ raced' \subseteq Thread
  /\ orphans' \subseteq Conv /\ mails' \in [Thread -> Nat]

(* A step of one request, from what it does to that request and to the     *)
(* rows.                                                                   *)
LEMMA OneJob ==
  ASSUME Inv, NEW r \in Request, NEW j \in Job, Become(r, j), Evolves, Typed,
         JobOK(j, thread', conv', author', used'),
         Agree', OwnDraftsOnly', SentTogether', ConversationGoesToo', MailedOnce'
  PROVE  Inv' /\ Evolves
<1>1. TypeOK'
  BY DEF Inv, TypeOK, Typed, Become
<1>2. ASSUME NEW g \in Request
      PROVE  JobOK(job'[g], thread', conv', author', used')
  <2>1. CASE g = r
    BY <2>1 DEF Inv, TypeOK, Become
  <2>2. CASE g # r
    <3>1. job'[g] = job[g] /\ job[g] \in Job /\ JobOK(job[g], thread, conv, author, used)
      BY <2>2 DEF Inv, TypeOK, Become
    <3> QED
      BY <3>1, JobKeeps
  <2> QED
    BY <2>1, <2>2
<1> QED
  BY <1>1, <1>2 DEF Inv

(* A step of nobody, in the same form.                                     *)
LEMMA NoJob ==
  ASSUME Inv, UNCHANGED job, Evolves, Typed,
         Agree', OwnDraftsOnly', SentTogether', ConversationGoesToo', MailedOnce'
  PROVE  Inv' /\ Evolves
<1>1. TypeOK'
  BY DEF Inv, TypeOK, Typed
<1>2. ASSUME NEW g \in Request
      PROVE  JobOK(job'[g], thread', conv', author', used')
  <2>1. job'[g] = job[g] /\ job[g] \in Job /\ JobOK(job[g], thread, conv, author, used)
    BY DEF Inv, TypeOK
  <2> QED
    BY <2>1, JobKeeps
<1> QED
  BY <1>1, <1>2 DEF Inv

(* To touch a draft of its own author keeps OwnDraftsOnly.                 *)
LEMMA Touched ==
  ASSUME TypeOK, NEW user \in User, NEW t \in Thread, Touch(user, t)
  PROVE  /\ touched' \in [Thread -> SUBSET User]
         /\ (OwnDraftsOnly /\ UNCHANGED author /\ author[t] = user) => OwnDraftsOnly'
BY DEF TypeOK, Touch, OwnDraftsOnly

(* What is late is threads.                                                *)
LEMMA Losses ==
  ASSUME TypeOK, NEW user, NEW threads \in SUBSET Thread, Late(user, threads)
  PROVE  late' \subseteq Thread
BY DEF TypeOK, Late

(* A thread is raced when somebody else is about to send it, and only      *)
(* then.                                                                   *)
LEMMA Races ==
  ASSUME TypeOK, NEW t \in Thread, NEW others \in SUBSET Request, Raced(t, others)
  PROVE  /\ raced' \subseteq Thread /\ raced \subseteq raced' /\ raced' \subseteq raced \cup {t}
         /\ t \notin raced' => \A r \in others : ~(At(r, "send") /\ job[r].thread = t)
BY DEF TypeOK, Raced

-----------------------------------------------------------------------------
(* Most steps leave every thread in its conversation, and are not the      *)
(* second half of a deletion.                                              *)
LEMMA StillThere ==
  ASSUME ConversationGoesToo, UNCHANGED orphans,
         \A c \in Conv : conv'[c] # None /\ conv'[c].state = "draft" =>
                           conv[c] # None /\ conv[c].state = "draft",
         \A t \in Thread : thread[t] # None => thread'[t] # None /\ thread'[t].conv = thread[t].conv,
         \A r \in Request : At(r, "deleting") => job'[r] = job[r]
  PROVE  ConversationGoesToo'
BY DEF ConversationGoesToo, At

(* Most steps hand nothing over, and take up a draft to be sent at most.   *)
LEMMA NoMail ==
  ASSUME Inv, UNCHANGED <<raced, mails>>,
         \A t \in Thread : Draft(t)' => Draft(t) \/ author[t] = None,
         \A t \in Thread : author'[t] = None => author[t] = None,
         \A r \in Request : job'[r] = job[r]
                              \/ /\ job'[r].step # "event"
                                 /\ job'[r].step = "send" => Draft(job'[r].thread)
  PROVE  MailedOnce'
<1> SUFFICES ASSUME NEW t \in Thread, t \notin raced PROVE OneMail(t)'
  BY DEF MailedOnce
<1>1. OneMail(t)
  BY DEF Inv, MailedOnce
<1>2. Mailing(t)' => Mailing(t)
  BY DEF Mailing, At
<1>3. Sending(t)' => Sending(t) \/ Draft(t)
  BY DEF Sending, At
<1>4. \A r, s \in Request :
        At(r, "event")' /\ job'[r].thread = t /\ At(s, "event")' /\ job'[s].thread = t => r = s
  BY <1>1 DEF OneMail, At
<1> QED
  BY <1>1, <1>2, <1>3, <1>4 DEF OneMail

(* A request that only looks, or gives up.                                 *)
LEMMA Looks ==
  ASSUME Inv, NEW r \in Request, NEW j \in Job, Become(r, j), UNCHANGED <<thread, conv, history>>,
         JobOK(j, thread, conv, author, used), j.step # "event",
         j.step = "send" => Draft(j.thread), ~At(r, "deleting")
  PROVE  Inv' /\ Evolves
<1>1. Evolves
  BY DEF Evolves, history
<1>2. Typed
  BY DEF Inv, TypeOK, Typed, history
<1>3. Agree' /\ OwnDraftsOnly' /\ SentTogether'
  BY DEF Inv, Agree, OwnDraftsOnly, SentTogether, history
<1>4. \A g \in Request : job'[g] = IF g = r THEN j ELSE job[g]
  BY DEF Inv, TypeOK, Become
<1>5. ConversationGoesToo'
  BY <1>4, StillThere DEF Inv, history, At
<1>6. \A t \in Thread : Draft(t)' => Draft(t)
  BY DEF Draft
<1>7. MailedOnce'
  BY <1>4, <1>6, NoMail DEF history
<1> QED
  BY <1>1, <1>2, <1>3, <1>5, <1>7, JobKeeps, OneJob

-----------------------------------------------------------------------------
(* There are conversations and no threads at the start.                    *)
LEMMA InitInv == Init => Inv
<1> SUFFICES ASSUME Init PROVE Inv
  OBVIOUS
<1>1. TypeOK
  BY DraftsAssumption, IdleOK DEF Init, TypeOK, ConvRow
<1>2. Agree /\ OwnDraftsOnly /\ SentTogether /\ ConversationGoesToo
  BY DEF Init, Agree, OwnDraftsOnly, SentTogether, ConversationGoesToo
<1>3. MailedOnce
  BY DEF Init, MailedOnce, OneMail, Mailing, At, Idle
<1>4. \A r \in Request : JobOK(job[r], thread, conv, author, used)
  BY IdleOK DEF Init
<1> QED
  BY <1>1, <1>2, <1>3, <1>4 DEF Inv

(* A reply is begun in a conversation that is no draft.                    *)
LEMMA CreateStartInv ==
  ASSUME Inv, NEW r \in Request, NEW user \in User, NEW c \in Conv,
         NEW kind \in {"reply", "forward", "message"}, NEW body \in Body,
         CreateStart(r, user, c, kind, body)
  PROVE  Inv' /\ Evolves
<1> DEFINE j == [step |-> "create", user |-> user, conv |-> c, body |-> body, kind |-> kind]
<1>1. j \in Job
  BY Jobs DEF WriteJob
<1>2. JobOK(j, thread, conv, author, used)
  BY DEF Inv, Agree, CreateStart, Published, JobOK, NoDraft
<1>3. /\ Become(r, j) /\ UNCHANGED <<thread, conv, history>> /\ ~At(r, "deleting")
      /\ j.step # "event" /\ j.step # "send"
  BY DEF CreateStart, At, Idle
<1> HIDE DEF j
<1> QED
  BY <1>1, <1>2, <1>3, Looks

(* What the search for a draft of the user finds.                          *)
LEMMA Found ==
  ASSUME Inv, NEW user \in User, NEW t \in Thread, FindOwnDraft(user, t)
  PROVE  /\ thread[t] \in ThreadRow /\ thread[t].conv \in Conv /\ thread[t].conv \in used
         /\ conv[thread[t].conv] \in ConvRow /\ author[t] = user /\ Draft(t)
BY DEF Inv, TypeOK, Agree, FindOwnDraft, ThreadRow, Draft

(* To send takes up a draft of the user.                                   *)
LEMMA SendStartInv ==
  ASSUME Inv, NEW r \in Request, NEW user \in User, NEW t \in Thread, SendStart(r, user, t)
  PROVE  Inv' /\ Evolves
<1> DEFINE c == thread[t].conv
           j == [step |-> "send", user |-> user, thread |-> t, conv |-> c, was |-> conv[c]]
<1>1. c \in Conv /\ c \in used /\ conv[c] \in ConvRow /\ author[t] = user /\ Draft(t)
  BY Found DEF SendStart
<1>2. j \in Job
  BY <1>1, Jobs DEF SendSet
<1>3. JobOK(j, thread, conv, author, used)
  BY <1>1 DEF JobOK, NoDraft
<1>4. /\ Become(r, j) /\ UNCHANGED <<thread, conv, history>> /\ ~At(r, "deleting")
      /\ j.step # "event" /\ j.thread = t
  BY DEF SendStart, At, Idle
<1> HIDE DEF j
<1> QED
  BY <1>1, <1>2, <1>3, <1>4, Looks

(* To update takes up a draft of the user.                                 *)
LEMMA UpdateStartInv ==
  ASSUME Inv, NEW r \in Request, NEW user \in User, NEW t \in Thread, NEW body \in Body,
         UpdateStart(r, user, t, body)
  PROVE  Inv' /\ Evolves
<1> DEFINE j == [step |-> "update", user |-> user, thread |-> t, row |-> thread[t], body |-> body]
<1>1. thread[t] \in ThreadRow /\ author[t] = user
  BY Found DEF UpdateStart
<1>2. j \in Job
  BY <1>1, Jobs DEF UpdateJob
<1>3. JobOK(j, thread, conv, author, used)
  BY <1>1 DEF JobOK
<1>4. /\ Become(r, j) /\ UNCHANGED <<thread, conv, history>> /\ ~At(r, "deleting")
      /\ j.step # "event" /\ j.step # "send"
  BY DEF UpdateStart, At, Idle
<1> HIDE DEF j
<1> QED
  BY <1>2, <1>3, <1>4, Looks

(* To delete takes up a draft of the user, and whether it is a new email.  *)
LEMMA DeleteStartInv ==
  ASSUME Inv, NEW r \in Request, NEW user \in User, NEW t \in Thread, DeleteStart(r, user, t)
  PROVE  Inv' /\ Evolves
<1> DEFINE c == thread[t].conv
           j == [step |-> "delete", user |-> user, thread |-> t, conv |-> c,
                 new |-> conv[c].state = "draft"]
<1>1. c \in Conv /\ c \in used /\ conv[c] \in ConvRow /\ author[t] = user
  BY Found DEF DeleteStart
<1>2. j \in Job
  BY <1>1, Jobs DEF DeleteSet
<1>3. JobOK(j, thread, conv, author, used)
  <2>1. j.new = FALSE => NoDraft(conv, c)
    BY <1>1 DEF NoDraft, ConvRow
  <2> QED
    BY <1>1, <2>1 DEF JobOK
<1>4. /\ Become(r, j) /\ UNCHANGED <<thread, conv, history>> /\ ~At(r, "deleting")
      /\ j.step # "event" /\ j.step # "send"
  BY DEF DeleteStart, At, Idle
<1> HIDE DEF j
<1> QED
  BY <1>2, <1>3, <1>4, Looks

(* A transaction that fails leaves the rows alone.                         *)
LEMMA RollBackInv ==
  ASSUME Inv, NEW r \in Request, RollBack(r)
  PROVE  Inv' /\ Evolves
<1>1. /\ Become(r, Idle) /\ UNCHANGED <<thread, conv, history>> /\ ~At(r, "deleting")
      /\ Idle.step = "idle"
  BY DEF RollBack, At, Idle
<1> QED
  BY <1>1, IdleOK, Looks

-----------------------------------------------------------------------------
(* A new row: an id that was never given out, in a known conversation.     *)
LEMMA Inserted ==
  ASSUME Inv, NEW t \in Thread, NEW row \in ThreadRow, Insert(t, row)
  PROVE  /\ thread' \in [Thread -> ThreadRow \cup {None}] /\ author' \in [Thread -> User \cup {None}]
         /\ thread[t] = None /\ author[t] = None /\ thread'[t] = row /\ author'[t] = row.author
         /\ row.author # None /\ row # None
         /\ \A u \in Thread \ {t} : thread'[u] = thread[u] /\ author'[u] = author[u]
<1>1. thread[t] = None \/ thread[t].author \in User
  BY DEF Inv, TypeOK, ThreadRow
<1>2. row.author \in User
  BY DEF ThreadRow
<1> QED
  BY <1>1, <1>2, DraftsAssumption DEF Inv, TypeOK, Agree, Insert

(* The row that is inserted is new, and in a conversation that is no       *)
(* draft.                                                                  *)
LEMMA CreateCommitInv ==
  ASSUME Inv, NEW r \in Request, NEW t \in Thread, CreateCommit(r, t)
  PROVE  Inv' /\ Evolves
<1> DEFINE c == job[r].conv
           reply == job[r].kind = "message"
           row == Row(c, job[r].user, job[r].kind, IF reply THEN "published" ELSE "draft", job[r].body)
           counted == [state |-> conv[c].state, count |-> conv[c].count + 1]
           event == [step |-> "event", thread |-> t]
           j == IF reply THEN event ELSE Idle
<1>1. /\ job[r] \in WriteJob /\ c \in used /\ NoDraft(conv, c) /\ job[r].step = "create"
  BY JobShape DEF Inv, TypeOK, JobOK, CreateCommit, At
<1>2. row \in ThreadRow /\ c \in Conv /\ row.conv = c /\ row.author = job[r].user
      /\ row.state = IF reply THEN "published" ELSE "draft"
  BY <1>1 DEF WriteJob, Row, ThreadRow
<1>3. /\ Insert(t, row) /\ Become(r, j) /\ UNCHANGED <<used, touched, late, raced, orphans, mails>>
      /\ conv' = IF reply /\ conv[c] # None THEN [conv EXCEPT ![c] = counted] ELSE conv
  BY DEF CreateCommit
<1> HIDE DEF row
<1>4. /\ thread' \in [Thread -> ThreadRow \cup {None}] /\ author' \in [Thread -> User \cup {None}]
      /\ thread[t] = None /\ author[t] = None /\ thread'[t] = row /\ author'[t] = row.author
      /\ row.author # None /\ row # None
      /\ \A u \in Thread \ {t} : thread'[u] = thread[u] /\ author'[u] = author[u]
  BY <1>2, <1>3, Inserted
<1>5. /\ conv' \in [Conv -> ConvRow \cup {None}]
      /\ \A d \in Conv : (conv'[d] = None <=> conv[d] = None)
                        /\ (conv[d] # None => conv'[d].state = conv[d].state)
  <2>1. conv[c] # None => counted \in ConvRow /\ counted # None /\ counted.state = conv[c].state
    BY <1>2, DraftsAssumption DEF Inv, TypeOK, ConvRow
  <2> HIDE DEF counted
  <2> QED
    BY <1>2, <1>3, <2>1 DEF Inv, TypeOK
<1>6. used \subseteq Conv
  BY DEF Inv, TypeOK
<1>7. Evolves
  BY <1>3, <1>4, <1>5, <1>6 DEF Evolves, NoDraft
<1>8. Typed
  BY <1>3, <1>4, <1>5 DEF Inv, TypeOK, Typed
<1>9. Agree'
  BY <1>1, <1>2, <1>3, <1>4, <1>5 DEF Inv, Agree
<1>10. OwnDraftsOnly'
  BY <1>3, <1>4, DraftsAssumption DEF Inv, OwnDraftsOnly, TypeOK
<1>11. SentTogether'
  BY <1>1, <1>2, <1>4, <1>5 DEF Inv, SentTogether, NoDraft, TypeOK, ThreadRow
<1>12. \A g \in Request : job'[g] = IF g = r THEN j ELSE job[g]
  BY <1>3 DEF Inv, TypeOK, Become
<1>13. ConversationGoesToo'
  BY <1>1, <1>3, <1>4, <1>5, <1>12, StillThere DEF Inv, At
<1>14. j \in Job /\ \A th, cv, o, us : JobOK(j, th, cv, o, us)
  <2>1. event \in Job /\ \A th, cv, o, us : JobOK(event, th, cv, o, us)
    BY Jobs DEF EventSet, JobOK
  <2> QED
    BY <2>1, IdleOK
<1>15. MailedOnce'
  <2>1. \A u \in Thread : Draft(u)' => Draft(u) \/ author[u] = None
    BY <1>4 DEF Draft
  <2>2. \A u \in Thread : author'[u] = None => author[u] = None
    BY <1>4
  <2>3. CASE ~reply
    <3>1. j = Idle /\ Idle.step = "idle"
      BY <2>3 DEF Idle
    <3> HIDE DEF j
    <3> QED
      BY <1>3, <1>12, <2>1, <2>2, <3>1, NoMail
  <2>4. CASE reply
    <3>1. \A g \in Request : job'[g] = IF g = r THEN event ELSE job[g]
      BY <1>12, <2>4
    <3>2. ASSUME NEW u \in Thread, u \notin raced
          PROVE  OneMail(u)'
      <4>1. OneMail(u) /\ mails' = mails
        BY <1>3, <3>2 DEF Inv, MailedOnce
      <4>2. CASE u = t
        <5>1. mails[t] = 0 /\ ~Mailing(t) /\ ~Sending(t)
          <6>1. mails[t] = 0 /\ ~Mailing(t)
            BY <1>4, <4>1, <4>2 DEF OneMail
          <6>2. ASSUME NEW g \in Request, At(g, "send"), job[g].thread = t
                PROVE  FALSE
            <7>1. job[g] \in Job /\ JobOK(job[g], thread, conv, author, used)
              BY DEF Inv, TypeOK
            <7>2. author[t] = job[g].user /\ job[g].user \in User
              BY <6>2, <7>1, JobFields DEF JobOK, At
            <7> QED
              BY <1>4, <7>2, DraftsAssumption
          <6> QED
            BY <6>1, <6>2 DEF Sending
        <5>2. ~Draft(t)' /\ author'[t] # None
          BY <1>2, <1>4, <2>4 DEF Draft
        <5>3. ~Sending(t)'
          BY <3>1, <5>1 DEF Sending, At
        <5>4. \A g \in Request : At(g, "event")' /\ job'[g].thread = t => g = r
          BY <3>1, <5>1 DEF Mailing, At
        <5> QED
          BY <4>1, <4>2, <5>1, <5>2, <5>3, <5>4 DEF OneMail
      <4>3. CASE u # t
        <5>1. (Sending(u)' <=> Sending(u)) /\ (Mailing(u)' <=> Mailing(u))
          BY <1>1, <3>1, <4>3 DEF Sending, Mailing, At
        <5>2. \A g, h \in Request :
                At(g, "event")' /\ job'[g].thread = u /\ At(h, "event")' /\ job'[h].thread = u => g = h
          BY <3>1, <4>1, <4>3 DEF OneMail, At
        <5>3. Draft(u)' => Draft(u)
          BY <1>4, <4>3 DEF Draft
        <5> QED
          BY <2>2, <4>1, <5>1, <5>2, <5>3 DEF OneMail
      <4> QED
        BY <4>2, <4>3
    <3> QED
      BY <1>3, <3>2 DEF MailedOnce
  <2> QED
    BY <2>3, <2>4
<1>16. Become(r, j)
  BY <1>3
<1> HIDE DEF j
<1> QED
  BY <1>7, <1>8, <1>9, <1>10, <1>11, <1>13, <1>14, <1>15, <1>16, OneJob

(* A new email is a draft in a draft conversation, both new.               *)
LEMMA CreateNewInv ==
  ASSUME Inv, NEW t \in Thread, NEW c \in Conv, NEW user \in User, NEW body \in Body,
         CreateNew(t, c, user, body)
  PROVE  Inv' /\ Evolves
<1> DEFINE row == Row(c, user, "new", "draft", body)
           new == [state |-> "draft", count |-> 0]
<1>1. row \in ThreadRow /\ row.conv = c /\ row.author = user /\ row.state = "draft"
  BY DEF Row, ThreadRow
<1>2. new \in ConvRow
  BY DEF ConvRow
<1>3. /\ Insert(t, row) /\ UNCHANGED <<job, touched, late, raced, orphans, mails>>
      /\ c \notin used /\ used' = used \cup {c} /\ conv' = [conv EXCEPT ![c] = new]
  BY DEF CreateNew
<1> HIDE DEF row, new
<1>4. /\ thread' \in [Thread -> ThreadRow \cup {None}] /\ author' \in [Thread -> User \cup {None}]
      /\ thread[t] = None /\ author[t] = None /\ thread'[t] = row /\ author'[t] = row.author
      /\ row.author # None /\ row # None
      /\ \A u \in Thread \ {t} : thread'[u] = thread[u] /\ author'[u] = author[u]
  BY <1>1, <1>3, Inserted
<1>5. /\ conv' \in [Conv -> ConvRow \cup {None}] /\ conv'[c] = new
      /\ \A d \in Conv \ {c} : conv'[d] = conv[d]
  BY <1>2, <1>3 DEF Inv, TypeOK
<1>6. used \subseteq Conv
  BY DEF Inv, TypeOK
<1>7. Evolves
  BY <1>3, <1>4, <1>5, <1>6 DEF Evolves, NoDraft
<1>8. Typed
  BY <1>3, <1>4, <1>5 DEF Inv, TypeOK, Typed
<1>9. Agree'
  BY <1>1, <1>3, <1>4, <1>5 DEF Inv, Agree
<1>10. OwnDraftsOnly'
  BY <1>3, <1>4, DraftsAssumption DEF Inv, OwnDraftsOnly, TypeOK
<1>11. SentTogether'
  <2>1. \A u \in Thread \ {t} : thread[u] # None => thread[u].conv \in Conv /\ thread[u].conv # c
    BY <1>3 DEF Inv, TypeOK, Agree, ThreadRow
  <2> QED
    BY <1>1, <1>4, <1>5, <2>1 DEF Inv, SentTogether
<1>12. ConversationGoesToo'
  <2>1. ASSUME NEW d \in Conv, conv'[d] # None, conv'[d].state = "draft", d # c
        PROVE  \/ \E u \in Thread : thread'[u] # None /\ thread'[u].conv = d
               \/ \E r \in Request : At(r, "deleting")' /\ job'[r].conv = d
               \/ d \in orphans'
    BY <1>3, <1>4, <1>5, <2>1 DEF Inv, ConversationGoesToo, At
  <2>2. thread'[t] # None /\ thread'[t].conv = c
    BY <1>1, <1>4
  <2> QED
    BY <2>1, <2>2 DEF ConversationGoesToo
<1>13. MailedOnce'
  <2>1. \A u \in Thread : Draft(u)' => Draft(u) \/ author[u] = None
    BY <1>4 DEF Draft
  <2>2. \A u \in Thread : author'[u] = None => author[u] = None
    BY <1>4
  <2> QED
    BY <1>3, <2>1, <2>2, NoMail
<1> QED
  BY <1>3, <1>7, <1>8, <1>9, <1>10, <1>11, <1>12, <1>13, NoJob

-----------------------------------------------------------------------------
(* Sending changes the state of a row and nothing else of it.              *)
LEMMA SentRow ==
  ASSUME NEW row \in ThreadRow
  PROVE  /\ Sent(row) \in ThreadRow /\ Sent(row).conv = row.conv /\ Sent(row).author = row.author
         /\ Sent(row).state = "published"
BY DEF Sent, Row, ThreadRow

(* A new text leaves conversation, author and state of the row alone.      *)
LEMMA RewrittenRow ==
  ASSUME NEW loaded \in ThreadRow, NEW row \in ThreadRow, NEW body \in Body
  PROVE  /\ Rewritten(loaded, row, body) \in ThreadRow
         /\ Rewritten(loaded, row, body).conv = row.conv
         /\ Rewritten(loaded, row, body).author = row.author
         /\ Rewritten(loaded, row, body).state = row.state
BY DEF Rewritten, Row, ThreadRow

(* What is written to a conversation that is sent in publishes a draft     *)
(* one.                                                                    *)
LEMMA CountedRow ==
  ASSUME NEW was \in ConvRow, NEW state \in {"draft", "published"}
  PROVE  /\ Counted(was, state) \in ConvRow
         /\ Counted(was, state).state = IF was.state = "draft" THEN "published" ELSE state
BY DEF Counted, ConvRow

(* Sending publishes thread and conversation together, and is the only one *)
(* to mail an unraced draft.                                               *)
LEMMA SendCommitInv ==
  ASSUME Inv, NEW r \in Request, SendCommit(r)
  PROVE  Inv' /\ Evolves
<1> DEFINE t == job[r].thread
           c == job[r].conv
           user == job[r].user
           was == job[r].was
           j == [step |-> "event", thread |-> t]
<1>1. /\ t \in Thread /\ c \in Conv /\ user \in User /\ was \in ConvRow
      /\ job[r].step = "send" /\ JobOK(job[r], thread, conv, author, used)
  BY JobShape DEF Inv, TypeOK, SendCommit, At, SendSet
<1>2. /\ c \in used /\ author[t] = user /\ author[t] # None
      /\ thread[t] # None => thread[t].conv = c
      /\ was.state = "published" => NoDraft(conv, c)
  BY <1>1, DraftsAssumption DEF JobOK
<1>3. /\ thread' = IF thread[t] = None THEN thread ELSE [thread EXCEPT ![t] = Sent(thread[t])]
      /\ conv' = IF conv[c] = None THEN conv ELSE [conv EXCEPT ![c] = Counted(was, conv[c].state)]
      /\ Touch(user, t) /\ Late(user, {t}) /\ Raced(t, Request \ {r}) /\ Become(r, j)
      /\ UNCHANGED <<used, author, orphans, mails>>
  BY DEF SendCommit
<1>4. /\ thread' \in [Thread -> ThreadRow \cup {None}]
      /\ \A u \in Thread :
           /\ thread'[u] = None <=> thread[u] = None
           /\ u # t => thread'[u] = thread[u]
           /\ thread[u] # None => thread'[u].conv = thread[u].conv /\ thread'[u].author = thread[u].author
      /\ thread'[t] # None => thread'[t].state = "published"
  BY <1>1, <1>3, SentRow, DraftsAssumption DEF Inv, TypeOK
<1>5. /\ conv' \in [Conv -> ConvRow \cup {None}]
      /\ \A d \in Conv : /\ conv'[d] = None <=> conv[d] = None
                         /\ d # c => conv'[d] = conv[d]
      /\ conv[c] # None => conv'[c].state = "published"
  <2>1. CASE conv[c] = None
    BY <1>3, <2>1 DEF Inv, TypeOK
  <2>2. CASE conv[c] # None
    <3> DEFINE new == Counted(was, conv[c].state)
    <3>1. conv[c].state \in {"draft", "published"} /\ was.state \in {"draft", "published"}
      BY <1>1, <2>2 DEF Inv, TypeOK, ConvRow
    <3>2. new \in ConvRow /\ new.state = "published"
      BY <1>1, <1>2, <2>2, <3>1, CountedRow DEF NoDraft
    <3>3. conv' = [conv EXCEPT ![c] = new]
      BY <1>3, <2>2
    <3> HIDE DEF new
    <3> QED
      BY <1>1, <2>2, <3>2, <3>3, DraftsAssumption DEF Inv, TypeOK
  <2> QED
    BY <2>1, <2>2
<1>6. raced' \subseteq Thread /\ raced \subseteq raced' /\ raced' \subseteq raced \cup {t}
      /\ (t \notin raced' => \A s \in Request \ {r} : ~(At(s, "send") /\ job[s].thread = t))
  BY <1>1, <1>3, Races DEF Inv
<1>7. Evolves
  <2>1. used \subseteq Conv
    BY DEF Inv, TypeOK
  <2> QED
    BY <1>1, <1>2, <1>3, <1>4, <1>5, <2>1 DEF Evolves, NoDraft
<1>8. Typed /\ OwnDraftsOnly'
  BY <1>1, <1>2, <1>3, <1>4, <1>5, <1>6, Touched, Losses DEF Inv, TypeOK, Typed
<1>9. Agree'
  BY <1>3, <1>4, <1>5 DEF Inv, Agree
<1>10. SentTogether'
  BY <1>1, <1>2, <1>4, <1>5 DEF Inv, SentTogether, TypeOK, ThreadRow
<1>11. \A g \in Request : job'[g] = IF g = r THEN j ELSE job[g]
  BY <1>3 DEF Inv, TypeOK, Become
<1>12. ConversationGoesToo'
  <2>1. \A d \in Conv : conv'[d] # None /\ conv'[d].state = "draft" => conv[d] # None /\ conv[d].state = "draft"
    BY <1>5
  <2>2. \A g \in Request : At(g, "deleting") => job'[g] = job[g]
    BY <1>1, <1>11 DEF At
  <2> QED
    BY <1>3, <1>4, <2>1, <2>2, StillThere DEF Inv
<1>13. j \in Job /\ JobOK(j, thread', conv', author', used')
  BY <1>1, Jobs DEF EventSet, JobOK
<1>14. MailedOnce'
  <2> SUFFICES ASSUME NEW u \in Thread, u \notin raced' PROVE OneMail(u)'
    BY DEF MailedOnce
  <2>1. OneMail(u) /\ mails' = mails /\ author' = author
    BY <1>3, <1>6 DEF Inv, MailedOnce
  <2>2. CASE u = t
    <3>1. mails[t] = 0 /\ ~Mailing(t)
      BY <1>1, <2>1, <2>2 DEF OneMail, Sending, At
    <3>2. ~Draft(u)' /\ author'[u] # None
      BY <1>2, <1>3, <1>4, <2>2 DEF Draft
    <3>3. ~Sending(u)'
      BY <1>6, <1>11, <2>2 DEF Sending, At
    <3>4. \A g \in Request : At(g, "event")' /\ job'[g].thread = u => g = r
      BY <1>11, <2>2, <3>1 DEF Mailing, At
    <3> QED
      BY <2>1, <2>2, <3>1, <3>2, <3>3, <3>4 DEF OneMail
  <2>3. CASE u # t
    <3>1. (Sending(u)' => Sending(u)) /\ (Mailing(u)' => Mailing(u))
      BY <1>11, <2>3 DEF Sending, Mailing, At
    <3>2. \A g, h \in Request :
            At(g, "event")' /\ job'[g].thread = u /\ At(h, "event")' /\ job'[h].thread = u => g = h
      BY <1>11, <2>1, <2>3 DEF OneMail, At
    <3>3. Draft(u)' => Draft(u)
      BY <1>4, <2>3 DEF Draft
    <3> QED
      BY <2>1, <3>1, <3>2, <3>3 DEF OneMail
  <2> QED
    BY <2>2, <2>3
<1>15. Become(r, j)
  BY <1>3
<1> HIDE DEF j
<1> QED
  BY <1>7, <1>8, <1>9, <1>10, <1>12, <1>13, <1>14, <1>15, OneJob

(* The mail goes out once per request that sent.                           *)
LEMMA AnnounceInv ==
  ASSUME Inv, NEW r \in Request, Announce(r)
  PROVE  Inv' /\ Evolves
<1> DEFINE t == job[r].thread
<1>1. t \in Thread /\ job[r].step = "event"
  BY JobFields DEF Inv, TypeOK, Announce, At
<1>2. /\ mails' = [mails EXCEPT ![t] = mails[t] + 1] /\ Become(r, Idle)
      /\ UNCHANGED <<thread, conv, used, author, touched, late, raced, orphans>>
  BY DEF Announce
<1>3. mails \in [Thread -> Nat]
  BY DEF Inv, TypeOK
<1>4. Evolves
  BY <1>2 DEF Evolves
<1>5. Typed
  BY <1>1, <1>2 DEF Inv, TypeOK, Typed
<1>6. Agree' /\ OwnDraftsOnly' /\ SentTogether'
  BY <1>2 DEF Inv, Agree, OwnDraftsOnly, SentTogether
<1>7. \A g \in Request : job'[g] = IF g = r THEN Idle ELSE job[g]
  BY <1>2 DEF Inv, TypeOK, Become
<1>8. ConversationGoesToo'
  BY <1>1, <1>2, <1>7, StillThere DEF Inv, At
<1>9. MailedOnce'
  <2> SUFFICES ASSUME NEW u \in Thread, u \notin raced PROVE OneMail(u)'
    BY <1>2 DEF MailedOnce
  <2>1. OneMail(u) /\ author' = author /\ (Draft(u)' <=> Draft(u))
    BY <1>2 DEF Inv, MailedOnce, Draft
  <2>2. Idle.step = "idle"
    BY DEF Idle
  <2> HIDE DEF Idle
  <2>3. (Sending(u)' => Sending(u)) /\ (Mailing(u)' => Mailing(u))
    BY <1>7, <2>2 DEF Sending, Mailing, At
  <2>4. CASE u = t
    <3>1. Mailing(t) /\ mails[t] = 0
      BY <1>1, <2>1, <2>4 DEF OneMail, Mailing, At
    <3>2. \A g \in Request : At(g, "event") /\ job[g].thread = t => g = r
      BY <1>1, <2>1, <2>4 DEF OneMail, At
    <3>3. ~Mailing(u)'
      BY <1>7, <2>2, <2>4, <3>2 DEF Mailing, At
    <3>4. ~Draft(u) /\ ~Sending(u) /\ author[u] # None
      BY <2>1, <2>4, <3>1 DEF OneMail
    <3>5. mails'[u] = 1
      BY <1>1, <1>2, <1>3, <2>4, <3>1
    <3>6. \A g, h \in Request :
            At(g, "event")' /\ job'[g].thread = u /\ At(h, "event")' /\ job'[h].thread = u => g = h
      BY <3>3 DEF Mailing
    <3> QED
      BY <2>1, <2>3, <2>4, <3>3, <3>4, <3>5, <3>6 DEF OneMail
  <2>5. CASE u # t
    <3>1. mails'[u] = mails[u]
      BY <1>2, <1>3, <2>5
    <3>2. \A g, h \in Request :
            At(g, "event")' /\ job'[g].thread = u /\ At(h, "event")' /\ job'[h].thread = u => g = h
      BY <1>7, <2>1, <2>2 DEF OneMail, At
    <3> QED
      BY <2>1, <2>3, <3>1, <3>2 DEF OneMail
  <2> QED
    BY <2>4, <2>5
<1> QED
  BY <1>2, <1>4, <1>5, <1>6, <1>8, <1>9, IdleOK, OneJob

(* An update writes the text only, also to a row that was sent in between. *)
LEMMA UpdateCommitInv ==
  ASSUME Inv, NEW r \in Request, UpdateCommit(r)
  PROVE  Inv' /\ Evolves
<1> DEFINE t == job[r].thread
           user == job[r].user
           new == Rewritten(job[r].row, thread[t], job[r].body)
<1>1. /\ t \in Thread /\ user \in User /\ job[r].row \in ThreadRow /\ job[r].body \in Body
      /\ job[r].step = "update" /\ author[t] = user
  BY JobShape DEF Inv, TypeOK, UpdateCommit, At, UpdateJob, JobOK
<1>2. /\ thread' = IF thread[t] = None THEN thread ELSE [thread EXCEPT ![t] = new]
      /\ Touch(user, t) /\ Late(user, {t}) /\ Become(r, Idle)
      /\ UNCHANGED <<conv, used, author, raced, orphans, mails>>
  BY DEF UpdateCommit
<1>3. thread[t] # None => new \in ThreadRow /\ new.conv = thread[t].conv
        /\ new.author = thread[t].author /\ new.state = thread[t].state
  <2>1. thread[t] # None => thread[t] \in ThreadRow
    BY <1>1 DEF Inv, TypeOK
  <2> QED
    BY <1>1, <2>1, RewrittenRow
<1> HIDE DEF new
<1>4. /\ thread' \in [Thread -> ThreadRow \cup {None}]
      /\ \A u \in Thread :
           /\ thread'[u] = None <=> thread[u] = None
           /\ thread[u] # None => /\ thread'[u].conv = thread[u].conv
                                 /\ thread'[u].author = thread[u].author
                                 /\ thread'[u].state = thread[u].state
  BY <1>1, <1>2, <1>3, DraftsAssumption DEF Inv, TypeOK
<1>5. Evolves
  BY <1>2, <1>4 DEF Evolves
<1>6. Typed /\ OwnDraftsOnly'
  BY <1>1, <1>2, <1>4, Touched, Losses DEF Inv, TypeOK, Typed
<1>7. Agree' /\ SentTogether'
  BY <1>2, <1>4 DEF Inv, Agree, SentTogether
<1>8. \A g \in Request : job'[g] = IF g = r THEN Idle ELSE job[g]
  BY <1>2 DEF Inv, TypeOK, Become
<1>9. ConversationGoesToo'
  BY <1>1, <1>2, <1>4, <1>8, StillThere DEF Inv, At
<1>10. MailedOnce'
  <2>1. \A u \in Thread : Draft(u)' => Draft(u)
    BY <1>4 DEF Draft
  <2>2. Idle.step = "idle"
    BY DEF Idle
  <2> HIDE DEF Idle
  <2> QED
    BY <1>2, <1>8, <2>1, <2>2, NoMail
<1> QED
  BY <1>2, <1>5, <1>6, <1>7, <1>9, <1>10, IdleOK, OneJob

-----------------------------------------------------------------------------
(* Rows that are removed.                                                  *)
LEMMA Removed ==
  ASSUME Inv, UNCHANGED <<used, author>>, NEW gone \in SUBSET Thread, NEW lost \in SUBSET Conv,
         thread' = [t \in Thread |-> IF t \in gone THEN None ELSE thread[t]],
         conv' = [c \in Conv |-> IF c \in lost THEN None ELSE conv[c]]
  PROVE  /\ thread' \in [Thread -> ThreadRow \cup {None}] /\ conv' \in [Conv -> ConvRow \cup {None}]
         /\ Evolves /\ Agree' /\ SentTogether'
         /\ \A t \in Thread : Draft(t)' => Draft(t)
<1>1. used \subseteq Conv
  BY DEF Inv, TypeOK
<1>2. thread' \in [Thread -> ThreadRow \cup {None}] /\ conv' \in [Conv -> ConvRow \cup {None}]
  BY DEF Inv, TypeOK
<1>3. Evolves /\ Agree'
  BY <1>1 DEF Inv, Agree, Evolves, NoDraft
<1>4. SentTogether'
  BY DEF Inv, TypeOK, SentTogether, ThreadRow
<1>5. \A t \in Thread : Draft(t)' => Draft(t)
  BY DEF Draft
<1> QED
  BY <1>2, <1>3, <1>4, <1>5

(* The threads of a new email go first, and its conversation is about to.  *)
LEMMA DeleteThreadsInv ==
  ASSUME Inv, NEW r \in Request, DeleteThreads(r)
  PROVE  Inv' /\ Evolves
<1> DEFINE t == job[r].thread
           c == job[r].conv
           user == job[r].user
           new == job[r].new
           gone == IF new THEN {u \in Thread : thread[u] # None /\ thread[u].conv = c} ELSE {t}
           next == [step |-> "deleting", conv |-> c]
           j == IF new THEN next ELSE Idle
<1>1. /\ t \in Thread /\ c \in Conv /\ user \in User /\ new \in BOOLEAN
      /\ job[r].step = "delete" /\ author[t] = user /\ c \in used
      /\ thread[t] # None => thread[t].conv = c
      /\ new = FALSE => NoDraft(conv, c)
  BY JobShape DEF Inv, TypeOK, DeleteThreads, At, DeleteSet, JobOK
<1>2. /\ thread' = [u \in Thread |-> IF u \in gone THEN None ELSE thread[u]]
      /\ Touch(user, t) /\ Late(user, gone) /\ Become(r, j)
      /\ UNCHANGED <<conv, used, author, raced, orphans, mails>>
  BY DEF DeleteThreads
<1>3. gone \in SUBSET Thread
  BY <1>1
<1>4. conv' = [d \in Conv |-> IF d \in {} THEN None ELSE conv[d]]
  BY <1>2 DEF Inv, TypeOK
<1>5. /\ thread' \in [Thread -> ThreadRow \cup {None}] /\ conv' \in [Conv -> ConvRow \cup {None}]
      /\ Evolves /\ Agree' /\ SentTogether'
      /\ \A u \in Thread : Draft(u)' => Draft(u)
  <2>1. {} \in SUBSET Conv /\ UNCHANGED <<used, author>>
    BY <1>2
  <2>2. thread' = [u \in Thread |-> IF u \in gone THEN None ELSE thread[u]]
    BY <1>2
  <2> HIDE DEF gone
  <2> QED
    BY <1>3, <1>4, <2>1, <2>2, Removed
<1>6. Typed /\ OwnDraftsOnly'
  <2> HIDE DEF gone
  <2> QED
    BY <1>1, <1>2, <1>3, <1>5, Touched, Losses DEF Inv, TypeOK, Typed
<1>7. \A g \in Request : job'[g] = IF g = r THEN j ELSE job[g]
  BY <1>2 DEF Inv, TypeOK, Become
<1>8. Idle.step = "idle"
  BY DEF Idle
<1>9. ConversationGoesToo'
  <2> SUFFICES ASSUME NEW d \in Conv, conv[d] # None, conv[d].state = "draft"
               PROVE  \/ \E u \in Thread : thread'[u] # None /\ thread'[u].conv = d
                      \/ \E g \in Request : At(g, "deleting")' /\ job'[g].conv = d
                      \/ d \in orphans
    BY <1>2 DEF ConversationGoesToo
  <2>1. CASE new /\ d = c
    BY <1>7, <2>1 DEF At
  <2>2. CASE ~(new /\ d = c)
    <3>1. \A u \in Thread : thread[u] # None /\ thread[u].conv = d => u \notin gone
      BY <1>1, <2>2 DEF NoDraft
    <3>2. \A g \in Request : At(g, "deleting") => job'[g] = job[g]
      BY <1>1, <1>7 DEF At
    <3>3. \A u \in Thread : thread[u] # None /\ thread[u].conv = d => thread'[u] = thread[u]
      BY <1>2, <3>1
    <3> QED
      BY <3>2, <3>3 DEF Inv, ConversationGoesToo, At
  <2> QED
    BY <2>1, <2>2
<1>10. MailedOnce'
  <2>1. \A g \in Request : job'[g] = job[g] \/ job'[g].step \in {"idle", "deleting"}
    BY <1>7, <1>8
  <2>2. \A u \in Thread : author'[u] = None => author[u] = None
    BY <1>2
  <2> QED
    BY <1>2, <1>5, <2>1, <2>2, NoMail
<1>11. j \in Job /\ JobOK(j, thread', conv', author', used')
  <2>1. next \in Job /\ JobOK(next, thread', conv', author', used')
    BY <1>1, <1>2, Jobs DEF DeletingSet, JobOK
  <2> QED
    BY <2>1, IdleOK
<1>12. Become(r, j)
  BY <1>2
<1> HIDE DEF j
<1> QED
  BY <1>5, <1>6, <1>9, <1>10, <1>11, <1>12, OneJob

(* Then the conversation goes.                                             *)
LEMMA DeleteConversationInv ==
  ASSUME Inv, NEW r \in Request, DeleteConversation(r)
  PROVE  Inv' /\ Evolves
<1> DEFINE c == job[r].conv
<1>1. c \in Conv /\ job[r].step = "deleting"
  BY JobFields DEF Inv, TypeOK, DeleteConversation, At
<1>2. /\ conv' = [conv EXCEPT ![c] = None] /\ Become(r, Idle) /\ UNCHANGED <<thread, history>>
  BY DEF DeleteConversation
<1>3. /\ thread' = [u \in Thread |-> IF u \in {} THEN None ELSE thread[u]]
      /\ conv' = [d \in Conv |-> IF d \in {c} THEN None ELSE conv[d]]
  BY <1>1, <1>2 DEF Inv, TypeOK
<1>4. /\ thread' \in [Thread -> ThreadRow \cup {None}] /\ conv' \in [Conv -> ConvRow \cup {None}]
      /\ Evolves /\ Agree' /\ SentTogether'
      /\ \A u \in Thread : Draft(u)' => Draft(u)
  <2>1. {} \in SUBSET Thread /\ {c} \in SUBSET Conv /\ UNCHANGED <<used, author>>
    BY <1>1, <1>2 DEF history
  <2> QED
    BY <1>3, <2>1, Removed
<1>5. Typed /\ OwnDraftsOnly'
  BY <1>2, <1>4 DEF Inv, TypeOK, Typed, OwnDraftsOnly, history
<1>6. \A g \in Request : job'[g] = IF g = r THEN Idle ELSE job[g]
  BY <1>2 DEF Inv, TypeOK, Become
<1>7. Idle.step = "idle"
  BY DEF Idle
<1>8. ConversationGoesToo'
  <2> SUFFICES ASSUME NEW d \in Conv, d # c, conv[d] # None, conv[d].state = "draft"
               PROVE  \/ \E u \in Thread : thread[u] # None /\ thread[u].conv = d
                      \/ \E g \in Request : At(g, "deleting")' /\ job'[g].conv = d
                      \/ d \in orphans
    BY <1>2, <1>3 DEF ConversationGoesToo, history
  <2>1. \A g \in Request : At(g, "deleting") /\ job[g].conv = d => job'[g] = job[g]
    BY <1>6
  <2> QED
    BY <2>1 DEF Inv, ConversationGoesToo, At
<1>9. MailedOnce'
  <2> HIDE DEF Idle
  <2>1. \A g \in Request : job'[g] = job[g] \/ job'[g].step = "idle"
    BY <1>6, <1>7
  <2>2. \A u \in Thread : author'[u] = None => author[u] = None
    BY <1>2 DEF history
  <2>3. UNCHANGED <<raced, mails>>
    BY <1>2 DEF history
  <2> QED
    BY <1>4, <2>1, <2>2, <2>3, NoMail
<1> QED
  BY <1>2, <1>4, <1>5, <1>8, <1>9, IdleOK, OneJob

(* A worker that dies over a conversation leaves an orphan; otherwise it   *)
(* is as if it had ended.                                                  *)
LEMMA CrashInv ==
  ASSUME Inv, NEW r \in Request, Crash(r)
  PROVE  Inv' /\ Evolves
<1>1. /\ Become(r, Idle) /\ UNCHANGED <<thread, conv, used, author, touched, late, raced, mails>>
      /\ orphans' = IF At(r, "deleting") THEN orphans \cup {job[r].conv} ELSE orphans
  BY DEF Crash
<1>2. At(r, "deleting") => job[r].conv \in Conv
  BY JobFields DEF Inv, TypeOK, At
<1>3. Evolves
  BY <1>1 DEF Evolves
<1>4. Typed
  BY <1>1, <1>2 DEF Inv, TypeOK, Typed
<1>5. Agree' /\ OwnDraftsOnly' /\ SentTogether'
  BY <1>1 DEF Inv, Agree, OwnDraftsOnly, SentTogether
<1>6. \A g \in Request : job'[g] = IF g = r THEN Idle ELSE job[g]
  BY <1>1 DEF Inv, TypeOK, Become
<1>7. ConversationGoesToo'
  <2> HIDE DEF Idle
  <2> QED
    BY <1>1, <1>6 DEF Inv, ConversationGoesToo, At
<1>8. MailedOnce'
  <2>1. \A u \in Thread : Draft(u)' => Draft(u)
    BY <1>1 DEF Draft
  <2>2. Idle.step = "idle"
    BY DEF Idle
  <2> HIDE DEF Idle
  <2> QED
    BY <1>1, <1>6, <2>1, <2>2, NoMail
<1> QED
  BY <1>1, <1>3, <1>4, <1>5, <1>7, <1>8, IdleOK, OneJob

-----------------------------------------------------------------------------
(* A person changes the text of a draft.                                   *)
LEMMA PersonEditsInv ==
  ASSUME Inv, NEW t \in Thread, NEW body \in Body, PersonEdits(t, body)
  PROVE  Inv' /\ Evolves
<1> DEFINE new == Rewritten(thread[t], thread[t], body)
<1>1. thread[t] \in ThreadRow /\ thread' = [thread EXCEPT ![t] = new]
      /\ UNCHANGED <<conv, job, history>>
  BY DEF Inv, TypeOK, PersonEdits
<1>2. new \in ThreadRow /\ new.conv = thread[t].conv
        /\ new.author = thread[t].author /\ new.state = thread[t].state
  BY <1>1, RewrittenRow
<1> HIDE DEF new
<1>3. /\ thread' \in [Thread -> ThreadRow \cup {None}]
      /\ \A u \in Thread :
           /\ thread'[u] = None <=> thread[u] = None
           /\ thread[u] # None => /\ thread'[u].conv = thread[u].conv
                                 /\ thread'[u].author = thread[u].author
                                 /\ thread'[u].state = thread[u].state
  BY <1>1, <1>2, DraftsAssumption DEF Inv, TypeOK
<1>4. Evolves
  BY <1>1, <1>3 DEF Evolves, history
<1>5. Typed
  BY <1>1, <1>3 DEF Inv, TypeOK, Typed, history
<1>6. Agree' /\ OwnDraftsOnly' /\ SentTogether'
  BY <1>1, <1>3 DEF Inv, Agree, OwnDraftsOnly, SentTogether, history
<1>7. ConversationGoesToo'
  BY <1>1, <1>3, StillThere DEF Inv, history
<1>8. MailedOnce'
  <2>1. \A u \in Thread : Draft(u)' => Draft(u)
    BY <1>3 DEF Draft
  <2> QED
    BY <1>1, <2>1, NoMail DEF history
<1> QED
  BY <1>1, <1>4, <1>5, <1>6, <1>7, <1>8, NoJob

(* A person discards a draft with its conversation.                        *)
LEMMA PersonDiscardsInv ==
  ASSUME Inv, NEW t \in Thread, PersonDiscards(t)
  PROVE  Inv' /\ Evolves
<1> DEFINE c == thread[t].conv
           lost == IF conv[c] # None /\ conv[c].state = "draft" THEN {c} ELSE {}
<1>1. /\ thread[t] \in ThreadRow /\ c \in Conv /\ UNCHANGED <<job, history>>
      /\ thread' = [thread EXCEPT ![t] = None]
      /\ conv' = IF conv[c] # None /\ conv[c].state = "draft" THEN [conv EXCEPT ![c] = None] ELSE conv
  BY DEF Inv, TypeOK, PersonDiscards, ThreadRow
<1>2. /\ thread' = [u \in Thread |-> IF u \in {t} THEN None ELSE thread[u]]
      /\ conv' = [d \in Conv |-> IF d \in lost THEN None ELSE conv[d]]
      /\ lost \in SUBSET Conv /\ {t} \in SUBSET Thread /\ UNCHANGED <<used, author>>
  BY <1>1 DEF Inv, TypeOK, history
<1>3. /\ thread' \in [Thread -> ThreadRow \cup {None}] /\ conv' \in [Conv -> ConvRow \cup {None}]
      /\ Evolves /\ Agree' /\ SentTogether'
      /\ \A u \in Thread : Draft(u)' => Draft(u)
  <2> HIDE DEF lost
  <2> QED
    BY <1>2, Removed
<1>4. Typed /\ OwnDraftsOnly'
  BY <1>1, <1>3 DEF Inv, TypeOK, Typed, OwnDraftsOnly, history
<1>5. ConversationGoesToo'
  <2> SUFFICES ASSUME NEW d \in Conv, conv'[d] # None, conv'[d].state = "draft"
               PROVE  \/ \E u \in Thread : thread'[u] # None /\ thread'[u].conv = d
                      \/ \E g \in Request : At(g, "deleting") /\ job[g].conv = d
                      \/ d \in orphans
    BY <1>1 DEF ConversationGoesToo, history, At
  <2>1. conv[d] # None /\ conv[d].state = "draft" /\ d # c
    BY <1>1, <1>2
  <2>2. \A u \in Thread : thread[u] # None /\ thread[u].conv = d => thread'[u] = thread[u]
    BY <1>2, <2>1
  <2> QED
    BY <2>1, <2>2 DEF Inv, ConversationGoesToo
<1>6. MailedOnce'
  BY <1>1, <1>3, NoMail DEF history
<1> QED
  BY <1>1, <1>3, <1>4, <1>5, <1>6, NoJob

(* A person sends a draft; who else was about to has raced.                *)
LEMMA PersonSendsInv ==
  ASSUME Inv, NEW t \in Thread, PersonSends(t)
  PROVE  Inv' /\ Evolves
<1> DEFINE c == thread[t].conv
           new == [state |-> "published", count |-> conv[c].count + 1]
<1>1. /\ thread[t] \in ThreadRow /\ c \in Conv /\ conv[c] \in ConvRow /\ Draft(t)
      /\ thread' = [thread EXCEPT ![t] = Sent(thread[t])] /\ conv' = [conv EXCEPT ![c] = new]
      /\ mails' = [mails EXCEPT ![t] = mails[t] + 1] /\ Raced(t, Request)
      /\ UNCHANGED <<job, used, author, touched, late, orphans>>
  BY DEF Inv, TypeOK, PersonSends, ThreadRow, Draft
<1>2. new \in ConvRow /\ new.state = "published"
  BY <1>1 DEF ConvRow
<1> HIDE DEF new
<1>3. /\ thread' \in [Thread -> ThreadRow \cup {None}]
      /\ \A u \in Thread :
           /\ thread'[u] = None <=> thread[u] = None
           /\ u # t => thread'[u] = thread[u]
           /\ thread[u] # None => thread'[u].conv = thread[u].conv /\ thread'[u].author = thread[u].author
      /\ thread'[t] # None /\ thread'[t].state = "published"
  BY <1>1, SentRow, DraftsAssumption DEF Inv, TypeOK
<1>4. /\ conv' \in [Conv -> ConvRow \cup {None}] /\ conv'[c].state = "published"
      /\ \A d \in Conv : /\ conv'[d] = None <=> conv[d] = None
                         /\ d # c => conv'[d] = conv[d]
  BY <1>1, <1>2, DraftsAssumption DEF Inv, TypeOK
<1>5. raced' \subseteq Thread /\ raced \subseteq raced' /\ raced' \subseteq raced \cup {t}
      /\ (t \notin raced' => \A s \in Request : ~(At(s, "send") /\ job[s].thread = t))
  BY <1>1, Races DEF Inv
<1>6. author[t] # None
  BY <1>1, DraftsAssumption DEF Inv, Agree, ThreadRow
<1>7. mails \in [Thread -> Nat] /\ used \subseteq Conv
  BY DEF Inv, TypeOK
<1>8. Evolves
  BY <1>1, <1>3, <1>4, <1>7 DEF Evolves, NoDraft
<1>9. Typed /\ OwnDraftsOnly'
  BY <1>1, <1>3, <1>4, <1>5, <1>7 DEF Inv, TypeOK, Typed, OwnDraftsOnly
<1>10. Agree'
  BY <1>1, <1>3, <1>4 DEF Inv, Agree
<1>11. SentTogether'
  BY <1>1, <1>3, <1>4 DEF Inv, SentTogether, TypeOK, ThreadRow
<1>12. ConversationGoesToo'
  <2>1. \A d \in Conv : conv'[d] # None /\ conv'[d].state = "draft" => conv[d] # None /\ conv[d].state = "draft"
    BY <1>4
  <2> QED
    BY <1>1, <1>3, <2>1, StillThere DEF Inv
<1>13. MailedOnce'
  <2> SUFFICES ASSUME NEW u \in Thread, u \notin raced' PROVE OneMail(u)'
    BY DEF MailedOnce
  <2>1. OneMail(u) /\ author' = author /\ job' = job
    BY <1>1, <1>5 DEF Inv, MailedOnce
  <2>2. (Sending(u)' <=> Sending(u)) /\ (Mailing(u)' <=> Mailing(u))
    BY <2>1 DEF Sending, Mailing, At
  <2>3. \A g, h \in Request :
          At(g, "event")' /\ job'[g].thread = u /\ At(h, "event")' /\ job'[h].thread = u => g = h
    BY <2>1 DEF OneMail, At
  <2>4. CASE u = t
    <3>1. mails[u] = 0 /\ ~Mailing(u)
      BY <1>1, <2>1, <2>4 DEF OneMail
    <3>2. ~Sending(u)
      BY <1>5, <2>4 DEF Sending
    <3>3. ~Draft(u)' /\ mails'[u] = 1
      BY <1>1, <1>3, <1>7, <2>4, <3>1 DEF Draft
    <3> QED
      BY <1>6, <2>1, <2>2, <2>3, <2>4, <3>1, <3>2, <3>3 DEF OneMail
  <2>5. CASE u # t
    <3>1. mails'[u] = mails[u] /\ (Draft(u)' => Draft(u))
      BY <1>1, <1>3, <1>7, <2>5 DEF Draft
    <3> QED
      BY <2>1, <2>2, <2>3, <3>1 DEF OneMail
  <2> QED
    BY <2>4, <2>5
<1> QED
  BY <1>1, <1>8, <1>9, <1>10, <1>11, <1>12, <1>13, NoJob

-----------------------------------------------------------------------------
(* Every step keeps the invariant and lets rows evolve as they may.        *)
LEMMA NextInv == Inv /\ [Next]_vars => Inv' /\ Evolves
<1> SUFFICES ASSUME Inv, [Next]_vars PROVE Inv' /\ Evolves
  OBVIOUS
<1>1. ASSUME NEW r \in Request, NEW user \in User, NEW c \in Conv, NEW body \in Body,
             NEW kind \in {"reply", "forward", "message"}, CreateStart(r, user, c, kind, body)
      PROVE  Inv' /\ Evolves
  BY <1>1, CreateStartInv
<1>2. ASSUME NEW r \in Request, NEW t \in Thread, CreateCommit(r, t) PROVE Inv' /\ Evolves
  BY <1>2, CreateCommitInv
<1>3. ASSUME NEW r \in Request, NEW user \in User, NEW t \in Thread, SendStart(r, user, t)
      PROVE  Inv' /\ Evolves
  BY <1>3, SendStartInv
<1>4. ASSUME NEW r \in Request, NEW user \in User, NEW t \in Thread, NEW body \in Body,
             UpdateStart(r, user, t, body)
      PROVE  Inv' /\ Evolves
  BY <1>4, UpdateStartInv
<1>5. ASSUME NEW r \in Request, NEW user \in User, NEW t \in Thread, DeleteStart(r, user, t)
      PROVE  Inv' /\ Evolves
  BY <1>5, DeleteStartInv
<1>6. ASSUME NEW r \in Request, SendCommit(r) PROVE Inv' /\ Evolves
  BY <1>6, SendCommitInv
<1>7. ASSUME NEW r \in Request, Announce(r) PROVE Inv' /\ Evolves
  BY <1>7, AnnounceInv
<1>8. ASSUME NEW r \in Request, UpdateCommit(r) PROVE Inv' /\ Evolves
  BY <1>8, UpdateCommitInv
<1>9. ASSUME NEW r \in Request, DeleteThreads(r) PROVE Inv' /\ Evolves
  BY <1>9, DeleteThreadsInv
<1>10. ASSUME NEW r \in Request, DeleteConversation(r) PROVE Inv' /\ Evolves
  BY <1>10, DeleteConversationInv
<1>11. ASSUME NEW r \in Request, RollBack(r) PROVE Inv' /\ Evolves
  BY <1>11, RollBackInv
<1>12. ASSUME NEW r \in Request, Crash(r) PROVE Inv' /\ Evolves
  BY <1>12, CrashInv
<1>13. ASSUME NEW t \in Thread, NEW c \in Conv, NEW user \in User, NEW body \in Body,
              CreateNew(t, c, user, body)
       PROVE  Inv' /\ Evolves
  BY <1>13, CreateNewInv
<1>14. ASSUME NEW t \in Thread, PersonSends(t) PROVE Inv' /\ Evolves
  BY <1>14, PersonSendsInv
<1>15. ASSUME NEW t \in Thread, NEW body \in Body, PersonEdits(t, body) PROVE Inv' /\ Evolves
  BY <1>15, PersonEditsInv
<1>16. ASSUME NEW t \in Thread, PersonDiscards(t) PROVE Inv' /\ Evolves
  BY <1>16, PersonDiscardsInv
<1>17. ASSUME UNCHANGED vars PROVE Inv' /\ Evolves
  <2>1. UNCHANGED <<thread, conv, job, used, author, touched, late, raced, orphans, mails>>
    BY <1>17 DEF vars, history
  <2>2. Evolves /\ Typed
    BY <2>1 DEF Inv, TypeOK, Typed, Evolves
  <2>3. Agree' /\ OwnDraftsOnly' /\ SentTogether'
    BY <2>1 DEF Inv, Agree, OwnDraftsOnly, SentTogether
  <2>4. ConversationGoesToo'
    BY <2>1, StillThere DEF Inv
  <2>5. MailedOnce'
    BY <2>1, NoMail DEF Draft
  <2> QED
    BY <2>1, <2>2, <2>3, <2>4, <2>5, NoJob
<1> QED
  BY <1>1, <1>2, <1>3, <1>4, <1>5, <1>6, <1>7, <1>8, <1>9, <1>10, <1>11, <1>12, <1>13, <1>14,
     <1>15, <1>16, <1>17 DEF Next

-----------------------------------------------------------------------------
(* The invariant: what requests have loaded still fits the rows, and a     *)
(* draft or a draft about to be sent has not been mailed.                  *)
THEOREM Invariance == Spec => []Inv
  BY InitInv, NextInv, PTL DEF Spec

(* The rows, the requests and the history keep their types.                *)
THEOREM Typing == Spec => []TypeOK
<1>1. Inv => TypeOK
  BY DEF Inv
<1> QED
  BY <1>1, Invariance, PTL

(* Nobody's draft is updated, deleted or sent for anybody else, whatever   *)
(* happens between the check and the commit (BridgeController.php:949).    *)
THEOREM Ownership == Spec => []OwnDraftsOnly
<1>1. Inv => OwnDraftsOnly
  BY DEF Inv
<1> QED
  BY <1>1, Invariance, PTL

(* No conversation that is a draft holds a message that was sent           *)
(* (BridgeController.php:287-307).                                         *)
THEOREM Together == Spec => []SentTogether
<1>1. Inv => SentTogether
  BY DEF Inv
<1> QED
  BY <1>1, Invariance, PTL

(* A draft conversation is deleted with its draft, unless a worker dies    *)
(* over it (BridgeController.php:884-885).                                 *)
THEOREM Deletion == Spec => []ConversationGoesToo
<1>1. Inv => ConversationGoesToo
  BY DEF Inv
<1> QED
  BY <1>1, Invariance, PTL

(* A draft that no two requests were about to send is mailed once at most, *)
(* also with crashes and retries (BridgeController.php:963-965).           *)
THEOREM Once == Spec => []SentOnce
<1>1. ASSUME Inv PROVE SentOnce
  BY <1>1 DEF Inv, MailedOnce, OneMail, SentOnce
<1> QED
  BY <1>1, Invariance, PTL

(* No step turns a message that was sent into a draft                      *)
(* (BridgeController.php:860-880).                                         *)
THEOREM Sendings == Spec => SentStaysSent
<1> DEFINE Stays == \A t \in Thread :
       thread[t] # None /\ thread[t].state = "published" /\ thread'[t] # None
         => thread'[t].state = "published"
<1>1. ASSUME Inv, [Next]_vars PROVE [Stays]_vars
  <2>1. \A t \in Thread : thread[t] # None => author[t] # None
    BY <1>1, DraftsAssumption DEF Inv, TypeOK, Agree, ThreadRow
  <2>2. Stays
    BY <1>1, <2>1, NextInv DEF Evolves
  <2> QED
    BY <2>2
<1>2. Spec => [][Stays]_vars
  <2> HIDE DEF Stays
  <2> QED
    BY <1>1, Invariance, PTL DEF Spec
<1> QED
  BY <1>2 DEF SentStaysSent

-----------------------------------------------------------------------------
(* What the missing lock costs.  Without people at work beside them, and   *)
(* with no two requests about one draft at a time, requests act on what    *)
(* they checked: what findOwnDraft promised still holds at the commit.     *)

Working(r) == job[r].step \in {"send", "update", "delete"}

(* Nobody uses FreeScout's interface, and no two requests are about one    *)
(* draft.                                                                  *)
Alone ==
  /\ ~People
  /\ \A r, s \in Request : Working(r) /\ Working(s) /\ job[r].thread = job[s].thread => r = s

(* A new email is alone in its conversation.                               *)
Single ==
  \A t, u \in Thread :
    thread[t] # None /\ thread[u] # None /\ thread[t].conv = thread[u].conv
      /\ ~NoDraft(conv, thread[t].conv) => t = u

Discarding(r) == At(r, "deleting") \/ (At(r, "delete") /\ job[r].new)

(* The conversation that goes with a new email stays a draft, and nobody   *)
(* writes in it.                                                           *)
Doomed(r) ==
  Discarding(r) =>
    /\ ~Published(job[r].conv)
    /\ \A s \in Request : At(s, "create") => job[s].conv # job[r].conv
    /\ \A t \in Thread : thread[t] # None /\ thread[t].conv = job[r].conv
         => At(r, "delete") /\ t = job[r].thread

StillDraft(r) == Working(r) => Draft(job[r].thread)

AloneInv ==
  /\ late = {} /\ raced = {} /\ Single
  /\ \A r \in Request : StillDraft(r) /\ Doomed(r)

(* A discarding request nobody helps stays alone with its email.           *)
LEMMA StillDoomed ==
  ASSUME AloneInv, NEW r \in Request, job'[r] = job[r],
         Discarding(r) =>
           /\ ~Published(job[r].conv)'
           /\ \A s \in Request : At(s, "create")' => job'[s].conv # job[r].conv
           /\ \A t \in Thread : thread'[t] # None /\ thread'[t].conv = job[r].conv
                => thread[t] # None /\ thread[t].conv = job[r].conv
  PROVE  Doomed(r)'
BY DEF AloneInv, Doomed, Discarding, At

(* A request that looks, gives up or ends disturbs nobody.                 *)
LEMMA LooksAlone ==
  ASSUME Inv, AloneInv, NEW r \in Request, NEW j, Become(r, j),
         UNCHANGED <<thread, conv, late, raced>>,
         j.step \notin {"create", "delete", "deleting"},
         j.step \in {"send", "update"} => Draft(j.thread)
  PROVE  AloneInv'
<1>1. \A g \in Request : job'[g] = IF g = r THEN j ELSE job[g]
  BY DEF Inv, TypeOK, Become
<1>2. Single'
  BY DEF AloneInv, Single, NoDraft
<1>3. ASSUME NEW g \in Request PROVE StillDraft(g)' /\ Doomed(g)'
  <2>1. CASE g = r
    BY <1>1, <2>1 DEF StillDraft, Working, Draft, Doomed, Discarding, At
  <2>2. CASE g # r
    <3>1. StillDraft(g)'
      BY <1>1, <2>2 DEF AloneInv, StillDraft, Working, Draft
    <3>2. Doomed(g)'
      BY <1>1, <2>2, StillDoomed DEF AloneInv, Doomed, Published, At
    <3> QED
      BY <3>1, <3>2
  <2> QED
    BY <2>1, <2>2
<1> QED
  BY <1>2, <1>3 DEF AloneInv

(* Replies are begun where nobody discards the conversation.               *)
LEMMA CreateStartAlone ==
  ASSUME Inv, AloneInv, NEW r \in Request, NEW user \in User, NEW c \in Conv, NEW body \in Body,
         NEW kind \in {"reply", "forward", "message"}, CreateStart(r, user, c, kind, body)
  PROVE  AloneInv'
<1> DEFINE j == [step |-> "create", user |-> user, conv |-> c, body |-> body, kind |-> kind]
<1>1. /\ \A g \in Request : job'[g] = IF g = r THEN j ELSE job[g]
      /\ Published(c) /\ UNCHANGED <<thread, conv, late, raced>>
  BY DEF Inv, TypeOK, CreateStart, Become, history
<1>2. j.step = "create" /\ j.conv = c
  OBVIOUS
<1> HIDE DEF j
<1>3. Single'
  BY <1>1 DEF AloneInv, Single, NoDraft
<1>4. ASSUME NEW g \in Request PROVE StillDraft(g)' /\ Doomed(g)'
  <2>1. CASE g = r
    BY <1>1, <1>2, <2>1 DEF StillDraft, Working, Doomed, Discarding, At
  <2>2. CASE g # r
    <3>1. StillDraft(g)'
      BY <1>1, <2>2 DEF AloneInv, StillDraft, Working, Draft
    <3>2. Discarding(g) => c # job[g].conv
      BY <1>1 DEF AloneInv, Doomed
    <3>3. Doomed(g)'
      BY <1>1, <1>2, <2>2, <3>2, StillDoomed DEF AloneInv, Doomed, Published, At
    <3> QED
      BY <3>1, <3>3
  <2> QED
    BY <2>1, <2>2
<1> QED
  BY <1>1, <1>3, <1>4 DEF AloneInv

(* A deletion takes up a draft that is alone in its conversation, or one   *)
(* of a conversation that stays.                                           *)
LEMMA DeleteStartAlone ==
  ASSUME Inv, AloneInv, NEW r \in Request, NEW user \in User, NEW t \in Thread,
         DeleteStart(r, user, t)
  PROVE  AloneInv'
<1> DEFINE c == thread[t].conv
           j == [step |-> "delete", user |-> user, thread |-> t, conv |-> c,
                 new |-> conv[c].state = "draft"]
<1>1. c \in Conv /\ conv[c] \in ConvRow /\ Draft(t) /\ conv[c] # None
  BY Found, DraftsAssumption DEF DeleteStart
<1>2. /\ \A g \in Request : job'[g] = IF g = r THEN j ELSE job[g]
      /\ UNCHANGED <<thread, conv, late, raced>>
  BY DEF Inv, TypeOK, DeleteStart, Become, history
<1>3. j.step = "delete" /\ j.conv = c /\ j.thread = t /\ j.new = (conv[c].state = "draft")
  OBVIOUS
<1> HIDE DEF j
<1>4. Single'
  BY <1>2 DEF AloneInv, Single, NoDraft
<1>5. ASSUME NEW g \in Request PROVE StillDraft(g)' /\ Doomed(g)'
  <2>1. CASE g = r
    <3>1. StillDraft(r)'
      BY <1>1, <1>2, <1>3 DEF StillDraft, Working, Draft
    <3>2. ASSUME j.new
          PROVE  /\ ~Published(c)
                 /\ \A s \in Request : At(s, "create") => job[s].conv # c
                 /\ \A u \in Thread : thread[u] # None /\ thread[u].conv = c => u = t
      <4>1. conv[c].state = "draft" /\ ~NoDraft(conv, c) /\ ~Published(c)
        BY <1>1, <1>3, <3>2 DEF NoDraft, Published
      <4>2. \A s \in Request : At(s, "create") => NoDraft(conv, job[s].conv)
        BY DEF Inv, JobOK, At
      <4> QED
        BY <1>1, <4>1, <4>2 DEF AloneInv, Single, Draft
    <3>3. Doomed(r)'
      BY <1>2, <1>3, <3>2 DEF Doomed, Discarding, Published, At
    <3> QED
      BY <2>1, <3>1, <3>3
  <2>2. CASE g # r
    <3>1. StillDraft(g)'
      BY <1>2, <2>2 DEF AloneInv, StillDraft, Working, Draft
    <3>2. Doomed(g)'
      BY <1>2, <1>3, <2>2, StillDoomed DEF AloneInv, Doomed, Published, At
    <3> QED
      BY <3>1, <3>2
  <2> QED
    BY <2>1, <2>2
<1> QED
  BY <1>2, <1>4, <1>5 DEF AloneInv

(* A row is inserted beside the drafts, in a conversation that stays.      *)
LEMMA CreateCommitAlone ==
  ASSUME Inv, AloneInv, NEW r \in Request, NEW t \in Thread, CreateCommit(r, t)
  PROVE  AloneInv'
<1> DEFINE c == job[r].conv
           row == Row(c, job[r].user, job[r].kind,
                      IF job[r].kind = "message" THEN "published" ELSE "draft", job[r].body)
           j == IF job[r].kind = "message" THEN [step |-> "event", thread |-> t] ELSE Idle
<1>1. /\ job[r] \in WriteJob /\ NoDraft(conv, c) /\ At(r, "create")
  BY JobShape DEF Inv, TypeOK, JobOK, CreateCommit, At
<1>2. row \in ThreadRow /\ c \in Conv /\ row.conv = c
  BY <1>1 DEF WriteJob, Row, ThreadRow
<1>3. /\ \A g \in Request : job'[g] = IF g = r THEN j ELSE job[g]
      /\ UNCHANGED <<late, raced>> /\ Insert(t, row)
  BY DEF Inv, TypeOK, CreateCommit, Become
<1> HIDE DEF row
<1>4. /\ thread[t] = None /\ thread'[t] = row
      /\ \A u \in Thread \ {t} : thread'[u] = thread[u]
  BY <1>2, <1>3, Inserted
<1>5. \A d \in Conv : /\ conv'[d] = None <=> conv[d] = None
                      /\ conv[d] # None => conv'[d].state = conv[d].state
  <2> DEFINE counted == [state |-> conv[c].state, count |-> conv[c].count + 1]
  <2>1. conv' = IF job[r].kind = "message" /\ conv[c] # None THEN [conv EXCEPT ![c] = counted]
                ELSE conv
    BY DEF CreateCommit
  <2>2. conv[c] # None => counted # None /\ counted.state = conv[c].state
    <3>1. conv[c] # None => counted \in ConvRow
      BY <1>2 DEF Inv, TypeOK, ConvRow
    <3> QED
      BY <3>1, DraftsAssumption
  <2> HIDE DEF counted
  <2> QED
    BY <1>2, <2>1, <2>2 DEF Inv, TypeOK
<1>6. j.step \in {"event", "idle"}
  BY DEF Idle
<1> HIDE DEF j
<1>7. \A u \in Thread : thread[u] # None => thread[u].conv \in Conv
  BY DEF Inv, TypeOK, ThreadRow
<1>8. Single'
  BY <1>1, <1>2, <1>4, <1>5, <1>7 DEF AloneInv, Single, NoDraft
<1>9. ASSUME NEW g \in Request PROVE StillDraft(g)' /\ Doomed(g)'
  <2>1. CASE g = r
    BY <1>3, <1>6, <2>1 DEF StillDraft, Working, Doomed, Discarding, At
  <2>2. CASE g # r
    <3>1. StillDraft(g)'
      <4>1. Working(g) => job[g].thread \in Thread \ {t} /\ Draft(job[g].thread)
        BY <1>4, JobFields DEF AloneInv, StillDraft, Working, Draft, Inv, TypeOK
      <4> QED
        BY <1>3, <1>4, <2>2, <4>1 DEF StillDraft, Working, Draft
    <3>2. Discarding(g) => /\ job[g].conv \in Conv /\ c # job[g].conv
                           /\ ~Published(job[g].conv)
                           /\ \A s \in Request : At(s, "create") => job[s].conv # job[g].conv
      BY <1>1, JobFields DEF AloneInv, Doomed, Discarding, At, Inv, TypeOK
    <3>3. Discarding(g) => ~Published(job[g].conv)'
      BY <1>3, <1>5, <2>2, <3>2 DEF Published
    <3>4. Discarding(g) => \A s \in Request : At(s, "create")' => job'[s].conv # job[g].conv
      BY <1>3, <1>6, <3>2 DEF At
    <3>5. Doomed(g)'
      BY <1>2, <1>3, <1>4, <2>2, <3>2, <3>3, <3>4, StillDoomed
    <3> QED
      BY <3>1, <3>5
  <2> QED
    BY <2>1, <2>2
<1> QED
  BY <1>3, <1>8, <1>9 DEF AloneInv

(* A new email comes with a conversation of its own.                       *)
LEMMA CreateNewAlone ==
  ASSUME Inv, AloneInv, NEW t \in Thread, NEW c \in Conv, NEW user \in User, NEW body \in Body,
         CreateNew(t, c, user, body)
  PROVE  AloneInv'
<1> DEFINE row == Row(c, user, "new", "draft", body)
           new == [state |-> "draft", count |-> 0]
<1>1. row \in ThreadRow /\ row.conv = c /\ new \in ConvRow /\ new.state = "draft"
  BY DEF Row, ThreadRow, ConvRow
<1>2. /\ Insert(t, row) /\ UNCHANGED <<job, late, raced>>
      /\ c \notin used /\ conv' = [conv EXCEPT ![c] = new]
  BY DEF CreateNew
<1> HIDE DEF row, new
<1>3. /\ thread[t] = None /\ thread'[t] = row
      /\ \A u \in Thread \ {t} : thread'[u] = thread[u]
  BY <1>1, <1>2, Inserted
<1>4. conv'[c] = new /\ \A d \in Conv \ {c} : conv'[d] = conv[d]
  BY <1>2 DEF Inv, TypeOK
<1>5. \A u \in Thread : thread[u] # None => thread[u].conv \in Conv /\ thread[u].conv # c
  BY <1>2 DEF Inv, TypeOK, Agree, ThreadRow
<1>6. Single'
  BY <1>1, <1>3, <1>4, <1>5 DEF AloneInv, Single, NoDraft
<1>7. ASSUME NEW g \in Request PROVE StillDraft(g)' /\ Doomed(g)'
  <2>1. StillDraft(g)'
    <3>1. Working(g) => job[g].thread \in Thread \ {t} /\ Draft(job[g].thread)
      BY <1>3, JobFields DEF AloneInv, StillDraft, Working, Draft, Inv, TypeOK
    <3> QED
      BY <1>2, <1>3, <3>1 DEF StillDraft, Working, Draft
  <2>2. Discarding(g) => job[g].conv \in Conv /\ job[g].conv # c
    <3>1. job[g] \in Job /\ JobOK(job[g], thread, conv, author, used)
      BY DEF Inv, TypeOK
    <3> QED
      BY <1>2, <3>1, JobFields DEF Discarding, At, JobOK
  <2>3. Doomed(g)'
    BY <1>1, <1>2, <1>3, <1>4, <2>2, StillDoomed DEF AloneInv, Doomed, Published, At
  <2> QED
    BY <2>1, <2>3
<1> QED
  BY <1>2, <1>6, <1>7 DEF AloneInv

(* A draft that is sent, updated or deleted is still the one that was      *)
(* found, and no other request is about it.                                *)
LEMMA InTime ==
  ASSUME Inv, Alone, AloneInv, NEW r \in Request, Working(r)
  PROVE  /\ job[r].thread \in Thread /\ Draft(job[r].thread)
         /\ thread[job[r].thread].author = job[r].user
         /\ \A s \in Request \ {r} : Working(s) => job[s].thread # job[r].thread
<1>1. job[r].thread \in Thread /\ Draft(job[r].thread)
  BY JobFields DEF AloneInv, StillDraft, Working, Inv, TypeOK
<1>2. author[job[r].thread] = job[r].user
  BY DEF Inv, JobOK, Working
<1>3. thread[job[r].thread].author = job[r].user
  BY <1>1, <1>2 DEF Inv, Agree, Draft
<1> QED
  BY <1>1, <1>3 DEF Alone

(* A step of a request on its own draft leaves the other drafts, and who   *)
(* is alone, as they were.                                                 *)
LEMMA OwnDraftOnly ==
  ASSUME Inv, Alone, AloneInv, Evolves, NEW r \in Request, Working(r), NEW j, Become(r, j),
         j.step \in {"idle", "event"}, UNCHANGED <<late, raced>>,
         \A t \in Thread : /\ t # job[r].thread => thread'[t] = thread[t]
                           /\ thread'[t] # None => thread[t] # None /\ thread'[t].conv = thread[t].conv,
         \A c \in Conv : Published(c)' => Published(c) \/ c = thread[job[r].thread].conv
  PROVE  AloneInv'
<1> DEFINE t == job[r].thread
<1>1. \A g \in Request : job'[g] = IF g = r THEN j ELSE job[g]
  BY DEF Inv, TypeOK, Become
<1>2. /\ t \in Thread /\ Draft(t)
      /\ \A s \in Request \ {r} : Working(s) => job[s].thread # t
  BY InTime
<1>3. \A u \in Thread : thread[u] # None => thread[u].conv \in used
  BY DEF Inv, TypeOK, Agree, ThreadRow
<1>4. Single'
  BY <1>3 DEF AloneInv, Single, Evolves
<1>5. ASSUME NEW g \in Request PROVE StillDraft(g)' /\ Doomed(g)'
  <2>1. CASE g = r
    BY <1>1, <2>1 DEF StillDraft, Working, Doomed, Discarding, At
  <2>2. CASE g # r
    <3>1. StillDraft(g)'
      <4>1. Working(g) => job[g].thread \in Thread \ {t} /\ Draft(job[g].thread)
        BY <1>2, <2>2, InTime
      <4> QED
        BY <1>1, <2>2, <4>1 DEF StillDraft, Working, Draft
    <3>2. Discarding(g) => job[g].conv \in Conv /\ job[g].conv # thread[t].conv
      <4>1. ASSUME Discarding(g), thread[t].conv = job[g].conv PROVE FALSE
        <5>1. At(g, "delete") /\ t = job[g].thread
          BY <1>2, <4>1 DEF AloneInv, Doomed, Draft
        <5> QED
          BY <1>2, <2>2, <5>1 DEF Working, At
      <4> QED
        BY <4>1, JobFields DEF Discarding, At, Inv, TypeOK
    <3>3. Discarding(g) => ~Published(job[g].conv)'
      BY <1>1, <2>2, <3>2 DEF AloneInv, Doomed
    <3>4. Discarding(g) => \A s \in Request : At(s, "create")' => job'[s].conv # job[g].conv
      BY <1>1 DEF AloneInv, Doomed, At
    <3>5. Doomed(g)'
      BY <1>1, <2>2, <3>3, <3>4, StillDoomed
    <3> QED
      BY <3>1, <3>5
  <2> QED
    BY <2>1, <2>2
<1> QED
  BY <1>4, <1>5 DEF AloneInv

(* What is sent is a draft of its user, and nobody else is sending it.     *)
LEMMA SendCommitAlone ==
  ASSUME Inv, Alone, AloneInv, Evolves, NEW r \in Request, SendCommit(r)
  PROVE  AloneInv'
<1> DEFINE t == job[r].thread
           c == job[r].conv
           j == [step |-> "event", thread |-> t]
<1>1. Working(r) /\ job[r].step = "send" /\ c \in Conv /\ job[r].was \in ConvRow
  BY JobShape DEF SendCommit, At, Working, Inv, TypeOK, SendSet
<1>2. /\ t \in Thread /\ Draft(t) /\ thread[t].author = job[r].user /\ thread[t].conv = c
      /\ \A s \in Request \ {r} : Working(s) => job[s].thread # t
  BY <1>1, InTime DEF Inv, JobOK, Draft
<1>3. /\ thread' = [thread EXCEPT ![t] = Sent(thread[t])] /\ Become(r, j)
      /\ conv' = IF conv[c] = None THEN conv
                 ELSE [conv EXCEPT ![c] = Counted(job[r].was, conv[c].state)]
      /\ Late(job[r].user, {t}) /\ Raced(t, Request \ {r})
  BY <1>2 DEF SendCommit, Draft
<1>4. UNCHANGED <<late, raced>>
  BY <1>2, <1>3 DEF Late, Raced, Draft, Working, At
<1>5. \A u \in Thread : /\ u # t => thread'[u] = thread[u]
                        /\ thread'[u] # None => thread[u] # None /\ thread'[u].conv = thread[u].conv
  BY <1>2, <1>3, SentRow DEF Inv, TypeOK, Draft
<1>6. \A d \in Conv : Published(d)' => Published(d) \/ d = thread[t].conv
  BY <1>1, <1>2, <1>3 DEF Published, Inv, TypeOK
<1>7. j.step = "event"
  OBVIOUS
<1> HIDE DEF j
<1> QED
  BY <1>1, <1>3, <1>4, <1>5, <1>6, <1>7, OwnDraftOnly

(* What is updated is a draft of its user.                                 *)
LEMMA UpdateCommitAlone ==
  ASSUME Inv, Alone, AloneInv, Evolves, NEW r \in Request, UpdateCommit(r)
  PROVE  AloneInv'
<1> DEFINE t == job[r].thread
<1>1. Working(r) /\ job[r].row \in ThreadRow /\ job[r].body \in Body
  BY JobShape DEF UpdateCommit, At, Working, Inv, TypeOK, UpdateJob
<1>2. t \in Thread /\ Draft(t) /\ thread[t].author = job[r].user
  BY <1>1, InTime
<1>3. /\ thread' = [thread EXCEPT ![t] = Rewritten(job[r].row, thread[t], job[r].body)]
      /\ Become(r, Idle) /\ Late(job[r].user, {t}) /\ UNCHANGED <<conv, raced>>
  BY <1>2 DEF UpdateCommit, Draft
<1>4. UNCHANGED <<late, raced>>
  BY <1>2, <1>3 DEF Late, Draft
<1>5. \A u \in Thread : /\ u # t => thread'[u] = thread[u]
                        /\ thread'[u] # None => thread[u] # None /\ thread'[u].conv = thread[u].conv
  <2>1. Rewritten(job[r].row, thread[t], job[r].body).conv = thread[t].conv /\ thread[t] # None
    <3>1. thread[t] \in ThreadRow /\ thread[t] # None
      BY <1>2 DEF Inv, TypeOK, Draft
    <3> QED
      BY <1>1, <3>1, RewrittenRow
  <2> QED
    BY <1>2, <1>3, <2>1 DEF Inv, TypeOK
<1>6. \A d \in Conv : Published(d)' => Published(d)
  BY <1>3 DEF Published
<1>7. Idle.step = "idle"
  BY DEF Idle
<1> QED
  BY <1>1, <1>3, <1>4, <1>5, <1>6, <1>7, OwnDraftOnly

(* What is deleted is a draft of its user, and with a new email nothing    *)
(* but itself.                                                             *)
LEMMA DeleteThreadsAlone ==
  ASSUME Inv, Alone, AloneInv, Evolves, NEW r \in Request, DeleteThreads(r)
  PROVE  AloneInv'
<1> DEFINE t == job[r].thread
           c == job[r].conv
           gone == IF job[r].new THEN {u \in Thread : thread[u] # None /\ thread[u].conv = c} ELSE {t}
           next == [step |-> "deleting", conv |-> c]
<1>1. Working(r) /\ job[r].step = "delete" /\ c \in Conv
  BY JobFields DEF DeleteThreads, At, Working, Inv, TypeOK
<1>2. /\ t \in Thread /\ Draft(t) /\ thread[t].author = job[r].user /\ thread[t].conv = c
      /\ \A s \in Request \ {r} : Working(s) => job[s].thread # t
  BY <1>1, InTime DEF Inv, JobOK, Draft
<1>3. gone = {t}
  BY <1>1, <1>2 DEF AloneInv, Doomed, Discarding, At, Draft
<1>4. /\ thread' = [u \in Thread |-> IF u \in gone THEN None ELSE thread[u]]
      /\ Late(job[r].user, gone) /\ UNCHANGED <<conv, raced>>
      /\ Become(r, IF job[r].new THEN next ELSE Idle)
  BY DEF DeleteThreads
<1>5. UNCHANGED <<late, raced>>
  BY <1>2, <1>3, <1>4 DEF Late, Draft
<1>6. \A u \in Thread : /\ u # t => thread'[u] = thread[u]
                        /\ thread'[t] = None
  BY <1>2, <1>3, <1>4
<1>7. CASE ~job[r].new
  <2>1. Become(r, Idle) /\ Idle.step = "idle"
    BY <1>4, <1>7 DEF Idle
  <2>2. \A d \in Conv : Published(d)' => Published(d)
    BY <1>4 DEF Published
  <2> QED
    BY <1>1, <1>2, <1>5, <1>6, <2>1, <2>2, OwnDraftOnly
<1>8. CASE job[r].new
  <2>1. \A g \in Request : job'[g] = IF g = r THEN next ELSE job[g]
    BY <1>4, <1>8 DEF Inv, TypeOK, Become
  <2>2. next.step = "deleting" /\ next.conv = c
    OBVIOUS
  <2> HIDE DEF next, gone
  <2>3. Single'
    BY <1>4, <1>6 DEF AloneInv, Single, NoDraft
  <2>4. ASSUME NEW g \in Request PROVE StillDraft(g)' /\ Doomed(g)'
    <3>1. CASE g = r
      <4>1. StillDraft(r)'
        BY <2>1, <2>2 DEF StillDraft, Working
      <4>2. /\ ~Published(c) /\ \A s \in Request : At(s, "create") => job[s].conv # c
            /\ \A u \in Thread : thread[u] # None /\ thread[u].conv = c => u = t
        BY <1>1, <1>8 DEF AloneInv, Doomed, Discarding, At
      <4>3. Doomed(r)'
        BY <1>4, <1>6, <2>1, <2>2, <4>2 DEF Doomed, Discarding, Published, At
      <4> QED
        BY <3>1, <4>1, <4>3
    <3>2. CASE g # r
      <4>1. StillDraft(g)'
        <5>1. Working(g) => job[g].thread \in Thread \ {t} /\ Draft(job[g].thread)
          BY <1>2, <3>2, InTime
        <5> QED
          BY <1>6, <2>1, <3>2, <5>1 DEF StillDraft, Working, Draft
      <4>2. Doomed(g)'
        BY <1>4, <1>6, <2>1, <2>2, <3>2, StillDoomed DEF AloneInv, Doomed, Published, At
      <4> QED
        BY <4>1, <4>2
    <3> QED
      BY <3>1, <3>2
  <2> QED
    BY <1>5, <2>3, <2>4 DEF AloneInv
<1> QED
  BY <1>7, <1>8

(* The conversation of a new email goes when nothing is left in it.        *)
LEMMA DeleteConversationAlone ==
  ASSUME Inv, AloneInv, NEW r \in Request, DeleteConversation(r)
  PROVE  AloneInv'
<1> DEFINE c == job[r].conv
<1>1. /\ c \in Conv /\ UNCHANGED <<thread, late, raced>> /\ conv' = [conv EXCEPT ![c] = None]
      /\ \A g \in Request : job'[g] = IF g = r THEN Idle ELSE job[g]
  BY JobFields DEF DeleteConversation, At, Inv, TypeOK, Become, history
<1>2. conv'[c] = None /\ \A d \in Conv \ {c} : conv'[d] = conv[d]
  BY <1>1 DEF Inv, TypeOK
<1>3. \A u \in Thread : thread[u] # None => thread[u].conv \in Conv
  BY DEF Inv, TypeOK, ThreadRow
<1>4. Single'
  BY <1>1, <1>2, <1>3 DEF AloneInv, Single, NoDraft
<1>5. Idle.step = "idle"
  BY DEF Idle
<1> HIDE DEF Idle
<1>6. ASSUME NEW g \in Request PROVE StillDraft(g)' /\ Doomed(g)'
  <2>1. CASE g = r
    BY <1>1, <1>5, <2>1 DEF StillDraft, Working, Doomed, Discarding, At
  <2>2. CASE g # r
    <3>1. StillDraft(g)'
      BY <1>1, <2>2 DEF AloneInv, StillDraft, Working, Draft
    <3>2. Discarding(g) => job[g].conv \in Conv
      BY JobFields DEF Discarding, At, Inv, TypeOK
    <3>3. Doomed(g)'
      BY <1>1, <1>2, <1>5, <2>2, <3>2, StillDoomed DEF AloneInv, Doomed, Published, At
    <3> QED
      BY <3>1, <3>3
  <2> QED
    BY <2>1, <2>2
<1> QED
  BY <1>1, <1>4, <1>6 DEF AloneInv

(* So no step of anybody disturbs them.                                    *)
LEMMA NextAlone == Inv /\ Alone /\ AloneInv /\ [Next]_vars => AloneInv'
<1> SUFFICES ASSUME Inv, Alone, AloneInv, [Next]_vars PROVE AloneInv'
  OBVIOUS
<1>1. Evolves
  BY NextInv
<1>2. ASSUME NEW r \in Request, NEW user \in User, NEW c \in Conv, NEW body \in Body,
             NEW kind \in {"reply", "forward", "message"}, CreateStart(r, user, c, kind, body)
      PROVE  AloneInv'
  BY <1>2, CreateStartAlone
<1>3. ASSUME NEW r \in Request, NEW t \in Thread, CreateCommit(r, t) PROVE AloneInv'
  BY <1>3, CreateCommitAlone
<1>4. ASSUME NEW r \in Request, NEW user \in User, NEW t \in Thread, SendStart(r, user, t)
      PROVE  AloneInv'
  <2> DEFINE j == [step |-> "send", user |-> user, thread |-> t,
                   conv |-> thread[t].conv, was |-> conv[thread[t].conv]]
  <2>1. Draft(t) /\ Become(r, j) /\ UNCHANGED <<thread, conv, late, raced>>
    BY <1>4, Found DEF SendStart, history
  <2>2. j.step = "send" /\ j.thread = t
    OBVIOUS
  <2> HIDE DEF j
  <2> QED
    BY <2>1, <2>2, LooksAlone
<1>5. ASSUME NEW r \in Request, NEW user \in User, NEW t \in Thread, NEW body \in Body,
             UpdateStart(r, user, t, body)
      PROVE  AloneInv'
  <2> DEFINE j == [step |-> "update", user |-> user, thread |-> t, row |-> thread[t], body |-> body]
  <2>1. Draft(t) /\ Become(r, j) /\ UNCHANGED <<thread, conv, late, raced>>
    BY <1>5, Found DEF UpdateStart, history
  <2>2. j.step = "update" /\ j.thread = t
    OBVIOUS
  <2> HIDE DEF j
  <2> QED
    BY <2>1, <2>2, LooksAlone
<1>6. ASSUME NEW r \in Request, NEW user \in User, NEW t \in Thread, DeleteStart(r, user, t)
      PROVE  AloneInv'
  BY <1>6, DeleteStartAlone
<1>7. ASSUME NEW r \in Request, SendCommit(r) PROVE AloneInv'
  BY <1>1, <1>7, SendCommitAlone
<1>8. ASSUME NEW r \in Request, UpdateCommit(r) PROVE AloneInv'
  BY <1>1, <1>8, UpdateCommitAlone
<1>9. ASSUME NEW r \in Request, DeleteThreads(r) PROVE AloneInv'
  BY <1>1, <1>9, DeleteThreadsAlone
<1>10. ASSUME NEW r \in Request, DeleteConversation(r) PROVE AloneInv'
  BY <1>10, DeleteConversationAlone
<1>11. ASSUME NEW r \in Request, Announce(r) \/ RollBack(r) \/ Crash(r) PROVE AloneInv'
  <2>1. Become(r, Idle) /\ UNCHANGED <<thread, conv, late, raced>> /\ Idle.step = "idle"
    BY <1>11 DEF Announce, RollBack, Crash, Idle, history
  <2> QED
    BY <2>1, LooksAlone
<1>12. ASSUME NEW t \in Thread, NEW c \in Conv, NEW user \in User, NEW body \in Body,
              CreateNew(t, c, user, body)
       PROVE  AloneInv'
  BY <1>12, CreateNewAlone
<1>13. ASSUME NEW t \in Thread,
              \/ PersonSends(t) \/ PersonDiscards(t)
              \/ \E body \in Body : PersonEdits(t, body)
       PROVE  AloneInv'
  BY <1>13 DEF Alone, PersonSends, PersonDiscards, PersonEdits
<1>14. ASSUME UNCHANGED vars PROVE AloneInv'
  BY <1>14 DEF vars, history, AloneInv, Single, NoDraft, StillDraft, Working, Draft, Doomed,
               Discarding, Published, At
<1> QED
  BY <1>2, <1>3, <1>4, <1>5, <1>6, <1>7, <1>8, <1>9, <1>10, <1>11, <1>12, <1>13, <1>14 DEF Next

(* As long as no two requests are about one draft and nobody uses          *)
(* FreeScout's interface, requests change, remove and send drafts of their *)
(* users only, whatever dies, and nothing is mailed twice (findOwnDraft,   *)
(* BridgeController.php:949-971).                                          *)
THEOREM Undisturbed == Spec /\ []Alone => [](OnlyDraftsTouched /\ \A t \in Thread : mails[t] <= 1)
<1>1. Init => AloneInv
  BY DEF Init, AloneInv, Single, StillDraft, Working, Doomed, Discarding, At, Idle
<1>2. Inv /\ AloneInv => OnlyDraftsTouched /\ \A t \in Thread : mails[t] <= 1
  BY DEF Inv, AloneInv, MailedOnce, OneMail, OnlyDraftsTouched
<1> QED
  BY <1>1, <1>2, NextAlone, Invariance, PTL DEF Spec
==============================================================================
