--------------------------- MODULE OperationsProofs ---------------------------
(***************************************************************************)
(* What a caller is told is true for any number of calls, any arguments    *)
(* and any uploads, and Operations implements Outcome.  FreeScout does     *)
(* what was asked, with files that are within its limits.  All of it holds *)
(* in the process too, beside the logins and their queue.                  *)
(***************************************************************************)
EXTENDS Connector, Sums, FiniteSetTheorems, SequenceTheorems, TLAPS

(* How the step of a handler, FreeScout's worker w, what is done and what  *)
(* the caller has been told fit together.                                  *)
Fit(step, w, d, t) ==
  /\ step \in {"idle", "loading"} => w.step = "none"
  /\ w.step \in {"none", "arrived"} => d = "none"
  /\ w.step = "working" => d = "part"
  /\ w.step = "done" => d \in Promise!Complete
  /\ w.step = "answered" =>
       /\ w.answer = "ok" => d \in Promise!Complete
       /\ w.answer \in {"refused", "unauthorized"} => d = "none"
  /\ step = "cleaning" => w.step = "answered" /\ w.answer = "ok"
  /\ t = "ok" => w.step = "answered" /\ w.answer = "ok"
  /\ t = "refused" =>
       \/ w.step = "none"
       \/ w.step = "answered" /\ w.answer \in {"refused", "unauthorized"}
  /\ t = "nothing" <=> step # "over"

Consistent == \A c \in Call : Fit(call[c].step, worker[c], done[c], told[c])

Inv == TypeOK /\ Consistent

(* A step that changes one call only.                                      *)
LEMMA OneCall ==
  ASSUME Inv, NEW c \in Call, NEW h \in Handler, NEW w \in Worker,
         NEW d \in Amount, NEW t \in Answer,
         call' = [call EXCEPT ![c] = h], worker' = [worker EXCEPT ![c] = w],
         done' = [done EXCEPT ![c] = d], told' = [told EXCEPT ![c] = t],
         DOMAIN posted' = Call, DOMAIN kept' = Call, store' \subseteq UploadId,
         Fit(h.step, w, d, t)
  PROVE  Inv'
<1>1. TypeOK'
  BY DEF Inv, TypeOK
<1>2. ASSUME NEW e \in Call
      PROVE  Fit(call'[e].step, worker'[e], done'[e], told'[e])
  <2>1. CASE e = c
    BY <2>1 DEF Inv, TypeOK
  <2>2. CASE e # c
    BY <2>2 DEF Inv, TypeOK, Consistent
  <2> QED
    BY <2>1, <2>2
<1> QED
  BY <1>1, <1>2 DEF Inv, Consistent

(* What a step leaves alone, in the form of OneCall.                       *)
LEMMA Kept ==
  ASSUME Inv, NEW c \in Call
  PROVE  /\ call[c] \in Handler /\ worker[c] \in Worker
         /\ done[c] \in Amount
         /\ told[c] \in Answer
         /\ Fit(call[c].step, worker[c], done[c], told[c])
         /\ call' = call => call' = [call EXCEPT ![c] = call[c]]
         /\ worker' = worker => worker' = [worker EXCEPT ![c] = worker[c]]
         /\ done' = done => done' = [done EXCEPT ![c] = done[c]]
         /\ told' = told => told' = [told EXCEPT ![c] = told[c]]
         /\ posted' = posted => DOMAIN posted' = Call
         /\ kept' = kept => DOMAIN kept' = Call
         /\ store \subseteq UploadId
BY DEF Inv, TypeOK, Consistent

(* A handler that only goes on to another step.                            *)
LEMMA NewStep ==
  ASSUME NEW h \in Handler, NEW step \in {"idle", "loading", "waiting", "cleaning", "over"}
  PROVE  /\ [h EXCEPT !.step = step] \in Handler
         /\ [h EXCEPT !.step = step].step = step
BY DEF Handler

-----------------------------------------------------------------------------
(* Whatever an item turns out to be is a file.                             *)
LEMMA FetchedFile ==
  ASSUME NEW item \in Item, store \subseteq UploadId, NEW f \in Fetched(item)
  PROVE  /\ f \in File
         /\ item.given = {"upload"} => item.upload \in UploadId
<1> USE OperationsAssumption
<1>1. CASE "upload" \in item.given
  <2>1. PICK id \in {item.upload} \cap store :
          f = [name |-> NameOf(item), data |-> Stored[id].data, size |-> Stored[id].size]
    BY <1>1 DEF Fetched
  <2>2. id \in UploadId /\ id = item.upload
    OBVIOUS
  <2>3. Stored[id] \in File
    BY <2>2
  <2>4. NameOf(item) \in STRING
    BY <2>2, <2>3 DEF NameOf, File, Item
  <2> QED
    BY <2>1, <2>2, <2>3, <2>4 DEF File
<1>2. CASE "upload" \notin item.given
  <2>1. PICK n \in (IF "url" \in item.given THEN 0..MaxBytes ELSE {item.size} \ {Bad}) :
          f = [name |-> item.name, data |-> item.data, size |-> n]
    BY <1>2 DEF Fetched
  <2>2. n \in Nat
    BY DEF Item
  <2> QED
    BY <1>2, <2>1, <2>2 DEF File, Item
<1> QED
  BY <1>1, <1>2

(* Nothing has been asked, done or told at the start.                      *)
LEMMA InitInv == Init => Inv
<1> SUFFICES ASSUME Init PROVE Inv
  OBVIOUS
<1>1. <<>> \in Seq(File) /\ <<>> \in Seq(Item) /\ <<>> \in Seq(UploadId)
  OBVIOUS
<1>2. Idle \in Handler
  BY <1>1 DEF Idle, Handler
<1>3. [step |-> "none", answer |-> "none"] \in Worker
  BY DEF Worker
<1>4. TypeOK
  BY <1>2, <1>3 DEF Init, TypeOK, Amount, Answer
<1>5. Consistent
  BY DEF Init, Consistent, Fit, Idle
<1> QED
  BY <1>4, <1>5 DEF Inv

(* A call that is refused at the door has reached nobody.                  *)
LEMMA ReceiveInv ==
  ASSUME Inv, NEW c \in Call, NEW in \in Input, Receive(c, in)
  PROVE  Inv'
<1>1. in.files \in Seq(File) /\ in.items \in Seq(Item)
  BY OperationsAssumption
<1>2. <<>> \in Seq(File) /\ <<>> \in Seq(Item)
  OBVIOUS
<1>3. worker[c].step = "none" /\ done[c] = "none" /\ told[c] = "nothing"
  BY Kept DEF Receive, Fit
<1>4. CASE Refused(in)
  <2> DEFINE h == [[call[c] EXCEPT !.step = "over"] EXCEPT !.in = in]
  <2>1. h \in Handler /\ h.step = "over"
    BY Kept DEF Handler
  <2>2. call' = [call EXCEPT ![c] = h]
    BY <1>4 DEF Receive, Inv, TypeOK
  <2> DEFINE answer == Failure(in.front, "refused")
  <2>6. answer \in {"refused", "failed"} /\ answer \in Answer
    BY DEF Failure, Answer
  <2>3. Fit(h.step, worker[c], done[c], answer)
    BY <1>3, <2>1, <2>6 DEF Fit
  <2>4. /\ worker' = [worker EXCEPT ![c] = worker[c]]
        /\ done' = [done EXCEPT ![c] = done[c]]
        /\ told' = [told EXCEPT ![c] = answer]
        /\ store' \subseteq UploadId
        /\ DOMAIN posted' = Call /\ DOMAIN kept' = Call
    BY <1>4, Kept DEF Receive
  <2>5. worker[c] \in Worker /\ done[c] \in Amount
    BY Kept
  <2> HIDE DEF h, answer
  <2> QED
    BY <2>1, <2>2, <2>3, <2>4, <2>5, <2>6, OneCall
<1>5. CASE ~Refused(in)
  <2> DEFINE files == IF in.op \in Attaching THEN in.files ELSE <<>>
             items == IF in.op \in Attaching THEN in.items ELSE <<>>
             h == [[[[call[c] EXCEPT !.step = "loading"] EXCEPT !.in = in]
                     EXCEPT !.files = files] EXCEPT !.items = items]
  <2>1. h \in Handler /\ h.step = "loading"
    BY <1>1, <1>2, Kept DEF Handler
  <2>2. call' = [call EXCEPT ![c] = h]
    BY <1>5 DEF Receive, Inv, TypeOK
  <2>3. Fit(h.step, worker[c], done[c], told[c])
    BY <1>3, <2>1 DEF Fit
  <2>4. /\ worker' = [worker EXCEPT ![c] = worker[c]]
        /\ done' = [done EXCEPT ![c] = done[c]]
        /\ told' = [told EXCEPT ![c] = told[c]]
        /\ store' \subseteq UploadId
        /\ DOMAIN posted' = Call /\ DOMAIN kept' = Call
    BY <1>5, Kept DEF Receive
  <2>5. worker[c] \in Worker /\ done[c] \in Amount /\ told[c] \in Answer
    BY Kept
  <2> HIDE DEF h
  <2> QED
    BY <2>1, <2>2, <2>3, <2>4, <2>5, OneCall
<1> QED
  BY <1>4, <1>5

(* The caller is told something, and the call is over.                     *)
LEMMA TellInv ==
  ASSUME Inv, NEW c \in Call, NEW answer \in {"ok", "refused", "failed"}, Tell(c, answer),
         UNCHANGED <<posted, worker, done, kept>>, store' \subseteq UploadId,
         Fit("over", worker[c], done[c], answer)
  PROVE  Inv'
<1> DEFINE h == [call[c] EXCEPT !.step = "over"]
<1>1. h \in Handler /\ h.step = "over"
  BY Kept, NewStep
<1>2. call' = [call EXCEPT ![c] = h]
  BY DEF Tell
<1>3. /\ worker' = [worker EXCEPT ![c] = worker[c]]
      /\ done' = [done EXCEPT ![c] = done[c]]
      /\ told' = [told EXCEPT ![c] = answer]
      /\ DOMAIN posted' = Call /\ DOMAIN kept' = Call
  BY Kept DEF Tell
<1>4. worker[c] \in Worker /\ done[c] \in Amount
  BY Kept
<1>5. Fit(h.step, worker[c], done[c], answer)
  BY <1>1
<1>6. answer \in Answer
  BY DEF Answer
<1> HIDE DEF h
<1> QED
  BY <1>1, <1>2, <1>3, <1>4, <1>5, <1>6, OneCall

(* A file that is loaded, or cannot be had, comes before FreeScout is      *)
(* asked.                                                                  *)
LEMMA LoadItemInv ==
  ASSUME Inv, NEW c \in Call, LoadItem(c)
  PROVE  Inv'
<1> DEFINE item == Head(call[c].items)
<1>1. item \in Item /\ Tail(call[c].items) \in Seq(Item)
  <2>1. call[c].items \in Seq(Item) /\ call[c].items # <<>>
    BY Kept DEF LoadItem, Handler
  <2> QED
    BY <2>1
<1>2. worker[c].step = "none" /\ done[c] = "none" /\ told[c] = "nothing"
  BY Kept DEF LoadItem, Fit
<1> DEFINE answer == Failure(call[c].in.front, "refused")
<1>3. CASE Tell(c, answer)
  <2>1. answer \in {"refused", "failed"}
    BY DEF Failure
  <2>2. Fit("over", worker[c], done[c], answer)
    BY <1>2, <2>1 DEF Fit
  <2> QED
    BY <1>3, <2>1, <2>2, Kept, TellInv DEF LoadItem
<1>4. ASSUME NEW f \in Fetched(item),
             call' = [call EXCEPT ![c].files = Append(@, f), ![c].items = Tail(@),
                ![c].used = IF item.given = {"upload"} THEN Append(@, item.upload) ELSE @],
             told' = told
      PROVE  Inv'
  <2>1. f \in File /\ (item.given = {"upload"} => item.upload \in UploadId)
    BY <1>1, Kept, FetchedFile
  <2> DEFINE files == Append(call[c].files, f)
             used == IF item.given = {"upload"} THEN Append(call[c].used, item.upload)
                     ELSE call[c].used
             h == [[[call[c] EXCEPT !.files = files] EXCEPT !.items = Tail(call[c].items)]
                     EXCEPT !.used = used]
  <2>2. files \in Seq(File) /\ used \in Seq(UploadId)
    BY <2>1, Kept DEF Handler
  <2>3. h \in Handler /\ h.step = call[c].step
    BY <1>1, <2>2, Kept DEF Handler
  <2>4. call' = [call EXCEPT ![c] = h]
    BY <1>4, Kept DEF Inv, TypeOK, Handler
  <2>5. Fit(h.step, worker[c], done[c], told[c])
    BY <2>3, Kept
  <2>6. /\ worker' = [worker EXCEPT ![c] = worker[c]]
        /\ done' = [done EXCEPT ![c] = done[c]]
        /\ told' = [told EXCEPT ![c] = told[c]]
        /\ store' \subseteq UploadId
        /\ DOMAIN posted' = Call /\ DOMAIN kept' = Call
    BY <1>4, Kept DEF LoadItem
  <2>7. worker[c] \in Worker /\ done[c] \in Amount /\ told[c] \in Answer
    BY Kept
  <2> HIDE DEF h
  <2> QED
    BY <2>3, <2>4, <2>5, <2>6, <2>7, OneCall
<1> QED
  BY <1>3, <1>4 DEF LoadItem

(* FreeScout has the request and has done nothing yet.                     *)
LEMMA PostInv ==
  ASSUME Inv, NEW c \in Call, Post(c)
  PROVE  Inv'
<1> DEFINE h == [call[c] EXCEPT !.step = "waiting"]
           w == [worker[c] EXCEPT !.step = "arrived"]
<1>1. h \in Handler /\ h.step = "waiting"
  BY Kept, NewStep
<1>2. w \in Worker /\ w.step = "arrived"
  BY Kept DEF Worker
<1>3. call' = [call EXCEPT ![c] = h] /\ worker' = [worker EXCEPT ![c] = w]
  BY DEF Post
<1>4. DOMAIN posted' = Call /\ DOMAIN kept' = Call
  BY DEF Post, Inv, TypeOK
<1>5. Fit(h.step, w, done[c], told[c])
  BY <1>1, <1>2, Kept DEF Fit, Post
<1>6. /\ done' = [done EXCEPT ![c] = done[c]]
      /\ told' = [told EXCEPT ![c] = told[c]]
      /\ store' \subseteq UploadId
  BY Kept DEF Post
<1>7. done[c] \in Amount /\ told[c] \in Answer
  BY Kept
<1> HIDE DEF h, w
<1> QED
  BY <1>1, <1>2, <1>3, <1>4, <1>5, <1>6, <1>7, OneCall

(* An answer is passed on for what it says; no answer is a failure.        *)
LEMMA HearsInv ==
  ASSUME Inv, NEW c \in Call, Hears(c)
  PROVE  Inv'
<1>1. CASE NoAnswer(c)
  <2>1. Fit("over", worker[c], done[c], "failed")
    BY <1>1, Kept DEF NoAnswer, Fit
  <2> QED
    BY <1>1, <2>1, Kept, TellInv DEF NoAnswer
<1>2. CASE AnswerArrives(c) /\ worker[c].answer = "ok"
  <2> DEFINE h == [call[c] EXCEPT !.step = "cleaning"]
  <2>1. h \in Handler /\ h.step = "cleaning"
    BY Kept, NewStep
  <2>2. call' = [call EXCEPT ![c] = h]
    BY <1>2 DEF AnswerArrives
  <2>3. Fit(h.step, worker[c], done[c], told[c])
    BY <1>2, <2>1, Kept DEF AnswerArrives, Fit
  <2>4. /\ worker' = [worker EXCEPT ![c] = worker[c]]
        /\ done' = [done EXCEPT ![c] = done[c]]
        /\ told' = [told EXCEPT ![c] = told[c]]
        /\ store' \subseteq UploadId
        /\ DOMAIN posted' = Call /\ DOMAIN kept' = Call
    BY <1>2, Kept DEF AnswerArrives
  <2>5. worker[c] \in Worker /\ done[c] \in Amount /\ told[c] \in Answer
    BY Kept
  <2> HIDE DEF h
  <2> QED
    BY <2>1, <2>2, <2>3, <2>4, <2>5, OneCall
<1>3. CASE AnswerArrives(c) /\ worker[c].answer # "ok"
  <2> DEFINE answer == Failure(call[c].in.front, worker[c].answer)
  <2>1. answer \in {"refused", "failed"}
    BY DEF Failure
  <2>2. answer = "refused" => worker[c].answer = "refused"
    BY DEF Failure
  <2>3. Fit("over", worker[c], done[c], answer)
    BY <1>3, <2>1, <2>2, Kept DEF AnswerArrives, Fit
  <2> QED
    BY <1>3, <2>1, <2>3, Kept, TellInv DEF AnswerArrives
<1> QED
  BY <1>1, <1>2, <1>3 DEF Hears

(* The uploads are removed, and "ok" is told, after a good answer only.    *)
LEMMA CleanInv ==
  ASSUME Inv, NEW c \in Call, Clean(c)
  PROVE  Inv'
<1>1. CASE call[c].used = <<>>
  <2>1. Fit("over", worker[c], done[c], "ok")
    BY Kept DEF Clean, Fit
  <2> QED
    BY <1>1, <2>1, Kept, TellInv DEF Clean
<1>2. CASE call[c].used # <<>>
  <2> DEFINE h == [call[c] EXCEPT !.used = Tail(call[c].used)]
  <2>1. Tail(call[c].used) \in Seq(UploadId)
    BY <1>2, Kept DEF Handler
  <2>2. h \in Handler /\ h.step = call[c].step
    BY <2>1, Kept DEF Handler
  <2>3. call' = [call EXCEPT ![c] = h]
    BY <1>2 DEF Clean
  <2>6. Fit(h.step, worker[c], done[c], told[c])
    BY <2>2, Kept
  <2>4. /\ worker' = [worker EXCEPT ![c] = worker[c]]
        /\ done' = [done EXCEPT ![c] = done[c]]
        /\ told' = [told EXCEPT ![c] = told[c]]
        /\ store' \subseteq UploadId
        /\ DOMAIN posted' = Call /\ DOMAIN kept' = Call
    BY <1>2, Kept DEF Clean
  <2>5. worker[c] \in Worker /\ done[c] \in Amount /\ told[c] \in Answer
    BY Kept
  <2> HIDE DEF h
  <2> QED
    BY <2>2, <2>3, <2>6, <2>4, <2>5, OneCall
<1> QED
  BY <1>1, <1>2

(* FreeScout answers in step with what it has done.                        *)
LEMMA AnswersInv ==
  ASSUME Inv, NEW c \in Call, NEW a \in {"ok", "refused", "unauthorized", "broken"},
         worker[c].step \in {"arrived", "working", "done"}, Answers(c, a),
         a = "ok" => done[c] \in Promise!Complete,
         a \in {"refused", "unauthorized"} => done[c] = "none",
         UNCHANGED <<call, posted, done, kept, store, told>>
  PROVE  Inv'
<1> DEFINE w == [step |-> "answered", answer |-> a]
<1>1. w \in Worker
  BY DEF Worker
<1>2. Fit(call[c].step, w, done[c], told[c])
  BY Kept DEF Fit
<1>3. worker' = [worker EXCEPT ![c] = w]
  BY DEF Answers
<1> HIDE DEF w
<1>4. TypeOK'
  BY <1>1, <1>3 DEF Inv, TypeOK
<1>5. ASSUME NEW e \in Call
      PROVE  Fit(call[e].step, worker'[e], done[e], told[e])
  <2>1. worker'[e] = IF e = c THEN w ELSE worker[e]
    BY <1>3 DEF Inv, TypeOK
  <2> QED
    BY <1>2, <2>1, Kept
<1> QED
  BY <1>4, <1>5 DEF Inv, Consistent

(* FreeScout's own steps, while the caller waits or has gone.              *)
LEMMA WorkerInv ==
  ASSUME Inv, NEW c \in Call, Refuses(c) \/ Perform(c) \/ Succeeds(c) \/ Breaks(c)
  PROVE  Inv'
<1>1. CASE Refuses(c)
  <2>1. worker[c].step = "arrived" /\ done[c] = "none"
    BY <1>1, Kept DEF Refuses, Undecided, Fit
  <2> QED
    BY <1>1, <2>1, AnswersInv DEF Refuses
<1>2. CASE Perform(c)
  <2>1. PICK step \in {"done", "working"}, d \in {"part", "short", "all"} :
          /\ (step = "done" => d \in Promise!Complete) /\ (step = "working" => d = "part")
          /\ worker' = [worker EXCEPT ![c] = [worker[c] EXCEPT !.step = step]]
          /\ done' = [done EXCEPT ![c] = d]
          /\ DOMAIN kept' = Call
    BY <1>2, Kept DEF Perform, Promise!Complete, Inv, TypeOK
  <2> DEFINE w == [worker[c] EXCEPT !.step = step]
  <2>2. w \in Worker /\ w.step = step
    BY Kept DEF Worker
  <2>3. Fit(call[c].step, w, d, told[c])
    BY <1>2, <2>1, <2>2, Kept DEF Perform, Fit
  <2>4. /\ call' = [call EXCEPT ![c] = call[c]]
        /\ worker' = [worker EXCEPT ![c] = w]
        /\ told' = [told EXCEPT ![c] = told[c]]
        /\ store' \subseteq UploadId
        /\ DOMAIN posted' = Call
    BY <1>2, <2>1, Kept DEF Perform
  <2>5. call[c] \in Handler /\ told[c] \in Answer
    BY Kept
  <2>6. d \in Amount
    BY DEF Amount
  <2> HIDE DEF w
  <2> QED
    BY <2>1, <2>2, <2>3, <2>4, <2>5, <2>6, OneCall
<1>3. CASE Succeeds(c)
  <2>1. worker[c].step = "done" /\ done[c] \in Promise!Complete
    BY <1>3, Kept DEF Succeeds, Fit
  <2> QED
    BY <1>3, <2>1, AnswersInv DEF Succeeds
<1>4. CASE Breaks(c)
  BY <1>4, AnswersInv DEF Breaks
<1> QED
  BY <1>1, <1>2, <1>3, <1>4

(* An upload that goes, and a restart, change nothing about what was done. *)
LEMMA AroundInv ==
  ASSUME Inv, (\E id \in UploadId : UploadGoes(id)) \/ Restart
  PROVE  Inv'
<1>1. CASE \E id \in UploadId : UploadGoes(id)
  BY <1>1 DEF Inv, TypeOK, Consistent, UploadGoes
<1>2. CASE Restart
  <2>1. ASSUME NEW c \in Call
        PROVE  /\ call'[c] \in Handler
               /\ told'[c] \in Answer
               /\ Fit(call'[c].step, worker'[c], done'[c], told'[c])
    <3>1. CASE Running(c)
      <4>1. call'[c] \in Handler /\ call'[c].step = "over" /\ told'[c] = "failed"
        BY <1>2, <3>1, Kept, NewStep DEF Restart
      <4> QED
        BY <1>2, <4>1, Kept DEF Restart, Fit, Answer
    <3>2. CASE ~Running(c)
      BY <1>2, <3>2, Kept DEF Restart
    <3> QED
      BY <3>1, <3>2
  <2>2. TypeOK'
    BY <1>2, <2>1 DEF Restart, Inv, TypeOK
  <2> QED
    BY <2>1, <2>2 DEF Inv, Consistent
<1> QED
  BY <1>1, <1>2

(* Every step keeps the invariant.                                         *)
LEMMA NextInv == Inv /\ [Next]_vars => Inv'
<1> SUFFICES ASSUME Inv, [Next]_vars PROVE Inv'
  OBVIOUS
<1>1. CASE UNCHANGED vars
  BY <1>1 DEF vars, Inv, TypeOK, Consistent
<1>2. CASE Next
  BY <1>2, ReceiveInv, LoadItemInv, PostInv, HearsInv, CleanInv, WorkerInv, AroundInv
     DEF Next, Steps
<1> QED
  BY <1>1, <1>2

-----------------------------------------------------------------------------
(* The handler of a call, FreeScout's worker and the answer stay of their  *)
(* types and in step with each other.                                      *)
THEOREM Invariance == Spec => []Inv
  BY InitInv, NextInv, PTL DEF Spec

(* A call, its request, its worker and its answer keep their types.        *)
THEOREM Typing == Spec => []TypeOK
  BY Invariance, PTL DEF Inv

-----------------------------------------------------------------------------
(* Nothing is done and nobody is told anything at the start of Outcome     *)
(* either.                                                                 *)
LEMMA InitOutcome == Init => Promise!Init
  BY DEF Init, Promise!Init

(* A step does a part of a call, tells one caller, leaves some without an  *)
(* answer, or is not seen from outside.                                    *)
LEMMA StepOutcome == Inv /\ [Next]_vars => [Promise!Next]_(Promise!vars)
<1> SUFFICES ASSUME Inv, [Next]_vars PROVE [Promise!Next]_(Promise!vars)
  OBVIOUS
<1> USE DEF Promise!vars
<1>1. ASSUME NEW c \in Call, NEW in \in Input, Receive(c, in)
      PROVE  (\E answer \in {"refused", "failed"} : Promise!Tell(c, answer)) \/ UNCHANGED Promise!vars
  <2>1. done[c] = "none" /\ told[c] = "nothing"
    BY <1>1, Kept DEF Receive, Fit
  <2> QED
    BY <1>1, <2>1 DEF Receive, Failure, Promise!Tell
<1>2. ASSUME NEW c \in Call, LoadItem(c)
      PROVE  (\E answer \in {"refused", "failed"} : Promise!Tell(c, answer)) \/ UNCHANGED Promise!vars
  <2>1. done[c] = "none" /\ told[c] = "nothing"
    BY <1>2, Kept DEF LoadItem, Fit
  <2> QED
    BY <1>2, <2>1 DEF LoadItem, Tell, Failure, Promise!Tell
<1>3. ASSUME NEW c \in Call, Hears(c)
      PROVE  (\E answer \in {"refused", "failed"} : Promise!Tell(c, answer)) \/ UNCHANGED Promise!vars
  <2>1. told[c] = "nothing"
    BY <1>3, Kept DEF Hears, AnswerArrives, NoAnswer, Fit
  <2>2. CASE NoAnswer(c)
    BY <2>1, <2>2 DEF NoAnswer, Tell, Promise!Tell
  <2>3. CASE AnswerArrives(c)
    <3>1. worker[c].answer \in {"refused", "unauthorized"} => done[c] = "none"
      BY <2>3, Kept DEF AnswerArrives, Fit
    <3> QED
      BY <2>1, <2>3, <3>1 DEF AnswerArrives, Tell, Failure, Promise!Tell
  <2> QED
    BY <1>3, <2>2, <2>3 DEF Hears
<1>4. ASSUME NEW c \in Call, Clean(c)
      PROVE  Promise!Tell(c, "ok") \/ UNCHANGED Promise!vars
  <2>1. told[c] = "nothing" /\ done[c] \in Promise!Complete
    BY <1>4, Kept DEF Clean, Fit
  <2> QED
    BY <1>4, <2>1 DEF Clean, Tell, Promise!Tell
<1>5. ASSUME NEW c \in Call, Perform(c)
      PROVE  Promise!Do(c)
  <2>1. told[c] \in {"nothing", "failed"} /\ done[c] \notin Promise!Complete
    BY <1>5, Kept DEF Perform, Fit, Answer, Promise!Complete
  <2> QED
    BY <1>5, <2>1 DEF Perform, Promise!Do, Promise!Complete
<1>6. CASE Restart
  <2>1. told' = [c \in Call |-> IF c \in {d \in Call : Running(d)} /\ told[c] = "nothing"
                                  THEN "failed" ELSE told[c]]
    <3>1. \A c \in Call : Running(c) => told[c] = "nothing"
      BY Kept DEF Running, Fit
    <3> QED
      BY <1>6, <3>1, Kept DEF Restart
  <2>2. Promise!Hang({d \in Call : Running(d)})
    BY <1>6, <2>1 DEF Restart, Promise!Hang
  <2> QED
    BY <2>2 DEF Promise!Next
<1>7. ASSUME NEW c \in Call, Post(c) \/ Refuses(c) \/ Succeeds(c) \/ Breaks(c)
      PROVE  UNCHANGED Promise!vars
  BY <1>7 DEF Post, Refuses, Succeeds, Breaks
<1>8. ASSUME NEW id \in UploadId, UploadGoes(id)
      PROVE  UNCHANGED Promise!vars
  BY <1>8 DEF UploadGoes
<1>9. CASE UNCHANGED vars
  BY <1>9 DEF vars
<1> QED
  BY <1>1, <1>2, <1>3, <1>4, <1>5, <1>6, <1>7, <1>8, <1>9 DEF Next, Steps, Promise!Next

(* Every behaviour of the handlers and of FreeScout is one that Outcome    *)
(* allows.                                                                 *)
THEOREM Refinement == Spec => ImplementsOutcome
  BY InitOutcome, StepOutcome, Invariance, PTL DEF Spec, ImplementsOutcome, Promise!Spec

-----------------------------------------------------------------------------
(* What FreeScout is asked to do.                                          *)
Entry(item) ==
  <<FileName(NameOf(item)), IF item.given = {"upload"} THEN Stored[item.upload].data ELSE item.data>>
Loaded(files) == [i \in DOMAIN files |-> <<FileName(files[i].name), files[i].data>>]
ToLoad(items) == [i \in DOMAIN items |-> Entry(items[i])]

Carried(in) == IF in.op \in Attaching THEN Named(in) ELSE <<>>

AskedFor(p, in) ==
  /\ p.path = Path(in.op)
  /\ p.on = Target(in.op, Args(in))
  /\ p.payload = Payload(in.op, Args(in))
  /\ StoredFiles(p, DOMAIN p.files) = Carried(in)

(* The files of a call are those it has loaded and those still to load.    *)
AskInv ==
  \A c \in Call :
    /\ call[c].step # "idle" => call[c].in \in Input
    /\ call[c].step = "loading" => Loaded(call[c].files) \o ToLoad(call[c].items) = Carried(call[c].in)
    /\ worker[c].step # "none" => AskedFor(posted[c], call[c].in)

(* A file that was fetched has the name and the data of its item.          *)
LEMMA FetchedEntry ==
  ASSUME NEW item \in Item, NEW f \in Fetched(item)
  PROVE  <<FileName(f.name), f.data>> = Entry(item)
<1>1. CASE "upload" \in item.given
  <2>1. Cardinality(item.given) = 1
    BY <1>1 DEF Fetched, WellNamed
  <2>2. IsFiniteSet(item.given)
    <3>1. item.given \subseteq {"upload", "data", "url"}
      BY DEF Item
    <3>2. IsFiniteSet({"upload"} \cup {"data"} \cup {"url"})
      BY FS_Singleton, FS_Union
    <3> QED
      BY <3>1, <3>2, FS_Subset
  <2>3. item.given = {"upload"}
    BY <1>1, <2>1, <2>2, FS_Singleton
  <2> QED
    BY <1>1, <2>3 DEF Fetched, Entry
<1>2. CASE "upload" \notin item.given
  <2>1. f.name = item.name /\ f.data = item.data
    BY <1>2 DEF Fetched
  <2>2. NameOf(item) = item.name /\ item.given # {"upload"}
    BY <1>2 DEF NameOf
  <2> QED
    BY <2>1, <2>2 DEF Entry
<1> QED
  BY <1>1, <1>2

(* b is a with the first of e at its end, and d is e without it.           *)
Moved(S, a, b, d, e) ==
  /\ a \in Seq(S) /\ b \in Seq(S) /\ d \in Seq(S) /\ e \in Seq(S)
  /\ Len(b) = Len(a) + 1 /\ Len(e) = Len(d) + 1
  /\ \A i \in 1..Len(a) : b[i] = a[i]
  /\ b[Len(a) + 1] = e[1]
  /\ \A i \in 1..Len(d) : e[i + 1] = d[i]

(* The first of one sequence may as well be the last of the other.         *)
LEMMA Splice ==
  ASSUME NEW S, NEW a, NEW b, NEW d, NEW e, Moved(S, a, b, d, e)
  PROVE  b \o d = a \o e
<1> USE DEF Moved
<1>1. /\ b \o d \in Seq(S) /\ Len(b \o d) = Len(b) + Len(d)
      /\ \A i \in 1..(Len(b) + Len(d)) : (b \o d)[i] = IF i <= Len(b) THEN b[i] ELSE d[i - Len(b)]
  BY ConcatProperties
<1>2. /\ a \o e \in Seq(S) /\ Len(a \o e) = Len(a) + Len(e)
      /\ \A i \in 1..(Len(a) + Len(e)) : (a \o e)[i] = IF i <= Len(a) THEN a[i] ELSE e[i - Len(a)]
  BY ConcatProperties
<1>3. Len(a) \in Nat /\ Len(d) \in Nat
  OBVIOUS
<1>4. ASSUME NEW i \in 1..(Len(a) + Len(e))
      PROVE  (b \o d)[i] = (a \o e)[i]
  <2>1. CASE i <= Len(a) + 1
    BY <1>1, <1>2, <1>3, <2>1
  <2>2. CASE i > Len(a) + 1
    <3>1. i - Len(b) \in 1..Len(d) /\ (i - Len(b)) + 1 = i - Len(a)
      BY <1>3, <2>2
    <3>2. e[i - Len(a)] = d[i - Len(b)]
      BY <3>1
    <3>3. (b \o d)[i] = d[i - Len(b)]
      BY <1>1, <1>3, <2>2
    <3>4. (a \o e)[i] = e[i - Len(a)]
      BY <1>2, <1>3, <2>2
    <3> QED
      BY <3>2, <3>3, <3>4
  <2> QED
    BY <1>3, <2>1, <2>2
<1> DEFINE left == b \o d
           right == a \o e
<1>5. left \in Seq(S) /\ right \in Seq(S) /\ Len(left) = Len(right)
  BY <1>1, <1>2, <1>3
<1>6. \A i \in 1..Len(left) : left[i] = right[i]
  BY <1>1, <1>3, <1>4
<1>7. left = right
  <2> HIDE DEF left, right
  <2> QED
    BY <1>5, <1>6, SeqEqual
<1> QED
  BY <1>7

(* Loading one file moves it from one side to the other.                   *)
LEMMA MoveOne ==
  ASSUME NEW files \in Seq(File), NEW items \in Seq(Item), items # <<>>, NEW f \in File,
         <<FileName(f.name), f.data>> = Entry(Head(items))
  PROVE  Loaded(Append(files, f)) \o ToLoad(Tail(items)) = Loaded(files) \o ToLoad(items)
<1> DEFINE n == Len(files)
           m == Len(items)
           S == {Entry(item) : item \in Item} \cup {<<FileName(g.name), g.data>> : g \in File}
<1>1. n \in Nat /\ m \in Nat /\ m > 0
  OBVIOUS
<1>2. /\ DOMAIN files = 1..n /\ DOMAIN items = 1..m /\ DOMAIN Append(files, f) = 1..(n + 1)
      /\ DOMAIN Tail(items) = 1..(m - 1)
  OBVIOUS
<1>3. /\ \A i \in 1..n : Append(files, f)[i] = files[i]
      /\ Append(files, f)[n + 1] = f
      /\ \A i \in 1..(m - 1) : Tail(items)[i] = items[i + 1]
      /\ Head(items) = items[1]
  OBVIOUS
<1>4. Loaded(files) \in Seq(S) /\ Len(Loaded(files)) = n
  BY <1>1, <1>2, IsASeq DEF Loaded
<1>5. ToLoad(items) \in Seq(S) /\ Len(ToLoad(items)) = m
  BY <1>1, <1>2, IsASeq DEF ToLoad
<1>6. Loaded(Append(files, f)) \in Seq(S) /\ Len(Loaded(Append(files, f))) = n + 1
  BY <1>1, <1>2, <1>3, IsASeq DEF Loaded
<1>7. ToLoad(Tail(items)) \in Seq(S) /\ Len(ToLoad(Tail(items))) = m - 1
  BY <1>1, <1>2, <1>3, IsASeq DEF ToLoad
<1>8. /\ \A i \in 1..n : Loaded(Append(files, f))[i] = Loaded(files)[i]
      /\ Loaded(Append(files, f))[n + 1] = ToLoad(items)[1]
  <2>1. \A i \in 1..n : Loaded(Append(files, f))[i] = Loaded(files)[i]
    BY <1>1, <1>2, <1>3 DEF Loaded
  <2>2. Loaded(Append(files, f))[n + 1] = <<FileName(f.name), f.data>>
    BY <1>1, <1>2, <1>3 DEF Loaded
  <2>3. ToLoad(items)[1] = Entry(Head(items))
    BY <1>1, <1>2, <1>3 DEF ToLoad
  <2> QED
    BY <2>1, <2>2, <2>3
<1>9. \A i \in 1..(m - 1) : ToLoad(items)[i + 1] = ToLoad(Tail(items))[i]
  BY <1>1, <1>2, <1>3 DEF ToLoad
<1> DEFINE a == Loaded(files)
           b == Loaded(Append(files, f))
           d == ToLoad(Tail(items))
           e == ToLoad(items)
<1>10. Moved(S, a, b, d, e)
  <2>1. a \in Seq(S) /\ b \in Seq(S) /\ d \in Seq(S) /\ e \in Seq(S)
    BY <1>4, <1>5, <1>6, <1>7
  <2>2. Len(b) = Len(a) + 1 /\ Len(e) = Len(d) + 1
    BY <1>1, <1>4, <1>5, <1>6, <1>7
  <2>3. (\A i \in 1..Len(a) : b[i] = a[i]) /\ b[Len(a) + 1] = e[1]
    BY <1>4, <1>8
  <2>4. \A i \in 1..Len(d) : e[i + 1] = d[i]
    BY <1>7, <1>9
  <2> QED
    BY <2>1, <2>2, <2>3, <2>4 DEF Moved
<1>11. b \o d = a \o e
  <2> HIDE DEF S, a, b, d, e, n, m
  <2> QED
    BY <1>10, Splice
<1> QED
  BY <1>11

(* When nothing is left to load, the files are all there.                  *)
LEMMA NothingLeft ==
  ASSUME NEW files \in Seq(File)
  PROVE  Loaded(files) \o ToLoad(<<>>) = Loaded(files)
<1> DEFINE S == {<<FileName(g.name), g.data>> : g \in File}
<1>1. Loaded(files) \in Seq(S)
  BY IsASeq DEF Loaded
<1>2. ToLoad(<<>>) = <<>>
  <2>1. ToLoad(<<>>) \in Seq(S) /\ Len(ToLoad(<<>>)) = 0
    <3>1. DOMAIN <<>> = 1..0
      OBVIOUS
    <3> QED
      BY <3>1, IsASeq DEF ToLoad
  <2> QED
    BY <2>1
<1> HIDE DEF S
<1> QED
  BY <1>1, <1>2, ConcatEmptySeq

(* What does not change any more once a request has been made.             *)
LEMMA Settled ==
  ASSUME Inv, [Next]_vars, NEW c \in Call
  PROVE  /\ call[c].step # "idle" => call'[c].in = call[c].in
         /\ worker[c].step # "none" => posted'[c] = posted[c] /\ worker'[c].step # "none"
         /\ worker[c].step = "none" /\ worker'[c].step # "none" => Post(c)
         /\ worker'[c].step = "none" => posted'[c] = posted[c]
         /\ call'[c].step # "idle" => call[c].step # "idle" \/ \E in \in Input : Receive(c, in)
         /\ call'[c].step = "loading" =>
              \/ call'[c] = call[c]
              \/ \E in \in Input : Receive(c, in) /\ ~Refused(in)
              \/ LoadItem(c)
<1> DEFINE Goal(e) ==
      /\ call[e].step # "idle" => call'[e].in = call[e].in
      /\ worker[e].step # "none" => posted'[e] = posted[e] /\ worker'[e].step # "none"
      /\ worker[e].step = "none" /\ worker'[e].step # "none" => Post(e)
      /\ worker'[e].step = "none" => posted'[e] = posted[e]
      /\ call'[e].step # "idle" => call[e].step # "idle" \/ \E in \in Input : Receive(e, in)
      /\ call'[e].step = "loading" =>
           \/ call'[e] = call[e]
           \/ \E in \in Input : Receive(e, in) /\ ~Refused(in)
           \/ LoadItem(e)
<1>1. /\ call \in [Call -> Handler] /\ worker \in [Call -> Worker]
      /\ DOMAIN posted = Call
  BY DEF Inv, TypeOK
<1>2. ASSUME NEW d \in Call, NEW in \in Input, Receive(d, in)
      PROVE  Goal(c)
  <2>1. call[d].step = "idle" /\ (call'[d].step = "loading" => ~Refused(in))
    BY <1>1, <1>2 DEF Receive, Handler
  <2>2. c # d => call'[c] = call[c]
    BY <1>1, <1>2 DEF Receive, Handler
  <2>3. posted' = posted /\ worker' = worker
    BY <1>2 DEF Receive
  <2> QED
    BY <1>2, <2>1, <2>2, <2>3
<1>3. ASSUME NEW d \in Call, LoadItem(d)
      PROVE  Goal(c)
  <2> DEFINE item == Head(call[d].items)
             h(f) == [call[d] EXCEPT !.files = Append(@, f), !.items = Tail(@),
                        !.used = IF item.given = {"upload"} THEN Append(@, item.upload) ELSE @]
  <2>1. call[d].step = "loading" /\ call'[d].in = call[d].in
    <3>1. CASE Tell(d, Failure(call[d].in.front, "refused"))
      BY <1>1, <1>3, <3>1 DEF LoadItem, Tell, Handler
    <3>2. CASE \E f \in Fetched(item) : call' = [call EXCEPT ![d] = h(f)]
      <4>1. PICK f \in Fetched(item) : call' = [call EXCEPT ![d] = h(f)]
        BY <3>2
      <4>2. call'[d] = h(f) /\ h(f).in = call[d].in
        BY <1>1, <4>1 DEF Handler
      <4> QED
        BY <1>3, <4>2 DEF LoadItem
    <3> QED
      BY <1>3, <3>1, <3>2 DEF LoadItem
  <2>2. c # d => call'[c] = call[c]
    BY <1>1, <1>3 DEF LoadItem, Tell, Handler
  <2>3. posted' = posted /\ worker' = worker
    BY <1>3 DEF LoadItem
  <2> QED
    BY <1>3, <2>1, <2>2, <2>3
<1>4. ASSUME NEW d \in Call, Post(d)
      PROVE  Goal(c)
  <2>1. worker[d].step = "none" /\ call[d].step = "loading"
    BY <1>4, Kept DEF Post, Fit
  <2>2. call'[d].in = call[d].in /\ call'[d].step = "waiting"
    BY <1>1, <1>4 DEF Post, Handler
  <2>3. /\ c # d => call'[c] = call[c] /\ worker'[c] = worker[c] /\ posted'[c] = posted[c]
        /\ worker'[d].step = "arrived"
    BY <1>1, <1>4 DEF Post, Handler, Worker
  <2> QED
    BY <1>4, <2>1, <2>2, <2>3
<1>5. ASSUME NEW d \in Call, Hears(d) \/ Clean(d)
      PROVE  Goal(c)
  <2>1. call'[d].step # "loading" /\ call[d].step # "idle" /\ call'[d].in = call[d].in
    BY <1>1, <1>5 DEF Hears, AnswerArrives, NoAnswer, Clean, Tell, Handler
  <2>2. c # d => call'[c] = call[c]
    BY <1>1, <1>5 DEF Hears, AnswerArrives, NoAnswer, Clean, Tell, Handler
  <2>3. posted' = posted /\ worker' = worker
    BY <1>5 DEF Hears, AnswerArrives, NoAnswer, Clean
  <2> QED
    BY <2>1, <2>2, <2>3
<1>6. ASSUME NEW d \in Call, Refuses(d) \/ Perform(d) \/ Succeeds(d) \/ Breaks(d)
      PROVE  Goal(c)
  <2>1. call' = call /\ posted' = posted
    BY <1>6 DEF Refuses, Perform, Succeeds, Breaks
  <2>2. /\ worker[d].step # "none" /\ worker'[d].step # "none"
        /\ c # d => worker'[c] = worker[c]
    <3>1. CASE Refuses(d)
      BY <1>1, <3>1 DEF Refuses, Undecided, Answers, Worker
    <3>2. CASE Perform(d)
      BY <1>1, <3>2 DEF Perform, Worker
    <3>3. CASE Succeeds(d)
      BY <1>1, <3>3 DEF Succeeds, Answers, Worker
    <3>4. CASE Breaks(d)
      BY <1>1, <3>4 DEF Breaks, Answers, Worker
    <3> QED
      BY <1>6, <3>1, <3>2, <3>3, <3>4
  <2> QED
    BY <2>1, <2>2
<1>7. CASE Restart
  BY <1>7, Kept DEF Restart, Running, Handler
<1>8. CASE UNCHANGED vars \/ \E id \in UploadId : UploadGoes(id)
  BY <1>8 DEF vars, UploadGoes
<1> QED
  BY <1>2, <1>3, <1>4, <1>5, <1>6, <1>7, <1>8 DEF Next, Steps

(* FreeScout is asked for what the call was made with.                     *)
LEMMA AskNext == Inv /\ AskInv /\ [Next]_vars => AskInv'
<1> SUFFICES ASSUME Inv, AskInv, [Next]_vars, NEW c \in Call
             PROVE  /\ call'[c].step # "idle" => call'[c].in \in Input
                    /\ call'[c].step = "loading" =>
                         Loaded(call'[c].files) \o ToLoad(call'[c].items) = Carried(call'[c].in)
                    /\ worker'[c].step # "none" => AskedFor(posted'[c], call'[c].in)
  BY DEF AskInv
<1>1. ASSUME call'[c].step # "idle"
      PROVE  call'[c].in \in Input
  <2>1. CASE call[c].step # "idle"
    BY <1>1, <2>1, Settled DEF AskInv
  <2>2. CASE \E in \in Input : Receive(c, in)
    BY <2>2 DEF Receive, Inv, TypeOK, Handler
  <2> QED
    BY <1>1, <2>1, <2>2, Settled
<1>2. ASSUME call'[c].step = "loading"
      PROVE  Loaded(call'[c].files) \o ToLoad(call'[c].items) = Carried(call'[c].in)
  <2>1. CASE call'[c] = call[c]
    BY <1>2, <2>1 DEF AskInv
  <2>2. ASSUME NEW in \in Input, Receive(c, in), ~Refused(in)
        PROVE  Loaded(call'[c].files) \o ToLoad(call'[c].items) = Carried(call'[c].in)
    <3>1. /\ call'[c].in = in
          /\ call'[c].files = IF in.op \in Attaching THEN in.files ELSE <<>>
          /\ call'[c].items = IF in.op \in Attaching THEN in.items ELSE <<>>
      BY <2>2 DEF Receive, Inv, TypeOK, Handler
    <3>2. CASE in.op \in Attaching
      BY <3>1, <3>2 DEF Carried, Named, Loaded, ToLoad, Entry
    <3>3. CASE in.op \notin Attaching
      <4>1. Loaded(<<>>) = <<>> /\ ToLoad(<<>>) = <<>>
        BY DEF Loaded, ToLoad
      <4> QED
        BY <3>1, <3>3, <4>1 DEF Carried
    <3> QED
      BY <3>2, <3>3
  <2>3. CASE LoadItem(c)
    <3> DEFINE item == Head(call[c].items)
               h(f) == [call[c] EXCEPT !.files = Append(@, f), !.items = Tail(@),
                          !.used = IF item.given = {"upload"} THEN Append(@, item.upload) ELSE @]
    <3>1. call \in [Call -> Handler]
      BY DEF Inv, TypeOK
    <3>2. ~Tell(c, Failure(call[c].in.front, "refused"))
      BY <1>2, <3>1 DEF Tell, Handler
    <3>3. \E f \in Fetched(item) : call' = [call EXCEPT ![c] = h(f)]
      BY <2>3, <3>1, <3>2 DEF LoadItem
    <3>4. PICK f \in Fetched(item) : call' = [call EXCEPT ![c] = h(f)]
      BY <3>3
    <3>5. call'[c] = h(f)
      BY <3>1, <3>4
    <3>6. /\ call'[c].files = Append(call[c].files, f) /\ call'[c].items = Tail(call[c].items)
          /\ call'[c].in = call[c].in
      BY <3>1, <3>5 DEF Handler
    <3>7. /\ call[c].step = "loading" /\ call[c].items # <<>>
          /\ call[c].files \in Seq(File) /\ call[c].items \in Seq(Item)
      BY <2>3, Kept DEF LoadItem, Handler
    <3>8. Head(call[c].items) \in Item
      BY <3>7
    <3>9. f \in File /\ <<FileName(f.name), f.data>> = Entry(Head(call[c].items))
      BY <3>8, FetchedFile, FetchedEntry, Kept
    <3> QED
      BY <3>6, <3>7, <3>9, MoveOne DEF AskInv
  <2> QED
    BY <1>2, <2>1, <2>2, <2>3, Settled
<1>3. ASSUME worker'[c].step # "none"
      PROVE  AskedFor(posted'[c], call'[c].in)
  <2>1. CASE worker[c].step # "none"
    <3>1. call[c].step # "idle"
      BY <2>1, Kept DEF Fit
    <3> QED
      BY <2>1, <3>1, Settled DEF AskInv
  <2>2. CASE Post(c)
    <3>1. /\ posted'[c].path = Path(call[c].in.op)
          /\ posted'[c].on = Target(call[c].in.op, Args(call[c].in))
          /\ posted'[c].payload = Payload(call[c].in.op, Args(call[c].in))
          /\ posted'[c].names = Meta(call[c].files) /\ posted'[c].files = call[c].files
          /\ call'[c].in = call[c].in
      BY <2>2 DEF Post, Inv, TypeOK, Handler
    <3>2. StoredFiles(posted'[c], DOMAIN posted'[c].files) = Loaded(call[c].files)
      BY <3>1 DEF StoredFiles, Meta, Loaded
    <3>3. Loaded(call[c].files) = Carried(call[c].in)
      BY <2>2, Kept, NothingLeft DEF Post, AskInv, Handler
    <3> QED
      BY <3>1, <3>2, <3>3 DEF AskedFor
  <2> QED
    BY <1>3, <2>1, <2>2, Settled
<1> QED
  BY <1>1, <1>2, <1>3

(* What FreeScout is asked for is what the call was made with, whatever    *)
(* happens to the uploads and to the other calls meanwhile.                *)
THEOREM Asking == Spec => []AskInv
<1>1. Init => AskInv
  BY DEF Init, AskInv, Idle
<1> QED
  BY <1>1, AskNext, Invariance, PTL DEF Spec

(* What is done has been asked for.                                        *)
LEMMA DoneAsked ==
  ASSUME Inv, AskInv, NEW c \in Call, done[c] # "none"
  PROVE  AskedFor(posted[c], call[c].in) /\ call[c].in \in Input
<1>1. worker[c].step \notin {"none", "arrived"} /\ call[c].step # "idle"
  BY Kept DEF Fit
<1> QED
  BY <1>1 DEF AskInv

(* FreeScout stores files of the request only, and all of them unless the *)
(* call came out short.                                                    *)
KeptInv ==
  \A c \in Call :
    /\ done[c] \in {"none", "part"} => kept[c] = {}
    /\ done[c] = "short" => kept[c] \subseteq DOMAIN posted[c].files
    /\ done[c] = "all" => kept[c] = DOMAIN posted[c].files

(* Files are stored in the step that completes a call, and a request is    *)
(* made before anything is done about it.                                  *)
LEMMA KeptNext == Inv /\ KeptInv /\ [Next]_vars => KeptInv'
<1> DEFINE Stays(c) == /\ done[c] \in {"none", "part"} => kept[c] = {}
                       /\ done[c] = "short" => kept[c] \subseteq DOMAIN posted[c].files
                       /\ done[c] = "all" => kept[c] = DOMAIN posted[c].files
<1> SUFFICES ASSUME Inv, KeptInv, [Next]_vars, NEW c \in Call PROVE Stays(c)'
  BY DEF KeptInv
<1>1. Stays(c)
  BY DEF KeptInv
<1>2. CASE \E d \in Call : Perform(d)
  <2>1. PICK d \in Call : Perform(d)
    BY <1>2
  <2>2. posted' = posted
    BY <2>1 DEF Perform
  <2>3. CASE c = d
    <3>1. done[c] \in {"none", "part"}
      BY <2>1, <2>3, Kept DEF Perform, Fit
    <3>2. kept[c] = {}
      BY <1>1, <3>1
    <3> QED
      BY <2>1, <2>2, <2>3, <3>2 DEF Perform, Inv, TypeOK
  <2>4. CASE c # d
    <3>1. done'[c] = done[c] /\ kept'[c] = kept[c]
      BY <2>1, <2>4 DEF Perform, Inv, TypeOK
    <3> QED
      BY <1>1, <2>2, <3>1
  <2> QED
    BY <2>3, <2>4
<1>3. CASE \E d \in Call : Post(d)
  <2>1. PICK d \in Call : Post(d)
    BY <1>3
  <2>2. done' = done /\ kept' = kept
    BY <2>1 DEF Post
  <2>3. CASE c = d
    <3>1. done[c] = "none"
      BY <2>1, <2>3, Kept DEF Post, Fit
    <3> QED
      BY <1>1, <2>2, <3>1
  <2>4. CASE c # d
    <3>1. posted'[c] = posted[c]
      BY <2>1, <2>4 DEF Post, Inv, TypeOK
    <3> QED
      BY <1>1, <2>2, <3>1
  <2> QED
    BY <2>3, <2>4
<1>4. CASE UNCHANGED <<posted, done, kept>>
  BY <1>1, <1>4
<1>5. [\E d \in Call : Perform(d) \/ Post(d)]_<<posted, done, kept>>
  BY DEF Next, Steps, vars, Receive, LoadItem, Hears, AnswerArrives, NoAnswer, Clean,
         Refuses, Succeeds, Breaks, UploadGoes, Restart
<1> QED
  BY <1>2, <1>3, <1>4, <1>5

(* What FreeScout stores of a call, and when.                              *)
THEOREM Keeping == Spec => []KeptInv
<1>1. Init => KeptInv
  BY DEF Init, KeptInv
<1> QED
  BY <1>1, KeptNext, Invariance, PTL DEF Spec

(* After "ok" a call is done, but for files FreeScout could not store;     *)
(* after a refusal nothing is done, and it stays so.                       *)
THEOREM Truth == Spec => []AnswerIsTrue
<1>1. Inv /\ KeptInv => AnswerIsTrue
  <2> SUFFICES ASSUME Inv, KeptInv, NEW c \in Call
               PROVE  /\ told[c] = "ok" => done[c] \in {"all", "short"}
                      /\ told[c] = "refused" => done[c] = "none" /\ kept[c] = {}
    BY DEF AnswerIsTrue
  <2>1. told[c] = "ok" => done[c] \in {"all", "short"}
    BY Kept DEF Fit, Promise!Complete
  <2>2. told[c] = "refused" => done[c] = "none"
    BY Kept DEF Fit
  <2> QED
    BY <2>1, <2>2 DEF KeptInv
<1> QED
  BY <1>1, Keeping, Invariance, PTL

(* What FreeScout stores, however much of it, are the caller's files, each *)
(* at its place and under its name; they are all there when the call is    *)
(* done in full, and none is stored before.                                *)
THEOREM Files == Spec => []FilesAsNamed
<1>1. Inv /\ AskInv /\ KeptInv => FilesAsNamed
  <2> SUFFICES ASSUME Inv, AskInv, KeptInv, NEW c \in Call
               PROVE  LET named == Carried(call[c].in)
                      IN /\ kept[c] # {} =>
                              /\ kept[c] \subseteq DOMAIN named
                              /\ StoredFiles(posted[c], kept[c]) = [i \in kept[c] |-> named[i]]
                         /\ done[c] = "all" => kept[c] = DOMAIN named
    BY DEF FilesAsNamed, Carried
  <2>1. CASE done[c] \in {"none", "part"}
    BY <2>1 DEF KeptInv
  <2>2. CASE done[c] \in {"short", "all"}
    <3> DEFINE named == Carried(call[c].in)
               files == DOMAIN posted[c].files
    <3>1. StoredFiles(posted[c], files) = named
      BY <2>2, DoneAsked DEF AskedFor
    <3>2. DOMAIN named = files
      BY <3>1 DEF StoredFiles
    <3>3. kept[c] \subseteq files /\ (done[c] = "all" => kept[c] = files)
      BY <2>2 DEF KeptInv
    <3>4. \A i \in kept[c] : named[i] = StoredFiles(posted[c], kept[c])[i]
      BY <3>1, <3>3 DEF StoredFiles
    <3>5. StoredFiles(posted[c], kept[c]) = [i \in kept[c] |-> named[i]]
      BY <3>4 DEF StoredFiles
    <3> QED
      BY <3>2, <3>3, <3>5
  <2> QED
    BY <2>1, <2>2, Kept DEF Amount
<1> QED
  BY <1>1, Asking, Keeping, Invariance, PTL

(* Only the operations that say so send mail.                              *)
THEOREM Mailing == Spec => []OnlySenders
<1>1. Inv /\ AskInv => OnlySenders
  <2> SUFFICES ASSUME Inv, AskInv, NEW c \in Call, done[c] # "none", Mails(posted[c])
               PROVE  Sender(call[c].in)
    BY DEF OnlySenders
  <2> DEFINE in == call[c].in
  <2>1. posted[c].path = Path(in.op) /\ posted[c].payload = Payload(in.op, Args(in))
    BY DoneAsked DEF AskedFor
  <2>2. CASE posted[c].path \in {"conversations/{id}/reply", "drafts/{id}/send"}
    BY <2>1, <2>2 DEF Path, Sender
  <2>3. CASE posted[c].path = "conversations/{id}/forward" /\ posted[c].payload.send = 1
    <3>1. in.op = "forward_conversation"
      BY <2>1, <2>3 DEF Path
    <3>2. PayloadKeys[in.op] = {"to", "cc", "bcc", "body", "send", "include_attachments"}
      BY <3>1 DEF PayloadKeys, Op, Required
    <3>3. "send" \in PayloadKeys[in.op] \ {k \in {"status"} : Value(Args(in), k) = 0}
      BY <3>2
    <3>4. posted[c].payload.send = Value(Args(in), "send")
      BY <2>1, <3>1, <3>3 DEF Payload
    <3> QED
      BY <2>3, <3>1, <3>4 DEF Sender
  <2> QED
    BY <2>2, <2>3 DEF Mails
<1> QED
  BY <1>1, Asking, Invariance, PTL

(* What is done is done to the thing in the path, and a draft changes in   *)
(* nothing that was not passed.                                            *)
THEOREM Aiming == Spec => []AsAsked
<1>1. Inv /\ AskInv => AsAsked
  <2> SUFFICES ASSUME Inv, AskInv, NEW c \in Call, done[c] # "none"
               PROVE  LET in == call[c].in
                          passed == DOMAIN in.body \cup DOMAIN in.form \cup DOMAIN in.query
                      IN /\ (in.front = "rest" /\ PathParam(in.op) # {}) => posted[c].on = in.path
                         /\ in.op = "update_draft" => DOMAIN posted[c].payload \subseteq passed
    BY DEF AsAsked
  <2> DEFINE in == call[c].in
             passed == DOMAIN in.body \cup DOMAIN in.form \cup DOMAIN in.query
  <2>1. /\ posted[c].on = Target(in.op, Args(in)) /\ posted[c].payload = Payload(in.op, Args(in))
        /\ in \in Input
    BY DoneAsked DEF AskedFor
  <2>2. ASSUME in.front = "rest", PathParam(in.op) # {}
        PROVE  posted[c].on = in.path
    <3> DEFINE key == CHOOSE k \in PathParam(in.op) : TRUE
    <3>1. key \in PathParam(in.op)
      BY <2>2
    <3>2. key \in DOMAIN Args(in) /\ Args(in)[key] = in.path
      BY <2>2, <3>1 DEF Args, Over
    <3> QED
      BY <2>1, <2>2, <3>2 DEF Target, Value
  <2>3. ASSUME in.op = "update_draft"
        PROVE  DOMAIN posted[c].payload \subseteq passed
    <3>1. DOMAIN posted[c].payload =
            ((DOMAIN Args(in)) \cap Changeable)
              \cup {k \in {"remove_attachment_ids"} : Value(Args(in), k) > 0}
      BY <2>1, <2>3 DEF Payload
    <3>2. \A k \in DOMAIN posted[c].payload : k \in DOMAIN Args(in) /\ k # "draft_id"
      BY <3>1 DEF Changeable, Value, OtherCase
    <3>3. DOMAIN Args(in) \subseteq passed \cup {"draft_id"}
      <4>1. PathParam(in.op) = {"draft_id"}
        BY <2>3 DEF PathParam, Required
      <4> QED
        BY <2>1, <2>3, <4>1, OperationsAssumption DEF Args, RequestArgs, Reading, Over, Coerced
    <3> QED
      BY <3>2, <3>3
  <2> QED
    BY <2>2, <2>3
<1> QED
  BY <1>1, Asking, Invariance, PTL

-----------------------------------------------------------------------------
(* The sizes of a call's files, which are added up.                        *)
Sizes(files) == [i \in DOMAIN files |-> files[i].size]

(* No file has no bytes, and one more file adds its own.                   *)
LEMMA BytesOf ==
  ASSUME NEW files \in Seq(File)
  PROVE  /\ Numbers(Sizes(files)) /\ Bytes(files) \in Nat
         /\ files = <<>> => Bytes(files) = 0
         /\ \A f \in File : Bytes(Append(files, f)) = Bytes(files) + f.size
<1>1. DOMAIN files = 1..Len(files) /\ Len(files) \in Nat /\ DOMAIN Sizes(files) = DOMAIN files
  BY DEF Sizes
<1>2. \A i \in DOMAIN files : files[i].size \in Nat
  <2>1. \A i \in DOMAIN files : files[i] \in File
    OBVIOUS
  <2> QED
    BY <2>1 DEF File
<1>3. Numbers(Sizes(files))
  <2>1. IsFiniteSet(DOMAIN files)
    BY <1>1, FS_Interval
  <2>2. \A i \in DOMAIN files : Sizes(files)[i] \in Nat
    BY <1>2 DEF Sizes
  <2> QED
    BY <1>1, <2>1, <2>2 DEF Numbers, Naturals
<1>4. Bytes(files) = SumFunction(Sizes(files))
  BY DEF Bytes, Sizes
<1>5. Bytes(files) \in Nat /\ (files = <<>> => Bytes(files) = 0)
  <2>1. files = <<>> => DOMAIN Sizes(files) = {}
    BY <1>1
  <2> QED
    BY <1>3, <1>4, <2>1, SumType
<1>6. ASSUME NEW f \in File
      PROVE  Bytes(Append(files, f)) = Bytes(files) + f.size
  <2> DEFINE more == Append(files, f)
             n == Len(files) + 1
  <2>1. /\ DOMAIN more = DOMAIN files \cup {n} /\ n \notin DOMAIN files
        /\ more[n] = f /\ \A i \in DOMAIN files : more[i] = files[i]
    BY <1>1
  <2>2. f.size \in Nat
    BY DEF File
  <2> HIDE DEF more, n
  <2>3. /\ n \notin DOMAIN Sizes(files)
        /\ DOMAIN Sizes(more) = DOMAIN Sizes(files) \cup {n}
        /\ Sizes(more)[n] = f.size
        /\ \A i \in DOMAIN Sizes(files) : Sizes(more)[i] = Sizes(files)[i]
    BY <1>1, <2>1 DEF Sizes
  <2>4. SumFunction(Sizes(more)) = SumFunction(Sizes(files)) + f.size
    BY <1>3, <2>2, <2>3, SumMore
  <2>5. Bytes(more) = SumFunction(Sizes(more))
    BY DEF Bytes, Sizes
  <2> QED
    BY <1>4, <2>4, <2>5 DEF more
<1> QED
  BY <1>3, <1>5, <1>6

(* The files in hand, with those still to come.                            *)
InRoom(files, items) ==
  /\ Len(files) + Len(items) <= MaxFiles
  /\ \A i \in DOMAIN files : files[i].size > 0
  /\ Bytes(files) <= MaxBytes

(* What is loaded leaves room for the rest, and what FreeScout was sent is *)
(* within its limits.                                                      *)
RoomInv ==
  \A c \in Call :
    /\ call[c].step = "loading" => InRoom(call[c].files, call[c].items)
    /\ IF worker[c].step = "none" THEN posted[c] = None ELSE WithinLimits(posted[c])

(* A call that is not refused at the door begins with room for all its     *)
(* files.                                                                  *)
LEMMA ReceiveRoom ==
  ASSUME NEW in \in Input, ~Refused(in)
  PROVE  InRoom(IF in.op \in Attaching THEN in.files ELSE <<>>,
                IF in.op \in Attaching THEN in.items ELSE <<>>)
<1>1. in.files \in Seq(File) /\ in.items \in Seq(Item) /\ MaxFiles \in Nat /\ MaxBytes \in Nat
  BY OperationsAssumption
<1>2. Bytes(in.files) \in Nat /\ Len(in.files) \in Nat /\ Len(in.items) \in Nat
  BY <1>1, BytesOf
<1>3. CASE in.op \in Attaching
  <2>1. /\ ~(Bytes(in.files) > MaxBytes) /\ ~(Len(in.files) + Len(in.items) > MaxFiles)
        /\ \A i \in DOMAIN in.files : in.files[i].size # 0
    BY <1>3 DEF Refused
  <2>2. \A i \in DOMAIN in.files : in.files[i].size > 0
    <3>1. \A i \in DOMAIN in.files : in.files[i] \in File
      BY <1>1
    <3>2. \A i \in DOMAIN in.files : in.files[i].size \in Nat
      BY <3>1 DEF File
    <3> QED
      BY <2>1, <3>2
  <2>3. Bytes(in.files) <= MaxBytes /\ Len(in.files) + Len(in.items) <= MaxFiles
    <3> DEFINE bytes == Bytes(in.files)
               m == Len(in.files)
               n == Len(in.items)
    <3>1. bytes \in Nat /\ m \in Nat /\ n \in Nat
      BY <1>2
    <3>2. ~(bytes > MaxBytes) /\ ~(m + n > MaxFiles)
      BY <2>1
    <3>3. MaxBytes \in Nat /\ MaxFiles \in Nat
      BY <1>1
    <3> HIDE DEF bytes, m, n
    <3>4. bytes <= MaxBytes /\ m + n <= MaxFiles
      BY <3>1, <3>2, <3>3
    <3> QED
      BY <3>4 DEF bytes, m, n
  <2>4. InRoom(in.files, in.items)
    BY <2>2, <2>3 DEF InRoom
  <2> QED
    BY <1>3, <2>4
<1>4. CASE in.op \notin Attaching
  <2>1. <<>> \in Seq(File) /\ Len(<<>>) = 0 /\ DOMAIN <<>> = {}
    OBVIOUS
  <2>2. Bytes(<<>>) = 0
    BY <2>1, BytesOf
  <2>3. InRoom(<<>>, <<>>)
    BY <1>1, <2>1, <2>2 DEF InRoom
  <2> QED
    BY <1>4, <2>3
<1> QED
  BY <1>3, <1>4

(* A file that is loaded takes its place, and no more bytes than are left. *)
LEMMA LoadRoom ==
  ASSUME NEW files \in Seq(File), NEW items \in Seq(Item), items # <<>>, NEW f \in File,
         f.size \in 1..Room(files), InRoom(files, items)
  PROVE  InRoom(Append(files, f), Tail(items))
<1>1. Len(Append(files, f)) = Len(files) + 1 /\ Len(Tail(items)) = Len(items) - 1
      /\ Len(files) \in Nat /\ Len(items) \in Nat
  OBVIOUS
<1>2. Bytes(Append(files, f)) = Bytes(files) + f.size /\ Bytes(files) \in Nat
  BY BytesOf
<1>3. f.size \in Nat /\ f.size > 0 /\ f.size <= MaxBytes - Bytes(files)
  BY DEF Room, File
<1>4. \A i \in DOMAIN Append(files, f) : Append(files, f)[i].size > 0
  <2>1. ASSUME NEW i \in DOMAIN Append(files, f)
        PROVE  Append(files, f)[i] = f \/ (i \in DOMAIN files /\ Append(files, f)[i] = files[i])
    <3>1. i \in 1..(Len(files) + 1)
      BY <1>1, <2>1
    <3>2. CASE i = Len(files) + 1
      BY <3>2
    <3>3. CASE i # Len(files) + 1
      <4>1. i \in 1..Len(files)
        BY <1>1, <3>1, <3>3
      <4> QED
        BY <4>1
    <3> QED
      BY <3>2, <3>3
  <2> QED
    BY <1>3, <2>1 DEF InRoom
<1>5. Len(Append(files, f)) + Len(Tail(items)) <= MaxFiles
  BY <1>1 DEF InRoom
<1>6. Bytes(Append(files, f)) <= MaxBytes
  BY <1>2, <1>3, OperationsAssumption
<1> QED
  BY <1>4, <1>5, <1>6 DEF InRoom

(* Every step keeps it: nothing but a file of an item is added to a call,  *)
(* and nothing to a request that has been made.                            *)
LEMMA RoomNext == Inv /\ RoomInv /\ [Next]_vars => RoomInv'
<1> SUFFICES ASSUME Inv, RoomInv, [Next]_vars, NEW c \in Call
             PROVE  /\ call'[c].step = "loading" => InRoom(call'[c].files, call'[c].items)
                    /\ IF worker'[c].step = "none" THEN posted'[c] = None ELSE WithinLimits(posted'[c])
  BY DEF RoomInv
<1>1. call \in [Call -> Handler] /\ DOMAIN posted = Call
  BY DEF Inv, TypeOK
<1>2. ASSUME call'[c].step = "loading"
      PROVE  InRoom(call'[c].files, call'[c].items)
  <2>1. CASE call'[c] = call[c]
    BY <1>2, <2>1 DEF RoomInv
  <2>2. ASSUME NEW in \in Input, Receive(c, in), ~Refused(in)
        PROVE  InRoom(call'[c].files, call'[c].items)
    <3>1. /\ call'[c].files = IF in.op \in Attaching THEN in.files ELSE <<>>
          /\ call'[c].items = IF in.op \in Attaching THEN in.items ELSE <<>>
      BY <1>1, <2>2 DEF Receive, Handler
    <3> QED
      BY <2>2, <3>1, ReceiveRoom
  <2>3. CASE LoadItem(c)
    <3> DEFINE item == Head(call[c].items)
               h(f) == [call[c] EXCEPT !.files = Append(@, f), !.items = Tail(@),
                          !.used = IF item.given = {"upload"} THEN Append(@, item.upload) ELSE @]
    <3>1. ~Tell(c, Failure(call[c].in.front, "refused"))
      BY <1>1, <1>2 DEF Tell, Handler
    <3>2. \E f \in Fetched(item) : f.size \in 1..Room(call[c].files) /\ call' = [call EXCEPT ![c] = h(f)]
      BY <1>1, <2>3, <3>1 DEF LoadItem
    <3>3. PICK f \in Fetched(item) : f.size \in 1..Room(call[c].files) /\ call' = [call EXCEPT ![c] = h(f)]
      BY <3>2
    <3>4. call'[c] = h(f)
      BY <1>1, <3>3
    <3>5. call'[c].files = Append(call[c].files, f) /\ call'[c].items = Tail(call[c].items)
      BY <1>1, <3>4 DEF Handler
    <3>6. /\ call[c].step = "loading" /\ call[c].items # <<>>
          /\ call[c].files \in Seq(File) /\ call[c].items \in Seq(Item)
      BY <1>1, <2>3 DEF LoadItem, Handler
    <3>7. f \in File
      BY <3>6, FetchedFile, Kept
    <3>8. InRoom(call[c].files, call[c].items)
      BY <3>6 DEF RoomInv
    <3> HIDE DEF item, h
    <3> QED
      BY <3>3, <3>5, <3>6, <3>7, <3>8, LoadRoom
  <2> QED
    BY <1>2, <2>1, <2>2, <2>3, Settled
<1>3. ASSUME worker'[c].step = "none"
      PROVE  posted'[c] = None
  <2>1. posted'[c] = posted[c] /\ worker[c].step = "none"
    BY <1>3, Settled
  <2> QED
    BY <2>1 DEF RoomInv
<1>4. ASSUME worker'[c].step # "none"
      PROVE  WithinLimits(posted'[c])
  <2>1. CASE worker[c].step # "none"
    BY <2>1, Settled DEF RoomInv
  <2>2. CASE Post(c)
    <3>1. /\ posted'[c].names = Meta(call[c].files) /\ posted'[c].files = call[c].files
          /\ call[c].step = "loading" /\ call[c].items = <<>> /\ call[c].files \in Seq(File)
      BY <1>1, <2>2 DEF Post, Handler
    <3>2. InRoom(call[c].files, call[c].items) /\ Len(<<>>) = 0 /\ Len(call[c].files) \in Nat
      BY <3>1 DEF RoomInv
    <3>3. Len(Meta(call[c].files)) = Len(call[c].files)
      BY <3>1 DEF Meta
    <3> QED
      BY <3>1, <3>2, <3>3, OperationsAssumption DEF WithinLimits, InRoom
  <2> QED
    BY <1>4, <2>1, <2>2, Settled
<1> QED
  BY <1>2, <1>3, <1>4

(* What the connector lets through is never too much for FreeScout: no     *)
(* more files, no more bytes, no empty file (Drafts.php:64-108).           *)
THEOREM Limits == Spec => []LimitsAgree
<1>1. Init => RoomInv
  BY DEF Init, RoomInv, Idle
<1>2. RoomInv => LimitsAgree
  BY DEF RoomInv, LimitsAgree
<1> QED
  BY <1>1, <1>2, RoomNext, Invariance, PTL DEF Spec

-----------------------------------------------------------------------------
(* The logins beside the calls.  A login waits exactly when it stands in   *)
(* the queue for the lock, once; a request to the provider is under way    *)
(* only for somebody and only while the endpoints are not known.           *)
InQueue(l) == \E i \in DOMAIN queue : queue[i] = l

QueueInv ==
  /\ oidc!TypeOK
  /\ \A l \in Login : login[l] = "waiting" <=> InQueue(l)
  /\ asking => queue # <<>> /\ ~provider

(* Whoever leaves the queue is its first and stands in it no more; the     *)
(* others keep their turn.                                                 *)
LEMMA LeaveQueue ==
  ASSUME QueueInv, NEW l \in Login, oidc!Holds(l), NEW result \in {"known", "failed"},
         oidc!Leave(l, result), provider' \in BOOLEAN
  PROVE  QueueInv'
<1>1. queue \in Seq(Login) /\ queue # <<>> /\ queue[1] = l /\ Head(queue) = l
  BY DEF QueueInv, oidc!TypeOK, oidc!Holds
<1>2. login' = [login EXCEPT ![l] = result] /\ queue' = Tail(queue) /\ asking' = FALSE
  BY DEF oidc!Leave
<1>3. \A i, j \in DOMAIN queue : queue[i] = queue[j] => i = j
  BY DEF QueueInv, oidc!TypeOK, oidc!IsInjective
<1>4. /\ Len(queue) \in Nat /\ Len(queue) > 0 /\ DOMAIN queue = 1..Len(queue)
      /\ queue' \in Seq(Login) /\ DOMAIN queue' = 1..(Len(queue) - 1)
      /\ \A i \in DOMAIN queue' : i + 1 \in DOMAIN queue /\ queue'[i] = queue[i + 1]
  BY <1>1, <1>2
<1>5. oidc!IsInjective(queue')
  <2> SUFFICES ASSUME NEW i \in DOMAIN queue', NEW j \in DOMAIN queue', queue'[i] = queue'[j]
               PROVE  i = j
    BY DEF oidc!IsInjective
  <2>1. i + 1 \in DOMAIN queue /\ j + 1 \in DOMAIN queue /\ queue[i + 1] = queue[j + 1]
    BY <1>4
  <2>2. i + 1 = j + 1
    BY <1>3, <2>1
  <2> QED
    BY <1>4, <2>2
<1>6. login' \in [Login -> {"idle", "waiting", "known", "failed", "lost"}]
  BY <1>2 DEF QueueInv, oidc!TypeOK
<1>7. ASSUME NEW k \in Login
      PROVE  login'[k] = "waiting" <=> \E i \in DOMAIN queue' : queue'[i] = k
  <2>1. CASE k = l
    <3>1. login'[k] = result
      BY <1>2, <2>1 DEF QueueInv, oidc!TypeOK
    <3>2. ASSUME NEW i \in DOMAIN queue', queue'[i] = k
          PROVE  FALSE
      <4>1. i + 1 \in DOMAIN queue /\ queue[i + 1] = queue[1] /\ 1 \in DOMAIN queue /\ i >= 1
        BY <1>1, <1>4, <2>1, <3>2
      <4>2. i + 1 = 1
        BY <1>3, <4>1
      <4> QED
        BY <1>4, <4>1, <4>2
    <3> QED
      BY <3>1, <3>2
  <2>2. CASE k # l
    <3>1. login'[k] = login[k]
      BY <1>2, <2>2 DEF QueueInv, oidc!TypeOK
    <3>2. login[k] = "waiting" <=> \E i \in DOMAIN queue : queue[i] = k
      BY DEF QueueInv, InQueue
    <3>3. ASSUME NEW i \in DOMAIN queue, queue[i] = k
          PROVE  \E j \in DOMAIN queue' : queue'[j] = k
      <4>1. i # 1 /\ i \in 1..Len(queue)
        BY <1>1, <1>4, <2>2, <3>3
      <4>2. i - 1 \in DOMAIN queue' /\ (i - 1) + 1 = i
        BY <1>4, <4>1
      <4>3. queue'[i - 1] = queue[i]
        BY <1>4, <4>2
      <4> QED
        BY <3>3, <4>2, <4>3
    <3>4. ASSUME NEW j \in DOMAIN queue', queue'[j] = k
          PROVE  \E i \in DOMAIN queue : queue[i] = k
      BY <1>4, <3>4
    <3> QED
      BY <3>1, <3>2, <3>3, <3>4
  <2> QED
    BY <2>1, <2>2
<1> QED
  BY <1>2, <1>4, <1>5, <1>6, <1>7 DEF QueueInv, oidc!TypeOK, InQueue

(* A newcomer was nowhere in the queue and stands at its end.              *)
LEMMA EnterQueue ==
  ASSUME QueueInv, NEW l \in Login, oidc!Enter(l)
  PROVE  QueueInv'
<1>1. /\ login[l] = "idle" /\ login' = [login EXCEPT ![l] = "waiting"]
      /\ queue' = Append(queue, l) /\ asking' = asking /\ provider' = provider
  BY DEF oidc!Enter
<1>2. queue \in Seq(Login) /\ login \in [Login -> {"idle", "waiting", "known", "failed", "lost"}]
      /\ asking \in BOOLEAN /\ provider \in BOOLEAN
  BY DEF QueueInv, oidc!TypeOK
<1>3. /\ Len(queue) \in Nat /\ DOMAIN queue = 1..Len(queue)
      /\ queue' \in Seq(Login) /\ queue' # <<>> /\ DOMAIN queue' = 1..(Len(queue) + 1)
      /\ queue'[Len(queue) + 1] = l /\ \A i \in DOMAIN queue : queue'[i] = queue[i]
  BY <1>1, <1>2
<1>4. \A i \in DOMAIN queue : queue[i] # l
  BY <1>1 DEF QueueInv, InQueue
<1>5. oidc!IsInjective(queue')
  <2> SUFFICES ASSUME NEW i \in DOMAIN queue', NEW j \in DOMAIN queue', queue'[i] = queue'[j]
               PROVE  i = j
    BY DEF oidc!IsInjective
  <2>1. \A a, b \in DOMAIN queue : queue[a] = queue[b] => a = b
    BY DEF QueueInv, oidc!TypeOK, oidc!IsInjective
  <2>2. /\ i \in DOMAIN queue \/ i = Len(queue) + 1
        /\ j \in DOMAIN queue \/ j = Len(queue) + 1
    BY <1>3
  <2> QED
    BY <1>3, <1>4, <2>1, <2>2
<1>6. login' \in [Login -> {"idle", "waiting", "known", "failed", "lost"}]
  BY <1>1, <1>2
<1>7. ASSUME NEW k \in Login
      PROVE  login'[k] = "waiting" <=> \E i \in DOMAIN queue' : queue'[i] = k
  <2>1. CASE k = l
    <3>1. Len(queue) + 1 \in DOMAIN queue'
      BY <1>3
    <3> QED
      BY <1>1, <1>2, <1>3, <2>1, <3>1
  <2>2. CASE k # l
    <3>1. login'[k] = login[k]
      BY <1>1, <1>2, <2>2
    <3>2. login[k] = "waiting" <=> \E i \in DOMAIN queue : queue[i] = k
      BY DEF QueueInv, InQueue
    <3>3. \A i \in DOMAIN queue : i \in DOMAIN queue' /\ queue'[i] = queue[i]
      BY <1>3
    <3>4. \A i \in DOMAIN queue' : queue'[i] = k => i \in DOMAIN queue
      BY <1>3, <2>2
    <3> QED
      BY <3>1, <3>2, <3>3, <3>4
  <2> QED
    BY <2>1, <2>2
<1> QED
  BY <1>1, <1>2, <1>3, <1>5, <1>6, <1>7 DEF QueueInv, oidc!TypeOK, InQueue

(* A restart forgets the queue and leaves nobody waiting.                  *)
LEMMA RestartQueue ==
  ASSUME QueueInv, oidc!Restart
  PROVE  QueueInv'
<1>1. /\ queue' = <<>> /\ asking' = FALSE /\ provider' = FALSE
      /\ login' = [l \in Login |-> IF login[l] = "waiting" THEN "lost" ELSE login[l]]
  BY DEF oidc!Restart
<1>2. queue' \in Seq(Login) /\ DOMAIN queue' = {}
  BY <1>1
<1>3. oidc!IsInjective(queue')
  BY <1>2 DEF oidc!IsInjective
<1>4. login' \in [Login -> {"idle", "waiting", "known", "failed", "lost"}]
  BY <1>1 DEF QueueInv, oidc!TypeOK
<1>5. \A l \in Login : login'[l] # "waiting"
  BY <1>1
<1> QED
  BY <1>1, <1>2, <1>3, <1>4, <1>5 DEF QueueInv, oidc!TypeOK, InQueue

(* Every step of a login keeps the queue in order.                         *)
LEMMA QueueNext == QueueInv /\ [oidc!Next]_(oidc!vars) => QueueInv'
<1> SUFFICES ASSUME QueueInv, [oidc!Next]_(oidc!vars) PROVE QueueInv'
  OBVIOUS
<1>1. ASSUME NEW l \in Login, oidc!Enter(l) PROVE QueueInv'
  BY <1>1, EnterQueue
<1>2. ASSUME NEW l \in Login, oidc!FindsKnown(l) PROVE QueueInv'
  <2>1. oidc!Holds(l) /\ oidc!Leave(l, "known") /\ provider' \in BOOLEAN
    BY <1>2 DEF oidc!FindsKnown, QueueInv, oidc!TypeOK
  <2> QED
    BY <2>1, LeaveQueue
<1>3. ASSUME NEW l \in Login, oidc!Asks(l) PROVE QueueInv'
  <2>1. UNCHANGED <<queue, provider, login>> /\ asking' = TRUE /\ queue # <<>> /\ ~provider
    BY <1>3 DEF oidc!Asks, oidc!Holds
  <2> QED
    BY <2>1 DEF QueueInv, oidc!TypeOK, InQueue
<1>4. ASSUME NEW l \in Login, oidc!Learns(l) PROVE QueueInv'
  <2>1. /\ oidc!Holds(l) /\ provider' \in BOOLEAN
        /\ oidc!Leave(l, "known") \/ oidc!Leave(l, "failed")
    BY <1>4 DEF oidc!Learns, QueueInv, oidc!TypeOK
  <2> QED
    BY <2>1, LeaveQueue
<1>5. CASE oidc!Restart
  BY <1>5, RestartQueue
<1>6. CASE UNCHANGED oidc!vars
  BY <1>6 DEF oidc!vars, QueueInv, oidc!TypeOK, InQueue
<1> QED
  BY <1>1, <1>2, <1>3, <1>4, <1>5, <1>6 DEF oidc!Next, oidc!Steps

(* The queue begins empty.                                                 *)
LEMMA QueueInit == oidc!Init => QueueInv
<1> SUFFICES ASSUME oidc!Init PROVE QueueInv
  OBVIOUS
<1>1. queue = <<>> /\ asking = FALSE /\ provider = FALSE /\ login = [l \in Login |-> "idle"]
  BY DEF oidc!Init
<1>2. queue \in Seq(Login) /\ DOMAIN queue = {}
  BY <1>1
<1> QED
  BY <1>1, <1>2 DEF QueueInv, oidc!TypeOK, InQueue, oidc!IsInjective

(* What the process does is something the calls do, something the logins   *)
(* do, or both at a restart.                                               *)
LEMMA ProcessStep == [ProcessNext]_allVars => [Next]_vars /\ [oidc!Next]_(oidc!vars)
BY DEF ProcessNext, Next, oidc!Next, allVars, loginVars, oidc!vars

(* The process is the calls beside the logins: neither half disturbs the   *)
(* other, in what it may do or in what it must do.                         *)
THEOREM Composition == ProcessSpec => Spec /\ oidc!Spec
  BY ProcessStep, PTL DEF ProcessSpec, ProcessInit, Spec, oidc!Spec

(* A login waits if and only if it has its one place in the queue for the  *)
(* lock: none is forgotten there and none holds it twice (oidc.go).        *)
THEOREM Queued == ProcessSpec => []QueueInv
  BY QueueInit, QueueNext, Composition, PTL DEF oidc!Spec

(* Every variable of the process keeps its type.                           *)
THEOREM Process == ProcessSpec => []ProcessTypeOK
<1>1. Inv /\ QueueInv => ProcessTypeOK
  BY DEF Inv, QueueInv, ProcessTypeOK
<1> QED
  BY <1>1, Composition, Queued, Invariance, PTL

(* What holds of the calls holds of them in the process.                   *)
THEOREM ProcessHolds ==
  ProcessSpec => /\ [](AnswerIsTrue /\ OnlySenders /\ LimitsAgree /\ FilesAsNamed /\ AsAsked)
                 /\ ImplementsOutcome
  BY Composition, Truth, Mailing, Limits, Files, Aiming, Refinement, PTL
=============================================================================
