------------------------ MODULE ClientMetadataProofs -------------------------
(***************************************************************************)
(* Proofs about ClientMetadata, for any lifetimes, clients and handlers.   *)
(***************************************************************************)
EXTENDS ClientMetadata, TLAPS

USE DEF history

(* Whatever a host sends, a document is kept between MinTTL and MaxTTL.    *)
LEMMA CacheTTLBounded ==
  ASSUME NEW cc \in CacheControl
  PROVE  CacheTTL(cc) \in Nat /\ MinTTL <= CacheTTL(cc) /\ CacheTTL(cc) <= MaxTTL
<1>1. \A ttl \in Int : Clamp(ttl) \in Nat /\ MinTTL <= Clamp(ttl) /\ Clamp(ttl) <= MaxTTL
  BY MetadataAssumption DEF Clamp
<1>2. CASE cc = <<>>
  BY <1>1, <1>2, MetadataAssumption DEF CacheTTL
<1>3. CASE cc # <<>>
  <2>1. cc \in Seq(Int \cup {NoStore})
    BY MetadataAssumption
  <2> DEFINE last == cc[Len(cc)]
  <2>2. last \in Int \cup {NoStore}
    BY <1>3, <2>1
  <2>3. CacheTTL(cc) = IF last = NoStore THEN MinTTL ELSE Clamp(last)
    BY <1>3 DEF CacheTTL
  <2> HIDE DEF last
  <2>4. CASE last = NoStore
    BY <2>3, <2>4, MetadataAssumption
  <2>5. CASE last # NoStore
    BY <1>1, <2>2, <2>3, <2>5, MetadataAssumption
  <2> QED BY <2>4, <2>5
<1> QED BY <1>2, <1>3

(* What a handler is doing tells which fields its job has.                 *)
LEMMA JobType ==
  ASSUME TypeOK, NEW h \in Handler
  PROVE  /\ job[h].step = "fetch" \/ job[h].step = "got" =>
              /\ job[h].client \in Client /\ job[h].seen \in Entry \cup {None}
              /\ job[h].by \in Nat
         /\ job[h].step = "got" => job[h].asOf \in Nat /\ job[h].ttl \in Nat
         /\ job[h].step = "answered" =>
              /\ job[h].client \in Client /\ job[h].asOf \in Nat \cup {None}
              /\ job[h].at \in Nat
  BY DEF TypeOK, Job, Idle, FetchJob, GotJob, Answer

(* The cache, the jobs and the history keep their types.                   *)
THEOREM TypeCorrect == Spec => []TypeOK
<1>1. Init => TypeOK
  BY DEF Init, TypeOK, Job
<1>2. TypeOK /\ [Next]_vars => TypeOK'
  <2> SUFFICES ASSUME TypeOK, [Next]_vars PROVE TypeOK'
    OBVIOUS
  <2> USE NoEntryAssumption, MetadataAssumption DEF TypeOK
  <2>1. ASSUME NEW h \in Handler, NEW c \in Client, ResolveHit(h, c)
        PROVE  TypeOK'
    <3>1. Answered(c, entries[c].asOf) \in Job
      BY <2>1 DEF ResolveHit, Fresh, Answered, Job, Answer, Entry
    <3> QED BY <2>1, <3>1 DEF ResolveHit, Become
  <2>2. ASSUME NEW h \in Handler, NEW c \in Client, ResolveMiss(h, c)
        PROVE  TypeOK'
    <3>1. [step |-> "fetch", client |-> c, seen |-> entries[c], by |-> now + FetchTimeout] \in Job
      BY DEF Job, FetchJob
    <3> QED BY <2>2, <3>1 DEF ResolveMiss, Become
  <2>3. ASSUME NEW h \in Handler, NEW cc \in CacheControl, HostAnswers(h, cc)
        PROVE  TypeOK'
    <3>1. [step |-> "got", client |-> job[h].client, seen |-> job[h].seen,
           by |-> job[h].by, asOf |-> now, ttl |-> CacheTTL(cc)] \in Job
      BY <2>3, JobType, CacheTTLBounded DEF HostAnswers, Job, GotJob
    <3> QED BY <2>3, <3>1 DEF HostAnswers, Become
  <2>4. ASSUME NEW h \in Handler, FetchStore(h)
        PROVE  TypeOK'
    <3>1. job[h].client \in Client /\ job[h].asOf \in Nat /\ job[h].ttl \in Nat
      BY <2>4, JobType DEF FetchStore
    <3>2. [asOf |-> job[h].asOf, fetchedAt |-> now, expires |-> now + job[h].ttl] \in Entry
      BY <3>1 DEF Entry
    <3>3. Answered(job[h].client, job[h].asOf) \in Job
      BY <3>1 DEF Answered, Job, Answer
    <3> QED BY <2>4, <3>1, <3>2, <3>3 DEF FetchStore, Become
  <2>5. ASSUME NEW h \in Handler, FetchFail(h)
        PROVE  TypeOK'
    <3>1. job[h].client \in Client /\ job[h].seen \in Entry \cup {None}
      BY <2>5, JobType DEF FetchFail
    <3>2. Answered(job[h].client, None) \in Job
      BY <3>1 DEF Answered, Job, Answer
    <3>3. Servable(job[h].seen) => /\ Renewed(job[h].seen) \in Entry
                                   /\ Answered(job[h].client, job[h].seen.asOf) \in Job
      BY <3>1 DEF Servable, Renewed, Entry, Answered, Job, Answer
    <3>4. job' \in [Handler -> Job]
      BY <2>5, <3>2, <3>3 DEF FetchFail, Become
    <3>5. entries' \in [Client -> Entry \cup {None}]
      BY <2>5, <3>1, <3>3 DEF FetchFail
    <3>6. lastFail' \in [Client -> Nat \cup {None}]
      BY <2>5, <3>1 DEF FetchFail
    <3> QED BY <2>5, <3>4, <3>5, <3>6 DEF FetchFail
  <2>6. ASSUME NEW h \in Handler, Return(h)
        PROVE  TypeOK'
    BY <2>6 DEF Return, Become, Job
  <2>7. CASE Tick
    BY <2>7 DEF Tick
  <2>8. CASE Restart
    BY <2>8 DEF Restart, Job
  <2>9. CASE UNCHANGED vars
    BY <2>9 DEF vars
  <2> QED
    BY <2>1, <2>2, <2>3, <2>4, <2>5, <2>6, <2>7, <2>8, <2>9 DEF Next
<1> QED BY <1>1, <1>2, PTL DEF Spec

-----------------------------------------------------------------------------
(* How old a copy can get.  An entry, in the cache or in the hands of a    *)
(* resolve that saw it, was fresh for MaxTTL at most when it was stored,   *)
(* or was renewed by a failed fetch while it was still servable.           *)

Young(e) ==
  /\ e.asOf <= e.fetchedAt /\ e.fetchedAt <= e.asOf + FetchTimeout
  /\ e.fetchedAt <= now
  /\ e.expires <= e.fetchedAt + Larger(MaxTTL, StaleMax + MinTTL)

Excused(e, c) ==
  \/ e.expires <= e.fetchedAt + MaxTTL
  \/ lastFail[c] # None /\ e.expires <= lastFail[c] + MinTTL

CacheAge ==
  /\ \A c \in Client : entries[c] # None => Young(entries[c]) /\ Excused(entries[c], c)
  /\ \A c \in Client : lastFail[c] # None => lastFail[c] <= now

FetchAge(j) ==
  /\ j.by <= now + FetchTimeout
  /\ j.seen # None => Young(j.seen)

AnswerAge(j) ==
  /\ j.at <= now
  /\ j.asOf # None =>
       /\ j.at - j.asOf < OldestServed
       /\ j.at - j.asOf >= MaxTTL + FetchTimeout =>
            lastFail[j.client] # None /\ j.at - lastFail[j.client] < MinTTL

JobAge(h) ==
  /\ job[h].step = "fetch" => FetchAge(job[h])
  /\ job[h].step = "got" =>
       /\ FetchAge(job[h])
       /\ job[h].asOf <= now /\ job[h].by <= job[h].asOf + FetchTimeout
       /\ job[h].ttl <= MaxTTL
  /\ job[h].step = "answered" => AnswerAge(job[h])

AgeInv == CacheAge /\ \A h \in Handler : JobAge(h)

(* The longest life of an entry bounds both ways to it.                    *)
LEMMA Spans ==
  /\ Larger(MaxTTL, StaleMax + MinTTL) \in Nat
  /\ MaxTTL <= Larger(MaxTTL, StaleMax + MinTTL)
  /\ StaleMax + MinTTL <= Larger(MaxTTL, StaleMax + MinTTL)
  BY MetadataAssumption DEF Larger

(* A document fetched within FetchTimeout, whose copy is not expired or is *)
(* not too stale, is younger than OldestServed.                            *)
LEMMA YoungEnough ==
  ASSUME NEW t \in Nat, NEW sent \in Nat, NEW fetched \in Nat, NEW expires \in Nat,
         fetched <= sent + FetchTimeout,
         \/ t < expires /\ expires <= fetched + Larger(MaxTTL, StaleMax + MinTTL)
         \/ t - fetched < StaleMax
  PROVE  t - sent < OldestServed
<1> PICK longest \in Nat : longest = Larger(MaxTTL, StaleMax + MinTTL)
  BY Spans
<1>1. StaleMax <= longest
  BY Spans, MetadataAssumption
<1>2. t < fetched + longest
  BY <1>1, MetadataAssumption
<1>3. t - sent < longest + FetchTimeout
  BY <1>2, MetadataAssumption
<1> QED BY <1>3 DEF OldestServed

(* Every time that is compared is a number.                                *)
LEMMA Numbers ==
  ASSUME TypeOK
  PROVE  /\ now \in Nat
         /\ \A c \in Client : lastFail[c] # None => lastFail[c] \in Nat
         /\ \A c \in Client : entries[c] # None =>
              /\ entries[c].asOf \in Nat /\ entries[c].fetchedAt \in Nat
              /\ entries[c].expires \in Nat
         /\ \A h \in Handler : job[h].step \in {"fetch", "got"} /\ job[h].seen # None =>
              /\ job[h].seen.asOf \in Nat /\ job[h].seen.fetchedAt \in Nat
              /\ job[h].seen.expires \in Nat
  BY JobType DEF TypeOK, Entry

(* A job nobody touches stays within its ages while time passes and other  *)
(* fetches fail.                                                           *)
LEMMA Undisturbed ==
  ASSUME TypeOK, AgeInv, NEW h \in Handler, job'[h] = job[h],
         now' \in Nat, now <= now',
         \A c \in Client : lastFail'[c] = lastFail[c] \/ lastFail'[c] = now
  PROVE  JobAge(h)'
<1> USE Numbers, JobType, MetadataAssumption, NoEntryAssumption
<1>1. JobAge(h)
  BY DEF AgeInv
<1>2. ASSUME job[h].step = "fetch" \/ job[h].step = "got" PROVE FetchAge(job[h])'
  BY <1>1, <1>2 DEF JobAge, FetchAge, Young
<1>3. ASSUME job[h].step = "answered" PROVE AnswerAge(job[h])'
  <2>1. job[h].client \in Client /\ job[h].at \in Nat /\ AnswerAge(job[h])
    BY <1>1, <1>3 DEF JobAge
  <2> QED BY <2>1 DEF AnswerAge
<1>4. job[h].step = "got" => job[h].asOf <= now'
  BY <1>1 DEF JobAge
<1> QED BY <1>1, <1>2, <1>3, <1>4 DEF JobAge

(* Entries nobody touches stay within their ages while time passes.        *)
LEMMA SameCache ==
  ASSUME TypeOK, CacheAge, UNCHANGED <<entries, lastFail>>, now' \in Nat, now <= now'
  PROVE  CacheAge'
  BY Numbers DEF CacheAge, Young, Excused

(* An entry that is replaced by one within its ages leaves the rest as it  *)
(* was; a fetch that failed just now excuses all that failed before.       *)
LEMMA NewEntry ==
  ASSUME TypeOK, CacheAge, UNCHANGED now, NEW c \in Client,
         \A d \in Client \ {c} : entries'[d] = entries[d] /\ lastFail'[d] = lastFail[d],
         lastFail'[c] = lastFail[c] \/ lastFail'[c] = now,
         entries'[c] # None => Young(entries[c])' /\ Excused(entries[c], c)'
  PROVE  CacheAge'
  BY Numbers DEF CacheAge, Young, Excused

(* The document a request is decided on is younger than OldestServed, and  *)
(* one past its freshness is served only just after a failed fetch.        *)
THEOREM Age == Spec => [](ServedAge /\ StaleOnlyAfterFailure)
<1>1. Init => AgeInv
  BY DEF Init, AgeInv, CacheAge, JobAge, Idle
<1>2. TypeOK /\ AgeInv /\ [Next]_vars => AgeInv'
  <2> SUFFICES ASSUME TypeOK, AgeInv, [Next]_vars PROVE AgeInv'
    OBVIOUS
  <2> USE NoEntryAssumption, MetadataAssumption
  <2>1. ASSUME NEW h \in Handler, NEW c \in Client, ResolveHit(h, c)
        PROVE  AgeInv'
    <3>1. /\ UNCHANGED <<now, entries, lastFail>>
          /\ entries[c] # None /\ now < entries[c].expires
          /\ \A g \in Handler \ {h} : job'[g] = job[g]
          /\ job'[h] = [step |-> "answered", client |-> c, asOf |-> entries[c].asOf, at |-> now]
      BY <2>1 DEF ResolveHit, Become, Fresh, Answered, TypeOK
    <3>2. JobAge(h)'
      <4>1. Young(entries[c]) /\ Excused(entries[c], c)
        BY <3>1 DEF AgeInv, CacheAge
      <4>2. now - entries[c].asOf < OldestServed
        <5>1. /\ entries[c].asOf \in Nat /\ entries[c].fetchedAt \in Nat
              /\ entries[c].expires \in Nat /\ now \in Nat
          BY <3>1, Numbers
        <5> QED BY <3>1, <4>1, <5>1, YoungEnough DEF Young
      <4>3. ASSUME now - entries[c].asOf >= MaxTTL + FetchTimeout
            PROVE  lastFail[c] # None /\ now - lastFail[c] < MinTTL
        <5>1. ~(entries[c].expires <= entries[c].fetchedAt + MaxTTL)
          BY <3>1, <4>1, <4>3, Numbers DEF Young
        <5> QED BY <3>1, <4>1, <5>1, Numbers DEF Excused
      <4> QED BY <3>1, <4>2, <4>3, Numbers DEF JobAge, AnswerAge
    <3> QED BY <3>1, <3>2, Undisturbed, SameCache, Numbers DEF AgeInv
  <2>2. ASSUME NEW h \in Handler, NEW c \in Client, ResolveMiss(h, c)
        PROVE  AgeInv'
    <3>1. /\ UNCHANGED <<now, entries, lastFail>>
          /\ \A g \in Handler \ {h} : job'[g] = job[g]
          /\ job'[h] = [step |-> "fetch", client |-> c, seen |-> entries[c],
                        by |-> now + FetchTimeout]
      BY <2>2 DEF ResolveMiss, Become, TypeOK
    <3>2. JobAge(h)'
      BY <3>1, Numbers DEF JobAge, FetchAge, AgeInv, CacheAge, Young
    <3> QED BY <3>1, <3>2, Undisturbed, SameCache, Numbers DEF AgeInv
  <2>3. ASSUME NEW h \in Handler, NEW cc \in CacheControl, HostAnswers(h, cc)
        PROVE  AgeInv'
    <3>1. /\ UNCHANGED <<now, entries, lastFail>>
          /\ job[h].step = "fetch"
          /\ \A g \in Handler \ {h} : job'[g] = job[g]
          /\ job'[h] = [step |-> "got", client |-> job[h].client, seen |-> job[h].seen,
                        by |-> job[h].by, asOf |-> now, ttl |-> CacheTTL(cc)]
      BY <2>3 DEF HostAnswers, Become, TypeOK
    <3>2. FetchAge(job[h])
      BY <3>1 DEF AgeInv, JobAge
    <3>3. JobAge(h)'
      BY <3>1, <3>2, CacheTTLBounded, JobType, Numbers DEF JobAge, FetchAge, Young
    <3> QED BY <3>1, <3>3, Undisturbed, SameCache, Numbers DEF AgeInv
  <2>4. ASSUME NEW h \in Handler, FetchStore(h)
        PROVE  AgeInv'
    <3> PICK c \in Client : c = job[h].client
      BY <2>4, JobType DEF FetchStore
    <3> PICK e \in Entry : e = [asOf |-> job[h].asOf, fetchedAt |-> now,
                               expires |-> now + job[h].ttl]
      BY <2>4, JobType, Numbers DEF FetchStore, Entry
    <3>1. /\ UNCHANGED <<now, lastFail>>
          /\ job[h].step = "got" /\ now <= job[h].by /\ c \in Client
          /\ job[h].by \in Nat /\ job[h].asOf \in Nat /\ job[h].ttl \in Nat
          /\ entries' = [entries EXCEPT ![c] = e]
          /\ \A g \in Handler \ {h} : job'[g] = job[g]
          /\ job'[h] = [step |-> "answered", client |-> c, asOf |-> job[h].asOf, at |-> now]
      BY <2>4, JobType DEF FetchStore, Become, Answered, TypeOK
    <3>2. /\ job[h].asOf <= now /\ now <= job[h].asOf + FetchTimeout
          /\ job[h].ttl <= MaxTTL
      BY <3>1, Numbers DEF AgeInv, JobAge
    <3>3. entries'[c] = e /\ \A d \in Client \ {c} : entries'[d] = entries[d]
      BY <3>1 DEF TypeOK
    <3>4. e.expires <= now + MaxTTL /\ e.fetchedAt = now /\ e.asOf = job[h].asOf
      BY <3>1, <3>2, Numbers
    <3>5. now - job[h].asOf < MaxTTL + FetchTimeout /\ now - job[h].asOf < OldestServed
      BY <3>1, <3>2, Numbers, Spans DEF OldestServed
    <3>6. JobAge(h)'
      BY <3>1, <3>5, Numbers DEF JobAge, AnswerAge
    <3>7. Young(entries[c])' /\ Excused(entries[c], c)'
      <4>1. /\ e.asOf <= e.fetchedAt /\ e.fetchedAt <= e.asOf + FetchTimeout
            /\ e.fetchedAt <= now
            /\ e.expires <= e.fetchedAt + Larger(MaxTTL, StaleMax + MinTTL)
            /\ e.expires <= e.fetchedAt + MaxTTL
        BY <3>1, <3>2, <3>4, Numbers, Spans DEF Entry
      <4> QED BY <3>1, <3>3, <4>1 DEF Young, Excused
    <3>8. CacheAge'
      BY <3>1, <3>3, <3>7, NewEntry DEF AgeInv
    <3> QED BY <3>1, <3>6, <3>8, Undisturbed, Numbers DEF AgeInv
  <2>5. ASSUME NEW h \in Handler, FetchFail(h)
        PROVE  AgeInv'
    <3> PICK c \in Client, seen \in Entry \cup {None} :
          c = job[h].client /\ seen = job[h].seen
      BY <2>5, JobType DEF FetchFail
    <3>1. /\ UNCHANGED now
          /\ job[h].step = "fetch" \/ job[h].step = "got"
          /\ lastFail' = [lastFail EXCEPT ![c] = now]
          /\ \A g \in Handler \ {h} : job'[g] = job[g]
      BY <2>5, JobType DEF FetchFail, Become, TypeOK
    <3>2. lastFail'[c] = now /\ \A d \in Client \ {c} : lastFail'[d] = lastFail[d]
      BY <3>1 DEF TypeOK
    <3>3. CASE Servable(seen)
      <4> PICK e : e = Renewed(seen)
        OBVIOUS
      <4>1. /\ seen # None /\ now - seen.fetchedAt < StaleMax
            /\ seen.asOf \in Nat /\ seen.fetchedAt \in Nat
        BY <3>3 DEF Servable, Entry
      <4>2. /\ entries' = [entries EXCEPT ![c] = e]
            /\ job'[h] = [step |-> "answered", client |-> c, asOf |-> seen.asOf, at |-> now]
        BY <2>5, <3>3 DEF FetchFail, Become, Answered, TypeOK
      <4>3. e.asOf = seen.asOf /\ e.fetchedAt = seen.fetchedAt /\ e.expires = now + MinTTL
        BY DEF Renewed
      <4>4. entries'[c] = e /\ \A d \in Client \ {c} : entries'[d] = entries[d]
        BY <3>1, <4>2 DEF TypeOK
      <4>5. Young(seen)
        BY <3>1, <4>1 DEF AgeInv, JobAge, FetchAge
      <4>6. Young(entries[c])' /\ Excused(entries[c], c)'
        <5>1. /\ e.asOf <= e.fetchedAt /\ e.fetchedAt <= e.asOf + FetchTimeout
              /\ e.fetchedAt <= now
              /\ e.expires <= e.fetchedAt + Larger(MaxTTL, StaleMax + MinTTL)
          BY <4>1, <4>3, <4>5, Numbers, Spans DEF Young
        <5>2. lastFail'[c] = now /\ now # None /\ e.expires <= now + MinTTL
          BY <3>2, <4>3, Numbers
        <5> QED BY <3>1, <4>4, <5>1, <5>2 DEF Young, Excused
      <4>7. CacheAge'
        BY <3>1, <3>2, <4>4, <4>6, NewEntry DEF AgeInv
      <4>8. now - seen.asOf < OldestServed
        BY <4>1, <4>5, Numbers, YoungEnough DEF Young, Entry
      <4>9. JobAge(h)'
        BY <3>1, <3>2, <4>1, <4>2, <4>8, Numbers DEF JobAge, AnswerAge
      <4> QED BY <3>1, <3>2, <4>7, <4>9, Undisturbed, Numbers DEF AgeInv
    <3>4. CASE ~Servable(seen)
      <4>1. /\ UNCHANGED entries
            /\ job'[h] = [step |-> "answered", client |-> c, asOf |-> None, at |-> now]
        BY <2>5, <3>4 DEF FetchFail, Become, Answered, TypeOK
      <4>2. JobAge(h)'
        BY <3>1, <4>1, Numbers DEF JobAge, AnswerAge
      <4>3. entries'[c] # None => Young(entries[c])' /\ Excused(entries[c], c)'
        <5>1. entries[c] # None => Young(entries[c]) /\ Excused(entries[c], c)
          BY DEF AgeInv, CacheAge
        <5>2. entries[c] # None => Young(entries[c])'
          BY <3>1, <4>1, <5>1 DEF Young
        <5>3. entries[c] # None => Excused(entries[c], c)'
          <6>1. lastFail[c] # None => lastFail[c] <= now /\ lastFail[c] \in Nat
            BY Numbers DEF AgeInv, CacheAge
          <6>2. lastFail'[c] = now /\ now # None /\ now \in Nat
            BY <3>2, Numbers
          <6> QED BY <4>1, <5>1, <6>1, <6>2, Numbers DEF Excused
        <5> QED BY <4>1, <5>2, <5>3
      <4>4. CacheAge'
        BY <3>1, <3>2, <4>1, <4>3, NewEntry DEF AgeInv
      <4> QED BY <3>1, <3>2, <4>2, <4>4, Undisturbed, Numbers DEF AgeInv
    <3> QED BY <3>3, <3>4
  <2>6. ASSUME NEW h \in Handler, Return(h)
        PROVE  AgeInv'
    <3>1. /\ UNCHANGED <<now, entries, lastFail>> /\ job'[h] = Idle
          /\ \A g \in Handler \ {h} : job'[g] = job[g]
      BY <2>6 DEF Return, Become, TypeOK
    <3>2. JobAge(h)'
      BY <3>1 DEF JobAge, Idle
    <3> QED BY <3>1, <3>2, Undisturbed, SameCache, Numbers DEF AgeInv
  <2>7. CASE Tick
    <3>1. now' \in Nat /\ now <= now' /\ UNCHANGED <<entries, job, lastFail>>
      BY <2>7, Numbers DEF Tick
    <3> QED BY <3>1, Undisturbed, SameCache, Numbers DEF AgeInv
  <2>8. CASE Restart
    BY <2>8 DEF Restart, Idle, AgeInv, CacheAge, JobAge
  <2>9. CASE UNCHANGED vars
    <3>1. UNCHANGED <<now, entries, lastFail, job>>
      BY <2>9 DEF vars
    <3> QED BY <3>1, Undisturbed, SameCache, Numbers DEF AgeInv
  <2> QED
    BY <2>1, <2>2, <2>3, <2>4, <2>5, <2>6, <2>7, <2>8, <2>9 DEF Next
<1>3. TypeOK /\ AgeInv => ServedAge /\ StaleOnlyAfterFailure
  BY DEF AgeInv, JobAge, AnswerAge, ServedAge, StaleOnlyAfterFailure
<1> QED BY <1>1, <1>2, <1>3, TypeCorrect, PTL DEF Spec

(* A client document past the longest freshness is served only less than   *)
(* MinTTL after a fetch for that client failed (cimd.go:214-220).          *)
THEOREM Staleness == Spec => []StaleOnlyAfterFailure
  BY Age, PTL

-----------------------------------------------------------------------------
(* When the last good copy is served after all: what a resolve saw before  *)
(* its fetch is the last copy stored, unless another resolve of the same   *)
(* client stored one meanwhile.                                            *)

Fetching(h) == job[h].step \in {"fetch", "got"}

(* No two requests fetch the document of one client at the same time.      *)
Alone ==
  \A g, h \in Handler : Fetching(g) /\ Fetching(h) /\ job[g].client = job[h].client => g = h

IsLastGood(e, c) ==
  IF lastGood[c] = None THEN e = None ELSE e # None /\ e.fetchedAt = lastGood[c]

GoodInv ==
  /\ \A c \in Client : IsLastGood(entries[c], c)
  /\ \A h \in Handler : Fetching(h) => IsLastGood(job[h].seen, job[h].client)

(* A handler that does not fetch, or fetches what nobody stored meanwhile, *)
(* keeps its part of the invariant.                                        *)
LEMMA Unstored ==
  ASSUME GoodInv, NEW h \in Handler, job'[h] = job[h],
         Fetching(h) => lastGood'[job[h].client] = lastGood[job[h].client]
  PROVE  Fetching(h)' => IsLastGood(job[h].seen, job[h].client)'
  BY DEF GoodInv, Fetching, IsLastGood

(* As long as no two requests fetch the document of one client at a time,  *)
(* no client is unknown while a copy of it is younger than StaleMax        *)
(* (resolveClient, cimd.go:194-223), however often fetches fail and        *)
(* however many clients are resolved.                                      *)
THEOREM GoodCopies == Spec /\ []Alone => LastGoodCopy
<1>1. Init => GoodInv
  BY DEF Init, GoodInv, IsLastGood, Fetching, Idle
<1>2. TypeOK /\ Alone /\ GoodInv /\ [Next]_vars => GoodInv'
  <2> SUFFICES ASSUME TypeOK, Alone, GoodInv, [Next]_vars PROVE GoodInv'
    OBVIOUS
  <2> USE NoEntryAssumption
  <2>1. ASSUME NEW h \in Handler, UNCHANGED <<entries, lastGood>>,
               \A g \in Handler \ {h} : job'[g] = job[g],
               Fetching(h)' => IsLastGood(job'[h].seen, job'[h].client)
        PROVE  GoodInv'
    BY <2>1, Unstored DEF GoodInv, IsLastGood
  <2>2. ASSUME NEW h \in Handler, NEW c \in Client, ResolveHit(h, c)
        PROVE  GoodInv'
    BY <2>1, <2>2 DEF ResolveHit, Become, Answered, TypeOK, Fetching
  <2>3. ASSUME NEW h \in Handler, NEW c \in Client, ResolveMiss(h, c)
        PROVE  GoodInv'
    BY <2>1, <2>3 DEF ResolveMiss, Become, TypeOK, GoodInv
  <2>4. ASSUME NEW h \in Handler, NEW cc \in CacheControl, HostAnswers(h, cc)
        PROVE  GoodInv'
    BY <2>1, <2>4 DEF HostAnswers, Become, TypeOK, GoodInv, Fetching
  <2>5. ASSUME NEW h \in Handler, FetchStore(h)
        PROVE  GoodInv'
    <3> PICK c \in Client : c = job[h].client
      BY <2>5, JobType DEF FetchStore
    <3>1. /\ lastGood' = [lastGood EXCEPT ![c] = now] /\ now # None
          /\ entries' = [entries EXCEPT ![c] =
               [asOf |-> job[h].asOf, fetchedAt |-> now, expires |-> now + job[h].ttl]]
          /\ [asOf |-> job[h].asOf, fetchedAt |-> now, expires |-> now + job[h].ttl] # None
          /\ \A g \in Handler \ {h} : job'[g] = job[g]
          /\ job'[h].step = "answered" /\ Fetching(h)
      <4>1. [asOf |-> job[h].asOf, fetchedAt |-> now, expires |-> now + job[h].ttl] \in Entry
        BY <2>5, JobType, Numbers DEF FetchStore, Entry
      <4> QED BY <2>5, <4>1, Numbers DEF FetchStore, Become, Answered, TypeOK, Fetching
    <3>2. \A d \in Client : IsLastGood(entries[d], d)'
      BY <3>1 DEF GoodInv, IsLastGood, TypeOK
    <3>3. ASSUME NEW g \in Handler, Fetching(g)'
          PROVE  IsLastGood(job[g].seen, job[g].client)'
      <4>1. g # h /\ job'[g] = job[g] /\ Fetching(g)
        BY <3>1, <3>3 DEF Fetching
      <4>2. job[g].client \in Client /\ job[g].client # c
        BY <3>1, <4>1, JobType DEF Alone, Fetching
      <4>3. lastGood'[job[g].client] = lastGood[job[g].client]
        BY <3>1, <4>2 DEF TypeOK
      <4> QED BY <3>3, <4>1, <4>3, Unstored
    <3> QED BY <3>2, <3>3 DEF GoodInv
  <2>6. ASSUME NEW h \in Handler, FetchFail(h)
        PROVE  GoodInv'
    <3> PICK c \in Client, seen \in Entry \cup {None} :
          c = job[h].client /\ seen = job[h].seen
      BY <2>6, JobType DEF FetchFail
    <3>1. /\ UNCHANGED lastGood /\ Fetching(h)
          /\ job'[h].step = "answered" /\ \A g \in Handler \ {h} : job'[g] = job[g]
          /\ entries' = IF Servable(seen) THEN [entries EXCEPT ![c] = Renewed(seen)] ELSE entries
      BY <2>6 DEF FetchFail, Become, Answered, TypeOK, Fetching
    <3>2. Servable(seen) => /\ Renewed(seen) # None
                            /\ Renewed(seen).fetchedAt = seen.fetchedAt /\ seen # None
      <4>1. Servable(seen) => Renewed(seen) \in Entry
        BY MetadataAssumption, Numbers DEF Servable, Renewed, Entry
      <4> QED BY <4>1 DEF Servable, Renewed
    <3>3. IsLastGood(seen, c)
      BY <3>1 DEF GoodInv
    <3>4. \A d \in Client : IsLastGood(entries[d], d)'
      BY <3>1, <3>2, <3>3 DEF GoodInv, IsLastGood, TypeOK
    <3>5. ASSUME NEW g \in Handler, Fetching(g)'
          PROVE  IsLastGood(job[g].seen, job[g].client)'
      BY <3>1, <3>5, Unstored DEF Fetching
    <3> QED BY <3>4, <3>5 DEF GoodInv
  <2>7. ASSUME NEW h \in Handler, Return(h)
        PROVE  GoodInv'
    BY <2>1, <2>7 DEF Return, Become, Idle, TypeOK, Fetching
  <2>8. CASE Tick
    BY <2>8 DEF Tick, GoodInv, IsLastGood, Fetching
  <2>9. CASE Restart
    BY <2>9 DEF Restart, Idle, GoodInv, IsLastGood, Fetching
  <2>10. CASE UNCHANGED vars
    BY <2>10 DEF vars, GoodInv, IsLastGood, Fetching
  <2> QED
    BY <2>2, <2>3, <2>4, <2>5, <2>6, <2>7, <2>8, <2>9, <2>10 DEF Next
<1>3. TypeOK /\ GoodInv /\ [Next]_vars
        => [\A h \in Handler :
              LET answer == job'[h] IN
              job[h].step # "answered" /\ answer.step = "answered" /\ answer.asOf = None
                => \/ lastGood[answer.client] = None
                   \/ now - lastGood[answer.client] >= StaleMax]_vars
  <2> SUFFICES ASSUME TypeOK, GoodInv, Next, NEW h \in Handler,
                      job[h].step # "answered", job'[h].step = "answered", job'[h].asOf = None,
                      lastGood[job'[h].client] # None
               PROVE  now - lastGood[job'[h].client] >= StaleMax
    OBVIOUS
  <2> USE NoEntryAssumption, MetadataAssumption
  <2>1. FetchFail(h)
    <3>1. \A c \in Client : ~ResolveHit(h, c) /\ ~ResolveMiss(h, c)
      <4>1. \A c \in Client : ResolveHit(h, c) => job'[h].asOf = entries[c].asOf
        BY DEF ResolveHit, Become, Answered, TypeOK
      <4> QED BY <4>1, Numbers DEF ResolveHit, ResolveMiss, Become, Fresh, TypeOK
    <3>2. \A cc \in CacheControl : ~HostAnswers(h, cc)
      BY DEF HostAnswers, Become, TypeOK
    <3>3. ~FetchStore(h)
      BY JobType DEF FetchStore, Become, Answered, TypeOK
    <3>4. ~Return(h) /\ ~Tick /\ ~Restart
      BY DEF Return, Tick, Restart, Become, Idle, TypeOK
    <3>5. ASSUME NEW g \in Handler, g # h
          PROVE  /\ \A c \in Client : ~ResolveHit(g, c) /\ ~ResolveMiss(g, c)
                 /\ \A cc \in CacheControl : ~HostAnswers(g, cc)
                 /\ ~FetchStore(g) /\ ~FetchFail(g) /\ ~Return(g)
      BY <3>5 DEF ResolveHit, ResolveMiss, HostAnswers, FetchStore, FetchFail, Return, Become, TypeOK
    <3> QED BY <3>1, <3>2, <3>3, <3>4, <3>5 DEF Next
  <2> PICK c \in Client, seen \in Entry \cup {None} :
        c = job[h].client /\ seen = job[h].seen
    BY <2>1, JobType DEF FetchFail
  <2>2. IsLastGood(seen, c)
    BY <2>1 DEF FetchFail, GoodInv, Fetching
  <2>3. job'[h].client = c /\ ~Servable(seen)
    <3>1. seen # None => seen.asOf \in Nat
      BY DEF Entry
    <3>2. Servable(seen) => job'[h].asOf = seen.asOf
      BY <2>1 DEF FetchFail, Become, Answered, TypeOK
    <3> QED BY <2>1, <3>1, <3>2 DEF FetchFail, Become, Answered, TypeOK, Servable
  <2>4. seen # None /\ seen.fetchedAt = lastGood[c] /\ seen.fetchedAt \in Nat /\ now \in Nat
    BY <2>2, <2>3, Numbers DEF IsLastGood, Entry
  <2> QED BY <2>3, <2>4 DEF Servable
<1> QED BY <1>1, <1>2, <1>3, TypeCorrect, PTL DEF Spec, LastGoodCopy
==============================================================================
