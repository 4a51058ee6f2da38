--------------------------- MODULE ClientMetadata ----------------------------
(***************************************************************************)
(* The cache of client metadata documents, src/server/cimd.go.  Every      *)
(* authorize, exchange and refresh begins with resolveClient: it answers   *)
(* from the cache, or fetches the document and stores it, or, when the     *)
(* fetch fails, goes on serving the copy it had.  The cache is locked when *)
(* it is read and when it is written, not while the document is fetched,   *)
(* so each resolve works on the entry it saw before the fetch.             *)
(***************************************************************************)
EXTENDS Integers, Sequences

CONSTANTS
  Client,        \* client ids: https URLs that pass isClientIDURL
  Handler,       \* requests that resolve a client at the same time
  CacheControl,  \* Cache-Control headers, as the directives cacheTTL reads
  NoStore,       \* the directives no-store and no-cache
  None,          \* no entry; the unknown client
  MinTTL, MaxTTL, DefaultTTL,
  StaleMax,
  FetchTimeout,
  MaxTime, MaxRestarts  \* bounds on the clock and the number of restarts

ASSUME MetadataAssumption ==
  /\ MinTTL \in Nat /\ MaxTTL \in Nat /\ DefaultTTL \in Nat /\ StaleMax \in Nat
  /\ FetchTimeout \in Nat /\ MaxTime \in Nat /\ MaxRestarts \in Nat
  /\ 0 < MinTTL /\ MinTTL <= MaxTTL
  /\ CacheControl \subseteq Seq(Int \cup {NoStore})

Entry == [asOf : Nat, fetchedAt : Nat, expires : Nat]

ASSUME NoEntryAssumption == None \notin Entry /\ None \notin Nat

Idle == [step |-> "idle"]
FetchJob == [step : {"fetch"}, client : Client, seen : Entry \cup {None}, by : Nat]
GotJob == [step : {"got"}, client : Client, seen : Entry \cup {None}, by : Nat,
           asOf : Nat, ttl : Nat]
Answer == [step : {"answered"}, client : Client, asOf : Nat \cup {None}, at : Nat]
Job == {Idle} \cup FetchJob \cup GotJob \cup Answer

VARIABLES
  now,
  entries,   \* cimdCache.entries; asOf is when the host sent the document
  job,       \* what each handler is doing inside resolveClient
  restarts,
  \* history, read by the properties only
  lastGood,  \* when this process last stored a document of the client
  lastFail   \* when a fetch for the client last failed

history == <<lastGood, lastFail>>
vars == <<now, entries, job, restarts, history>>

Init ==
  /\ now = 0
  /\ entries = [c \in Client |-> None]
  /\ job = [h \in Handler |-> Idle]
  /\ restarts = 0
  /\ lastGood = [c \in Client |-> None]
  /\ lastFail = [c \in Client |-> None]

-----------------------------------------------------------------------------
Clamp(ttl) == IF ttl < MinTTL THEN MinTTL ELSE IF ttl > MaxTTL THEN MaxTTL ELSE ttl

CacheTTL_NoFloor(cc) ==                    \* mutant: max-age=-1 is taken as it is
  IF cc = <<>> THEN DefaultTTL
  ELSE IF cc[Len(cc)] = NoStore THEN MinTTL
  ELSE IF cc[Len(cc)] > MaxTTL THEN MaxTTL ELSE cc[Len(cc)]

(* Each max-age and each no-store or no-cache overrides what came before;  *)
(* directives the code skips are not in cc.                                *)
CacheTTL(cc) ==
  IF cc = <<>> THEN Clamp(DefaultTTL)
  ELSE IF cc[Len(cc)] = NoStore THEN MinTTL
  ELSE Clamp(cc[Len(cc)])

Become(h, j) == job' = [job EXCEPT ![h] = j]

Answered(c, asOf) == [step |-> "answered", client |-> c, asOf |-> asOf, at |-> now]

Fresh(entry) == entry # None /\ now < entry.expires

ResolveHit(h, c) ==
  /\ job[h] = Idle
  /\ Fresh(entries[c])
  /\ Become(h, Answered(c, entries[c].asOf))
  /\ UNCHANGED <<now, entries, restarts, history>>

ResolveMiss(h, c) ==
  /\ job[h] = Idle
  /\ ~Fresh(entries[c])
  /\ Become(h, [step |-> "fetch", client |-> c, seen |-> entries[c], by |-> now + FetchTimeout])
  /\ UNCHANGED <<now, entries, restarts, history>>

(* The host sends a document that passes every check of                    *)
(* fetchClientMetadata; it is on its way until it is stored.               *)
HostAnswers(h, cc) ==
  /\ job[h].step = "fetch"
  /\ now <= job[h].by
  /\ Become(h, [step |-> "got", client |-> job[h].client, seen |-> job[h].seen,
                by |-> job[h].by, asOf |-> now, ttl |-> CacheTTL(cc)])
  /\ UNCHANGED <<now, entries, restarts, history>>

FetchStore(h) ==
  /\ job[h].step = "got"
  /\ now <= job[h].by
  /\ LET c == job[h].client IN
     /\ entries' = [entries EXCEPT ![c] =
          [asOf |-> job[h].asOf, fetchedAt |-> now, expires |-> now + job[h].ttl]]
     /\ lastGood' = [lastGood EXCEPT ![c] = now]
     /\ Become(h, Answered(c, job[h].asOf))
  /\ UNCHANGED <<now, restarts, lastFail>>

Servable_Always(entry) == entry # None     \* mutant: stale copies never end

Servable(entry) == entry # None /\ now - entry.fetchedAt < StaleMax

Renewed_Long(entry) ==                     \* mutant: the wrong lifetime
  [asOf |-> entry.asOf, fetchedAt |-> entry.fetchedAt, expires |-> now + MaxTTL]

Renewed(entry) ==
  [asOf |-> entry.asOf, fetchedAt |-> entry.fetchedAt, expires |-> now + MinTTL]

(* No connection, a status other than 200, a document that does not parse  *)
(* or does not pass the checks, or no time left.  What is written back is  *)
(* the entry this resolve saw before the fetch.                            *)
FetchFail(h) ==
  /\ job[h].step \in {"fetch", "got"}
  /\ LET c == job[h].client
         seen == job[h].seen
     IN /\ IF Servable(seen)
             THEN /\ entries' = [entries EXCEPT ![c] = Renewed(seen)]
                  /\ Become(h, Answered(c, seen.asOf))
             ELSE /\ Become(h, Answered(c, None))
                  /\ UNCHANGED entries
        /\ lastFail' = [lastFail EXCEPT ![c] = now]
  /\ UNCHANGED <<now, restarts, lastGood>>

(* The caller takes the answer.                                            *)
Return(h) ==
  /\ job[h].step = "answered"
  /\ Become(h, Idle)
  /\ UNCHANGED <<now, entries, restarts, history>>

Tick ==
  /\ now < MaxTime
  /\ now' = now + 1
  /\ UNCHANGED <<entries, job, restarts, history>>

Restart ==
  /\ restarts < MaxRestarts
  /\ restarts' = restarts + 1
  /\ entries' = [c \in Client |-> None]
  /\ job' = [h \in Handler |-> Idle]
  /\ lastGood' = [c \in Client |-> None]
  /\ UNCHANGED <<now, lastFail>>

Next ==
  \/ \E h \in Handler :
       \/ \E c \in Client : ResolveHit(h, c) \/ ResolveMiss(h, c)
       \/ \E cc \in CacheControl : HostAnswers(h, cc)
       \/ FetchStore(h)
       \/ FetchFail(h)
       \/ Return(h)
  \/ Tick
  \/ Restart

Spec == Init /\ [][Next]_vars

-----------------------------------------------------------------------------
TypeOK ==
  /\ now \in Nat /\ restarts \in Nat
  /\ entries \in [Client -> Entry \cup {None}]
  /\ job \in [Handler -> Job]
  /\ lastGood \in [Client -> Nat \cup {None}]
  /\ lastFail \in [Client -> Nat \cup {None}]

Larger(a, b) == IF a > b THEN a ELSE b

(* No request is decided on a document older than this: the longest a copy *)
(* can be fresh or stale, one more renewal, and the time of the fetch.     *)
OldestServed == Larger(MaxTTL, StaleMax + MinTTL) + FetchTimeout

(* However the resolves interleave and fail, and whatever the host's       *)
(* Cache-Control says, the document a request is decided on is younger     *)
(* than OldestServed (resolveClient, cimd.go:194-223).                     *)
ServedAge ==
  \A h \in Handler :
    job[h].step = "answered" /\ job[h].asOf # None => job[h].at - job[h].asOf < OldestServed

(* A document past the longest freshness is served only as an emergency: a *)
(* fetch for that client failed less than MinTTL ago, so a client that     *)
(* changed its redirect URIs is not held to the old ones while its host    *)
(* answers (cimd.go:214-220).                                              *)
StaleOnlyAfterFailure ==
  \A h \in Handler :
    job[h].step = "answered" /\ job[h].asOf # None
      /\ job[h].at - job[h].asOf >= MaxTTL + FetchTimeout
    => /\ lastFail[job[h].client] # None
       /\ job[h].at - lastFail[job[h].client] < MinTTL

(* "On a failed fetch the last good copy is served for up to cimdStaleMax: *)
(* a refresh token must not die because the metadata host had a bad        *)
(* minute" (cimd.go:192-193): no client is called unknown when a document  *)
(* of it that this process stored is younger than StaleMax.                *)
LastGoodCopy ==
  [][\A h \in Handler :
       LET answer == job'[h] IN
       job[h].step # "answered" /\ answer.step = "answered" /\ answer.asOf = None
         => \/ lastGood[answer.client] = None
            \/ now - lastGood[answer.client] >= StaleMax]_vars
==============================================================================
