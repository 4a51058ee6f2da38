-------------------------- MODULE OAuthServerProofs --------------------------
(***************************************************************************)
(* Proofs about OAuthServer, for any number of requests, codes, handlers,  *)
(* browsers, users and clients and any lifetimes.                          *)
(***************************************************************************)
EXTENDS OAuthServer, TLAPS

USE DEF memory, history

(* Sweeping only forgets: a swept map holds nothing it did not hold.       *)
LEMMA SweptShrinks ==
  ASSUME TypeOK
  PROVE  /\ Swept(pending) \in [AuthzId -> Request \cup {None}]
         /\ \A id \in AuthzId : Swept(pending)[id] # None =>
              pending[id] # None /\ Swept(pending)[id] = pending[id]
         /\ Swept(codes) \in [CodeId -> Code \cup {None}]
         /\ \A c \in CodeId : Swept(codes)[c] # None =>
              codes[c] # None /\ Swept(codes)[c] = codes[c]
  BY DEF Swept, TypeOK

(* Signing adds well-formed claims.                                        *)
LEMMA MintType ==
  ASSUME TypeOK, NEW u \in User, NEW k \in Client
  PROVE  /\ Signed("access", u, k, AccessTTL) \in Claims
         /\ Signed("refresh", u, k, RefreshTTL) \in Claims
         /\ Signed("api", u, k, ApiTTL) \in Claims
  BY TimeAssumption DEF Signed, Claims, TypeOK

(* What a handler is doing tells which fields its job has.                 *)
LEMMA JobType ==
  ASSUME TypeOK, NEW h \in Handler
  PROVE  /\ At(h, "login") => job[h].authz \in AuthzId
         /\ At(h, "lookup") \/ At(h, "attach") =>
              job[h].authz \in AuthzId /\ job[h].user \in User
         /\ At(h, "exchange") =>
              job[h].id \in CodeId /\ job[h].code \in Code /\ job[h].with \in Presented
         /\ At(h, "ask") \/ At(h, "mint") =>
              job[h].user \in User /\ job[h].client \in Client /\ job[h].deadline \in Nat
         /\ At(h, "call") =>
              job[h].user \in User /\ job[h].client \in Client /\ job[h].admitted \in Nat
  BY DEF TypeOK, At, Job, Idle, CallbackJob, ExchangeJob, RefreshJob, CallJob

(* Every variable keeps its type: the maps of memory, the jobs of the      *)
(* handlers and every signed claims record are well formed.                *)
THEOREM TypeCorrect == Spec => []TypeOK
<1>1. Init => TypeOK
  BY DEF Init, TypeOK, Job, Idle
<1>2. TypeOK /\ [Next]_vars => TypeOK'
  <2> SUFFICES ASSUME TypeOK, [Next]_vars PROVE TypeOK'
    OBVIOUS
  <2> USE NoneAssumption, TimeAssumption DEF TypeOK
  <2>1. ASSUME NEW b \in Browser, NEW id \in AuthzId, NEW client \in Client,
               NEW redirect \in Redirect, NEW v \in Verifier,
               Authorize(b, id, client, redirect, v)
        PROVE  TypeOK'
    <3>1. Swept(pending) \in [AuthzId -> Request \cup {None}]
      BY SweptShrinks
    <3>2. Swept(codes) \in [CodeId -> Code \cup {None}]
      BY SweptShrinks
    <3>3. [client |-> client, redirect |-> redirect, challenge |-> S256(v),
           email |-> None, expires |-> now + AuthzTTL] \in Request
      BY DEF Request
    <3>4. pending' \in [AuthzId -> Request \cup {None}]
      BY <2>1, <3>1, <3>3 DEF Authorize
    <3> QED BY <2>1, <3>2, <3>4 DEF Authorize
  <2>2. ASSUME NEW h \in Handler, NEW b \in Browser, CallbackStart(h, b)
        PROVE  TypeOK'
    <3>1. cookie[b] \in AuthzId
      BY <2>2 DEF CallbackStart
    <3>2. [step |-> "login", authz |-> cookie[b]] \in Job
      BY <3>1 DEF Job, CallbackJob
    <3>3. job' \in [Handler -> Job]
      BY <2>2, <3>2 DEF CallbackStart, Become
    <3>4. pending' \in [AuthzId -> Request \cup {None}]
      BY <2>2, <3>1 DEF CallbackStart, Drop
    <3> QED BY <2>2, <3>3, <3>4 DEF CallbackStart
  <2>3. ASSUME NEW b \in Browser, NEW c \in CodeId, Approve(b, c)
        PROVE  TypeOK'
    <3>1. pending[cookie[b]] \in Request /\ cookie[b] \in AuthzId
      BY <2>3 DEF Approve, Approvable, Live
    <3>2. CodeFor(pending[cookie[b]]) \in Code
      BY <2>3, <3>1 DEF Approve, Approvable, CodeFor, Code, Request
    <3>3. [authz |-> cookie[b], request |-> pending[cookie[b]]] \in Grant
      BY <3>1 DEF Grant
    <3> QED BY <2>3, <3>1, <3>2, <3>3 DEF Approve, Drop, CookieDeleted
  <2>4. ASSUME NEW b \in Browser, ApproveRefused(b) \/ Deny(b)
        PROVE  TypeOK'
    BY <2>4 DEF ApproveRefused, Deny, Drop, CookieDeleted
  <2>5. ASSUME NEW h \in Handler, NEW u \in User, OidcExchange(h, u)
        PROVE  TypeOK'
    <3>1. [step |-> "lookup", authz |-> job[h].authz, user |-> u] \in Job
      BY <2>5, JobType DEF OidcExchange, Job, CallbackJob
    <3> QED BY <2>5, <3>1 DEF OidcExchange, Become
  <2>6. ASSUME NEW h \in Handler, CallbackLookup(h) \/ RefreshLookup(h) \/ GiveUp(h)
        PROVE  TypeOK'
    <3>1. At(h, "lookup") =>
            [step |-> "attach", authz |-> job[h].authz, user |-> job[h].user] \in Job
      BY JobType DEF Job, CallbackJob
    <3>2. At(h, "ask") =>
            [step |-> "mint", user |-> job[h].user, client |-> job[h].client,
             deadline |-> job[h].deadline] \in Job
      BY JobType DEF Job, RefreshJob
    <3> QED BY <2>6, <3>1, <3>2 DEF CallbackLookup, RefreshLookup, GiveUp, Become, Job
  <2>7. ASSUME NEW h \in Handler, AttachUser(h)
        PROVE  TypeOK'
    <3>1. job[h].authz \in AuthzId /\ job[h].user \in User
      BY <2>7, JobType DEF AttachUser
    <3>2. Live(job[h].authz) =>
            [pending[job[h].authz] EXCEPT !.email = job[h].user] \in Request
      <4>1. \A r \in Request, u \in User : [r EXCEPT !.email = u] \in Request
        BY DEF Request
      <4> QED BY <3>1, <4>1 DEF Live
    <3> QED BY <2>7, <3>1, <3>2 DEF AttachUser, Drop, Become, Job
  <2>8. ASSUME NEW h \in Handler, NEW c \in CodeId, NEW p \in Presented, TakeCode(h, c, p)
        PROVE  TypeOK'
    <3>1. [step |-> "exchange", id |-> c, code |-> codes[c], with |-> p] \in Job
      BY <2>8 DEF TakeCode, Job, ExchangeJob
    <3> QED BY <2>8, <3>1 DEF TakeCode, Become
  <2>9. ASSUME NEW h \in Handler, ExchangeCode(h)
        PROVE  TypeOK'
    <3>1. job[h].id \in CodeId /\ job[h].code \in Code /\ job[h].with \in Presented
      BY <2>9, JobType DEF ExchangeCode
    <3>2. job[h].code.email \in User /\ job[h].with.client \in Client
      BY <3>1 DEF Code, Presented
    <3>3. tokens' \subseteq Claims
      <4>1. tokens' = tokens \/ MintTokens(job[h].code.email, job[h].with.client)
        BY <2>9 DEF ExchangeCode
      <4>2. ASSUME NEW u \in User, NEW k \in Client, MintTokens(u, k)
            PROVE  tokens' \subseteq Claims
        BY <4>2, MintType DEF MintTokens
      <4> QED BY <3>2, <4>1, <4>2
    <3>4. Append(redemptions[job[h].id], job[h].with) \in Seq(Presented)
      BY <3>1
    <3>5. redemptions' \in [CodeId -> Seq(Presented)]
      BY <2>9, <3>1, <3>4 DEF ExchangeCode
    <3>6. job' \in [Handler -> Job]
      BY <2>9 DEF ExchangeCode, Become, Job
    <3> QED BY <2>9, <3>3, <3>5, <3>6 DEF ExchangeCode
  <2>10. ASSUME NEW h \in Handler, NEW t \in tokens, NEW client \in Client,
                RefreshStart(h, t, client)
         PROVE  TypeOK'
    <3>1. [step |-> "ask", user |-> t.user, client |-> client,
           deadline |-> now + HttpTimeout] \in Job
      BY DEF Claims, Job, RefreshJob
    <3> QED BY <2>10, <3>1 DEF RefreshStart, Become
  <2>11. ASSUME NEW h \in Handler, RefreshMint(h)
         PROVE  TypeOK'
    <3>1. tokens' \subseteq Claims
      BY <2>11, JobType, MintType DEF RefreshMint, MintTokens
    <3> QED BY <2>11, <3>1 DEF RefreshMint, Become, Job
  <2>12. ASSUME NEW h \in Handler, NEW t \in tokens, CallStart(h, t)
         PROVE  TypeOK'
    <3>1. [step |-> "call", user |-> t.user, client |-> t.client, admitted |-> now] \in Job
      BY DEF Claims, Job, CallJob
    <3> QED BY <2>12, <3>1 DEF CallStart, Become
  <2>13. ASSUME NEW h \in Handler, TokenTool(h)
         PROVE  TypeOK'
    <3>1. tokens' \subseteq Claims
      BY <2>13, JobType, MintType DEF TokenTool
    <3> QED BY <2>13, <3>1 DEF TokenTool, Become, Job
  <2>14. ASSUME NEW u \in User, Deactivate(u) \/ Reactivate(u)
         PROVE  TypeOK'
    BY <2>14 DEF Deactivate, Reactivate
  <2>15. CASE Tick
    BY <2>15 DEF Tick
  <2>16. CASE Restart
    BY <2>16 DEF Restart, Job
  <2>17. CASE UNCHANGED vars
    BY <2>17 DEF vars
  <2> QED
    BY <2>1, <2>2, <2>3, <2>4, <2>5, <2>6, <2>7, <2>8, <2>9, <2>10, <2>11, <2>12,
       <2>13, <2>14, <2>15, <2>16, <2>17 DEF Next
<1> QED BY <1>1, <1>2, PTL DEF Spec

-----------------------------------------------------------------------------
(* One request, one code, one token pair.  DecidedForGood is inductive     *)
(* once a pending request is known to be an open one and a request with a  *)
(* code an approved one.                                                   *)

FateInv ==
  /\ \A id \in AuthzId : pending[id] # None => fate[id] = "open"
  /\ \A c \in CodeId : granted[c] # None => fate[granted[c].authz] = "approved"
  /\ \A c, d \in CodeId :
       granted[c] # None /\ granted[d] # None /\ granted[c].authz = granted[d].authz => c = d

(* What has become of a request, in the map, the codes and the history.    *)
THEOREM Fates == Spec => []FateInv
<1>1. Init => FateInv
  BY DEF Init, FateInv
<1>2. TypeOK /\ FateInv /\ [Next]_vars => FateInv'
  <2> SUFFICES ASSUME TypeOK, FateInv, [Next]_vars PROVE FateInv'
    OBVIOUS
  <2> USE NoneAssumption DEF TypeOK, FateInv
  <2>1. ASSUME NEW b \in Browser, NEW id \in AuthzId, NEW client \in Client,
               NEW redirect \in Redirect, NEW v \in Verifier,
               Authorize(b, id, client, redirect, v)
        PROVE  FateInv'
    <3>1. \A i \in AuthzId : Swept(pending)[i] # None => pending[i] # None
      BY SweptShrinks
    <3>2. \A i \in AuthzId \ {id} : pending'[i] = Swept(pending)[i]
      BY <2>1, SweptShrinks DEF Authorize
    <3>3. \A i \in AuthzId \ {id} : fate'[i] = fate[i]
      BY <2>1 DEF Authorize
    <3>4. fate[id] = "unused" /\ fate'[id] = "open" /\ granted' = granted
      BY <2>1 DEF Authorize
    <3>5. \A c \in CodeId : granted[c] # None => granted[c].authz \in AuthzId \ {id}
      BY <3>4 DEF Grant
    <3> QED BY <3>1, <3>2, <3>3, <3>4, <3>5
  <2>2. ASSUME NEW b \in Browser, NEW c \in CodeId, Approve(b, c)
        PROVE  FateInv'
    <3>1. cookie[b] \in AuthzId /\ pending[cookie[b]] # None /\ granted[c] = None
      BY <2>2 DEF Approve, Approvable, Live
    <3>2. /\ pending' = [pending EXCEPT ![cookie[b]] = None]
          /\ fate' = [fate EXCEPT ![cookie[b]] = "approved"]
          /\ granted' = [granted EXCEPT ![c] =
                           [authz |-> cookie[b], request |-> pending[cookie[b]]]]
      BY <2>2 DEF Approve, Drop
    <3>3. \A d \in CodeId : granted[d] # None =>
            granted[d].authz \in AuthzId /\ granted[d].authz # cookie[b]
      BY <3>1 DEF Grant
    <3>4. granted'[c] # None /\ granted'[c].authz = cookie[b]
      BY <3>1, <3>2 DEF Grant
    <3> QED BY <3>1, <3>2, <3>3, <3>4
  <2>3. ASSUME NEW b \in Browser, Deny(b)
        PROVE  FateInv'
    <3>1. \A c \in CodeId : granted[c] # None => granted[c].authz \in AuthzId
      BY DEF Grant
    <3> QED BY <2>3, <3>1 DEF Deny, Drop
  <2>4. ASSUME NEW b \in Browser, ApproveRefused(b)
        PROVE  FateInv'
    BY <2>4 DEF ApproveRefused, Drop
  <2>5. ASSUME NEW h \in Handler, NEW b \in Browser, CallbackStart(h, b)
        PROVE  FateInv'
    BY <2>5 DEF CallbackStart, Drop
  <2>6. ASSUME NEW h \in Handler, AttachUser(h)
        PROVE  FateInv'
    BY <2>6 DEF AttachUser, Drop, Live
  <2>7. CASE Restart
    BY <2>7 DEF Restart
  <2>8. CASE UNCHANGED <<pending, fate, granted>>
    BY <2>8
  <2> QED
    BY <2>1, <2>2, <2>3, <2>4, <2>5, <2>6, <2>7, <2>8
    DEF Next, vars, OidcExchange, CallbackLookup, TakeCode, ExchangeCode, RefreshStart,
        RefreshLookup, RefreshMint, CallStart, TokenTool, GiveUp, Deactivate, Reactivate, Tick
<1> QED BY <1>1, <1>2, TypeCorrect, PTL DEF Spec

(* A request that was approved or denied never comes back and yields one   *)
(* code at most, whatever logins are still under way for it.               *)
THEOREM Decided == Spec => []DecidedForGood
<1>1. FateInv => DecidedForGood
  BY DEF FateInv, DecidedForGood
<1> QED BY <1>1, Fates, PTL

-----------------------------------------------------------------------------
(* A code is in the map, or in the hands of one exchange, or gone; while   *)
(* it is in either place nothing was minted from it, and it carries the    *)
(* binding of the request it was made from.                                *)

Copies(code, c) ==
  /\ granted[c] # None
  /\ code.client = granted[c].request.client
  /\ code.redirect = granted[c].request.redirect
  /\ code.challenge = granted[c].request.challenge
  /\ code.email = granted[c].request.email

Unspent(code, c) == Copies(code, c) /\ redemptions[c] = <<>>

Matches(p, c) ==
  /\ granted[c] # None
  /\ p.client = granted[c].request.client
  /\ p.redirect = granted[c].request.redirect
  /\ S256(p.verifier) = granted[c].request.challenge

CodeInv ==
  /\ \A c \in CodeId : granted[c] = None => redemptions[c] = <<>>
  /\ \A c \in CodeId : codes[c] # None => Unspent(codes[c], c)
  /\ \A h \in Handler : At(h, "exchange") =>
       Unspent(job[h].code, job[h].id) /\ codes[job[h].id] = None
  /\ \A g, h \in Handler :
       At(g, "exchange") /\ At(h, "exchange") /\ job[g].id = job[h].id => g = h
  /\ \A c \in CodeId :
       redemptions[c] = <<>> \/ \E p \in Presented : redemptions[c] = <<p>> /\ Matches(p, c)

(* Where a code is, what it carries and what was minted from it.           *)
THEOREM Codes == Spec => []CodeInv
<1>1. Init => CodeInv
  BY DEF Init, CodeInv, At, Idle
<1>2. TypeOK /\ CodeInv /\ [Next]_vars => CodeInv'
  <2> SUFFICES ASSUME TypeOK, CodeInv, [Next]_vars PROVE CodeInv'
    OBVIOUS
  <2> USE NoneAssumption DEF TypeOK, CodeInv, Unspent, Copies, Matches, At
  <2>1. ASSUME NEW b \in Browser, NEW id \in AuthzId, NEW client \in Client,
               NEW redirect \in Redirect, NEW v \in Verifier,
               Authorize(b, id, client, redirect, v)
        PROVE  CodeInv'
    <3>1. \A c \in CodeId : codes'[c] # None => codes[c] # None /\ codes'[c] = codes[c]
      BY <2>1, SweptShrinks DEF Authorize
    <3>2. \A c \in CodeId : codes[c] = None => codes'[c] = None
      BY <3>1
    <3>3. UNCHANGED <<job, granted, redemptions>>
      BY <2>1 DEF Authorize
    <3> QED BY <3>1, <3>2, <3>3, JobType
  <2>2. ASSUME NEW b \in Browser, NEW c \in CodeId, Approve(b, c)
        PROVE  CodeInv'
    <3>1. pending[cookie[b]] \in Request /\ granted[c] = None
      BY <2>2 DEF Approve, Approvable, Live
    <3>2. /\ codes' = [codes EXCEPT ![c] = CodeFor(pending[cookie[b]])]
          /\ granted' = [granted EXCEPT ![c] =
                           [authz |-> cookie[b], request |-> pending[cookie[b]]]]
          /\ UNCHANGED <<job, redemptions>>
      BY <2>2 DEF Approve
    <3>3. granted'[c] = [authz |-> cookie[b], request |-> pending[cookie[b]]]
          /\ granted'[c] # None
      BY <2>2, <3>1, <3>2 DEF Approve, Grant
    <3>4. Unspent(codes[c], c)'
      BY <3>1, <3>2, <3>3 DEF CodeFor
    <3>5. \A h \in Handler : At(h, "exchange") => job[h].id \in CodeId /\ job[h].id # c
      BY <3>1, JobType
    <3> QED BY <3>1, <3>2, <3>4, <3>5
  <2>3. ASSUME NEW h \in Handler, NEW c \in CodeId, NEW p \in Presented, TakeCode(h, c, p)
        PROVE  CodeInv'
    <3>1. job' = [job EXCEPT ![h] = [step |-> "exchange", id |-> c,
                                     code |-> codes[c], with |-> p]]
          /\ codes' = [codes EXCEPT ![c] = None] /\ codes[c] # None
          /\ UNCHANGED <<granted, redemptions>>
      BY <2>3 DEF TakeCode, Become
    <3>2. \A g \in Handler : At(g, "exchange") => job[g].id \in CodeId /\ job[g].id # c
      BY <3>1, JobType
    <3> QED BY <3>1, <3>2
  <2>4. ASSUME NEW h \in Handler, ExchangeCode(h), CodeAccepted(job[h].code, job[h].with)
        PROVE  CodeInv'
    <3> DEFINE c == job[h].id
               p == job[h].with
    <3>1. c \in CodeId /\ p \in Presented /\ At(h, "exchange")
      BY <2>4, JobType DEF ExchangeCode
    <3>2. job' = [job EXCEPT ![h] = Idle]
          /\ redemptions' = [redemptions EXCEPT ![c] = Append(redemptions[c], p)]
          /\ UNCHANGED <<codes, granted>>
      BY <2>4 DEF ExchangeCode, Become
    <3>3. redemptions'[c] = <<p>>
      <4>1. redemptions[c] = <<>>
        BY <3>1
      <4>2. Append(<<>>, p) = <<p>>
        OBVIOUS
      <4> QED BY <3>1, <3>2, <4>1, <4>2
    <3>4. Matches(p, c)
      BY <2>4, <3>1 DEF CodeAccepted
    <3>5. \A g \in Handler : At(g, "exchange")' => At(g, "exchange") /\ job'[g] = job[g]
                                                /\ job[g].id \in CodeId \ {c}
      BY <3>1, <3>2, JobType DEF Idle
    <3> HIDE DEF c, p
    <3>6. \A d \in CodeId : codes[d] # None => d # c
      BY <2>4, <3>1 DEF c
    <3> QED BY <3>1, <3>2, <3>3, <3>4, <3>5, <3>6
  <2>5. ASSUME NEW h \in Handler,
               job'[h].step # "exchange", \A g \in Handler \ {h} : job'[g] = job[g],
               UNCHANGED <<codes, granted, redemptions>>
        PROVE  CodeInv'
    <3>1. \A g \in Handler : At(g, "exchange")' => At(g, "exchange") /\ job'[g] = job[g]
      BY <2>5
    <3> QED BY <2>5, <3>1, JobType
  <2>6. ASSUME NEW h \in Handler, ExchangeCode(h), ~CodeAccepted(job[h].code, job[h].with)
        PROVE  CodeInv'
    <3>1. job' = [job EXCEPT ![h] = Idle] /\ UNCHANGED <<codes, granted, redemptions>>
      BY <2>6 DEF ExchangeCode, Become
    <3> QED BY <2>5, <3>1 DEF Idle
  <2>7. CASE UNCHANGED <<codes, job, granted, redemptions>>
    BY <2>7
  <2>8. ASSUME NEW h \in Handler, NEW b \in Browser, CallbackStart(h, b)
        PROVE  CodeInv'
    <3>1. job'[h].step # "exchange"
      BY <2>8 DEF CallbackStart, Become, Free, Idle
    <3>2. (\A g \in Handler \ {h} : job'[g] = job[g]) /\ UNCHANGED <<codes, granted, redemptions>>
      BY <2>8 DEF CallbackStart, Become
    <3> QED BY <2>5, <3>1, <3>2
  <2>9. ASSUME NEW h \in Handler,
               \/ \E u \in User : OidcExchange(h, u)
               \/ CallbackLookup(h) \/ AttachUser(h)
               \/ RefreshLookup(h) \/ RefreshMint(h)
               \/ \E t \in tokens, client \in Client : RefreshStart(h, t, client)
               \/ \E t \in tokens : CallStart(h, t)
               \/ TokenTool(h) \/ GiveUp(h)
        PROVE  CodeInv'
    <3>1. job'[h].step # "exchange"
      BY <2>9
      DEF OidcExchange, CallbackLookup, AttachUser, RefreshStart, RefreshLookup, RefreshMint,
          CallStart, TokenTool, GiveUp, Become, Idle
    <3>2. (\A g \in Handler \ {h} : job'[g] = job[g]) /\ UNCHANGED <<codes, granted, redemptions>>
      BY <2>9
      DEF OidcExchange, CallbackLookup, AttachUser, RefreshStart, RefreshLookup, RefreshMint,
          CallStart, TokenTool, GiveUp, Become
    <3> QED BY <2>5, <3>1, <3>2
  <2>10. CASE Restart
    BY <2>10 DEF Restart, Idle
  <2> QED
    BY <2>1, <2>2, <2>3, <2>4, <2>6, <2>7, <2>8, <2>9, <2>10
    DEF Next, vars, ApproveRefused, Deny, Deactivate, Reactivate, Tick
<1> QED BY <1>1, <1>2, TypeCorrect, PTL DEF Spec

(* One exchange at most mints from a code, and it presented the client,    *)
(* redirect URI and PKCE verifier of the approved request.                 *)
THEOREM OneTime == Spec => [](OneTimeCode /\ BoundToRequest)
<1>1. TypeOK /\ CodeInv => OneTimeCode /\ BoundToRequest
  <2> SUFFICES ASSUME TypeOK, CodeInv, NEW c \in CodeId
               PROVE  /\ Len(redemptions[c]) <= 1
                      /\ \A i \in DOMAIN redemptions[c] : Matches(redemptions[c][i], c)
    BY DEF OneTimeCode, BoundToRequest, Matches
  <2>1. CASE redemptions[c] = <<>>
    BY <2>1
  <2>2. ASSUME NEW p \in Presented, redemptions[c] = <<p>>, Matches(p, c)
        PROVE  /\ Len(redemptions[c]) <= 1
               /\ \A i \in DOMAIN redemptions[c] : Matches(redemptions[c][i], c)
    BY <2>2
  <2> QED BY <2>1, <2>2 DEF CodeInv
<1> QED BY <1>1, Codes, TypeCorrect, PTL

-----------------------------------------------------------------------------
(* The end of a session.  RevocationBound looks at the access tokens and   *)
(* the calls only; what keeps it true is that everything on the way to an  *)
(* access token runs out as well: the pending request the user was         *)
(* attached to, the login that is about to attach the user to one, the     *)
(* code, the refresh that already has FreeScout's answer.  Deadlines says  *)
(* how far ahead each of them can reach at any time, and Ending how far    *)
(* past the loss of access.                                                *)

Deadlines ==
  /\ \A id \in AuthzId : pending[id] # None =>
       pending[id].expires <= now + AuthzTTL /\ fate[id] # "unused"
  /\ \A c \in CodeId : codes[c] # None => codes[c].expires <= now + CodeTTL
  /\ \A t \in tokens : t.kind = "access" => t.expires <= now + AccessTTL
  /\ \A h \in Handler :
       /\ At(h, "login") \/ At(h, "lookup") \/ At(h, "attach") => fate[job[h].authz] # "unused"
       /\ At(h, "exchange") => job[h].code.expires <= now + CodeTTL
       /\ At(h, "ask") \/ At(h, "mint") => job[h].deadline <= now + HttpTimeout
       /\ At(h, "call") => job[h].admitted <= now

Ending(u) ==
  /\ \A id \in AuthzId :
       pending[id] # None /\ pending[id].email = u => pending[id].expires <= since[u] + AuthzTTL
  /\ \A c \in CodeId :
       codes[c] # None /\ codes[c].email = u => codes[c].expires <= since[u] + AuthzTTL + CodeTTL
  /\ \A t \in tokens :
       t.user = u /\ t.kind = "access" => t.expires <= since[u] + Afterlife
  /\ \A h \in Handler :
       /\ At(h, "attach") /\ job[h].user = u /\ pending[job[h].authz] # None =>
            pending[job[h].authz].expires <= since[u] + AuthzTTL
       /\ At(h, "exchange") /\ job[h].code.email = u =>
            job[h].code.expires <= since[u] + AuthzTTL + CodeTTL
       /\ At(h, "mint") /\ job[h].user = u => job[h].deadline <= since[u] + HttpTimeout
       /\ At(h, "call") /\ job[h].user = u => job[h].admitted <= since[u] + Afterlife

RevocationInv == Deadlines /\ \A u \in User \ active : Ending(u)

(* The fields the invariant does arithmetic with are numbers.              *)
LEMMA Numbers ==
  ASSUME TypeOK
  PROVE  /\ now \in Nat
         /\ \A u \in User : since[u] \in Nat
         /\ \A id \in AuthzId : pending[id] # None => pending[id].expires \in Nat
         /\ \A c \in CodeId : codes[c] # None => codes[c].expires \in Nat
         /\ \A t \in tokens : t.expires \in Nat
         /\ \A h \in Handler : At(h, "exchange") => job[h].code.expires \in Nat
  BY JobType DEF TypeOK, Request, Code, Claims

(* Afterlife is long enough for each way to a token.                       *)
LEMMA Bounds ==
  /\ Afterlife \in Nat
  /\ AuthzTTL + CodeTTL + AccessTTL <= Afterlife
  /\ HttpTimeout + AccessTTL <= Afterlife
  BY TimeAssumption DEF Afterlife, Larger

(* After a user lost access, no access token of the user is valid and no   *)
(* call of the user is admitted later than Afterlife, at any lifetimes.    *)
THEOREM Revocation == Spec => []RevocationBound
<1>1. Init => RevocationInv
  BY DEF Init, RevocationInv, Deadlines, Ending, At, Idle
<1>2. TypeOK /\ RevocationInv /\ [Next]_vars => RevocationInv'
  <2> SUFFICES ASSUME TypeOK, RevocationInv, [Next]_vars PROVE RevocationInv'
    OBVIOUS
  <2> USE NoneAssumption, TimeAssumption, Numbers, JobType, Bounds
  <2> USE DEF RevocationInv, At
  <2>1. ASSUME NEW b \in Browser, NEW id \in AuthzId, NEW client \in Client,
               NEW redirect \in Redirect, NEW v \in Verifier,
               Authorize(b, id, client, redirect, v)
        PROVE  RevocationInv'
    <3>1. \A i \in AuthzId \ {id} : pending'[i] # None =>
            pending[i] # None /\ pending'[i] = pending[i]
      BY <2>1, SweptShrinks DEF Authorize
    <3>2. pending'[id] = [client |-> client, redirect |-> redirect, challenge |-> S256(v),
                          email |-> None, expires |-> now + AuthzTTL]
      BY <2>1, SweptShrinks DEF Authorize
    <3>3. \A c \in CodeId : codes'[c] # None => codes[c] # None /\ codes'[c] = codes[c]
      BY <2>1, SweptShrinks DEF Authorize
    <3>4. /\ UNCHANGED <<now, job, tokens, active, since>>
          /\ fate' = [fate EXCEPT ![id] = "open"] /\ fate[id] = "unused"
      BY <2>1 DEF Authorize
    <3>5. Deadlines'
      BY <3>1, <3>2, <3>3, <3>4 DEF Deadlines, TypeOK
    <3>6. ASSUME NEW u \in User \ active PROVE Ending(u)'
      <4>1. Ending(u) /\ u # None
        OBVIOUS
      <4> QED BY <3>1, <3>2, <3>3, <3>4, <4>1 DEF Ending, Deadlines
    <3> QED BY <3>4, <3>5, <3>6
  <2>2. ASSUME NEW h \in Handler, NEW b \in Browser, CallbackStart(h, b)
        PROVE  RevocationInv'
    <3>1. /\ UNCHANGED <<now, codes, tokens, active, since, fate>>
          /\ \A i \in AuthzId : pending'[i] # None => pending[i] # None /\ pending'[i] = pending[i]
      BY <2>2 DEF CallbackStart, Drop, TypeOK
    <3>2. \A g \in Handler :
            job'[g] = job[g] \/ (job'[g] = [step |-> "login", authz |-> cookie[b]]
                                /\ pending[cookie[b]] # None /\ cookie[b] \in AuthzId)
      BY <2>2 DEF CallbackStart, Become, Live, TypeOK
    <3>3. Deadlines'
      BY <3>1, <3>2 DEF Deadlines
    <3>4. ASSUME NEW u \in User \ active PROVE Ending(u)'
      BY <3>1, <3>2 DEF Ending
    <3> QED BY <3>1, <3>3, <3>4
  <2>3. ASSUME NEW b \in Browser, NEW c \in CodeId, Approve(b, c)
        PROVE  RevocationInv'
    <3>1. /\ cookie[b] \in AuthzId /\ pending[cookie[b]] # None
          /\ now <= pending[cookie[b]].expires
          /\ pending' = [pending EXCEPT ![cookie[b]] = None]
          /\ codes' = [codes EXCEPT ![c] = CodeFor(pending[cookie[b]])]
          /\ fate' = [fate EXCEPT ![cookie[b]] = "approved"]
          /\ UNCHANGED <<now, job, tokens, active, since>>
      BY <2>3 DEF Approve, Approvable, Live, Expired, Drop, TypeOK
    <3>2. \A i \in AuthzId : pending'[i] # None => pending[i] # None /\ pending'[i] = pending[i]
      BY <3>1 DEF TypeOK
    <3>3. /\ codes'[c].expires = now + CodeTTL
          /\ codes'[c].email = pending[cookie[b]].email
          /\ \A d \in CodeId \ {c} : codes'[d] = codes[d]
      BY <3>1 DEF CodeFor, TypeOK
    <3>4. Deadlines'
      BY <3>1, <3>2, <3>3 DEF Deadlines, TypeOK
    <3>5. ASSUME NEW u \in User \ active PROVE Ending(u)'
      BY <3>1, <3>2, <3>3 DEF Ending, TypeOK
    <3> QED BY <3>1, <3>4, <3>5
  <2>4. ASSUME NEW b \in Browser, ApproveRefused(b) \/ Deny(b)
        PROVE  RevocationInv'
    <3>1. /\ UNCHANGED <<now, codes, job, tokens, active, since>>
          /\ \A i \in AuthzId : pending'[i] # None => pending[i] # None /\ pending'[i] = pending[i]
          /\ \A i \in AuthzId : fate[i] # "unused" => fate'[i] # "unused"
      BY <2>4 DEF ApproveRefused, Deny, Drop, TypeOK
    <3>2. Deadlines'
      BY <3>1 DEF Deadlines
    <3>3. ASSUME NEW u \in User \ active PROVE Ending(u)'
      BY <3>1 DEF Ending
    <3> QED BY <3>1, <3>2, <3>3
  <2>5. ASSUME NEW h \in Handler, NEW u \in User, OidcExchange(h, u)
        PROVE  RevocationInv'
    BY <2>5 DEF OidcExchange, Become, Deadlines, Ending, TypeOK
  <2>6. ASSUME NEW h \in Handler, CallbackLookup(h)
        PROVE  RevocationInv'
    <3>1. /\ UNCHANGED <<now, pending, codes, tokens, active, since, fate>>
          /\ At(h, "lookup")
          /\ \A g \in Handler \ {h} : job'[g] = job[g]
          /\ job'[h] = Idle \/ (job[h].user \in active /\
               job'[h] = [step |-> "attach", authz |-> job[h].authz, user |-> job[h].user])
      BY <2>6 DEF CallbackLookup, Become, TypeOK
    <3> QED BY <3>1 DEF Deadlines, Ending, Idle
  <2>7. ASSUME NEW h \in Handler, RefreshLookup(h)
        PROVE  RevocationInv'
    <3>1. /\ UNCHANGED <<now, pending, codes, tokens, active, since, fate>>
          /\ At(h, "ask")
          /\ \A g \in Handler \ {h} : job'[g] = job[g]
          /\ job'[h] = Idle \/ (job[h].user \in active /\
               job'[h] = [step |-> "mint", user |-> job[h].user, client |-> job[h].client,
                          deadline |-> job[h].deadline])
      BY <2>7 DEF RefreshLookup, Become, TypeOK
    <3> QED BY <3>1 DEF Deadlines, Ending, Idle
  <2>8. ASSUME NEW h \in Handler, AttachUser(h)
        PROVE  RevocationInv'
    <3> DEFINE id == job[h].authz
    <3>1. /\ UNCHANGED <<now, codes, tokens, active, since, fate>>
          /\ At(h, "attach") /\ id \in AuthzId /\ job[h].user \in User
          /\ \A g \in Handler \ {h} : job'[g] = job[g]
          /\ job'[h] = Idle
      BY <2>8 DEF AttachUser, Become, TypeOK
    <3>2. \A i \in AuthzId \ {id} : pending'[i] = pending[i]
      BY <2>8 DEF AttachUser, Drop, TypeOK
    <3>3. pending'[id] # None =>
            /\ pending[id] # None
            /\ pending'[id].expires = pending[id].expires
            /\ pending'[id].email = job[h].user
      <4>1. ASSUME NEW r \in Request, pending[id] = r,
                   pending' = [pending EXCEPT ![id].email = job[h].user]
            PROVE  /\ pending'[id].expires = pending[id].expires
                   /\ pending'[id].email = job[h].user
        BY <3>1, <4>1 DEF Request, TypeOK
      <4>2. pending'[id] = None \/
              (pending[id] # None /\ pending' = [pending EXCEPT ![id].email = job[h].user])
        BY <2>8, <3>1 DEF AttachUser, Drop, Live, TypeOK
      <4>3. pending[id] # None => pending[id] \in Request
        BY <3>1 DEF TypeOK
      <4> QED BY <3>1, <4>1, <4>2, <4>3
    <3> HIDE DEF id
    <3>4. job[h].authz = id
      BY DEF id
    <3>5. Deadlines'
      BY <3>1, <3>2, <3>3 DEF Deadlines, Idle
    <3>6. ASSUME NEW u \in User \ active PROVE Ending(u)'
      BY <3>1, <3>2, <3>3, <3>4 DEF Ending, Idle
    <3> QED BY <3>1, <3>5, <3>6
  <2>9. ASSUME NEW h \in Handler, NEW c \in CodeId, NEW p \in Presented, TakeCode(h, c, p)
        PROVE  RevocationInv'
    <3>1. /\ UNCHANGED <<now, pending, tokens, active, since, fate>>
          /\ codes[c] # None
          /\ \A d \in CodeId : codes'[d] # None => codes[d] # None /\ codes'[d] = codes[d]
          /\ \A g \in Handler \ {h} : job'[g] = job[g]
          /\ job'[h] = [step |-> "exchange", id |-> c, code |-> codes[c], with |-> p]
      BY <2>9 DEF TakeCode, Become, TypeOK
    <3> QED BY <3>1 DEF Deadlines, Ending
  <2>10. ASSUME NEW h \in Handler, ExchangeCode(h)
         PROVE  RevocationInv'
    <3>1. /\ UNCHANGED <<now, pending, codes, active, since, fate>>
          /\ At(h, "exchange")
          /\ \A g \in Handler \ {h} : job'[g] = job[g]
          /\ job'[h] = Idle
      BY <2>10 DEF ExchangeCode, Become, TypeOK
    <3>2. tokens' = tokens \/ (now <= job[h].code.expires /\
                              MintTokens(job[h].code.email, job[h].with.client))
      BY <2>10, <3>1 DEF ExchangeCode, CodeAccepted, Expired
    <3>3. \A t \in tokens' : t.kind = "access" =>
            \/ t \in tokens
            \/ /\ now <= job[h].code.expires
               /\ t.user = job[h].code.email
               /\ t.expires = now + AccessTTL
      BY <3>2 DEF MintTokens, Signed
    <3>4. Deadlines'
      BY <3>1, <3>3 DEF Deadlines, Idle
    <3>5. ASSUME NEW u \in User \ active PROVE Ending(u)'
      BY <3>1, <3>3 DEF Ending, Idle
    <3> QED BY <3>1, <3>4, <3>5
  <2>11. ASSUME NEW h \in Handler, NEW t \in tokens, NEW client \in Client,
                RefreshStart(h, t, client)
         PROVE  RevocationInv'
    <3>1. /\ UNCHANGED <<now, pending, codes, tokens, active, since, fate>>
          /\ \A g \in Handler \ {h} : job'[g] = job[g]
          /\ job'[h] = [step |-> "ask", user |-> t.user, client |-> client,
                        deadline |-> now + HttpTimeout]
      BY <2>11 DEF RefreshStart, Become, TypeOK
    <3> QED BY <3>1 DEF Deadlines, Ending
  <2>12. ASSUME NEW h \in Handler, RefreshMint(h)
         PROVE  RevocationInv'
    <3>1. /\ UNCHANGED <<now, pending, codes, active, since, fate>>
          /\ At(h, "mint") /\ now <= job[h].deadline
          /\ \A g \in Handler \ {h} : job'[g] = job[g]
          /\ job'[h] = Idle
      BY <2>12 DEF RefreshMint, Become, TypeOK
    <3>2. \A t \in tokens' : t.kind = "access" =>
            t \in tokens \/ (t.user = job[h].user /\ t.expires = now + AccessTTL)
      BY <2>12 DEF RefreshMint, MintTokens, Signed
    <3>3. Deadlines'
      BY <3>1, <3>2 DEF Deadlines, Idle
    <3>4. ASSUME NEW u \in User \ active PROVE Ending(u)'
      BY <3>1, <3>2 DEF Ending, Idle
    <3> QED BY <3>1, <3>3, <3>4
  <2>13. ASSUME NEW h \in Handler, NEW t \in tokens, CallStart(h, t)
         PROVE  RevocationInv'
    <3>1. /\ UNCHANGED <<now, pending, codes, tokens, active, since, fate>>
          /\ t.kind = "access" /\ now <= t.expires
          /\ \A g \in Handler \ {h} : job'[g] = job[g]
          /\ job'[h] = [step |-> "call", user |-> t.user, client |-> t.client, admitted |-> now]
      BY <2>13 DEF CallStart, Become, Verified, Expired, TypeOK
    <3> QED BY <3>1 DEF Deadlines, Ending
  <2>14. ASSUME NEW h \in Handler, TokenTool(h) \/ GiveUp(h)
         PROVE  RevocationInv'
    <3>1. /\ UNCHANGED <<now, pending, codes, active, since, fate>>
          /\ \A t \in tokens' : t.kind = "access" => t \in tokens
          /\ \A g \in Handler \ {h} : job'[g] = job[g]
          /\ job'[h] = Idle
      BY <2>14 DEF TokenTool, GiveUp, Become, Signed, TypeOK
    <3> QED BY <3>1 DEF Deadlines, Ending, Idle
  <2>15. ASSUME NEW u \in User, Deactivate(u)
         PROVE  RevocationInv'
    <3>1. /\ UNCHANGED <<now, pending, codes, job, tokens, fate>>
          /\ active' = active \ {u}
          /\ since'[u] = now
          /\ \A v \in User \ {u} : since'[v] = since[v]
      BY <2>15 DEF Deactivate, TypeOK
    <3>2. Deadlines'
      BY <3>1 DEF Deadlines
    <3>3. Ending(u)'
      BY <3>1 DEF Deadlines, Ending
    <3>4. ASSUME NEW v \in User \ active', v # u PROVE Ending(v)'
      BY <3>1, <3>4 DEF Ending
    <3> QED BY <3>2, <3>3, <3>4
  <2>16. ASSUME NEW u \in User, Reactivate(u)
         PROVE  RevocationInv'
    BY <2>16 DEF Reactivate, Deadlines, Ending
  <2>17. CASE Tick
    BY <2>17 DEF Tick, Deadlines, Ending
  <2>18. CASE Restart
    BY <2>18 DEF Restart, Deadlines, Ending, Idle
  <2>19. CASE UNCHANGED vars
    BY <2>19 DEF vars, Deadlines, Ending
  <2> QED
    BY <2>1, <2>2, <2>3, <2>4, <2>5, <2>6, <2>7, <2>8, <2>9, <2>10, <2>11, <2>12, <2>13,
       <2>14, <2>15, <2>16, <2>17, <2>18, <2>19 DEF Next
<1>3. RevocationInv => RevocationBound
  BY DEF RevocationInv, Ending, RevocationBound
<1> QED BY <1>1, <1>2, <1>3, TypeCorrect, PTL DEF Spec

(* Tokens minted from a code went to the client, the redirect URI and the  *)
(* PKCE verifier of the request that was approved (oauth.go:238-250).      *)
THEOREM Binding == Spec => []BoundToRequest
  BY OneTime, PTL
==============================================================================
