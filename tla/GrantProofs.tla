----------------------------- MODULE GrantProofs -----------------------------
(***************************************************************************)
(* OAuthServer implements Grant, for any number of requests, codes,        *)
(* handlers, browsers, users and clients and any lifetimes.                *)
(***************************************************************************)
EXTENDS OAuthServerProofs

Sessions == {<<t.user, t.client>> : t \in tokens}
Stages == [id \in AuthzId |-> StageOf(id)]

GaveCode(id) == \E c \in CodeId : granted[c] # None /\ granted[c].authz = id

CodeStage(c) ==
  IF redemptions[c] # <<>>
    THEN Stage("redeemed", granted[c].request.email, granted[c].request.client)
  ELSE IF Outstanding(c)
    THEN Stage("granted", granted[c].request.email, granted[c].request.client)
  ELSE Stage("over", None, None)

MapStage(id) ==
  IF pending[id] # None THEN Stage("asked", pending[id].email, pending[id].client)
  ELSE IF fate[id] = "unused" THEN Stage("unused", None, None)
  ELSE Stage("over", None, None)

(* The stage of a request is read off its one code, or off the map.        *)
StageLaw ==
  \A id \in AuthzId :
    /\ \A c \in CodeId : granted[c] # None /\ granted[c].authz = id => StageOf(id) = CodeStage(c)
    /\ ~GaveCode(id) => StageOf(id) = MapStage(id)

(* What stages are.                                                        *)
LEMMA FateStage == ASSUME FateInv PROVE StageLaw
<1>1. ASSUME NEW id \in AuthzId, NEW c \in CodeId, granted[c] # None, granted[c].authz = id
      PROVE  StageOf(id) = CodeStage(c)
  <2>1. CodesOf(id) = {c}
    BY <1>1 DEF FateInv, CodesOf
  <2>2. (CHOOSE d \in CodesOf(id) : TRUE) = c
    BY <2>1
  <2> QED
    BY <2>1, <2>2 DEF StageOf, CodeStage
<1>2. ASSUME NEW id \in AuthzId, ~GaveCode(id)
      PROVE  StageOf(id) = MapStage(id)
  <2>1. CodesOf(id) = {}
    BY <1>2 DEF CodesOf, GaveCode
  <2> QED
    BY <2>1 DEF StageOf, MapStage
<1> QED
  BY <1>1, <1>2 DEF StageLaw

(* Who is being refreshed or has been admitted holds tokens.               *)
SessionInv ==
  \A h \in Handler : At(h, "ask") \/ At(h, "mint") \/ At(h, "call") =>
    <<job[h].user, job[h].client>> \in Sessions

(* A refresh or a call that is under way belongs to a user and a client    *)
(* with tokens.                                                            *)
THEOREM Refreshing == Spec => []SessionInv
<1>1. Init => SessionInv
  BY DEF Init, SessionInv, At, Idle
<1>2. TypeOK /\ SessionInv /\ [Next]_vars => SessionInv'
  <2> SUFFICES ASSUME TypeOK, SessionInv, [Next]_vars PROVE SessionInv'
    OBVIOUS
  <2>1. Sessions \subseteq Sessions'
    <3>1. tokens \subseteq tokens'
      BY DEF Next, vars, Authorize, CallbackStart, Approve, ApproveRefused, Deny, OidcExchange,
         CallbackLookup, AttachUser, TakeCode, ExchangeCode, MintTokens, RefreshStart, RefreshLookup,
         RefreshMint, CallStart, TokenTool, GiveUp, Deactivate, Reactivate, Tick, Restart
    <3> QED
      BY <3>1 DEF Sessions
  <2>2. ASSUME NEW g \in Handler, \A h \in Handler \ {g} : job'[h] = job[h],
               At(g, "ask")' \/ At(g, "mint")' \/ At(g, "call")' =>
                 <<job'[g].user, job'[g].client>> \in Sessions
        PROVE  SessionInv'
    BY <2>1, <2>2 DEF SessionInv, At
  <2>3. ASSUME NEW h \in Handler, RefreshLookup(h)
        PROVE  SessionInv'
    <3>1. \A g \in Handler \ {h} : job'[g] = job[g]
      BY <2>3 DEF RefreshLookup, Become, TypeOK
    <3>2. /\ At(h, "ask")
          /\ job'[h] = Idle \/ (job'[h].user = job[h].user /\ job'[h].client = job[h].client)
      BY <2>3 DEF RefreshLookup, Become, TypeOK
    <3>3. <<job[h].user, job[h].client>> \in Sessions
      BY <3>2 DEF SessionInv
    <3>4. At(h, "ask")' \/ At(h, "mint")' \/ At(h, "call")' =>
            <<job'[h].user, job'[h].client>> \in Sessions
      BY <3>2, <3>3 DEF At, Idle
    <3> QED
      BY <2>2, <3>1, <3>4
  <2>4. ASSUME NEW h \in Handler, NEW t \in tokens, NEW client \in Client, RefreshStart(h, t, client)
        PROVE  SessionInv'
    BY <2>2, <2>4 DEF RefreshStart, Become, TypeOK, Sessions
  <2>5. ASSUME NEW h \in Handler, NEW t \in tokens, CallStart(h, t)
        PROVE  SessionInv'
    BY <2>2, <2>5 DEF CallStart, Become, TypeOK, Sessions
  <2>6. ASSUME NEW h \in Handler,
               \/ \E u \in User : OidcExchange(h, u)
               \/ CallbackLookup(h) \/ AttachUser(h)
               \/ \E c \in CodeId, p \in Presented : TakeCode(h, c, p)
               \/ ExchangeCode(h) \/ RefreshMint(h) \/ TokenTool(h) \/ GiveUp(h)
               \/ \E b \in Browser : CallbackStart(h, b)
        PROVE  SessionInv'
    <3>1. \A g \in Handler \ {h} : job'[g] = job[g]
      BY <2>6 DEF OidcExchange, CallbackLookup, AttachUser, TakeCode, ExchangeCode, RefreshMint,
         TokenTool, GiveUp, CallbackStart, Become, TypeOK
    <3>2. job'[h].step \notin {"ask", "mint", "call"}
      BY <2>6 DEF OidcExchange, CallbackLookup, AttachUser, TakeCode, ExchangeCode, RefreshMint,
         TokenTool, GiveUp, CallbackStart, Become, TypeOK, Idle, Free
    <3> QED
      BY <2>2, <3>1, <3>2 DEF At
  <2>7. CASE Restart
    BY <2>7 DEF Restart, SessionInv, At, Idle
  <2>8. CASE UNCHANGED job
    BY <2>1, <2>8 DEF SessionInv, At
  <2> QED
    BY <2>3, <2>4, <2>5, <2>6, <2>7, <2>8
    DEF Next, vars, Authorize, Approve, ApproveRefused, Deny, Deactivate, Reactivate, Tick
<1> QED
  BY <1>1, <1>2, TypeCorrect, PTL DEF Spec

-----------------------------------------------------------------------------
(* The strengthened invariant, before and after a step.                    *)
Fits == TypeOK /\ FateInv /\ CodeInv /\ SessionInv /\ StageLaw

(* A request that was asked for has given no code, and one that gave a     *)
(* code has been asked for.                                                *)
LEMMA Either ==
  ASSUME Fits, NEW id \in AuthzId
  PROVE  /\ pending[id] # None => fate[id] = "open"
         /\ fate[id] # "approved" => ~GaveCode(id)
BY DEF Fits, FateInv, GaveCode

(* A request that is dropped from the map, or whose code is, is over.      *)
LEMMA Fades ==
  ASSUME Fits, Fits', UNCHANGED <<granted, redemptions>>, NEW id \in AuthzId,
         pending'[id] = None \/ pending'[id] = pending[id], fate'[id] = "unused" <=> fate[id] = "unused",
         \A c \in CodeId : Outstanding(c)' => Outstanding(c)
  PROVE  StageOf(id)' = StageOf(id) \/ (StageOf(id).stage \in {"asked", "granted"} /\ StageOf(id)' = Promise!Over)
<1>1. GaveCode(id)' = GaveCode(id)
  BY DEF GaveCode
<1>2. CASE GaveCode(id)
  <2>1. PICK c \in CodeId : granted[c] # None /\ granted[c].authz = id
    BY <1>2 DEF GaveCode
  <2>2. StageOf(id) = CodeStage(c) /\ StageOf(id)' = CodeStage(c)'
    BY <2>1 DEF Fits, StageLaw
  <2> QED
    BY <2>2 DEF CodeStage, Stage, Promise!Over, Promise!Stage
<1>3. CASE ~GaveCode(id)
  <2>1. StageOf(id) = MapStage(id) /\ StageOf(id)' = MapStage(id)'
    BY <1>1, <1>3 DEF Fits, StageLaw
  <2>2. pending[id] # None => fate[id] # "unused"
    BY Either
  <2> QED
    BY <2>1, <2>2 DEF MapStage, Stage, Promise!Over, Promise!Stage
<1> QED
  BY <1>2, <1>3

(* Steps that drop requests and codes, and change nothing else.            *)
LEMMA Lapses ==
  ASSUME Fits, Fits', UNCHANGED <<granted, redemptions>>, Sessions' = Sessions,
         \A id \in AuthzId : pending'[id] = None \/ pending'[id] = pending[id],
         \A id \in AuthzId : fate'[id] = "unused" <=> fate[id] = "unused",
         \A c \in CodeId : Outstanding(c)' => Outstanding(c)
  PROVE  Promise!Next
<1> DEFINE gone == {id \in AuthzId : StageOf(id)' # StageOf(id)}
<1>1. ASSUME NEW id \in AuthzId
      PROVE  StageOf(id)' = StageOf(id) \/ (StageOf(id).stage \in {"asked", "granted"} /\ StageOf(id)' = Promise!Over)
  BY Fades
<1>2. Promise!Droppable(gone)
  BY <1>1 DEF Promise!Droppable, Promise!Open
<1>3. Stages' = Promise!Dropped(gone)
  BY <1>1 DEF Stages, Promise!Dropped
<1>4. Promise!Lapse(gone)
  BY <1>2, <1>3 DEF Promise!Lapse, Stages, Sessions
<1> QED
  BY <1>4 DEF Promise!Next

(* A step about one request leaves the stage of every other one alone.     *)
LEMMA Elsewhere ==
  ASSUME Fits, Fits', NEW i \in AuthzId,
         pending'[i] = pending[i], fate'[i] = "unused" <=> fate[i] = "unused",
         \A c \in CodeId : (granted[c] # None /\ granted[c].authz = i) \/ (granted'[c] # None /\ granted'[c].authz = i) =>
           granted'[c] = granted[c] /\ redemptions'[c] = redemptions[c] /\ (Outstanding(c)' <=> Outstanding(c))
  PROVE  StageOf(i)' = StageOf(i)
<1>1. GaveCode(i)' = GaveCode(i)
  BY DEF GaveCode
<1>2. CASE GaveCode(i)
  <2>1. PICK c \in CodeId : granted[c] # None /\ granted[c].authz = i
    BY <1>2 DEF GaveCode
  <2>2. StageOf(i) = CodeStage(c) /\ StageOf(i)' = CodeStage(c)'
    BY <2>1 DEF Fits, StageLaw
  <2> QED
    BY <2>1, <2>2 DEF CodeStage
<1>3. CASE ~GaveCode(i)
  <2>1. StageOf(i) = MapStage(i) /\ StageOf(i)' = MapStage(i)'
    BY <1>1, <1>3 DEF Fits, StageLaw
  <2> QED
    BY <2>1 DEF MapStage
<1> QED
  BY <1>2, <1>3

(* What a step makes of one stage, if it leaves the others alone.          *)
LEMMA OneStage ==
  ASSUME NEW id \in AuthzId, NEW g, StageOf(id)' = g, \A i \in AuthzId \ {id} : StageOf(i)' = StageOf(i)
  PROVE  Stages' = [Stages EXCEPT ![id] = g]
BY DEF Stages

(* GET /oauth/authorize asks for a new request, and drops expired ones.    *)
LEMMA AuthorizeGrant ==
  ASSUME Fits, Fits', NEW b \in Browser, NEW id \in AuthzId, NEW client \in Client,
         NEW redirect \in Redirect, NEW v \in Verifier, Authorize(b, id, client, redirect, v)
  PROVE  Promise!Next
<1> DEFINE gone == {i \in AuthzId \ {id} : StageOf(i)' # StageOf(i)}
<1>1. /\ \A i \in AuthzId \ {id} : pending'[i] = None \/ pending'[i] = pending[i]
      /\ \A c \in CodeId : codes'[c] = None \/ codes'[c] = codes[c]
      /\ pending'[id] # None /\ pending'[id].client = client /\ pending'[id].email = None
  <2>1. pending' \in [AuthzId -> Request \cup {None}] /\ codes' \in [CodeId -> Code \cup {None}]
    BY DEF Fits, TypeOK
  <2>2. [client |-> client, redirect |-> redirect, challenge |-> S256(v),
         email |-> None, expires |-> now + AuthzTTL] # None
    <3>1. now + AuthzTTL \in Nat
      BY TimeAssumption DEF Fits, TypeOK
    <3> QED
      BY <3>1, NoneAssumption DEF Request
  <2> QED
    BY <2>1, <2>2, SweptShrinks DEF Fits, Authorize
<1>2. /\ UNCHANGED <<granted, redemptions, job, tokens>>
      /\ \A i \in AuthzId \ {id} : fate'[i] = fate[i]
      /\ fate[id] = "unused"
  BY DEF Authorize, Fits, TypeOK
<1>3. \A c \in CodeId : Outstanding(c)' => Outstanding(c)
  BY <1>1, <1>2 DEF Outstanding, At
<1>4. StageOf(id) = Promise!Unused
  <2>1. ~GaveCode(id) /\ pending[id] = None
    BY <1>2, Either
  <2> QED
    BY <1>2, <2>1 DEF Fits, StageLaw, MapStage, Stage, Promise!Unused, Promise!Stage
<1>5. StageOf(id)' = Promise!Stage("asked", None, client)
  <2>1. ~GaveCode(id)'
    BY <1>2, Either DEF GaveCode
  <2> QED
    BY <1>1, <2>1 DEF Fits, StageLaw, MapStage, Stage, Promise!Stage
<1>6. ASSUME NEW i \in AuthzId \ {id}
      PROVE  StageOf(i)' = StageOf(i) \/ (StageOf(i).stage \in {"asked", "granted"} /\ StageOf(i)' = Promise!Over)
  BY <1>1, <1>2, <1>3, Fades
<1>7. Promise!Droppable(gone)
  BY <1>6 DEF Promise!Droppable, Promise!Open
<1>8. Stages' = [Promise!Dropped(gone) EXCEPT ![id] = Promise!Stage("asked", None, client)]
  BY <1>5, <1>6 DEF Stages, Promise!Dropped
<1>9. gone \in SUBSET AuthzId /\ Sessions' = Sessions
  BY <1>2 DEF Sessions
<1>10. Promise!Ask(id, client, gone)
  BY <1>4, <1>7, <1>8, <1>9 DEF Promise!Ask, Stages, Sessions
<1> QED
  BY <1>9, <1>10 DEF Promise!Next

(* The callback identifies a request that is still there.                  *)
LEMMA AttachGrant ==
  ASSUME Fits, Fits', NEW h \in Handler, NEW id \in AuthzId, NEW user \in User,
         job[h].authz = id, job[h].user = user, AttachUser(h), Live(id)
  PROVE  Promise!Next
<1>1. /\ pending[id] # None /\ pending' = [pending EXCEPT ![id].email = user]
      /\ UNCHANGED <<codes, granted, redemptions, fate, tokens>> /\ job' = [job EXCEPT ![h] = Idle]
  BY DEF AttachUser, Live, Become, history
<1>2. \A c \in CodeId : Outstanding(c)' <=> Outstanding(c)
  <2>1. \A g \in Handler : At(g, "exchange")' <=> At(g, "exchange")
    BY <1>1 DEF At, AttachUser, Fits, TypeOK, Idle
  <2>2. \A g \in Handler : At(g, "exchange") => job'[g] = job[g]
    BY <1>1 DEF At, AttachUser, Fits, TypeOK
  <2> QED
    BY <1>1, <2>1, <2>2 DEF Outstanding
<1>3. pending[id] \in Request /\ pending'[id] = [pending[id] EXCEPT !.email = user] /\ pending'[id] # None
  <2>1. pending[id] \in Request /\ pending'[id] = [pending[id] EXCEPT !.email = user]
    BY <1>1 DEF Fits, TypeOK
  <2>2. [pending[id] EXCEPT !.email = user] \in Request
    BY <2>1 DEF Request
  <2> QED
    BY <2>1, <2>2, NoneAssumption
<1>4. ~GaveCode(id) /\ ~GaveCode(id)'
  BY <1>1, Either DEF GaveCode
<1>5. /\ StageOf(id) = Stage("asked", pending[id].email, pending[id].client)
      /\ StageOf(id)' = Stage("asked", user, pending[id].client)
  <2>1. StageOf(id) = MapStage(id) /\ StageOf(id)' = MapStage(id)'
    BY <1>4 DEF Fits, StageLaw
  <2>2. pending'[id].email = user /\ pending'[id].client = pending[id].client
    BY <1>3 DEF Request
  <2> QED
    BY <1>1, <1>3, <2>1, <2>2 DEF MapStage, Stage
<1>6. \A i \in AuthzId \ {id} : StageOf(i)' = StageOf(i)
  <2> SUFFICES ASSUME NEW i \in AuthzId \ {id} PROVE StageOf(i)' = StageOf(i)
    OBVIOUS
  <2>1. pending'[i] = pending[i]
    BY <1>1 DEF Fits, TypeOK
  <2> QED
    BY <1>1, <1>2, <2>1, Elsewhere
<1>7. Stages' = [Stages EXCEPT ![id].user = user]
  <2>1. Stages[id] = Stage("asked", pending[id].email, pending[id].client)
    BY <1>5 DEF Stages
  <2>2. Stages' = [Stages EXCEPT ![id] = Stage("asked", user, pending[id].client)]
    BY <1>5, <1>6, OneStage
  <2>3. [Stages[id] EXCEPT !.user = user] = Stage("asked", user, pending[id].client)
    BY <2>1 DEF Stage
  <2> QED
    BY <2>2, <2>3
<1>8. Promise!Identify(id, user)
  BY <1>1, <1>5, <1>7 DEF Promise!Identify, Stages, Stage
<1> QED
  BY <1>8 DEF Promise!Next

(* POST /oauth/approve makes the one code of an identified request.        *)
LEMMA ApproveGrant ==
  ASSUME Fits, Fits', NEW b \in Browser, NEW c \in CodeId, NEW id \in AuthzId, NEW r \in Request,
         cookie[b] = id, pending[id] = r, Approve(b, c)
  PROVE  Promise!Next
<1>1. /\ granted[c] = None /\ granted' = [granted EXCEPT ![c] = [authz |-> id, request |-> r]]
      /\ pending' = [pending EXCEPT ![id] = None] /\ fate' = [fate EXCEPT ![id] = "approved"]
      /\ codes' = [codes EXCEPT ![c] = CodeFor(r)] /\ r.email # None
      /\ UNCHANGED <<job, tokens, redemptions>>
  BY DEF Approve, Approvable, Drop
<1>2. codes'[c] # None
  <2>1. CodeFor(r) \in Code
    BY <1>1, TimeAssumption DEF CodeFor, Code, Request, Fits, TypeOK
  <2> QED
    BY <1>1, <2>1, NoneAssumption DEF Fits, TypeOK
<1>3. /\ granted'[c] # None /\ granted'[c].authz = id /\ granted'[c].request = r
      /\ \A d \in CodeId \ {c} : granted'[d] = granted[d]
  <2>1. [authz |-> id, request |-> r] \in Grant
    BY DEF Grant
  <2>2. granted'[c] = [authz |-> id, request |-> r]
    BY <1>1 DEF Fits, TypeOK
  <2> QED
    BY <1>1, <2>1, <2>2, NoneAssumption DEF Fits, TypeOK
<1>4. \A d \in CodeId \ {c} : Outstanding(d)' <=> Outstanding(d)
  BY <1>1 DEF Outstanding, At, Fits, TypeOK
<1>5. pending[id] # None /\ ~GaveCode(id) /\ redemptions[c] = <<>>
  BY <1>1, Either, NoneAssumption DEF Fits, CodeInv
<1>6. StageOf(id) = Stage("asked", r.email, r.client)
  BY <1>5 DEF Fits, StageLaw, MapStage
<1>7. StageOf(id)' = Stage("granted", r.email, r.client)
  <2>1. StageOf(id)' = CodeStage(c)'
    BY <1>3 DEF Fits, StageLaw
  <2>2. Outstanding(c)' /\ redemptions'[c] = <<>>
    BY <1>1, <1>2, <1>5 DEF Outstanding
  <2> QED
    BY <1>3, <2>1, <2>2 DEF CodeStage, Stage
<1>8. \A i \in AuthzId \ {id} : StageOf(i)' = StageOf(i)
  <2> SUFFICES ASSUME NEW i \in AuthzId \ {id} PROVE StageOf(i)' = StageOf(i)
    OBVIOUS
  <2>1. pending'[i] = pending[i] /\ fate'[i] = fate[i]
    BY <1>1 DEF Fits, TypeOK
  <2> QED
    BY <1>1, <1>3, <1>4, <2>1, Elsewhere
<1>9. Stages' = [Stages EXCEPT ![id].stage = "granted"]
  <2>1. Stages[id] = Stage("asked", r.email, r.client)
    BY <1>6 DEF Stages
  <2>2. Stages' = [Stages EXCEPT ![id] = Stage("granted", r.email, r.client)]
    BY <1>7, <1>8, OneStage
  <2>3. [Stages[id] EXCEPT !.stage = "granted"] = Stage("granted", r.email, r.client)
    BY <2>1 DEF Stage
  <2> QED
    BY <2>2, <2>3
<1>10. Promise!Approve(id)
  BY <1>1, <1>6, <1>9 DEF Promise!Approve, Stages, Stage
<1> QED
  BY <1>10 DEF Promise!Next

(* An exchange that is accepted redeems the request of its code.           *)
LEMMA ExchangeGrant ==
  ASSUME Fits, Fits', NEW h \in Handler, NEW c \in CodeId, NEW id \in AuthzId, NEW r \in Request,
         job[h].id = c, granted[c] = [authz |-> id, request |-> r],
         ExchangeCode(h), CodeAccepted(job[h].code, job[h].with)
  PROVE  Promise!Next
<1>1. /\ At(h, "exchange") /\ redemptions[c] = <<>>
      /\ job[h].code.email = r.email /\ job[h].code.client = r.client
  BY DEF Fits, ExchangeCode, CodeInv, Unspent, Copies
<1>2. /\ MintTokens(r.email, r.client) /\ job' = [job EXCEPT ![h] = Idle]
      /\ redemptions' = [redemptions EXCEPT ![c] = Append(redemptions[c], job[h].with)]
      /\ UNCHANGED <<pending, codes, fate, granted>>
  BY <1>1 DEF ExchangeCode, CodeAccepted, Become, memory
<1>3. granted[c] # None /\ granted[c].authz = id /\ granted[c].request = r
  BY <1>1 DEF Fits, ExchangeCode, CodeInv, Unspent, Copies
<1>4. redemptions'[c] # <<>>
  <2>1. redemptions'[c] = Append(<<>>, job[h].with)
    BY <1>1, <1>2 DEF Fits, TypeOK
  <2> QED
    BY <2>1
<1>5. \A d \in CodeId \ {c} : Outstanding(d)' <=> Outstanding(d)
  <2>1. \A g \in Handler \ {h} : job'[g] = job[g]
    BY <1>2 DEF Fits, TypeOK
  <2>2. job'[h].step # "exchange"
    BY <1>2 DEF Fits, TypeOK, Idle
  <2> QED
    BY <1>2, <2>1, <2>2 DEF Outstanding, At
<1>6. Outstanding(c)
  BY <1>1 DEF Outstanding
<1>7. Sessions' = Sessions \cup {<<r.email, r.client>>}
  <2>1. /\ tokens' = tokens \cup {Signed("access", r.email, r.client, AccessTTL),
                                  Signed("refresh", r.email, r.client, RefreshTTL)}
        /\ Signed("access", r.email, r.client, AccessTTL).user = r.email
        /\ Signed("access", r.email, r.client, AccessTTL).client = r.client
        /\ Signed("refresh", r.email, r.client, RefreshTTL).user = r.email
        /\ Signed("refresh", r.email, r.client, RefreshTTL).client = r.client
    BY <1>2 DEF MintTokens, Signed
  <2> QED
    BY <2>1 DEF Sessions
<1>8. StageOf(id) = Stage("granted", r.email, r.client)
  <2>1. StageOf(id) = CodeStage(c)
    BY <1>3 DEF Fits, StageLaw
  <2> QED
    BY <1>1, <1>3, <1>6, <2>1 DEF CodeStage
<1>9. StageOf(id)' = Stage("redeemed", r.email, r.client)
  <2>1. granted'[c] # None /\ granted'[c].authz = id /\ granted'[c].request = r
    BY <1>2, <1>3
  <2>2. StageOf(id)' = CodeStage(c)'
    BY <2>1 DEF Fits, StageLaw
  <2> QED
    BY <1>4, <2>1, <2>2 DEF CodeStage, Stage
<1>10. \A i \in AuthzId \ {id} : StageOf(i)' = StageOf(i)
  <2> SUFFICES ASSUME NEW i \in AuthzId \ {id} PROVE StageOf(i)' = StageOf(i)
    OBVIOUS
  <2>1. \A d \in CodeId : granted[d] # None /\ granted[d].authz = i => d # c
    BY <1>3
  <2>2. \A d \in CodeId \ {c} : redemptions'[d] = redemptions[d]
    BY <1>2 DEF Fits, TypeOK
  <2> QED
    BY <1>2, <1>5, <2>1, <2>2, Elsewhere
<1>11. Stages' = [Stages EXCEPT ![id].stage = "redeemed"]
  <2>1. Stages[id] = Stage("granted", r.email, r.client)
    BY <1>8 DEF Stages
  <2>2. Stages' = [Stages EXCEPT ![id] = Stage("redeemed", r.email, r.client)]
    BY <1>9, <1>10, OneStage
  <2>3. [Stages[id] EXCEPT !.stage = "redeemed"] = Stage("redeemed", r.email, r.client)
    BY <2>1 DEF Stage
  <2> QED
    BY <2>2, <2>3
<1>12. Promise!Redeem(id)
  BY <1>7, <1>8, <1>11 DEF Promise!Redeem, Stages, Stage, Sessions
<1> QED
  BY <1>12 DEF Promise!Next
-----------------------------------------------------------------------------
(* A handler that does not take a code brings none back.                   *)
LEMMA Hands ==
  ASSUME NEW h \in Handler, \A g \in Handler \ {h} : job'[g] = job[g], job'[h].step # "exchange",
         codes' = codes
  PROVE  \A c \in CodeId : Outstanding(c)' => Outstanding(c)
<1>1. \A g \in Handler : At(g, "exchange")' => At(g, "exchange") /\ job'[g] = job[g]
  BY DEF At
<1> QED
  BY <1>1 DEF Outstanding

(* Tokens for a user and a client that have some open no session.          *)
LEMMA NoNewSession ==
  ASSUME NEW u, NEW k, <<u, k>> \in Sessions, tokens \subseteq tokens',
         \A t \in tokens' \ tokens : t.user = u /\ t.client = k
  PROVE  Sessions' = Sessions
BY DEF Sessions

(* The steps that neither ask, identify, approve nor redeem.               *)
LEMMA OtherGrant ==
  ASSUME Fits, Fits', NEW h \in Handler
  PROVE  /\ \A b \in Browser : CallbackStart(h, b) => Promise!Next
         /\ \A u \in User : OidcExchange(h, u) => Promise!Next
         /\ CallbackLookup(h) => Promise!Next
         /\ AttachUser(h) /\ ~Live(job[h].authz) => Promise!Next
         /\ \A c \in CodeId, p \in Presented : TakeCode(h, c, p) => Promise!Next
         /\ ExchangeCode(h) /\ ~CodeAccepted(job[h].code, job[h].with) => Promise!Next
         /\ \A t \in tokens, client \in Client : RefreshStart(h, t, client) => Promise!Next
         /\ RefreshLookup(h) \/ RefreshMint(h) => Promise!Next
         /\ \A t \in tokens : CallStart(h, t) => Promise!Next
         /\ TokenTool(h) \/ GiveUp(h) => Promise!Next
<1>1. ASSUME NEW b \in Browser, CallbackStart(h, b)
      PROVE  Promise!Next
  <2>1. \A c \in CodeId : Outstanding(c)' => Outstanding(c)
    <3>1. CASE Live(cookie[b])
      <4>1. /\ \A g \in Handler \ {h} : job'[g] = job[g]
            /\ job'[h].step # "exchange" /\ codes' = codes
        BY <1>1, <3>1 DEF CallbackStart, Become, Fits, TypeOK
      <4> QED
        BY <4>1, Hands
    <3>2. CASE ~Live(cookie[b])
      BY <1>1, <3>2 DEF CallbackStart, Outstanding, At
    <3> QED
      BY <3>1, <3>2
  <2>2. UNCHANGED <<granted, redemptions, fate, tokens>>
    BY <1>1 DEF CallbackStart, history
  <2>3. \A id \in AuthzId : pending'[id] = None \/ pending'[id] = pending[id]
    BY <1>1 DEF CallbackStart, Drop, Fits, TypeOK
  <2> QED
    BY <2>1, <2>2, <2>3, Lapses DEF Sessions
<1>2. ASSUME \A g \in Handler \ {h} : job'[g] = job[g], job'[h].step # "exchange",
             UNCHANGED <<pending, codes, granted, redemptions, fate>>, Sessions' = Sessions
      PROVE  Promise!Next
  BY <1>2, Hands, Lapses
<1>3. ASSUME NEW u \in User, OidcExchange(h, u)
      PROVE  Promise!Next
  BY <1>2, <1>3 DEF OidcExchange, Become, memory, history, Sessions, Fits, TypeOK
<1>4. ASSUME CallbackLookup(h)
      PROVE  Promise!Next
  BY <1>2, <1>4 DEF CallbackLookup, Become, Idle, memory, history, Sessions, Fits, TypeOK
<1>5. ASSUME AttachUser(h), ~Live(job[h].authz)
      PROVE  Promise!Next
  <2>1. /\ \A g \in Handler \ {h} : job'[g] = job[g]
        /\ job'[h].step # "exchange"
        /\ UNCHANGED <<codes, granted, redemptions, fate, tokens>>
        /\ Drop(job[h].authz)
    BY <1>5 DEF AttachUser, Become, Idle, history, Fits, TypeOK
  <2>2. \A id \in AuthzId : pending'[id] = None \/ pending'[id] = pending[id]
    BY <2>1 DEF Drop, Fits, TypeOK
  <2> QED
    BY <2>1, <2>2, Hands, Lapses DEF Sessions
<1>6. ASSUME NEW c \in CodeId, NEW p \in Presented, TakeCode(h, c, p)
      PROVE  Promise!Next
  <2>1. \A d \in CodeId : Outstanding(d)' => Outstanding(d)
    <3>1. \A d \in CodeId : codes'[d] # None => codes[d] # None
      BY <1>6 DEF TakeCode, Fits, TypeOK
    <3>2. \A g \in Handler : At(g, "exchange")' =>
            (At(g, "exchange") /\ job'[g] = job[g]) \/ job'[g].id = c
      BY <1>6 DEF TakeCode, Become, At, Fits, TypeOK
    <3>3. codes[c] # None
      BY <1>6 DEF TakeCode
    <3> QED
      BY <3>1, <3>2, <3>3 DEF Outstanding
  <2> QED
    BY <1>6, <2>1, Lapses DEF TakeCode, Sessions, history
<1>7. ASSUME ExchangeCode(h), ~CodeAccepted(job[h].code, job[h].with)
      PROVE  Promise!Next
  BY <1>2, <1>7 DEF ExchangeCode, Become, Idle, memory, Sessions, Fits, TypeOK
<1>8. ASSUME NEW t \in tokens, NEW client \in Client, RefreshStart(h, t, client)
      PROVE  Promise!Next
  BY <1>2, <1>8 DEF RefreshStart, Become, memory, history, Sessions, Fits, TypeOK
<1>9. ASSUME RefreshLookup(h)
      PROVE  Promise!Next
  BY <1>2, <1>9 DEF RefreshLookup, Become, Idle, memory, history, Sessions, Fits, TypeOK
<1>10. ASSUME RefreshMint(h)
       PROVE  Promise!Next
  <2>1. <<job[h].user, job[h].client>> \in Sessions
    BY <1>10 DEF RefreshMint, Fits, SessionInv
  <2>2. Sessions' = Sessions
    BY <1>10, <2>1, NoNewSession DEF RefreshMint, MintTokens, Signed
  <2> QED
    BY <1>2, <1>10, <2>2 DEF RefreshMint, Become, Idle, memory, history, Fits, TypeOK
<1>11. ASSUME NEW t \in tokens, CallStart(h, t)
       PROVE  Promise!Next
  BY <1>2, <1>11 DEF CallStart, Become, memory, history, Sessions, Fits, TypeOK
<1>12. ASSUME TokenTool(h)
       PROVE  Promise!Next
  <2>1. <<job[h].user, job[h].client>> \in Sessions
    BY <1>12 DEF TokenTool, Fits, SessionInv
  <2>2. Sessions' = Sessions
    BY <1>12, <2>1, NoNewSession DEF TokenTool, Signed
  <2> QED
    BY <1>2, <1>12, <2>2 DEF TokenTool, Become, Idle, memory, history, Fits, TypeOK
<1>13. ASSUME GiveUp(h)
       PROVE  Promise!Next
  BY <1>2, <1>13 DEF GiveUp, Become, Idle, memory, history, Sessions, Fits, TypeOK
<1> QED
  BY <1>1, <1>3, <1>4, <1>5, <1>6, <1>7, <1>8, <1>9, <1>10, <1>11, <1>12, <1>13

(* Every step of the server is a step of Grant.                            *)
LEMMA StepGrant == ASSUME Fits, Fits', [Next]_vars PROVE Promise!Next
<1>1. ASSUME NEW b \in Browser, NEW id \in AuthzId, NEW client \in Client, NEW redirect \in Redirect,
             NEW v \in Verifier, Authorize(b, id, client, redirect, v)
      PROVE  Promise!Next
  BY <1>1, AuthorizeGrant
<1>2. ASSUME NEW b \in Browser, NEW c \in CodeId, Approve(b, c)
      PROVE  Promise!Next
  <2>1. cookie[b] \in AuthzId /\ pending[cookie[b]] \in Request
    BY <1>2 DEF Approve, Approvable, Live, Fits, TypeOK
  <2> QED
    BY <1>2, <2>1, ApproveGrant
<1>3. ASSUME NEW b \in Browser, ApproveRefused(b) \/ Deny(b)
      PROVE  Promise!Next
  <2>1. UNCHANGED <<codes, job, tokens, granted, redemptions>>
    BY <1>3 DEF ApproveRefused, Deny, history
  <2>2. \A id \in AuthzId : pending'[id] = None \/ pending'[id] = pending[id]
    BY <1>3 DEF ApproveRefused, Deny, Drop, Fits, TypeOK
  <2>3. \A id \in AuthzId : fate'[id] = "unused" <=> fate[id] = "unused"
    BY <1>3, Either DEF ApproveRefused, Deny, history, Fits, TypeOK
  <2>4. \A c \in CodeId : Outstanding(c)' => Outstanding(c)
    BY <2>1 DEF Outstanding, At
  <2> QED
    BY <2>1, <2>2, <2>3, <2>4, Lapses DEF Sessions
<1>4. ASSUME NEW h \in Handler, AttachUser(h), Live(job[h].authz)
      PROVE  Promise!Next
  <2>1. job[h].authz \in AuthzId /\ job[h].user \in User
    BY <1>4, JobType DEF AttachUser, Fits
  <2> QED
    BY <1>4, <2>1, AttachGrant
<1>5. ASSUME NEW h \in Handler, ExchangeCode(h), CodeAccepted(job[h].code, job[h].with)
      PROVE  Promise!Next
  <2>1. job[h].id \in CodeId /\ granted[job[h].id] # None
    BY <1>5, JobType DEF ExchangeCode, Fits, CodeInv, Unspent, Copies
  <2>2. granted[job[h].id] \in Grant
    BY <2>1 DEF Fits, TypeOK
  <2>3. PICK id \in AuthzId, r \in Request : granted[job[h].id] = [authz |-> id, request |-> r]
    BY <2>2 DEF Grant
  <2> QED
    BY <1>5, <2>1, <2>3, ExchangeGrant
<1>6. CASE Tick \/ Restart \/ (\E u \in User : Deactivate(u) \/ Reactivate(u)) \/ UNCHANGED vars
  <2>1. /\ UNCHANGED <<tokens, granted, redemptions, fate>>
        /\ \A id \in AuthzId : pending'[id] = None \/ pending'[id] = pending[id]
    BY <1>6 DEF Tick, Restart, Deactivate, Reactivate, vars, memory, history
  <2>2. \A c \in CodeId : Outstanding(c)' => Outstanding(c)
    BY <1>6 DEF Tick, Restart, Deactivate, Reactivate, vars, memory, Outstanding, At, Idle
  <2> QED
    BY <2>1, <2>2, Lapses DEF Sessions
<1> QED
  BY <1>1, <1>2, <1>3, <1>4, <1>5, <1>6, OtherGrant DEF Next

(* At the beginning nothing has been asked for and nobody has tokens.      *)
LEMMA InitGrant == ASSUME Init, StageLaw PROVE Promise!Init
<1>1. \A id \in AuthzId : StageOf(id) = Promise!Unused
  BY DEF Init, StageLaw, GaveCode, MapStage, Stage, Promise!Unused, Promise!Stage
<1> QED
  BY <1>1 DEF Init, Promise!Init

(* The OAuth server keeps Grant's promise: no tokens for a user and a      *)
(* client without an approved request of that client, identified as that   *)
(* user and redeemed once (oauth.go, oauth_routes.go).                     *)
THEOREM Implementation == Spec => ImplementsGrant
<1>1. Init => FateInv /\ Promise!Init
  <2>1. Init => FateInv
    BY DEF Init, FateInv
  <2> QED
    BY <2>1, FateStage, InitGrant
<1>2. FateInv => StageLaw
  BY FateStage
<1>3. Fits /\ Fits' /\ [Next]_vars => [Promise!Next]_(Promise!vars)
  BY StepGrant
<1>4. Spec => []Fits
  BY <1>2, TypeCorrect, Fates, Codes, Refreshing, PTL DEF Fits
<1> QED
  BY <1>1, <1>3, <1>4, PTL DEF Spec, ImplementsGrant, Promise!Spec
=============================================================================
