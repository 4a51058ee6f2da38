----------------------------- MODULE OAuthServer -----------------------------
(***************************************************************************)
(* The OAuth authorization server of the connector: src/server/oauth.go,   *)
(* the handlers of oauth_routes.go and the token checks of mcp.go and      *)
(* rest.go.                                                                *)
(*                                                                         *)
(* One action is what a handler does between two points where another      *)
(* request can run: a critical section of memory.mu, or the wait for an    *)
(* HTTP answer.  A handler that waits keeps what it knows in job[h].       *)
(* Tokens are self-contained and signed; nobody stores them, so "tokens"   *)
(* is the set of all claims ever signed and any of them may be presented.  *)
(***************************************************************************)
EXTENDS Integers, Sequences, FiniteSets

CONSTANTS
  AuthzId,     \* what genID("auz") returns; one id is drawn once
  CodeId,      \* what genID("code") returns; one id is drawn once
  Handler,     \* slots for requests that are being served at the same time
  Browser,     \* browsers, each with one pending cookie
  User, Client, Redirect, Verifier,
  None,        \* Go's nil, "" and "absent from the map"
  AuthzTTL, CodeTTL, AccessTTL, RefreshTTL, ApiTTL,
  HttpTimeout, \* http.Client.Timeout of the bridge client
  MaxTime      \* bound: the clock stops here

S256(verifier) == <<"S256", verifier>>

Request == [client : Client, redirect : Redirect, challenge : {S256(v) : v \in Verifier},
            email : User \cup {None}, expires : Nat]
Code == [client : Client, redirect : Redirect, challenge : {S256(v) : v \in Verifier},
         email : User, expires : Nat]
Grant == [authz : AuthzId, request : Request]
Claims == [kind : {"access", "refresh", "api"}, user : User, client : Client, expires : Nat]
Presented == [client : Client, redirect : Redirect, verifier : Verifier, ours : BOOLEAN]

Idle == [step |-> "idle"]
CallbackJob ==
  [step : {"login"}, authz : AuthzId] \cup
  [step : {"lookup", "attach"}, authz : AuthzId, user : User]
ExchangeJob == [step : {"exchange"}, id : CodeId, code : Code, with : Presented]
RefreshJob == [step : {"ask", "mint"}, user : User, client : Client, deadline : Nat]
CallJob == [step : {"call"}, user : User, client : Client, admitted : Nat]
Job == {Idle} \cup CallbackJob \cup ExchangeJob \cup RefreshJob \cup CallJob

ASSUME NoneAssumption ==
  /\ None \notin AuthzId \cup User
  /\ None \notin Request /\ None \notin Code /\ None \notin Grant

ASSUME TimeAssumption ==
  /\ AuthzTTL \in Nat /\ CodeTTL \in Nat /\ AccessTTL \in Nat /\ RefreshTTL \in Nat
  /\ ApiTTL \in Nat /\ HttpTimeout \in Nat /\ MaxTime \in Nat

VARIABLES
  now,          \* nowMs()
  pending,      \* memory.pending
  codes,        \* memory.codes
  job,          \* the request each handler serves, between two of its steps
  cookie,       \* the freescout_mcp_authz cookie of each browser
  tokens,       \* every claims record signed so far
  active,       \* the users FreeScout answers for
  \* history, read by the properties only
  since,        \* when FreeScout last stopped answering for a user
  fate,         \* "unused", "open", "approved" or "denied", per request id
  granted,      \* the request each code was made from
  redemptions   \* what was presented, for every token pair minted from a code

memory == <<pending, codes>>
history == <<since, fate, granted, redemptions>>
vars == <<now, memory, job, cookie, tokens, active, history>>

Init ==
  /\ now = 0
  /\ pending = [id \in AuthzId |-> None]
  /\ codes = [c \in CodeId |-> None]
  /\ job = [h \in Handler |-> Idle]
  /\ cookie = [b \in Browser |-> None]
  /\ tokens = {}
  /\ active = User
  /\ since = [u \in User |-> 0]
  /\ fate = [id \in AuthzId |-> "unused"]
  /\ granted = [c \in CodeId |-> None]
  /\ redemptions = [c \in CodeId |-> <<>>]

-----------------------------------------------------------------------------
(* Helpers.  "expires < now" is how the code says that time is up.         *)

Expired(x) == x.expires < now

Live(id) == pending[id] # None /\ ~Expired(pending[id])

Swept(m) == [k \in DOMAIN m |-> IF m[k] # None /\ Expired(m[k]) THEN None ELSE m[k]]

Drop_Forgotten(id) == UNCHANGED pending              \* mutant: no delete
Drop(id) == pending' = [pending EXCEPT ![id] = None]

Become(h, j) == job' = [job EXCEPT ![h] = j]
Free(h) == job[h] = Idle
At(h, step) == job[h].step = step

Signed(kind, user, client, ttl) ==
  [kind |-> kind, user |-> user, client |-> client, expires |-> now + ttl]

MintTokens(user, client) ==
  tokens' = tokens \cup {Signed("access", user, client, AccessTTL),
                         Signed("refresh", user, client, RefreshTTL)}

Verified_AnyKind(t, kind) == ~Expired(t)             \* mutant: kind not compared
Verified(t, kind) == t.kind = kind /\ ~Expired(t)

-----------------------------------------------------------------------------
(* GET /oauth/authorize.  The response may not reach the browser, and when *)
(* the login provider cannot be discovered there is no cookie in it; the   *)
(* request stays pending either way.                                       *)

Authorize(b, id, client, redirect, verifier) ==
  /\ fate[id] = "unused"
  /\ pending' = [Swept(pending) EXCEPT ![id] =
                   [client |-> client, redirect |-> redirect, challenge |-> S256(verifier),
                    email |-> None, expires |-> now + AuthzTTL]]
  /\ codes' = Swept(codes)
  /\ cookie' \in {cookie, [cookie EXCEPT ![b] = id]}
  /\ fate' = [fate EXCEPT ![id] = "open"]
  /\ UNCHANGED <<now, job, tokens, active, since, granted, redemptions>>

-----------------------------------------------------------------------------
(* GET /oauth/callback: state = cookie, the request is looked up, then two *)
(* HTTP calls are waited for, and the request is looked up again.          *)

CallbackStart(h, b) ==
  /\ Free(h)
  /\ cookie[b] # None
  /\ IF Live(cookie[b])
       THEN Become(h, [step |-> "login", authz |-> cookie[b]]) /\ UNCHANGED pending
       ELSE Drop(cookie[b]) /\ UNCHANGED job
  /\ UNCHANGED <<now, codes, cookie, tokens, active, history>>

(* The ID token names some user of the identity provider.                  *)
OidcExchange(h, user) ==
  /\ At(h, "login")
  /\ Become(h, [step |-> "lookup", authz |-> job[h].authz, user |-> user])
  /\ UNCHANGED <<now, memory, cookie, tokens, active, history>>

(* FreeScout evaluates knownUser; its answer is on the way from here on.   *)
CallbackLookup(h) ==
  /\ At(h, "lookup")
  /\ Become(h, IF job[h].user \in active
                 THEN [step |-> "attach", authz |-> job[h].authz, user |-> job[h].user]
                 ELSE Idle)
  /\ UNCHANGED <<now, memory, cookie, tokens, active, history>>

AttachUser(h) ==
  /\ At(h, "attach")
  /\ LET id == job[h].authz
     IN IF Live(id) THEN pending' = [pending EXCEPT ![id].email = job[h].user]
                    ELSE Drop(id)
  /\ Become(h, Idle)
  /\ UNCHANGED <<now, codes, cookie, tokens, active, history>>

-----------------------------------------------------------------------------
(* POST /oauth/approve and POST /oauth/deny, by whoever holds the cookie.  *)
(* Every answer deletes the cookie; the answer may be lost.                *)

CookieDeleted(b) == cookie' \in {cookie, [cookie EXCEPT ![b] = None]}

Approvable_Anonymous(id) == Live(id)                 \* mutant: nobody logged in
Approvable(id) == Live(id) /\ pending[id].email # None

CodeFor(request) ==
  [client |-> request.client, redirect |-> request.redirect,
   challenge |-> request.challenge, email |-> request.email, expires |-> now + CodeTTL]

Approve(b, c) ==
  LET id == cookie[b] IN
  /\ id # None
  /\ Approvable(id)
  /\ granted[c] = None
  /\ Drop(id)
  /\ codes' = [codes EXCEPT ![c] = CodeFor(pending[id])]
  /\ granted' = [granted EXCEPT ![c] = [authz |-> id, request |-> pending[id]]]
  /\ fate' = [fate EXCEPT ![id] = "approved"]
  /\ CookieDeleted(b)
  /\ UNCHANGED <<now, job, tokens, active, since, redemptions>>

(* Expired or already gone: forgotten.  Not logged in yet: left as it is.  *)
ApproveRefused(b) ==
  LET id == cookie[b] IN
  /\ id # None
  /\ ~Approvable(id)
  /\ IF Live(id) THEN UNCHANGED pending ELSE Drop(id)
  /\ CookieDeleted(b)
  /\ UNCHANGED <<now, codes, job, tokens, active, history>>

Deny(b) ==
  LET id == cookie[b] IN
  /\ id # None
  /\ Drop(id)
  /\ fate' = IF pending[id] = None THEN fate ELSE [fate EXCEPT ![id] = "denied"]
  /\ CookieDeleted(b)
  /\ UNCHANGED <<now, codes, job, tokens, active, since, granted, redemptions>>

-----------------------------------------------------------------------------
(* POST /oauth/token, grant_type=authorization_code: the code leaves the   *)
(* map in one critical section and is checked after it.                    *)

TakeCode_Kept(h, c, p) ==                            \* mutant: the code stays in the map
  /\ Free(h)
  /\ codes[c] # None
  /\ Become(h, [step |-> "exchange", id |-> c, code |-> codes[c], with |-> p])
  /\ UNCHANGED <<now, memory, cookie, tokens, active, history>>

TakeCode(h, c, p) ==
  /\ Free(h)
  /\ codes[c] # None
  /\ codes' = [codes EXCEPT ![c] = None]
  /\ Become(h, [step |-> "exchange", id |-> c, code |-> codes[c], with |-> p])
  /\ UNCHANGED <<now, pending, cookie, tokens, active, history>>

CodeAccepted_NoPKCE(code, p) ==                      \* mutant: verifier not checked
  ~Expired(code) /\ code.client = p.client /\ code.redirect = p.redirect /\ p.ours

CodeAccepted_AnyClient(code, p) ==                   \* mutant: client not compared
  ~Expired(code) /\ code.redirect = p.redirect /\ code.challenge = S256(p.verifier) /\ p.ours

CodeAccepted(code, p) ==
  /\ ~Expired(code)
  /\ code.client = p.client
  /\ code.redirect = p.redirect
  /\ code.challenge = S256(p.verifier)
  /\ p.ours                               \* checkResource

ExchangeCode(h) ==
  /\ At(h, "exchange")
  /\ LET j == job[h] IN
     IF CodeAccepted(j.code, j.with)
       THEN /\ MintTokens(j.code.email, j.with.client)
            /\ redemptions' = [redemptions EXCEPT ![j.id] = Append(@, j.with)]
       ELSE UNCHANGED <<tokens, redemptions>>
  /\ Become(h, Idle)
  /\ UNCHANGED <<now, memory, cookie, active, since, fate, granted>>

-----------------------------------------------------------------------------
(* POST /oauth/token, grant_type=refresh_token.  FreeScout is asked        *)
(* whether it still knows the user; the answer counts until the deadline   *)
(* of the HTTP client.                                                     *)

RefreshStart(h, t, client) ==
  /\ Free(h)
  /\ Verified(t, "refresh")
  /\ t.client = client
  /\ Become(h, [step |-> "ask", user |-> t.user, client |-> client,
                deadline |-> now + HttpTimeout])
  /\ UNCHANGED <<now, memory, cookie, tokens, active, history>>

RefreshLookup(h) ==
  /\ At(h, "ask")
  /\ Become(h, IF job[h].user \in active
                 THEN [step |-> "mint", user |-> job[h].user, client |-> job[h].client,
                       deadline |-> job[h].deadline]
                 ELSE Idle)
  /\ UNCHANGED <<now, memory, cookie, tokens, active, history>>

RefreshMint(h) ==
  /\ At(h, "mint")
  /\ now <= job[h].deadline
  /\ MintTokens(job[h].user, job[h].client)
  /\ Become(h, Idle)
  /\ UNCHANGED <<now, memory, cookie, active, history>>

-----------------------------------------------------------------------------
(* POST /mcp: the token is checked before the body is read, and a body may *)
(* take as long as it likes.  The token tool mints an API token.           *)

CallStart(h, t) ==
  /\ Free(h)
  /\ Verified(t, "access")
  /\ Become(h, [step |-> "call", user |-> t.user, client |-> t.client, admitted |-> now])
  /\ UNCHANGED <<now, memory, cookie, tokens, active, history>>

TokenTool(h) ==
  /\ At(h, "call")
  /\ tokens' = tokens \cup {Signed("api", job[h].user, job[h].client, ApiTTL)}
  /\ Become(h, Idle)
  /\ UNCHANGED <<now, memory, cookie, active, history>>

(* A handler gives up: a login or a lookup fails or times out, the client  *)
(* hangs up, a call is answered without touching the token service.        *)
GiveUp(h) ==
  /\ job[h].step \in {"login", "lookup", "attach", "ask", "mint", "call"}
  /\ Become(h, Idle)
  /\ UNCHANGED <<now, memory, cookie, tokens, active, history>>

-----------------------------------------------------------------------------
(* The environment.                                                        *)

Tick ==
  /\ now < MaxTime
  /\ now' = now + 1
  /\ UNCHANGED <<memory, job, cookie, tokens, active, history>>

(* The container is replaced: memory and running requests are lost, the    *)
(* signing key and so every token stay valid, browsers keep their cookies. *)
Restart ==
  /\ pending' = [id \in AuthzId |-> None]
  /\ codes' = [c \in CodeId |-> None]
  /\ job' = [h \in Handler |-> Idle]
  /\ UNCHANGED <<now, cookie, tokens, active, history>>

Deactivate(u) ==
  /\ u \in active
  /\ active' = active \ {u}
  /\ since' = [since EXCEPT ![u] = now]
  /\ UNCHANGED <<now, memory, job, cookie, tokens, fate, granted, redemptions>>

Reactivate(u) ==
  /\ u \notin active
  /\ active' = active \cup {u}
  /\ UNCHANGED <<now, memory, job, cookie, tokens, history>>

-----------------------------------------------------------------------------
Next ==
  \/ \E b \in Browser :
       \/ \E id \in AuthzId, client \in Client, redirect \in Redirect, v \in Verifier :
            Authorize(b, id, client, redirect, v)
       \/ \E h \in Handler : CallbackStart(h, b)
       \/ \E c \in CodeId : Approve(b, c)
       \/ ApproveRefused(b)
       \/ Deny(b)
  \/ \E h \in Handler :
       \/ \E u \in User : OidcExchange(h, u)
       \/ CallbackLookup(h)
       \/ AttachUser(h)
       \/ \E c \in CodeId, p \in Presented : TakeCode(h, c, p)
       \/ ExchangeCode(h)
       \/ \E t \in tokens, client \in Client : RefreshStart(h, t, client)
       \/ RefreshLookup(h)
       \/ RefreshMint(h)
       \/ \E t \in tokens : CallStart(h, t)
       \/ TokenTool(h)
       \/ GiveUp(h)
  \/ \E u \in User : Deactivate(u) \/ Reactivate(u)
  \/ Tick
  \/ Restart

Spec == Init /\ [][Next]_vars

-----------------------------------------------------------------------------
(* Every variable has its type.                                            *)
TypeOK ==
  /\ now \in Nat
  /\ pending \in [AuthzId -> Request \cup {None}]
  /\ codes \in [CodeId -> Code \cup {None}]
  /\ job \in [Handler -> Job]
  /\ cookie \in [Browser -> AuthzId \cup {None}]
  /\ tokens \subseteq Claims
  /\ active \subseteq User
  /\ since \in [User -> Nat]
  /\ fate \in [AuthzId -> {"unused", "open", "approved", "denied"}]
  /\ granted \in [CodeId -> Grant \cup {None}]
  /\ redemptions \in [CodeId -> Seq(Presented)]
-----------------------------------------------------------------------------
(* Properties.                                                             *)

(* A code is worth one token pair, whatever the number of exchanges that   *)
(* are under way with it: exchangeAuthorizationCode takes it out of the    *)
(* map before it checks it (oauth.go:229).                                 *)
OneTimeCode == \A c \in CodeId : Len(redemptions[c]) <= 1

(* Tokens minted from a code went to the client, the redirect URI and the  *)
(* PKCE verifier of the request the user approved, however many requests   *)
(* and codes are in the air (oauth.go:238-250).                            *)
BoundToRequest ==
  \A c \in CodeId : \A i \in DOMAIN redemptions[c] :
    /\ granted[c] # None
    /\ LET p == redemptions[c][i]
           r == granted[c].request
       IN /\ p.client = r.client
          /\ p.redirect = r.redirect
          /\ S256(p.verifier) = r.challenge

(* A request that was approved or denied is decided for good: no login     *)
(* that was still running for it brings it back, and it yields one code at *)
(* most (attachUser and completeAuthz look it up again under the lock).    *)
DecidedForGood ==
  /\ \A id \in AuthzId : fate[id] \in {"approved", "denied"} => pending[id] = None
  /\ \A c, d \in CodeId :
       granted[c] # None /\ granted[d] # None /\ granted[c].authz = granted[d].authz => c = d

(* The longest a session outlives its user's access: a request that was    *)
(* identified just before can still be approved, and its code redeemed; a  *)
(* refresh that was being answered can still mint.                         *)
Larger(a, b) == IF a > b THEN a ELSE b
Afterlife == Larger(AuthzTTL + CodeTTL, HttpTimeout) + AccessTTL

(* When FreeScout has stopped answering for a user, every access token of  *)
(* that user runs out within Afterlife, and no MCP call is admitted for    *)
(* the user after that, although refresh tokens live much longer: each     *)
(* refresh asks FreeScout again and only the "access" kind opens /mcp.     *)
RevocationBound ==
  \A u \in User \ active :
    /\ \A t \in tokens :
         t.user = u /\ t.kind = "access" => t.expires <= since[u] + Afterlife
    /\ \A h \in Handler :
         At(h, "call") /\ job[h].user = u => job[h].admitted <= since[u] + Afterlife

-----------------------------------------------------------------------------
(* The server implements Grant: what became of each request, read off the  *)
(* maps and the history.                                                   *)

Outstanding(c) ==
  codes[c] # None \/ \E h \in Handler : At(h, "exchange") /\ job[h].id = c

CodesOf(id) == {c \in CodeId : granted[c] # None /\ granted[c].authz = id}

Stage(stage, user, client) == [stage |-> stage, user |-> user, client |-> client]

StageOf(id) ==
  IF CodesOf(id) # {}
    THEN LET c == CHOOSE c \in CodesOf(id) : TRUE
             r == granted[c].request
         IN IF redemptions[c] # <<>> THEN Stage("redeemed", r.email, r.client)
            ELSE IF Outstanding(c) THEN Stage("granted", r.email, r.client)
            ELSE Stage("over", None, None)
  ELSE IF pending[id] # None THEN Stage("asked", pending[id].email, pending[id].client)
  ELSE IF fate[id] = "unused" THEN Stage("unused", None, None)
  ELSE Stage("over", None, None)

Promise == INSTANCE Grant WITH
  grant <- [id \in AuthzId |-> StageOf(id)],
  sessions <- {<<t.user, t.client>> : t \in tokens}

(* Every step of the server is a step of Grant or leaves it alone: no      *)
(* token for a user and a client without an approved, identified request   *)
(* of that client, redeemed once; refreshes and API tokens open nothing    *)
(* new (mintTokens, exchangeRefreshToken, mintAPIToken).                   *)
ImplementsGrant == Promise!Spec
==============================================================================
