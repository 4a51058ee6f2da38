# freescout-mcp in TLA+

TLA+ modules, TLC configurations and TLAPS proofs for freescout-mcp: the Go
connector in `server/`, which is an OAuth server, an MCP server and a REST API
in one process, and the FreeScout modules in `modules/` it talks to.

    tlc -config OAuthFlow.cfg MCOAuthServer      # any run of the table below
    tlapm OAuthServerProofs.tla                  # any *Proofs module

## 1. The system

A client (Claude, a script) is authorized once by a person: it sends the
browser to `/oauth/authorize`, the person logs in at the OIDC provider, sees a
consent page, approves, and the client redeems the code for an access token and
a refresh token. With the access token it calls tools at `/mcp`; one tool mints
an API token for the REST API under `/mcp/api/v1`. Both front ends run the same
operations, which call `/mcp-bridge` in FreeScout in the name of the user.

| Component | State | Operations | What is hard about it |
|---|---|---|---|
| OAuth server (`oauth.go`, `oauth_routes.go`) | pending requests, codes, both in one map each under one mutex; signed tokens nobody stores; a cookie per browser | authorize, callback, approve, deny, two token grants | a callback and a refresh wait for HTTP answers without the lock; several tabs of one browser; users withdrawn while sessions live; restarts |
| Client metadata cache (`cimd.go`) | one entry per client id | `resolveClient` | locked at the read and at the write but not in between: concurrent resolves overwrite one another; stale copies; lifetimes taken from a header |
| Temporary uploads (`uploads.go`) | an index in memory, a file per entry | put, read, remove, sweep | a request of many files interleaves with others between the files; quota; expiry; undo; files must not be lost before FreeScout has them |
| Operations (`ops.go`, `drafts.go`) | none of their own | check the arguments, load attachments, call the bridge, delete the uploads | answers that are late, lost or of no use; files from four sources counted together; limits on both sides |
| Front ends (`mcp.go`, `tools.go`, `rest.go`) | none | admission by token, dispatch, arguments from path, query, body and form, statuses of an answer | a token is checked before a body is read; an id comes in several places and spellings; a caller acts on the status |
| Bridge client (`bridge.go`), OIDC client (`oidc.go`) | the discovered provider | calls with a timeout of 20 s | timeouts race with answers, and FreeScout goes on; discovery under a lock every login waits for |
| Bridge (`modules/Mcp`, `BridgeController.php`) | FreeScout's tables `threads`, `conversations`, `attachments` | replies, drafts, forward, merge, move, note, status | checks happen before the transaction and without row locks; mail is queued after the commit; people work on the same drafts |
| Agents' login (`modules/Zitadel`) | the PHP session, the remember-me cookie | redirect to the provider, `start`, `callback` | one session for several tabs, written back by the request that ends last; callbacks opened late, twice or elsewhere; a provider that is down must not close the door |

What makes each part correct, in one line each: a code is redeemed once, by the
client it was approved for, and a withdrawn user's sessions end in bounded time;
a request is decided on a document of bounded age, and stale only in an
emergency; uploads stay within the quota, reach FreeScout for their owner only,
are removed only when FreeScout has them and are always forgotten; a caller is told
the truth about its call, and soon, and FreeScout does what was asked and no more; a draft is
touched by its author only, is sent once, and stays sent; an agent's browser is
signed in as who signed in there, stays so, and is never redirected for ever.

## 2. The modules

Time is a natural number, or for uploads a number of ticks that are left. An
action is what one handler does between two points where another one can run: a
critical section, the wait for an HTTP answer, or a database statement or
transaction. What a handler knows across such a point is in `job[h]`; a set of
handler slots stands for the goroutines or PHP workers. History variables, named
in each module, are written and never read by the actions, except that an id
given out once is not drawn again.

**`Grant`** is the promise of the OAuth server without clocks, maps, cookies and
HTTP: a request is asked for, identified, granted, redeemed, and may lapse at any
time; only a redemption opens a session for a user and a client.

**`OAuthServer`** is `memory` (`pending`, `codes`) and its handlers. `Authorize`
is `GET /oauth/authorize` with `beginAuthz`, sweep included; its answer may be
lost, so the cookie is set or not. The callback is `CallbackStart` (cookie and
`loadAuthzRequest`), `OidcExchange`, `CallbackLookup` (FreeScout decides in
`knownUser`), and `AttachUser`, with `GiveUp` at every wait. `Approve`,
`ApproveRefused` and `Deny` are the two forms of the consent page.
`exchangeAuthorizationCode` is `TakeCode` (the critical section) and
`ExchangeCode` (the checks after it); `exchangeRefreshToken` is `RefreshStart`,
`RefreshLookup`, `RefreshMint`. `CallStart` and `TokenTool` are an MCP call whose
body takes any time to arrive. `Restart` empties memory and keeps tokens and
cookies; `Deactivate` and `Reactivate` are FreeScout. A code or a token is
presented by anyone, with any client id, redirect URI and verifier. That the
client is resolved from its document is `ClientMetadata`'s subject: here the
client id is what the handlers compare.

**`ClientMetadata`** is `resolveClient`: `ResolveHit`, or `ResolveMiss` and a
fetch that ends in `FetchStore` or `FetchFail`, each working on the entry seen at
the start. The checks of a document are one outcome of the fetch.
`Cache-Control` is the sequence of directives `cacheTTL` reads, of which the last
counts; lifetimes are integers, a negative `max-age` included. (The
multiplication with a second can wrap; the result is then some other integer, and
every integer is clamped, so any `max-age` in the model stands for it.)

**`Uploads`** is the store with the requests around it. A post puts its files one
by one (`PutFile`) and is refused (`PutRefused`, `UndoOne`, `UndoDone`), or ends
at an empty file with the earlier ones left behind (`PostAnswered`). A draft,
reply or forward reads its files (`ReadOne`), FreeScout stores them
(`FreeScoutStores`), a good answer arrives (`AnswerGood`) and the uploads are
removed (`CleanOne`); before that the call can end anywhere (`GiveUp`).
`left` counts an upload's time down, which keeps the model finite without a bound
on the clock.

**`BridgeDrafts`** is what `BridgeController` does to `threads` and
`conversations`: each `…Start` is a request that loads rows and passes its
checks, each `…Commit` its transaction, decided on what was loaded. Eloquent's
`save()` writes the attributes that differ from the loaded row, and nothing when
the row is gone. `Announce` is the event after a commit that queues the mail;
`deleteDraft` has no transaction and is two steps. `People` adds a person who
sends, edits and discards drafts in FreeScout's own pages, in the way the comments
of the controller describe them; these actions and the crash of a worker are the
external ones.

**`Outcome`** is the promise of a call, whichever front end it takes and whatever
happens to FreeScout: not done, done in part, in full, or `short` (but for files
FreeScout could not store); told `ok`, `refused` or `failed`. A refusal means that
nothing happened and nothing will; `failed` promises nothing.

**`Operations`** is one call from its arrival to its answer. `Receive` is a front end
with everything up to the first file to be fetched: `Args` puts together path, query,
body and form as `requestArgs` does (`CoerceField` is `coerceField`, the conversion of a
form's fields, `Value` the reading of Go's decoder, which accepts other spellings of a
key), `InputError` is the checks of the seventeen operations, `Path` and `Payload` what
they send. `LoadItem` is one turn of `loadAttachments` (an upload, base64, a URL, with
the room that is left), `Post` is `postDraft` or `post`, `AnswerArrives` and `NoAnswer`
are the ends of `do`, `Failure` what `writeOpResult` and `toolResult` make of an error (only
the REST API tells a refusal, by a 4xx status, from any other failure; a tool gets `isError`
for all of them and a text that differs), and `Clean` is the removal of the uploads in `withAttachments`. On
FreeScout's side `AcceptsFiles` is `Drafts::attachments`, `WithinLimits` its limits and `FileName` what
`fileName` leaves of a name that is a path, perhaps nothing; `Refuses` is a check of the
controller or of `PodLocalOnly`, `Perform` its work, `Succeeds` and `Breaks` its answer.
`storeAttachments` logs a file it cannot store and goes on, so `Perform` stores any subset of
the files (`kept`) and the call is then `short` of the others. Replies, drafts and their
sending are transactions; what is not (`InParts`: a merge takes one conversation after the
other, note, status, assign, move, an immediate forward and `deleteDraft` write several rows,
an update removes files from the disk before it commits) can stop after any part. What
a call needs to know of an argument is what the code looks at: an id is a number, a
text is empty or not, a list is its length, `Bad` is a value of another JSON type.
`Uploads` has the store in detail; here an upload is there or has gone.

**`Discovery`** is `ensureOIDC`: the queue behind its lock, the request its holder
makes under the lock, and the provider once it is known.

**`Connector`** composes the two in one process, `ProcessNext`: calls and logins
interleave, share no lock, and a restart ends both in one step.

**`AgentLogin`** is the login of FreeScout's own agents at the provider. A tab is
where its redirects have taken it: at rest on a page, at the provider, at a request
about to be served, or in a request that waits for the provider (`discovery`,
`exchange`). Each step of `Serve` is a request of a tab that is answered at once, or
one end of a request that waits: `RedirectLoginToZitadel` is the middleware,
`Start`, `Discovered` and `DiscoveryFails` are `start`, `Callback`,
`CallbackDenied`, `Exchanged`, `ExchangeFails` and `NoAccount` are `callback`. A
request that waits keeps the session it loaded and writes that back when it ends.
(`Auth::login` and `regenerate` give the session a new id; the browser then follows
the id of the answer that came last, which is the same rule.) State and verifier are
drawn together and are one `attempt`. External are the pages of FreeScout, the
session and the remember-me cookie of Laravel, what people do (they may open any
callback anybody ever had, in any tab), and the provider, taken as weak as possible:
it accepts a code any number of times and does not look at the verifier, so that
what holds rests on the state in the session alone. Accounts are active or not once
and for all; FreeScout itself logs an account out that is deactivated.

**`Sums`** has no state: it is what the proofs about bounds know of sums over finite sets.

The `MC…` modules add symmetry and the values a `.cfg` cannot hold. Operators
named `X_Something` marked *mutant* are wrong versions of `X`; with one in its
place the property it is listed for in `PROJECT.json` fails.

## 3. The runs

| Run | Question | Answer |
|---|---|---|
| `oauth_flow` | Two requests, codes, users, clients, verifiers and handlers, one browser, restarts: `OneTimeCode`, `BoundToRequest`, the refinement `ImplementsGrant` | holds |
| `oauth_revocation` | One of each and two handlers, the clock running to 4 with lifetimes of 1 (refresh tokens 4), users coming and going: `RevocationBound`, `DecidedForGood` | holds |
| `cimd` | Two resolves of one client, failures, five headers, one restart: `ServedAge`, `StaleOnlyAfterFailure` | holds |
| `cimd_race` | `LastGoodCopy` | violated: section 5 |
| `uploads` | Two users, two requests, two files: `OwnersOnly`, `NothingLost` | holds |
| `uploads_quota` | Three files beside both limits: `QuotaHeld`, `RefusedLeavesNothing`, and `Forgotten` | holds |
| `uploads_used_once` | `UsedOnce` | violated |
| `uploads_lost` | `NothingLost` when FreeScout cannot store a file | violated |
| `drafts` | Two requests, either of which may die at any point and be tried again, two threads, two conversations, two users and a person at work: `OwnDraftsOnly`, `SentTogether`, `ConversationGoesToo`, `SentOnce`, `SentStaysSent` | holds |
| `drafts_late` | `OnlyDraftsTouched` with two requests | violated |
| `agent_login` | Two tabs of one browser or of two, two attempts, one person with an account and one without: `OwnLogin`, `LoginKept`, `Settles` | holds |
| `connector` | One call through either front end with every operation, argument and attachment that matters, two logins, restarts: `AnswerIsTrue`, `OnlySenders`, `LimitsAgree`, `FilesAsNamed`, `AsAsked`, the refinement `ImplementsOutcome`, `Answered`, `LoginAnswered` | holds |

Each module also has its type invariant in one run; it is not only typing:
`Approve` of a request nobody has logged in for would make a code without a user,
a missing floor would make an entry expire before the clock began, an upload that is
not swept would count below zero, a person without an account would be in a
session, and a 401 of FreeScout's that is passed on would be an answer the API has for its
own tokens only.

Two properties name what they except. `ConversationGoesToo`: a worker that dies between
`deleteThreads` and `delete` leaves a draft conversation without a draft; `orphans`
records those, and there are no others. `SentOnce`: two requests that find the same
draft at the same time both mail it (`drafts_late`); `raced` records those threads, and
every other draft is mailed once, however often a lost answer makes a caller try again.

**Bounds.** In `oauth_flow` the clock stands still (`MaxTime = 0`): what expiry
and the sweep do to a request is also done by `Deny`, by a refused approval and by
`Restart`, so the interleavings are all there, and expiry itself is exercised in
`oauth_revocation`. There the lifetimes are one tick so that each of them, added
up in `Afterlife` (3), runs out before the clock stops at 4, and refresh tokens
outlive all of them. In `cimd` a fresh copy lives 2, a stale one 3, a fetch takes
1, so that the oldest copy that can be served (age 4) and a longer one fit into 7
ticks. `uploads_quota` has one id more than the limit allows at a time, posts of
two files that fill the bytes exactly (1 + 2) and that exceed them (2 + 2), and a
post that ends in an empty file. Two uploads, two requests and two users are the
fewest for a race about a file. `drafts` has one conversation that exists, one
that a new email can create, and two threads, so that a draft and a message can be
in the same or in different conversations; with crashes it has 2.6 million states.
`connector` has one call, since calls meet only in the store, where another call's use
of an upload is `UploadGoes`, and two logins, one behind the other; its inputs
(`MCConnector`) are every operation through both front ends with what it insists on and
without each of those arguments, ids in path, query, body and form at once and in
both spellings, forms with single, repeated and missing fields, merges of none, one and
two conversations, forwards as draft and as mail, and attachments of every source,
usable and not, beside limits of two files and three bytes. `agent_login` begins with every way two
tabs can belong to two browsers and every configuration; two attempts let each of two
logins hold the other's callback, and after them only discoveries that fail are left,
which is the provider being down. Handlers are symmetric wherever a
symmetry set is given; the runs with a liveness property have none.

Deadlock is checked in every run but `connector`, and does not occur: every handler can
give up, and an empty system can begin. In `connector` every call and every login is
made once, so the run may end when all of them are answered; that none is left waiting
is what `Answered` and `LoginAnswered` say.

**Fairness.** Four properties need it. `Forgotten`: `WF(Tick)`, time passes, and `WF(Sweep)`,
the goroutine of `main` calls `sweep` once a minute, waits only for the store's
mutex, and nothing holds that mutex across I/O to other systems. No request has to
finish, and none does under this fairness: a file is forgotten although its request
hangs. `Settles`: `WF(Serve(t))`, a tab's request is answered; PHP answers, and what
`LoginController` waits for ends after 15 seconds at the latest (`CURLOPT_TIMEOUT`),
with success or without. Nobody has to sign in, cancel or go anywhere. A tab whose
browser another tab signs in and out for ever can be kept going between `/` and
`/login`; `Settles` excepts that, and nothing else. `Answered`: `WF(Handles(c))`, a handler
goes on as long as its process lives; a download ends after 60 seconds, a request to the
bridge after 20, and what follows is memory and a file to delete. FreeScout need not
answer, finish or even run. `LoginAnswered`: `WF(Proceeds(l))`, who holds the lock of
`ensureOIDC` gets an answer, an error or its timeout of 20 seconds; the lock goes from one
waiting goroutine to the next in the order they came, which is what Go's mutex does
once somebody has waited for a millisecond.

## 4. The proofs

| Theorem | What holds for every value of the constants |
|---|---|
| `OAuthServerProofs!TypeCorrect` | `TypeOK` |
| `OAuthServerProofs!OneTime`, `Binding` | `OneTimeCode` and `BoundToRequest` |
| `OAuthServerProofs!Decided` | `DecidedForGood` |
| `OAuthServerProofs!Revocation` | `RevocationBound` |
| `ClientMetadataProofs!TypeCorrect` | `TypeOK`, and so every result of `cacheTTL` |
| `ClientMetadataProofs!Age`, `Staleness` | `ServedAge` and `StaleOnlyAfterFailure` |
| `ClientMetadataProofs!GoodCopies` | `LastGoodCopy`, if no two requests fetch one client's document at once |
| `GrantProofs!Implementation` | `ImplementsGrant`: `OAuthServer` implements `Grant` |
| `UploadsProofs!Typing`, `Ownership`, `Refusal` | `TypeOK`, `OwnersOnly`, `RefusedLeavesNothing` |
| `UploadsProofs!Quota` | `QuotaHeld` |
| `UploadsProofs!Lossless` | `NothingLost`, if FreeScout stores what it says it stored |
| `UploadsProofs!SingleUse` | `UsedOnce`, if calls keep apart and answers arrive |
| `BridgeDraftsProofs!Typing`, `Ownership`, `Together`, `Deletion`, `Once`, `Sendings` | `TypeOK`, `OwnDraftsOnly`, `SentTogether`, `ConversationGoesToo`, `SentOnce`, `SentStaysSent` |
| `BridgeDraftsProofs!Undisturbed` | `OnlyDraftsTouched` and one mail for a thread, if no two requests are about one draft and nobody works in FreeScout |
| `AgentLoginProofs!Typing`, `Ownership`, `Lasting` | `TypeOK`, `OwnLogin`, `LoginKept` |
| `OperationsProofs!Typing`, `Truth`, `Refinement` | `TypeOK`, `AnswerIsTrue`, `ImplementsOutcome`: `Operations` implements `Outcome` |
| `OperationsProofs!Files`, `Mailing`, `Aiming`, `Limits` | `FilesAsNamed`, `OnlySenders`, `AsAsked`, `LimitsAgree` |
| `OperationsProofs!Composition`, `ProcessHolds` | a run of the process is a run of the calls and a run of the logins, so all of the above holds in it |
| `OperationsProofs!Process`, `Queued` | `ProcessTypeOK`; a login waits if and only if it has its one place in the queue |

They assume only the named assumptions of the modules: lifetimes are natural
numbers, `None` is not a value, for the cache `0 < MinTTL <= MaxTTL`, and that the inputs
of a call and the uploads have the form the JSON decoder and the store give them.

Four theorems have a hypothesis of their own, which stands in the table as "if". They are the
other side of section 5: each promise the code breaks there is kept under a condition, and
the counterexample is a run without it. `Lossless` assumes `StorageFails = FALSE`; `GoodCopies`
`[]Alone`, no two requests fetch one client's document at the same time; `SingleUse`
`[]Apart`, no upload is named by two calls at a time or twice by one, and `AnswersArrive`, no
call that FreeScout has served is given up before it knows (a retry after an answer that was
lost is then a retry of what was not done); `Undisturbed` `[]Alone`, no two requests are about
one draft at a time and nobody works in FreeScout, while workers may die at any point. Fixing
the code means making such a condition true: one lock, one transaction, or one check of a
result.

Each proof has one lemma or step for every action, and what an action does not touch is
handled by a lemma of its own (`OneJob`, `NoJob`, `OneTab`, `OneCall`, `Elsewhere`).

- `OneTimeCode` is not inductive: it says nothing about a code that is under way.
  `CodeInv` adds that a code is in one place only, in the map, with one handler or
  in the history (minted at most once), and that wherever it is it is the code that
  `Approve` made from the request in `granted`.
- `DecidedForGood` needs `FateInv`: what is pending is a request whose fate is
  open, a code was made from a request whose fate is `approved`, and no two codes from
  the same request; a login that
  is still running holds only an id, so nothing it does can bring a request back.
- `RevocationBound` needs the bound for every stage on the way to a token
  (`RevocationInv`): a pending request or a code that names a withdrawn user expires
  within so many ticks of `since`, a handler that will attach or mint does so by its
  deadline, an access token ends within `Afterlife`. `Deadlines` is the part about
  expiry times alone, `Ending` the part about users FreeScout no longer answers for.
  A login that asked before the withdrawal has no deadline of its own in the code;
  it is bounded by the request it can attach to, which expires `AuthzTTL` after it
  was made.
- `ServedAge` needs `AgeInv`: `CacheAge` bounds each entry (a document is at most
  `FetchTimeout` older than its `fetchedAt`; an entry expires within `MaxTTL` of
  `fetchedAt` unless a failure renewed it, and then within `StaleMax + MinTTL`), and
  `JobAge` says the same of the entries handlers took along, since one of them may be
  written back over a newer one.
- `Implementation`: the stage of a request is not a variable of the server.
  `StageLaw`, which follows from `FateInv`, reads it off the request's one code, or off
  the map when it has none. What a code grants is what was approved by `CodeInv`, and
  only an exchange opens a session because of `SessionInv`: who is refreshed or admitted
  already holds tokens of the same user and client.
- `Uploads`: `Inv` adds to the properties that an entry in the index carries the owner
  who put it (`Agree`), and what each request has in hand (`JobOK`): files of its own user,
  stored by FreeScout once the request is past that, and while a form is taken back every
  file of it is gone or still to go. `Stored` is `NothingLost` under the assumption of
  `Lossless`. A request keeps all that while others work, because an entry that is not its
  own only shrinks or goes (`ShrinkKeeps`).
- `BridgeDrafts`: `JobOK` says how far what a request loaded is still true when it
  commits: the thread is its user's and in that conversation, and a conversation that was
  no draft is none. `Agree` ties author and conversation of a row to those it was made
  with. `OneMail` counts mails, and requests that are about to queue one, for a thread
  that two requests did not find at once. `Evolves` is what every step keeps to (no author
  or conversation of a row changes, a sent row stays sent, no row comes back), which gives
  `SentStaysSent`.
- `AgentLogin`: `OneBrowser` (an attempt belongs to one browser: to its session, to a tab
  of it at the provider, or to a session a request of it has loaded), `KnownAttempts` (it
  was drawn before), `CodesFit` (a code was issued to somebody who signed in where its
  attempt is), `Remembers` (the cookie names who is to be kept). `LoginKept` was first
  stated without an exception for a login by password, and no instance that TLC finishes
  contradicts that; the attempt to prove it showed a case with three tabs and two people,
  in which a password login of somebody else ends what was kept, so `kept` ends there.
- `Operations`: `Fit` gives the combinations of handler, worker, deed and answer that
  occur; `Consistent` is that of every call, and with `TypeOK` is inductive. It gives every
  step of the refinement. `KeptInv` says which files are stored and when: none before a call
  is complete, those of the request only, and all of them unless the call is short; with
  `Fit` it gives `AnswerIsTrue`. `AskInv` adds that what is loaded
  followed by what is still to load is what the call carried (`Carried`), and that the
  bridge has been asked for that, under the operation's path, for the thing it was given
  (`AskedFor`); `OnlySenders` and `AsAsked` follow, and with `KeptInv` `FilesAsNamed`. `RoomInv` is what
  `LimitsAgree` needs: while files are loaded there is room for those a call has, and what
  is posted had room, counted the way FreeScout counts it.
- `QuotaHeld` needs `Held`: a user has finitely many files and they are within both limits.
  `OnlyPutAdds`: every other action takes files away, and fewer files are fewer bytes.
- `Sums`: a sum is a fold, and what a fold computes is shown by induction, which the
  library states with an operator as parameter. The lemmas go round that: if a claim failed
  on some finite set, it would fail on one that has no smaller such set inside it
  (strict inclusion of finite sets is well-founded, a theorem of the library without a
  parameter), and there one step of the recursion refutes it. `SumType`, `SumMore` and
  `SumFewer` are the results.
- The process: `ProcessStep` shows each step of `Connector` to be one of `Operations` and
  one of `Discovery`, either of them a stutter, which is `Composition`; a restart is a step
  of both. `QueueInv` ties each login to its place in the queue; while the holder of the lock
  asks, the provider is not known and the queue is not empty.
- `GoodCopies` needs `GoodInv`: what the cache holds, and what a fetch has taken along, is the
  last copy stored (`IsLastGood`). A second fetch of the same client is what breaks the
  latter.
- `SingleUse` needs `OnceInv`: what a call has in hand is unused (`Unused`), and a used file is
  on its way out of the store in the hands of the call that used it (`UsedUp`).
- `Undisturbed` needs `AloneInv`: what a request loaded is still a draft when it commits
  (`StillDraft`), a new email is alone in its conversation (`Single`), and a conversation that
  is being discarded is nobody else's (`Doomed`).

Model-checked only: `Forgotten`, `Settles`, `Answered`, `LoginAnswered`, which are liveness
under fairness, out of the prover's reach. Every safety property of a passing run is a
theorem. No module uses a `RECURSIVE` operator.

## 5. Where code and documentation disagree

- `cimd_race`: `cimd.go:192` promises that the last good copy is served when a
  fetch fails. `resolveClient` decides on the entry it read before the fetch: A and B
  find nothing, A stores a document, B's fetch fails, B answers that the client is
  unknown, and the exchange or refresh behind B is refused.
- `uploads_used_once`: uploads "can be used once" (`uploads.go:113`). They are read
  when a call starts and removed after its answer, so two calls at a time, or a retry
  after a lost answer, store the file twice.
- `uploads_lost`: `ops.go:254` deletes uploads "once FreeScout has stored them". A
  file that `Attachment::create` cannot store is logged in `storeAttachments`, the
  answer is ok, and the upload is deleted. `Operations` has the same case: `ok` there may
  be `short`, and that is all `AnswerIsTrue` and `Outcome` promise. (The answer lists the
  attachments that are there, so a caller who compares can see it.)
- `drafts_late`: `findOwnDraft` refuses what "is not a draft (any more)", but looks
  before the transaction and without a lock. Two `send_draft` calls of one draft both
  commit and both queue the mail; an update or a deletion reaches a message that was
  sent in between.

Smaller ones, met while `Operations` was written. None has a run; where the model reaches
them, it does what the code does:

- the README says 413 above 20 MB; that is the answer for files of a form, while uploads
  and base64 above 20 MB are answered 400;
- the API guide says every file part of a form becomes an attachment; those of a note, a
  status or a merge are read and dropped;
- a single `merge_ids=5` or `remove_attachment_ids=5` in a form is a number, not a list,
  and refused;
- `{"cc": null}` counts as passed for `update_draft`, and empties the field;
- a `tools/call` without an id is a notification, is performed, and is answered 204
  without a result.

## 6. Not modelled, and why

- *The consent page of another login* (`oauth_routes.go:113`). What a page names is not in
  the model: the cookie is, and whoever holds it made both logins. The code compares
  nothing there, so a property could only fail, and no document promises one.
- *The rows that note, status, assign, move, merge and an immediate forward write.* They
  are FreeScout's own functions (`moveToMailbox`, `mergeConversations`, `forward`), called
  once each (merge: once per conversation); `Operations` models how such a call ends and what the caller learns.
- *Reading and searching*, the settings page, the conversion between Markdown, HTML and
  text, control characters and spaces in names of files, address lists, the spelling of base64, JSON-RPC framing: no state,
  and no property here depends on them.
- *The ID token's checks and the discovery document's checks*: one outcome each, good or
  not.
- *Configuration, the OpenAPI text, deployment, continuous integration*: read once, run
  once, or text.

`PROJECT.json` lists every component with its status and every hazard with the property
that covers it. Six hazards have no property; each has a note with the reason, which is
that neither the code nor a document makes a promise there that a property could state.

What is left of the plan is small: a composition of `Operations`, `Uploads` and
`BridgeDrafts`, whose interfaces (an upload that goes, a request that is refused, performed,
broken off) are the same actions on both sides, and which is beyond TLC in one state space but
not beyond a proof like that of `Composition`; and the page in the browser, once the server
gives it something to compare.
