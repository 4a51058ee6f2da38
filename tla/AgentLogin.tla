------------------------------ MODULE AgentLogin ------------------------------
(***************************************************************************)
(* The agents' web login, src/modules/Zitadel: the middleware that sends   *)
(* /login to the provider, and LoginController's start and callback.  A    *)
(* tab follows redirects until it rests on a page.  Laravel loads the      *)
(* session when a request begins and writes all of it when it ends, so of  *)
(* two requests of one browser the one that ends last decides.             *)
(*                                                                         *)
(* External: FreeScout's own pages, the session and the remember-me cookie *)
(* of Laravel, and the provider, which may accept a code more than once    *)
(* and need not look at the PKCE verifier.                                 *)
(***************************************************************************)
CONSTANTS
  Browser, Tab,
  User,           \* people the provider knows
  Known,          \* those with an active account in FreeScout
  Attempt,        \* what randomString returns, a state and its verifier: as
                  \* many logins reach the provider
  None

ASSUME LoginAssumption ==
  /\ Known \subseteq User
  /\ None \notin User \cup Attempt

Session == [user : Known \cup {None}, attempt : Attempt \cup {None}]
Code == [attempt : Attempt, user : User]
Environment == [configured : BOOLEAN, force : BOOLEAN, browserOf : [Tab -> Browser]]

Page == {"form", "inbox"}
Request == {"root", "login", "local", "start", "denied"}
TabState ==
  [at : Page \cup Request] \cup
  [at : {"provider"}, attempt : Attempt] \cup
  [at : {"callback"}, code : Code] \cup
  [at : {"discovery"}, loaded : Session] \cup
  [at : {"exchange"}, loaded : Session, code : Code]

VARIABLES
  env,            \* ZITADEL_ISSUER and _CLIENT_ID are set; ZITADEL_FORCE_LOGIN;
                  \* which browser a tab belongs to
  tab,            \* where each tab is; "local" is /login?local=1
  session,        \* the PHP session of each browser
  remember,       \* whom its remember-me cookie signs in
  drawn,          \* the attempts made so far
  issued,         \* the codes the provider has issued
  \* history, read by the properties only
  authenticated,  \* who signed in at the provider or with a password, per browser
  kept            \* who signed in through the provider and has not logged out,
                  \* nor has anybody else signed in there with a password

history == <<authenticated, kept>>
vars == <<env, tab, session, remember, drawn, issued, history>>

Fresh == [user |-> None, attempt |-> None]

Init ==
  /\ env \in Environment
  /\ tab = [t \in Tab |-> [at |-> "form"]]
  /\ session = [b \in Browser |-> Fresh]
  /\ remember = [b \in Browser |-> None]
  /\ drawn = {}
  /\ issued = {}
  /\ authenticated = [b \in Browser |-> {}]
  /\ kept = [b \in Browser |-> None]

-----------------------------------------------------------------------------
BrowserOf(t) == env.browserOf[t]
At(t, place) == tab[t].at = place
MoveTo(t, state) == tab' = [tab EXCEPT ![t] = state]
Go(t, place) == MoveTo(t, [at |-> place])

(* Auth::check: the session, or else the remember-me cookie.               *)
CurrentUser(b) == IF session[b].user # None THEN session[b].user ELSE remember[b]
SignedIn(b) == CurrentUser(b) # None

Save(t, data) == session' = [session EXCEPT ![BrowserOf(t)] = data]
Pulled(data) == [user |-> data.user, attempt |-> None]

Fail_ToLogin(t) == Go(t, "login")          \* mutant: back to where it came from
Fail(t) == Go(t, "local")

-----------------------------------------------------------------------------
(* FreeScout's pages: / wants a user, and /login wants none.               *)
Root(t) ==
  /\ At(t, "root")
  /\ Go(t, IF SignedIn(BrowserOf(t)) THEN "inbox" ELSE "login")
  /\ UNCHANGED <<env, session, remember, drawn, issued, history>>

LoginForm(t) == Go(t, IF SignedIn(BrowserOf(t)) THEN "root" ELSE "form")

RedirectLoginToZitadel(t) ==
  /\ At(t, "login") \/ At(t, "local")
  /\ IF At(t, "local") \/ SignedIn(BrowserOf(t)) \/ ~env.configured \/ ~env.force
       THEN LoginForm(t)
       ELSE Go(t, "start")
  /\ UNCHANGED <<env, session, remember, drawn, issued, history>>

(* GET /zitadel/login, up to the discovery of the endpoints.               *)
Start(t) ==
  /\ At(t, "start")
  /\ IF SignedIn(BrowserOf(t)) THEN Go(t, "root")
     ELSE IF ~env.configured THEN Fail(t)
     ELSE MoveTo(t, [at |-> "discovery", loaded |-> session[BrowserOf(t)]])
  /\ UNCHANGED <<env, session, remember, drawn, issued, history>>

Discovered(t, attempt) ==
  /\ At(t, "discovery")
  /\ attempt \notin drawn
  /\ drawn' = drawn \cup {attempt}
  /\ Save(t, [user |-> tab[t].loaded.user, attempt |-> attempt])
  /\ MoveTo(t, [at |-> "provider", attempt |-> attempt])
  /\ UNCHANGED <<env, remember, issued, history>>

DiscoveryFails(t) ==
  /\ At(t, "discovery")
  /\ Save(t, tab[t].loaded)
  /\ Fail(t)
  /\ UNCHANGED <<env, remember, drawn, issued, history>>

-----------------------------------------------------------------------------
StateMatches_Any(expected, state) == expected # None  \* mutant: the state is not compared
StateMatches(expected, state) == expected # None /\ expected = state

(* The state is pulled whatever comes of it.                               *)
Callback(t) ==
  /\ At(t, "callback")
  /\ LET data == session[BrowserOf(t)]
         code == tab[t].code
     IN IF StateMatches(data.attempt, code.attempt)
          THEN /\ MoveTo(t, [at |-> "exchange", loaded |-> Pulled(data), code |-> code])
               /\ UNCHANGED session
          ELSE Fail(t) /\ Save(t, Pulled(data))
  /\ UNCHANGED <<env, remember, drawn, issued, history>>

(* The provider reports an error instead of a code; the state stays.       *)
CallbackDenied(t) ==
  /\ At(t, "denied")
  /\ Fail(t)
  /\ UNCHANGED <<env, session, remember, drawn, issued, history>>

Active_Anyone(user) == TRUE                \* mutant: any user of the provider
Active(user) == user \in Known

Remembered_Not(b, user) == remember        \* mutant: Auth::login without remember
Remembered(b, user) == [remember EXCEPT ![b] = user]

Exchanged(t) ==
  /\ At(t, "exchange")
  /\ LET b == BrowserOf(t)
         user == tab[t].code.user
     IN /\ Active(user)
        /\ Save(t, [user |-> user, attempt |-> None])
        /\ remember' = Remembered(b, user)
        /\ kept' = [kept EXCEPT ![b] = user]
  /\ Go(t, "root")
  /\ UNCHANGED <<env, drawn, issued, authenticated>>

Refused(t) ==
  /\ At(t, "exchange")
  /\ Save(t, tab[t].loaded)
  /\ Fail(t)
  /\ UNCHANGED <<env, remember, drawn, issued, history>>

(* No ID token, or one that is malformed, foreign, expired or unverified.  *)
ExchangeFails(t) == Refused(t)

NoAccount(t) ==
  /\ Refused(t)
  /\ ~Active(tab[t].code.user)

-----------------------------------------------------------------------------
(* What people do.                                                         *)

Moving(t) == tab[t].at \in Request \cup {"callback", "discovery", "exchange"}

Visit(t) ==
  /\ ~Moving(t)
  /\ \/ \E place \in {"root", "login", "local", "start"} : Go(t, place)
     \/ \E code \in issued : MoveTo(t, [at |-> "callback", code |-> code])
  /\ UNCHANGED <<env, session, remember, drawn, issued, history>>

SignIn(t, user) ==
  /\ At(t, "provider")
  /\ LET code == [attempt |-> tab[t].attempt, user |-> user]
         b == BrowserOf(t)
     IN /\ issued' = issued \cup {code}
        /\ MoveTo(t, [at |-> "callback", code |-> code])
        /\ authenticated' = [authenticated EXCEPT ![b] = @ \cup {user}]
  /\ UNCHANGED <<env, session, remember, drawn, kept>>

Cancel(t) ==
  /\ At(t, "provider")
  /\ Go(t, "denied")
  /\ UNCHANGED <<env, session, remember, drawn, issued, history>>

PasswordLogin(t, user) ==
  /\ At(t, "form")
  /\ LET b == BrowserOf(t)
     IN /\ Save(t, [user |-> user, attempt |-> session[b].attempt])
        /\ remember' \in {remember, [remember EXCEPT ![b] = user]}
        /\ authenticated' = [authenticated EXCEPT ![b] = @ \cup {user}]
        /\ kept' = [kept EXCEPT ![b] = IF @ = user THEN user ELSE None]
  /\ Go(t, "root")
  /\ UNCHANGED <<env, drawn, issued>>

(* A logout ends the user's remember-me cookies everywhere.                *)
Logout(b) ==
  /\ SignedIn(b)
  /\ LET without(m) == [x \in Browser |-> IF x = b \/ m[x] = CurrentUser(b) THEN None ELSE m[x]]
     IN remember' = without(remember) /\ kept' = without(kept)
  /\ session' = [session EXCEPT ![b] = Fresh]
  /\ UNCHANGED <<env, tab, drawn, issued, authenticated>>

SessionExpires(b) ==
  /\ session' = [session EXCEPT ![b] = Fresh]
  /\ UNCHANGED <<env, tab, remember, drawn, issued, history>>

Serve(t) ==
  \/ Root(t)
  \/ RedirectLoginToZitadel(t)
  \/ Start(t)
  \/ \E attempt \in Attempt : Discovered(t, attempt)
  \/ DiscoveryFails(t)
  \/ Callback(t)
  \/ CallbackDenied(t)
  \/ Exchanged(t)
  \/ ExchangeFails(t)
  \/ NoAccount(t)

Next ==
  \/ \E t \in Tab :
       \/ Serve(t)
       \/ Visit(t)
       \/ \E user \in User : SignIn(t, user)
       \/ Cancel(t)
       \/ \E user \in Known : PasswordLogin(t, user)
  \/ \E b \in Browser : Logout(b) \/ SessionExpires(b)

(* Requests are answered: each of the two waits ends after 15 seconds.     *)
Fairness == \A t \in Tab : WF_vars(Serve(t))
Spec == Init /\ [][Next]_vars /\ Fairness

-----------------------------------------------------------------------------
(* Every variable has its type; only people with an active account are     *)
(* ever in a session.                                                      *)
TypeOK ==
  /\ env \in Environment
  /\ tab \in [Tab -> TabState]
  /\ session \in [Browser -> Session]
  /\ remember \in [Browser -> Known \cup {None}]
  /\ drawn \subseteq Attempt
  /\ issued \subseteq Code
  /\ authenticated \in [Browser -> SUBSET User]
  /\ kept \in [Browser -> Known \cup {None}]

(* A browser is signed in only as somebody who signed in there, whichever  *)
(* callbacks are opened in it again, late, or from another browser         *)
(* (LoginController.php:58-62).                                            *)
OwnLogin ==
  \A b \in Browser :
    /\ session[b].user \in authenticated[b] \cup {None}
    /\ remember[b] \in authenticated[b] \cup {None}

(* A login through the provider lasts until that user logs out or somebody *)
(* else signs in: a request of another tab that began before it and writes *)
(* the session back after it does not undo it, nor does the end of the     *)
(* session (the remember-me flag, LoginController.php:79).                 *)
LoginKept == \A b \in Browser : kept[b] # None => SignedIn(b)

(* A tab does not go round in redirects, also when the provider is down or *)
(* nothing is configured: it comes to rest unless its browser is signed in *)
(* and out for ever (fail goes to /login?local=1, LoginController.php:177; *)
(* RedirectLoginToZitadel.php:24).                                         *)
Settles ==
  \A t \in Tab :
    \/ Moving(t) ~> ~Moving(t)
    \/ []<>SignedIn(BrowserOf(t)) /\ []<>~SignedIn(BrowserOf(t))
==============================================================================
