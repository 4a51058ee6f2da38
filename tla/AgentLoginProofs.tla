--------------------------- MODULE AgentLoginProofs ---------------------------
(***************************************************************************)
(* For any number of browsers, tabs, people and logins: a browser is       *)
(* signed in only as somebody who signed in there, and a login through the *)
(* provider lasts.                                                         *)
(***************************************************************************)
EXTENDS AgentLogin, TLAPS

(* An attempt belongs to the browser that made it: to its session, to a    *)
(* tab at the provider, or to a session a request has loaded.              *)
InTab(s, x) ==
  \/ s.at = "provider" /\ s.attempt = x
  \/ s.at \in {"discovery", "exchange"} /\ s.loaded.attempt = x
Has(b, x) == session[b].attempt = x \/ \E t \in Tab : BrowserOf(t) = b /\ InTab(tab[t], x)

OneBrowser == \A x \in Attempt : \A b, c \in Browser : Has(b, x) /\ Has(c, x) => b = c
KnownAttempts ==
  /\ \A x \in Attempt : \A b \in Browser : Has(b, x) => x \in drawn
  /\ \A code \in issued : code.attempt \in drawn
CodesFit == \A code \in issued : \A b \in Browser : Has(b, code.attempt) => code.user \in authenticated[b]

(* What a tab carries along belongs to somebody who signed in there.       *)
StateOK(s, b, i, a) ==
  /\ s.at = "callback" => s.code \in i
  /\ s.at = "exchange" => s.code.user \in a[b]
  /\ s.at \in {"discovery", "exchange"} => s.loaded.user \in a[b] \cup {None}

Remembers == \A b \in Browser : kept[b] # None => remember[b] = kept[b]

Inv ==
  /\ TypeOK /\ OwnLogin /\ OneBrowser /\ KnownAttempts /\ CodesFit /\ Remembers
  /\ \A t \in Tab : StateOK(tab[t], BrowserOf(t), issued, authenticated)

-----------------------------------------------------------------------------
(* What a tab carries, by the place where it is.                           *)
Placed(s) ==
  /\ s.at \in Page \cup Request \cup {"provider", "callback", "discovery", "exchange"}
  /\ s.at = "provider" => s.attempt \in Attempt
  /\ s.at = "callback" => s.code \in Code
  /\ s.at \in {"discovery", "exchange"} => s.loaded \in Session
  /\ s.at = "exchange" => s.code \in Code

(* Where a tab is tells what it carries along.                             *)
LEMMA Places == ASSUME NEW s \in TabState PROVE Placed(s)
BY DEF TabState, Placed, Page, Request

(* On a page or at a request it carries nothing.                           *)
LEMMA Plain ==
  ASSUME NEW place \in Page \cup Request
  PROVE  /\ [at |-> place] \in TabState
         /\ \A x : ~InTab([at |-> place], x)
         /\ \A b, i, a : StateOK([at |-> place], b, i, a)
BY DEF TabState, Page, Request, InTab, StateOK

(* A fresh session is empty, and pulling the attempt leaves the user.      *)
LEMMA Sessions ==
  /\ Fresh \in Session /\ Fresh.user = None /\ Fresh.attempt = None
  /\ \A data \in Session : /\ Pulled(data) \in Session /\ Pulled(data).attempt = None
                           /\ Pulled(data).user = data.user
                           /\ data.user \in Known \cup {None} /\ data.attempt \in Attempt \cup {None}
BY DEF Session, Fresh, Pulled

(* None is neither an attempt nor a person.                                *)
LEMMA NoAttempt == None \notin Attempt /\ None \notin User /\ Known \subseteq User
BY LoginAssumption

(* Every tab has a browser with a session.                                 *)
LEMMA Browsers ==
  ASSUME TypeOK, NEW t \in Tab
  PROVE  /\ BrowserOf(t) \in Browser /\ tab[t] \in TabState /\ session[BrowserOf(t)] \in Session
         /\ Placed(tab[t])
<1>1. BrowserOf(t) \in Browser /\ tab[t] \in TabState
  BY DEF TypeOK, Environment, BrowserOf
<1> QED
  BY <1>1, Places DEF TypeOK

Saves(t, data) == session' = session \/ Save(t, data)

(* A step of one tab, from where it goes and what it saves.                *)
LEMMA OneTab ==
  ASSUME Inv, NEW t \in Tab, NEW s \in TabState, NEW data \in Session, MoveTo(t, s), Saves(t, data),
         UNCHANGED env,
         remember' \in [Browser -> Known \cup {None}], drawn' \subseteq Attempt, issued' \subseteq Code,
         issued \subseteq issued', authenticated' \in [Browser -> SUBSET User],
         kept' \in [Browser -> Known \cup {None}],
         \A b \in Browser : authenticated[b] \subseteq authenticated'[b],
         StateOK(s, BrowserOf(t), issued', authenticated'),
         data.user \in authenticated'[BrowserOf(t)] \cup {None},
         \A b \in Browser : remember'[b] \in authenticated'[b] \cup {None},
         OneBrowser', KnownAttempts', CodesFit', Remembers'
  PROVE  Inv'
<1>1. BrowserOf(t) \in Browser
  BY Browsers DEF Inv
<1>2. session' \in [Browser -> Session]
  BY <1>1 DEF Inv, TypeOK, Saves, Save
<1>3. TypeOK'
  BY <1>2 DEF Inv, TypeOK, MoveTo
<1>4. OwnLogin'
  BY <1>1 DEF Inv, TypeOK, OwnLogin, Saves, Save
<1>5. ASSUME NEW u \in Tab
      PROVE  StateOK(tab'[u], BrowserOf(u)', issued', authenticated')
  <2>1. BrowserOf(u)' = BrowserOf(u) /\ BrowserOf(u) \in Browser
    BY Browsers DEF Inv, BrowserOf
  <2>2. CASE u = t
    BY <2>1, <2>2 DEF Inv, TypeOK, MoveTo
  <2>3. CASE u # t
    <3>1. tab'[u] = tab[u] /\ StateOK(tab[u], BrowserOf(u), issued, authenticated)
      BY <2>3 DEF Inv, TypeOK, MoveTo
    <3> QED
      BY <2>1, <3>1 DEF StateOK
  <2> QED
    BY <2>2, <2>3
<1> QED
  BY <1>3, <1>4, <1>5 DEF Inv

(* Steps that make no attempt and issue no code.                           *)
LEMMA HasLess ==
  ASSUME Inv, UNCHANGED <<drawn, issued>>,
         \A x \in Attempt : \A b \in Browser : Has(b, x)' => Has(b, x),
         \A b \in Browser : authenticated[b] \subseteq authenticated'[b]
  PROVE  OneBrowser' /\ KnownAttempts' /\ CodesFit'
<1>1. \A code \in issued : code.attempt \in Attempt
  BY DEF Inv, TypeOK, Code
<1> QED
  BY <1>1 DEF Inv, OneBrowser, KnownAttempts, CodesFit

(* A step of one tab gives an attempt to no other browser.                 *)
LEMMA HasOnly ==
  ASSUME Inv, NEW t \in Tab, NEW s \in TabState, NEW data \in Session, MoveTo(t, s), Saves(t, data),
         UNCHANGED env, NEW x, NEW b \in Browser, Has(b, x)'
  PROVE  Has(b, x) \/ (b = BrowserOf(t) /\ (InTab(s, x) \/ (Save(t, data) /\ data.attempt = x)))
<1>1. BrowserOf(t) \in Browser /\ \A u \in Tab : BrowserOf(u)' = BrowserOf(u)
  BY Browsers DEF Inv, BrowserOf
<1>2. CASE session'[b].attempt = x
  BY <1>1, <1>2 DEF Has, Inv, TypeOK, Saves, Save
<1>3. CASE \E u \in Tab : BrowserOf(u)' = b /\ InTab(tab[u], x)'
  <2>1. PICK u \in Tab : BrowserOf(u) = b /\ InTab(tab'[u], x)
    BY <1>1, <1>3 DEF InTab
  <2>2. tab'[u] = IF u = t THEN s ELSE tab[u]
    BY DEF Inv, TypeOK, MoveTo
  <2> QED
    BY <2>1, <2>2 DEF Has
<1> QED
  BY <1>2, <1>3 DEF Has

(* A step of one tab that draws no attempt and issues no code.             *)
LEMMA Ordinary ==
  ASSUME Inv, NEW t \in Tab, NEW s \in TabState, NEW data \in Session, MoveTo(t, s), Saves(t, data),
         UNCHANGED <<env, drawn, issued>>,
         \A x \in Attempt : InTab(s, x) => Has(BrowserOf(t), x),
         data.attempt \in Attempt => Has(BrowserOf(t), data.attempt),
         remember' \in [Browser -> Known \cup {None}], authenticated' \in [Browser -> SUBSET User],
         kept' \in [Browser -> Known \cup {None}],
         \A b \in Browser : authenticated[b] \subseteq authenticated'[b],
         StateOK(s, BrowserOf(t), issued, authenticated'),
         data.user \in authenticated'[BrowserOf(t)] \cup {None},
         \A b \in Browser : remember'[b] \in authenticated'[b] \cup {None},
         Remembers'
  PROVE  Inv'
<1>1. \A x \in Attempt : \A b \in Browser : Has(b, x)' => Has(b, x)
  BY HasOnly
<1>2. OneBrowser' /\ KnownAttempts' /\ CodesFit'
  BY <1>1, HasLess
<1>3. drawn' \subseteq Attempt /\ issued' \subseteq Code /\ issued \subseteq issued'
  BY DEF Inv, TypeOK
<1>4. UNCHANGED env /\ StateOK(s, BrowserOf(t), issued', authenticated')
  BY DEF StateOK
<1> QED
  BY <1>2, <1>3, <1>4, OneTab

(* Steps that sign nobody in or out.                                       *)
LEMMA Passing ==
  ASSUME Inv, NEW t \in Tab, NEW s \in TabState, NEW data \in Session, MoveTo(t, s), Saves(t, data),
         UNCHANGED <<env, remember, drawn, issued, history>>,
         \A x \in Attempt : InTab(s, x) => Has(BrowserOf(t), x),
         data.attempt \in Attempt => Has(BrowserOf(t), data.attempt),
         StateOK(s, BrowserOf(t), issued, authenticated),
         data.user \in authenticated[BrowserOf(t)] \cup {None}
  PROVE  Inv'
<1>1. UNCHANGED <<authenticated, kept>>
  BY DEF history
<1>2. /\ remember' \in [Browser -> Known \cup {None}] /\ authenticated' \in [Browser -> SUBSET User]
      /\ kept' \in [Browser -> Known \cup {None}]
      /\ \A b \in Browser : authenticated[b] \subseteq authenticated'[b]
      /\ \A b \in Browser : remember'[b] \in authenticated'[b] \cup {None}
      /\ Remembers'
  BY <1>1 DEF Inv, TypeOK, OwnLogin, Remembers
<1>3. /\ StateOK(s, BrowserOf(t), issued, authenticated')
      /\ data.user \in authenticated'[BrowserOf(t)] \cup {None}
  BY <1>1
<1> QED
  BY <1>2, <1>3, Ordinary

(* A step to a page or a request, with a session that may be saved.        *)
LEMMA Resting ==
  ASSUME Inv, NEW t \in Tab, NEW place \in Page \cup Request, NEW data \in Session, Go(t, place),
         Saves(t, data), UNCHANGED <<env, remember, drawn, issued, history>>,
         data.attempt \in Attempt => Has(BrowserOf(t), data.attempt),
         data.user \in authenticated[BrowserOf(t)] \cup {None}
  PROVE  Inv'
BY Plain, Passing DEF Go

(* And without one.                                                        *)
LEMMA RestingSame ==
  ASSUME Inv, NEW t \in Tab, NEW place \in Page \cup Request, Go(t, place),
         UNCHANGED <<env, session, remember, drawn, issued, history>>
  PROVE  Inv'
<1>1. Saves(t, Fresh)
  BY DEF Saves
<1> QED
  BY <1>1, Sessions, NoAttempt, Resting

-----------------------------------------------------------------------------
(* Nobody has signed in at the start.                                      *)
LEMMA InitInv == Init => Inv
<1> SUFFICES ASSUME Init PROVE Inv
  OBVIOUS
<1>1. [at |-> "form"] \in TabState /\ Fresh \in Session
  BY Plain, Sessions DEF Page
<1>2. TypeOK
  BY <1>1 DEF Init, TypeOK
<1>3. \A x \in Attempt : \A b \in Browser : ~Has(b, x)
  BY NoAttempt, Plain, Sessions DEF Init, Has, Page
<1>4. OneBrowser /\ KnownAttempts /\ CodesFit
  BY <1>3 DEF Init, OneBrowser, KnownAttempts, CodesFit
<1>5. OwnLogin /\ Remembers
  BY Sessions DEF Init, OwnLogin, Remembers
<1>6. \A t \in Tab : StateOK(tab[t], BrowserOf(t), issued, authenticated)
  BY Plain DEF Init, Page
<1> QED
  BY <1>2, <1>4, <1>5, <1>6 DEF Inv

(* The front page sends a tab on.                                          *)
LEMMA RootInv ==
  ASSUME Inv, NEW t \in Tab, Root(t)
  PROVE  Inv'
<1>1. PICK place \in {"inbox", "login"} : Go(t, place)
  BY DEF Root
<1> QED
  BY <1>1, RestingSame DEF Root, Page, Request

(* The middleware sends it on or lets it rest.                             *)
LEMMA RedirectInv ==
  ASSUME Inv, NEW t \in Tab, RedirectLoginToZitadel(t)
  PROVE  Inv'
<1>1. PICK place \in {"root", "form", "start"} : Go(t, place)
  BY DEF RedirectLoginToZitadel, LoginForm
<1> QED
  BY <1>1, RestingSame DEF RedirectLoginToZitadel, Page, Request

(* The start of a login loads the session.                                 *)
LEMMA StartInv ==
  ASSUME Inv, NEW t \in Tab, Start(t)
  PROVE  Inv'
<1> DEFINE b == BrowserOf(t)
           s == [at |-> "discovery", loaded |-> session[b]]
<1>1. UNCHANGED <<env, session, remember, drawn, issued, history>>
  BY DEF Start
<1>2. CASE \E place \in {"root", "local"} : Go(t, place)
  BY <1>1, <1>2, RestingSame DEF Page, Request
<1>3. CASE MoveTo(t, s)
  <2>1. b \in Browser /\ session[b] \in Session
    BY Browsers DEF Inv
  <2>2. s \in TabState
    BY <2>1 DEF TabState
  <2>3. \A x \in Attempt : InTab(s, x) => Has(b, x)
    BY DEF InTab, Has
  <2>4. StateOK(s, b, issued, authenticated)
    BY <2>1 DEF Inv, OwnLogin, StateOK
  <2>5. Saves(t, Fresh)
    BY <1>1 DEF Saves
  <2> HIDE DEF s
  <2> QED
    BY <1>1, <1>3, <2>2, <2>3, <2>4, <2>5, Sessions, NoAttempt, Passing
<1> QED
  BY <1>2, <1>3 DEF Start, Fail

(* A new attempt is put into the session of one browser.                   *)
LEMMA DiscoveredInv ==
  ASSUME Inv, NEW t \in Tab, NEW attempt \in Attempt, Discovered(t, attempt)
  PROVE  Inv'
<1> DEFINE b == BrowserOf(t)
           s == [at |-> "provider", attempt |-> attempt]
           data == [user |-> tab[t].loaded.user, attempt |-> attempt]
<1>1. /\ MoveTo(t, s) /\ Save(t, data) /\ Saves(t, data) /\ UNCHANGED <<env, remember, issued, history>>
      /\ attempt \notin drawn /\ drawn' = drawn \cup {attempt} /\ tab[t].at = "discovery"
  BY DEF Discovered, At, Saves
<1>2. b \in Browser /\ tab[t].loaded \in Session
  BY <1>1, Browsers DEF Inv, Placed
<1>3. s \in TabState /\ data \in Session
  BY <1>2 DEF TabState, Session
<1>4. data.user \in authenticated[b] \cup {None}
  BY <1>1 DEF Inv, StateOK
<1>5. StateOK(s, b, issued, authenticated)
  BY DEF StateOK
<1>6. \A x \in Attempt : InTab(s, x) => x = attempt
  BY DEF InTab
<1>7. data.attempt = attempt
  OBVIOUS
<1> HIDE DEF s, data
<1>8. \A x \in Attempt : \A c \in Browser : Has(c, x)' => Has(c, x) \/ (c = b /\ x = attempt)
  BY <1>1, <1>3, <1>6, <1>7, HasOnly
<1>9. \A c \in Browser : ~Has(c, attempt)
  BY <1>1 DEF Inv, KnownAttempts
<1>10. OneBrowser'
  BY <1>8, <1>9 DEF Inv, OneBrowser
<1>11. KnownAttempts'
  BY <1>1, <1>8 DEF Inv, KnownAttempts
<1>12. CodesFit'
  <2>1. \A code \in issued : code.attempt \in Attempt /\ code.attempt # attempt
    BY <1>1 DEF Inv, TypeOK, Code, KnownAttempts
  <2> QED
    BY <1>1, <1>8, <2>1 DEF Inv, CodesFit, history
<1>13. UNCHANGED <<authenticated, kept>>
  BY <1>1 DEF history
<1>14. /\ remember' \in [Browser -> Known \cup {None}] /\ drawn' \subseteq Attempt
       /\ issued' \subseteq Code /\ issued \subseteq issued'
       /\ authenticated' \in [Browser -> SUBSET User] /\ kept' \in [Browser -> Known \cup {None}]
       /\ \A c \in Browser : authenticated[c] \subseteq authenticated'[c]
       /\ \A c \in Browser : remember'[c] \in authenticated'[c] \cup {None}
       /\ Remembers'
  BY <1>1, <1>13 DEF Inv, TypeOK, OwnLogin, Remembers
<1>15. /\ StateOK(s, b, issued', authenticated') /\ data.user \in authenticated'[b] \cup {None}
       /\ UNCHANGED env
  BY <1>1, <1>4, <1>5, <1>13
<1> QED
  BY <1>1, <1>3, <1>10, <1>11, <1>12, <1>14, <1>15, OneTab

(* A request that writes back the session it has loaded, and fails.        *)
LEMMA FailedInv ==
  ASSUME Inv, NEW t \in Tab, tab[t].at \in {"discovery", "exchange"}, Save(t, tab[t].loaded), Fail(t),
         UNCHANGED <<env, remember, drawn, issued, history>>
  PROVE  Inv'
<1> DEFINE data == tab[t].loaded
<1>1. data \in Session /\ data.user \in authenticated[BrowserOf(t)] \cup {None}
  BY Browsers DEF Inv, Placed, StateOK
<1>2. Has(BrowserOf(t), data.attempt)
  BY DEF Has, InTab
<1>3. Saves(t, data) /\ Go(t, "local")
  BY DEF Saves, Fail
<1> HIDE DEF data
<1> QED
  BY <1>1, <1>2, <1>3, Resting DEF Page, Request

(* A callback goes on only with the attempt of its own session.            *)
LEMMA CallbackInv ==
  ASSUME Inv, NEW t \in Tab, Callback(t)
  PROVE  Inv'
<1> DEFINE b == BrowserOf(t)
           data == session[b]
           code == tab[t].code
           s == [at |-> "exchange", loaded |-> Pulled(data), code |-> code]
<1>1. UNCHANGED <<env, remember, drawn, issued, history>> /\ tab[t].at = "callback"
  BY DEF Callback, At
<1>2. b \in Browser /\ data \in Session /\ code \in Code /\ code \in issued
  BY <1>1, Browsers DEF Inv, Placed, StateOK
<1>3. /\ Pulled(data) \in Session /\ Pulled(data).attempt = None
      /\ Pulled(data).user \in authenticated[b] \cup {None}
  BY <1>2, Sessions DEF Inv, OwnLogin
<1>4. CASE StateMatches(data.attempt, code.attempt) /\ MoveTo(t, s) /\ UNCHANGED session
  <2>1. s \in TabState
    BY <1>2, <1>3 DEF TabState
  <2>2. \A x \in Attempt : ~InTab(s, x)
    BY <1>3, NoAttempt DEF InTab
  <2>3. Has(b, code.attempt)
    BY <1>4 DEF StateMatches, Has
  <2>4. code.user \in authenticated[b]
    BY <1>2, <2>3 DEF Inv, CodesFit
  <2>5. StateOK(s, b, issued, authenticated)
    BY <1>3, <2>4 DEF StateOK
  <2>6. Saves(t, Fresh)
    BY <1>4 DEF Saves
  <2> HIDE DEF s
  <2> QED
    BY <1>1, <1>4, <2>1, <2>2, <2>5, <2>6, Sessions, NoAttempt, Passing
<1>5. CASE Fail(t) /\ Save(t, Pulled(data))
  <2>1. Go(t, "local") /\ Saves(t, Pulled(data))
    BY <1>5 DEF Fail, Saves
  <2> HIDE DEF data
  <2> QED
    BY <1>1, <1>3, <2>1, NoAttempt, Resting DEF Page, Request
<1> QED
  BY <1>4, <1>5 DEF Callback

(* Who is signed in by a code has signed in there.                         *)
LEMMA ExchangedInv ==
  ASSUME Inv, NEW t \in Tab, Exchanged(t)
  PROVE  Inv'
<1> DEFINE b == BrowserOf(t)
           user == tab[t].code.user
           s == [at |-> "root"]
           data == [user |-> user, attempt |-> None]
<1>1. /\ user \in Known /\ Save(t, data) /\ Saves(t, data) /\ remember' = [remember EXCEPT ![b] = user]
      /\ kept' = [kept EXCEPT ![b] = user] /\ MoveTo(t, s)
      /\ UNCHANGED <<env, drawn, issued, authenticated>> /\ tab[t].at = "exchange"
  BY DEF Exchanged, At, Active, Remembered, Go, Saves
<1>2. b \in Browser /\ user \in authenticated[b]
  BY <1>1, Browsers DEF Inv, StateOK
<1>3. data \in Session /\ data.attempt = None /\ data.user = user
  BY <1>1 DEF Session
<1>4. s \in TabState /\ (\A x : ~InTab(s, x)) /\ StateOK(s, b, issued, authenticated')
  BY Plain DEF Request
<1>5. /\ remember' \in [Browser -> Known \cup {None}] /\ authenticated' \in [Browser -> SUBSET User]
      /\ kept' \in [Browser -> Known \cup {None}]
      /\ \A c \in Browser : authenticated[c] \subseteq authenticated'[c]
      /\ \A c \in Browser : remember'[c] \in authenticated'[c] \cup {None}
      /\ Remembers'
  BY <1>1, <1>2 DEF Inv, TypeOK, OwnLogin, Remembers
<1>6. data.user \in authenticated'[b] \cup {None} /\ UNCHANGED <<env, drawn, issued>>
  BY <1>1, <1>2, <1>3
<1> HIDE DEF s, data
<1> QED
  BY <1>1, <1>3, <1>4, <1>5, <1>6, NoAttempt, Ordinary

-----------------------------------------------------------------------------
(* A person opens a page, or any callback there is.                        *)
LEMMA VisitInv ==
  ASSUME Inv, NEW t \in Tab, Visit(t)
  PROVE  Inv'
<1>1. UNCHANGED <<env, session, remember, drawn, issued, history>>
  BY DEF Visit
<1>2. CASE \E place \in {"root", "login", "local", "start"} : Go(t, place)
  BY <1>1, <1>2, RestingSame DEF Request
<1>3. CASE \E code \in issued : MoveTo(t, [at |-> "callback", code |-> code])
  <2>1. PICK code \in issued : MoveTo(t, [at |-> "callback", code |-> code])
    BY <1>3
  <2> DEFINE s == [at |-> "callback", code |-> code]
  <2>2. s \in TabState
    BY DEF Inv, TypeOK, TabState
  <2>3. (\A x : ~InTab(s, x)) /\ StateOK(s, BrowserOf(t), issued, authenticated)
    BY DEF InTab, StateOK
  <2>4. Saves(t, Fresh) /\ MoveTo(t, s)
    BY <1>1, <2>1 DEF Saves
  <2> HIDE DEF s
  <2> QED
    BY <1>1, <2>2, <2>3, <2>4, Sessions, NoAttempt, Passing
<1> QED
  BY <1>2, <1>3 DEF Visit

(* A code is issued for whoever signed in, in the browser the attempt      *)
(* belongs to.                                                             *)
LEMMA SignInInv ==
  ASSUME Inv, NEW t \in Tab, NEW user \in User, SignIn(t, user)
  PROVE  Inv'
<1> DEFINE b == BrowserOf(t)
           code == [attempt |-> tab[t].attempt, user |-> user]
           s == [at |-> "callback", code |-> code]
<1>1. /\ issued' = issued \cup {code} /\ MoveTo(t, s)
      /\ authenticated' = [authenticated EXCEPT ![b] = authenticated[b] \cup {user}]
      /\ UNCHANGED <<env, session, remember, drawn, kept>> /\ tab[t].at = "provider"
  BY DEF SignIn, At
<1>2. b \in Browser /\ tab[t].attempt \in Attempt
  BY <1>1, Browsers DEF Inv, Placed
<1>3. code \in Code /\ code.user = user /\ code.attempt = tab[t].attempt
  BY <1>2 DEF Code
<1>4. s \in TabState /\ (\A x : ~InTab(s, x)) /\ s.at = "callback" /\ s.code = code
  BY <1>3 DEF TabState, InTab
<1>5. Has(b, code.attempt)
  BY <1>1, <1>3 DEF Has, InTab
<1> HIDE DEF code, s
<1>6. Saves(t, Fresh)
  BY <1>1 DEF Saves
<1>7. session' = session
  BY <1>1
<1>8. \A x \in Attempt : \A c \in Browser : Has(c, x)' => Has(c, x)
  BY <1>1, <1>4, <1>6, Sessions, NoAttempt, HasOnly
<1>9. /\ authenticated' \in [Browser -> SUBSET User] /\ user \in authenticated'[b]
      /\ \A c \in Browser : authenticated[c] \subseteq authenticated'[c]
  BY <1>1, <1>2 DEF Inv, TypeOK
<1>10. OneBrowser'
  BY <1>8 DEF Inv, OneBrowser
<1>11. KnownAttempts'
  BY <1>1, <1>2, <1>3, <1>5, <1>8 DEF Inv, KnownAttempts
<1>12. CodesFit'
  <2>1. \A old \in issued : old.attempt \in Attempt
    BY DEF Inv, TypeOK, Code
  <2>2. \A c \in Browser : Has(c, code.attempt) => c = b
    BY <1>2, <1>3, <1>5 DEF Inv, OneBrowser
  <2> QED
    BY <1>1, <1>2, <1>3, <1>8, <1>9, <2>1, <2>2 DEF Inv, CodesFit
<1>13. /\ issued' \subseteq Code /\ issued \subseteq issued' /\ drawn' \subseteq Attempt
       /\ remember' \in [Browser -> Known \cup {None}] /\ kept' \in [Browser -> Known \cup {None}]
       /\ \A c \in Browser : remember'[c] \in authenticated'[c] \cup {None}
       /\ Remembers'
  BY <1>1, <1>3, <1>9 DEF Inv, TypeOK, OwnLogin, Remembers
<1>14. StateOK(s, b, issued', authenticated')
  BY <1>1, <1>4 DEF StateOK
<1>15. UNCHANGED env
  BY <1>1
<1> QED
  BY <1>1, <1>4, <1>6, <1>9, <1>10, <1>11, <1>12, <1>13, <1>14, <1>15, Sessions, OneTab

(* A password login is one of this browser, and may end what was kept.     *)
LEMMA PasswordLoginInv ==
  ASSUME Inv, NEW t \in Tab, NEW user \in Known, PasswordLogin(t, user)
  PROVE  Inv'
<1> DEFINE b == BrowserOf(t)
           s == [at |-> "root"]
           data == [user |-> user, attempt |-> session[b].attempt]
<1>1. /\ Save(t, data) /\ Saves(t, data) /\ MoveTo(t, s) /\ UNCHANGED <<env, drawn, issued>>
      /\ remember' \in {remember, [remember EXCEPT ![b] = user]}
      /\ authenticated' = [authenticated EXCEPT ![b] = authenticated[b] \cup {user}]
      /\ kept' = [kept EXCEPT ![b] = IF kept[b] = user THEN user ELSE None]
  BY DEF PasswordLogin, Go, Saves
<1>2. b \in Browser /\ session[b] \in Session /\ user \in User
  BY Browsers, NoAttempt DEF Inv
<1>3. data \in Session /\ data.attempt = session[b].attempt /\ data.user = user
  BY <1>2 DEF Session
<1>4. s \in TabState /\ (\A x : ~InTab(s, x)) /\ StateOK(s, b, issued, authenticated')
  BY Plain DEF Request
<1>5. Has(b, data.attempt)
  BY <1>3 DEF Has
<1>6. /\ authenticated' \in [Browser -> SUBSET User] /\ user \in authenticated'[b]
      /\ \A c \in Browser : authenticated[c] \subseteq authenticated'[c]
  BY <1>1, <1>2 DEF Inv, TypeOK
<1>7. /\ remember' \in [Browser -> Known \cup {None}]
      /\ \A c \in Browser : remember'[c] \in authenticated'[c] \cup {None}
  BY <1>1, <1>2, <1>6 DEF Inv, TypeOK, OwnLogin
<1>8. kept' \in [Browser -> Known \cup {None}] /\ Remembers'
  BY <1>1, <1>2 DEF Inv, TypeOK, Remembers
<1> HIDE DEF s, data
<1> QED
  BY <1>1, <1>3, <1>4, <1>5, <1>6, <1>7, <1>8, Ordinary

(* A login that is called off signs nobody in.                             *)
LEMMA CancelInv ==
  ASSUME Inv, NEW t \in Tab, Cancel(t) \/ CallbackDenied(t)
  PROVE  Inv'
<1>1. PICK place \in {"denied", "local"} : Go(t, place)
  BY DEF Cancel, CallbackDenied, Fail
<1> QED
  BY <1>1, RestingSame DEF Cancel, CallbackDenied, Request

(* The end of a session, and with a logout of remember-me cookies.         *)
LEMMA SessionInv ==
  ASSUME Inv, NEW b \in Browser, Logout(b) \/ SessionExpires(b)
  PROVE  Inv'
<1>1. session' = [session EXCEPT ![b] = Fresh] /\ UNCHANGED <<env, tab, drawn, issued, authenticated>>
  BY DEF Logout, SessionExpires, history
<1>2. \A x \in Attempt : \A c \in Browser : Has(c, x)' => Has(c, x)
  BY <1>1, Sessions, NoAttempt DEF Inv, TypeOK, Has, InTab, BrowserOf
<1>3. OneBrowser' /\ KnownAttempts' /\ CodesFit'
  BY <1>1, <1>2, HasLess
<1>4. /\ remember' \in [Browser -> Known \cup {None}] /\ kept' \in [Browser -> Known \cup {None}]
      /\ \A c \in Browser : remember'[c] \in {remember[c], None}
      /\ Remembers'
  <2>1. CASE Logout(b)
    <3> DEFINE without(m) == [x \in Browser |-> IF x = b \/ m[x] = CurrentUser(b) THEN None ELSE m[x]]
    <3>1. remember' = without(remember) /\ kept' = without(kept)
      BY <2>1 DEF Logout
    <3> QED
      BY <3>1 DEF Inv, TypeOK, Remembers
  <2>2. CASE SessionExpires(b)
    BY <2>2 DEF SessionExpires, history, Inv, TypeOK, Remembers
  <2> QED
    BY <2>1, <2>2
<1>5. TypeOK'
  BY <1>1, <1>4, Sessions DEF Inv, TypeOK
<1>6. OwnLogin'
  BY <1>1, <1>4, Sessions DEF Inv, TypeOK, OwnLogin
<1>7. \A t \in Tab : StateOK(tab[t], BrowserOf(t), issued, authenticated)'
  BY <1>1 DEF Inv, StateOK, BrowserOf
<1> QED
  BY <1>3, <1>4, <1>5, <1>6, <1>7 DEF Inv

(* Every step keeps the invariant.                                         *)
LEMMA NextInv == Inv /\ [Next]_vars => Inv'
<1> SUFFICES ASSUME Inv, [Next]_vars PROVE Inv'
  OBVIOUS
<1>1. ASSUME NEW t \in Tab, Root(t) PROVE Inv'
  BY <1>1, RootInv
<1>2. ASSUME NEW t \in Tab, RedirectLoginToZitadel(t) PROVE Inv'
  BY <1>2, RedirectInv
<1>3. ASSUME NEW t \in Tab, Start(t) PROVE Inv'
  BY <1>3, StartInv
<1>4. ASSUME NEW t \in Tab, NEW attempt \in Attempt, Discovered(t, attempt) PROVE Inv'
  BY <1>4, DiscoveredInv
<1>5. ASSUME NEW t \in Tab, DiscoveryFails(t) \/ ExchangeFails(t) \/ NoAccount(t) PROVE Inv'
  BY <1>5, FailedInv DEF DiscoveryFails, ExchangeFails, NoAccount, Refused, At
<1>6. ASSUME NEW t \in Tab, Callback(t) PROVE Inv'
  BY <1>6, CallbackInv
<1>7. ASSUME NEW t \in Tab, Cancel(t) \/ CallbackDenied(t) PROVE Inv'
  BY <1>7, CancelInv
<1>8. ASSUME NEW t \in Tab, Exchanged(t) PROVE Inv'
  BY <1>8, ExchangedInv
<1>9. ASSUME NEW t \in Tab, Visit(t) PROVE Inv'
  BY <1>9, VisitInv
<1>10. ASSUME NEW t \in Tab, NEW user \in User, SignIn(t, user) PROVE Inv'
  BY <1>10, SignInInv
<1>11. ASSUME NEW t \in Tab, NEW user \in Known, PasswordLogin(t, user) PROVE Inv'
  BY <1>11, PasswordLoginInv
<1>12. ASSUME NEW b \in Browser, Logout(b) \/ SessionExpires(b) PROVE Inv'
  BY <1>12, SessionInv
<1>13. ASSUME UNCHANGED vars PROVE Inv'
  <2>1. UNCHANGED <<env, tab, session, remember, drawn, issued, authenticated, kept>>
    BY <1>13 DEF vars, history
  <2>2. TypeOK' /\ OwnLogin' /\ Remembers'
    BY <2>1 DEF Inv, TypeOK, OwnLogin, Remembers
  <2>3. \A b \in Browser, x \in Attempt : Has(b, x)' => Has(b, x)
    BY <2>1 DEF Has, InTab, BrowserOf
  <2>4. OneBrowser' /\ KnownAttempts' /\ CodesFit'
    BY <2>1, <2>3, HasLess
  <2>5. \A t \in Tab : StateOK(tab[t], BrowserOf(t), issued, authenticated)'
    BY <2>1 DEF Inv, StateOK, BrowserOf
  <2> QED
    BY <2>2, <2>4, <2>5 DEF Inv
<1> QED
  BY <1>1, <1>2, <1>3, <1>4, <1>5, <1>6, <1>7, <1>8, <1>9, <1>10, <1>11, <1>12, <1>13 DEF Next, Serve

-----------------------------------------------------------------------------
(* The invariant: an attempt belongs to one browser, its codes are for     *)
(* people who signed in there, and the cookie remembers whom it should.    *)
THEOREM Invariance == Spec => []Inv
  BY InitInv, NextInv, PTL DEF Spec

(* The login's variables keep their types.                                 *)
THEOREM Typing == Spec => []TypeOK
<1>1. Inv => TypeOK
  BY DEF Inv
<1> QED
  BY <1>1, Invariance, PTL

(* Nobody is signed in to a browser as somebody who did not sign in there  *)
(* (LoginController.php:58-62).                                            *)
THEOREM Ownership == Spec => []OwnLogin
<1>1. Inv => OwnLogin
  BY DEF Inv
<1> QED
  BY <1>1, Invariance, PTL

(* A login through the provider outlives late requests of other tabs and   *)
(* the end of the session (LoginController.php:79).                        *)
THEOREM Lasting == Spec => []LoginKept
<1>1. Inv => LoginKept
  BY DEF Inv, Remembers, LoginKept, SignedIn, CurrentUser
<1> QED
  BY <1>1, Invariance, PTL
==============================================================================
