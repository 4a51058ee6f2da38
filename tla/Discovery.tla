------------------------------ MODULE Discovery ------------------------------
(***************************************************************************)
(* ensureOIDC (src/server/oidc.go): the first login asks the identity      *)
(* provider where its endpoints are, holding a lock for as long as that    *)
(* takes; the others wait behind it and find the answer, or ask in turn.   *)
(* A waiting goroutine gets a Go mutex in the order of arrival (a newcomer *)
(* can be faster only within the first millisecond).                       *)
(***************************************************************************)
EXTENDS Sequences, Functions

CONSTANT Login   \* one id per call of ensureOIDC

VARIABLES
  queue,      \* who wants the lock; the first one holds it
  asking,     \* the holder's request to the provider is under way
  provider,   \* the endpoints are known
  login       \* what has become of each call

vars == <<queue, asking, provider, login>>

Init ==
  /\ queue = <<>>
  /\ asking = FALSE
  /\ provider = FALSE
  /\ login = [l \in Login |-> "idle"]

Enter(l) ==
  /\ login[l] = "idle"
  /\ login' = [login EXCEPT ![l] = "waiting"]
  /\ queue' = Append(queue, l)
  /\ UNCHANGED <<asking, provider>>

Leave_Locked(l, result) ==                 \* mutant: an error path keeps the lock
  /\ login' = [login EXCEPT ![l] = result]
  /\ queue' = IF result = "failed" THEN queue ELSE Tail(queue)
  /\ asking' = FALSE

Leave(l, result) ==
  /\ login' = [login EXCEPT ![l] = result]
  /\ queue' = Tail(queue)
  /\ asking' = FALSE

Holds(l) == queue # <<>> /\ Head(queue) = l /\ login[l] = "waiting"

FindsKnown(l) ==
  /\ Holds(l) /\ ~asking
  /\ provider
  /\ Leave(l, "known")
  /\ UNCHANGED provider

Asks(l) ==
  /\ Holds(l) /\ ~asking
  /\ ~provider
  /\ asking' = TRUE
  /\ UNCHANGED <<queue, provider, login>>

(* The answer is there, is of no use, or does not come within 20 seconds.  *)
Learns(l) ==
  /\ Holds(l) /\ asking
  /\ \/ provider' = TRUE /\ Leave(l, "known")
     \/ UNCHANGED provider /\ Leave(l, "failed")

Restart ==
  /\ queue' = <<>>
  /\ asking' = FALSE
  /\ provider' = FALSE
  /\ login' = [l \in Login |-> IF login[l] = "waiting" THEN "lost" ELSE login[l]]

Proceeds(l) == FindsKnown(l) \/ Asks(l) \/ Learns(l)

Steps == \E l \in Login : Enter(l) \/ FindsKnown(l) \/ Asks(l) \/ Learns(l)

Next == Steps \/ Restart

Fairness == \A l \in Login : WF_vars(Proceeds(l))

Spec == Init /\ [][Next]_vars /\ Fairness

-----------------------------------------------------------------------------
(* Every variable has its type; no login waits twice.                      *)
TypeOK ==
  /\ queue \in Seq(Login) /\ IsInjective(queue)
  /\ asking \in BOOLEAN /\ provider \in BOOLEAN
  /\ login \in [Login -> {"idle", "waiting", "known", "failed", "lost"}]

(* Nobody waits for ever behind the lock, however many logins fail before. *)
LoginAnswered == \A l \in Login : login[l] = "waiting" ~> login[l] # "waiting"
=============================================================================
