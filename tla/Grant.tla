-------------------------------- MODULE Grant --------------------------------
(***************************************************************************)
(* What the connector's OAuth server promises, without its clocks, maps,   *)
(* cookies and HTTP calls: an authorization request is asked for once,     *)
(* identified with a user, granted at most once, and redeemed at most once *)
(* by the client that asked for it.  Only a redemption opens a session for *)
(* a user and a client, and a request that is over never comes back.       *)
(***************************************************************************)
CONSTANTS AuthzId, User, Client, None

VARIABLES
  grant,     \* grant[id]: the stage of authorization request id
  sessions   \* the <<user, client>> pairs that hold tokens

vars == <<grant, sessions>>

Stage(stage, user, client) == [stage |-> stage, user |-> user, client |-> client]
Unused == Stage("unused", None, None)
Over   == Stage("over", None, None)
Open(g) == g.stage \in {"asked", "granted"}

Init ==
  /\ grant = [id \in AuthzId |-> Unused]
  /\ sessions = {}

(* Requests and codes may be dropped at any time, several at once. *)
Dropped(gone) == [id \in AuthzId |-> IF id \in gone THEN Over ELSE grant[id]]

Droppable(gone) == \A id \in gone : Open(grant[id])

Ask(id, client, gone) ==
  /\ grant[id] = Unused
  /\ Droppable(gone)
  /\ grant' = [Dropped(gone) EXCEPT ![id] = Stage("asked", None, client)]
  /\ UNCHANGED sessions

Identify(id, user) ==
  /\ grant[id].stage = "asked"
  /\ grant' = [grant EXCEPT ![id].user = user]
  /\ UNCHANGED sessions

Approve(id) ==
  /\ grant[id].stage = "asked"
  /\ grant[id].user # None
  /\ grant' = [grant EXCEPT ![id].stage = "granted"]
  /\ UNCHANGED sessions

Redeem(id) ==
  /\ grant[id].stage = "granted"
  /\ grant' = [grant EXCEPT ![id].stage = "redeemed"]
  /\ sessions' = sessions \cup {<<grant[id].user, grant[id].client>>}

Lapse(gone) ==
  /\ Droppable(gone)
  /\ grant' = Dropped(gone)
  /\ UNCHANGED sessions

Next ==
  \/ \E id \in AuthzId :
       \/ \E client \in Client, gone \in SUBSET AuthzId : Ask(id, client, gone)
       \/ \E user \in User : Identify(id, user)
       \/ Approve(id)
       \/ Redeem(id)
  \/ \E gone \in SUBSET AuthzId : Lapse(gone)

Spec == Init /\ [][Next]_vars
==============================================================================
