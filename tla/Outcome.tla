------------------------------- MODULE Outcome -------------------------------
(***************************************************************************)
(* What a caller of the connector may rely on, whichever front end it      *)
(* uses: what it is told about a call, against what FreeScout does for it. *)
(* FreeScout may go on with a call whose caller was told that it failed;   *)
(* it never does anything for a call that was refused.  What went well may *)
(* be short of files FreeScout could not store.                            *)
(***************************************************************************)

CONSTANT Call

VARIABLES
  done,   \* "none", "part" or "all" of what the call asks for, or
          \* "short": all but some of its files
  told    \* "nothing" yet, "ok", "refused", or "failed", which says no more

vars == <<done, told>>

Init ==
  /\ done = [c \in Call |-> "none"]
  /\ told = [c \in Call |-> "nothing"]

Complete == {"short", "all"}

(* Some operations are done in parts; what is complete is not touched.     *)
Do(c) ==
  /\ told[c] \in {"nothing", "failed"}
  /\ done[c] \notin Complete
  /\ \E more \in {"part"} \cup Complete : done' = [done EXCEPT ![c] = more]
  /\ UNCHANGED told

Tell(c, answer) ==
  /\ told[c] = "nothing"
  /\ answer = "ok" => done[c] \in Complete
  /\ answer = "refused" => done[c] = "none"
  /\ told' = [told EXCEPT ![c] = answer]
  /\ UNCHANGED done

(* A restart leaves every caller who still waits without an answer.        *)
Hang(some) ==
  /\ told' = [c \in Call |-> IF c \in some /\ told[c] = "nothing" THEN "failed" ELSE told[c]]
  /\ UNCHANGED done

Next ==
  \/ \E c \in Call : Do(c) \/ \E answer \in {"ok", "refused", "failed"} : Tell(c, answer)
  \/ \E some \in SUBSET Call : Hang(some)

Spec == Init /\ [][Next]_vars
==============================================================================
