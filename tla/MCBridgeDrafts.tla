---------------------------- MODULE MCBridgeDrafts ----------------------------
(* Model checking of BridgeDrafts on small instances.                      *)
EXTENDS BridgeDrafts, TLC

Symmetry ==
  Permutations(Thread) \cup Permutations(Request) \cup Permutations(User)
    \cup Permutations(Body)
==============================================================================
