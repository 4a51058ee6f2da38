---------------------------- MODULE MCOAuthServer ----------------------------
(* Model checking of OAuthServer on small instances; the sets come from    *)
(* the .cfg of each run.                                                   *)
EXTENDS OAuthServer, TLC

Symmetry ==
  Permutations(AuthzId) \cup Permutations(CodeId) \cup Permutations(Handler)
    \cup Permutations(User) \cup Permutations(Client)
    \cup Permutations(Redirect) \cup Permutations(Verifier)
==============================================================================
