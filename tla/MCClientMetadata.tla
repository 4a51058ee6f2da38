-------------------------- MODULE MCClientMetadata ---------------------------
(* Model checking of ClientMetadata: the headers a host may send.          *)
EXTENDS ClientMetadata, TLC

(* Nothing, no-store, no-store overridden, an excessive and a negative     *)
(* max-age.                                                                *)
MCCacheControl == {<<>>, <<NoStore>>, <<NoStore, MaxTTL>>, <<MaxTTL + 5>>, <<-1>>}

Symmetry == Permutations(Handler) \cup Permutations(Client)
==============================================================================
