------------------------- MODULE MCCompletionCache -------------------------
(* More keys than room and two clients: no key and no client is special.   *)
EXTENDS CompletionCache

Symmetry == Permutations(Keys) \cup Permutations(Clients)
=============================================================================
