------------------------------ MODULE FreshMap ------------------------------
(***************************************************************************)
(* What a cache with a time-to-live promises its readers, whatever it      *)
(* keeps and evicts: a hit is the value last put for that key, put since   *)
(* the last clear and no longer than TTL ago.  Misses are always allowed   *)
(* and are not visible here.  CompletionCache.tla implements this module.  *)
(***************************************************************************)
EXTENDS Naturals

CONSTANTS Keys, Responses,
          TTL,      \* time-to-live of an entry
          Nothing   \* no entry, or nothing served

VARIABLES now,      \* the monotonic clock
          latest,   \* the last put of each key since the last clear
          served    \* the hit that the last answered lookup returned

vars == <<now, latest, served>>

Init == /\ now = 0
        /\ latest = [k \in Keys |-> Nothing]
        /\ served = Nothing

Put(k, r) == /\ latest' = [latest EXCEPT ![k] = [resp |-> r, exp |-> now + TTL]]
             /\ served' \in {served, Nothing}
             /\ UNCHANGED now

Serve(k) == /\ latest[k] # Nothing
            /\ now <= latest[k].exp
            /\ served' = [key |-> k, resp |-> latest[k].resp]
            /\ UNCHANGED <<now, latest>>

Clear == /\ latest' = [k \in Keys |-> Nothing]
         /\ UNCHANGED <<now, served>>

Tick == now' = now + 1 /\ UNCHANGED <<latest, served>>

Next == \/ \E k \in Keys : Serve(k) \/ \E r \in Responses : Put(k, r)
        \/ Clear
        \/ Tick

Spec == Init /\ [][Next]_vars
=============================================================================
