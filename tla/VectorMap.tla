------------------------------ MODULE VectorMap ------------------------------
(***************************************************************************)
(* What users of a vector store are promised, whichever back end serves    *)
(* them and however many of them share it: there is one map from document  *)
(* ids to entries (a vector with its metadata), upsert and delete change   *)
(* one id of it at once, and a search ranks entries of that map.           *)
(*                                                                         *)
(* Three things a store may do are part of the promise.  A user who has    *)
(* not connected yet is told that the store is empty.  A search may lag    *)
(* behind: it then ranks an earlier value of the map, never one older than *)
(* what was ranked before.  And the search of a server is approximate: it  *)
(* may miss better entries, but ranks those it finds.  A call that raises  *)
(* may or may not have been carried out.                                   *)
(***************************************************************************)
EXTENDS Naturals, Sequences, FiniteSets

CONSTANTS Users,       \* callers of the store
          Ids,         \* doc_id
          Entries,     \* a vector with its metadata
          Sim,         \* similarity of each entry to the query
          MaxK,        \* bound of top_k
          None, Raised
VARIABLES map,      \* the entry of each id, or None
          shown,    \* the map that searches rank
          traits,   \* what kind of store it is
          met,      \* users that have connected
          answer    \* the call that has just ended, and with what, or None

vars == <<map, shown, traits, met, answer>>

(* lagging: may a search lag behind?  sharp: is a deletion one step, or    *)
(* does it look first and act then?  inside: does the store live in the    *)
(* process of its users, and search by brute force?                        *)
Traits == [lagging : BOOLEAN, sharp : BOOLEAN, inside : BOOLEAN]

Stored(m) == {i \in Ids : m[i] # None}

(* n of the entries of m in order: no entry twice, the most similar first, *)
(* with ties in any order.                                                 *)
Selections(m, n) ==
    {r \in [1..n -> Stored(m)] :
        \A a, b \in 1..n : a < b => /\ r[a] # r[b]
                                   /\ Sim[m[r[a]]] >= Sim[m[r[b]]]}

(* A ranking of the k best: as many as there are, and nothing left out     *)
(* that is more similar than a member.                                     *)
Rankings(m, k) ==
    LET n == IF k < Cardinality(Stored(m)) THEN k ELSE Cardinality(Stored(m))
    IN  {r \in Selections(m, n) :
            \A i \in Stored(m) :
               (\A a \in 1..n : r[a] # i) => \A a \in 1..n : Sim[m[i]] <= Sim[m[r[a]]]}

(* A hit carries the entry that gave its score and the one that gave its   *)
(* metadata, which are the same one.                                       *)
Hits(m, r) == [a \in DOMAIN r |-> [id |-> r[a], scored |-> m[r[a]], meta |-> m[r[a]]]]

Ends(u, op, result) == answer' = <<u, op, result>>

Init == /\ map = [i \in Ids |-> None]
        /\ shown = map
        /\ traits \in Traits
        /\ met = IF traits.inside THEN Users ELSE {}
        /\ answer = None

Changes(i, e) == /\ map' = [map EXCEPT ![i] = e]
                 /\ shown' \in (IF traits.lagging THEN {shown, map'} ELSE {map'})
                 /\ UNCHANGED <<traits, met>>

Upsert(u, i, e) == /\ u \in met
                   /\ Changes(i, e)
                   /\ \/ Ends(u, "upsert", "done")
                      \/ ~traits.inside /\ Ends(u, "upsert", Raised)

(* delete tells whether it removed something; where it looks first, the    *)
(* entry it saw may have been removed by another user in between.          *)
Delete(u, i) == /\ u \in met
                /\ traits.sharp => map[i] # None
                /\ Changes(i, None)
                /\ \/ Ends(u, "delete", TRUE)
                   \/ ~traits.inside /\ Ends(u, "delete", Raised)

DeleteMisses(u, i) == /\ u \in met => map[i] = None
                      /\ Ends(u, "delete", FALSE)
                      /\ UNCHANGED <<map, shown, traits, met>>

(* At most k hits: the best there are, or those the server finds.          *)
Search(u, k) == /\ \/ /\ u \in met
                      /\ \E r \in (IF traits.inside THEN Rankings(shown, k)
                                    ELSE UNION {Selections(shown, n) : n \in 0..k}) :
                           Ends(u, "search", Hits(shown, r))
                   \/ u \notin met /\ Ends(u, "search", <<>>)
                /\ UNCHANGED <<map, shown, traits, met>>

Contains(u, i) == /\ Ends(u, "contains", u \in met /\ map[i] # None)
                  /\ UNCHANGED <<map, shown, traits, met>>

Size(u) == /\ Ends(u, "len", IF u \in met THEN Cardinality(Stored(shown)) ELSE 0)
           /\ UNCHANGED <<map, shown, traits, met>>

(* Without a server, only an upsert of an unfit vector may raise.          *)
Raise(u, op) == /\ traits.inside => op = "upsert"
                /\ Ends(u, op, Raised)
                /\ UNCHANGED <<map, shown, traits, met>>

Meet(u) == /\ met' = met \cup {u}
           /\ answer' = None \/ Ends(u, "ensure", "done")
           /\ UNCHANGED <<map, shown, traits>>

(* A user starts afresh, and the store with it if that is where it lives.  *)
Leave(u) == /\ IF traits.inside
               THEN map' = [i \in Ids |-> None] /\ shown' = map' /\ met' = met
               ELSE map' = map /\ shown' = shown /\ met' = met \ {u}
            /\ answer' = None
            /\ UNCHANGED traits

CatchUp == /\ traits.lagging
           /\ shown' = map
           /\ UNCHANGED <<map, traits, met, answer>>

NextCall == answer' = None /\ UNCHANGED <<map, shown, traits, met>>

Next == \/ CatchUp \/ NextCall
        \/ \E u \in Users :
             \/ Meet(u) \/ Leave(u) \/ Size(u)
             \/ \E op \in {"ensure", "upsert", "delete", "search", "contains", "len"} :
                  Raise(u, op)
             \/ \E i \in Ids : \/ Delete(u, i) \/ DeleteMisses(u, i) \/ Contains(u, i)
                               \/ \E e \in Entries : Upsert(u, i, e)
             \/ \E k \in 1..MaxK : Search(u, k)

Spec == Init /\ [][Next]_vars
=============================================================================
