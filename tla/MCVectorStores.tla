--------------------------- MODULE MCVectorStores ---------------------------
(* Vectors of two lengths, one with two similarities to the query.         *)
EXTENDS VectorStores, TLC

CONSTANTS near, far, other

VectorDim == (near :> 2) @@ (far :> 2) @@ (other :> 3)
VectorSim == (near :> 2) @@ (far :> 1) @@ (other :> 1)

(* Nothing tells one id, or one user, from another.                        *)
Symmetry == Permutations(Ids) \cup Permutations(Users)
=============================================================================
