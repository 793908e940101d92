------------------------------ MODULE MCIndexer ------------------------------
(* Texts of the documents that the runs index.                             *)
EXTENDS Indexer

CONSTANTS d1, d2, A, B

(* Two documents that never change, one of two chunks and one of a single  *)
(* chunk that both contain.                                                *)
StableTexts == {[doc |-> d1, chunk |-> <<A, B>>],
                [doc |-> d2, chunk |-> <<B, Nothing>>]}

(* One document that is revised, and may be reverted.                      *)
RevisedTexts == {[doc |-> d1, chunk |-> <<A>>],
                 [doc |-> d1, chunk |-> <<B>>]}

(* Either store may be in memory, or both; or neither is.                  *)
AllDeployments == SUBSET {"hashes", "vectors"}
Durable == {{"hashes", "vectors"}}
=============================================================================
