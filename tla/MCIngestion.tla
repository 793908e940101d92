----------------------------- MODULE MCIngestion -----------------------------
(* A feed that repeats a content, one of two chunks, one of none.          *)
EXTENDS Ingestion

CONSTANTS A, B, Empty

RepeatingFeed == <<A, B, A, Empty>>

ChunkCounts == [c \in {A, B, Empty} |-> CASE c = A -> 2 [] c = B -> 1 [] OTHER -> 0]
=============================================================================
