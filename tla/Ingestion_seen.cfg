SPECIFICATION Spec
CONSTANTS
    A = A
    B = B
    Empty = Empty
    Runs = {r1, r2}
    Contents = {A, B, Empty}
    Feed <- RepeatingFeed
    NumChunks <- ChunkCounts
    DedupDurable = TRUE
INVARIANTS
    SeenIsUpserted
