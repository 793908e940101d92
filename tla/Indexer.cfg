SPECIFICATION Spec
CONSTANTS
    d1 = d1
    d2 = d2
    A = A
    B = B
    Docs = {d1, d2}
    Contents = {A, B}
    Workers = {w1, w2}
    MaxChunks = 2
    Revisions <- StableTexts
    Deployments <- AllDeployments
    Nothing = Nothing
INVARIANTS
    SeenIsStored
    CountedIsStored
PROPERTIES
    StoredStays
