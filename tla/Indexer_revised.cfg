SPECIFICATION Spec
CONSTANTS
    d1 = d1
    d2 = d2
    A = A
    B = B
    Docs = {d1}
    Contents = {A, B}
    Workers = {w1}
    MaxChunks = 1
    Revisions <- RevisedTexts
    Deployments <- Durable
    Nothing = Nothing
INVARIANTS
    UpdateReplacesInPlace
