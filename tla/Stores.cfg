SPECIFICATION Spec
CONSTANTS
    near = near
    far = far
    other = other
    Users = {u1, u2}
    Ids = {i1, i2}
    Entries = {near, far, other}
    Dim <- VectorDim
    Sim <- VectorSim
    MaxK = 2
    None = None
    Raised = Raised
SYMMETRY Symmetry
INVARIANTS
    ReadyMeansCollection
PROPERTIES
    MapSpec
