SPECIFICATION Spec
CONSTANTS
    m1 = m1
    m2 = m2
    Marks = {"pattern", "secret", "topic"}
    Unset = Unset
    Absent = Absent
    Malformed = Malformed
    Clients = {r1}
    Job = job
    Parts = {p1, p2}
    Apps <- SomeApps
    Prompts <- SomePrompts
    Queries <- SomeQueries
    Models <- TwoModels
    Usage <- SomeUsage
    MaxMeddling = 2
    NoSpan = NoSpan
    Nothing = Nothing
SYMMETRY Symmetry
INVARIANTS
    ResponsesAreJustified
    AnswersAreGrounded
    TracesAreTrees
    CountersAddUp
