CONSTANTS
    u1 = u1
    u2 = u2
    Users = {u1, u2}
    Pushes = {p1}
    Plans <- AllPlans
SPECIFICATION FairSpec
INVARIANTS
    TypeOK
    ActiveIsSelected
    ResumesOnlyWhenOn
    UnloadLeavesNothing
PROPERTIES
    RetriesOnObservation
    SettlesIntoIntent
    CallsEnd
