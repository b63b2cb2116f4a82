CONSTANTS
    c1 = c1
    c2 = c2
    Calls = {c1, c2}
    MaxLinks = 4
    Plans <- AllPlans
SPECIFICATION FairSpec
INVARIANTS
    TypeOK
    FailedIsForgotten
    ReplaysOnlyReads
    LinksAccounted
PROPERTIES
    Recovers
