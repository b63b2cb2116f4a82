CONSTANTS
    c1 = c1
    c2 = c2
    Commands = {c1, c2}
    Plans <- AllPlans
SPECIFICATION FairSpec
INVARIANTS
    TypeOK
    ModeRemembered
    NewestWins
PROPERTIES
    PollsNeverGoBack
    QuietAfterShutdown
    CatchesUp
