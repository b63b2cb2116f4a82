\* Counterexample: an idle timer that fires without any effect.
CONSTANTS
    A = A
    B = B
    cmdA = cmdA
    pollA = pollA
    cmdB = cmdB
    recA = recA
    NoTask = NoTask
    NoClient = NoClient
    NoActor = NoActor
    Transactions = {cmdA}
    Recoveries = {}
    Clients = {A}
    ClientOf <- MCClientOf
    PriorityOf <- MCPriorityOf
    MaxPriorityCommandBurst = 3
    MaxConnections = 2
    EagerTasks = TRUE
SPECIFICATION Spec
INVARIANTS
    IdleTimerDisconnects
