\* Two purifiers, a listener recovery of one of them: safety.
CONSTANTS
    A = A
    B = B
    cmdA = cmdA
    pollA = pollA
    cmdB = cmdB
    recA = recA
    NoTask = NoTask
    NoClient = NoClient
    NoActor = NoActor
    Transactions = {cmdA, cmdB}
    Recoveries = {recA}
    Clients = {A, B}
    ClientOf <- MCClientOf
    PriorityOf <- MCPriorityOf
    MaxPriorityCommandBurst = 3
    MaxConnections = 1
    EagerTasks = TRUE
SPECIFICATION Spec
INVARIANTS
    WorkSerialized
    CloseLeavesNothing
PROPERTIES
    ImplementsArbiter
