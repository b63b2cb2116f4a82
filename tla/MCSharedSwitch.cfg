\* Two purifiers that take the connection from each other: liveness.
CONSTANTS
    A = A
    B = B
    cmdA = cmdA
    pollA = pollA
    cmdB = cmdB
    recA = recA
    NoTask = NoTask
    NoClient = NoClient
    NoActor = NoActor
    Transactions = {cmdA, cmdB}
    Recoveries = {}
    Clients = {A, B}
    ClientOf <- MCClientOf
    PriorityOf <- MCPriorityOf
    MaxPriorityCommandBurst = 3
    MaxConnections = 1
    EagerTasks = TRUE
SPECIFICATION FairSpec
PROPERTIES
    EverythingEnds
