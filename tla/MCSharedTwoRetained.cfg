\* Counterexample: two purifiers with a retained connection.
CONSTANTS
    A = A
    B = B
    cmdA = cmdA
    pollA = pollA
    cmdB = cmdB
    recA = recA
    NoTask = NoTask
    NoClient = NoClient
    NoActor = NoActor
    Transactions = {cmdA, cmdB}
    Recoveries = {}
    Clients = {A, B}
    ClientOf <- MCClientOf
    PriorityOf <- MCPriorityOf
    MaxPriorityCommandBurst = 3
    MaxConnections = 2
    EagerTasks = TRUE
SPECIFICATION Spec
INVARIANTS
    OneRetained
