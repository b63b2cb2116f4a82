\* Command, poll, recovery and close of one purifier over two connections.
CONSTANTS
    A = A
    B = B
    cmdA = cmdA
    pollA = pollA
    cmdB = cmdB
    recA = recA
    NoTask = NoTask
    NoClient = NoClient
    NoActor = NoActor
    Transactions = {cmdA, pollA}
    Recoveries = {recA}
    Clients = {A}
    ClientOf <- MCClientOf
    PriorityOf <- MCPriorityOf
    MaxPriorityCommandBurst = 3
    MaxConnections = 2
    EagerTasks = TRUE
SPECIFICATION FairSpec
INVARIANTS
    TypeOK
    ExchangeIntact
    AttachNeverRefused
PROPERTIES
    EverythingEnds
