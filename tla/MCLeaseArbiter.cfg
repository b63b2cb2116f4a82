\* Five tasks of two clients: safety, the abstract lease, and no starvation.
SPECIFICATION FairSpec
CONSTANTS
  clientA = clientA
  clientB = clientB
  cmdA = cmdA
  cmdA2 = cmdA2
  cmdB = cmdB
  pollA = pollA
  pollB = pollB
  NoTask = NoTask
  NoClient = NoClient
  Tasks <- MCTasks
  Clients <- MCClients
  ClientOf <- MCClientOf
  PriorityOf <- MCPriorityOf
  MaxPriorityCommandBurst = 3
INVARIANTS
  TypeOK
  LeaseAccounting
  NobodyLeftBehind
  QueuesExact
  OwnerIsLessee
PROPERTIES
  ImplementsPriorityLease
  EveryWaiterServed
