---------------------------- MODULE MCLeaseArbiter ----------------------------
(* Two purifiers; three commands and two polls compete for the lease.  Two     *)
(* commands that keep coming back are enough to spend the burst of three, the  *)
(* third fills the queue behind them; two polls show the second one's wait.    *)
EXTENDS LeaseArbiter

CONSTANTS clientA, clientB, cmdA, cmdA2, cmdB, pollA, pollB

MCTasks == {cmdA, cmdA2, cmdB, pollA, pollB}
MCClients == {clientA, clientB}
MCClientOf == [t \in MCTasks |-> IF t \in {cmdB, pollB} THEN clientB ELSE clientA]
MCPriorityOf == [t \in MCTasks |-> IF t \in {pollA, pollB} THEN "poll" ELSE "command"]

==============================================================================
