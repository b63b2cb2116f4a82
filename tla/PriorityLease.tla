---------------------------- MODULE PriorityLease ----------------------------
(***************************************************************************)
(* What the integration-wide Bluetooth lease promises its users, without   *)
(* saying how the waiters are queued:                                      *)
(*                                                                         *)
(*   - at most one task has the lease, and a lease that is given back goes *)
(*     straight to a waiter if there is one;                               *)
(*   - commands may overtake polls, but every waiting poll has a budget,   *)
(*     fixed when it starts to wait by the number of polls already         *)
(*     waiting; each command served ahead of it costs it at least one, so  *)
(*     it is overtaken at most Burst * (polls ahead + 1) times.            *)
(*                                                                         *)
(* Module LeaseArbiter is shown to implement this.                         *)
(***************************************************************************)
EXTENDS Naturals, FiniteSets

CONSTANTS Tasks,   \* everything that can ask for the lease
          Polls,   \* the tasks that ask with poll priority
          Burst,   \* commands that may run ahead of the first waiting poll
          NoTask

VARIABLES lessee,  \* the task that has the lease, or NoTask
          waiting, \* the tasks that asked for it and have not got it
          budget   \* commands that may still overtake a waiting poll

vars == <<lessee, waiting, budget>>

TypeOK ==
    /\ lessee \in Tasks \cup {NoTask}
    /\ waiting \subseteq Tasks
    /\ budget \in [Tasks -> Nat]

Init ==
    /\ lessee = NoTask
    /\ waiting = {}
    /\ budget = [t \in Tasks |-> 0]

\* No budget of a poll in S grows.
Spend(S) ==
    /\ budget' \in [Tasks -> Nat]
    /\ \A p \in S \cap Polls : budget'[p] <= budget[p]

Take(t) ==
    /\ lessee = NoTask
    /\ waiting = {}
    /\ lessee' = t
    /\ UNCHANGED waiting
    /\ Spend({})

Wait(t) ==
    /\ lessee \notin {NoTask, t}
    /\ t \notin waiting
    /\ waiting' = waiting \cup {t}
    /\ Spend(waiting)
    /\ t \in Polls =>
         budget'[t] <= Burst * (Cardinality(waiting \cap Polls) + 1)
    /\ UNCHANGED lessee

Abandon(t) ==
    /\ t \in waiting
    /\ waiting' = waiting \ {t}
    /\ Spend(waiting')
    /\ UNCHANGED lessee

HandOver(t) ==
    /\ lessee # NoTask
    /\ t \in waiting
    /\ lessee' = t
    /\ waiting' = waiting \ {t}
    /\ Spend(waiting')
    /\ t \notin Polls => \A p \in waiting' \cap Polls : budget'[p] < budget[p]

Free ==
    /\ lessee # NoTask
    /\ waiting = {}
    /\ lessee' = NoTask
    /\ UNCHANGED waiting
    /\ Spend({})

Next ==
    \/ Free
    \/ \E t \in Tasks : Take(t) \/ Wait(t) \/ Abandon(t) \/ HandOver(t)

Spec == Init /\ [][Next]_vars

==============================================================================
