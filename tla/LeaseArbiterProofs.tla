-------------------------- MODULE LeaseArbiterProofs --------------------------
(***************************************************************************)
(* The safety of the lease for any number of purifiers, calls and for any  *)
(* burst.  None of the invariants is inductive alone: that the waiter a    *)
(* release picks is still waiting needs QueuesExact, that nobody else has  *)
(* the lease needs LeaseAccounting, and QueuesExact in turn needs both.    *)
(* IInv is their conjunction, and what the refinement of PriorityLease     *)
(* rests on: the two queues and the counter are one order of service.      *)
(***************************************************************************)
EXTENDS LeaseArbiter, QueueLemmas

IInv ==
    /\ TypeOK
    /\ LeaseAccounting
    /\ NobodyLeftBehind
    /\ QueuesExact
    /\ OwnerIsLessee

\* Whoever a lease that is given back goes to is still waiting for it.
LEMMA NextWaiterWaits ==
    ASSUME IInv, NextWaiter # NoTask
    PROVE  NextWaiter \in Tasks /\ phase[NextWaiter] = "queued"
<1> USE LeaseAssumption
<1>1. /\ IsQueueOf(commandWaiters, Tasks)
      /\ IsQueueOf(pollWaiters, Tasks)
      /\ ToSet(commandWaiters) = Waiters("command")
      /\ ToSet(pollWaiters) = Waiters("poll")
  BY DEF IInv, TypeOK, QueuesExact, Holds, IsQueueOf
<1>2. CASE ServeCommand
  <2>1. NextWaiter = Head(commandWaiters) /\ commandWaiters # <<>>
    BY <1>2 DEF NextWaiter, ServeCommand
  <2>2. QED BY <1>1, <2>1, TailOfQueue DEF Waiters
<1>3. CASE ~ServeCommand
  <2>1. NextWaiter = Head(pollWaiters) /\ pollWaiters # <<>>
    BY <1>3 DEF NextWaiter
  <2>2. QED BY <1>1, <2>1, TailOfQueue DEF Waiters
<1>4. QED BY <1>2, <1>3

\* Giving the lease back keeps the invariant: it goes to exactly one task that
\* still waits, or is free when nobody waits.
LEMMA GiveBackKeepsInv ==
    ASSUME IInv, NEW t \in Tasks, phase[t] \in LeasePhases,
           GiveBack(t), UNCHANGED owner
    PROVE  IInv'
<1> USE LeaseAssumption
<1>1. /\ phase \in [Tasks -> Phases]
      /\ IsQueueOf(commandWaiters, Tasks)
      /\ IsQueueOf(pollWaiters, Tasks)
      /\ ToSet(commandWaiters) = Waiters("command")
      /\ ToSet(pollWaiters) = Waiters("poll")
      /\ consecutivePriorityCommands \in 0..MaxPriorityCommandBurst
      /\ owner \in Clients \cup {NoClient}
  BY DEF IInv, TypeOK, QueuesExact, Holds, IsQueueOf
<1>2. /\ \A u \in Tasks : phase[u] \in LeasePhases => u = t
      /\ phase[t] # "queued"
  BY DEF IInv, LeaseAccounting, Lessees, LeasePhases
<1>3. /\ phase' = [u \in Tasks |-> IF u = t THEN "idle"
                                   ELSE IF u = NextWaiter THEN "granted"
                                   ELSE phase[u]]
      /\ leaseHeld' = (NextWaiter # NoTask)
      /\ owner' = owner
  BY DEF GiveBack
<1>4. consecutivePriorityCommands' \in 0..MaxPriorityCommandBurst
  <2>1. consecutivePriorityCommands' = NextBurst
    BY DEF GiveBack
  <2>2. CASE BothWait /\ ~BurstSpent
    BY <2>1, <2>2, <1>1 DEF NextBurst, BurstSpent
  <2>3. CASE ~(BothWait /\ ~BurstSpent)
    BY <2>1, <2>3 DEF NextBurst
  <2>4. QED BY <2>2, <2>3
<1>5. /\ phase' \in [Tasks -> Phases]
      /\ leaseHeld' \in BOOLEAN
      /\ owner' \in Clients \cup {NoClient}
  BY <1>1, <1>3 DEF Phases
<1>6. \A u \in Tasks : phase'[u] # "holding"
  BY <1>1, <1>2, <1>3 DEF LeasePhases
<1>7. OwnerIsLessee'
  BY <1>6 DEF OwnerIsLessee
<1>8. CASE ServeCommand
  <2> DEFINE next == Head(commandWaiters)
  <2>1. /\ commandWaiters # <<>>
        /\ NextWaiter = next
        /\ commandWaiters' = Tail(commandWaiters)
        /\ pollWaiters' = pollWaiters
    BY <1>8 DEF ServeCommand, NextWaiter, GiveBack
  <2>2. /\ IsQueueOf(commandWaiters', Tasks)
        /\ ToSet(commandWaiters') = Waiters("command") \ {next}
        /\ next \in Waiters("command")
    BY <1>1, <2>1, TailOfQueue
  <2> HIDE DEF next
  <2>3. next \in Tasks /\ phase[next] = "queued" /\ PriorityOf[next] = "command"
    BY <2>2 DEF Waiters
  <2>4. next # t /\ next # NoTask
    BY <2>3, <1>2
  <2>5. \A u \in Tasks : phase'[u] = IF u = t THEN "idle"
                                     ELSE IF u = next THEN "granted" ELSE phase[u]
    BY <1>3, <2>1
  <2>6. Lessees' = {next}
    BY <2>3, <2>4, <2>5, <1>2 DEF Lessees, LeasePhases
  <2>7. leaseHeld' = TRUE
    BY <1>3, <2>1, <2>4
  <2>8. /\ Waiters("command")' = Waiters("command") \ {next}
        /\ Waiters("poll")' = Waiters("poll")
    BY <2>3, <2>4, <2>5, <1>2 DEF Waiters
  <2>9. QueuesExact'
    BY <2>1, <2>2, <2>8, <1>1 DEF QueuesExact, Holds, IsQueueOf
  <2>10. TypeOK'
    BY <2>1, <2>2, <1>1, <1>4, <1>5 DEF TypeOK, IsQueueOf
  <2>11. LeaseAccounting' /\ NobodyLeftBehind'
    BY <2>6, <2>7 DEF LeaseAccounting, NobodyLeftBehind
  <2>12. QED BY <2>9, <2>10, <2>11, <1>7 DEF IInv
<1>9. CASE ~ServeCommand /\ pollWaiters # <<>>
  <2> DEFINE next == Head(pollWaiters)
  <2>1. /\ NextWaiter = next
        /\ pollWaiters' = Tail(pollWaiters)
        /\ commandWaiters' = commandWaiters
    BY <1>9 DEF NextWaiter, GiveBack
  <2>2. /\ IsQueueOf(pollWaiters', Tasks)
        /\ ToSet(pollWaiters') = Waiters("poll") \ {next}
        /\ next \in Waiters("poll")
    BY <1>1, <1>9, <2>1, TailOfQueue
  <2> HIDE DEF next
  <2>3. next \in Tasks /\ phase[next] = "queued" /\ PriorityOf[next] = "poll"
    BY <2>2 DEF Waiters
  <2>4. next # t /\ next # NoTask
    BY <2>3, <1>2
  <2>5. \A u \in Tasks : phase'[u] = IF u = t THEN "idle"
                                     ELSE IF u = next THEN "granted" ELSE phase[u]
    BY <1>3, <2>1
  <2>6. Lessees' = {next}
    BY <2>3, <2>4, <2>5, <1>2 DEF Lessees, LeasePhases
  <2>7. leaseHeld' = TRUE
    BY <1>3, <2>1, <2>4
  <2>8. /\ Waiters("poll")' = Waiters("poll") \ {next}
        /\ Waiters("command")' = Waiters("command")
    BY <2>3, <2>4, <2>5, <1>2 DEF Waiters
  <2>9. QueuesExact'
    BY <2>1, <2>2, <2>8, <1>1 DEF QueuesExact, Holds, IsQueueOf
  <2>10. TypeOK'
    BY <2>1, <2>2, <1>1, <1>4, <1>5 DEF TypeOK, IsQueueOf
  <2>11. LeaseAccounting' /\ NobodyLeftBehind'
    BY <2>6, <2>7 DEF LeaseAccounting, NobodyLeftBehind
  <2>12. QED BY <2>9, <2>10, <2>11, <1>7 DEF IInv
<1>10. CASE ~ServeCommand /\ pollWaiters = <<>>
  <2>1. /\ commandWaiters = <<>>
        /\ NextWaiter = NoTask
        /\ commandWaiters' = commandWaiters
        /\ pollWaiters' = pollWaiters
    BY <1>10 DEF ServeCommand, BothWait, NextWaiter, GiveBack
  <2>2. \A u \in Tasks : phase'[u] = IF u = t THEN "idle" ELSE phase[u]
    BY <1>3, <2>1
  <2>3. Lessees' = {} /\ leaseHeld' = FALSE
    BY <2>1, <2>2, <1>2, <1>3 DEF Lessees, LeasePhases
  <2>4. /\ Waiters("command")' = Waiters("command")
        /\ Waiters("poll")' = Waiters("poll")
    BY <2>2, <1>2 DEF Waiters
  <2>5. QueuesExact'
    BY <2>1, <2>4, <1>1 DEF QueuesExact, Holds, IsQueueOf
  <2>6. TypeOK'
    BY <2>1, <1>1, <1>4, <1>5 DEF TypeOK, IsQueueOf
  <2>7. LeaseAccounting' /\ NobodyLeftBehind'
    BY <1>10, <2>1, <2>3 DEF LeaseAccounting, NobodyLeftBehind
  <2>8. QED BY <2>5, <2>6, <2>7, <1>7 DEF IInv
<1>11. QED BY <1>8, <1>9, <1>10

\* A step that leaves the queues, the set of waiters and the set of lessees as
\* they are, and the owner with the lessee, keeps the invariant.
LEMMA LesseeStepKeepsInv ==
    ASSUME IInv, UNCHANGED <<leaseHeld, queueVars>>,
           phase' \in [Tasks -> Phases],
           owner' \in Clients \cup {NoClient},
           \A u \in Tasks : (phase'[u] = "queued" <=> phase[u] = "queued"),
           \A u \in Tasks : (phase'[u] \in LeasePhases <=> phase[u] \in LeasePhases),
           OwnerIsLessee'
    PROVE  IInv'
<1>1. /\ Lessees' = Lessees
      /\ \A p \in {"command", "poll"} : Waiters(p)' = Waiters(p)
  BY DEF Lessees, Waiters
<1>2. TypeOK'
  BY DEF IInv, TypeOK, queueVars
<1>3. LeaseAccounting' /\ NobodyLeftBehind'
  BY <1>1 DEF IInv, LeaseAccounting, NobodyLeftBehind, queueVars
<1>4. QueuesExact'
  BY <1>1 DEF IInv, QueuesExact, Holds, queueVars
<1>5. QED BY <1>2, <1>3, <1>4 DEF IInv

\* Taking the connection over, or asking the previous owner for it, keeps the
\* invariant.
LEMMA TakeOverKeepsInv ==
    ASSUME IInv, NEW t \in Tasks, phase[t] \in LeasePhases,
           TakeOver(t), UNCHANGED <<leaseHeld, queueVars>>
    PROVE  IInv'
<1> USE LeaseAssumption
<1>1. /\ phase \in [Tasks -> Phases]
      /\ owner \in Clients \cup {NoClient}
      /\ \A u \in Tasks : phase[u] \in LeasePhases => u = t
  BY DEF IInv, TypeOK, LeaseAccounting, Lessees
<1>2. CASE owner \in {NoClient, ClientOf[t]}
  <2>1. /\ phase' = [phase EXCEPT ![t] = "holding"]
        /\ owner' = ClientOf[t]
    BY <1>2 DEF TakeOver
  <2>2. /\ phase' \in [Tasks -> Phases]
        /\ owner' \in Clients \cup {NoClient}
        /\ \A u \in Tasks : phase'[u] = IF u = t THEN "holding" ELSE phase[u]
    BY <2>1, <1>1 DEF Phases
  <2>3. OwnerIsLessee'
    BY <2>1, <2>2, <1>1 DEF OwnerIsLessee, LeasePhases
  <2>4. QED BY <2>2, <2>3, LesseeStepKeepsInv DEF LeasePhases
<1>3. CASE owner \notin {NoClient, ClientOf[t]}
  <2>1. /\ phase' = [phase EXCEPT ![t] = "switching"]
        /\ owner' = owner
    BY <1>3 DEF TakeOver
  <2>2. /\ phase' \in [Tasks -> Phases]
        /\ \A u \in Tasks : phase'[u] = IF u = t THEN "switching" ELSE phase[u]
    BY <2>1, <1>1 DEF Phases
  <2>3. OwnerIsLessee'
    BY <2>2, <1>1 DEF OwnerIsLessee, LeasePhases
  <2>4. QED BY <2>1, <2>2, <2>3, <1>1, LesseeStepKeepsInv DEF LeasePhases
<1>4. QED BY <1>2, <1>3

\* A free lease is taken by a task that was not waiting, at once.
LEMMA AcquireFreeKeepsInv ==
    ASSUME IInv, NEW t \in Tasks, AcquireFree(t)
    PROVE  IInv'
<1> USE LeaseAssumption
<1>1. /\ phase \in [Tasks -> Phases]
      /\ owner \in Clients \cup {NoClient}
      /\ phase[t] = "idle"
      /\ \A u \in Tasks : phase[u] \notin LeasePhases
      /\ leaseHeld' = TRUE
      /\ UNCHANGED queueVars
  BY DEF IInv, TypeOK, LeaseAccounting, Lessees, AcquireFree
<1>2. /\ phase' \in [Tasks -> Phases]
      /\ owner' \in Clients \cup {NoClient}
      /\ phase'[t] \in {"holding", "switching"}
      /\ phase'[t] = "holding" => owner' = ClientOf[t]
      /\ \A u \in Tasks \ {t} : phase'[u] = phase[u]
  <2>1. CASE owner \in {NoClient, ClientOf[t]}
    BY <2>1, <1>1 DEF AcquireFree, TakeOver, Phases
  <2>2. CASE owner \notin {NoClient, ClientOf[t]}
    BY <2>2, <1>1 DEF AcquireFree, TakeOver, Phases
  <2>3. QED BY <2>1, <2>2
<1>3. Lessees' = {t}
  BY <1>1, <1>2 DEF Lessees, LeasePhases
<1>4. \A p \in {"command", "poll"} : Waiters(p)' = Waiters(p)
  BY <1>1, <1>2 DEF Waiters
<1>5. TypeOK'
  BY <1>1, <1>2 DEF IInv, TypeOK, queueVars
<1>6. LeaseAccounting' /\ NobodyLeftBehind'
  BY <1>1, <1>3 DEF LeaseAccounting, NobodyLeftBehind
<1>7. QueuesExact'
  BY <1>1, <1>4 DEF IInv, QueuesExact, Holds, queueVars
<1>8. OwnerIsLessee'
  BY <1>1, <1>2 DEF OwnerIsLessee, LeasePhases
<1>9. QED BY <1>5, <1>6, <1>7, <1>8 DEF IInv

\* A task joins the end of the queue of its priority.
LEMMA EnqueueKeepsInv ==
    ASSUME IInv, NEW t \in Tasks, Enqueue(t)
    PROVE  IInv'
<1> USE LeaseAssumption
<1>1. /\ phase \in [Tasks -> Phases]
      /\ phase[t] = "idle"
      /\ phase' = [phase EXCEPT ![t] = "queued"]
      /\ leaseHeld
      /\ UNCHANGED <<leaseHeld, owner, consecutivePriorityCommands>>
      /\ IsQueueOf(commandWaiters, Tasks)
      /\ IsQueueOf(pollWaiters, Tasks)
      /\ ToSet(commandWaiters) = Waiters("command")
      /\ ToSet(pollWaiters) = Waiters("poll")
  BY DEF IInv, TypeOK, QueuesExact, Holds, IsQueueOf, Enqueue
<1>2. /\ phase' \in [Tasks -> Phases]
      /\ \A u \in Tasks : phase'[u] = IF u = t THEN "queued" ELSE phase[u]
      /\ Lessees' = Lessees
  BY <1>1 DEF Phases, Lessees, LeasePhases
<1>3. t \notin Waiters("command") /\ t \notin Waiters("poll")
  BY <1>1 DEF Waiters
<1>4. QueuesExact' /\ commandWaiters' \in Seq(Tasks) /\ pollWaiters' \in Seq(Tasks)
  <2>1. CASE PriorityOf[t] = "command"
    <3>1. /\ commandWaiters' = Append(commandWaiters, t)
          /\ pollWaiters' = pollWaiters
      BY <2>1 DEF Enqueue
    <3>2. /\ Waiters("command")' = Waiters("command") \cup {t}
          /\ Waiters("poll")' = Waiters("poll")
      BY <1>1, <1>2, <2>1 DEF Waiters
    <3>3. /\ IsQueueOf(commandWaiters', Tasks)
          /\ ToSet(commandWaiters') = Waiters("command") \cup {t}
      BY <1>1, <1>3, <3>1, AppendToQueue
    <3>4. QED BY <1>1, <3>1, <3>2, <3>3 DEF QueuesExact, Holds, IsQueueOf
  <2>2. CASE PriorityOf[t] = "poll"
    <3>1. /\ pollWaiters' = Append(pollWaiters, t)
          /\ commandWaiters' = commandWaiters
      BY <2>2 DEF Enqueue
    <3>2. /\ Waiters("poll")' = Waiters("poll") \cup {t}
          /\ Waiters("command")' = Waiters("command")
      BY <1>1, <1>2, <2>2 DEF Waiters
    <3>3. /\ IsQueueOf(pollWaiters', Tasks)
          /\ ToSet(pollWaiters') = Waiters("poll") \cup {t}
      BY <1>1, <1>3, <3>1, AppendToQueue
    <3>4. QED BY <1>1, <3>1, <3>2, <3>3 DEF QueuesExact, Holds, IsQueueOf
  <2>3. QED BY <2>1, <2>2
<1>5. TypeOK'
  BY <1>1, <1>2, <1>4 DEF IInv, TypeOK
<1>6. LeaseAccounting' /\ NobodyLeftBehind'
  BY <1>1, <1>2 DEF IInv, LeaseAccounting, NobodyLeftBehind
<1>7. OwnerIsLessee'
  BY <1>1, <1>2 DEF IInv, OwnerIsLessee
<1>8. QED BY <1>4, <1>5, <1>6, <1>7 DEF IInv

\* A waiter that gives up leaves its queue and nothing else changes.
LEMMA AbandonQueuedKeepsInv ==
    ASSUME IInv, NEW t \in Tasks, AbandonQueued(t)
    PROVE  IInv'
<1> USE LeaseAssumption
<1>1. /\ phase \in [Tasks -> Phases]
      /\ phase[t] = "queued"
      /\ phase' = [phase EXCEPT ![t] = "idle"]
      /\ UNCHANGED <<leaseHeld, owner, consecutivePriorityCommands>>
      /\ IsQueueOf(commandWaiters, Tasks)
      /\ IsQueueOf(pollWaiters, Tasks)
      /\ ToSet(commandWaiters) = Waiters("command")
      /\ ToSet(pollWaiters) = Waiters("poll")
  BY DEF IInv, TypeOK, QueuesExact, Holds, IsQueueOf, AbandonQueued
<1>2. /\ phase' \in [Tasks -> Phases]
      /\ \A u \in Tasks : phase'[u] = IF u = t THEN "idle" ELSE phase[u]
      /\ Lessees' = Lessees
  BY <1>1 DEF Phases, Lessees, LeasePhases
<1>3. leaseHeld
  <2>1. t \in ToSet(commandWaiters) \/ t \in ToSet(pollWaiters)
    BY <1>1 DEF Waiters
  <2>2. commandWaiters # <<>> \/ pollWaiters # <<>>
    BY <2>1 DEF ToSet
  <2>3. QED BY <2>2 DEF IInv, NobodyLeftBehind
<1>4. QueuesExact' /\ commandWaiters' \in Seq(Tasks) /\ pollWaiters' \in Seq(Tasks)
  <2>1. CASE PriorityOf[t] = "command"
    <3>1. /\ commandWaiters' = Without(commandWaiters, t)
          /\ pollWaiters' = pollWaiters
      BY <2>1 DEF AbandonQueued
    <3>2. /\ Waiters("command")' = Waiters("command") \ {t}
          /\ Waiters("poll")' = Waiters("poll")
          /\ t \in Waiters("command")
      BY <1>1, <1>2, <2>1 DEF Waiters
    <3>3. /\ IsQueueOf(commandWaiters', Tasks)
          /\ ToSet(commandWaiters') = Waiters("command") \ {t}
      BY <1>1, <3>1, <3>2, RemoveFromQueue DEF Without
    <3>4. QED BY <1>1, <3>1, <3>2, <3>3 DEF QueuesExact, Holds, IsQueueOf
  <2>2. CASE PriorityOf[t] = "poll"
    <3>1. /\ pollWaiters' = Without(pollWaiters, t)
          /\ commandWaiters' = commandWaiters
      BY <2>2 DEF AbandonQueued
    <3>2. /\ Waiters("poll")' = Waiters("poll") \ {t}
          /\ Waiters("command")' = Waiters("command")
          /\ t \in Waiters("poll")
      BY <1>1, <1>2, <2>2 DEF Waiters
    <3>3. /\ IsQueueOf(pollWaiters', Tasks)
          /\ ToSet(pollWaiters') = Waiters("poll") \ {t}
      BY <1>1, <3>1, <3>2, RemoveFromQueue DEF Without
    <3>4. QED BY <1>1, <3>1, <3>2, <3>3 DEF QueuesExact, Holds, IsQueueOf
  <2>3. QED BY <2>1, <2>2
<1>5. TypeOK'
  BY <1>1, <1>2, <1>4 DEF IInv, TypeOK
<1>6. LeaseAccounting' /\ NobodyLeftBehind'
  BY <1>1, <1>2, <1>3 DEF IInv, LeaseAccounting, NobodyLeftBehind
<1>7. OwnerIsLessee'
  BY <1>1, <1>2 DEF IInv, OwnerIsLessee
<1>8. QED BY <1>4, <1>5, <1>6, <1>7 DEF IInv

\* IInv holds initially...
LEMMA InitInv == Init => IInv
<1> USE LeaseAssumption
<1> SUFFICES ASSUME Init PROVE IInv
  OBVIOUS
<1>1. /\ <<>> \in Seq(Tasks)
      /\ ToSet(<<>>) = {}
      /\ IsInjective(<<>>)
  BY EmptySeq DEF ToSet, IsInjective
<1>2. TypeOK
  <2>1. phase \in [Tasks -> Phases]
    BY DEF Init, Phases
  <2>2. consecutivePriorityCommands \in 0..MaxPriorityCommandBurst
    BY DEF Init
  <2>3. QED BY <1>1, <2>1, <2>2 DEF Init, TypeOK
<1>3. Lessees = {} /\ \A p \in {"command", "poll"} : Waiters(p) = {}
  BY DEF Init, Lessees, LeasePhases, Waiters
<1>4. LeaseAccounting /\ NobodyLeftBehind /\ QueuesExact /\ OwnerIsLessee
  BY <1>1, <1>3
     DEF Init, LeaseAccounting, NobodyLeftBehind, QueuesExact, Holds, OwnerIsLessee
<1>5. QED BY <1>2, <1>4 DEF IInv

\* ... and every step keeps it.
LEMMA NextInv == IInv /\ [Next]_vars => IInv'
<1> USE LeaseAssumption
<1> SUFFICES ASSUME IInv, [Next]_vars PROVE IInv'
  OBVIOUS
<1>1. ASSUME NEW t \in Tasks, AcquireFree(t) PROVE IInv'
  BY <1>1, AcquireFreeKeepsInv
<1>2. ASSUME NEW t \in Tasks, Enqueue(t) PROVE IInv'
  BY <1>2, EnqueueKeepsInv
<1>3. ASSUME NEW t \in Tasks, Resume(t) PROVE IInv'
  BY <1>3, TakeOverKeepsInv DEF Resume, LeasePhases
<1>4. ASSUME NEW t \in Tasks, AbandonQueued(t) PROVE IInv'
  BY <1>4, AbandonQueuedKeepsInv
<1>5. ASSUME NEW t \in Tasks, AbandonGranted(t) PROVE IInv'
  BY <1>5, GiveBackKeepsInv DEF AbandonGranted, LeasePhases
<1>6. ASSUME NEW t \in Tasks, SwitchDone(t) PROVE IInv'
  <2>1. /\ phase \in [Tasks -> Phases]
        /\ phase[t] = "switching"
        /\ \A u \in Tasks : phase[u] \in LeasePhases => u = t
        /\ UNCHANGED <<leaseHeld, queueVars>>
        /\ owner' = ClientOf[t]
        /\ phase' = [phase EXCEPT ![t] = "holding"]
    BY <1>6 DEF SwitchDone, IInv, TypeOK, LeaseAccounting, Lessees, LeasePhases
  <2>2. /\ phase' \in [Tasks -> Phases]
        /\ owner' \in Clients \cup {NoClient}
        /\ \A u \in Tasks : phase'[u] = IF u = t THEN "holding" ELSE phase[u]
    BY <2>1 DEF Phases
  <2>3. OwnerIsLessee'
    BY <2>1, <2>2 DEF OwnerIsLessee, LeasePhases
  <2>4. QED BY <2>1, <2>2, <2>3, LesseeStepKeepsInv DEF LeasePhases
<1>7. ASSUME NEW t \in Tasks, SwitchFailed(t) PROVE IInv'
  BY <1>7, GiveBackKeepsInv DEF SwitchFailed, LeasePhases
<1>8. ASSUME NEW t \in Tasks, Release(t) PROVE IInv'
  BY <1>8, GiveBackKeepsInv DEF Release, LeasePhases
<1>9. ASSUME NEW c \in Clients, ConnectionReleased(c) PROVE IInv'
  BY <1>9 DEF ConnectionReleased, queueVars, IInv, TypeOK, LeaseAccounting, Lessees,
              NobodyLeftBehind, QueuesExact, Holds, Waiters, OwnerIsLessee
<1>10. CASE UNCHANGED vars
  BY <1>10 DEF vars, IInv, TypeOK, LeaseAccounting, Lessees, NobodyLeftBehind,
               QueuesExact, Holds, Waiters, OwnerIsLessee
<1>11. QED
  BY <1>1, <1>2, <1>3, <1>4, <1>5, <1>6, <1>7, <1>8, <1>9, <1>10 DEF Next, TaskStep

\* The inductive invariant holds in every reachable state.
THEOREM InductiveInvariant == Spec => []IInv
<1>1. QED BY InitInv, NextInv, PTL DEF Spec

\* Every variable keeps its type; in particular the burst counter never passes
\* MaxPriorityCommandBurst.
THEOREM TypeCorrect == Spec => []TypeOK
<1>1. IInv => TypeOK
  BY DEF IInv
<1>2. QED BY <1>1, InductiveInvariant, PTL

\* Bluetooth transactions of all purifiers never overlap, and a held lease is
\* never lost, however waits end.
THEOREM MutualExclusion == Spec => []LeaseAccounting
<1>1. IInv => LeaseAccounting
  BY DEF IInv
<1>2. QED BY <1>1, InductiveInvariant, PTL

\* Nobody is left waiting for a free lease.
THEOREM NoWaiterForgotten == Spec => []NobodyLeftBehind
<1>1. IInv => NobodyLeftBehind
  BY DEF IInv
<1>2. QED BY <1>1, InductiveInvariant, PTL

\* The queues hold exactly the waiters: no grant goes to a call that gave up.
THEOREM WaitersExact == Spec => []QueuesExact
<1>1. IInv => QueuesExact
  BY DEF IInv
<1>2. QED BY <1>1, InductiveInvariant, PTL

\* No other client is the recorded owner while a transaction runs.
THEOREM TransactionOwnsConnection == Spec => []OwnerIsLessee
<1>1. IInv => OwnerIsLessee
  BY DEF IInv
<1>2. QED BY <1>1, InductiveInvariant, PTL

------------------------------------------------------------------------------
\* PriorityLease is implemented

Waiting == {t \in Tasks : phase[t] = "queued"}
PollTasks == {t \in Tasks : PriorityOf[t] = "poll"}
Budgets == [t \in Tasks |-> Budget(t)]

\* A command or a place more or less, in a product that SMT does not expand.
LEMMA PlaceArithmetic ==
    ASSUME NEW m \in Nat, NEW k \in Nat \ {0}, NEW j \in Nat \ {0}, NEW c \in 0..m
    PROVE  /\ m * k - c \in Nat
           /\ m * (k - 1) <= m * k - c
           /\ j <= k => m * j - c <= m * k - c
           /\ m * k - (c + 1) < m * k - c
<1>1. m * k \in Nat /\ m * (k - 1) \in Nat /\ m * j \in Nat /\ m * (k - j) \in Int
  OBVIOUS
<1>2. m * (k - 1) = m * k - m
  OBVIOUS
<1>3. m * k - c \in Nat /\ m * (k - 1) <= m * k - c
  BY <1>1, <1>2
<1>4. m * k - (c + 1) < m * k - c
  BY <1>1
<1>5. ASSUME j <= k PROVE m * j - c <= m * k - c
  <2>1. m * k = m * j + m * (k - j)
    OBVIOUS
  <2>2. k - j \in Nat
    BY <1>5
  <2>3. m * (k - j) \in Nat
    BY <2>2
  <2> QED BY <1>1, <2>1, <2>3
<1> QED BY <1>3, <1>4, <1>5

\* The one task that has the lease is the abstract lessee.
LEMMA LesseeMaps ==
    IInv => /\ \A t \in Tasks : phase[t] \in LeasePhases => Lessee = t
            /\ ~leaseHeld => Lessee = NoTask
            /\ Lessee = NoTask => ~leaseHeld /\ Lessees = {}
<1>1. SUFFICES ASSUME IInv
      PROVE  /\ \A t \in Tasks : phase[t] \in LeasePhases => Lessee = t
             /\ ~leaseHeld => Lessee = NoTask
             /\ Lessee = NoTask => ~leaseHeld /\ Lessees = {}
  OBVIOUS
<1>2. /\ \A t, u \in Lessees : t = u
      /\ leaseHeld <=> Lessees # {}
      /\ Lessees \subseteq Tasks
      /\ \A t \in Tasks : phase[t] \in LeasePhases => t \in Lessees
  BY <1>1 DEF IInv, LeaseAccounting, Lessees
<1>3. Lessees # {} => Lessee \in Lessees
  BY DEF Lessee
<1>4. Lessees = {} => Lessee = NoTask
  BY DEF Lessee
<1> QED BY <1>2, <1>3, <1>4, LeaseAssumption

\* A waiting poll's budget is what its place and the counter leave.
LEMMA BudgetMaps ==
    IInv => /\ Budgets \in [Tasks -> Nat]
            /\ \A t \in Waiting \cap PollTasks :
                   /\ t \in ToSet(pollWaiters)
                   /\ PlaceIn(pollWaiters, t) \in Nat \ {0}
                   /\ Budgets[t] = MaxPriorityCommandBurst * PlaceIn(pollWaiters, t)
                                       - consecutivePriorityCommands
<1>1. SUFFICES ASSUME IInv
      PROVE  /\ Budgets \in [Tasks -> Nat]
             /\ \A t \in Waiting \cap PollTasks :
                   /\ t \in ToSet(pollWaiters)
                   /\ PlaceIn(pollWaiters, t) \in Nat \ {0}
                   /\ Budgets[t] = MaxPriorityCommandBurst * PlaceIn(pollWaiters, t)
                                       - consecutivePriorityCommands
  OBVIOUS
<1>2. /\ IsQueueOf(pollWaiters, Tasks)
      /\ ToSet(pollWaiters) = Waiting \cap PollTasks
      /\ consecutivePriorityCommands \in 0..MaxPriorityCommandBurst
      /\ MaxPriorityCommandBurst \in Nat
  BY <1>1, LeaseAssumption
  DEF IInv, TypeOK, QueuesExact, Holds, IsQueueOf, Waiters, Waiting, PollTasks
<1>3. \A t \in Waiting \cap PollTasks : PlaceIn(pollWaiters, t) \in Nat \ {0}
  BY <1>2, PlaceInQueue
<1>4. \A t \in Waiting \cap PollTasks :
          Budget(t) = MaxPriorityCommandBurst * PlaceIn(pollWaiters, t)
                          - consecutivePriorityCommands
  BY DEF Budget, Place, PlaceIn, Waiting, PollTasks
<1>5. \A t \in Tasks : t \notin Waiting \cap PollTasks => Budget(t) = 0
  BY DEF Budget, Waiting, PollTasks
<1>6. ASSUME NEW t \in Tasks PROVE Budget(t) \in Nat
  <2>1. CASE t \in Waiting \cap PollTasks
    BY <2>1, <1>2, <1>3, <1>4, PlaceArithmetic
  <2>2. CASE t \notin Waiting \cap PollTasks
    BY <2>2, <1>5
  <2> QED BY <2>1, <2>2
<1>7. Budgets \in [Tasks -> Nat] /\ \A t \in Tasks : Budgets[t] = Budget(t)
  BY <1>6 DEF Budgets
<1>8. Waiting \subseteq Tasks
  BY DEF Waiting
<1> QED BY <1>2, <1>3, <1>4, <1>7, <1>8

\* The same facts of the next state.
LEMMA NextStateMaps ==
    ASSUME IInv'
    PROVE  /\ \A t \in Tasks : phase'[t] \in LeasePhases => Lessee' = t
           /\ ~leaseHeld' => Lessee' = NoTask
           /\ Budgets' \in [Tasks -> Nat]
           /\ \A t \in Waiting' \cap PollTasks :
                  /\ t \in ToSet(pollWaiters')
                  /\ PlaceIn(pollWaiters', t) \in Nat \ {0}
                  /\ Budgets'[t] = MaxPriorityCommandBurst * PlaceIn(pollWaiters', t)
                                       - consecutivePriorityCommands'
<1>1. IInv' => (/\ \A t \in Tasks : phase[t] \in LeasePhases => Lessee = t
                /\ ~leaseHeld => Lessee = NoTask
                /\ Lessee = NoTask => ~leaseHeld /\ Lessees = {})'
  BY LesseeMaps, PTL
<1>2. IInv' => (/\ Budgets \in [Tasks -> Nat]
                /\ \A t \in Waiting \cap PollTasks :
                    /\ t \in ToSet(pollWaiters)
                    /\ PlaceIn(pollWaiters, t) \in Nat \ {0}
                    /\ Budgets[t] = MaxPriorityCommandBurst * PlaceIn(pollWaiters, t)
                                       - consecutivePriorityCommands)'
  BY BudgetMaps, PTL
<1>3. PollTasks' = PollTasks
  BY DEF PollTasks
<1> QED BY <1>1, <1>2, <1>3

\* A free lease is taken.
LEMMA AcquireFreeMaps ==
    ASSUME IInv, IInv', NEW t \in Tasks, AcquireFree(t)
    PROVE  Lease!Take(t)
<1>1. /\ ~leaseHeld /\ phase[t] = "idle" /\ phase \in [Tasks -> Phases]
      /\ commandWaiters = <<>> /\ pollWaiters = <<>>
      /\ phase' \in {[phase EXCEPT ![t] = "holding"], [phase EXCEPT ![t] = "switching"]}
  BY DEF AcquireFree, TakeOver, IInv, TypeOK, NobodyLeftBehind
<1>2. Lessee = NoTask
  BY <1>1, LesseeMaps
<1>3. phase'[t] \in LeasePhases /\ \A u \in Tasks \ {t} : phase'[u] = phase[u]
  BY <1>1 DEF LeasePhases
<1>4. Lessee' = t
  BY <1>3, NextStateMaps
<1>5. \A u \in Tasks : phase[u] # "queued"
  <2>1. ToSet(commandWaiters) = {} /\ ToSet(pollWaiters) = {}
    BY <1>1, EmptySeq DEF ToSet
  <2> QED BY <2>1, LeaseAssumption DEF IInv, QueuesExact, Holds, Waiters
<1>6. Waiting = {} /\ Waiting' = {}
  BY <1>1, <1>3, <1>5 DEF Waiting, LeasePhases
<1>7. Budgets' \in [Tasks -> Nat]
  BY NextStateMaps
<1> QED BY <1>2, <1>4, <1>6, <1>7 DEF Lease!Take, Lease!Spend, Waiting, Budgets

\* A call that finds the lease taken waits, with the budget of its place.
LEMMA EnqueueMaps ==
    ASSUME IInv, IInv', NEW t \in Tasks, Enqueue(t)
    PROVE  Lease!Wait(t)
<1> USE LeaseAssumption
<1>1. /\ leaseHeld /\ phase[t] = "idle" /\ phase \in [Tasks -> Phases]
      /\ phase' = [phase EXCEPT ![t] = "queued"]
      /\ UNCHANGED consecutivePriorityCommands
      /\ consecutivePriorityCommands \in 0..MaxPriorityCommandBurst
  BY DEF Enqueue, IInv, TypeOK
<1>2. /\ IsQueueOf(pollWaiters, Tasks)
      /\ ToSet(pollWaiters) = Waiting \cap PollTasks
  BY DEF IInv, TypeOK, QueuesExact, Holds, IsQueueOf, Waiters, Waiting, PollTasks
<1>3. /\ Lessee # NoTask /\ Lessee \in Tasks /\ phase[Lessee] \in LeasePhases
  <2>1. PICK u \in Lessees : TRUE
    BY <1>1 DEF IInv, LeaseAccounting
  <2>2. u \in Tasks /\ phase[u] \in LeasePhases
    BY DEF Lessees
  <2>3. Lessee = u
    BY <2>2, LesseeMaps
  <2> QED BY <2>2, <2>3
<1>4. Lessee # t
  BY <1>1, <1>3 DEF LeasePhases
<1>5. Lessee' = Lessee
  <2>1. phase'[Lessee] \in LeasePhases
    BY <1>1, <1>3, <1>4
  <2> QED BY <2>1, <1>3, NextStateMaps
<1>6. t \notin Waiting /\ Waiting' = Waiting \cup {t}
  BY <1>1 DEF Waiting
<1>7. \/ t \in PollTasks /\ pollWaiters' = Append(pollWaiters, t)
      \/ t \notin PollTasks /\ pollWaiters' = pollWaiters
  BY DEF Enqueue, PollTasks
<1>8. \A p \in Waiting \cap PollTasks : PlaceIn(pollWaiters', p) = PlaceIn(pollWaiters, p)
  <2>1. CASE t \in PollTasks /\ pollWaiters' = Append(pollWaiters, t)
    BY <2>1, <1>2, <1>6, PlaceAfterAppend
  <2>2. CASE pollWaiters' = pollWaiters
    BY <2>2
  <2> QED BY <1>7, <2>1, <2>2
<1>9. \A p \in Waiting \cap PollTasks : Budgets'[p] = Budgets[p]
  <2>1. TAKE p \in Waiting \cap PollTasks
  <2>2. p \in Waiting' \cap PollTasks
    BY <1>6
  <2>3. Budgets'[p] = MaxPriorityCommandBurst * PlaceIn(pollWaiters', p)
                          - consecutivePriorityCommands'
    BY <2>2, NextStateMaps
  <2>4. Budgets[p] = MaxPriorityCommandBurst * PlaceIn(pollWaiters, p)
                         - consecutivePriorityCommands
    BY BudgetMaps
  <2> QED BY <2>3, <2>4, <1>1, <1>8
<1>10. Budgets' \in [Tasks -> Nat] /\ Budgets \in [Tasks -> Nat]
  BY NextStateMaps, BudgetMaps
<1>11. \A p \in Waiting \cap PollTasks : Budgets'[p] <= Budgets[p]
  <2>1. \A p \in Waiting \cap PollTasks : Budgets[p] \in Nat
    BY <1>10 DEF PollTasks
  <2> QED BY <1>9, <2>1
<1>12. ASSUME t \in PollTasks
       PROVE  Budgets'[t] <=
                  MaxPriorityCommandBurst * (Cardinality(Waiting \cap PollTasks) + 1)
  <2>1. PlaceIn(pollWaiters', t) = Len(pollWaiters) + 1
    <3>1. t \notin ToSet(pollWaiters) /\ pollWaiters' = Append(pollWaiters, t)
      BY <1>2, <1>6, <1>7, <1>12
    <3> QED BY <3>1, <1>2, PlaceAfterAppend
  <2>2. Cardinality(Waiting \cap PollTasks) = Len(pollWaiters)
    BY <1>2, QueueCardinality
  <2>3. t \in Waiting' \cap PollTasks
    BY <1>6, <1>12
  <2>4. Budgets'[t] = MaxPriorityCommandBurst * (Len(pollWaiters) + 1)
                          - consecutivePriorityCommands
    BY <2>1, <2>3, <1>1, NextStateMaps
  <2>5. MaxPriorityCommandBurst * (Len(pollWaiters) + 1) \in Nat
    <3>1. Len(pollWaiters) + 1 \in Nat
      BY <1>2, LenProperties DEF IsQueueOf
    <3> QED BY <3>1
  <2>6. \A n \in Nat : n - consecutivePriorityCommands <= n
    BY <1>1
  <2> QED BY <2>2, <2>4, <2>5, <2>6
<1>13. Lease!Cardinality(Waiting \cap PollTasks) = Cardinality(Waiting \cap PollTasks)
  BY DEF Lease!Cardinality, Cardinality
<1> QED BY <1>3, <1>4, <1>5, <1>6, <1>10, <1>11, <1>12, <1>13
   DEF Lease!Wait, Lease!Spend, Waiting, Budgets, PollTasks

\* A waiter that gives up moves nobody back.
LEMMA AbandonQueuedMaps ==
    ASSUME IInv, IInv', NEW t \in Tasks, AbandonQueued(t)
    PROVE  Lease!Abandon(t)
<1> USE LeaseAssumption
<1>1. /\ phase[t] = "queued" /\ phase \in [Tasks -> Phases]
      /\ phase' = [phase EXCEPT ![t] = "idle"]
      /\ UNCHANGED <<leaseHeld, consecutivePriorityCommands>>
      /\ consecutivePriorityCommands \in 0..MaxPriorityCommandBurst
  BY DEF AbandonQueued, IInv, TypeOK
<1>2. /\ IsQueueOf(pollWaiters, Tasks)
      /\ ToSet(pollWaiters) = Waiting \cap PollTasks
  BY DEF IInv, TypeOK, QueuesExact, Holds, IsQueueOf, Waiters, Waiting, PollTasks
<1>3. t \in Waiting /\ Waiting' = Waiting \ {t}
  BY <1>1 DEF Waiting
<1>4. Lessee' = Lessee
  <2>1. Lessees' = Lessees
    BY <1>1 DEF Lessees, LeasePhases
  <2> QED BY <2>1 DEF Lessee
<1>5. \/ t \in PollTasks /\ pollWaiters' = RemoveAt(pollWaiters, PlaceIn(pollWaiters, t))
      \/ pollWaiters' = pollWaiters
  BY DEF AbandonQueued, Without, PlaceIn, PollTasks
<1>6. ASSUME NEW p \in Waiting' \cap PollTasks
      PROVE  Budgets'[p] <= Budgets[p]
  <2>1. p \in Waiting \cap PollTasks /\ p # t
    BY <1>3, <1>6
  <2>2. PlaceIn(pollWaiters', p) <= PlaceIn(pollWaiters, p)
    <3>1. CASE /\ t \in PollTasks
               /\ pollWaiters' = RemoveAt(pollWaiters, PlaceIn(pollWaiters, t))
      BY <3>1, <2>1, <1>2, <1>3, PlaceAfterRemove
    <3>2. CASE pollWaiters' = pollWaiters
      <4>1. PlaceIn(pollWaiters, p) \in Nat
        BY <2>1, BudgetMaps
      <4> QED BY <3>2, <4>1
    <3> QED BY <1>5, <3>1, <3>2
  <2>3. /\ PlaceIn(pollWaiters', p) \in Nat \ {0}
        /\ Budgets'[p] = MaxPriorityCommandBurst * PlaceIn(pollWaiters', p)
                             - consecutivePriorityCommands
    BY <1>1, <1>6, NextStateMaps
  <2>4. /\ PlaceIn(pollWaiters, p) \in Nat \ {0}
        /\ Budgets[p] = MaxPriorityCommandBurst * PlaceIn(pollWaiters, p)
                            - consecutivePriorityCommands
    BY <2>1, BudgetMaps
  <2> QED BY <2>2, <2>3, <2>4, <1>1, PlaceArithmetic
<1>7. Budgets' \in [Tasks -> Nat]
  BY NextStateMaps
<1> QED BY <1>3, <1>4, <1>6, <1>7
   DEF Lease!Abandon, Lease!Spend, Waiting, Budgets, PollTasks

\* A lease that is given back goes to a waiting command, which costs every
\* waiting poll one of its budget, else to the first waiting poll, which brings
\* the polls behind it forward, and is free if nobody waits.
LEMMA GiveBackMaps ==
    ASSUME IInv, IInv', NEW t \in Tasks, phase[t] \in LeasePhases, GiveBack(t)
    PROVE  Lease!Free \/ \E u \in Tasks : Lease!HandOver(u)
<1> USE LeaseAssumption
<1>1. /\ phase \in [Tasks -> Phases]
      /\ phase' = [u \in Tasks |-> IF u = t THEN "idle"
                                   ELSE IF u = NextWaiter THEN "granted"
                                   ELSE phase[u]]
      /\ leaseHeld' = (NextWaiter # NoTask)
      /\ consecutivePriorityCommands' = NextBurst
      /\ consecutivePriorityCommands \in 0..MaxPriorityCommandBurst
  BY DEF GiveBack, IInv, TypeOK
<1>2. /\ IsQueueOf(commandWaiters, Tasks)
      /\ IsQueueOf(pollWaiters, Tasks)
      /\ ToSet(commandWaiters) = Waiters("command")
      /\ ToSet(pollWaiters) = Waiting \cap PollTasks
      /\ Waiters("command") = Waiting \ PollTasks
  BY DEF IInv, TypeOK, QueuesExact, Holds, IsQueueOf, Waiters, Waiting, PollTasks
<1>3. Lessee = t /\ Lessee # NoTask /\ phase[t] # "queued"
  BY LesseeMaps DEF LeasePhases
<1>4. Budgets' \in [Tasks -> Nat]
  BY NextStateMaps
<1>5. ASSUME NEW next \in Waiting, NextWaiter = next
      PROVE  Lessee' = next /\ Waiting' = Waiting \ {next}
  <2>1. next \in Tasks /\ phase[next] = "queued" /\ next # t
    BY <1>3 DEF Waiting
  <2>2. phase'[next] \in LeasePhases
    BY <2>1, <1>1, <1>5 DEF LeasePhases
  <2>3. Waiting' = Waiting \ {next}
    BY <2>1, <1>1, <1>3, <1>5 DEF Waiting
  <2> QED BY <2>1, <2>2, <2>3, NextStateMaps
<1>6. CASE ServeCommand
  <2>7. Head(commandWaiters) \in Waiting
    BY <1>2, <1>6, TailOfQueue DEF ServeCommand
  <2>8. PICK next \in Tasks : next = Head(commandWaiters)
    BY <2>7 DEF Waiting
  <2>1. /\ commandWaiters # <<>> /\ NextWaiter = next
        /\ pollWaiters' = pollWaiters
    BY <1>6, <2>8 DEF ServeCommand, NextWaiter, GiveBack
  <2>2. next \in Waiting /\ next \notin PollTasks
    BY <2>1, <2>8, <1>2, TailOfQueue
  <2>3. Lessee' = next /\ Waiting' = Waiting \ {next}
    BY <2>1, <2>2, <1>5
  <2>4. ASSUME NEW p \in Waiting' \cap PollTasks
        PROVE  Budgets'[p] < Budgets[p] /\ Budgets'[p] <= Budgets[p]
    <3>1. p \in Waiting \cap PollTasks
      BY <2>3
    <3>2. pollWaiters # <<>>
      BY <3>1, <1>2 DEF ToSet
    <3>3. BothWait /\ ~BurstSpent
      BY <1>6, <2>1, <3>2 DEF ServeCommand, BothWait
    <3>4. consecutivePriorityCommands' = consecutivePriorityCommands + 1
      BY <3>3, <1>1 DEF NextBurst
    <3>5. Budgets'[p] = MaxPriorityCommandBurst * PlaceIn(pollWaiters, p)
                            - (consecutivePriorityCommands + 1)
      BY <2>1, <3>4, NextStateMaps
    <3>6. /\ PlaceIn(pollWaiters, p) \in Nat \ {0}
          /\ Budgets[p] = MaxPriorityCommandBurst * PlaceIn(pollWaiters, p)
                              - consecutivePriorityCommands
      BY <3>1, BudgetMaps
    <3>7. Budgets'[p] < Budgets[p]
      BY <3>5, <3>6, <1>1, PlaceArithmetic
    <3>8. Budgets'[p] \in Nat /\ Budgets[p] \in Nat
      BY <1>4, BudgetMaps DEF PollTasks
    <3> QED BY <3>7, <3>8
  <2>5. Lease!HandOver(next)
    BY <1>3, <1>4, <2>2, <2>3, <2>4
    DEF Lease!HandOver, Lease!Spend, Waiting, Budgets, PollTasks
  <2> QED BY <2>5
<1>7. CASE ~ServeCommand /\ pollWaiters # <<>>
  <2>7. Head(pollWaiters) \in Waiting
    BY <1>2, <1>7, TailOfQueue DEF ServeCommand
  <2>8. PICK next \in Tasks : next = Head(pollWaiters)
    BY <2>7 DEF Waiting
  <2>1. /\ NextWaiter = next /\ pollWaiters' = Tail(pollWaiters)
        /\ consecutivePriorityCommands' = 0
    BY <1>1, <1>7, <2>8
    DEF NextWaiter, GiveBack, ServeCommand, BothWait, NextBurst
  <2>2. next \in Waiting /\ next \in PollTasks
    BY <1>2, <1>7, <2>8, TailOfQueue
  <2>3. Lessee' = next /\ Waiting' = Waiting \ {next}
    BY <2>1, <2>2, <1>5
  <2>4. ASSUME NEW p \in Waiting' \cap PollTasks
        PROVE  Budgets'[p] <= Budgets[p]
    <3>1. /\ p \in ToSet(pollWaiters')
          /\ Budgets'[p] = MaxPriorityCommandBurst * PlaceIn(pollWaiters', p) - 0
      BY <2>1, NextStateMaps
    <3>2. PlaceIn(pollWaiters', p) = PlaceIn(pollWaiters, p) - 1
      BY <2>1, <3>1, <1>2, <1>7, PlaceAfterTail
    <3>3. p \in Waiting \cap PollTasks
      BY <2>3
    <3>4. /\ PlaceIn(pollWaiters, p) \in Nat \ {0}
          /\ Budgets[p] = MaxPriorityCommandBurst * PlaceIn(pollWaiters, p)
                              - consecutivePriorityCommands
      BY <3>3, BudgetMaps
    <3>5. MaxPriorityCommandBurst * (PlaceIn(pollWaiters, p) - 1) <= Budgets[p]
      BY <3>4, <1>1, PlaceArithmetic
    <3>6. MaxPriorityCommandBurst * (PlaceIn(pollWaiters, p) - 1) \in Int
      BY <3>4
    <3> QED BY <3>1, <3>2, <3>5, <3>6
  <2>5. Lease!HandOver(next)
    BY <1>3, <1>4, <2>2, <2>3, <2>4
    DEF Lease!HandOver, Lease!Spend, Waiting, Budgets, PollTasks
  <2> QED BY <2>5
<1>8. CASE ~ServeCommand /\ pollWaiters = <<>>
  <2>1. commandWaiters = <<>> /\ NextWaiter = NoTask
    BY <1>8 DEF ServeCommand, BothWait, NextWaiter
  <2>2. Lessee' = NoTask
    BY <2>1, <1>1, NextStateMaps
  <2>3. ToSet(commandWaiters) = {} /\ ToSet(pollWaiters) = {}
    BY <2>1, <1>8, EmptySeq DEF ToSet
  <2>4. Waiting = {}
    BY <2>3, <1>2
  <2>5. Waiting' = {}
    BY <2>1, <2>4, <1>1, <1>3 DEF Waiting
  <2> QED BY <1>3, <1>4, <2>2, <2>4, <2>5
     DEF Lease!Free, Lease!Spend, Waiting, Budgets
<1> QED BY <1>6, <1>7, <1>8

\* A step that moves neither the lease nor the queues is not seen.
LEMMA LesseeStepMaps ==
    ASSUME IInv, UNCHANGED queueVars,
           \A u \in Tasks : (phase'[u] = "queued" <=> phase[u] = "queued"),
           \A u \in Tasks : (phase'[u] \in LeasePhases <=> phase[u] \in LeasePhases)
    PROVE  UNCHANGED Lease!vars
<1>1. Lessees' = Lessees /\ Waiting' = Waiting
  BY DEF Lessees, Waiting
<1>2. Lessee' = Lessee
  BY <1>1 DEF Lessee
<1>3. ASSUME NEW u \in Tasks PROVE Budget(u)' = Budget(u)
  <2>1. Place(u)' = Place(u)
    BY DEF Place, queueVars
  <2>2. consecutivePriorityCommands' = consecutivePriorityCommands
    BY DEF queueVars
  <2> QED BY <2>1, <2>2 DEF Budget
<1>4. Budgets' = Budgets
  BY <1>3 DEF Budgets
<1> QED BY <1>1, <1>2, <1>4 DEF Lease!vars, Waiting, Budgets

LEMMA TaskStepMaps ==
    ASSUME IInv, IInv', NEW t \in Tasks, TaskStep(t)
    PROVE  Lease!Next \/ UNCHANGED Lease!vars
<1>0. phase \in [Tasks -> Phases]
  BY DEF IInv, TypeOK
<1>1. CASE AcquireFree(t)
  BY <1>1, AcquireFreeMaps DEF Lease!Next
<1>2. CASE Enqueue(t)
  BY <1>2, EnqueueMaps DEF Lease!Next
<1>3. CASE Resume(t)
  <2>1. /\ phase[t] = "granted" /\ UNCHANGED queueVars
        /\ phase' \in {[phase EXCEPT ![t] = "holding"],
                       [phase EXCEPT ![t] = "switching"]}
    BY <1>3 DEF Resume, TakeOver
  <2> QED BY <2>1, <1>0, LesseeStepMaps DEF LeasePhases
<1>4. CASE AbandonQueued(t)
  BY <1>4, AbandonQueuedMaps DEF Lease!Next
<1>5. CASE AbandonGranted(t) \/ SwitchFailed(t) \/ Release(t)
  <2>1. phase[t] \in LeasePhases /\ GiveBack(t)
    BY <1>5 DEF AbandonGranted, SwitchFailed, Release, LeasePhases
  <2> QED BY <2>1, GiveBackMaps DEF Lease!Next
<1>6. CASE SwitchDone(t)
  <2>1. /\ phase[t] = "switching" /\ UNCHANGED queueVars
        /\ phase' = [phase EXCEPT ![t] = "holding"]
    BY <1>6 DEF SwitchDone
  <2> QED BY <2>1, <1>0, LesseeStepMaps DEF LeasePhases
<1> QED BY <1>1, <1>2, <1>3, <1>4, <1>5, <1>6 DEF TaskStep

\* The arbiter implements the abstract lease for any number of calls and any
\* burst: the lease is passed on and not dropped, and each command that overtakes
\* a waiting poll costs it one of the budget its place gave it.
THEOREM RefinesPriorityLease == Spec => ImplementsPriorityLease
<1>1. Init => Lease!Init
  <2>1. SUFFICES ASSUME Init PROVE Lease!Init
    OBVIOUS
  <2>2. Lessees = {}
    BY <2>1 DEF Init, Lessees, LeasePhases
  <2>3. Lessee = NoTask
    BY <2>2 DEF Lessee
  <2>4. Waiting = {}
    BY <2>1 DEF Init, Waiting
  <2>5. \A t \in Tasks : Budget(t) = 0
    BY <2>1 DEF Init, Budget
  <2>6. Budgets = [t \in Tasks |-> 0]
    BY <2>5 DEF Budgets
  <2> QED BY <2>3, <2>4, <2>6 DEF Lease!Init, Waiting, Budgets
<1>2. ASSUME IInv, IInv', [Next]_vars PROVE [Lease!Next]_Lease!vars
  <2>1. ASSUME NEW t \in Tasks, TaskStep(t) PROVE [Lease!Next]_Lease!vars
    BY <1>2, <2>1, TaskStepMaps
  <2>2. ASSUME NEW c \in Clients, ConnectionReleased(c) PROVE UNCHANGED Lease!vars
    BY <1>2, <2>2, LesseeStepMaps DEF ConnectionReleased
  <2>3. CASE UNCHANGED vars
    BY <1>2, <2>3, LesseeStepMaps DEF vars, queueVars
  <2> QED BY <1>2, <2>1, <2>2, <2>3 DEF Next
<1>3. IInv /\ IInv' /\ [Next]_vars => [Lease!Next]_Lease!vars
  BY <1>2
<1> QED BY <1>1, <1>3, InductiveInvariant, PTL
   DEF Spec, ImplementsPriorityLease, Lease!Spec

===============================================================================
