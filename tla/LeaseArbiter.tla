----------------------------- MODULE LeaseArbiter -----------------------------
(***************************************************************************)
(* GoveeConnectionArbiter (bluetooth/_arbiter.py): the one Bluetooth lease *)
(* that every purifier entry shares.  A task is one pending call of        *)
(* async_acquire/release; its client and its priority are fixed.           *)
(*                                                                         *)
(* The event loop runs a coroutine to its next await without interruption, *)
(* so an action is what one task does between two awaits.  release() only  *)
(* resolves the next waiter's future: the waiter is "granted" at once and  *)
(* resumes later, and in between its own deadline or a cancellation can    *)
(* still reach it.                                                         *)
(***************************************************************************)
EXTENDS Naturals, SequencesExt

CONSTANTS Tasks,       \* the calls of async_acquire that can be pending
          Clients,     \* the purifiers' BLE clients
          ClientOf,    \* ClientOf[t]: the client task t runs for
          PriorityOf,  \* PriorityOf[t]: "command" or "poll"
          MaxPriorityCommandBurst,
          NoTask, NoClient

ASSUME LeaseAssumption ==
    /\ ClientOf \in [Tasks -> Clients]
    /\ PriorityOf \in [Tasks -> {"command", "poll"}]
    /\ MaxPriorityCommandBurst \in Nat
    /\ NoTask \notin Tasks
    /\ NoClient \notin Clients

VARIABLES
    phase,           \* where each task is in async_acquire .. release
    leaseHeld,
    owner,           \* the client whose connection may be retained
    commandWaiters,
    pollWaiters,
    consecutivePriorityCommands

vars == <<phase, leaseHeld, owner, commandWaiters, pollWaiters,
          consecutivePriorityCommands>>

queueVars == <<commandWaiters, pollWaiters, consecutivePriorityCommands>>

Phases == {"idle", "queued", "granted", "switching", "holding"}

\* The phases in which a task has the lease: its future is resolved, it waits
\* for the previous owner to disconnect, or it runs its transaction.
LeasePhases == {"granted", "switching", "holding"}

Lessees == {t \in Tasks : phase[t] \in LeasePhases}

Init ==
    /\ phase = [t \in Tasks |-> "idle"]
    /\ leaseHeld = FALSE
    /\ owner = NoClient
    /\ commandWaiters = <<>>
    /\ pollWaiters = <<>>
    /\ consecutivePriorityCommands = 0

------------------------------------------------------------------------------
\* _next_waiter: who gets a lease that is given back, and the burst counter
\* after the choice.

BothWait == commandWaiters # <<>> /\ pollWaiters # <<>>

\* Mutant of BurstSpent: one command too many runs ahead of a waiting poll.
BurstSpentLate == consecutivePriorityCommands > MaxPriorityCommandBurst

BurstSpent == consecutivePriorityCommands >= MaxPriorityCommandBurst

ServeCommand == commandWaiters # <<>> /\ ~(BothWait /\ BurstSpent)

NextWaiter ==
    IF ServeCommand THEN Head(commandWaiters)
    ELSE IF pollWaiters # <<>> THEN Head(pollWaiters) ELSE NoTask

\* Mutant of NextBurst: the counter also runs while no poll waits.
NextBurstUnreset ==
    IF ServeCommand THEN consecutivePriorityCommands + 1 ELSE 0

\* Mutant of NextBurst: commands passing a waiting poll are not counted.
NextBurstNever == 0

NextBurst ==
    IF BothWait /\ ~BurstSpent THEN consecutivePriorityCommands + 1 ELSE 0

\* Mutant of GiveBack: a lease given back while only polls wait is freed.
GiveBackForgettingPolls(t) ==
    /\ consecutivePriorityCommands' = NextBurst
    /\ phase' = [u \in Tasks |-> IF u = t THEN "idle"
                                 ELSE IF ServeCommand /\ u = NextWaiter THEN "granted"
                                 ELSE phase[u]]
    /\ leaseHeld' = ServeCommand
    /\ commandWaiters' = IF ServeCommand THEN Tail(commandWaiters)
                         ELSE commandWaiters
    /\ UNCHANGED pollWaiters

\* release() by the task t that has the lease.
GiveBack(t) ==
    /\ consecutivePriorityCommands' = NextBurst
    /\ phase' = [u \in Tasks |-> IF u = t THEN "idle"
                                 ELSE IF u = NextWaiter THEN "granted"
                                 ELSE phase[u]]
    /\ leaseHeld' = (NextWaiter # NoTask)
    /\ commandWaiters' = IF ServeCommand THEN Tail(commandWaiters)
                         ELSE commandWaiters
    /\ pollWaiters' = IF ~ServeCommand /\ pollWaiters # <<>>
                      THEN Tail(pollWaiters) ELSE pollWaiters

------------------------------------------------------------------------------
\* The part of async_acquire that runs once the lease is there: take the
\* connection over at once, or ask another purifier's client to let go first.
TakeOver(t) ==
    IF owner \in {NoClient, ClientOf[t]}
    THEN /\ phase' = [phase EXCEPT ![t] = "holding"]
         /\ owner' = ClientOf[t]
    ELSE /\ phase' = [phase EXCEPT ![t] = "switching"]
         /\ UNCHANGED owner

AcquireFree(t) ==
    /\ phase[t] = "idle"
    /\ ~leaseHeld
    /\ leaseHeld' = TRUE
    /\ TakeOver(t)
    /\ UNCHANGED queueVars

Enqueue(t) ==
    /\ phase[t] = "idle"
    /\ leaseHeld
    /\ phase' = [phase EXCEPT ![t] = "queued"]
    /\ IF PriorityOf[t] = "command"
       THEN /\ commandWaiters' = Append(commandWaiters, t)
            /\ UNCHANGED pollWaiters
       ELSE /\ pollWaiters' = Append(pollWaiters, t)
            /\ UNCHANGED commandWaiters
    /\ UNCHANGED <<leaseHeld, owner, consecutivePriorityCommands>>

\* The waiter resumes after its future was resolved.
Resume(t) ==
    /\ phase[t] = "granted"
    /\ TakeOver(t)
    /\ UNCHANGED <<leaseHeld, queueVars>>

\* Mutant of Without: the given-up waiter stays in its queue.
WithoutNothing(queue, t) == queue

\* queue.remove(waiter)
Without(queue, t) == RemoveAt(queue, CHOOSE i \in DOMAIN queue : queue[i] = t)

\* _cancel_waiter: the deadline passed, or the task was cancelled, while it
\* was waiting.  A waiter that was granted in the meantime owns the lease and
\* gives it back.
AbandonQueued(t) ==
    /\ phase[t] = "queued"
    /\ phase' = [phase EXCEPT ![t] = "idle"]
    /\ IF PriorityOf[t] = "command"
       THEN /\ commandWaiters' = Without(commandWaiters, t)
            /\ UNCHANGED pollWaiters
       ELSE /\ pollWaiters' = Without(pollWaiters, t)
            /\ UNCHANGED commandWaiters
    /\ UNCHANGED <<leaseHeld, owner, consecutivePriorityCommands>>

\* Mutant of AbandonGranted: the grant that raced the deadline is forgotten.
AbandonGrantedLosesLease(t) ==
    /\ phase[t] = "granted"
    /\ phase' = [phase EXCEPT ![t] = "idle"]
    /\ UNCHANGED <<leaseHeld, owner, queueVars>>

AbandonGranted(t) ==
    /\ phase[t] = "granted"
    /\ GiveBack(t)
    /\ UNCHANGED owner

\* Mutant of SwitchDone: the new owner is not recorded.
SwitchDoneKeepsOwner(t) ==
    /\ phase[t] = "switching"
    /\ phase' = [phase EXCEPT ![t] = "holding"]
    /\ UNCHANGED <<leaseHeld, owner, queueVars>>

\* The previous owner's _async_release_for_connection_switch returned...
SwitchDone(t) ==
    /\ phase[t] = "switching"
    /\ phase' = [phase EXCEPT ![t] = "holding"]
    /\ owner' = ClientOf[t]
    /\ UNCHANGED <<leaseHeld, queueVars>>

\* ... or raised (it timed out, or this task was cancelled): the lease goes
\* back and the recorded owner stays whatever it is.
SwitchFailed(t) ==
    /\ phase[t] = "switching"
    /\ GiveBack(t)
    /\ UNCHANGED owner

\* release() at the end of the transaction, however it ended.
Release(t) ==
    /\ phase[t] = "holding"
    /\ GiveBack(t)
    /\ UNCHANGED owner

\* connection_released(c): client c has detached its connection.
ConnectionReleased(c) ==
    /\ owner = c
    /\ owner' = NoClient
    /\ UNCHANGED <<phase, leaseHeld, queueVars>>

TaskStep(t) ==
    \/ AcquireFree(t) \/ Enqueue(t) \/ Resume(t)
    \/ AbandonQueued(t) \/ AbandonGranted(t)
    \/ SwitchDone(t) \/ SwitchFailed(t) \/ Release(t)

Next ==
    \/ \E t \in Tasks : TaskStep(t)
    \/ \E c \in Clients : ConnectionReleased(c)

Spec == Init /\ [][Next]_vars

\* A resolved waiter is resumed by the event loop; a switch and a transaction
\* end because every await in them has a deadline.
Fairness ==
    \A t \in Tasks : /\ WF_vars(Resume(t))
                     /\ WF_vars(SwitchDone(t) \/ SwitchFailed(t))
                     /\ WF_vars(Release(t))

FairSpec == Spec /\ Fairness


------------------------------------------------------------------------------
TypeOK ==
    /\ phase \in [Tasks -> Phases]
    /\ leaseHeld \in BOOLEAN
    /\ owner \in Clients \cup {NoClient}
    /\ commandWaiters \in Seq(Tasks)
    /\ pollWaiters \in Seq(Tasks)
    /\ consecutivePriorityCommands \in 0..MaxPriorityCommandBurst

\* Transactions of all clients never overlap, and the lease is never lost:
\* whatever deadline, cancellation or failed switch interferes, exactly one
\* task answers for a lease that is held.
LeaseAccounting ==
    /\ \A t, u \in Lessees : t = u
    /\ leaseHeld <=> Lessees # {}

\* A free lease has no waiters (nobody is left behind when it becomes free).
NobodyLeftBehind == ~leaseHeld => commandWaiters = <<>> /\ pollWaiters = <<>>

\* Each queue holds, once, exactly the tasks of its priority that still wait:
\* a task that gave up is never handed the lease later.
Waiters(priority) ==
    {t \in Tasks : phase[t] = "queued" /\ PriorityOf[t] = priority}

Holds(queue, priority) ==
    IsInjective(queue) /\ ToSet(queue) = Waiters(priority)

QueuesExact == /\ Holds(commandWaiters, "command")
               /\ Holds(pollWaiters, "poll")

\* While a task runs its transaction no other client is on record as having a
\* retained connection.
OwnerIsLessee ==
    \A t \in Tasks : phase[t] = "holding" => owner \in {ClientOf[t], NoClient}

------------------------------------------------------------------------------
\* PriorityLease is implemented.  A poll's budget is what the counter and its
\* place in the queue leave for commands.

Lessee == IF Lessees = {} THEN NoTask ELSE CHOOSE t \in Lessees : TRUE

Place(t) == CHOOSE i \in DOMAIN pollWaiters : pollWaiters[i] = t

Budget(t) ==
    IF phase[t] = "queued" /\ PriorityOf[t] = "poll"
    THEN MaxPriorityCommandBurst * Place(t) - consecutivePriorityCommands
    ELSE 0

Lease == INSTANCE PriorityLease
           WITH Polls <- {t \in Tasks : PriorityOf[t] = "poll"},
                Burst <- MaxPriorityCommandBurst,
                lessee <- Lessee,
                waiting <- {t \in Tasks : phase[t] = "queued"},
                budget <- [t \in Tasks |-> Budget(t)]

\* The arbiter implements the abstract lease; in particular a queued poll runs
\* after at most three commands per poll ahead of it and itself.
ImplementsPriorityLease == Lease!Spec

\* Every waiter, command or poll, is eventually handed the lease, however
\* often the other tasks come back.
EveryWaiterServed ==
    \A t \in Tasks : phase[t] = "queued" ~> phase[t] # "queued"

==============================================================================
