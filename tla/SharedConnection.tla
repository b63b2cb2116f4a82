--------------------------- MODULE SharedConnection ---------------------------
(***************************************************************************)
(* The BLE clients of several purifier entries that share one lease: the   *)
(* transaction path of client.py (preflight, lease, preparation, lock,     *)
(* exchange, idle disconnect, switch, close) and the connection lifecycle  *)
(* of _connection.py and _session.py (attach, detach, disconnect callback, *)
(* recovery of a malformed listener), composed with LeaseArbiter.          *)
(*                                                                         *)
(* An actor is a coroutine that can hold a client's transaction lock: a    *)
(* transaction or a listener recovery (both are tasks of the arbiter), the *)
(* idle disconnect of a client, or its async_close.  job[a].stage is the   *)
(* await it is suspended at; at a stage of AtOnce it is not suspended, and *)
(* nobody else runs before it does (a free asyncio.Lock is taken without a *)
(* pause, a waiter of a busy one is woken later).                          *)
(*                                                                         *)
(* A connection is a number, new for every transport of a client, so that  *)
(* a callback that arrives late still names its own.                       *)
(***************************************************************************)
EXTENDS Naturals, FiniteSets

CONSTANTS Transactions,   \* calls of _async_write_and_wait_many
          Recoveries,     \* notification recovery tasks, one per client
          Clients, ClientOf, PriorityOf, MaxPriorityCommandBurst,
          MaxConnections, \* bound: transports one client establishes
          EagerTasks,     \* whether a created task runs at once, up to its
                          \* first await, as hass.async_create_task does
          NoTask, NoClient, NoActor

Tasks == Transactions \cup Recoveries

IdleTask(c) == <<"idle", c>>
Closer(c) == <<"close", c>>
Actors == Tasks \cup {IdleTask(c) : c \in Clients} \cup {Closer(c) : c \in Clients}

ASSUME SharedAssumption ==
    /\ Transactions \cap Recoveries = {}
    /\ ClientOf \in [Tasks -> Clients]
    /\ PriorityOf \in [Tasks -> {"command", "poll"}]
    /\ MaxPriorityCommandBurst \in Nat
    /\ \A c \in Clients : IdleTask(c) \notin Tasks /\ Closer(c) \notin Tasks
    /\ NoTask \notin Tasks
    /\ NoClient \notin Clients
    /\ NoActor \notin Actors

NoConn == 0
Conns == 1..MaxConnections

VARIABLES
    phase, leaseHeld, owner, commandWaiters, pollWaiters,
    consecutivePriorityCommands,          \* the arbiter's
    job,        \* what each actor does: the await it is suspended at, the
                \* connection it works on, the client it asked to let go
    attached,   \* the connection cached in each client's session
    radio,      \* radio[c][n]: what became of connection n of client c
    lock,       \* the actor that has each client's transaction lock
    timer,      \* whether each client's idle-disconnect timer is armed
    staleIdle,  \* whether _idle_disconnect_task names a task that is over
    closed

arbiterVars == <<phase, leaseHeld, owner, commandWaiters, pollWaiters,
                 consecutivePriorityCommands>>
linkVars == <<attached, radio>>
idleVars == <<timer, staleIdle>>
vars == <<arbiterVars, job, linkVars, lock, idleVars, closed>>

Arbiter == INSTANCE LeaseArbiter

\* "lost": the transport went down and its disconnected callback is due.
RadioStates == {"unused", "up", "lost", "gone"}

AtOnce == {"lock", "switchLock", "failed"}

Stages == AtOnce \cup
    {"off", "idleWait", "idleOver", "lease", "switchIdle", "switchLockWait",
     "switchDrop", "prepare", "lockWait", "connect", "exchange", "stopNotify",
     "drop", "recovery", "done"}

Job(stage, conn, from) == [stage |-> stage, conn |-> conn, from |-> from]
Off == Job("off", NoConn, NoClient)

Init ==
    /\ Arbiter!Init
    /\ job = [a \in Actors |-> Off]
    /\ attached = [c \in Clients |-> NoConn]
    /\ radio = [c \in Clients |-> [n \in Conns |-> "unused"]]
    /\ lock = [c \in Clients |-> NoActor]
    /\ timer = [c \in Clients |-> FALSE]
    /\ staleIdle = [c \in Clients |-> FALSE]
    /\ closed = [c \in Clients |-> FALSE]

------------------------------------------------------------------------------
At(a, stage) == job[a].stage = stage

To(a, stage) == job' = [job EXCEPT ![a].stage = stage]
Become(a, newJob) == job' = [job EXCEPT ![a] = newJob]

Up(c, n) == n # NoConn /\ radio[c][n] = "up"

\* has_connected_client()
Connected(c) == Up(c, attached[c])

NobodyRuns == \A b \in Actors : job[b].stage \notin AtOnce

\* Actor a is suspended and the event loop lets it go on.
Resumes(a, stage) == At(a, stage) /\ NobodyRuns

\* Mutant of FindsFree: whether the lock is taken is not looked at.
FindsTaken(a, c) == At(a, "lock") \/ Resumes(a, "lockWait")

\* A transaction lock is free for actor a, who wants it or was waiting for it.
FindsFree(a, c) ==
    /\ At(a, "lock") \/ Resumes(a, "lockWait")
    /\ lock[c] = NoActor

IdleRunning(c) == ~At(IdleTask(c), "off")

RecoveryRunning(c) == \E r \in Recoveries : ClientOf[r] = c /\ ~At(r, "off")

Lock(c, a) == lock' = [lock EXCEPT ![c] = a]
Unlock(c) == lock' = [lock EXCEPT ![c] = NoActor]

\* The synchronous beginning of async_drop: the session forgets its connection
\* and the arbiter its owner, before anything is disconnected.
Detach(c) ==
    /\ attached' = [attached EXCEPT ![c] = NoConn]
    /\ owner' = IF owner = c THEN NoClient ELSE owner

restOfArbiter == <<phase, leaseHeld, commandWaiters, pollWaiters,
                   consecutivePriorityCommands>>

\* async_drop by actor a, which has or just took client c's lock: the actor
\* awaits the transport's disconnect(), or Returns at once if nothing was
\* cached.  The await ends when the link is down or at its deadline, that is
\* whether LinkLost happened or not.
Drop(a, c, Returns) ==
    /\ Detach(c)
    /\ IF attached[c] = NoConn THEN Returns
       ELSE Lock(c, a) /\ To(a, "drop") /\ UNCHANGED restOfArbiter

------------------------------------------------------------------------------
\* Preflight and lease

\* Where a task goes as soon as it has the lease and its client is the owner:
\* a recovery to the lock, a transaction through _async_prepare_connection.
WithLease(t) ==
    IF t \in Recoveries THEN "lock"
    ELSE IF closed[ClientOf[t]] THEN "failed"
    ELSE IF Connected(ClientOf[t]) THEN "lock" ELSE "prepare"

\* The lease was obtained.  Another client that still owns the connection is
\* asked to let go (_async_release_for_connection_switch): without a pause its
\* timer is cancelled and its idle disconnect, if one runs, is waited for.
EnterLease(t, conn, timers) ==
    IF owner \in {NoClient, ClientOf[t]}
    THEN Become(t, Job(WithLease(t), conn, NoClient)) /\ timer' = timers
    ELSE /\ Become(t, Job(IF IdleRunning(owner) THEN "switchIdle" ELSE "switchLock",
                          conn, owner))
         /\ timer' = [timers EXCEPT ![owner] = FALSE]

\* arbiter.async_acquire(): the lease at once, or a place in a queue.
RequestLease(t, conn, timers) ==
    \/ Arbiter!AcquireFree(t) /\ EnterLease(t, conn, timers)
    \/ /\ Arbiter!Enqueue(t)
       /\ Become(t, Job("lease", conn, NoClient))
       /\ timer' = timers

\* A transaction starts: the idle timer is cancelled, an idle disconnect that
\* already runs is waited for.
Start(t) ==
    LET c == ClientOf[t]
        timers == [timer EXCEPT ![c] = FALSE]
    IN  /\ t \in Transactions
        /\ Resumes(t, "off")
        /\ IF IdleRunning(c)
           THEN To(t, "idleWait") /\ timer' = timers /\ UNCHANGED arbiterVars
           ELSE RequestLease(t, NoConn, timers)
        /\ UNCHANGED <<linkVars, lock, staleIdle, closed>>

\* The idle disconnect it waited for is over.
IdleWaitOver(t) ==
    /\ Resumes(t, "idleOver")
    /\ RequestLease(t, NoConn, timer)
    /\ UNCHANGED <<linkVars, lock, staleIdle, closed>>

IdleWaitFails(t) ==
    /\ Resumes(t, "idleWait") \/ Resumes(t, "idleOver")
    /\ Become(t, Off)
    /\ UNCHANGED <<arbiterVars, linkVars, lock, idleVars, closed>>

LeaseGranted(t) ==
    /\ Resumes(t, "lease")
    /\ Arbiter!Resume(t)
    /\ EnterLease(t, job[t].conn, timer)
    /\ UNCHANGED <<linkVars, lock, staleIdle, closed>>

\* Mutant of LeaseFails: the lease is released although it was not obtained.
LeaseFailsInsideTry(t) ==
    /\ Resumes(t, "lease")
    /\ Arbiter!GiveBack(t)
    /\ Become(t, Off)
    /\ UNCHANGED <<owner, linkVars, lock, idleVars, closed>>

LeaseFails(t) ==
    /\ Resumes(t, "lease")
    /\ Arbiter!AbandonQueued(t) \/ Arbiter!AbandonGranted(t)
    /\ Become(t, Off)
    /\ UNCHANGED <<linkVars, lock, idleVars, closed>>

------------------------------------------------------------------------------
\* The switch: the previous owner drops its connection under its own lock

Switched(t) ==
    /\ Arbiter!SwitchDone(t)
    /\ Become(t, [job[t] EXCEPT !.stage = WithLease(t), !.from = NoClient])

SwitchLocks(t) ==
    LET p == job[t].from IN
    /\ At(t, "switchLock") \/ Resumes(t, "switchLockWait")
    /\ lock[p] = NoActor
    /\ IF attached[p] = NoConn
       THEN Switched(t) /\ UNCHANGED <<attached, lock>>
       ELSE Detach(p) /\ Lock(p, t) /\ To(t, "switchDrop") /\ UNCHANGED restOfArbiter
    /\ UNCHANGED <<radio, idleVars, closed>>

SwitchWaits(t) ==
    /\ At(t, "switchLock")
    /\ lock[job[t].from] # NoActor
    /\ To(t, "switchLockWait")
    /\ UNCHANGED <<arbiterVars, linkVars, lock, idleVars, closed>>

\* Mutant of SwitchDropped: the previous owner's lock is not released.
SwitchDroppedKeepsLock(t) ==
    /\ Resumes(t, "switchDrop")
    /\ Switched(t)
    /\ UNCHANGED <<linkVars, lock, idleVars, closed>>

SwitchDropped(t) ==
    /\ Resumes(t, "switchDrop")
    /\ Unlock(job[t].from)
    /\ Switched(t)
    /\ UNCHANGED <<linkVars, idleVars, closed>>

\* The deadline passed while the idle disconnect or the lock kept the owner
\* busy, or the switching task was cancelled while it waited.
SwitchFails(t) ==
    LET p == job[t].from IN
    /\ \/ Resumes(t, "switchIdle") /\ UNCHANGED lock
       \/ Resumes(t, "switchLockWait") /\ UNCHANGED lock
       \/ Resumes(t, "switchDrop") /\ Unlock(p)
    /\ Arbiter!SwitchFailed(t)
    /\ Become(t, Off)
    /\ UNCHANGED <<linkVars, idleVars, closed>>

------------------------------------------------------------------------------
\* The transaction

\* A fresh advertisement and a connectable path arrived, or did not.
Prepared(t) ==
    /\ Resumes(t, "prepare")
    /\ To(t, "lock") \/ To(t, "failed")
    /\ UNCHANGED <<arbiterVars, linkVars, lock, idleVars, closed>>

\* The lock of actor a's client c is busy.
WaitsForLock(a, c) ==
    /\ At(a, "lock")
    /\ lock[c] # NoActor
    /\ To(a, "lockWait")
    /\ UNCHANGED <<arbiterVars, linkVars, lock, idleVars, closed>>

\* Mutant of ResetForAttempt: a connection that is down stays cached.
ResetNothing(c) == UNCHANGED attached

\* reset_for_connection_attempt()
ResetForAttempt(c) == attached' = [attached EXCEPT ![c] = NoConn]

\* The transaction lock, and ConnectionManager.async_run up to its first await.
LocksTransaction(t) ==
    LET c == ClientOf[t] IN
    /\ t \in Transactions
    /\ FindsFree(t, c)
    /\ \/ /\ closed[c] \/ RecoveryRunning(c)
          /\ To(t, "failed")
          /\ UNCHANGED <<attached, lock>>
       \/ /\ ~closed[c] /\ ~RecoveryRunning(c)
          /\ Connected(c)
          /\ Lock(c, t)
          /\ Become(t, Job("exchange", attached[c], NoClient))
          /\ UNCHANGED attached
       \/ /\ ~closed[c] /\ ~RecoveryRunning(c)
          /\ ~Connected(c)
          /\ Lock(c, t)
          /\ To(t, "connect")
          /\ ResetForAttempt(c)
    /\ UNCHANGED <<arbiterVars, radio, idleVars, closed>>

LockFails(t) ==
    /\ Resumes(t, "lockWait")
    /\ To(t, "failed")
    /\ UNCHANGED <<arbiterVars, linkVars, lock, idleVars, closed>>

\* A new transport was established (or went down again before the attempt
\* returned).  It is dropped at once if it is down or the client was closed.
Connects(t) ==
    LET c == ClientOf[t] IN
    /\ Resumes(t, "connect")
    /\ \E n \in Conns, link \in {"up", "gone"} :
         /\ radio[c][n] = "unused"
         /\ \A m \in 1..(n - 1) : radio[c][m] # "unused"
         /\ radio' = [radio EXCEPT ![c][n] = link]
         /\ IF closed[c] \/ link = "gone"
            THEN Detach(c) /\ To(t, "drop")
            ELSE /\ attached' = [attached EXCEPT ![c] = n]
                 /\ Become(t, Job("exchange", n, NoClient))
                 /\ UNCHANGED owner
    /\ UNCHANGED <<restOfArbiter, lock, idleVars, closed>>

ConnectFails(t) ==
    /\ Resumes(t, "connect")
    /\ Unlock(ClientOf[t])
    /\ To(t, "failed")
    /\ UNCHANGED <<arbiterVars, linkVars, idleVars, closed>>

\* The end of a transaction: lock and lease are given back.
Finish(t) ==
    /\ Unlock(ClientOf[t])
    /\ Arbiter!GiveBack(t)
    /\ Become(t, Off)

\* Mutant of ExchangeSucceeds: a client closed meanwhile keeps its connection.
SucceedsAlthoughClosed(t) ==
    /\ Resumes(t, "exchange")
    /\ attached[ClientOf[t]] = job[t].conn
    /\ timer' = [timer EXCEPT ![ClientOf[t]] = TRUE]
    /\ Finish(t)
    /\ UNCHANGED <<owner, linkVars, staleIdle, closed>>

\* Every reply arrived and no disconnect was signalled.  The connection is
\* kept and its idle timer armed, unless the client was closed meanwhile.
ExchangeSucceeds(t) ==
    LET c == ClientOf[t] IN
    /\ Resumes(t, "exchange")
    /\ attached[c] = job[t].conn
    /\ IF closed[c]
       THEN Drop(t, c, Finish(t)) /\ UNCHANGED timer
       ELSE /\ timer' = [timer EXCEPT ![c] = TRUE]
            /\ Finish(t)
            /\ UNCHANGED <<owner, attached>>
    /\ UNCHANGED <<radio, staleIdle, closed>>

\* The replies arrived but the listener could not be cleaned up
\* (discard_session): the timer just armed is cancelled again.
ExchangeDiscards(t) ==
    LET c == ClientOf[t] IN
    /\ Resumes(t, "exchange")
    /\ attached[c] = job[t].conn
    /\ Drop(t, c, Finish(t))
    /\ timer' = [timer EXCEPT ![c] = FALSE]
    /\ UNCHANGED <<radio, staleIdle, closed>>

\* Any error, timeout, disconnect or cancellation drops the connection.
ExchangeFails(t) ==
    /\ Resumes(t, "exchange")
    /\ Drop(t, ClientOf[t], Finish(t))
    /\ UNCHANGED <<radio, idleVars, closed>>

Dropped(t) ==
    /\ t \in Tasks
    /\ Resumes(t, "drop")
    /\ Finish(t)
    /\ UNCHANGED <<owner, linkVars, idleVars, closed>>

Failed(t) ==
    /\ At(t, "failed")
    /\ Arbiter!Release(t)
    /\ Become(t, Off)
    /\ UNCHANGED <<linkVars, lock, idleVars, closed>>

------------------------------------------------------------------------------
\* Recovery of a malformed listener

\* A notification of the current connection could not be decoded while no
\* transaction listened: schedule_notification_recovery.
MalformedFrame(r) ==
    LET c == ClientOf[r] IN
    /\ r \in Recoveries
    /\ Resumes(r, "off")
    /\ ~closed[c]
    /\ Connected(c)
    /\ lock[c] \notin Transactions
    /\ RequestLease(r, attached[c], timer)
    /\ UNCHANGED <<linkVars, lock, staleIdle, closed>>

\* The connection is dropped only if it is still the one that misbehaved.
LocksRecovery(r) ==
    LET c == ClientOf[r] IN
    /\ r \in Recoveries
    /\ FindsFree(r, c)
    /\ IF attached[c] = job[r].conn
       THEN Lock(c, r) /\ To(r, "stopNotify") /\ UNCHANGED arbiterVars
       ELSE Arbiter!Release(r) /\ Become(r, Off) /\ UNCHANGED lock
    /\ UNCHANGED <<linkVars, idleVars, closed>>

ListenerStopped(r) ==
    /\ Resumes(r, "stopNotify")
    /\ Drop(r, ClientOf[r], Finish(r))
    /\ UNCHANGED <<radio, idleVars, closed>>

\* async_close cancelled the recovery: the drop is left to it.
ListenerStopCancelled(r) ==
    /\ Resumes(r, "stopNotify")
    /\ At(Closer(ClientOf[r]), "recovery")
    /\ Finish(r)
    /\ UNCHANGED <<owner, linkVars, idleVars, closed>>

------------------------------------------------------------------------------
\* The idle disconnect and close

\* Client c's idle disconnect ends, and whoever waits for it goes on.
AfterIdle(a, c) ==
    CASE a = IdleTask(c) -> Off
      [] a \in Tasks /\ At(a, "idleWait") /\ ClientOf[a] = c ->
           [job[a] EXCEPT !.stage = "idleOver"]
      [] a \in Tasks /\ At(a, "switchIdle") /\ job[a].from = c ->
           [job[a] EXCEPT !.stage = "switchLockWait"]
      [] a = Closer(c) /\ At(a, "idleWait") ->
           [job[a] EXCEPT !.stage = "lockWait"]
      [] OTHER -> job[a]

\* Mutant of IdleEnds: the lock is not released.
IdleEndsLocked(c) ==
    /\ job' = [a \in Actors |-> AfterIdle(a, c)]
    /\ UNCHANGED lock

IdleEnds(c) ==
    /\ job' = [a \in Actors |-> AfterIdle(a, c)]
    /\ Unlock(c)

\* The timer fires: the idle disconnect is started, unless one is on record.
TimerFires(c) ==
    /\ NobodyRuns
    /\ timer[c]
    /\ timer' = [timer EXCEPT ![c] = FALSE]
    /\ IF closed[c] \/ IdleRunning(c) \/ staleIdle[c]
       THEN UNCHANGED job
       ELSE To(IdleTask(c), IF EagerTasks THEN "lock" ELSE "lockWait")
    /\ UNCHANGED <<arbiterVars, linkVars, lock, staleIdle, closed>>

\* A task that found a free lock and nothing to disconnect as soon as it was
\* created is over before its creator records it as the running one.
IdleLocks(c) ==
    LET a == IdleTask(c) IN
    /\ FindsFree(a, c)
    /\ Drop(a, c, IdleEnds(c) /\ UNCHANGED restOfArbiter)
    /\ staleIdle' = [staleIdle EXCEPT ![c] = At(a, "lock") /\ attached[c] = NoConn]
    /\ UNCHANGED <<radio, timer, closed>>

IdleDropped(c) ==
    /\ Resumes(IdleTask(c), "drop")
    /\ IdleEnds(c)
    /\ UNCHANGED <<arbiterVars, linkVars, idleVars, closed>>

\* async_close up to its first await.  The recovery is cancelled: it leaves
\* whatever it waits for by its failing step.
Close(c) ==
    /\ Resumes(Closer(c), "off")
    /\ closed' = [closed EXCEPT ![c] = TRUE]
    /\ timer' = [timer EXCEPT ![c] = FALSE]
    /\ To(Closer(c), IF RecoveryRunning(c) THEN "recovery"
                     ELSE IF IdleRunning(c) THEN "idleWait" ELSE "lock")
    /\ UNCHANGED <<arbiterVars, linkVars, lock, staleIdle>>

RecoveryCancelled(c) ==
    /\ Resumes(Closer(c), "recovery")
    /\ ~RecoveryRunning(c)
    /\ To(Closer(c), IF IdleRunning(c) THEN "idleWait" ELSE "lock")
    /\ UNCHANGED <<arbiterVars, linkVars, lock, idleVars, closed>>

CloseEnds(c) ==
    /\ To(Closer(c), "done")
    /\ Unlock(c)

CloseLocks(c) ==
    /\ FindsFree(Closer(c), c)
    /\ Drop(Closer(c), c, CloseEnds(c) /\ UNCHANGED restOfArbiter)
    /\ UNCHANGED <<radio, idleVars, closed>>

\* The lock stayed busy past the deadline: close returns and leaves the
\* connection to the transaction that has the lock.
CloseGivesUp(c) ==
    /\ Resumes(Closer(c), "lockWait")
    /\ lock[c] # NoActor
    /\ To(Closer(c), "done")
    /\ UNCHANGED <<arbiterVars, linkVars, lock, idleVars, closed>>

CloseDropped(c) ==
    /\ Resumes(Closer(c), "drop")
    /\ CloseEnds(c)
    /\ UNCHANGED <<arbiterVars, linkVars, idleVars, closed>>

------------------------------------------------------------------------------
\* The radio

LinkLost(c, n) ==
    /\ NobodyRuns
    /\ radio[c][n] = "up"
    /\ radio' = [radio EXCEPT ![c][n] = "lost"]
    /\ UNCHANGED <<arbiterVars, job, attached, lock, idleVars, closed>>

\* Mutant of DisconnectCallback: a late callback detaches whatever is cached.
DisconnectCallbackOfAny(c, n) ==
    /\ NobodyRuns
    /\ radio[c][n] = "lost"
    /\ radio' = [radio EXCEPT ![c][n] = "gone"]
    /\ Detach(c)
    /\ UNCHANGED <<restOfArbiter, job, lock, idleVars, closed>>

\* handle_disconnect: only the callback of the cached connection detaches it.
\* The idle timer stays as it is.
DisconnectCallback(c, n) ==
    /\ NobodyRuns
    /\ radio[c][n] = "lost"
    /\ radio' = [radio EXCEPT ![c][n] = "gone"]
    /\ IF attached[c] = n THEN Detach(c) ELSE UNCHANGED <<attached, owner>>
    /\ UNCHANGED <<restOfArbiter, job, lock, idleVars, closed>>

------------------------------------------------------------------------------
\* What a task does next once it has started.
Progress(t) ==
    \/ IdleWaitOver(t) \/ LeaseGranted(t)
    \/ SwitchLocks(t) \/ SwitchWaits(t) \/ SwitchDropped(t)
    \/ Prepared(t) \/ WaitsForLock(t, ClientOf[t]) \/ LocksTransaction(t)
    \/ Connects(t) \/ ConnectFails(t)
    \/ ExchangeSucceeds(t) \/ ExchangeDiscards(t) \/ ExchangeFails(t)
    \/ Dropped(t) \/ Failed(t)
    \/ LocksRecovery(t) \/ ListenerStopped(t) \/ ListenerStopCancelled(t)

IdleProgress(c) == WaitsForLock(IdleTask(c), c) \/ IdleLocks(c) \/ IdleDropped(c)

CloseProgress(c) ==
    \/ RecoveryCancelled(c) \/ WaitsForLock(Closer(c), c)
    \/ CloseLocks(c) \/ CloseDropped(c)

\* How an actor starts, and the deadlines of its waits for other actors.
Starts ==
    \/ \E t \in Tasks : Start(t) \/ MalformedFrame(t)
    \/ \E c \in Clients : TimerFires(c) \/ Close(c)

GivesUpWaiting ==
    \/ \E t \in Tasks : \/ IdleWaitFails(t) \/ LeaseFails(t)
                        \/ SwitchFails(t) \/ LockFails(t)
    \/ \E c \in Clients : CloseGivesUp(c)

Radio == \E c \in Clients, n \in Conns : LinkLost(c, n) \/ DisconnectCallback(c, n)

Next ==
    \/ \E t \in Tasks : Progress(t)
    \/ \E c \in Clients : IdleProgress(c) \/ CloseProgress(c)
    \/ Starts \/ GivesUpWaiting \/ Radio

Spec == Init /\ [][Next]_vars

\* Every await on the radio has a deadline.  The event loop runs what is ready
\* in order and an asyncio.Lock wakes its waiters in order, so that whoever can
\* go on again and again does.  Deadlines of waits for other actors are not
\* needed.
Fairness ==
    /\ \A t \in Tasks : SF_vars(Progress(t))
    /\ \A c \in Clients : SF_vars(IdleProgress(c)) /\ SF_vars(CloseProgress(c))

FairSpec == Spec /\ Fairness

------------------------------------------------------------------------------
TypeOK ==
    /\ Arbiter!TypeOK
    /\ job \in [Actors -> [stage : Stages, conn : {NoConn} \cup Conns,
                           from : Clients \cup {NoClient}]]
    /\ attached \in [Clients -> {NoConn} \cup Conns]
    /\ radio \in [Clients -> [Conns -> RadioStates]]
    /\ lock \in [Clients -> Actors \cup {NoActor}]
    /\ timer \in [Clients -> BOOLEAN]
    /\ staleIdle \in [Clients -> BOOLEAN]
    /\ closed \in [Clients -> BOOLEAN]

\* The shared lease behaves as LeaseArbiter says, however the clients' locks,
\* timers, callbacks and recoveries interleave: every call the clients make of
\* it is one of its steps, made by the task that may make it.
ImplementsArbiter == Arbiter!Spec

\* What needs client c's transaction lock: connecting, an exchange, a listener
\* cleanup and every disconnect except the radio's own.
Working(a, c) ==
    \/ At(a, "switchDrop") /\ job[a].from = c
    \/ /\ a \in {t \in Tasks : ClientOf[t] = c} \cup {IdleTask(c), Closer(c)}
       /\ job[a].stage \in {"connect", "exchange", "stopNotify", "drop"}

\* BLE work on one purifier never overlaps: the lock names the one actor that
\* works on the client, and is free when there is none.
WorkSerialized ==
    \A c \in Clients :
        LET working == {a \in Actors : Working(a, c)} IN
        working = IF lock[c] = NoActor THEN {} ELSE {lock[c]}

\* A running exchange keeps its connection: idle timer, switch, close, recovery
\* and the callbacks of earlier connections leave it alone, only the callback
\* of its own connection takes it away.
ExchangeIntact ==
    \A t \in Transactions :
        At(t, "exchange") =>
            \/ attached[ClientOf[t]] = job[t].conn
            \/ /\ attached[ClientOf[t]] = NoConn
               /\ radio[ClientOf[t]][job[t].conn] = "gone"

\* session.attach never finds a connection it would have to replace.
AttachNeverRefused ==
    \A t \in Transactions : At(t, "connect") => attached[ClientOf[t]] = NoConn

\* Unload: once async_close has returned and nobody has the lock any more, no
\* connection is retained and no idle disconnect is scheduled, even if close
\* gave up waiting for the lock.
CloseLeavesNothing ==
    \A c \in Clients :
        At(Closer(c), "done") /\ lock[c] = NoActor =>
            attached[c] = NoConn /\ ~timer[c] /\ ~IdleRunning(c)

\* Idle cleanup: when the timer of a retained connection fires, a disconnect
\* starts (or runs already).
IdleTimerDisconnects ==
    \A c \in Clients :
        timer[c] /\ Connected(c) /\ ~closed[c] => ~staleIdle[c] \/ IdleRunning(c)

\* The shared Bluetooth slot: no purifier connects while another one's
\* connection is still being released.
ReleasedBeforeConnecting ==
    \A t \in Transactions, c \in Clients, n \in Conns :
        At(t, "connect") /\ c # ClientOf[t] /\ Up(c, n) =>
            ~At(IdleTask(c), "drop") /\ ~At(Closer(c), "drop")

\* Never two clients with a cached, connected session.
OneRetained == \A c, d \in Clients : Connected(c) /\ Connected(d) => c = d

\* Nobody waits forever, without the help of any deadline: there is no circular
\* wait between the lease, the locks, an idle disconnect and a recovery.
EverythingEnds ==
    /\ \A t \in Tasks : ~At(t, "off") ~> At(t, "off")
    /\ \A c \in Clients : closed[c] ~> At(Closer(c), "done")

==============================================================================
