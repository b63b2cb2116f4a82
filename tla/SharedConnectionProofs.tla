------------------------- MODULE SharedConnectionProofs -------------------------
(***************************************************************************)
(* The clients' path to the lease, for any number of purifiers, calls and  *)
(* connections, in three layers, each inductive given the one before it.   *)
(*   Shared   every actor is at an await of its own coroutine, a task's    *)
(*            await tells which phase of the arbiter it is in, and a       *)
(*            client whose connection went away is no longer the owner.    *)
(*            It shows that each call of the arbiter is one of its steps.  *)
(*   Locked   every actor agrees with the locks, on the connection it      *)
(*            works on and on what has to be detached while it works.      *)
(*   Closing  what async_close has already stopped when it gets further.   *)
(***************************************************************************)
EXTENDS SharedConnection, TLAPS

Lease == INSTANCE LeaseArbiterProofs

Starting == {"off", "idleWait", "idleOver"}
Switching == {"switchIdle", "switchLock", "switchLockWait", "switchDrop"}

\* The arbiter's phases of a task that is suspended at a stage.
PhasesAt(stage) ==
    IF stage \in Starting THEN {"idle"}
    ELSE IF stage = "lease" THEN {"queued", "granted"}
    ELSE IF stage \in Switching THEN {"switching"} ELSE {"holding"}

\* The awaits of each coroutine.
StagesOf(a) ==
    IF a \in Transactions THEN Stages \ {"stopNotify", "recovery", "done"}
    ELSE IF a \in Recoveries
    THEN Switching \cup {"off", "lease", "lock", "lockWait", "failed",
                         "stopNotify", "drop"}
    ELSE IF a \in {IdleTask(c) : c \in Clients}
    THEN {"off", "lock", "lockWait", "drop"}
    ELSE {"off", "recovery", "idleWait", "lock", "lockWait", "drop", "done"}

IsJob(a, j) ==
    /\ j \in [stage : Stages, conn : {NoConn} \cup Conns,
              from : Clients \cup {NoClient}]
    /\ j.stage \in StagesOf(a)
    /\ j.stage = "exchange" => j.conn # NoConn
    /\ a \in Recoveries /\ j.stage # "off" => j.conn # NoConn
    /\ j.stage \in Switching => j.from \in Clients

Jobs ==
    /\ job = [a \in Actors |-> job[a]]
    /\ \A a \in Actors : IsJob(a, job[a])

Links ==
    /\ attached \in [Clients -> {NoConn} \cup Conns]
    /\ radio \in [Clients -> [Conns -> RadioStates]]
    /\ lock \in [Clients -> Actors \cup {NoActor}]
    /\ timer \in [Clients -> BOOLEAN]
    /\ staleIdle \in [Clients -> BOOLEAN]
    /\ closed \in [Clients -> BOOLEAN]

InPhase == \A t \in Tasks : phase[t] \in PhasesAt(job[t].stage)

\* A connection that went away took the ownership along.
Disowned ==
    \A t \in Tasks :
        /\ job[t].stage \in {"exchange", "stopNotify"}
        /\ attached[ClientOf[t]] = NoConn
        => owner # ClientOf[t]

Shared == Lease!IInv /\ Jobs /\ Links /\ InPhase /\ Disowned

LeaseStep == Arbiter!Next \/ UNCHANGED arbiterVars

\* What a step has to show for Shared.
Sound == LeaseStep /\ Jobs' /\ Links' /\ InPhase' /\ Disowned'

------------------------------------------------------------------------------
\* LeaseArbiterProofs speaks of the same arbiter.

LEMMA SameChoice ==
    /\ Arbiter!NextWaiter = Lease!NextWaiter
    /\ \A t : Arbiter!GiveBack(t) <=> Lease!GiveBack(t)
<1>1. /\ Arbiter!ServeCommand <=> Lease!ServeCommand
      /\ Arbiter!NextWaiter = Lease!NextWaiter
      /\ Arbiter!NextBurst = Lease!NextBurst
  BY DEF Arbiter!ServeCommand, Lease!ServeCommand, Arbiter!BothWait, Lease!BothWait,
         Arbiter!BurstSpent, Lease!BurstSpent, Arbiter!NextWaiter, Lease!NextWaiter,
         Arbiter!NextBurst, Lease!NextBurst
<1> QED BY <1>1 DEF Arbiter!GiveBack, Lease!GiveBack

LEMMA SameNext == Arbiter!Next <=> Lease!Next
<1> USE DEF Arbiter!queueVars, Lease!queueVars
<1>1. \A t : Arbiter!AcquireFree(t) <=> Lease!AcquireFree(t)
  BY DEF Arbiter!AcquireFree, Lease!AcquireFree, Arbiter!TakeOver, Lease!TakeOver
<1>2. \A t : Arbiter!Enqueue(t) <=> Lease!Enqueue(t)
  BY DEF Arbiter!Enqueue, Lease!Enqueue
<1>3. \A t : Arbiter!Resume(t) <=> Lease!Resume(t)
  BY DEF Arbiter!Resume, Lease!Resume, Arbiter!TakeOver, Lease!TakeOver
<1>4. \A t : Arbiter!AbandonQueued(t) <=> Lease!AbandonQueued(t)
  BY DEF Arbiter!AbandonQueued, Lease!AbandonQueued, Arbiter!Without, Lease!Without,
         Arbiter!RemoveAt, Lease!RemoveAt
<1>5. \A t : Arbiter!AbandonGranted(t) <=> Lease!AbandonGranted(t)
  BY SameChoice DEF Arbiter!AbandonGranted, Lease!AbandonGranted
<1>6. \A t : Arbiter!SwitchDone(t) <=> Lease!SwitchDone(t)
  BY DEF Arbiter!SwitchDone, Lease!SwitchDone
<1>7. \A t : Arbiter!SwitchFailed(t) <=> Lease!SwitchFailed(t)
  BY SameChoice DEF Arbiter!SwitchFailed, Lease!SwitchFailed
<1>8. \A t : Arbiter!Release(t) <=> Lease!Release(t)
  BY SameChoice DEF Arbiter!Release, Lease!Release
<1>9. \A c : Arbiter!ConnectionReleased(c) <=> Lease!ConnectionReleased(c)
  BY DEF Arbiter!ConnectionReleased, Lease!ConnectionReleased
<1> QED BY <1>1, <1>2, <1>3, <1>4, <1>5, <1>6, <1>7, <1>8, <1>9
        DEF Arbiter!Next, Lease!Next, Arbiter!TaskStep, Lease!TaskStep

LEMMA LeaseStepKeepsInv == Lease!IInv /\ LeaseStep => Lease!IInv'
<1>1. Lease!LeaseAssumption
  BY SharedAssumption DEF Lease!LeaseAssumption
<1>2. LeaseStep => [Lease!Next]_(Lease!vars)
  BY SameNext DEF LeaseStep, arbiterVars, Lease!vars
<1> QED BY <1>1, <1>2, Lease!NextInv

------------------------------------------------------------------------------
\* Jobs

LEMMA ActorKinds ==
    /\ \A t \in Tasks : t \in Actors /\ ClientOf[t] \in Clients
    /\ \A c \in Clients :
         /\ IdleTask(c) \in Actors \ Tasks
         /\ Closer(c) \in Actors \ Tasks
         /\ \A d \in Clients : IdleTask(c) # Closer(d)
         /\ StagesOf(IdleTask(c)) = {"off", "lock", "lockWait", "drop"}
         /\ StagesOf(Closer(c)) = {"off", "recovery", "idleWait", "lock",
                                   "lockWait", "drop", "done"}
    /\ \A c, d : /\ IdleTask(c) = IdleTask(d) => c = d
                 /\ Closer(c) = Closer(d) => c = d
    /\ \A t \in Transactions : /\ t \in Tasks /\ t \notin Recoveries
                               /\ StagesOf(t) = Stages \ {"stopNotify", "recovery", "done"}
    /\ \A r \in Recoveries : /\ r \in Tasks /\ r \notin Transactions
                             /\ StagesOf(r) = Switching \cup
                                  {"off", "lease", "lock", "lockWait", "failed",
                                   "stopNotify", "drop"}
<1> USE SharedAssumption
<1>1. \A t \in Tasks : t \in Actors /\ ClientOf[t] \in Clients
  BY DEF Actors
<1>2. \A c, d : /\ IdleTask(c) = IdleTask(d) => c = d
                /\ Closer(c) = Closer(d) => c = d
                /\ IdleTask(c) # Closer(d)
  BY DEF IdleTask, Closer
<1>3. \A c \in Clients : /\ IdleTask(c) \in Actors \ Tasks
                         /\ Closer(c) \in Actors \ Tasks
  BY DEF Actors
<1>4. \A c \in Clients :
         /\ StagesOf(IdleTask(c)) = {"off", "lock", "lockWait", "drop"}
         /\ StagesOf(Closer(c)) = {"off", "recovery", "idleWait", "lock",
                                   "lockWait", "drop", "done"}
  BY <1>2, <1>3 DEF StagesOf, Tasks
<1>5. \A t \in Transactions : /\ t \in Tasks /\ t \notin Recoveries
                              /\ StagesOf(t) = Stages \ {"stopNotify", "recovery", "done"}
  BY DEF StagesOf, Tasks
<1>6. \A r \in Recoveries : /\ r \in Tasks /\ r \notin Transactions
                            /\ StagesOf(r) = Switching \cup
                                 {"off", "lease", "lock", "lockWait", "failed",
                                  "stopNotify", "drop"}
  BY DEF StagesOf, Tasks
<1> QED BY <1>1, <1>2, <1>3, <1>4, <1>5, <1>6

\* One actor goes on.
LEMMA JobMoves ==
    ASSUME Jobs, NEW a \in Actors, NEW new, IsJob(a, new),
           job' = [job EXCEPT ![a] = new]
    PROVE  /\ Jobs'
           /\ job'[a] = new
           /\ \A b \in Actors \ {a} : job'[b] = job[b]
BY DEF Jobs

LEMMA OffIsJob == \A a : IsJob(a, Off)
BY DEF IsJob, Off, Job, Stages, StagesOf, Switching

LEMMA StageMoves ==
    ASSUME Jobs, NEW a \in Actors, NEW s \in StagesOf(a), s # "exchange",
           s \in Switching => job[a].stage \in Switching,
           a \in Recoveries => job[a].stage # "off",
           To(a, s)
    PROVE  /\ Jobs'
           /\ job'[a].stage = s
           /\ job'[a].conn = job[a].conn
           /\ job'[a].from = job[a].from
           /\ \A b \in Actors \ {a} : job'[b] = job[b]
<1> DEFINE new == [job[a] EXCEPT !.stage = s]
<1>1. IsJob(a, job[a]) /\ job = [b \in Actors |-> job[b]]
  BY DEF Jobs
<1>2. s \in Stages
  BY DEF StagesOf, Stages, AtOnce, Switching
<1>3. IsJob(a, new) /\ new.stage = s /\ new.conn = job[a].conn /\ new.from = job[a].from
  BY <1>1, <1>2 DEF IsJob
<1>4. job' = [job EXCEPT ![a] = new]
  BY <1>1 DEF To
<1> HIDE DEF new
<1> QED BY <1>3, <1>4, JobMoves

------------------------------------------------------------------------------
\* Phases and ownership

LEMMA LeaseFacts ==
    ASSUME Shared
    PROVE  /\ owner \in Clients \cup {NoClient}
           /\ phase \in [Tasks -> {"idle", "queued", "granted", "switching", "holding"}]
           /\ \A t \in Tasks : phase[t] \in {"granted", "switching", "holding"} =>
                /\ leaseHeld
                /\ \A u \in Tasks \ {t} :
                     phase[u] \notin {"granted", "switching", "holding"}
<1>1. Lease!TypeOK /\ Lease!LeaseAccounting
  BY DEF Shared, Lease!IInv
<1> QED BY <1>1 DEF Lease!TypeOK, Lease!Phases, Lease!LeaseAccounting,
                    Lease!Lessees, Lease!LeasePhases

LEMMA GiveBackMoves ==
    ASSUME Shared, NEW t \in Tasks, Arbiter!GiveBack(t)
    PROVE  /\ phase'[t] = "idle"
           /\ \A u \in Tasks \ {t} :
                \/ phase'[u] = phase[u]
                \/ phase[u] = "queued" /\ phase'[u] = "granted"
<1>1. phase' = [u \in Tasks |-> IF u = t THEN "idle"
                                ELSE IF u = Lease!NextWaiter THEN "granted"
                                ELSE phase[u]]
  BY SameChoice DEF Arbiter!GiveBack
<1>2. Lease!NextWaiter # NoTask => phase[Lease!NextWaiter] = "queued"
  BY Lease!NextWaiterWaits, SharedAssumption DEF Shared, Lease!LeaseAssumption
<1>3. NoTask \notin Tasks
  BY SharedAssumption
<1> QED BY <1>1, <1>2, <1>3

\* The task that gave the lease back is at its start, the one it was given to
\* has not noticed yet.
LEMMA BackInPhase ==
    ASSUME Shared, NEW t \in Tasks, Arbiter!GiveBack(t), job'[t] = Off,
           \A b \in Actors \ {t} : job'[b] = job[b]
    PROVE  InPhase'
<1>1. phase'[t] \in PhasesAt(job'[t].stage)
  BY GiveBackMoves DEF Off, Job, PhasesAt, Starting
<1>2. ASSUME NEW u \in Tasks \ {t}
      PROVE  phase'[u] \in PhasesAt(job'[u].stage)
  <2>1. phase[u] \in PhasesAt(job[u].stage) /\ job'[u] = job[u]
    BY <1>2, ActorKinds DEF Shared, InPhase
  <2>2. phase[u] = "queued" => "granted" \in PhasesAt(job[u].stage)
    BY <2>1 DEF PhasesAt
  <2> QED BY <2>1, <2>2, <1>2, GiveBackMoves
<1> QED BY <1>1, <1>2 DEF InPhase

LEMMA OneInPhase ==
    ASSUME Shared, NEW a \in Actors,
           \A b \in Actors \ {a} : job'[b] = job[b],
           \A u \in Tasks \ {a} : phase'[u] = phase[u],
           a \in Tasks => phase'[a] \in PhasesAt(job'[a].stage)
    PROVE  InPhase'
BY ActorKinds DEF Shared, InPhase

\* While one task has the lease, or nobody, no other task has an exchange.
LEMMA LesseeDisowns ==
    ASSUME Shared, NEW t \in Tasks,
           phase[t] \in {"granted", "switching", "holding"} \/ ~leaseHeld,
           \A b \in Actors \ {t} : job'[b] = job[b],
           job'[t].stage \in {"exchange", "stopNotify"} =>
               attached'[ClientOf[t]] # NoConn
    PROVE  Disowned'
<1> SUFFICES ASSUME NEW u \in Tasks \ {t}, job[u].stage \in {"exchange", "stopNotify"}
             PROVE  FALSE
  BY ActorKinds DEF Disowned
<1>1. phase[u] \in PhasesAt(job[u].stage)
  BY DEF Shared, InPhase
<1>2. phase[u] = "holding"
  BY <1>1 DEF PhasesAt, Starting, Switching
<1> QED BY <1>2, LeaseFacts

LEMMA OthersDisown ==
    ASSUME Shared,
           \A u \in Tasks : job'[u].stage \in {"exchange", "stopNotify"} =>
               job[u].stage \in {"exchange", "stopNotify"},
           \A c \in Clients : owner' = c => owner = c /\ attached'[c] = attached[c]
    PROVE  Disowned'
BY ActorKinds DEF Shared, Disowned

\* The session forgets its connection, and the arbiter that client as the owner.
LEMMA DetachStep ==
    ASSUME Shared, NEW c \in Clients, Detach(c)
    PROVE  /\ UNCHANGED restOfArbiter => LeaseStep
           /\ attached' \in [Clients -> {NoConn} \cup Conns]
           /\ attached'[c] = NoConn
           /\ \A d \in Clients \ {c} : attached'[d] = attached[d]
           /\ \A d \in Clients : owner' = d => owner = d /\ attached'[d] = attached[d]
<1>1. attached \in [Clients -> {NoConn} \cup Conns]
  BY DEF Shared, Links
<1>2. NoClient \notin Clients
  BY SharedAssumption
<1>3. /\ attached' = [attached EXCEPT ![c] = NoConn]
      /\ owner' = IF owner = c THEN NoClient ELSE owner
  BY DEF Detach
<1>4. ASSUME UNCHANGED restOfArbiter PROVE LeaseStep
  <2>1. CASE owner = c
    BY <1>3, <1>4, <2>1 DEF restOfArbiter, LeaseStep, Arbiter!Next,
                            Arbiter!ConnectionReleased, Arbiter!queueVars
  <2>2. CASE owner # c
    BY <1>3, <1>4, <2>2 DEF restOfArbiter, LeaseStep, arbiterVars
  <2> QED BY <2>1, <2>2
<1> QED BY <1>1, <1>2, <1>3, <1>4

LEMMA TaskStepIsLeaseStep ==
    ASSUME NEW t \in Tasks, Arbiter!TaskStep(t)
    PROVE  LeaseStep
BY DEF LeaseStep, Arbiter!Next

------------------------------------------------------------------------------
\* Preflight and lease

LEMMA TaskFacts ==
    ASSUME Shared, NEW t \in Tasks
    PROVE  /\ t \in Actors
           /\ ClientOf[t] \in Clients
           /\ IsJob(t, job[t])
           /\ At(t, "lease") => phase[t] \in {"queued", "granted"}
           /\ job[t].stage \in Starting <=> phase[t] = "idle"
           /\ job[t].stage \in Switching =>
                phase[t] = "switching" /\ job[t].from \in Clients
           /\ job[t].stage \notin Starting \cup Switching \cup {"lease"} =>
                phase[t] = "holding"
<1>1. phase[t] \in PhasesAt(job[t].stage)
  BY DEF Shared, InPhase
<1>2. t \in Actors /\ ClientOf[t] \in Clients /\ IsJob(t, job[t])
  BY ActorKinds DEF Shared, Jobs
<1> QED BY <1>1, <1>2 DEF PhasesAt, IsJob, At, Starting, Switching

LEMMA EnterLeaseStep ==
    ASSUME Shared, NEW t \in Tasks, phase[t] = "granted" \/ ~leaseHeld,
           NEW conn \in {NoConn} \cup Conns, t \in Recoveries => conn # NoConn,
           NEW timers \in [Clients -> BOOLEAN],
           Arbiter!TakeOver(t), EnterLease(t, conn, timers)
    PROVE  Jobs' /\ timer' \in [Clients -> BOOLEAN] /\ InPhase' /\ Disowned'
<1>1. /\ phase \in [Tasks -> {"idle", "queued", "granted", "switching", "holding"}]
      /\ owner \in Clients \cup {NoClient}
      /\ t \in Actors
      /\ Jobs
  BY LeaseFacts, TaskFacts DEF Shared
<1>2. CASE owner \in {NoClient, ClientOf[t]}
  <2> DEFINE new == Job(WithLease(t), conn, NoClient)
  <2>1. IsJob(t, new) /\ new.stage \in {"lock", "failed", "prepare"}
    BY <1>1, ActorKinds DEF IsJob, Job, WithLease, Tasks, Switching, Stages, AtOnce
  <2> HIDE DEF new
  <2>2. job' = [job EXCEPT ![t] = new] /\ timer' = timers
    BY <1>2 DEF EnterLease, Become, new
  <2>3. phase' = [phase EXCEPT ![t] = "holding"]
    BY <1>2 DEF Arbiter!TakeOver
  <2>4. Jobs' /\ job'[t] = new /\ \A b \in Actors \ {t} : job'[b] = job[b]
    BY <1>1, <2>1, <2>2, JobMoves
  <2>5. phase'[t] \in PhasesAt(job'[t].stage)
    BY <1>1, <2>1, <2>3, <2>4 DEF PhasesAt, Starting, Switching
  <2>6. InPhase'
    BY <1>1, <2>3, <2>4, <2>5, OneInPhase
  <2>7. Disowned'
    BY <2>1, <2>4, LesseeDisowns
  <2> QED BY <2>2, <2>4, <2>6, <2>7
<1>3. CASE owner \notin {NoClient, ClientOf[t]}
  <2> DEFINE new == Job(IF IdleRunning(owner) THEN "switchIdle" ELSE "switchLock",
                        conn, owner)
  <2>1. IsJob(t, new) /\ new.stage \in {"switchIdle", "switchLock"}
    BY <1>1, <1>3, ActorKinds DEF IsJob, Job, Tasks, Switching, Stages, AtOnce
  <2> HIDE DEF new
  <2>2. job' = [job EXCEPT ![t] = new] /\ timer' = [timers EXCEPT ![owner] = FALSE]
    BY <1>3 DEF EnterLease, Become, new
  <2>3. phase' = [phase EXCEPT ![t] = "switching"]
    BY <1>3 DEF Arbiter!TakeOver
  <2>4. Jobs' /\ job'[t] = new /\ \A b \in Actors \ {t} : job'[b] = job[b]
    BY <1>1, <2>1, <2>2, JobMoves
  <2>5. phase'[t] \in PhasesAt(job'[t].stage)
    BY <1>1, <2>1, <2>3, <2>4 DEF PhasesAt, Starting, Switching
  <2>6. InPhase'
    BY <1>1, <2>3, <2>4, <2>5, OneInPhase
  <2>7. Disowned'
    BY <2>1, <2>4, LesseeDisowns
  <2> QED BY <2>2, <2>4, <2>6, <2>7
<1> QED BY <1>2, <1>3

LEMMA RequestLeaseStep ==
    ASSUME Shared, NEW t \in Tasks,
           NEW conn \in {NoConn} \cup Conns, t \in Recoveries => conn # NoConn,
           NEW timers \in [Clients -> BOOLEAN],
           RequestLease(t, conn, timers), UNCHANGED <<linkVars, lock, staleIdle, closed>>
    PROVE  Sound
<1>1. CASE Arbiter!AcquireFree(t) /\ EnterLease(t, conn, timers)
  <2>1. LeaseStep
    BY <1>1, TaskStepIsLeaseStep DEF Arbiter!TaskStep
  <2>2. ~leaseHeld /\ Arbiter!TakeOver(t)
    BY <1>1 DEF Arbiter!AcquireFree
  <2>3. Jobs' /\ timer' \in [Clients -> BOOLEAN] /\ InPhase' /\ Disowned'
    BY <1>1, <2>2, EnterLeaseStep
  <2> QED BY <2>1, <2>3 DEF Sound, Shared, Links, linkVars
<1>2. CASE /\ Arbiter!Enqueue(t)
           /\ Become(t, Job("lease", conn, NoClient))
           /\ timer' = timers
  <2>1. LeaseStep
    BY <1>2, TaskStepIsLeaseStep DEF Arbiter!TaskStep
  <2> DEFINE new == Job("lease", conn, NoClient)
  <2>2. IsJob(t, new) /\ new.stage = "lease"
    BY ActorKinds DEF IsJob, Job, Tasks, Switching, Stages, AtOnce
  <2>3. job' = [job EXCEPT ![t] = new]
    BY <1>2 DEF Become
  <2> HIDE DEF new
  <2>4. Jobs' /\ job'[t] = new /\ \A b \in Actors \ {t} : job'[b] = job[b]
    BY <2>2, <2>3, JobMoves, TaskFacts DEF Shared
  <2>5. phase' = [phase EXCEPT ![t] = "queued"] /\ owner' = owner
    BY <1>2 DEF Arbiter!Enqueue
  <2>6. phase'[t] \in PhasesAt(job'[t].stage)
    BY <2>2, <2>4, <2>5, LeaseFacts DEF PhasesAt, Starting
  <2>7. InPhase'
    BY <2>4, <2>5, <2>6, LeaseFacts, TaskFacts, OneInPhase
  <2>8. Disowned'
    BY <2>2, <2>4, <2>5, ActorKinds, OthersDisown DEF linkVars
  <2> QED BY <1>2, <2>1, <2>4, <2>7, <2>8 DEF Sound, Shared, Links, linkVars
<1> QED BY <1>1, <1>2 DEF RequestLease

LEMMA StartStep ==
    ASSUME Shared, NEW t \in Tasks, Start(t)
    PROVE  Sound
<1> DEFINE timers == [timer EXCEPT ![ClientOf[t]] = FALSE]
<1>1. /\ t \in Transactions
      /\ job[t].stage = "off"
      /\ timers \in [Clients -> BOOLEAN]
      /\ UNCHANGED <<linkVars, lock, staleIdle, closed>>
  BY DEF Start, Resumes, At, Shared, Links
<1>2. CASE IdleRunning(ClientOf[t])
  <2>1. To(t, "idleWait") /\ timer' = timers /\ UNCHANGED arbiterVars
    BY <1>2 DEF Start
  <2>2. /\ Jobs' /\ job'[t].stage = "idleWait"
        /\ \A b \in Actors \ {t} : job'[b] = job[b]
    BY <1>1, <2>1, StageMoves, ActorKinds, TaskFacts DEF Shared, Stages, Switching
  <2>3. phase' = phase /\ owner' = owner /\ attached' = attached
    BY <1>1, <2>1 DEF arbiterVars, linkVars
  <2>4. InPhase'
    BY <1>1, <2>2, <2>3, TaskFacts, OneInPhase DEF PhasesAt, Starting
  <2>5. Disowned'
    BY <2>2, <2>3, ActorKinds, OthersDisown
  <2> QED BY <1>1, <2>1, <2>2, <2>4, <2>5 DEF Sound, LeaseStep, Shared, Links, linkVars
<1>3. CASE ~IdleRunning(ClientOf[t])
  <2>1. RequestLease(t, NoConn, timers)
    BY <1>3 DEF Start
  <2> HIDE DEF timers
  <2> QED BY <1>1, <2>1, RequestLeaseStep, ActorKinds
<1> QED BY <1>2, <1>3

LEMMA IdleWaitOverStep ==
    ASSUME Shared, NEW t \in Tasks, IdleWaitOver(t)
    PROVE  Sound
<1>1. /\ job[t].stage = "idleOver"
      /\ RequestLease(t, NoConn, timer)
      /\ UNCHANGED <<linkVars, lock, staleIdle, closed>>
      /\ timer \in [Clients -> BOOLEAN]
  BY DEF IdleWaitOver, Resumes, At, Shared, Links
<1>2. t \notin Recoveries
  BY <1>1, TaskFacts, ActorKinds DEF IsJob, Switching
<1> QED BY <1>1, <1>2, RequestLeaseStep

\* A task that only waited gives up.
LEMMA IdleWaitFailsStep ==
    ASSUME Shared, NEW t \in Tasks, IdleWaitFails(t)
    PROVE  Sound
<1>1. /\ job[t].stage \in {"idleWait", "idleOver"}
      /\ job' = [job EXCEPT ![t] = Off]
      /\ UNCHANGED <<arbiterVars, linkVars, lock, idleVars, closed>>
  BY DEF IdleWaitFails, Resumes, At, Become
<1>2. Jobs' /\ job'[t] = Off /\ \A b \in Actors \ {t} : job'[b] = job[b]
  BY <1>1, OffIsJob, JobMoves, TaskFacts DEF Shared
<1>3. phase' = phase /\ owner' = owner /\ attached' = attached
  BY <1>1 DEF arbiterVars, linkVars
<1>4. phase[t] = "idle" /\ Off.stage = "off"
  BY <1>1, TaskFacts DEF Starting, Off, Job
<1>5. InPhase'
  BY <1>2, <1>3, <1>4, TaskFacts, OneInPhase DEF PhasesAt, Starting
<1>6. Disowned'
  BY <1>2, <1>3, <1>4, ActorKinds, OthersDisown
<1> QED BY <1>1, <1>2, <1>5, <1>6 DEF Sound, LeaseStep, Shared, Links, linkVars, idleVars

LEMMA LeaseGrantedStep ==
    ASSUME Shared, NEW t \in Tasks, LeaseGranted(t)
    PROVE  Sound
<1>1. /\ job[t].stage = "lease"
      /\ Arbiter!Resume(t)
      /\ EnterLease(t, job[t].conn, timer)
      /\ UNCHANGED <<linkVars, lock, staleIdle, closed>>
      /\ timer \in [Clients -> BOOLEAN]
  BY DEF LeaseGranted, Resumes, At, Shared, Links
<1>2. phase[t] = "granted" /\ Arbiter!TakeOver(t)
  BY <1>1 DEF Arbiter!Resume
<1>3. /\ job[t].conn \in {NoConn} \cup Conns
      /\ t \in Recoveries => job[t].conn # NoConn
  BY <1>1, TaskFacts DEF IsJob
<1>4. Jobs' /\ timer' \in [Clients -> BOOLEAN] /\ InPhase' /\ Disowned'
  BY <1>1, <1>2, <1>3, EnterLeaseStep
<1>5. LeaseStep
  BY <1>1, TaskStepIsLeaseStep DEF Arbiter!TaskStep
<1> QED BY <1>1, <1>4, <1>5 DEF Sound, Shared, Links, linkVars

LEMMA LeaseFailsStep ==
    ASSUME Shared, NEW t \in Tasks, LeaseFails(t)
    PROVE  Sound
<1>1. /\ job[t].stage = "lease"
      /\ Arbiter!AbandonQueued(t) \/ Arbiter!AbandonGranted(t)
      /\ job' = [job EXCEPT ![t] = Off]
      /\ UNCHANGED <<linkVars, lock, idleVars, closed>>
  BY DEF LeaseFails, Resumes, At, Become
<1>2. Jobs' /\ job'[t] = Off /\ \A b \in Actors \ {t} : job'[b] = job[b]
  BY <1>1, OffIsJob, JobMoves, TaskFacts DEF Shared
<1>3. owner' = owner /\ attached' = attached
  BY <1>1 DEF linkVars, Arbiter!AbandonQueued, Arbiter!AbandonGranted
<1>4. InPhase'
  <2>1. CASE Arbiter!AbandonQueued(t)
    <3>1. phase' = [phase EXCEPT ![t] = "idle"]
      BY <2>1 DEF Arbiter!AbandonQueued
    <3>2. phase'[t] \in PhasesAt(job'[t].stage)
      BY <1>2, <3>1, LeaseFacts DEF Off, Job, PhasesAt, Starting
    <3> QED BY <1>2, <3>1, <3>2, LeaseFacts, TaskFacts, OneInPhase
  <2>2. CASE Arbiter!AbandonGranted(t)
    BY <1>2, <2>2, BackInPhase DEF Arbiter!AbandonGranted
  <2> QED BY <1>1, <2>1, <2>2
<1>5. Disowned'
  BY <1>2, <1>3, ActorKinds, OthersDisown DEF Off, Job
<1>6. LeaseStep
  BY <1>1, TaskStepIsLeaseStep DEF Arbiter!TaskStep
<1> QED BY <1>1, <1>2, <1>4, <1>5, <1>6 DEF Sound, Shared, Links, linkVars, idleVars

------------------------------------------------------------------------------
\* An actor goes on without a call of the arbiter.
LEMMA QuietStep ==
    ASSUME Shared, NEW a \in Actors, Jobs', Links',
           \A b \in Actors \ {a} : job'[b] = job[b],
           UNCHANGED <<arbiterVars, attached>>,
           a \in Tasks => PhasesAt(job'[a].stage) = PhasesAt(job[a].stage),
           job'[a].stage \notin {"exchange", "stopNotify"}
    PROVE  Sound
<1>1. phase' = phase /\ owner' = owner
  BY DEF arbiterVars
<1>2. InPhase'
  BY <1>1, OneInPhase DEF Shared, InPhase
<1>3. Disowned'
  BY <1>1, ActorKinds, OthersDisown
<1> QED BY <1>2, <1>3 DEF Sound, LeaseStep

\* The same for a task that has the lease, whatever it does to the connection.
LEMMA HolderStep ==
    ASSUME Shared, NEW t \in Tasks, phase[t] = "holding", Jobs', Links',
           \A b \in Actors \ {t} : job'[b] = job[b],
           LeaseStep, UNCHANGED phase,
           PhasesAt(job'[t].stage) = {"holding"},
           job'[t].stage \in {"exchange", "stopNotify"} =>
               attached'[ClientOf[t]] # NoConn
    PROVE  Sound
<1>1. InPhase'
  BY TaskFacts, OneInPhase
<1>2. Disowned'
  BY LesseeDisowns
<1> QED BY <1>1, <1>2 DEF Sound

\* A task that has the lease gives it back and is over.
LEMMA ReleaseStep ==
    ASSUME Shared, NEW t \in Tasks, phase[t] \in {"switching", "holding"},
           Arbiter!GiveBack(t), UNCHANGED owner, Become(t, Off), Links'
    PROVE  Sound
<1>1. Arbiter!SwitchFailed(t) \/ Arbiter!Release(t)
  BY DEF Arbiter!SwitchFailed, Arbiter!Release
<1>2. LeaseStep
  BY <1>1, TaskStepIsLeaseStep DEF Arbiter!TaskStep
<1>3. Jobs' /\ job'[t] = Off /\ \A b \in Actors \ {t} : job'[b] = job[b]
  BY OffIsJob, JobMoves, TaskFacts DEF Shared, Become
<1>4. InPhase'
  BY <1>3, BackInPhase
<1>5. Disowned'
  BY <1>3, LesseeDisowns DEF Off, Job
<1> QED BY <1>2, <1>3, <1>4, <1>5 DEF Sound

------------------------------------------------------------------------------
\* The switch

LEMMA SwitchedStep ==
    ASSUME Shared, NEW t \in Tasks, job[t].stage \in Switching, Switched(t), Links'
    PROVE  Sound
<1> DEFINE new == [job[t] EXCEPT !.stage = WithLease(t), !.from = NoClient]
<1>1. Arbiter!SwitchDone(t) /\ job' = [job EXCEPT ![t] = new]
  BY DEF Switched, Become
<1>2. IsJob(t, new) /\ new.stage \in {"lock", "failed", "prepare"}
  <2>1. WithLease(t) \in {"lock", "failed", "prepare"} /\ WithLease(t) \in StagesOf(t)
    BY ActorKinds DEF WithLease, Tasks, Stages, AtOnce
  <2>2. IsJob(t, job[t]) /\ job[t].stage # "off"
    BY TaskFacts DEF Switching
  <2>3. new.stage = WithLease(t) /\ new.conn = job[t].conn /\ new.from = NoClient
    BY <2>2 DEF IsJob
  <2>4. new \in [stage : Stages, conn : {NoConn} \cup Conns,
                from : Clients \cup {NoClient}]
    BY <2>1, <2>2 DEF IsJob, Stages, AtOnce
  <2> HIDE DEF new
  <2> QED BY <2>1, <2>2, <2>3, <2>4 DEF IsJob, Switching
<1> HIDE DEF new
<1>3. Jobs' /\ job'[t] = new /\ \A b \in Actors \ {t} : job'[b] = job[b]
  BY <1>1, <1>2, JobMoves, TaskFacts DEF Shared
<1>4. phase[t] = "switching" /\ phase' = [phase EXCEPT ![t] = "holding"]
  BY <1>1 DEF Arbiter!SwitchDone
<1>5. phase'[t] \in PhasesAt(job'[t].stage)
  BY <1>2, <1>3, <1>4, LeaseFacts DEF PhasesAt, Starting, Switching
<1>6. InPhase'
  BY <1>3, <1>4, <1>5, LeaseFacts, TaskFacts, OneInPhase
<1>7. Disowned'
  BY <1>2, <1>3, <1>4, LesseeDisowns
<1>8. LeaseStep
  BY <1>1, TaskStepIsLeaseStep DEF Arbiter!TaskStep
<1> QED BY <1>3, <1>6, <1>7, <1>8 DEF Sound

LEMMA SwitchLocksStep ==
    ASSUME Shared, NEW t \in Tasks, SwitchLocks(t)
    PROVE  Sound
<1> DEFINE p == job[t].from
<1>1. /\ job[t].stage \in {"switchLock", "switchLockWait"}
      /\ UNCHANGED <<radio, idleVars, closed>>
  BY DEF SwitchLocks, Resumes, At
<1>2. phase[t] = "switching" /\ p \in Clients /\ IsJob(t, job[t]) /\ t \in Actors
  BY <1>1, TaskFacts DEF Switching
<1>3. CASE attached[p] = NoConn
  BY <1>1, <1>3, SwitchedStep
     DEF SwitchLocks, Switching, Shared, Links, idleVars
<1>4. CASE attached[p] # NoConn
  <2>1. Detach(p) /\ Lock(p, t) /\ To(t, "switchDrop") /\ UNCHANGED restOfArbiter
    BY <1>4 DEF SwitchLocks
  <2> HIDE DEF p
  <2>2. "switchDrop" \in StagesOf(t)
    BY ActorKinds DEF Tasks, Switching, Stages
  <2>3. Jobs' /\ job'[t].stage = "switchDrop" /\ \A b \in Actors \ {t} : job'[b] = job[b]
    BY <1>1, <1>2, <2>1, <2>2, StageMoves DEF Shared, Switching
  <2>4. /\ LeaseStep
        /\ attached' \in [Clients -> {NoConn} \cup Conns]
    BY <1>2, <2>1, DetachStep
  <2>5. Links'
    BY <1>1, <1>2, <2>1, <2>4 DEF Shared, Links, Lock, idleVars
  <2>6. phase'[t] \in PhasesAt(job'[t].stage) /\ phase' = phase
    BY <1>2, <2>1, <2>3 DEF PhasesAt, Starting, Switching, restOfArbiter
  <2>7. InPhase'
    BY <1>2, <2>3, <2>6, OneInPhase
  <2>8. Disowned'
    BY <1>2, <2>3, LesseeDisowns
  <2> QED BY <2>3, <2>4, <2>5, <2>7, <2>8 DEF Sound
<1> QED BY <1>3, <1>4

LEMMA SwitchWaitsStep ==
    ASSUME Shared, NEW t \in Tasks, SwitchWaits(t)
    PROVE  Sound
<1>1. /\ job[t].stage = "switchLock"
      /\ To(t, "switchLockWait")
      /\ UNCHANGED <<arbiterVars, linkVars, lock, idleVars, closed>>
  BY DEF SwitchWaits, At
<1>2. t \in Actors /\ "switchLockWait" \in StagesOf(t)
  BY ActorKinds DEF Tasks, Switching, Stages
<1>3. Jobs' /\ job'[t].stage = "switchLockWait" /\ \A b \in Actors \ {t} : job'[b] = job[b]
  BY <1>1, <1>2, StageMoves DEF Shared, Switching
<1>4. PhasesAt(job'[t].stage) = PhasesAt(job[t].stage)
  BY <1>1, <1>3 DEF PhasesAt, Starting, Switching
<1>5. Links' /\ attached' = attached
  BY <1>1 DEF Shared, Links, linkVars, idleVars
<1> QED BY <1>1, <1>2, <1>3, <1>4, <1>5, QuietStep

LEMMA SwitchDroppedStep ==
    ASSUME Shared, NEW t \in Tasks, SwitchDropped(t)
    PROVE  Sound
<1>1. /\ job[t].stage \in Switching
      /\ Unlock(job[t].from) /\ Switched(t)
      /\ UNCHANGED <<linkVars, idleVars, closed>>
  BY DEF SwitchDropped, Resumes, At, Switching
<1>2. Links'
  BY <1>1 DEF Shared, Links, linkVars, idleVars, Unlock
<1> QED BY <1>1, <1>2, SwitchedStep

LEMMA SwitchFailsStep ==
    ASSUME Shared, NEW t \in Tasks, SwitchFails(t)
    PROVE  Sound
<1>1. /\ Unlock(job[t].from) \/ UNCHANGED lock
      /\ Arbiter!SwitchFailed(t)
      /\ Become(t, Off)
      /\ UNCHANGED <<linkVars, idleVars, closed>>
  BY DEF SwitchFails
<1>2. Links'
  BY <1>1 DEF Shared, Links, linkVars, idleVars, Unlock
<1>3. phase[t] = "switching" /\ Arbiter!GiveBack(t) /\ UNCHANGED owner
  BY <1>1 DEF Arbiter!SwitchFailed
<1> QED BY <1>1, <1>2, <1>3, ReleaseStep

------------------------------------------------------------------------------
\* The transaction and the recovery

LEMMA TransactionStages ==
    ASSUME Shared, NEW t \in Tasks
    PROVE  /\ job[t].stage \in {"prepare", "connect", "exchange"} => t \in Transactions
           /\ job[t].stage = "stopNotify" => t \in Recoveries
BY TaskFacts, ActorKinds DEF IsJob, Tasks, Switching

\* Stages every coroutine of a task has.
LEMMA CommonStages ==
    ASSUME NEW a \in Actors
    PROVE  /\ "lockWait" \in StagesOf(a) /\ "lock" \in StagesOf(a)
           /\ "drop" \in StagesOf(a)
           /\ a \in Tasks => "failed" \in StagesOf(a)
BY ActorKinds DEF StagesOf, Tasks, Stages, AtOnce

LEMMA PreparedStep ==
    ASSUME Shared, NEW t \in Tasks, Prepared(t)
    PROVE  Sound
<1>1. PICK s \in {"lock", "failed"} :
        /\ job[t].stage = "prepare"
        /\ To(t, s)
        /\ UNCHANGED <<arbiterVars, linkVars, lock, idleVars, closed>>
  BY DEF Prepared, Resumes, At
<1>2. t \in Actors /\ s \in StagesOf(t)
  BY ActorKinds, CommonStages
<1>3. Jobs' /\ job'[t].stage = s /\ \A b \in Actors \ {t} : job'[b] = job[b]
  BY <1>1, <1>2, StageMoves DEF Shared, Switching
<1>4. PhasesAt(job'[t].stage) = PhasesAt(job[t].stage)
  BY <1>1, <1>3 DEF PhasesAt, Starting, Switching
<1>5. Links' /\ attached' = attached
  BY <1>1 DEF Shared, Links, linkVars, idleVars
<1> QED BY <1>1, <1>2, <1>3, <1>4, <1>5, QuietStep

LEMMA WaitsForLockStep ==
    ASSUME Shared, NEW a \in Actors, NEW c \in Clients, WaitsForLock(a, c)
    PROVE  Sound
<1>1. /\ job[a].stage = "lock"
      /\ To(a, "lockWait")
      /\ UNCHANGED <<arbiterVars, linkVars, lock, idleVars, closed>>
  BY DEF WaitsForLock, At
<1>2. Jobs' /\ job'[a].stage = "lockWait" /\ \A b \in Actors \ {a} : job'[b] = job[b]
  BY <1>1, CommonStages, StageMoves DEF Shared, Switching
<1>3. PhasesAt(job'[a].stage) = PhasesAt(job[a].stage)
  BY <1>1, <1>2 DEF PhasesAt, Starting, Switching
<1>4. Links' /\ attached' = attached
  BY <1>1 DEF Shared, Links, linkVars, idleVars
<1> QED BY <1>1, <1>2, <1>3, <1>4, QuietStep

LEMMA LockFailsStep ==
    ASSUME Shared, NEW t \in Tasks, LockFails(t)
    PROVE  Sound
<1>1. /\ job[t].stage = "lockWait"
      /\ To(t, "failed")
      /\ UNCHANGED <<arbiterVars, linkVars, lock, idleVars, closed>>
  BY DEF LockFails, Resumes, At
<1>2. t \in Actors /\ "failed" \in StagesOf(t)
  BY ActorKinds, CommonStages
<1>3. Jobs' /\ job'[t].stage = "failed" /\ \A b \in Actors \ {t} : job'[b] = job[b]
  BY <1>1, <1>2, StageMoves DEF Shared, Switching
<1>4. PhasesAt(job'[t].stage) = PhasesAt(job[t].stage)
  BY <1>1, <1>3 DEF PhasesAt, Starting, Switching
<1>5. Links' /\ attached' = attached
  BY <1>1 DEF Shared, Links, linkVars, idleVars
<1> QED BY <1>1, <1>2, <1>3, <1>4, <1>5, QuietStep

LEMMA LocksTransactionStep ==
    ASSUME Shared, NEW t \in Tasks, LocksTransaction(t)
    PROVE  Sound
<1> DEFINE c == ClientOf[t]
<1>1. /\ t \in Transactions
      /\ job[t].stage \in {"lock", "lockWait"}
      /\ UNCHANGED <<arbiterVars, radio, idleVars, closed>>
  BY DEF LocksTransaction, FindsFree, Resumes, At
<1>2. /\ phase[t] = "holding" /\ t \in Actors /\ c \in Clients /\ IsJob(t, job[t])
      /\ {"failed", "connect", "exchange"} \subseteq StagesOf(t)
      /\ t \notin Recoveries
  BY <1>1, TaskFacts, ActorKinds DEF Starting, Switching, Stages, AtOnce
<1>3. CASE To(t, "failed") /\ UNCHANGED <<attached, lock>>
  <2>1. Jobs' /\ job'[t].stage = "failed" /\ \A b \in Actors \ {t} : job'[b] = job[b]
    BY <1>1, <1>2, <1>3, StageMoves DEF Shared, Switching
  <2>2. Links'
    BY <1>1, <1>3 DEF Shared, Links, idleVars
  <2> QED BY <1>1, <1>2, <1>3, <2>1, <2>2, HolderStep
          DEF PhasesAt, Starting, Switching, LeaseStep, arbiterVars
<1>4. CASE /\ Connected(c) /\ Lock(c, t) /\ UNCHANGED attached
           /\ Become(t, Job("exchange", attached[c], NoClient))
  <2> DEFINE new == Job("exchange", attached[c], NoClient)
  <2>1. attached[c] \in Conns \ {NoConn}
    BY <1>2, <1>4 DEF Connected, Up, Shared, Links
  <2>2. IsJob(t, new) /\ new.stage = "exchange"
    BY <1>2, <2>1 DEF IsJob, Job, Stages, AtOnce, Switching
  <2>3. job' = [job EXCEPT ![t] = new]
    BY <1>4 DEF Become
  <2> HIDE DEF new
  <2>4. Jobs' /\ job'[t] = new /\ \A b \in Actors \ {t} : job'[b] = job[b]
    BY <1>2, <2>2, <2>3, JobMoves DEF Shared
  <2>5. Links' /\ attached'[c] # NoConn
    BY <1>1, <1>2, <1>4, <2>1 DEF Shared, Links, idleVars, Lock
  <2> QED BY <1>1, <1>2, <2>2, <2>4, <2>5, HolderStep
          DEF PhasesAt, Starting, Switching, LeaseStep, arbiterVars
<1>5. CASE Lock(c, t) /\ To(t, "connect") /\ ResetForAttempt(c)
  <2>1. Jobs' /\ job'[t].stage = "connect" /\ \A b \in Actors \ {t} : job'[b] = job[b]
    BY <1>1, <1>2, <1>5, StageMoves DEF Shared, Switching
  <2>2. Links'
    BY <1>1, <1>2, <1>5 DEF Shared, Links, idleVars, Lock, ResetForAttempt
  <2> QED BY <1>1, <1>2, <2>1, <2>2, HolderStep
          DEF PhasesAt, Starting, Switching, LeaseStep, arbiterVars
<1> QED BY <1>3, <1>4, <1>5 DEF LocksTransaction

LEMMA ConnectsStep ==
    ASSUME Shared, NEW t \in Tasks, Connects(t)
    PROVE  Sound
<1> DEFINE c == ClientOf[t]
<1>1. PICK n \in Conns, link \in {"up", "gone"} :
        /\ job[t].stage = "connect"
        /\ radio' = [radio EXCEPT ![c][n] = link]
        /\ \/ Detach(c) /\ To(t, "drop")
           \/ /\ attached' = [attached EXCEPT ![c] = n]
              /\ Become(t, Job("exchange", n, NoClient))
              /\ UNCHANGED owner
        /\ UNCHANGED <<restOfArbiter, lock, idleVars, closed>>
  BY DEF Connects, Resumes, At
<1>2. /\ phase[t] = "holding" /\ t \in Actors /\ c \in Clients
      /\ t \in Transactions /\ t \notin Recoveries
      /\ {"drop", "exchange"} \subseteq StagesOf(t)
  BY <1>1, TaskFacts, TransactionStages, ActorKinds
     DEF Starting, Switching, Stages, AtOnce
<1>3. radio' \in [Clients -> [Conns -> RadioStates]]
  BY <1>1, <1>2 DEF Shared, Links, RadioStates
<1>4. phase' = phase
  BY <1>1 DEF restOfArbiter
<1>5. CASE Detach(c) /\ To(t, "drop")
  <2>1. Jobs' /\ job'[t].stage = "drop" /\ \A b \in Actors \ {t} : job'[b] = job[b]
    BY <1>1, <1>2, <1>5, StageMoves DEF Shared, Switching
  <2>2. LeaseStep /\ attached' \in [Clients -> {NoConn} \cup Conns]
    BY <1>1, <1>2, <1>5, DetachStep
  <2>3. Links'
    BY <1>1, <1>3, <2>2 DEF Shared, Links, idleVars
  <2> QED BY <1>2, <1>4, <2>1, <2>2, <2>3, HolderStep
          DEF PhasesAt, Starting, Switching
<1>6. CASE /\ attached' = [attached EXCEPT ![c] = n]
           /\ Become(t, Job("exchange", n, NoClient))
           /\ UNCHANGED owner
  <2> DEFINE new == Job("exchange", n, NoClient)
  <2>1. n # NoConn
    BY DEF Conns, NoConn
  <2>2. IsJob(t, new) /\ new.stage = "exchange"
    BY <1>2, <2>1 DEF IsJob, Job, Stages, AtOnce, Switching
  <2>3. job' = [job EXCEPT ![t] = new]
    BY <1>6 DEF Become
  <2> HIDE DEF new
  <2>4. Jobs' /\ job'[t] = new /\ \A b \in Actors \ {t} : job'[b] = job[b]
    BY <1>2, <2>2, <2>3, JobMoves DEF Shared
  <2>5. Links' /\ attached'[c] # NoConn
    BY <1>1, <1>2, <1>3, <1>6, <2>1 DEF Shared, Links, idleVars
  <2>6. LeaseStep
    BY <1>1, <1>6 DEF LeaseStep, arbiterVars, restOfArbiter
  <2> QED BY <1>2, <1>4, <2>2, <2>4, <2>5, <2>6, HolderStep
          DEF PhasesAt, Starting, Switching
<1> QED BY <1>1, <1>5, <1>6

LEMMA ConnectFailsStep ==
    ASSUME Shared, NEW t \in Tasks, ConnectFails(t)
    PROVE  Sound
<1>1. /\ job[t].stage = "connect"
      /\ Unlock(ClientOf[t]) /\ To(t, "failed")
      /\ UNCHANGED <<arbiterVars, linkVars, idleVars, closed>>
  BY DEF ConnectFails, Resumes, At
<1>2. phase[t] = "holding" /\ t \in Actors /\ "failed" \in StagesOf(t)
  BY <1>1, TaskFacts, CommonStages DEF Starting, Switching
<1>3. Jobs' /\ job'[t].stage = "failed" /\ \A b \in Actors \ {t} : job'[b] = job[b]
  BY <1>1, <1>2, StageMoves DEF Shared, Switching
<1>4. Links'
  BY <1>1 DEF Shared, Links, linkVars, idleVars, Unlock
<1> QED BY <1>1, <1>2, <1>3, <1>4, HolderStep
        DEF PhasesAt, Starting, Switching, LeaseStep, arbiterVars

\* The end of an exchange that drops its connection: if the callback was faster
\* the client is no longer the owner, and nothing but the lease is given back.
LEMMA DropStep ==
    ASSUME Shared, NEW t \in Tasks, job[t].stage \in {"exchange", "stopNotify"},
           Drop(t, ClientOf[t], Finish(t)),
           timer' \in [Clients -> BOOLEAN],
           UNCHANGED <<radio, staleIdle, closed>>
    PROVE  Sound
<1> DEFINE c == ClientOf[t]
<1>1. /\ phase[t] = "holding" /\ t \in Actors /\ c \in Clients
      /\ "drop" \in StagesOf(t)
      /\ owner \in Clients \cup {NoClient}
  BY TaskFacts, LeaseFacts, CommonStages DEF Starting, Switching
<1>2. Detach(c) /\ attached' \in [Clients -> {NoConn} \cup Conns]
  BY <1>1, DetachStep DEF Drop
<1>3. CASE attached[c] = NoConn
  <2>1. Finish(t)
    BY <1>3 DEF Drop
  <2>2. Unlock(c) /\ Arbiter!GiveBack(t) /\ Become(t, Off)
    BY <2>1 DEF Finish
  <2>3. UNCHANGED owner
    BY <1>2, <1>3 DEF Shared, Disowned, Detach
  <2>4. Links'
    BY <1>1, <1>2, <2>2 DEF Shared, Links, Unlock
  <2> QED BY <1>1, <2>2, <2>3, <2>4, ReleaseStep
<1>4. CASE attached[c] # NoConn
  <2>1. Lock(c, t) /\ To(t, "drop") /\ UNCHANGED restOfArbiter
    BY <1>4 DEF Drop
  <2>2. Jobs' /\ job'[t].stage = "drop" /\ \A b \in Actors \ {t} : job'[b] = job[b]
    BY <1>1, <2>1, StageMoves DEF Shared, Switching
  <2>3. Links'
    BY <1>1, <1>2, <2>1 DEF Shared, Links, Lock
  <2>4. LeaseStep /\ phase' = phase
    BY <1>1, <1>2, <2>1, DetachStep DEF restOfArbiter
  <2> QED BY <1>1, <2>2, <2>3, <2>4, HolderStep DEF PhasesAt, Starting, Switching
<1> QED BY <1>3, <1>4

LEMMA ExchangeSucceedsStep ==
    ASSUME Shared, NEW t \in Tasks, ExchangeSucceeds(t)
    PROVE  Sound
<1> DEFINE c == ClientOf[t]
<1>1. /\ job[t].stage = "exchange"
      /\ UNCHANGED <<radio, staleIdle, closed>>
  BY DEF ExchangeSucceeds, Resumes, At
<1>2. CASE closed[c]
  BY <1>1, <1>2, DropStep DEF ExchangeSucceeds, Shared, Links
<1>3. CASE ~closed[c]
  <2>1. /\ timer' = [timer EXCEPT ![c] = TRUE]
        /\ Finish(t)
        /\ UNCHANGED <<owner, attached>>
    BY <1>3 DEF ExchangeSucceeds
  <2>2. Links'
    BY <1>1, <2>1 DEF Shared, Links, Finish, Unlock
  <2>3. phase[t] = "holding"
    BY <1>1, TaskFacts DEF Starting, Switching
  <2> QED BY <2>1, <2>2, <2>3, ReleaseStep DEF Finish
<1> QED BY <1>2, <1>3

LEMMA ExchangeDropsStep ==
    ASSUME Shared, NEW t \in Tasks, ExchangeDiscards(t) \/ ExchangeFails(t)
    PROVE  Sound
<1>1. /\ job[t].stage = "exchange"
      /\ Drop(t, ClientOf[t], Finish(t))
      /\ timer' \in [Clients -> BOOLEAN]
      /\ UNCHANGED <<radio, staleIdle, closed>>
  BY DEF ExchangeDiscards, ExchangeFails, Resumes, At, Shared, Links, idleVars
<1> QED BY <1>1, DropStep

\* A task whose disconnect or cleanup is over gives back lock and lease.
LEMMA DroppedStep ==
    ASSUME Shared, NEW t \in Tasks, Dropped(t) \/ ListenerStopCancelled(t)
    PROVE  Sound
<1>1. /\ job[t].stage \in {"drop", "stopNotify"}
      /\ Finish(t)
      /\ UNCHANGED <<owner, linkVars, idleVars, closed>>
  BY DEF Dropped, ListenerStopCancelled, Resumes, At
<1>2. Links'
  BY <1>1 DEF Shared, Links, Finish, Unlock, linkVars, idleVars
<1>3. phase[t] = "holding"
  BY <1>1, TaskFacts DEF Starting, Switching
<1> QED BY <1>1, <1>2, <1>3, ReleaseStep DEF Finish

LEMMA FailedStep ==
    ASSUME Shared, NEW t \in Tasks, Failed(t)
    PROVE  Sound
<1>1. /\ Arbiter!Release(t) /\ Become(t, Off)
      /\ UNCHANGED <<linkVars, lock, idleVars, closed>>
  BY DEF Failed
<1>2. Links'
  BY <1>1 DEF Shared, Links, linkVars, idleVars
<1> QED BY <1>1, <1>2, ReleaseStep DEF Arbiter!Release

LEMMA MalformedFrameStep ==
    ASSUME Shared, NEW r \in Tasks, MalformedFrame(r)
    PROVE  Sound
<1>1. /\ Connected(ClientOf[r])
      /\ RequestLease(r, attached[ClientOf[r]], timer)
      /\ UNCHANGED <<linkVars, lock, staleIdle, closed>>
  BY DEF MalformedFrame
<1>2. /\ attached[ClientOf[r]] \in {NoConn} \cup Conns
      /\ attached[ClientOf[r]] # NoConn
      /\ timer \in [Clients -> BOOLEAN]
  BY <1>1, TaskFacts DEF Connected, Up, Shared, Links
<1> QED BY <1>1, <1>2, RequestLeaseStep

LEMMA LocksRecoveryStep ==
    ASSUME Shared, NEW r \in Tasks, LocksRecovery(r)
    PROVE  Sound
<1> DEFINE c == ClientOf[r]
<1>1. /\ r \in Recoveries
      /\ job[r].stage \in {"lock", "lockWait"}
      /\ UNCHANGED <<linkVars, idleVars, closed>>
  BY DEF LocksRecovery, FindsFree, Resumes, At
<1>2. /\ phase[r] = "holding" /\ r \in Actors /\ c \in Clients
      /\ "stopNotify" \in StagesOf(r)
      /\ job[r].conn # NoConn
  BY <1>1, TaskFacts, ActorKinds DEF IsJob, Starting, Switching
<1>3. CASE attached[c] = job[r].conn
  <2>1. Lock(c, r) /\ To(r, "stopNotify") /\ UNCHANGED arbiterVars
    BY <1>3 DEF LocksRecovery
  <2>2. Jobs' /\ job'[r].stage = "stopNotify" /\ \A b \in Actors \ {r} : job'[b] = job[b]
    BY <1>1, <1>2, <2>1, StageMoves DEF Shared, Switching
  <2>3. Links' /\ attached'[c] # NoConn
    BY <1>1, <1>2, <1>3, <2>1 DEF Shared, Links, Lock, linkVars, idleVars
  <2> QED BY <1>2, <2>1, <2>2, <2>3, HolderStep
          DEF PhasesAt, Starting, Switching, LeaseStep, arbiterVars
<1>4. CASE attached[c] # job[r].conn
  <2>1. Arbiter!Release(r) /\ Become(r, Off) /\ UNCHANGED lock
    BY <1>4 DEF LocksRecovery
  <2>2. Links'
    BY <1>1, <2>1 DEF Shared, Links, linkVars, idleVars
  <2> QED BY <2>1, <2>2, ReleaseStep DEF Arbiter!Release
<1> QED BY <1>3, <1>4

LEMMA ListenerStoppedStep ==
    ASSUME Shared, NEW r \in Tasks, ListenerStopped(r)
    PROVE  Sound
<1>1. /\ job[r].stage = "stopNotify"
      /\ Drop(r, ClientOf[r], Finish(r))
      /\ timer' \in [Clients -> BOOLEAN]
      /\ UNCHANGED <<radio, staleIdle, closed>>
  BY DEF ListenerStopped, Resumes, At, Shared, Links, idleVars
<1> QED BY <1>1, DropStep

------------------------------------------------------------------------------
\* The idle disconnect, close and the radio

\* What the end of an idle disconnect does to the other actors.
Resumed(b) ==
    \/ job'[b] = job[b]
    \/ b \in Tasks /\ At(b, "idleWait") /\ job'[b] = [job[b] EXCEPT !.stage = "idleOver"]
    \/ b \in Tasks /\ At(b, "switchIdle")
         /\ job'[b] = [job[b] EXCEPT !.stage = "switchLockWait"]
    \/ b \notin Tasks /\ At(b, "idleWait")
         /\ job'[b] = [job[b] EXCEPT !.stage = "lockWait"]

LEMMA IdleOverMoves ==
    ASSUME Shared, NEW c \in Clients, job' = [a \in Actors |-> AfterIdle(a, c)]
    PROVE  /\ Jobs'
           /\ job'[IdleTask(c)] = Off
           /\ \A b \in Actors \ {IdleTask(c)} : Resumed(b)
<1>1. job'[IdleTask(c)] = Off
  BY ActorKinds DEF AfterIdle
<1>2. ASSUME NEW b \in Actors \ {IdleTask(c)}
      PROVE  Resumed(b)
  <2>1. job'[b] = AfterIdle(b, c)
    OBVIOUS
  <2>2. CASE b \in Tasks /\ At(b, "idleWait") /\ ClientOf[b] = c
    <3>1. b # Closer(c) /\ ~At(b, "switchIdle")
      BY <2>2, ActorKinds DEF At
    <3>2. AfterIdle(b, c) = [job[b] EXCEPT !.stage = "idleOver"]
      BY <2>2, <3>1, <1>2 DEF AfterIdle
    <3> QED BY <2>1, <2>2, <3>2 DEF Resumed
  <2>3. CASE b \in Tasks /\ At(b, "switchIdle") /\ job[b].from = c
    BY <2>1, <2>3, <1>2 DEF AfterIdle, Resumed, At
  <2>4. CASE b = Closer(c) /\ At(b, "idleWait")
    BY <2>1, <2>4, <1>2, ActorKinds DEF AfterIdle, Resumed
  <2>5. CASE /\ ~(b \in Tasks /\ At(b, "idleWait") /\ ClientOf[b] = c)
             /\ ~(b \in Tasks /\ At(b, "switchIdle") /\ job[b].from = c)
             /\ ~(b = Closer(c) /\ At(b, "idleWait"))
    BY <2>1, <2>5, <1>2 DEF AfterIdle, Resumed
  <2> QED BY <2>2, <2>3, <2>4, <2>5
<1>3. ASSUME NEW b \in Actors
      PROVE  IsJob(b, job'[b])
  <2>1. IsJob(b, job[b])
    BY DEF Shared, Jobs
  <2>2. CASE b = IdleTask(c)
    BY <2>2, <1>1, OffIsJob
  <2>3. CASE job'[b] = job[b]
    BY <2>1, <2>3
  <2>4. CASE /\ b \in Tasks /\ At(b, "idleWait")
             /\ job'[b] = [job[b] EXCEPT !.stage = "idleOver"]
    <3>1. b \in Transactions
      BY <2>1, <2>4, ActorKinds DEF IsJob, At, Tasks, Switching
    <3> QED BY <2>1, <2>4, <3>1, ActorKinds DEF IsJob, At, Stages, Switching
  <2>5. CASE /\ b \in Tasks /\ At(b, "switchIdle")
             /\ job'[b] = [job[b] EXCEPT !.stage = "switchLockWait"]
    <3>1. "switchLockWait" \in StagesOf(b)
      BY <2>5, ActorKinds DEF Tasks, Stages, Switching
    <3> QED BY <2>1, <2>5, <3>1 DEF IsJob, At, Stages, Switching
  <2>6. CASE b \notin Tasks /\ At(b, "idleWait")
               /\ job'[b] = [job[b] EXCEPT !.stage = "lockWait"]
    BY <2>1, <2>6, CommonStages DEF IsJob, At, Stages, Switching, Tasks
  <2> QED BY <1>2, <2>2, <2>3, <2>4, <2>5, <2>6 DEF Resumed
<1> QED BY <1>1, <1>2, <1>3 DEF Jobs

LEMMA IdleOverStep ==
    ASSUME Shared, NEW c \in Clients, job' = [a \in Actors |-> AfterIdle(a, c)],
           Links', LeaseStep, UNCHANGED phase,
           \A d \in Clients : owner' = d => owner = d /\ attached'[d] = attached[d]
    PROVE  Sound
<1>1. Jobs' /\ \A u \in Tasks : u # IdleTask(c) /\ Resumed(u)
  BY IdleOverMoves, ActorKinds
<1>2. ASSUME NEW u \in Tasks
      PROVE  /\ phase'[u] \in PhasesAt(job'[u].stage)
             /\ job'[u].stage \in {"exchange", "stopNotify"} =>
                  job[u].stage \in {"exchange", "stopNotify"}
  <2>1. phase[u] \in PhasesAt(job[u].stage) /\ IsJob(u, job[u])
    BY TaskFacts DEF Shared, InPhase
  <2>2. Resumed(u)
    BY <1>1
  <2> QED BY <2>1, <2>2 DEF Resumed, PhasesAt, At, Starting, Switching, IsJob
<1>3. InPhase'
  BY <1>2 DEF InPhase
<1>4. Disowned'
  BY <1>2, OthersDisown
<1> QED BY <1>1, <1>3, <1>4 DEF Sound

LEMMA TimerFiresStep ==
    ASSUME Shared, NEW c \in Clients, TimerFires(c)
    PROVE  Sound
<1> DEFINE a == IdleTask(c)
<1>1. /\ timer' = [timer EXCEPT ![c] = FALSE]
      /\ UNCHANGED <<arbiterVars, linkVars, lock, staleIdle, closed>>
  BY DEF TimerFires
<1>2. a \in Actors /\ a \notin Tasks
  BY ActorKinds
<1>3. Links' /\ attached' = attached
  BY <1>1 DEF Shared, Links, linkVars
<1>4. CASE UNCHANGED job
  <2>1. Jobs'
    BY <1>4 DEF Shared, Jobs
  <2>2. InPhase' /\ Disowned'
    BY <1>1, <1>3, <1>4 DEF Shared, InPhase, Disowned, arbiterVars
  <2> QED BY <1>1, <1>3, <2>1, <2>2 DEF Sound, LeaseStep
<1>5. ASSUME NEW s \in {"lock", "lockWait"}, To(a, s)
      PROVE  Sound
  <2>1. Jobs' /\ job'[a].stage = s /\ \A b \in Actors \ {a} : job'[b] = job[b]
    BY <1>2, <1>5, StageMoves, CommonStages DEF Shared, Switching, Tasks
  <2> HIDE DEF a
  <2> QED BY <1>1, <1>2, <1>3, <1>5, <2>1, QuietStep
<1> QED BY <1>4, <1>5 DEF TimerFires

LEMMA IdleLocksStep ==
    ASSUME Shared, NEW c \in Clients, IdleLocks(c)
    PROVE  Sound
<1> DEFINE a == IdleTask(c)
<1>1. /\ job[a].stage \in {"lock", "lockWait"}
      /\ Drop(a, c, IdleEnds(c) /\ UNCHANGED restOfArbiter)
      /\ staleIdle' = [staleIdle EXCEPT ![c] = At(a, "lock") /\ attached[c] = NoConn]
      /\ UNCHANGED <<radio, timer, closed>>
  BY DEF IdleLocks, FindsFree, Resumes, At
<1>2. a \in Actors /\ a \notin Tasks
  BY ActorKinds
<1>3. UNCHANGED restOfArbiter /\ Detach(c)
  BY <1>1 DEF Drop
<1>4. /\ LeaseStep /\ phase' = phase
      /\ attached' \in [Clients -> {NoConn} \cup Conns]
      /\ \A d \in Clients : owner' = d => owner = d /\ attached'[d] = attached[d]
  BY <1>3, DetachStep DEF restOfArbiter
<1>5. lock' \in [Clients -> Actors \cup {NoActor}]
  BY <1>1, <1>2 DEF Drop, IdleEnds, Lock, Unlock, Shared, Links
<1>6. Links'
  BY <1>1, <1>4, <1>5 DEF Shared, Links
<1>7. CASE attached[c] = NoConn
  BY <1>1, <1>4, <1>6, <1>7, IdleOverStep DEF Drop, IdleEnds
<1>8. CASE attached[c] # NoConn
  <2>1. To(a, "drop")
    BY <1>1, <1>8 DEF Drop
  <2>2. Jobs' /\ job'[a].stage = "drop" /\ \A b \in Actors \ {a} : job'[b] = job[b]
    BY <1>2, <2>1, StageMoves, CommonStages DEF Shared, Switching, Tasks
  <2> HIDE DEF a
  <2>3. InPhase'
    BY <1>2, <1>4, <2>2, OneInPhase
  <2>4. Disowned'
    BY <1>2, <1>4, <2>2, ActorKinds, OthersDisown
  <2> QED BY <1>4, <1>6, <2>2, <2>3, <2>4 DEF Sound
<1> QED BY <1>7, <1>8

LEMMA IdleDroppedStep ==
    ASSUME Shared, NEW c \in Clients, IdleDropped(c)
    PROVE  Sound
<1>1. /\ job' = [a \in Actors |-> AfterIdle(a, c)]
      /\ Unlock(c)
      /\ UNCHANGED <<arbiterVars, linkVars, idleVars, closed>>
  BY DEF IdleDropped, IdleEnds
<1>2. Links' /\ LeaseStep /\ phase' = phase /\ owner' = owner /\ attached' = attached
  BY <1>1 DEF Shared, Links, Unlock, linkVars, idleVars, LeaseStep, arbiterVars
<1> QED BY <1>1, <1>2, IdleOverStep

LEMMA CloserMovesStep ==
    ASSUME Shared, NEW c \in Clients, NEW s \in StagesOf(Closer(c)),
           To(Closer(c), s), UNCHANGED <<arbiterVars, attached>>, Links'
    PROVE  Sound
<1> DEFINE a == Closer(c)
<1>1. a \in Actors /\ a \notin Tasks
  BY ActorKinds
<1>2. s \notin {"exchange", "stopNotify"} \cup Switching
  BY ActorKinds DEF Switching
<1>3. Jobs' /\ job'[a].stage = s /\ \A b \in Actors \ {a} : job'[b] = job[b]
  BY <1>1, <1>2, StageMoves DEF Shared, Tasks
<1> HIDE DEF a
<1> QED BY <1>1, <1>2, <1>3, QuietStep

LEMMA CloseStep ==
    ASSUME Shared, NEW c \in Clients,
           \/ Close(c) \/ RecoveryCancelled(c) \/ CloseGivesUp(c) \/ CloseDropped(c)
    PROVE  Sound
<1>1. PICK s \in {"recovery", "idleWait", "lock", "done"} :
        /\ To(Closer(c), s)
        /\ UNCHANGED <<arbiterVars, linkVars, staleIdle>>
        /\ timer' = [timer EXCEPT ![c] = FALSE] \/ timer' = timer
        /\ closed' = [closed EXCEPT ![c] = TRUE] \/ closed' = closed
        /\ Unlock(c) \/ lock' = lock
  <2>1. CASE Close(c)
    BY <2>1 DEF Close
  <2>2. CASE RecoveryCancelled(c)
    BY <2>2 DEF RecoveryCancelled, idleVars
  <2>3. CASE CloseGivesUp(c)
    BY <2>3 DEF CloseGivesUp, idleVars
  <2>4. CASE CloseDropped(c)
    BY <2>4 DEF CloseDropped, CloseEnds, idleVars
  <2> QED BY <2>1, <2>2, <2>3, <2>4
<1>2. s \in StagesOf(Closer(c))
  BY ActorKinds
<1>3. Links' /\ attached' = attached
  BY <1>1 DEF Shared, Links, linkVars, Unlock
<1> QED BY <1>1, <1>2, <1>3, CloserMovesStep

LEMMA CloseLocksStep ==
    ASSUME Shared, NEW c \in Clients, CloseLocks(c)
    PROVE  Sound
<1> DEFINE a == Closer(c)
<1>1. /\ Drop(a, c, CloseEnds(c) /\ UNCHANGED restOfArbiter)
      /\ UNCHANGED <<radio, idleVars, closed>>
  BY DEF CloseLocks
<1>2. a \in Actors /\ a \notin Tasks /\ {"drop", "done"} \subseteq StagesOf(a)
  BY ActorKinds
<1>3. UNCHANGED restOfArbiter /\ Detach(c)
  BY <1>1 DEF Drop
<1>4. /\ LeaseStep /\ phase' = phase
      /\ attached' \in [Clients -> {NoConn} \cup Conns]
      /\ \A d \in Clients : owner' = d => owner = d /\ attached'[d] = attached[d]
  BY <1>3, DetachStep DEF restOfArbiter
<1>5. lock' \in [Clients -> Actors \cup {NoActor}]
  BY <1>1, <1>2 DEF Drop, CloseEnds, Lock, Unlock, Shared, Links
<1>6. Links'
  BY <1>1, <1>4, <1>5 DEF Shared, Links, idleVars
<1>7. PICK s \in {"drop", "done"} : To(a, s)
  BY <1>1 DEF Drop, CloseEnds
<1>8. Jobs' /\ job'[a].stage = s /\ \A b \in Actors \ {a} : job'[b] = job[b]
  BY <1>2, <1>7, StageMoves DEF Shared, Switching, Tasks
<1> HIDE DEF a
<1>9. InPhase'
  BY <1>2, <1>4, <1>8, OneInPhase
<1>10. Disowned'
  BY <1>2, <1>4, <1>8, ActorKinds, OthersDisown
<1> QED BY <1>4, <1>6, <1>8, <1>9, <1>10 DEF Sound

LEMMA RadioStep ==
    ASSUME Shared, NEW c \in Clients, NEW n \in Conns,
           LinkLost(c, n) \/ DisconnectCallback(c, n)
    PROVE  Sound
<1>1. /\ UNCHANGED <<restOfArbiter, job, lock, idleVars, closed>>
      /\ \E s \in {"lost", "gone"} : radio' = [radio EXCEPT ![c][n] = s]
      /\ Detach(c) \/ UNCHANGED <<attached, owner>>
  BY DEF LinkLost, DisconnectCallback, arbiterVars, restOfArbiter
<1>2. radio' \in [Clients -> [Conns -> RadioStates]]
  BY <1>1 DEF Shared, Links, RadioStates
<1>3. /\ LeaseStep
      /\ attached' \in [Clients -> {NoConn} \cup Conns]
      /\ \A d \in Clients : owner' = d => owner = d /\ attached'[d] = attached[d]
  <2>1. CASE Detach(c)
    BY <1>1, <2>1, DetachStep
  <2>2. CASE UNCHANGED <<attached, owner>>
    BY <1>1, <2>2 DEF Shared, Links, LeaseStep, arbiterVars, restOfArbiter
  <2> QED BY <1>1, <2>1, <2>2
<1>4. Links'
  BY <1>1, <1>2, <1>3 DEF Shared, Links, idleVars
<1>5. Jobs' /\ InPhase'
  BY <1>1 DEF Shared, Jobs, InPhase, restOfArbiter
<1>6. Disowned'
  BY <1>1, <1>3, OthersDisown
<1> QED BY <1>3, <1>4, <1>5, <1>6 DEF Sound

------------------------------------------------------------------------------
\* Every step of the clients

LEMMA ProgressStep ==
    ASSUME Shared, NEW t \in Tasks, Progress(t)
    PROVE  Sound
BY IdleWaitOverStep, LeaseGrantedStep, SwitchLocksStep, SwitchWaitsStep,
   SwitchDroppedStep, PreparedStep, WaitsForLockStep, LocksTransactionStep,
   ConnectsStep, ConnectFailsStep, ExchangeSucceedsStep, ExchangeDropsStep,
   DroppedStep, FailedStep, LocksRecoveryStep, ListenerStoppedStep, ActorKinds
   DEF Progress

LEMMA NextSound == Shared /\ Next => Sound
<1> SUFFICES ASSUME Shared, Next PROVE Sound
  OBVIOUS
<1>1. CASE \E t \in Tasks : Progress(t)
  BY <1>1, ProgressStep
<1>2. CASE \E c \in Clients : IdleProgress(c) \/ CloseProgress(c)
  BY <1>2, WaitsForLockStep, IdleLocksStep, IdleDroppedStep, CloseStep, CloseLocksStep,
     ActorKinds DEF IdleProgress, CloseProgress
<1>3. CASE Starts
  BY <1>3, StartStep, MalformedFrameStep, TimerFiresStep, CloseStep DEF Starts
<1>4. CASE GivesUpWaiting
  BY <1>4, IdleWaitFailsStep, LeaseFailsStep, SwitchFailsStep, LockFailsStep, CloseStep
     DEF GivesUpWaiting
<1>5. CASE Radio
  BY <1>5, RadioStep DEF Radio
<1> QED BY <1>1, <1>2, <1>3, <1>4, <1>5 DEF Next

LEMMA StepSound == Shared /\ [Next]_vars => Sound
<1>1. ASSUME Shared, UNCHANGED vars
      PROVE  Sound
  BY <1>1 DEF vars, linkVars, idleVars, arbiterVars, Shared, Sound, LeaseStep,
              Jobs, Links, InPhase, Disowned
<1> QED BY <1>1, NextSound

LEMMA InitShared == Init => Shared
<1> SUFFICES ASSUME Init PROVE Shared
  OBVIOUS
<1> USE DEF Init
<1>1. Lease!IInv
  BY Lease!InitInv, SharedAssumption DEF Lease!LeaseAssumption, Arbiter!Init, Lease!Init
<1>2. Jobs
  BY OffIsJob DEF Jobs
<1>3. Links
  BY DEF Links, RadioStates
<1>4. InPhase
  BY ActorKinds DEF InPhase, PhasesAt, Starting, Off, Job, Arbiter!Init
<1>5. Disowned
  BY ActorKinds DEF Disowned, Off, Job
<1> QED BY <1>1, <1>2, <1>3, <1>4, <1>5 DEF Shared

LEMMA SharedKept == Shared /\ [Next]_vars => Shared'
BY StepSound, LeaseStepKeepsInv DEF Sound, Shared

THEOREM SharedHolds == Spec => []Shared
BY InitShared, SharedKept, PTL DEF Spec

\* ImplementsArbiter: whatever the clients' coroutines do, every call they make
\* of the shared lease is a step of LeaseArbiter, made by a task that may make
\* it; all that is proved there of the lease holds of it here.
THEOREM ClientsUseTheLease == Spec => ImplementsArbiter
<1>1. Init => Arbiter!Init
  BY DEF Init
<1>2. Shared /\ [Next]_vars => [Arbiter!Next]_(Arbiter!vars)
  BY StepSound DEF Sound, LeaseStep, arbiterVars, Arbiter!vars
<1> QED BY <1>1, <1>2, SharedHolds, PTL DEF Spec, ImplementsArbiter, Arbiter!Spec

\* Refinement is transitive: the clients of all purifiers, with their locks,
\* timers and callbacks, still implement the abstract PriorityLease.
THEOREM ClientsImplementPriorityLease == Spec => Lease!ImplementsPriorityLease
<1>1. Lease!LeaseAssumption
  BY SharedAssumption DEF Lease!LeaseAssumption
<1>2. Init => Lease!Init
  BY DEF Init, Arbiter!Init, Lease!Init
<1>3. Shared /\ [Next]_vars => [Lease!Next]_(Lease!vars)
  BY StepSound, SameNext DEF Sound, LeaseStep, arbiterVars, Lease!vars
<1>4. Lease!Spec => Lease!ImplementsPriorityLease
  BY <1>1, Lease!RefinesPriorityLease
<1> QED BY <1>2, <1>3, <1>4, SharedHolds, PTL DEF Spec, Lease!Spec

\* TypeOK: with the arbiter's own invariant, Shared gives every type.
THEOREM TypesHold == Spec => []TypeOK
<1>1. Shared => TypeOK
  <2> SUFFICES ASSUME Shared PROVE TypeOK
    OBVIOUS
  <2>1. Arbiter!TypeOK
    BY DEF Shared, Lease!IInv, Lease!TypeOK, Arbiter!TypeOK, Lease!Phases, Arbiter!Phases
  <2>2. job \in [Actors -> [stage : Stages, conn : {NoConn} \cup Conns,
                            from : Clients \cup {NoClient}]]
    BY DEF Shared, Jobs, IsJob
  <2> QED BY <2>1, <2>2 DEF Shared, Links, TypeOK
<1> QED BY <1>1, SharedHolds, PTL

------------------------------------------------------------------------------
\* Layer 2: every actor and the locks agree

WorkStages == {"connect", "exchange", "stopNotify", "drop", "switchDrop"}

\* The client an actor works on, told by its job.
WorksOn(a, j, c) ==
    \/ j.stage = "switchDrop" /\ j.from = c
    \/ /\ a \in {t \in Tasks : ClientOf[t] = c} \cup {IdleTask(c), Closer(c)}
       /\ j.stage \in {"connect", "exchange", "stopNotify", "drop"}

Intact(t) ==
    \/ attached[ClientOf[t]] = job[t].conn
    \/ /\ attached[ClientOf[t]] = NoConn
       /\ radio[ClientOf[t]][job[t].conn] = "gone"

\* An actor works on the client whose lock it has; nothing is attached while it
\* connects or disconnects, and its exchange has its connection.
Bound(a) ==
    /\ \A c \in Clients :
         /\ WorksOn(a, job[a], c) <=> lock[c] = a
         /\ /\ WorksOn(a, job[a], c)
            /\ job[a].stage \in {"connect", "drop", "switchDrop"}
            => attached[c] = NoConn
    /\ a \in Transactions /\ At(a, "exchange") => Intact(a)

Locked == \A a \in Actors : Bound(a)

\* A step of actor a leaves the locks of the others alone, and what is attached
\* to the clients they work on.
Minds(a) ==
    /\ \A b \in Actors \ {a} : Resumed(b)
    /\ \A c \in Clients :
         \/ lock'[c] = lock[c] /\ attached'[c] = attached[c]
         \/ lock[c] \in {NoActor, a} /\ lock'[c] \in {NoActor, a}
    /\ \A c \in Clients : \A n : radio[c][n] = "gone" => radio'[c][n] = "gone"

LEMMA WorkingIs ==
    ASSUME NEW a, NEW c
    PROVE  /\ Working(a, c) <=> WorksOn(a, job[a], c)
           /\ WorksOn(a, job[a], c) => job[a].stage \in WorkStages
BY DEF Working, WorksOn, At, WorkStages

LEMMA OneClient ==
    ASSUME NEW a \in Actors, NEW j, IsJob(a, j),
           NEW c \in Clients, WorksOn(a, j, c), NEW d \in Clients, WorksOn(a, j, d)
    PROVE  c = d
<1>1. CASE j.stage = "switchDrop"
  BY <1>1 DEF WorksOn
<1>2. CASE j.stage # "switchDrop"
  BY <1>2, ActorKinds DEF WorksOn
<1> QED BY <1>1, <1>2

LEMMA MindfulStep ==
    ASSUME Shared, Locked, NEW a \in Actors, Minds(a), Bound(a)'
    PROVE  Locked'
<1> SUFFICES ASSUME NEW b \in Actors \ {a} PROVE Bound(b)'
  BY DEF Locked
<1>1. Bound(b) /\ Resumed(b) /\ IsJob(b, job[b])
  BY DEF Locked, Minds, Shared, Jobs
<1>2. \A c \in Clients : WorksOn(b, job'[b], c) <=> WorksOn(b, job[b], c)
  BY <1>1 DEF Resumed, WorksOn, At, IsJob
<1>3. job'[b].stage \in WorkStages => job'[b] = job[b]
  BY <1>1 DEF Resumed, WorkStages, IsJob
<1>4. b # NoActor
  BY SharedAssumption
<1>5. ASSUME NEW c \in Clients
      PROVE  /\ WorksOn(b, job'[b], c) <=> lock'[c] = b
             /\ WorksOn(b, job[b], c) => attached'[c] = attached[c]
  BY <1>1, <1>2, <1>4, <1>5 DEF Bound, Minds
<1>6. ASSUME NEW c \in Clients, WorksOn(b, job'[b], c),
             job'[b].stage \in {"connect", "drop", "switchDrop"}
      PROVE  attached'[c] = NoConn
  BY <1>1, <1>2, <1>3, <1>5, <1>6 DEF Bound, WorkStages
<1>7. ASSUME b \in Transactions, At(b, "exchange")'
      PROVE  Intact(b)'
  <2>1. job'[b] = job[b] /\ At(b, "exchange") /\ Intact(b)
    BY <1>1, <1>3, <1>7 DEF At, WorkStages, Bound
  <2>2. ClientOf[b] \in Clients /\ WorksOn(b, job[b], ClientOf[b])
    BY <1>7, <2>1, ActorKinds DEF At, WorksOn
  <2>3. attached'[ClientOf[b]] = attached[ClientOf[b]]
    BY <1>5, <2>2
  <2> QED BY <2>1, <2>2, <2>3 DEF Intact, Minds
<1> QED BY <1>5, <1>6, <1>7 DEF Bound

\* An actor goes on that has no lock and takes none.
LEMMA IdlingStep ==
    ASSUME Shared, Locked, NEW a \in Actors,
           job[a].stage \notin WorkStages, job'[a].stage \notin WorkStages,
           \A b \in Actors \ {a} : job'[b] = job[b],
           UNCHANGED <<linkVars, lock>>
    PROVE  Locked'
<1>1. attached' = attached /\ radio' = radio /\ lock' = lock
  BY DEF linkVars
<1>2. Minds(a)
  BY <1>1 DEF Minds, Resumed
<1>3. \A c \in Clients : lock[c] # a /\ ~WorksOn(a, job'[a], c)
  BY WorkingIs DEF Locked, Bound, WorksOn, WorkStages
<1>4. Bound(a)'
  BY <1>1, <1>3 DEF Bound, At, WorkStages
<1> QED BY <1>2, <1>4, MindfulStep

\* An actor has client c's lock after the step, and works on c.
LEMMA LockingStep ==
    ASSUME Shared, Locked, NEW a \in Actors, NEW c \in Clients,
           lock[c] \in {NoActor, a}, Lock(c, a),
           \A d \in Clients : WorksOn(a, job[a], d) => d = c,
           \A d \in Clients : WorksOn(a, job'[a], d) <=> d = c,
           \A b \in Actors \ {a} : job'[b] = job[b],
           \A d \in Clients \ {c} : attached'[d] = attached[d],
           \A d \in Clients : \A n : radio[d][n] = "gone" => radio'[d][n] = "gone",
           job'[a].stage \in {"connect", "drop", "switchDrop"} => attached'[c] = NoConn,
           At(a, "exchange")' => attached'[c] = job'[a].conn /\ c = ClientOf[a]
    PROVE  Locked'
<1>1. /\ lock'[c] = a
      /\ \A d \in Clients \ {c} : lock'[d] = lock[d] /\ lock[d] # a
  BY DEF Lock, Shared, Links, Locked, Bound
<1>2. Minds(a)
  BY <1>1 DEF Minds, Resumed
<1>3. Bound(a)'
  BY <1>1 DEF Bound, Intact
<1> QED BY <1>2, <1>3, MindfulStep

\* An actor has no lock after the step.
LEMMA UnlockingStep ==
    ASSUME Shared, Locked, NEW a \in Actors, NEW c \in Clients,
           lock[c] \in {NoActor, a}, Unlock(c),
           \A d \in Clients : WorksOn(a, job[a], d) => d = c,
           job'[a].stage \notin WorkStages,
           \A b \in Actors \ {a} : Resumed(b),
           \A d \in Clients \ {c} : attached'[d] = attached[d],
           UNCHANGED radio
    PROVE  Locked'
<1>1. a # NoActor
  BY SharedAssumption
<1>2. /\ lock'[c] = NoActor
      /\ \A d \in Clients \ {c} : lock'[d] = lock[d] /\ lock[d] # a
  BY DEF Unlock, Shared, Links, Locked, Bound
<1>3. Minds(a)
  BY <1>2 DEF Minds
<1>4. Bound(a)'
  BY <1>1, <1>2 DEF Bound, At, WorksOn, WorkStages
<1> QED BY <1>3, <1>4, MindfulStep

------------------------------------------------------------------------------
\* The actions and the locks

LEMMA Goes ==
    ASSUME Shared, NEW a \in Actors
    PROVE  /\ \A s : To(a, s) =>
                /\ job'[a].stage = s
                /\ job'[a].conn = job[a].conn
                /\ job'[a].from = job[a].from
                /\ \A b \in Actors \ {a} : job'[b] = job[b]
           /\ \A j : Become(a, j) =>
                /\ job'[a] = j
                /\ \A b \in Actors \ {a} : job'[b] = job[b]
<1>1. job = [b \in Actors |-> job[b]] /\ IsJob(a, job[a])
  BY DEF Shared, Jobs
<1>2. ASSUME NEW s, To(a, s)
      PROVE  job' = [job EXCEPT ![a] = [job[a] EXCEPT !.stage = s]]
  BY <1>1, <1>2 DEF To
<1>3. ASSUME NEW s
      PROVE  /\ [job[a] EXCEPT !.stage = s].stage = s
             /\ [job[a] EXCEPT !.stage = s].conn = job[a].conn
             /\ [job[a] EXCEPT !.stage = s].from = job[a].from
  BY <1>1 DEF IsJob
<1>4. ASSUME NEW j, job' = [job EXCEPT ![a] = j]
      PROVE  job'[a] = j /\ \A b \in Actors \ {a} : job'[b] = job[b]
  BY <1>1, <1>4
<1>5. ASSUME NEW s, To(a, s)
      PROVE  /\ job'[a].stage = s
             /\ job'[a].conn = job[a].conn
             /\ job'[a].from = job[a].from
             /\ \A b \in Actors \ {a} : job'[b] = job[b]
  <2>1. /\ job'[a] = [job[a] EXCEPT !.stage = s]
        /\ \A b \in Actors \ {a} : job'[b] = job[b]
    BY <1>2, <1>4, <1>5
  <2> QED BY <2>1, <1>3
<1> QED BY <1>4, <1>5 DEF Become

LEMMA SwitchedGoes ==
    ASSUME Shared, NEW t \in Tasks, Switched(t)
    PROVE  /\ job'[t].stage \in {"lock", "failed", "prepare"}
           /\ \A b \in Actors \ {t} : job'[b] = job[b]
<1> DEFINE new == [job[t] EXCEPT !.stage = WithLease(t), !.from = NoClient]
<1>1. new.stage = WithLease(t) /\ t \in Actors
  BY TaskFacts DEF IsJob
<1>2. Become(t, new)
  BY DEF Switched
<1> HIDE DEF new
<1> QED BY <1>1, <1>2, Goes DEF WithLease

\* A transaction or recovery that asks for the lease, or gets it.
LEMMA RequestingIdles ==
    ASSUME Shared, NEW t \in Tasks, NEW conn, NEW timers,
           RequestLease(t, conn, timers) \/ EnterLease(t, conn, timers)
    PROVE  /\ job'[t].stage \notin WorkStages
           /\ \A b \in Actors \ {t} : job'[b] = job[b]
<1>1. \E s \in {"lock", "failed", "prepare", "switchIdle", "switchLock", "lease"} :
        \E f : Become(t, Job(s, conn, f))
  BY DEF RequestLease, EnterLease, WithLease
<1> QED BY <1>1, Goes, ActorKinds DEF Job, WorkStages

LEMMA LeasingKeepsLocked ==
    ASSUME Shared, Locked, NEW t \in Tasks,
           \/ Start(t) \/ IdleWaitOver(t) \/ IdleWaitFails(t)
           \/ LeaseGranted(t) \/ LeaseFails(t) \/ MalformedFrame(t)
    PROVE  Locked'
<1>1. /\ job[t].stage \in {"off", "idleWait", "idleOver", "lease"}
      /\ UNCHANGED <<linkVars, lock>>
  BY DEF Start, IdleWaitOver, IdleWaitFails, LeaseGranted, LeaseFails, MalformedFrame,
         Resumes, At
<1>2. /\ job'[t].stage \notin WorkStages
      /\ \A b \in Actors \ {t} : job'[b] = job[b]
  <2>1. CASE Start(t)
    <3>1. CASE To(t, "idleWait")
      BY <3>1, Goes, ActorKinds DEF WorkStages
    <3>2. CASE ~To(t, "idleWait")
      BY <2>1, <3>2, RequestingIdles DEF Start
    <3> QED BY <3>1, <3>2
  <2>2. CASE IdleWaitOver(t)
    BY <2>2, RequestingIdles DEF IdleWaitOver
  <2>3. CASE IdleWaitFails(t) \/ LeaseFails(t)
    BY <2>3, Goes, ActorKinds DEF IdleWaitFails, LeaseFails, WorkStages, Off, Job
  <2>4. CASE LeaseGranted(t)
    BY <2>4, RequestingIdles DEF LeaseGranted
  <2>5. CASE MalformedFrame(t)
    BY <2>5, RequestingIdles DEF MalformedFrame
  <2> QED BY <2>1, <2>2, <2>3, <2>4, <2>5
<1>3. job[t].stage \notin WorkStages
  BY <1>1 DEF WorkStages
<1> QED BY <1>1, <1>2, <1>3, IdlingStep, ActorKinds

\* Steps of the lease's holder that only move it on.
LEMMA WaitingKeepsLocked ==
    ASSUME Shared, Locked, NEW a \in Actors,
           \/ SwitchWaits(a) \/ Prepared(a) \/ LockFails(a)
           \/ \E c \in Clients : WaitsForLock(a, c)
           \/ Failed(a)
    PROVE  Locked'
<1>1. /\ job[a].stage \in {"switchLock", "prepare", "lock", "lockWait", "failed"}
      /\ \/ \E s \in {"switchLockWait", "lock", "failed", "lockWait"} : To(a, s)
         \/ Become(a, Off)
      /\ UNCHANGED <<linkVars, lock>>
  BY DEF SwitchWaits, Prepared, WaitsForLock, LockFails, Failed, Resumes, At
<1>2. /\ job[a].stage \notin WorkStages /\ job'[a].stage \notin WorkStages
      /\ \A b \in Actors \ {a} : job'[b] = job[b]
  BY <1>1, Goes DEF WorkStages, Off, Job
<1> QED BY <1>1, <1>2, IdlingStep

LEMMA SwitchLocksKeepsLocked ==
    ASSUME Shared, Locked, NEW t \in Tasks, SwitchLocks(t)
    PROVE  Locked'
<1> DEFINE p == job[t].from
<1>1. /\ job[t].stage \in {"switchLock", "switchLockWait"}
      /\ lock[p] = NoActor
      /\ radio' = radio
      /\ t \in Actors
  BY ActorKinds DEF SwitchLocks, Resumes, At
<1>2. p \in Clients
  BY <1>1, TaskFacts DEF Switching
<1>3. CASE attached[p] = NoConn
  <2>1. Switched(t) /\ UNCHANGED <<linkVars, lock>>
    BY <1>1, <1>3 DEF SwitchLocks, linkVars
  <2>2. /\ job[t].stage \notin WorkStages /\ job'[t].stage \notin WorkStages
        /\ \A b \in Actors \ {t} : job'[b] = job[b]
    BY <1>1, <2>1, SwitchedGoes DEF WorkStages
  <2> QED BY <1>1, <2>1, <2>2, IdlingStep
<1>4. CASE attached[p] # NoConn
  <2>1. Detach(p) /\ Lock(p, t) /\ To(t, "switchDrop")
    BY <1>4 DEF SwitchLocks
  <2>2. /\ job'[t].stage = "switchDrop" /\ job'[t].from = p
        /\ \A b \in Actors \ {t} : job'[b] = job[b]
    BY <1>1, <2>1, Goes
  <2> HIDE DEF p
  <2>3. /\ \A d \in Clients : ~WorksOn(t, job[t], d)
        /\ \A d \in Clients : WorksOn(t, job'[t], d) <=> d = p
    BY <1>1, <2>2 DEF WorksOn
  <2>4. attached'[p] = NoConn /\ \A d \in Clients \ {p} : attached'[d] = attached[d]
    BY <1>2, <2>1, DetachStep
  <2>5. ~At(t, "exchange")'
    BY <2>2 DEF At
  <2> QED BY <1>1, <1>2, <2>1, <2>2, <2>3, <2>4, <2>5, LockingStep
<1> QED BY <1>3, <1>4

LEMMA SwitchDroppedKeepsLocked ==
    ASSUME Shared, Locked, NEW t \in Tasks,
           \/ SwitchDropped(t)
           \/ SwitchFails(t) /\ Resumes(t, "switchDrop") /\ Unlock(job[t].from)
    PROVE  Locked'
<1> DEFINE p == job[t].from
<1>1. /\ job[t].stage = "switchDrop"
      /\ Unlock(p)
      /\ UNCHANGED linkVars
      /\ t \in Actors
  BY ActorKinds DEF SwitchDropped, SwitchFails, Resumes, At
<1>2. p \in Clients /\ IsJob(t, job[t])
  BY <1>1, TaskFacts DEF Switching
<1>3. WorksOn(t, job[t], p) /\ \A d \in Clients : WorksOn(t, job[t], d) => d = p
  BY <1>1, <1>2, OneClient DEF WorksOn
<1>4. lock[p] = t
  BY <1>1, <1>2, <1>3 DEF Locked, Bound
<1>5. /\ job'[t].stage \notin WorkStages
      /\ \A b \in Actors \ {t} : job'[b] = job[b]
  <2>1. CASE SwitchDropped(t)
    BY <2>1, SwitchedGoes DEF SwitchDropped, WorkStages
  <2>2. CASE SwitchFails(t)
    BY <1>1, <2>2, Goes DEF SwitchFails, WorkStages, Off, Job
  <2> QED BY <2>1, <2>2
<1> HIDE DEF p
<1> QED BY <1>1, <1>2, <1>3, <1>4, <1>5, UnlockingStep DEF linkVars, Resumed

LEMMA SwitchFailsKeepsLocked ==
    ASSUME Shared, Locked, NEW t \in Tasks, SwitchFails(t)
    PROVE  Locked'
<1>1. CASE Resumes(t, "switchDrop") /\ Unlock(job[t].from)
  BY <1>1, SwitchDroppedKeepsLocked
<1>2. CASE ~(Resumes(t, "switchDrop") /\ Unlock(job[t].from))
  <2>1. /\ job[t].stage \in {"switchIdle", "switchLockWait"}
        /\ Become(t, Off)
        /\ UNCHANGED <<linkVars, lock>>
    BY <1>2 DEF SwitchFails, Resumes, At
  <2>2. /\ job[t].stage \notin WorkStages /\ job'[t].stage \notin WorkStages
        /\ \A b \in Actors \ {t} : job'[b] = job[b]
    BY <2>1, Goes, ActorKinds DEF WorkStages, Off, Job
  <2> QED BY <2>1, <2>2, IdlingStep, ActorKinds
<1> QED BY <1>1, <1>2

\* A task has its client's lock from its connection to its end.
LEMMA TaskWorks ==
    ASSUME Shared, Locked, NEW t \in Tasks,
           job[t].stage \in {"connect", "exchange", "stopNotify", "drop"}
    PROVE  /\ lock[ClientOf[t]] = t
           /\ \A d \in Clients : WorksOn(t, job[t], d) => d = ClientOf[t]
           /\ job[t].stage \in {"connect", "drop"} => attached[ClientOf[t]] = NoConn
<1>1. t \in Actors /\ ClientOf[t] \in Clients /\ IsJob(t, job[t])
  BY TaskFacts
<1>2. WorksOn(t, job[t], ClientOf[t])
  BY <1>1 DEF WorksOn
<1> QED BY <1>1, <1>2, OneClient DEF Locked, Bound

LEMMA TaskWillWork ==
    ASSUME NEW t \in Tasks, NEW j,
           j.stage \in {"connect", "exchange", "stopNotify", "drop"}
    PROVE  \A d \in Clients : WorksOn(t, j, d) <=> d = ClientOf[t]
BY ActorKinds DEF WorksOn

LEMMA LocksTransactionKeepsLocked ==
    ASSUME Shared, Locked, NEW t \in Tasks, LocksTransaction(t)
    PROVE  Locked'
<1> DEFINE c == ClientOf[t]
<1>1. /\ job[t].stage \in {"lock", "lockWait"}
      /\ lock[c] = NoActor
      /\ radio' = radio
      /\ t \in Actors /\ c \in Clients
  BY ActorKinds DEF LocksTransaction, FindsFree, Resumes, At
<1>2. \A d \in Clients : ~WorksOn(t, job[t], d)
  BY <1>1 DEF WorksOn
<1>3. CASE To(t, "failed") /\ UNCHANGED <<attached, lock>>
  <2>1. /\ job[t].stage \notin WorkStages /\ job'[t].stage \notin WorkStages
        /\ \A b \in Actors \ {t} : job'[b] = job[b]
    BY <1>1, <1>3, Goes DEF WorkStages
  <2> QED BY <1>1, <1>3, <2>1, IdlingStep DEF linkVars
<1>4. CASE /\ Lock(c, t) /\ UNCHANGED attached
           /\ Become(t, Job("exchange", attached[c], NoClient))
  <2>1. /\ job'[t].stage = "exchange" /\ job'[t].conn = attached[c]
        /\ \A b \in Actors \ {t} : job'[b] = job[b]
    BY <1>1, <1>4, Goes DEF Job
  <2>2. \A d \in Clients : WorksOn(t, job'[t], d) <=> d = c
    BY <2>1, TaskWillWork
  <2> HIDE DEF c
  <2> QED BY <1>1, <1>2, <1>4, <2>1, <2>2, LockingStep DEF At, c
<1>5. CASE Lock(c, t) /\ To(t, "connect") /\ ResetForAttempt(c)
  <2>1. /\ job'[t].stage = "connect"
        /\ \A b \in Actors \ {t} : job'[b] = job[b]
    BY <1>1, <1>5, Goes
  <2>2. \A d \in Clients : WorksOn(t, job'[t], d) <=> d = c
    BY <2>1, TaskWillWork
  <2>3. attached'[c] = NoConn /\ \A d \in Clients \ {c} : attached'[d] = attached[d]
    BY <1>1, <1>5 DEF ResetForAttempt, Shared, Links
  <2>4. ~At(t, "exchange")'
    BY <2>1 DEF At
  <2> HIDE DEF c
  <2> QED BY <1>1, <1>2, <1>5, <2>1, <2>2, <2>3, <2>4, LockingStep
<1> QED BY <1>3, <1>4, <1>5 DEF LocksTransaction

LEMMA ConnectsKeepsLocked ==
    ASSUME Shared, Locked, NEW t \in Tasks, Connects(t)
    PROVE  Locked'
<1> DEFINE c == ClientOf[t]
<1>1. PICK n \in Conns, link \in {"up", "gone"} :
        /\ job[t].stage = "connect"
        /\ radio[c][n] = "unused"
        /\ radio' = [radio EXCEPT ![c][n] = link]
        /\ \/ Detach(c) /\ To(t, "drop")
           \/ /\ attached' = [attached EXCEPT ![c] = n]
              /\ Become(t, Job("exchange", n, NoClient))
        /\ UNCHANGED lock
  BY DEF Connects, Resumes, At
<1>2. t \in Actors /\ c \in Clients
  BY ActorKinds
<1>3. /\ lock[c] = t
      /\ \A d \in Clients : WorksOn(t, job[t], d) => d = c
  BY <1>1, TaskWorks
<1>4. Lock(c, t)
  BY <1>1, <1>2, <1>3 DEF Lock, Shared, Links
<1>5. \A d \in Clients : \A m : radio[d][m] = "gone" => radio'[d][m] = "gone"
  BY <1>1, <1>2 DEF Shared, Links
<1>6. CASE Detach(c) /\ To(t, "drop")
  <2>1. job'[t].stage = "drop" /\ \A b \in Actors \ {t} : job'[b] = job[b]
    BY <1>2, <1>6, Goes
  <2>2. \A d \in Clients : WorksOn(t, job'[t], d) <=> d = c
    BY <2>1, TaskWillWork
  <2>3. attached'[c] = NoConn /\ \A d \in Clients \ {c} : attached'[d] = attached[d]
    BY <1>2, <1>6, DetachStep
  <2>4. ~At(t, "exchange")'
    BY <2>1 DEF At
  <2> HIDE DEF c
  <2> QED BY <1>2, <1>3, <1>4, <1>5, <2>1, <2>2, <2>3, <2>4, LockingStep
<1>7. CASE /\ attached' = [attached EXCEPT ![c] = n]
           /\ Become(t, Job("exchange", n, NoClient))
  <2>1. /\ job'[t].stage = "exchange" /\ job'[t].conn = n
        /\ \A b \in Actors \ {t} : job'[b] = job[b]
    BY <1>2, <1>7, Goes DEF Job
  <2>2. \A d \in Clients : WorksOn(t, job'[t], d) <=> d = c
    BY <2>1, TaskWillWork
  <2>3. attached'[c] = n /\ \A d \in Clients \ {c} : attached'[d] = attached[d]
    BY <1>2, <1>7 DEF Shared, Links
  <2> HIDE DEF c
  <2> QED BY <1>2, <1>3, <1>4, <1>5, <2>1, <2>2, <2>3, LockingStep DEF c
<1> QED BY <1>1, <1>6, <1>7

\* A task's work is over: its client's lock is given back.
LEMMA TaskUnlocks ==
    ASSUME Shared, Locked, NEW t \in Tasks,
           job[t].stage \in {"connect", "exchange", "stopNotify", "drop"},
           Unlock(ClientOf[t]), To(t, "failed") \/ Become(t, Off),
           \A d \in Clients \ {ClientOf[t]} : attached'[d] = attached[d],
           UNCHANGED radio
    PROVE  Locked'
<1>1. /\ lock[ClientOf[t]] = t
      /\ \A d \in Clients : WorksOn(t, job[t], d) => d = ClientOf[t]
      /\ t \in Actors /\ ClientOf[t] \in Clients
  BY TaskWorks, ActorKinds
<1>2. /\ job'[t].stage \notin WorkStages
      /\ \A b \in Actors \ {t} : Resumed(b)
  BY <1>1, Goes DEF Off, Job, WorkStages, Resumed
<1> QED BY <1>1, <1>2, UnlockingStep

LEMMA TaskDrops ==
    ASSUME Shared, Locked, NEW t \in Tasks,
           job[t].stage \in {"exchange", "stopNotify"},
           Drop(t, ClientOf[t], Finish(t)), UNCHANGED radio
    PROVE  Locked'
<1> DEFINE c == ClientOf[t]
<1>1. /\ lock[c] = t
      /\ \A d \in Clients : WorksOn(t, job[t], d) => d = c
      /\ t \in Actors /\ c \in Clients
  BY TaskWorks, ActorKinds
<1>2. attached'[c] = NoConn /\ \A d \in Clients \ {c} : attached'[d] = attached[d]
  BY <1>1, DetachStep DEF Drop
<1>3. CASE attached[c] = NoConn
  BY <1>2, <1>3, TaskUnlocks DEF Drop, Finish
<1>4. CASE attached[c] # NoConn
  <2>1. Lock(c, t) /\ To(t, "drop")
    BY <1>4 DEF Drop
  <2>2. job'[t].stage = "drop" /\ \A b \in Actors \ {t} : job'[b] = job[b]
    BY <1>1, <2>1, Goes
  <2>3. \A d \in Clients : WorksOn(t, job'[t], d) <=> d = c
    BY <2>2, TaskWillWork
  <2>4. ~At(t, "exchange")'
    BY <2>2 DEF At
  <2> HIDE DEF c
  <2> QED BY <1>1, <1>2, <2>1, <2>2, <2>3, <2>4, LockingStep
<1> QED BY <1>3, <1>4

LEMMA WorkKeepsLocked ==
    ASSUME Shared, Locked, NEW t \in Tasks,
           \/ ConnectFails(t)
           \/ ExchangeSucceeds(t) \/ ExchangeDiscards(t) \/ ExchangeFails(t)
           \/ Dropped(t) \/ ListenerStopped(t) \/ ListenerStopCancelled(t)
    PROVE  Locked'
<1>1. CASE ConnectFails(t)
  BY <1>1, TaskUnlocks DEF ConnectFails, Resumes, At, linkVars
<1>2. CASE ExchangeSucceeds(t) \/ ExchangeDiscards(t) \/ ExchangeFails(t)
  <2>1. job[t].stage = "exchange" /\ radio' = radio
    BY <1>2 DEF ExchangeSucceeds, ExchangeDiscards, ExchangeFails, Resumes, At
  <2>2. CASE Drop(t, ClientOf[t], Finish(t))
    BY <2>1, <2>2, TaskDrops
  <2>3. CASE Finish(t) /\ UNCHANGED attached
    BY <2>1, <2>3, TaskUnlocks DEF Finish
  <2> QED BY <1>2, <2>2, <2>3 DEF ExchangeSucceeds, ExchangeDiscards, ExchangeFails
<1>3. CASE Dropped(t) \/ ListenerStopCancelled(t)
  BY <1>3, TaskUnlocks
     DEF Dropped, ListenerStopCancelled, Finish, Resumes, At, linkVars
<1>4. CASE ListenerStopped(t)
  BY <1>4, TaskDrops DEF ListenerStopped, Resumes, At
<1> QED BY <1>1, <1>2, <1>3, <1>4

LEMMA LocksRecoveryKeepsLocked ==
    ASSUME Shared, Locked, NEW r \in Tasks, LocksRecovery(r)
    PROVE  Locked'
<1> DEFINE c == ClientOf[r]
<1>1. /\ job[r].stage \in {"lock", "lockWait"}
      /\ lock[c] = NoActor
      /\ UNCHANGED linkVars
      /\ r \in Actors /\ c \in Clients
  BY ActorKinds DEF LocksRecovery, FindsFree, Resumes, At
<1>2. \A d \in Clients : ~WorksOn(r, job[r], d)
  BY <1>1 DEF WorksOn
<1>3. CASE Lock(c, r) /\ To(r, "stopNotify")
  <2>1. job'[r].stage = "stopNotify" /\ \A b \in Actors \ {r} : job'[b] = job[b]
    BY <1>1, <1>3, Goes
  <2>2. \A d \in Clients : WorksOn(r, job'[r], d) <=> d = c
    BY <2>1, TaskWillWork
  <2>3. ~At(r, "exchange")'
    BY <2>1 DEF At
  <2> HIDE DEF c
  <2> QED BY <1>1, <1>2, <1>3, <2>1, <2>2, <2>3, LockingStep DEF linkVars
<1>4. CASE Become(r, Off) /\ UNCHANGED lock
  <2>1. /\ job[r].stage \notin WorkStages /\ job'[r].stage \notin WorkStages
        /\ \A b \in Actors \ {r} : job'[b] = job[b]
    BY <1>1, <1>4, Goes DEF WorkStages, Off, Job
  <2> QED BY <1>1, <1>4, <2>1, IdlingStep
<1> QED BY <1>3, <1>4 DEF LocksRecovery

------------------------------------------------------------------------------
\* The idle disconnect, close and the radio, and the locks

\* The idle disconnect and close work on their own client only.
LEMMA OwnClient ==
    ASSUME Shared, NEW c \in Clients, NEW a \in {IdleTask(c), Closer(c)},
           NEW j, j.stage # "switchDrop", NEW d \in Clients
    PROVE  WorksOn(a, j, d) <=>
             d = c /\ j.stage \in {"connect", "exchange", "stopNotify", "drop"}
BY ActorKinds DEF WorksOn

LEMMA OwnStages ==
    ASSUME Shared, NEW c \in Clients, NEW a \in {IdleTask(c), Closer(c)}
    PROVE  a \in Actors /\ job[a].stage \notin {"switchDrop", "connect", "exchange"}
BY ActorKinds DEF Shared, Jobs, IsJob

LEMMA TimerFiresKeepsLocked ==
    ASSUME Shared, Locked, NEW c \in Clients, TimerFires(c)
    PROVE  Locked'
<1>1. UNCHANGED <<linkVars, lock>>
  BY DEF TimerFires
<1>2. CASE UNCHANGED job
  BY <1>1, <1>2 DEF Locked, Bound, Intact, At, linkVars
<1>3. ASSUME NEW s \in {"lock", "lockWait"}, ~IdleRunning(c), To(IdleTask(c), s)
      PROVE  Locked'
  <2>1. /\ job[IdleTask(c)].stage \notin WorkStages
        /\ job'[IdleTask(c)].stage \notin WorkStages
        /\ \A b \in Actors \ {IdleTask(c)} : job'[b] = job[b]
    BY <1>3, Goes, ActorKinds DEF WorkStages, IdleRunning, At
  <2> QED BY <1>1, <2>1, IdlingStep, ActorKinds
<1> QED BY <1>2, <1>3 DEF TimerFires

LEMMA OwnDropKeepsLocked ==
    ASSUME Shared, Locked, NEW c \in Clients, NEW a \in {IdleTask(c), Closer(c)},
           job[a].stage \in {"lock", "lockWait"}, lock[c] = NoActor, Detach(c),
           \/ attached[c] # NoConn /\ Lock(c, a) /\ To(a, "drop")
           \/ /\ attached[c] = NoConn /\ Unlock(c)
              /\ job'[a].stage \in {"off", "done"}
              /\ \A b \in Actors \ {a} : Resumed(b),
           UNCHANGED radio
    PROVE  Locked'
<1>1. /\ a \in Actors
      /\ \A d \in Clients : ~WorksOn(a, job[a], d)
      /\ attached'[c] = NoConn
      /\ \A d \in Clients \ {c} : attached'[d] = attached[d]
  BY OwnStages, DetachStep DEF WorksOn
<1>2. CASE attached[c] # NoConn /\ Lock(c, a) /\ To(a, "drop")
  <2>1. job'[a].stage = "drop" /\ \A b \in Actors \ {a} : job'[b] = job[b]
    BY <1>1, <1>2, Goes
  <2>2. \A d \in Clients : WorksOn(a, job'[a], d) <=> d = c
    BY <2>1, OwnClient
  <2>3. ~At(a, "exchange")'
    BY <2>1 DEF At
  <2> QED BY <1>1, <1>2, <2>1, <2>2, <2>3, LockingStep
<1>3. CASE /\ Unlock(c) /\ job'[a].stage \in {"off", "done"}
           /\ \A b \in Actors \ {a} : Resumed(b)
  BY <1>1, <1>3, UnlockingStep DEF WorkStages
<1> QED BY <1>2, <1>3

LEMMA OwnUnlockKeepsLocked ==
    ASSUME Shared, Locked, NEW c \in Clients, NEW a \in {IdleTask(c), Closer(c)},
           job[a].stage = "drop", Unlock(c), job'[a].stage \in {"off", "done"},
           \A b \in Actors \ {a} : Resumed(b), UNCHANGED linkVars
    PROVE  Locked'
<1>1. /\ a \in Actors
      /\ \A d \in Clients : WorksOn(a, job[a], d) <=> d = c
  BY OwnStages, OwnClient
<1>2. lock[c] = a
  BY <1>1 DEF Locked, Bound
<1> QED BY <1>1, <1>2, UnlockingStep DEF WorkStages, linkVars

LEMMA IdleKeepsLocked ==
    ASSUME Shared, Locked, NEW c \in Clients, IdleLocks(c) \/ IdleDropped(c)
    PROVE  Locked'
<1> DEFINE a == IdleTask(c)
<1>1. ASSUME IdleEnds(c)
      PROVE  /\ Unlock(c) /\ job'[a].stage \in {"off", "done"}
             /\ \A b \in Actors \ {a} : Resumed(b)
  BY <1>1, IdleOverMoves DEF IdleEnds, Off, Job
<1>2. CASE IdleLocks(c)
  <2>1. /\ job[a].stage \in {"lock", "lockWait"} /\ lock[c] = NoActor
        /\ Drop(a, c, IdleEnds(c) /\ UNCHANGED restOfArbiter)
        /\ radio' = radio
    BY <1>2 DEF IdleLocks, FindsFree, Resumes, At
  <2>2. \/ attached[c] # NoConn /\ Lock(c, a) /\ To(a, "drop")
        \/ attached[c] = NoConn /\ IdleEnds(c)
    BY <2>1 DEF Drop
  <2>3. Detach(c)
    BY <2>1 DEF Drop
  <2> HIDE DEF a
  <2> QED BY <1>1, <2>1, <2>2, <2>3, OwnDropKeepsLocked DEF a
<1>3. CASE IdleDropped(c)
  <2>1. job[a].stage = "drop" /\ IdleEnds(c) /\ UNCHANGED linkVars
    BY <1>3 DEF IdleDropped, Resumes, At
  <2> QED BY <1>1, <2>1, OwnUnlockKeepsLocked
<1> QED BY <1>2, <1>3

LEMMA CloseKeepsLocked ==
    ASSUME Shared, Locked, NEW c \in Clients,
           \/ Close(c) \/ RecoveryCancelled(c) \/ CloseGivesUp(c)
           \/ CloseLocks(c) \/ CloseDropped(c)
    PROVE  Locked'
<1> DEFINE a == Closer(c)
<1>1. a \in Actors
  BY ActorKinds
<1>2. CASE Close(c) \/ RecoveryCancelled(c) \/ CloseGivesUp(c)
  <2>1. /\ job[a].stage \in {"off", "recovery", "lockWait"}
        /\ \E s \in {"recovery", "idleWait", "lock", "done"} : To(a, s)
        /\ UNCHANGED <<linkVars, lock>>
    BY <1>2 DEF Close, RecoveryCancelled, CloseGivesUp, Resumes, At
  <2>2. /\ job[a].stage \notin WorkStages /\ job'[a].stage \notin WorkStages
        /\ \A b \in Actors \ {a} : job'[b] = job[b]
    BY <1>1, <2>1, Goes DEF WorkStages
  <2> QED BY <1>1, <2>1, <2>2, IdlingStep
<1>3. ASSUME CloseEnds(c)
      PROVE  /\ Unlock(c) /\ job'[a].stage \in {"off", "done"}
             /\ \A b \in Actors \ {a} : Resumed(b)
  BY <1>1, <1>3, Goes DEF CloseEnds, Resumed
<1>4. CASE CloseLocks(c)
  <2>1. /\ job[a].stage \in {"lock", "lockWait"} /\ lock[c] = NoActor
        /\ Drop(a, c, CloseEnds(c) /\ UNCHANGED restOfArbiter)
        /\ radio' = radio
    BY <1>4 DEF CloseLocks, FindsFree, Resumes, At
  <2>2. \/ attached[c] # NoConn /\ Lock(c, a) /\ To(a, "drop")
        \/ attached[c] = NoConn /\ CloseEnds(c)
    BY <2>1 DEF Drop
  <2>3. Detach(c)
    BY <2>1 DEF Drop
  <2> HIDE DEF a
  <2> QED BY <1>3, <2>1, <2>2, <2>3, OwnDropKeepsLocked DEF a
<1>5. CASE CloseDropped(c)
  <2>1. job[a].stage = "drop" /\ CloseEnds(c) /\ UNCHANGED linkVars
    BY <1>5 DEF CloseDropped, Resumes, At
  <2> QED BY <1>3, <2>1, OwnUnlockKeepsLocked
<1> QED BY <1>2, <1>4, <1>5

\* The callback of the connection an exchange works on takes it away, and says
\* so; the callback of an earlier one changes nothing.
LEMMA RadioKeepsLocked ==
    ASSUME Shared, Locked, NEW c \in Clients, NEW n \in Conns,
           LinkLost(c, n) \/ DisconnectCallback(c, n)
    PROVE  Locked'
<1>1. /\ job' = job /\ lock' = lock
      /\ radio[c][n] \in {"up", "lost"}
      /\ \E s : radio' = [radio EXCEPT ![c][n] = s]
  BY DEF LinkLost, DisconnectCallback
<1>2. \A d \in Clients : \A m : radio[d][m] = "gone" => radio'[d][m] = "gone"
  BY <1>1 DEF Shared, Links
<1>3. \/ attached' = attached
      \/ /\ attached[c] = n /\ attached' = [attached EXCEPT ![c] = NoConn]
         /\ radio'[c][n] = "gone"
  BY DEF LinkLost, DisconnectCallback, Detach, Shared, Links
<1>4. \A d \in Clients :
        \/ attached'[d] = attached[d]
        \/ attached'[d] = NoConn /\ radio'[d][attached[d]] = "gone"
  BY <1>3 DEF Shared, Links
<1>5. ASSUME NEW a \in Actors
      PROVE  Bound(a)'
  <2>1. Bound(a)
    BY DEF Locked
  <2>2. ASSUME a \in Transactions, At(a, "exchange")'
        PROVE  Intact(a)'
    <3>1. Intact(a) /\ ClientOf[a] \in Clients
      BY <1>1, <2>1, <2>2, ActorKinds DEF Bound, At
    <3> QED BY <1>1, <1>2, <1>4, <3>1 DEF Intact
  <2>3. \A d \in Clients : attached[d] = NoConn => attached'[d] = NoConn
    BY <1>4
  <2> QED BY <1>1, <2>1, <2>2, <2>3 DEF Bound
<1> QED BY <1>5 DEF Locked

------------------------------------------------------------------------------
LEMMA NextKeepsLocked == Shared /\ Locked /\ Next => Locked'
<1> SUFFICES ASSUME Shared, Locked, Next PROVE Locked'
  OBVIOUS
<1>1. CASE \E t \in Tasks : Progress(t)
  BY <1>1, LeasingKeepsLocked, WaitingKeepsLocked, SwitchLocksKeepsLocked,
     SwitchDroppedKeepsLocked, LocksTransactionKeepsLocked, ConnectsKeepsLocked,
     WorkKeepsLocked, LocksRecoveryKeepsLocked, ActorKinds DEF Progress
<1>2. CASE \E c \in Clients : IdleProgress(c) \/ CloseProgress(c)
  BY <1>2, WaitingKeepsLocked, IdleKeepsLocked, CloseKeepsLocked, ActorKinds
     DEF IdleProgress, CloseProgress
<1>3. CASE Starts
  BY <1>3, LeasingKeepsLocked, TimerFiresKeepsLocked, CloseKeepsLocked DEF Starts
<1>4. CASE GivesUpWaiting
  BY <1>4, LeasingKeepsLocked, SwitchFailsKeepsLocked, WaitingKeepsLocked,
     CloseKeepsLocked, ActorKinds DEF GivesUpWaiting
<1>5. CASE Radio
  BY <1>5, RadioKeepsLocked DEF Radio
<1> QED BY <1>1, <1>2, <1>3, <1>4, <1>5 DEF Next

LEMMA LockedKept == Shared /\ Locked /\ [Next]_vars => Locked'
<1>1. Locked /\ UNCHANGED vars => Locked'
  BY DEF vars, linkVars, Locked, Bound, Intact, At
<1> QED BY <1>1, NextKeepsLocked

LEMMA InitLocked == Init => Locked
<1>1. NoActor \notin Actors
  BY SharedAssumption
<1> QED BY <1>1 DEF Init, Locked, Bound, WorksOn, Off, Job, At

THEOREM LockedHolds == Spec => []Locked
BY InitLocked, SharedHolds, LockedKept, PTL DEF Spec

\* WorkSerialized: connecting, exchanges, listener cleanups and disconnects of
\* one purifier never overlap, whichever of its coroutines, or of a coroutine of
\* another purifier that takes the connection over, does them.
THEOREM WorkNeverOverlaps == Spec => []WorkSerialized
<1>1. Shared /\ Locked => WorkSerialized
  <2> SUFFICES ASSUME Shared, Locked, NEW c \in Clients
               PROVE  {a \in Actors : Working(a, c)} =
                        IF lock[c] = NoActor THEN {} ELSE {lock[c]}
    BY DEF WorkSerialized
  <2>1. \A a \in Actors : Working(a, c) <=> lock[c] = a
    BY WorkingIs DEF Locked, Bound
  <2>2. lock[c] \in Actors \cup {NoActor} /\ NoActor \notin Actors
    BY SharedAssumption DEF Shared, Links
  <2> QED BY <2>1, <2>2
<1> QED BY <1>1, SharedHolds, LockedHolds, PTL

\* ExchangeIntact: no timer, switch, close, recovery or late callback takes the
\* connection from an exchange that is running.
THEOREM ExchangesKeepTheirConnection == Spec => []ExchangeIntact
<1>1. Locked => ExchangeIntact
  BY ActorKinds DEF Locked, Bound, ExchangeIntact, Intact
<1> QED BY <1>1, LockedHolds, PTL

\* AttachNeverRefused: whoever connects finds nothing attached when it is done.
THEOREM AttachFindsNothing == Spec => []AttachNeverRefused
<1>1. Locked => AttachNeverRefused
  BY ActorKinds DEF Locked, Bound, WorksOn, At, AttachNeverRefused
<1> QED BY <1>1, LockedHolds, PTL

------------------------------------------------------------------------------
\* Layer 3: what async_close has stopped already

Closing ==
    \A c \in Clients :
        LET stage == job[Closer(c)].stage IN
        /\ closed[c] <=> stage # "off"
        /\ closed[c] => ~timer[c]
        /\ stage \notin {"off", "recovery"} => ~RecoveryRunning(c)
        /\ stage \in {"lock", "lockWait", "drop", "done"} => ~IdleRunning(c)
        /\ stage = "done" /\ lock[c] = NoActor => attached[c] = NoConn

\* After a step that gives client c's lock back, nothing is attached to it,
\* unless it is open or its recovery still has to stop.
Leaves(c) ==
    \/ lock'[c] = lock[c] /\ attached'[c] = attached[c]
    \/ lock'[c] # NoActor
    \/ attached'[c] = NoConn
    \/ ~closed[c] \/ RecoveryRunning(c)

\* A task's step neither reopens a closed client nor begins a recovery there.
LEMMA TaskKeepsClosing ==
    ASSUME Shared, Closing, NEW t \in Tasks,
           \A b \in Actors \ {t} : job'[b] = job[b],
           UNCHANGED closed,
           \A c \in Clients : timer'[c] => timer[c] \/ ~closed[c],
           t \in Recoveries /\ At(t, "off") => At(t, "off")' \/ ~closed[ClientOf[t]],
           \A c \in Clients : Leaves(c)
    PROVE  Closing'
<1> SUFFICES ASSUME NEW c \in Clients
             PROVE  /\ closed'[c] <=> job'[Closer(c)].stage # "off"
                    /\ closed'[c] => ~timer'[c]
                    /\ job'[Closer(c)].stage \notin {"off", "recovery"} =>
                         ~RecoveryRunning(c)'
                    /\ job'[Closer(c)].stage \in {"lock", "lockWait", "drop", "done"} =>
                         ~IdleRunning(c)'
                    /\ job'[Closer(c)].stage = "done" /\ lock'[c] = NoActor =>
                         attached'[c] = NoConn
  BY DEF Closing
<1>1. job'[Closer(c)] = job[Closer(c)] /\ job'[IdleTask(c)] = job[IdleTask(c)]
  BY ActorKinds
<1>2. closed[c] <=> job[Closer(c)].stage # "off"
  BY DEF Closing
<1>3. closed[c] /\ ~RecoveryRunning(c) => ~RecoveryRunning(c)'
  BY ActorKinds DEF RecoveryRunning, At
<1>4. /\ closed'[c] <=> job'[Closer(c)].stage # "off"
      /\ closed'[c] => ~timer'[c]
  BY <1>1 DEF Closing
<1>5. job'[Closer(c)].stage \notin {"off", "recovery"} => ~RecoveryRunning(c)'
  BY <1>1, <1>3 DEF Closing
<1>6. job'[Closer(c)].stage \in {"lock", "lockWait", "drop", "done"} => ~IdleRunning(c)'
  BY <1>1 DEF Closing, IdleRunning, At
<1>7. job'[Closer(c)].stage = "done" /\ lock'[c] = NoActor => attached'[c] = NoConn
  BY <1>1 DEF Closing, Leaves
<1> QED BY <1>4, <1>5, <1>6, <1>7

LEMMA LeasingKeepsClosing ==
    ASSUME Shared, Closing, NEW t \in Tasks,
           \/ Start(t) \/ IdleWaitOver(t) \/ IdleWaitFails(t)
           \/ LeaseGranted(t) \/ LeaseFails(t) \/ MalformedFrame(t)
    PROVE  Closing'
<1>1. /\ UNCHANGED <<linkVars, lock, closed>>
      /\ ~At(t, "off") \/ t \in Transactions \/ ~closed[ClientOf[t]]
  BY DEF Start, IdleWaitOver, IdleWaitFails, LeaseGranted, LeaseFails, MalformedFrame,
         Resumes, At, idleVars
<1>2. \A c \in Clients : Leaves(c)
  BY <1>1 DEF Leaves, linkVars
<1>3. /\ \A b \in Actors \ {t} : job'[b] = job[b]
      /\ \A c \in Clients : timer'[c] => timer[c]
  <2> USE DEF Shared, Links
  <2>1. ASSUME NEW conn, NEW timers \in [Clients -> BOOLEAN],
               RequestLease(t, conn, timers) \/ EnterLease(t, conn, timers)
        PROVE  \A c \in Clients : timer'[c] => timers[c]
    BY <2>1 DEF RequestLease, EnterLease
  <2>2. timer \in [Clients -> BOOLEAN]
        /\ [timer EXCEPT ![ClientOf[t]] = FALSE] \in [Clients -> BOOLEAN]
    OBVIOUS
  <2>3. CASE Start(t)
    <3>1. CASE IdleRunning(ClientOf[t])
      BY <2>3, <3>1, Goes, ActorKinds DEF Start
    <3>2. CASE ~IdleRunning(ClientOf[t])
      <4>1. RequestLease(t, NoConn, [timer EXCEPT ![ClientOf[t]] = FALSE])
        BY <2>3, <3>2 DEF Start
      <4>2. \A c \in Clients : timer'[c] => [timer EXCEPT ![ClientOf[t]] = FALSE][c]
        BY <2>1, <2>2, <4>1
      <4> QED BY <2>2, <4>1, <4>2, RequestingIdles
    <3> QED BY <3>1, <3>2
  <2>4. CASE IdleWaitOver(t)
    BY <2>1, <2>2, <2>4, RequestingIdles DEF IdleWaitOver
  <2>5. CASE IdleWaitFails(t) \/ LeaseFails(t)
    BY <2>5, Goes, ActorKinds DEF IdleWaitFails, LeaseFails, idleVars
  <2>6. CASE LeaseGranted(t)
    BY <2>1, <2>2, <2>6, RequestingIdles DEF LeaseGranted
  <2>7. CASE MalformedFrame(t)
    BY <2>1, <2>2, <2>7, RequestingIdles DEF MalformedFrame
  <2> QED BY <2>3, <2>4, <2>5, <2>6, <2>7
<1>4. t \in Recoveries /\ At(t, "off") => ~closed[ClientOf[t]]
  BY <1>1, ActorKinds
<1> QED BY <1>1, <1>2, <1>3, <1>4, TaskKeepsClosing

\* A task that has begun already, and leaves the timers alone.
LEMMA GoingOnKeepsClosing ==
    ASSUME Shared, Closing, NEW t \in Tasks,
           ~At(t, "off"), UNCHANGED closed,
           \A b \in Actors \ {t} : job'[b] = job[b],
           \A c \in Clients : timer'[c] => timer[c] \/ ~closed[c],
           \A c \in Clients : Leaves(c)
    PROVE  Closing'
BY TaskKeepsClosing

LEMMA WaitingKeepsClosing ==
    ASSUME Shared, Closing, NEW t \in Tasks,
           \/ SwitchWaits(t) \/ Prepared(t) \/ WaitsForLock(t, ClientOf[t])
           \/ LockFails(t) \/ Failed(t)
    PROVE  Closing'
<1>1. /\ ~At(t, "off")
      /\ (\E s : To(t, s)) \/ Become(t, Off)
      /\ UNCHANGED <<linkVars, lock, idleVars, closed>>
  BY DEF SwitchWaits, Prepared, WaitsForLock, LockFails, Failed, Resumes, At
<1>2. \A b \in Actors \ {t} : job'[b] = job[b]
  BY <1>1, Goes, ActorKinds
<1>3. \A c \in Clients : Leaves(c)
  BY <1>1 DEF Leaves, linkVars
<1>4. timer' = timer
  BY <1>1 DEF idleVars
<1> QED BY <1>1, <1>2, <1>3, <1>4, GoingOnKeepsClosing

LEMMA SwitchKeepsClosing ==
    ASSUME Shared, Locked, Closing, NEW t \in Tasks,
           SwitchLocks(t) \/ SwitchDropped(t) \/ SwitchFails(t)
    PROVE  Closing'
<1> DEFINE p == job[t].from
<1>1. job[t].stage \in Switching /\ timer' = timer /\ closed' = closed
  BY DEF SwitchLocks, SwitchDropped, SwitchFails, Resumes, At, Switching, idleVars
<1>2. p \in Clients /\ ~At(t, "off") /\ t \in Actors
  BY <1>1, TaskFacts DEF At, Switching
<1>3. \A b \in Actors \ {t} : job'[b] = job[b]
  <2>1. CASE SwitchLocks(t)
    BY <1>2, <2>1, SwitchedGoes, Goes DEF SwitchLocks
  <2>2. CASE SwitchDropped(t)
    BY <2>2, SwitchedGoes DEF SwitchDropped
  <2>3. CASE SwitchFails(t)
    BY <1>2, <2>3, Goes DEF SwitchFails
  <2> QED BY <2>1, <2>2, <2>3
<1>4. ASSUME NEW c \in Clients PROVE Leaves(c)
  <2>1. CASE UNCHANGED <<attached, lock>>
    BY <2>1 DEF Leaves
  <2>2. CASE Detach(p) /\ Lock(p, t)
    <3>1. /\ \A d \in Clients \ {p} : lock'[d] = lock[d] /\ attached'[d] = attached[d]
          /\ attached'[p] = NoConn
      BY <1>2, <2>2, DetachStep DEF Lock, Shared, Links
    <3> QED BY <3>1 DEF Leaves
  <2>3. CASE Resumes(t, "switchDrop") /\ Unlock(p) /\ UNCHANGED attached
    <3>1. job[t].stage = "switchDrop" /\ WorksOn(t, job[t], p)
      BY <2>3 DEF Resumes, At, WorksOn
    <3>2. attached[p] = NoConn
      BY <1>2, <3>1 DEF Locked, Bound
    <3>3. \A d \in Clients \ {p} : lock'[d] = lock[d]
      BY <1>2, <2>3 DEF Unlock, Shared, Links
    <3> QED BY <2>3, <3>2, <3>3 DEF Leaves
  <2> QED BY <2>1, <2>2, <2>3
          DEF SwitchLocks, SwitchDropped, SwitchFails, linkVars
<1> QED BY <1>1, <1>2, <1>3, <1>4, GoingOnKeepsClosing

\* A task at work on its client.
LEMMA TaskLeaves ==
    ASSUME Shared, NEW t \in Tasks, NEW c, c = ClientOf[t],
           \/ Lock(c, t) \/ UNCHANGED lock
           \/ Unlock(c) /\ (attached'[c] = NoConn \/ ~closed[c] \/ RecoveryRunning(c)),
           lock' = lock => lock[c] = t \/ attached' = attached,
           \A d \in Clients \ {c} : attached'[d] = attached[d]
    PROVE  \A d \in Clients : Leaves(d)
<1>1. t # NoActor /\ c \in Clients
  BY SharedAssumption, ActorKinds
<1>2. \A d \in Clients \ {c} : lock'[d] = lock[d]
  BY <1>1 DEF Lock, Unlock, Shared, Links
<1>3. Lock(c, t) => lock'[c] = t
  BY <1>1 DEF Lock, Shared, Links
<1>4. Leaves(c)
  BY <1>1, <1>3 DEF Leaves
<1> QED BY <1>2, <1>4 DEF Leaves

LEMMA LockingKeepsClosing ==
    ASSUME Shared, Closing, NEW t \in Tasks, LocksTransaction(t) \/ LocksRecovery(t)
    PROVE  Closing'
<1> DEFINE c == ClientOf[t]
<1>1. /\ ~At(t, "off") /\ timer' = timer /\ closed' = closed
      /\ t \in Actors /\ c \in Clients
  BY ActorKinds DEF LocksTransaction, LocksRecovery, FindsFree, Resumes, At, idleVars
<1>2. (\E s : To(t, s)) \/ (\E j : Become(t, j))
  BY DEF LocksTransaction, LocksRecovery
<1>3. \A b \in Actors \ {t} : job'[b] = job[b]
  BY <1>1, <1>2, Goes
<1>4. Lock(c, t) \/ UNCHANGED <<lock, attached>>
  BY DEF LocksTransaction, LocksRecovery, linkVars
<1>5. \A d \in Clients \ {c} : attached'[d] = attached[d]
  BY <1>1 DEF LocksTransaction, LocksRecovery, linkVars, ResetForAttempt, Shared, Links
<1>6. lock' = lock => lock[c] = t \/ attached' = attached
  BY <1>1, <1>4 DEF Lock, Shared, Links
<1> HIDE DEF c
<1>7. \A d \in Clients : Leaves(d)
  BY <1>4, <1>5, <1>6, TaskLeaves DEF c
<1> QED BY <1>1, <1>3, <1>7, GoingOnKeepsClosing

\* Every end of a task's work leaves nothing attached, unless the exchange of an
\* open client succeeded or async_close takes over from the recovery.
LEMMA WorkKeepsClosing ==
    ASSUME Shared, Locked, Closing, NEW t \in Tasks,
           \/ Connects(t) \/ ConnectFails(t)
           \/ ExchangeSucceeds(t) \/ ExchangeDiscards(t) \/ ExchangeFails(t)
           \/ Dropped(t) \/ ListenerStopped(t) \/ ListenerStopCancelled(t)
    PROVE  Closing'
<1> DEFINE c == ClientOf[t]
<1>1. /\ job[t].stage \in {"connect", "exchange", "stopNotify", "drop"}
      /\ closed' = closed
  BY DEF Connects, ConnectFails, ExchangeSucceeds, ExchangeDiscards, ExchangeFails,
         Dropped, ListenerStopped, ListenerStopCancelled, Resumes, At
<1>2. /\ ~At(t, "off") /\ t \in Actors /\ c \in Clients /\ lock[c] = t
      /\ job[t].stage \in {"connect", "drop"} => attached[c] = NoConn
      /\ timer \in [Clients -> BOOLEAN]
  BY <1>1, TaskWorks, ActorKinds DEF At, Shared, Links
<1>3. \A d \in Clients : timer'[d] => timer[d] \/ ~closed[d]
  BY <1>2 DEF Connects, ConnectFails, ExchangeSucceeds, ExchangeDiscards, ExchangeFails,
              Dropped, ListenerStopped, ListenerStopCancelled, idleVars
<1>4. (\E s : To(t, s)) \/ (\E j : Become(t, j))
  BY DEF Connects, ConnectFails, ExchangeSucceeds, ExchangeDiscards, ExchangeFails,
         Dropped, ListenerStopped, ListenerStopCancelled, Drop, Finish
<1>5. \A b \in Actors \ {t} : job'[b] = job[b]
  BY <1>2, <1>4, Goes
<1>6. \A d \in Clients \ {c} : attached'[d] = attached[d]
  <2>1. \/ Detach(c) \/ UNCHANGED attached
        \/ \E n : attached' = [attached EXCEPT ![c] = n]
    BY DEF Connects, ConnectFails, ExchangeSucceeds, ExchangeDiscards, ExchangeFails,
           Dropped, ListenerStopped, ListenerStopCancelled, Drop, Finish, linkVars
  <2> QED BY <1>2, <2>1, DetachStep DEF Shared, Links
<1>7. \/ Lock(c, t) \/ UNCHANGED lock
      \/ Unlock(c) /\ (attached'[c] = NoConn \/ ~closed[c] \/ RecoveryRunning(c))
  <2>1. CASE Connects(t)
    BY <2>1 DEF Connects
  <2>2. CASE ConnectFails(t) \/ Dropped(t)
    BY <1>2, <2>2 DEF ConnectFails, Dropped, Finish, Resumes, At, linkVars
  <2>3. CASE Drop(t, c, Finish(t))
    <3>1. attached'[c] = NoConn
      BY <1>2, <2>3, DetachStep DEF Drop
    <3> QED BY <2>3, <3>1 DEF Drop, Finish
  <2>4. CASE ExchangeSucceeds(t) /\ ~closed[c]
    BY <2>4 DEF ExchangeSucceeds, Finish
  <2>5. CASE ListenerStopCancelled(t)
    <3>1. RecoveryRunning(c)
      BY <2>5, TransactionStages DEF ListenerStopCancelled, RecoveryRunning, Resumes, At
    <3> QED BY <2>5, <3>1 DEF ListenerStopCancelled, Finish
  <2> QED BY <2>1, <2>2, <2>3, <2>4, <2>5
          DEF ExchangeSucceeds, ExchangeDiscards, ExchangeFails, ListenerStopped
<1> HIDE DEF c
<1>8. \A d \in Clients : Leaves(d)
  BY <1>2, <1>6, <1>7, TaskLeaves DEF c
<1> QED BY <1>1, <1>2, <1>3, <1>5, <1>8, GoingOnKeepsClosing

------------------------------------------------------------------------------
\* The idle disconnect, close and the radio, and what was closed

LEMMA StillRecovering ==
    ASSUME Shared, NEW c, \A r \in Recoveries : Resumed(r)
    PROVE  RecoveryRunning(c)' <=> RecoveryRunning(c)
<1>1. ASSUME NEW r \in Recoveries
      PROVE  At(r, "off")' <=> At(r, "off")
  <2>1. Resumed(r) /\ IsJob(r, job[r])
    BY ActorKinds DEF Shared, Jobs
  <2> QED BY <2>1 DEF Resumed, At, IsJob
<1> QED BY <1>1 DEF RecoveryRunning

LEMMA TimerFiresKeepsClosing ==
    ASSUME Shared, Closing, NEW c \in Clients, TimerFires(c)
    PROVE  Closing'
<1>1. /\ timer' = [timer EXCEPT ![c] = FALSE]
      /\ UNCHANGED <<attached, lock, closed>>
      /\ timer[c]
  BY DEF TimerFires, linkVars
<1>2. \/ UNCHANGED job
      \/ ~closed[c] /\ \E s : To(IdleTask(c), s)
  BY DEF TimerFires
<1>3. \A b \in Actors \ {IdleTask(c)} : job'[b] = job[b]
  BY <1>2, Goes, ActorKinds
<1>4. \A d \in Clients : RecoveryRunning(d)' <=> RecoveryRunning(d)
  BY <1>3, StillRecovering, ActorKinds DEF Resumed
<1>5. ASSUME NEW d \in Clients
      PROVE  /\ job'[Closer(d)] = job[Closer(d)]
             /\ closed[d] => ~IdleRunning(d)' \/ IdleRunning(d)
             /\ timer'[d] => timer[d]
  <2>1. job'[Closer(d)] = job[Closer(d)] /\ (d # c => job'[IdleTask(d)] = job[IdleTask(d)])
    BY <1>3, ActorKinds
  <2>2. closed[c] => UNCHANGED job
    BY <1>2
  <2>3. timer'[d] => timer[d]
    BY <1>1 DEF Shared, Links
  <2> QED BY <2>1, <2>2, <2>3 DEF IdleRunning, At
<1> QED BY <1>1, <1>4, <1>5 DEF Closing

\* The idle disconnect of c ends, or disconnects: only c's close notices.
LEMMA IdleKeepsClosing ==
    ASSUME Shared, Closing, NEW c \in Clients, IdleLocks(c) \/ IdleDropped(c)
    PROVE  Closing'
<1> DEFINE a == IdleTask(c)
<1>1. UNCHANGED <<timer, closed>> /\ job[a].stage # "off" /\ a \in Actors
  BY ActorKinds DEF IdleLocks, IdleDropped, FindsFree, Resumes, At, idleVars
<1>2. \/ IdleEnds(c)
      \/ Lock(c, a) /\ To(a, "drop")
  BY DEF IdleLocks, IdleDropped, Drop
<1>3. Detach(c) \/ UNCHANGED attached
  BY DEF IdleLocks, IdleDropped, Drop, linkVars
<1>4. job[Closer(c)].stage \notin {"lock", "lockWait", "drop", "done"}
  BY <1>1 DEF Closing, IdleRunning, At
<1>5. /\ \A b \in Actors \ {a} : Resumed(b)
      /\ \A d \in Clients \ {c} : job'[IdleTask(d)] = job[IdleTask(d)]
      /\ \A d \in Clients \ {c} : job'[Closer(d)] = job[Closer(d)]
  <2>1. CASE IdleEnds(c)
    <3>1. job' = [b \in Actors |-> AfterIdle(b, c)]
      BY <2>1 DEF IdleEnds
    <3>2. ASSUME NEW d \in Clients \ {c}
          PROVE  /\ AfterIdle(IdleTask(d), c) = job[IdleTask(d)]
                 /\ AfterIdle(Closer(d), c) = job[Closer(d)]
      BY <3>2, ActorKinds DEF AfterIdle
    <3> QED BY <3>1, <3>2, IdleOverMoves, ActorKinds
  <2>2. CASE To(a, "drop")
    <3>1. \A b \in Actors \ {a} : job'[b] = job[b]
      BY <1>1, <2>2, Goes
    <3> QED BY <3>1, ActorKinds DEF Resumed
  <2> QED BY <1>2, <2>1, <2>2
<1>6. \A d \in Clients : RecoveryRunning(d)' <=> RecoveryRunning(d)
  BY <1>5, StillRecovering, ActorKinds
<1>7. /\ Closer(c) \in Actors \ {a} /\ Closer(c) \notin Tasks
      /\ IsJob(Closer(c), job[Closer(c)]) /\ Resumed(Closer(c))
  BY <1>5, ActorKinds DEF Shared, Jobs
<1>8. \/ job'[Closer(c)] = job[Closer(c)]
      \/ job[Closer(c)].stage = "idleWait" /\ job'[Closer(c)].stage = "lockWait"
  BY <1>7 DEF Resumed, IsJob, At
<1>9. job'[Closer(c)].stage = "lockWait" => ~IdleRunning(c)'
  <2>1. CASE IdleEnds(c)
    BY <2>1, IdleOverMoves DEF IdleEnds, IdleRunning, At, Off, Job
  <2>2. CASE To(a, "drop")
    BY <1>1, <1>4, <1>7, <2>2, Goes
  <2> QED BY <1>2, <2>1, <2>2
<1>10. \A d \in Clients \ {c} : lock'[d] = lock[d] /\ attached'[d] = attached[d]
  <2>1. \A d \in Clients \ {c} : attached'[d] = attached[d]
    BY <1>3, DetachStep
  <2>2. \A d \in Clients \ {c} : lock'[d] = lock[d]
    BY <1>2 DEF IdleEnds, Lock, Unlock, Shared, Links
  <2> QED BY <2>1, <2>2
<1> HIDE DEF a
<1> SUFFICES ASSUME NEW d \in Clients
             PROVE  LET stage == job'[Closer(d)].stage IN
                    /\ closed'[d] <=> stage # "off"
                    /\ closed'[d] => ~timer'[d]
                    /\ stage \notin {"off", "recovery"} => ~RecoveryRunning(d)'
                    /\ stage \in {"lock", "lockWait", "drop", "done"} => ~IdleRunning(d)'
                    /\ stage = "done" /\ lock'[d] = NoActor => attached'[d] = NoConn
  BY DEF Closing
<1>11. CASE d = c
  BY <1>1, <1>4, <1>6, <1>8, <1>9, <1>11 DEF Closing
<1>12. CASE d # c
  BY <1>1, <1>5, <1>6, <1>10, <1>12 DEF Closing, IdleRunning, At
<1> QED BY <1>11, <1>12

\* async_close gets further: it has stopped what it waited for, and detaches
\* the connection itself or leaves that to whoever has the lock.
LEMMA CloserKeepsClosing ==
    ASSUME Shared, Locked, Closing, NEW c \in Clients,
           \/ Close(c) \/ RecoveryCancelled(c) \/ WaitsForLock(Closer(c), c)
           \/ CloseLocks(c) \/ CloseGivesUp(c) \/ CloseDropped(c)
    PROVE  Closing'
<1> DEFINE a == Closer(c)
           stage == job[a].stage
<1>1. a \in Actors /\ \E s : To(a, s)
  BY ActorKinds DEF Close, RecoveryCancelled, WaitsForLock, CloseLocks, CloseGivesUp,
                    CloseDropped, Drop, CloseEnds
<1>2. \A b \in Actors \ {a} : job'[b] = job[b]
  BY <1>1, Goes
<1>3. \A d \in Clients : RecoveryRunning(d)' <=> RecoveryRunning(d)
  BY <1>2, StillRecovering, ActorKinds DEF Resumed
<1>4. \A d \in Clients : IdleRunning(d)' <=> IdleRunning(d)
  BY <1>2, ActorKinds DEF IdleRunning, At
<1>5. \A d \in Clients \ {c} : job'[Closer(d)] = job[Closer(d)]
  BY <1>2, ActorKinds
<1>6. \A d \in Clients \ {c} :
        /\ lock'[d] = lock[d] /\ attached'[d] = attached[d]
        /\ timer'[d] = timer[d] /\ closed'[d] = closed[d]
  <2>1. /\ Detach(c) \/ UNCHANGED attached
        /\ Lock(c, a) \/ Unlock(c) \/ UNCHANGED lock
        /\ timer' = timer \/ timer' = [timer EXCEPT ![c] = FALSE]
        /\ closed' = closed \/ closed' = [closed EXCEPT ![c] = TRUE]
    BY DEF Close, RecoveryCancelled, WaitsForLock, CloseLocks, CloseGivesUp,
           CloseDropped, Drop, CloseEnds, linkVars, idleVars
  <2>2. \A d \in Clients \ {c} : attached'[d] = attached[d]
    BY <2>1, DetachStep
  <2> QED BY <2>1, <2>2 DEF Lock, Unlock, Shared, Links
<1>7. closed'[c] /\ ~timer'[c] /\ job'[a].stage # "off"
  <2>1. CASE Close(c)
    <3>1. closed'[c] /\ ~timer'[c]
      BY <2>1 DEF Close, Shared, Links
    <3>2. \E s \in {"recovery", "idleWait", "lock"} : To(a, s)
      BY <2>1 DEF Close
    <3> QED BY <1>1, <3>1, <3>2, Goes
  <2>2. CASE ~Close(c)
    <3>1. stage # "off" /\ UNCHANGED <<timer, closed>>
      BY <2>2 DEF RecoveryCancelled, WaitsForLock, CloseLocks, CloseGivesUp,
                  CloseDropped, FindsFree, Resumes, At, idleVars
    <3>2. \E s \in {"idleWait", "lock", "lockWait", "drop", "done"} : To(a, s)
      BY <2>2 DEF RecoveryCancelled, WaitsForLock, CloseLocks, CloseGivesUp,
                  CloseDropped, Drop, CloseEnds
    <3> QED BY <1>1, <3>1, <3>2, Goes DEF Closing
  <2> QED BY <2>1, <2>2
<1>8. /\ job'[a].stage \notin {"off", "recovery"} => ~RecoveryRunning(c)
      /\ job'[a].stage \in {"lock", "lockWait", "drop", "done"} => ~IdleRunning(c)
  <2>1. CASE Close(c) \/ RecoveryCancelled(c)
    <3>1. \/ RecoveryRunning(c) /\ To(a, "recovery")
          \/ ~RecoveryRunning(c) /\ To(a, IF IdleRunning(c) THEN "idleWait" ELSE "lock")
      BY <2>1 DEF Close, RecoveryCancelled
    <3> QED BY <1>1, <3>1, Goes
  <2>2. CASE ~(Close(c) \/ RecoveryCancelled(c))
    <3>1. stage \in {"lock", "lockWait", "drop"}
      BY <2>2 DEF WaitsForLock, CloseLocks, CloseGivesUp, CloseDropped, FindsFree,
                  Resumes, At
    <3> QED BY <3>1 DEF Closing
  <2> QED BY <2>1, <2>2
<1>9. job'[a].stage = "done" => lock'[c] # NoActor \/ attached'[c] = NoConn
  <2>1. CASE Close(c) \/ RecoveryCancelled(c) \/ WaitsForLock(a, c)
    <3>1. \E s \in {"recovery", "idleWait", "lock", "lockWait"} : To(a, s)
      BY <2>1 DEF Close, RecoveryCancelled, WaitsForLock
    <3> QED BY <1>1, <3>1, Goes
  <2>2. CASE CloseLocks(c)
    BY <2>2, DetachStep DEF CloseLocks, Drop
  <2>3. CASE CloseGivesUp(c)
    BY <2>3 DEF CloseGivesUp
  <2>4. CASE CloseDropped(c)
    <3>1. stage = "drop" /\ attached' = attached
      BY <2>4 DEF CloseDropped, Resumes, At, linkVars
    <3>2. WorksOn(a, job[a], c)
      BY <3>1 DEF WorksOn
    <3> QED BY <1>1, <3>1, <3>2 DEF Locked, Bound
  <2> QED BY <2>1, <2>2, <2>3, <2>4
<1> HIDE DEF a
<1> SUFFICES ASSUME NEW d \in Clients
             PROVE  LET s == job'[Closer(d)].stage IN
                    /\ closed'[d] <=> s # "off"
                    /\ closed'[d] => ~timer'[d]
                    /\ s \notin {"off", "recovery"} => ~RecoveryRunning(d)'
                    /\ s \in {"lock", "lockWait", "drop", "done"} => ~IdleRunning(d)'
                    /\ s = "done" /\ lock'[d] = NoActor => attached'[d] = NoConn
  BY DEF Closing
<1>10. CASE d = c
  BY <1>3, <1>4, <1>7, <1>8, <1>9, <1>10 DEF a
<1>11. CASE d # c
  BY <1>3, <1>4, <1>5, <1>6, <1>11 DEF Closing
<1> QED BY <1>10, <1>11

LEMMA IdleWaitsKeepsClosing ==
    ASSUME Shared, Closing, NEW c \in Clients, WaitsForLock(IdleTask(c), c)
    PROVE  Closing'
<1> DEFINE a == IdleTask(c)
<1>1. /\ job[a].stage = "lock" /\ To(a, "lockWait") /\ a \in Actors
      /\ UNCHANGED <<attached, lock, timer, closed>>
  BY ActorKinds DEF WaitsForLock, At, linkVars, idleVars
<1>2. job'[a].stage = "lockWait" /\ \A b \in Actors \ {a} : job'[b] = job[b]
  BY <1>1, Goes
<1>3. \A d \in Clients : RecoveryRunning(d)' <=> RecoveryRunning(d)
  BY <1>2, StillRecovering, ActorKinds DEF Resumed
<1>4. \A d \in Clients : /\ job'[Closer(d)] = job[Closer(d)]
                         /\ IdleRunning(d)' <=> IdleRunning(d)
  BY <1>1, <1>2, ActorKinds DEF IdleRunning, At
<1> QED BY <1>1, <1>3, <1>4 DEF Closing

LEMMA RadioKeepsClosing ==
    ASSUME Shared, Closing, NEW c \in Clients, NEW n \in Conns,
           LinkLost(c, n) \/ DisconnectCallback(c, n)
    PROVE  Closing'
<1>1. UNCHANGED <<job, lock, timer, closed>>
  BY DEF LinkLost, DisconnectCallback, idleVars
<1>2. \A d \in Clients : attached[d] = NoConn => attached'[d] = NoConn
  BY DEF LinkLost, DisconnectCallback, Detach, Shared, Links
<1> QED BY <1>1, <1>2 DEF Closing, RecoveryRunning, IdleRunning, At

------------------------------------------------------------------------------
LEMMA NextKeepsClosing == Shared /\ Locked /\ Closing /\ Next => Closing'
<1> SUFFICES ASSUME Shared, Locked, Closing, Next PROVE Closing'
  OBVIOUS
<1>1. CASE \E t \in Tasks : Progress(t)
  BY <1>1, LeasingKeepsClosing, WaitingKeepsClosing, SwitchKeepsClosing,
     LockingKeepsClosing, WorkKeepsClosing DEF Progress
<1>2. CASE \E c \in Clients : IdleProgress(c) \/ CloseProgress(c)
  BY <1>2, IdleWaitsKeepsClosing, IdleKeepsClosing, CloserKeepsClosing
     DEF IdleProgress, CloseProgress
<1>3. CASE Starts
  BY <1>3, LeasingKeepsClosing, TimerFiresKeepsClosing, CloserKeepsClosing DEF Starts
<1>4. CASE GivesUpWaiting
  BY <1>4, LeasingKeepsClosing, SwitchKeepsClosing, WaitingKeepsClosing,
     CloserKeepsClosing DEF GivesUpWaiting
<1>5. CASE Radio
  BY <1>5, RadioKeepsClosing DEF Radio
<1> QED BY <1>1, <1>2, <1>3, <1>4, <1>5 DEF Next

LEMMA ClosingKept == Shared /\ Locked /\ Closing /\ [Next]_vars => Closing'
<1>1. Closing /\ UNCHANGED vars => Closing'
  BY DEF vars, linkVars, idleVars, Closing, RecoveryRunning, IdleRunning, At
<1> QED BY <1>1, NextKeepsClosing

LEMMA InitClosing == Init => Closing
BY ActorKinds DEF Init, Closing, Off, Job, RecoveryRunning, IdleRunning, At

\* CloseLeavesNothing: once async_close has returned and the lock is free, no
\* connection, timer or idle disconnect is left, also if it gave up waiting for
\* the lock: then the transaction that had it has detached the connection.
THEOREM CloseIsComplete == Spec => []CloseLeavesNothing
<1>1. Closing => CloseLeavesNothing
  BY DEF Closing, CloseLeavesNothing, At
<1>2. Spec => []Closing
  BY InitClosing, SharedHolds, LockedHolds, ClosingKept, PTL DEF Spec
<1> QED BY <1>1, <1>2, PTL

==============================================================================
