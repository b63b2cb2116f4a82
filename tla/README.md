# Formal model of the Govee BLE air purifier integration

This directory holds TLA+ modules that model the concurrent core of the Home
Assistant integration in `custom_components/govee_ble_air_purifier`, TLC
configurations that check them on small instances, and proofs checked by TLAPS.
File names below are relative to that package unless they start with `docs/`.

    tlc -config MCLeaseArbiter.cfg MCLeaseArbiter
    tlapm LeaseArbiterProofs.tla

## The system

Every purifier is a config entry with its own client, coordinator, Custom Auto
controller and Auto-resume manager, all running on one asyncio event loop. There
are no threads: code runs without interruption from one `await` to the next, and
every hazard is about what happens *between* two awaits of one coroutine.

| Component | State it keeps | Operations | Interacts with |
|---|---|---|---|
| Lease arbiter, `bluetooth/_arbiter.py` | lease flag, owner, two FIFO queues, burst counter | `async_acquire`, `release`, `_cancel_waiter`, `connection_released` | called by the clients; calls the previous owner's `_async_release_for_connection_switch` |
| BLE client, `bluetooth/client.py` | transaction lock, idle timer and task, closed flag, advertisement back-off | read, write and poll transactions, idle disconnect, switch, close | arbiter, connection manager, session, transport |
| Connection manager and session, `bluetooth/_connection.py`, `_session.py` | cached transport, generation, disconnect signal, session key, notification owner, recovery task, quarantined operations | connect, run, drop, disconnect callback, recovery | BLE stack callbacks, client's lock, lease |
| Exchange runner, `bluetooth/_transactions.py` | futures and frames of one exchange | required requests, optional telemetry, cleanup | session, notification callback |
| Transport, `bluetooth/transport.py` | abandoned attempts and cleanups | wait for a path, establish, disconnect | Home Assistant Bluetooth, bleak |
| Coordinator, `coordinator.py` | last state, poll, push and command revisions, two locks, delayed refresh | polls, pushes, power, fan-mode and night-light commands, shutdown | client below, controller, manager and entities above |
| Custom Auto controller, `custom_auto/` | ownership, current speed, queued samples, upshift readings, downshift timers, mature targets, evaluator task | activate, deactivate, handoff, stop, evaluate, timers | coordinator's listener and commands |
| Auto-resume manager, `auto_resume.py` | remembered mode, suspension, reconcile task | user commands, physical mode, restore, reconcile, stop | controller, coordinator |
| Setup and unload, `__init__.py` | runtime data | setup with rollback, unload | all of the above |
| Protocol package, entities, config flow, diagnostics | none that changes concurrently | conversions, adapters, forms | |

What is hard here, and what makes each part correct:

* **Lease.** Deadlines and cancellations race the hand-over of the lease. It must
  never be lost or doubled, commands must come first without starving polls.
* **One connection, many users.** A transaction, the idle disconnect, a switch
  by another purifier, `async_close`, listener recovery and the BLE stack's own
  late callbacks all touch one client's connection. Work must be serialized, a
  running exchange keeps its connection, unload leaves nothing, nobody waits in
  a circle.
* **Custom Auto.** Samples, timers, failing commands, user handoffs and
  power-offs interleave. Speed changes must rest on the samples that the policy
  asks for, no sample and no due work is forgotten, giving up ownership leaves
  nothing behind.
* **Coordinator.** Polls, pushes and commands overlap; the newest information
  about each field must win, and a publication must not look like a sample.
* **Auto resume.** Remembered intent must agree with what the controller does,
  survive restarts and never power on a purifier by itself.

`PROJECT.json` lists every hazard at its line.

## Modules

    PriorityLease            what the lease promises
      ^ implemented by
    LeaseArbiter             bluetooth/_arbiter.py
      ^ LeaseArbiterProofs   theorems
      ^ instantiated by
    SharedConnection         client.py, _connection.py, _session.py around the arbiter
      ^ SharedConnectionProofs  theorems, which use those of LeaseArbiterProofs
    Exchange                 one client from a call to its answer: client.py,
                             transport.py, _transactions.py, _session.py
      ^ ExchangeProofs       theorems
    Coordinator              coordinator.py and the purifier
      ^ CoordinatorProofs    theorems
      ^ CoordinatorNewestProofs  theorems that rest on those
    AutoResume               auto_resume.py, __init__.py, their callers and commands
      ^ AutoResumeProofs     theorems
    CustomAuto               custom_auto/controller.py and policy.py
      ^ CustomAutoProofs     theorems
      ^ MCCustomAutoRetry    the same with a history variable
    Queues                   who leaves the line of an asyncio.Lock by cancellation
    QueueLemmas              facts about FIFO queues, for the proofs

The modules meet where one component sees another only through a promise that
the other's module checks. SharedConnection checks that one exchange runs at a
time and keeps its connection; Exchange looks into that exchange and gives
every call one outcome; Coordinator takes exchanges as serialized steps that
execute, fail or are replayed; AutoResume takes the coordinator's power and
fan-mode commands as the four places *waiting*, *decided*, *applied* and
*confirmed* of Coordinator, and the controller as its ownership and its lock, of
which CustomAuto has the decisions.

**LeaseArbiter.** `phase[t]` says where task `t`, one call of
`async_acquire ... release`, is: *queued*, *granted* (its future is resolved but
the coroutine has not resumed), *switching* (waiting for the previous owner) or
*holding*. The remaining variables are the attributes of the class. `GiveBack` is
`release()` with `_next_waiter`; `AbandonGranted` is the case in which the
deadline or a cancellation reaches a waiter that was granted already.

**PriorityLease** is the abstract lease: one lessee, a set of waiters, and for
each waiting poll a budget of commands that may still overtake it. The
refinement maps the budget of a poll to `3 * place in the queue - counter`, so
`ImplementsPriorityLease` states exactly how long a poll can be overtaken.

**SharedConnection** composes the arbiter (`Arbiter == INSTANCE LeaseArbiter`) with
the clients. An *actor* is a coroutine that can take a client's transaction lock:
a transaction or a listener recovery (both are tasks of the arbiter), a client's
idle disconnect, or its `async_close`. `job[a].stage` is the await the actor is
suspended at; an action is the code from there to the next await. The stages in
`AtOnce` are not awaits: an actor there goes on before anybody else runs, which
is what taking a free `asyncio.Lock` does. Connections are numbered, as the code
compares client objects by identity. `radio[c][n]` says whether connection `n` is
up, lost with its callback due, or gone. Advertisements, GATT setup, the
handshake and the exchange of frames are one await each, with the outcomes that
the callers tell apart.

**Exchange** follows a poll or a command of one client with its own connection
through path preparation, the transaction lock, the connection attempt, the
encrypted handshake, the listener, the required and the optional requests, the
drop after a failure, and the one replay of a poll (`client.py:417`). `x` is the
exchange that has the lock: the await it is suspended at and `_ExchangeState`. A
failure that finds the link up lets its callback run for one turn of the event loop
(*yield*, `_connection.py:247`), in which the listener is still active, before the link
is dropped; likewise the recovery of a malformed listener leaves the link to the
session while it stops that listener (*recoverStop*).
`wire[n]` holds the notifications on their way over link `n` in order, each
marked with what it answers: the present exchange, one that succeeded without
it, one that was given up, or nothing (a push). `Frame` and `Corrupt` are the
notification handler with its three routes (exchange, coordinator, recovery).
`faults` bounds what may go wrong: an attempt or write that fails, an answer
that is missing or garbled, a lost link, an expired deadline, a cancelled
caller. `leaked` are links that the code itself forgets, see below.

**Coordinator** has the attributes of the class and, beside them, the purifier:
`device` with a `clock` that numbers everything that happens to it. Each value
carries the number of the event that made it, so *newer* is a fact of the model
and not of the code's revisions, which have to find it out. The data of the
device, the published state and the snapshots of commands and polls are of the
same kind. Publications of a command follow its confirmation without an await
in between, and so does the merge of a poll; the manager, which a mode push
awaits before it is applied, is the queue `modePushes`. `pushed` and `confirmed` are
history: for each field the latest event of which a push was applied and of which a
confirmation was published.

**AutoResume** has the manager's lock as the FIFO `managerQueue`, the remembered
`intent`, its record `saved` that survives a crash, the ownership of the
controller (`active`), and for each actor (user call, push task, reconciliation,
evaluator) the await it is suspended at. The entry's life (setup, first refresh,
platforms, rollback, unload, crash, set up again) is `phase`. The order in which
unload stops push tasks, manager, controller and client is that of `__init__.py`.

**CustomAuto** has the attributes of the controller, the place of its one evaluator
task (`evaluation`), and the caller that has the controller's lock
(`operation`). Speeds are indices into `CUSTOM_AUTO_SPEEDS`. The coordinator is
abstract: polls bring samples with new revisions or none, anything may publish
in between, and a fan-mode command succeeds or fails. The last two samples seen
are kept as history. An evaluation runs without a pause between its commands;
`"lock"` stands for waiting for the controller's lock, also when it is free,
which only adds interleavings.

## Runs

| Run | Instance | Shows | About |
|---|---|---|---|
| `lease` | 3 commands, 2 polls, 2 clients, burst 3 | all properties of LeaseArbiter, `ImplementsPriorityLease`, `EveryWaiterServed` | 2,600 states |
| `shared_two_clients` | a command each, a recovery of A, 1 connection each | `WorkSerialized`, `CloseLeavesNothing`, `ImplementsArbiter` | 89,000 states |
| `shared_one_client` | command, poll, recovery, 2 connections in a row | `TypeOK`, `ExchangeIntact`, `AttachNeverRefused`, `EverythingEnds` | 30,000 states |
| `shared_switch` | a command of each of two clients | `EverythingEnds` across a switch | |
| `custom_auto` | 3 speeds, boundaries 1 and 2, readings 1..3, 4 samples | all properties of CustomAuto | 720,000 states |
| `exchange` | 5 plans of two calls, 4 links | `TypeOK`, `FailedIsForgotten`, `ReplaysOnlyReads`, `LinksAccounted`, `Recovers` | 350,000 states |
| `coordinator` | 6 plans of two commands | `TypeOK`, `ModeRemembered`, `NewestWins`, `PollsNeverGoBack`, `QuietAfterShutdown`, `CatchesUp` | 500,000 states |
| `auto_resume` | 5 plans of two users and one push task | `TypeOK`, `ActiveIsSelected`, `ResumesOnlyWhenOn`, `UnloadLeavesNothing`, `RetriesOnObservation`, `SettlesIntoIntent`, `CallsEnd` | 61,000 states |

The bounds: the lease's burst is its real value 3; two commands that keep coming
back spend it, the third queues behind them, and two polls show the wait of the
second. `MaxConnections` bounds the transports of one client; an old callback
needs a second one (`shared_one_client`), while the lease and the lock are
contended with one (`shared_two_clients`). Actors restart for ever. `MaxRevision`
bounds valid samples: two confirm an upshift, a third cancels one, a fourth waits
in the queue while a command runs. Readings 1 and 2 lie on a boundary. Two lower
speeds are needed for the choice among mature targets. No deadlock occurs in any
of these instances.

The last three runs use *plans*. What may happen in such an instance (what is
called, which buttons are pressed, how much may go wrong, whether the entry is
unloaded) is one record of the constant `Plans`, chosen in `Init`; when it
happens is left open. Each plan is a small instance that makes certain cases
meet, and one run checks all of them:

* `exchange`: two polls on a persistent session with two faults (replay and
  timeout of both); a poll and a command on an encrypted one with a push and a
  fault; a poll with the night light due and a light command with two faults;
  sequential optional requests and a command of two requests with a push and a
  fault; a session that is not to persist with two faults. `MaxLinks` is 4
  because two calls make two attempts each at most.
* `coordinator`: a fan-mode and a power command against a power and against a
  mode change; one command against both changes; a light command of two steps
  against changes of both reports; two light commands; and an unload in the
  middle of a command. Every plan has polls and delayed refreshes without
  bound. It starts after setup, with push updates enabled and the night light off.
* `auto_resume`: every single operation against a power button; enabling
  against power by user and by button; enabling or hardware mode against
  disabling and a mode button; buttons with a restart from a saved intent; and
  two users with a restart. A setup waits for the calls of the former one.

Four runs end in a counterexample. They record where the code and
`docs/architecture.md` differ:

* `shared_early_connect`: the arbiter forgets an owner before its disconnect is
  awaited, and idle disconnects hold no lease, so two links can exist for a
  while (`_connection.py:266`).
* `shared_two_retained`: a late disconnect callback, processed while its client
  already has the lease again, makes the arbiter forget that client; it connects
  and is retained without being the owner (`_connection.py:338`).
* `shared_idle_stuck`: under Home Assistant's eager `async_create_task` an idle
  task may end before it is recorded; the idle timer then never disconnects
  again (`client.py:1235`). `EagerTasks` selects this behaviour; it is external,
  as the integration only calls `hass.async_create_task`.
* `custom_auto_retry`: any publication, not only a later PM2.5 update, ends the
  wait after a failed automatic command (`controller.py:206`).

## Fairness

`LeaseArbiter` assumes that a resolved waiter is resumed, and that a switch and a
transaction end (weak fairness). Every await inside them has a deadline:
connection, handshake, exchange, listener stop and disconnect each run under
`asyncio.wait_for` or `asyncio.wait` with a timeout. Nothing is assumed about
the deadlines of *waiters*: `EveryWaiterServed` holds without them.

`SharedConnection` uses strong fairness for each started actor: an actor that
waits for a lock or the lease is enabled again and again rather than for ever,
and the event loop runs ready callbacks in order while `asyncio.Lock` wakes its
waiters in FIFO order. Giving up a wait by deadline (`GivesUpWaiting`) is not fair,
so `EverythingEnds` shows that no circular wait is hidden behind a timeout.

The three modules with plans state what their parts assume of each other:

* `Exchange`: weak fairness of everything that was begun, as one disjunction:
  timers expire, callbacks are delivered, a purifier that can answers. Nobody
  has to call, press or fail. `Recovers` needs no more.
* `Coordinator`: weak fairness of each command's steps and of the steps of a poll
  (deadlines; Home Assistant's timer), and strong fairness of the end of a poll
  that has read everything. That polls do read everything again and again is a
  hypothesis of `CatchesUp` itself, as the code cannot make the purifier answer.
* `AutoResume`: locks are FIFO and every await below them has a deadline, so the
  operation with the manager's lock goes on (strong fairness, because an unload
  can cancel and a button can delay it), polls succeed now and then, and a
  purifier that is asked again and again does not refuse for ever. `SettlesIntoIntent`
  is about behaviours in which buttons, users and readings come to rest.

## Proofs

Every safety invariant and action property that a passing run checks, and both
refinements, are also proved: for any tasks, clients, commands, users, links, speeds,
readings and plans, where a run has a few. What each module assumes of its
constants is a named assumption and says no more than the code provides for:
`LeaseAssumption`, `CoordinatorAssumption`, `ExchangeAssumption` and
`CustomAutoAssumption` give types, well-formed plans and thresholds that rise, which the
validation of the policy ensures; `AutoResumeAssumption` also
that users' calls, push tasks, the reconciliation and the evaluator are different
coroutines; `SharedAssumption` that a transaction is no recovery and neither is a
client's idle task or its close, and that *none* is not an element.

The properties are seldom inductive. What follows is, for each module, what had to
be added and why.

`LeaseArbiterProofs`. `TypeOK`, `LeaseAccounting`, `NobodyLeftBehind`, `QueuesExact` and
`OwnerIsLessee`; the invariant is the conjunction of the five. `LeaseAccounting` alone
is not inductive, since a waiter at the head of a queue must be known to be
*queued* and hence no lessee (`QueuesExact`), and a task that takes a free lease must
leave no waiter behind (`NobodyLeftBehind`). One lemma per action of `GiveBack`'s
shape carries the proof. `QueueLemmas` has the facts about appending to, removing
from and taking the head of a duplicate-free queue. `RefinesPriorityLease` proves
`ImplementsPriorityLease`: the budget of a poll, `3 * place - counter`, goes down only
when a command overtakes it, and a poll that leaves the queue moves those behind it
one place up, which gives them less to wait for and never more.

`SharedConnectionProofs` proves `ImplementsArbiter`, `TypeOK`, `WorkSerialized`,
`ExchangeIntact`, `AttachNeverRefused` and `CloseLeavesNothing` in three layers, each
inductive given the one before:

* `Shared`: the await a task is suspended at tells its phase in the arbiter, so each
  call that it makes is one that the arbiter allows it (`ClientsUseTheLease`). A drop
  with nothing attached must leave the arbiter's owner alone, hence `Disowned`: a
  client whose connection went away during an exchange is no longer the owner.
  What is proved in LeaseArbiterProofs is used by `INSTANCE`, and because refinement
  is transitive the clients implement the abstract lease too
  (`ClientsImplementPriorityLease`).
* `Locked`: every actor agrees with the locks, on the connection it works on and on
  what remains to be detached while it works. A switch holds the lock of *another*
  client, so this is stated for an actor and the client it works on.
* `Closing`: what `async_close` has stopped by the time it gets further: it has
  forbidden new work first, awaited the recovery, then the idle task, then the
  lock. Without the order, an actor it has waited for might begin again.

`ExchangeProofs` proves `TypeOK`, `FailedIsForgotten`, `ReplaysOnlyReads` and
`LinksAccounted`, with three invariants:

* `IInv`, about calls and what is on its way. `Forgotten`: nothing that was given up
  is on its way over the link of the session, since a failure makes the session
  forget its link and a link that is not established yet carries nothing.
  `OncePerAttempt`: while the first request of an attempt is not written
  (`Unsent`), the call has sent no more than it has attempts behind it, so a
  failure before, between or after the requests cannot add a second one;
* `SessionInv`, about the session: between the moment it forgets a link and the
  moment that link is asked to disconnect the exchange is in *dropStop* and keeps
  its number, and a malformed listener that is being recovered is never the
  active one, so that a recovery that has stopped it drops the link at once;
* `TypesInv`, the types that neither of them needs.

`CoordinatorProofs` proves `ModeRemembered`, `PollsNeverGoBack` and
`QuietAfterShutdown`. The invariant `IInv` adds to the shapes of the records:

* `DeviceIsNewest` and `CommandIsNoNewer`: what is published, snapshot or answered
  is never newer than the purifier, so a poll that reads now reads nothing older
  than what is published;
* `PollIsNewer`: what a poll has read stays no older than what is published
  *unless a push came since it began*, which the push revisions show. It
  holds because no command is between its request and its publication while a
  poll reads, the one guarantee of the client that the merge rests on: the
  comparison of command revisions is not needed for `PollsNeverGoBack`;
* `DisabledIsQuiet`: once push updates are disabled no push task is left.

There is a lemma for each action; `PollStepsKeepInv`, `CommandStepsKeepInv` and
`PushStepsKeepInv` say what each of the three kinds of step has to show.

`CoordinatorNewestProofs` adds a second invariant, `JInv`, for `NewestWins` and the
types. `NewestWins` compares what is published with the maxima `pushed` and `confirmed`,
so `History` first says that they are of the past and that mode pushes wait in the order
of their events. A command publishes what it *found* when it got the lock and what was
*answered*:

* what was found is no older than any push and any confirmation (`FoundIsNewest`): no
  other command can publish in between, as the command is the head of `_command_lock`
  (`InLine`), and a push that came since is revealed by the revisions that it noted
  (`Counted`: none of them is ahead of the counters);
* an answer is no older than any confirmation, nor than any push unless the revision of
  its own field shows one (`AnsweredIsNewest`); that revision is what the checks at
  `coordinator.py:313`, `:373` and `:420` look at.

`Words` says which fields each kind of command asks for and gets, so that it publishes
no other. The exception for late mode pushes is part of the property: a mode older
than the newest confirmation is that of the newest push.

`AutoResumeProofs` proves `TypeOK`, `ActiveIsSelected`, `ResumesOnlyWhenOn`,
`UnloadLeavesNothing` and `RetriesOnObservation`. `ActiveIsSelected` is about the
states in which no operation is under way; to be inductive, ownership has to be known
in the middle of one. `Locks` says who is where: only the head of the manager's
queue is past its lock, and while the evaluator commands, an operation beside it
can only be one that found no owner. `Ownership` says what follows: intent and
ownership differ only during an activation, and an operation that found no owner
has none beside it. `Reconciles` and `Life` say what the reconciliation has seen and
what a stopped or closed entry leaves behind. The proof found a mistake of an
earlier version of the model: a push task could have taken the steps of a user's
*manual* operation, because the two share a name; `UserOperation` now says whose
they are.

`CustomAutoProofs` proves all seven properties of the run `custom_auto`, again in
layers:

* `Bookkeeping`: types, who has the controller's lock, and that the queue of samples
  ends with the newest revision and has no gap;
* `Evidence`: a running timer or a mature target is covered by the last valid sample
  (`TargetsCovered`), and a counted reading exceeds the speed that an automatic
  command comes from, not the one it goes to (`ReadingsExceed`, `BaseSpeed`). A
  downshift is decided long after the sample that started its timer;
  `StaleHasNoTarget` is what makes it right while an evaluation awaits the device and
  an update fails;
* `WorkScheduled`: work at hand has its evaluator. This needs the layers below, as
  an evaluator that ends must find nothing mature.

`TypeOK`, the shape of the state, takes part in all of them. Recursion is kept to
functions: `Remaining` of Queues stands for a filter, whose library form the prover
cannot expand.

Only model-checked are the liveness properties, as fairness is out of the prover's
reach: `EveryWaiterServed`, `EverythingEnds`, `Recovers`, `CatchesUp`,
`SettlesIntoIntent` and `CallsEnd`; and the four counterexamples.

## What the models show beside their properties

Behaviours that the modelling turned up, that no document of the repository
excludes, and that the properties are stated around:

* *Coordinator.* A push that arrives while a command waits for the command lock
  counts as newer than the command's later confirmation, because revisions are
  noted before the lock (`coordinator.py:319`, `:362`); for the power and the light
  the next poll corrects it, but polls never report the fan mode, so a wrong mode
  stays until the next command or push. So `NewestWins` is about pushes
  that were applied and confirmations that were published, not about the purifier.
* A mode push that waits for the manager (`coordinator.py:257`), whose lock a user's
  command holds, is applied when the manager is done, also over a mode that was
  confirmed after the button was pressed. `docs/architecture.md:341` only says that a
  *newer* physical mode wins over a command. This is the exception in `NewestWins`;
  without it TLC finds the press, the later command, its confirmation and then the push.
* A fan-mode command that found the purifier on publishes that power again at
  its end, over a poll's newer *off* (`ModeConfirmed`); a light command of several
  steps likewise publishes what it found for the other report. So what only
  a poll brought is not part of what `NewestWins` compares with; `CatchesUp` shows that
  both heal.
* A command that fails before anything is confirmed has cancelled the delayed
  refresh of the one before and schedules none. A command in flight at shutdown
  schedules one after the unload; it finds polling stopped.
* *AutoResume.* A power-off push that arrives while a resumption waits for the
  command lock does not stop it: its command powers the purifier on again
  (`ResumesOnlyWhenOn` is about the state at the call, `docs/architecture.md:448`).
  The evaluator's second command is sent without looking at the power again
  (`custom_auto/controller.py:268`). A user's call that waits for the manager's
  lock at unload may activate the controller after it was stopped (`outlived`).
* *Exchange.* A light command is confirmed by a report (`aa 1b 01`) that an earlier
  poll asked for and did not wait for any longer; the answers of optional
  requests can serve the next poll; a power push can answer a power query, whose
  own answer is then dispatched as a push. None of them is from an exchange that
  was given up (`FailedIsForgotten`).
* A connection attempt that ends in the very turn of the event loop in which its
  deadline cancels it leaves a link that nobody disconnects
  (`bluetooth/transport.py:120`, whose docstring promises otherwise), and so does a
  caller cancelled while a drop awaits `stop_notify` (`bluetooth/_connection.py:270`).
  These two are `leaked`; `LinksAccounted` finds no third way.

## Not modelled, and what is left

* The write-only commands (`bluetooth/client.py:623`), which only a test calls.
* BLE operations that ignore their cancellation and their quarantine
  (`bluetooth/_session.py:263`). The handshake's final `stop_notify` is awaited with
  a plain `asyncio.wait_for` (`client.py:1096`): with such a backend it would hold
  the lock beyond its deadline.
* The cadence and back-off of the night-light polls: *due* is a flag of the plan
  and of the claim. `close_stale_connections`, advertisement history and scans are
  calls into libraries and Home Assistant.
* Dedicated entries, without an arbiter, are what Exchange models; with one, the
  lease is in SharedConnection. No module has two clients *and* the frames.
* Remembered speeds in AutoResume; speeds are in CustomAuto.
* The end of cancelled tasks in CustomAuto: `Deactivate` is one step, while its callers go
  on to await the timers and the confirmation that it cancelled (`controller.py:149`,
  `:258`). Those tasks do nothing more, and all that they had left is cleared before.
* The second look at `_push_updates_enabled` (`coordinator.py:263`): an unload that
  clears the flag cancels the push tasks in the same step, so none gets there.
* Byte formats, encryption, profile validation, what entities display, the config
  flow and diagnostics: sequential conversions or adapters without state of
  their own, which ordinary tests reach.

Worth adding next: the quarantine of operations that ignore their cancellation, as a
layer between Exchange and the stack; the cadence of the night-light polls; and
lemmas that bound, without fairness, how many steps a waiter of the lease can be
overtaken by, which the budget of PriorityLease already implies for polls.
