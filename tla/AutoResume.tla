------------------------------- MODULE AutoResume -------------------------------
(***************************************************************************)
(* AutoResumeManager (auto_resume.py) between its users and what it        *)
(* drives: the Custom Auto controller (of which CustomAuto has the         *)
(* decisions; here only its ownership and its lock), the coordinator's     *)
(* power and fan-mode commands (Coordinator has the details), and the      *)
(* life of a config entry: setup, rollback, unload, restart (__init__.py). *)
(*                                                                         *)
(* Speeds are left out: of the intent there is the mode and suspended, of  *)
(* the published state the power and whether the fan mode is "Auto".       *)
(*                                                                         *)
(* act[a].at is the await actor a is suspended at; an action is the code   *)
(* from there to the next one.                                             *)
(*   queued   for the manager's lock, whose FIFO is managerQueue           *)
(*   lock     for the controller's lock                                    *)
(*   waiting  for the coordinator's command lock                           *)
(*   decided  its request is chosen, not yet executed by the purifier      *)
(*   applied  executed, the confirmation is on its way                     *)
(***************************************************************************)
EXTENDS Naturals, SequencesExt, Queues

CONSTANTS Users, Pushes,     \* user calls; tasks for physical fan-mode pushes
          Plans              \* bound: what happens, see AutoResumeAssumption

Operations == {"turn_on", "turn_off", "manual", "hardware", "enable", "disable"}
Automatic == {"reconcile", "evaluator"}

\* A plan: what each user call may be, what is pressed on the purifier in this
\* order, and how often the entry is set up again.
ASSUME AutoResumeAssumption ==
    /\ Users \cap Pushes = {}
    /\ Automatic \cap (Users \cup Pushes) = {}
    /\ \A p \in Plans :
        /\ p.asks \in [Users -> SUBSET Operations]
        /\ p.pressed \in Seq({"power", "auto", "manual"})
        /\ p.restarts \in Nat

VARIABLES
    plan, pressed, restarts,  \* restarts and buttons still to come
    deviceOn,
    seen,                     \* published: [on, auto]
    intent, saved,            \* AutoResumeState, and the entity record of it
    active,                   \* the controller owns the speed
    managerQueue,
    act,
    pending, stopped,         \* _reconcile_pending, _stopped
    phase, pushOn,            \* of the entry; push updates are enabled
    failed, outlived          \* history

Actors == Users \cup Pushes \cup Automatic

environmentVars == <<plan, pressed, restarts>>
lifeVars == <<saved, stopped, phase, pushOn, outlived>>
vars == <<environmentVars, deviceOn, seen, intent, active, managerQueue, act, pending,
          failed, lifeVars>>

Intent(mode, suspended) == [mode |-> mode, suspended |-> suspended]
NoIntent == Intent("none", FALSE)
Idle == [at |-> "idle", op |-> "none", via |-> "none", goal |-> NoIntent, force |-> FALSE,
         kind |-> "none", powers |-> FALSE, before |-> FALSE, owned |-> FALSE,
         calledOn |-> FALSE, powerPushed |-> FALSE]
Done == [Idle EXCEPT !.at = "done"]

InCommand(a) == act[a].at \in {"waiting", "decided", "applied"}
CommandFree == \A a \in Actors : act[a].at \notin {"decided", "applied"}

\* Mutant of ControllerFree: evaluations do not take the controller's lock.
ControllerLockless == \A a \in Actors \ {"evaluator"} : InCommand(a) => act[a].via = "plain"

ControllerFree ==
    \A a \in Actors : InCommand(a) => act[a].via = "plain"
UsersIdle == \A u \in Users : act[u].at \in {"idle", "done"}
Closed == phase = "out"

Init ==
    /\ plan \in Plans
    /\ pressed = plan.pressed
    /\ restarts = plan.restarts
    /\ deviceOn \in BOOLEAN
    /\ seen = [on |-> FALSE, auto |-> FALSE]
    /\ saved \in {NoIntent, Intent("hardware", FALSE), Intent("custom", FALSE)}
    /\ intent = NoIntent
    /\ active = FALSE
    /\ managerQueue = <<>>
    /\ act = [a \in Actors |-> Idle]
    /\ pending = FALSE
    /\ stopped = FALSE
    /\ phase = "out"
    /\ pushOn = FALSE
    /\ failed = FALSE
    /\ outlived = FALSE

------------------------------------------------------------------------------
\* The listener: _handle_coordinator_update, _schedule_reconcile

\* Mutant of Reacts: a publication is as good as an observation.
ReactsAlways(observed) == ~stopped

\* Only polls and power pushes change device_observation_revision.
Reacts(observed) == observed /\ ~stopped

\* The coordinator publishes: the actors are as in next, and reconciliation is
\* scheduled if there was something to react to.
Notify(observed, next) ==
    /\ pending' = (pending \/ Reacts(observed))
    /\ failed' = (failed /\ ~observed)
    /\ act' = IF Reacts(observed) /\ next["reconcile"].at = "idle"
              THEN [next EXCEPT !["reconcile"] = [Idle EXCEPT !.at = "scheduled"]]
              ELSE next

\* A power button or another app; the push may be missed.
PowerPressed ==
    /\ pressed # <<>> /\ Head(pressed) = "power"
    /\ pressed' = Tail(pressed)
    /\ deviceOn' = ~deviceOn
    /\ \/ /\ pushOn
          /\ seen' = [on |-> ~deviceOn, auto |-> seen.auto /\ ~deviceOn]
          /\ Notify(TRUE, [a \in Actors |-> [act[a] EXCEPT !.powerPushed = InCommand(a)]])
       \/ UNCHANGED <<seen, pending, failed, act>>
    /\ UNCHANGED <<plan, restarts, intent, active, managerQueue, lifeVars>>

\* A fan-mode button: the push task calls async_handle_physical_fan_mode.
ModePressed(p) ==
    /\ pressed # <<>> /\ Head(pressed) \in {"auto", "manual"}
    /\ pressed' = Tail(pressed)
    /\ act[p].at = "idle"
    /\ pushOn
    /\ act' = [act EXCEPT ![p] = [Idle EXCEPT !.at = "queued", !.op = Head(pressed)]]
    /\ managerQueue' = Append(managerQueue, p)
    /\ UNCHANGED <<plan, restarts, deviceOn, seen, intent, active, pending, failed,
                   lifeVars>>

\* _async_update_data; no poll during an exchange of a command.
PollSucceeds ==
    /\ phase \notin {"out", "closing"}
    /\ \A a \in Actors : act[a].at # "applied"
    /\ seen' = [seen EXCEPT !.on = deviceOn]
    /\ Notify(TRUE, act)
    /\ UNCHANGED <<environmentVars, deviceOn, intent, active, managerQueue, lifeVars>>

\* A failed poll, a push of PM2.5 or a night-light command: published, not observed.
Republished ==
    /\ phase \notin {"out", "closing"}
    /\ Notify(FALSE, act)
    /\ UNCHANGED <<environmentVars, deviceOn, seen, intent, active, managerQueue, lifeVars>>

------------------------------------------------------------------------------
\* Building blocks of the manager's operations

Holds(a) == managerQueue # <<>> /\ Head(managerQueue) = a /\ act[a].at = "queued"

After(a) == IF a \in Users THEN Done
            ELSE IF a = "reconcile" /\ pending THEN [Idle EXCEPT !.at = "scheduled"]
            ELSE Idle

\* The operation ends and gives up the manager's lock.
Finish(a, state) ==
    /\ intent' = state
    /\ act' = [act EXCEPT ![a] = After(a)]
    /\ managerQueue' = Tail(managerQueue)

\* A fan-mode command looks at the published power once it has the command lock.
Decide(r) == [r EXCEPT !.at = "decided", !.before = seen.on,
                       !.powers = r.kind \in {"auto", "manual"} /\ ~seen.on]

\* Calls a coordinator command; a free lock is taken at once.
Call(a, r) ==
    act' = [act EXCEPT ![a] =
              LET called == [r EXCEPT !.calledOn = seen.on] IN
              IF CommandFree THEN Decide(called) ELSE [called EXCEPT !.at = "waiting"]]

\* async_activate, async_handoff and async_deactivate, with the controller's lock.
\* An activation may find the purifier at the right speed already.
Controller(a, r, state) ==
    \/ /\ r.via = "deactivate"
       /\ active' = FALSE
       /\ Finish(a, r.goal)
    \/ /\ r.via = "handoff"
       /\ Call(a, [r EXCEPT !.owned = active])
       /\ intent' = state
       /\ UNCHANGED <<active, managerQueue>>
    \/ /\ r.via = "activate"
       /\ active' = TRUE
       /\ \/ /\ ~r.force /\ (active \/ seen.on)
             /\ Finish(a, r.goal)
          \/ /\ r.force \/ ~active
             /\ Call(a, r) /\ intent' = state /\ UNCHANGED managerQueue

\* Goes on through the controller or directly; state is the intent meanwhile.
Proceed(a, r, state) ==
    IF r.via = "plain"
    THEN Call(a, r) /\ intent' = state /\ UNCHANGED <<active, managerQueue>>
    ELSE IF ControllerFree THEN Controller(a, r, state)
    ELSE /\ act' = [act EXCEPT ![a] = [r EXCEPT !.at = "lock"]]
         /\ intent' = state
         /\ UNCHANGED <<active, managerQueue>>

Request(a, via, kind, force, goal) ==
    [Idle EXCEPT !.op = act[a].op, !.via = via, !.kind = kind, !.force = force,
                 !.goal = goal]

\* _async_handoff_locked
HandOff(a, kind, goal) ==
    Proceed(a, Request(a, IF active THEN "handoff" ELSE "plain", kind, FALSE, goal),
            intent)

\* _async_resume_locked
Resume(a, state, force) ==
    Proceed(a, IF state.mode = "hardware"
               THEN Request(a, "plain", "auto", force, Intent("hardware", FALSE))
               ELSE Request(a, "activate", "manual", force, Intent("custom", FALSE)),
            state)

Return(a) == Finish(a, intent) /\ UNCHANGED active
SetState(a, state) == Finish(a, state) /\ UNCHANGED active

\* What an operation of the manager leaves alone.
beyondManager == <<environmentVars, deviceOn, pending, failed, lifeVars>>

------------------------------------------------------------------------------
\* User operations

\* Entities exist from the end of setup until platforms are unloaded.
UserCalls(u, op) ==
    /\ phase = "loaded"
    /\ act[u].at = "idle"
    /\ act' = [act EXCEPT ![u] = [Idle EXCEPT !.at = "queued", !.op = op]]
    /\ managerQueue' = Append(managerQueue, u)
    /\ UNCHANGED <<environmentVars, deviceOn, seen, intent, active, pending, failed,
                   lifeVars>>

TurnOn(u) ==
    LET suspended == Intent(intent.mode, intent.suspended \/ ~seen.on) IN
    /\ Holds(u) /\ act[u].op = "turn_on"
    /\ IF /\ intent.mode # "none"
          /\ suspended.suspended \/ (intent.mode = "custom" /\ ~active)
       THEN Resume(u, suspended, suspended.suspended)
       ELSE IF seen.on THEN Return(u)
       ELSE Proceed(u, Request(u, "plain", "on", FALSE, intent), intent)
    /\ UNCHANGED <<beyondManager, seen>>

TurnOff(u) ==
    LET mode == IF active THEN "custom"
                ELSE IF intent.mode = "none" /\ seen.auto THEN "hardware"
                ELSE intent.mode
    IN
    /\ Holds(u) /\ act[u].op = "turn_off"
    /\ HandOff(u, "off", Intent(mode, mode # "none"))
    /\ UNCHANGED <<beyondManager, seen>>

SetManualMode(u) ==
    /\ Holds(u) /\ act[u].op = "manual"
    /\ HandOff(u, "manual", NoIntent)
    /\ UNCHANGED <<beyondManager, seen>>

SetHardwareAuto(u) ==
    /\ Holds(u) /\ act[u].op = "hardware"
    /\ HandOff(u, "auto", Intent("hardware", FALSE))
    /\ UNCHANGED <<beyondManager, seen>>

EnableCustomAuto(u) ==
    /\ Holds(u) /\ act[u].op = "enable"
    /\ IF active THEN SetState(u, Intent("custom", FALSE))
       ELSE Proceed(u, Request(u, "activate", "manual", FALSE, Intent("custom", FALSE)),
                    intent)
    /\ UNCHANGED <<beyondManager, seen>>

DisableCustomAuto(u) ==
    /\ Holds(u) /\ act[u].op = "disable"
    /\ IF intent.mode # "custom" /\ ~active THEN Return(u)
       ELSE IF intent.suspended /\ ~active /\ ~seen.on
       THEN SetState(u, Intent("hardware", TRUE))
       ELSE HandOff(u, "auto", Intent("hardware", FALSE))
    /\ UNCHANGED <<beyondManager, seen>>

\* Mutant of PushDone: the selected mode does not end Custom Auto.
PushKeepsController(p) == UNCHANGED active

PushDone(p) == active' = FALSE

\* async_handle_physical_fan_mode, and the publication of the mode after it.
PushHandled(p) ==
    /\ \/ Holds(p) /\ (active => ControllerFree)
       \/ act[p].at = "lock" /\ ControllerFree
    /\ PushDone(p)
    /\ intent' = IF act[p].op = "auto" THEN Intent("hardware", FALSE) ELSE NoIntent
    /\ managerQueue' = Tail(managerQueue)
    /\ seen' = [seen EXCEPT !.auto = act[p].op = "auto"]
    /\ Notify(FALSE, [act EXCEPT ![p] = Idle])
    /\ UNCHANGED <<environmentVars, deviceOn, lifeVars>>

PushWaits(p) ==
    /\ Holds(p) /\ active /\ ~ControllerFree
    /\ act' = [act EXCEPT ![p].at = "lock"]
    /\ UNCHANGED <<beyondManager, seen, intent, active, managerQueue>>

\* The operation gets the controller's lock it waited for.
ControllerLocked(a) ==
    /\ a \notin Pushes
    /\ act[a].at = "lock" /\ ControllerFree
    /\ Controller(a, act[a], intent)
    /\ UNCHANGED <<beyondManager, seen>>

------------------------------------------------------------------------------
\* Reconciliation: _async_run_reconcile, _async_reconcile_once

ReconcileStarts ==
    /\ act["reconcile"].at = "scheduled"
    /\ IF pending /\ ~stopped
       THEN /\ pending' = FALSE
            /\ act' = [act EXCEPT !["reconcile"].at = "queued"]
            /\ managerQueue' = Append(managerQueue, "reconcile")
       ELSE /\ act' = [act EXCEPT !["reconcile"] = Idle]
            /\ UNCHANGED <<pending, managerQueue>>
    /\ UNCHANGED <<environmentVars, deviceOn, seen, intent, active, failed, lifeVars>>

\* Mutant of MayResume: the published power is not looked at.
MayResumeAnyhow == TRUE

MayResume == seen.on

\* Mutant of Suspend: the controller goes on.
SuspendIntentOnly(r) == SetState(r, Intent(intent.mode, TRUE))

Suspend(r) ==
    IF intent.mode = "custom" /\ active
    THEN Proceed(r, Request(r, "deactivate", "none", FALSE, Intent("custom", TRUE)), intent)
    ELSE SetState(r, Intent(intent.mode, TRUE))

Reconcile ==
    LET r == "reconcile" IN
    /\ Holds(r)
    /\ IF intent.mode = "none" THEN Return(r)
       ELSE IF MayResume
       THEN IF intent.suspended THEN Resume(r, intent, TRUE)
            ELSE IF intent.mode = "custom" /\ ~active THEN Resume(r, intent, FALSE)
            ELSE Return(r)
       ELSE Suspend(r)
    /\ UNCHANGED <<beyondManager, seen>>

------------------------------------------------------------------------------
\* The controller's own evaluator: it gives up ownership of a purifier that is
\* off, or sends an automatic command; a queued sample may cause another one.

EvaluatorActs ==
    LET e == "evaluator" IN
    /\ active /\ act[e].at = "idle" /\ ControllerFree
    /\ \A a \in Actors : act[a].at # "lock"
    /\ IF seen.on
       THEN /\ Call(e, [Idle EXCEPT !.via = "evaluate", !.kind = "manual"])
            /\ UNCHANGED active
       ELSE active' = FALSE /\ UNCHANGED act
    /\ UNCHANGED <<beyondManager, seen, intent, managerQueue>>

------------------------------------------------------------------------------
\* Coordinator commands: async_set_power, async_set_fan_mode

CommandLocks(a) ==
    /\ act[a].at = "waiting" /\ CommandFree
    /\ act' = [act EXCEPT ![a] = Decide(@)]
    /\ UNCHANGED <<beyondManager, seen, intent, active, managerQueue>>

\* A closed client refuses.
CommandApplies(a) ==
    /\ act[a].at = "decided"
    /\ ~Closed
    /\ act' = [act EXCEPT ![a].at = "applied"]
    /\ deviceOn' = CASE act[a].kind = "off" -> FALSE
                     [] act[a].kind = "on" \/ act[a].powers -> TRUE
                     [] OTHER -> deviceOn
    /\ UNCHANGED <<environmentVars, seen, intent, active, managerQueue, pending, failed,
                   lifeVars>>

\* What the confirmed command of a publishes.
Confirmed(a) ==
    LET r == act[a]
        on == IF r.powerPushed THEN seen.on
              ELSE CASE r.kind = "on" -> TRUE
                     [] r.kind = "off" -> FALSE
                     [] OTHER -> r.powers \/ r.before
    IN [on |-> on,
        auto |-> IF r.kind \in {"on", "off"} THEN on /\ seen.auto
                 ELSE r.kind = "auto"]

\* The caller goes on after its command was confirmed.
CommandConfirmed(a) ==
    LET r == act[a]
        again == [Idle EXCEPT !.at = "waiting", !.op = "again", !.via = "evaluate",
                              !.kind = "manual", !.calledOn = Confirmed(a).on]
    IN
    /\ r.at = "applied"
    /\ seen' = Confirmed(a)
    /\ IF a = "evaluator"
       THEN /\ \E next \in IF r.op = "again" THEN {Idle} ELSE {Idle, again} :
                 Notify(FALSE, [act EXCEPT ![a] = next])
            /\ UNCHANGED <<intent, active, managerQueue>>
       ELSE /\ Notify(FALSE, [act EXCEPT ![a] = After(a)])
            /\ active' = (active /\ r.via # "handoff")
            /\ intent' = IF r.via = "reassert" THEN intent ELSE r.goal
            /\ managerQueue' = Tail(managerQueue)
    /\ UNCHANGED <<environmentVars, deviceOn, lifeVars>>

\* It fails.  A handoff that fails reasserts the speed; an activation is undone.
CommandFails(a) ==
    LET r == act[a]
        reassert == [Idle EXCEPT !.at = "waiting", !.op = r.op, !.via = "reassert",
                                 !.kind = "manual", !.calledOn = seen.on]
    IN
    /\ InCommand(a)
    /\ act' = [act EXCEPT ![a] = IF r.via = "handoff" /\ r.owned THEN reassert
                                 ELSE After(a)]
    /\ active' = (active /\ r.via # "activate")
    /\ managerQueue' = IF a = "evaluator" \/ (r.via = "handoff" /\ r.owned)
                       THEN managerQueue ELSE Tail(managerQueue)
    /\ failed' = IF a = "reconcile" THEN ~pending ELSE failed
    /\ UNCHANGED <<environmentVars, deviceOn, seen, intent, pending, lifeVars>>

------------------------------------------------------------------------------
\* async_setup_entry, async_unload_entry, restart

\* async_restore: intent for a purifier that is off waits for it to be turned on.
Restored(record, on) ==
    Intent(record.mode, record.suspended \/ (record.mode # "none" /\ ~on))

\* It has to be resumed: it was suspended, or needs the controller, which is new.
ResumeDue(record, on) == on /\ (record.suspended \/ record.mode = "custom")

\* Setup up to the platforms: first refresh, new manager and controller, restore,
\* push updates.  A new setup waits for calls and evaluations that outlived the old
\* entry: a bound, they only reach the old coordinator and its closed client.
Setup ==
    /\ phase = "out" /\ UsersIdle /\ act["evaluator"].at = "idle"
    /\ phase' = "forwarding"
    /\ seen' = [on |-> deviceOn, auto |-> FALSE]
    /\ intent' = Restored(saved, deviceOn)
    /\ active' = FALSE
    /\ stopped' = FALSE
    /\ pushOn' = TRUE
    /\ pending' = ResumeDue(saved, deviceOn)
    /\ act' = [act EXCEPT !["reconcile"].at =
                               IF ResumeDue(saved, deviceOn) THEN "scheduled" ELSE "idle"]
    /\ failed' = FALSE
    /\ outlived' = FALSE
    /\ UNCHANGED <<environmentVars, deviceOn, saved, managerQueue>>

Loaded ==
    /\ phase = "forwarding"
    /\ phase' = "loaded"
    /\ UNCHANGED <<environmentVars, deviceOn, seen, intent, saved, active, managerQueue,
                   act, pending, stopped, pushOn, failed, outlived>>

\* Home Assistant writes the entity records now and then.
RecordSaved ==
    /\ phase = "loaded" /\ restarts > 0
    /\ saved' = intent
    /\ UNCHANGED <<environmentVars, deviceOn, seen, intent, active, managerQueue, act,
                   pending, stopped, phase, pushOn, failed, outlived>>

\* Platforms are unloaded, which writes the record; push tasks are cancelled.
Unload ==
    /\ phase = "loaded" /\ restarts > 0
    /\ phase' = "stopping"
    /\ saved' = intent
    /\ pushOn' = FALSE
    /\ act' = [a \in Actors |-> IF a \in Pushes THEN Idle ELSE act[a]]
    /\ managerQueue' = Remaining(managerQueue, Pushes)
    /\ UNCHANGED <<environmentVars, deviceOn, seen, intent, active, pending, stopped,
                   failed, outlived>>

\* Setting up the platforms fails; push updates go on for now.
Rollback ==
    /\ phase = "forwarding" /\ restarts > 0
    /\ phase' = "stopping"
    /\ UNCHANGED <<environmentVars, deviceOn, seen, intent, saved, active, managerQueue,
                   act, pending, stopped, pushOn, failed, outlived>>

\* Mutant of StopReconcile: the reconcile task is not cancelled.
StopListeningOnly == UNCHANGED <<act, active, managerQueue>>

\* Mutant of StopReconcile: the cancelled task does not release the manager's lock.
StopHoldingLock ==
    /\ act' = [act EXCEPT !["reconcile"] = Idle]
    /\ UNCHANGED <<active, managerQueue>>

\* A cancelled activation is undone by the controller.
StopReconcile ==
    /\ act' = [act EXCEPT !["reconcile"] = Idle]
    /\ active' = (active /\ ~(InCommand("reconcile") /\ act["reconcile"].via = "activate"))
    /\ managerQueue' = Remaining(managerQueue, {"reconcile"})

\* AutoResumeManager.async_stop
StopManager ==
    /\ phase = "stopping" /\ ~stopped
    /\ stopped' = TRUE
    /\ StopReconcile
    /\ UNCHANGED <<environmentVars, deviceOn, seen, intent, saved, pending, phase, pushOn,
                   failed, outlived>>

\* CustomAutoController.async_stop
StopController ==
    /\ phase = "stopping" /\ stopped
    /\ ControllerFree
    /\ phase' = "closing"
    /\ active' = FALSE
    /\ outlived' = ~UsersIdle
    /\ UNCHANGED <<environmentVars, deviceOn, seen, intent, saved, managerQueue, act,
                   pending, stopped, pushOn, failed>>

\* GoveeCoordinator.async_shutdown
CloseClient ==
    /\ phase = "closing"
    /\ phase' = "out"
    /\ restarts' = restarts - 1
    /\ pushOn' = FALSE
    /\ act' = [a \in Actors |-> IF a \in Pushes THEN Idle ELSE act[a]]
    /\ managerQueue' = Remaining(managerQueue, Pushes)
    /\ UNCHANGED <<plan, pressed, deviceOn, seen, intent, saved, active, pending, stopped,
                   failed, outlived>>

\* Home Assistant dies; the newest record on disk remains.
Crash ==
    /\ phase # "out" /\ restarts > 0
    /\ phase' = "out"
    /\ restarts' = restarts - 1
    /\ intent' = NoIntent /\ active' = FALSE /\ managerQueue' = <<>>
    /\ act' = [a \in Actors |-> IF act[a].at # "idle" /\ a \in Users THEN Done ELSE Idle]
    /\ pending' = FALSE /\ stopped' = FALSE /\ pushOn' = FALSE
    /\ failed' = FALSE /\ outlived' = FALSE
    /\ UNCHANGED <<plan, pressed, deviceOn, seen, saved>>

------------------------------------------------------------------------------
UserOperation(u) ==
    \/ TurnOn(u) \/ TurnOff(u) \/ SetManualMode(u) \/ SetHardwareAuto(u)
    \/ EnableCustomAuto(u) \/ DisableCustomAuto(u)

ManagerStep(a) ==
    \/ a \in Users /\ UserOperation(a)
    \/ a \in Pushes /\ (PushHandled(a) \/ PushWaits(a))
    \/ a = "reconcile" /\ (ReconcileStarts \/ Reconcile)
    \/ ControllerLocked(a)
    \/ CommandLocks(a) \/ CommandApplies(a) \/ CommandConfirmed(a) \/ CommandFails(a)

Next ==
    \/ PowerPressed \/ PollSucceeds \/ Republished
    \/ \E p \in Pushes : ModePressed(p)
    \/ \E u \in Users : \E op \in plan.asks[u] : UserCalls(u, op)
    \/ \E a \in Actors : ManagerStep(a)
    \/ EvaluatorActs
    \/ Setup \/ Loaded \/ RecordSaved \/ Unload \/ Rollback
    \/ StopManager \/ StopController \/ CloseClient \/ Crash

Spec == Init /\ [][Next]_vars

\* Past the manager's lock there is one operation at a time.
OperationStep == \E a \in Actors \ {"evaluator"} : ManagerStep(a)

\* Everything awaited has a deadline and locks are FIFO, so the operation that holds
\* the manager's lock goes on, and so does an evaluation; Home Assistant keeps
\* polling; a purifier that is asked again and again does not fail every time.
FairSpec ==
    /\ Spec
    /\ SF_vars(OperationStep) /\ WF_vars(ManagerStep("evaluator"))
    /\ SF_vars(PollSucceeds)
    /\ SF_vars(\E a \in Actors : CommandApplies(a))
    /\ SF_vars(\E a \in Actors : CommandConfirmed(a))

------------------------------------------------------------------------------
\* Properties

Modes == {"none", "hardware", "custom"}
Intents == [mode : Modes, suspended : BOOLEAN]

\* Types, and the locks: an operation that is past the manager's lock is at the
\* head of its queue, and at most one actor is inside the controller.
TypeOK ==
    /\ intent \in Intents /\ saved \in Intents
    /\ intent.suspended => intent.mode # "none"
    /\ IsInjective(managerQueue)
    /\ \A a \in Actors \ {"evaluator"} :
         act[a].at = "lock" \/ InCommand(a) => managerQueue # <<>> /\ Head(managerQueue) = a
    /\ \A a, b \in Actors :
         InCommand(a) /\ InCommand(b) /\ act[a].via # "plain" /\ act[b].via # "plain"
            => a = b

\* Whenever no operation is under way, a controller that owns the speed is what
\* the user selected, although it gives up ownership on its own and operations
\* fail half-way (auto_resume.py:201, 294).
ActiveIsSelected ==
    active /\ managerQueue = <<>> /\ ~stopped => intent = Intent("custom", FALSE)

\* Reconciliation, after a restart or a failure as much as after a poll, never
\* calls a command for a purifier that is published off (auto_resume.py:107, 368).
ResumesOnlyWhenOn == InCommand("reconcile") => act["reconcile"].calledOn

\* A resumption that failed is tried again only after the purifier has been
\* observed again; what its own commands and others publish is not an
\* observation (auto_resume.py:349).
RetriesOnObservation ==
    [][InCommand("reconcile")' /\ ~InCommand("reconcile") => ~failed]_vars

\* After unload or rollback there is no reconciliation, no push task and no
\* evaluator at work, and nobody owns the speed, unless a user's call was still
\* under way when the controller was stopped (__init__.py:96, 110).
UnloadLeavesNothing ==
    Closed => /\ \A a \in Pushes \cup {"reconcile"} : act[a].at = "idle"
              /\ ~outlived => ~active /\ act["evaluator"].at = "idle"

\* Once buttons, users and the air rest (no speed to change), intent and purifier
\* agree: a purifier that is on runs the selected automatic mode, one that is off has
\* it suspended (auto_resume.py:358).
Agree ==
    intent.mode # "none" =>
        /\ intent.suspended = ~deviceOn
        /\ intent.mode = "custom" => (active <=> deviceOn)
Resting == phase \in {"loaded", "forwarding"} /\ act["evaluator"].at = "idle"
SettlesIntoIntent == <>[]Resting => <>[]Agree

\* Every user's call ends: manager, controller and command lock, taken in this
\* order by users, pushes and reconciliation, are never waited for in a circle,
\* whatever an unload cancels (auto_resume.py:313).
CallsEnd == \A u \in Users : act[u].at = "queued" ~> act[u].at = "done"

================================================================================
