------------------------------ MODULE Coordinator ------------------------------
(***************************************************************************)
(* GoveeCoordinator (coordinator.py): polls, pushes and user commands that *)
(* overlap, and the state that is published from them.                     *)
(*                                                                         *)
(* The purifier itself is part of the model.  Everything that happens to   *)
(* it, a button or a command, gets the next number of a clock, and every   *)
(* value carries the number of the event that made it, so that of two      *)
(* values of a field the newer one is known.                               *)
(*                                                                         *)
(* Fields: power; mode, which no poll reports; lamp, the night light's     *)
(* power-and-brightness report; color.  PM2.5 and the filter take no part  *)
(* in the merges; CustomAuto has the PM2.5 samples and the success flags.  *)
(*                                                                         *)
(* Bodies under _state_lock do not await: it is never contended.  The      *)
(* client runs one exchange at a time (SharedConnection, Exchange), and    *)
(* what is published from an exchange is published before anyone else can  *)
(* begin one.                                                              *)
(***************************************************************************)
EXTENDS Naturals, SequencesExt, Queues

CONSTANTS Commands,   \* calls of a set-command
          Plans       \* bound: what else happens, see CoordinatorAssumption

Fields == {"power", "mode", "lamp", "color"}
Lights == {"lamp", "color"}

Requests == [kind : {"power", "mode", "light"}, is : {"on", "off"},
             settings : SUBSET {"brightness", "color"}]

\* A plan says what each command asks for (nothing if it is not called), which
\* fields are changed, in this order, by buttons or another app, and whether the
\* entry is unloaded.  When any of this happens is left open.
ASSUME CoordinatorAssumption ==
    \A p \in Plans :
        /\ p.asks \in [Commands -> SUBSET Requests]
        /\ \A c \in Commands : \A r \in p.asks[c] :
              r.settings # {} => r.kind = "light" /\ r.is = "on"
        /\ p.changes \in Seq(Fields)
        /\ p.unload \in BOOLEAN

VARIABLES
    plan,                        \* of Plans
    device, clock, changes,      \* the purifier, its events, changes still to come
    data, lastMode,              \* data, _last_fan_mode
    commandRevision, publishedRevision,
    push,                        \* _push_revision and those of the fields
    pushed, confirmed,           \* history: times of the newest push applied and
                                 \* of the newest confirmation published, by field
    queue,                       \* who has _command_lock and who waits for it
    job,                         \* the commands
    poll, refresh,               \* the poll under way, the background refresh task
    pushEnabled, modePushes,     \* push tasks in _physical_mode_handler
    shutdown

purifierVars == <<plan, device, clock, changes>>
stateVars == <<data, lastMode, pushed, confirmed>>
commandVars == <<commandRevision, publishedRevision, queue, job>>
pushVars == <<push, pushEnabled, modePushes>>
pollVars == <<poll, refresh>>
vars == <<purifierVars, stateVars, commandVars, pushVars, pollVars, shutdown>>

\* What no step of a poll, and what no step of a called command changes.
beyondPolls == <<purifierVars, stateVars, commandVars, pushVars, shutdown>>
beyondCommands == <<plan, changes, commandRevision, pushVars, shutdown>>

Value(is, at) == [is |-> is, at |-> at]
Unknown == Value("unknown", 0)
Off(power) == Value("none", power.at)    \* the fan mode of a purifier that is off

NoSnapshot == [command |-> 0, power |-> 0, mode |-> 0, light |-> 0]
NoPoll == [stage |-> "none", background |-> FALSE, since |-> NoSnapshot,
           got |-> [f \in {} |-> Unknown]]
NoJob == [stage |-> "idle", request |-> Value("none", 0), since |-> NoSnapshot,
          exchanges |-> <<>>, todo |-> <<>>, got |-> [f \in {} |-> Unknown],
          before |-> Unknown, light |-> [f \in Lights |-> Unknown],
          confirmed |-> FALSE]

\* What a command or poll notes of the revisions when it begins.
Snapshot(command, groups) ==
    [command |-> command, power |-> IF "power" \in groups THEN push.power ELSE 0,
     mode |-> IF "mode" \in groups THEN push.mode ELSE 0,
     light |-> IF "light" \in groups THEN push.light ELSE 0]

Reading == {"reading", "core", "light"}
ClientFree ==
    /\ poll.stage \notin Reading \cup {"cancelled"}
    /\ \A c \in Commands : job[c].stage # "exchange"

\* async_shutdown first awaits the refresh it cancelled, then closes the client.
Closed == shutdown = "closing" /\ poll.stage # "cancelled"

\* After async_setup_entry, whose first refresh must succeed.
Init ==
    /\ \E p \in {"on", "off"} :
         device = [f \in Fields |-> CASE f = "power" -> Value(p, 0)
                                      [] f = "lamp" -> Value("off", 0)
                                      [] OTHER -> Value("set", 0)]
    /\ clock = 0
    /\ plan \in Plans
    /\ changes = plan.changes
    /\ data = [f \in Fields |-> CASE f = "power" -> device.power
                                  [] f = "mode" -> Off(device.power)
                                  [] OTHER -> Unknown]
    /\ lastMode = data.mode
    /\ commandRevision = 0
    /\ publishedRevision = 0
    /\ push = [count |-> 0, power |-> 0, mode |-> 0, light |-> 0]
    /\ pushed = [f \in Fields |-> 0] /\ confirmed = [f \in Fields |-> 0]
    /\ queue = <<>>
    /\ job = [c \in Commands |-> NoJob]
    /\ poll = NoPoll
    /\ refresh = "none"
    /\ pushEnabled = TRUE
    /\ modePushes = <<>>
    /\ shutdown = "open"

------------------------------------------------------------------------------
\* Pushes: _handle_client_push, _async_apply_push_update

\* A purifier that is off is published without a fan mode.
WithoutMode(power, mode) == IF power.is = "off" THEN Off(power) ELSE mode

\* Mutant of Remembered: a push that reports power off leaves _last_fan_mode.
RememberedAnyhow(power) == lastMode

\* _last_fan_mode once a push has reported the power.
Remembered(power) == WithoutMode(power, lastMode)

Later(m, n) == IF m < n THEN n ELSE m

\* Applies the push of a field: the merge and its revision.
ApplyPush(f, value) ==
    LET count == push.count + 1
        group == IF f = "lamp" THEN "light" ELSE f
    IN
    /\ push' = [push EXCEPT !.count = count, ![group] = count]
    /\ data' = CASE f = "power" -> [data EXCEPT !.power = value,
                                                !.mode = WithoutMode(value, @)]
                 [] OTHER -> [data EXCEPT ![f] = value]
    /\ lastMode' = CASE f = "power" -> Remembered(value)
                     [] f = "mode" -> value
                     [] OTHER -> lastMode
    /\ pushed' = [pushed EXCEPT ![f] = Later(@, value.at)]
    /\ UNCHANGED confirmed

\* Power and light pushes are applied as the notification is handled; a mode
\* push first awaits the manager.
Pushed(f, value) ==
    IF f = "mode"
    THEN modePushes' = Append(modePushes, value) /\ UNCHANGED <<push, stateVars>>
    ELSE ApplyPush(f, value) /\ UNCHANGED modePushes

\* Somebody changes the purifier; the push may be missed (no connection).
Change(f) ==
    LET is == CASE device[f].is = "on" -> "off" [] device[f].is = "off" -> "on"
                [] OTHER -> "set"
        value == Value(is, clock + 1)
    IN
    /\ changes # <<>>
    /\ f = Head(changes)
    /\ changes' = Tail(changes)
    /\ UNCHANGED plan
    /\ clock' = clock + 1
    /\ device' = [device EXCEPT ![f] = value]
    /\ \/ UNCHANGED <<push, modePushes, stateVars>>
       \/ pushEnabled /\ f # "color" /\ Pushed(f, value)
    /\ UNCHANGED <<commandVars, pushEnabled, pollVars, shutdown>>

\* The manager is done with the oldest mode push (its lock is FIFO), or failed.
\* That push updates are still enabled, which the task checks once more, is so
\* whenever it gets here: disabling them cancels it.
ModePushApplies ==
    /\ modePushes # <<>>
    /\ modePushes' = Tail(modePushes)
    /\ ApplyPush("mode", Head(modePushes))
    /\ UNCHANGED <<purifierVars, commandVars, pushEnabled, pollVars, shutdown>>

------------------------------------------------------------------------------
\* Polls: _async_update_data, and who starts them

BeginPoll(background) ==
    poll' = [NoPoll EXCEPT !.stage = "waiting", !.background = background,
                           !.since = Snapshot(commandRevision, {"power", "light"})]

\* Home Assistant's timer, or a listener's async_request_refresh; one poll at
\* a time.
PollStarts ==
    /\ poll.stage = "none"
    /\ shutdown # "closing"
    /\ BeginPoll(FALSE)
    /\ UNCHANGED <<beyondPolls, refresh>>

\* The background refresh has slept: it polls, or Home Assistant's debouncer
\* leaves the poll to its own timer.
RefreshDue ==
    /\ refresh = "sleeping"
    /\ \/ /\ poll.stage = "none" /\ shutdown # "closing"
          /\ BeginPoll(TRUE)
          /\ refresh' = "polling"
       \/ /\ refresh' = "none"
          /\ UNCHANGED poll
    /\ UNCHANGED beyondPolls

PollBegins ==
    /\ poll.stage = "waiting"
    /\ ClientFree /\ ~Closed
    /\ poll' = [poll EXCEPT !.stage = "reading"]
    /\ UNCHANGED <<beyondPolls, refresh>>

\* The required replies come first.
PollReadsCore ==
    /\ poll.stage = "reading"
    /\ poll' = [poll EXCEPT !.stage = "core", !.got = [f \in {"power"} |-> device[f]]]
    /\ UNCHANGED <<beyondPolls, refresh>>

\* Optional telemetry, if it is due: either reply may be missing.
PollReadsLight(fields) ==
    /\ poll.stage = "core"
    /\ poll' = [poll EXCEPT !.stage = "light",
                   !.got = [f \in {"power"} \cup fields |->
                              IF f = "power" THEN @[f] ELSE device[f]]]
    /\ UNCHANGED <<beyondPolls, refresh>>

\* The link is lost and the client replays the whole poll.
PollReplayed ==
    /\ poll.stage \in Reading
    /\ poll' = [poll EXCEPT !.stage = "waiting", !.got = NoPoll.got]
    /\ UNCHANGED <<beyondPolls, refresh>>

\* Mutant of OvertakenByPush: pushes that arrived during the poll are ignored.
OvertakenByNothing(group) == FALSE

\* A push of these fields arrived while the poll was under way.
OvertakenByPush(group) == push[group] > poll.since[group]

\* Mutant of OvertakenByCommand: a poll is never newer than the last command.
OvertakenAlways == publishedRevision >= poll.since.command /\ publishedRevision > 0

\* A command called after the poll began was confirmed meanwhile.
OvertakenByCommand == publishedRevision > poll.since.command

PollOver == poll' = NoPoll /\ refresh' = IF poll.background THEN "none" ELSE refresh

PollEnds ==
    /\ poll.stage \in {"core", "light"}
    /\ data' = [f \in Fields |->
         CASE f = "mode" -> lastMode
           [] f = "power" -> IF OvertakenByPush("power") \/ OvertakenByCommand
                             THEN data.power ELSE poll.got.power
           [] OTHER -> IF \/ OvertakenByPush("light") \/ OvertakenByCommand
                          \/ f \notin DOMAIN poll.got
                       THEN data[f] ELSE poll.got[f]]
    /\ PollOver
    /\ UNCHANGED <<purifierVars, lastMode, pushed, confirmed, commandVars, pushVars,
                   shutdown>>

PollFails ==
    /\ poll.stage \in Reading \cup {"waiting"}
    /\ PollOver
    /\ UNCHANGED beyondPolls

\* The client has let go of the connection of a cancelled poll.
PollCleanedUp ==
    /\ poll.stage = "cancelled"
    /\ poll' = NoPoll
    /\ UNCHANGED <<beyondPolls, refresh>>

\* _cancel_background_refresh; a poll that the task has begun is cancelled too.
PollAfterCancel ==
    IF refresh # "polling" THEN poll
    ELSE IF poll.stage \in Reading THEN [NoPoll EXCEPT !.stage = "cancelled"]
    ELSE NoPoll

\* _schedule_background_refresh cancels the earlier one first.
ScheduleRefresh == refresh' = "sleeping" /\ poll' = PollAfterCancel

------------------------------------------------------------------------------
\* Commands: async_set_power, async_set_fan_mode, async_set_night_light

Call(c, r) ==
    /\ job[c].stage = "idle"
    /\ shutdown # "closing"
    /\ commandRevision' = commandRevision + 1
    /\ job' = [job EXCEPT ![c] = [NoJob EXCEPT !.stage = "queued", !.request = r,
                 !.since = Snapshot(commandRevision + 1,
                                    IF r.kind = "mode" THEN {"power", "mode"}
                                    ELSE {r.kind})]]
    /\ queue' = Append(queue, c)
    /\ refresh' = "none" /\ poll' = PollAfterCancel
    /\ UNCHANGED <<purifierVars, stateVars, publishedRevision, pushVars, shutdown>>

\* The exchanges of a command, as decided from what is published now.
Exchanges(r) ==
    CASE r.kind = "power" -> << <<"power">> >>
      [] r.kind = "mode" -> IF data.power.is = "off" THEN << <<"power", "mode">> >>
                                                     ELSE << <<"mode">> >>
      [] OTHER ->
           (IF r.is = "off" \/ r.settings = {} \/ data.lamp.is # "on"
            THEN << <<"lamp">> >> ELSE <<>>)
           \o (IF "brightness" \in r.settings THEN << <<"brightness">> >> ELSE <<>>)
           \o (IF "color" \in r.settings THEN << <<"color">> >> ELSE <<>>)

\* The command has _command_lock.
Decide(c) ==
    /\ job[c].stage = "queued"
    /\ Head(queue) = c
    /\ job' = [job EXCEPT ![c].stage = "waiting",
                          ![c].exchanges = Exchanges(job[c].request),
                          ![c].before = data.power,
                          ![c].light = [f \in Lights |-> data[f]]]
    /\ UNCHANGED <<beyondCommands, stateVars, publishedRevision, queue, pollVars>>
    /\ UNCHANGED <<device, clock>>

\* _require_available
ClientOpen == ~Closed

ExchangeBegins(c) ==
    /\ job[c].stage = "waiting"
    /\ ClientFree /\ ClientOpen
    /\ job' = [job EXCEPT ![c].stage = "exchange", ![c].todo = Head(job[c].exchanges),
                          ![c].exchanges = Tail(@)]
    /\ UNCHANGED <<beyondCommands, stateVars, publishedRevision, queue, pollVars>>
    /\ UNCHANGED <<device, clock>>

\* The purifier executes the next request; its reply is on the way.
Executes(c) ==
    LET request == Head(job[c].todo)
        f == IF request = "brightness" THEN "lamp" ELSE request
        is == CASE request = "power" -> IF job[c].request.kind = "mode" THEN "on"
                                        ELSE job[c].request.is
                [] request = "lamp" -> job[c].request.is
                [] request = "brightness" -> device.lamp.is
                [] OTHER -> "set"
        value == Value(is, clock + 1)
    IN
    /\ job[c].stage = "exchange" /\ job[c].todo # <<>>
    /\ clock' = clock + 1
    /\ device' = [device EXCEPT ![f] = value]
    /\ job' = [job EXCEPT ![c].todo = Tail(@),
                          ![c].got = [g \in DOMAIN @ \cup {f} |->
                                        IF g = f THEN value ELSE @[g]]]
    /\ UNCHANGED <<beyondCommands, stateVars, publishedRevision, queue, pollVars>>

\* All replies of the exchange are there.
Confirmed(c) == job[c].stage = "exchange" /\ job[c].todo = <<>>

\* Mutants of Since: the check of one setting is forgotten.
SinceButPower(c, group) == group # "power" /\ push[group] > job[c].since[group]
SinceButMode(c, group) == group # "mode" /\ push[group] > job[c].since[group]
SinceButLight(c, group) == group # "light" /\ push[group] > job[c].since[group]

\* A push of these fields was applied since the command was called.
Since(c, group) == push[group] > job[c].since[group]

\* Mutant of CommandOver: a command that ends keeps _command_lock.
CommandOverLocked(c) ==
    /\ job' = [job EXCEPT ![c] = [NoJob EXCEPT !.stage = "done"]]
    /\ UNCHANGED queue

CommandOver(c) ==
    /\ job' = [job EXCEPT ![c] = [NoJob EXCEPT !.stage = "done"]]
    /\ queue' = Remaining(queue, {c})

Confirm(fields, values) ==
    /\ confirmed' = [f \in Fields |->
                       IF f \in fields THEN Later(confirmed[f], values[f].at) ELSE confirmed[f]]
    /\ UNCHANGED pushed

PowerConfirmed(c) ==
    LET power == IF Since(c, "power") THEN data.power ELSE job[c].got.power IN
    /\ Confirmed(c) /\ job[c].request.kind = "power"
    /\ data' = [data EXCEPT !.power = power, !.mode = WithoutMode(power, @)]
    /\ lastMode' = WithoutMode(power, lastMode)
    /\ Confirm(IF Since(c, "power") THEN {} ELSE {"power"}, job[c].got)
    /\ publishedRevision' = job[c].since.command
    /\ CommandOver(c)
    /\ ScheduleRefresh
    /\ UNCHANGED <<beyondCommands, device, clock>>

\* A command that found the purifier on publishes the power it found.
ModeConfirmed(c) ==
    LET got == job[c].got
        fresh == {f \in DOMAIN got : ~Since(c, f)}
        power == IF "power" \in DOMAIN got THEN got.power ELSE job[c].before
        mode == IF "mode" \in fresh THEN got.mode ELSE data.mode
    IN
    /\ Confirmed(c) /\ job[c].request.kind = "mode"
    /\ data' = [data EXCEPT !.power = IF Since(c, "power") THEN @ ELSE power,
                            !.mode = mode]
    /\ lastMode' = mode
    /\ Confirm(fresh, got)
    /\ publishedRevision' = job[c].since.command
    /\ CommandOver(c)
    /\ ScheduleRefresh
    /\ UNCHANGED <<beyondCommands, device, clock>>

\* One confirmed step of a light command; the last one ends it.
LightConfirmed(c) ==
    LET got == job[c].got
        light == [f \in Lights |-> IF f \in DOMAIN got THEN got[f] ELSE job[c].light[f]]
        overtaken == Since(c, "light")
    IN
    /\ Confirmed(c) /\ job[c].request.kind = "light"
    /\ data' = IF overtaken THEN data
               ELSE [f \in Fields |-> IF f \in Lights THEN light[f] ELSE data[f]]
    /\ Confirm(IF overtaken THEN {} ELSE DOMAIN got, got)
    /\ publishedRevision' = job[c].since.command
    /\ IF job[c].exchanges = <<>>
       THEN CommandOver(c) /\ ScheduleRefresh
       ELSE /\ job' = [job EXCEPT ![c].stage = "waiting", ![c].got = NoJob.got,
                         ![c].confirmed = TRUE,
                         ![c].light = IF overtaken THEN [f \in Lights |-> data[f]]
                                                   ELSE light]
            /\ UNCHANGED <<queue, poll, refresh>>
    /\ UNCHANGED <<purifierVars, lastMode, commandRevision, pushVars,
                   shutdown>>

\* An error, a timeout or a cancelled caller.  The purifier may have executed
\* the request.  A light command that had some step confirmed refreshes.
CommandFails(c) ==
    /\ job[c].stage \in {"queued", "waiting", "exchange"}
    /\ CommandOver(c)
    /\ IF job[c].confirmed THEN ScheduleRefresh ELSE UNCHANGED <<poll, refresh>>
    /\ UNCHANGED <<purifierVars, stateVars, commandRevision, publishedRevision, pushVars, shutdown>>

CommandStep(c) ==
    \/ Decide(c) \/ ExchangeBegins(c) \/ Executes(c) \/ CommandFails(c)
    \/ PowerConfirmed(c) \/ ModeConfirmed(c) \/ LightConfirmed(c)

------------------------------------------------------------------------------
\* async_disable_push_updates, async_shutdown

\* Mutant of DisablePush: push tasks that await the manager go on.
DisableLaterPushes ==
    /\ shutdown = "open" /\ plan.unload
    /\ shutdown' = "disabled"
    /\ pushEnabled' = FALSE
    /\ UNCHANGED <<purifierVars, stateVars, commandVars, push, modePushes, pollVars>>

\* Cancelled push tasks do not publish.
DisablePush ==
    /\ shutdown = "open" /\ plan.unload
    /\ shutdown' = "disabled"
    /\ pushEnabled' = FALSE
    /\ modePushes' = <<>>
    /\ UNCHANGED <<purifierVars, stateVars, commandVars, push, pollVars>>

\* Home Assistant stops polling and the client is closed, which waits for an
\* exchange but not for ever.
Shutdown ==
    /\ shutdown = "disabled"
    /\ shutdown' = "closing"
    /\ refresh' = "none" /\ poll' = PollAfterCancel
    /\ UNCHANGED <<purifierVars, stateVars, commandVars, pushVars>>

\* The entry is unloaded and nobody is left.
Over ==
    /\ Closed
    /\ poll.stage = "none" /\ queue = <<>> /\ refresh = "none"
    /\ changes = <<>>
    /\ UNCHANGED vars

PollStep ==
    PollBegins \/ PollReplayed \/ PollEnds \/ PollFails \/ PollCleanedUp
        \/ PollReadsCore \/ \E fields \in (SUBSET Lights) \ {{}} : PollReadsLight(fields)

Next ==
    \/ \E f \in Fields : Change(f)
    \/ ModePushApplies
    \/ PollStarts \/ RefreshDue \/ PollStep
    \/ \E c \in Commands : CommandStep(c) \/ \E r \in plan.asks[c] : Call(c, r)
    \/ DisablePush \/ Shutdown \/ Over

Spec == Init /\ [][Next]_vars

\* The poll has read everything.
PollIsComplete == Lights \subseteq DOMAIN poll.got

\* Every exchange has a deadline and Home Assistant keeps polling; that polls get
\* every reply again and again and then succeed is assumed where it is needed.
FairSpec ==
    /\ Spec
    /\ \A c \in Commands : WF_vars(CommandStep(c))
    /\ WF_vars(PollStarts) /\ WF_vars(PollBegins) /\ WF_vars(PollCleanedUp)
    /\ WF_vars(ModePushApplies)
    /\ SF_vars(PollEnds /\ PollIsComplete)

------------------------------------------------------------------------------
\* Properties

Values == [is : {"on", "off", "set", "none", "unknown"}, at : 0..clock]

\* Types and bounds: revisions stay within what was called or pushed, the
\* command at the head of the queue is the only one past the lock, a delayed
\* refresh that polls has a poll, a disabled coordinator has no push task.
TypeOK ==
    /\ device \in [Fields -> Values] /\ data \in [Fields -> Values]
    /\ lastMode \in Values
    /\ publishedRevision \in 0..commandRevision
    /\ push.power <= push.count /\ push.mode <= push.count /\ push.light <= push.count
    /\ ToSet(queue) = {c \in Commands : job[c].stage \notin {"idle", "done"}}
    /\ IsInjective(queue)
    /\ \A c \in Commands : job[c].stage \in {"waiting", "exchange"} => Head(queue) = c
    /\ refresh \in {"none", "sleeping", "polling"}
    /\ refresh = "polling" => poll.background /\ poll.stage \in Reading \cup {"waiting"}
    /\ modePushes # <<>> => pushEnabled

\* The mode that polls repeat and the mode that is published are the same after
\* every mixture of pushes, commands and polls; nothing makes a poll bring back
\* a mode that was given up (_last_fan_mode, coordinator.py:175).
ModeRemembered == data.mode = lastMode

\* What is published of a field is never older than the newest push of it that
\* was applied, nor than the newest confirmation of it that was published, however
\* polls, pushes and the steps of commands overlap (coordinator.py:170, 313, 373,
\* 420).  With one exception: a mode push that waited for the manager
\* (coordinator.py:257) while a command was confirmed is applied all the same, so
\* a mode that is older than the newest confirmation is that of the newest push.
NewestWins ==
    /\ \A f \in Fields \ {"mode"} : data[f].at >= pushed[f] /\ data[f].at >= confirmed[f]
    /\ data.mode.is = "set" =>
         /\ data.mode.at >= pushed.mode
         /\ data.mode.at >= confirmed.mode \/ data.mode.at = pushed.mode

\* A poll never replaces a value by an older one, although it began before
\* pushes and commands that were published since (coordinator.py:144).
PollsNeverGoBack == [][PollEnds => \A f \in Fields : data'[f].at >= data[f].at]_vars

\* Once the client is closed and the exchange is over that async_close waits for,
\* or gave up waiting for, nothing is sent or published any more: no push, no late
\* poll, no command that was waiting (coordinator.py:129).
QuietAfterShutdown ==
    [][Closed /\ ClientFree => ClientFree' /\ UNCHANGED data]_vars

\* However the revisions blocked a poll, or a command published what it had
\* found before it, the published state catches up with the purifier once
\* polls succeed that read all of it (coordinator.py:166, 197).
Settled == \A f \in {"power", "lamp", "color"} : data[f] = device[f]
CatchesUp ==
    []<>PollIsComplete => <>[](Settled \/ shutdown # "open")

================================================================================
