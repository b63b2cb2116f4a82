------------------------------- MODULE CustomAuto -------------------------------
(***************************************************************************)
(* CustomAutoController (custom_auto/controller.py) with the policy it     *)
(* applies (policy.py), and of the coordinator what the controller reads   *)
(* and awaits: polls, pushes, publications and fan-mode commands.          *)
(*                                                                         *)
(* Speeds are their indices in CUSTOM_AUTO_SPEEDS; a fan mode is the speed *)
(* it stands for, 0 any other.  Only an activation reads the fan mode, and *)
(* commands, pushes and polls may have made it any by then: Activate picks *)
(* one.  is_on None behaves as TRUE.                                       *)
(*                                                                         *)
(* evaluation is where the one evaluator task is, operation where the      *)
(* caller of async_activate or async_handoff is that has the lock.  The    *)
(* evaluator does not pause while it is "evaluating".                      *)
(***************************************************************************)
EXTENDS Naturals, SequencesExt

CONSTANTS TopSpeed,     \* the number of speeds
          Thresholds,   \* config.thresholds, one for each speed but the top
          Confirm,      \* confirmation_delay_seconds > 0
          PM,           \* the PM2.5 readings
          MaxRevision   \* bound: valid PM2.5 samples

Speeds == 1..TopSpeed
LowerSpeeds == 1..(TopSpeed - 1)

ASSUME CustomAutoAssumption ==
    /\ TopSpeed \in Nat \ {0}
    /\ PM \subseteq Nat
    /\ Thresholds \in [LowerSpeeds -> Nat]
    /\ \A s, u \in LowerSpeeds : s < u => Thresholds[s] < Thresholds[u]
    /\ Confirm \in BOOLEAN
    /\ MaxRevision \in Nat

\* Mutant of SpeedForPm: a reading on a boundary already needs more.
SpeedForPmInclusive(pm25) ==
    CHOOSE s \in Speeds :
        /\ s = 1 \/ pm25 >= Thresholds[s - 1]
        /\ \A u \in Speeds : u > s => pm25 < Thresholds[u - 1]

\* speed_for_pm: the last speed whose boundary the reading exceeds.
SpeedForPm(pm25) ==
    CHOOSE s \in Speeds :
        /\ s = 1 \/ pm25 > Thresholds[s - 1]
        /\ \A u \in Speeds : u > s => pm25 <= Thresholds[u - 1]

VARIABLES
    active, currentSpeed,
    waiting,       \* _waiting_for_successful_update
    samples,       \* _pending_pm25_samples
    lastRevision,  \* _last_pm25_sample_revision, 0 for None
    readings,      \* _pending_upshift_readings
    confirmation,  \* the upshift confirmation task and its revision
    timers,        \* the speeds whose downshift timer runs
    mature,        \* _mature_downshifts
    pending,       \* _evaluation_pending
    evaluation, operation,
    command,       \* the awaited command: its speed, the speed to fall back to,
                   \* the sample an activation has still to apply
    isOn, pm25, revision, pm25Ok,   \* the coordinator's
    seen           \* history: the last two samples observed

upshiftVars == <<lastRevision, readings, confirmation, seen>>
downshiftVars == <<timers, mature>>
policyVars == <<upshiftVars, downshiftVars>>
inputVars == <<waiting, samples, pending>>
coordinatorVars == <<isOn, pm25, revision, pm25Ok>>
vars == <<active, currentSpeed, inputVars, policyVars, evaluation, operation,
          command, coordinatorVars>>

NoSpeed == 0
NoSample == <<>>
NoConfirmation == [stage |-> "none", revision |-> 0]
NoCommand == [speed |-> NoSpeed, previous |-> NoSpeed, sample |-> NoSample]

Evaluating == {"evaluating", "upshift", "downshift"}
Evaluations == Evaluating \cup {"none", "scheduled", "lock", "failed"}
Operations == {"none", "activating", "reasserting", "handoff", "fallback"}

LockFree == operation = "none" /\ evaluation \notin Evaluating

\* The evaluator does not run without a pause now.
NobodyRuns == evaluation # "evaluating"

Init ==
    /\ active = FALSE
    /\ currentSpeed = NoSpeed
    /\ waiting = FALSE
    /\ samples = <<>>
    /\ lastRevision = 0
    /\ readings = 0
    /\ confirmation = NoConfirmation
    /\ timers = {}
    /\ mature = {}
    /\ pending = FALSE
    /\ evaluation = "none"
    /\ operation = "none"
    /\ command = NoCommand
    /\ isOn \in BOOLEAN
    /\ pm25 = 0
    /\ revision = 0
    /\ pm25Ok = FALSE
    /\ seen = <<>>

------------------------------------------------------------------------------
\* The listener: _handle_coordinator_update, on the coordinator's new state

Scheduled == IF evaluation = "none" THEN "scheduled" ELSE evaluation

\* Mutant of QueueSample: only the newest sample is kept.
QueueSampleCoalesced ==
    samples' = IF pm25Ok' /\ revision' # lastRevision
               THEN <<[revision |-> revision', pm25 |-> pm25']>> ELSE samples

QueueSample ==
    samples' = IF /\ pm25Ok'
                  /\ revision' # lastRevision
                  /\ samples = <<>> \/ Last(samples).revision # revision'
               THEN Append(samples, [revision |-> revision', pm25 |-> pm25'])
               ELSE samples

\* While it waits for a successful update it hears only one, or a power-off.
Hears == active /\ (waiting => pm25Ok' \/ ~isOn')

\* Where the evaluator is after the listener was called.
AfterNotify == IF Hears THEN Scheduled ELSE evaluation

Notify ==
    IF Hears
    THEN /\ waiting' = (waiting /\ ~pm25Ok')
         /\ QueueSample
         /\ pending' = TRUE
    ELSE UNCHANGED inputVars

------------------------------------------------------------------------------
\* Upshift confirmation and downshift timers

ClearUpshift ==
    /\ readings' = 0
    /\ confirmation' = NoConfirmation

\* Mutant of Confirmed: one reading suffices.
ConfirmedAtOnce(sample, speed) == SpeedForPm(sample.pm25) > speed

\* Whether the sample completes an upshift from the given speed.
Confirmed(sample, speed) ==
    /\ sample.revision # lastRevision
    /\ SpeedForPm(sample.pm25) > speed
    /\ Confirm => readings >= 1

\* Mutant of NextReadings: the count is not limited to what is needed.
NextReadingsUncapped == readings + 1

NextReadings == IF readings = 0 THEN 1 ELSE 2

\* _observe_upshift_sample
Observe(sample, speed) ==
    IF sample.revision = lastRevision THEN UNCHANGED upshiftVars
    ELSE /\ lastRevision' = sample.revision
         /\ seen' = LET s == Append(seen, sample.pm25) IN
                    IF Len(s) > 2 THEN Tail(s) ELSE s
         /\ IF SpeedForPm(sample.pm25) <= speed \/ ~Confirm
            THEN ClearUpshift
            ELSE /\ readings' = NextReadings
                 /\ confirmation' =
                      IF readings = 0
                      THEN [stage |-> "sleeping", revision |-> sample.revision]
                      ELSE confirmation

\* Mutant of UpdateDownshiftTimers: a high reading leaves mature targets.
UpdateTimersKeepingMature(value) ==
    /\ timers' = {s \in LowerSpeeds : value <= Thresholds[s] /\ s \notin mature}
    /\ UNCHANGED mature

\* _update_downshift_timers: equality qualifies.
UpdateDownshiftTimers(value) ==
    /\ timers' = {s \in LowerSpeeds : value <= Thresholds[s] /\ s \notin mature}
    /\ mature' = {s \in mature : value <= Thresholds[s]}

\* Mutant of Deactivate: mature targets outlive the ownership.
DeactivateKeepingMature ==
    /\ active' = FALSE /\ waiting' = FALSE /\ pending' = FALSE
    /\ lastRevision' = 0 /\ samples' = <<>> /\ seen' = <<>>
    /\ ClearUpshift
    /\ timers' = {}
    /\ UNCHANGED mature

\* _deactivate_locked
Deactivate ==
    /\ active' = FALSE /\ waiting' = FALSE /\ pending' = FALSE
    /\ lastRevision' = 0 /\ samples' = <<>> /\ seen' = <<>>
    /\ ClearUpshift
    /\ timers' = {} /\ mature' = {}

------------------------------------------------------------------------------
\* The evaluator: _schedule_evaluation, _async_run_evaluations, _async_evaluate

\* Mutant of NextRound: an update heard during the evaluation is not looked at.
LastRound == "none"

\* After an evaluation the loop looks again whether another one is pending.
NextRound == "scheduled"

EvaluationStarts ==
    /\ evaluation = "scheduled"
    /\ IF pending /\ active
       THEN evaluation' = "lock" /\ pending' = FALSE
       ELSE evaluation' = "none" /\ UNCHANGED pending
    /\ UNCHANGED <<active, currentSpeed, waiting, samples, policyVars, operation,
                   command, coordinatorVars>>

\* The evaluator gets the controller's lock.
EvaluationLocks ==
    /\ evaluation = "lock"
    /\ LockFree
    /\ \/ /\ ~active
          /\ evaluation' = "none"
          /\ UNCHANGED <<active, inputVars, policyVars>>
       \/ /\ active /\ ~isOn
          /\ Deactivate
          /\ evaluation' = NextRound
       \/ /\ active /\ isOn
          /\ ~pm25Ok \/ waiting \/ currentSpeed = NoSpeed
          /\ evaluation' = NextRound
          /\ UNCHANGED <<active, inputVars, policyVars>>
       \/ /\ active /\ isOn /\ pm25Ok /\ ~waiting /\ currentSpeed # NoSpeed
          /\ evaluation' = "evaluating"
          /\ UNCHANGED <<active, inputVars, policyVars>>
    /\ UNCHANGED <<currentSpeed, operation, command, coordinatorVars>>

\* _async_set_speed to another speed: the new speed is recorded, then awaited.
SetSpeed(speed) ==
    /\ currentSpeed' = speed
    /\ command' = [speed |-> speed, previous |-> currentSpeed, sample |-> NoSample]

EvaluateSample ==
    LET sample == Head(samples) IN
    /\ evaluation = "evaluating"
    /\ samples # <<>>
    /\ samples' = Tail(samples)
    /\ UpdateDownshiftTimers(sample.pm25)
    /\ Observe(sample, currentSpeed)
    /\ IF Confirmed(sample, currentSpeed)
       THEN SetSpeed(SpeedForPm(sample.pm25)) /\ evaluation' = "upshift"
       ELSE UNCHANGED <<currentSpeed, command, evaluation>>
    /\ UNCHANGED <<active, waiting, pending, operation, coordinatorVars>>

Eligible == {s \in mature : s < currentSpeed}

LowestEligible == CHOOSE s \in Eligible : \A u \in Eligible : s <= u

\* Mutant of EvaluateDownshift: samples still queued are not looked at first.
EvaluateDownshiftFirst ==
    /\ evaluation = "evaluating"
    /\ IF Eligible # {}
       THEN SetSpeed(LowestEligible) /\ evaluation' = "downshift"
       ELSE /\ samples = <<>>
            /\ evaluation' = NextRound /\ UNCHANGED <<currentSpeed, command>>
    /\ UNCHANGED <<active, inputVars, policyVars, operation, coordinatorVars>>

EvaluateDownshift ==
    /\ evaluation = "evaluating"
    /\ samples = <<>>
    /\ IF Eligible # {}
       THEN SetSpeed(LowestEligible) /\ evaluation' = "downshift"
       ELSE evaluation' = NextRound /\ UNCHANGED <<currentSpeed, command>>
    /\ UNCHANGED <<active, inputVars, policyVars, operation, coordinatorVars>>

\* What a confirmed fan-mode command publishes: the power it found or turned on,
\* unless a push was newer.
Published ==
    /\ isOn' \in {TRUE, isOn}
    /\ UNCHANGED <<pm25, revision, pm25Ok>>

AutomaticCommandSucceeds ==
    /\ evaluation \in {"upshift", "downshift"}
    /\ Published
    /\ Notify
    /\ ClearUpshift
    /\ evaluation' = IF evaluation = "upshift" THEN "evaluating" ELSE NextRound
    /\ command' = NoCommand
    /\ UNCHANGED <<active, currentSpeed, lastRevision, seen, downshiftVars, operation>>

AutomaticCommandFails ==
    /\ evaluation \in {"upshift", "downshift"}
    /\ currentSpeed' = command.previous
    /\ pending' = FALSE
    /\ evaluation' = "failed"
    /\ command' = NoCommand
    /\ UNCHANGED <<active, waiting, samples, policyVars, operation, coordinatorVars>>

\* The failed evaluator has the lock again.
EvaluationFails ==
    /\ evaluation = "failed"
    /\ LockFree
    /\ waiting' = (waiting \/ active)
    /\ evaluation' = "none"
    /\ UNCHANGED <<active, currentSpeed, samples, pending, policyVars, operation,
                   command, coordinatorVars>>

------------------------------------------------------------------------------
\* async_activate, async_handoff, async_deactivate, async_stop

\* Activation takes over the restored speed, else the last one, else the
\* purifier's mode, and applies the current sample.  If the purifier is known
\* to be at that speed already no command is needed.
Activate(restored, force, mode) ==
    LET speed == IF restored # NoSpeed THEN restored
                 ELSE IF currentSpeed # NoSpeed THEN currentSpeed
                 ELSE IF mode # 0 THEN mode ELSE 1
        sample == [revision |-> revision, pm25 |-> pm25]
        upshift == pm25Ok /\ Confirmed(sample, speed)
        target == IF upshift THEN SpeedForPm(pm25) ELSE speed
    IN
    /\ LockFree
    /\ ~active
    /\ active' = TRUE
    /\ waiting' = ~pm25Ok
    /\ currentSpeed' = target
    /\ IF pm25Ok THEN Observe(sample, speed) ELSE UNCHANGED upshiftVars
    /\ IF ~force /\ ~upshift /\ mode = speed /\ isOn
       THEN /\ IF pm25Ok THEN UpdateDownshiftTimers(pm25) ELSE UNCHANGED downshiftVars
            /\ UNCHANGED <<operation, command>>
       ELSE /\ operation' = "activating"
            /\ command' = [speed |-> target, previous |-> currentSpeed,
                           sample |-> IF pm25Ok THEN <<pm25>> ELSE NoSample]
            /\ UNCHANGED downshiftVars
    /\ UNCHANGED <<samples, pending, evaluation, coordinatorVars>>

ActivationSucceeds ==
    /\ operation = "activating"
    /\ Published
    /\ Notify
    /\ evaluation' = AfterNotify
    /\ operation' = "none"
    /\ IF command.sample # NoSample THEN UpdateDownshiftTimers(Head(command.sample))
       ELSE UNCHANGED downshiftVars
    /\ command' = NoCommand
    /\ UNCHANGED <<active, currentSpeed, upshiftVars>>

\* async_activate(force=True) of an active controller sends its speed again.
Reassert ==
    /\ LockFree
    /\ active
    /\ operation' = "reasserting"
    /\ command' = [speed |-> currentSpeed, previous |-> currentSpeed,
                   sample |-> NoSample]
    /\ UNCHANGED <<active, currentSpeed, inputVars, policyVars, evaluation,
                   coordinatorVars>>

ReassertSucceeds ==
    /\ operation = "reasserting"
    /\ Published
    /\ Notify
    /\ evaluation' = AfterNotify
    /\ operation' = "none"
    /\ command' = NoCommand
    /\ UNCHANGED <<active, currentSpeed, policyVars>>

\* A failed activation or reassertion gives the ownership up.
ActivationFails ==
    /\ operation \in {"activating", "reasserting"}
    /\ currentSpeed' = command.previous
    /\ Deactivate
    /\ operation' = "none"
    /\ command' = NoCommand
    /\ UNCHANGED <<evaluation, coordinatorVars>>

Handoff ==
    /\ LockFree
    /\ operation' = "handoff"
    /\ UNCHANGED <<active, currentSpeed, inputVars, policyVars, evaluation, command,
                   coordinatorVars>>

\* The user's command changed mode or power; only then is ownership released.
HandoffSucceeds ==
    /\ operation = "handoff"
    /\ isOn' \in BOOLEAN
    /\ UNCHANGED <<pm25, revision, pm25Ok>>
    /\ Deactivate
    /\ evaluation' = AfterNotify
    /\ operation' = "none"
    /\ UNCHANGED <<currentSpeed, command>>

HandoffFails ==
    /\ operation = "handoff"
    /\ operation' = IF active /\ currentSpeed # NoSpeed THEN "fallback" ELSE "none"
    /\ UNCHANGED <<active, currentSpeed, inputVars, policyVars, evaluation, command,
                   coordinatorVars>>

\* The prior speed is reasserted, or that failed as well.
FallbackEnds ==
    /\ operation = "fallback"
    /\ operation' = "none"
    /\ \/ /\ Published
          /\ Notify
          /\ evaluation' = AfterNotify
       \/ UNCHANGED <<coordinatorVars, inputVars, evaluation>>
    /\ UNCHANGED <<active, currentSpeed, policyVars, command>>

\* async_deactivate; async_stop cancels the evaluator, too.
Stop ==
    /\ LockFree
    /\ Deactivate
    /\ evaluation' \in {evaluation, "none"}
    /\ UNCHANGED <<currentSpeed, operation, command, coordinatorVars>>

------------------------------------------------------------------------------
\* Timers

\* The confirmation delay is over and the lock free: one poll is requested,
\* unless the reading was confirmed, replaced or cleared in the meantime.
ConfirmationDue ==
    /\ confirmation.stage = "sleeping"
    /\ LockFree
    /\ confirmation' =
         IF /\ active /\ isOn /\ ~waiting /\ readings = 1
            /\ lastRevision = confirmation.revision
            /\ revision = confirmation.revision
         THEN [confirmation EXCEPT !.stage = "refreshing"] ELSE NoConfirmation
    /\ UNCHANGED <<active, currentSpeed, inputVars, lastRevision, readings, seen,
                   downshiftVars, evaluation, operation, command, coordinatorVars>>

ConfirmationEnds ==
    /\ NobodyRuns
    /\ confirmation.stage = "refreshing"
    /\ confirmation' = NoConfirmation
    /\ UNCHANGED <<active, currentSpeed, inputVars, lastRevision, readings, seen,
                   downshiftVars, evaluation, operation, command, coordinatorVars>>

\* The timer of a lower speed elapses.
DownshiftTimer(s) ==
    /\ NobodyRuns
    /\ s \in timers
    /\ timers' = timers \ {s}
    /\ mature' = IF active /\ isOn THEN mature \cup {s} ELSE mature
    /\ IF active /\ isOn /\ pm25Ok /\ ~waiting
       THEN pending' = TRUE /\ evaluation' = Scheduled
       ELSE UNCHANGED <<pending, evaluation>>
    /\ UNCHANGED <<active, currentSpeed, waiting, samples, upshiftVars, operation,
                   command, coordinatorVars>>

------------------------------------------------------------------------------
\* The coordinator

controllerVars == <<active, currentSpeed, policyVars, operation, command>>

\* A poll with a PM2.5 value, for the schedule's sake or a confirmation's.
PollSucceeds ==
    /\ NobodyRuns
    /\ revision < MaxRevision
    /\ revision' = revision + 1
    /\ pm25' \in PM
    /\ pm25Ok' = TRUE
    /\ isOn' \in BOOLEAN
    /\ Notify
    /\ evaluation' = AfterNotify
    /\ UNCHANGED controllerVars

\* A poll that fails (listeners hear of the first failure only) or that brings
\* no PM2.5 value.
PollWithoutSample ==
    /\ NobodyRuns
    /\ pm25Ok' = FALSE
    /\ UNCHANGED <<pm25, revision>>
    /\ \/ isOn' \in BOOLEAN /\ Notify /\ evaluation' = AfterNotify
       \/ UNCHANGED <<isOn, inputVars, evaluation>>
    /\ UNCHANGED controllerVars

\* A push, a night-light command or a power command publishes new state.
Publication ==
    /\ NobodyRuns
    /\ isOn' \in BOOLEAN
    /\ UNCHANGED <<pm25, revision, pm25Ok>>
    /\ Notify
    /\ evaluation' = AfterNotify
    /\ UNCHANGED controllerVars

------------------------------------------------------------------------------
Evaluator ==
    \/ EvaluationStarts \/ EvaluationLocks \/ EvaluateSample \/ EvaluateDownshift
    \/ AutomaticCommandSucceeds \/ AutomaticCommandFails \/ EvaluationFails

Owner ==
    \/ \E restored, mode \in 0..TopSpeed, force \in BOOLEAN :
           Activate(restored, force, mode)
    \/ ActivationSucceeds \/ Reassert \/ ReassertSucceeds \/ ActivationFails
    \/ Handoff \/ HandoffSucceeds \/ HandoffFails \/ FallbackEnds \/ Stop

Timer ==
    \/ ConfirmationDue \/ ConfirmationEnds
    \/ \E s \in LowerSpeeds : DownshiftTimer(s)

Coordinator == PollSucceeds \/ PollWithoutSample \/ Publication

Next == Evaluator \/ Owner \/ Timer \/ Coordinator

Spec == Init /\ [][Next]_vars

------------------------------------------------------------------------------
Samples == [revision : 1..MaxRevision, pm25 : PM]

TypeOK ==
    /\ active \in BOOLEAN
    /\ currentSpeed \in 0..TopSpeed
    /\ waiting \in BOOLEAN
    /\ samples \in Seq(Samples)
    /\ lastRevision \in 0..MaxRevision
    /\ readings \in 0..2
    /\ confirmation \in [stage : {"none", "sleeping", "refreshing"},
                         revision : 0..MaxRevision]
    /\ timers \subseteq LowerSpeeds
    /\ mature \subseteq LowerSpeeds \ timers
    /\ pending \in BOOLEAN
    /\ evaluation \in Evaluations
    /\ operation \in Operations
    /\ command \in [speed : 0..TopSpeed, previous : 0..TopSpeed,
                    sample : {NoSample} \cup {<<p>> : p \in PM}]
    /\ isOn \in BOOLEAN
    /\ pm25 \in PM \cup {0}
    /\ revision \in 0..MaxRevision
    /\ pm25Ok \in BOOLEAN

\* Giving ownership up (by a handoff, a power-off, a failed activation, unload)
\* leaves nothing behind that could act or be mistaken for evidence after the
\* next activation: no timer, mature target, sample, reading or confirmation.
InactiveIsClean ==
    ~active => /\ timers = {} /\ mature = {} /\ samples = <<>>
               /\ readings = 0 /\ confirmation = NoConfirmation
               /\ lastRevision = 0 /\ ~waiting /\ ~pending

\* An automatic downshift never goes below what the last valid sample requires,
\* however long ago its timer elapsed and whatever happened to the samples,
\* polls and commands in between.
DownshiftsCovered ==
    evaluation = "downshift" =>
        seen # <<>> /\ SpeedForPm(Last(seen)) <= command.speed

\* A downshift is decided on fresh data: the last poll brought a sample, and
\* that sample was looked at.
DownshiftsOnFreshData ==
    [][evaluation # "downshift" /\ evaluation' = "downshift" =>
         pm25Ok /\ ~waiting /\ lastRevision = revision]_vars

\* With a confirmation delay, an upshift needs two consecutive samples that
\* both require more than the speed it starts from.
UpshiftsConfirmed ==
    Confirm /\ evaluation = "upshift" =>
        /\ Len(seen) = 2
        /\ \A i \in 1..2 : SpeedForPm(seen[i]) > command.previous

\* Once it has observed one, an active controller observes every valid sample,
\* in order: those it did not get to yet are queued.
NoSampleLost ==
    active /\ lastRevision # 0 =>
        [i \in DOMAIN samples |-> samples[i].revision] =
        [i \in 1..(revision - lastRevision) |-> lastRevision + i]

\* Work that can be done is being done: with a successful update at hand, a
\* queued sample or a mature target below the current speed has its evaluator.
NoWorkStranded ==
    active /\ isOn /\ pm25Ok /\ ~waiting /\ (samples # <<>> \/ Eligible # {}) =>
        evaluation # "none"

==============================================================================
